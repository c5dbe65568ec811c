----------------------------- MODULE JsonParser -----------------------------
(***************************************************************************)
(* parser::sax_parse_internal of json.hpp with the json_sax_dom_parser     *)
(* that json::parse gives it, one step per token, and serializer::dump.    *)
(* The values being built live in a heap, where ref_stack and              *)
(* object_element point.                                                   *)
(***************************************************************************)
EXTENDS JsonSerializer, JsonNumbers

-----------------------------------------------------------------------------
(* Values: a type, what a scalar holds (the bytes of a string, the         *)
(* magnitude of an integer, the text of a float), and the elements; an     *)
(* object has its keys, in their order, beside them, and a binary value    *)
(* its subtype, when it has one.                                           *)

Value(type, text, keys, elements) ==
  [type |-> type, text |-> text, keys |-> keys, elements |-> elements]

scalar(type, text) == Value(type, text, <<>>, <<>>)
null          == scalar("null", <<>>)
string(text)  == scalar("string", text)
array(s)      == Value("array", <<>>, <<>>, s)
object(k, s)  == Value("object", <<>>, k, s)
discarded     == scalar("discarded", <<>>)

is_structured(v) == v.type \in {"array", "object"}

(* std::map keeps keys in the order of their bytes.                        *)
RECURSIVE less(_, _)
less(s, t) ==
  /\ t # <<>>
  /\ \/ s = <<>>
     \/ s[1] < t[1]
     \/ s[1] = t[1] /\ less(Tail(s), Tail(t))

sorted(keys) ==
  [i \in 1..Cardinality(keys) |->
     CHOOSE k \in keys : Cardinality({j \in keys : less(j, k)}) = i - 1]

(* The object with the members of a function from keys to values.          *)
objectOf(f) == object(sorted(DOMAIN f), [i \in DOMAIN sorted(DOMAIN f) |-> f[sorted(DOMAIN f)[i]]])

members(v) == [k \in Range(v.keys) |-> v.elements[CHOOSE i \in DOMAIN v.keys : v.keys[i] = k]]

-----------------------------------------------------------------------------
(* serializer::dump; step is its argument indent, -1 for one line.         *)

quoted(text, ascii) == <<Quote>> \o dump_escaped(text, ascii, "strict").written \o <<Quote>>

spaces(n) == [i \in 1..n |-> 32]

separatedBy(separator, parts) ==
  FoldLeft(LAMBDA all, p : IF all = <<>> THEN p ELSE all \o separator \o p, <<>>, parts)

(* What is between the brackets of a container, each part on its own line. *)
layout(parts, step, current) ==
  IF step < 0 \/ parts = <<>> THEN separatedBy(<<Comma>>, parts)
  ELSE <<10>> \o separatedBy(<<Comma, 10>>, [i \in DOMAIN parts |-> spaces(current + step) \o parts[i]])
         \o <<10>> \o spaces(current)

colon(step) == IF step < 0 THEN <<Colon>> ELSE <<Colon, 32>>

(* A binary value is written as an object, its bytes always on one line.   *)
bytesName   == <<98, 121, 116, 101, 115>>
subtypeName == <<115, 117, 98, 116, 121, 112, 101>>

number(b) == dump_integer(Integer("unsigned", strip(b)))

dumpBytes(b, step) ==
  <<Open>> \o separatedBy(IF step < 0 THEN <<Comma>> ELSE <<Comma, 32>>, [i \in DOMAIN b |-> number(<<b[i]>>)])
    \o <<Close>>

dumpBinary(v, step, current) ==
  <<Begin>>
    \o layout(<<<<Quote>> \o bytesName \o <<Quote>> \o colon(step) \o dumpBytes(v.text, step),
                <<Quote>> \o subtypeName \o <<Quote>> \o colon(step)
                  \o (IF v.keys = <<>> THEN null_literal ELSE number(v.keys[1]))>>, step, current)
    \o <<End>>

RECURSIVE dump(_, _, _, _)
dump(v, ascii, step, current) ==
  LET element(i) == dump(v.elements[i], ascii, step, IF step < 0 THEN 0 ELSE current + step)
  IN  CASE v.type = "object" ->
             <<Begin>>
               \o layout([i \in DOMAIN v.keys |-> quoted(v.keys[i], ascii) \o colon(step) \o element(i)],
                         step, current)
               \o <<End>>
        [] v.type = "array" ->
             <<Open>> \o layout([i \in DOMAIN v.elements |-> element(i)], step, current) \o <<Close>>
        [] v.type = "string" -> quoted(v.text, ascii)
        [] v.type = "binary" -> dumpBinary(v, step, current)
        [] v.type = "true"   -> true_literal
        [] v.type = "false"  -> false_literal
        [] v.type = "null"   -> null_literal
        [] v.type \in {"integer", "unsigned"} -> dump_integer(v)
        [] v.type = "float" -> dump_float(v.text)

-----------------------------------------------------------------------------
(* json_sax_dom_parser.  A place is where *object_element or a new element *)
(* goes: a node of the heap, and a key of it if it is an object.           *)

NoElement == [node |-> 0, key |-> <<>>]

Node(type, text) == [type |-> type, text |-> text, elements |-> <<>>, members |-> <<>>]

emptySax == [heap |-> <<>>, ref_stack |-> <<>>, object_element |-> NoElement]

back(sax) == Last(sax.ref_stack)

(* The new value becomes the root, the last element of an array, or what   *)
(* object_element points to.                                               *)
handle_value(sax, node) ==
  LET id   == Len(sax.heap) + 1
      heap == Append(sax.heap, node)
      e    == sax.object_element
  IN  CASE sax.ref_stack = <<>> -> [sax EXCEPT !.heap = heap]
        [] sax.ref_stack # <<>> /\ heap[back(sax)].type = "array" ->
             [sax EXCEPT !.heap = [heap EXCEPT ![back(sax)].elements = Append(@, id)]]
        [] OTHER ->
             [sax EXCEPT !.heap = [heap EXCEPT ![e.node].members = (e.key :> id) @@ @]]

start(sax, type) ==
  [handle_value(sax, Node(type, <<>>)) EXCEPT !.ref_stack = Append(@, Len(sax.heap) + 1)]

(* operator[] adds null where the key is new.                              *)
key_KeepsElement(sax, name) ==
  IF name \in DOMAIN sax.heap[back(sax)].members THEN sax
  ELSE [sax EXCEPT !.object_element = [node |-> back(sax), key |-> name]]

key(sax, name) ==
  LET node == sax.heap[back(sax)]
      id   == Len(sax.heap) + 1
      at   == [node |-> back(sax), key |-> name]
  IN  IF name \in DOMAIN node.members
      THEN [sax EXCEPT !.object_element = at]
      ELSE [sax EXCEPT !.object_element = at,
                       !.heap = [Append(@, Node("null", <<>>))
                                   EXCEPT ![back(sax)].members = (name :> id) @@ @]]

end(sax) == [sax EXCEPT !.ref_stack = Front(@)]

RECURSIVE valueAt(_, _)
valueAt(heap, id) ==
  LET n == heap[id]
  IN  CASE n.type = "array"  -> array([i \in DOMAIN n.elements |-> valueAt(heap, n.elements[i])])
        [] n.type = "object" -> objectOf([k \in DOMAIN n.members |-> valueAt(heap, n.members[k])])
        [] OTHER -> scalar(n.type, n.text)

-----------------------------------------------------------------------------
(* sax_parse_internal.  `states' is TRUE for an array; `at' is the         *)
(* get_token() the parser is in.                                           *)

emptyParser == [at |-> "value", states |-> <<>>, sax |-> emptySax]

scalarTypes == ("literal_null" :> "null") @@ ("literal_true" :> "true")
  @@ ("literal_false" :> "false") @@ ("value_string" :> "string")
  @@ ("value_integer" :> "integer") @@ ("value_unsigned" :> "unsigned")
  @@ ("value_float" :> "float")

Token(type, text) == [type |-> type, text |-> text]

fail(p) == [p EXCEPT !.at = "failed"]

(* A value is complete: what get_token() is asked for next.                *)
evaluate(p) == [p EXCEPT !.at = IF p.states = <<>> THEN "end"
                                ELSE IF Last(p.states) THEN "array" ELSE "object"]

(* An overflowing float is no finite number: its text stands for it.       *)
Infinite == <<>>

scalarOf(t) ==
  IF t.type \in {"value_integer", "value_unsigned"}
  THEN LET n == integerOf(t.text) IN scalar(n.type, n.text)
  ELSE scalar(scalarTypes[t.type], t.text)

parseValue(p, t) ==
  CASE t.type = "begin_object" ->
         [p EXCEPT !.at = "first_key", !.sax = start(@, "object")]
    [] t.type = "begin_array" ->
         [p EXCEPT !.at = "first_element", !.sax = start(@, "array")]
    [] t.type = "value_float" /\ t.text = Infinite -> fail(p)
    [] t.type \in DOMAIN scalarTypes /\ t # Token("value_float", Infinite) ->
         evaluate([p EXCEPT !.sax = handle_value(@, Node(scalarOf(t).type, scalarOf(t).text))])
    [] OTHER -> fail(p)

parseKey(p, t, then) ==
  IF t.type = "value_string" THEN [p EXCEPT !.at = then, !.sax = key(@, t.text)]
  ELSE fail(p)

closeEmpty(p) == evaluate([p EXCEPT !.sax = end(@)])
close(p)      == evaluate([p EXCEPT !.sax = end(@), !.states = Front(@)])

sax_parse_internal(p, t) ==
  CASE p.at = "value" -> parseValue(p, t)
    [] p.at = "first_key" ->
         IF t.type = "end_object" THEN closeEmpty(p) ELSE parseKey(p, t, "first_colon")
    [] p.at = "first_colon" ->
         IF t.type = "name_separator"
         THEN [p EXCEPT !.at = "value", !.states = Append(@, FALSE)] ELSE fail(p)
    [] p.at = "first_element" ->
         IF t.type = "end_array" THEN closeEmpty(p)
         ELSE parseValue([p EXCEPT !.states = Append(@, TRUE)], t)
    [] p.at = "array" ->
         CASE t.type = "value_separator" -> [p EXCEPT !.at = "value"]
           [] t.type = "end_array" -> close(p)
           [] OTHER -> fail(p)
    [] p.at = "object" ->
         CASE t.type = "value_separator" -> [p EXCEPT !.at = "key"]
           [] t.type = "end_object" -> close(p)
           [] OTHER -> fail(p)
    [] p.at = "key"   -> parseKey(p, t, "colon")
    [] p.at = "colon" -> IF t.type = "name_separator" THEN [p EXCEPT !.at = "value"] ELSE fail(p)
    [] OTHER -> p

(* parser::parse, strict: nothing may follow the value.                    *)
parse(p, t) ==
  IF p.at = "end"
  THEN [p EXCEPT !.at = IF t.type = "end_of_input" THEN "done" ELSE "failed"]
  ELSE sax_parse_internal(p, t)

result(p) == valueAt(p.sax.heap, 1)

-----------------------------------------------------------------------------
(* json::parse(text): the parser asks the lexer for tokens.                *)

(* The lexer after a character, which may have ended a token.              *)
nextTo(s, l) ==
  IF l.at = "token" THEN [lexer |-> reset, tokens |-> Append(s.tokens, Token(l.type, l.buffer))]
  ELSE [s EXCEPT !.lexer = l]

(* A character that ends a number is read again.                           *)
nextAgain(s, l, c) == IF l.at = "token" /\ l.unget THEN nextTo(s, get(reset, c)) ELSE s
nextOnce(s, l, c) == nextAgain(nextTo(s, l), l, c)
get_next(s, c) == nextOnce(s, get(s.lexer, c), c)

(* Both stop at what is wrong.  Half by half, for the depth of the         *)
(* evaluation to stay small in long texts.                                 *)
isWrong(s)    == s.tokens # <<>> /\ Last(s.tokens).type = "parse_error"
firstHalf(s)  == SubSeq(s, 1, Len(s) \div 2)
secondHalf(s) == SubSeq(s, (Len(s) \div 2) + 1, Len(s))

RECURSIVE scanAll(_, _), parseAll(_, _)
scanAll(s, text) ==
  CASE isWrong(s) -> s
    [] ~isWrong(s) /\ Len(text) = 1 -> get_next(s, text[1])
    [] OTHER -> scanAll(scanAll(s, firstHalf(text)), secondHalf(text))

parseAll(p, tokens) ==
  CASE p.at = "failed" -> p
    [] p.at # "failed" /\ Len(tokens) = 1 -> parse(p, tokens[1])
    [] OTHER -> parseAll(parseAll(p, firstHalf(tokens)), secondHalf(tokens))

tokensOf(text) == scanAll([lexer |-> go(reset, "text"), tokens |-> <<>>], Append(text, Eof)).tokens

json_parse(text) == parseAll(emptyParser, tokensOf(text))
=============================================================================
