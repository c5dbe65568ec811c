-------------------------------- MODULE Json --------------------------------
(***************************************************************************)
(* json::parse and dump at work: a text is read one character, or one      *)
(* token, at a time.  `subject' says what is read: the inside of a string  *)
(* as a peer may spell it, bytes of any kind, a number, a document, or a   *)
(* text in one of the binary formats, which is read or written; or a value *)
(* is patched again and again.                                             *)
(***************************************************************************)
EXTENDS JsonStrings, JsonPatch, JsonCallback

CONSTANTS
  NumberBytes, MaxNumber,   \* what is in a number, and how much of it
  DocumentTokens, MaxTokens,\* the tokens of documents, and how many
  MaxJunk,                  \* how far documents are read that are none
  BinaryBytes(_), MaxBinary,\* the bytes read in a format, and how many
  BinaryValues(_),          \* the values written in each format
  Values, MaxValues,        \* the values patched, and how many may be in one of theirs
  Operations, MergePatches  \* the patches

VARIABLES parser, written

jsonVars == <<stringVars, parser, written>>

nothing == Value("nothing", <<>>, <<>>, <<>>)

Init ==
  /\ subject \in {"string", "bytes", "number", "document", "patch"} \cup Formats
  /\ text \in Starts(subject)
  /\ lexer = IF subject = "number" THEN readFrom(reset, text) ELSE startingLexer
  /\ parser = IF subject = "document" THEN FoldLeft(parse, emptyParser, text) ELSE emptyParser
  /\ written \in IF subject = "patch" THEN Values ELSE {nothing}

Reading(what) == subject = what /\ UNCHANGED <<subject, written>>

ReadNumberByte(c) ==
  /\ Reading("number")
  /\ lexer.at # "token"
  /\ within(MaxNumber)
  /\ lexer.at = "start" => c \in Digit \cup {Minus}
  /\ lexer' = get(lexer, c)
  /\ text' = Append(text, c)
  /\ UNCHANGED parser

ReadToken(t) ==
  /\ Reading("document")
  /\ within(MaxTokens)
  /\ parser.at = "failed" => within(MaxJunk)
  /\ parser.at # "done"
  /\ parser' = parse(parser, t)
  /\ text' = Append(text, t)
  /\ UNCHANGED lexer

(* A text is read on while it ends inside its value.                       *)
ReadBinaryByte ==
  /\ subject \in Formats /\ written = nothing
  /\ within(MaxBinary)
  /\ sax_parse(subject, text).at = "eof"
  /\ \E c \in BinaryBytes(subject) : text' = Append(text, c)
  /\ UNCHANGED <<subject, lexer, parser, written>>

(* A document of BSON is an object.                                        *)
documentOf(f, v) == IF f = "bson" /\ v.type # "object" THEN object(<<<<97>>>>, <<v>>) ELSE v
options(f)       == IF f \in Ubjson THEN {"plain", "count", "type"} ELSE {"plain"}

WriteBinary ==
  /\ subject \in Formats /\ text = <<>> /\ written = nothing
  /\ \E v \in {documentOf(subject, w) : w \in BinaryValues(subject)}, o \in options(subject) :
       /\ isWritable(subject, v)
       /\ text' = to_binary(subject, o, v)
       /\ written' = v
  /\ UNCHANGED <<subject, lexer, parser>>

RECURSIVE valuesIn(_)
valuesIn(v) == 1 + FoldLeft(LAMBDA n, w : n + valuesIn(w), 0, v.elements)

Becomes(v) ==
  /\ valuesIn(v) <= MaxValues
  /\ written' = v
  /\ UNCHANGED <<subject, text, lexer, parser>>

Patch(o) ==
  /\ subject = "patch"
  /\ LET r == patch(written, <<o>>) IN r.at = "value" /\ Becomes(r.value)

MergePatch(p) == subject = "patch" /\ Becomes(merge_patch(written, p))

Next ==
  \/ \E o \in Operations : Patch(o)
  \/ \E p \in MergePatches : MergePatch(p)
  \/ ReadBinaryByte
  \/ WriteBinary
  \/ StringNext /\ UNCHANGED <<parser, written>>
  \/ \E c \in NumberBytes : ReadNumberByte(c)
  \/ \E t \in DocumentTokens : ReadToken(t)

Spec == Init /\ [][Next]_jsonVars

-----------------------------------------------------------------------------
(* Texts of wide characters.                                               *)

lengthBy(b) == CASE b \in 192..223 -> 2 [] b \in 224..239 -> 3 [] b \in 240..247 -> 4 [] OTHER -> 1

RECURSIVE codePoints(_)
codePoints(s) ==
  IF s = <<>> THEN <<>>
  ELSE LET n == lengthBy(s[1])
       IN  <<codePointOf(SubSeq(s, 1, n))>> \o codePoints(SubSeq(s, n + 1, Len(s)))

inUtf16(cp) == IF cp < 65536 THEN <<cp>>
               ELSE <<55296 + ((cp - 65536) \div 1024), 56320 + (cp % 1024)>>

(* A text of wide characters is read as the UTF-8 of its code points.      *)
WideTextsAreUtf8 ==
  subject = "bytes" /\ IsUtf8(text) =>
    LET units == codePoints(text)
    IN  utf32(units) = text /\ utf16(FoldLeft(LAMBDA s, cp : s \o inUtf16(cp), <<>>, units)) = text

-----------------------------------------------------------------------------
(* Numbers.                                                                *)

AreDigits(s) == s # <<>> /\ \A i \in DOMAIN s : s[i] \in Digit
IsInt(s) == AreDigits(s) /\ (s[1] = 48 => Len(s) = 1)
IsFrac(s) == s = <<>> \/ (s[1] = Dot /\ AreDigits(Tail(s)))
IsExp(s) ==
  \/ s = <<>>
  \/ /\ s[1] \in {LowerE, UpperE}
     /\ AreDigits(Tail(s)) \/ (Len(s) > 1 /\ s[2] \in {Plus, Minus} /\ AreDigits(SubSeq(s, 3, Len(s))))

(* RFC 8259, section 6.                                                    *)
IsNumber(s) ==
  LET t == IF s # <<>> /\ s[1] = Minus THEN Tail(s) ELSE s
  IN  \E i, j \in 0..Len(t) :
        i <= j /\ IsInt(SubSeq(t, 1, i)) /\ IsFrac(SubSeq(t, i + 1, j)) /\ IsExp(SubSeq(t, j + 1, Len(t)))

(* The scanner takes the numbers of the grammar, as many characters as one *)
(* can have, and an integer it takes for one is dumped as it was written   *)
(* (but -0): at the limits of the type, too.  A float is dumped as a float *)
(* of the same digits, before the point and behind it and with exponents.  *)
NumbersAreExact ==
  subject = "number" /\ text # <<>> =>
    LET t == IF lexer.at = "token" THEN lexer ELSE get(lexer, Eof)
    IN  /\ lexer.at # "token" => ((t.type # "parse_error") <=> IsNumber(text))
        /\ lexer.at = "token" => ~IsNumber(text)
        /\ t.type \in {"value_integer", "value_unsigned"} =>
             dump_integer(integerOf(t.buffer)) = IF t.buffer = <<Minus, 48>> THEN <<48>> ELSE t.buffer
        /\ t.type = "value_float" /\ Len(grisu2(t.buffer).digits) <= kMaxExp =>
             LET again == firstToken(dump_float(t.buffer))
             IN  again.type = "value_float" /\ grisu2(again.buffer) = grisu2(t.buffer)

-----------------------------------------------------------------------------
(* Documents.                                                              *)

Types(w) == [i \in DOMAIN w |-> w[i].type]

(* The grammar of RFC 8259, and the value a text stands for: of members    *)
(* with the same name the last.                                            *)
RECURSIVE meaning(_), elementsOf(_), membersOf(_)
NoMeaning == scalar("none", <<>>)

meaning(w) ==
  LET n == Len(w)
      inner == SubSeq(w, 2, n - 1)
  IN  CASE n = 1 /\ w[1].type \in DOMAIN scalarTypes /\ w[1] # Token("value_float", Infinite) ->
             scalarOf(w[1])
        [] n = 2 /\ Types(w) = <<"begin_array", "end_array">> -> array(<<>>)
        [] n = 2 /\ Types(w) = <<"begin_object", "end_object">> -> object(<<>>, <<>>)
        [] n > 2 /\ w[1].type = "begin_array" /\ w[n].type = "end_array" /\ elementsOf(inner) # {} ->
             array(CHOOSE s \in elementsOf(inner) : TRUE)
        [] n > 2 /\ w[1].type = "begin_object" /\ w[n].type = "end_object" /\ membersOf(inner) # {} ->
             objectOf(CHOOSE f \in membersOf(inner) : TRUE)
        [] OTHER -> NoMeaning

elementsOf(w) ==
  (IF meaning(w) = NoMeaning THEN {} ELSE {<<meaning(w)>>})
    \cup UNION {{<<meaning(SubSeq(w, 1, i - 1))>> \o s : s \in elementsOf(SubSeq(w, i + 1, Len(w)))} :
                 i \in {j \in 2..Len(w) - 1 : w[j].type = "value_separator"
                                               /\ meaning(SubSeq(w, 1, j - 1)) # NoMeaning}}

membersOf(w) ==
  IF Len(w) < 3 \/ w[1].type # "value_string" \/ w[2].type # "name_separator" THEN {}
  ELSE (IF meaning(SubSeq(w, 3, Len(w))) = NoMeaning THEN {}
        ELSE {w[1].text :> meaning(SubSeq(w, 3, Len(w)))})
       \cup UNION {{f @@ (w[1].text :> meaning(SubSeq(w, 3, i - 1))) : f \in membersOf(SubSeq(w, i + 1, Len(w)))} :
                    i \in {j \in 4..Len(w) - 1 : w[j].type = "value_separator"
                                                  /\ meaning(SubSeq(w, 3, j - 1)) # NoMeaning}}

(* A value without what a callback discards; none if that is all of it.    *)
RECURSIVE remains(_, _, _), settled(_)
remains(callback, v, at) ==
  LET keep(event, w) == keeps(callback, at, event, w)
      parts == [i \in DOMAIN v.elements |-> remains(callback, v.elements[i], at + 1)]
      stay  == {i \in DOMAIN v.keys : keeps(callback, at + 1, "key", string(v.keys[i])) /\ parts[i] # <<>>}
      whole == IF v.type = "array" THEN array(concatenated(parts))
               ELSE objectOf([k \in {v.keys[i] : i \in stay} |->
                                parts[CHOOSE i \in stay : v.keys[i] = k][1]])
  IN  IF ~is_structured(v) THEN (IF keep("value", v) THEN <<v>> ELSE <<>>)
      ELSE IF keep(v.type \o "_start", discarded) /\ keep(v.type \o "_end", whole) THEN <<whole>> ELSE <<>>

(* A value without its discarded members.                                  *)
settled(v) ==
  IF v.type = "object"
  THEN LET f == members(v)
       IN  objectOf([k \in {j \in DOMAIN f : f[j] # discarded} |-> settled(f[k])])
  ELSE [v EXCEPT !.elements = [i \in DOMAIN v.elements |-> settled(v.elements[i])]]

(* A member's scalar or array was discarded somewhere in v.                *)
RECURSIVE mayStay(_, _, _)
mayStay(callback, v, at) ==
  \E i \in DOMAIN v.elements :
    LET w == v.elements[i]
    IN  \/ mayStay(callback, w, at + 1)
        \/ v.type = "object" /\ w.type # "object" /\ remains(callback, w, at + 1) = <<>>

(* What a callback discards is gone, and nothing else, but for members     *)
(* whose scalar or array was discarded: those may stay, as discarded       *)
(* values, until an object ends beside them.                               *)
FilteredAsAsked(v) ==
  \A callback \in Callbacks : \E w \in {filtered(text, callback)} :
    Append(remains(callback, v, 0), null)[1] = IF mayStay(callback, v, 0) THEN settled(w) ELSE w

(* Whatever the indent, dump() writes a text that stands for w.            *)
DumpedAs(v, w, steps) == \A step \in steps : result(json_parse(dump(v, FALSE, step, 0))) = w

(* What the parser makes of the tokens is what they stand for.             *)
StandsFor(p, v) ==
  IF parser.at \in {"done", "failed"} THEN parser.at = "failed" => v = NoMeaning
  ELSE /\ (p.at = "done") <=> (v # NoMeaning)
       /\ p.at = "done" => result(p) = v /\ DumpedAs(v, v, {-1, 0, 2}) /\ FilteredAsAsked(v)

(* The parser takes the documents and no other text, and builds the value  *)
(* each stands for; dump() and another parser give that value again.  With *)
(* a callback it builds the value without what the callback discards.      *)
DocumentsAreUnderstood ==
  subject = "document" /\ text # <<>> =>
    StandsFor(parse(parser, Token("end_of_input", <<>>)), meaning(text))

-----------------------------------------------------------------------------
(* Binary formats.                                                         *)

RECURSIVE hasSubtype(_)
hasSubtype(v) ==
  \/ v.type = "binary" /\ v.keys # <<>>
  \/ \E i \in DOMAIN v.elements : hasSubtype(v.elements[i])

(* What a format keeps of a value: a subtype of eight bits, a subtype for  *)
(* every binary value, none, or no binary values at all.                   *)
RECURSIVE kept(_, _)
kept(f, v) ==
  CASE v.type = "binary" /\ f = "cbor_ignore" -> binary(v.text)
    [] v.type = "binary" /\ f = "msgpack" /\ v.keys # <<>> -> binaryOf(v.text, padded(v.keys[1], 1))
    [] v.type = "binary" /\ f = "bson" ->
         binaryOf(v.text, padded(IF v.keys = <<>> THEN <<>> ELSE v.keys[1], 1))
    [] v.type = "binary" /\ f \in Ubjson ->
         array([i \in DOMAIN v.text |-> unsignedOf(<<v.text[i]>>)])
    [] OTHER -> [v EXCEPT !.elements = [i \in DOMAIN v.elements |-> kept(f, v.elements[i])]]

Written == subject \in Formats /\ written # nothing

RECURSIVE hasFloat(_), asText(_)
hasFloat(v) == v.type = "float" \/ \E i \in DOMAIN v.elements : hasFloat(v.elements[i])

(* A value as JSON has it: a binary value is an object of its bytes and    *)
(* its subtype.                                                            *)
asText(v) ==
  IF v.type = "binary"
  THEN object(<<bytesName, subtypeName>>,
              <<array([i \in DOMAIN v.text |-> unsignedOf(<<v.text[i]>>)]),
                IF v.keys = <<>> THEN null ELSE unsignedOf(v.keys[1])>>)
  ELSE [v EXCEPT !.elements = [i \in DOMAIN v.elements |-> asText(v.elements[i])]]

(* What is written is read as the same value, at each limit of a length    *)
(* and of a number, and whether or not the optimized forms are used.  CBOR *)
(* alone does not read all it writes: a subtype is a tag, which is refused *)
(* unless the caller says otherwise.  The same values are dumped as texts  *)
(* that stand for them, on one line or on many.                            *)
WrittenIsReadBack ==
  Written =>
    /\ sax_parse(subject, text) = IF subject = "cbor" /\ hasSubtype(written) THEN ParseError
                                  ELSE Got(kept(subject, written), Len(text) + 1)
    /\ subject = "cbor" /\ ~hasFloat(written) /\ Len(text) < 64 =>
         DumpedAs(written, asText(written), {-1, 2})

(* The sizes of documents are those BSON asks for, and a text that was cut *)
(* short is no value.                                                      *)
CutTextsAreNoValues ==
  Written =>
    /\ subject = "bson" => size(get_number("bson", text, 1, 4).value) = Len(text)
    /\ Len(text) < 64 => \A n \in 0..Len(text) - 1 : sax_parse(subject, SubSeq(text, 1, n)).at # "value"

(* Whatever a text is read as can be written again, and read as the same.  *)
ReadValuesAreWritable ==
  subject \in Formats /\ written = nothing =>
    \A r \in {sax_parse(subject, text)} : r.at = "value" =>
      /\ isWritable(subject, r.value)
      /\ \A o \in options(subject) : \A w \in {to_binary(subject, o, r.value)} :
           sax_parse(subject, w) = Got(r.value, Len(w) + 1)

-----------------------------------------------------------------------------
(* Patches.                                                                *)

(* The patch that diff() makes of two values turns the one into the other: *)
(* its operations come in an order in which every index is valid when it   *)
(* is its turn, and its paths name the keys they were made of.             *)
DiffsApply ==
  subject = "patch" => \A v \in Values :
    /\ patch(written, diff(written, v, <<>>)) = ok(v)
    /\ patch(v, diff(v, written, <<>>)) = ok(written)

RECURSIVE flattened(_), hasZero(_)
flattened(v) ==
  IF is_structured(v) /\ v.elements = <<>> THEN null
  ELSE [v EXCEPT !.elements = [i \in DOMAIN v.elements |-> flattened(v.elements[i])]]

hasZero(v) == <<48>> \in Range(v.keys) \/ \E i \in DOMAIN v.elements : hasZero(v.elements[i])

(* contains() finds what at() finds, and throws for an empty name in an    *)
(* array only; operator[] puts a value where at() finds it.  "-" is behind *)
(* the elements, and is nowhere: put there, a value is added.              *)
FoundWhereItIs(v, path) ==
  LET ptr   == split(path).value
      found == get_checked(v, ptr)
      after == get_unchecked(v, ptr, discarded)
      isAdd == ptr # <<>> /\ Last(ptr) = <<Minus>> /\ get_checked(v, Front(ptr)).at = "value"
                 /\ get_checked(v, Front(ptr)).value.type = "array"
  IN  /\ contains(v, ptr) = ok(found.at = "value") \/ (contains(v, ptr) = ParseError /\ <<>> \in Range(ptr))
      /\ found.at = "value" => after = ok(assign(v, ptr, discarded))
      /\ after.at = "value" /\ <<Minus>> \notin Range(ptr) => get_checked(after.value, ptr) = ok(discarded)
      /\ isAdd => after = operation_add(v, ptr, discarded)

(* unflatten() undoes flatten(), as far as can be: empty containers are    *)
(* null, and a member named 0 may have been an element.  The order of the  *)
(* flat object, in which /10 comes before /2, does not matter.  Its names  *)
(* are pointers to its values, and all who take pointers agree about them. *)
FlattenedIsUnflattened ==
  subject = "patch" =>
    /\ ~hasZero(written) => unflatten(flatten(written)) = ok(flattened(written))
    /\ \A path \in Range(flatten(written).keys) :
         /\ get_checked(flattened(written), split(path).value) = ok(members(flatten(written))[path])
         /\ FoundWhereItIs(written, path)
    /\ \A o \in Operations : FoundWhereItIs(written, o.path)
=============================================================================
