---------------------------- MODULE JsonCallback ----------------------------
(***************************************************************************)
(* json_sax_dom_callback_parser of json.hpp: what json::parse builds when  *)
(* its caller says of every value, key and bracket whether to keep it.     *)
(* The program never passes a callback.                                    *)
(***************************************************************************)
EXTENDS JsonParser

CONSTANTS
  Callbacks,           \* parser_callback_t
  keeps(_, _, _, _)    \* what a callback returns at a depth, for an event and a value

Nowhere == 0        \* the null pointer in ref_stack: a container not kept

filterSax == [heap |-> <<>>, ref_stack |-> <<>>, object_element |-> NoElement,
              keep_stack |-> <<TRUE>>, key_keep_stack |-> <<>>]

depth(sax) == Len(sax.ref_stack)

(* Whether there is a place for a value that the callback lets through.    *)
isWanted(sax) == Last(sax.keep_stack) /\ (sax.ref_stack # <<>> => back(sax) # Nowhere)

inObject(sax) == sax.ref_stack # <<>> /\ sax.heap[back(sax)].type = "object"

(* handle_value: only a value that comes this far uses up its key's mark.  *)
filterValue(sax, node) ==
  LET used == [sax EXCEPT !.key_keep_stack = Front(@)]
  IN  CASE ~isWanted(sax) -> sax
        [] isWanted(sax) /\ ~inObject(sax) -> handle_value(sax, node)
        [] OTHER -> IF Last(sax.key_keep_stack) THEN handle_value(used, node) ELSE used

filterScalar(sax, v, callback) ==
  IF Last(sax.keep_stack) /\ ~keeps(callback, depth(sax), "value", v) THEN sax
  ELSE filterValue(sax, Node(v.type, v.text))

filterStart(sax, type, callback) ==
  LET asked == [sax EXCEPT !.keep_stack = Append(@, keeps(callback, depth(sax), type \o "_start", discarded))]
      added == filterValue(asked, Node(type, <<>>))
      place == IF added.heap = sax.heap THEN Nowhere ELSE Len(added.heap)
  IN  [added EXCEPT !.ref_stack = Append(@, place)]

(* A member is discarded until it has its value.                           *)
filterKey(sax, name, callback) ==
  LET keep  == keeps(callback, depth(sax), "key", string(name))
      asked == [sax EXCEPT !.key_keep_stack = Append(@, keep)]
      id    == Len(sax.heap) + 1
  IN  IF keep /\ back(sax) # Nowhere
      THEN [asked EXCEPT !.object_element = [node |-> back(sax), key |-> name],
                         !.heap = [Append(@, Node("discarded", <<>>))
                                     EXCEPT ![back(sax)].members = (name :> id) @@ @]]
      ELSE asked

keepsEnd(sax, type, callback) ==
  back(sax) = Nowhere \/ keeps(callback, depth(sax) - 1, type \o "_end", valueAt(sax.heap, back(sax)))

popped(sax, keep) ==
  [sax EXCEPT !.heap = IF keep THEN @ ELSE [@ EXCEPT ![back(sax)] = Node("discarded", <<>>)],
              !.ref_stack = Front(@), !.keep_stack = Front(@)]

isDiscarded(sax, id) == sax.heap[id].type = "discarded"

(* The first discarded element of a container, and no other, goes.         *)
eraseDiscarded(sax) ==
  LET node  == sax.heap[back(sax)]
      gone  == {i \in DOMAIN node.elements : isDiscarded(sax, node.elements[i])}
      names == {k \in DOMAIN node.members : isDiscarded(sax, node.members[k])}
      first == sorted(names)[1]
  IN  CASE gone # {}  -> [sax EXCEPT !.heap[back(sax)].elements = RemoveAt(@, Min(gone))]
        [] names # {} -> [sax EXCEPT !.heap[back(sax)].members =
                            [k \in DOMAIN node.members \ {first} |-> node.members[k]]]
        [] OTHER -> sax

filterEndObject(sax, callback) ==
  LET ended == popped(sax, keepsEnd(sax, "object", callback))
  IN  IF ended.ref_stack # <<>> /\ back(ended) # Nowhere THEN eraseDiscarded(ended) ELSE ended

filterEndArray(sax, callback) ==
  LET keep  == keepsEnd(sax, "array", callback)
      ended == popped(sax, keep)
  IN  IF ~keep /\ ended.ref_stack # <<>> /\ ended.heap[back(ended)].type = "array"
      THEN [ended EXCEPT !.heap[back(ended)].elements = Front(@)] ELSE ended

-----------------------------------------------------------------------------
(* What the parser tells its handler of a token.                           *)

filterToken(sax, at, t, callback) ==
  CASE at \in {"first_key", "key"} /\ t.type = "value_string" -> filterKey(sax, t.text, callback)
    [] t.type = "begin_object" -> filterStart(sax, "object", callback)
    [] t.type = "begin_array"  -> filterStart(sax, "array", callback)
    [] t.type = "end_object"   -> filterEndObject(sax, callback)
    [] t.type = "end_array"    -> filterEndArray(sax, callback)
    [] at \notin {"first_key", "key"} /\ t.type \in DOMAIN scalarTypes ->
         filterScalar(sax, scalarOf(t), callback)
    [] OTHER -> sax                                   \* a separator

filterStep(f, t, callback) ==
  [parser |-> parse(f.parser, t), sax |-> filterToken(f.sax, f.parser.at, t, callback)]

(* parse(), with a callback, of the tokens of a document.                  *)
filtered(tokens, callback) ==
  LET heap == FoldLeft(LAMBDA f, t : filterStep(f, t, callback),
                       [parser |-> emptyParser, sax |-> filterSax], tokens).sax.heap
  IN  IF heap = <<>> \/ heap[1].type = "discarded" THEN null ELSE valueAt(heap, 1)
=============================================================================
