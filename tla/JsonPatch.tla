----------------------------- MODULE JsonPatch -----------------------------
(***************************************************************************)
(* JSON pointers, flatten, and the patches of json.hpp.  A patch is a      *)
(* sequence of operations, each a record of its members; those in which a  *)
(* member is missing or of the wrong type are left out.  The program       *)
(* includes this code with the header and does not call it.                *)
(***************************************************************************)
EXTENDS BinaryWriter

Tilde == 126

ok(v)          == Got(v, 0)
try(r, Op(_))  == then(r, LAMBDA v, next : Op(v))
Assertion      == [at |-> "assertion"]     \* JSON_ASSERT(false)

-----------------------------------------------------------------------------
(* Pointers: the sequence of their reference tokens.                       *)

RECURSIVE replace_substring(_, _, _)
replace_substring(s, f, t) ==
  LET rest(n) == replace_substring(SubSeq(s, n + 1, Len(s)), f, t)
  IN  CASE Len(s) < Len(f)   -> s
        [] IsPrefix(f, s) -> t \o rest(Len(f))
        [] OTHER -> <<s[1]>> \o rest(1)

escape_token(name) ==
  replace_substring(replace_substring(name, <<Tilde>>, <<Tilde, 48>>), <<Slash>>, <<Tilde, 49>>)

unescape_ZeroFirst(name) ==
  replace_substring(replace_substring(name, <<Tilde, 48>>, <<Tilde>>), <<Tilde, 49>>, <<Slash>>)

unescape(name) ==
  replace_substring(replace_substring(name, <<Tilde, 49>>, <<Slash>>), <<Tilde, 48>>, <<Tilde>>)

isEscaped(name) ==
  \A i \in DOMAIN name : name[i] = Tilde => i < Len(name) /\ name[i + 1] \in {48, 49}

split(text) ==
  LET tokens == FoldLeft(LAMBDA all, c :
                           IF c = Slash THEN Append(all, <<>>) ELSE Front(all) \o <<Append(Last(all), c)>>,
                         <<>>, text)
  IN  CASE text = <<>> -> ok(<<>>)
        [] text # <<>> /\ text[1] # Slash -> ParseError
        [] OTHER -> IF \A i \in DOMAIN tokens : isEscaped(tokens[i])
                    THEN ok([i \in DOMAIN tokens |-> unescape(tokens[i])]) ELSE ParseError

to_string(n) == digits(naturalNumber(n).text)

(* No leading zero, no sign, no space, nothing behind the digits.          *)
array_index(name) ==
  IF name # <<>> /\ (\A i \in DOMAIN name : name[i] \in Digit) /\ (name[1] = 48 => Len(name) = 1)
  THEN ok(size(magnitude(name))) ELSE ParseError

-----------------------------------------------------------------------------
(* Values below a pointer.                                                 *)

has(v, k)           == k \in Range(v.keys)
withMember(v, k, w) == objectOf((k :> w) @@ members(v))
without(v, k)       == LET f == members(v) IN objectOf([j \in DOMAIN f \ {k} |-> f[j]])
withElement(v, i, w) == array([j \in 1..(IF i > Len(v.elements) THEN i ELSE Len(v.elements)) |->
                          CASE j = i -> w [] j # i /\ j <= Len(v.elements) -> v.elements[j] [] OTHER -> null])

(* The element of a name: none, and at() throws.                  *)
child(v, name) ==
  CASE v.type = "object" -> IF has(v, name) THEN ok(members(v)[name]) ELSE ParseError
    [] v.type = "array"  -> try(array_index(name), LAMBDA n :
                              IF n < Len(v.elements) THEN ok(v.elements[n + 1]) ELSE ParseError)
    [] OTHER -> ParseError

RECURSIVE get_checked(_, _), assign(_, _, _)
get_checked(v, ptr) ==
  IF ptr = <<>> THEN ok(v)
  ELSE try(child(v, ptr[1]), LAMBDA w : get_checked(w, Tail(ptr)))

(* v once `at(ptr) = w', where there is something at ptr.                  *)
assign(v, ptr, w) ==
  CASE ptr = <<>> -> w
    [] ptr # <<>> /\ v.type = "object" ->
         withMember(v, ptr[1], assign(members(v)[ptr[1]], Tail(ptr), w))
    [] OTHER -> LET n == array_index(ptr[1]).value
                IN  withElement(v, n + 1, assign(v.elements[n + 1], Tail(ptr), w))

(* Whether there is something at ptr.  An empty name in an array is no     *)
(* index, and is the one that is not found out before array_index throws.  *)
RECURSIVE contains(_, _)
contains(v, ptr) ==
  LET name == ptr[1]
      isIndex == /\ name \in {<<c>> : c \in Digit} \/ Len(name) # 1
                 /\ Len(name) > 1 => name[1] \in Digit \ {48} /\ \A i \in 2..Len(name) : name[i] \in Digit
  IN  CASE ptr = <<>> -> ok(TRUE)
        [] ptr # <<>> /\ v.type = "object" ->
             IF has(v, name) THEN contains(members(v)[name], Tail(ptr)) ELSE ok(FALSE)
        [] ptr # <<>> /\ v.type = "array" ->
             IF ~isIndex THEN ok(FALSE)
             ELSE try(array_index(name), LAMBDA n :
                    IF n < Len(v.elements) THEN contains(v.elements[n + 1], Tail(ptr)) ELSE ok(FALSE))
        [] OTHER -> ok(FALSE)

(* v once `v[ptr] = w': what is missing on the way is made, a null becomes *)
(* an array for a number or "-", and an array is filled up with nulls.     *)
RECURSIVE get_unchecked(_, _, _)
get_unchecked(v, ptr, w) ==
  LET name  == ptr[1]
      nums  == \A i \in DOMAIN name : name[i] \in Digit
      type  == CASE v.type # "null" -> v.type [] nums \/ name = <<Minus>> -> "array" [] OTHER -> "object"
      place == IF name = <<Minus>> THEN ok(Len(v.elements)) ELSE array_index(name)
      elementAt(i) == IF i <= Len(v.elements) THEN v.elements[i] ELSE null
      memberAt(k)  == IF has(v, k) THEN members(v)[k] ELSE null
  IN  CASE ptr = <<>> -> ok(w)
        [] ptr # <<>> /\ type = "array" ->
             try(place, LAMBDA n :
               as(get_unchecked(elementAt(n + 1), Tail(ptr), w), LAMBDA e : withElement(v, n + 1, e)))
        [] ptr # <<>> /\ type = "object" ->
             as(get_unchecked(memberAt(name), Tail(ptr), w), LAMBDA e : withMember(v, name, e))
        [] OTHER -> ParseError

-----------------------------------------------------------------------------
(* patch.                                                                  *)

insert(v, n, w) ==
  IF n > Len(v.elements) THEN ParseError ELSE ok(array(InsertAt(v.elements, n + 1, w)))

addTo(parent, name, w) ==
  CASE parent.type = "null"   -> ok(object(<<name>>, <<w>>))
    [] parent.type = "object" -> ok(withMember(parent, name, w))
    [] parent.type = "array" /\ name = <<Minus>> -> ok(array(Append(parent.elements, w)))
    [] parent.type = "array" /\ name # <<Minus>> ->
         try(array_index(name), LAMBDA n : insert(parent, n, w))
    [] OTHER -> Assertion

removeFrom(parent, name) ==
  CASE parent.type = "object" -> IF has(parent, name) THEN ok(without(parent, name)) ELSE ParseError
    [] parent.type = "array" ->
         try(array_index(name), LAMBDA n :
           IF n < Len(parent.elements) THEN ok(array(RemoveAt(parent.elements, n + 1))) ELSE ParseError)
    [] OTHER -> ok(parent)

(* The parent of what ptr points to is there, and becomes Op of it.        *)
atParent(v, ptr, Op(_, _)) ==
  try(get_checked(v, Front(ptr)), LAMBDA parent :
    as(Op(parent, Last(ptr)), LAMBDA p : assign(v, Front(ptr), p)))

operation_add(v, ptr, w) ==
  IF ptr = <<>> THEN ok(w) ELSE atParent(v, ptr, LAMBDA parent, name : addTo(parent, name, w))

operation_remove(v, ptr) == IF ptr = <<>> THEN ParseError ELSE atParent(v, ptr, removeFrom)

moved(v, ptr, from) ==
  try(get_checked(v, from), LAMBDA w :
    try(operation_remove(v, from), LAMBDA rest : operation_add(rest, ptr, w)))

operate(v, o) ==
  try(split(o.path), LAMBDA ptr :
    CASE o.op = "add"     -> operation_add(v, ptr, o.value)
      [] o.op = "remove"  -> operation_remove(v, ptr)
      [] o.op = "replace" -> as(get_checked(v, ptr), LAMBDA old : assign(v, ptr, o.value))
      [] o.op = "move"    -> try(split(o.from), LAMBDA from : moved(v, ptr, from))
      [] o.op = "copy"    -> try(split(o.from), LAMBDA from :
                               try(get_checked(v, from), LAMBDA w : operation_add(v, ptr, w)))
      [] o.op = "test"    -> IF get_checked(v, ptr) = ok(o.value) THEN ok(v) ELSE ParseError
      [] OTHER -> ParseError)

patch(v, operations) == FoldLeft(LAMBDA r, o : try(r, LAMBDA w : operate(w, o)), ok(v), operations)

-----------------------------------------------------------------------------
(* diff.                                                                   *)

Added(path, w)    == [op |-> "add", path |-> path, value |-> w]
Removed(path)     == [op |-> "remove", path |-> path]
Replaced(path, w) == [op |-> "replace", path |-> path, value |-> w]

below(path, name) == path \o <<Slash>> \o name

(* The elements beyond the first n, the last first.                        *)
removals_Forward(path, n, length) == [i \in 1..length - n |-> Removed(below(path, to_string(n + i - 1)))]
removals(path, n, length) == [i \in 1..length - n |-> Removed(below(path, to_string(length - i)))]

RECURSIVE diff(_, _, _)
arrayDiff(v, w, path) ==
  LET lesser == IF Len(v.elements) < Len(w.elements) THEN Len(v.elements) ELSE Len(w.elements)
  IN  concatenated([i \in 1..lesser |-> diff(v.elements[i], w.elements[i], below(path, to_string(i - 1)))])
        \o removals(path, lesser, Len(v.elements))
        \o [i \in 1..Len(w.elements) - lesser |-> Added(below(path, <<Minus>>), w.elements[lesser + i])]

objectDiff(v, w, path) ==
  LET at(k) == below(path, escape_token(k))
  IN  each(LAMBDA k : IF has(w, k) THEN diff(members(v)[k], members(w)[k], at(k)) ELSE <<Removed(at(k))>>,
           v.keys)
        \o each(LAMBDA k : <<Added(at(k), members(w)[k])>>, SelectSeq(w.keys, LAMBDA k : ~has(v, k)))

diff(v, w, path) ==
  CASE v = w -> <<>>
    [] v # w /\ v.type = w.type /\ v.type = "array"  -> arrayDiff(v, w, path)
    [] v # w /\ v.type = w.type /\ v.type = "object" -> objectDiff(v, w, path)
    [] OTHER -> <<Replaced(path, w)>>

-----------------------------------------------------------------------------
(* flatten and unflatten, merge_patch.                                     *)

RECURSIVE flat(_, _), create(_, _, _), merge_patch(_, _)

(* The primitive values by the pointers to them.                           *)
flat(path, v) ==
  LET at(i) == IF v.type = "array" THEN to_string(i - 1) ELSE escape_token(v.keys[i])
  IN  CASE ~is_structured(v) -> path :> v
        [] is_structured(v) /\ v.elements = <<>> -> path :> null
        [] OTHER -> FoldLeft(LAMBDA f, i : flat(below(path, at(i)), v.elements[i]) @@ f, <<>>,
                             [i \in DOMAIN v.elements |-> i])

flatten(v) == objectOf(flat(<<>>, v))

(* get_and_create: a null on the way becomes an array for "0", else an     *)
(* object; an array is filled up with nulls.                               *)
create(v, ptr, w) ==
  LET elementAt(i) == IF i <= Len(v.elements) THEN v.elements[i] ELSE null
      memberAt(k)  == IF has(v, k) THEN members(v)[k] ELSE null
  IN  CASE ptr = <<>> -> ok(w)
        [] ptr # <<>> /\ (v.type = "array" \/ (v.type = "null" /\ ptr[1] = <<48>>)) ->
             try(array_index(ptr[1]), LAMBDA n :
               as(create(elementAt(n + 1), Tail(ptr), w), LAMBDA e : withElement(v, n + 1, e)))
        [] ptr # <<>> /\ (v.type = "object" \/ (v.type = "null" /\ ptr[1] # <<48>>)) ->
             as(create(memberAt(ptr[1]), Tail(ptr), w), LAMBDA e : withMember(v, ptr[1], e))
        [] OTHER -> ParseError

unflatten(v) ==
  IF v.type # "object" \/ (\E i \in DOMAIN v.elements : is_structured(v.elements[i])) THEN ParseError
  ELSE FoldLeft(LAMBDA r, k : try(r, LAMBDA d :
                                try(split(k), LAMBDA ptr : create(d, ptr, members(v)[k]))),
                ok(null), v.keys)

merge_patch(v, p) ==
  LET base == IF v.type = "object" THEN v ELSE object(<<>>, <<>>)
  IN  IF p.type # "object" THEN p
      ELSE FoldLeft(LAMBDA d, k :
             IF members(p)[k] = null THEN without(d, k)
             ELSE withMember(d, k, merge_patch(IF has(d, k) THEN members(d)[k] ELSE null, members(p)[k])),
             base, p.keys)
=============================================================================
