------------------------------- MODULE MCJson -------------------------------
(***************************************************************************)
(* An instance of Json for TLC: characters at the limits of each class.    *)
(***************************************************************************)
EXTENDS Json

hexSamples == {48, 56, 68, 102}                \* 0 8 D f
escapeLetters == {98, 102, 110, 114, 116, 117} \* b f n r t u
tails == {128, 143, 144, 159, 160, 191}
leads == {193, 194, 224, 225, 237, 239, 240, 243, 244, 245}  \* one of each class

MCStringBytes == hexSamples \cup escapeLetters \cup tails \cup leads
                   \cup {Eof, 0, 31, 32, Quote, Slash, Escape, 127}
MCAnyBytes == {31, 97, 128, 159, 191, 194, 224, 237, 240, 244, 255}
MCNumberBytes == {Minus, Plus, Dot, LowerE, UpperE, Eof, 32, 48, 49, 53, 54, 56, 57}

one == Token("value_unsigned", <<49>>)
objectStart(name) ==
  <<Token("begin_object", <<>>), Token("value_string", IF name = "a" THEN <<97>> ELSE <<98>>),
    Token("name_separator", <<>>)>>
MCDocumentTokens ==
  {Token(t, <<>>) : t \in {"begin_object", "end_object", "begin_array", "end_array",
                           "name_separator", "value_separator", "literal_null",
                           "parse_error", "end_of_input"}}
  \cup {Token("value_string", <<97>>), Token("value_string", <<98>>), one,
        Token("value_float", Infinite)}

(* Callbacks, named for what they discard.                                 *)
MCCallbacks == {"all", "no 1", "no b", "no inner array", "no array_start", "no inner object", "no object_start"}

MCkeeps(callback, at, event, v) ==
  CASE callback = "no 1"            -> event = "value" => v # scalar("unsigned", <<1>>)
    [] callback = "no b"            -> event = "key" => v # string(<<98>>)
    [] callback = "no inner array"  -> event = "array_end" => at = 0
    [] callback = "no array_start"  -> event # "array_start"
    [] callback = "no inner object" -> event = "object_end" => at = 0
    [] callback = "no object_start" -> event # "object_start"
    [] OTHER -> TRUE

(* Bytes of each format: heads with and without lengths, the ends of       *)
(* numbers, a letter.                                                      *)
MCBinaryBytes(f) ==
  CASE f \in {"cbor_ignore", "cbor_store"} -> {1, 24, 65, 95, 129, 159, 161, 198, 216, 255}
    [] f = "cbor" -> {0, 24, 27, 32, 56, 65, 95, 97, 127, 129, 159, 161, 191, 198, 216, 249, 255}
    [] f = "msgpack" -> {0, 1, 97, 128, 129, 145, 161, 193, 196, 199, 202, 204, 205, 208, 212, 217, 220, 224, 255}
    [] f = "bson" -> {0, 1, 2, 3, 4, 5, 8, 10, 16, 97, 255}
    [] OTHER -> {0, 1, 255, Open, Close, Begin, End, code.type, code.count, code.i, code.U, code.N, code.Z,
                 code.C, code.H, code.h, 49}

limits == {<<>>, <<1>>, <<15>>, <<23>>, <<24>>, <<31>>, <<32>>, <<127>>, <<128>>, <<255>>, <<1, 0>>,
           <<127, 255>>, <<128, 0>>, <<255, 255>>, <<1, 0, 0>>, <<127, 255, 255, 255>>, <<128, 0, 0, 0>>,
           <<1, 0, 0, 0, 0>>, <<127, 255, 255, 255, 255, 255, 255, 255>>}
integers == {scalar(t, b) : t \in {"integer", "unsigned"}, b \in limits}
              \cup {scalar("unsigned", [i \in 1..8 |-> 255])}
(* 0, -0, 1, the smallest and the largest float, half of the smallest, a   *)
(* third, infinity and NaN.                                                *)
doubles == {scalar("float", b) : b \in {
  [i \in 1..8 |-> 0], <<128, 0, 0, 0, 0, 0, 0, 0>>, <<63, 240, 0, 0, 0, 0, 0, 0>>,
  <<54, 160, 0, 0, 0, 0, 0, 0>>, <<71, 239, 255, 255, 224, 0, 0, 0>>, <<54, 144, 0, 0, 0, 0, 0, 0>>,
  <<63, 213, 85, 85, 85, 85, 85, 85>>, <<127, 240, 0, 0, 0, 0, 0, 0>>, NaN}}
letters(n) == [i \in 1..n |-> 97]
strings == {string(letters(n)) : n \in {0, 1, 15, 16, 23, 24, 31, 32, 127, 128, 255, 256}}
binaries == {binary(letters(n)) : n \in {0, 1, 24, 256}}
              \cup {binaryOf(letters(n), t) : n \in {0, 1, 2, 3, 8, 16, 256}, t \in {<<0>>, <<200>>, <<1, 5>>}}
few == {null, scalar("true", <<>>), scalar("false", <<>>), string(<<98>>), binary(<<7>>),
        scalar("unsigned", <<1>>), scalar("integer", <<1>>), scalar("unsigned", <<200>>),
        scalar("unsigned", [i \in 1..8 |-> 255]), scalar("float", <<63, 240, 0, 0, 0, 0, 0, 0>>)}
arrays == {array(<<>>)} \cup {array(<<v, w>>) : v \in few, w \in few}
             \cup {array([i \in 1..n |-> v]) : n \in {15, 16, 23, 24}, v \in {null, scalar("unsigned", <<1>>)}}
objects == {object(<<>>, <<>>)} \cup {object(<<<<>>, k>>, <<v, w>>) : k \in {<<0>>, <<97>>}, v \in few, w \in few}
nested == {array(<<v, v>>) : v \in {array(<<>>), object(<<>>, <<>>), array(<<null>>), binary(<<>>)}}
            \cup {object(<<<<97>>>>, <<v>>) : v \in {array(<<null, binaryOf(<<1>>, <<1>>)>>), array(<<>>)}}
            \cup {annotated(<<2, 2>>, m, array([i \in 1..4 |-> scalar("unsigned", <<i>>)])) :
                    m \in DOMAIN typeNames \ {code.d, code.D}}
            \cup {annotated(<<2, 2>>, m, array([i \in 1..4 |-> scalar("float", <<63, 240, 0, 0, 0, 0, 0, 0>>)])) :
                    m \in {code.d, code.D}}
(* UBJSON and BJData have no binary values, only arrays of their bytes.    *)
MCBinaryValues(f) ==
  few \cup integers \cup doubles \cup strings \cup arrays \cup objects \cup nested
    \cup {b \in binaries : f \in Ubjson => Len(b.text) <= 24}

behindSlash(n) == <<Slash>> \o n
someNames    == {<<97>>, <<Tilde, 48, 49>>, <<48>>, <<Minus>>}    \* a ~1 0 -
pointers  == {<<>>, behindSlash(<<>>), behindSlash(<<48, 48>>)} \cup {behindSlash(n) : n \in someNames}
               \cup {behindSlash(n) \o behindSlash(m) : n \in someNames, m \in someNames}
someValues      == {null, scalar("unsigned", <<1>>), array(<<>>), object(<<>>, <<>>)}
MCOperations ==
  {Added(p, v) : p \in pointers, v \in someValues} \cup {Removed(p) : p \in pointers}
    \cup {Replaced(p, array(<<>>)) : p \in pointers}
    \cup {[op |-> o, path |-> p, from |-> behindSlash(f)] : o \in {"move", "copy"}, p \in pointers, f \in someNames}
    \cup {[op |-> "test", path |-> behindSlash(<<97>>), value |-> null]}
MCMergePatches == {object(<<<<97>>>>, <<v>>) : v \in {null, object(<<<<Tilde, 49>>>>, <<scalar("true", <<>>)>>)}}
eleven == array([i \in 1..11 |-> scalar("unsigned", <<i>>)])
MCValues == someValues \cup {eleven, object(<<<<97>>>>, <<array(<<null, null>>)>>),
                        object(<<<<Slash>>, <<Tilde, 49>>>>, <<null, array(<<null>>)>>)}

(* The beginnings of 18446744073709551615 and of -9223372036854775808, of  *)
(* an object with two members, of documents and arrays; bytes of any kind  *)
(* begin with one that is in the buffer and not yet flushed.               *)
MCStarts(s) ==
  (IF s = "bytes" THEN {<<97>>} ELSE {<<>>}) \cup
  CASE s = "number" -> {<<49, 56, 52, 52, 54, 55, 52, 52, 48, 55, 51, 55, 48, 57, 53, 53, 49, 54>>,
                        <<Minus, 57, 50, 50, 51, 51, 55, 50, 48, 51, 54, 56, 53, 52, 55, 55, 53, 56>>}
    [] s = "document" -> {objectStart("a") \o objectStart("b")
                            \o <<one, Token("end_object", <<>>), Token("value_separator", <<>>)>>}
    [] s = "bson"   -> {<<5, 0, 0, 0>>, <<5, 0, 0, 0, 16, 0>>, <<5, 0, 0, 0, 5, 0, 1, 0, 0, 0>>}
    [] s = "bjdata" -> {<<Open, code.type, code.i, code.count, Open>>}
    [] OTHER -> {}
=============================================================================
