--------------------------- MODULE JsonSerializer ---------------------------
(***************************************************************************)
(* How dump() of json.hpp writes strings: every response and every         *)
(* published message of the hub goes through it.                           *)
(***************************************************************************)
EXTENDS JsonLexer

CONSTANT BufferSize   \* characters in string_buffer: 512

ASSUME BufferAssumption == BufferSize \in Nat /\ BufferSize >= 14

-----------------------------------------------------------------------------
(* decode: the table utf8d, classes of bytes and the states behind them.   *)

byteType(b) ==
  CASE b < 128 -> 0            [] b \in 128..143 -> 1     [] b \in 144..159 -> 9
    [] b \in 160..191 -> 7     [] b \in {192, 193} -> 8   [] b \in 194..223 -> 2
    [] b = 224 -> 10           [] b \in (225..239) \ {237} -> 3
    [] b = 237 -> 4            [] b = 240 -> 11           [] b \in 241..243 -> 6
    [] b = 244 -> 5            [] OTHER -> 8

UTF8_ACCEPT == 0
UTF8_REJECT == 1

(* The rows s0 to s8 of the table, as the classes that are not rejected.   *)
rows == <<
  [class \in {0, 2, 3, 4, 5, 6, 10, 11} |->
     CASE class = 4 -> 5 [] class = 5 -> 8 [] class = 6 -> 7
       [] class = 10 -> 4 [] class = 11 -> 6 [] OTHER -> class],    \* s0
  <<>>,                                                              \* s1
  [class \in {1, 7, 9} |-> 0],                                       \* s2
  [class \in {1, 7, 9} |-> 2],                                       \* s3
  [class \in {7} |-> 2],                                             \* s4
  [class \in {1, 9} |-> 2],                                          \* s5
  [class \in {7, 9} |-> 3],                                          \* s6
  [class \in {1, 7, 9} |-> 3],                                       \* s7
  [class \in {1} |-> 3]                                              \* s8
>>

decodeState(state, b) ==
  LET row == rows[state + 1]
  IN  IF byteType(b) \in DOMAIN row THEN row[byteType(b)] ELSE UTF8_REJECT

(* The first byte of a character keeps its 8 - class lowest bits.          *)
lowBits == <<256, 128, 64, 32, 16, 8, 4, 2, 1, 1, 1, 1>>

decodeCodepoint(state, codep, b) ==
  IF state # UTF8_ACCEPT THEN codep * 64 + (b % 64) ELSE b % lowBits[byteType(b) + 1]

-----------------------------------------------------------------------------
(* dump_escaped: the decoder, the characters written, those in             *)
(* string_buffer, how many of them were there after the last complete code *)
(* point, the bytes of an incomplete one, the farthest index written, and  *)
(* whether type_error.316 was thrown.                                      *)

emptyDump == [state |-> UTF8_ACCEPT, codepoint |-> 0, written |-> <<>>,
              bytes |-> <<>>, accepted |-> 0, undumped |-> 0, reach |-> 0,
              thrown |-> FALSE]

hexCode(n) == IF n < 10 THEN 48 + n ELSE 87 + n
u(cp) == <<Escape, LowerU, hexCode((cp \div 4096) % 16), hexCode((cp \div 256) % 16),
           hexCode((cp \div 16) % 16), hexCode(cp % 16)>>

shortEscape == [cp \in {8, 9, 10, 12, 13, Quote, Escape} |->
  CASE cp = 8 -> 98 [] cp = 9 -> 116 [] cp = 10 -> 110 [] cp = 12 -> 102
    [] cp = 13 -> 114 [] OTHER -> cp]

(* The surrogates of a code point that four digits cannot hold.            *)
highOf(cp) == 55232 + (cp \div 1024)
lowOf(cp)  == 56320 + (cp % 1024)

escapedByHex(cp, ensure_ascii) == cp <= 31 \/ (ensure_ascii /\ cp >= 127)

(* What the last byte b of code point cp adds to the buffer.               *)
escaped_NoQuote(cp, b, ensure_ascii) ==
  CASE cp \in DOMAIN shortEscape \ {Quote} -> <<Escape, shortEscape[cp]>>
    [] OTHER -> <<b>>

escaped(cp, b, ensure_ascii) ==
  CASE cp \in DOMAIN shortEscape -> <<Escape, shortEscape[cp]>>
    [] cp \notin DOMAIN shortEscape /\ escapedByHex(cp, ensure_ascii) ->
         IF cp <= LastOfThree THEN u(cp) ELSE u(highOf(cp)) \o u(lowOf(cp))
    [] OTHER -> <<b>>

(* snprintf writes a NUL behind its characters.                            *)
put(d, text) ==
  [d EXCEPT !.bytes = @ \o text,
            !.reach = LET end == Len(d.bytes) + Len(text) + (IF Len(text) >= 6 THEN 1 ELSE 0)
                      IN  IF end > @ THEN end ELSE @]

flushWhenFull(d) ==
  IF BufferSize - Len(d.bytes) < 13
  THEN [d EXCEPT !.written = @ \o d.bytes, !.bytes = <<>>]
  ELSE d

accept(d) == LET f == flushWhenFull(d)
             IN  [f EXCEPT !.accepted = Len(f.bytes), !.undumped = 0]

ReplacementCharacter == 65533

replacement(ensure_ascii) ==
  IF ensure_ascii THEN u(ReplacementCharacter) ELSE <<239, 191, 189>>

(* ignore and replace go back to the last complete code point.             *)
resume_Keeps(d, ensure_ascii, handler) ==
  LET f == IF handler = "replace" THEN put(d, replacement(ensure_ascii)) ELSE d
  IN  [accept(f) EXCEPT !.state = UTF8_ACCEPT]

resume(d, ensure_ascii, handler) ==
  LET back == [d EXCEPT !.bytes = SubSeq(@, 1, d.accepted)]
      f    == IF handler = "replace" THEN put(back, replacement(ensure_ascii)) ELSE back
  IN  IF handler = "replace"
      THEN [accept(f) EXCEPT !.state = UTF8_ACCEPT]
      ELSE [back EXCEPT !.state = UTF8_ACCEPT, !.undumped = 0]

dumpDecoded(d, b, ensure_ascii) ==
  LET state == decodeState(d.state, b)
      cp    == decodeCodepoint(d.state, d.codepoint, b)
      next  == [d EXCEPT !.state = state, !.codepoint = cp]
  IN  IF state = UTF8_ACCEPT
      THEN accept(put(next, escaped(cp, b, ensure_ascii)))
      ELSE [put(next, IF ensure_ascii THEN <<>> ELSE <<b>>) EXCEPT !.undumped = @ + 1]

rejects(d, b) == decodeState(d.state, b) = UTF8_REJECT

(* One turn of the loop; a byte that ends an incomplete code point is read *)
(* again by itself.                                                        *)
dumpAgain(d, b, ensure_ascii, handler) ==
  IF rejects(d, b) THEN resume(d, ensure_ascii, handler) ELSE dumpDecoded(d, b, ensure_ascii)

dumpRejected(d, b, ensure_ascii, handler) ==
  CASE handler = "strict" -> [d EXCEPT !.thrown = TRUE]
    [] handler # "strict" /\ d.undumped > 0 ->
         dumpAgain(resume(d, ensure_ascii, handler), b, ensure_ascii, handler)
    [] OTHER -> resume(d, ensure_ascii, handler)

dumpByte(d, b, ensure_ascii, handler) ==
  CASE d.thrown -> d
    [] ~d.thrown /\ ~rejects(d, b) -> dumpDecoded(d, b, ensure_ascii)
    [] OTHER -> dumpRejected(d, b, ensure_ascii, handler)

(* What is left in the buffer when the string has been read.               *)
dumpEnd(d, ensure_ascii, handler) ==
  CASE d.thrown -> d
    [] ~d.thrown /\ d.state = UTF8_ACCEPT -> [d EXCEPT !.written = @ \o d.bytes]
    [] ~d.thrown /\ d.state # UTF8_ACCEPT /\ handler = "strict" -> [d EXCEPT !.thrown = TRUE]
    [] OTHER -> [d EXCEPT !.written = @ \o SubSeq(d.bytes, 1, d.accepted)
                                        \o (IF handler = "ignore" THEN <<>> ELSE replacement(ensure_ascii))]

dumped(s, ensure_ascii, handler) ==
  LET behind[i \in 0..Len(s)] ==
        IF i = 0 THEN emptyDump ELSE dumpByte(behind[i - 1], s[i], ensure_ascii, handler)
  IN  behind[Len(s)]

dump_escaped(s, ensure_ascii, handler) ==
  dumpEnd(dumped(s, ensure_ascii, handler), ensure_ascii, handler)
=============================================================================
