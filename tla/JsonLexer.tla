----------------------------- MODULE JsonLexer -----------------------------
(***************************************************************************)
(* The lexer of json.hpp, which reads every frame the hub receives: one    *)
(* step per character that get() delivers.  A character is its code, a     *)
(* string the sequence of its bytes.                                       *)
(***************************************************************************)
EXTENDS Integers, Sequences, SequencesExt

CONSTANTS
  Bits,            \* the width of number_unsigned_t and number_integer_t: 64 bits
  ignore_comments  \* FALSE for json::parse(text)

ASSUME LexerAssumption == Bits \in {8 * n : n \in 1..8} /\ ignore_comments \in BOOLEAN

Eof   == -1
Quote == 34     Comma   == 44     Colon == 58
Plus  == 43     Minus   == 45     Dot   == 46     Slash == 47     Star == 42
Open  == 91     Escape  == 92     Close == 93     Begin == 123    End  == 125
Digit == 48..57
LowerE == 101   UpperE  == 69     LowerU == 117
LineEnd == {10, 13}

whitespace == {32, 9, 10, 13}

structural == [c \in {Open, Close, Begin, End, Colon, Comma} |->
  CASE c = Open  -> "begin_array"     [] c = Close -> "end_array"
    [] c = Begin -> "begin_object"    [] c = End   -> "end_object"
    [] c = Colon -> "name_separator"  [] c = Comma -> "value_separator"]

true_literal  == <<116, 114, 117, 101>>
false_literal == <<102, 97, 108, 115, 101>>
null_literal  == <<110, 117, 108, 108>>

literals == {<<true_literal, "literal_true">>, <<false_literal, "literal_false">>,
             <<null_literal, "literal_null">>}

-----------------------------------------------------------------------------
(* Integers of any width are the bytes of their magnitude, the highest      *)
(* first and none of them a leading zero.                                  *)

strip(b) ==
  LET used == {i \in DOMAIN b : b[i] # 0}
  IN  IF used = {} THEN <<>> ELSE SubSeq(b, CHOOSE i \in used : \A j \in used : i <= j, Len(b))

padded(b, width) ==
  [i \in 1..width |-> IF i <= width - Len(b) THEN 0 ELSE b[i - (width - Len(b))]]

complement(b) == [i \in DOMAIN b |-> 255 - b[i]]

(* b * factor + addend, for a small factor.                                *)
carried(r) == strip(<<r.carry>> \o r.bytes)

timesPlus(b, factor, addend) ==
  carried(FoldRight(LAMBDA x, acc :
              LET t == x * factor + acc.carry
              IN  [carry |-> t \div 256, bytes |-> <<t % 256>> \o acc.bytes],
            b, [carry |-> addend, bytes |-> <<>>]))

plusOne(b)  == timesPlus(b, 1, 1)
minusOne(b) == strip(complement(padded(plusOne(complement(b)), Len(b))))

(* The quotient and the remainder by a small divisor.                      *)
divide(b, divisor) ==
  [FoldLeft(LAMBDA acc, x :
                LET t == acc.rest * 256 + x
                IN  [rest |-> t % divisor, quotient |-> Append(acc.quotient, t \div divisor)],
              [rest |-> 0, quotient |-> <<>>], b)
     EXCEPT !.quotient = strip(@)]

magnitude(text) == FoldLeft(LAMBDA b, c : timesPlus(b, 10, c - 48), <<>>, text)

(* An integer: "unsigned" is its magnitude, "integer" is -1 - magnitude.   *)
Integer(type, b) == [type |-> type, text |-> b]

integerOf(text) ==
  LET m == magnitude(Tail(text))
  IN  CASE text[1] # Minus -> Integer("unsigned", magnitude(text))
        [] text[1] = Minus /\ m = <<>> -> Integer("unsigned", <<>>)
        [] OTHER -> Integer("integer", minusOne(m))

fits(n, width, signed) ==
  IF signed
  THEN Len(n.text) < width \/ (Len(n.text) = width /\ n.text[1] < 128)
  ELSE n.type = "unsigned" /\ Len(n.text) <= width

-----------------------------------------------------------------------------
(* The lexer: where it is, token_buffer, what must follow (the characters   *)
(* of a literal or the ranges of a UTF-8 sequence), the code point of \u,   *)
(* the high surrogate before it, the token's type, and next_unget.          *)

reset == [at |-> "start", buffer |-> <<>>, rest |-> <<>>, digits |-> 0,
          codepoint |-> 0, high |-> 0, type |-> "uninitialized", unget |-> FALSE]

add(l, c)   == [l EXCEPT !.buffer = Append(@, c)]
go(l, at)   == [l EXCEPT !.at = at]
token(l, t) == [l EXCEPT !.at = "token", !.type = t]
error(l)    == [token(l, "parse_error") EXCEPT !.buffer = <<>>]
unget(l)    == [l EXCEPT !.unget = TRUE]

-----------------------------------------------------------------------------
(* Strings.                                                                *)

simpleEscape == [c \in {34, 92, 47, 98, 102, 110, 114, 116} |->
  CASE c = 98 -> 8 [] c = 102 -> 12 [] c = 110 -> 10 [] c = 114 -> 13
    [] c = 116 -> 9 [] OTHER -> c]

Tail80 == <<128, 191>>

(* The ranges in which the bytes after c must be; none after other bytes.  *)
ranges_NoSurrogateCheck(c) ==
  CASE c \in 194..223 -> <<Tail80>>
    [] c = 224 -> <<<<160, 191>>, Tail80>>
    [] c \in 225..239 -> <<Tail80, Tail80>>
    [] c = 240 -> <<<<144, 191>>, Tail80, Tail80>>
    [] c \in 241..243 -> <<Tail80, Tail80, Tail80>>
    [] c = 244 -> <<<<128, 143>>, Tail80, Tail80>>
    [] OTHER -> <<>>

ranges(c) ==
  CASE c \in 194..223 -> <<Tail80>>
    [] c = 224 -> <<<<160, 191>>, Tail80>>
    [] c \in (225..239) \ {237} -> <<Tail80, Tail80>>
    [] c = 237 -> <<<<128, 159>>, Tail80>>
    [] c = 240 -> <<<<144, 191>>, Tail80, Tail80>>
    [] c \in 241..243 -> <<Tail80, Tail80, Tail80>>
    [] c = 244 -> <<<<128, 143>>, Tail80, Tail80>>
    [] OTHER -> <<>>

control   == 0..31
unescaped == 32..127 \ {Quote, Escape}

scan_string(l, c) ==
  CASE c = Quote         -> token(l, "value_string")
    [] c = Escape        -> go(l, "escape")
    [] c \in control     -> error(l)
    [] c \in unescaped   -> add(l, c)
    [] ranges(c) # <<>>  -> [add(go(l, "utf8"), c) EXCEPT !.rest = ranges(c)]
    [] OTHER             -> error(l)     \* ill-formed, or the end of the text

next_byte_in_range(l, c) ==
  IF l.rest[1][1] <= c /\ c <= l.rest[1][2]
  THEN [add(l, c) EXCEPT !.rest = Tail(@),
                         !.at = IF Len(l.rest) = 1 THEN "string" ELSE "utf8"]
  ELSE error(l)

escape(l, c) ==
  CASE c \in DOMAIN simpleEscape -> add(go(l, "string"), simpleEscape[c])
    [] c = LowerU -> [go(l, "hex") EXCEPT !.codepoint = 0, !.digits = 0]
    [] OTHER      -> error(l)

hexDigit(c) == CASE c \in Digit   -> c - 48
                 [] c \in 65..70  -> c - 55
                 [] c \in 97..102 -> c - 87
                 [] OTHER         -> -1

HighSurrogates == 55296..56319
LowSurrogates  == 56320..57343

(* The code point of two surrogates.                                       *)
paired(high, low) == 65536 + (high - 55296) * 1024 + low - 56320

(* UTF-8: the last code points of two and of three bytes.                  *)
LastOfTwo   == 2047
LastOfThree == 65535

encode(cp) ==
  LET six(n) == 128 + (n % 64)
      upper  == cp \div 64
      top    == upper \div 64
  IN  CASE cp < 128                -> <<cp>>
        [] cp \in 128..LastOfTwo   -> <<192 + upper, six(cp)>>
        [] cp > LastOfTwo /\ cp <= LastOfThree -> <<224 + top, six(upper), six(cp)>>
        [] OTHER -> <<240 + (top \div 64), six(top), six(upper), six(cp)>>

(* Texts of wide characters are read as UTF-8: of 32 bits, or of 16 bits,  *)
(* two of which may be one code point.                                     *)
fill_buffer_32(wc) == IF wc <= 1114111 THEN encode(wc) ELSE <<wc>>

fill_buffer_16_NoOffset(wc, next) ==
  IF wc \in HighSurrogates \cup LowSurrogates /\ next # <<>>
  THEN [bytes |-> encode((wc % 1024) * 1024 + (next[1] % 1024)), read |-> 2]
  ELSE [bytes |-> encode(wc), read |-> 1]
fill_buffer_16(wc, next) ==
  CASE wc \notin HighSurrogates \cup LowSurrogates -> [bytes |-> encode(wc), read |-> 1]
    [] wc \in HighSurrogates \cup LowSurrogates /\ next # <<>> ->
         [bytes |-> encode(65536 + (wc % 1024) * 1024 + (next[1] % 1024)), read |-> 2]
    [] OTHER -> [bytes |-> <<wc>>, read |-> 1]

utf16(units) ==
  LET from[i \in 1..Len(units) + 1] ==
        IF i > Len(units) THEN <<>>
        ELSE LET filled == fill_buffer_16(units[i], SubSeq(units, i + 1, Len(units)))
             IN  filled.bytes \o from[i + filled.read]
  IN  from[1]

utf32(units) == FoldLeft(LAMBDA bytes, wc : bytes \o fill_buffer_32(wc), <<>>, units)

addCodepoint(l, cp) ==
  [go(l, "string") EXCEPT !.buffer = @ \o encode(cp), !.high = 0]

(* What follows the fourth hexadecimal digit.                              *)
surrogates(l, cp) ==
  CASE l.high # 0 /\ cp \in LowSurrogates ->
         addCodepoint(l, paired(l.high, cp))
    [] l.high = 0 /\ cp \in HighSurrogates -> [go(l, "pair") EXCEPT !.high = cp]
    [] l.high = 0 /\ cp \notin HighSurrogates /\ cp \notin LowSurrogates ->
         addCodepoint(l, cp)
    [] OTHER -> error(l)

get_codepoint(l, c) ==
  LET cp == l.codepoint * 16 + hexDigit(c)
  IN  CASE hexDigit(c) = -1 -> error(l)
        [] hexDigit(c) # -1 /\ l.digits < 3 ->
             [l EXCEPT !.codepoint = cp, !.digits = @ + 1]
        [] OTHER -> surrogates(l, cp)

pair(l, c)  == IF c = Escape THEN go(l, "pair_u") ELSE error(l)
pairU(l, c) == IF c = LowerU
               THEN [go(l, "hex") EXCEPT !.codepoint = 0, !.digits = 0]
               ELSE error(l)

stringStates == {"string", "escape", "hex", "pair", "pair_u", "utf8"}

inString(l, c) ==
  CASE l.at = "string" -> scan_string(l, c)   [] l.at = "escape" -> escape(l, c)
    [] l.at = "hex"    -> get_codepoint(l, c) [] l.at = "pair"   -> pair(l, c)
    [] l.at = "pair_u" -> pairU(l, c)         [] OTHER           -> next_byte_in_range(l, c)

-----------------------------------------------------------------------------
(* Numbers: the machine of scan_number, and its conversion.                *)

numberStates == {"minus", "zero", "any1", "decimal1", "decimal2", "exponent",
                 "sign", "any2"}
complete     == {"zero", "any1", "decimal2", "any2"}

otherwise(at) == IF at \in complete THEN "done" ELSE "error"

(* The state after character c, "done" when c is no more of the number:    *)
(* before the first dot or e, and behind it.                               *)
integerState(at, c) ==
  CASE c \in Digit /\ at = "minus" -> IF c = 48 THEN "zero" ELSE "any1"
    [] c \in Digit /\ at = "any1"  -> "any1"
    [] c = Dot /\ at \in {"zero", "any1"} -> "decimal1"
    [] c \in {LowerE, UpperE} /\ at \in {"zero", "any1"} -> "exponent"
    [] OTHER -> otherwise(at)

fractionState(at, c) ==
  CASE c \in Digit -> IF at \in {"decimal1", "decimal2"} THEN "decimal2" ELSE "any2"
    [] c \in {LowerE, UpperE} /\ at = "decimal2" -> "exponent"
    [] c \in {Plus, Minus} /\ at = "exponent" -> "sign"
    [] OTHER -> otherwise(at)

nextNumberState(at, c) ==
  IF at \in {"minus", "zero", "any1"} THEN integerState(at, c) ELSE fractionState(at, c)

(* strtoull and strtoll, and the fall back to a float when they overflow.  *)
numberType(l) ==
  CASE l.type = "value_unsigned" /\ fits(integerOf(l.buffer), Bits \div 8, FALSE) -> "value_unsigned"
    [] l.type = "value_integer" /\ fits(integerOf(l.buffer), Bits \div 8, TRUE) -> "value_integer"
    [] OTHER -> "value_float"

scan_number(l, c) ==
  LET at == nextNumberState(l.at, c)
  IN  CASE at = "error" -> error(l)
        [] at = "done"  -> unget(token(l, numberType(l)))
        [] at \in {"decimal1", "exponent"} ->
             [add(go(l, at), c) EXCEPT !.type = "value_float"]
        [] OTHER -> add(go(l, at), c)

startNumber(l, c) ==
  CASE c = Minus -> [add(go(l, "minus"), c) EXCEPT !.type = "value_integer"]
    [] c = 48    -> [add(go(l, "zero"), c) EXCEPT !.type = "value_unsigned"]
    [] OTHER     -> [add(go(l, "any1"), c) EXCEPT !.type = "value_unsigned"]

-----------------------------------------------------------------------------
(* Literals and the choice of the token.                                   *)

scan_literal(l, c) ==
  CASE c # l.rest[1] -> error(l)
    [] c = l.rest[1] /\ Len(l.rest) = 1 -> token(l, l.type)
    [] OTHER -> [l EXCEPT !.rest = Tail(@)]

startsLiteral(c) == \E p \in literals : p[1][1] = c

startLiteral(l, c) ==
  LET p == CHOOSE q \in literals : q[1][1] = c
  IN  [go(l, "literal") EXCEPT !.rest = Tail(p[1]), !.type = p[2]]

(* What is a token by itself, or none.                                     *)
scanMark(l, c) ==
  CASE c \in DOMAIN structural -> token(l, structural[c])
    [] c \in {0, Eof} -> token(l, "end_of_input")
    [] c = Slash /\ ignore_comments -> go(l, "comment")
    [] OTHER -> error(l)

scan(l, c) ==
  CASE c \in whitespace -> l
    [] c = Quote -> go(l, "string")
    [] c \in Digit \cup {Minus} -> startNumber(l, c)
    [] startsLiteral(c) -> startLiteral(l, c)
    [] OTHER -> scanMark(l, c)

commentStates == {"comment", "line", "block", "star"}

scan_comment(l, c) ==
  CASE l.at = "comment" /\ c = Slash -> go(l, "line")
    [] l.at = "comment" /\ c = Star  -> go(l, "block")
    [] l.at = "line" -> IF c \in LineEnd \cup {0, Eof} THEN go(l, "start") ELSE l
    [] l.at \in {"block", "star"} /\ c = Star -> go(l, "star")
    [] l.at = "star" /\ c = Slash -> go(l, "start")
    [] l.at \in {"block", "star"} /\ c \notin {Star, 0, Eof} -> go(l, "block")
    [] OTHER -> error(l)

(* The byte order mark: only before the first token.                       *)
bomStates == {"text", "bom", "bom_end"}

skip_bom(l, c) ==
  CASE l.at = "text" /\ c = 239 -> go(l, "bom")
    [] l.at = "text" /\ c # 239 -> scan(go(l, "start"), c)
    [] l.at = "bom"  /\ c = 187 -> go(l, "bom_end")
    [] l.at = "bom_end" /\ c = 191 -> go(l, "start")
    [] OTHER -> error(l)

(* What is before a token.                                                 *)
skipStates == commentStates \cup bomStates

beforeToken(l, c) == IF l.at \in commentStates THEN scan_comment(l, c) ELSE skip_bom(l, c)

(* One get() of the lexer and what it makes of the character.              *)
get(l, c) ==
  CASE l.at = "start"   -> scan(l, c)
    [] l.at = "literal" -> scan_literal(l, c)
    [] l.at \in stringStates -> inString(l, c)
    [] l.at \in numberStates -> scan_number(l, c)
    [] l.at \in skipStates -> beforeToken(l, c)
    [] OTHER -> l                             \* a token is complete

(* Where the lexer is when it has been given the characters of a text.     *)
readFrom(l, text) ==
  LET behind[i \in 0..Len(text)] == IF i = 0 THEN l ELSE get(behind[i - 1], text[i])
  IN  behind[Len(text)]

(* The first token of a text.                                              *)
firstToken(text) == get(readFrom(go(reset, "text"), text), Eof)
=============================================================================
