------------------------- MODULE JsonStringsProofs -------------------------
(***************************************************************************)
(* Proofs about JsonStrings, for strings of any bytes and of any length.   *)
(* The decoder of dump() and the lexer that reads what it writes are       *)
(* followed byte by byte, through the states of both tables of UTF-8.      *)
(***************************************************************************)
EXTENDS JsonStrings, SequenceTheorems, WellFoundedInduction, TLAPS

Byte  == 0..255
Bytes == Seq(Byte)

-----------------------------------------------------------------------------
(* The lexer with its fields, as it is before it has a token.              *)

Fields(at, t, r, d, v, h, ty, ug) ==
  [at |-> at, buffer |-> t, rest |-> r, digits |-> d, codepoint |-> v, high |-> h,
   type |-> ty, unget |-> ug]

NoToken == "uninitialized"
No      == FALSE

Lexer(at, t, r, d, v, h) == Fields(at, t, r, d, v, h, NoToken, No)

setBuffer(l, x)    == [l EXCEPT !.buffer = x]
setRest(l, x)      == [l EXCEPT !.rest = x]
setDigits(l, x)    == [l EXCEPT !.digits = x]
setCodepoint(l, x) == [l EXCEPT !.codepoint = x]
setHigh(l, x)      == [l EXCEPT !.high = x]
setType(l, x)      == [l EXCEPT !.type = x]

setRestAt(l, x, to) == [l EXCEPT !.rest = x, !.at = to]
toHex(l)            == [go(l, "hex") EXCEPT !.codepoint = 0, !.digits = 0]
setDigit(l, cp)     == [l EXCEPT !.codepoint = cp, !.digits = @ + 1]
setPair(l, cp)      == [go(l, "pair") EXCEPT !.high = cp]

LEMMA FieldsRead ==
  ASSUME NEW at, NEW t, NEW r, NEW d, NEW v, NEW h, NEW ty, NEW ug,
         NEW l, l = Fields(at, t, r, d, v, h, ty, ug)
  PROVE  /\ l.at = at /\ l.buffer = t /\ l.rest = r /\ l.digits = d
         /\ l.codepoint = v /\ l.high = h /\ l.type = ty /\ l.unget = ug
BY DEF Fields

LEMMA FieldsGo ==
  ASSUME NEW at, NEW t, NEW r, NEW d, NEW v, NEW h, NEW ty, NEW ug, NEW x,
         NEW l, l = Fields(at, t, r, d, v, h, ty, ug)
  PROVE  go(l, x) = Fields(x, t, r, d, v, h, ty, ug)
BY DEF Fields, go

LEMMA FieldsBuffer ==
  ASSUME NEW at, NEW t, NEW r, NEW d, NEW v, NEW h, NEW ty, NEW ug, NEW x,
         NEW l, l = Fields(at, t, r, d, v, h, ty, ug)
  PROVE  setBuffer(l, x) = Fields(at, x, r, d, v, h, ty, ug)
BY DEF Fields, setBuffer

LEMMA FieldsRest ==
  ASSUME NEW at, NEW t, NEW r, NEW d, NEW v, NEW h, NEW ty, NEW ug, NEW x,
         NEW l, l = Fields(at, t, r, d, v, h, ty, ug)
  PROVE  setRest(l, x) = Fields(at, t, x, d, v, h, ty, ug)
BY DEF Fields, setRest

LEMMA FieldsDigits ==
  ASSUME NEW at, NEW t, NEW r, NEW d, NEW v, NEW h, NEW ty, NEW ug, NEW x,
         NEW l, l = Fields(at, t, r, d, v, h, ty, ug)
  PROVE  setDigits(l, x) = Fields(at, t, r, x, v, h, ty, ug)
BY DEF Fields, setDigits

LEMMA FieldsCode ==
  ASSUME NEW at, NEW t, NEW r, NEW d, NEW v, NEW h, NEW ty, NEW ug, NEW x,
         NEW l, l = Fields(at, t, r, d, v, h, ty, ug)
  PROVE  setCodepoint(l, x) = Fields(at, t, r, d, x, h, ty, ug)
BY DEF Fields, setCodepoint

LEMMA FieldsHigh ==
  ASSUME NEW at, NEW t, NEW r, NEW d, NEW v, NEW h, NEW ty, NEW ug, NEW x,
         NEW l, l = Fields(at, t, r, d, v, h, ty, ug)
  PROVE  setHigh(l, x) = Fields(at, t, r, d, v, x, ty, ug)
BY DEF Fields, setHigh

LEMMA FieldsType ==
  ASSUME NEW at, NEW t, NEW r, NEW d, NEW v, NEW h, NEW ty, NEW ug, NEW x,
         NEW l, l = Fields(at, t, r, d, v, h, ty, ug)
  PROVE  setType(l, x) = Fields(at, t, r, d, v, h, x, ug)
BY DEF Fields, setType

LEMMA LexerFields ==
  ASSUME NEW at, NEW t, NEW r, NEW d, NEW v, NEW h,
         NEW l, l = Lexer(at, t, r, d, v, h)
  PROVE  /\ l.at = at /\ l.buffer = t /\ l.rest = r /\ l.digits = d
         /\ l.codepoint = v /\ l.high = h /\ l.type = NoToken
BY FieldsRead DEF Lexer

LEMMA LexerGo ==
  ASSUME NEW at, NEW t, NEW r, NEW d, NEW v, NEW h, NEW x,
         NEW l, l = Lexer(at, t, r, d, v, h)
  PROVE  go(l, x) = Lexer(x, t, r, d, v, h)
BY FieldsGo DEF Lexer

LEMMA LexerBuffer ==
  ASSUME NEW at, NEW t, NEW r, NEW d, NEW v, NEW h, NEW x,
         NEW l, l = Lexer(at, t, r, d, v, h)
  PROVE  setBuffer(l, x) = Lexer(at, x, r, d, v, h)
BY FieldsBuffer DEF Lexer

LEMMA LexerRest ==
  ASSUME NEW at, NEW t, NEW r, NEW d, NEW v, NEW h, NEW x,
         NEW l, l = Lexer(at, t, r, d, v, h)
  PROVE  setRest(l, x) = Lexer(at, t, x, d, v, h)
BY FieldsRest DEF Lexer

LEMMA LexerDigits ==
  ASSUME NEW at, NEW t, NEW r, NEW d, NEW v, NEW h, NEW x,
         NEW l, l = Lexer(at, t, r, d, v, h)
  PROVE  setDigits(l, x) = Lexer(at, t, r, x, v, h)
BY FieldsDigits DEF Lexer

LEMMA LexerCode ==
  ASSUME NEW at, NEW t, NEW r, NEW d, NEW v, NEW h, NEW x,
         NEW l, l = Lexer(at, t, r, d, v, h)
  PROVE  setCodepoint(l, x) = Lexer(at, t, r, d, x, h)
BY FieldsCode DEF Lexer

LEMMA LexerHigh ==
  ASSUME NEW at, NEW t, NEW r, NEW d, NEW v, NEW h, NEW x,
         NEW l, l = Lexer(at, t, r, d, v, h)
  PROVE  setHigh(l, x) = Lexer(at, t, r, d, v, x)
BY FieldsHigh DEF Lexer

LEMMA LexerAdd ==
  ASSUME NEW at, NEW t, NEW r, NEW d, NEW v, NEW h, NEW c,
         NEW l, l = Lexer(at, t, r, d, v, h)
  PROVE  add(l, c) = Lexer(at, Append(t, c), r, d, v, h)
<1>1. add(l, c) = setBuffer(l, Append(l.buffer, c))
  BY Zenon DEF add, setBuffer
<1>. QED
  BY <1>1, LexerFields, LexerBuffer

LEMMA LexerRestAt ==
  ASSUME NEW at, NEW t, NEW r, NEW d, NEW v, NEW h, NEW x, NEW to,
         NEW l, l = Lexer(at, t, r, d, v, h)
  PROVE  setRestAt(l, x, to) = Lexer(to, t, x, d, v, h)
<1>1. setRestAt(l, x, to) = go(setRest(l, x), to)
  BY Zenon DEF setRestAt, setRest, go
<1>. QED
  BY <1>1, LexerRest, LexerGo

LEMMA LexerHex ==
  ASSUME NEW at, NEW t, NEW r, NEW d, NEW v, NEW h,
         NEW l, l = Lexer(at, t, r, d, v, h)
  PROVE  toHex(l) = Lexer("hex", t, r, 0, 0, h)
<1>1. toHex(l) = setDigits(setCodepoint(go(l, "hex"), 0), 0)
  BY Zenon DEF toHex, setDigits, setCodepoint, go
<1>. QED
  BY <1>1, LexerGo, LexerCode, LexerDigits

LEMMA LexerDigit ==
  ASSUME NEW at, NEW t, NEW r, NEW d, NEW v, NEW h, NEW cp,
         NEW l, l = Lexer(at, t, r, d, v, h)
  PROVE  setDigit(l, cp) = Lexer(at, t, r, d + 1, cp, h)
<1>1. setDigit(l, cp) = setDigits(setCodepoint(l, cp), l.digits + 1)
  BY Zenon DEF setDigit, setDigits, setCodepoint
<1>2. l.digits = d
  BY LexerFields
<1>. QED
  BY <1>1, <1>2, LexerCode, LexerDigits

LEMMA LexerPair ==
  ASSUME NEW at, NEW t, NEW r, NEW d, NEW v, NEW h, NEW cp,
         NEW l, l = Lexer(at, t, r, d, v, h)
  PROVE  setPair(l, cp) = Lexer("pair", t, r, d, v, cp)
<1>1. setPair(l, cp) = setHigh(go(l, "pair"), cp)
  BY Zenon DEF setPair, setHigh, go
<1>. QED
  BY <1>1, LexerGo, LexerHigh

LEMMA LexerCodepoint ==
  ASSUME NEW at, NEW t, NEW r, NEW d, NEW v, NEW h, NEW cp,
         NEW l, l = Lexer(at, t, r, d, v, h)
  PROVE  addCodepoint(l, cp) = Lexer("string", t \o encode(cp), r, d, v, 0)
<1>1. addCodepoint(l, cp) = setHigh(setBuffer(go(l, "string"), go(l, "string").buffer \o encode(cp)), 0)
  BY Zenon DEF addCodepoint, setHigh, setBuffer, go
<1>2. go(l, "string") = Lexer("string", t, r, d, v, h)
  BY LexerGo
<1>3. go(l, "string").buffer = t
  BY <1>2, LexerFields
<1>. QED
  BY <1>1, <1>2, <1>3, LexerBuffer, LexerHigh

LEMMA LexerToken ==
  ASSUME NEW at, NEW t, NEW r, NEW d, NEW v, NEW h, NEW ty,
         NEW l, l = Lexer(at, t, r, d, v, h)
  PROVE  token(l, ty).at = "token" /\ token(l, ty).type = ty /\ token(l, ty).buffer = t
<1>1. token(l, ty) = setType(go(l, "token"), ty)
  BY Zenon DEF token, setType, go
<1>2. token(l, ty) = Fields("token", t, r, d, v, h, ty, No)
  BY <1>1, FieldsGo, FieldsType DEF Lexer
<1>. QED
  BY <1>2, FieldsRead

LEMMA LexerError ==
  ASSUME NEW at, NEW t, NEW r, NEW d, NEW v, NEW h,
         NEW l, l = Lexer(at, t, r, d, v, h)
  PROVE  error(l).at = "token" /\ error(l).type = "parse_error"
<1>1. token(l, "parse_error") = setType(go(l, "token"), "parse_error")
  BY Zenon DEF token, setType, go
<1>2. error(l) = setBuffer(token(l, "parse_error"), <<>>)
  BY Zenon DEF error, setBuffer
<1>3. error(l) = Fields("token", <<>>, r, d, v, h, "parse_error", No)
  BY <1>1, <1>2, FieldsGo, FieldsType, FieldsBuffer DEF Lexer
<1>. QED
  BY <1>3, FieldsRead

-----------------------------------------------------------------------------
(* Which part of the lexer reads a character.                              *)

LEMMA InStringCases ==
  ASSUME NEW l, NEW c
  PROVE  /\ l.at = "string" => inString(l, c) = scan_string(l, c)
         /\ l.at = "escape" => inString(l, c) = escape(l, c)
         /\ l.at = "hex" => inString(l, c) = get_codepoint(l, c)
         /\ l.at = "pair" => inString(l, c) = pair(l, c)
         /\ l.at = "pair_u" => inString(l, c) = pairU(l, c)
         /\ l.at = "utf8" => inString(l, c) = next_byte_in_range(l, c)
<1> DEFINE S == l.at = "string"
           E == l.at = "escape"
           H == l.at = "hex"
           P == l.at = "pair"
           U == l.at = "pair_u"
           T == l.at = "utf8"
<1>1. inString(l, c) =
        CASE S -> scan_string(l, c)
          [] E -> escape(l, c)
          [] H -> get_codepoint(l, c)
          [] P -> pair(l, c)
          [] U -> pairU(l, c)
          [] OTHER -> next_byte_in_range(l, c)
  BY Zenon DEF inString
<1>2. /\ S => ~E /\ ~H /\ ~P /\ ~U /\ ~T
      /\ E => ~S /\ ~H /\ ~P /\ ~U /\ ~T
      /\ H => ~S /\ ~E /\ ~P /\ ~U /\ ~T
      /\ P => ~S /\ ~E /\ ~H /\ ~U /\ ~T
      /\ U => ~S /\ ~E /\ ~H /\ ~P /\ ~T
      /\ T => ~S /\ ~E /\ ~H /\ ~P /\ ~U
  OBVIOUS
<1> HIDE DEF S, E, H, P, U, T
<1>3. S => inString(l, c) = scan_string(l, c)
  BY <1>1, <1>2, Zenon
<1>4. E => inString(l, c) = escape(l, c)
  BY <1>1, <1>2, Zenon
<1>5. H => inString(l, c) = get_codepoint(l, c)
  BY <1>1, <1>2, Zenon
<1>6. P => inString(l, c) = pair(l, c)
  BY <1>1, <1>2, Zenon
<1>7. U => inString(l, c) = pairU(l, c)
  BY <1>1, <1>2, Zenon
<1>8. T => inString(l, c) = next_byte_in_range(l, c)
  BY <1>1, <1>2, Zenon
<1>. QED
  BY <1>3, <1>4, <1>5, <1>6, <1>7, <1>8, Zenon DEF S, E, H, P, U, T

LEMMA GetCases ==
  ASSUME NEW l, NEW c
  PROVE  /\ l.at \in stringStates => get(l, c) = inString(l, c)
         /\ l.at = "text" => get(l, c) = skip_bom(l, c)
         /\ l.at = "token" => get(l, c) = l
<1>1. ASSUME l.at \in stringStates PROVE get(l, c) = inString(l, c)
  <2>1. l.at # "start" /\ l.at # "literal" /\ l.at \notin numberStates /\ l.at \notin skipStates
    BY <1>1 DEF stringStates, numberStates, skipStates, commentStates, bomStates
  <2>. QED
    BY <1>1, <2>1, SMT DEF get
<1>2. ASSUME l.at = "text" PROVE get(l, c) = skip_bom(l, c)
  <2>1. /\ l.at # "start" /\ l.at # "literal"
        /\ l.at \notin numberStates /\ l.at \notin stringStates /\ l.at \in skipStates
    BY <1>2 DEF stringStates, numberStates, skipStates, commentStates, bomStates
  <2>2. get(l, c) = beforeToken(l, c)
    BY <2>1, SMT DEF get
  <2>. QED
    BY <1>2, <2>2 DEF beforeToken, commentStates
<1>3. ASSUME l.at = "token" PROVE get(l, c) = l
  <2>1. /\ l.at # "start" /\ l.at # "literal"
        /\ l.at \notin numberStates /\ l.at \notin stringStates /\ l.at \notin skipStates
    BY <1>3 DEF stringStates, numberStates, skipStates, commentStates, bomStates
  <2>. QED
    BY <2>1, SMT DEF get
<1>. QED
  BY <1>1, <1>2, <1>3

LEMMA GetInString ==
  ASSUME NEW l, NEW c
  PROVE  /\ l.at = "string" => get(l, c) = scan_string(l, c)
         /\ l.at = "escape" => get(l, c) = escape(l, c)
         /\ l.at = "hex" => get(l, c) = get_codepoint(l, c)
         /\ l.at = "pair" => get(l, c) = pair(l, c)
         /\ l.at = "pair_u" => get(l, c) = pairU(l, c)
         /\ l.at = "utf8" => get(l, c) = next_byte_in_range(l, c)
<1>1. l.at \in {"string", "escape", "hex", "pair", "pair_u", "utf8"} => get(l, c) = inString(l, c)
  BY GetCases DEF stringStates
<1>. QED
  BY <1>1, InStringCases

LEMMA EscapeCases ==
  ASSUME NEW l, NEW c
  PROVE  /\ c \in DOMAIN simpleEscape => escape(l, c) = add(go(l, "string"), simpleEscape[c])
         /\ c = LowerU => escape(l, c) = toHex(l)
         /\ c \notin DOMAIN simpleEscape /\ c # LowerU => escape(l, c) = error(l)
<1> DEFINE S == c \in DOMAIN simpleEscape
           U == c = LowerU
<1>1. escape(l, c) =
        CASE S -> add(go(l, "string"), simpleEscape[c])
          [] U -> [go(l, "hex") EXCEPT !.codepoint = 0, !.digits = 0]
          [] OTHER -> error(l)
  BY Zenon DEF escape
<1>2. toHex(l) = [go(l, "hex") EXCEPT !.codepoint = 0, !.digits = 0]
  BY Zenon DEF toHex
<1>3. U => ~S
  BY DEF simpleEscape, LowerU
<1> HIDE DEF S, U
<1>4. S => escape(l, c) = add(go(l, "string"), simpleEscape[c])
  BY <1>1, <1>3, Zenon
<1>5. U => escape(l, c) = toHex(l)
  BY <1>1, <1>2, <1>3, Zenon
<1>6. ~S /\ ~U => escape(l, c) = error(l)
  BY <1>1, Zenon
<1>. QED
  BY <1>4, <1>5, <1>6, Zenon DEF S, U

LEMMA CodepointCases ==
  ASSUME NEW l, NEW c, NEW n, n = hexDigit(c), NEW cp, cp = l.codepoint * 16 + n
  PROVE  /\ n = -1 => get_codepoint(l, c) = error(l)
         /\ n # -1 /\ l.digits < 3 => get_codepoint(l, c) = setDigit(l, cp)
         /\ n # -1 /\ ~(l.digits < 3) => get_codepoint(l, c) = surrogates(l, cp)
<1> DEFINE E == hexDigit(c) = -1
           F == l.digits < 3
           x == l.codepoint * 16 + hexDigit(c)
<1>1. get_codepoint(l, c) =
        CASE E -> error(l)
          [] ~E /\ F -> [l EXCEPT !.codepoint = x, !.digits = @ + 1]
          [] OTHER -> surrogates(l, x)
  BY Zenon DEF get_codepoint
<1>2. setDigit(l, x) = [l EXCEPT !.codepoint = x, !.digits = @ + 1]
  BY Zenon DEF setDigit
<1>3. x = cp /\ (E <=> n = -1)
  OBVIOUS
<1> HIDE DEF E, F, x
<1>4. E => get_codepoint(l, c) = error(l)
  BY <1>1, Zenon
<1>5. ~E /\ F => get_codepoint(l, c) = setDigit(l, x)
  BY <1>1, <1>2, Zenon
<1>6. ~E /\ ~F => get_codepoint(l, c) = surrogates(l, x)
  BY <1>1, Zenon
<1>. QED
  BY <1>3, <1>4, <1>5, <1>6, Zenon DEF F

LEMMA SurrogateCases ==
  ASSUME NEW l, NEW cp, NEW zero, zero = (l.high = 0)
  PROVE  /\ ~zero /\ cp \in LowSurrogates => surrogates(l, cp) = addCodepoint(l, paired(l.high, cp))
         /\ zero /\ cp \in HighSurrogates => surrogates(l, cp) = setPair(l, cp)
         /\ zero /\ cp \notin HighSurrogates /\ cp \notin LowSurrogates =>
              surrogates(l, cp) = addCodepoint(l, cp)
         /\ ~zero /\ cp \notin LowSurrogates => surrogates(l, cp) = error(l)
         /\ zero /\ cp \notin HighSurrogates /\ cp \in LowSurrogates => surrogates(l, cp) = error(l)
<1> DEFINE Z == l.high = 0
           H == cp \in HighSurrogates
           L == cp \in LowSurrogates
<1>1. surrogates(l, cp) =
        CASE ~Z /\ L -> addCodepoint(l, paired(l.high, cp))
          [] Z /\ H -> [go(l, "pair") EXCEPT !.high = cp]
          [] Z /\ ~H /\ ~L -> addCodepoint(l, cp)
          [] OTHER -> error(l)
  BY Zenon DEF surrogates
<1>2. setPair(l, cp) = [go(l, "pair") EXCEPT !.high = cp]
  BY Zenon DEF setPair
<1>3. Z = zero
  OBVIOUS
<1> HIDE DEF Z, H, L
<1>4. ~Z /\ L => surrogates(l, cp) = addCodepoint(l, paired(l.high, cp))
  BY <1>1, Zenon
<1>5. Z /\ H => surrogates(l, cp) = setPair(l, cp)
  BY <1>1, <1>2, Zenon
<1>6. Z /\ ~H /\ ~L => surrogates(l, cp) = addCodepoint(l, cp)
  BY <1>1, Zenon
<1>7. ~Z /\ ~L => surrogates(l, cp) = error(l)
  BY <1>1, Zenon
<1>8. Z /\ ~H /\ L => surrogates(l, cp) = error(l)
  BY <1>1, Zenon
<1>. QED
  BY <1>3, <1>4, <1>5, <1>6, <1>7, <1>8, Zenon DEF H, L

LEMMA PairCases ==
  ASSUME NEW l, NEW c
  PROVE  /\ c = Escape => pair(l, c) = go(l, "pair_u")
         /\ c # Escape => pair(l, c) = error(l)
         /\ c = LowerU => pairU(l, c) = toHex(l)
         /\ c # LowerU => pairU(l, c) = error(l)
BY Zenon DEF pair, pairU, toHex

LEMMA ScanQuote ==
  ASSUME NEW l, l.at = "text"
  PROVE  skip_bom(l, Quote) = go(go(l, "start"), "string")
<1>1. skip_bom(l, Quote) = scan(go(l, "start"), Quote)
  BY DEF skip_bom, Quote
<1> DEFINE k == go(l, "start")
<1> HIDE DEF k
<1>2. scan(k, Quote) = go(k, "string")
  <2> DEFINE W == Quote \in whitespace
             Q == Quote = Quote
             D == Quote \in Digit \cup {Minus}
             S == startsLiteral(Quote)
  <2>1. scan(k, Quote) =
          CASE W -> k
            [] Q -> go(k, "string")
            [] D -> startNumber(k, Quote)
            [] S -> startLiteral(k, Quote)
            [] OTHER -> scanMark(k, Quote)
    BY Zenon DEF scan
  <2>2. ~W /\ ~D
    BY DEF Quote, whitespace, Digit, Minus
  <2>3. ~S
    BY DEF startsLiteral, Quote, literals, true_literal, false_literal, null_literal
  <2>4. Q
    OBVIOUS
  <2> HIDE DEF W, Q, D, S
  <2>. QED
    BY <2>1, <2>2, <2>3, <2>4, Zenon
<1>. QED
  BY <1>1, <1>2 DEF k

LEMMA EscapedCases ==
  ASSUME NEW cp, NEW b, NEW a, NEW h, h <=> escapedByHex(cp, a)
  PROVE  /\ cp \in DOMAIN shortEscape => escaped(cp, b, a) = <<Escape, shortEscape[cp]>>
         /\ cp \notin DOMAIN shortEscape /\ h /\ cp <= LastOfThree => escaped(cp, b, a) = u(cp)
         /\ cp \notin DOMAIN shortEscape /\ h /\ ~(cp <= LastOfThree) =>
              escaped(cp, b, a) = u(highOf(cp)) \o u(lowOf(cp))
         /\ cp \notin DOMAIN shortEscape /\ ~h => escaped(cp, b, a) = <<b>>
<1> DEFINE S == cp \in DOMAIN shortEscape
           H == escapedByHex(cp, a)
           T == cp <= LastOfThree
<1>1. escaped(cp, b, a) =
        CASE S -> <<Escape, shortEscape[cp]>>
          [] ~S /\ H -> IF T THEN u(cp) ELSE u(highOf(cp)) \o u(lowOf(cp))
          [] OTHER -> <<b>>
  BY Zenon DEF escaped
<1>2. h <=> H
  OBVIOUS
<1> HIDE DEF S, H, T
<1>3. S => escaped(cp, b, a) = <<Escape, shortEscape[cp]>>
  BY <1>1, Zenon
<1>4. ~S /\ H /\ T => escaped(cp, b, a) = u(cp)
  BY <1>1, Zenon
<1>5. ~S /\ H /\ ~T => escaped(cp, b, a) = u(highOf(cp)) \o u(lowOf(cp))
  BY <1>1, Zenon
<1>6. ~S /\ ~H => escaped(cp, b, a) = <<b>>
  BY <1>1, Zenon
<1>. QED
  BY <1>2, <1>3, <1>4, <1>5, <1>6, Zenon DEF S, T

-----------------------------------------------------------------------------
(* The state of dump_escaped with its fields.                              *)

Dump(st, cp, wr, by, ac, un, re, th) ==
  [state |-> st, codepoint |-> cp, written |-> wr, bytes |-> by, accepted |-> ac,
   undumped |-> un, reach |-> re, thrown |-> th]

setState(d, x)    == [d EXCEPT !.state = x]
setPoint(d, x)    == [d EXCEPT !.codepoint = x]
setWritten(d, x)  == [d EXCEPT !.written = x]
setBytes(d, x)    == [d EXCEPT !.bytes = x]
setAccepted(d, x) == [d EXCEPT !.accepted = x]
setUndumped(d, x) == [d EXCEPT !.undumped = x]
setReach(d, x)    == [d EXCEPT !.reach = x]
setThrown(d, x)   == [d EXCEPT !.thrown = x]

(* How far x reaches, by itself and behind n bytes; the farther of two.    *)
room(x)       == Len(x) + (IF Len(x) >= 6 THEN 1 ELSE 0)
endOf(n, x)   == n + Len(x) + (IF Len(x) >= 6 THEN 1 ELSE 0)
farther(r, e) == IF e > r THEN e ELSE r

(* The bytes of an incomplete character are in the buffer unless they are  *)
(* to be escaped.                                                          *)
part(a, p)  == IF a THEN <<>> ELSE p
added(a, b) == part(a, <<b>>)

LEMMA DumpRead ==
  ASSUME NEW st, NEW cp, NEW wr, NEW by, NEW ac, NEW un, NEW re, NEW th,
         NEW d, d = Dump(st, cp, wr, by, ac, un, re, th)
  PROVE  /\ d.state = st /\ d.codepoint = cp /\ d.written = wr /\ d.bytes = by
         /\ d.accepted = ac /\ d.undumped = un /\ d.reach = re /\ d.thrown = th
BY DEF Dump

LEMMA DumpState ==
  ASSUME NEW st, NEW cp, NEW wr, NEW by, NEW ac, NEW un, NEW re, NEW th, NEW x,
         NEW d, d = Dump(st, cp, wr, by, ac, un, re, th)
  PROVE  setState(d, x) = Dump(x, cp, wr, by, ac, un, re, th)
BY DEF Dump, setState

LEMMA DumpPoint ==
  ASSUME NEW st, NEW cp, NEW wr, NEW by, NEW ac, NEW un, NEW re, NEW th, NEW x,
         NEW d, d = Dump(st, cp, wr, by, ac, un, re, th)
  PROVE  setPoint(d, x) = Dump(st, x, wr, by, ac, un, re, th)
BY DEF Dump, setPoint

LEMMA DumpWritten ==
  ASSUME NEW st, NEW cp, NEW wr, NEW by, NEW ac, NEW un, NEW re, NEW th, NEW x,
         NEW d, d = Dump(st, cp, wr, by, ac, un, re, th)
  PROVE  setWritten(d, x) = Dump(st, cp, x, by, ac, un, re, th)
BY DEF Dump, setWritten

LEMMA DumpBytes ==
  ASSUME NEW st, NEW cp, NEW wr, NEW by, NEW ac, NEW un, NEW re, NEW th, NEW x,
         NEW d, d = Dump(st, cp, wr, by, ac, un, re, th)
  PROVE  setBytes(d, x) = Dump(st, cp, wr, x, ac, un, re, th)
BY DEF Dump, setBytes

LEMMA DumpAccepted ==
  ASSUME NEW st, NEW cp, NEW wr, NEW by, NEW ac, NEW un, NEW re, NEW th, NEW x,
         NEW d, d = Dump(st, cp, wr, by, ac, un, re, th)
  PROVE  setAccepted(d, x) = Dump(st, cp, wr, by, x, un, re, th)
BY DEF Dump, setAccepted

LEMMA DumpUndumped ==
  ASSUME NEW st, NEW cp, NEW wr, NEW by, NEW ac, NEW un, NEW re, NEW th, NEW x,
         NEW d, d = Dump(st, cp, wr, by, ac, un, re, th)
  PROVE  setUndumped(d, x) = Dump(st, cp, wr, by, ac, x, re, th)
BY DEF Dump, setUndumped

LEMMA DumpReach ==
  ASSUME NEW st, NEW cp, NEW wr, NEW by, NEW ac, NEW un, NEW re, NEW th, NEW x,
         NEW d, d = Dump(st, cp, wr, by, ac, un, re, th)
  PROVE  setReach(d, x) = Dump(st, cp, wr, by, ac, un, x, th)
BY DEF Dump, setReach

LEMMA PutDump ==
  ASSUME NEW st, NEW cp, NEW wr, NEW by, NEW ac, NEW un, NEW re, NEW th, NEW x,
         NEW d, d = Dump(st, cp, wr, by, ac, un, re, th)
  PROVE  put(d, x) = Dump(st, cp, wr, by \o x, ac, un, farther(re, endOf(Len(by), x)), th)
<1>1. put(d, x) = setReach(setBytes(d, d.bytes \o x), farther(d.reach, endOf(Len(d.bytes), x)))
  BY Zenon DEF put, setReach, setBytes, farther, endOf
<1>2. d.bytes = by /\ d.reach = re
  BY DumpRead
<1>. QED
  BY <1>1, <1>2, DumpBytes, DumpReach

LEMMA AcceptDump ==
  ASSUME NEW st, NEW cp, NEW wr, NEW by, NEW ac, NEW un, NEW re, NEW th,
         NEW d, d = Dump(st, cp, wr, by, ac, un, re, th)
  PROVE  /\ BufferSize - Len(by) < 13 => accept(d) = Dump(st, cp, wr \o by, <<>>, 0, 0, re, th)
         /\ ~(BufferSize - Len(by) < 13) => accept(d) = Dump(st, cp, wr, by, Len(by), 0, re, th)
<1> DEFINE f == flushWhenFull(d)
           full == BufferSize - Len(by) < 13
<1>1. accept(d) = setUndumped(setAccepted(f, Len(f.bytes)), 0)
  BY Zenon DEF accept, setUndumped, setAccepted
<1>2. d.bytes = by /\ d.written = wr
  BY DumpRead
<1>3. full => f = setBytes(setWritten(d, d.written \o d.bytes), <<>>)
  BY <1>2, Zenon DEF flushWhenFull, setBytes, setWritten
<1>4. ~full => f = d
  BY <1>2, Zenon DEF flushWhenFull
<1>. HIDE DEF f, full
<1>5. ASSUME full PROVE accept(d) = Dump(st, cp, wr \o by, <<>>, 0, 0, re, th)
  <2>1. f = Dump(st, cp, wr \o by, <<>>, ac, un, re, th)
    BY <1>2, <1>3, <1>5, DumpWritten, DumpBytes
  <2>2. f.bytes = <<>>
    BY <2>1, DumpRead
  <2>3. Len(f.bytes) = 0
    BY <2>2
  <2>. QED
    BY <1>1, <2>1, <2>3, DumpAccepted, DumpUndumped
<1>6. ASSUME ~full PROVE accept(d) = Dump(st, cp, wr, by, Len(by), 0, re, th)
  BY <1>1, <1>2, <1>4, <1>6, DumpAccepted, DumpUndumped
<1>. QED
  BY <1>5, <1>6 DEF full

LEMMA ResumeDump ==
  ASSUME NEW st, NEW cp, NEW wr, NEW by, NEW ac, NEW un, NEW re, NEW th, NEW a, NEW h,
         NEW d, d = Dump(st, cp, wr, by, ac, un, re, th)
  PROVE  /\ h # "replace" => resume(d, a, h) = Dump(0, cp, wr, SubSeq(by, 1, ac), ac, 0, re, th)
         /\ h = "replace" =>
              resume(d, a, h) =
                setState(accept(put(Dump(st, cp, wr, SubSeq(by, 1, ac), ac, un, re, th),
                                    replacement(a))), 0)
<1> DEFINE back == setBytes(d, SubSeq(d.bytes, 1, d.accepted))
<1>1. d.bytes = by /\ d.accepted = ac
  BY DumpRead
<1>2. back = Dump(st, cp, wr, SubSeq(by, 1, ac), ac, un, re, th)
  BY <1>1, DumpBytes
<1>3. back = [d EXCEPT !.bytes = SubSeq(@, 1, d.accepted)]
  BY Zenon DEF setBytes
<1>. HIDE DEF back
<1>4. h = "replace" => resume(d, a, h) = setState(accept(put(back, replacement(a))), 0)
  BY <1>3, Zenon DEF resume, setState, UTF8_ACCEPT
<1>5. h # "replace" => resume(d, a, h) = setUndumped(setState(back, 0), 0)
  BY <1>3, Zenon DEF resume, setState, setUndumped, UTF8_ACCEPT
<1>6. setUndumped(setState(back, 0), 0) = Dump(0, cp, wr, SubSeq(by, 1, ac), ac, 0, re, th)
  BY <1>2, DumpState, DumpUndumped
<1>. QED
  BY <1>2, <1>4, <1>5, <1>6

LEMMA DecodedDump ==
  ASSUME NEW st, NEW cp, NEW wr, NEW by, NEW ac, NEW un, NEW re, NEW th, NEW b, NEW a,
         NEW d, d = Dump(st, cp, wr, by, ac, un, re, th)
  PROVE  /\ decodeState(st, b) = 0 =>
              dumpDecoded(d, b, a) =
                accept(put(Dump(decodeState(st, b), decodeCodepoint(st, cp, b), wr, by, ac, un, re, th),
                           escaped(decodeCodepoint(st, cp, b), b, a)))
         /\ decodeState(st, b) # 0 =>
              dumpDecoded(d, b, a) =
                Dump(decodeState(st, b), decodeCodepoint(st, cp, b), wr, by \o added(a, b), ac,
                     un + 1, farther(re, endOf(Len(by), added(a, b))), th)
<1>1. d.state = st /\ d.codepoint = cp
  BY DumpRead
<1> DEFINE next == decodeState(st, b)
           v == decodeCodepoint(st, cp, b)
           x == added(a, b)
           e == [d EXCEPT !.state = next, !.codepoint = v]
           p == put(e, x)
<1>2. e = setPoint(setState(d, next), v)
  BY Zenon DEF setPoint, setState
<1>3. e = Dump(next, v, wr, by, ac, un, re, th)
  <2>. HIDE DEF e, next, v
  <2>. QED
    BY <1>2, DumpState, DumpPoint
<1>4. next = 0 => dumpDecoded(d, b, a) = accept(put(e, escaped(v, b, a)))
  BY <1>1, Zenon DEF dumpDecoded, UTF8_ACCEPT
<1>5. next # 0 => dumpDecoded(d, b, a) = setUndumped(p, p.undumped + 1)
  BY <1>1, Zenon DEF dumpDecoded, UTF8_ACCEPT, setUndumped, part, added
<1>. HIDE DEF e, x
<1>6. p = Dump(next, v, wr, by \o x, ac, un, farther(re, endOf(Len(by), x)), th)
  <2>. HIDE DEF next, v
  <2>. QED
    BY <1>3, PutDump
<1>. HIDE DEF p
<1>7. p.undumped = un
  BY <1>6, DumpRead
<1>8. setUndumped(p, un + 1) = Dump(next, v, wr, by \o x, ac, un + 1, farther(re, endOf(Len(by), x)), th)
  <2>. HIDE DEF next, v
  <2>. QED
    BY <1>6, DumpUndumped
<1>. QED
  BY <1>3, <1>4, <1>5, <1>7, <1>8 DEF x

LEMMA DumpByteCases ==
  ASSUME NEW d, NEW b, NEW a, NEW h
  PROVE  /\ d.thrown => dumpByte(d, b, a, h) = d
         /\ ~d.thrown /\ decodeState(d.state, b) # 1 => dumpByte(d, b, a, h) = dumpDecoded(d, b, a)
         /\ ~d.thrown /\ decodeState(d.state, b) = 1 => dumpByte(d, b, a, h) = dumpRejected(d, b, a, h)
<1> DEFINE T == d.thrown
           R == rejects(d, b)
<1>1. dumpByte(d, b, a, h) =
        CASE T -> d [] ~T /\ ~R -> dumpDecoded(d, b, a) [] OTHER -> dumpRejected(d, b, a, h)
  BY Zenon DEF dumpByte
<1>2. R <=> decodeState(d.state, b) = 1
  BY DEF rejects, UTF8_REJECT
<1> HIDE DEF T, R
<1>3. T => dumpByte(d, b, a, h) = d
  BY <1>1, Zenon
<1>4. ~T /\ ~R => dumpByte(d, b, a, h) = dumpDecoded(d, b, a)
  BY <1>1, Zenon
<1>5. ~T /\ R => dumpByte(d, b, a, h) = dumpRejected(d, b, a, h)
  BY <1>1, Zenon
<1>. QED
  BY <1>2, <1>3, <1>4, <1>5, Zenon DEF T

LEMMA DumpRejectedThrows ==
  ASSUME NEW d, NEW b, NEW a
  PROVE  dumpRejected(d, b, a, "strict") = setThrown(d, TRUE)
<1>1. dumpRejected(d, b, a, "strict") = [d EXCEPT !.thrown = TRUE]
  BY Zenon DEF dumpRejected
<1>2. setThrown(d, TRUE) = [d EXCEPT !.thrown = TRUE]
  BY Zenon DEF setThrown
<1>. QED
  BY <1>1, <1>2, Zenon

LEMMA DumpRejectedResumes ==
  ASSUME NEW d, NEW b, NEW a, NEW h, h # "strict", NEW r, r = resume(d, a, h)
  PROVE  \/ dumpRejected(d, b, a, h) = r
         \/ decodeState(r.state, b) # 1 /\ dumpRejected(d, b, a, h) = dumpDecoded(r, b, a)
         \/ dumpRejected(d, b, a, h) = resume(r, a, h)
<1> DEFINE S == h = "strict"
           N == d.undumped > 0
<1>1. dumpRejected(d, b, a, h) =
        CASE S -> [d EXCEPT !.thrown = TRUE]
          [] ~S /\ N -> dumpAgain(r, b, a, h)
          [] OTHER -> r
  BY Zenon DEF dumpRejected
<1>3. \/ decodeState(r.state, b) # 1 /\ dumpAgain(r, b, a, h) = dumpDecoded(r, b, a)
      \/ dumpAgain(r, b, a, h) = resume(r, a, h)
  BY Zenon DEF dumpAgain, rejects, UTF8_REJECT
<1> HIDE DEF S, N
<1>5. ~S /\ N => dumpRejected(d, b, a, h) = dumpAgain(r, b, a, h)
  BY <1>1, Zenon
<1>6. ~S /\ ~N => dumpRejected(d, b, a, h) = r
  BY <1>1, Zenon
<1>. QED
  BY <1>3, <1>5, <1>6, Zenon DEF S

LEMMA DumpEndCases ==
  ASSUME NEW d, NEW a, NEW h,
         NEW x, x = IF h = "ignore" THEN <<>> ELSE replacement(a)
  PROVE  /\ d.thrown => dumpEnd(d, a, h) = d
         /\ ~d.thrown /\ d.state = 0 => dumpEnd(d, a, h) = setWritten(d, d.written \o d.bytes)
         /\ ~d.thrown /\ d.state # 0 /\ h # "strict" =>
              dumpEnd(d, a, h) = setWritten(d, d.written \o SubSeq(d.bytes, 1, d.accepted) \o x)
<1> DEFINE T == d.thrown
           Z == d.state = UTF8_ACCEPT
           S == h = "strict"
           w == d.written \o SubSeq(d.bytes, 1, d.accepted) \o x
<1>1. dumpEnd(d, a, h) =
        CASE T -> d
          [] ~T /\ Z -> [d EXCEPT !.written = @ \o d.bytes]
          [] ~T /\ ~Z /\ S -> [d EXCEPT !.thrown = TRUE]
          [] OTHER -> [d EXCEPT !.written = w]
  BY Zenon DEF dumpEnd
<1>2. /\ setWritten(d, d.written \o d.bytes) = [d EXCEPT !.written = @ \o d.bytes]
      /\ setWritten(d, w) = [d EXCEPT !.written = w]
  BY Zenon DEF setWritten
<1>3. Z <=> d.state = 0
  BY DEF UTF8_ACCEPT
<1> HIDE DEF T, Z, S
<1>4. T => dumpEnd(d, a, h) = d
  BY <1>1, Zenon
<1>5. ~T /\ Z => dumpEnd(d, a, h) = setWritten(d, d.written \o d.bytes)
  BY <1>1, <1>2, Zenon
<1>6. ~T /\ ~Z /\ ~S => dumpEnd(d, a, h) = setWritten(d, w)
  BY <1>1, <1>2, Zenon
<1>. QED
  BY <1>3, <1>4, <1>5, <1>6, Zenon DEF T, S

LEMMA DumpEndThrows ==
  ASSUME NEW d, NEW a, ~d.thrown, d.state # 0
  PROVE  dumpEnd(d, a, "strict") = setThrown(d, TRUE)
<1> DEFINE T == d.thrown
           Z == d.state = UTF8_ACCEPT
           w == d.written \o SubSeq(d.bytes, 1, d.accepted) \o replacement(a)
<1>1. dumpEnd(d, a, "strict") =
        CASE T -> d
          [] ~T /\ Z -> [d EXCEPT !.written = @ \o d.bytes]
          [] ~T /\ ~Z -> [d EXCEPT !.thrown = TRUE]
          [] OTHER -> [d EXCEPT !.written = w]
  BY Zenon DEF dumpEnd
<1>2. setThrown(d, TRUE) = [d EXCEPT !.thrown = TRUE]
  BY Zenon DEF setThrown
<1>3. ~T /\ ~Z
  BY DEF UTF8_ACCEPT
<1> HIDE DEF T, Z
<1>. QED
  BY <1>1, <1>2, <1>3, Zenon

-----------------------------------------------------------------------------
(* Induction over the natural numbers, by sets.                            *)

LEMMA LeastNumber ==
  ASSUME NEW T \in SUBSET Nat, T # {}
  PROVE  \E m \in T : \A k \in T : m <= k
<1> DEFINE R == OpToRel(<, Nat)
<1>1. IsWellFoundedOn(R, Nat)
  BY NatLessThanWellFounded
<1>2. \A x, y \in Nat : y < x => <<y, x>> \in R
  BY DEF OpToRel
<1> HIDE DEF R
<1>3. T \subseteq Nat
  OBVIOUS
<1>4. PICK x \in T : \A y \in T : ~(<<y, x>> \in R)
  BY <1>1, <1>3, WFMin
<1>5. ASSUME NEW k \in T PROVE x <= k
  <2>1. k \in Nat /\ x \in Nat /\ ~(k < x)
    BY <1>2, <1>3, <1>4
  <2>. QED
    BY <2>1
<1>. QED
  BY <1>5

LEMMA SetInduction ==
  ASSUME NEW T, 0 \in T, \A n \in Nat : n \in T => n + 1 \in T
  PROVE  \A n \in Nat : n \in T
<1> SUFFICES ASSUME NEW n \in Nat, n \notin T PROVE FALSE
  OBVIOUS
<1> DEFINE N == {k \in Nat : k \notin T}
<1>1. PICK m \in N : \A k \in N : m <= k
  <2>1. N \in SUBSET Nat /\ N # {}
    OBVIOUS
  <2>. HIDE DEF N
  <2>. QED
    BY <2>1, LeastNumber
<1>2. m \in Nat /\ m \notin T /\ m # 0
  BY <1>1
<1>3. m - 1 \in Nat /\ m - 1 \notin N /\ (m - 1) + 1 = m
  <2>1. m - 1 \in Nat /\ (m - 1) + 1 = m /\ ~(m <= m - 1)
    BY <1>2
  <2>. QED
    BY <2>1, <1>1
<1>. QED
  BY <1>2, <1>3

-----------------------------------------------------------------------------
(* What is computed along a text: the states behind its characters.        *)

ReadRun(f, l, s) ==
  f = [i \in 0..Len(s) |-> IF i = 0 THEN l ELSE get(f[i - 1], s[i])]

LEMMA ReadRunExists ==
  ASSUME NEW l, NEW s \in Bytes
  PROVE  \E f : ReadRun(f, l, s)
<1> DEFINE Reaches(n) == \E f : f = [i \in 0..n |-> IF i = 0 THEN l ELSE get(f[i - 1], s[i])]
           T == {n \in Nat : Reaches(n)}
<1>1. 0 \in T
  <2> DEFINE f == [i \in {0} |-> l]
  <2>1. 0..0 = {0} /\ 0 \in Nat
    OBVIOUS
  <2>2. f = [i \in 0..0 |-> IF i = 0 THEN l ELSE get(f[i - 1], s[i])]
    BY <2>1
  <2>. QED
    BY <2>1, <2>2
<1>2. ASSUME NEW n \in Nat, n \in T PROVE n + 1 \in T
  <2>1. PICK f : f = [i \in 0..n |-> IF i = 0 THEN l ELSE get(f[i - 1], s[i])]
    BY <1>2
  <2> DEFINE g == [i \in 0..n + 1 |-> IF i = n + 1 THEN get(f[n], s[n + 1]) ELSE f[i]]
  <2>2. \A i \in 0..n : i \in 0..n + 1 /\ i # n + 1 /\ (i # 0 => i - 1 \in 0..n + 1 /\ i - 1 # n + 1)
    OBVIOUS
  <2>3. n \in 0..n + 1 /\ n # n + 1 /\ (n + 1) - 1 = n /\ n + 1 # 0 /\ n + 1 \in Nat
    OBVIOUS
  <2>4. \A i \in 0..n : g[i] = f[i]
    BY <2>2
  <2>5. ASSUME NEW i \in 0..n + 1
        PROVE  g[i] = IF i = 0 THEN l ELSE get(g[i - 1], s[i])
    <3>1. CASE i = n + 1
      <4>1. g[n] = f[n] /\ g[i] = get(f[n], s[n + 1])
        BY <2>3, <2>4, <3>1
      <4>. QED
        BY <4>1, <2>3, <3>1
    <3>2. CASE i # n + 1
      <4>1. i \in 0..n /\ (i # 0 => i - 1 \in 0..n)
        BY <3>2
      <4>2. g[i] = f[i] /\ (i # 0 => g[i - 1] = f[i - 1])
        BY <4>1, <2>4
      <4>3. f[i] = IF i = 0 THEN l ELSE get(f[i - 1], s[i])
        BY <4>1, <2>1
      <4>. QED
        BY <4>2, <4>3
    <3>. QED
      BY <3>1, <3>2
  <2>6. g = [i \in 0..n + 1 |-> IF i = 0 THEN l ELSE get(g[i - 1], s[i])]
    BY <2>5
  <2>. QED
    BY <2>6, <2>3
<1>. HIDE DEF T
<1>3. \A n \in Nat : n \in T
  BY <1>1, <1>2, SetInduction
<1>4. Len(s) \in T
  BY <1>3, LenProperties DEF Bytes
<1>. QED
  BY <1>4 DEF T, ReadRun

LEMMA ReadRunUnique ==
  ASSUME NEW l, NEW s \in Bytes, NEW f, NEW g, ReadRun(f, l, s),
         \/ ReadRun(g, l, s)
         \/ \E c \in Byte : ReadRun(g, l, Append(s, c))
  PROVE  \A n \in 0..Len(s) : f[n] = g[n]
<1> DEFINE T == {n \in Nat : n <= Len(s) => f[n] = g[n]}
<1>0. Len(s) \in Nat
  BY LenProperties DEF Bytes
<1>1. \A i \in 0..Len(s) : f[i] = IF i = 0 THEN l ELSE get(f[i - 1], s[i])
  BY DEF ReadRun
<1>2. \A i \in 0..Len(s) : g[i] = IF i = 0 THEN l ELSE get(g[i - 1], s[i])
  <2>1. CASE ReadRun(g, l, s)
    BY <2>1 DEF ReadRun
  <2>2. ASSUME NEW c \in Byte, ReadRun(g, l, Append(s, c))
        PROVE  \A i \in 0..Len(s) : g[i] = IF i = 0 THEN l ELSE get(g[i - 1], s[i])
    <3>1. s \in Seq(Byte)
      BY DEF Bytes
    <3>2. /\ Len(Append(s, c)) = Len(s) + 1
          /\ \A i \in 1..Len(s) : Append(s, c)[i] = s[i]
      BY <3>1, AppendProperties
    <3>3. \A i \in 0..Len(s) + 1 : g[i] = IF i = 0 THEN l ELSE get(g[i - 1], Append(s, c)[i])
      BY <2>2, <3>2 DEF ReadRun
    <3>4. \A i \in 0..Len(s) : i \in 0..Len(s) + 1 /\ (i # 0 => i \in 1..Len(s))
      BY <1>0
    <3>. QED
      BY <3>2, <3>3, <3>4
  <2>. QED
    BY <2>1, <2>2
<1>3. 0 \in T
  BY <1>0, <1>1, <1>2
<1>4. ASSUME NEW n \in Nat, n \in T PROVE n + 1 \in T
  <2>1. SUFFICES ASSUME n + 1 <= Len(s) PROVE f[n + 1] = g[n + 1]
    OBVIOUS
  <2>2. n + 1 \in 0..Len(s) /\ n \in 0..Len(s) /\ (n + 1) - 1 = n /\ n + 1 # 0
    BY <1>0, <2>1
  <2>3. f[n] = g[n]
    BY <1>4, <2>2
  <2>. QED
    BY <2>2, <2>3, <1>1, <1>2
<1> HIDE DEF T
<1>5. \A n \in Nat : n \in T
  BY <1>3, <1>4, SetInduction
<1>. QED
  BY <1>0, <1>5 DEF T

LEMMA ReadFromIsRun ==
  ASSUME NEW l, NEW s \in Bytes
  PROVE  \E f : ReadRun(f, l, s) /\ readFrom(l, s) = f[Len(s)]
<1> DEFINE f == CHOOSE h : h = [i \in 0..Len(s) |-> IF i = 0 THEN l ELSE get(h[i - 1], s[i])]
<1>1. readFrom(l, s) = f[Len(s)]
  BY DEF readFrom
<1>2. \E h : h = [i \in 0..Len(s) |-> IF i = 0 THEN l ELSE get(h[i - 1], s[i])]
  <2>1. PICK h : ReadRun(h, l, s)
    BY ReadRunExists
  <2>. QED
    BY <2>1 DEF ReadRun
<1>3. f = [i \in 0..Len(s) |-> IF i = 0 THEN l ELSE get(f[i - 1], s[i])]
  BY <1>2
<1>. HIDE DEF f
<1>. QED
  BY <1>1, <1>3 DEF ReadRun

(* Nothing read is nothing done, and the last character is read last.      *)
LEMMA ReadFromEmpty ==
  ASSUME NEW l
  PROVE  readFrom(l, <<>>) = l
<1>1. <<>> \in Bytes /\ Len(<<>>) = 0 /\ 0 \in 0..0
  BY DEF Bytes
<1>2. PICK f : ReadRun(f, l, <<>>) /\ readFrom(l, <<>>) = f[0]
  BY <1>1, ReadFromIsRun
<1>. QED
  BY <1>1, <1>2 DEF ReadRun

LEMMA ReadFromAppend ==
  ASSUME NEW l, NEW s \in Bytes, NEW c \in Byte
  PROVE  readFrom(l, Append(s, c)) = get(readFrom(l, s), c)
<1>1. /\ Append(s, c) \in Bytes /\ Len(Append(s, c)) = Len(s) + 1
      /\ Append(s, c)[Len(s) + 1] = c /\ Len(s) \in Nat
  BY AppendProperties, LenProperties DEF Bytes
<1>2. PICK f : ReadRun(f, l, s) /\ readFrom(l, s) = f[Len(s)]
  BY ReadFromIsRun
<1>3. PICK g : ReadRun(g, l, Append(s, c)) /\ readFrom(l, Append(s, c)) = g[Len(s) + 1]
  BY <1>1, ReadFromIsRun
<1>4. f[Len(s)] = g[Len(s)]
  <2>1. \A n \in 0..Len(s) : f[n] = g[n]
    BY <1>2, <1>3, ReadRunUnique
  <2>. QED
    BY <1>1, <2>1
<1>5. g[Len(s) + 1] = get(g[Len(s)], c)
  <2>1. Len(s) + 1 \in 0..Len(s) + 1 /\ (Len(s) + 1) - 1 = Len(s) /\ Len(s) + 1 # 0
    BY <1>1
  <2>2. g = [i \in 0..Len(s) + 1 |-> IF i = 0 THEN l ELSE get(g[i - 1], Append(s, c)[i])]
    BY <1>1, <1>3 DEF ReadRun
  <2>3. g[Len(s) + 1] = IF Len(s) + 1 = 0 THEN l
                        ELSE get(g[(Len(s) + 1) - 1], Append(s, c)[Len(s) + 1])
    BY <2>1, <2>2
  <2>. QED
    BY <1>1, <2>1, <2>3
<1>. QED
  BY <1>2, <1>3, <1>4, <1>5

-----------------------------------------------------------------------------
(* The states of dump_escaped behind the bytes of a string.                *)

DumpRun(f, a, h, s) ==
  f = [i \in 0..Len(s) |-> IF i = 0 THEN emptyDump ELSE dumpByte(f[i - 1], s[i], a, h)]

LEMMA DumpRunExists ==
  ASSUME NEW a, NEW h, NEW s \in Bytes
  PROVE  \E f : DumpRun(f, a, h, s)
<1> DEFINE Reaches(n) == \E f : f = [i \in 0..n |-> IF i = 0 THEN emptyDump ELSE dumpByte(f[i - 1], s[i], a, h)]
           T == {n \in Nat : Reaches(n)}
<1>1. 0 \in T
  <2> DEFINE f == [i \in {0} |-> emptyDump]
  <2>1. 0..0 = {0} /\ 0 \in Nat
    OBVIOUS
  <2>2. f = [i \in 0..0 |-> IF i = 0 THEN emptyDump ELSE dumpByte(f[i - 1], s[i], a, h)]
    BY <2>1
  <2>. QED
    BY <2>1, <2>2
<1>2. ASSUME NEW n \in Nat, n \in T PROVE n + 1 \in T
  <2>1. PICK f : f = [i \in 0..n |-> IF i = 0 THEN emptyDump ELSE dumpByte(f[i - 1], s[i], a, h)]
    BY <1>2
  <2> DEFINE g == [i \in 0..n + 1 |-> IF i = n + 1 THEN dumpByte(f[n], s[n + 1], a, h) ELSE f[i]]
  <2>2. \A i \in 0..n : i \in 0..n + 1 /\ i # n + 1 /\ (i # 0 => i - 1 \in 0..n + 1 /\ i - 1 # n + 1)
    OBVIOUS
  <2>3. n \in 0..n + 1 /\ n # n + 1 /\ (n + 1) - 1 = n /\ n + 1 # 0 /\ n + 1 \in Nat
    OBVIOUS
  <2>4. \A i \in 0..n : g[i] = f[i]
    BY <2>2
  <2>5. ASSUME NEW i \in 0..n + 1
        PROVE  g[i] = IF i = 0 THEN emptyDump ELSE dumpByte(g[i - 1], s[i], a, h)
    <3>1. CASE i = n + 1
      <4>1. g[n] = f[n] /\ g[i] = dumpByte(f[n], s[n + 1], a, h)
        BY <2>3, <2>4, <3>1
      <4>. QED
        BY <4>1, <2>3, <3>1
    <3>2. CASE i # n + 1
      <4>1. i \in 0..n /\ (i # 0 => i - 1 \in 0..n)
        BY <3>2
      <4>2. g[i] = f[i] /\ (i # 0 => g[i - 1] = f[i - 1])
        BY <4>1, <2>4
      <4>3. f[i] = IF i = 0 THEN emptyDump ELSE dumpByte(f[i - 1], s[i], a, h)
        BY <4>1, <2>1
      <4>. QED
        BY <4>2, <4>3
    <3>. QED
      BY <3>1, <3>2
  <2>6. g = [i \in 0..n + 1 |-> IF i = 0 THEN emptyDump ELSE dumpByte(g[i - 1], s[i], a, h)]
    BY <2>5
  <2>. QED
    BY <2>6, <2>3
<1>. HIDE DEF T
<1>3. \A n \in Nat : n \in T
  BY <1>1, <1>2, SetInduction
<1>4. Len(s) \in T
  BY <1>3, LenProperties DEF Bytes
<1>. QED
  BY <1>4 DEF T, DumpRun

LEMMA DumpRunUnique ==
  ASSUME NEW a, NEW h, NEW s \in Bytes, NEW f, NEW g, DumpRun(f, a, h, s),
         \/ DumpRun(g, a, h, s)
         \/ \E c \in Byte : DumpRun(g, a, h, Append(s, c))
  PROVE  \A n \in 0..Len(s) : f[n] = g[n]
<1> DEFINE T == {n \in Nat : n <= Len(s) => f[n] = g[n]}
<1>0. Len(s) \in Nat
  BY LenProperties DEF Bytes
<1>1. \A i \in 0..Len(s) : f[i] = IF i = 0 THEN emptyDump ELSE dumpByte(f[i - 1], s[i], a, h)
  BY DEF DumpRun
<1>2. \A i \in 0..Len(s) : g[i] = IF i = 0 THEN emptyDump ELSE dumpByte(g[i - 1], s[i], a, h)
  <2>1. CASE DumpRun(g, a, h, s)
    BY <2>1 DEF DumpRun
  <2>2. ASSUME NEW c \in Byte, DumpRun(g, a, h, Append(s, c))
        PROVE  \A i \in 0..Len(s) : g[i] = IF i = 0 THEN emptyDump ELSE dumpByte(g[i - 1], s[i], a, h)
    <3>1. s \in Seq(Byte)
      BY DEF Bytes
    <3>2. /\ Len(Append(s, c)) = Len(s) + 1
          /\ \A i \in 1..Len(s) : Append(s, c)[i] = s[i]
      BY <3>1, AppendProperties
    <3>3. \A i \in 0..Len(s) + 1 : g[i] = IF i = 0 THEN emptyDump ELSE dumpByte(g[i - 1], Append(s, c)[i], a, h)
      BY <2>2, <3>2 DEF DumpRun
    <3>4. \A i \in 0..Len(s) : i \in 0..Len(s) + 1 /\ (i # 0 => i \in 1..Len(s))
      BY <1>0
    <3>. QED
      BY <3>2, <3>3, <3>4
  <2>. QED
    BY <2>1, <2>2
<1>3. 0 \in T
  BY <1>0, <1>1, <1>2
<1>4. ASSUME NEW n \in Nat, n \in T PROVE n + 1 \in T
  <2>1. SUFFICES ASSUME n + 1 <= Len(s) PROVE f[n + 1] = g[n + 1]
    OBVIOUS
  <2>2. n + 1 \in 0..Len(s) /\ n \in 0..Len(s) /\ (n + 1) - 1 = n /\ n + 1 # 0
    BY <1>0, <2>1
  <2>3. f[n] = g[n]
    BY <1>4, <2>2
  <2>. QED
    BY <2>2, <2>3, <1>1, <1>2
<1> HIDE DEF T
<1>5. \A n \in Nat : n \in T
  BY <1>3, <1>4, SetInduction
<1>. QED
  BY <1>0, <1>5 DEF T

LEMMA DumpedIsRun ==
  ASSUME NEW a, NEW h, NEW s \in Bytes
  PROVE  \E f : DumpRun(f, a, h, s) /\ dumped(s, a, h) = f[Len(s)]
<1> DEFINE f == CHOOSE e : e = [i \in 0..Len(s) |-> IF i = 0 THEN emptyDump ELSE dumpByte(e[i - 1], s[i], a, h)]
<1>1. dumped(s, a, h) = f[Len(s)]
  BY DEF dumped
<1>2. \E e : e = [i \in 0..Len(s) |-> IF i = 0 THEN emptyDump ELSE dumpByte(e[i - 1], s[i], a, h)]
  <2>1. PICK e : DumpRun(e, a, h, s)
    BY DumpRunExists
  <2>. QED
    BY <2>1 DEF DumpRun
<1>3. f = [i \in 0..Len(s) |-> IF i = 0 THEN emptyDump ELSE dumpByte(f[i - 1], s[i], a, h)]
  BY <1>2
<1>. HIDE DEF f
<1>. QED
  BY <1>1, <1>3 DEF DumpRun

(* The last byte is dumped last.                                           *)
LEMMA DumpedEmpty ==
  ASSUME NEW a, NEW h
  PROVE  dumped(<<>>, a, h) = emptyDump
<1>1. <<>> \in Bytes /\ Len(<<>>) = 0 /\ 0 \in 0..0
  BY DEF Bytes
<1>2. PICK f : DumpRun(f, a, h, <<>>) /\ dumped(<<>>, a, h) = f[0]
  BY <1>1, DumpedIsRun
<1>. QED
  BY <1>1, <1>2 DEF DumpRun

LEMMA DumpedAppend ==
  ASSUME NEW a, NEW h, NEW s \in Bytes, NEW c \in Byte
  PROVE  dumped(Append(s, c), a, h) = dumpByte(dumped(s, a, h), c, a, h)
<1>1. /\ Append(s, c) \in Bytes /\ Len(Append(s, c)) = Len(s) + 1
      /\ Append(s, c)[Len(s) + 1] = c /\ Len(s) \in Nat
  BY AppendProperties, LenProperties DEF Bytes
<1>2. PICK f : DumpRun(f, a, h, s) /\ dumped(s, a, h) = f[Len(s)]
  BY DumpedIsRun
<1>3. PICK g : DumpRun(g, a, h, Append(s, c)) /\ dumped(Append(s, c), a, h) = g[Len(s) + 1]
  BY <1>1, DumpedIsRun
<1>4. f[Len(s)] = g[Len(s)]
  <2>1. \A n \in 0..Len(s) : f[n] = g[n]
    BY <1>2, <1>3, DumpRunUnique
  <2>. QED
    BY <1>1, <2>1
<1>5. g[Len(s) + 1] = dumpByte(g[Len(s)], c, a, h)
  <2>1. Len(s) + 1 \in 0..Len(s) + 1 /\ (Len(s) + 1) - 1 = Len(s) /\ Len(s) + 1 # 0
    BY <1>1
  <2>2. g = [i \in 0..Len(s) + 1 |-> IF i = 0 THEN emptyDump ELSE dumpByte(g[i - 1], Append(s, c)[i], a, h)]
    BY <1>1, <1>3 DEF DumpRun
  <2>3. g[Len(s) + 1] = IF Len(s) + 1 = 0 THEN emptyDump
                        ELSE dumpByte(g[(Len(s) + 1) - 1], Append(s, c)[Len(s) + 1], a, h)
    BY <2>1, <2>2
  <2>. QED
    BY <1>1, <2>1, <2>3
<1>. QED
  BY <1>2, <1>3, <1>4, <1>5

-----------------------------------------------------------------------------
(* A text that is read in two parts.                                       *)

LEMMA SplitLast ==
  ASSUME NEW s \in Bytes, s # <<>>
  PROVE  \E front \in Bytes, last \in Byte :
           s = Append(front, last) /\ Len(s) = Len(front) + 1
<1>1. PICK front \in Bytes, last \in Byte : s = Append(front, last)
  BY SequenceEmptyOrAppend DEF Bytes
<1>2. Len(Append(front, last)) = Len(front) + 1
  BY AppendProperties DEF Bytes
<1>. QED
  BY <1>1, <1>2

LEMMA ConcatAppend ==
  ASSUME NEW s \in Bytes, NEW t \in Bytes, NEW c \in Byte
  PROVE  s \o Append(t, c) = Append(s \o t, c) /\ s \o t \in Bytes
BY DEF Bytes

(* Reading a text goes on where reading its beginning ended.               *)
LEMMA ReadFromConcat ==
  ASSUME NEW l, NEW s \in Bytes, NEW t \in Bytes
  PROVE  readFrom(l, s \o t) = readFrom(readFrom(l, s), t)
<1> DEFINE T == {n \in Nat : \A r \in Bytes :
                   Len(r) = n => readFrom(l, s \o r) = readFrom(readFrom(l, s), r)}
<1>1. 0 \in T
  <2>1. ASSUME NEW r \in Bytes, Len(r) = 0 PROVE readFrom(l, s \o r) = readFrom(readFrom(l, s), r)
    <3>1. r = <<>> /\ s \o r = s
      BY <2>1, EmptySeq, ConcatEmptySeq DEF Bytes
    <3>. QED
      BY <3>1, ReadFromEmpty
  <2>. QED
    BY <2>1
<1>2. ASSUME NEW n \in Nat, n \in T PROVE n + 1 \in T
  <2>1. ASSUME NEW r \in Bytes, Len(r) = n + 1
        PROVE  readFrom(l, s \o r) = readFrom(readFrom(l, s), r)
    <3>1. r # <<>>
      BY <2>1, EmptySeq DEF Bytes
    <3>2. PICK front \in Bytes, last \in Byte : r = Append(front, last) /\ Len(r) = Len(front) + 1
      BY <3>1, SplitLast
    <3>3. Len(front) = n
      BY <2>1, <3>2, LenProperties DEF Bytes
    <3>4. readFrom(l, s \o front) = readFrom(readFrom(l, s), front)
      BY <1>2, <3>3
    <3>5. s \o r = Append(s \o front, last) /\ s \o front \in Bytes
      BY <3>2, ConcatAppend
    <3>6. readFrom(l, s \o r) = get(readFrom(l, s \o front), last)
      BY <3>5, ReadFromAppend
    <3>7. readFrom(readFrom(l, s), r) = get(readFrom(readFrom(l, s), front), last)
      BY <3>2, ReadFromAppend
    <3>. QED
      BY <3>4, <3>6, <3>7
  <2>. QED
    BY <2>1
<1> HIDE DEF T
<1>3. \A n \in Nat : n \in T
  BY <1>1, <1>2, SetInduction
<1>4. Len(t) \in T
  BY <1>3, LenProperties DEF Bytes
<1>. QED
  BY <1>4 DEF T

LEMMA ReadFromOne ==
  ASSUME NEW l, NEW c \in Byte
  PROVE  readFrom(l, <<c>>) = get(l, c)
<1>1. <<c>> = Append(<<>>, c) /\ <<>> \in Bytes
  BY DEF Bytes
<1>. QED
  BY <1>1, ReadFromAppend, ReadFromEmpty

LEMMA ReadFromTwo ==
  ASSUME NEW l, NEW c \in Byte, NEW d \in Byte
  PROVE  readFrom(l, <<c, d>>) = get(get(l, c), d)
<1>1. <<c, d>> = Append(<<c>>, d) /\ <<c>> \in Bytes
  BY DEF Bytes
<1>2. readFrom(l, Append(<<c>>, d)) = get(readFrom(l, <<c>>), d)
  BY <1>1, ReadFromAppend, Zenon
<1>3. readFrom(l, <<c>>) = get(l, c)
  BY ReadFromOne
<1>. QED
  BY <1>1, <1>2, <1>3, Zenon

LEMMA ReadFromThree ==
  ASSUME NEW l, NEW c \in Byte, NEW d \in Byte, NEW e \in Byte
  PROVE  readFrom(l, <<c, d, e>>) = get(get(get(l, c), d), e)
<1>1. <<c, d, e>> = Append(<<c, d>>, e) /\ <<c, d>> \in Bytes
  BY DEF Bytes
<1>2. readFrom(l, Append(<<c, d>>, e)) = get(readFrom(l, <<c, d>>), e)
  BY <1>1, ReadFromAppend, Zenon
<1>3. readFrom(l, <<c, d>>) = get(get(l, c), d)
  BY ReadFromTwo
<1>. QED
  BY <1>1, <1>2, <1>3, Zenon

LEMMA ReadFromSix ==
  ASSUME NEW l, NEW c \in Byte, NEW d \in Byte, NEW e \in Byte,
         NEW x \in Byte, NEW y \in Byte, NEW z \in Byte
  PROVE  readFrom(l, <<c, d, e, x, y, z>>) = get(get(get(get(get(get(l, c), d), e), x), y), z)
<1>1. <<c, d, e, x, y, z>> = <<c, d, e>> \o <<x, y, z>>
  OBVIOUS
<1>2. <<c, d, e>> \in Bytes /\ <<x, y, z>> \in Bytes
  BY DEF Bytes
<1>3. readFrom(l, <<c, d, e>> \o <<x, y, z>>) = readFrom(readFrom(l, <<c, d, e>>), <<x, y, z>>)
  BY <1>2, ReadFromConcat, Zenon
<1>4. readFrom(l, <<c, d, e>>) = get(get(get(l, c), d), e)
  BY ReadFromThree
<1>5. readFrom(get(get(get(l, c), d), e), <<x, y, z>>) = get(get(get(get(get(get(l, c), d), e), x), y), z)
  BY ReadFromThree
<1>. QED
  BY <1>1, <1>3, <1>4, <1>5, Zenon

-----------------------------------------------------------------------------
(* The two tables of UTF-8: that of the decoder and that of the lexer.     *)

(* The state behind the first byte of a character.                         *)
leadOf(b) == IF b < 128 THEN 0
             ELSE IF b \in 194..223 THEN 2
             ELSE IF b = 224 THEN 4
             ELSE IF b = 237 THEN 5
             ELSE IF b \in 225..239 THEN 3
             ELSE IF b = 240 THEN 6
             ELSE IF b \in 241..243 THEN 7
             ELSE IF b = 244 THEN 8 ELSE 1

(* The bytes a state expects, and the state behind them.                   *)
lowest(state)  == IF state = 4 THEN 160 ELSE IF state = 6 THEN 144 ELSE 128
highest(state) == IF state = 5 THEN 159 ELSE IF state = 8 THEN 143 ELSE 191
nextOf(state)  == IF state = 2 THEN 0 ELSE IF state \in {3, 4, 5} THEN 2 ELSE 3

LEMMA Row0 ==
  rows[1] = [class \in {0, 2, 3, 4, 5, 6, 10, 11} |->
     CASE class = 4 -> 5 [] class = 5 -> 8 [] class = 6 -> 7
       [] class = 10 -> 4 [] class = 11 -> 6 [] OTHER -> class]
BY Zenon DEF rows

LEMMA Row2 == rows[3] = [class \in {1, 7, 9} |-> 0]
BY Zenon DEF rows
LEMMA Row3 == rows[4] = [class \in {1, 7, 9} |-> 2]
BY Zenon DEF rows
LEMMA Row4 == rows[5] = [class \in {7} |-> 2]
BY Zenon DEF rows
LEMMA Row5 == rows[6] = [class \in {1, 9} |-> 2]
BY Zenon DEF rows
LEMMA Row6 == rows[7] = [class \in {7, 9} |-> 3]
BY Zenon DEF rows
LEMMA Row7 == rows[8] = [class \in {1, 7, 9} |-> 3]
BY Zenon DEF rows
LEMMA Row8 == rows[9] = [class \in {1} |-> 3]
BY Zenon DEF rows

LEMMA ByteTypes ==
  ASSUME NEW b \in Byte
  PROVE  /\ b < 128 => byteType(b) = 0
         /\ b \in 128..143 => byteType(b) = 1
         /\ b \in 144..159 => byteType(b) = 9
         /\ b \in 160..191 => byteType(b) = 7
         /\ b \in {192, 193} => byteType(b) = 8
         /\ b \in 194..223 => byteType(b) = 2
         /\ b = 224 => byteType(b) = 10
         /\ b \in (225..239) \ {237} => byteType(b) = 3
         /\ b = 237 => byteType(b) = 4
         /\ b = 240 => byteType(b) = 11
         /\ b \in 241..243 => byteType(b) = 6
         /\ b = 244 => byteType(b) = 5
         /\ b \in 245..255 => byteType(b) = 8
<1> DEFINE Ascii == b < 128
           T8    == b \in 128..143
           T9    == b \in 144..159
           TA    == b \in 160..191
           C0    == b \in {192, 193}
           Two   == b \in 194..223
           E0    == b = 224
           E1    == b \in (225..239) \ {237}
           ED    == b = 237
           F0    == b = 240
           F1    == b \in 241..243
           F4    == b = 244
<1>a. byteType(b) =
       CASE Ascii -> 0
         [] T8 -> 1
         [] T9 -> 9
         [] TA -> 7
         [] C0 -> 8
         [] Two -> 2
         [] E0 -> 10
         [] E1 -> 3
         [] ED -> 4
         [] F0 -> 11
         [] F1 -> 6
         [] F4 -> 5
         [] OTHER -> 8
  BY Zenon DEF byteType
<1>1. Ascii => ~T8 /\ ~T9 /\ ~TA /\ ~C0 /\ ~Two /\ ~E0 /\ ~E1 /\ ~ED /\ ~F0 /\ ~F1 /\ ~F4
  BY DEF Byte
<1>2. T8 => ~Ascii /\ ~T9 /\ ~TA /\ ~C0 /\ ~Two /\ ~E0 /\ ~E1 /\ ~ED /\ ~F0 /\ ~F1 /\ ~F4
  BY DEF Byte
<1>3. T9 => ~Ascii /\ ~T8 /\ ~TA /\ ~C0 /\ ~Two /\ ~E0 /\ ~E1 /\ ~ED /\ ~F0 /\ ~F1 /\ ~F4
  BY DEF Byte
<1>4. TA => ~Ascii /\ ~T8 /\ ~T9 /\ ~C0 /\ ~Two /\ ~E0 /\ ~E1 /\ ~ED /\ ~F0 /\ ~F1 /\ ~F4
  BY DEF Byte
<1>5. C0 => ~Ascii /\ ~T8 /\ ~T9 /\ ~TA /\ ~Two /\ ~E0 /\ ~E1 /\ ~ED /\ ~F0 /\ ~F1 /\ ~F4
  BY DEF Byte
<1>6. Two => ~Ascii /\ ~T8 /\ ~T9 /\ ~TA /\ ~C0 /\ ~E0 /\ ~E1 /\ ~ED /\ ~F0 /\ ~F1 /\ ~F4
  BY DEF Byte
<1>7. E0 => ~Ascii /\ ~T8 /\ ~T9 /\ ~TA /\ ~C0 /\ ~Two /\ ~E1 /\ ~ED /\ ~F0 /\ ~F1 /\ ~F4
  BY DEF Byte
<1>8. E1 => ~Ascii /\ ~T8 /\ ~T9 /\ ~TA /\ ~C0 /\ ~Two /\ ~E0 /\ ~ED /\ ~F0 /\ ~F1 /\ ~F4
  BY DEF Byte
<1>9. ED => ~Ascii /\ ~T8 /\ ~T9 /\ ~TA /\ ~C0 /\ ~Two /\ ~E0 /\ ~E1 /\ ~F0 /\ ~F1 /\ ~F4
  BY DEF Byte
<1>10. F0 => ~Ascii /\ ~T8 /\ ~T9 /\ ~TA /\ ~C0 /\ ~Two /\ ~E0 /\ ~E1 /\ ~ED /\ ~F1 /\ ~F4
  BY DEF Byte
<1>11. F1 => ~Ascii /\ ~T8 /\ ~T9 /\ ~TA /\ ~C0 /\ ~Two /\ ~E0 /\ ~E1 /\ ~ED /\ ~F0 /\ ~F4
  BY DEF Byte
<1>12. F4 => ~Ascii /\ ~T8 /\ ~T9 /\ ~TA /\ ~C0 /\ ~Two /\ ~E0 /\ ~E1 /\ ~ED /\ ~F0 /\ ~F1
  BY DEF Byte
<1>13. b \in 245..255 => ~Ascii /\ ~T8 /\ ~T9 /\ ~TA /\ ~C0 /\ ~Two /\ ~E0 /\ ~E1 /\ ~ED /\ ~F0 /\ ~F1 /\ ~F4
  BY DEF Byte
<1> HIDE DEF Ascii, T8, T9, TA, C0, Two, E0, E1, ED, F0, F1, F4
<1>21. Ascii => byteType(b) = 0
  BY <1>a, <1>1, Zenon
<1>22. T8 => byteType(b) = 1
  BY <1>a, <1>2, Zenon
<1>23. T9 => byteType(b) = 9
  BY <1>a, <1>3, Zenon
<1>24. TA => byteType(b) = 7
  BY <1>a, <1>4, Zenon
<1>25. C0 => byteType(b) = 8
  BY <1>a, <1>5, Zenon
<1>26. Two => byteType(b) = 2
  BY <1>a, <1>6, Zenon
<1>27. E0 => byteType(b) = 10
  BY <1>a, <1>7, Zenon
<1>28. E1 => byteType(b) = 3
  BY <1>a, <1>8, Zenon
<1>29. ED => byteType(b) = 4
  BY <1>a, <1>9, Zenon
<1>30. F0 => byteType(b) = 11
  BY <1>a, <1>10, Zenon
<1>31. F1 => byteType(b) = 6
  BY <1>a, <1>11, Zenon
<1>32. F4 => byteType(b) = 5
  BY <1>a, <1>12, Zenon
<1>33. b \in 245..255 => byteType(b) = 8
  BY <1>a, <1>13, Zenon
<1>. QED
  BY <1>21, <1>22, <1>23, <1>24, <1>25, <1>26, <1>27, <1>28, <1>29, <1>30, <1>31, <1>32, <1>33 DEF Ascii, T8, T9, TA, C0, Two, E0, E1, ED, F0, F1, F4

LEMMA FirstBytes ==
  ASSUME NEW b \in Byte
  PROVE  decodeState(0, b) = leadOf(b)
<1>1. decodeState(0, b) = IF byteType(b) \in DOMAIN rows[1] THEN rows[1][byteType(b)] ELSE 1
  BY DEF decodeState, UTF8_REJECT
<1>2. DOMAIN rows[1] = {0, 2, 3, 4, 5, 6, 10, 11}
  BY Row0
<1>3. /\ rows[1][0] = 0 /\ rows[1][2] = 2 /\ rows[1][3] = 3 /\ rows[1][4] = 5
      /\ rows[1][5] = 8 /\ rows[1][6] = 7 /\ rows[1][10] = 4 /\ rows[1][11] = 6
  BY Row0
<1>. QED
  BY <1>1, <1>2, <1>3, ByteTypes DEF leadOf, Byte

LEMMA LaterBytes ==
  ASSUME NEW state \in 2..8, NEW b \in Byte
  PROVE  decodeState(state, b) =
           IF lowest(state) <= b /\ b <= highest(state) THEN nextOf(state) ELSE 1
<1>1. decodeState(state, b) = IF byteType(b) \in DOMAIN rows[state + 1]
                              THEN rows[state + 1][byteType(b)] ELSE 1
  BY DEF decodeState, UTF8_REJECT
<1>2. /\ b \in 128..143 <=> byteType(b) = 1
      /\ b \in 144..159 <=> byteType(b) = 9
      /\ b \in 160..191 <=> byteType(b) = 7
  BY ByteTypes DEF Byte
<1>3. CASE state = 2
  BY <1>1, <1>2, <1>3, Row2 DEF lowest, highest, nextOf, Byte
<1>4. CASE state = 3
  BY <1>1, <1>2, <1>4, Row3 DEF lowest, highest, nextOf, Byte
<1>5. CASE state = 4
  BY <1>1, <1>2, <1>5, Row4 DEF lowest, highest, nextOf, Byte
<1>6. CASE state = 5
  BY <1>1, <1>2, <1>6, Row5 DEF lowest, highest, nextOf, Byte
<1>7. CASE state = 6
  BY <1>1, <1>2, <1>7, Row6 DEF lowest, highest, nextOf, Byte
<1>8. CASE state = 7
  BY <1>1, <1>2, <1>8, Row7 DEF lowest, highest, nextOf, Byte
<1>9. CASE state = 8
  BY <1>1, <1>2, <1>9, Row8 DEF lowest, highest, nextOf, Byte
<1>. QED
  BY <1>3, <1>4, <1>5, <1>6, <1>7, <1>8, <1>9

(* What the lexer still expects in a state of the decoder.                 *)
expected(state) ==
  IF state = 2 THEN <<Tail80>>
  ELSE IF state = 3 THEN <<Tail80, Tail80>>
  ELSE IF state = 4 THEN <<<<160, 191>>, Tail80>>
  ELSE IF state = 5 THEN <<<<128, 159>>, Tail80>>
  ELSE IF state = 6 THEN <<<<144, 191>>, Tail80, Tail80>>
  ELSE IF state = 7 THEN <<Tail80, Tail80, Tail80>>
  ELSE IF state = 8 THEN <<<<128, 143>>, Tail80, Tail80>> ELSE <<>>

LEMMA RangesAreExpected ==
  ASSUME NEW b \in Byte, b >= 128
  PROVE  ranges(b) = expected(leadOf(b)) /\ (ranges(b) # <<>> <=> leadOf(b) # 1)
<1> DEFINE Two == b \in 194..223
           E0  == b = 224
           E1  == b \in (225..239) \ {237}
           ED  == b = 237
           F0  == b = 240
           F1  == b \in 241..243
           F4  == b = 244
<1>a. ranges(b) =
       CASE Two -> <<Tail80>>
         [] E0 -> <<<<160, 191>>, Tail80>>
         [] E1 -> <<Tail80, Tail80>>
         [] ED -> <<<<128, 159>>, Tail80>>
         [] F0 -> <<<<144, 191>>, Tail80, Tail80>>
         [] F1 -> <<Tail80, Tail80, Tail80>>
         [] F4 -> <<<<128, 143>>, Tail80, Tail80>>
         [] OTHER -> <<>>
  BY Zenon DEF ranges
<1>b. /\ Two => ~E0 /\ ~E1 /\ ~ED /\ ~F0 /\ ~F1 /\ ~F4 /\ leadOf(b) = 2
      /\ E0 => ~Two /\ ~E1 /\ ~ED /\ ~F0 /\ ~F1 /\ ~F4 /\ leadOf(b) = 4
      /\ E1 => ~Two /\ ~E0 /\ ~ED /\ ~F0 /\ ~F1 /\ ~F4 /\ leadOf(b) = 3
      /\ ED => ~Two /\ ~E0 /\ ~E1 /\ ~F0 /\ ~F1 /\ ~F4 /\ leadOf(b) = 5
      /\ F0 => ~Two /\ ~E0 /\ ~E1 /\ ~ED /\ ~F1 /\ ~F4 /\ leadOf(b) = 6
      /\ F1 => ~Two /\ ~E0 /\ ~E1 /\ ~ED /\ ~F0 /\ ~F4 /\ leadOf(b) = 7
      /\ F4 => ~Two /\ ~E0 /\ ~E1 /\ ~ED /\ ~F0 /\ ~F1 /\ leadOf(b) = 8
      /\ ~Two /\ ~E0 /\ ~E1 /\ ~ED /\ ~F0 /\ ~F1 /\ ~F4 => leadOf(b) = 1
  BY DEF leadOf, Byte
<1> HIDE DEF Two, E0, E1, ED, F0, F1, F4
<1>1. CASE Two
  <2>1. ranges(b) = <<Tail80>>
    BY <1>a, <1>b, <1>1, Zenon
  <2>2. leadOf(b) = 2
    BY <1>b, <1>1
  <2>. QED
    BY <2>1, <2>2 DEF expected
<1>2. CASE E0
  <2>1. ranges(b) = <<<<160, 191>>, Tail80>>
    BY <1>a, <1>b, <1>2, Zenon
  <2>2. leadOf(b) = 4
    BY <1>b, <1>2
  <2>. QED
    BY <2>1, <2>2 DEF expected
<1>3. CASE E1
  <2>1. ranges(b) = <<Tail80, Tail80>>
    BY <1>a, <1>b, <1>3, Zenon
  <2>2. leadOf(b) = 3
    BY <1>b, <1>3
  <2>. QED
    BY <2>1, <2>2 DEF expected
<1>4. CASE ED
  <2>1. ranges(b) = <<<<128, 159>>, Tail80>>
    BY <1>a, <1>b, <1>4, Zenon
  <2>2. leadOf(b) = 5
    BY <1>b, <1>4
  <2>. QED
    BY <2>1, <2>2 DEF expected
<1>5. CASE F0
  <2>1. ranges(b) = <<<<144, 191>>, Tail80, Tail80>>
    BY <1>a, <1>b, <1>5, Zenon
  <2>2. leadOf(b) = 6
    BY <1>b, <1>5
  <2>. QED
    BY <2>1, <2>2 DEF expected
<1>6. CASE F1
  <2>1. ranges(b) = <<Tail80, Tail80, Tail80>>
    BY <1>a, <1>b, <1>6, Zenon
  <2>2. leadOf(b) = 7
    BY <1>b, <1>6
  <2>. QED
    BY <2>1, <2>2 DEF expected
<1>7. CASE F4
  <2>1. ranges(b) = <<<<128, 143>>, Tail80, Tail80>>
    BY <1>a, <1>b, <1>7, Zenon
  <2>2. leadOf(b) = 8
    BY <1>b, <1>7
  <2>. QED
    BY <2>1, <2>2 DEF expected
<1>8. CASE ~Two /\ ~E0 /\ ~E1 /\ ~ED /\ ~F0 /\ ~F1 /\ ~F4
  <2>1. ranges(b) = <<>>
    BY <1>a, <1>b, <1>8, Zenon
  <2>2. leadOf(b) = 1
    BY <1>b, <1>8
  <2>. QED
    BY <2>1, <2>2 DEF expected
<1>. QED
  BY <1>1, <1>2, <1>3, <1>4, <1>5, <1>6, <1>7, <1>8

LEMMA ExpectedNext ==
  ASSUME NEW state \in 2..8
  PROVE  /\ expected(state) \in Seq(Seq(Nat))
         /\ expected(state)[1][1] = lowest(state)
         /\ expected(state)[1][2] = highest(state)
         /\ Tail(expected(state)) = expected(nextOf(state))
         /\ Len(expected(state)) = 1 <=> nextOf(state) = 0
         /\ nextOf(state) \in {0, 2, 3}
<1>1. CASE state = 2
  BY <1>1 DEF expected, lowest, highest, nextOf, Tail80
<1>2. CASE state = 3
  BY <1>2 DEF expected, lowest, highest, nextOf, Tail80
<1>3. CASE state = 4
  BY <1>3 DEF expected, lowest, highest, nextOf, Tail80
<1>4. CASE state = 5
  BY <1>4 DEF expected, lowest, highest, nextOf, Tail80
<1>5. CASE state = 6
  BY <1>5 DEF expected, lowest, highest, nextOf, Tail80
<1>6. CASE state = 7
  BY <1>6 DEF expected, lowest, highest, nextOf, Tail80
<1>7. CASE state = 8
  BY <1>7 DEF expected, lowest, highest, nextOf, Tail80
<1>. QED
  BY <1>1, <1>2, <1>3, <1>4, <1>5, <1>6, <1>7

-----------------------------------------------------------------------------
(* Code points and their bytes.                                            *)

scalar(v) == v \in Nat /\ v <= 1114111 /\ v \notin HighSurrogates /\ v \notin LowSurrogates

LEMMA Surrogates ==
  ASSUME NEW v \in Int
  PROVE  /\ v \in HighSurrogates <=> 55296 <= v /\ v <= 56319
         /\ v \in LowSurrogates <=> 56320 <= v /\ v <= 57343
BY SMT DEF HighSurrogates, LowSurrogates

LEMMA Scalars ==
  ASSUME NEW v \in Int
  PROVE  scalar(v) <=> (0 <= v /\ v < 55296) \/ (57343 < v /\ v <= 1114111)
BY Surrogates, SMT DEF scalar

LEMMA EncodeOneCases ==
  ASSUME NEW cp \in Nat, cp \in 0..127
  PROVE  encode(cp) = <<cp>>
<1> DEFINE One   == cp < 128
           Two   == cp \in 128..LastOfTwo
           Three == cp > LastOfTwo /\ cp <= LastOfThree
<1>1. encode(cp) =
        CASE One   -> <<cp>>
          [] Two   -> <<192 + (cp \div 64), 128 + (cp % 64)>>
          [] Three -> <<224 + ((cp \div 64) \div 64), 128 + ((cp \div 64) % 64), 128 + (cp % 64)>>
          [] OTHER -> <<240 + (((cp \div 64) \div 64) \div 64), 128 + (((cp \div 64) \div 64) % 64),
                        128 + ((cp \div 64) % 64), 128 + (cp % 64)>>
  BY Zenon DEF encode
<1>2. One /\ ~Two /\ ~Three
  BY SMT DEF LastOfTwo, LastOfThree
<1>. HIDE DEF One, Two, Three
<1>. QED
  BY <1>1, <1>2, Zenon

LEMMA EncodeTwoCases ==
  ASSUME NEW cp \in Nat, cp \in 128..LastOfTwo
  PROVE  encode(cp) = <<192 + (cp \div 64), 128 + (cp % 64)>>
<1> DEFINE One   == cp < 128
           Two   == cp \in 128..LastOfTwo
           Three == cp > LastOfTwo /\ cp <= LastOfThree
<1>1. encode(cp) =
        CASE One   -> <<cp>>
          [] Two   -> <<192 + (cp \div 64), 128 + (cp % 64)>>
          [] Three -> <<224 + ((cp \div 64) \div 64), 128 + ((cp \div 64) % 64), 128 + (cp % 64)>>
          [] OTHER -> <<240 + (((cp \div 64) \div 64) \div 64), 128 + (((cp \div 64) \div 64) % 64),
                        128 + ((cp \div 64) % 64), 128 + (cp % 64)>>
  BY Zenon DEF encode
<1>2. ~One /\ Two /\ ~Three
  BY SMT DEF LastOfTwo, LastOfThree
<1>. HIDE DEF One, Two, Three
<1>. QED
  BY <1>1, <1>2, Zenon

LEMMA EncodeThreeCases ==
  ASSUME NEW cp \in Nat, cp > LastOfTwo /\ cp <= LastOfThree
  PROVE  encode(cp) = <<224 + ((cp \div 64) \div 64), 128 + ((cp \div 64) % 64), 128 + (cp % 64)>>
<1> DEFINE One   == cp < 128
           Two   == cp \in 128..LastOfTwo
           Three == cp > LastOfTwo /\ cp <= LastOfThree
<1>1. encode(cp) =
        CASE One   -> <<cp>>
          [] Two   -> <<192 + (cp \div 64), 128 + (cp % 64)>>
          [] Three -> <<224 + ((cp \div 64) \div 64), 128 + ((cp \div 64) % 64), 128 + (cp % 64)>>
          [] OTHER -> <<240 + (((cp \div 64) \div 64) \div 64), 128 + (((cp \div 64) \div 64) % 64),
                        128 + ((cp \div 64) % 64), 128 + (cp % 64)>>
  BY Zenon DEF encode
<1>2. ~One /\ ~Two /\ Three
  BY SMT DEF LastOfTwo, LastOfThree
<1>. HIDE DEF One, Two, Three
<1>. QED
  BY <1>1, <1>2, Zenon

LEMMA EncodeFourCases ==
  ASSUME NEW cp \in Nat, cp > LastOfThree
  PROVE  encode(cp) = <<240 + (((cp \div 64) \div 64) \div 64), 128 + (((cp \div 64) \div 64) % 64),
                         128 + ((cp \div 64) % 64), 128 + (cp % 64)>>
<1> DEFINE One   == cp < 128
           Two   == cp \in 128..LastOfTwo
           Three == cp > LastOfTwo /\ cp <= LastOfThree
<1>1. encode(cp) =
        CASE One   -> <<cp>>
          [] Two   -> <<192 + (cp \div 64), 128 + (cp % 64)>>
          [] Three -> <<224 + ((cp \div 64) \div 64), 128 + ((cp \div 64) % 64), 128 + (cp % 64)>>
          [] OTHER -> <<240 + (((cp \div 64) \div 64) \div 64), 128 + (((cp \div 64) \div 64) % 64),
                        128 + ((cp \div 64) % 64), 128 + (cp % 64)>>
  BY Zenon DEF encode
<1>2. ~One /\ ~Two /\ ~Three
  BY SMT DEF LastOfTwo, LastOfThree
<1>. HIDE DEF One, Two, Three
<1>. QED
  BY <1>1, <1>2, Zenon

LEMMA SixBits ==
  ASSUME NEW n \in Nat, NEW x \in 0..63
  PROVE  /\ (n * 64 + x) \div 64 = n /\ (n * 64 + x) % 64 = x /\ n * 64 + x \in Nat
OBVIOUS

LEMMA EncodeTwo ==
  ASSUME NEW n \in Nat, NEW x \in 0..63, n * 64 + x \in 128..LastOfTwo
  PROVE  encode(n * 64 + x) = <<192 + n, 128 + x>>
<1> DEFINE v == n * 64 + x
<1>1. v \div 64 = n /\ v % 64 = x /\ v \in Nat /\ v \in 128..LastOfTwo
  BY SixBits
<1>. HIDE DEF v
<1>2. encode(v) = <<192 + (v \div 64), 128 + (v % 64)>>
  BY <1>1, EncodeTwoCases
<1>3. encode(v) = <<192 + n, 128 + x>>
  BY <1>1, <1>2
<1>. QED
  BY <1>3 DEF v

(* The bytes w are those of the code point v, which is more than ASCII.    *)
Final(v, w) == scalar(v) /\ v >= 128 /\ encode(v) = w /\ w \in Bytes

(* Whatever follows the bytes p, the decoder ends in their code point.     *)
LastOne(cp, p) == \A b \in 128..191 : Final(cp * 64 + (b % 64), Append(p, b))

LastTwo(state, cp, p) ==
  \A b \in lowest(state)..highest(state) : LastOne(cp * 64 + (b % 64), Append(p, b))

LastThree(state, cp, p) ==
  \A b \in lowest(state)..highest(state) : LastTwo(3, cp * 64 + (b % 64), Append(p, b))

Partial(state, cp, p) ==
  /\ state \in {0} \cup 2..8 /\ cp \in Nat /\ p \in Bytes
  /\ Len(p) <= IF state = 2 THEN 3 ELSE IF state \in 3..5 THEN 2 ELSE 1
  /\ state = 0 => p = <<>>
  /\ state = 2 => LastOne(cp, p)
  /\ state \in {3, 4, 5} => LastTwo(state, cp, p)
  /\ state \in {6, 7, 8} => LastThree(state, cp, p)

LEMMA TailBits ==
  ASSUME NEW b \in 128..191
  PROVE  b % 64 = b - 128 /\ b - 128 \in 0..63 /\ 128 + (b - 128) = b /\ b \in Byte
BY DEF Byte

LEMMA TailRange ==
  ASSUME NEW state \in 2..8, NEW b, b \in lowest(state)..highest(state)
  PROVE  b \in 128..191
BY DEF lowest, highest

LEMMA PartialNext ==
  ASSUME NEW state \in 2..8, NEW cp, NEW p, Partial(state, cp, p),
         NEW b \in lowest(state)..highest(state)
  PROVE  /\ nextOf(state) = 0 => Final(cp * 64 + (b % 64), Append(p, b))
         /\ nextOf(state) # 0 => Partial(nextOf(state), cp * 64 + (b % 64), Append(p, b))
<1> DEFINE v == cp * 64 + (b % 64)
           q == Append(p, b)
<1>1. b \in 128..191 /\ b \in Byte
  BY TailRange, TailBits
<1>2. cp \in Nat /\ p \in Bytes
  BY DEF Partial
<1>3. v \in Nat
  BY <1>1, <1>2
<1>4. q \in Bytes /\ Len(q) = Len(p) + 1 /\ Len(p) \in Nat
  BY <1>1, <1>2, AppendProperties, LenProperties DEF Bytes
<1>5. CASE state = 2
  <2>1. LastOne(cp, p)
    BY <1>5 DEF Partial
  <2>2. Final(v, q)
    BY <1>1, <2>1 DEF LastOne
  <2>. QED
    BY <2>2, <1>5 DEF nextOf
<1>6. CASE state \in {3, 4, 5}
  <2>1. LastTwo(state, cp, p) /\ nextOf(state) = 2
    BY <1>6 DEF Partial, nextOf
  <2>2. LastOne(v, q)
    BY <2>1 DEF LastTwo
  <2>3. Len(q) <= 3
    BY <1>4, <1>6 DEF Partial
  <2>. HIDE DEF v, q
  <2>4. Partial(2, v, q)
    BY <1>3, <1>4, <2>2, <2>3 DEF Partial
  <2>. QED
    BY <2>1, <2>4 DEF v, q
<1>7. CASE state \in {6, 7, 8}
  <2>1. LastThree(state, cp, p) /\ nextOf(state) = 3
    BY <1>7 DEF Partial, nextOf
  <2>2. LastTwo(3, v, q)
    BY <2>1 DEF LastThree
  <2>3. Len(q) <= 2
    BY <1>4, <1>7 DEF Partial
  <2>. HIDE DEF v, q
  <2>4. Partial(3, v, q)
    BY <1>3, <1>4, <2>2, <2>3 DEF Partial
  <2>. QED
    BY <2>1, <2>4 DEF v, q
<1>. QED
  BY <1>5, <1>6, <1>7

LEMMA LeadCodepoint ==
  ASSUME NEW b \in Byte, NEW cp
  PROVE  /\ leadOf(b) = 0 => decodeCodepoint(0, cp, b) = b
         /\ leadOf(b) = 2 => decodeCodepoint(0, cp, b) = b - 192
         /\ leadOf(b) \in {3, 4, 5} => decodeCodepoint(0, cp, b) = b - 224
         /\ leadOf(b) \in {6, 7, 8} => decodeCodepoint(0, cp, b) = b - 240
<1>1. decodeCodepoint(0, cp, b) = b % lowBits[byteType(b) + 1]
  BY DEF decodeCodepoint, UTF8_ACCEPT
<1>2. /\ lowBits[1] = 256 /\ lowBits[3] = 64 /\ lowBits[4] = 32 /\ lowBits[5] = 16
      /\ lowBits[6] = 8 /\ lowBits[7] = 4 /\ lowBits[11] = 1 /\ lowBits[12] = 1
  BY DEF lowBits
<1>3. CASE b < 128
  <2>1. byteType(b) = 0 /\ leadOf(b) = 0
    BY <1>3, ByteTypes DEF leadOf
  <2>. QED
    BY <1>1, <1>2, <1>3, <2>1 DEF Byte
<1>4. CASE b \in 194..223
  <2>1. byteType(b) = 2 /\ leadOf(b) = 2
    BY <1>4, ByteTypes DEF leadOf
  <2>. QED
    BY <1>1, <1>2, <1>4, <2>1 DEF Byte
<1>5. CASE b = 224
  <2>1. byteType(b) = 10 /\ leadOf(b) = 4
    BY <1>5, ByteTypes DEF leadOf
  <2>. QED
    BY <1>1, <1>2, <1>5, <2>1 DEF Byte
<1>6. CASE b \in (225..239) \ {237}
  <2>1. byteType(b) = 3 /\ leadOf(b) = 3
    BY <1>6, ByteTypes DEF leadOf
  <2>. QED
    BY <1>1, <1>2, <1>6, <2>1 DEF Byte
<1>7. CASE b = 237
  <2>1. byteType(b) = 4 /\ leadOf(b) = 5
    BY <1>7, ByteTypes DEF leadOf
  <2>. QED
    BY <1>1, <1>2, <1>7, <2>1 DEF Byte
<1>8. CASE b = 240
  <2>1. byteType(b) = 11 /\ leadOf(b) = 6
    BY <1>8, ByteTypes DEF leadOf
  <2>. QED
    BY <1>1, <1>2, <1>8, <2>1 DEF Byte
<1>9. CASE b \in 241..243
  <2>1. byteType(b) = 6 /\ leadOf(b) = 7
    BY <1>9, ByteTypes DEF leadOf
  <2>. QED
    BY <1>1, <1>2, <1>9, <2>1 DEF Byte
<1>10. CASE b = 244
  <2>1. byteType(b) = 5 /\ leadOf(b) = 8
    BY <1>10, ByteTypes DEF leadOf
  <2>. QED
    BY <1>1, <1>2, <1>10, <2>1 DEF Byte
<1>11. CASE b \in 128..193 \/ b \in 245..255
  <2>1. leadOf(b) = 1
    BY <1>11 DEF leadOf
  <2>. QED
    BY <2>1
<1>. QED
  BY <1>3, <1>4, <1>5, <1>6, <1>7, <1>8, <1>9, <1>10, <1>11 DEF Byte

LEMMA OneByte ==
  ASSUME NEW a \in Byte
  PROVE  <<a>> \in Bytes /\ Len(<<a>>) = 1
BY DEF Bytes

LEMMA TwoBytes ==
  ASSUME NEW a \in Byte, NEW b \in Byte
  PROVE  Append(<<a>>, b) = <<a, b>> /\ <<a, b>> \in Bytes /\ Len(<<a, b>>) = 2
<1>1. <<a, b>> = Append(<<a>>, b)
  BY DEF Bytes
<1>2. <<a, b>> \in Bytes /\ Len(<<a, b>>) = 2
  BY DEF Bytes
<1>. QED
  BY <1>1, <1>2

LEMMA ThreeBytes ==
  ASSUME NEW a \in Byte, NEW b \in Byte, NEW c \in Byte
  PROVE  Append(<<a, b>>, c) = <<a, b, c>> /\ <<a, b, c>> \in Bytes /\ Len(<<a, b, c>>) = 3
<1>1. <<a, b, c>> = Append(<<a, b>>, c)
  BY DEF Bytes
<1>2. <<a, b, c>> \in Bytes /\ Len(<<a, b, c>>) = 3
  BY DEF Bytes
<1>. QED
  BY <1>1, <1>2

LEMMA FourBytes ==
  ASSUME NEW a \in Byte, NEW b \in Byte, NEW c \in Byte, NEW d \in Byte
  PROVE  Append(<<a, b, c>>, d) = <<a, b, c, d>> /\ <<a, b, c, d>> \in Bytes /\ Len(<<a, b, c, d>>) = 4
<1>1. <<a, b, c, d>> = Append(<<a, b, c>>, d)
  BY DEF Bytes
<1>2. <<a, b, c, d>> \in Bytes /\ Len(<<a, b, c, d>>) = 4
  BY DEF Bytes
<1>. QED
  BY <1>1, <1>2

LEMMA LeadZero ==
  ASSUME NEW b \in Byte, NEW cp, leadOf(b) = 0
  PROVE  decodeCodepoint(0, cp, b) = b
BY LeadCodepoint

LEMMA LeadTwo ==
  ASSUME NEW b \in Byte, NEW cp, leadOf(b) = 2
  PROVE  decodeCodepoint(0, cp, b) = b - 192
BY LeadCodepoint

LEMMA LeadThree ==
  ASSUME NEW b \in Byte, NEW cp, leadOf(b) \in {3, 4, 5}
  PROVE  decodeCodepoint(0, cp, b) = b - 224
BY LeadCodepoint

LEMMA LeadFour ==
  ASSUME NEW b \in Byte, NEW cp, leadOf(b) \in {6, 7, 8}
  PROVE  decodeCodepoint(0, cp, b) = b - 240
BY LeadCodepoint

LEMMA PartialLeadTwo ==
  ASSUME NEW b \in Byte, leadOf(b) = 2
  PROVE  Partial(2, b - 192, <<b>>)
<1>1. b \in 194..223
  BY DEF leadOf, Byte
<1>2. ASSUME NEW c \in 128..191
      PROVE  Final((b - 192) * 64 + (c % 64), Append(<<b>>, c))
  <2> DEFINE n == b - 192
             x == c - 128
             v == n * 64 + x
  <2>1. n \in 2..31 /\ n \in Nat /\ x \in 0..63 /\ c % 64 = x /\ 192 + n = b /\ 128 + x = c
    BY <1>1, TailBits
  <2>. HIDE DEF n, x
  <2>2. v \in 128..LastOfTwo
    BY <2>1, SMT DEF LastOfTwo
  <2>3. encode(v) = <<b, c>>
    <3>1. encode(n * 64 + x) = <<192 + n, 128 + x>>
      BY <2>1, <2>2, EncodeTwo, Zenon
    <3>. QED
      BY <2>1, <3>1
  <2>4. scalar(v)
    <3>. HIDE DEF v
    <3>1. v \in Int /\ 0 <= v /\ v < 55296
      BY <2>2 DEF LastOfTwo
    <3>. QED
      BY <3>1, Scalars
  <2>5. Append(<<b>>, c) = <<b, c>> /\ <<b, c>> \in Bytes
    <3>1. c \in Byte
      BY TailBits
    <3>. QED
      BY <3>1, TwoBytes, Zenon
  <2>6. v >= 128 /\ (b - 192) * 64 + (c % 64) = v
    BY <2>1, <2>2, SMT DEF n, LastOfTwo
  <2>. HIDE DEF v
  <2>. QED
    BY <2>3, <2>4, <2>5, <2>6, Zenon DEF Final
<1>3. LastOne(b - 192, <<b>>)
  BY <1>2 DEF LastOne
<1>4. <<b>> \in Bytes /\ Len(<<b>>) <= 3 /\ b - 192 \in Nat
  BY <1>1 DEF Bytes
<1>. QED
  BY <1>3, <1>4 DEF Partial

LEMMA PartialLeadThree ==
  ASSUME NEW b \in Byte, NEW state \in {3, 4, 5}, leadOf(b) = state
  PROVE  Partial(state, b - 224, <<b>>)
<1>1. /\ b \in 224..239
      /\ b = 224 => state = 4
      /\ b = 237 => state = 5
  BY DEF leadOf, Byte
<1>2. ASSUME NEW c \in lowest(state)..highest(state), NEW d \in 128..191
      PROVE  Final(((b - 224) * 64 + (c % 64)) * 64 + (d % 64), Append(Append(<<b>>, c), d))
  <2> DEFINE n == b - 224
             x == c - 128
             y == d - 128
             v == (n * 64 + x) * 64 + y
  <2>1. c \in 128..191 /\ (state = 4 => c >= 160) /\ (state = 5 => c <= 159)
    <3>1. c \in 128..191
      BY TailRange
    <3>. QED
      BY <3>1 DEF lowest, highest
  <2>2. n \in Int /\ 0 <= n /\ n <= 15 /\ n \in Nat /\ 224 + n = b /\ (n = 0 => state = 4) /\ (n = 13 => state = 5)
    BY <1>1
  <2>3. x \in 0..63 /\ x \in Int /\ c % 64 = x /\ 128 + x = c /\ (state = 4 => x >= 32) /\ (state = 5 => x <= 31)
    BY <2>1, TailBits
  <2>4. y \in 0..63 /\ y \in Int /\ d % 64 = y /\ 128 + y = d
    BY TailBits
  <2>. HIDE DEF n, x, y
  <2>5. v \in Int /\ v > 2047 /\ v <= 65535 /\ (v < 55296 \/ v > 57343)
    BY <2>2, <2>3, <2>4, SMT
  <2>6. encode(v) = <<b, c, d>>
    <3>1. v > LastOfTwo /\ v <= LastOfThree
      BY <2>5, SMT DEF LastOfTwo, LastOfThree
    <3>2. encode(v) = <<224 + n, 128 + x, 128 + y>>
      <4> DEFINE m == n * 64 + x
      <4>1. m \div 64 = n /\ m % 64 = x /\ m \in Nat
        BY <2>2, <2>3, SixBits
      <4>. HIDE DEF m
      <4>2. (m * 64 + y) \div 64 = m /\ (m * 64 + y) % 64 = y /\ m * 64 + y \in Nat
        BY <2>4, <4>1, SixBits
      <4>3. v = m * 64 + y
        BY DEF m
      <4>. HIDE DEF v
      <4>4. encode(v) = <<224 + ((v \div 64) \div 64), 128 + ((v \div 64) % 64), 128 + (v % 64)>>
        BY <3>1, <4>2, <4>3, EncodeThreeCases
      <4>. QED
        BY <4>1, <4>2, <4>3, <4>4
    <3>. QED
      BY <2>2, <2>3, <2>4, <3>2
  <2>7. scalar(v) /\ v >= 128
    BY <2>5, Scalars, SMT
  <2>8. Append(Append(<<b>>, c), d) = <<b, c, d>> /\ <<b, c, d>> \in Bytes
    <3>1. c \in Byte /\ d \in Byte
      BY <2>1, TailBits
    <3>. QED
      BY <3>1, TwoBytes, ThreeBytes, Zenon
  <2>9. ((b - 224) * 64 + (c % 64)) * 64 + (d % 64) = v
    BY <2>2, <2>3, <2>4, SMT DEF n
  <2>. HIDE DEF v
  <2>. QED
    BY <2>6, <2>7, <2>8, <2>9, Zenon DEF Final
<1>3. LastTwo(state, b - 224, <<b>>)
  BY <1>2 DEF LastTwo, LastOne
<1>4. <<b>> \in Bytes /\ Len(<<b>>) = 1 /\ b - 224 \in Nat
  BY <1>1, OneByte
<1>. QED
  BY <1>3, <1>4 DEF Partial

LEMMA PartialLeadFour ==
  ASSUME NEW b \in Byte, NEW state \in {6, 7, 8}, leadOf(b) = state
  PROVE  Partial(state, b - 240, <<b>>)
<1>1. /\ b \in 240..244
      /\ b = 240 <=> state = 6
      /\ b = 244 <=> state = 8
  BY DEF leadOf, Byte
<1>2. ASSUME NEW c \in lowest(state)..highest(state), NEW d \in lowest(3)..highest(3), NEW e \in 128..191
      PROVE  Final((((b - 240) * 64 + (c % 64)) * 64 + (d % 64)) * 64 + (e % 64),
                   Append(Append(Append(<<b>>, c), d), e))
  <2> DEFINE n == b - 240
             x == c - 128
             y == d - 128
             z == e - 128
             v == ((n * 64 + x) * 64 + y) * 64 + z
  <2>1. /\ c \in 128..191 /\ (state = 6 => c >= 144) /\ (state = 8 => c <= 143)
        /\ d \in 128..191
    <3>1. c \in 128..191 /\ d \in 128..191
      BY TailRange
    <3>. QED
      BY <3>1 DEF lowest, highest
  <2>2. n \in Int /\ 0 <= n /\ n <= 4 /\ n \in Nat /\ 240 + n = b /\ (n = 0 => state = 6) /\ (n = 4 => state = 8)
    BY <1>1
  <2>3. x \in 0..63 /\ x \in Int /\ c % 64 = x /\ 128 + x = c /\ (state = 6 => x >= 16) /\ (state = 8 => x <= 15)
    BY <2>1, TailBits
  <2>4. /\ y \in 0..63 /\ y \in Int /\ d % 64 = y /\ 128 + y = d
        /\ z \in 0..63 /\ z \in Int /\ e % 64 = z /\ 128 + z = e
    BY <2>1, TailBits
  <2>. HIDE DEF n, x, y, z
  <2>5. v \in Int /\ v > 65535 /\ v <= 1114111
    BY <2>2, <2>3, <2>4, SMT
  <2>6. encode(v) = <<b, c, d, e>>
    <3>1. v > LastOfThree
      BY <2>5, SMT DEF LastOfThree
    <3>2. encode(v) = <<240 + n, 128 + x, 128 + y, 128 + z>>
      <4> DEFINE k == n * 64 + x
                 m == k * 64 + y
      <4>1. k \div 64 = n /\ k % 64 = x /\ k \in Nat
        BY <2>2, <2>3, SixBits
      <4>. HIDE DEF k
      <4>2. m \div 64 = k /\ m % 64 = y /\ m \in Nat
        BY <2>4, <4>1, SixBits
      <4>. HIDE DEF m
      <4>3. (m * 64 + z) \div 64 = m /\ (m * 64 + z) % 64 = z /\ m * 64 + z \in Nat
        BY <2>4, <4>2, SixBits
      <4>4. v = m * 64 + z
        BY DEF m, k
      <4>. HIDE DEF v
      <4>5. encode(v) = <<240 + (((v \div 64) \div 64) \div 64), 128 + (((v \div 64) \div 64) % 64),
                          128 + ((v \div 64) % 64), 128 + (v % 64)>>
        BY <3>1, <4>3, <4>4, EncodeFourCases
      <4>. QED
        BY <4>1, <4>2, <4>3, <4>4, <4>5
    <3>. QED
      BY <2>2, <2>3, <2>4, <3>2
  <2>7. scalar(v) /\ v >= 128
    BY <2>5, Scalars, SMT
  <2>8. Append(Append(Append(<<b>>, c), d), e) = <<b, c, d, e>> /\ <<b, c, d, e>> \in Bytes
    <3>1. c \in Byte /\ d \in Byte /\ e \in Byte
      BY <2>1, TailBits
    <3>2. Append(<<b>>, c) = <<b, c>>
      BY <3>1, TwoBytes, Zenon
    <3>3. Append(<<b, c>>, d) = <<b, c, d>>
      BY <3>1, ThreeBytes, Zenon
    <3>4. Append(<<b, c, d>>, e) = <<b, c, d, e>> /\ <<b, c, d, e>> \in Bytes
      BY <3>1, FourBytes, Zenon
    <3>. QED
      BY <3>2, <3>3, <3>4, Zenon
  <2>9. (((b - 240) * 64 + (c % 64)) * 64 + (d % 64)) * 64 + (e % 64) = v
    BY <2>2, <2>3, <2>4, SMT DEF n
  <2>. HIDE DEF v
  <2>. QED
    BY <2>6, <2>7, <2>8, <2>9, Zenon DEF Final
<1>3. LastThree(state, b - 240, <<b>>)
  BY <1>2 DEF LastThree, LastTwo, LastOne
<1>4. <<b>> \in Bytes /\ Len(<<b>>) = 1 /\ b - 240 \in Nat
  BY <1>1, OneByte
<1>. QED
  BY <1>3, <1>4 DEF Partial

(* A byte that is not rejected either goes on with an incomplete code      *)
(* point or completes it; one below 128 is a code point of its own.        *)
LEMMA DecodeByte ==
  ASSUME NEW state, NEW cp, NEW p, Partial(state, cp, p), NEW b \in Byte,
         NEW next, next = decodeState(state, b), next # 1,
         NEW v, v = decodeCodepoint(state, cp, b)
  PROVE  /\ next # 0 => Partial(next, v, Append(p, b))
         /\ next = 0 => \/ state = 0 /\ b < 128 /\ v = b
                        \/ state # 0 /\ b >= 128 /\ Final(v, Append(p, b))
         /\ state = 0 => next = leadOf(b)
         /\ state # 0 => b \in lowest(state)..highest(state) /\ next = nextOf(state)
<1>1. CASE state = 0
  <2>1. p = <<>> /\ next = leadOf(b) /\ v = decodeCodepoint(0, cp, b)
    BY <1>1, FirstBytes DEF Partial
  <2>2. next = 0 => b < 128 /\ v = b
    <3>1. next = 0 => b < 128
      BY <2>1 DEF leadOf, Byte
    <3>. QED
      BY <2>1, <3>1, LeadZero, Zenon
  <2>3. Append(p, b) = <<b>>
    BY <2>1
  <2>4. ASSUME next # 0 PROVE Partial(next, v, <<b>>)
    <3>1. next \in 2..8
      BY <2>1, <2>4 DEF leadOf
    <3>2. CASE next = 2
      <4>1. v = b - 192
        BY <2>1, <3>2, LeadTwo, Zenon
      <4>. QED
        BY <2>1, <3>2, <4>1, PartialLeadTwo
    <3>3. CASE next \in {3, 4, 5}
      <4>1. v = b - 224
        <5>1. leadOf(b) \in {3, 4, 5}
          BY <2>1, <3>3
        <5>2. decodeCodepoint(0, cp, b) = b - 224
          BY <5>1, LeadThree
        <5>. QED
          BY <2>1, <5>2
      <4>. QED
        BY <2>1, <3>3, <4>1, PartialLeadThree
    <3>4. CASE next \in {6, 7, 8}
      <4>1. v = b - 240
        <5>1. leadOf(b) \in {6, 7, 8}
          BY <2>1, <3>4
        <5>2. decodeCodepoint(0, cp, b) = b - 240
          BY <5>1, LeadFour
        <5>. QED
          BY <2>1, <5>2
      <4>. QED
        BY <2>1, <3>4, <4>1, PartialLeadFour
    <3>. QED
      BY <3>1, <3>2, <3>3, <3>4
  <2>. QED
    BY <1>1, <2>1, <2>2, <2>3, <2>4
<1>2. CASE state # 0
  <2>1. state \in 2..8
    BY <1>2 DEF Partial
  <2>2. next = IF lowest(state) <= b /\ b <= highest(state) THEN nextOf(state) ELSE 1
    BY <2>1, LaterBytes
  <2>3. b \in lowest(state)..highest(state) /\ next = nextOf(state)
    <3>1. lowest(state) \in Int /\ highest(state) \in Int
      BY DEF lowest, highest
    <3>. QED
      BY <2>2, <3>1 DEF Byte
  <2>4. v = cp * 64 + (b % 64)
    BY <1>2 DEF decodeCodepoint, UTF8_ACCEPT
  <2>5. /\ next = 0 => Final(v, Append(p, b))
        /\ next # 0 => Partial(next, v, Append(p, b))
    BY <2>1, <2>3, <2>4, PartialNext
  <2>6. b >= 128
    BY <2>1, <2>3, TailRange
  <2>. QED
    BY <1>2, <2>3, <2>5, <2>6
<1>. QED
  BY <1>1, <1>2

-----------------------------------------------------------------------------
(* The lexer inside a string.                                              *)

LEMMA ScanString ==
  ASSUME NEW l, NEW c \in Byte
  PROVE  /\ c = Quote => scan_string(l, c) = token(l, "value_string")
         /\ c = Escape => scan_string(l, c) = go(l, "escape")
         /\ c \in control => scan_string(l, c) = error(l)
         /\ c \in unescaped => scan_string(l, c) = add(l, c)
         /\ c >= 128 /\ leadOf(c) # 1 =>
              scan_string(l, c) = [add(go(l, "utf8"), c) EXCEPT !.rest = expected(leadOf(c))]
         /\ c >= 128 /\ leadOf(c) = 1 => scan_string(l, c) = error(l)
<1> DEFINE Q == c = Quote
           E == c = Escape
           C == c \in control
           U == c \in unescaped
           R == ranges(c) # <<>>
<1>1. scan_string(l, c) =
        CASE Q -> token(l, "value_string")
          [] E -> go(l, "escape")
          [] C -> error(l)
          [] U -> add(l, c)
          [] R -> [add(go(l, "utf8"), c) EXCEPT !.rest = ranges(c)]
          [] OTHER -> error(l)
  BY Zenon DEF scan_string
<1>2. ASSUME c < 128 PROVE ~R
  <2> DEFINE Two == c \in 194..223
             E0  == c = 224
             E1  == c \in (225..239) \ {237}
             ED  == c = 237
             F0  == c = 240
             F1  == c \in 241..243
             F4  == c = 244
  <2>1. ranges(c) =
          CASE Two -> <<Tail80>>
            [] E0 -> <<<<160, 191>>, Tail80>>
            [] E1 -> <<Tail80, Tail80>>
            [] ED -> <<<<128, 159>>, Tail80>>
            [] F0 -> <<<<144, 191>>, Tail80, Tail80>>
            [] F1 -> <<Tail80, Tail80, Tail80>>
            [] F4 -> <<<<128, 143>>, Tail80, Tail80>>
            [] OTHER -> <<>>
    BY Zenon DEF ranges
  <2>2. ~Two /\ ~E0 /\ ~E1 /\ ~ED /\ ~F0 /\ ~F1 /\ ~F4
    BY <1>2 DEF Byte
  <2> HIDE DEF Two, E0, E1, ED, F0, F1, F4
  <2>. QED
    BY <2>1, <2>2, Zenon
<1>3. c >= 128 => ranges(c) = expected(leadOf(c)) /\ (R <=> leadOf(c) # 1)
  BY RangesAreExpected
<1>4. /\ Q => ~E /\ ~C /\ ~U /\ c < 128
      /\ E => ~Q /\ ~C /\ ~U /\ c < 128
      /\ C => ~Q /\ ~E /\ ~U /\ c < 128
      /\ U => ~Q /\ ~E /\ ~C /\ c < 128
      /\ c >= 128 => ~Q /\ ~E /\ ~C /\ ~U
  BY DEF Quote, Escape, control, unescaped, Byte
<1> DEFINE High == c >= 128
<1>5. /\ Q => ~E /\ ~C /\ ~U /\ ~R
      /\ E => ~Q /\ ~C /\ ~U /\ ~R
      /\ C => ~Q /\ ~E /\ ~U /\ ~R
      /\ U => ~Q /\ ~E /\ ~C /\ ~R
      /\ High => ~Q /\ ~E /\ ~C /\ ~U
  BY <1>2, <1>4
<1>6. High => ranges(c) = expected(leadOf(c)) /\ (R <=> leadOf(c) # 1)
  BY <1>3
<1> HIDE DEF Q, E, C, U, R, High
<1>11. Q => scan_string(l, c) = token(l, "value_string")
  BY <1>1, <1>5, Zenon
<1>12. E => scan_string(l, c) = go(l, "escape")
  BY <1>1, <1>5, Zenon
<1>13. C => scan_string(l, c) = error(l)
  BY <1>1, <1>5, Zenon
<1>14. U => scan_string(l, c) = add(l, c)
  BY <1>1, <1>5, Zenon
<1>15. High /\ R => scan_string(l, c) = [add(go(l, "utf8"), c) EXCEPT !.rest = ranges(c)]
  BY <1>1, <1>5, Zenon
<1>16. High /\ ~R => scan_string(l, c) = error(l)
  BY <1>1, <1>5, Zenon
<1>17. High /\ leadOf(c) # 1 =>
         scan_string(l, c) = [add(go(l, "utf8"), c) EXCEPT !.rest = expected(leadOf(c))]
  BY <1>6, <1>15, Zenon
<1>18. High /\ leadOf(c) = 1 => scan_string(l, c) = error(l)
  BY <1>6, <1>16, Zenon
<1>. QED
  BY <1>11, <1>12, <1>13, <1>14, <1>17, <1>18, Zenon DEF Q, E, C, U, High

(* The lexer is in a string of which it has read the bytes t, and inside a *)
(* character unless state is 0.                                            *)
where(state) == IF state = 0 THEN "string" ELSE "utf8"

Inside(l, state, t) ==
  /\ t \in Bytes
  /\ \E r, d, v :
       /\ l = Lexer(where(state), t, r, d, v, 0)
       /\ state # 0 => r = expected(state)

LEMMA BytesAppend ==
  ASSUME NEW t \in Bytes, NEW c \in Byte
  PROVE  Append(t, c) \in Bytes
BY AppendProperties DEF Bytes

LEMMA ReadUnescaped ==
  ASSUME NEW l, NEW t, Inside(l, 0, t), NEW c \in Byte, c \in unescaped
  PROVE  Inside(get(l, c), 0, Append(t, c))
<1>1. PICK r, d, v : l = Lexer("string", t, r, d, v, 0)
  BY DEF Inside, where
<1>2. get(l, c) = scan_string(l, c)
  <2>1. l.at = "string"
    BY <1>1, LexerFields
  <2>. QED
    BY <2>1, GetInString
<1>3. scan_string(l, c) = add(l, c)
  BY ScanString
<1>4. add(l, c) = Lexer("string", Append(t, c), r, d, v, 0)
  BY <1>1, LexerAdd
<1>5. Append(t, c) \in Bytes
  BY BytesAppend DEF Inside
<1>. QED
  BY <1>2, <1>3, <1>4, <1>5 DEF Inside, where

LEMMA ReadFirstByte ==
  ASSUME NEW l, NEW t, Inside(l, 0, t), NEW c \in Byte, c >= 128, leadOf(c) # 1
  PROVE  Inside(get(l, c), leadOf(c), Append(t, c))
<1> DEFINE state == leadOf(c)
           q == Append(t, c)
           rest == expected(state)
<1>1. PICK r, d, v : l = Lexer("string", t, r, d, v, 0)
  BY DEF Inside, where
<1>2. get(l, c) = scan_string(l, c)
  <2>1. l.at = "string"
    BY <1>1, LexerFields
  <2>. QED
    BY <2>1, GetInString
<1>3. scan_string(l, c) = [add(go(l, "utf8"), c) EXCEPT !.rest = rest]
  BY ScanString
<1>4. state # 0
  BY DEF leadOf, Byte
<1>5. q \in Bytes
  BY BytesAppend DEF Inside
<1>. HIDE DEF state, rest
<1>6. [add(go(l, "utf8"), c) EXCEPT !.rest = rest] = Lexer("utf8", q, rest, d, v, 0)
  <2>1. go(l, "utf8") = Lexer("utf8", t, r, d, v, 0)
    BY <1>1, LexerGo
  <2>2. add(go(l, "utf8"), c) = Lexer("utf8", Append(t, c), r, d, v, 0)
    BY <2>1, LexerAdd
  <2>3. setRest(add(go(l, "utf8"), c), rest) = Lexer("utf8", Append(t, c), rest, d, v, 0)
    BY <2>2, LexerRest
  <2>. QED
    BY <2>3, Zenon DEF setRest
<1>7. rest = expected(state)
  BY DEF rest
<1>. HIDE DEF q
<1>8. Inside(get(l, c), state, q)
  BY <1>2, <1>3, <1>4, <1>5, <1>6, <1>7 DEF Inside, where
<1>. QED
  BY <1>8 DEF state, q

LEMMA ReadNextByte ==
  ASSUME NEW state \in 2..8, NEW l, NEW t, Inside(l, state, t),
         NEW c \in lowest(state)..highest(state)
  PROVE  Inside(get(l, c), nextOf(state), Append(t, c))
<1> DEFINE next == nextOf(state)
           q    == Append(t, c)
           rest == expected(next)
<1>1. PICK r, d, v : l = Lexer("utf8", t, r, d, v, 0) /\ r = expected(state)
  BY DEF Inside, where
<1>2. l.at = "utf8" /\ l.rest = expected(state) /\ l.buffer = t
  <2>1. l.at = "utf8" /\ l.rest = r /\ l.buffer = t
    BY <1>1, LexerFields
  <2>. QED
    BY <1>1, <2>1
<1>3. get(l, c) = next_byte_in_range(l, c)
  BY <1>2, GetInString
<1>4. /\ l.rest[1][1] = lowest(state) /\ l.rest[1][2] = highest(state)
      /\ Tail(l.rest) = rest
      /\ Len(l.rest) = 1 <=> next = 0
  BY <1>2, ExpectedNext
<1>5. lowest(state) <= c /\ c <= highest(state)
  BY DEF lowest, highest
<1>6. q \in Bytes
  <2>1. c \in Byte
    BY TailRange, TailBits
  <2>. QED
    BY <2>1, BytesAppend DEF Inside
<1>7. rest = expected(next)
  BY DEF rest
<1>. HIDE DEF next, rest
<1>8. (IF Len(l.rest) = 1 THEN "string" ELSE "utf8") = where(next)
  BY <1>4 DEF where
<1> DEFINE to == where(next)
           e  == add(l, c)
<1>9. next_byte_in_range(l, c) = [e EXCEPT !.rest = Tail(@), !.at = to]
  <2>1. l.rest[1][1] <= c /\ c <= l.rest[1][2]
    BY <1>4, <1>5
  <2>2. next_byte_in_range(l, c) =
          [e EXCEPT !.rest = Tail(@), !.at = IF Len(l.rest) = 1 THEN "string" ELSE "utf8"]
    BY <2>1, Zenon DEF next_byte_in_range
  <2>. HIDE DEF e
  <2>. QED
    BY <1>8, <2>2, Zenon
<1>. HIDE DEF to
<1>10. e = Lexer("utf8", q, r, d, v, 0)
  <2>1. add(l, c) = Lexer("utf8", Append(t, c), r, d, v, 0)
    BY <1>1, LexerAdd
  <2>. QED
    BY <2>1 DEF e
<1>11. e.rest = l.rest
  BY <1>1, <1>10, LexerFields
<1>. HIDE DEF e, q
<1>12. [e EXCEPT !.rest = Tail(@), !.at = to] = Lexer(to, q, rest, d, v, 0)
  <2>1. [e EXCEPT !.rest = Tail(@), !.at = to] = [e EXCEPT !.rest = rest, !.at = to]
    BY <1>4, <1>11, Zenon
  <2>3. setRestAt(e, rest, to) = Lexer(to, q, rest, d, v, 0)
    BY <1>10, LexerRestAt
  <2>2. [e EXCEPT !.rest = rest, !.at = to] = Lexer(to, q, rest, d, v, 0)
    BY <2>3, Zenon DEF setRestAt
  <2>. QED
    BY <2>1, <2>2, Zenon
<1>13. Inside(get(l, c), next, q)
  BY <1>3, <1>6, <1>7, <1>9, <1>12 DEF Inside, to
<1>. QED
  BY <1>13 DEF next, q

-----------------------------------------------------------------------------
(* The lexer behind an escape.                                             *)

LEMMA ShortEscapes ==
  ASSUME NEW cp, cp \in DOMAIN shortEscape
  PROVE  /\ cp \in 0..127
         /\ shortEscape[cp] \in DOMAIN simpleEscape
         /\ simpleEscape[shortEscape[cp]] = cp
<1>1. cp \in {8, 9, 10, 12, 13, 34, 92}
  BY DEF shortEscape, Quote, Escape
<1>2. shortEscape[cp] = IF cp = 8 THEN 98 ELSE IF cp = 9 THEN 116 ELSE IF cp = 10 THEN 110
                        ELSE IF cp = 12 THEN 102 ELSE IF cp = 13 THEN 114 ELSE cp
  BY <1>1 DEF shortEscape, Quote, Escape
<1>3. shortEscape[cp] \in {98, 116, 110, 102, 114, 34, 92}
  BY <1>1, <1>2
<1>4. \A c \in {98, 116, 110, 102, 114, 34, 92} :
        simpleEscape[c] = IF c = 98 THEN 8 ELSE IF c = 102 THEN 12 ELSE IF c = 110 THEN 10
                          ELSE IF c = 114 THEN 13 ELSE IF c = 116 THEN 9 ELSE c
  BY DEF simpleEscape
<1>5. shortEscape[cp] \in DOMAIN simpleEscape
  BY <1>3 DEF simpleEscape
<1>. QED
  BY <1>1, <1>2, <1>3, <1>4, <1>5

(* Behind \, and behind k digits of \u that are worth v, after the high    *)
(* surrogate h if it is not 0.                                             *)
BehindEscape(l, t) ==
  t \in Bytes /\ \E r, d, v : l = Lexer("escape", t, r, d, v, 0)

InDigits(l, k, v, h, t) ==
  t \in Bytes /\ \E r : l = Lexer("hex", t, r, k, v, h)

LEMMA ReadEscape ==
  ASSUME NEW l, NEW t, Inside(l, 0, t)
  PROVE  BehindEscape(get(l, Escape), t)
<1>1. PICK r, d, v : l = Lexer("string", t, r, d, v, 0)
  BY DEF Inside, where
<1>2. get(l, Escape) = scan_string(l, Escape)
  BY <1>1, LexerFields, GetInString
<1>3. scan_string(l, Escape) = go(l, "escape")
  BY ScanString DEF Escape, Byte
<1>4. go(l, "escape") = Lexer("escape", t, r, d, v, 0)
  BY <1>1, LexerGo
<1>. QED
  BY <1>2, <1>3, <1>4 DEF BehindEscape, Inside

LEMMA ReadShortEscape ==
  ASSUME NEW l, NEW t, BehindEscape(l, t), NEW c, c \in DOMAIN simpleEscape,
         simpleEscape[c] \in Byte
  PROVE  Inside(get(l, c), 0, Append(t, simpleEscape[c]))
<1>1. PICK r, d, v : l = Lexer("escape", t, r, d, v, 0)
  BY DEF BehindEscape
<1>2. get(l, c) = escape(l, c)
  BY <1>1, LexerFields, GetInString
<1>3. escape(l, c) = add(go(l, "string"), simpleEscape[c])
  BY EscapeCases
<1>4. go(l, "string") = Lexer("string", t, r, d, v, 0)
  BY <1>1, LexerGo
<1>5. add(go(l, "string"), simpleEscape[c]) = Lexer("string", Append(t, simpleEscape[c]), r, d, v, 0)
  BY <1>4, LexerAdd
<1>6. Append(t, simpleEscape[c]) \in Bytes
  BY BytesAppend DEF BehindEscape
<1>. QED
  BY <1>2, <1>3, <1>5, <1>6 DEF Inside, where

LEMMA ReadLowerU ==
  ASSUME NEW l, NEW t, BehindEscape(l, t)
  PROVE  InDigits(get(l, LowerU), 0, 0, 0, t)
<1>1. PICK r, d, v : l = Lexer("escape", t, r, d, v, 0)
  BY DEF BehindEscape
<1>2. get(l, LowerU) = escape(l, LowerU)
  BY <1>1, LexerFields, GetInString
<1>3. escape(l, LowerU) = toHex(l)
  BY EscapeCases
<1>. QED
  BY <1>1, <1>2, <1>3, LexerHex DEF InDigits, BehindEscape

LEMMA HexDigits ==
  ASSUME NEW n \in 0..15
  PROVE  hexDigit(hexCode(n)) = n /\ hexCode(n) \in Byte
<1> DEFINE c == hexCode(n)
<1>1. c = IF n < 10 THEN 48 + n ELSE 87 + n
  BY DEF hexCode
<1>2. c \in Byte
  BY <1>1 DEF Byte
<1>3. CASE n < 10
  <2>1. c \in Digit /\ c - 48 = n
    BY <1>1, <1>3 DEF Digit
  <2>. QED
    BY <1>2, <2>1 DEF hexDigit
<1>4. CASE ~(n < 10)
  <2>1. c \in 97..102 /\ c - 87 = n /\ c \notin Digit /\ c \notin 65..70
    BY <1>1, <1>4 DEF Digit
  <2>. QED
    BY <1>2, <2>1 DEF hexDigit
<1>. QED
  BY <1>3, <1>4

LEMMA ReadDigit ==
  ASSUME NEW l, NEW k \in 0..2, NEW v \in Nat, NEW h, NEW t, InDigits(l, k, v, h, t),
         NEW n \in 0..15
  PROVE  InDigits(get(l, hexCode(n)), k + 1, v * 16 + n, h, t)
<1> DEFINE c == hexCode(n)
<1>1. PICK r : l = Lexer("hex", t, r, k, v, h)
  BY DEF InDigits
<1>2. l.at = "hex" /\ l.digits = k /\ l.codepoint = v
  BY <1>1, LexerFields
<1>3. n = hexDigit(c) /\ n # -1 /\ v * 16 + n = l.codepoint * 16 + n
  BY <1>2, HexDigits
<1>. HIDE DEF c
<1>4. get(l, c) = get_codepoint(l, c)
  BY <1>2, GetInString
<1>5. get_codepoint(l, c) = setDigit(l, v * 16 + n)
  BY <1>2, <1>3, CodepointCases
<1>6. setDigit(l, v * 16 + n) = Lexer("hex", t, r, k + 1, v * 16 + n, h)
  BY <1>1, LexerDigit
<1>7. InDigits(get(l, c), k + 1, v * 16 + n, h, t)
  BY <1>4, <1>5, <1>6 DEF InDigits
<1>. QED
  BY <1>7 DEF c

LEMMA ReadLastDigit ==
  ASSUME NEW l, NEW v \in Nat, NEW h, NEW t, InDigits(l, 3, v, h, t), NEW n \in 0..15
  PROVE  get(l, hexCode(n)) = surrogates(l, v * 16 + n) /\ l.high = h
<1> DEFINE c == hexCode(n)
<1>1. PICK r : l = Lexer("hex", t, r, 3, v, h)
  BY DEF InDigits
<1>2. l.at = "hex" /\ l.digits = 3 /\ l.codepoint = v /\ l.high = h
  BY <1>1, LexerFields
<1>3. n = hexDigit(c) /\ n # -1 /\ v * 16 + n = l.codepoint * 16 + n
  BY <1>2, HexDigits
<1>. HIDE DEF c
<1>4. get(l, c) = get_codepoint(l, c)
  BY <1>2, GetInString
<1>5. get_codepoint(l, c) = surrogates(l, v * 16 + n)
  BY <1>2, <1>3, CodepointCases
<1>. QED
  BY <1>2, <1>4, <1>5 DEF c

(* The code point of four digits is read.                                  *)
LEMMA ReadCodepoint ==
  ASSUME NEW l, NEW r, NEW d, NEW v, NEW h, NEW t \in Bytes, l = Lexer("hex", t, r, d, v, h),
         NEW cp, encode(cp) \in Bytes
  PROVE  Inside(addCodepoint(l, cp), 0, t \o encode(cp))
<1>1. addCodepoint(l, cp) = Lexer("string", t \o encode(cp), r, d, v, 0)
  BY LexerCodepoint
<1>2. t \o encode(cp) \in Bytes
  BY DEF Bytes
<1>. QED
  BY <1>1, <1>2 DEF Inside, where

Hex == 0..15
worth(a, b, c, n) == ((a * 16 + b) * 16 + c) * 16 + n

LEMMA FourDigits ==
  ASSUME NEW l, NEW h, NEW t, InDigits(l, 0, 0, h, t),
         NEW a \in Hex, NEW b \in Hex, NEW c \in Hex, NEW n \in Hex,
         NEW cp, cp = worth(a, b, c, n),
         NEW k, k = get(get(get(l, hexCode(a)), hexCode(b)), hexCode(c))
  PROVE  get(k, hexCode(n)) = surrogates(k, cp) /\ k.high = h /\ \E r, v : k = Lexer("hex", t, r, 3, v, h)
<1> DEFINE l1 == get(l, hexCode(a))
           l2 == get(l1, hexCode(b))
           v1 == 0 * 16 + a
           v2 == v1 * 16 + b
           v3 == v2 * 16 + c
<1>. a \in 0..15 /\ b \in 0..15 /\ c \in 0..15 /\ n \in 0..15
  BY DEF Hex
<1>1. v1 \in Nat /\ v2 \in Nat /\ v3 \in Nat /\ v3 * 16 + n = cp
  BY DEF worth
<1>2. InDigits(l1, 0 + 1, v1, h, t)
  BY ReadDigit
<1>. HIDE DEF l1, v1
<1>3. InDigits(l2, 1 + 1, v2, h, t)
  <2>1. 1 \in 0..2 /\ InDigits(l1, 1, v1, h, t)
    BY <1>2
  <2>. QED
    BY <1>1, <2>1, ReadDigit
<1>. HIDE DEF l2, v2
<1>4. InDigits(k, 2 + 1, v3, h, t)
  <2>1. 2 \in 0..2 /\ InDigits(l2, 2, v2, h, t)
    BY <1>3
  <2>2. k = get(l2, hexCode(c))
    BY DEF l1, l2
  <2>. QED
    BY <1>1, <2>1, <2>2, ReadDigit
<1>. HIDE DEF v3
<1>5. InDigits(k, 3, v3, h, t)
  BY <1>4
<1>6. get(k, hexCode(n)) = surrogates(k, v3 * 16 + n) /\ k.high = h
  BY <1>1, <1>5, ReadLastDigit
<1>. QED
  BY <1>1, <1>5, <1>6 DEF InDigits

(* The digits of a code point that four can hold.                          *)
LEMMA DigitsOf ==
  ASSUME NEW cp \in Nat, cp <= LastOfThree,
         NEW a, a = (cp \div 4096) % 16, NEW b, b = (cp \div 256) % 16,
         NEW c, c = (cp \div 16) % 16, NEW n, n = cp % 16
  PROVE  /\ a \in 0..15 /\ b \in 0..15 /\ c \in 0..15 /\ n \in 0..15
         /\ cp = worth(a, b, c, n)
BY SMT DEF LastOfThree, worth

LEMMA ReadU ==
  ASSUME NEW l, NEW h, NEW t, InDigits(get(get(l, Escape), LowerU), 0, 0, h, t),
         NEW cp \in Nat, cp <= LastOfThree
  PROVE  /\ u(cp) \in Bytes
         /\ \E k, r, v : /\ readFrom(l, u(cp)) = surrogates(k, cp)
                         /\ k = Lexer("hex", t, r, 3, v, h) /\ k.high = h
<1> DEFINE a == (cp \div 4096) % 16
           b == (cp \div 256) % 16
           c == (cp \div 16) % 16
           n == cp % 16
           f == get(get(l, Escape), LowerU)
           k == get(get(get(f, hexCode(a)), hexCode(b)), hexCode(c))
<1>1. u(cp) = <<Escape, LowerU, hexCode(a), hexCode(b), hexCode(c), hexCode(n)>>
  BY DEF u
<1>2. /\ a \in 0..15 /\ b \in 0..15 /\ c \in 0..15 /\ n \in 0..15
      /\ cp = worth(a, b, c, n)
  BY DigitsOf
<1>. HIDE DEF a, b, c, n
<1>3. /\ hexCode(a) \in Byte /\ hexCode(b) \in Byte /\ hexCode(c) \in Byte /\ hexCode(n) \in Byte
      /\ Escape \in Byte /\ LowerU \in Byte
  <2>1. \A x \in 0..15 : hexCode(x) \in Byte
    BY HexDigits
  <2>2. Escape \in Byte /\ LowerU \in Byte
    BY DEF Escape, LowerU, Byte
  <2>. QED
    BY <1>2, <2>1, <2>2
<1>4. readFrom(l, u(cp)) = get(k, hexCode(n))
  BY <1>1, <1>3, ReadFromSix
<1>5. u(cp) \in Bytes
  BY <1>1, <1>3 DEF Bytes
<1>6. get(k, hexCode(n)) = surrogates(k, cp) /\ k.high = h /\ \E r, v : k = Lexer("hex", t, r, 3, v, h)
  <2>1. InDigits(f, 0, 0, h, t)
    OBVIOUS
  <2>. HIDE DEF f
  <2>2. k = get(get(get(f, hexCode(a)), hexCode(b)), hexCode(c))
    OBVIOUS
  <2>. HIDE DEF k
  <2>3. a \in Hex /\ b \in Hex /\ c \in Hex /\ n \in Hex
    BY <1>2 DEF Hex
  <2>4. cp = worth(a, b, c, n)
    BY <1>2
  <2>. QED
    BY <2>1, <2>2, <2>3, <2>4, FourDigits
<1>. HIDE DEF k, f
<1>. QED
  BY <1>4, <1>5, <1>6

LEMMA ReadUnicode ==
  ASSUME NEW l, NEW t, Inside(l, 0, t), NEW cp, scalar(cp), cp <= LastOfThree, encode(cp) \in Bytes
  PROVE  Inside(readFrom(l, u(cp)), 0, t \o encode(cp)) /\ u(cp) \in Bytes
<1>1. InDigits(get(get(l, Escape), LowerU), 0, 0, 0, t)
  BY ReadEscape, ReadLowerU
<1>2. cp \in Nat /\ cp \notin HighSurrogates /\ cp \notin LowSurrogates
  BY DEF scalar
<1>3. PICK k, r, v : /\ readFrom(l, u(cp)) = surrogates(k, cp)
                     /\ k = Lexer("hex", t, r, 3, v, 0) /\ k.high = 0
  BY <1>1, <1>2, ReadU
<1>4. surrogates(k, cp) = addCodepoint(k, cp)
  <2>1. TRUE = (k.high = 0)
    BY <1>3
  <2>. QED
    BY <1>2, <2>1, SurrogateCases
<1>5. t \in Bytes
  BY DEF Inside
<1>. QED
  BY <1>1, <1>2, <1>3, <1>4, <1>5, ReadCodepoint, ReadU

LEMMA PairOf ==
  ASSUME NEW cp \in Int, LastOfThree < cp, cp <= 1114111
  PROVE  /\ highOf(cp) \in Nat /\ highOf(cp) <= LastOfThree /\ highOf(cp) \in HighSurrogates
         /\ lowOf(cp) \in Nat /\ lowOf(cp) <= LastOfThree /\ lowOf(cp) \in LowSurrogates
         /\ lowOf(cp) \notin HighSurrogates /\ highOf(cp) # 0
         /\ paired(highOf(cp), lowOf(cp)) = cp
<1> DEFINE h == highOf(cp)
           w == lowOf(cp)
<1>1. h = 55232 + (cp \div 1024) /\ w = 56320 + (cp % 1024)
  BY SMT DEF highOf, lowOf
<1>2. h \in Int /\ 55296 <= h /\ h <= 56319
  BY <1>1, SMT DEF LastOfThree
<1>3. w \in Int /\ 56320 <= w /\ w <= 57343
  BY <1>1, SMT
<1>4. 65536 + (h - 55296) * 1024 + w - 56320 = cp
  BY <1>1, SMT
<1>. HIDE DEF h, w
<1>5. h \in HighSurrogates /\ w \in LowSurrogates /\ w \notin HighSurrogates
  BY <1>2, <1>3, Surrogates, SMT
<1>6. h \in Nat /\ w \in Nat /\ h <= LastOfThree /\ w <= LastOfThree /\ h # 0
  BY <1>2, <1>3, SMT DEF LastOfThree
<1>7. paired(h, w) = cp
  BY <1>4, SMT DEF paired
<1>. QED
  BY <1>5, <1>6, <1>7 DEF h, w

LEMMA ReadPairStart ==
  ASSUME NEW k, NEW t \in Bytes, NEW r, NEW v, NEW h, h # 0, k = Lexer("pair", t, r, 3, v, h)
  PROVE  InDigits(get(get(k, Escape), LowerU), 0, 0, h, t)
<1>1. get(k, Escape) = go(k, "pair_u")
  <2>1. get(k, Escape) = pair(k, Escape)
    BY LexerFields, GetInString
  <2>. QED
    BY <2>1, PairCases
<1>2. go(k, "pair_u") = Lexer("pair_u", t, r, 3, v, h)
  BY LexerGo
<1> DEFINE f == go(k, "pair_u")
<1>. HIDE DEF f
<1>3. get(f, LowerU) = toHex(f)
  <2>1. get(f, LowerU) = pairU(f, LowerU)
    BY <1>2, LexerFields, GetInString DEF f
  <2>. QED
    BY <2>1, PairCases
<1>4. toHex(f) = Lexer("hex", t, r, 0, 0, h)
  BY <1>2, LexerHex DEF f
<1>. QED
  BY <1>1, <1>3, <1>4 DEF f, InDigits

LEMMA ReadPair ==
  ASSUME NEW l, NEW t, Inside(l, 0, t), NEW cp, scalar(cp), LastOfThree < cp, encode(cp) \in Bytes
  PROVE  /\ Inside(readFrom(l, u(highOf(cp)) \o u(lowOf(cp))), 0, t \o encode(cp))
         /\ u(highOf(cp)) \o u(lowOf(cp)) \in Bytes
<1> DEFINE h == highOf(cp)
           w == lowOf(cp)
<1>1. /\ h \in Nat /\ h <= LastOfThree /\ h \in HighSurrogates /\ h # 0
      /\ w \in Nat /\ w <= LastOfThree /\ w \in LowSurrogates
      /\ paired(h, w) = cp
  <2>1. cp \in Int /\ cp <= 1114111
    BY DEF scalar
  <2>. QED
    BY <2>1, PairOf
<1>. HIDE DEF h, w
<1>2. InDigits(get(get(l, Escape), LowerU), 0, 0, 0, t)
  BY ReadEscape, ReadLowerU
<1>3. PICK k, r, v : /\ readFrom(l, u(h)) = surrogates(k, h)
                     /\ k = Lexer("hex", t, r, 3, v, 0) /\ k.high = 0
  BY <1>1, <1>2, ReadU
<1>4. surrogates(k, h) = setPair(k, h)
  <2>1. TRUE = (k.high = 0)
    BY <1>3
  <2>. QED
    BY <1>1, <2>1, SurrogateCases
<1>5. t \in Bytes /\ u(h) \in Bytes
  BY <1>1, <1>2, ReadU DEF Inside
<1> DEFINE f == readFrom(l, u(h))
<1>6. f = Lexer("pair", t, r, 3, v, h)
  BY <1>3, <1>4, LexerPair
<1>. HIDE DEF f
<1>7. InDigits(get(get(f, Escape), LowerU), 0, 0, h, t)
  BY <1>1, <1>5, <1>6, ReadPairStart
<1>8. PICK m, x, y : /\ readFrom(f, u(w)) = surrogates(m, w)
                     /\ m = Lexer("hex", t, x, 3, y, h) /\ m.high = h
  BY <1>1, <1>7, ReadU
<1>9. u(w) \in Bytes
  BY <1>1, <1>7, ReadU
<1>10. surrogates(m, w) = addCodepoint(m, paired(m.high, w))
  <2>1. FALSE = (m.high = 0)
    BY <1>1, <1>8
  <2>. QED
    BY <1>1, <2>1, SurrogateCases
<1>11. surrogates(m, w) = addCodepoint(m, cp)
  BY <1>1, <1>8, <1>10
<1>12. Inside(surrogates(m, w), 0, t \o encode(cp))
  BY <1>5, <1>8, <1>11, ReadCodepoint
<1>13. readFrom(l, u(h) \o u(w)) = readFrom(f, u(w))
  BY <1>5, <1>9, ReadFromConcat DEF f
<1>14. u(h) \o u(w) \in Bytes
  BY <1>5, <1>9 DEF Bytes
<1>. QED
  BY <1>8, <1>12, <1>13, <1>14 DEF h, w

-----------------------------------------------------------------------------
(* What dump_escaped writes of a character.                                *)

LEMMA AppendOne ==
  ASSUME NEW t \in Bytes, NEW c \in Byte
  PROVE  t \o <<c>> = Append(t, c) /\ <<c>> \in Bytes
<1>1. <<c>> \in Bytes
  BY DEF Bytes
<1>2. Append(t, c) = t \o <<c>>
  BY AppendIsConcat DEF Bytes
<1>. QED
  BY <1>1, <1>2

LEMMA RoomOfU ==
  ASSUME NEW cp \in Nat, NEW w \in Nat
  PROVE  room(u(cp)) <= 7 /\ room(u(cp)) <= 13 /\ room(u(cp) \o u(w)) <= 13
<1>1. Len(u(cp)) = 6 /\ Len(u(w)) = 6
  BY DEF u
<1>2. Len(u(cp) \o u(w)) = 12
  BY <1>1 DEF u
<1>. QED
  BY <1>1, <1>2 DEF room

LEMMA EscapedShort ==
  ASSUME NEW l, NEW t, Inside(l, 0, t), NEW v, v \in DOMAIN shortEscape, NEW b, NEW a
  PROVE  /\ Inside(readFrom(l, escaped(v, b, a)), 0, t \o encode(v))
         /\ escaped(v, b, a) \in Bytes /\ room(escaped(v, b, a)) <= 7
<1> DEFINE c == shortEscape[v]
<1>1. v \in 0..127 /\ c \in DOMAIN simpleEscape /\ simpleEscape[c] = v
  BY ShortEscapes
<1>2. escaped(v, b, a) = <<Escape, c>>
  BY EscapedCases
<1>3. v \in Byte /\ c \in Byte /\ Escape \in Byte
  <2>1. c \in {34, 92, 47, 98, 102, 110, 114, 116}
    BY <1>1 DEF simpleEscape
  <2>. QED
    BY <1>1, <2>1 DEF Byte, Escape
<1>4. encode(v) = <<v>>
  BY <1>1, EncodeOneCases
<1>. HIDE DEF c
<1>5. readFrom(l, <<Escape, c>>) = get(get(l, Escape), c)
  BY <1>3, ReadFromTwo
<1>6. Inside(get(get(l, Escape), c), 0, Append(t, v))
  <2>1. BehindEscape(get(l, Escape), t)
    BY ReadEscape
  <2>. QED
    BY <1>1, <1>3, <2>1, ReadShortEscape
<1>7. t \o <<v>> = Append(t, v)
  BY <1>3, AppendOne DEF Inside
<1>8. <<Escape, c>> \in Bytes /\ room(<<Escape, c>>) <= 7
  BY <1>3 DEF Bytes, room
<1>. QED
  BY <1>2, <1>4, <1>5, <1>6, <1>7, <1>8

LEMMA EscapedSelf ==
  ASSUME NEW l, NEW t, Inside(l, 0, t), NEW b \in Byte, b < 128, NEW a,
         b \notin DOMAIN shortEscape, ~escapedByHex(b, a)
  PROVE  /\ Inside(readFrom(l, escaped(b, b, a)), 0, t \o encode(b))
         /\ escaped(b, b, a) \in Bytes /\ room(escaped(b, b, a)) <= 7
<1>1. escaped(b, b, a) = <<b>>
  BY EscapedCases
<1>2. b \in unescaped
  BY DEF unescaped, shortEscape, escapedByHex, Byte, Quote, Escape
<1>3. encode(b) = <<b>>
  BY EncodeOneCases DEF Byte
<1>4. readFrom(l, <<b>>) = get(l, b)
  BY ReadFromOne
<1>5. Inside(get(l, b), 0, Append(t, b))
  BY <1>2, ReadUnescaped
<1>6. t \o <<b>> = Append(t, b) /\ <<b>> \in Bytes
  BY AppendOne DEF Inside
<1>7. room(<<b>>) <= 7
  BY DEF room
<1>. QED
  BY <1>1, <1>3, <1>4, <1>5, <1>6, <1>7

LEMMA EscapedByHex ==
  ASSUME NEW l, NEW t, Inside(l, 0, t), NEW v, scalar(v), encode(v) \in Bytes, NEW b, NEW a,
         v \notin DOMAIN shortEscape, escapedByHex(v, a)
  PROVE  /\ Inside(readFrom(l, escaped(v, b, a)), 0, t \o encode(v))
         /\ escaped(v, b, a) \in Bytes
         /\ v <= LastOfThree => room(escaped(v, b, a)) <= 7
         /\ room(escaped(v, b, a)) <= 13
<1>1. CASE v <= LastOfThree
  <2>1. escaped(v, b, a) = u(v)
    BY <1>1, EscapedCases
  <2>2. room(u(v)) <= 7 /\ room(u(v)) <= 13
    BY RoomOfU DEF scalar
  <2>. QED
    BY <1>1, <2>1, <2>2, ReadUnicode
<1>2. CASE ~(v <= LastOfThree)
  <2>1. v \in Int /\ LastOfThree < v /\ v <= 1114111
    BY <1>2, SMT DEF scalar, LastOfThree
  <2>2. escaped(v, b, a) = u(highOf(v)) \o u(lowOf(v))
    BY <1>2, EscapedCases
  <2>3. room(u(highOf(v)) \o u(lowOf(v))) <= 13
    BY <2>1, PairOf, RoomOfU
  <2>. QED
    BY <1>2, <2>1, <2>2, <2>3, ReadPair
<1>. QED
  BY <1>1, <1>2

(* What is escaped is read as the character it stands for.                 *)
LEMMA ReadEscaped ==
  ASSUME NEW l, NEW t, Inside(l, 0, t), NEW v, scalar(v), encode(v) \in Bytes,
         NEW b \in Byte, NEW a, v < 128 => b = v, v >= 128 => a
  PROVE  /\ Inside(readFrom(l, escaped(v, b, a)), 0, t \o encode(v))
         /\ escaped(v, b, a) \in Bytes
         /\ room(escaped(v, b, a)) <= IF v < 128 THEN 7 ELSE 13
<1>. v \in Nat
  BY DEF scalar
<1>1. CASE v \in DOMAIN shortEscape
  <2>1. v < 128
    BY <1>1, ShortEscapes
  <2>. QED
    BY <1>1, <2>1, EscapedShort
<1>2. CASE v \notin DOMAIN shortEscape /\ escapedByHex(v, a)
  <2>1. v < 128 => v <= LastOfThree
    BY SMT DEF LastOfThree
  <2>2. /\ Inside(readFrom(l, escaped(v, b, a)), 0, t \o encode(v))
        /\ escaped(v, b, a) \in Bytes
        /\ v <= LastOfThree => room(escaped(v, b, a)) <= 7
        /\ room(escaped(v, b, a)) <= 13
    BY <1>2, EscapedByHex
  <2>. QED
    BY <2>1, <2>2
<1>3. CASE v \notin DOMAIN shortEscape /\ ~escapedByHex(v, a)
  <2>1. v < 128
    BY <1>3 DEF escapedByHex
  <2>. QED
    BY <1>3, <2>1, EscapedSelf
<1>. QED
  BY <1>1, <1>2, <1>3

-----------------------------------------------------------------------------
(* What dump_escaped has written, and what the lexer makes of it.          *)

LEMMA ConcatBytes ==
  ASSUME NEW s \in Bytes, NEW t \in Bytes
  PROVE  /\ s \o t \in Bytes /\ Len(s \o t) = Len(s) + Len(t)
         /\ Len(s) \in Nat /\ Len(t) \in Nat
         /\ SubSeq(s \o t, 1, Len(s)) = s
<1>1. s \o t \in Bytes /\ Len(s \o t) = Len(s) + Len(t) /\ Len(s) \in Nat /\ Len(t) \in Nat
  BY ConcatProperties, LenProperties DEF Bytes
<1>2. SubSeq(s \o t, 1, Len(s)) = s
  <2>1. CASE Len(s) = 0
    <3>1. s = <<>>
      BY <2>1, EmptySeq DEF Bytes
    <3>2. SubSeq(s \o t, 1, 0) = <<>>
      BY SubSeqEmpty
    <3>. QED
      BY <2>1, <3>1, <3>2
  <2>2. CASE Len(s) # 0
    <3>1. 1 \in 1..Len(s) /\ Len(s) \in 1..Len(s)
      BY <1>1, <2>2
    <3>2. SubSeq(s \o t, 1, Len(s)) = SubSeq(s, 1, Len(s))
      BY <3>1, SubSeqOfConcat1 DEF Bytes
    <3>3. SubSeq(s, 1, Len(s)) = s
      BY SubSeqFull DEF Bytes
    <3>. QED
      BY <3>2, <3>3
  <2>. QED
    BY <2>1, <2>2
<1>. QED
  BY <1>1, <1>2

LEMMA ConcatThree ==
  ASSUME NEW s \in Bytes, NEW t \in Bytes, NEW v \in Bytes
  PROVE  (s \o t) \o v = s \o (t \o v)
BY ConcatAssociative DEF Bytes

LEMMA NoBytes ==
  /\ <<>> \in Bytes /\ Len(<<>>) = 0
  /\ \A s \in Bytes : s \o <<>> = s /\ <<>> \o s = s
BY EmptySeq, ConcatEmptySeq DEF Bytes

(* The lexer behind the quote with which a text begins.                    *)
Opened == get(go(reset, "text"), Quote)

(* What is written, and the accepted characters of the buffer, are read as *)
(* the bytes t; p are those of the incomplete character behind them.       *)
Writes(a, t, p, st, cp, wr, done, re) ==
  /\ Partial(st, cp, p)
  /\ wr \in Bytes /\ done \in Bytes /\ t \in Bytes
  /\ Len(done) <= BufferSize - 13
  /\ re \in Nat /\ re <= BufferSize
  /\ Inside(readFrom(Opened, wr \o done), 0, t)
  /\ ~a => Inside(readFrom(Opened, wr \o (done \o p)), st, t \o p)

DumpAt(d, a, st, t, p) ==
  \E cp, wr, done, un, re :
    /\ d = Dump(st, cp, wr, done \o part(a, p), Len(done), un, re, No)
    /\ Writes(a, t, p, st, cp, wr, done, re)

LEMMA PartialFields ==
  ASSUME NEW st, NEW cp, NEW p, Partial(st, cp, p)
  PROVE  /\ st \in {0} \cup 2..8 /\ cp \in Nat /\ p \in Bytes /\ Len(p) \in Nat /\ Len(p) <= 3
         /\ st = 0 => p = <<>>
<1>1. st \in {0} \cup 2..8 /\ cp \in Nat /\ p \in Bytes /\ (st = 0 => p = <<>>)
  BY DEF Partial
<1>2. Len(p) \in Nat
  BY <1>1, LenProperties DEF Bytes
<1>3. Len(p) <= 3
  BY <1>2 DEF Partial
<1>. QED
  BY <1>1, <1>2, <1>3

LEMMA PartialZero ==
  ASSUME NEW cp \in Nat
  PROVE  Partial(0, cp, <<>>)
BY NoBytes DEF Partial

LEMMA PartBytes ==
  ASSUME NEW a, NEW p \in Bytes
  PROVE  part(a, p) \in Bytes /\ (Len(part(a, p)) = 0 \/ Len(part(a, p)) = Len(p))
BY NoBytes DEF part

LEMMA Farther ==
  ASSUME NEW n \in Nat, NEW x \in Bytes, NEW re \in Nat, re <= BufferSize,
         n + room(x) <= BufferSize
  PROVE  farther(re, endOf(n, x)) \in Nat /\ farther(re, endOf(n, x)) <= BufferSize
<1>1. Len(x) \in Nat
  BY LenProperties DEF Bytes
<1>. QED
  BY <1>1, BufferAssumption DEF farther, endOf, room

(* What has been read completely is accepted, written first when the       *)
(* buffer is full.                                                         *)
LEMMA AcceptedAt ==
  ASSUME NEW a, NEW t \in Bytes, NEW cp \in Nat, NEW wr \in Bytes, NEW by \in Bytes,
         NEW ac, NEW un, NEW re \in Nat, re <= BufferSize,
         Inside(readFrom(Opened, wr \o by), 0, t),
         NEW d, d = Dump(0, cp, wr, by, ac, un, re, No)
  PROVE  DumpAt(accept(d), a, 0, t, <<>>)
<1>1. Partial(0, cp, <<>>)
  BY PartialZero
<1>2. t \o <<>> = t /\ by \o <<>> = by /\ (wr \o by) \o <<>> = wr \o by /\ wr \o by \in Bytes
  BY NoBytes, ConcatBytes
<1>3. part(a, <<>>) = <<>>
  BY DEF part
<1>4. Len(by) \in Nat
  BY ConcatBytes
<1>5. CASE BufferSize - Len(by) < 13
  <2>1. accept(d) = Dump(0, cp, wr \o by, <<>>, 0, 0, re, No)
    BY <1>5, AcceptDump
  <2>2. <<>> \o part(a, <<>>) = <<>> /\ Len(<<>>) = 0 /\ <<>> \in Bytes
    BY <1>3, NoBytes
  <2>3. 0 <= BufferSize - 13
    BY BufferAssumption
  <2>4. Writes(a, t, <<>>, 0, cp, wr \o by, <<>>, re)
    BY <1>1, <1>2, <1>3, <2>2, <2>3 DEF Writes
  <2>. QED
    BY <2>1, <2>2, <2>4 DEF DumpAt
<1>6. CASE ~(BufferSize - Len(by) < 13)
  <2>1. accept(d) = Dump(0, cp, wr, by, Len(by), 0, re, No)
    BY <1>6, AcceptDump
  <2>2. by \o part(a, <<>>) = by
    BY <1>2, <1>3
  <2>3. Len(by) <= BufferSize - 13
    BY <1>4, <1>6, BufferAssumption
  <2>4. Writes(a, t, <<>>, 0, cp, wr, by, re)
    BY <1>1, <1>2, <2>3 DEF Writes
  <2>. QED
    BY <2>1, <2>2, <2>4 DEF DumpAt
<1>. QED
  BY <1>5, <1>6

(* A byte that the decoder takes inside a character is what the lexer      *)
(* expects there.                                                          *)
LEMMA ReadDecoded ==
  ASSUME NEW st \in {0} \cup 2..8, NEW l, NEW t, Inside(l, st, t), NEW b \in Byte, st = 0 => b >= 128,
         NEW next, next = decodeState(st, b), next # 1
  PROVE  Inside(get(l, b), next, Append(t, b))
<1>1. CASE st = 0
  <2>1. next = leadOf(b) /\ leadOf(b) # 1 /\ b >= 128
    BY <1>1, FirstBytes
  <2>. QED
    BY <1>1, <2>1, ReadFirstByte
<1>2. CASE st # 0
  <2>1. st \in 2..8
    BY <1>2
  <2>2. next = IF lowest(st) <= b /\ b <= highest(st) THEN nextOf(st) ELSE 1
    BY <2>1, LaterBytes
  <2>3. lowest(st) <= b /\ b <= highest(st) /\ next = nextOf(st)
    BY <2>2
  <2>4. b \in lowest(st)..highest(st)
    BY <2>3 DEF lowest, highest, Byte
  <2>. QED
    BY <2>1, <2>3, <2>4, ReadNextByte
<1>. QED
  BY <1>1, <1>2

LEMMA ReadBehind ==
  ASSUME NEW wr \in Bytes, NEW done \in Bytes, NEW b \in Byte
  PROVE  /\ readFrom(Opened, wr \o Append(done, b)) = get(readFrom(Opened, wr \o done), b)
         /\ done \o <<b>> = Append(done, b) /\ Append(done, b) \in Bytes
<1>1. wr \o Append(done, b) = Append(wr \o done, b) /\ wr \o done \in Bytes
  BY ConcatAppend
<1>2. readFrom(Opened, Append(wr \o done, b)) = get(readFrom(Opened, wr \o done), b)
  BY <1>1, ReadFromAppend
<1>3. done \o <<b>> = Append(done, b) /\ Append(done, b) \in Bytes
  BY AppendOne, BytesAppend
<1>. QED
  BY <1>1, <1>2, <1>3

(* The byte is not the last of its character.                              *)
LEMMA DecodedInside ==
  ASSUME NEW a, NEW t, NEW p, NEW st, NEW cp, NEW wr, NEW done, NEW un, NEW re,
         Writes(a, t, p, st, cp, wr, done, re), NEW b \in Byte,
         NEW next, next = decodeState(st, b), next \notin {0, 1},
         NEW d, d = Dump(st, cp, wr, done \o part(a, p), Len(done), un, re, No)
  PROVE  DumpAt(dumpDecoded(d, b, a), a, next, t, Append(p, b))
<1> DEFINE q == Append(p, b)
           v == decodeCodepoint(st, cp, b)
           x == added(a, b)
           by == done \o part(a, p)
           far == farther(re, endOf(Len(by), x))
<1>1. /\ Partial(st, cp, p) /\ wr \in Bytes /\ done \in Bytes /\ t \in Bytes
      /\ Len(done) <= BufferSize - 13 /\ re \in Nat /\ re <= BufferSize
      /\ Inside(readFrom(Opened, wr \o done), 0, t)
      /\ ~a => Inside(readFrom(Opened, wr \o (done \o p)), st, t \o p)
  BY DEF Writes
<1>2. p \in Bytes /\ Len(p) \in Nat /\ Len(p) <= 3 /\ st \in {0} \cup 2..8
  BY <1>1, PartialFields
<1>3. part(a, p) \in Bytes /\ (Len(part(a, p)) = 0 \/ Len(part(a, p)) = Len(p))
  BY <1>2, PartBytes
<1>4. /\ by \in Bytes /\ Len(by) = Len(done) + Len(part(a, p)) /\ Len(by) \in Nat /\ Len(done) \in Nat
  BY <1>1, <1>3, ConcatBytes
<1>5. Partial(next, v, q)
  BY <1>1, DecodeByte
<1>6. dumpDecoded(d, b, a) = Dump(next, v, wr, by \o x, Len(done), un + 1, far, No)
  <2>1. /\ decodeState(st, b) # 0 /\ v = decodeCodepoint(st, cp, b) /\ x = added(a, b)
        /\ next = decodeState(st, b)
        /\ d = Dump(st, cp, wr, by, Len(done), un, re, No)
        /\ far = farther(re, endOf(Len(by), x))
    OBVIOUS
  <2>. HIDE DEF v, x, by, far
  <2> DEFINE m == Len(done)
  <2>2. d = Dump(st, cp, wr, by, m, un, re, No)
    BY <2>1
  <2>. HIDE DEF m
  <2>3. dumpDecoded(d, b, a) =
                Dump(decodeState(st, b), decodeCodepoint(st, cp, b), wr, by \o added(a, b), m,
                     un + 1, farther(re, endOf(Len(by), added(a, b))), No)
    BY <2>1, <2>2, DecodedDump
  <2>. QED
    BY <2>1, <2>3 DEF m
<1>7. x \in Bytes /\ room(x) <= 1
  <2>1. room(<<>>) = 0 /\ room(<<b>>) = 1
    BY DEF room
  <2>2. <<>> \in Bytes /\ <<b>> \in Bytes
    BY NoBytes, AppendOne
  <2>. QED
    BY <2>1, <2>2 DEF part, added
<1>8. far \in Nat /\ far <= BufferSize
  <2>1. room(x) \in Nat
    BY <1>7, LenProperties DEF room, Bytes
  <2>2. Len(by) + room(x) <= BufferSize
    BY <1>1, <1>2, <1>3, <1>4, <1>7, <2>1, BufferAssumption
  <2>. QED
    BY <1>1, <1>4, <1>7, <2>2, Farther
<1>9. by \o x = done \o part(a, q)
  <2>1. CASE a
    BY <1>1, <2>1, NoBytes DEF part, added
  <2>2. CASE ~a
    <3>1. by \o x = (done \o p) \o <<b>> /\ part(a, q) = q
      BY <2>2 DEF part, added
    <3>2. done \o p \in Bytes
      BY <1>1, <1>2, ConcatBytes
    <3>3. (done \o p) \o <<b>> = Append(done \o p, b)
      BY <3>2, AppendOne
    <3>4. done \o q = Append(done \o p, b)
      BY <1>1, <1>2, ConcatAppend
    <3>. QED
      BY <3>1, <3>3, <3>4
  <2>. QED
    BY <2>1, <2>2
<1>10. ASSUME ~a PROVE Inside(readFrom(Opened, wr \o (done \o q)), next, t \o q)
  <2>1. done \o q = Append(done \o p, b) /\ done \o p \in Bytes
    BY <1>1, <1>2, ConcatAppend
  <2>2. readFrom(Opened, wr \o Append(done \o p, b)) = get(readFrom(Opened, wr \o (done \o p)), b)
    BY <1>1, <2>1, ReadBehind
  <2>3. t \o q = Append(t \o p, b)
    BY <1>1, <1>2, ConcatAppend
  <2>4. st = 0 => b >= 128
    <3>1. st = 0 => leadOf(b) # 0
      BY FirstBytes
    <3>. QED
      BY <3>1 DEF leadOf, Byte
  <2>5. Inside(readFrom(Opened, wr \o (done \o p)), st, t \o p)
    BY <1>1, <1>10
  <2>6. Inside(get(readFrom(Opened, wr \o (done \o p)), b), next, Append(t \o p, b))
    BY <1>2, <2>4, <2>5, ReadDecoded
  <2>. QED
    BY <2>1, <2>2, <2>3, <2>6
<1>. HIDE DEF q, v, x, by, far
<1>11. Writes(a, t, q, next, v, wr, done, far)
  BY <1>1, <1>5, <1>8, <1>10 DEF Writes
<1>12. DumpAt(dumpDecoded(d, b, a), a, next, t, q)
  BY <1>6, <1>9, <1>11 DEF DumpAt
<1>. QED
  BY <1>12 DEF q

LEMMA ZeroDump ==
  ASSUME NEW st, NEW cp, NEW wr, NEW by, NEW ac, NEW un, NEW re, NEW th, NEW b, NEW a,
         NEW d, d = Dump(st, cp, wr, by, ac, un, re, th), decodeState(st, b) = 0,
         NEW e, e = escaped(decodeCodepoint(st, cp, b), b, a)
  PROVE  \E f : /\ f = Dump(0, decodeCodepoint(st, cp, b), wr, by \o e, ac, un,
                            farther(re, endOf(Len(by), e)), th)
                /\ dumpDecoded(d, b, a) = accept(f)
<1> DEFINE v == decodeCodepoint(st, cp, b)
           g == Dump(0, v, wr, by, ac, un, re, th)
<1>1. dumpDecoded(d, b, a) = accept(put(g, e))
  BY DecodedDump
<1>. HIDE DEF v, g
<1>2. g = Dump(0, v, wr, by, ac, un, re, th)
  BY DEF g
<1>3. put(g, e) = Dump(0, v, wr, by \o e, ac, un, farther(re, endOf(Len(by), e)), th)
  BY <1>2, PutDump
<1>. QED
  BY <1>1, <1>3 DEF v

(* What the last byte of a character adds is accepted when the lexer reads *)
(* it as that character.                                                   *)
LEMMA DecodedLast ==
  ASSUME NEW a, NEW st, NEW cp, NEW wr \in Bytes, NEW by \in Bytes, NEW ac, NEW un,
         NEW re \in Nat, re <= BufferSize, NEW b,
         NEW d, d = Dump(st, cp, wr, by, ac, un, re, No), decodeState(st, b) = 0,
         NEW v \in Nat, v = decodeCodepoint(st, cp, b),
         NEW e \in Bytes, e = escaped(v, b, a), Len(by) + room(e) <= BufferSize,
         NEW t \in Bytes, Inside(readFrom(Opened, wr \o (by \o e)), 0, t)
  PROVE  DumpAt(dumpDecoded(d, b, a), a, 0, t, <<>>)
<1>1. PICK f : /\ f = Dump(0, v, wr, by \o e, ac, un, farther(re, endOf(Len(by), e)), No)
               /\ dumpDecoded(d, b, a) = accept(f)
  BY ZeroDump
<1>2. by \o e \in Bytes /\ Len(by) \in Nat
  BY ConcatBytes
<1> DEFINE far == farther(re, endOf(Len(by), e))
<1>3. far \in Nat /\ far <= BufferSize
  BY <1>2, Farther
<1>. HIDE DEF far
<1>4. f = Dump(0, v, wr, by \o e, ac, un, far, No)
  BY <1>1 DEF far
<1> DEFINE new == by \o e
<1>5. new \in Bytes /\ f = Dump(0, v, wr, new, ac, un, far, No) /\ Inside(readFrom(Opened, wr \o new), 0, t)
  BY <1>2, <1>4
<1>. HIDE DEF new
<1>6. DumpAt(accept(f), a, 0, t, <<>>)
  BY <1>3, <1>5, AcceptedAt
<1>. QED
  BY <1>1, <1>6

(* It is escaped, or there is nothing of its character in the buffer.      *)
LEMMA DecodedEscaped ==
  ASSUME NEW a, NEW t, NEW p, NEW st, NEW cp, NEW wr, NEW done, NEW un, NEW re,
         Writes(a, t, p, st, cp, wr, done, re), NEW b \in Byte, decodeState(st, b) = 0,
         NEW v, v = decodeCodepoint(st, cp, b), scalar(v), encode(v) = Append(p, b), Append(p, b) \in Bytes,
         v < 128 => b = v, v >= 128 => a, part(a, p) = <<>>,
         NEW d, d = Dump(st, cp, wr, done \o part(a, p), Len(done), un, re, No)
  PROVE  DumpAt(dumpDecoded(d, b, a), a, 0, t \o Append(p, b), <<>>)
<1> DEFINE q == Append(p, b)
           e == escaped(v, b, a)
           l == readFrom(Opened, wr \o done)
           m == Len(done)
<1>1. /\ wr \in Bytes /\ done \in Bytes /\ t \in Bytes /\ Len(done) <= BufferSize - 13
      /\ re \in Nat /\ re <= BufferSize /\ Inside(l, 0, t)
  BY DEF Writes
<1>2. done \o part(a, p) = done
  BY <1>1, NoBytes
<1>3. /\ Inside(readFrom(l, e), 0, t \o encode(v)) /\ e \in Bytes
      /\ room(e) <= IF v < 128 THEN 7 ELSE 13
  <2>1. encode(v) \in Bytes /\ e = escaped(v, b, a) /\ Inside(l, 0, t) /\ t \in Bytes
    BY <1>1
  <2>. HIDE DEF l, e, m, q
  <2>2. /\ Inside(readFrom(l, escaped(v, b, a)), 0, t \o encode(v)) /\ escaped(v, b, a) \in Bytes
        /\ room(escaped(v, b, a)) <= IF v < 128 THEN 7 ELSE 13
    BY ONLY <2>1, scalar(v), b \in Byte, v < 128 => b = v, v >= 128 => a, ReadEscaped
  <2>. QED
    BY <2>1, <2>2
<1>4. v \in Nat
  BY DEF scalar
<1>5. Len(done) + room(e) <= BufferSize
  <2>1. room(e) \in Nat /\ Len(done) \in Nat
    BY <1>1, <1>3, LenProperties DEF room, Bytes
  <2>2. room(e) <= 13
    BY <1>3, <1>4, <2>1
  <2>. QED
    BY <1>1, <2>1, <2>2, BufferAssumption
<1>6. readFrom(Opened, wr \o (done \o e)) = readFrom(l, e)
  <2>0. wr \in Bytes /\ done \in Bytes /\ e \in Bytes /\ l = readFrom(Opened, wr \o done)
    BY <1>1, <1>3
  <2>. HIDE DEF l, e, m, q
  <2>1. (wr \o done) \o e = wr \o (done \o e) /\ wr \o done \in Bytes
    <3>1. (wr \o done) \o e = wr \o (done \o e)
      BY <2>0, ConcatThree
    <3>2. wr \o done \in Bytes
      BY <2>0, ConcatBytes
    <3>. QED
      BY <3>1, <3>2
  <2> DEFINE w == wr \o done
  <2>3. w \in Bytes /\ l = readFrom(Opened, w)
    BY <2>0, <2>1
  <2>. HIDE DEF w
  <2>4. readFrom(Opened, w \o e) = readFrom(readFrom(Opened, w), e)
    BY <2>0, <2>3, ReadFromConcat
  <2>2. readFrom(Opened, (wr \o done) \o e) = readFrom(l, e)
    BY <2>3, <2>4 DEF w
  <2>. QED
    BY <2>1, <2>2
<1>7. Inside(readFrom(Opened, wr \o (done \o e)), 0, t \o q) /\ t \o q \in Bytes
  BY <1>1, <1>3, <1>6, ConcatBytes
<1>8. d = Dump(st, cp, wr, done, m, un, re, No)
  BY <1>2
<1>9. e = escaped(v, b, a)
  OBVIOUS
<1> DEFINE new == t \o q
<1>. HIDE DEF e, m, l, new
<1>10. Inside(readFrom(Opened, wr \o (done \o e)), 0, new) /\ new \in Bytes
  BY <1>7 DEF new
<1>11. DumpAt(dumpDecoded(d, b, a), a, 0, new, <<>>)
  BY <1>1, <1>3, <1>4, <1>5, <1>8, <1>9, <1>10, DecodedLast
<1>. QED
  BY <1>11 DEF new

LEMMA NotShort ==
  ASSUME NEW v \in Nat, v >= 128
  PROVE  v \notin DOMAIN shortEscape
BY ShortEscapes

(* It is written as it is, behind those before it.                         *)
LEMMA DecodedPlain ==
  ASSUME NEW a, ~a, NEW t, NEW p, NEW st, NEW cp, NEW wr, NEW done, NEW un, NEW re,
         Writes(a, t, p, st, cp, wr, done, re), NEW b \in Byte, b >= 128, decodeState(st, b) = 0,
         NEW v, v = decodeCodepoint(st, cp, b), scalar(v), v >= 128, Append(p, b) \in Bytes,
         NEW d, d = Dump(st, cp, wr, done \o part(a, p), Len(done), un, re, No)
  PROVE  DumpAt(dumpDecoded(d, b, a), a, 0, t \o Append(p, b), <<>>)
<1> DEFINE q == Append(p, b)
           by == done \o p
           l == readFrom(Opened, wr \o by)
           m == Len(done)
           e == <<b>>
<1>1. /\ Partial(st, cp, p) /\ wr \in Bytes /\ done \in Bytes /\ t \in Bytes
      /\ Len(done) <= BufferSize - 13 /\ re \in Nat /\ re <= BufferSize
      /\ Inside(l, st, t \o p)
  BY DEF Writes
<1>2. p \in Bytes /\ Len(p) \in Nat /\ Len(p) <= 3 /\ st \in {0} \cup 2..8
  BY <1>1, PartialFields
<1>3. by \in Bytes /\ Len(by) = Len(done) + Len(p) /\ Len(done) \in Nat /\ Len(by) \in Nat
  BY <1>1, <1>2, ConcatBytes
<1>4. v \in Nat
  BY DEF scalar
<1>5. escaped(v, b, a) = <<b>>
  <2>1. v \notin DOMAIN shortEscape
    BY <1>4, NotShort
  <2>2. ~escapedByHex(v, a)
    BY <1>4 DEF escapedByHex
  <2>. QED
    BY <2>1, <2>2, EscapedCases
<1>6. /\ readFrom(Opened, wr \o Append(by, b)) = get(l, b)
      /\ by \o <<b>> = Append(by, b) /\ <<b>> \in Bytes
  BY <1>1, <1>3, ReadBehind, AppendOne
<1>7. Inside(get(l, b), 0, Append(t \o p, b))
  <2>1. 0 = decodeState(st, b) /\ 0 # 1
    OBVIOUS
  <2>. HIDE DEF l
  <2>. QED
    BY <1>1, <1>2, <2>1, ReadDecoded
<1>8. t \o q = Append(t \o p, b) /\ t \o q \in Bytes
  BY <1>1, <1>2, ConcatAppend, ConcatBytes
<1>9. Inside(readFrom(Opened, wr \o (by \o e)), 0, t \o q)
  BY <1>6, <1>7, <1>8
<1>10. Len(by) + room(e) <= BufferSize
  <2>1. room(e) = 1
    BY DEF room
  <2>. QED
    BY <1>1, <1>2, <1>3, <2>1, BufferAssumption
<1>11. d = Dump(st, cp, wr, by, m, un, re, No)
  BY DEF part
<1> DEFINE new == t \o q
<1>12. e \in Bytes /\ e = escaped(v, b, a)
  BY <1>5, <1>6
<1>. HIDE DEF e, m, by, new
<1>13. Inside(readFrom(Opened, wr \o (by \o e)), 0, new) /\ new \in Bytes
  BY <1>8, <1>9 DEF new
<1>14. DumpAt(dumpDecoded(d, b, a), a, 0, new, <<>>)
  BY <1>1, <1>3, <1>4, <1>10, <1>11, <1>12, <1>13, DecodedLast
<1>. QED
  BY <1>14 DEF new

(* A byte that the decoder takes belongs to what is written from then on.  *)
LEMMA DecodedAt ==
  ASSUME NEW a, NEW t, NEW p, NEW st, NEW d, DumpAt(d, a, st, t, p), NEW b \in Byte,
         NEW next, next = decodeState(st, b), next # 1
  PROVE  \E now, rest : /\ DumpAt(dumpDecoded(d, b, a), a, next, now, rest)
                        /\ now \o rest = Append(t \o p, b)
<1>1. PICK cp, wr, done, un, re :
        /\ d = Dump(st, cp, wr, done \o part(a, p), Len(done), un, re, No)
        /\ Writes(a, t, p, st, cp, wr, done, re)
  BY DEF DumpAt
<1> DEFINE q == Append(p, b)
           v == decodeCodepoint(st, cp, b)
<1>2. Partial(st, cp, p) /\ t \in Bytes
  BY <1>1 DEF Writes
<1>3. p \in Bytes /\ st \in {0} \cup 2..8
  BY <1>2, PartialFields
<1>4. t \o q = Append(t \o p, b) /\ q \in Bytes /\ t \o q \in Bytes
  BY <1>2, <1>3, ConcatAppend, BytesAppend, ConcatBytes
<1>5. CASE next # 0
  <2>1. next \notin {0, 1}
    BY <1>5
  <2>2. DumpAt(dumpDecoded(d, b, a), a, next, t, q)
    BY <1>1, <2>1, DecodedInside
  <2>. QED
    BY <1>4, <2>2
<1>6. CASE next = 0
  <2>1. \/ st = 0 /\ b < 128 /\ v = b
        \/ st # 0 /\ b >= 128 /\ Final(v, q)
    <3>1. v = decodeCodepoint(st, cp, b) /\ Partial(st, cp, p)
      BY <1>2
    <3>. HIDE DEF v
    <3>2. next = 0 => \/ st = 0 /\ b < 128 /\ v = b
                      \/ st # 0 /\ b >= 128 /\ Final(v, Append(p, b))
      <4>1. /\ next # 0 => Partial(next, v, Append(p, b))
            /\ next = 0 => \/ st = 0 /\ b < 128 /\ v = b
                           \/ st # 0 /\ b >= 128 /\ Final(v, Append(p, b))
            /\ st = 0 => next = leadOf(b)
            /\ st # 0 => b \in lowest(st)..highest(st) /\ next = nextOf(st)
        BY <3>1, DecodeByte
      <4>. QED
        BY <4>1
    <3>. QED
      BY <1>6, <3>2
  <2>2. v \in Nat /\ scalar(v) /\ encode(v) = q /\ (v < 128 => b = v) /\ (v >= 128 => b >= 128)
        /\ (v < 128 => p = <<>>)
    <3>1. CASE st = 0 /\ b < 128 /\ v = b
      <4>1. v \in Nat /\ v < 128
        BY <3>1 DEF Byte
      <4>2. p = <<>>
        BY <1>2, <3>1, PartialFields
      <4>3. encode(v) = <<v>>
        BY <4>1, EncodeOneCases
      <4>4. scalar(v)
        BY <4>1, Surrogates, SMT DEF scalar
      <4>5. <<v>> = Append(<<>>, b)
        BY <3>1
      <4>. QED
        BY <3>1, <4>1, <4>2, <4>3, <4>4, <4>5
    <3>2. CASE st # 0 /\ b >= 128 /\ Final(v, q)
      <4>1. scalar(v) /\ v >= 128 /\ encode(v) = q
        BY <3>2 DEF Final
      <4>2. v \in Nat
        BY <4>1 DEF scalar
      <4>. QED
        BY <3>2, <4>1, <4>2
    <3>. QED
      BY <2>1, <3>1, <3>2
  <2>3. decodeState(st, b) = 0 /\ v = decodeCodepoint(st, cp, b)
    BY <1>6
  <2> DEFINE all == t \o q
  <2>4. DumpAt(dumpDecoded(d, b, a), a, 0, all, <<>>)
    <3>1. CASE a \/ v < 128
      <4>1. part(a, p) = <<>> /\ (v >= 128 => a)
        BY <2>2, <3>1 DEF part
      <4>2. encode(v) = Append(p, b) /\ Append(p, b) \in Bytes /\ (v < 128 => b = v)
        BY <1>4, <2>2
      <4>. HIDE DEF v
      <4>. QED
        BY <1>1, <2>2, <2>3, <4>1, <4>2, DecodedEscaped
    <3>2. CASE ~a /\ v >= 128
      <4>1. Append(p, b) \in Bytes /\ b >= 128
        BY <1>4, <2>2, <3>2
      <4>. HIDE DEF v
      <4>. QED
        BY <1>1, <2>2, <2>3, <3>2, <4>1, DecodedPlain
    <3>. QED
      BY <2>2, <3>1, <3>2
  <2>5. all \o <<>> = Append(t \o p, b)
    BY <1>4, NoBytes
  <2>. HIDE DEF all
  <2>. QED
    BY <1>6, <2>4, <2>5
<1>. QED
  BY <1>5, <1>6

-----------------------------------------------------------------------------
(* Bytes that are no UTF-8: back to the last complete character.           *)

LEMMA AcceptState ==
  ASSUME NEW st, NEW cp, NEW wr, NEW by, NEW ac, NEW un, NEW re, NEW th, NEW zero,
         NEW d, d = Dump(st, cp, wr, by, ac, un, re, th),
         NEW e, e = Dump(zero, cp, wr, by, ac, un, re, th)
  PROVE  setState(accept(d), zero) = accept(e)
<1>1. CASE BufferSize - Len(by) < 13
  <2>1. /\ accept(d) = Dump(st, cp, wr \o by, <<>>, 0, 0, re, th)
        /\ accept(e) = Dump(zero, cp, wr \o by, <<>>, 0, 0, re, th)
    BY <1>1, AcceptDump
  <2>. QED
    BY <2>1, DumpState
<1>2. CASE ~(BufferSize - Len(by) < 13)
  <2> DEFINE m == Len(by)
  <2>1. /\ accept(d) = Dump(st, cp, wr, by, m, 0, re, th)
        /\ accept(e) = Dump(zero, cp, wr, by, m, 0, re, th)
    BY <1>2, AcceptDump
  <2>. HIDE DEF m
  <2>. QED
    BY <2>1, DumpState
<1>. QED
  BY <1>1, <1>2

LEMMA ReplacementBytes ==
  /\ scalar(ReplacementCharacter) /\ ReplacementCharacter <= LastOfThree
  /\ encode(ReplacementCharacter) = <<239, 191, 189>>
<1> DEFINE v == ReplacementCharacter
<1>1. v \in Nat /\ v \in Int /\ v = 65533
  BY SMT DEF ReplacementCharacter
<1>2. scalar(v) /\ v > LastOfTwo /\ v <= LastOfThree
  BY <1>1, Scalars, SMT DEF LastOfTwo, LastOfThree
<1>3. v \div 64 = 1023 /\ v % 64 = 61 /\ 1023 \div 64 = 15 /\ 1023 % 64 = 63
  BY <1>1, SMT
<1>. HIDE DEF v
<1>4. encode(v) = <<224 + ((v \div 64) \div 64), 128 + ((v \div 64) % 64), 128 + (v % 64)>>
  BY <1>1, <1>2, EncodeThreeCases
<1>5. encode(v) = <<239, 191, 189>>
  BY <1>3, <1>4, SMT
<1>. QED
  BY <1>2, <1>5 DEF v

LEMMA ReadReplacement ==
  ASSUME NEW a, NEW l, NEW t, Inside(l, 0, t)
  PROVE  /\ \E now : Inside(readFrom(l, replacement(a)), 0, now)
         /\ replacement(a) \in Bytes /\ room(replacement(a)) <= 7
<1> DEFINE three == <<239, 191, 189>>
<1>1. 239 \in Byte /\ 191 \in Byte /\ 189 \in Byte /\ three \in Bytes
  BY SMT DEF Byte, Bytes
<1>2. CASE a
  <2> DEFINE v == ReplacementCharacter
  <2>1. scalar(v) /\ v <= LastOfThree /\ encode(v) \in Bytes
    BY <1>1, ReplacementBytes
  <2>2. replacement(a) = u(v)
    BY <1>2 DEF replacement
  <2>. HIDE DEF v
  <2>3. Inside(readFrom(l, u(v)), 0, t \o encode(v)) /\ u(v) \in Bytes
    BY <2>1, ReadUnicode
  <2>4. room(u(v)) <= 7
    <3>1. v \in Nat /\ 0 \in Nat
      BY <2>1 DEF scalar
    <3>. QED
      BY <3>1, RoomOfU
  <2>. QED
    BY <2>2, <2>3, <2>4
<1>3. CASE ~a
  <2>1. replacement(a) = three
    BY <1>3 DEF replacement
  <2>2. leadOf(239) = 3 /\ 3 \in 2..8 /\ 191 \in lowest(3)..highest(3) /\ nextOf(3) = 2
        /\ 2 \in 2..8 /\ 189 \in lowest(2)..highest(2) /\ nextOf(2) = 0 /\ 239 >= 128
    BY SMT DEF leadOf, lowest, highest, nextOf
  <2>3. Inside(get(l, 239), 3, Append(t, 239))
    BY <1>1, <2>2, ReadFirstByte, SMT
  <2>4. Inside(get(get(l, 239), 191), 2, Append(Append(t, 239), 191))
    BY <2>2, <2>3, ReadNextByte, SMT
  <2>5. Inside(get(get(get(l, 239), 191), 189), 0, Append(Append(Append(t, 239), 191), 189))
    BY <2>2, <2>4, ReadNextByte, SMT
  <2>6. readFrom(l, three) = get(get(get(l, 239), 191), 189)
    BY <1>1, ReadFromThree, SMT
  <2>7. room(three) = 3
    BY SMT DEF room
  <2>. HIDE DEF three
  <2>. QED
    BY <1>1, <2>1, <2>5, <2>6, <2>7, SMT
<1>. QED
  BY <1>2, <1>3

LEMMA ResumeAt ==
  ASSUME NEW a, NEW h, NEW t, NEW p, NEW st, NEW d, DumpAt(d, a, st, t, p)
  PROVE  \E now : DumpAt(resume(d, a, h), a, 0, now, <<>>)
<1>1. PICK cp, wr, done, un, re :
        /\ d = Dump(st, cp, wr, done \o part(a, p), Len(done), un, re, No)
        /\ Writes(a, t, p, st, cp, wr, done, re)
  BY DEF DumpAt
<1>2. /\ Partial(st, cp, p) /\ t \in Bytes /\ wr \in Bytes /\ done \in Bytes
      /\ Len(done) <= BufferSize - 13 /\ re \in Nat /\ re <= BufferSize
      /\ Inside(readFrom(Opened, wr \o done), 0, t)
  BY <1>1 DEF Writes
<1>3. cp \in Nat /\ part(a, p) \in Bytes
  BY <1>2, PartialFields, PartBytes
<1> DEFINE by == done \o part(a, p)
           m  == Len(done)
<1>4. SubSeq(by, 1, m) = done /\ m \in Nat
  BY <1>2, <1>3, ConcatBytes
<1>5. d = Dump(st, cp, wr, by, m, un, re, No) /\ m = Len(done)
  BY <1>1
<1>. HIDE DEF by, m
<1>6. CASE h # "replace"
  <2>1. resume(d, a, h) = Dump(0, cp, wr, SubSeq(by, 1, m), m, 0, re, No)
    BY <1>5, <1>6, ResumeDump
  <2>2. resume(d, a, h) = Dump(0, cp, wr, done \o part(a, <<>>), Len(done), 0, re, No)
    <3>1. done \o part(a, <<>>) = done
      BY <1>2, NoBytes DEF part
    <3>. QED
      BY <1>4, <1>5, <2>1, <3>1
  <2>3. Writes(a, t, <<>>, 0, cp, wr, done, re)
    <3>1. Partial(0, cp, <<>>) /\ t \o <<>> = t /\ done \o <<>> = done
      BY <1>2, <1>3, PartialZero, NoBytes
    <3>. QED
      BY <1>2, <3>1 DEF Writes
  <2>4. DumpAt(resume(d, a, h), a, 0, t, <<>>)
    BY <2>2, <2>3 DEF DumpAt
  <2>. QED
    BY <2>4
<1>7. CASE h = "replace"
  <2> DEFINE x    == replacement(a)
             l    == readFrom(Opened, wr \o done)
             back == Dump(st, cp, wr, done, m, un, re, No)
             far  == farther(re, endOf(Len(done), x))
             new  == done \o x
             g    == Dump(0, cp, wr, new, m, un, far, No)
  <2>1. Inside(l, 0, t)
    BY <1>2
  <2>2. x \in Bytes /\ room(x) <= 7 /\ \E now : Inside(readFrom(l, x), 0, now)
    <3>. HIDE DEF l
    <3>. QED
      BY <2>1, ReadReplacement
  <2>3. PICK now : Inside(readFrom(l, x), 0, now)
    BY <2>2
  <2>4. now \in Bytes
    BY <2>3 DEF Inside
  <2>5. Inside(readFrom(Opened, wr \o new), 0, now) /\ new \in Bytes
    <3> DEFINE w == wr \o done
    <3>1. w \o x = wr \o new /\ w \in Bytes
      <4>. HIDE DEF x
      <4>1. x \in Bytes
        BY <2>2
      <4>2. (wr \o done) \o x = wr \o (done \o x)
        BY <1>2, <4>1, ConcatThree
      <4>3. wr \o done \in Bytes
        BY <1>2, ConcatBytes
      <4>. QED
        BY <4>2, <4>3
    <3>2. l = readFrom(Opened, w)
      OBVIOUS
    <3>3. new \in Bytes
      BY <1>2, <2>2, ConcatBytes
    <3>. HIDE DEF w, l, x, new
    <3>4. readFrom(Opened, w \o x) = readFrom(readFrom(Opened, w), x)
      BY <2>2, <3>1, ReadFromConcat
    <3>. QED
      BY <2>3, <3>1, <3>2, <3>3, <3>4
  <2>6. far \in Nat /\ far <= BufferSize
    <3> DEFINE n == Len(done)
    <3>1. n \in Nat /\ room(x) \in Nat
      BY <1>4, <1>5, <2>2, LenProperties DEF room, Bytes
    <3>2. n + room(x) <= BufferSize
      BY <1>2, <2>2, <3>1, BufferAssumption
    <3>. HIDE DEF n, x
    <3>3. farther(re, endOf(n, x)) \in Nat /\ farther(re, endOf(n, x)) <= BufferSize
      BY <1>2, <2>2, <3>1, <3>2, Farther
    <3>. QED
      BY <3>3 DEF n
  <2>7. resume(d, a, h) = setState(accept(put(back, x)), 0)
    <3>1. resume(d, a, h) =
            setState(accept(put(Dump(st, cp, wr, SubSeq(by, 1, m), m, un, re, No), replacement(a))), 0)
      BY <1>5, <1>7, ResumeDump
    <3>. QED
      BY <1>4, <3>1
  <2>8. put(back, x) = Dump(st, cp, wr, new, m, un, far, No)
    <3>1. back = Dump(st, cp, wr, done, m, un, re, No)
      OBVIOUS
    <3>. HIDE DEF back, x
    <3>. QED
      BY <3>1, PutDump
  <2>9. setState(accept(put(back, x)), 0) = accept(g)
    <3>1. g = Dump(0, cp, wr, new, m, un, far, No)
      OBVIOUS
    <3> DEFINE f == put(back, x)
    <3>2. f = Dump(st, cp, wr, new, m, un, far, No)
      BY <2>8
    <3>. HIDE DEF f, g, new, far, back, x
    <3>3. setState(accept(f), 0) = accept(g)
      BY <3>1, <3>2, AcceptState
    <3>. QED
      BY <3>3 DEF f
  <2>10. DumpAt(accept(g), a, 0, now, <<>>)
    <3>1. g = Dump(0, cp, wr, new, m, un, far, No)
      OBVIOUS
    <3>. HIDE DEF g, new, far
    <3>. QED
      BY <1>2, <1>3, <2>4, <2>5, <2>6, <3>1, AcceptedAt
  <2>. QED
    BY <2>7, <2>9, <2>10
<1>. QED
  BY <1>6, <1>7

-----------------------------------------------------------------------------
(* dump_escaped, for all bytes of a string.                                *)

(* Thrown, or all that has been written is read back: with the strict      *)
(* handler as the bytes that were dumped.                                  *)
DumpsTo(d, a, h, s) ==
  \/ d.thrown /\ d.reach <= BufferSize
  \/ /\ ~d.thrown
     /\ \E t, p, st : DumpAt(d, a, st, t, p) /\ (h = "strict" => t \o p = s)

LEMMA DumpAtFields ==
  ASSUME NEW d, NEW a, NEW st, NEW t, NEW p, DumpAt(d, a, st, t, p)
  PROVE  ~d.thrown /\ d.state = st /\ d.reach \in Nat /\ d.reach <= BufferSize
<1>1. PICK cp, wr, done, un, re :
        /\ d = Dump(st, cp, wr, done \o part(a, p), Len(done), un, re, No)
        /\ Writes(a, t, p, st, cp, wr, done, re)
  BY DEF DumpAt
<1>2. d.thrown = No /\ d.state = st /\ d.reach = re
  BY <1>1, DumpRead
<1>3. ~d.thrown
  BY <1>2, Zenon DEF No
<1>4. re \in Nat /\ re <= BufferSize
  BY <1>1 DEF Writes
<1>. QED
  BY <1>2, <1>3, <1>4

LEMMA ThrownFields ==
  ASSUME NEW d, NEW a, NEW st, NEW t, NEW p, DumpAt(d, a, st, t, p)
  PROVE  setThrown(d, TRUE).thrown /\ setThrown(d, TRUE).reach = d.reach
<1>1. PICK cp, wr, by, ac, un, re : d = Dump(st, cp, wr, by, ac, un, re, No)
  BY DEF DumpAt
<1>2. DOMAIN d = {"state", "codepoint", "written", "bytes", "accepted", "undumped", "reach", "thrown"}
  BY <1>1 DEF Dump
<1>. QED
  BY <1>2 DEF setThrown

LEMMA RejectedAt ==
  ASSUME NEW a, NEW h, NEW t, NEW p, NEW st, NEW d, DumpAt(d, a, st, t, p), NEW b \in Byte, h # "strict"
  PROVE  \E now, rest, to : DumpAt(dumpRejected(d, b, a, h), a, to, now, rest)
<1> DEFINE r == resume(d, a, h)
           x == dumpRejected(d, b, a, h)
<1>1. PICK now : DumpAt(r, a, 0, now, <<>>)
  BY ResumeAt
<1>2. r.state = 0
  BY <1>1, DumpAtFields
<1>3. r = resume(d, a, h)
  OBVIOUS
<1>4. \/ x = r
      \/ decodeState(r.state, b) # 1 /\ x = dumpDecoded(r, b, a)
      \/ x = resume(r, a, h)
  <2>. HIDE DEF r
  <2>. QED
    BY <1>3, DumpRejectedResumes
<1>. HIDE DEF r, x
<1>5. CASE x = r
  BY <1>1, <1>5 DEF x
<1>6. CASE decodeState(r.state, b) # 1 /\ x = dumpDecoded(r, b, a)
  <2> DEFINE next == decodeState(0, b)
  <2>1. next # 1 /\ next = decodeState(0, b)
    BY <1>2, <1>6
  <2>. HIDE DEF next
  <2>2. \E all, rest : DumpAt(dumpDecoded(r, b, a), a, next, all, rest)
    BY <1>1, <2>1, DecodedAt
  <2>. QED
    BY <1>6, <2>2 DEF x
<1>7. CASE x = resume(r, a, h)
  <2>1. \E all : DumpAt(resume(r, a, h), a, 0, all, <<>>)
    BY <1>1, ResumeAt
  <2>. QED
    BY <1>7, <2>1 DEF x
<1>. QED
  BY <1>4, <1>5, <1>6, <1>7

LEMMA DumpByteAt ==
  ASSUME NEW d, NEW a, NEW h, NEW s \in Bytes, DumpsTo(d, a, h, s), NEW b \in Byte
  PROVE  DumpsTo(dumpByte(d, b, a, h), a, h, Append(s, b))
<1>1. CASE d.thrown
  <2>1. dumpByte(d, b, a, h) = d
    BY <1>1, DumpByteCases
  <2>. QED
    BY <1>1, <2>1 DEF DumpsTo
<1>2. CASE ~d.thrown
  <2>1. PICK t, p, st : DumpAt(d, a, st, t, p) /\ (h = "strict" => t \o p = s)
    BY <1>2 DEF DumpsTo
  <2>2. d.state = st /\ d.reach <= BufferSize
    BY <2>1, DumpAtFields
  <2>3. CASE decodeState(st, b) # 1
    <3>1. dumpByte(d, b, a, h) = dumpDecoded(d, b, a)
      BY <1>2, <2>2, <2>3, DumpByteCases
    <3> DEFINE next == decodeState(st, b)
    <3>2. next = decodeState(st, b) /\ next # 1
      BY <2>3
    <3>. HIDE DEF next
    <3>3. PICK now, rest : /\ DumpAt(dumpDecoded(d, b, a), a, next, now, rest)
                           /\ now \o rest = Append(t \o p, b)
      BY <2>1, <3>2, DecodedAt
    <3>4. ~dumpDecoded(d, b, a).thrown
      BY <3>3, DumpAtFields
    <3>5. h = "strict" => now \o rest = Append(s, b)
      BY <2>1, <3>3
    <3>. QED
      BY <3>1, <3>3, <3>4, <3>5 DEF DumpsTo
  <2>4. CASE decodeState(st, b) = 1
    <3>1. dumpByte(d, b, a, h) = dumpRejected(d, b, a, h)
      BY <1>2, <2>2, <2>4, DumpByteCases
    <3>2. CASE h = "strict"
      <4>1. dumpRejected(d, b, a, h) = setThrown(d, TRUE)
        BY <3>2, DumpRejectedThrows
      <4>2. setThrown(d, TRUE).thrown /\ setThrown(d, TRUE).reach = d.reach
        BY <2>1, ThrownFields
      <4>. QED
        BY <2>2, <3>1, <4>1, <4>2 DEF DumpsTo
    <3>3. CASE h # "strict"
      <4>1. PICK now, rest, to : DumpAt(dumpRejected(d, b, a, h), a, to, now, rest)
        BY <2>1, <3>3, RejectedAt
      <4>2. ~dumpRejected(d, b, a, h).thrown
        BY <4>1, DumpAtFields
      <4>. QED
        BY <3>1, <3>3, <4>1, <4>2 DEF DumpsTo
    <3>. QED
      BY <3>2, <3>3
  <2>. QED
    BY <2>3, <2>4
<1>. QED
  BY <1>1, <1>2

LEMMA StringsBegin ==
  Inside(Opened, 0, <<>>) /\ Inside(go(reset, "string"), 0, <<>>)
<1>1. reset = Lexer("start", <<>>, <<>>, 0, 0, 0)
  BY DEF reset, Lexer, Fields, NoToken, No
<1> DEFINE l == go(reset, "text")
<1>2. l = Lexer("text", <<>>, <<>>, 0, 0, 0) /\ go(reset, "string") = Lexer("string", <<>>, <<>>, 0, 0, 0)
  BY <1>1, LexerGo
<1>. HIDE DEF l
<1>3. l.at = "text"
  BY <1>2, LexerFields
<1>4. get(l, Quote) = go(go(l, "start"), "string")
  BY <1>3, GetCases, ScanQuote
<1>5. go(l, "start") = Lexer("start", <<>>, <<>>, 0, 0, 0)
  BY <1>2, LexerGo
<1>6. go(go(l, "start"), "string") = Lexer("string", <<>>, <<>>, 0, 0, 0)
  BY <1>5, LexerGo
<1>7. Opened = Lexer("string", <<>>, <<>>, 0, 0, 0)
  BY <1>4, <1>6 DEF Opened, l
<1>. QED
  BY <1>2, <1>7, NoBytes DEF Inside, where

LEMMA EmptyDumpsTo ==
  ASSUME NEW a, NEW h
  PROVE  DumpsTo(emptyDump, a, h, <<>>)
<1>1. emptyDump = Dump(0, 0, <<>>, <<>>, 0, 0, 0, No)
  BY DEF emptyDump, Dump, No, UTF8_ACCEPT
<1>2. /\ <<>> \o <<>> = <<>> /\ <<>> \in Bytes /\ Len(<<>>) = 0 /\ 0 \in Nat /\ 0 <= BufferSize - 13
      /\ 0 <= BufferSize /\ part(a, <<>>) = <<>>
  BY NoBytes, BufferAssumption DEF part
<1>3. Inside(readFrom(Opened, <<>> \o <<>>), 0, <<>>)
  BY <1>2, StringsBegin, ReadFromEmpty
<1>4. Writes(a, <<>>, <<>>, 0, 0, <<>>, <<>>, 0)
  BY <1>2, <1>3, PartialZero DEF Writes
<1>5. DumpAt(emptyDump, a, 0, <<>>, <<>>)
  <2>1. emptyDump = Dump(0, 0, <<>>, <<>> \o part(a, <<>>), Len(<<>>), 0, 0, No)
    BY <1>1, <1>2
  <2>. QED
    BY <1>4, <2>1 DEF DumpAt
<1>6. ~emptyDump.thrown
  BY <1>5, DumpAtFields
<1>. QED
  BY <1>2, <1>5, <1>6 DEF DumpsTo

LEMMA DumpedAt ==
  ASSUME NEW a, NEW h, NEW s \in Bytes
  PROVE  DumpsTo(dumped(s, a, h), a, h, s)
<1> DEFINE T == {n \in Nat : \A r \in Bytes : Len(r) = n => DumpsTo(dumped(r, a, h), a, h, r)}
<1>1. 0 \in T
  <2>1. ASSUME NEW r \in Bytes, Len(r) = 0 PROVE DumpsTo(dumped(r, a, h), a, h, r)
    <3>1. r = <<>>
      BY <2>1, EmptySeq DEF Bytes
    <3>. QED
      BY <3>1, DumpedEmpty, EmptyDumpsTo
  <2>. QED
    BY <2>1
<1>2. ASSUME NEW n \in Nat, n \in T PROVE n + 1 \in T
  <2>1. ASSUME NEW r \in Bytes, Len(r) = n + 1 PROVE DumpsTo(dumped(r, a, h), a, h, r)
    <3>1. r # <<>>
      BY <2>1, EmptySeq DEF Bytes
    <3>2. PICK front \in Bytes, last \in Byte : r = Append(front, last) /\ Len(r) = Len(front) + 1
      BY <3>1, SplitLast
    <3>3. Len(front) = n
      BY <2>1, <3>2, LenProperties DEF Bytes
    <3>4. DumpsTo(dumped(front, a, h), a, h, front)
      BY <1>2, <3>3
    <3>5. dumped(r, a, h) = dumpByte(dumped(front, a, h), last, a, h)
      BY <3>2, DumpedAppend
    <3>. QED
      BY <3>2, <3>4, <3>5, DumpByteAt
  <2>. QED
    BY <2>1
<1> HIDE DEF T
<1>3. \A n \in Nat : n \in T
  BY <1>1, <1>2, SetInduction
<1>4. Len(s) \in T
  BY <1>3, LenProperties DEF Bytes
<1>. QED
  BY <1>4 DEF T

-----------------------------------------------------------------------------
(* A string that has been dumped, between its quotes, is one token.        *)

LEMMA ReadQuoted ==
  ASSUME NEW w \in Bytes
  PROVE  readFrom(go(reset, "text"), <<Quote>> \o w \o <<Quote>>) = get(readFrom(Opened, w), Quote)
<1> DEFINE l == readFrom(Opened, w)
           o == go(reset, "text")
           q == <<Quote>>
           x == q \o w
<1>1. q \in Bytes /\ Quote \in Byte
  BY DEF Quote, Byte, Bytes
<1>2. x \in Bytes
  BY <1>1, ConcatBytes
<1>3. readFrom(o, q) = Opened
  <2>. HIDE DEF o
  <2>1. readFrom(o, q) = get(o, Quote)
    BY <1>1, ReadFromOne
  <2>. QED
    BY <2>1 DEF Opened, o
<1>. HIDE DEF o, q
<1>4. readFrom(o, q \o w) = readFrom(readFrom(o, q), w)
  BY <1>1, ReadFromConcat
<1>5. readFrom(o, x) = l
  BY <1>3, <1>4
<1>. HIDE DEF x
<1>6. readFrom(o, x \o q) = readFrom(readFrom(o, x), q)
  BY <1>1, <1>2, ReadFromConcat
<1>. HIDE DEF l
<1>7. readFrom(l, q) = get(l, Quote)
  BY <1>1, ReadFromOne DEF q
<1>. QED
  BY <1>5, <1>6, <1>7 DEF x, l, o, q

LEMMA ScannedBack ==
  ASSUME NEW w \in Bytes, NEW t, Inside(readFrom(Opened, w), 0, t)
  PROVE  scanned(w).type = "value_string" /\ scanned(w).buffer = t
<1> DEFINE l == readFrom(Opened, w)
           k == token(l, "value_string")
<1>1. scanned(w) = get(get(l, Quote), Eof)
  BY ReadQuoted DEF scanned, firstToken
<1>2. PICK r, d, v : l = Lexer("string", t, r, d, v, 0)
  BY DEF Inside, where
<1>. HIDE DEF l
<1>3. get(l, Quote) = k
  <2>1. l.at = "string"
    BY <1>2, LexerFields
  <2>2. get(l, Quote) = scan_string(l, Quote)
    BY <2>1, GetInString
  <2>3. Quote \in Byte
    BY DEF Quote, Byte
  <2>. QED
    BY <2>2, <2>3, ScanString
<1>4. k.at = "token" /\ k.type = "value_string" /\ k.buffer = t
  BY <1>2, LexerToken
<1>. HIDE DEF k
<1>5. get(k, Eof) = k
  BY <1>4, GetCases
<1>. QED
  BY <1>1, <1>3, <1>4, <1>5

LEMMA DumpEndWrites ==
  ASSUME NEW st, NEW cp, NEW wr, NEW by, NEW ac, NEW un, NEW re, NEW x,
         NEW d, d = Dump(st, cp, wr, by, ac, un, re, No)
  PROVE  setWritten(d, x).written = x /\ setWritten(d, x).reach = re /\ ~setWritten(d, x).thrown
<1> DEFINE e == setWritten(d, x)
<1>1. e = Dump(st, cp, x, by, ac, un, re, No)
  BY DumpWritten
<1>. HIDE DEF e
<1>2. e.written = x /\ e.reach = re /\ e.thrown = No
  BY <1>1, DumpRead
<1>3. ~e.thrown
  BY <1>2, Zenon DEF No
<1>. QED
  BY <1>2, <1>3 DEF e

(* The characters of the buffer that are still to be written.              *)
LEMMA EndsAt ==
  ASSUME NEW a, NEW h, NEW t, NEW p, NEW st, NEW d, DumpAt(d, a, st, t, p)
  PROVE  LET e == dumpEnd(d, a, h)
         IN  /\ e.reach <= BufferSize
             /\ ~e.thrown => \E w, now : /\ w \in Bytes
                                         /\ e.written = w
                                         /\ Inside(readFrom(Opened, w), 0, now)
                                         /\ h = "strict" => now = t \o p
             /\ h = "strict" => (e.thrown <=> st # 0)
<1> DEFINE e == dumpEnd(d, a, h)
<1>1. PICK cp, wr, done, un, re :
        /\ d = Dump(st, cp, wr, done \o part(a, p), Len(done), un, re, No)
        /\ Writes(a, t, p, st, cp, wr, done, re)
  BY DEF DumpAt
<1>2. /\ Partial(st, cp, p) /\ t \in Bytes /\ wr \in Bytes /\ done \in Bytes
      /\ re \in Nat /\ re <= BufferSize /\ Inside(readFrom(Opened, wr \o done), 0, t)
  BY <1>1 DEF Writes
<1>3. part(a, p) \in Bytes /\ (st = 0 => p = <<>>)
  BY <1>2, PartialFields, PartBytes
<1> DEFINE by == done \o part(a, p)
           m  == Len(done)
<1>4. SubSeq(by, 1, m) = done /\ m \in Nat
  BY <1>2, <1>3, ConcatBytes
<1>5. d = Dump(st, cp, wr, by, m, un, re, No)
  BY <1>1
<1>6. ~d.thrown
  BY DumpAtFields
<1>7. wr \o done \in Bytes
  BY <1>2, ConcatBytes
<1>8. st = 0 => by = done
  BY <1>2, <1>3, NoBytes DEF part
<1>. HIDE DEF by, m
<1>9. d.state = st /\ d.written = wr /\ d.bytes = by /\ d.accepted = m /\ d.reach = re
  BY <1>5, DumpRead
<1>10. CASE st = 0
  <2> DEFINE w == wr \o done
  <2>1. e = setWritten(d, w)
    <3> DEFINE x == IF h = "ignore" THEN <<>> ELSE replacement(a)
    <3>1. x = IF h = "ignore" THEN <<>> ELSE replacement(a)
      OBVIOUS
    <3>. HIDE DEF x
    <3>2. dumpEnd(d, a, h) = setWritten(d, d.written \o d.bytes)
      BY <1>6, <1>9, <1>10, <3>1, DumpEndCases
    <3>. QED
      BY <1>8, <1>9, <1>10, <3>2
  <2>2. w \in Bytes /\ Inside(readFrom(Opened, w), 0, t)
    BY <1>2, <1>7
  <2>3. t = t \o p
    BY <1>2, <1>3, <1>10, NoBytes
  <2>. HIDE DEF w, e
  <2>4. e.written = w /\ e.reach = re /\ ~e.thrown
    BY <1>5, <2>1, DumpEndWrites
  <2>5. /\ e.reach <= BufferSize
        /\ \E now : e.written = w /\ Inside(readFrom(Opened, w), 0, now) /\ (h = "strict" => now = t \o p)
        /\ ~e.thrown
    BY <1>2, <2>2, <2>3, <2>4
  <2>. QED
    BY <1>10, <2>2, <2>5 DEF e
<1>11. CASE st # 0 /\ h = "strict"
  <2>1. e = setThrown(d, TRUE)
    BY <1>6, <1>9, <1>11, DumpEndThrows
  <2>2. setThrown(d, TRUE).thrown /\ setThrown(d, TRUE).reach = d.reach
    BY ThrownFields
  <2>. QED
    BY <1>2, <1>9, <1>11, <2>1, <2>2
<1>12. CASE st # 0 /\ h # "strict"
  <2> DEFINE x == IF h = "ignore" THEN <<>> ELSE replacement(a)
             l == readFrom(Opened, wr \o done)
             o == wr \o done
             w == o \o x
  <2>1. x \in Bytes /\ \E now : Inside(readFrom(l, x), 0, now)
    <3>1. CASE h = "ignore"
      <4>1. x = <<>>
        BY <3>1
      <4>2. readFrom(l, <<>>) = l /\ <<>> \in Bytes
        BY ReadFromEmpty, NoBytes
      <4>. QED
        BY <1>2, <4>1, <4>2
    <3>2. CASE h # "ignore"
      <4>1. x = replacement(a) /\ Inside(l, 0, t)
        BY <1>2, <3>2
      <4>. HIDE DEF l
      <4>2. replacement(a) \in Bytes /\ \E now : Inside(readFrom(l, replacement(a)), 0, now)
        BY <4>1, ReadReplacement
      <4>. QED
        BY <4>1, <4>2
    <3>. QED
      BY <3>1, <3>2
  <2>2. PICK now : Inside(readFrom(l, x), 0, now)
    BY <2>1
  <2>3. e = setWritten(d, w)
    <3>1. x = IF h = "ignore" THEN <<>> ELSE replacement(a)
      OBVIOUS
    <3>2. o = wr \o done /\ w = o \o x /\ e = dumpEnd(d, a, h)
      OBVIOUS
    <3>. HIDE DEF x, o, w, e
    <3>3. dumpEnd(d, a, h) = setWritten(d, d.written \o SubSeq(d.bytes, 1, d.accepted) \o x)
      BY <1>6, <1>9, <1>12, <3>1, DumpEndCases
    <3>4. d.written \o SubSeq(d.bytes, 1, d.accepted) \o x = w
      BY <1>4, <1>9, <3>2
    <3>. QED
      BY <3>2, <3>3, <3>4
  <2>4. w \in Bytes /\ Inside(readFrom(Opened, w), 0, now)
    <3>1. o \in Bytes /\ l = readFrom(Opened, o)
      BY <1>7
    <3>. HIDE DEF o, l, x
    <3>2. readFrom(Opened, o \o x) = readFrom(readFrom(Opened, o), x) /\ o \o x \in Bytes
      BY <2>1, <3>1, ReadFromConcat, ConcatBytes
    <3>. QED
      BY <2>2, <3>1, <3>2
  <2>. HIDE DEF w, e
  <2>5. e.written = w /\ e.reach = re /\ ~e.thrown
    BY <1>5, <2>3, DumpEndWrites
  <2>. QED
    BY <1>2, <1>12, <2>4, <2>5 DEF e
<1>. QED
  BY <1>10, <1>11, <1>12

(* What dump_escaped makes of any bytes.                                   *)
LEMMA DumpedEnds ==
  ASSUME NEW a, NEW h, NEW s \in Bytes, NEW e, e = dump_escaped(s, a, h)
  PROVE  /\ e.reach <= BufferSize
         /\ ~e.thrown => /\ scanned(e.written).type = "value_string"
                         /\ h = "strict" => scanned(e.written).buffer = s
         /\ h = "strict" => (~e.thrown <=> ~dumped(s, a, h).thrown /\ dumped(s, a, h).state = 0)
<1> DEFINE d == dumped(s, a, h)
<1>1. DumpsTo(d, a, h, s) /\ e = dumpEnd(d, a, h)
  BY DumpedAt DEF dump_escaped
<1>. HIDE DEF d
<1>2. CASE d.thrown
  <2>1. e = d
    <3> DEFINE x == IF h = "ignore" THEN <<>> ELSE replacement(a)
    <3>1. x = IF h = "ignore" THEN <<>> ELSE replacement(a)
      OBVIOUS
    <3>. HIDE DEF x
    <3>2. dumpEnd(d, a, h) = d
      BY <1>2, <3>1, DumpEndCases
    <3>. QED
      BY <1>1, <3>2
  <2>. QED
    BY <1>1, <1>2, <2>1 DEF DumpsTo, d
<1>3. CASE ~d.thrown
  <2>1. PICK t, p, st : DumpAt(d, a, st, t, p) /\ (h = "strict" => t \o p = s)
    BY <1>1, <1>3 DEF DumpsTo
  <2>2. /\ e.reach <= BufferSize
        /\ ~e.thrown => \E w, now : /\ w \in Bytes
                                    /\ e.written = w
                                    /\ Inside(readFrom(Opened, w), 0, now)
                                    /\ h = "strict" => now = t \o p
        /\ h = "strict" => (e.thrown <=> st # 0)
    BY <1>1, <2>1, EndsAt
  <2>3. d.state = st
    BY <2>1, DumpAtFields
  <2>4. ASSUME ~e.thrown
        PROVE  /\ scanned(e.written).type = "value_string"
               /\ h = "strict" => scanned(e.written).buffer = s
    <3>1. PICK w, now : /\ w \in Bytes
                        /\ e.written = w
                        /\ Inside(readFrom(Opened, w), 0, now)
                        /\ h = "strict" => now = t \o p
      BY <2>2, <2>4
    <3>2. scanned(w).type = "value_string" /\ scanned(w).buffer = now
      BY <3>1, ScannedBack
    <3>. QED
      BY <2>1, <3>1, <3>2
  <2>. QED
    BY <1>3, <2>2, <2>3, <2>4 DEF d
<1>. QED
  BY <1>2, <1>3

-----------------------------------------------------------------------------
(* The strings that dump_escaped takes, character by character.            *)

Dumps(s, st) ==
  /\ s \in Bytes
  /\ \A a \in BOOLEAN : ~dumped(s, a, "strict").thrown /\ dumped(s, a, "strict").state = st

LEMMA DumpsNothing == Dumps(<<>>, 0)
<1>1. ~emptyDump.thrown /\ emptyDump.state = 0
  BY DEF emptyDump, UTF8_ACCEPT
<1>. QED
  BY <1>1, DumpedEmpty, NoBytes DEF Dumps

LEMMA DumpsMore ==
  ASSUME NEW s, NEW st, Dumps(s, st), NEW b \in Byte, NEW next, next = decodeState(st, b), next # 1
  PROVE  Dumps(Append(s, b), next)
<1>1. s \in Bytes
  BY DEF Dumps
<1>2. ASSUME NEW a \in BOOLEAN
      PROVE  ~dumped(Append(s, b), a, "strict").thrown /\ dumped(Append(s, b), a, "strict").state = next
  <2> DEFINE d == dumped(s, a, "strict")
  <2>1. ~d.thrown /\ d.state = st /\ DumpsTo(d, a, "strict", s)
    BY <1>1, DumpedAt DEF Dumps
  <2>2. dumped(Append(s, b), a, "strict") = dumpByte(d, b, a, "strict")
    BY <1>1, DumpedAppend
  <2>. HIDE DEF d
  <2>3. PICK t, p, to : DumpAt(d, a, to, t, p)
    BY <2>1 DEF DumpsTo
  <2>4. to = st
    BY <2>1, <2>3, DumpAtFields
  <2>5. dumpByte(d, b, a, "strict") = dumpDecoded(d, b, a)
    BY <2>1, DumpByteCases
  <2>6. PICK now, rest : DumpAt(dumpDecoded(d, b, a), a, next, now, rest)
    BY <2>3, <2>4, DecodedAt
  <2>. QED
    BY <2>2, <2>5, <2>6, DumpAtFields
<1>. QED
  BY <1>1, <1>2, BytesAppend DEF Dumps

LEMMA DumpsLead ==
  ASSUME NEW s, Dumps(s, 0), NEW b \in Byte, leadOf(b) # 1
  PROVE  Dumps(Append(s, b), leadOf(b))
<1>1. decodeState(0, b) = leadOf(b)
  BY FirstBytes
<1>. QED
  BY <1>1, DumpsMore

LEMMA DumpsAscii ==
  ASSUME NEW s, Dumps(s, 0), NEW b \in Byte, b < 128
  PROVE  Dumps(Append(s, b), 0)
<1>1. leadOf(b) = 0
  BY DEF leadOf
<1>. QED
  BY <1>1, DumpsLead

LEMMA DumpsTail ==
  ASSUME NEW s, NEW st \in 2..8, Dumps(s, st), NEW b \in lowest(st)..highest(st)
  PROVE  Dumps(Append(s, b), nextOf(st)) /\ b \in Byte
<1>1. b \in Byte /\ lowest(st) <= b /\ b <= highest(st)
  BY DEF lowest, highest, Byte
<1>2. decodeState(st, b) = nextOf(st)
  BY <1>1, LaterBytes
<1>3. nextOf(st) # 1
  BY DEF nextOf
<1>. QED
  BY <1>1, <1>2, <1>3, DumpsMore

LEMMA AppendTwo ==
  ASSUME NEW s \in Bytes, NEW a \in Byte, NEW b \in Byte
  PROVE  s \o <<a, b>> = Append(Append(s, a), b) /\ <<a, b>> \in Bytes
<1> DEFINE p == <<a>>
           q == Append(s, a)
<1>1. <<a, b>> = Append(p, b)
  OBVIOUS
<1>2. p \in Bytes /\ s \o p = q /\ q \in Bytes
  BY AppendOne, BytesAppend
<1>. HIDE DEF p, q
<1>3. s \o Append(p, b) = Append(s \o p, b) /\ Append(p, b) \in Bytes
  <2>1. p \in Bytes
    BY <1>2
  <2>2. s \o Append(p, b) = Append(s \o p, b)
    BY <2>1, ConcatAppend
  <2>. QED
    BY <2>1, <2>2, BytesAppend
<1>. QED
  BY <1>1, <1>2, <1>3 DEF q

LEMMA AppendThree ==
  ASSUME NEW s \in Bytes, NEW a \in Byte, NEW b \in Byte, NEW c \in Byte
  PROVE  s \o <<a, b, c>> = Append(Append(Append(s, a), b), c) /\ <<a, b, c>> \in Bytes
<1> DEFINE p == <<a, b>>
           q == Append(Append(s, a), b)
<1>1. <<a, b, c>> = Append(p, c)
  OBVIOUS
<1>2. p \in Bytes /\ s \o p = q
  BY AppendTwo
<1>3. q \in Bytes
  BY BytesAppend
<1>. HIDE DEF p, q
<1>4. s \o Append(p, c) = Append(s \o p, c) /\ Append(p, c) \in Bytes
  <2>1. p \in Bytes
    BY <1>2
  <2>2. s \o Append(p, c) = Append(s \o p, c)
    BY <2>1, ConcatAppend
  <2>. QED
    BY <2>1, <2>2, BytesAppend
<1>. QED
  BY <1>1, <1>2, <1>4 DEF q

LEMMA AppendFour ==
  ASSUME NEW s \in Bytes, NEW a \in Byte, NEW b \in Byte, NEW c \in Byte, NEW d \in Byte
  PROVE  /\ s \o <<a, b, c, d>> = Append(Append(Append(Append(s, a), b), c), d)
         /\ <<a, b, c, d>> \in Bytes
<1> DEFINE p == <<a, b, c>>
           q == Append(Append(Append(s, a), b), c)
<1>1. <<a, b, c, d>> = Append(p, d)
  OBVIOUS
<1>2. p \in Bytes /\ s \o p = q
  BY AppendThree
<1>3. q \in Bytes
  BY BytesAppend
<1>. HIDE DEF p, q
<1>4. s \o Append(p, d) = Append(s \o p, d) /\ Append(p, d) \in Bytes
  <2>1. p \in Bytes
    BY <1>2
  <2>2. s \o Append(p, d) = Append(s \o p, d)
    BY <2>1, ConcatAppend
  <2>. QED
    BY <2>1, <2>2, BytesAppend
<1>. QED
  BY <1>1, <1>2, <1>4 DEF q

LEMMA DumpsLastTail ==
  ASSUME NEW s, NEW x \in 0..63, Dumps(s, 2)
  PROVE  Dumps(Append(s, 128 + x), 0) /\ 128 + x \in Byte
<1>1. 128 + x \in lowest(2)..highest(2) /\ nextOf(2) = 0 /\ 2 \in 2..8
  BY SMT DEF lowest, highest, nextOf
<1> DEFINE b == 128 + x
<1>2. b \in lowest(2)..highest(2)
  BY <1>1
<1>. HIDE DEF b
<1>3. Dumps(Append(s, b), nextOf(2)) /\ b \in Byte
  BY <1>1, <1>2, DumpsTail
<1>. QED
  BY <1>1, <1>3 DEF b

LEMMA DumpsThirdTail ==
  ASSUME NEW s, NEW x \in 0..63, NEW y \in 0..63, Dumps(s, 3)
  PROVE  /\ Dumps(Append(Append(s, 128 + x), 128 + y), 0)
         /\ 128 + x \in Byte /\ 128 + y \in Byte
<1>1. 128 + x \in lowest(3)..highest(3) /\ nextOf(3) = 2 /\ 3 \in 2..8
  BY SMT DEF lowest, highest, nextOf
<1> DEFINE b == 128 + x
           q == Append(s, b)
<1>2. b \in lowest(3)..highest(3)
  BY <1>1
<1>. HIDE DEF b
<1>3. Dumps(q, nextOf(3)) /\ b \in Byte
  BY <1>1, <1>2, DumpsTail
<1>4. Dumps(q, 2)
  BY <1>1, <1>3
<1>. HIDE DEF q
<1>5. Dumps(Append(q, 128 + y), 0) /\ 128 + y \in Byte
  BY <1>4, DumpsLastTail
<1>. QED
  BY <1>3, <1>5 DEF b, q

(* The bytes of a code point of each length, in the states of the decoder. *)
LEMMA TwoEncoded ==
  ASSUME NEW cp \in Nat, cp \in 128..LastOfTwo, NEW b, b = 192 + (cp \div 64), NEW x, x = cp % 64
  PROVE  b \in Byte /\ leadOf(b) = 2 /\ x \in 0..63
<1>1. b \in Int /\ b >= 194 /\ b <= 223 /\ x \in 0..63
  BY SMT DEF LastOfTwo
<1>. QED
  BY <1>1 DEF Byte, leadOf

LEMMA ThreeEncoded ==
  ASSUME NEW cp \in Nat, cp > LastOfTwo, cp <= LastOfThree, scalar(cp), NEW st,
         NEW b, b = 224 + ((cp \div 64) \div 64), st = leadOf(b), NEW x, x = (cp \div 64) % 64, NEW y, y = cp % 64
  PROVE  /\ b \in Byte /\ leadOf(b) # 1 /\ st \in 2..8 /\ x \in 0..63 /\ y \in 0..63
         /\ 128 + x \in lowest(st)..highest(st) /\ nextOf(st) = 2
<1>1. cp > 2047 /\ cp <= 65535
  BY SMT DEF LastOfTwo, LastOfThree
<1>2. cp < 55296 \/ cp > 57343
  BY Scalars, SMT
<1>3. /\ b \in Int /\ b >= 224 /\ b <= 239 /\ x \in 0..63 /\ y \in 0..63
      /\ b = 224 => x >= 32
      /\ b = 237 => x <= 31
  BY <1>1, <1>2, SMT
<1>4. b \in Byte
  BY <1>3 DEF Byte
<1>5. CASE b = 224
  <2>1. leadOf(b) = 4
    BY <1>5 DEF leadOf
  <2>. QED
    BY <1>3, <1>4, <1>5, <2>1 DEF lowest, highest, nextOf
<1>6. CASE b = 237
  <2>1. leadOf(b) = 5
    BY <1>6 DEF leadOf
  <2>. QED
    BY <1>3, <1>4, <1>6, <2>1 DEF lowest, highest, nextOf
<1>7. CASE b # 224 /\ b # 237
  <2>1. leadOf(b) = 3
    BY <1>3, <1>7 DEF leadOf
  <2>. QED
    BY <1>3, <1>4, <2>1 DEF lowest, highest, nextOf
<1>. QED
  BY <1>5, <1>6, <1>7

LEMMA FourEncoded ==
  ASSUME NEW cp \in Nat, cp > LastOfThree, scalar(cp), NEW st,
         NEW b, b = 240 + (((cp \div 64) \div 64) \div 64), st = leadOf(b),
         NEW x, x = ((cp \div 64) \div 64) % 64, NEW y, y = (cp \div 64) % 64, NEW z, z = cp % 64
  PROVE  /\ b \in Byte /\ leadOf(b) # 1 /\ st \in 2..8 /\ x \in 0..63 /\ y \in 0..63 /\ z \in 0..63
         /\ 128 + x \in lowest(st)..highest(st) /\ nextOf(st) = 3
<1>1. cp > 65535 /\ cp <= 1114111
  BY Scalars, SMT DEF LastOfThree
<1>2. /\ b \in Int /\ b >= 240 /\ b <= 244 /\ x \in 0..63 /\ y \in 0..63 /\ z \in 0..63
      /\ b = 240 => x >= 16
      /\ b = 244 => x <= 15
  BY <1>1, SMT
<1>3. b \in Byte
  BY <1>2 DEF Byte
<1>4. CASE b = 240
  <2>1. leadOf(b) = 6
    BY <1>4 DEF leadOf
  <2>. QED
    BY <1>2, <1>3, <1>4, <2>1 DEF lowest, highest, nextOf
<1>5. CASE b = 244
  <2>1. leadOf(b) = 8
    BY <1>5 DEF leadOf
  <2>. QED
    BY <1>2, <1>3, <1>5, <2>1 DEF lowest, highest, nextOf
<1>6. CASE b # 240 /\ b # 244
  <2>1. leadOf(b) = 7
    BY <1>2, <1>6 DEF leadOf
  <2>. QED
    BY <1>2, <1>3, <2>1 DEF lowest, highest, nextOf
<1>. QED
  BY <1>4, <1>5, <1>6

(* The lexer's add() of a code point, given as \u, is taken by dump().      *)
LEMMA DumpsEncoded ==
  ASSUME NEW s, Dumps(s, 0), NEW cp, scalar(cp)
  PROVE  Dumps(s \o encode(cp), 0) /\ encode(cp) \in Bytes
<1>. cp \in Nat /\ s \in Bytes
  BY DEF scalar, Dumps
<1>0. LastOfTwo = 2047 /\ LastOfThree = 65535
  BY SMT DEF LastOfTwo, LastOfThree
<1>1. CASE cp < 128
  <2>1. encode(cp) = <<cp>> /\ cp \in Byte
    BY <1>1, EncodeOneCases DEF Byte
  <2>2. s \o <<cp>> = Append(s, cp) /\ <<cp>> \in Bytes
    BY <2>1, AppendOne
  <2>3. Dumps(Append(s, cp), 0)
    BY <1>1, <2>1, DumpsAscii
  <2>. QED
    BY <2>1, <2>2, <2>3
<1>2. CASE cp \in 128..LastOfTwo
  <2> DEFINE b == 192 + (cp \div 64)
             x == cp % 64
  <2>1. encode(cp) = <<b, 128 + x>>
    BY <1>2, EncodeTwoCases
  <2>2. b \in Byte /\ leadOf(b) = 2 /\ x \in 0..63
    BY <1>2, TwoEncoded
  <2>. HIDE DEF b, x
  <2>3. Dumps(Append(s, b), leadOf(b))
    BY <2>2, DumpsLead
  <2>4. Dumps(Append(Append(s, b), 128 + x), 0) /\ 128 + x \in Byte
    BY <2>2, <2>3, DumpsLastTail
  <2> DEFINE bx == 128 + x
  <2>5. bx \in Byte /\ encode(cp) = <<b, bx>> /\ Dumps(Append(Append(s, b), bx), 0)
    BY <2>1, <2>4
  <2>. HIDE DEF bx
  <2>6. s \o <<b, bx>> = Append(Append(s, b), bx) /\ <<b, bx>> \in Bytes
    BY <2>2, <2>5, AppendTwo
  <2>. QED
    BY <2>5, <2>6
<1>3. CASE cp > LastOfTwo /\ cp <= LastOfThree
  <2> DEFINE b == 224 + ((cp \div 64) \div 64)
             x == (cp \div 64) % 64
             y == cp % 64
             st == leadOf(b)
             bx == 128 + x
             by == 128 + y
  <2>1. encode(cp) = <<b, bx, by>>
    BY <1>3, EncodeThreeCases
  <2>2. /\ b \in Byte /\ leadOf(b) # 1 /\ st \in 2..8 /\ x \in 0..63 /\ y \in 0..63
        /\ bx \in lowest(st)..highest(st) /\ nextOf(st) = 2
    BY <1>3, ThreeEncoded
  <2>. HIDE DEF b, x, y, bx
  <2>3. Dumps(Append(s, b), leadOf(b))
    BY <2>2, DumpsLead
  <2>. HIDE DEF st
  <2>4. Dumps(Append(s, b), st)
    BY <2>3 DEF st
  <2>5. Dumps(Append(Append(s, b), bx), nextOf(st)) /\ bx \in Byte
    BY <2>2, <2>4, DumpsTail
  <2>6. Dumps(Append(Append(Append(s, b), bx), 128 + y), 0) /\ 128 + y \in Byte
    BY <2>2, <2>5, DumpsLastTail
  <2>7. by \in Byte /\ Dumps(Append(Append(Append(s, b), bx), by), 0)
    BY <2>6
  <2>. HIDE DEF by
  <2>8. s \o <<b, bx, by>> = Append(Append(Append(s, b), bx), by) /\ <<b, bx, by>> \in Bytes
    BY <2>2, <2>5, <2>7, AppendThree
  <2>. QED
    BY <2>1, <2>7, <2>8
<1>4. CASE cp > LastOfThree
  <2> DEFINE b == 240 + (((cp \div 64) \div 64) \div 64)
             x == ((cp \div 64) \div 64) % 64
             y == (cp \div 64) % 64
             z == cp % 64
             st == leadOf(b)
             bx == 128 + x
             by == 128 + y
             bz == 128 + z
  <2>1. encode(cp) = <<b, bx, by, bz>>
    BY <1>4, EncodeFourCases
  <2>2. /\ b \in Byte /\ leadOf(b) # 1 /\ st \in 2..8 /\ x \in 0..63 /\ y \in 0..63 /\ z \in 0..63
        /\ bx \in lowest(st)..highest(st) /\ nextOf(st) = 3
    BY <1>4, FourEncoded
  <2>. HIDE DEF b, x, y, z, bx
  <2>3. Dumps(Append(s, b), leadOf(b))
    BY <2>2, DumpsLead
  <2>. HIDE DEF st
  <2>4. Dumps(Append(s, b), st)
    BY <2>3 DEF st
  <2> DEFINE q == Append(Append(s, b), bx)
  <2>5. Dumps(q, nextOf(st)) /\ bx \in Byte
    BY <2>2, <2>4, DumpsTail
  <2>6. Dumps(q, 3)
    BY <2>2, <2>5
  <2>. HIDE DEF q
  <2>7. Dumps(Append(Append(q, 128 + y), 128 + z), 0) /\ 128 + y \in Byte /\ 128 + z \in Byte
    BY <2>2, <2>6, DumpsThirdTail
  <2>8. by \in Byte /\ bz \in Byte /\ Dumps(Append(Append(q, by), bz), 0)
    BY <2>7
  <2>. HIDE DEF by, bz
  <2>9. /\ s \o <<b, bx, by, bz>> = Append(Append(Append(Append(s, b), bx), by), bz)
        /\ <<b, bx, by, bz>> \in Bytes
    BY <2>2, <2>5, <2>8, AppendFour
  <2>. QED
    BY <2>1, <2>8, <2>9 DEF q
<1>5. \/ cp < 128 \/ cp \in 128..LastOfTwo \/ (cp > LastOfTwo /\ cp <= LastOfThree) \/ cp > LastOfThree
  BY <1>0, SMT
<1>. QED
  BY <1>1, <1>2, <1>3, <1>4, <1>5

-----------------------------------------------------------------------------
(* The lexer in a string that a peer spells, with any characters.          *)

Char == 0..255 \cup {Eof}

LEMMA Chars ==
  ASSUME NEW c \in Char
  PROVE  c \in Int /\ (c \in Byte \/ c = -1) /\ (c = Eof <=> c = -1)
BY DEF Char, Eof, Byte

LEMMA ScanStringEnd ==
  ASSUME NEW l
  PROVE  scan_string(l, Eof) = error(l)
<1> DEFINE c == Eof
           Q == c = Quote
           E == c = Escape
           C == c \in control
           U == c \in unescaped
           R == ranges(c) # <<>>
<1>1. scan_string(l, c) =
        CASE Q -> token(l, "value_string")
          [] E -> go(l, "escape")
          [] C -> error(l)
          [] U -> add(l, c)
          [] R -> [add(go(l, "utf8"), c) EXCEPT !.rest = ranges(c)]
          [] OTHER -> error(l)
  BY Zenon DEF scan_string
<1>2. ~R
  <2> DEFINE Two == c \in 194..223
             E0  == c = 224
             E1  == c \in (225..239) \ {237}
             ED  == c = 237
             F0  == c = 240
             F1  == c \in 241..243
             F4  == c = 244
  <2>1. ranges(c) =
          CASE Two -> <<Tail80>>
            [] E0 -> <<<<160, 191>>, Tail80>>
            [] E1 -> <<Tail80, Tail80>>
            [] ED -> <<<<128, 159>>, Tail80>>
            [] F0 -> <<<<144, 191>>, Tail80, Tail80>>
            [] F1 -> <<Tail80, Tail80, Tail80>>
            [] F4 -> <<<<128, 143>>, Tail80, Tail80>>
            [] OTHER -> <<>>
    BY Zenon DEF ranges
  <2>2. ~Two /\ ~E0 /\ ~E1 /\ ~ED /\ ~F0 /\ ~F1 /\ ~F4
    BY SMT DEF Eof
  <2> HIDE DEF Two, E0, E1, ED, F0, F1, F4, c
  <2>. QED
    BY <2>1, <2>2, Zenon
<1>3. ~Q /\ ~E /\ ~C /\ ~U
  BY SMT DEF Quote, Escape, control, unescaped, Eof
<1>. HIDE DEF Q, E, C, U, R
<1>. QED
  BY <1>1, <1>2, <1>3, Zenon

(* What may stand where the lexer is not in a string's end or its error.   *)
limit(k) == IF k = 0 THEN 1 ELSE IF k = 1 THEN 16 ELSE IF k = 2 THEN 256 ELSE 4096

HighOrNone(h) == h = 0 \/ h \in HighSurrogates

BehindHigh(l, h, t) ==
  /\ t \in Bytes
  /\ \E at, r, d, v : at \in {"pair", "pair_u"} /\ l = Lexer(at, t, r, d, v, h)

(* What the lexer has read of a string is one that dump() takes.           *)
InCharacter(l) == \E t, st : st \in {0} \cup 2..8 /\ Inside(l, st, t) /\ Dumps(t, st)
InEscape(l)    == \E t : BehindEscape(l, t) /\ Dumps(t, 0)
InHex(l)       == \E t, k, v, h : /\ k \in 0..3 /\ v \in Nat /\ v < limit(k) /\ HighOrNone(h)
                                  /\ InDigits(l, k, v, h, t) /\ Dumps(t, 0)
InPair(l)      == \E t, h : h \in HighSurrogates /\ BehindHigh(l, h, t) /\ Dumps(t, 0)
AtToken(l)     == l.at = "token" /\ (l.type = "value_string" => Dumps(l.buffer, 0))

ScannerAt(l) == InCharacter(l) \/ InEscape(l) \/ InHex(l) \/ InPair(l) \/ AtToken(l)

LEMMA AtError ==
  ASSUME NEW at, NEW t, NEW r, NEW d, NEW v, NEW h, NEW l, l = Lexer(at, t, r, d, v, h)
  PROVE  AtToken(error(l))
BY LexerError DEF AtToken

LEMMA ScanBegin ==
  ASSUME NEW l, NEW t, Inside(l, 0, t), Dumps(t, 0), NEW c \in Char
  PROVE  ScannerAt(get(l, c))
<1>1. PICK r, d, v : l = Lexer("string", t, r, d, v, 0)
  BY DEF Inside, where
<1>2. get(l, c) = scan_string(l, c)
  BY <1>1, LexerFields, GetInString
<1>3. AtToken(error(l))
  BY <1>1, AtError
<1>4. CASE c = Eof
  BY <1>2, <1>3, <1>4, ScanStringEnd DEF ScannerAt
<1>5. CASE c \in Byte
  <2>1. CASE c = Quote
    <3>1. get(l, c) = token(l, "value_string")
      BY <1>2, <1>5, <2>1, ScanString
    <3>2. token(l, "value_string").at = "token" /\ token(l, "value_string").buffer = t
      BY <1>1, LexerToken
    <3>. QED
      BY <3>1, <3>2 DEF AtToken, ScannerAt
  <2>2. CASE c = Escape
    BY <2>2, ReadEscape DEF InEscape, ScannerAt
  <2>3. CASE c \in control
    BY <1>2, <1>3, <1>5, <2>3, ScanString DEF ScannerAt
  <2>4. CASE c \in unescaped
    <3>1. Inside(get(l, c), 0, Append(t, c))
      BY <1>5, <2>4, ReadUnescaped
    <3>2. c < 128
      BY <2>4 DEF unescaped
    <3>3. Dumps(Append(t, c), 0)
      BY <1>5, <3>2, DumpsAscii
    <3>. QED
      BY <3>1, <3>3 DEF InCharacter, ScannerAt
  <2>5. CASE c >= 128 /\ leadOf(c) # 1
    <3> DEFINE st == leadOf(c)
    <3>1. Inside(get(l, c), st, Append(t, c)) /\ Dumps(Append(t, c), st)
      BY <1>5, <2>5, ReadFirstByte, DumpsLead
    <3>2. st \in {0} \cup 2..8
      BY <2>5 DEF leadOf
    <3>. QED
      BY <3>1, <3>2 DEF InCharacter, ScannerAt
  <2>6. CASE c >= 128 /\ leadOf(c) = 1
    BY <1>2, <1>3, <1>5, <2>6, ScanString DEF ScannerAt
  <2>7. c = Quote \/ c = Escape \/ c \in control \/ c \in unescaped \/ c >= 128
    BY <1>5 DEF Byte, Quote, Escape, control, unescaped
  <2>. QED
    BY <2>1, <2>2, <2>3, <2>4, <2>5, <2>6, <2>7
<1>. QED
  BY <1>4, <1>5, Chars

Refused(l) == l.at = "token" /\ l.type = "parse_error"

(* A character that is not one of those expected inside a character.       *)
LEMMA ScanOutside ==
  ASSUME NEW st \in 2..8, NEW l, NEW t, Inside(l, st, t), NEW c \in Int, c \notin lowest(st)..highest(st)
  PROVE  Refused(get(l, c))
<1>1. PICK r, d, v : l = Lexer("utf8", t, r, d, v, 0) /\ r = expected(st)
  BY DEF Inside, where
<1>2. l.at = "utf8" /\ l.rest = expected(st)
  <2>1. l.at = "utf8" /\ l.rest = r
    BY <1>1, LexerFields
  <2>. QED
    BY <1>1, <2>1
<1>3. get(l, c) = next_byte_in_range(l, c)
  BY <1>2, GetInString
<1>4. ~(l.rest[1][1] <= c /\ c <= l.rest[1][2])
  <2>1. l.rest[1][1] = lowest(st) /\ l.rest[1][2] = highest(st)
    BY <1>2, ExpectedNext
  <2>2. ~(lowest(st) <= c /\ c <= highest(st))
    BY DEF lowest, highest
  <2>. QED
    BY <2>1, <2>2
<1>5. next_byte_in_range(l, c) = error(l)
  BY <1>4, Zenon DEF next_byte_in_range
<1>6. Refused(error(l))
  BY <1>1, LexerError DEF Refused
<1>. QED
  BY <1>3, <1>5, <1>6

LEMMA ScanInside ==
  ASSUME NEW l, NEW t, NEW st \in 2..8, Inside(l, st, t), Dumps(t, st), NEW c \in Char
  PROVE  ScannerAt(get(l, c))
<1>1. CASE c \in lowest(st)..highest(st)
  <2>1. Inside(get(l, c), nextOf(st), Append(t, c)) /\ Dumps(Append(t, c), nextOf(st))
    BY <1>1, ReadNextByte, DumpsTail
  <2>2. nextOf(st) \in {0} \cup 2..8
    BY DEF nextOf
  <2>. QED
    BY <2>1, <2>2 DEF InCharacter, ScannerAt
<1>2. CASE c \notin lowest(st)..highest(st)
  <2>1. c \in Int
    BY Chars
  <2>2. Refused(get(l, c)) /\ "parse_error" # "value_string"
    BY <1>2, <2>1, ScanOutside
  <2>. QED
    BY <2>2 DEF Refused, AtToken, ScannerAt
<1>. QED
  BY <1>1, <1>2

LEMMA SimpleEscapes ==
  ASSUME NEW c, c \in DOMAIN simpleEscape
  PROVE  simpleEscape[c] \in Byte /\ simpleEscape[c] < 128
<1>1. c \in {34, 92, 47, 98, 102, 110, 114, 116}
  BY DEF simpleEscape
<1>2. simpleEscape[c] = IF c = 98 THEN 8 ELSE IF c = 102 THEN 12 ELSE IF c = 110 THEN 10
                        ELSE IF c = 114 THEN 13 ELSE IF c = 116 THEN 9 ELSE c
  BY <1>1 DEF simpleEscape
<1>. QED
  BY <1>1, <1>2 DEF Byte

LEMMA ScanEscape ==
  ASSUME NEW l, NEW t, BehindEscape(l, t), Dumps(t, 0), NEW c \in Char
  PROVE  ScannerAt(get(l, c))
<1>1. CASE c \in DOMAIN simpleEscape
  <2>1. simpleEscape[c] \in Byte /\ simpleEscape[c] < 128
    BY <1>1, SimpleEscapes
  <2> DEFINE x == simpleEscape[c]
  <2>2. Inside(get(l, c), 0, Append(t, x)) /\ Dumps(Append(t, x), 0)
    BY <1>1, <2>1, ReadShortEscape, DumpsAscii
  <2>. QED
    BY <2>2 DEF InCharacter, ScannerAt
<1>2. CASE c = LowerU
  <2>1. InDigits(get(l, c), 0, 0, 0, t)
    BY <1>2, ReadLowerU
  <2>2. 0 \in 0..3 /\ 0 \in Nat /\ 0 < limit(0) /\ HighOrNone(0)
    BY DEF limit, HighOrNone
  <2>. QED
    BY <2>1, <2>2 DEF InHex, ScannerAt
<1>3. CASE c \notin DOMAIN simpleEscape /\ c # LowerU
  <2>1. PICK r, d, v : l = Lexer("escape", t, r, d, v, 0)
    BY DEF BehindEscape
  <2>2. get(l, c) = escape(l, c)
    BY <2>1, LexerFields, GetInString
  <2>3. get(l, c) = error(l)
    BY <1>3, <2>2, EscapeCases
  <2>4. AtToken(error(l))
    BY <2>1, AtError
  <2>. QED
    BY <2>3, <2>4 DEF ScannerAt
<1>. QED
  BY <1>1, <1>2, <1>3

LEMMA ScanPair ==
  ASSUME NEW l, NEW t, NEW h \in HighSurrogates, BehindHigh(l, h, t), Dumps(t, 0), NEW c \in Char
  PROVE  ScannerAt(get(l, c))
<1>1. PICK at, r, d, v : at \in {"pair", "pair_u"} /\ l = Lexer(at, t, r, d, v, h)
  BY DEF BehindHigh
<1>2. l.at = at /\ t \in Bytes
  BY <1>1, LexerFields DEF BehindHigh
<1>3. AtToken(error(l))
  BY <1>1, AtError
<1>4. CASE at = "pair"
  <2>1. get(l, c) = pair(l, c)
    BY <1>2, <1>4, GetInString
  <2>2. CASE c = Escape
    <3>1. get(l, c) = go(l, "pair_u")
      BY <2>1, <2>2, PairCases
    <3>2. go(l, "pair_u") = Lexer("pair_u", t, r, d, v, h)
      BY <1>1, LexerGo
    <3>3. BehindHigh(get(l, c), h, t)
      BY <1>2, <3>1, <3>2 DEF BehindHigh
    <3>. QED
      BY <3>3 DEF InPair, ScannerAt
  <2>3. CASE c # Escape
    BY <1>3, <2>1, <2>3, PairCases DEF ScannerAt
  <2>. QED
    BY <2>2, <2>3
<1>5. CASE at = "pair_u"
  <2>1. get(l, c) = pairU(l, c)
    BY <1>2, <1>5, GetInString
  <2>2. CASE c = LowerU
    <3>1. get(l, c) = toHex(l)
      BY <2>1, <2>2, PairCases
    <3>2. toHex(l) = Lexer("hex", t, r, 0, 0, h)
      BY <1>1, LexerHex
    <3>3. InDigits(get(l, c), 0, 0, h, t)
      BY <1>2, <3>1, <3>2 DEF InDigits
    <3>4. 0 \in 0..3 /\ 0 \in Nat /\ 0 < limit(0) /\ HighOrNone(h)
      BY DEF limit, HighOrNone
    <3>. QED
      BY <3>3, <3>4 DEF InHex, ScannerAt
  <2>3. CASE c # LowerU
    BY <1>3, <2>1, <2>3, PairCases DEF ScannerAt
  <2>. QED
    BY <2>2, <2>3
<1>. QED
  BY <1>1, <1>4, <1>5

LEMMA HexValue ==
  ASSUME NEW c \in Char, NEW n, n = hexDigit(c)
  PROVE  n = -1 \/ n \in 0..15
<1>1. c \in Int
  BY Chars
<1>. QED
  BY <1>1 DEF hexDigit, Digit

(* The code point of a surrogate pair.                                     *)
LEMMA PairedScalar ==
  ASSUME NEW h, h \in HighSurrogates, NEW w, w \in LowSurrogates
  PROVE  scalar(paired(h, w))
<1>1. h \in Int /\ w \in Int
  BY SMT DEF HighSurrogates, LowSurrogates
<1>2. 55296 <= h /\ h <= 56319 /\ 56320 <= w /\ w <= 57343
  BY <1>1, Surrogates, SMT
<1> DEFINE p == paired(h, w)
<1>3. p = 65536 + (h - 55296) * 1024 + w - 56320
  BY SMT DEF paired
<1>4. p \in Int /\ 65536 <= p /\ p <= 1114111
  BY <1>1, <1>2, <1>3, SMT
<1>. HIDE DEF p
<1>5. scalar(p)
  BY <1>4, Scalars, SMT
<1>. QED
  BY <1>5 DEF p

LEMMA ScanHex ==
  ASSUME NEW l, NEW t, NEW k \in 0..3, NEW v \in Nat, v < limit(k), NEW h, HighOrNone(h),
         InDigits(l, k, v, h, t), Dumps(t, 0), NEW c \in Char
  PROVE  ScannerAt(get(l, c))
<1> DEFINE n  == hexDigit(c)
           cp == v * 16 + n
<1>1. PICK r : l = Lexer("hex", t, r, k, v, h)
  BY DEF InDigits
<1>2. l.at = "hex" /\ l.digits = k /\ l.codepoint = v /\ l.high = h /\ t \in Bytes
  BY <1>1, LexerFields DEF InDigits
<1>3. get(l, c) = get_codepoint(l, c)
  BY <1>2, GetInString
<1>4. AtToken(error(l))
  BY <1>1, AtError
<1>5. n = -1 \/ n \in 0..15
  BY HexValue
<1>6. /\ n = -1 => get_codepoint(l, c) = error(l)
      /\ n # -1 /\ k < 3 => get_codepoint(l, c) = setDigit(l, cp)
      /\ n # -1 /\ ~(k < 3) => get_codepoint(l, c) = surrogates(l, cp)
  <2>1. n = hexDigit(c) /\ cp = l.codepoint * 16 + n
    BY <1>2
  <2>. HIDE DEF n, cp
  <2>2. /\ n = -1 => get_codepoint(l, c) = error(l)
        /\ n # -1 /\ l.digits < 3 => get_codepoint(l, c) = setDigit(l, cp)
        /\ n # -1 /\ ~(l.digits < 3) => get_codepoint(l, c) = surrogates(l, cp)
    BY <2>1, CodepointCases
  <2>. QED
    BY <1>2, <2>2
<1>7. n # -1 => cp \in Nat
  BY <1>5
<1>8. CASE n = -1
  BY <1>3, <1>4, <1>6, <1>8 DEF ScannerAt
<1>9. CASE n # -1 /\ k < 3
  <2>1. cp < limit(k + 1) /\ k + 1 \in 0..3 /\ cp \in Nat
    BY <1>5, <1>7, <1>9 DEF limit
  <2>. HIDE DEF n, cp
  <2>2. setDigit(l, cp) = Lexer("hex", t, r, k + 1, cp, h)
    BY <1>1, LexerDigit
  <2>3. InDigits(get(l, c), k + 1, cp, h, t)
    BY <1>2, <1>3, <1>6, <1>9, <2>2 DEF InDigits
  <2>. QED
    BY <2>1, <2>3 DEF InHex, ScannerAt
<1>10. CASE n # -1 /\ ~(k < 3)
  <2>1. cp \in Nat /\ cp < 65536
    BY <1>5, <1>7, <1>10, SMT DEF limit
  <2>2. get(l, c) = surrogates(l, cp)
    BY <1>3, <1>6, <1>10
  <2>. HIDE DEF n, cp
  <2>3. CASE h = 0
    <3>1. TRUE = (l.high = 0)
      BY <1>2, <2>3
    <3>2. CASE cp \in HighSurrogates
      <4>1. surrogates(l, cp) = setPair(l, cp)
        BY <3>1, <3>2, SurrogateCases
      <4>2. setPair(l, cp) = Lexer("pair", t, r, k, v, cp)
        BY <1>1, LexerPair
      <4>3. BehindHigh(get(l, c), cp, t)
        BY <1>2, <2>2, <4>1, <4>2 DEF BehindHigh
      <4>. QED
        BY <3>2, <4>3 DEF InPair, ScannerAt
    <3>3. CASE cp \notin HighSurrogates /\ cp \in LowSurrogates
      <4>1. surrogates(l, cp) = error(l)
        BY <3>1, <3>3, SurrogateCases
      <4>. QED
        BY <1>4, <2>2, <4>1 DEF ScannerAt
    <3>4. CASE cp \notin HighSurrogates /\ cp \notin LowSurrogates
      <4>1. surrogates(l, cp) = addCodepoint(l, cp)
        BY <3>1, <3>4, SurrogateCases
      <4>2. scalar(cp)
        BY <2>1, <3>4, SMT DEF scalar
      <4>3. Dumps(t \o encode(cp), 0) /\ encode(cp) \in Bytes
        BY <4>2, DumpsEncoded
      <4>4. Inside(addCodepoint(l, cp), 0, t \o encode(cp))
        BY <1>1, <1>2, <4>3, ReadCodepoint
      <4>. QED
        BY <2>2, <4>1, <4>3, <4>4 DEF InCharacter, ScannerAt
    <3>. QED
      BY <3>2, <3>3, <3>4
  <2>4. CASE h # 0
    <3>1. FALSE = (l.high = 0)
      BY <1>2, <2>4
    <3>2. h \in HighSurrogates
      BY <2>4 DEF HighOrNone
    <3>3. CASE cp \in LowSurrogates
      <4> DEFINE p == paired(h, cp)
      <4>1. surrogates(l, cp) = addCodepoint(l, p)
        <5>1. surrogates(l, cp) = addCodepoint(l, paired(l.high, cp))
          BY <3>1, <3>3, SurrogateCases
        <5>. QED
          BY <1>2, <5>1
      <4>2. scalar(p)
        BY <3>2, <3>3, PairedScalar
      <4>. HIDE DEF p
      <4>3. Dumps(t \o encode(p), 0) /\ encode(p) \in Bytes
        BY <4>2, DumpsEncoded
      <4>4. Inside(addCodepoint(l, p), 0, t \o encode(p))
        BY <1>1, <1>2, <4>3, ReadCodepoint
      <4>. QED
        BY <2>2, <4>1, <4>3, <4>4 DEF InCharacter, ScannerAt
    <3>4. CASE cp \notin LowSurrogates
      <4>1. surrogates(l, cp) = error(l)
        BY <3>1, <3>4, SurrogateCases
      <4>. QED
        BY <1>4, <2>2, <4>1 DEF ScannerAt
    <3>. QED
      BY <3>3, <3>4
  <2>. QED
    BY <2>3, <2>4
<1>. QED
  BY <1>8, <1>9, <1>10

(* Whatever character the lexer is given in a string.                      *)
LEMMA ScannerGets ==
  ASSUME NEW l, ScannerAt(l), NEW c \in Char
  PROVE  ScannerAt(get(l, c))
<1>1. CASE InCharacter(l)
  <2>1. PICK t, st : st \in {0} \cup 2..8 /\ Inside(l, st, t) /\ Dumps(t, st)
    BY <1>1 DEF InCharacter
  <2>2. CASE st = 0
    BY <2>1, <2>2, ScanBegin
  <2>3. CASE st \in 2..8
    BY <2>1, <2>3, ScanInside
  <2>. QED
    BY <2>1, <2>2, <2>3
<1>2. CASE InEscape(l)
  BY <1>2, ScanEscape DEF InEscape
<1>3. CASE InHex(l)
  BY <1>3, ScanHex DEF InHex
<1>4. CASE InPair(l)
  BY <1>4, ScanPair DEF InPair
<1>5. CASE AtToken(l)
  <2>1. get(l, c) = l
    BY <1>5, GetCases DEF AtToken
  <2>. QED
    BY <1>5, <2>1 DEF ScannerAt
<1>. QED
  BY <1>1, <1>2, <1>3, <1>4, <1>5 DEF ScannerAt

-----------------------------------------------------------------------------
(* Characters are the encodings of code points.                            *)

(* The number is a code point that stands for a character.                 *)
valid(v) == v <= 1114111 /\ v \notin HighSurrogates /\ v \notin LowSurrogates

(* One more byte of six bits.                                              *)
six(m, b) == m * 64 + (b % 64)

LEMMA SixMore ==
  ASSUME NEW m \in Nat, NEW b \in 128..191
  PROVE  six(m, b) \in Nat /\ six(m, b) \div 64 = m /\ 128 + (six(m, b) % 64) = b
<1>1. b % 64 = b - 128 /\ b - 128 \in 0..63
  BY TailBits
<1>. DEFINE x == b - 128
<1>2. x \in 0..63 /\ six(m, b) = m * 64 + x /\ 128 + x = b
  BY <1>1 DEF six
<1>. HIDE DEF x
<1>3. (m * 64 + x) \div 64 = m /\ (m * 64 + x) % 64 = x /\ m * 64 + x \in Nat
  BY <1>2, SixBits
<1>. QED
  BY <1>2, <1>3

FourBits == 0..15
TenBits  == 0..1023

LEMMA SixBound ==
  ASSUME NEW m \in Nat, NEW b \in 128..191
  PROVE  /\ m \in FourBits => six(m, b) \in TenBits
         /\ m \in TenBits => six(m, b) <= LastOfThree
<1>1. b % 64 = b - 128 /\ b - 128 \in 0..63
  BY TailBits
<1>. DEFINE x == b - 128
<1>2. x \in 0..63 /\ six(m, b) = m * 64 + x
  BY <1>1 DEF six
<1>. HIDE DEF x
<1>. QED
  BY <1>2 DEF LastOfThree, FourBits, TenBits

LEMMA CodePointsByLength ==
  ASSUME NEW s, Len(s) \in 1..4
  PROVE  /\ Len(s) = 1 => codePointOf(s) = s[1]
         /\ Len(s) = 2 => codePointOf(s) = (s[1] % 32) * 64 + (s[2] % 64)
         /\ Len(s) = 3 => codePointOf(s) = ((s[1] % 16) * 64 + (s[2] % 64)) * 64 + (s[3] % 64)
         /\ Len(s) = 4 => codePointOf(s) = (((s[1] % 8) * 64 + (s[2] % 64)) * 64 + (s[3] % 64)) * 64 + (s[4] % 64)
<1> DEFINE One   == Len(s) = 1
           Two   == Len(s) = 2
           Three == Len(s) = 3
           Four  == Len(s) = 4
           v     == s[1]
           w     == (s[1] % 32) * 64 + (s[2] % 64)
           x     == ((s[1] % 16) * 64 + (s[2] % 64)) * 64 + (s[3] % 64)
           y     == (((s[1] % 8) * 64 + (s[2] % 64)) * 64 + (s[3] % 64)) * 64 + (s[4] % 64)
<1>1. codePointOf(s) = CASE One -> v [] Two -> w [] Three -> x [] OTHER -> y
  BY Zenon DEF codePointOf
<1>3. /\ One => ~Two /\ ~Three
      /\ Two => ~One /\ ~Three
      /\ Three => ~One /\ ~Two
      /\ Four => ~One /\ ~Two /\ ~Three
  OBVIOUS
<1>. HIDE DEF One, Two, Three, Four, v, w, x, y
<1>4. One => codePointOf(s) = v
  BY <1>1, <1>3, Zenon
<1>5. Two => codePointOf(s) = w
  BY <1>1, <1>3, Zenon
<1>6. Three => codePointOf(s) = x
  BY <1>1, <1>3, Zenon
<1>7. Four => codePointOf(s) = y
  BY <1>1, <1>3, Zenon
<1>. QED
  BY <1>4, <1>5, <1>6, <1>7 DEF One, Two, Three, Four, v, w, x, y

LEMMA BytesOf ==
  ASSUME NEW s \in Bytes
  PROVE  /\ Len(s) = 1 => s = <<s[1]>> /\ s[1] \in Byte
         /\ Len(s) = 2 => s = <<s[1], s[2]>> /\ s[1] \in Byte /\ s[2] \in Byte
         /\ Len(s) = 3 => s = <<s[1], s[2], s[3]>> /\ s[1] \in Byte /\ s[2] \in Byte /\ s[3] \in Byte
         /\ Len(s) = 4 => /\ s = <<s[1], s[2], s[3], s[4]>>
                          /\ s[1] \in Byte /\ s[2] \in Byte /\ s[3] \in Byte /\ s[4] \in Byte
<1>. \A i \in 1..Len(s) : s[i] \in Byte
  BY ElementOfSeq DEF Bytes
<1>1. Len(s) = 1 => s = <<s[1]>> /\ s[1] \in Byte
  BY DEF Bytes
<1>2. Len(s) = 2 => s = <<s[1], s[2]>> /\ s[1] \in Byte /\ s[2] \in Byte
  BY DEF Bytes
<1>3. Len(s) = 3 => s = <<s[1], s[2], s[3]>> /\ s[1] \in Byte /\ s[2] \in Byte /\ s[3] \in Byte
  BY DEF Bytes
<1>4. Len(s) = 4 => /\ s = <<s[1], s[2], s[3], s[4]>>
                    /\ s[1] \in Byte /\ s[2] \in Byte /\ s[3] \in Byte /\ s[4] \in Byte
  BY DEF Bytes
<1>. QED
  BY <1>1, <1>2, <1>3, <1>4

LEMMA FirstAndShortest ==
  /\ firstBytes[1] = 0..127 /\ firstBytes[2] = 192..223 /\ firstBytes[3] = 224..239 /\ firstBytes[4] = 240..247
  /\ shortest[1] = 0 /\ shortest[2] = 128 /\ shortest[3] = 2048 /\ shortest[4] = 65536
BY DEF firstBytes, shortest

LEMMA ThreeByteCharacter ==
  ASSUME NEW b \in 224..239, NEW c \in 128..191, NEW d \in 128..191,
         NEW v, v = six(six(b % 16, c), d), v > LastOfTwo
  PROVE  encode(v) = <<b, c, d>> /\ v \in Nat
<1> DEFINE n == b % 16
           k == six(n, c)
<1>1. n \in Nat /\ 224 + n = b /\ n <= 15
  OBVIOUS
<1>2. v = six(k, d)
  OBVIOUS
<1>. HIDE DEF n
<1>3. k \in Nat /\ k \div 64 = n /\ 128 + (k % 64) = c
  BY <1>1, SixMore, Zenon
<1>4. k \in TenBits
  <2>1. n \in FourBits /\ n \in Nat
    BY <1>1 DEF FourBits
  <2>. QED
    BY <2>1, SixBound, Zenon
<1>. HIDE DEF k
<1>5. six(k, d) \in Nat /\ six(k, d) \div 64 = k /\ 128 + (six(k, d) % 64) = d
  BY <1>3, SixMore, Zenon
<1>6. six(k, d) <= LastOfThree
  BY <1>3, <1>4, SixBound, Zenon
<1>7. v \in Nat /\ v \div 64 = k /\ 128 + (v % 64) = d /\ v <= LastOfThree
  BY <1>2, <1>5, <1>6
<1>8. encode(v) = <<224 + ((v \div 64) \div 64), 128 + ((v \div 64) % 64), 128 + (v % 64)>>
  BY <1>7, EncodeThreeCases, Zenon
<1>9. encode(v) = <<224 + n, 128 + (k % 64), 128 + (v % 64)>>
  BY <1>3, <1>7, <1>8
<1>. QED
  BY <1>1, <1>3, <1>7, <1>9

LEMMA FourByteCharacter ==
  ASSUME NEW b \in 240..247, NEW c \in 128..191, NEW d \in 128..191, NEW e \in 128..191,
         six(six(six(b % 8, c), d), e) > LastOfThree
  PROVE  encode(six(six(six(b % 8, c), d), e)) = <<b, c, d, e>>
<1> DEFINE n == b % 8
           k == six(n, c)
           m == six(k, d)
           v == six(m, e)
<1>1. n \in Nat /\ 240 + n = b
  OBVIOUS
<1>2. v > LastOfThree
  OBVIOUS
<1>. HIDE DEF n
<1>3. k \in Nat /\ k \div 64 = n /\ 128 + (k % 64) = c
  BY <1>1, SixMore, Zenon
<1>. HIDE DEF k
<1>4. m \in Nat /\ m \div 64 = k /\ 128 + (m % 64) = d
  BY <1>3, SixMore, Zenon
<1>. HIDE DEF m
<1>5. v \in Nat /\ v \div 64 = m /\ 128 + (v % 64) = e
  BY <1>4, SixMore, Zenon
<1>. HIDE DEF v
<1>6. encode(v) = <<240 + (((v \div 64) \div 64) \div 64), 128 + (((v \div 64) \div 64) % 64),
                    128 + ((v \div 64) % 64), 128 + (v % 64)>>
  BY <1>2, <1>5, EncodeFourCases, Zenon
<1>7. encode(v) = <<240 + n, 128 + (k % 64), 128 + (m % 64), 128 + (v % 64)>>
  BY <1>3, <1>4, <1>5, <1>6
<1>8. encode(v) = <<b, c, d, e>>
  BY <1>1, <1>3, <1>4, <1>5, <1>7
<1>. QED
  BY <1>8, Zenon DEF n, k, m, v

LEMMA CharacterEncodes ==
  ASSUME NEW s \in Bytes, IsUtf8Character(s), NEW cp, cp = codePointOf(s)
  PROVE  scalar(cp) /\ encode(cp) = s
<1>1. /\ Len(s) \in 1..4 /\ s[1] \in firstBytes[Len(s)]
      /\ \A i \in 2..Len(s) : s[i] \in 128..191
      /\ cp >= shortest[Len(s)] /\ valid(cp)
  BY SMT DEF IsUtf8Character, valid
<1>a. cp \in Nat /\ valid(cp) => scalar(cp)
  BY SMT DEF scalar, valid
<1>2. CASE Len(s) = 1
  <2>1. s = <<s[1]>> /\ cp = s[1] /\ s[1] \in 0..127
    BY <1>1, <1>2, BytesOf, CodePointsByLength, FirstAndShortest
  <2>. QED
    <3>1. cp \in Nat /\ cp \in 0..127
      BY <2>1
    <3>2. encode(cp) = <<cp>>
      BY <3>1, EncodeOneCases
    <3>. QED
      BY <1>a, <1>1, <2>1, <3>1, <3>2
<1>3. CASE Len(s) = 2
  <2> DEFINE b == s[1]
             c == s[2]
             n == b - 192
             x == c - 128
             v == n * 64 + x
  <2>1. /\ s = <<b, c>> /\ cp = (b % 32) * 64 + (c % 64) /\ b \in 192..223
        /\ c \in 128..191 /\ cp >= 128
    BY <1>1, <1>3, BytesOf, CodePointsByLength, FirstAndShortest
  <2>. HIDE DEF b, c
  <2>2. n \in 0..31 /\ n \in Nat /\ x \in 0..63 /\ b % 32 = n /\ c % 64 = x /\ 192 + n = b /\ 128 + x = c
    BY <2>1, TailBits
  <2>. HIDE DEF n, x
  <2>3. cp = v
    BY <2>1, <2>2
  <2>4. v \in 128..LastOfTwo /\ v \in Nat
    BY <2>1, <2>2, <2>3, SMT DEF LastOfTwo
  <2>5. encode(n * 64 + x) = <<192 + n, 128 + x>>
    BY <2>2, <2>4, EncodeTwo, Zenon
  <2>6. encode(v) = s
    BY <2>1, <2>2, <2>5
  <2>. HIDE DEF v
  <2>. QED
    BY <1>a, <1>1, <2>3, <2>4, <2>6
<1>4. CASE Len(s) = 3
  <2> DEFINE b == s[1]
             c == s[2]
             d == s[3]
  <2>1. cp = six(six(b % 16, c), d)
    BY <1>4, CodePointsByLength DEF six
  <2>2. s = <<b, c, d>> /\ b \in 224..239 /\ c \in 128..191 /\ d \in 128..191
    BY <1>1, <1>4, BytesOf, FirstAndShortest
  <2>3. cp >= 2048
    BY <1>1, <1>4, FirstAndShortest
  <2>. HIDE DEF b, c, d
  <2>4. cp \in Nat
    BY <2>1, <2>2 DEF six
  <2>5. cp > LastOfTwo
    BY <2>3, <2>4 DEF LastOfTwo
  <2>6. encode(cp) = <<b, c, d>>
    BY <2>1, <2>2, <2>5, ThreeByteCharacter, Zenon
  <2>. QED
    BY <1>a, <1>1, <2>2, <2>4, <2>6, Zenon
<1>5. CASE Len(s) = 4
  <2> DEFINE b == s[1]
             c == s[2]
             d == s[3]
             e == s[4]
  <2>1. cp = six(six(six(b % 8, c), d), e)
    BY <1>5, CodePointsByLength DEF six
  <2>2. s = <<b, c, d, e>> /\ b \in 240..247 /\ c \in 128..191 /\ d \in 128..191 /\ e \in 128..191
    BY <1>1, <1>5, BytesOf, FirstAndShortest
  <2>3. cp >= 65536
    BY <1>1, <1>5, FirstAndShortest
  <2>. HIDE DEF b, c, d, e
  <2>4. cp \in Nat
    BY <2>1, <2>2 DEF six
  <2>5. cp > LastOfThree
    BY <2>3, <2>4 DEF LastOfThree
  <2>7. six(six(six(b % 8, c), d), e) > LastOfThree
    BY <2>1, <2>5
  <2>8. encode(six(six(six(b % 8, c), d), e)) = <<b, c, d, e>>
    BY <2>2, <2>7, FourByteCharacter, Zenon
  <2>6. encode(cp) = <<b, c, d, e>>
    BY <2>1, <2>8
  <2>. QED
    BY <1>a, <1>1, <2>2, <2>4, <2>6, Zenon
<1>. QED
  BY <1>1, <1>2, <1>3, <1>4, <1>5

LEMMA CharacterOf ==
  ASSUME NEW s, NEW n \in 2..4, Len(s) = n, s[1] \in firstBytes[n],
         \A i \in 2..n : s[i] \in 128..191,
         codePointOf(s) >= shortest[n], valid(codePointOf(s))
  PROVE  IsUtf8Character(s)
BY SMT DEF IsUtf8Character, valid

LEMMA SixBack ==
  ASSUME NEW v \in Nat, NEW c, c = 128 + (v % 64)
  PROVE  c \in 128..191 /\ v \div 64 \in Nat /\ six(v \div 64, c) = v
<1> DEFINE x == v % 64
           m == v \div 64
<1>1. x \in 0..63 /\ m \in Nat /\ v = m * 64 + x
  OBVIOUS
<1>. HIDE DEF x, m
<1>2. c = 128 + x /\ c \in 128..191
  BY <1>1 DEF x
<1>3. c % 64 = x
  BY <1>1, <1>2
<1>. QED
  BY <1>1, <1>2, <1>3 DEF six, m

LEMMA OneCharacter ==
  ASSUME NEW b \in 0..127
  PROVE  IsUtf8Character(<<b>>)
<1> DEFINE s == <<b>>
<1>1. Len(s) = 1 /\ s[1] = b
  OBVIOUS
<1>. HIDE DEF s
<1>2. codePointOf(s) = b
  BY <1>1, CodePointsByLength
<1>3. valid(b)
  BY SMT DEF HighSurrogates, LowSurrogates, valid
<1>4. IsUtf8Character(s)
  BY <1>1, <1>2, <1>3, FirstAndShortest, SMT DEF IsUtf8Character, valid
<1>. QED
  BY <1>4 DEF s

LEMMA EncodedIsCharacter ==
  ASSUME NEW v, scalar(v)
  PROVE  IsUtf8Character(encode(v)) /\ encode(v) \in Bytes
<1>1. v \in Nat /\ valid(v)
  BY SMT DEF scalar, valid
<1>2. CASE v \in 0..127
  <2>1. encode(v) = <<v>> /\ v \in Byte
    BY <1>1, <1>2, EncodeOneCases DEF Byte
  <2>. QED
    BY <1>2, <2>1, OneByte, OneCharacter
<1>3. CASE v \in 128..LastOfTwo
  <2> DEFINE n == v \div 64
             b == 192 + n
             c == 128 + (v % 64)
             s == <<b, c>>
  <2>1. encode(v) = s
    BY <1>1, <1>3, EncodeTwoCases
  <2>2. n \in 0..31 /\ v >= 128
    BY <1>1, <1>3 DEF LastOfTwo
  <2>3. b \in 192..223 /\ b % 32 = n /\ b \in Byte
    <3>. HIDE DEF n
    <3>. QED
      BY <2>2 DEF Byte
  <2>4. c \in 128..191 /\ six(n, c) = v
    BY <1>1, SixBack, Zenon
  <2>5. c \in Byte
    BY <2>4 DEF Byte
  <2>. HIDE DEF n, b, c
  <2>6. Len(s) = 2 /\ s[1] = b /\ s[2] = c /\ s \in Bytes
    BY <2>3, <2>5, TwoBytes
  <2>. HIDE DEF s
  <2>7. codePointOf(s) = six(s[1] % 32, s[2])
    BY <2>6, CodePointsByLength DEF six
  <2>8. codePointOf(s) = v
    BY <2>3, <2>4, <2>6, <2>7
  <2>9. IsUtf8Character(s)
    <3>1. s[1] \in firstBytes[2]
      BY <2>3, <2>6, FirstAndShortest
    <3>2. \A i \in 2..2 : i = 2
      OBVIOUS
    <3>3. \A i \in 2..2 : s[i] \in 128..191
      BY <2>4, <2>6, <3>2
    <3>4. codePointOf(s) >= shortest[2] /\ valid(codePointOf(s))
      BY <1>1, <2>2, <2>8, FirstAndShortest
    <3>5. Len(s) = 2 /\ 2 \in 2..4
      BY <2>6
    <3>. QED
      BY <3>1, <3>3, <3>4, <3>5, CharacterOf, Zenon
  <2>. QED
    BY <2>1, <2>6, <2>9
<1>4. CASE v > LastOfTwo /\ v <= LastOfThree
  <2> DEFINE m == v \div 64
             n == m \div 64
             b == 224 + n
             c == 128 + (m % 64)
             d == 128 + (v % 64)
             s == <<b, c, d>>
  <2>1. encode(v) = s
    BY <1>1, <1>4, EncodeThreeCases
  <2>2. m \in Nat /\ m <= 1023 /\ v >= 2048
    BY <1>1, <1>4 DEF LastOfTwo, LastOfThree
  <2>3. d \in 128..191 /\ six(m, d) = v
    BY <1>1, SixBack, Zenon
  <2>. HIDE DEF m, d
  <2>4. n \in 0..15
    BY <2>2
  <2>5. c \in 128..191 /\ six(n, c) = m
    <3>1. m \in Nat
      BY <2>2
    <3>. QED
      BY <3>1, SixBack, Zenon
  <2>. HIDE DEF n, c
  <2>6. b \in 224..239 /\ b % 16 = n /\ b \in Byte /\ c \in Byte /\ d \in Byte
    BY <2>3, <2>4, <2>5 DEF Byte
  <2>. HIDE DEF b
  <2>7. Len(s) = 3 /\ s[1] = b /\ s[2] = c /\ s[3] = d /\ s \in Bytes
    BY <2>6, ThreeBytes
  <2>. HIDE DEF s
  <2>8. codePointOf(s) = six(six(s[1] % 16, s[2]), s[3])
    BY <2>7, CodePointsByLength DEF six
  <2>9. codePointOf(s) = v
    BY <2>3, <2>5, <2>6, <2>7, <2>8
  <2>10. IsUtf8Character(s)
    <3>1. s[1] \in firstBytes[3]
      BY <2>6, <2>7, FirstAndShortest
    <3>2. \A i \in 2..3 : i = 2 \/ i = 3
      OBVIOUS
    <3>3. \A i \in 2..3 : s[i] \in 128..191
      BY <2>3, <2>5, <2>7, <3>2
    <3>4. codePointOf(s) >= shortest[3] /\ valid(codePointOf(s))
      BY <1>1, <2>2, <2>9, FirstAndShortest
    <3>5. Len(s) = 3 /\ 3 \in 2..4
      BY <2>7
    <3>. QED
      BY <3>1, <3>3, <3>4, <3>5, CharacterOf, Zenon
  <2>. QED
    BY <2>1, <2>7, <2>10
<1>5. CASE v > LastOfThree
  <2> DEFINE m == v \div 64
             k == m \div 64
             n == k \div 64
             b == 240 + n
             c == 128 + (k % 64)
             d == 128 + (m % 64)
             e == 128 + (v % 64)
             s == <<b, c, d, e>>
  <2>1. encode(v) = s
    BY <1>1, <1>5, EncodeFourCases
  <2>2. m \in Nat /\ m <= 17407 /\ v >= 65536
    BY <1>1, <1>5, SMT DEF LastOfThree, valid
  <2>3. e \in 128..191 /\ six(m, e) = v
    BY <1>1, SixBack, Zenon
  <2>. HIDE DEF m, e
  <2>4. k \in Nat /\ k <= 271
    BY <2>2
  <2>5. d \in 128..191 /\ six(k, d) = m
    <3>1. m \in Nat
      BY <2>2
    <3>. QED
      BY <3>1, SixBack, Zenon
  <2>. HIDE DEF k, d
  <2>6. n \in 0..4
    BY <2>4
  <2>7. c \in 128..191 /\ six(n, c) = k
    <3>1. k \in Nat
      BY <2>4
    <3>. QED
      BY <3>1, SixBack, Zenon
  <2>. HIDE DEF n, c
  <2>8. b \in 240..247 /\ b % 8 = n /\ b \in Byte /\ c \in Byte /\ d \in Byte /\ e \in Byte
    BY <2>3, <2>5, <2>6, <2>7 DEF Byte
  <2>. HIDE DEF b
  <2>9. Len(s) = 4 /\ s[1] = b /\ s[2] = c /\ s[3] = d /\ s[4] = e /\ s \in Bytes
    BY <2>8, FourBytes
  <2>. HIDE DEF s
  <2>10. codePointOf(s) = six(six(six(s[1] % 8, s[2]), s[3]), s[4])
    BY <2>9, CodePointsByLength DEF six
  <2>11. codePointOf(s) = v
    BY <2>3, <2>5, <2>7, <2>8, <2>9, <2>10
  <2>12. IsUtf8Character(s)
    <3>1. s[1] \in firstBytes[4]
      BY <2>8, <2>9, FirstAndShortest
    <3>2. \A i \in 2..4 : i = 2 \/ i = 3 \/ i = 4
      OBVIOUS
    <3>3. \A i \in 2..4 : s[i] \in 128..191
      BY <2>3, <2>5, <2>7, <2>9, <3>2
    <3>4. codePointOf(s) >= shortest[4] /\ valid(codePointOf(s))
      BY <1>1, <2>2, <2>11, FirstAndShortest
    <3>5. Len(s) = 4 /\ 4 \in 2..4
      BY <2>9
    <3>. QED
      BY <3>1, <3>3, <3>4, <3>5, CharacterOf, Zenon
  <2>. QED
    BY <2>1, <2>9, <2>12
<1>. QED
  BY <1>1, <1>2, <1>3, <1>4, <1>5 DEF LastOfTwo, LastOfThree

-----------------------------------------------------------------------------
(* Texts of characters, one behind the other.                              *)

LEMMA PieceBefore ==
  ASSUME NEW t \in Bytes, NEW c \in Bytes, NEW k \in Nat, NEW n \in Nat, k < n, n <= Len(t)
  PROVE  SubSeq(t \o c, k + 1, n) = SubSeq(t, k + 1, n)
<1>1. Len(t) \in Nat
  BY LenProperties DEF Bytes
<1>2. k + 1 \in 1..Len(t) /\ n \in 1..Len(t)
  BY <1>1
<1>. QED
  BY <1>2, SubSeqOfConcat1 DEF Bytes

LEMMA PieceBehind ==
  ASSUME NEW t \in Bytes, NEW c \in Bytes, Len(c) >= 1
  PROVE  /\ SubSeq(t \o c, Len(t) + 1, Len(t \o c)) = c
         /\ Len(t \o c) = Len(t) + Len(c) /\ Len(t) \in Nat /\ Len(c) \in Nat
<1>1. Len(t) \in Nat /\ Len(c) \in Nat /\ Len(t \o c) = Len(t) + Len(c)
  BY LenProperties, ConcatProperties DEF Bytes
<1> DEFINE m == Len(t) + 1
           n == Len(t) + Len(c)
<1>2. m \in m..n /\ n \in m..n /\ m - Len(t) = 1 /\ n - Len(t) = Len(c)
  BY <1>1
<1>3. SubSeq(t \o c, m, n) = SubSeq(c, 1, Len(c))
  <2>1. m \in Len(t) + 1..Len(t) + Len(c) /\ n \in Len(t) + 1..Len(t) + Len(c)
    BY <1>2
  <2>2. SubSeq(t \o c, m, n) = SubSeq(c, m - Len(t), n - Len(t))
    BY <2>1, SubSeqOfConcat2 DEF Bytes
  <2>. QED
    BY <1>2, <2>2
<1>4. SubSeq(c, 1, Len(c)) = c
  BY SubSeqFull DEF Bytes
<1>. QED
  BY <1>1, <1>3, <1>4

(* The ends of the characters of a text.                                   *)
Ends(s, ends) ==
  /\ ends \subseteq 0..Len(s)
  /\ 0 \in ends /\ Len(s) \in ends
  /\ \A n \in ends \ {0} : \E k \in ends : k < n /\ IsUtf8Character(SubSeq(s, k + 1, n))

LEMMA Utf8Ends ==
  ASSUME NEW s
  PROVE  IsUtf8(s) <=> \E ends : Ends(s, ends)
BY DEF IsUtf8, Ends

LEMMA CharacterLength ==
  ASSUME NEW c, IsUtf8Character(c)
  PROVE  Len(c) \in 1..4
BY SMT DEF IsUtf8Character

LEMMA Utf8Nothing == IsUtf8(<<>>)
<1>1. Len(<<>>) = 0 /\ 0..0 = {0}
  BY NoBytes
<1>2. Ends(<<>>, {0})
  BY <1>1 DEF Ends
<1>. QED
  BY <1>2, Utf8Ends

LEMMA Utf8More ==
  ASSUME NEW t \in Bytes, IsUtf8(t), NEW c \in Bytes, IsUtf8Character(c)
  PROVE  IsUtf8(t \o c)
<1> DEFINE s == t \o c
<1>1. Len(c) >= 1
  BY CharacterLength
<1>2. /\ SubSeq(s, Len(t) + 1, Len(s)) = c
      /\ Len(s) = Len(t) + Len(c) /\ Len(t) \in Nat /\ Len(c) \in Nat
  BY <1>1, PieceBehind, Zenon
<1>3. PICK before : Ends(t, before)
  BY Utf8Ends
<1> DEFINE ends == before \cup {Len(s)}
<1>4. before \subseteq 0..Len(t) /\ 0 \in before /\ Len(t) \in before
  BY <1>3 DEF Ends
<1>5. ASSUME NEW n \in ends \ {0}
      PROVE  \E k \in ends : k < n /\ IsUtf8Character(SubSeq(s, k + 1, n))
  <2>1. CASE n = Len(s)
    <3>1. Len(t) \in ends /\ Len(t) < n
      BY <1>1, <1>2, <1>4, <2>1
    <3>. QED
      BY <1>2, <2>1, <3>1
  <2>2. CASE n # Len(s)
    <3>1. n \in before \ {0}
      BY <2>2
    <3>2. PICK k \in before : k < n /\ IsUtf8Character(SubSeq(t, k + 1, n))
      BY <1>3, <3>1 DEF Ends
    <3>3. k \in Nat /\ n \in Nat /\ n <= Len(t)
      BY <1>2, <1>4, <3>1, <3>2
    <3>4. SubSeq(s, k + 1, n) = SubSeq(t, k + 1, n)
      BY <3>2, <3>3, PieceBefore
    <3>. QED
      BY <3>2, <3>4
  <2>. QED
    BY <2>1, <2>2
<1>6. ends \subseteq 0..Len(s) /\ 0 \in ends /\ Len(s) \in ends
  <2>1. 0..Len(t) \subseteq 0..Len(s) /\ Len(s) \in 0..Len(s)
    <3>. HIDE DEF s
    <3>. QED
      BY <1>1, <1>2
  <2>. QED
    BY <1>4, <2>1, Zenon
<1>. HIDE DEF ends, s
<1>7. Ends(s, ends)
  BY <1>5, <1>6 DEF Ends
<1>. QED
  BY <1>7, Utf8Ends DEF s

LEMMA Utf8Last ==
  ASSUME NEW s \in Bytes, IsUtf8(s), s # <<>>
  PROVE  \E t \in Bytes, c \in Bytes :
           s = t \o c /\ IsUtf8(t) /\ IsUtf8Character(c) /\ Len(t) < Len(s) /\ Len(t) \in Nat
<1>1. Len(s) \in Nat /\ Len(s) # 0
  BY LenProperties, EmptySeq DEF Bytes
<1>2. PICK ends : Ends(s, ends)
  BY Utf8Ends
<1>3. PICK k \in ends : k < Len(s) /\ IsUtf8Character(SubSeq(s, k + 1, Len(s)))
  BY <1>1, <1>2 DEF Ends
<1>4. k \in 0..Len(s) /\ ends \subseteq 0..Len(s) /\ 0 \in ends
  BY <1>2, <1>3 DEF Ends
<1> DEFINE t == SubSeq(s, 1, k)
           c == SubSeq(s, k + 1, Len(s))
<1>5. \A i \in 1..Len(s) : s[i] \in Byte
  BY ElementOfSeq DEF Bytes
<1>6. t \in Bytes /\ Len(t) = k
  <2>1. \A i \in 1..k : s[i] \in Byte
    BY <1>1, <1>4, <1>5
  <2>. QED
    BY <1>4, <2>1, SubSeqProperties DEF Bytes
<1>7. c \in Bytes
  <2>1. \A i \in k + 1..Len(s) : s[i] \in Byte
    BY <1>1, <1>4, <1>5
  <2>. QED
    BY <1>1, <1>4, <2>1, SubSeqProperties DEF Bytes
<1>8. s = t \o c
  <2>1. 1 \in 1..Len(s) + 1 /\ k \in 1 - 1..Len(s) /\ Len(s) \in k..Len(s)
    BY <1>1, <1>4
  <2>2. t \o c = SubSeq(s, 1, Len(s))
    BY <2>1, ConcatAdjacentSubSeq DEF Bytes
  <2>. QED
    BY <2>2, SubSeqFull DEF Bytes
<1>. HIDE DEF t, c
<1> DEFINE before == {n \in ends : n <= k}
<1>9. ASSUME NEW n \in before \ {0}
      PROVE  \E j \in before : j < n /\ IsUtf8Character(SubSeq(t, j + 1, n))
  <2>1. PICK j \in ends : j < n /\ IsUtf8Character(SubSeq(s, j + 1, n))
    BY <1>2 DEF Ends
  <2>2. j \in Nat /\ n \in Nat /\ n <= k /\ j <= k
    BY <1>1, <1>4, <2>1
  <2>3. SubSeq(t \o c, j + 1, n) = SubSeq(t, j + 1, n)
    BY <1>6, <1>7, <2>1, <2>2, PieceBefore
  <2>. QED
    BY <1>8, <2>1, <2>2, <2>3
<1>10. before \subseteq 0..k /\ 0 \in before /\ k \in before
  <2>1. k \in Nat /\ k <= k /\ 0 <= k
    BY <1>1, <1>4
  <2>2. \A n \in before : n \in 0..k
    BY <1>1, <1>4, <2>1
  <2>. QED
    BY <1>4, <2>1, <2>2
<1>. HIDE DEF before
<1>11. Ends(t, before)
  BY <1>6, <1>9, <1>10 DEF Ends
<1>12. IsUtf8(t)
  BY <1>11, Utf8Ends
<1>13. IsUtf8Character(c) /\ Len(t) < Len(s) /\ Len(t) \in Nat
  BY <1>3, <1>4, <1>6 DEF c
<1>. QED
  BY <1>6, <1>7, <1>8, <1>12, <1>13

-----------------------------------------------------------------------------
(* The decoder takes whole characters, and nothing else.                   *)

LEMMA Utf8Dumps ==
  ASSUME NEW s \in Bytes, IsUtf8(s)
  PROVE  Dumps(s, 0)
<1> DEFINE T == {n \in Nat : \A r \in Bytes : Len(r) <= n /\ IsUtf8(r) => Dumps(r, 0)}
<1>1. ASSUME NEW r \in Bytes, r = <<>> PROVE Dumps(r, 0)
  BY <1>1, DumpsNothing
<1>2. 0 \in T
  <2>1. ASSUME NEW r \in Bytes, Len(r) <= 0 PROVE r = <<>>
    BY <2>1, LenProperties, EmptySeq DEF Bytes
  <2>. QED
    BY <1>1, <2>1
<1>3. ASSUME NEW n \in Nat, n \in T PROVE n + 1 \in T
  <2>1. ASSUME NEW r \in Bytes, Len(r) <= n + 1, IsUtf8(r), r # <<>> PROVE Dumps(r, 0)
    <3>1. PICK t \in Bytes, c \in Bytes :
            r = t \o c /\ IsUtf8(t) /\ IsUtf8Character(c) /\ Len(t) < Len(r) /\ Len(t) \in Nat
      BY <2>1, Utf8Last
    <3>2. Len(t) <= n
      BY <2>1, <3>1, LenProperties DEF Bytes
    <3>3. Dumps(t, 0)
      BY <1>3, <3>1, <3>2
    <3> DEFINE cp == codePointOf(c)
    <3>4. scalar(cp) /\ encode(cp) = c
      BY <3>1, CharacterEncodes
    <3>. HIDE DEF cp
    <3>5. Dumps(t \o encode(cp), 0)
      BY <3>3, <3>4, DumpsEncoded
    <3>. QED
      BY <3>1, <3>4, <3>5
  <2>. QED
    BY <1>1, <2>1
<1>. HIDE DEF T
<1>4. \A n \in Nat : n \in T
  BY <1>2, <1>3, SetInduction
<1>5. Len(s) \in T /\ Len(s) <= Len(s)
  BY <1>4, LenProperties DEF Bytes
<1>. QED
  BY <1>5 DEF T

(* What was taken is whole characters and the beginning of one.            *)
Cut(s, st) ==
  \E cp, t, p : t \in Bytes /\ IsUtf8(t) /\ Partial(st, cp, p) /\ t \o p = s

LEMMA CutNext ==
  ASSUME NEW s, NEW st, Cut(s, st), NEW b \in Byte, NEW next, next = decodeState(st, b), next # 1
  PROVE  Cut(Append(s, b), next)
<1>1. PICK cp, t, p : t \in Bytes /\ IsUtf8(t) /\ Partial(st, cp, p) /\ t \o p = s
  BY DEF Cut
<1>2. p \in Bytes /\ (st = 0 => p = <<>>)
  BY <1>1, PartialFields
<1> DEFINE q == Append(p, b)
           v == decodeCodepoint(st, cp, b)
<1>3. q \in Bytes /\ t \o q = Append(s, b)
  BY <1>1, <1>2, BytesAppend, ConcatAppend
<1>4. /\ next # 0 => Partial(next, v, q)
      /\ next = 0 => \/ st = 0 /\ b < 128 /\ v = b
                     \/ st # 0 /\ b >= 128 /\ Final(v, q)
  <2>. HIDE DEF v
  <2>1. v = decodeCodepoint(st, cp, b)
    BY DEF v
  <2>. QED
    BY <1>1, <2>1, DecodeByte
<1>. HIDE DEF v, q
<1>5. CASE next # 0
  BY <1>1, <1>3, <1>4, <1>5 DEF Cut
<1>6. CASE next = 0
  <2>1. IsUtf8Character(q)
    <3>1. CASE st = 0 /\ b < 128
      <4>1. q = <<b>>
        BY <1>2, <3>1 DEF q
      <4>2. b \in 0..127
        BY <3>1 DEF Byte
      <4>. QED
        BY <4>1, <4>2, OneCharacter
    <3>2. CASE Final(v, q)
      <4>1. scalar(v) /\ encode(v) = q
        BY <3>2 DEF Final
      <4>. QED
        BY <4>1, EncodedIsCharacter
    <3>. QED
      BY <1>4, <1>6, <3>1, <3>2
  <2>2. IsUtf8(t \o q)
    BY <1>1, <1>3, <2>1, Utf8More
  <2>3. t \o q \in Bytes /\ (t \o q) \o <<>> = t \o q
    BY <1>1, <1>3, ConcatBytes, NoBytes
  <2>4. Partial(0, 0, <<>>)
    BY PartialZero
  <2>5. Cut(t \o q, 0)
    BY <2>2, <2>3, <2>4 DEF Cut
  <2>. QED
    BY <1>3, <1>6, <2>5
<1>. QED
  BY <1>5, <1>6

-----------------------------------------------------------------------------
(* The decoder and the lexer over the same bytes.                          *)

(* One byte under the strict error handler.                                *)
LEMMA StrictByte ==
  ASSUME NEW s \in Bytes, NEW a, NEW b \in Byte,
         NEW d, d = dumped(s, a, "strict"), NEW e, e = dumped(Append(s, b), a, "strict")
  PROVE  /\ d.thrown => e.thrown
         /\ ~d.thrown /\ decodeState(d.state, b) = 1 => e.thrown
         /\ ~d.thrown /\ decodeState(d.state, b) # 1 => ~e.thrown /\ e.state = decodeState(d.state, b)
<1>1. e = dumpByte(d, b, a, "strict") /\ DumpsTo(d, a, "strict", s)
  BY DumpedAppend, DumpedAt
<1>2. CASE d.thrown
  BY <1>1, <1>2, DumpByteCases
<1>3. CASE ~d.thrown
  <2>1. PICK t, p, st : DumpAt(d, a, st, t, p)
    BY <1>1, <1>3 DEF DumpsTo
  <2>2. d.state = st
    BY <2>1, DumpAtFields
  <2>3. CASE decodeState(st, b) = 1
    <3>1. e = setThrown(d, TRUE)
      BY <1>1, <1>3, <2>2, <2>3, DumpByteCases, DumpRejectedThrows
    <3>. QED
      BY <2>1, <2>2, <2>3, <3>1, ThrownFields
  <2>4. CASE decodeState(st, b) # 1
    <3>1. e = dumpDecoded(d, b, a)
      BY <1>1, <1>3, <2>2, <2>4, DumpByteCases
    <3> DEFINE next == decodeState(st, b)
    <3>2. next = decodeState(st, b) /\ next # 1
      BY <2>4
    <3>. HIDE DEF next
    <3>3. PICK now, rest : DumpAt(dumpDecoded(d, b, a), a, next, now, rest)
      BY <2>1, <3>2, DecodedAt
    <3>4. ~e.thrown /\ e.state = next
      BY <3>1, <3>3, DumpAtFields
    <3>. QED
      BY <1>3, <2>2, <3>2, <3>4
  <2>. QED
    BY <2>3, <2>4
<1>. QED
  BY <1>2, <1>3

(* A byte that does not end the string nor begin an escape.                *)
LEMMA ScanPlain ==
  ASSUME NEW st \in {0} \cup 2..8, NEW l, NEW t, Inside(l, st, t),
         NEW b \in Byte, b >= 32, b # Quote, b # Escape
  PROVE  /\ decodeState(st, b) # 1 => Inside(get(l, b), decodeState(st, b), Append(t, b))
         /\ decodeState(st, b) = 1 => Refused(get(l, b))
<1>1. CASE st = 0
  <2>1. decodeState(st, b) = leadOf(b)
    BY <1>1, FirstBytes
  <2>2. CASE b < 128
    <3>1. leadOf(b) = 0
      BY <2>2 DEF leadOf
    <3>2. b \in unescaped
      BY <2>2 DEF unescaped, Quote, Escape, Byte
    <3>3. Inside(get(l, b), 0, Append(t, b))
      BY <1>1, <3>2, ReadUnescaped
    <3>. QED
      BY <2>1, <3>1, <3>3
  <2>3. CASE b >= 128 /\ leadOf(b) # 1
    <3>1. Inside(get(l, b), leadOf(b), Append(t, b))
      BY <1>1, <2>3, ReadFirstByte
    <3>. QED
      BY <2>1, <2>3, <3>1
  <2>4. CASE b >= 128 /\ leadOf(b) = 1
    <3>1. PICK r, d, v : l = Lexer("string", t, r, d, v, 0)
      BY <1>1 DEF Inside, where
    <3>2. get(l, b) = scan_string(l, b)
      BY <3>1, LexerFields, GetInString
    <3>3. scan_string(l, b) = error(l)
      BY <2>4, ScanString
    <3>4. Refused(error(l))
      BY <3>1, LexerError DEF Refused
    <3>. QED
      BY <2>1, <2>4, <3>2, <3>3, <3>4
  <2>5. b < 128 \/ b >= 128
    BY DEF Byte
  <2>. QED
    BY <2>2, <2>3, <2>4, <2>5
<1>2. CASE st \in 2..8
  <2>1. /\ b \in lowest(st)..highest(st) => decodeState(st, b) = nextOf(st)
        /\ b \notin lowest(st)..highest(st) => decodeState(st, b) = 1
    <3>1. lowest(st) \in Int /\ highest(st) \in Int /\ b \in Int
      BY DEF lowest, highest, Byte
    <3>2. b \in lowest(st)..highest(st) <=> lowest(st) <= b /\ b <= highest(st)
      BY <3>1
    <3>. QED
      BY <1>2, <3>2, LaterBytes
  <2>2. CASE b \in lowest(st)..highest(st)
    <3>1. Inside(get(l, b), nextOf(st), Append(t, b)) /\ nextOf(st) # 1
      BY <1>2, <2>2, ReadNextByte DEF nextOf
    <3>. QED
      BY <2>1, <2>2, <3>1
  <2>3. CASE b \notin lowest(st)..highest(st)
    <3>1. b \in Int
      BY DEF Byte
    <3>2. Refused(get(l, b))
      BY <1>2, <2>3, <3>1, ScanOutside
    <3>. QED
      BY <2>1, <2>3, <3>2
  <2>. QED
    BY <2>2, <2>3
<1>. QED
  BY <1>1, <1>2

(* Behind the bytes s: what the decoder has taken is cut as its state      *)
(* says, and if they are plain the lexer is where the decoder is.          *)
Follows(s, d, l) ==
  /\ ~d.thrown => Cut(s, d.state) /\ (IsPlain(s) => Inside(l, d.state, s))
  /\ d.thrown => (IsPlain(s) => Refused(l))

LEMMA PlainLast ==
  ASSUME NEW s \in Bytes, NEW b \in Byte, IsPlain(Append(s, b))
  PROVE  IsPlain(s) /\ b >= 32 /\ b # Quote /\ b # Escape
<1> DEFINE q == Append(s, b)
<1>1. /\ Len(q) = Len(s) + 1 /\ q[Len(s) + 1] = b /\ Len(s) \in Nat
      /\ \A i \in 1..Len(s) : q[i] = s[i]
      /\ DOMAIN q = 1..Len(q) /\ DOMAIN s = 1..Len(s)
  BY AppendProperties, LenProperties, BytesAppend DEF Bytes
<1>2. \A i \in DOMAIN q : q[i] >= 32 /\ q[i] \notin {Quote, Escape}
  BY DEF IsPlain
<1>. HIDE DEF q
<1>3. Len(s) + 1 \in DOMAIN q /\ DOMAIN s \subseteq DOMAIN q
  BY <1>1
<1>4. IsPlain(s)
  BY <1>1, <1>2, <1>3 DEF IsPlain
<1>. QED
  BY <1>1, <1>2, <1>3, <1>4

LEMMA FollowsNext ==
  ASSUME NEW s \in Bytes, NEW b \in Byte,
         NEW d, d = dumped(s, FALSE, "strict"), NEW l, Follows(s, d, l),
         NEW e, e = dumped(Append(s, b), FALSE, "strict")
  PROVE  Follows(Append(s, b), e, get(l, b))
<1> DEFINE q == Append(s, b)
<1>1. /\ d.thrown => e.thrown
      /\ ~d.thrown /\ decodeState(d.state, b) = 1 => e.thrown
      /\ ~d.thrown /\ decodeState(d.state, b) # 1 => ~e.thrown /\ e.state = decodeState(d.state, b)
  BY StrictByte
<1>2. IsPlain(q) => IsPlain(s) /\ b >= 32 /\ b # Quote /\ b # Escape
  BY PlainLast
<1>. HIDE DEF q
<1>3. CASE d.thrown
  <2>1. Refused(l) => get(l, b) = l
    BY GetCases DEF Refused
  <2>. QED
    BY <1>1, <1>2, <1>3, <2>1 DEF Follows, q
<1>4. CASE ~d.thrown
  <2> DEFINE st == d.state
             next == decodeState(st, b)
  <2>1. Cut(s, st) /\ (IsPlain(s) => Inside(l, st, s))
    BY <1>4 DEF Follows
  <2>2. st \in {0} \cup 2..8
    BY <2>1, PartialFields DEF Cut
  <2>. HIDE DEF st
  <2>3. IsPlain(q) => /\ next # 1 => Inside(get(l, b), next, q)
                      /\ next = 1 => Refused(get(l, b))
    BY <1>2, <2>1, <2>2, ScanPlain DEF q
  <2>4. next # 1 => Cut(q, next)
    <3>1. next = decodeState(st, b)
      OBVIOUS
    <3>. HIDE DEF next
    <3>. QED
      BY <2>1, <3>1, CutNext DEF q
  <2>5. /\ next = 1 => e.thrown
        /\ next # 1 => ~e.thrown /\ e.state = next
    BY <1>1, <1>4 DEF st
  <2>. HIDE DEF next
  <2>6. Follows(q, e, get(l, b))
    BY <2>3, <2>4, <2>5 DEF Follows
  <2>. QED
    BY <2>6 DEF q
<1>. QED
  BY <1>3, <1>4

LEMMA FollowsBytes ==
  ASSUME NEW s \in Bytes
  PROVE  Follows(s, dumped(s, FALSE, "strict"), readFrom(Opened, s))
<1> DEFINE F(r) == Follows(r, dumped(r, FALSE, "strict"), readFrom(Opened, r))
           T == {n \in Nat : \A r \in Bytes : Len(r) = n => F(r)}
<1>1. 0 \in T
  <2>1. ~emptyDump.thrown /\ emptyDump.state = 0
    BY DEF emptyDump, UTF8_ACCEPT
  <2>2. Cut(<<>>, 0)
    <3>1. Partial(0, 0, <<>>) /\ <<>> \in Bytes /\ <<>> \o <<>> = <<>>
      BY PartialZero, NoBytes
    <3>. QED
      BY <3>1, Utf8Nothing DEF Cut
  <2>3. F(<<>>)
    BY <2>1, <2>2, StringsBegin, DumpedEmpty, ReadFromEmpty DEF Follows
  <2>4. ASSUME NEW r \in Bytes, Len(r) = 0 PROVE r = <<>>
    BY <2>4, EmptySeq DEF Bytes
  <2>. QED
    BY <2>3, <2>4
<1>2. ASSUME NEW n \in Nat, n \in T PROVE n + 1 \in T
  <2>1. ASSUME NEW r \in Bytes, Len(r) = n + 1 PROVE F(r)
    <3>1. r # <<>>
      BY <2>1, EmptySeq DEF Bytes
    <3>2. PICK front \in Bytes, last \in Byte : r = Append(front, last) /\ Len(r) = Len(front) + 1
      BY <3>1, SplitLast
    <3>3. Len(front) = n
      BY <2>1, <3>2, LenProperties DEF Bytes
    <3>4. F(front)
      BY <1>2, <3>3
    <3>5. readFrom(Opened, r) = get(readFrom(Opened, front), last)
      BY <3>2, ReadFromAppend
    <3>. QED
      BY <3>2, <3>4, <3>5, FollowsNext
  <2>. HIDE DEF F
  <2>2. n + 1 \in Nat
    OBVIOUS
  <2>. QED
    BY <2>1, <2>2
<1> HIDE DEF T
<1>3. \A n \in Nat : n \in T
  BY <1>1, <1>2, SetInduction
<1>4. Len(s) \in T
  BY <1>3, LenProperties DEF Bytes
<1>. QED
  BY <1>4 DEF T

(* A plain string is closed by its quote unless it was refused, or ends    *)
(* inside a character.                                                     *)
LEMMA ScannedRefused ==
  ASSUME NEW s \in Bytes, NEW l, l = readFrom(Opened, s),
         Refused(l) \/ \E st \in 2..8 : Inside(l, st, s)
  PROVE  scanned(s).type = "parse_error"
<1> DEFINE o == go(reset, "text")
           q == <<Quote>>
           k == get(l, Quote)
<1>1. q \in Bytes /\ Quote \in Byte /\ Quote \in Int
  BY DEF Quote, Byte, Bytes
<1>2. scanned(s) = get(k, Eof)
  BY ReadQuoted DEF scanned, firstToken
<1>3. Refused(k)
  <2>1. CASE Refused(l)
    <3>1. get(l, Quote) = l
      BY <2>1, GetCases DEF Refused
    <3>. QED
      BY <2>1, <3>1
  <2>2. ASSUME NEW st \in 2..8, Inside(l, st, s) PROVE Refused(k)
    <3>1. Quote \notin lowest(st)..highest(st)
      BY DEF Quote, lowest, highest
    <3>. QED
      BY <1>1, <2>2, <3>1, ScanOutside
  <2>. QED
    BY <2>1, <2>2
<1>. HIDE DEF k
<1>4. get(k, Eof) = k
  BY <1>3, GetCases DEF Refused
<1>. QED
  BY <1>2, <1>3, <1>4 DEF Refused

LEMMA TablesAgree ==
  ASSUME NEW s \in Bytes
  PROVE  /\ ~dump_escaped(s, FALSE, "strict").thrown <=> IsUtf8(s)
         /\ IsPlain(s) => ((scanned(s).type = "value_string") <=> IsUtf8(s))
<1> DEFINE d == dumped(s, FALSE, "strict")
           e == dump_escaped(s, FALSE, "strict")
           l == readFrom(Opened, s)
<1>1. Follows(s, d, l)
  BY FollowsBytes
<1>2. ~e.thrown <=> ~d.thrown /\ d.state = 0
  <2> DEFINE a == FALSE
  <2>1. e = dump_escaped(s, a, "strict") /\ d = dumped(s, a, "strict")
    OBVIOUS
  <2>. HIDE DEF a, e, d
  <2>2. ~e.thrown <=> ~dumped(s, a, "strict").thrown /\ dumped(s, a, "strict").state = 0
    BY <2>1, DumpedEnds
  <2>. QED
    BY <2>1, <2>2
<1>3. ~d.thrown /\ d.state = 0 <=> IsUtf8(s)
  <2>1. IsUtf8(s) => ~d.thrown /\ d.state = 0
    BY Utf8Dumps DEF Dumps
  <2>2. ASSUME ~d.thrown, d.state = 0 PROVE IsUtf8(s)
    <3>1. Cut(s, 0)
      BY <1>1, <2>2 DEF Follows
    <3>2. PICK cp, t, p : t \in Bytes /\ IsUtf8(t) /\ Partial(0, cp, p) /\ t \o p = s
      BY <3>1 DEF Cut
    <3>3. p = <<>>
      BY <3>2, PartialFields
    <3>. QED
      BY <3>2, <3>3, NoBytes
  <2>. QED
    BY <2>1, <2>2
<1>4. ASSUME IsPlain(s) PROVE scanned(s).type = "value_string" <=> ~d.thrown /\ d.state = 0
  <2>1. CASE ~d.thrown /\ d.state = 0
    <3>1. Inside(l, 0, s)
      BY <1>1, <1>4, <2>1 DEF Follows
    <3>. QED
      BY <2>1, <3>1, ScannedBack
  <2>2. CASE ~(~d.thrown /\ d.state = 0)
    <3>1. Refused(l) \/ \E st \in 2..8 : Inside(l, st, s)
      <4>1. CASE d.thrown
        BY <1>1, <1>4, <4>1 DEF Follows
      <4>2. CASE ~d.thrown
        <5>1. Cut(s, d.state) /\ Inside(l, d.state, s)
          BY <1>1, <1>4, <4>2 DEF Follows
        <5>2. d.state \in {0} \cup 2..8
          BY <5>1, PartialFields DEF Cut
        <5>. QED
          BY <2>2, <4>2, <5>1, <5>2
      <4>. QED
        BY <4>1, <4>2
    <3>. HIDE DEF d
    <3>2. scanned(s).type = "parse_error"
      BY <3>1, ScannedRefused
    <3>. QED
      BY <2>2, <3>2
  <2>. QED
    BY <2>1, <2>2
<1>. QED
  BY <1>2, <1>3, <1>4

-----------------------------------------------------------------------------
(* The theorems: of the strings that a peer spells and of those of any     *)
(* bytes.                                                                  *)

StringsInv ==
  /\ subject = "string" => ScannerAt(lexer)
  /\ subject = "bytes" => text \in Bytes

LEMMA StringsStart == StringInit => StringsInv
<1>. SUFFICES ASSUME StringInit PROVE StringsInv
  OBVIOUS
<1>1. CASE subject = "string"
  <2>1. Inside(lexer, 0, <<>>)
    BY <1>1, StringsBegin DEF StringInit, startingLexer
  <2>2. Dumps(<<>>, 0) /\ 0 \in {0} \cup 2..8
    BY DumpsNothing
  <2>3. ScannerAt(lexer)
    BY <2>1, <2>2 DEF InCharacter, ScannerAt
  <2>. QED
    BY <1>1, <2>3 DEF StringsInv
<1>2. CASE subject = "bytes"
  <2>1. text \in Seq(0..255)
    BY <1>2, StringsAssumption DEF StringInit
  <2>. QED
    BY <1>2, <2>1 DEF StringsInv, Bytes, Byte
<1>. QED
  BY <1>1, <1>2 DEF StringInit

LEMMA StringsStep == StringsInv /\ [StringNext]_stringVars => StringsInv'
<1>. SUFFICES ASSUME StringsInv, [StringNext]_stringVars PROVE StringsInv'
  OBVIOUS
<1>1. ASSUME NEW c \in StringBytes, ReadStringByte(c) PROVE StringsInv'
  <2>1. subject = "string" /\ subject' = subject /\ lexer' = get(lexer, c)
    BY <1>1 DEF ReadStringByte
  <2>2. ScannerAt(lexer) /\ c \in Char
    BY <2>1, StringsAssumption DEF StringsInv, Char
  <2>3. ScannerAt(lexer')
    BY <2>1, <2>2, ScannerGets
  <2>. QED
    BY <2>1, <2>3 DEF StringsInv
<1>2. ASSUME NEW c \in AnyBytes, AppendByte(c) PROVE StringsInv'
  <2>1. subject = "bytes" /\ subject' = subject /\ text' = Append(text, c) /\ lexer' = lexer
    BY <1>2 DEF AppendByte
  <2>2. c \in Byte /\ text \in Bytes
    BY <2>1, StringsAssumption DEF StringsInv, Byte
  <2>3. text' \in Bytes
    BY <2>1, <2>2, BytesAppend
  <2>. QED
    BY <2>1, <2>3 DEF StringsInv
<1>3. CASE UNCHANGED stringVars
  BY <1>3 DEF StringsInv, stringVars
<1>. QED
  BY <1>1, <1>2, <1>3 DEF StringNext

(* Type correctness of the strings: what the lexer has read of a string is *)
(* one that dump() takes, and what a program gives to dump() are bytes.     *)
THEOREM StringsAreKept == StringSpec => []StringsInv
<1>. QED
  BY StringsStart, StringsStep, PTL DEF StringSpec

LEMMA TokenDumps ==
  ASSUME StringsInv
  PROVE  ScannedStringsDump
<1>. SUFFICES ASSUME Spelled, NEW ascii \in BOOLEAN,
                     NEW d, d = dump_escaped(lexer.buffer, ascii, "strict")
              PROVE  ~d.thrown /\ scanned(d.written).buffer = lexer.buffer
  BY DEF ScannedStringsDump
<1> DEFINE s == lexer.buffer
<1>1. ScannerAt(lexer) /\ lexer.type = "value_string"
  BY DEF StringsInv, Spelled
<1>2. NoToken # "value_string"
  BY DEF NoToken
<1>3. ~InCharacter(lexer)
  <2>1. ASSUME NEW t, NEW st, Inside(lexer, st, t) PROVE lexer.type = NoToken
    BY <2>1, LexerFields DEF Inside
  <2>. QED
    BY <1>1, <1>2, <2>1 DEF InCharacter
<1>4. ~InEscape(lexer)
  <2>1. ASSUME NEW t, BehindEscape(lexer, t) PROVE lexer.type = NoToken
    BY <2>1, LexerFields DEF BehindEscape
  <2>. QED
    BY <1>1, <1>2, <2>1 DEF InEscape
<1>5. ~InHex(lexer)
  <2>1. ASSUME NEW t, NEW k, NEW v, NEW h, InDigits(lexer, k, v, h, t) PROVE lexer.type = NoToken
    BY <2>1, LexerFields DEF InDigits
  <2>. QED
    BY <1>1, <1>2, <2>1 DEF InHex
<1>6. ~InPair(lexer)
  <2>1. ASSUME NEW t, NEW h, BehindHigh(lexer, h, t) PROVE lexer.type = NoToken
    BY <2>1, LexerFields DEF BehindHigh
  <2>. QED
    BY <1>1, <1>2, <2>1 DEF InPair
<1>7. Dumps(s, 0)
  BY <1>1, <1>3, <1>4, <1>5, <1>6 DEF ScannerAt, AtToken
<1>8. s \in Bytes /\ ~dumped(s, ascii, "strict").thrown /\ dumped(s, ascii, "strict").state = 0
  BY <1>7 DEF Dumps
<1>9. d = dump_escaped(s, ascii, "strict")
  OBVIOUS
<1>. HIDE DEF s
<1>10. /\ ~d.thrown => scanned(d.written).buffer = s
       /\ ~d.thrown
  BY <1>8, <1>9, DumpedEnds
<1>. QED
  BY <1>10 DEF s

(* Whatever string the parser takes from a frame, Hub::handleInput can     *)
(* dump for its log (Hub.cpp:77) and handlePublish for the subscribers,    *)
(* and the next parser reads the same string: for strings of any length,   *)
(* spelled with any characters.                                            *)
THEOREM ScannedStringsAreDumped == StringSpec => []ScannedStringsDump
<1>1. StringsInv => ScannedStringsDump
  BY TokenDumps
<1>. QED
  BY <1>1, StringsAreKept, PTL

LEMMA BytesAreDumped ==
  ASSUME StringsInv
  PROVE  EscapesFitTheBuffer
<1>. SUFFICES ASSUME subject = "bytes", NEW ascii \in BOOLEAN,
                     NEW handler \in {"strict", "ignore", "replace"},
                     NEW d, d = dump_escaped(text, ascii, handler)
              PROVE  d.reach <= BufferSize /\ (~d.thrown => scanned(d.written).type = "value_string")
  BY DEF EscapesFitTheBuffer
<1>1. text \in Bytes
  BY DEF StringsInv
<1>. QED
  BY <1>1, DumpedEnds

(* dump_escaped writes nowhere but in its string_buffer, and what it makes *)
(* of any bytes at all is a string that the lexer takes.                   *)
THEOREM EscapesAlwaysFit == StringSpec => []EscapesFitTheBuffer
<1>1. StringsInv => EscapesFitTheBuffer
  BY BytesAreDumped
<1>. QED
  BY <1>1, StringsAreKept, PTL

(* The two places that know UTF-8, the ranges of the lexer and the table   *)
(* of the decoder, both take exactly the texts that RFC 3629 describes, of *)
(* any length.                                                             *)
THEOREM TablesAreUtf8 == StringSpec => []BothTablesAreUtf8
<1>1. StringsInv => BothTablesAreUtf8
  BY TablesAgree DEF StringsInv, BothTablesAreUtf8
<1>. QED
  BY <1>1, StringsAreKept, PTL
=============================================================================
