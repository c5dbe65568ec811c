---------------------------- MODULE BinaryReader ----------------------------
(***************************************************************************)
(* binary_reader of json.hpp: CBOR, MessagePack, BSON, UBJSON and BJData.  *)
(* A reader takes the text s and the position of the next byte, and        *)
(* returns a value and the position behind it, or says that the text ended *)
(* inside the value or is none.  The program includes this code with the   *)
(* header; its own frames are text.                                        *)
(***************************************************************************)
EXTENDS JsonParser

(* cbor_tag_handler_t is error for "cbor", ignore and store for the others.*)
Cbor         == {"cbor", "cbor_ignore", "cbor_store"}
Ubjson       == {"ubjson", "bjdata"}
Formats      == Cbor \cup Ubjson \cup {"msgpack", "bson"}
LittleEndian == {"bson", "bjdata"}

Got(v, next)  == [at |-> "value", value |-> v, next |-> next]
UnexpectedEof == [at |-> "eof"]     \* more bytes might make it a value
ParseError    == [at |-> "error"]

then(r, Op(_, _)) == IF r.at = "value" THEN Op(r.value, r.next) ELSE r
as(r, Op(_))      == then(r, LAMBDA v, next : Got(Op(v), next))

get_string_Short(s, i, n) ==
  LET last == IF n <= Len(s) - i + 1 THEN i + n - 1 ELSE Len(s) IN Got(SubSeq(s, i, last), last + 1)

get_string(s, i, n) ==
  IF n <= Len(s) - i + 1 THEN Got(SubSeq(s, i, i + n - 1), i + n) ELSE UnexpectedEof

(* The highest byte first, whatever the byte order of the format.          *)
get_number(f, s, i, width) ==
  as(get_string(s, i, width), LAMBDA b : IF f \in LittleEndian THEN Reverse(b) ELSE b)

-----------------------------------------------------------------------------
(* Numbers.  Sizes that no text can have are all the same.                 *)

Huge == 16777216
size(b) == IF Len(strip(b)) > 3 THEN Huge ELSE FoldLeft(LAMBDA n, x : n * 256 + x, 0, b)

negative(b)   == b[1] >= 128
unsignedOf(b) == scalar("unsigned", strip(b))
signedOf(b)   == IF negative(b) THEN scalar("integer", strip(complement(b))) ELSE unsignedOf(b)

integer(f, s, i, width, signed) ==
  as(get_number(f, s, i, width), LAMBDA b : IF signed THEN signedOf(b) ELSE unsignedOf(b))

(* IEEE 754: a float is the eight bytes of the double; NaN is one value.   *)
bitsOf(b)   == [k \in 1..8 * Len(b) |-> (b[(k + 7) \div 8] \div 2^((8 - k) % 8)) % 2]
natural(bits) == FoldLeft(LAMBDA n, x : 2 * n + x, 0, bits)
bytesOf(bits) == [k \in 1..Len(bits) \div 8 |-> natural(SubSeq(bits, 8 * k - 7, 8 * k))]
bitsOfNatural(n, width) == [k \in 1..width |-> (n \div 2^(width - k)) % 2]

ieee(sign, exponent, exponentBits, fraction, fractionBits) ==
  bytesOf(<<sign>> \o bitsOfNatural(exponent, exponentBits)
            \o [k \in 1..fractionBits |-> IF k <= Len(fraction) THEN fraction[k] ELSE 0])

NaN == ieee(0, 2047, 11, <<1>>, 52)

(* The double that a float of 16, 32 or 64 bits stands for.                *)
widened(e, sign, exponent, fraction) ==
  LET ones   == {k \in DOMAIN fraction : fraction[k] = 1}
      first  == CHOOSE k \in ones : \A l \in ones : k <= l
      rebias == 1024 - 2^(e - 1)
  IN  CASE exponent = 2^e - 1 /\ ones # {} -> NaN
        [] exponent = 2^e - 1 /\ ones = {} -> ieee(sign, 2047, 11, <<>>, 52)
        [] exponent = 0 /\ ones = {} -> ieee(sign, 0, 11, <<>>, 52)
        [] exponent = 0 /\ ones # {} /\ e < 11 ->
             ieee(sign, 1 - first + rebias, 11, SubSeq(fraction, first + 1, Len(fraction)), 52)
        [] OTHER -> ieee(sign, exponent + rebias, 11, fraction, 52)

ofBits(e, bits) ==
  widened(e, bits[1], natural(SubSeq(bits, 2, e + 1)), SubSeq(bits, e + 2, Len(bits)))

double(b) == ofBits(CASE Len(b) = 2 -> 5 [] Len(b) = 4 -> 8 [] OTHER -> 11, bitsOf(b))

float(f, s, i, width) ==
  as(get_number(f, s, i, width), LAMBDA b : scalar("float", double(b)))

-----------------------------------------------------------------------------
(* Strings, and binary values with or without a subtype.                   *)

binary(b)           == scalar("binary", b)
binaryOf(b, subtype) == Value("binary", b, <<strip(subtype)>>, <<>>)

(* An item of CBOR begins with its kind and five bits about its size.      *)
kind(b) == b \div 32
low(b)  == b % 32

argument(s, i) ==
  LET n == low(s[i])
  IN  CASE n < 24 -> Got(<<n>>, i + 1)
        [] n \in 24..27 -> get_number("cbor", s, i + 1, 2^(n - 24))
        [] OTHER -> ParseError

RECURSIVE get_cbor_string(_, _, _), chunks(_, _, _, _)

(* The bytes of a string (kind 3) or of a binary value (kind 2).           *)
get_cbor_string(s, i, k) ==
  CASE i > Len(s) -> UnexpectedEof
    [] i <= Len(s) /\ kind(s[i]) # k -> ParseError
    [] i <= Len(s) /\ kind(s[i]) = k /\ low(s[i]) = 31 -> chunks(s, i + 1, k, <<>>)
    [] OTHER -> then(argument(s, i), LAMBDA n, next : get_string(s, next, size(n)))

chunks(s, i, k, all) ==
  IF i <= Len(s) /\ s[i] = 255 THEN Got(all, i + 1)
  ELSE then(get_cbor_string(s, i, k), LAMBDA b, next : chunks(s, next, k, all \o b))

fixstr == 160..191

get_msgpack_string(s, i) ==
  CASE i > Len(s) -> UnexpectedEof
    [] i <= Len(s) /\ s[i] \in fixstr -> get_string(s, i + 1, s[i] - 160)
    [] i <= Len(s) /\ s[i] \in 217..219 ->
         then(get_number("msgpack", s, i + 1, 2^(s[i] - 217)),
              LAMBDA n, next : get_string(s, next, size(n)))
    [] OTHER -> ParseError

(* The subtype, then the bytes.                                            *)
ext(f, s, i, n) ==
  then(get_number(f, s, i, 1),
       LAMBDA subtype, next : as(get_string(s, next, n), LAMBDA b : binaryOf(b, subtype)))

get_msgpack_binary(s, i) ==
  LET b == s[i]
      n(width) == as(get_number("msgpack", s, i + 1, width), size)
  IN  CASE b \in 196..198 ->
             then(n(2^(b - 196)), LAMBDA k, next : as(get_string(s, next, k), binary))
        [] b \in 199..201 -> then(n(2^(b - 199)), LAMBDA k, next : ext("msgpack", s, next, k))
        [] OTHER -> ext("msgpack", s, i + 1, 2^(b - 212))

get_bson_cstr(s, i) ==
  LET ends == {j \in i..Len(s) : s[j] = 0}
      at   == CHOOSE j \in ends : \A k \in ends : j <= k
  IN  IF ends = {} THEN UnexpectedEof ELSE Got(SubSeq(s, i, at - 1), at + 1)

(* Any byte may follow the string where its NUL is.                        *)
get_bson_string(s, i) ==
  then(get_number("bson", s, i, 4), LAMBDA n, next :
       IF negative(n) \/ size(n) = 0 THEN ParseError
       ELSE as(get_string(s, next, size(n)), Front))

get_bson_binary(s, i) ==
  then(get_number("bson", s, i, 4), LAMBDA n, next :
       IF negative(n) THEN ParseError ELSE ext("bson", s, next, size(n)))

-----------------------------------------------------------------------------
(* The markers of UBJSON; U, u, m and M are unsigned.                      *)

code == [T |-> 84, F |-> 70, Z |-> 90, N |-> 78, C |-> 67, S |-> 83, H |-> 72,
         i |-> 105, U |-> 85, I |-> 73, u |-> 117, l |-> 108, m |-> 109, L |-> 76, M |-> 77,
         h |-> 104, d |-> 100, D |-> 68, type |-> 36, count |-> 35]

integerWidth(f) ==
  (code.i :> 1) @@ (code.U :> 1) @@ (code.I :> 2) @@ (code.l :> 4) @@ (code.L :> 8)
    @@ (IF f = "bjdata" THEN (code.u :> 2) @@ (code.m :> 4) @@ (code.M :> 8) ELSE <<>>)
floatWidth(f) ==
  (code.d :> 4) @@ (code.D :> 8) @@ (IF f = "bjdata" THEN code.h :> 2 ELSE <<>>)
isSigned(marker) == marker \in {code.i, code.I, code.l, code.L}

get_ubjson_string(f, s, i) ==
  CASE i > Len(s) -> UnexpectedEof
    [] i <= Len(s) /\ s[i] \in DOMAIN integerWidth(f) ->
         then(get_number(f, s, i + 1, integerWidth(f)[s[i]]), LAMBDA n, next :
              get_string(s, next, IF isSigned(s[i]) /\ negative(n) THEN 0 ELSE size(n)))
    [] OTHER -> ParseError

(* get_ignore_noop: the position of the next byte that is no N.            *)
skip(s, i) == LET others == {j \in i..Len(s) : s[j] # code.N}
              IN  IF others = {} THEN Len(s) + 1 ELSE CHOOSE j \in others : \A k \in others : j <= k

(* A number of any length, as text.                                        *)
numberOf(tokens, next) ==
  IF Len(tokens) = 2 /\ tokens[1].type \in {"value_integer", "value_unsigned", "value_float"}
       /\ tokens[2].type = "end_of_input"
  THEN Got(scalarOf(tokens[1]), next) ELSE ParseError

highPrecision(b, next) == numberOf(tokensOf(b), next)

-----------------------------------------------------------------------------
(* The sizes of containers of UBJSON.                                      *)

Endless == -1
Unsized == [count |-> Endless, marker |-> 0, dims |-> <<>>]

excludedTypes == {code.T, code.F, code.Z, code.N, code.S, code.H, Open, Begin}

RECURSIVE get_ubjson_size_value(_, _, _, _, _), get_ubjson_size_type(_, _, _, _),
          dimensions(_, _, _, _, _)

(* What an array of dimensions says of the array it is of: a row is one.   *)
sizeOf(dims) ==
  LET row == Len(dims) = 1 \/ (Len(dims) = 2 /\ dims[1] = 1)
      product == FoldLeft(LAMBDA n, d : IF d > Huge \div n THEN Huge ELSE n * d, 1, dims)
  IN  CASE row -> [Unsized EXCEPT !.count = Last(dims)]
        [] ~row /\ dims # <<>> /\ \A i \in DOMAIN dims : dims[i] # 0 ->
             [Unsized EXCEPT !.dims = dims, !.count = product]
        [] OTHER -> [Unsized EXCEPT !.count = 0]

(* A size: its marker is known, or comes first.                            *)
get_ubjson_size_value(f, s, i, known, inside) ==
  LET j      == IF known = 0 THEN skip(s, i) ELSE i - 1
      marker == IF known = 0 THEN s[j] ELSE known
  IN  CASE known = 0 /\ j > Len(s) -> UnexpectedEof
        [] (known # 0 \/ j <= Len(s)) /\ marker \in DOMAIN integerWidth(f) ->
             then(get_number(f, s, j + 1, integerWidth(f)[marker]), LAMBDA n, next :
                  IF isSigned(marker) /\ negative(n) THEN ParseError
                  ELSE Got([Unsized EXCEPT !.count = size(n)], next))
        [] (known # 0 \/ j <= Len(s)) /\ marker = Open /\ f = "bjdata" /\ ~inside ->
             as(then(get_ubjson_size_type(f, s, j + 1, TRUE),
                     LAMBDA c, next : dimensions(f, s, next, c, <<>>)), sizeOf)
        [] OTHER -> ParseError

(* The elements of the array of dimensions.                                *)
dimensions(f, s, i, c, all) ==
  LET j == IF c.count = Endless THEN skip(s, i) ELSE i
      known == IF c.count = Endless THEN s[j] ELSE c.marker
      one == get_ubjson_size_value(f, s, IF c.count = Endless THEN j + 1 ELSE j, known, TRUE)
  IN  CASE c.count # Endless /\ (Len(all) = c.count \/ c.marker = code.N) -> Got(all, i)
        [] c.count = Endless /\ j > Len(s) -> UnexpectedEof
        [] c.count = Endless /\ j <= Len(s) /\ s[j] = Close -> Got(all, j + 1)
        [] OTHER -> then(one, LAMBDA n, next : dimensions(f, s, next, c, Append(all, n.count)))

(* Behind $: the type, which may be N, then # and the size.                *)
typed(f, s, i, inside) ==
  LET k == skip(s, i + 1)
  IN  CASE i <= Len(s) /\ f = "bjdata" /\ s[i] \in excludedTypes -> ParseError
        [] k <= Len(s) /\ ~(f = "bjdata" /\ s[i] \in excludedTypes) /\ s[k] # code.count -> ParseError
        [] k <= Len(s) /\ ~(f = "bjdata" /\ s[i] \in excludedTypes) /\ s[k] = code.count ->
             then(get_ubjson_size_value(f, s, k + 1, 0, FALSE), LAMBDA c, next :
                  IF c.dims # <<>> /\ inside THEN ParseError
                  ELSE Got([c EXCEPT !.marker = s[i]], next))
        [] OTHER -> UnexpectedEof

get_ubjson_size_type(f, s, i, inside) ==
  LET j == skip(s, i)
  IN  CASE j > Len(s) -> UnexpectedEof
        [] j <= Len(s) /\ s[j] = code.type -> typed(f, s, j + 1, inside)
        [] j <= Len(s) /\ s[j] = code.count ->
             then(get_ubjson_size_value(f, s, j + 1, 0, FALSE), LAMBDA c, next :
                  IF c.dims # <<>> THEN ParseError ELSE Got(c, next))
        [] OTHER -> Got(Unsized, j)

-----------------------------------------------------------------------------
(* Values and containers.  A container of any format has elements until as *)
(* many are read as it says or the byte comes that ends it.                *)

CborEnd == 255

Container(isObject, terminator, c) == [isObject |-> isObject, terminator |-> terminator] @@ c
Counted(isObject, n)        == Container(isObject, 0, [Unsized EXCEPT !.count = n])
Until(isObject, terminator) == Container(isObject, terminator, Unsized)

(* A value that is a container is at first only its head.                  *)
Opens(c, next) == [at |-> "container", container |-> c, next |-> next]

(* The annotation of an array of several dimensions, JData.                *)
intName  == <<105, 110, 116>>
uintName == <<117>> \o intName
typeNames == (code.C :> <<99, 104, 97, 114>>) @@ (code.D :> <<100, 111, 117, 98, 108, 101>>)
  @@ (code.d :> <<115, 105, 110, 103, 108, 101>>)
  @@ (code.i :> intName \o <<56>>) @@ (code.I :> intName \o <<49, 54>>)
  @@ (code.l :> intName \o <<51, 50>>) @@ (code.L :> intName \o <<54, 52>>)
  @@ (code.U :> uintName \o <<56>>) @@ (code.u :> uintName \o <<49, 54>>)
  @@ (code.m :> uintName \o <<51, 50>>) @@ (code.M :> uintName \o <<54, 52>>)

ArrayData == <<95, 65, 114, 114, 97, 121, 68, 97, 116, 97, 95>>
ArraySize == <<95, 65, 114, 114, 97, 121, 83, 105, 122, 101, 95>>
ArrayType == <<95, 65, 114, 114, 97, 121, 84, 121, 112, 101, 95>>

naturalNumber(n) == scalar("unsigned", strip(<<n \div 65536, (n \div 256) % 256, n % 256>>))

annotated(dims, marker, data) ==
  object(<<ArrayData, ArraySize, ArrayType>>,
         <<data, array([i \in DOMAIN dims |-> naturalNumber(dims[i])]), string(typeNames[marker])>>)

(* Of members with the same name the last stays.                           *)
build(c, all) ==
  CASE c.isObject -> objectOf(FoldLeft(LAMBDA g, m : (m.key :> m.value) @@ g, <<>>, all))
    [] ~c.isObject /\ c.dims = <<>> -> array([i \in DOMAIN all |-> all[i].value])
    [] OTHER -> annotated(c.dims, c.marker, array([i \in DOMAIN all |-> all[i].value]))

keyOf(f, s, i) ==
  CASE f \in Cbor -> get_cbor_string(s, i, 3)
    [] f \in Ubjson -> get_ubjson_string(f, s, i)
    [] f = "bson" -> get_bson_cstr(s, i + 1)
    [] OTHER -> get_msgpack_string(s, i)

(* A length of 2^64 - 1 is the one that stands for none.                   *)
cborContainer(s, i, isObject) ==
  IF low(s[i]) = 31 THEN Opens(Until(isObject, CborEnd), i + 1)
  ELSE then(argument(s, i), LAMBDA n, next :
         Opens(IF n = [k \in 1..8 |-> 255] THEN Until(isObject, CborEnd)
               ELSE Counted(isObject, size(n)), next))

(* -1 - n, computed in 64 bits.                                            *)
negativeOf(n) == IF Len(n) = 8 /\ negative(n) THEN unsignedOf(complement(n)) ELSE scalar("integer", strip(n))

RECURSIVE parse_cbor_internal(_, _, _)

tagged(f, s, i) ==
  CASE f = "cbor" -> ParseError
    [] f # "cbor" /\ low(s[i]) < 24 -> parse_cbor_internal(f, s, i + 1)
    [] f = "cbor_ignore" /\ low(s[i]) >= 24 ->
         then(argument(s, i), LAMBDA n, next : parse_cbor_internal(f, s, next))
    [] OTHER -> then(argument(s, i), LAMBDA n, next :
                  as(get_cbor_string(s, next, 2), LAMBDA b : binaryOf(b, n)))

tags == (198..212) \cup (216..219)

(* Kind 7.                                                                 *)
cborSimple(f, s, i) ==
  LET b == s[i]
  IN  CASE b \in {244, 245} -> Got(scalar(IF b = 244 THEN "false" ELSE "true", <<>>), i + 1)
        [] b = 246 -> Got(null, i + 1)
        [] b \in 249..251 -> float(f, s, i + 1, 2^(b - 248))
        [] OTHER -> ParseError

parse_cbor_internal(f, s, i) ==
  CASE i > Len(s) -> UnexpectedEof
    [] i <= Len(s) /\ kind(s[i]) = 0 -> as(argument(s, i), unsignedOf)
    [] i <= Len(s) /\ kind(s[i]) = 1 -> as(argument(s, i), negativeOf)
    [] i <= Len(s) /\ kind(s[i]) = 2 -> as(get_cbor_string(s, i, 2), binary)
    [] i <= Len(s) /\ kind(s[i]) = 3 -> as(get_cbor_string(s, i, 3), string)
    [] i <= Len(s) /\ kind(s[i]) \in {4, 5} -> cborContainer(s, i, kind(s[i]) = 5)
    [] i <= Len(s) /\ s[i] \in tags -> tagged(f, s, i)
    [] i <= Len(s) /\ kind(s[i]) = 7 -> cborSimple(f, s, i)
    [] OTHER -> ParseError

fixint   == 0..127
fixmap   == 128..143
fixarray == 144..159
negativeFixint == 224..255

parse_msgpack_internal(s, i) ==
  LET b == s[i]
      sized(isObject, width) ==
        then(get_number("msgpack", s, i + 1, width), LAMBDA n, next : Opens(Counted(isObject, size(n)), next))
  IN  CASE b \in fixint -> Got(unsignedOf(<<b>>), i + 1)
        [] b \in fixmap -> Opens(Counted(TRUE, b - 128), i + 1)
        [] b \in fixarray -> Opens(Counted(FALSE, b - 144), i + 1)
        [] b \in fixstr \cup (217..219) -> as(get_msgpack_string(s, i), string)
        [] b = 192 -> Got(null, i + 1)
        [] b \in {194, 195} -> Got(scalar(IF b = 194 THEN "false" ELSE "true", <<>>), i + 1)
        [] b \in (196..201) \cup (212..216) -> get_msgpack_binary(s, i)
        [] b \in {202, 203} -> float("msgpack", s, i + 1, 2^(b - 200))
        [] b \in 204..207 -> integer("msgpack", s, i + 1, 2^(b - 204), FALSE)
        [] b \in 208..211 -> integer("msgpack", s, i + 1, 2^(b - 208), TRUE)
        [] b \in {220, 221} -> sized(FALSE, 2^(b - 219))
        [] b \in {222, 223} -> sized(TRUE, 2^(b - 221))
        [] b \in negativeFixint -> Got(signedOf(<<b>>), i + 1)
        [] OTHER -> ParseError

(* The size of a document is read, and not compared with anything.         *)
document(s, i, isObject) ==
  then(get_number("bson", s, i, 4), LAMBDA n, next : Opens(Until(isObject, 0), next))

bsonElement(s, i, type) ==
  CASE type = 1  -> float("bson", s, i, 8)
    [] type = 2  -> as(get_bson_string(s, i), string)
    [] type = 3  -> document(s, i, TRUE)
    [] type = 4  -> document(s, i, FALSE)
    [] type = 5  -> get_bson_binary(s, i)
    [] type = 8  -> as(get_string(s, i, 1), LAMBDA b : scalar(IF b[1] = 0 THEN "false" ELSE "true", <<>>))
    [] type = 10 -> Got(null, i)
    [] type = 16 -> integer("bson", s, i, 4, TRUE)
    [] type = 18 -> integer("bson", s, i, 8, TRUE)
    [] OTHER -> ParseError

get_ubjson_array(f, s, i) ==
  then(get_ubjson_size_type(f, s, i, FALSE), LAMBDA c, next :
    IF c.dims # <<>> /\ c.marker \notin DOMAIN typeNames THEN ParseError
    ELSE Opens(Container(FALSE, Close, c), next))

get_ubjson_object(f, s, i) ==
  then(get_ubjson_size_type(f, s, i, FALSE), LAMBDA c, next :
    IF c.dims # <<>> THEN ParseError ELSE Opens(Container(TRUE, End, c), next))

get_ubjson_value(f, s, i, marker) ==
  CASE marker \in {code.T, code.F} -> Got(scalar(IF marker = code.T THEN "true" ELSE "false", <<>>), i)
    [] marker = code.Z -> Got(null, i)
    [] marker \in DOMAIN integerWidth(f) -> integer(f, s, i, integerWidth(f)[marker], isSigned(marker))
    [] marker \in DOMAIN floatWidth(f) -> float(f, s, i, floatWidth(f)[marker])
    [] marker = code.H ->
         then(get_ubjson_size_value(f, s, i, 0, TRUE), LAMBDA c, next :
           then(get_string(s, next, c.count), highPrecision))
    [] marker = code.C ->
         then(get_string(s, i, 1), LAMBDA b, next : IF b[1] > 127 THEN ParseError ELSE Got(string(b), next))
    [] marker = code.S -> as(get_ubjson_string(f, s, i), string)
    [] marker = Open  -> get_ubjson_array(f, s, i)
    [] marker = Begin -> get_ubjson_object(f, s, i)
    [] OTHER -> ParseError

-----------------------------------------------------------------------------
(* The elements of a container, one after the other.                       *)

(* The type of a value of UBJSON is known, or comes first.                 *)
parse_internal(f, s, i, known) ==
  LET j == IF f \in Ubjson THEN skip(s, i) ELSE i
  IN  CASE known = 0 /\ j > Len(s) -> UnexpectedEof
        [] j <= Len(s) /\ f \in Cbor -> parse_cbor_internal(f, s, i)
        [] j <= Len(s) /\ f = "msgpack" -> parse_msgpack_internal(s, i)
        [] OTHER -> get_ubjson_value(f, s, IF known = 0 THEN j + 1 ELSE i, IF known = 0 THEN s[j] ELSE known)

keyAt(f, s, j, c) == IF c.isObject \/ f = "bson" THEN keyOf(f, s, j) ELSE Got(<<>>, j)

(* The characters of an array of dimensions are its numbers.              *)
elementMarker(c) == IF c.dims # <<>> /\ c.marker = code.C THEN code.U ELSE c.marker

(* The value of the element that begins at `begin', at i.                  *)
valueOf(f, s, begin, i, c) ==
  IF f = "bson" THEN bsonElement(s, i, s[begin]) ELSE parse_internal(f, s, i, elementMarker(c))

RECURSIVE elements(_, _, _, _, _)
contents(f, s, r) == IF r.at = "container" THEN elements(f, s, r.next, r.container, <<>>) ELSE r

valueAfter(f, s, j, c, k) ==
  IF k.at # "value" THEN k
  ELSE as(contents(f, s, valueOf(f, s, j, k.next, c)), LAMBDA v : [key |-> k.value, value |-> v])

partAt(f, s, j, c) == valueAfter(f, s, j, c, keyAt(f, s, j, c))

nextElement(f, s, i, c) ==
  LET j == IF f \in Ubjson /\ c.count = Endless THEN skip(s, i) ELSE i
  IN  CASE c.count = Endless /\ j > Len(s) -> UnexpectedEof
        [] c.count = Endless /\ j <= Len(s) /\ s[j] = c.terminator -> [at |-> "end", next |-> j + 1]
        [] OTHER -> partAt(f, s, j, c)

elementsAfter(f, s, c, all, r) ==
  CASE r.at = "value" -> elements(f, s, r.next, c, Append(all, r.value))
    [] r.at = "end" -> Got(build(c, all), r.next)
    [] OTHER -> r

elements(f, s, i, c, all) ==
  IF Len(all) = c.count \/ (c.count # Endless /\ c.marker = code.N /\ ~c.isObject)
  THEN Got(build(c, all), i)
  ELSE elementsAfter(f, s, c, all, nextElement(f, s, i, c))

(* from_cbor, from_msgpack, ..., strict: nothing may follow the value.     *)
strict(f, s, r) ==
  IF r.at = "value" /\ (IF f \in Ubjson THEN skip(s, r.next) ELSE r.next) <= Len(s)
  THEN ParseError ELSE r

sax_parse(f, s) ==
  strict(f, s, contents(f, s, IF f = "bson" THEN document(s, 1, TRUE) ELSE parse_internal(f, s, 1, 0)))
=============================================================================
