---------------------------- MODULE BinaryWriter ----------------------------
(***************************************************************************)
(* binary_writer of json.hpp, for the formats of BinaryReader.  The        *)
(* optimizations of UBJSON and BJData, use_count and use_type, are one     *)
(* argument: "plain", "count" or "type".                                   *)
(***************************************************************************)
EXTENDS BinaryReader

concatenated(parts) == FoldLeft(LAMBDA all, p : all \o p, <<>>, parts)
each(Op(_), s) == concatenated([i \in DOMAIN s |-> Op(s[i])])

write_number(f, b, width) ==
  IF f \in LittleEndian THEN Reverse(padded(b, width)) ELSE padded(b, width)

(* An integer, in two's complement.                                        *)
write_integer(f, n, width) ==
  IF n.type = "integer" THEN LET b == complement(padded(n.text, width))
                             IN  IF f \in LittleEndian THEN Reverse(b) ELSE b
  ELSE write_number(f, n.text, width)

integerTypes == {"integer", "unsigned"}

(* The float with the value of a double, were there one.                   *)
zeroBits(n) == [k \in 1..n |-> 0]

narrowed(exponent, fraction) ==
  CASE exponent \in 1..254 -> bitsOfNatural(exponent, 8) \o fraction
    [] exponent \in -22..0 -> zeroBits(8 - exponent) \o <<1>> \o fraction
    [] OTHER -> zeroBits(31)

singleOf(bits) ==
  bytesOf(<<bits[1]>> \o SubSeq(narrowed(natural(SubSeq(bits, 2, 12)) - 896, SubSeq(bits, 13, 64)), 1, 31))

single(d) == singleOf(bitsOf(d))

compact(f, d, s, ofFloat, ofDouble) ==
  IF double(s) = d THEN <<ofFloat>> \o write_number(f, s, 4) ELSE <<ofDouble>> \o write_number(f, d, 8)

write_compact_float(f, d, ofFloat, ofDouble) == compact(f, d, single(d), ofFloat, ofDouble)

isInfinite(d) == d[1] \in {127, 255} /\ Tail(d) = <<240, 0, 0, 0, 0, 0, 0>>

(* The smallest width of those the format has.                             *)
widthOf(b, widths) == CHOOSE w \in widths : Len(b) <= w /\ \A v \in widths : Len(b) <= v => w <= v

countOf(s) == strip(<<Len(s) \div 65536, (Len(s) \div 256) % 256, Len(s) % 256>>)
logarithm == (1 :> 0) @@ (2 :> 1) @@ (4 :> 2) @@ (8 :> 3)

-----------------------------------------------------------------------------
(* CBOR.                                                                   *)

cborHead_Long(k, b) ==
  LET w == widthOf(b, {1, 2, 4, 8})
  IN  IF b = <<>> \/ (Len(b) = 1 /\ b[1] < 25) THEN <<32 * k + (IF b = <<>> THEN 0 ELSE b[1])>>
      ELSE <<32 * k + 24 + logarithm[w]>> \o padded(b, w)

cborHead(k, b) ==
  LET w == widthOf(b, {1, 2, 4, 8})
  IN  IF b = <<>> \/ (Len(b) = 1 /\ b[1] < 24) THEN <<32 * k + (IF b = <<>> THEN 0 ELSE b[1])>>
      ELSE <<32 * k + 24 + logarithm[w]>> \o padded(b, w)

(* A tag always has its own byte.                                          *)
cborTag(b) == LET w == widthOf(b, {1, 2, 4, 8}) IN <<216 + logarithm[w]>> \o padded(b, w)

cborFloat(d) ==
  CASE d = NaN -> <<249, 126, 0>>
    [] isInfinite(d) -> <<249, IF d[1] = 127 THEN 124 ELSE 252, 0>>
    [] OTHER -> write_compact_float("cbor", d, 250, 251)

cborScalar(v) ==
  CASE v.type = "null" -> <<246>>
    [] v.type \in {"true", "false"} -> <<IF v.type = "true" THEN 245 ELSE 244>>
    [] v.type = "unsigned" -> cborHead(0, v.text)
    [] v.type = "integer"  -> cborHead(1, v.text)
    [] v.type = "float"    -> cborFloat(v.text)
    [] v.type = "string"   -> cborHead(3, countOf(v.text)) \o v.text

RECURSIVE write_cbor(_)
write_cbor(v) ==
  CASE v.type = "array"  -> cborHead(4, countOf(v.elements)) \o each(write_cbor, v.elements)
    [] v.type = "binary" ->
         (IF v.keys = <<>> THEN <<>> ELSE cborTag(v.keys[1])) \o cborHead(2, countOf(v.text)) \o v.text
    [] v.type = "object" ->
         cborHead(5, countOf(v.keys))
           \o concatenated([i \in DOMAIN v.keys |-> write_cbor(string(v.keys[i])) \o write_cbor(v.elements[i])])
    [] OTHER -> cborScalar(v)

-----------------------------------------------------------------------------
(* MessagePack.                                                            *)

(* The short form for fewer than `limit', else the first of the longer     *)
(* ones, whose widths are given, that is wide enough.                      *)
msgpackHead(b, short, limit, first, widths) ==
  LET w == widthOf(b, widths)
      n == IF b = <<>> THEN 0 ELSE b[1]
  IN  IF Len(b) <= 1 /\ n < limit THEN <<short + n>>
      ELSE <<first + Cardinality({v \in widths : v < w})>> \o padded(b, w)

msgpackInteger(v) ==
  LET w == CHOOSE x \in {1, 2, 4, 8} : fits(v, x, TRUE) /\ \A y \in {1, 2, 4, 8} : fits(v, y, TRUE) => x <= y
  IN  CASE v.type = "unsigned" -> msgpackHead(v.text, 0, 128, 204, {1, 2, 4, 8})
        [] v.type = "integer" /\ fits(v, 1, TRUE) /\ (v.text # <<>> => v.text[1] < 32) ->
             write_integer("msgpack", v, 1)
        [] OTHER -> <<208 + logarithm[w]>> \o write_integer("msgpack", v, w)

(* The subtype is an int8.                                                 *)
msgpackBinary(v) ==
  LET n    == countOf(v.text)
      size_ == Len(v.text)
  IN  CASE v.keys = <<>> -> msgpackHead(n, 0, 0, 196, {1, 2, 4}) \o v.text
        [] v.keys # <<>> /\ size_ \in {1, 2, 4, 8, 16} ->
             <<CHOOSE c \in 212..216 : 2^(c - 212) = size_>> \o padded(v.keys[1], 1) \o v.text
        [] OTHER -> msgpackHead(n, 0, 0, 199, {1, 2, 4}) \o padded(v.keys[1], 1) \o v.text

msgpackScalar(v) ==
  CASE v.type = "null" -> <<192>>
    [] v.type \in {"true", "false"} -> <<IF v.type = "true" THEN 195 ELSE 194>>
    [] v.type \in integerTypes -> msgpackInteger(v)
    [] v.type = "float"  -> write_compact_float("msgpack", v.text, 202, 203)
    [] v.type = "string" -> msgpackHead(countOf(v.text), 160, 32, 217, {1, 2, 4}) \o v.text

RECURSIVE write_msgpack(_)
write_msgpack(v) ==
  CASE v.type = "array"  -> msgpackHead(countOf(v.elements), 144, 16, 220, {2, 4})
                              \o each(write_msgpack, v.elements)
    [] v.type = "binary" -> msgpackBinary(v)
    [] v.type = "object" ->
         msgpackHead(countOf(v.keys), 128, 16, 222, {2, 4})
           \o concatenated([i \in DOMAIN v.keys |-> write_msgpack(string(v.keys[i])) \o write_msgpack(v.elements[i])])
    [] OTHER -> msgpackScalar(v)

-----------------------------------------------------------------------------
(* BSON.  The sizes of documents are computed before they are written.     *)

index(i) == digits(naturalNumber(i - 1).text)
names(v) == IF v.type = "object" THEN v.keys ELSE [i \in DOMAIN v.elements |-> index(i)]
isInt32(v) == fits(v, 4, TRUE)

RECURSIVE calc_bson_element_size(_, _)
documentSize(v) ==
  4 + FoldLeft(LAMBDA n, i : n + calc_bson_element_size(names(v)[i], v.elements[i]), 0,
               [i \in DOMAIN v.elements |-> i]) + 1

calc_bson_element_size(name, v) ==
  LET header == 1 + Len(name) + 1
  IN  CASE v.type \in {"object", "array"}  -> header + documentSize(v)
        [] v.type \in {"binary", "string"} -> header + 4 + Len(v.text) + 1
        [] v.type \in {"true", "false"}    -> header + 1
        [] v.type = "float" -> header + 8
        [] v.type \in integerTypes -> header + (IF isInt32(v) THEN 4 ELSE 8)
        [] v.type = "null"  -> header

int32(n) == write_number("bson", strip(<<n \div 65536, (n \div 256) % 256, n % 256>>), 4)

RECURSIVE write_bson_element(_, _)
write_bson_object(v) ==
  int32(documentSize(v))
    \o concatenated([i \in DOMAIN v.elements |-> write_bson_element(names(v)[i], v.elements[i])]) \o <<0>>

write_bson_element(name, v) ==
  LET entry(type, payload) == <<type>> \o name \o <<0>> \o payload
  IN  CASE v.type = "object" -> entry(3, write_bson_object(v))
        [] v.type = "array"  -> entry(4, write_bson_object(v))
        [] v.type = "binary" ->
             entry(5, int32(Len(v.text)) \o padded(IF v.keys = <<>> THEN <<>> ELSE v.keys[1], 1) \o v.text)
        [] v.type \in {"true", "false"} -> entry(8, <<IF v.type = "true" THEN 1 ELSE 0>>)
        [] v.type = "float"  -> entry(1, Reverse(v.text))
        [] v.type \in integerTypes /\ isInt32(v)  -> entry(16, write_integer("bson", v, 4))
        [] v.type \in integerTypes /\ ~isInt32(v) -> entry(18, write_integer("bson", v, 8))
        [] v.type = "string" -> entry(2, int32(Len(v.text) + 1) \o v.text \o <<0>>)
        [] v.type = "null"   -> entry(10, <<>>)

(* Exceptions 407 and 409: nothing is returned of the whole value.         *)
RECURSIVE hasBson(_)
hasBson(v) ==
  /\ v.type = "unsigned" => fits(v, 8, TRUE)
  /\ v.type = "object" => \A i \in DOMAIN v.keys : 0 \notin Range(v.keys[i])
  /\ \A i \in DOMAIN v.elements : hasBson(v.elements[i])

-----------------------------------------------------------------------------
(* UBJSON and BJData.                                                      *)

integerOrder(f) ==
  IF f = "bjdata" THEN <<code.i, code.U, code.I, code.u, code.l, code.m, code.L, code.M>>
  ELSE <<code.i, code.U, code.I, code.l, code.L>>

integerPrefix(f, n) ==
  SelectSeq(Append(integerOrder(f), code.H),
            LAMBDA m : m = code.H \/ fits(n, integerWidth(f)[m], isSigned(m)))[1]

ubjson_prefix(f, v) ==
  CASE v.type = "null" -> code.Z
    [] v.type = "true" -> code.T
    [] v.type = "false" -> code.F
    [] v.type \in integerTypes -> integerPrefix(f, v)
    [] v.type = "float" -> code.D
    [] v.type = "string" -> code.S
    [] v.type \in {"array", "binary"} -> Open
    [] v.type = "object" -> Begin

prefixed(add_prefix, marker, b) == (IF add_prefix THEN <<marker>> ELSE <<>>) \o b

RECURSIVE write_number_with_ubjson_prefix(_, _, _)
ubjsonCount(f, s) == write_number_with_ubjson_prefix(f, Integer("unsigned", countOf(s)), TRUE)
withCount(f, s)   == ubjsonCount(f, s) \o s

numberAs(f, n, marker, add_prefix) ==
  prefixed(add_prefix, marker, IF marker = code.H THEN withCount(f, dump_integer(n))
                               ELSE write_integer(f, n, integerWidth(f)[marker]))

write_number_with_ubjson_prefix(f, n, add_prefix) ==
  numberAs(f, n, integerPrefix(f, n), add_prefix)

(* An annotated array is written as one, if its data are as many as its    *)
(* dimensions say; its parts are taken to have the types they should.      *)
isNdarray(f, v) ==
  /\ f = "bjdata" /\ v.keys = <<ArrayData, ArraySize, ArrayType>>
  /\ v.elements[3].text \in Range(typeNames)
  /\ LET dims == [i \in DOMAIN v.elements[2].elements |-> size(v.elements[2].elements[i].text)]
     IN  Len(v.elements[1].elements)
           = IF dims = <<>> THEN 0 ELSE FoldLeft(LAMBDA n, d : n * d, 1, dims)

ndarrayElement(marker, v) ==
  CASE marker = code.d -> write_number("bjdata", single(v.text), 4)
    [] marker = code.D -> write_number("bjdata", v.text, 8)
    [] marker = code.C -> write_integer("bjdata", v, 1)
    [] OTHER -> write_integer("bjdata", v, integerWidth("bjdata")[marker])

(* The container's elements share a type that need not be repeated.        *)
sharedType_Any(f, o, v) ==
  LET first == ubjson_prefix(f, v.elements[1])
  IN  /\ o = "type" /\ v.elements # <<>>
      /\ \A i \in DOMAIN v.elements : ubjson_prefix(f, v.elements[i]) = first

sharedType(f, o, v) ==
  LET first == ubjson_prefix(f, v.elements[1])
  IN  /\ o = "type" /\ v.elements # <<>>
      /\ \A i \in DOMAIN v.elements : ubjson_prefix(f, v.elements[i]) = first
      /\ ~(f = "bjdata" /\ first \in excludedTypes)

containerSize(f, o, v) ==
  (IF sharedType(f, o, v) THEN <<code.type, ubjson_prefix(f, v.elements[1])>> ELSE <<>>)
    \o (IF o = "plain" THEN <<>> ELSE <<code.count>> \o ubjsonCount(f, v.elements))

ended(o, terminator) == IF o = "plain" THEN <<terminator>> ELSE <<>>

ubjsonBinary(f, o, b) ==
  (IF o = "type" /\ b # <<>> THEN <<code.type, code.U>> ELSE <<>>)
    \o (IF o = "plain" THEN <<>> ELSE <<code.count>> \o ubjsonCount(f, b))
    \o (IF o = "type" THEN b ELSE each(LAMBDA x : <<code.U, x>>, b)) \o ended(o, Close)

ubjsonScalar(f, v, add_prefix) ==
  CASE v.type \in {"null", "true", "false"} -> prefixed(add_prefix, ubjson_prefix(f, v), <<>>)
    [] v.type \in integerTypes -> write_number_with_ubjson_prefix(f, v, add_prefix)
    [] v.type = "float"  -> prefixed(add_prefix, code.D, write_number(f, v.text, 8))
    [] v.type = "string" -> prefixed(add_prefix, code.S, withCount(f, v.text))

RECURSIVE write_ubjson(_, _, _, _)
write_ubjson(f, o, v, add_prefix) ==
  LET element(i) == write_ubjson(f, o, v.elements[i], ~sharedType(f, o, v))
      marker     == CHOOSE m \in DOMAIN typeNames : typeNames[m] = v.elements[3].text
  IN  CASE v.type = "binary" -> prefixed(add_prefix, Open, ubjsonBinary(f, o, v.text))
        [] v.type = "array"  ->
             prefixed(add_prefix, Open, containerSize(f, o, v)
               \o concatenated([i \in DOMAIN v.elements |-> element(i)]) \o ended(o, Close))
        [] v.type = "object" /\ isNdarray(f, v) ->
             <<Open, code.type, marker, code.count>> \o write_ubjson(f, o, v.elements[2], TRUE)
               \o each(LAMBDA x : ndarrayElement(marker, x), v.elements[1].elements)
        [] v.type = "object" /\ ~isNdarray(f, v) ->
             prefixed(add_prefix, Begin, containerSize(f, o, v)
               \o concatenated([i \in DOMAIN v.keys |->
                    withCount(f, v.keys[i]) \o element(i)]) \o ended(o, End))
        [] OTHER -> ubjsonScalar(f, v, add_prefix)

-----------------------------------------------------------------------------
(* to_cbor, to_msgpack, to_bson, to_ubjson and to_bjdata.                  *)

isWritable(f, v) == f = "bson" => v.type = "object" /\ hasBson(v)

to_binary(f, o, v) ==
  CASE f \in Cbor -> write_cbor(v)
    [] f = "msgpack" -> write_msgpack(v)
    [] f = "bson" -> write_bson_object(v)
    [] OTHER -> write_ubjson(f, o, v, TRUE)
=============================================================================
