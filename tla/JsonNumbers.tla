---------------------------- MODULE JsonNumbers ----------------------------
(***************************************************************************)
(* How dump() of json.hpp writes numbers.                                  *)
(***************************************************************************)
EXTENDS JsonLexer

-----------------------------------------------------------------------------
(* Integers.                                                               *)

(* The value of a number below 10000, and 10000 for every other.           *)
belowTenThousand(x) ==
  LET n == IF Len(x) <= 2 THEN FoldLeft(LAMBDA m, b : m * 256 + b, 0, x) ELSE 10000
  IN  IF n < 10000 THEN n ELSE 10000

RECURSIVE count_digits_UpToTen(_), count_digits(_)
count_digits_UpToTen(x) ==
  LET n == belowTenThousand(x)
  IN  CASE n <= 10 -> 1
        [] n \in 11..99 -> 2
        [] n \in 100..999 -> 3
        [] n \in 1000..9999 -> 4
        [] OTHER -> 4 + count_digits_UpToTen(divide(x, 10000).quotient)

count_digits(x) ==
  LET n == belowTenThousand(x)
  IN  CASE n < 10 -> 1
        [] n \in 10..99 -> 2
        [] n \in 100..999 -> 3
        [] n \in 1000..9999 -> 4
        [] OTHER -> 4 + count_digits(divide(x, 10000).quotient)

(* -(x + 1) is the magnitude of a negative x, and 1 is added in Bits bits. *)
remove_sign(b) == LET a == plusOne(b) IN IF Len(a) * 8 > Bits THEN strip(Tail(a)) ELSE a

twoDigits(n) == <<48 + (n \div 10), 48 + (n % 10)>>

(* The digits, two at a time from the last.                                *)
RECURSIVE digits(_)
digits(x) ==
  LET n == belowTenThousand(x)
      d == divide(x, 100)
  IN  CASE n >= 100 -> digits(d.quotient) \o twoDigits(d.rest)
        [] n \in 10..99 -> twoDigits(n)
        [] OTHER -> <<48 + n>>

(* number_buffer is written backwards from n_chars, the sign to its front.  *)
backwards(text, n_chars, negative) ==
  [i \in 1..n_chars |->
     CASE n_chars - i < Len(text) -> text[Len(text) - (n_chars - i)]
       [] n_chars - i >= Len(text) /\ i = 1 /\ negative -> Minus
       [] OTHER -> 0]

dump_integer(x) ==
  CASE x.text = <<>> /\ x.type # "integer" -> <<48>>
    [] x.text # <<>> /\ x.type # "integer" -> backwards(digits(x.text), count_digits(x.text), FALSE)
    [] OTHER -> LET abs_value == remove_sign(x.text)
                IN  backwards(digits(abs_value), count_digits(abs_value) + 1, TRUE)

-----------------------------------------------------------------------------
(* Floats.  A float is known by its text: the digits that stand for it,    *)
(* without zeros at their ends, and the power of ten they count.  They are *)
(* the shortest if they are at most 15, and then grisu2 finds them again.  *)

kMinExp == -4
kMaxExp == 15   \* digits10 of a double

(* Where the first of some characters is, or the end of s.                 *)
firstOf(s, chars) ==
  LET found == {i \in DOMAIN s : s[i] \in chars}
  IN  IF found = {} THEN Len(s) + 1 ELSE CHOOSE i \in found : \A j \in found : i <= j

decimal(s) == FoldLeft(LAMBDA n, c : n * 10 + (c - 48), 0, s)

exponentOf(s) ==
  CASE s = <<>> -> 0
    [] s # <<>> /\ s[1] = Minus -> -decimal(Tail(s))
    [] s # <<>> /\ s[1] = Plus  -> decimal(Tail(s))
    [] OTHER -> decimal(s)

grisu2(text) ==
  LET negative == text[1] = Minus
      number   == IF negative THEN Tail(text) ELSE text
      e        == firstOf(number, {LowerE, UpperE})
      point    == firstOf(number, {Dot, LowerE, UpperE})
      fraction == SubSeq(number, point + 1, e - 1)
      all      == SubSeq(number, 1, point - 1) \o fraction
      head     == firstOf(all, 49..57)
      behind   == firstOf(Reverse(all), 49..57) - 1
  IN  [negative |-> negative, digits |-> SubSeq(all, head, Len(all) - behind),
       decimal_exponent |->
         IF head > Len(all) THEN 0
         ELSE exponentOf(SubSeq(number, e + 1, Len(number))) - Len(fraction) + behind]

zeroDigits(n) == [i \in 1..n |-> 48]

append_exponent(e) ==
  LET k == IF e < 0 THEN -e ELSE e
  IN  <<IF e < 0 THEN Minus ELSE Plus>>
        \o (IF k < 100 THEN twoDigits(k) ELSE <<48 + (k \div 100)>> \o twoDigits(k % 100))

(* n is where the point is, seen from the first of the k digits.           *)
format_buffer(buf, decimal_exponent) ==
  LET k == Len(buf)
      n == k + decimal_exponent
  IN  CASE k <= n /\ n <= kMaxExp -> buf \o zeroDigits(n - k) \o <<Dot, 48>>
        [] k > n /\ 0 < n /\ n <= kMaxExp -> SubSeq(buf, 1, n) \o <<Dot>> \o SubSeq(buf, n + 1, k)
        [] kMinExp < n /\ n <= 0 -> <<48, Dot>> \o zeroDigits(-n) \o buf
        [] OTHER -> <<buf[1]>> \o (IF k = 1 THEN <<>> ELSE <<Dot>> \o Tail(buf))
                      \o <<LowerE>> \o append_exponent(n - 1)

to_chars(v) ==
  (IF v.negative THEN <<Minus>> ELSE <<>>)
    \o (IF v.digits = <<>> THEN <<48, Dot, 48>> ELSE format_buffer(v.digits, v.decimal_exponent))

(* What is not finite is null.                                             *)
dump_float(text) == IF text = <<>> THEN null_literal ELSE to_chars(grisu2(text))

=============================================================================
