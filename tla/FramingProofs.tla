---------------------------- MODULE FramingProofs ----------------------------
(***************************************************************************)
(* Proofs about Framing, for every size of a byte, of the buffers and of   *)
(* the bodies.  What a stream of bytes spells is said by the places at     *)
(* which it is cut into frames, so that nothing is defined by recursion.   *)
(***************************************************************************)
EXTENDS Framing, FiniteSetTheorems, SequenceTheorems, TLAPS

Bytes == Seq(0..Base - 1)

(* c cuts the stream s into the frames of bodies, each of at most m bytes. *)
Cuts(c, s, bodies, m) ==
  /\ c \in [0..Len(bodies) -> Nat]
  /\ c[0] = 0 /\ c[Len(bodies)] = Len(s)
  /\ \A i \in 1..Len(bodies) :
       /\ c[i] = c[i - 1] + Len(Frames(bodies[i]))
       /\ \A k \in 1..Len(Frames(bodies[i])) :
            s[c[i - 1] + k] = Frames(bodies[i])[k]
  /\ \A i \in 0..Len(bodies) : \A j \in i..Len(bodies) : c[i] <= c[j]
  /\ \A i \in 0..Len(bodies) : Len(s) - c[i] <= (Len(bodies) - i) * m

Spells(s, bodies, m) == \E c : Cuts(c, s, bodies, m)

-----------------------------------------------------------------------------
(* The inductive invariant.                                                *)

TypeInv ==
  /\ TypeOK
  /\ hub \in [at : {"poll", "receive", "sendSize", "sendBody", "closed", "failed"},
              got : Bytes]
  /\ peer \in [at : {"idle", "write", "read", "closed"}, got : Bytes]
  /\ asked \in Seq(Body) /\ owed \in Seq(Body)

(* How far each call can have come. *)
CallInv ==
  /\ hub.at = "receive" => missing(hub) >= 0
  /\ hub.at = "sendSize" => Len(hub.got) <= 2 /\ Len(hub.got) + Len(hubOut) >= 2
  /\ hub.at \in {"poll", "receive", "closed"} => hubOut = <<>>
  /\ hub.at = "failed" => end = "reset"
  /\ peer.at # "read" => peer.got = <<>>
  /\ missing(peer) >= 0
  /\ peer.at # "write" <=> peerOut = <<>>
  /\ end # "open" <=> peer.at = "closed"

(* What the hub has received of a request, what is on its way and what the *)
(* peer has still to write, or what was lost with it, spell the requests   *)
(* the peer has begun.                                                     *)
heard == IF hub.at = "receive" THEN hub.got ELSE <<>>

longest == IF RequestsFit THEN Capacity \div MaxOutstanding ELSE Base * Base + 1

AskedInv ==
  hub.at \notin {"closed", "failed"} =>
    \E unsent \in Bytes :
      /\ Spells(heard \o (toHub \o unsent), asked, longest)
      /\ end = "open" => unsent = peerOut

(* What the peer has read of a frame, what is on its way and what the hub  *)
(* has still to send spell the bodies owed that are not in the backlog.    *)
OwedInv ==
  end = "open" =>
    \E sent \in Seq(Body) :
      /\ Spells(peer.got \o (toPeer \o hubOut), sent, Base * Base + 1)
      /\ owed = sent \o backlog

(* Every request is either not received yet or its answer not read yet.    *)
responsesIn(bodies) == Cardinality({i \in 1..Len(bodies) : bodies[i] = Response})

CountInv ==
  end = "open" => /\ outstanding <= MaxOutstanding
                  /\ outstanding = Len(asked) + responsesIn(owed)

FramingInv == TypeInv /\ CallInv /\ AskedInv /\ OwedInv /\ CountInv

-----------------------------------------------------------------------------
(* Sequences.                                                              *)

LEMMA CutSequence ==
  ASSUME NEW S, NEW s \in Seq(S), NEW n \in 0..Len(s)
  PROVE  /\ first(n, s) \in Seq(S) /\ Len(first(n, s)) = n
         /\ rest(n, s) \in Seq(S) /\ Len(rest(n, s)) = Len(s) - n
         /\ \A i \in 1..n : first(n, s)[i] = s[i]
         /\ \A i \in 1..Len(s) - n : rest(n, s)[i] = s[n + i]
         /\ s = first(n, s) \o rest(n, s)
<1>0. Len(s) \in Nat /\ \A i \in 1..Len(s) : s[i] \in S
  BY LenProperties, ElementOfSeq
<1>1. /\ first(n, s) \in Seq(S) /\ Len(first(n, s)) = n
      /\ \A i \in 1..n : first(n, s)[i] = s[i]
  <2>1. \A i \in 1..n : s[i] \in S
    BY <1>0
  <2>. QED
    BY <2>1, <1>0, SubSeqProperties DEF first
<1>2. /\ rest(n, s) \in Seq(S) /\ Len(rest(n, s)) = Len(s) - n
      /\ \A i \in 1..Len(s) - n : rest(n, s)[i] = s[n + i]
  <2>1. \A i \in n + 1..Len(s) : s[i] \in S
    BY <1>0
  <2>2. n \in Nat /\ n <= Len(s) /\ n + 1 \in Int /\ Len(s) \in Int
    BY <1>0
  <2>3. /\ rest(n, s) \in Seq(S)
        /\ Len(rest(n, s)) = IF n + 1 <= Len(s) THEN Len(s) - (n + 1) + 1 ELSE 0
        /\ \A i \in 1..Len(s) - (n + 1) + 1 : rest(n, s)[i] = s[n + 1 + i - 1]
    BY <2>1, <2>2, SubSeqProperties DEF rest
  <2>4. Len(rest(n, s)) = Len(s) - n
    BY <2>3, <2>2, <1>0
  <2>5. ASSUME NEW i \in 1..Len(s) - n PROVE rest(n, s)[i] = s[n + i]
    <3>1. i \in 1..Len(s) - (n + 1) + 1 /\ n + 1 + i - 1 = n + i
      BY <2>2, <1>0
    <3>. QED
      BY <3>1, <2>3
  <2>. QED
    BY <2>3, <2>4, <2>5
<1>3. /\ first(n, s) \o rest(n, s) \in Seq(S)
      /\ Len(first(n, s) \o rest(n, s)) = Len(s)
      /\ \A i \in 1..Len(s) : (first(n, s) \o rest(n, s))[i] = s[i]
  <2> DEFINE f == first(n, s)  r == rest(n, s)
  <2>1. /\ f \o r \in Seq(S) /\ Len(f \o r) = Len(f) + Len(r)
        /\ \A i \in 1..Len(f) + Len(r) :
             (f \o r)[i] = IF i <= Len(f) THEN f[i] ELSE r[i - Len(f)]
    BY <1>1, <1>2, ConcatProperties
  <2> HIDE DEF f, r
  <2>2. /\ Len(f) = n /\ Len(r) = Len(s) - n
        /\ \A i \in 1..n : f[i] = s[i]
        /\ \A i \in 1..Len(s) - n : r[i] = s[n + i]
    BY <1>1, <1>2 DEF f, r
  <2>3. ASSUME NEW i \in 1..Len(s) PROVE (f \o r)[i] = s[i]
    <3>1. CASE i <= n
      BY <3>1, <2>1, <2>2, <1>0
    <3>2. CASE ~(i <= n)
      <4>1. i - n \in 1..Len(s) - n /\ n + (i - n) = i
        BY <3>2, <1>0
      <4>. QED
        BY <4>1, <3>2, <2>1, <2>2, <1>0
    <3>. QED
      BY <3>1, <3>2
  <2>. QED
    BY <2>1, <2>2, <2>3, <1>0 DEF f, r
<1>. QED
  BY <1>1, <1>2, <1>3, SeqEqual

-----------------------------------------------------------------------------
(* Frames.                                                                 *)

LEMMA Lengths ==
  ASSUME NEW n \in Nat, n < Base * Base
  PROVE  /\ n \div Base \in 0..Base - 1 /\ n % Base \in 0..Base - 1
         /\ (n \div Base) * Base + (n % Base) = n
<1>1. Base \in Nat /\ Base > 1
  BY FramingAssumption
<1>2. n \div Base \in Nat /\ n % Base \in 0..Base - 1
  BY <1>1
<1>3. (n \div Base) * Base + (n % Base) = n
  BY <1>1
<1>4. n \div Base < Base
  BY <1>1, <1>2, <1>3
<1>. QED
  BY <1>1, <1>2, <1>3, <1>4

LEMMA FrameShape ==
  ASSUME NEW b \in Body
  PROVE  /\ Frames(b) \in Bytes /\ b \in Bytes /\ Len(b) \in Nat
         /\ Len(Frames(b)) = Len(b) + 2
         /\ size(Frames(b)) = Len(b)
         /\ rest(2, Frames(b)) = b
<1>1. b \in Bytes /\ Len(b) \in Nat /\ Len(b) < Base * Base
  BY FramingAssumption, LenProperties DEF Bytes
<1> DEFINE h == Len(b) \div Base  l == Len(b) % Base
<1>2. h \in 0..Base - 1 /\ l \in 0..Base - 1 /\ h * Base + l = Len(b)
  BY <1>1, Lengths
<1> HIDE DEF h, l
<1>3. <<h, l>> \in Bytes /\ Len(<<h, l>>) = 2
  BY <1>2 DEF Bytes
<1>4. Frames(b) = <<h, l>> \o b
  BY DEF Frames, h, l
<1>5. /\ <<h, l>> \o b \in Bytes /\ Len(<<h, l>> \o b) = 2 + Len(b)
      /\ \A i \in 1..2 + Len(b) :
           (<<h, l>> \o b)[i] = IF i <= 2 THEN <<h, l>>[i] ELSE b[i - 2]
  BY <1>1, <1>3, ConcatProperties DEF Bytes
<1>6. Frames(b)[1] = h /\ Frames(b)[2] = l
  BY <1>1, <1>4, <1>5
<1>7. rest(2, Frames(b)) = b
  <2>1. 2 \in 0..Len(Frames(b))
    BY <1>1, <1>4, <1>5
  <2>0. Frames(b) \in Seq(0..Base - 1)
    BY <1>4, <1>5 DEF Bytes
  <2>2. /\ rest(2, Frames(b)) \in Bytes
        /\ Len(rest(2, Frames(b))) = Len(Frames(b)) - 2
        /\ \A i \in 1..Len(Frames(b)) - 2 : rest(2, Frames(b))[i] = Frames(b)[2 + i]
    BY <2>0, <2>1, CutSequence DEF Bytes
  <2>3. Len(rest(2, Frames(b))) = Len(b)
    BY <2>2, <1>1, <1>4, <1>5
  <2>4. ASSUME NEW i \in 1..Len(b) PROVE rest(2, Frames(b))[i] = b[i]
    <3>1. 2 + i \in 1..2 + Len(b) /\ ~(2 + i <= 2) /\ 2 + i - 2 = i
          /\ i \in 1..Len(Frames(b)) - 2
      BY <1>1, <1>4, <1>5
    <3>. QED
      BY <3>1, <2>2, <1>4, <1>5
  <2>. QED
    BY <2>2, <2>3, <2>4, <1>1, SeqEqual DEF Bytes
<1>8. size(Frames(b)) = Len(b)
  <2>1. size(Frames(b)) = h * Base + l
    BY <1>6 DEF size
  <2>. QED
    BY <2>1, <1>2
<1>9. Len(Frames(b)) = Len(b) + 2
  BY <1>1, <1>4, <1>5
<1>. QED
  BY <1>1, <1>4, <1>5, <1>7, <1>8, <1>9

-----------------------------------------------------------------------------
(* Streams.                                                                *)

LEMMA SpellsNothing ==
  ASSUME NEW m \in Nat
  PROVE  Spells(<<>>, <<>>, m)
<1> DEFINE c == [i \in {0} |-> 0]
<1>1. 0..Len(<<>>) = {0} /\ 1..Len(<<>>) = {} /\ Len(<<>>) = 0
  OBVIOUS
<1>2. c \in [0..Len(<<>>) -> Nat] /\ c[0] = 0
  BY <1>1
<1> HIDE DEF c
<1>3. \A i \in 0..Len(<<>>) : Len(<<>>) - c[i] <= (Len(<<>>) - i) * m
  <2>1. (0 - 0) * m = 0
    OBVIOUS
  <2>. QED
    BY <2>1, <1>1, <1>2
<1>. QED
  BY <1>1, <1>2, <1>3 DEF Spells, Cuts

(* One more frame at the end. *)
LEMMA SpellsMore ==
  ASSUME NEW m \in Nat, NEW s \in Bytes, NEW bodies \in Seq(Body),
         Spells(s, bodies, m), NEW b \in Body, Len(Frames(b)) <= m
  PROVE  Spells(s \o Frames(b), Append(bodies, b), m)
<1> DEFINE f == Frames(b)  n == Len(bodies)  more == Append(bodies, b)
<1>1. PICK c : Cuts(c, s, bodies, m)
  BY DEF Spells
<1>2. f \in Bytes /\ Len(f) \in Nat /\ n \in Nat /\ Len(s) \in Nat
  BY FrameShape, LenProperties DEF Bytes
<1>3. /\ Len(more) = n + 1 /\ more[n + 1] = b
      /\ \A i \in 1..n : more[i] = bodies[i]
  BY AppendProperties
<1>4. /\ Len(s \o f) = Len(s) + Len(f)
      /\ \A i \in 1..Len(s) + Len(f) :
           (s \o f)[i] = IF i <= Len(s) THEN s[i] ELSE f[i - Len(s)]
  BY <1>2, ConcatProperties DEF Bytes
<1>5. Len(f) <= m /\ f = Frames(b)
  OBVIOUS
<1> HIDE DEF f, n, more
<1>6. /\ c \in [0..n -> Nat] /\ c[0] = 0 /\ c[n] = Len(s)
      /\ \A i \in 0..n : \A j \in i..n : c[i] <= c[j]
      /\ \A i \in 0..n : Len(s) - c[i] <= (n - i) * m
  BY <1>1 DEF Cuts, n
<1>7. \A i \in 1..n :
        /\ c[i] = c[i - 1] + Len(Frames(bodies[i]))
        /\ \A k \in 1..Len(Frames(bodies[i])) :
             s[c[i - 1] + k] = Frames(bodies[i])[k]
  BY <1>1 DEF Cuts, n
<1>a. \A i \in 0..n : c[i] <= Len(s)
  BY <1>2, <1>6
<1> DEFINE d == [i \in 0..n + 1 |-> IF i = n + 1 THEN Len(s) + Len(f) ELSE c[i]]
<1>8. /\ d \in [0..n + 1 -> Nat] /\ d[n + 1] = Len(s) + Len(f) /\ d[0] = 0
      /\ \A i \in 0..n : d[i] = c[i]
  <2>1. \A i \in 0..n + 1 : i # n + 1 => i \in 0..n
    BY <1>2
  <2>2. Len(s) + Len(f) \in Nat /\ n + 1 \in 0..n + 1 /\ 0 \in 0..n /\ 0 # n + 1
    BY <1>2
  <2>3. \A i \in 0..n : i \in 0..n + 1 /\ i # n + 1
    BY <1>2
  <2>. QED
    BY <2>1, <2>2, <2>3, <1>6
<1> HIDE DEF d
<1>9. ASSUME NEW i \in 1..n + 1
      PROVE  /\ d[i] = d[i - 1] + Len(Frames(more[i]))
             /\ \A k \in 1..Len(Frames(more[i])) :
                  (s \o f)[d[i - 1] + k] = Frames(more[i])[k]
  <2>1. CASE i = n + 1
    <3>1. d[i] = Len(s) + Len(f) /\ d[i - 1] = Len(s) /\ more[i] = b
      BY <2>1, <1>2, <1>3, <1>6, <1>8
    <3>2. ASSUME NEW k \in 1..Len(f) PROVE (s \o f)[Len(s) + k] = f[k]
      <4>1. /\ Len(s) + k \in 1..Len(s) + Len(f) /\ ~(Len(s) + k <= Len(s))
            /\ Len(s) + k - Len(s) = k
        BY <1>2
      <4>. QED
        BY <4>1, <1>4
    <3>. QED
      BY <3>1, <3>2, <1>2, <1>4, <1>5
  <2>2. CASE i # n + 1
    <3>1. i \in 1..n /\ i \in 0..n /\ i - 1 \in 0..n
      BY <2>2, <1>2
    <3>2. d[i] = c[i] /\ d[i - 1] = c[i - 1] /\ more[i] = bodies[i]
      BY <3>1, <1>3, <1>8
    <3> DEFINE g == Frames(bodies[i])
    <3>3. bodies[i] \in Body
      BY <3>1, ElementOfSeq DEF n
    <3>4. g \in Bytes /\ Len(g) \in Nat
      BY <3>3, FrameShape, LenProperties DEF Bytes
    <3>5. c[i] = c[i - 1] + Len(g) /\ c[i] <= Len(s) /\ c[i - 1] \in Nat
          /\ \A k \in 1..Len(g) : s[c[i - 1] + k] = g[k]
      BY <3>1, <1>a, <1>6, <1>7
    <3> HIDE DEF g
    <3>6. ASSUME NEW k \in 1..Len(g) PROVE (s \o f)[c[i - 1] + k] = g[k]
      <4>1. c[i - 1] + k \in 1..Len(s) + Len(f) /\ c[i - 1] + k <= Len(s)
        BY <3>4, <3>5, <1>2
      <4>. QED
        BY <4>1, <1>4, <3>5
    <3>. QED
      BY <3>2, <3>5, <3>6, <1>4 DEF g
  <2>. QED
    BY <2>1, <2>2
<1>10. ASSUME NEW i \in 0..n + 1
       PROVE  Len(s \o f) - d[i] <= ((n + 1) - i) * m
  <2>1. CASE i = n + 1
    <3>1. ((n + 1) - i) * m = 0
      BY <2>1, <1>2
    <3>. QED
      BY <3>1, <2>1, <1>2, <1>4, <1>8
  <2>2. CASE i # n + 1
    <3>1. i \in 0..n
      BY <2>2, <1>2
    <3>2. Len(s) - c[i] <= (n - i) * m /\ c[i] \in Nat /\ d[i] = c[i]
      BY <3>1, <1>6, <1>8
    <3>3. ((n + 1) - i) * m = (n - i) * m + m
      BY <3>1, <1>2
    <3> DEFINE p == (n - i) * m
    <3>4. p \in Int
      BY <3>1, <1>2
    <3>5. ((n + 1) - i) * m = p + m /\ Len(s) - c[i] <= p
      BY <3>2, <3>3
    <3> HIDE DEF p
    <3>. QED
      BY <3>2, <3>4, <3>5, <1>2, <1>4, <1>5
  <2>. QED
    BY <2>1, <2>2
<1>11. Cuts(d, s \o f, more, m)
  <2>1. d \in [0..Len(more) -> Nat] /\ d[0] = 0 /\ d[Len(more)] = Len(s \o f)
    BY <1>3, <1>4, <1>8
  <2>2. \A i \in 0..Len(more) : Len(s \o f) - d[i] <= (Len(more) - i) * m
    BY <1>3, <1>10, Zenon
  <2>3. \A i \in 1..Len(more) :
          /\ d[i] = d[i - 1] + Len(Frames(more[i]))
          /\ \A k \in 1..Len(Frames(more[i])) :
               (s \o f)[d[i - 1] + k] = Frames(more[i])[k]
    BY <1>3, <1>9, Zenon
  <2>4. \A i \in 0..Len(more) : \A j \in i..Len(more) : d[i] <= d[j]
    <3>1. ASSUME NEW i \in 0..n + 1, NEW j \in i..n + 1 PROVE d[i] <= d[j]
      <4>1. CASE i = n + 1
        <5>1. i = j
          BY <4>1, <1>2
        <5>. QED
          BY <5>1, <1>8
      <4>2. CASE i # n + 1 /\ j = n + 1
        BY <4>2, <1>2, <1>a, <1>6, <1>8
      <4>3. CASE i # n + 1 /\ j # n + 1
        <5>1. i \in 0..n /\ j \in i..n /\ j \in 0..n
          BY <4>3, <1>2
        <5>. QED
          BY <5>1, <1>6, <1>8
      <4>. QED
        BY <4>1, <4>2, <4>3
    <3>. QED
      BY <3>1, <1>3, Zenon
  <2>. QED
    BY <2>1, <2>2, <2>3, <2>4, Zenon DEF Cuts
<1>. QED
  BY <1>11 DEF Spells, f, more

LEMMA SpellsLength ==
  ASSUME NEW m \in Nat, NEW s \in Bytes, NEW bodies \in Seq(Body),
         Spells(s, bodies, m)
  PROVE  Len(s) <= Len(bodies) * m
<1> DEFINE n == Len(bodies)
<1>1. PICK c : Cuts(c, s, bodies, m)
  BY DEF Spells
<1>2. n \in Nat /\ Len(s) \in Nat
  BY LenProperties DEF Bytes
<1>3. 0 \in 0..n
  BY <1>2
<1>4. c[0] = 0 /\ Len(s) - c[0] <= (n - 0) * m
  BY <1>1, <1>3, Zenon DEF Cuts
<1> HIDE DEF n
<1>5. n - 0 = n
  BY <1>2
<1> DEFINE p == n * m
<1>6. p \in Nat
  BY <1>2
<1>7. Len(s) - 0 <= p
  BY <1>4, <1>5
<1> HIDE DEF p
<1>8. Len(s) <= p
  BY <1>2, <1>6, <1>7
<1>. QED
  BY <1>8 DEF n, p

(* The first two bytes of a stream are the length of the first body; all   *)
(* of its frame is the body, and what follows spells the others.           *)
LEMMA SpellsFirst ==
  ASSUME NEW m \in Nat, NEW g \in Bytes, NEW t \in Bytes,
         NEW bodies \in Seq(Body), Spells(g \o t, bodies, m), Len(g) >= 2
  PROVE  /\ bodies # <<>>
         /\ size(g) = Len(Head(bodies))
         /\ Len(g) = size(g) + 2
              => rest(2, g) = Head(bodies) /\ Spells(t, Tail(bodies), m)
<1> DEFINE s == g \o t  n == Len(bodies)  b == Head(bodies)  f == Frames(b)
           more == Tail(bodies)
<1>1. PICK c : Cuts(c, s, bodies, m)
  BY DEF Spells
<1>2. /\ s \in Bytes /\ Len(s) = Len(g) + Len(t)
      /\ \A i \in 1..Len(g) + Len(t) :
           s[i] = IF i <= Len(g) THEN g[i] ELSE t[i - Len(g)]
  BY ConcatProperties DEF Bytes
<1>3. n \in Nat /\ Len(g) \in Nat /\ Len(t) \in Nat
  BY LenProperties DEF Bytes
<1>4. bodies # <<>> /\ n > 0
  <2>1. n # 0
    <3>1. n = 0 => Len(s) = 0
      BY <1>1, Zenon DEF Cuts
    <3>. QED
      BY <3>1, <1>2, <1>3
  <2>2. bodies # <<>>
    BY <2>1
  <2>. QED
    BY <2>1, <2>2, <1>3
<1>5. /\ b \in Body /\ more \in Seq(Body) /\ Len(more) = n - 1
      /\ \A i \in 1..n - 1 : more[i] = bodies[i + 1]
      /\ b = bodies[1]
  BY <1>4, HeadTailProperties
<1>6. f \in Bytes /\ Len(f) = Len(b) + 2 /\ size(f) = Len(b) /\ rest(2, f) = b
      /\ Len(b) \in Nat
  BY <1>5, FrameShape
<1>7. bodies[1] = b /\ Frames(bodies[1]) = f
  BY <1>5
<1> HIDE DEF s, n, b, f, more
<1>8. /\ c \in [0..n -> Nat] /\ c[0] = 0 /\ c[n] = Len(s)
      /\ \A i \in 0..n : \A j \in i..n : c[i] <= c[j]
      /\ \A i \in 0..n : Len(s) - c[i] <= (n - i) * m
  BY <1>1 DEF Cuts, n
<1>9. \A i \in 1..n :
        /\ c[i] = c[i - 1] + Len(Frames(bodies[i]))
        /\ \A k \in 1..Len(Frames(bodies[i])) :
             s[c[i - 1] + k] = Frames(bodies[i])[k]
  BY <1>1 DEF Cuts, n
<1>10. c[1] = Len(f) /\ \A k \in 1..Len(f) : s[k] = f[k]
  <2>1. 1 \in 1..n /\ 1 - 1 = 0
    BY <1>3, <1>4
  <2>2. c[1] = c[0] + Len(f) /\ \A k \in 1..Len(f) : s[c[0] + k] = f[k]
    BY <2>1, <1>7, <1>9
  <2>3. \A k \in 1..Len(f) : 0 + k = k
    OBVIOUS
  <2>4. c[1] = Len(f)
    BY <2>2, <1>6, <1>8
  <2>. QED
    BY <2>2, <2>3, <2>4, <1>8
<1>11. size(g) = Len(b)
  <2>1. /\ 1 \in 1..Len(f) /\ 2 \in 1..Len(f)
        /\ 1 \in 1..Len(g) + Len(t) /\ 2 \in 1..Len(g) + Len(t)
        /\ 1 <= Len(g) /\ 2 <= Len(g)
    BY <1>3, <1>6
  <2>2. g[1] = f[1] /\ g[2] = f[2]
    BY <2>1, <1>2, <1>10
  <2>3. size(g) = size(f)
    BY <2>2 DEF size
  <2>. QED
    BY <2>3, <1>6
<1>12. ASSUME Len(g) = Len(f)
       PROVE  g = f
  <2>1. ASSUME NEW k \in 1..Len(g) PROVE g[k] = f[k]
    <3>1. k \in 1..Len(g) + Len(t) /\ k <= Len(g)
      BY <1>3
    <3>. QED
      BY <3>1, <1>2, <1>10, <1>12
  <2>. QED
    BY <2>1, <1>6, <1>12, SeqEqual DEF Bytes
<1>13. ASSUME Len(g) = Len(f)
       PROVE  Spells(t, more, m)
  <2> DEFINE d == [i \in 0..n - 1 |-> c[i + 1] - Len(f)]
  <2>1. \A i \in 0..n - 1 : i + 1 \in 0..n /\ i + 1 \in 1..n /\ 1 \in 0..n
    BY <1>3, <1>4
  <2>2. \A i \in 0..n - 1 : c[i + 1] - Len(f) \in Nat
    <3>1. ASSUME NEW i \in 0..n - 1 PROVE c[i + 1] - Len(f) \in Nat
      <4>1. 1 \in 0..n /\ i + 1 \in 1..n /\ i + 1 \in 0..n
        BY <2>1
      <4>2. c[1] <= c[i + 1] /\ c[i + 1] \in Nat /\ c[1] \in Nat
        BY <4>1, <1>8
      <4>. QED
        BY <4>2, <1>10
    <3>. QED
      BY <3>1
  <2>3. d \in [0..n - 1 -> Nat] /\ \A i \in 0..n - 1 : d[i] = c[i + 1] - Len(f)
    BY <2>2
  <2> HIDE DEF d
  <2>4. d[0] = 0 /\ d[n - 1] = Len(t)
    <3>1. 0 \in 0..n - 1 /\ n - 1 \in 0..n - 1 /\ 0 + 1 = 1 /\ (n - 1) + 1 = n
      BY <1>3, <1>4
    <3>2. d[0] = c[1] - Len(f) /\ d[n - 1] = c[n] - Len(f)
      BY <3>1, <2>3
    <3>. QED
      BY <3>2, <1>2, <1>3, <1>6, <1>8, <1>10, <1>13
  <2>5. ASSUME NEW i \in 1..n - 1
        PROVE  /\ d[i] = d[i - 1] + Len(Frames(more[i]))
               /\ \A k \in 1..Len(Frames(more[i])) :
                    t[d[i - 1] + k] = Frames(more[i])[k]
    <3> DEFINE e == Frames(more[i])
    <3>1. /\ i \in 0..n - 1 /\ i - 1 \in 0..n - 1 /\ (i - 1) + 1 = i
          /\ i + 1 \in 1..n /\ (i + 1) - 1 = i /\ i + 1 \in 0..n /\ i \in 0..n
          /\ n \in i + 1..n
      BY <1>3, <1>4
    <3>2. more[i] = bodies[i + 1]
      BY <1>5
    <3>3. more[i] \in Body
      BY <3>1, <3>2, ElementOfSeq DEF n
    <3>4. e \in Bytes /\ Len(e) \in Nat
      BY <3>3, FrameShape, LenProperties DEF Bytes
    <3>5. c[i + 1] = c[i] + Len(e) /\ \A k \in 1..Len(e) : s[c[i] + k] = e[k]
      BY <3>1, <3>2, <1>9
    <3>6. d[i] = c[i + 1] - Len(f) /\ d[i - 1] = c[i] - Len(f)
          /\ d[i - 1] \in Nat /\ c[i] \in Nat /\ c[i + 1] \in Nat
      BY <3>1, <2>3, <1>8
    <3>7. c[i + 1] <= Len(s)
      BY <3>1, <1>8
    <3> HIDE DEF e
    <3>8. ASSUME NEW k \in 1..Len(e) PROVE t[d[i - 1] + k] = e[k]
      <4>1. /\ c[i] + k \in 1..Len(g) + Len(t) /\ ~(c[i] + k <= Len(g))
            /\ (c[i] + k) - Len(g) = d[i - 1] + k
        <5>1. Len(s) = Len(g) + Len(t) /\ Len(g) = Len(f) /\ c[i + 1] = c[i] + Len(e)
          BY <1>2, <1>13, <3>5
        <5> DEFINE lg == Len(g)  lf == Len(f)  lt == Len(t)  ls == Len(s)
                   le == Len(e)  ci == c[i]  cj == c[i + 1]  di == d[i - 1]
        <5>2. /\ lg \in Nat /\ lt \in Nat /\ le \in Nat /\ ci \in Nat /\ di \in Nat
              /\ ls = lg + lt /\ lg = lf /\ cj = ci + le /\ cj <= ls
              /\ di = ci - lf /\ k \in 1..le
          BY <5>1, <1>3, <3>4, <3>6, <3>7
        <5> HIDE DEF lg, lf, lt, ls, le, ci, cj, di
        <5>3. ci + k \in 1..lg + lt /\ ~(ci + k <= lg) /\ (ci + k) - lg = di + k
          BY <5>2
        <5>. QED
          BY <5>3 DEF lg, lf, lt, ls, le, ci, cj, di
      <4>2. s[c[i] + k] = t[d[i - 1] + k]
        <5>1. s[c[i] + k] = t[(c[i] + k) - Len(g)]
          BY <4>1, <1>2, Zenon
        <5>. QED
          BY <5>1, <4>1
      <4>. QED
        BY <4>2, <3>5
    <3>9. d[i] = d[i - 1] + Len(e)
      BY <3>4, <3>5, <3>6, <1>6
    <3>. QED
      BY <3>8, <3>9 DEF e
  <2>6. ASSUME NEW i \in 0..n - 1, NEW j \in i..n - 1 PROVE d[i] <= d[j]
    <3>1. j \in 0..n - 1 /\ i + 1 \in 0..n /\ j + 1 \in i + 1..n /\ j + 1 \in 0..n
      BY <1>3, <1>4
    <3>2. c[i + 1] <= c[j + 1] /\ c[i + 1] \in Nat /\ c[j + 1] \in Nat
      BY <3>1, <1>8
    <3>. QED
      BY <3>1, <3>2, <2>3, <1>6
  <2>7. ASSUME NEW i \in 0..n - 1 PROVE Len(t) - d[i] <= ((n - 1) - i) * m
    <3>1. i + 1 \in 0..n /\ n - (i + 1) = (n - 1) - i
      BY <1>3, <1>4
    <3>2. Len(s) - c[i + 1] <= ((n - 1) - i) * m
      BY <3>1, <1>8
    <3>3. Len(t) - d[i] = Len(s) - c[i + 1]
      <4>1. /\ d[i] = c[i + 1] - Len(f) /\ Len(f) = Len(g)
            /\ Len(s) = Len(g) + Len(t) /\ c[i + 1] \in Nat
        BY <3>1, <2>3, <1>2, <1>8, <1>13
      <4> DEFINE lg == Len(g)  lt == Len(t)  ls == Len(s)  ci == c[i + 1]  di == d[i]
      <4>2. /\ lg \in Nat /\ lt \in Nat /\ ci \in Nat
            /\ di = ci - lg /\ ls = lg + lt
        BY <4>1, <1>3
      <4> HIDE DEF lg, lt, ls, ci, di
      <4>3. lt - di = ls - ci
        BY <4>2
      <4>. QED
        BY <4>3 DEF lt, ls, ci, di
    <3>. QED
      BY <3>2, <3>3
  <2>8. Cuts(d, t, more, m)
    <3>1. d \in [0..Len(more) -> Nat] /\ d[0] = 0 /\ d[Len(more)] = Len(t)
      BY <2>3, <2>4, <1>5
    <3>2. \A i \in 0..Len(more) : Len(t) - d[i] <= (Len(more) - i) * m
      BY <2>7, <1>5, Zenon
    <3>3. \A i \in 1..Len(more) :
            /\ d[i] = d[i - 1] + Len(Frames(more[i]))
            /\ \A k \in 1..Len(Frames(more[i])) :
                 t[d[i - 1] + k] = Frames(more[i])[k]
      BY <2>5, <1>5, Zenon
    <3>4. \A i \in 0..Len(more) : \A j \in i..Len(more) : d[i] <= d[j]
      BY <2>6, <1>5, Zenon
    <3>. QED
      BY <3>1, <3>2, <3>3, <3>4, Zenon DEF Cuts
  <2>. QED
    BY <2>8 DEF Spells
<1>14. Len(g) = size(g) + 2 <=> Len(g) = Len(f)
  BY <1>3, <1>6, <1>11
<1>. QED
  BY <1>4, <1>6, <1>11, <1>12, <1>13, <1>14 DEF b, more

-----------------------------------------------------------------------------
(* Types, and how far each call has come.                                  *)

LEMMA SizeIsNat ==
  ASSUME NEW got \in Bytes, Len(got) >= 2
  PROVE  size(got) \in Nat
<1>1. got[1] \in 0..Base - 1 /\ got[2] \in 0..Base - 1
  <2>1. 1 \in 1..Len(got) /\ 2 \in 1..Len(got)
    BY LenProperties DEF Bytes
  <2>. QED
    BY <2>1, ElementOfSeq DEF Bytes
<1>2. Base \in Nat /\ got[1] \in Nat /\ got[2] \in Nat
  BY <1>1, FramingAssumption
<1>. QED
  BY <1>2 DEF size

(* A call that reads no more than what is missing goes on to miss nothing  *)
(* or something, and never reads beyond its frame.                         *)
LEMMA ReadingOn ==
  ASSUME NEW call, NEW next, NEW q \in Bytes, call.got \in Bytes,
         next.got = call.got \o q, Len(q) <= missing(call)
  PROVE  /\ next.got \in Bytes /\ missing(next) >= 0
         /\ missing(call) \in Int
<1> DEFINE g == call.got  h == g \o q
<1>1. Len(g) \in Nat /\ Len(q) \in Nat
  BY LenProperties DEF Bytes
<1>2. /\ h \in Bytes /\ Len(h) = Len(g) + Len(q)
      /\ \A i \in 1..Len(g) + Len(q) : h[i] = IF i <= Len(g) THEN g[i] ELSE q[i - Len(g)]
  BY ConcatProperties DEF Bytes
<1>3. next.got = h /\ call.got = g
  OBVIOUS
<1>4. missing(call) = IF Len(g) < 2 THEN 2 - Len(g) ELSE size(g) + 2 - Len(g)
  BY DEF missing
<1>5. missing(next) = IF Len(h) < 2 THEN 2 - Len(h) ELSE size(h) + 2 - Len(h)
  BY <1>3 DEF missing
<1> HIDE DEF g, h
<1>6. CASE Len(g) < 2
  <2>1. Len(h) <= 2
    BY <1>1, <1>2, <1>4, <1>6
  <2>2. CASE Len(h) < 2
    BY <2>2, <1>1, <1>2, <1>3, <1>4, <1>5, <1>6
  <2>3. CASE Len(h) = 2
    <3>1. size(h) \in Nat
      BY <2>3, <1>2, SizeIsNat
    <3>. QED
      BY <2>3, <3>1, <1>1, <1>2, <1>3, <1>4, <1>5, <1>6
  <2>. QED
    BY <2>1, <2>2, <2>3, <1>1, <1>2
<1>7. CASE ~(Len(g) < 2)
  <2>1. size(g) \in Nat
    BY <1>1, <1>3, <1>7, SizeIsNat
  <2>2. size(h) = size(g)
    <3>1. 1 \in 1..Len(g) + Len(q) /\ 2 \in 1..Len(g) + Len(q)
          /\ 1 <= Len(g) /\ 2 <= Len(g)
      BY <1>1, <1>7
    <3>2. h[1] = g[1] /\ h[2] = g[2]
      BY <3>1, <1>2
    <3>. QED
      BY <3>2 DEF size
  <2>3. Len(h) = Len(g) + Len(q)
    BY <1>2
  <2>4. missing(call) = size(g) + 2 - Len(g) /\ missing(next) = size(g) + 2 - Len(h)
    BY <2>2, <2>3, <1>1, <1>4, <1>5, <1>7
  <2>. QED
    BY <2>1, <2>3, <2>4, <1>1, <1>2, <1>3
<1>. QED
  BY <1>6, <1>7

LEMMA StartingCall ==
  ASSUME NEW at
  PROVE  /\ At(at).at = at /\ At(at).got = <<>> /\ <<>> \in Bytes
         /\ missing(At(at)) = 2 /\ ~complete(At(at)) /\ Len(<<>>) = 0
BY DEF At, missing, complete, Bytes

LEMMA MovedBytes ==
  ASSUME NEW from \in Bytes, NEW to \in Bytes, NEW n \in 0..Len(from)
  PROVE  /\ first(n, from) \in Bytes /\ Len(first(n, from)) = n
         /\ rest(n, from) \in Bytes /\ Len(rest(n, from)) = Len(from) - n
         /\ to \o first(n, from) \in Bytes
         /\ Len(to \o first(n, from)) = Len(to) + n
         /\ (to \o first(n, from)) \o rest(n, from) = to \o from
<1>1. from \in Seq(0..Base - 1) /\ to \in Seq(0..Base - 1)
  BY DEF Bytes
<1>2. /\ first(n, from) \in Seq(0..Base - 1) /\ Len(first(n, from)) = n
      /\ rest(n, from) \in Seq(0..Base - 1) /\ Len(rest(n, from)) = Len(from) - n
      /\ from = first(n, from) \o rest(n, from)
  BY <1>1, CutSequence
<1>3. /\ to \o first(n, from) \in Seq(0..Base - 1)
      /\ Len(to \o first(n, from)) = Len(to) + Len(first(n, from))
  BY <1>1, <1>2, ConcatProperties
<1>4. (to \o first(n, from)) \o rest(n, from) = to \o from
  <2> DEFINE f == first(n, from)  r == rest(n, from)
  <2>1. f \in Seq(0..Base - 1) /\ r \in Seq(0..Base - 1) /\ from = f \o r
    BY <1>2
  <2> HIDE DEF f, r
  <2>2. (to \o f) \o r = to \o (f \o r)
    BY <1>1, <2>1, ConcatAssociative
  <2>. QED
    BY <2>1, <2>2 DEF f, r
<1>. QED
  BY <1>2, <1>3, <1>4 DEF Bytes


LEMMA ByteFacts ==
  /\ Base * Base + 1 \in Nat /\ Capacity \in Nat \ {0} /\ MaxOutstanding \in Nat \ {0}
  /\ \A b \in Body : Frames(b) \in Bytes /\ Len(Frames(b)) >= 2
                     /\ Len(Frames(b)) <= Base * Base + 1
  /\ Requests \subseteq Body /\ Messages \subseteq Body /\ Response \in Body
  /\ Response \notin Messages
<1>1. Base * Base + 1 \in Nat
  BY FramingAssumption
<1>2. ASSUME NEW b \in Body
      PROVE  Frames(b) \in Bytes /\ Len(Frames(b)) >= 2
             /\ Len(Frames(b)) <= Base * Base + 1
  <2>1. Frames(b) \in Bytes /\ Len(Frames(b)) = Len(b) + 2 /\ Len(b) \in Nat
    BY FrameShape
  <2>2. Len(b) < Base * Base
    BY FramingAssumption
  <2> DEFINE q == Base * Base
  <2>3. q \in Nat /\ Len(b) < q
    BY <2>2, FramingAssumption
  <2> HIDE DEF q
  <2>4. Len(Frames(b)) >= 2 /\ Len(Frames(b)) <= q + 1
    BY <2>1, <2>3
  <2>. QED
    BY <2>1, <2>4 DEF q
<1>. QED
  BY <1>1, <1>2, FramingAssumption DEF Body

LEMMA InitHolds == Init => FramingInv
<1> SUFFICES ASSUME Init PROVE FramingInv
  OBVIOUS
<1> USE DEF Init
<1>1. TypeInv
  <2>1. <<>> \in Seq(0..Base - 1) /\ <<>> \in Seq(Body) /\ Len(<<>>) = 0
    OBVIOUS
  <2>. QED
    BY <2>1, ByteFacts DEF TypeInv, TypeOK, At, Bytes
<1>2. CallInv
  BY StartingCall DEF CallInv, At
<1>3. AskedInv
  <2>1. longest \in Nat
    BY ByteFacts DEF longest
  <2>2. heard \o (toHub \o <<>>) = <<>>
    BY DEF heard, At
  <2>. QED
    BY <2>1, <2>2, StartingCall, SpellsNothing DEF AskedInv
<1>4. OwedInv
  <2>1. peer.got \o (toPeer \o hubOut) = <<>>
    BY DEF At
  <2>2. <<>> \in Seq(Body) /\ owed = <<>> \o backlog
    OBVIOUS
  <2>. QED
    BY <2>1, <2>2, ByteFacts, SpellsNothing DEF OwedInv
<1>5. CountInv
  <2>1. {i \in 1..Len(<<>>) : <<>>[i] = Response} = {}
    OBVIOUS
  <2>2. responsesIn(owed) = 0
    BY <2>1, FS_EmptySet DEF responsesIn
  <2>3. Len(asked) = 0
    OBVIOUS
  <2>. QED
    BY <2>2, <2>3, ByteFacts DEF CountInv
<1>. QED
  BY <1>1, <1>2, <1>3, <1>4, <1>5 DEF FramingInv


LEMMA Buffers ==
  ASSUME TypeInv, CallInv
  PROVE  /\ toHub \in Bytes /\ toPeer \in Bytes /\ hubOut \in Bytes /\ peerOut \in Bytes
         /\ hub.got \in Bytes /\ peer.got \in Bytes
         /\ Len(toHub) \in Nat /\ Len(toPeer) \in Nat /\ Len(hubOut) \in Nat
         /\ Len(peerOut) \in Nat /\ Len(hub.got) \in Nat /\ Len(peer.got) \in Nat
         /\ Len(toHub) <= Capacity /\ Len(toPeer) <= Capacity
         /\ sending => ofCall \in 0..Len(hubOut)
<1>1. /\ toHub \in Bytes /\ toPeer \in Bytes /\ hubOut \in Bytes /\ peerOut \in Bytes
      /\ hub.got \in Bytes /\ peer.got \in Bytes
      /\ Len(toHub) <= Capacity /\ Len(toPeer) <= Capacity
  BY DEF TypeInv, TypeOK, Bytes
<1>2. /\ Len(toHub) \in Nat /\ Len(toPeer) \in Nat /\ Len(hubOut) \in Nat
      /\ Len(peerOut) \in Nat /\ Len(hub.got) \in Nat /\ Len(peer.got) \in Nat
  BY <1>1, LenProperties DEF Bytes
<1>3. sending => ofCall \in 0..Len(hubOut)
  BY <1>2 DEF CallInv, ofCall, sending
<1>. QED
  BY <1>1, <1>2, <1>3

(* Steps that begin or end a call and touch neither buffers nor queues;    *)
(* then those that put something into a queue or take something out.       *)
LEMMA QuietStepsKeepTypes ==
  ASSUME TypeInv, CallInv,
         \/ StartReceive \/ ReceiveThrows \/ Disconnect
         \/ SizeSent \/ BodySent \/ SendFails
  PROVE  TypeInv' /\ CallInv'
<1>1. <<>> \in Bytes /\ <<>> \in Seq(0..Base - 1) /\ Len(<<>>) = 0
  BY StartingCall DEF Bytes
<1>2. CASE StartReceive
  <2>1. TypeInv'
    BY <1>1, <1>2 DEF StartReceive, TypeInv, TypeOK, At
  <2>2. missing(hub') >= 0
    BY <1>2, StartingCall DEF StartReceive
  <2>. QED
    BY <1>2, <2>1, <2>2 DEF StartReceive, CallInv, At
<1>3. CASE ReceiveThrows
  BY <1>1, <1>3 DEF ReceiveThrows, TypeInv, TypeOK, CallInv, At
<1>4. CASE Disconnect
  BY <1>1, <1>4 DEF Disconnect, TypeInv, TypeOK, CallInv, At
<1>5. CASE SizeSent
  BY <1>1, <1>5 DEF SizeSent, TypeInv, TypeOK, CallInv, At
<1>6. CASE BodySent
  BY <1>1, <1>6 DEF BodySent, TypeInv, TypeOK, CallInv, At
<1>7. CASE SendFails
  BY <1>1, <1>7 DEF SendFails, TypeInv, TypeOK, CallInv, At
<1>. QED
  BY <1>2, <1>3, <1>4, <1>5, <1>6, <1>7

LEMMA QueueStepsKeepTypes ==
  ASSUME TypeInv, CallInv,
         \/ (Received /\ asked # <<>>) \/ Publish \/ StartSend \/ StartWrite
         \/ (Read /\ owed # <<>>)
  PROVE  TypeInv' /\ CallInv'
<1>1. <<>> \in Bytes /\ <<>> \in Seq(0..Base - 1) /\ Len(<<>>) = 0
  BY StartingCall DEF Bytes
<1>2. backlog \in Seq(Body) /\ asked \in Seq(Body) /\ owed \in Seq(Body)
  BY DEF TypeInv, TypeOK
<1>3. \A b \in Body : Append(backlog, b) \in Seq(Body)
                      /\ Append(owed, b) \in Seq(Body) /\ Append(asked, b) \in Seq(Body)
  BY <1>2, AppendProperties
<1>4. CASE Received /\ asked # <<>>
  <2>1. Tail(asked) \in Seq(Body)
    BY <1>2, <1>4, HeadTailProperties
  <2>2. Append(backlog, Response) \in Seq(Body) /\ Append(owed, Response) \in Seq(Body)
    BY <1>3, ByteFacts
  <2>. QED
    BY <1>1, <1>4, <2>1, <2>2 DEF Received, TypeInv, TypeOK, CallInv, At
<1>5. CASE Publish
  <2>1. PICK m \in Messages : backlog' = Append(backlog, m) /\ owed' = Append(owed, m)
    BY <1>5 DEF Publish
  <2>2. m \in Body
    BY <2>1, ByteFacts
  <2>3. backlog' \in Seq(Body) /\ owed' \in Seq(Body)
    BY <1>3, <2>1, <2>2
  <2>. QED
    BY <1>5, <2>3 DEF Publish, TypeInv, TypeOK, CallInv
<1>6. CASE StartSend
  <2>1. Head(backlog) \in Body /\ Tail(backlog) \in Seq(Body)
    BY <1>2, <1>6, HeadTailProperties DEF StartSend
  <2>2. hubOut' \in Bytes /\ Len(hubOut') >= 2 /\ Len(hubOut') \in Nat
    BY <1>6, <2>1, ByteFacts, LenProperties DEF StartSend, Bytes
  <2>3. TypeInv'
    BY <1>1, <1>6, <2>1, <2>2 DEF StartSend, TypeInv, TypeOK, At, Bytes
  <2>. QED
    BY <1>1, <1>6, <2>2, <2>3 DEF StartSend, CallInv, At
<1>7. CASE StartWrite
  <2>1. PICK b \in Requests : peerOut' = Frames(b) /\ asked' = Append(asked, b)
    BY <1>7 DEF StartWrite
  <2>2. b \in Body
    BY <2>1, ByteFacts
  <2>3. peerOut' \in Bytes /\ Len(peerOut') >= 2 /\ asked' \in Seq(Body)
    BY <1>3, <2>1, <2>2, ByteFacts
  <2>4. peerOut' # <<>>
    BY <1>1, <2>3
  <2>5. outstanding + 1 \in Nat
    BY DEF TypeInv, TypeOK
  <2>6. TypeInv'
    BY <1>1, <1>7, <2>3, <2>5 DEF StartWrite, TypeInv, TypeOK, At, Bytes
  <2>7. missing(peer') >= 0
    BY <1>7, StartingCall DEF StartWrite
  <2>8. end = "open"
    BY <1>7 DEF StartWrite, CallInv
  <2>. QED
    BY <1>7, <2>4, <2>6, <2>7, <2>8 DEF StartWrite, CallInv, At
<1>8. CASE Read /\ owed # <<>>
  <2>1. Tail(owed) \in Seq(Body)
    BY <1>2, <1>8, HeadTailProperties
  <2>2. outstanding' \in Nat
    BY <1>8 DEF Read, TypeInv, TypeOK
  <2>3. missing(peer') >= 0
    BY <1>8, StartingCall DEF Read
  <2>4. TypeInv'
    BY <1>1, <1>8, <2>1, <2>2 DEF Read, TypeInv, TypeOK, At
  <2>. QED
    BY <1>8, <2>3, <2>4 DEF Read, CallInv, At
<1>. QED
  BY <1>4, <1>5, <1>6, <1>7, <1>8


(* Steps that move bytes. *)
LEMMA MovesKeepTypes ==
  ASSUME TypeInv, CallInv,
         Recv \/ SendSome \/ WriteSome \/ ReadSome \/ Close \/ Reset
  PROVE  TypeInv' /\ CallInv'
<1>1. /\ toHub \in Bytes /\ toPeer \in Bytes /\ hubOut \in Bytes /\ peerOut \in Bytes
      /\ hub.got \in Bytes /\ peer.got \in Bytes
      /\ Len(toHub) \in Nat /\ Len(toPeer) \in Nat /\ Len(hubOut) \in Nat
      /\ Len(peerOut) \in Nat /\ Len(hub.got) \in Nat /\ Len(peer.got) \in Nat
      /\ Len(toHub) <= Capacity /\ Len(toPeer) <= Capacity
      /\ sending => ofCall \in 0..Len(hubOut)
  BY Buffers
<1>2. Bytes = Seq(0..Base - 1) /\ Capacity \in Nat
      /\ <<>> \in Bytes /\ Len(<<>>) = 0
  BY ByteFacts, StartingCall DEF Bytes
<1>3. CASE Recv
  <2>1. PICK n \in 1..least(missing(hub), Len(toHub)) :
          /\ hub' = [hub EXCEPT !.got = @ \o first(n, toHub)]
          /\ toHub' = rest(n, toHub)
    BY <1>3 DEF Recv
  <2>2. missing(hub) \in Int
    <3>1. hub.got \o <<>> = hub.got
      BY <1>1, <1>2, ConcatEmptySeq
    <3>. QED
      BY <3>1, <1>1, <1>2, <1>3, ReadingOn DEF Recv, CallInv
  <2>3. n \in 0..Len(toHub) /\ n <= missing(hub)
    BY <2>1, <2>2, <1>1 DEF least
  <2>4. /\ first(n, toHub) \in Bytes /\ Len(first(n, toHub)) = n
        /\ toHub' \in Bytes /\ Len(toHub') = Len(toHub) - n
    BY <2>1, <2>3, <1>1, MovedBytes
  <2>5. hub'.got = hub.got \o first(n, toHub) /\ hub'.at = "receive"
    BY <2>1, <1>3 DEF TypeInv, Recv
  <2>6. hub'.got \in Bytes /\ missing(hub') >= 0
    <3> DEFINE q == first(n, toHub)
    <3>1. q \in Bytes /\ Len(q) <= missing(hub) /\ hub'.got = hub.got \o q
      BY <2>3, <2>4, <2>5
    <3> HIDE DEF q
    <3>. QED
      BY <3>1, <1>1, ReadingOn
  <2>7. Len(toHub') <= Capacity
    BY <2>3, <2>4, <1>1, <1>2
  <2>8. TypeInv'
    BY <1>2, <1>3, <2>1, <2>4, <2>5, <2>6, <2>7 DEF Recv, TypeInv, TypeOK
  <2>. QED
    BY <1>3, <2>5, <2>6, <2>8 DEF Recv, CallInv
<1>4. CASE SendSome
  <2>1. PICK n \in 1..least(ofCall, room(toPeer)) :
          /\ toPeer' = toPeer \o first(n, hubOut)
          /\ hub' = [hub EXCEPT !.got = @ \o first(n, hubOut)]
          /\ hubOut' = rest(n, hubOut)
    BY <1>4 DEF SendSome
  <2>2. sending /\ ofCall \in 0..Len(hubOut)
    BY <1>1, <1>4 DEF SendSome
  <2>3. n \in 0..Len(hubOut) /\ n <= ofCall /\ n <= Capacity - Len(toPeer)
    BY <2>1, <2>2, <1>1, <1>2 DEF least, room
  <2>4. /\ hubOut' \in Bytes /\ Len(hubOut') = Len(hubOut) - n
        /\ toPeer' \in Bytes /\ Len(toPeer') = Len(toPeer) + n
        /\ hub.got \o first(n, hubOut) \in Bytes
        /\ Len(hub.got \o first(n, hubOut)) = Len(hub.got) + n
    <3>1. /\ rest(n, hubOut) \in Bytes /\ Len(rest(n, hubOut)) = Len(hubOut) - n
          /\ toPeer \o first(n, hubOut) \in Bytes
          /\ Len(toPeer \o first(n, hubOut)) = Len(toPeer) + n
      BY <2>3, <1>1, MovedBytes
    <3>2. /\ hub.got \o first(n, hubOut) \in Bytes
          /\ Len(hub.got \o first(n, hubOut)) = Len(hub.got) + n
      <4> DEFINE g == hub.got
      <4>1. g \in Bytes /\ hubOut \in Bytes /\ n \in 0..Len(hubOut)
        BY <2>3, <1>1
      <4> HIDE DEF g
      <4>2. /\ g \o first(n, hubOut) \in Bytes
            /\ Len(g \o first(n, hubOut)) = Len(g) + n
        BY <4>1, MovedBytes
      <4>. QED
        BY <4>2 DEF g
    <3>. QED
      BY <2>1, <3>1, <3>2
  <2>5. hub'.got = hub.got \o first(n, hubOut) /\ hub'.at = hub.at
    BY <2>1 DEF TypeInv
  <2>6. Len(toPeer') <= Capacity
    BY <2>3, <2>4, <1>1, <1>2
  <2>7. TypeInv'
    BY <1>2, <1>4, <2>1, <2>4, <2>5, <2>6 DEF SendSome, TypeInv, TypeOK
  <2>8. hub.at = "sendSize" => n <= 2 - Len(hub.got)
    BY <2>3 DEF ofCall
  <2>9. hub'.at = "sendSize" => Len(hub'.got) <= 2 /\ Len(hub'.got) + Len(hubOut') >= 2
    BY <2>3, <2>4, <2>5, <2>8, <1>1 DEF CallInv
  <2>. QED
    BY <1>4, <2>2, <2>5, <2>7, <2>9 DEF SendSome, CallInv, sending
<1>5. CASE WriteSome
  <2>1. PICK n \in 1..least(Len(peerOut), room(toHub)) :
          toHub' = toHub \o first(n, peerOut) /\ peerOut' = rest(n, peerOut)
    BY <1>5 DEF WriteSome
  <2>2. n \in 0..Len(peerOut) /\ n <= Capacity - Len(toHub)
    BY <2>1, <1>1, <1>2 DEF least, room
  <2>3. /\ peerOut' \in Bytes
        /\ toHub' \in Bytes /\ Len(toHub') = Len(toHub) + n
    BY <2>1, <2>2, <1>1, MovedBytes
  <2>4. Len(toHub') <= Capacity
    BY <2>2, <2>3, <1>1, <1>2
  <2>5. TypeInv'
    BY <1>2, <1>5, <2>3, <2>4 DEF WriteSome, TypeInv, TypeOK, At
  <2>6. peer'.got = <<>> /\ missing(peer') >= 0
    BY <1>5, StartingCall DEF WriteSome, CallInv
  <2>. QED
    BY <1>5, <2>5, <2>6 DEF WriteSome, CallInv, At
<1>6. CASE ReadSome
  <2>1. PICK n \in 1..least(missing(peer), Len(toPeer)) :
          /\ peer' = [at |-> "read", got |-> peer.got \o first(n, toPeer)]
          /\ toPeer' = rest(n, toPeer)
    BY <1>6 DEF ReadSome
  <2>2. missing(peer) \in Int
    <3>1. peer.got \o <<>> = peer.got
      BY <1>1, <1>2, ConcatEmptySeq
    <3>. QED
      BY <3>1, <1>1, <1>2, ReadingOn DEF CallInv
  <2>3. n \in 0..Len(toPeer) /\ n <= missing(peer)
    BY <2>1, <2>2, <1>1 DEF least
  <2>4. /\ first(n, toPeer) \in Bytes /\ Len(first(n, toPeer)) = n
        /\ toPeer' \in Bytes /\ Len(toPeer') = Len(toPeer) - n
    BY <2>1, <2>3, <1>1, MovedBytes
  <2>5. peer'.got = peer.got \o first(n, toPeer) /\ peer'.at = "read"
    BY <2>1
  <2>6. peer'.got \in Bytes /\ missing(peer') >= 0
    <3> DEFINE q == first(n, toPeer)
    <3>1. q \in Bytes /\ Len(q) <= missing(peer) /\ peer'.got = peer.got \o q
      BY <2>3, <2>4, <2>5
    <3> HIDE DEF q
    <3>. QED
      BY <3>1, <1>1, ReadingOn
  <2>7. Len(toPeer') <= Capacity
    BY <2>3, <2>4, <1>1, <1>2
  <2>8. TypeInv'
    BY <1>2, <1>6, <2>1, <2>4, <2>5, <2>6, <2>7 DEF ReadSome, TypeInv, TypeOK
  <2>. QED
    BY <1>6, <2>5, <2>6, <2>8 DEF ReadSome, CallInv
<1>7. CASE Close
  <2>1. missing(peer') >= 0
    BY <1>7, StartingCall DEF Close
  <2>2. TypeInv'
    BY <1>2, <1>7 DEF Close, TypeInv, TypeOK, At
  <2>. QED
    BY <1>7, <2>1, <2>2 DEF Close, CallInv, At
<1>8. CASE Reset
  BY <1>2, <1>8 DEF Reset, TypeInv, TypeOK, CallInv
<1>. QED
  BY <1>3, <1>4, <1>5, <1>6, <1>7, <1>8


-----------------------------------------------------------------------------
(* Counting responses.                                                     *)

LEMMA ResponsesType ==
  ASSUME NEW s \in Seq(Body)
  PROVE  IsFiniteSet({i \in 1..Len(s) : s[i] = Response}) /\ responsesIn(s) \in Nat
<1>1. Len(s) \in Nat
  BY LenProperties
<1>2. IsFiniteSet(1..Len(s))
  BY <1>1, FS_Interval
<1>. QED
  BY <1>2, FS_Subset, FS_CardinalityType DEF responsesIn

LEMMA ResponsesAfterAppend ==
  ASSUME NEW s \in Seq(Body), NEW b \in Body
  PROVE  responsesIn(Append(s, b)) = responsesIn(s) + (IF b = Response THEN 1 ELSE 0)
<1> DEFINE C == {i \in 1..Len(s) : s[i] = Response}
           D == {i \in 1..Len(Append(s, b)) : Append(s, b)[i] = Response}
           n == Len(s)
<1>1. /\ n \in Nat /\ Len(s) = n /\ Len(Append(s, b)) = n + 1
      /\ \A i \in 1..n : Append(s, b)[i] = s[i]
      /\ Append(s, b)[n + 1] = b
  BY LenProperties, AppendProperties
<1> HIDE DEF n
<1>2. 1..(n + 1) = (1..n) \cup {n + 1} /\ n + 1 \notin 1..n
  BY <1>1
<1>3. D = IF b = Response THEN C \cup {n + 1} ELSE C
  BY <1>1, <1>2
<1>4. n + 1 \notin C
  BY <1>1, <1>2
<1>5. IsFiniteSet(C) /\ Cardinality(C) \in Nat
  BY ResponsesType DEF responsesIn
<1> HIDE DEF C, D
<1>6. Cardinality(D) = Cardinality(C) + (IF b = Response THEN 1 ELSE 0)
  <2>1. Cardinality(C \cup {n + 1}) = Cardinality(C) + 1
    BY <1>4, <1>5, FS_AddElement
  <2>. QED
    BY <1>3, <1>5, <2>1
<1>. QED
  BY <1>6 DEF C, D, responsesIn

LEMMA ResponsesAfterTail ==
  ASSUME NEW s \in Seq(Body), s # <<>>
  PROVE  responsesIn(s) = responsesIn(Tail(s)) + (IF Head(s) = Response THEN 1 ELSE 0)
<1> DEFINE n == Len(s)
           C == {i \in 1..Len(s) : s[i] = Response}
           D == {i \in 1..Len(Tail(s)) : Tail(s)[i] = Response}
           E == {i \in 2..Len(s) : s[i] = Response}
           shift == [i \in D |-> i + 1]
<1>1. /\ n \in Nat /\ n >= 1 /\ Len(s) = n /\ Len(Tail(s)) = n - 1
      /\ \A i \in 1..n - 1 : Tail(s)[i] = s[i + 1]
      /\ Head(s) = s[1]
  BY LenProperties, HeadTailProperties, EmptySeq
<1>2. IsFiniteSet(C) /\ Cardinality(C) \in Nat
  BY ResponsesType DEF responsesIn
<1>3. IsFiniteSet(D) /\ Cardinality(D) \in Nat
  <2>1. Tail(s) \in Seq(Body)
    BY HeadTailProperties
  <2>. QED
    BY <2>1, ResponsesType DEF responsesIn
<1> HIDE DEF n
<1>4. C = (IF Head(s) = Response THEN {1} ELSE {}) \cup E /\ 1 \notin E
  BY <1>1
<1>5. ExistsBijection(D, E)
  <2>1. \A i \in D : i + 1 \in E
    BY <1>1
  <2>2. \A j \in E : j - 1 \in D /\ (j - 1) + 1 = j
    BY <1>1
  <2>3. D \subseteq Nat
    BY <1>1
  <2> HIDE DEF D, E
  <2>4. shift \in [D -> E]
    BY <2>1
  <2>5. \A i, j \in D : shift[i] = shift[j] => i = j
    BY <2>3
  <2>6. \A j \in E : \E i \in D : shift[i] = j
    BY <2>2
  <2> HIDE DEF shift
  <2>. QED
    BY <2>4, <2>5, <2>6 DEF ExistsBijection, Bijection, Injection, Surjection, IsInjective
<1> HIDE DEF C, D, E
<1>6. IsFiniteSet(E) /\ Cardinality(E) = Cardinality(D)
  BY <1>3, <1>5, FS_Bijection
<1>7. Cardinality(C) = Cardinality(D) + (IF Head(s) = Response THEN 1 ELSE 0)
  <2>1. CASE Head(s) = Response
    <3>1. C = E \cup {1}
      BY <1>4, <2>1
    <3>2. Cardinality(E \cup {1}) = Cardinality(E) + 1
      BY <1>4, <1>6, FS_AddElement
    <3>. QED
      BY <3>1, <3>2, <1>3, <1>6, <2>1
  <2>2. CASE Head(s) # Response
    BY <2>2, <1>3, <1>4, <1>6
  <2>. QED
    BY <2>1, <2>2
<1>. QED
  BY <1>7 DEF C, D, responsesIn


-----------------------------------------------------------------------------
(* The streams.                                                            *)

LEMMA ThreePieces ==
  ASSUME NEW a \in Bytes, NEW b \in Bytes, NEW c \in Bytes
  PROVE  /\ b \o c \in Bytes /\ a \o (b \o c) \in Bytes
         /\ (a \o b) \o c = a \o (b \o c)
BY ConcatProperties, ConcatAssociative DEF Bytes

(* What a call takes out of a buffer goes on where it was.                 *)
LEMMA TakenOver ==
  ASSUME NEW got \in Bytes, NEW buffer \in Bytes, NEW n \in 0..Len(buffer),
         NEW later \in Bytes
  PROVE  (got \o first(n, buffer)) \o (rest(n, buffer) \o later)
           = got \o (buffer \o later)
<1> DEFINE f == first(n, buffer)  r == rest(n, buffer)
<1>1. /\ f \in Bytes /\ r \in Bytes /\ got \o f \in Bytes
      /\ (got \o f) \o r = got \o buffer
  BY MovedBytes
<1> HIDE DEF f, r
<1>2. ((got \o f) \o r) \o later = (got \o f) \o (r \o later)
  <2> DEFINE h == got \o f
  <2>1. h \in Bytes
    BY <1>1
  <2> HIDE DEF h
  <2>2. (h \o r) \o later = h \o (r \o later)
    BY <1>1, <2>1, ThreePieces
  <2>. QED
    BY <2>2 DEF h
<1>3. (got \o buffer) \o later = got \o (buffer \o later)
  BY ThreePieces
<1>. QED
  BY <1>1, <1>2, <1>3 DEF f, r

LEMMA LongestHolds ==
  /\ longest \in Nat
  /\ \A b \in Requests : Len(Frames(b)) <= longest
  /\ RequestsFit => MaxOutstanding * longest <= Capacity
<1>1. Capacity \in Nat /\ MaxOutstanding \in Nat \ {0}
  BY ByteFacts
<1>2. CASE ~RequestsFit
  <2>1. longest = Base * Base + 1
    BY <1>2 DEF longest
  <2>. QED
    BY <1>2, <2>1, ByteFacts
<1>3. CASE RequestsFit
  <2> DEFINE q == Capacity \div MaxOutstanding
  <2>1. longest = q
    BY <1>3 DEF longest
  <2>2. q \in Nat /\ MaxOutstanding * q <= Capacity
        /\ Capacity < MaxOutstanding * q + MaxOutstanding
    BY <1>1
  <2> HIDE DEF q
  <2>3. ASSUME NEW b \in Requests PROVE Len(Frames(b)) <= q
    <3> DEFINE l == Len(Frames(b))
    <3>1. l \in Nat
      BY ByteFacts, LenProperties DEF Bytes
    <3>2. MaxOutstanding * l <= Capacity
      BY <1>3 DEF RequestsFit
    <3> HIDE DEF l
    <3>3. ~(l >= q + 1)
      <4>1. l >= q + 1 => MaxOutstanding * l >= MaxOutstanding * (q + 1)
        BY <1>1, <2>2, <3>1
      <4>2. MaxOutstanding * (q + 1) = MaxOutstanding * q + MaxOutstanding
        BY <1>1, <2>2
      <4>. QED
        BY <4>1, <4>2, <1>1, <2>2, <3>1, <3>2
    <3>4. l <= q
      BY <3>1, <3>3, <2>2
    <3>. QED
      BY <3>4 DEF l
  <2>. QED
    BY <1>3, <2>1, <2>2, <2>3
<1>. QED
  BY <1>2, <1>3

LEMMA AskedKept ==
  ASSUME AskedInv, heard' = heard, toHub' = toHub, asked' = asked,
         end' = "open" => end = "open" /\ peerOut' = peerOut,
         hub'.at \notin {"closed", "failed"} => hub.at \notin {"closed", "failed"}
  PROVE  AskedInv'
BY DEF AskedInv

(* When the hub has received a request: it is the first of those asked.    *)
LEMMA FirstAsked ==
  ASSUME TypeInv, CallInv, AskedInv, hub.at = "receive", Len(hub.got) >= 2
  PROVE  /\ asked # <<>> /\ size(hub.got) = Len(Head(asked))
         /\ complete(hub) => rest(2, hub.got) = Head(asked)
<1>1. PICK unsent \in Bytes : Spells(heard \o (toHub \o unsent), asked, longest)
  BY DEF AskedInv
<1>2. heard = hub.got /\ hub.got \in Bytes /\ toHub \in Bytes /\ asked \in Seq(Body)
  BY Buffers DEF heard, TypeInv
<1>3. toHub \o unsent \in Bytes
  BY <1>2, ThreePieces
<1>4. longest \in Nat
  BY LongestHolds
<1> DEFINE g == hub.got  t == toHub \o unsent
<1>5. g \in Bytes /\ t \in Bytes /\ Spells(g \o t, asked, longest) /\ Len(g) >= 2
  BY <1>1, <1>2, <1>3
<1> HIDE DEF g, t
<1>6. /\ asked # <<>> /\ size(g) = Len(Head(asked))
      /\ Len(g) = size(g) + 2 => rest(2, g) = Head(asked)
  BY <1>2, <1>4, <1>5, SpellsFirst
<1>7. complete(hub) => Len(g) = size(g) + 2
  <2>1. size(g) \in Nat /\ Len(g) \in Nat
    BY <1>5, SizeIsNat, LenProperties DEF Bytes
  <2>2. complete(hub) => size(g) + 2 - Len(g) = 0
    <3>1. complete(hub) => Len(g) >= 2 /\ missing(hub) = 0
      BY DEF complete, g
    <3>2. ~(Len(g) < 2) => missing(hub) = size(g) + 2 - Len(g)
      BY DEF missing, g
    <3>. QED
      BY <3>1, <3>2, <2>1
  <2>. QED
    BY <2>1, <2>2
<1>. QED
  BY <1>6, <1>7 DEF g

LEMMA AskedStep ==
  ASSUME TypeInv, CallInv, AskedInv, Next
  PROVE  AskedInv'
<1>1. /\ toHub \in Bytes /\ peerOut \in Bytes /\ hub.got \in Bytes
      /\ Len(toHub) \in Nat /\ Len(peerOut) \in Nat
      /\ asked \in Seq(Body) /\ <<>> \in Bytes /\ longest \in Nat
  BY Buffers, StartingCall, LongestHolds DEF TypeInv
<1>2. CASE StartReceive \/ StartSend \/ SizeSent \/ BodySent \/ Publish \/ Read
  BY <1>2, AskedKept
     DEF StartReceive, StartSend, SizeSent, BodySent, Publish, Read, heard, At
<1>3. CASE SendSome
  <2>1. hub'.at = hub.at /\ hub.at \in {"sendSize", "sendBody"}
    BY <1>3 DEF SendSome, TypeInv, sending
  <2>. QED
    BY <1>3, <2>1, AskedKept DEF SendSome, heard
<1>4. CASE ReadSome \/ Reset
  BY <1>4, AskedKept DEF ReadSome, Reset, heard
<1>5. CASE ReceiveThrows \/ Disconnect \/ SendFails
  BY <1>5 DEF ReceiveThrows, Disconnect, SendFails, At, AskedInv
<1>6. CASE Recv
  <2>1. PICK n \in 1..least(missing(hub), Len(toHub)) :
          /\ hub' = [hub EXCEPT !.got = @ \o first(n, toHub)]
          /\ toHub' = rest(n, toHub)
    BY <1>6 DEF Recv
  <2>2. PICK unsent \in Bytes : /\ Spells(heard \o (toHub \o unsent), asked, longest)
                                /\ end = "open" => unsent = peerOut
    BY <1>6 DEF AskedInv, Recv
  <2>3. hub'.got = hub.got \o first(n, toHub) /\ hub'.at = "receive"
        /\ hub.at = "receive"
    BY <2>1, <1>6 DEF TypeInv, Recv
  <2>4. n \in 0..Len(toHub)
    <3>1. missing(hub) \in Int
      <4>1. hub.got \o <<>> = hub.got
        BY <1>1, ConcatEmptySeq DEF Bytes
      <4>. QED
        BY <4>1, <1>1, <2>3, StartingCall, ReadingOn DEF CallInv
    <3>. QED
      BY <3>1, <2>1, <1>1 DEF least
  <2>6. (hub.got \o first(n, toHub)) \o (rest(n, toHub) \o unsent)
          = hub.got \o (toHub \o unsent)
    BY <1>1, <2>4, TakenOver, Zenon
  <2>7. heard' \o (toHub' \o unsent) = heard \o (toHub \o unsent)
    BY <2>1, <2>3, <2>6 DEF heard
  <2>. QED
    BY <1>6, <2>2, <2>7 DEF AskedInv, Recv
<1>7. CASE Received
  <2>1. hub.at = "receive" /\ complete(hub) /\ Len(hub.got) >= 2
    BY <1>7 DEF Received, received, complete
  <2>2. PICK unsent \in Bytes : /\ Spells(heard \o (toHub \o unsent), asked, longest)
                                /\ end = "open" => unsent = peerOut
    BY <2>1 DEF AskedInv
  <2> DEFINE g == hub.got  t == toHub \o unsent
  <2>3. g \in Bytes /\ t \in Bytes /\ Spells(g \o t, asked, longest) /\ Len(g) >= 2
    BY <1>1, <2>1, <2>2, ThreePieces DEF heard
  <2>4. Len(g) = size(g) + 2
    <3>1. size(g) \in Nat /\ Len(g) \in Nat
      BY <2>3, SizeIsNat, LenProperties DEF Bytes
    <3>2. size(g) + 2 - Len(g) = 0
      BY <2>1, <2>3, <3>1 DEF complete, missing
    <3>. QED
      BY <3>1, <3>2
  <2> HIDE DEF g, t
  <2>5. Spells(t, Tail(asked), longest)
    BY <1>1, <2>3, <2>4, SpellsFirst
  <2>6. heard' \o (toHub' \o unsent) = t
    <3>1. heard' = <<>> /\ toHub' = toHub
      BY <1>7 DEF Received, heard, At
    <3>. QED
      BY <3>1, <2>3, ConcatEmptySeq DEF t, Bytes
  <2>. QED
    BY <1>7, <2>2, <2>5, <2>6 DEF AskedInv, Received
<1>8. CASE StartWrite
  <2>1. PICK b \in Requests : peerOut' = Frames(b) /\ asked' = Append(asked, b)
    BY <1>8 DEF StartWrite
  <2>2. b \in Body /\ Frames(b) \in Bytes /\ Len(Frames(b)) <= longest
    BY <2>1, ByteFacts, LongestHolds
  <2>3. end = "open" /\ peerOut = <<>>
    BY <1>8 DEF StartWrite, CallInv
  <2>4. /\ heard' = heard /\ toHub' = toHub /\ hub' = hub
    BY <1>8 DEF StartWrite, heard
  <2>5. ASSUME hub.at \notin {"closed", "failed"}
        PROVE  Spells(heard' \o (toHub' \o peerOut'), asked', longest)
    <3>1. Spells(heard \o (toHub \o <<>>), asked, longest)
      BY <2>3, <2>5 DEF AskedInv
    <3>2. toHub \o <<>> = toHub
      BY <1>1, ConcatEmptySeq DEF Bytes
    <3>3. heard \in Bytes
      BY <1>1 DEF heard
    <3>4. heard \o toHub \in Bytes
      BY <1>1, <3>2, <3>3, ThreePieces
    <3>5. Spells((heard \o toHub) \o Frames(b), Append(asked, b), longest)
      BY <1>1, <2>2, <3>1, <3>2, <3>4, SpellsMore
    <3>6. (heard \o toHub) \o Frames(b) = heard \o (toHub \o Frames(b))
      BY <1>1, <2>2, <3>3, ThreePieces
    <3>. QED
      BY <2>1, <2>4, <3>5, <3>6
  <2>6. peerOut' \in Bytes
    BY <2>1, <2>2
  <2>. QED
    BY <2>4, <2>5, <2>6 DEF AskedInv
<1>9. CASE WriteSome
  <2>1. PICK n \in 1..least(Len(peerOut), room(toHub)) :
          toHub' = toHub \o first(n, peerOut) /\ peerOut' = rest(n, peerOut)
    BY <1>9 DEF WriteSome
  <2>2. n \in 0..Len(peerOut)
    BY <2>1, <1>1, ByteFacts DEF least, room
  <2>3. toHub' \o peerOut' = toHub \o peerOut /\ peerOut' \in Bytes
    BY <1>1, <2>1, <2>2, MovedBytes
  <2>4. heard' = heard /\ hub' = hub /\ end' = end /\ asked' = asked /\ end = "open"
    BY <1>9 DEF WriteSome, heard
  <2>5. ASSUME hub.at \notin {"closed", "failed"}
        PROVE  Spells(heard' \o (toHub' \o peerOut'), asked', longest)
    BY <2>3, <2>4, <2>5 DEF AskedInv
  <2>. QED
    BY <2>3, <2>4, <2>5 DEF AskedInv
<1>10. CASE Close
  BY <1>10, AskedKept DEF Close, heard
<1>. QED
  BY <1>2, <1>3, <1>4, <1>5, <1>6, <1>7, <1>8, <1>9, <1>10
     DEF Next, HubThread, PeerThread


LEMMA OwedKept ==
  ASSUME OwedInv,
         end' = "open" => end = "open" /\ peer'.got = peer.got /\ toPeer' = toPeer
                          /\ hubOut' = hubOut /\ owed' = owed /\ backlog' = backlog
  PROVE  OwedInv'
BY DEF OwedInv

LEMMA MoreOwed ==
  ASSUME OwedInv, TypeInv, NEW b \in Body,
         end' = end, peer' = peer, toPeer' = toPeer, hubOut' = hubOut,
         owed' = Append(owed, b), backlog' = Append(backlog, b)
  PROVE  OwedInv'
<1> SUFFICES ASSUME end = "open"
             PROVE \E sent \in Seq(Body) :
                     /\ Spells(peer.got \o (toPeer \o hubOut), sent, Base * Base + 1)
                     /\ owed' = sent \o backlog'
  BY DEF OwedInv
<1>1. PICK sent \in Seq(Body) :
        /\ Spells(peer.got \o (toPeer \o hubOut), sent, Base * Base + 1)
        /\ owed = sent \o backlog
  BY DEF OwedInv
<1>2. backlog \in Seq(Body) /\ owed \in Seq(Body) /\ <<b>> \in Seq(Body)
  BY DEF TypeInv, TypeOK
<1>3. Append(owed, b) = owed \o <<b>> /\ Append(backlog, b) = backlog \o <<b>>
  BY <1>2, AppendIsConcat
<1>4. (sent \o backlog) \o <<b>> = sent \o (backlog \o <<b>>)
  BY <1>2, ConcatAssociative
<1>. QED
  BY <1>1, <1>3, <1>4

(* When the peer has read a frame: it is that of the first body owed.      *)
LEMMA FirstOwed ==
  ASSUME TypeInv, CallInv, OwedInv, end = "open", complete(peer)
  PROVE  /\ owed # <<>> /\ rest(2, peer.got) = Head(owed)
         /\ \E sent \in Seq(Body) :
              /\ Spells(toPeer \o hubOut, sent, Base * Base + 1)
              /\ Tail(owed) = sent \o backlog
<1>1. PICK sent \in Seq(Body) :
        /\ Spells(peer.got \o (toPeer \o hubOut), sent, Base * Base + 1)
        /\ owed = sent \o backlog
  BY DEF OwedInv
<1>2. peer.got \in Bytes /\ toPeer \in Bytes /\ hubOut \in Bytes
      /\ backlog \in Seq(Body) /\ Base * Base + 1 \in Nat
  BY Buffers, ByteFacts DEF TypeInv, TypeOK
<1> DEFINE g == peer.got  t == toPeer \o hubOut  m == Base * Base + 1
<1>3. g \in Bytes /\ t \in Bytes /\ m \in Nat /\ Spells(g \o t, sent, m)
  BY <1>1, <1>2, ThreePieces
<1>4. Len(g) >= 2 /\ missing(peer) = 0
  BY DEF complete
<1>5. ~(Len(g) < 2) => missing(peer) = size(g) + 2 - Len(g)
  BY DEF missing
<1> HIDE DEF g, t, m
<1>6. size(g) \in Nat /\ Len(g) \in Nat
  BY <1>3, <1>4, SizeIsNat, LenProperties DEF Bytes
<1>7. Len(g) = size(g) + 2
  BY <1>4, <1>5, <1>6
<1>8. sent # <<>> /\ rest(2, g) = Head(sent) /\ Spells(t, Tail(sent), m)
  BY <1>3, <1>4, <1>7, SpellsFirst
<1>9. /\ sent \o backlog # <<>> /\ Head(sent \o backlog) = Head(sent)
      /\ Tail(sent \o backlog) = Tail(sent) \o backlog /\ Tail(sent) \in Seq(Body)
  <2>1. /\ Head(sent) \in Body /\ Tail(sent) \in Seq(Body)
        /\ sent = <<Head(sent)>> \o Tail(sent)
    BY <1>8, HeadTailProperties
  <2> DEFINE h == Head(sent)  r == Tail(sent)
  <2>2. h \in Body /\ r \in Seq(Body) /\ sent = <<h>> \o r
    BY <2>1
  <2> HIDE DEF h, r
  <2>3. <<h>> \in Seq(Body) /\ (<<h>> \o r) \o backlog = <<h>> \o (r \o backlog)
        /\ r \o backlog \in Seq(Body)
    BY <2>2, <1>2, ConcatAssociative, ConcatProperties
  <2>4. sent \o backlog = <<h>> \o (r \o backlog)
    BY <2>2, <2>3
  <2> DEFINE q == r \o backlog
  <2> HIDE DEF q
  <2>5. q \in Seq(Body) => /\ <<h>> \o q # <<>> /\ Head(<<h>> \o q) = h
                           /\ Tail(<<h>> \o q) = q
    BY <2>2
  <2>. QED
    BY <2>2, <2>3, <2>4, <2>5 DEF h, r, q
<1>. QED
  BY <1>1, <1>8, <1>9 DEF g, t, m

LEMMA OwedStep ==
  ASSUME TypeInv, CallInv, OwedInv, Next
  PROVE  OwedInv'
<1>1. /\ toPeer \in Bytes /\ hubOut \in Bytes /\ peer.got \in Bytes
      /\ Len(toPeer) \in Nat /\ Len(hubOut) \in Nat
      /\ backlog \in Seq(Body) /\ owed \in Seq(Body)
      /\ <<>> \in Bytes /\ Base * Base + 1 \in Nat
  BY Buffers, StartingCall, ByteFacts DEF TypeInv, TypeOK
<1>2. CASE \/ StartReceive \/ Recv \/ ReceiveThrows \/ Disconnect \/ SizeSent
           \/ SendFails
  BY <1>2, OwedKept
     DEF StartReceive, Recv, ReceiveThrows, Disconnect, SizeSent, SendFails
<1>3. CASE StartWrite \/ WriteSome
  <2>1. peer'.got = peer.got
    BY <1>3 DEF StartWrite, WriteSome, CallInv, At
  <2>. QED
    BY <1>3, <2>1, OwedKept DEF StartWrite, WriteSome
<1>4. CASE Close \/ Reset
  BY <1>4 DEF Close, Reset, OwedInv
<1>5. CASE Received
  BY <1>5, MoreOwed, ByteFacts DEF Received
<1>6. CASE Publish
  <2>1. PICK m \in Messages : backlog' = Append(backlog, m) /\ owed' = Append(owed, m)
    BY <1>6 DEF Publish
  <2>2. m \in Body
    BY <2>1, ByteFacts
  <2>. QED
    BY <1>6, <2>1, <2>2, MoreOwed DEF Publish
<1>7. CASE BodySent
  <2>1. end = "open" => hubOut = <<>>
    <3>1. end = "open" => Len(hubOut) = 0
      BY <1>7 DEF BodySent, callDone, interrupted, ofCall
    <3>. QED
      BY <3>1, <1>1, EmptySeq DEF Bytes
  <2>. QED
    BY <1>7, <2>1, OwedKept DEF BodySent
<1>8. CASE StartSend
  <2> DEFINE b == Head(backlog)  s == peer.got \o toPeer  m == Base * Base + 1
  <2>1. backlog # <<>> /\ b \in Body /\ Tail(backlog) \in Seq(Body)
        /\ backlog = <<b>> \o Tail(backlog)
    BY <1>1, <1>8, HeadTailProperties DEF StartSend
  <2>2. hubOut = <<>> /\ end = "open" /\ end' = end /\ peer' = peer /\ toPeer' = toPeer
        /\ owed' = owed /\ hubOut' = Frames(b) /\ backlog' = Tail(backlog)
    BY <1>8 DEF StartSend, CallInv
  <2>3. PICK sent \in Seq(Body) :
          /\ Spells(peer.got \o (toPeer \o hubOut), sent, m)
          /\ owed = sent \o backlog
    BY <2>2 DEF OwedInv
  <2>4. toPeer \o hubOut = toPeer
    BY <1>1, <2>2, ConcatEmptySeq DEF Bytes
  <2>5. s \in Bytes /\ Spells(s, sent, m) /\ m \in Nat
    BY <1>1, <2>3, <2>4, ThreePieces
  <2>6. Frames(b) \in Bytes /\ Len(Frames(b)) <= m
    BY <2>1, ByteFacts
  <2>7. s \o Frames(b) = peer.got \o (toPeer \o Frames(b))
    BY <1>1, <2>6, ThreePieces
  <2> HIDE DEF b, s, m
  <2>8. Spells(s \o Frames(b), Append(sent, b), m)
    BY <2>1, <2>5, <2>6, SpellsMore
  <2>9. Append(sent, b) \in Seq(Body) /\ owed = Append(sent, b) \o Tail(backlog)
    <3> DEFINE r == Tail(backlog)
    <3>1. r \in Seq(Body) /\ backlog = <<b>> \o r /\ <<b>> \in Seq(Body)
      BY <2>1
    <3> HIDE DEF r
    <3>2. sent \o (<<b>> \o r) = (sent \o <<b>>) \o r
      BY <3>1, ConcatAssociative
    <3>3. Append(sent, b) = sent \o <<b>> /\ Append(sent, b) \in Seq(Body)
      BY <2>1, AppendIsConcat, AppendProperties
    <3>. QED
      BY <2>3, <3>1, <3>2, <3>3 DEF r
  <2>. QED
    BY <2>2, <2>7, <2>8, <2>9 DEF OwedInv, m
<1>9. CASE SendSome
  <2>1. PICK n \in 1..least(ofCall, room(toPeer)) :
          toPeer' = toPeer \o first(n, hubOut) /\ hubOut' = rest(n, hubOut)
    BY <1>9 DEF SendSome
  <2>2. n \in 0..Len(hubOut)
    <3>1. ofCall \in 0..Len(hubOut)
      BY <1>9, Buffers DEF SendSome
    <3>. QED
      BY <2>1, <3>1, <1>1, ByteFacts DEF least, room
  <2>3. toPeer' \o hubOut' = toPeer \o hubOut
    BY <1>1, <2>1, <2>2, MovedBytes
  <2>. QED
    BY <1>9, <2>3 DEF SendSome, OwedInv
<1>10. CASE ReadSome
  <2>1. PICK n \in 1..least(missing(peer), Len(toPeer)) :
          /\ peer' = [at |-> "read", got |-> peer.got \o first(n, toPeer)]
          /\ toPeer' = rest(n, toPeer)
    BY <1>10 DEF ReadSome
  <2>2. n \in 0..Len(toPeer)
    <3>1. missing(peer) \in Int
      <4>1. peer.got \o <<>> = peer.got
        BY <1>1, ConcatEmptySeq DEF Bytes
      <4>. QED
        BY <4>1, <1>1, StartingCall, ReadingOn DEF CallInv
    <3>. QED
      BY <2>1, <3>1, <1>1 DEF least
  <2>3. (peer.got \o first(n, toPeer)) \o (rest(n, toPeer) \o hubOut)
          = peer.got \o (toPeer \o hubOut)
    BY <1>1, <2>2, TakenOver, Zenon
  <2>4. peer'.got \o (toPeer' \o hubOut) = peer.got \o (toPeer \o hubOut)
    BY <2>1, <2>3
  <2>. QED
    BY <1>10, <2>4 DEF ReadSome, OwedInv
<1>11. CASE Read
  <2>1. complete(peer) /\ peer.at = "read"
    BY <1>11 DEF Read
  <2>2. end = "open"
    BY <2>1 DEF CallInv
  <2>3. PICK sent \in Seq(Body) :
          /\ Spells(toPeer \o hubOut, sent, Base * Base + 1)
          /\ Tail(owed) = sent \o backlog
    BY <2>1, <2>2, FirstOwed
  <2>4. peer'.got = <<>> /\ toPeer' = toPeer /\ hubOut' = hubOut
        /\ owed' = Tail(owed) /\ backlog' = backlog
    BY <1>11 DEF Read, At
  <2>5. peer'.got \o (toPeer' \o hubOut') = toPeer \o hubOut
    <3>1. toPeer \o hubOut \in Seq(0..Base - 1)
      BY <1>1, ThreePieces DEF Bytes
    <3>. QED
      BY <2>4, <3>1, ConcatEmptySeq
  <2>. QED
    BY <2>3, <2>4, <2>5 DEF OwedInv
<1>. QED
  BY <1>2, <1>3, <1>4, <1>5, <1>6, <1>7, <1>8, <1>9, <1>10, <1>11
     DEF Next, HubThread, PeerThread


LEMMA CountKept ==
  ASSUME CountInv,
         end' = "open" => end = "open" /\ asked' = asked /\ owed' = owed
                          /\ outstanding' = outstanding
  PROVE  CountInv'
BY DEF CountInv

LEMMA CountStep ==
  ASSUME FramingInv, Next
  PROVE  CountInv'
<1>1. /\ asked \in Seq(Body) /\ owed \in Seq(Body) /\ Len(asked) \in Nat
      /\ outstanding \in Nat /\ MaxOutstanding \in Nat
      /\ responsesIn(owed) \in Nat /\ CountInv
  BY LenProperties, ByteFacts, ResponsesType DEF FramingInv, TypeInv, TypeOK
<1>2. CASE \/ StartReceive \/ Recv \/ ReceiveThrows \/ Disconnect \/ StartSend
           \/ SendSome \/ SizeSent \/ BodySent \/ SendFails
           \/ WriteSome \/ ReadSome
  BY <1>1, <1>2, CountKept
     DEF StartReceive, Recv, ReceiveThrows, Disconnect, StartSend, SendSome,
         SizeSent, BodySent, SendFails, WriteSome, ReadSome
<1>3. CASE Close \/ Reset
  BY <1>3 DEF Close, Reset, CountInv
<1>4. CASE Received
  <2>1. asked # <<>>
    BY <1>4, FirstAsked DEF FramingInv, Received, received, complete
  <2>2. Len(Tail(asked)) = Len(asked) - 1
    BY <1>1, <2>1, HeadTailProperties
  <2>3. responsesIn(Append(owed, Response)) = responsesIn(owed) + 1
    BY <1>1, ByteFacts, ResponsesAfterAppend
  <2>. QED
    <3>1. /\ Len(asked') = Len(asked) - 1 /\ responsesIn(owed') = responsesIn(owed) + 1
          /\ end' = end /\ outstanding' = outstanding
      BY <1>4, <2>2, <2>3 DEF Received
    <3>. QED
      BY <1>1, <3>1 DEF CountInv
<1>5. CASE Publish
  <2>1. PICK m \in Messages : owed' = Append(owed, m)
    BY <1>5 DEF Publish
  <2>2. m \in Body /\ m # Response
    BY <2>1, ByteFacts
  <2>3. responsesIn(owed') = responsesIn(owed)
    BY <1>1, <2>1, <2>2, ResponsesAfterAppend
  <2>. QED
    BY <1>1, <1>5, <2>3 DEF Publish, CountInv
<1>6. CASE StartWrite
  <2>1. PICK b \in Requests : asked' = Append(asked, b)
    BY <1>6 DEF StartWrite
  <2>2. Len(asked') = Len(asked) + 1
    BY <1>1, <2>1, ByteFacts, AppendProperties
  <2>. QED
    BY <1>1, <1>6, <2>2 DEF StartWrite, mayRequest, CountInv
<1>7. CASE Read
  <2>1. complete(peer) /\ end = "open"
    BY <1>7 DEF Read, FramingInv, CallInv
  <2>2. owed # <<>> /\ rest(2, peer.got) = Head(owed)
    BY <2>1, FirstOwed DEF FramingInv
  <2>3. responsesIn(owed)
          = responsesIn(Tail(owed)) + (IF Head(owed) = Response THEN 1 ELSE 0)
    BY <1>1, <2>2, ResponsesAfterTail
  <2>4. Tail(owed) \in Seq(Body) /\ responsesIn(Tail(owed)) \in Nat
    BY <1>1, <2>2, HeadTailProperties, ResponsesType
  <2>5. outstanding' = IF Head(owed) = Response /\ outstanding > 0
                       THEN outstanding - 1 ELSE outstanding
    BY <1>7, <2>2 DEF Read
  <2>6. owed' = Tail(owed) /\ asked' = asked
    BY <1>7 DEF Read
  <2>7. CASE Head(owed) = Response
    BY <1>1, <2>1, <2>3, <2>4, <2>5, <2>6, <2>7 DEF CountInv
  <2>8. CASE Head(owed) # Response
    BY <1>1, <2>1, <2>3, <2>4, <2>5, <2>6, <2>8 DEF CountInv
  <2>. QED
    BY <2>7, <2>8
<1>. QED
  BY <1>2, <1>3, <1>4, <1>5, <1>6, <1>7 DEF Next, HubThread, PeerThread

LEMMA FramingStep == FramingInv /\ [Next]_vars => FramingInv'
<1> SUFFICES ASSUME FramingInv, [Next]_vars PROVE FramingInv'
  OBVIOUS
<1>1. CASE Next
  <2>1. TypeInv /\ CallInv /\ AskedInv /\ OwedInv
    BY DEF FramingInv
  <2>2. Received => asked # <<>>
    BY <2>1, FirstAsked DEF Received, received, complete
  <2>3. Read => owed # <<>>
    BY <2>1, FirstOwed DEF Read, CallInv
  <2>4. TypeInv' /\ CallInv'
    BY <1>1, <2>1, <2>2, <2>3, QuietStepsKeepTypes, QueueStepsKeepTypes, MovesKeepTypes
       DEF Next, HubThread, PeerThread
  <2>. QED
    BY <1>1, <2>1, <2>4, AskedStep, OwedStep, CountStep DEF FramingInv
<1>2. CASE UNCHANGED vars
  <2>1. TypeInv' /\ CallInv'
    BY <1>2 DEF FramingInv, TypeInv, TypeOK, CallInv, vars
  <2>2. AskedInv'
    BY <1>2, AskedKept DEF FramingInv, vars, heard
  <2>3. OwedInv'
    BY <1>2, OwedKept DEF FramingInv, vars
  <2>4. CountInv'
    BY <1>2, CountKept DEF FramingInv, vars
  <2>. QED
    BY <2>1, <2>2, <2>3, <2>4 DEF FramingInv
<1>. QED
  BY <1>1, <1>2

-----------------------------------------------------------------------------
(* The inductive invariant: what either side has received of a frame, what *)
(* is on its way and what is still to be sent spell the bodies that the    *)
(* other side has begun to send, wherever TCP cuts the stream.             *)
THEOREM FramingInvariance == Spec => []FramingInv
BY InitHolds, FramingStep, PTL DEF Spec

(* Every variable keeps its type; in particular neither direction ever     *)
(* holds more than the socket buffers take.                                *)
THEOREM BuffersAreBounded == Spec => []TypeOK
<1>1. FramingInv => TypeOK
  BY DEF FramingInv, TypeInv
<1>. QED
  BY <1>1, FramingInvariance, PTL

(* receive() returns the bodies the peer has sent, whole, in order and no  *)
(* other (Socket.cpp, ClientSocket::receive).                              *)
THEOREM RequestsArriveWhole == Spec => ReceiveReturnsFrames
<1>1. FramingInv /\ [Next]_vars => [Received => rest(2, hub.got) = Head(asked)]_vars
  BY FirstAsked DEF FramingInv, Received, received, complete
<1>. QED
  BY <1>1, FramingInvariance, PTL DEF Spec, ReceiveReturnsFrames

(* What a peer reads is what was queued for it, whole and in order, also   *)
(* while a frame is larger than the buffers (Socket.cpp, send).            *)
THEOREM AnswersArriveWhole == Spec => PeerReadsFrames
<1>1. FramingInv /\ [Next]_vars => [Read => rest(2, peer.got) = Head(owed)]_vars
  BY FirstOwed DEF FramingInv, Read, CallInv
<1>. QED
  BY <1>1, FramingInvariance, PTL DEF Spec, PeerReadsFrames

(* The only thread of the hub, blocked in send(), and a peer, blocked in   *)
(* write_all(), never wait for each other to read, if the peer's buffers   *)
(* hold the requests it sends before it reads its answers.                 *)
THEOREM SidesNeverWaitForEachOther == Spec => []NoMutualWait
<1>1. FramingInv => NoMutualWait
  <2> SUFFICES ASSUME FramingInv, RequestsFit, waitsToSend, waitsToWrite
               PROVE  FALSE
    BY DEF NoMutualWait
  <2>1. hub.at \in {"sendSize", "sendBody"} /\ peer.at = "write"
        /\ Capacity - Len(toHub) = 0
    BY DEF waitsToSend, waitsToWrite, sending, room
  <2>2. end = "open" /\ peerOut # <<>> /\ heard = <<>>
    BY <2>1 DEF FramingInv, CallInv, heard
  <2>3. Spells(heard \o (toHub \o peerOut), asked, longest)
    BY <2>1, <2>2 DEF FramingInv, AskedInv
  <2>4. toHub \in Bytes /\ peerOut \in Bytes /\ Len(toHub) \in Nat /\ Len(peerOut) \in Nat
        /\ asked \in Seq(Body) /\ Len(asked) \in Nat /\ longest \in Nat
    BY Buffers, LongestHolds, LenProperties DEF FramingInv, TypeInv
  <2>5. Len(peerOut) > 0
    BY <2>2, <2>4, EmptySeq DEF Bytes
  <2>6. /\ toHub \o peerOut \in Bytes /\ heard \o (toHub \o peerOut) = toHub \o peerOut
        /\ Len(toHub \o peerOut) = Len(toHub) + Len(peerOut)
    BY <2>2, <2>4, ConcatProperties, ConcatEmptySeq DEF Bytes
  <2>7. Len(toHub \o peerOut) <= Len(asked) * longest
    BY <2>3, <2>4, <2>6, SpellsLength
  <2>8. Len(asked) <= MaxOutstanding
    <3>1. responsesIn(owed) \in Nat
      BY ResponsesType DEF FramingInv, TypeInv
    <3>2. outstanding \in Nat /\ outstanding <= MaxOutstanding
          /\ outstanding = Len(asked) + responsesIn(owed)
      BY <2>2 DEF FramingInv, CountInv, TypeInv, TypeOK
    <3>. QED
      BY <2>4, <3>1, <3>2, ByteFacts
  <2>9. Len(asked) * longest <= MaxOutstanding * longest
    BY <2>4, <2>8, ByteFacts
  <2>10. MaxOutstanding * longest <= Capacity
    BY LongestHolds
  <2> DEFINE p == Len(asked) * longest  q == MaxOutstanding * longest
  <2>11. /\ p \in Nat /\ q \in Nat /\ p <= q /\ q <= Capacity
         /\ Len(toHub) + Len(peerOut) <= p
    BY <2>4, <2>6, <2>7, <2>9, <2>10, ByteFacts
  <2> HIDE DEF p, q
  <2>. QED
    BY <2>1, <2>4, <2>5, <2>11, ByteFacts
<1>. QED
  BY <1>1, FramingInvariance, PTL
=============================================================================
