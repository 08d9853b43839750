--------------------------- MODULE UpdateFlowProofs ---------------------------
(***************************************************************************)
(* Every update of every world reaches the contract: what each conversion  *)
(* gives, then the files through the circuits, then the invariants.        *)
(***************************************************************************)
EXTENDS UpdateFlow, ArithmeticProofs, SequenceTheorems

\* The types of what is not modelled: SHA256, the y of a point, signatures.
PrimitivesTyped ==
  /\ \A s \in Seq(Nat) : Sha(s) \in Digest
  /\ \A x \in Coordinate, sign \in 0..1 : CurveY(x, sign) \in Coordinate
  /\ \A m \in Digest :
       Signature(m) \in [x0 : Coordinate, x1 : Coordinate,
                         y0 : Coordinate, y1 : Coordinate]

---------------------------------------------------------------------------
(* Sequences of known length. *)

\* A function on 1..n is a sequence of length n.
LEMMA IsSeqOf ==
  ASSUME NEW S, NEW n \in Nat, NEW s \in [1..n -> S]
  PROVE  s \in Seq(S) /\ Len(s) = n
OBVIOUS

\* What joining sequences over S of lengths m and n gives, k being m + n.
Joined(S, m, n, k) ==
  \A s \in [1..m -> S], t \in [1..n -> S] :
    /\ s \o t \in [1..k -> S]
    /\ \A i \in 1..m : (s \o t)[i] = s[i]
    /\ \A i \in 1..n : (s \o t)[m + i] = t[i]

\* Joining two sequences of known length.
LEMMA Join ==
  ASSUME NEW S, NEW m \in Nat, NEW n \in Nat, NEW k, k = m + n
  PROVE  Joined(S, m, n, k)
<1> SUFFICES ASSUME NEW s \in [1..m -> S], NEW t \in [1..n -> S]
             PROVE  /\ s \o t \in [1..k -> S]
                    /\ \A i \in 1..m : (s \o t)[i] = s[i]
                    /\ \A i \in 1..n : (s \o t)[m + i] = t[i]
  BY DEF Joined
<1>1. s \in Seq(S) /\ Len(s) = m /\ t \in Seq(S) /\ Len(t) = n
  BY IsSeqOf
<1>2. /\ s \o t \in Seq(S) /\ Len(s \o t) = k
      /\ \A i \in 1..k : (s \o t)[i] = IF i <= m THEN s[i] ELSE t[i - m]
  BY <1>1, ConcatProperties
<1>3. s \o t \in [1..k -> S]
  BY <1>2, LenProperties
<1>4. ASSUME NEW i \in 1..n PROVE (s \o t)[m + i] = t[i]
  <2>1. m + i \in 1..k /\ ~(m + i <= m) /\ (m + i) - m = i
    OBVIOUS
  <2> QED
    BY <1>2, <2>1
<1> QED
  BY <1>2, <1>3, <1>4

\* What the part from a to b of a sequence over S of length n is, k being its
\* length.
Parts(S, n, a, b, k) ==
  \A s \in [1..n -> S] :
    /\ SubSeq(s, a, b) \in [1..k -> S]
    /\ Len(SubSeq(s, a, b)) = k
    /\ \A i \in 1..k : SubSeq(s, a, b)[i] = s[a + i - 1]

\* Cutting a part out of a sequence of known length.
LEMMA Cut ==
  ASSUME NEW S, NEW n \in Nat, NEW a \in 1..n, NEW b \in a..n, NEW k, k = b - a + 1
  PROVE  Parts(S, n, a, b, k)
<1> SUFFICES ASSUME NEW s \in [1..n -> S]
             PROVE  /\ SubSeq(s, a, b) \in [1..k -> S]
                    /\ Len(SubSeq(s, a, b)) = k
                    /\ \A i \in 1..k : SubSeq(s, a, b)[i] = s[a + i - 1]
  BY DEF Parts
<1>1. \A i \in a..b : s[i] \in S
  OBVIOUS
<1>2. /\ SubSeq(s, a, b) \in Seq(S)
      /\ Len(SubSeq(s, a, b)) = IF a <= b THEN b - a + 1 ELSE 0
      /\ \A i \in 1..k : SubSeq(s, a, b)[i] = s[a + i - 1]
  BY <1>1, SubSeqProperties
<1>3. Len(SubSeq(s, a, b)) = k
  BY <1>2
<1>4. SubSeq(s, a, b) \in [1..k -> S]
  BY <1>2, <1>3, LenProperties
<1> QED
  BY <1>2, <1>3, <1>4

\* The part from a to b of joined sequences lies in the first, or is the part
\* from c to d of the second; the part that is the whole.
Fronts(S, m, n, a, b) ==
  \A s \in [1..m -> S], t \in [1..n -> S] : SubSeq(s \o t, a, b) = SubSeq(s, a, b)

\* A part that lies in the first of two joined sequences.
LEMMA FrontOf ==
  ASSUME NEW S, NEW m \in Nat, NEW n \in Nat, NEW a \in 1..m, NEW b \in 1..m
  PROVE  Fronts(S, m, n, a, b)
<1> SUFFICES ASSUME NEW s \in [1..m -> S], NEW t \in [1..n -> S]
             PROVE  SubSeq(s \o t, a, b) = SubSeq(s, a, b)
  BY DEF Fronts
<1>1. s \in Seq(S) /\ Len(s) = m /\ t \in Seq(S) /\ Len(t) = n
  BY IsSeqOf
<1> QED
  BY <1>1, SubSeqOfConcat1

Backs(S, m, n, a, b, c, d) ==
  \A s \in [1..m -> S], t \in [1..n -> S] : SubSeq(s \o t, a, b) = SubSeq(t, c, d)

\* A part that lies in the second.
LEMMA BackOf ==
  ASSUME NEW S, NEW m \in Nat, NEW n \in Nat,
         NEW a \in (m + 1)..(m + n), NEW b \in (m + 1)..(m + n),
         NEW c, c = a - m, NEW d, d = b - m
  PROVE  Backs(S, m, n, a, b, c, d)
<1> SUFFICES ASSUME NEW s \in [1..m -> S], NEW t \in [1..n -> S]
             PROVE  SubSeq(s \o t, a, b) = SubSeq(t, c, d)
  BY DEF Backs
<1>1. s \in Seq(S) /\ Len(s) = m /\ t \in Seq(S) /\ Len(t) = n
  BY IsSeqOf
<1> QED
  BY <1>1, SubSeqOfConcat2

Whole(S, n) == \A s \in [1..n -> S] : SubSeq(s, 1, n) = s

\* The part that is the whole.
LEMMA WholeOf ==
  ASSUME NEW S, NEW n \in Nat
  PROVE  Whole(S, n)
<1> SUFFICES ASSUME NEW s \in [1..n -> S] PROVE SubSeq(s, 1, n) = s
  BY DEF Whole
<1>1. s \in Seq(S) /\ Len(s) = n
  BY IsSeqOf
<1> QED
  BY <1>1, SubSeqFull

\* Sequences of a length are equal digit by digit; what reversing them gives.
ByDigits(S, n) ==
  \A s, t \in [1..n -> S] : (\A i \in 1..n : s[i] = t[i]) => s = t

\* Two sequences of a length with the same digits are one.
LEMMA SameDigits ==
  ASSUME NEW S, NEW n \in Nat
  PROVE  ByDigits(S, n)
BY DEF ByDigits

Reversed(S, n) ==
  \A s \in [1..n -> S] :
    /\ Reverse(s) \in [1..n -> S]
    /\ \A i \in 1..n : Reverse(s)[i] = s[(n - i) + 1]

\* Reversing a sequence of known length.
LEMMA ReverseOf ==
  ASSUME NEW S, NEW n \in Nat
  PROVE  Reversed(S, n)
<1> SUFFICES ASSUME NEW s \in [1..n -> S]
             PROVE  /\ Reverse(s) \in [1..n -> S]
                    /\ \A i \in 1..n : Reverse(s)[i] = s[(n - i) + 1]
  BY DEF Reversed
<1>1. Len(s) = n
  BY IsSeqOf
<1>2. \A i \in 1..n : (n - i) + 1 \in 1..n
  OBVIOUS
<1> QED
  BY <1>1, <1>2 DEF Reverse

---------------------------------------------------------------------------
(* Digits and numbers. *)

\* A digit has at least three bits; the powers in use.
LEMMA ChunkFacts ==
  /\ Chunk \in Nat /\ Chunk >= 8
  /\ Chunk \div 8 \in Nat \ {0} /\ Chunk = 8 * (Chunk \div 8)
  /\ Chunk \div 2 = 4 * (Chunk \div 8)
  /\ Pow64 = Chunk * Chunk /\ Pow64 \in Nat /\ Pow64 >= 64
  /\ Pow96 = Chunk * Pow64 /\ Pow96 \in Nat
<1> DEFINE q == Chunk \div 8
<1>1. Chunk \in Nat /\ q \in Nat \ {0} /\ Chunk = 8 * q
  BY ChunkAssumption
<1> HIDE DEF q
<1>2. Chunk >= 8 /\ Chunk \div 2 = 4 * q
  BY <1>1
<1>3. Chunk * Chunk \in Nat /\ Chunk * Chunk >= 64
  BY <1>1, <1>2
<1>4. Pow96 = Chunk * Pow64 /\ Pow96 \in Nat
  BY <1>1, <1>3 DEF Pow64, Pow96
<1> QED
  BY <1>1, <1>2, <1>3, <1>4 DEF Pow64, q

\* The value of three digits, those of a limb.
LEMMA NumberOf3 ==
  ASSUME NEW s, Len(s) = 3, s[1] \in Nat, s[2] \in Nat, s[3] \in Nat
  PROVE  Number(s) = Chunk * (Chunk * s[1] + s[2]) + s[3]
<1> DEFINE value == CHOOSE v : v = [i \in 0..3 |-> IF i = 0 THEN 0
                                                   ELSE Chunk * v[i - 1] + s[i]]
           g == [i \in 0..3 |-> IF i = 0 THEN 0
                                ELSE IF i = 1 THEN s[1]
                                ELSE IF i = 2 THEN Chunk * s[1] + s[2]
                                ELSE Chunk * (Chunk * s[1] + s[2]) + s[3]]
<1>1. Number(s) = value[3]
  BY DEF Number
<1>2. \A i \in 0..3 : g[i] = IF i = 0 THEN 0 ELSE Chunk * g[i - 1] + s[i]
  BY ChunkFacts
<1>3. g = [i \in 0..3 |-> IF i = 0 THEN 0 ELSE Chunk * g[i - 1] + s[i]]
  BY <1>2
<1>4. value = [i \in 0..3 |-> IF i = 0 THEN 0 ELSE Chunk * value[i - 1] + s[i]]
  <2> HIDE DEF g
  <2> QED
    BY <1>3
<1> HIDE DEF value
<1>5. \A i \in 0..3 : value[i] = IF i = 0 THEN 0 ELSE Chunk * value[i - 1] + s[i]
  BY <1>4
<1>6. value[0] = 0 /\ value[1] = Chunk * value[0] + s[1]
      /\ value[2] = Chunk * value[1] + s[2] /\ value[3] = Chunk * value[2] + s[3]
  BY <1>5
<1> QED
  BY <1>1, <1>6, ChunkFacts

\* The value of four digits, those of a half.
LEMMA NumberOf4 ==
  ASSUME NEW s, Len(s) = 4,
         s[1] \in Nat, s[2] \in Nat, s[3] \in Nat, s[4] \in Nat
  PROVE  Number(s) = Chunk * (Chunk * (Chunk * s[1] + s[2]) + s[3]) + s[4]
<1> DEFINE value == CHOOSE v : v = [i \in 0..4 |-> IF i = 0 THEN 0
                                                   ELSE Chunk * v[i - 1] + s[i]]
           g == [i \in 0..4 |-> IF i = 0 THEN 0
                                ELSE IF i = 1 THEN s[1]
                                ELSE IF i = 2 THEN Chunk * s[1] + s[2]
                                ELSE IF i = 3 THEN Chunk * (Chunk * s[1] + s[2]) + s[3]
                                ELSE Chunk * (Chunk * (Chunk * s[1] + s[2]) + s[3])
                                       + s[4]]
<1>1. Number(s) = value[4]
  BY DEF Number
<1>2. \A i \in 0..4 : g[i] = IF i = 0 THEN 0 ELSE Chunk * g[i - 1] + s[i]
  BY ChunkFacts
<1>3. g = [i \in 0..4 |-> IF i = 0 THEN 0 ELSE Chunk * g[i - 1] + s[i]]
  BY <1>2
<1>4. value = [i \in 0..4 |-> IF i = 0 THEN 0 ELSE Chunk * value[i - 1] + s[i]]
  <2> HIDE DEF g
  <2> QED
    BY <1>3
<1> HIDE DEF value
<1>5. \A i \in 0..4 : value[i] = IF i = 0 THEN 0 ELSE Chunk * value[i - 1] + s[i]
  BY <1>4
<1>6. value[0] = 0 /\ value[1] = Chunk * value[0] + s[1]
      /\ value[2] = Chunk * value[1] + s[2] /\ value[3] = Chunk * value[2] + s[3]
      /\ value[4] = Chunk * value[3] + s[4]
  BY <1>5
<1> QED
  BY <1>1, <1>6, ChunkFacts

\* A digit under the rest of a number is its remainder.
LEMMA LastDigit ==
  ASSUME NEW q \in Nat, NEW r \in 0..(Chunk - 1)
  PROVE  /\ Chunk * q + r \in Nat
         /\ (Chunk * q + r) \div Chunk = q
         /\ (Chunk * q + r) % Chunk = r
<1> DEFINE x == Chunk * q + r
<1>1. Chunk \in Nat \ {0} /\ Chunk * q \in Nat
  BY ChunkFacts
<1>2. x \in Nat /\ x \div Chunk = q
  BY <1>1, DivUnique
<1>3. x = Chunk * (x \div Chunk) + (x % Chunk) /\ x % Chunk \in Nat
  BY <1>1, <1>2
<1>4. Chunk * q + (x % Chunk) = Chunk * q + r
  BY <1>2, <1>3
<1> QED
  BY <1>1, <1>2, <1>3, <1>4

\* Repeated division, for as many digits as are used.
LEMMA Quotients ==
  ASSUME NEW n \in 2..4, NEW v
  PROVE  \E q : /\ q[0] = v
                /\ \A i \in 1..n : q[i] = q[i - 1] \div Chunk
                /\ Digits(v, n) = [i \in 1..n |-> q[n - i] % Chunk]
<1> DEFINE quotient == CHOOSE f : f = [i \in 0..n |-> IF i = 0 THEN v
                                                      ELSE f[i - 1] \div Chunk]
           g == [i \in 0..n |-> IF i = 0 THEN v
                  ELSE IF i = 1 THEN v \div Chunk
                  ELSE IF i = 2 THEN (v \div Chunk) \div Chunk
                  ELSE IF i = 3 THEN ((v \div Chunk) \div Chunk) \div Chunk
                  ELSE (((v \div Chunk) \div Chunk) \div Chunk) \div Chunk]
<1>1. Digits(v, n) = [i \in 1..n |-> quotient[n - i] % Chunk]
  BY DEF Digits
<1>2. \A i \in 0..n : g[i] = IF i = 0 THEN v ELSE g[i - 1] \div Chunk
  OBVIOUS
<1>3. g = [i \in 0..n |-> IF i = 0 THEN v ELSE g[i - 1] \div Chunk]
  BY <1>2
<1>4. quotient = [i \in 0..n |-> IF i = 0 THEN v ELSE quotient[i - 1] \div Chunk]
  <2> HIDE DEF g
  <2> QED
    BY <1>3
<1> HIDE DEF quotient
<1>5. quotient[0] = v /\ \A i \in 1..n : quotient[i] = quotient[i - 1] \div Chunk
  BY <1>4
<1> QED
  BY <1>1, <1>5

\* The digits of a number put together from digits are those digits.
LEMMA DigitsOf2 ==
  ASSUME NEW a \in 0..(Chunk - 1), NEW b \in 0..(Chunk - 1)
  PROVE  Digits(Chunk * a + b, 2) = <<a, b>>
<1> DEFINE v == Chunk * a + b
<1>1. PICK q : /\ q[0] = v
               /\ \A i \in 1..2 : q[i] = q[i - 1] \div Chunk
               /\ Digits(v, 2) = [i \in 1..2 |-> q[2 - i] % Chunk]
  BY Quotients
<1>2. v \div Chunk = a /\ v % Chunk = b
  BY LastDigit
<1>3. a % Chunk = a
  BY ChunkFacts
<1> HIDE DEF v
<1>4. q[1] = a /\ q[0] = v
  BY <1>1, <1>2
<1> QED
  BY <1>1, <1>2, <1>3, <1>4 DEF v

\* Dividing a limb gives back its three digits.
LEMMA DigitsOf3 ==
  ASSUME NEW s \in [1..3 -> 0..(Chunk - 1)]
  PROVE  Digits(Chunk * (Chunk * s[1] + s[2]) + s[3], 3) = s
<1> DEFINE u == Chunk * s[1] + s[2]
           v == Chunk * u + s[3]
<1>1. PICK q : /\ q[0] = v
               /\ \A i \in 1..3 : q[i] = q[i - 1] \div Chunk
               /\ Digits(v, 3) = [i \in 1..3 |-> q[3 - i] % Chunk]
  BY Quotients
<1>2. u \in Nat /\ u \div Chunk = s[1] /\ u % Chunk = s[2]
  BY LastDigit
<1> HIDE DEF u
<1>3. v \div Chunk = u /\ v % Chunk = s[3]
  BY <1>2, LastDigit
<1>4. s[1] % Chunk = s[1]
  BY ChunkFacts
<1> HIDE DEF v
<1>5. q[0] = v /\ q[1] = u /\ q[2] = s[1]
  BY <1>1, <1>2, <1>3
<1>6. \A i \in 1..3 : q[3 - i] % Chunk = s[i]
  BY <1>2, <1>3, <1>4, <1>5
<1>7. Digits(v, 3) = s
  BY <1>1, <1>6
<1> QED
  BY <1>7 DEF u, v

\* Dividing a half gives back its four digits.
LEMMA DigitsOf4 ==
  ASSUME NEW s \in [1..4 -> 0..(Chunk - 1)]
  PROVE  Digits(Chunk * (Chunk * (Chunk * s[1] + s[2]) + s[3]) + s[4], 4) = s
<1> DEFINE t == Chunk * s[1] + s[2]
           u == Chunk * t + s[3]
           v == Chunk * u + s[4]
<1>1. PICK q : /\ q[0] = v
               /\ \A i \in 1..4 : q[i] = q[i - 1] \div Chunk
               /\ Digits(v, 4) = [i \in 1..4 |-> q[4 - i] % Chunk]
  BY Quotients
<1>2. t \in Nat /\ t \div Chunk = s[1] /\ t % Chunk = s[2]
  BY LastDigit
<1> HIDE DEF t
<1>3. u \in Nat /\ u \div Chunk = t /\ u % Chunk = s[3]
  BY <1>2, LastDigit
<1> HIDE DEF u
<1>4. v \div Chunk = u /\ v % Chunk = s[4]
  BY <1>3, LastDigit
<1>5. s[1] % Chunk = s[1]
  BY ChunkFacts
<1> HIDE DEF v
<1>6. q[0] = v /\ q[1] = u /\ q[2] = t /\ q[3] = s[1]
  BY <1>1, <1>2, <1>3, <1>4
<1>7. \A i \in 1..4 : q[4 - i] % Chunk = s[i]
  BY <1>2, <1>3, <1>4, <1>5, <1>6
<1>8. Digits(v, 4) = s
  BY <1>1, <1>7
<1> QED
  BY <1>8 DEF t, u, v

---------------------------------------------------------------------------
(* Halves, limbs and chunks. *)

\* The halves of a hash, and the hash from its parts.
LEMMA Halves ==
  ASSUME NEW d \in Digest
  PROVE  /\ SubSeq(d, 1, 4) \in [1..4 -> 0..(Chunk - 1)]
         /\ SubSeq(d, 5, 8) \in [1..4 -> 0..(Chunk - 1)]
         /\ Uint256(d).high = Chunk * (Chunk * (Chunk * d[1] + d[2]) + d[3]) + d[4]
         /\ Uint256(d).low  = Chunk * (Chunk * (Chunk * d[5] + d[6]) + d[7]) + d[8]
         /\ SubSeq(d, 1, 4) \o SubSeq(d, 5, 8) = d
<1> DEFINE D == 0..(Chunk - 1)
           h == SubSeq(d, 1, 4)
           l == SubSeq(d, 5, 8)
<1>1. d \in [1..8 -> D]
  BY DEF Digest
<1> HIDE DEF D
<1>2. /\ h \in [1..4 -> D] /\ Len(h) = 4
      /\ h[1] = d[1] /\ h[2] = d[2] /\ h[3] = d[3] /\ h[4] = d[4]
  <2>1. 8 \in Nat /\ 1 \in 1..8 /\ 4 \in 1..8 /\ 4 = 4 - 1 + 1
    OBVIOUS
  <2>2. Parts(D, 8, 1, 4, 4)
    BY <2>1, Cut
  <2> QED
    BY <1>1, <2>2 DEF Parts
<1>3. /\ l \in [1..4 -> D] /\ Len(l) = 4
      /\ l[1] = d[5] /\ l[2] = d[6] /\ l[3] = d[7] /\ l[4] = d[8]
  <2>1. 8 \in Nat /\ 5 \in 1..8 /\ 8 \in 5..8 /\ 4 = 8 - 5 + 1
    OBVIOUS
  <2>2. Parts(D, 8, 5, 8, 4)
    BY <2>1, Cut
  <2> QED
    BY <1>1, <2>2 DEF Parts
<1> HIDE DEF h, l
<1>4. \A i \in 1..8 : d[i] \in Nat
  BY <1>1, ChunkFacts DEF D
<1>5. Number(h) = Chunk * (Chunk * (Chunk * d[1] + d[2]) + d[3]) + d[4]
  BY <1>2, <1>4, NumberOf4
<1>6. Number(l) = Chunk * (Chunk * (Chunk * d[5] + d[6]) + d[7]) + d[8]
  BY <1>3, <1>4, NumberOf4
<1>7. h \o l = d
  <2>1. /\ h \o l \in [1..8 -> D]
        /\ \A i \in 1..4 : (h \o l)[i] = h[i]
        /\ \A i \in 1..4 : (h \o l)[4 + i] = l[i]
    <3>1. 8 = 4 + 4 /\ 4 \in Nat
      OBVIOUS
    <3>2. Joined(D, 4, 4, 8)
      BY <3>1, Join
    <3> QED
      BY <1>2, <1>3, <3>2 DEF Joined
  <2>2. /\ (h \o l)[5] = l[1] /\ (h \o l)[6] = l[2]
        /\ (h \o l)[7] = l[3] /\ (h \o l)[8] = l[4]
    BY <2>1
  <2>3. \A i \in 1..8 : (h \o l)[i] = d[i]
    BY <1>2, <1>3, <2>1, <2>2
  <2>4. \A f, g \in [1..8 -> D] : (\A i \in 1..8 : f[i] = g[i]) => f = g
    OBVIOUS
  <2> QED
    BY <1>1, <2>1, <2>3, <2>4
<1> QED
  BY <1>2, <1>3, <1>5, <1>6, <1>7 DEF Uint256, h, l, D

\* What is split into halves and chunked again is as it was, and chunks make
\* the halves the input was split into.
LEMMA ChunksOfHalves ==
  ASSUME NEW d \in Digest
  PROVE  ChunkUint256(Uint256(d)) = d /\ ChunksToUint256(d) = Uint256(d)
<1> DEFINE h == SubSeq(d, 1, 4)
           l == SubSeq(d, 5, 8)
<1>1. /\ h \in [1..4 -> 0..(Chunk - 1)] /\ l \in [1..4 -> 0..(Chunk - 1)]
      /\ h \o l = d
  BY Halves
<1>2. /\ h[1] = d[1] /\ h[2] = d[2] /\ h[3] = d[3] /\ h[4] = d[4]
      /\ l[1] = d[5] /\ l[2] = d[6] /\ l[3] = d[7] /\ l[4] = d[8]
  <2> HIDE DEF h, l
  <2>1. /\ \A i \in 1..4 : (h \o l)[i] = h[i]
        /\ \A i \in 1..4 : (h \o l)[4 + i] = l[i]
    <3>1. 8 = 4 + 4 /\ 4 \in Nat
      OBVIOUS
    <3>2. Joined(0..(Chunk - 1), 4, 4, 8)
      BY <3>1, Join
    <3> QED
      BY <1>1, <3>2 DEF Joined
  <2> QED
    BY <1>1, <2>1
<1> HIDE DEF h, l
<1>3. Digits(Uint256(d).high, 4) = h
  <2>1. Uint256(d).high = Chunk * (Chunk * (Chunk * h[1] + h[2]) + h[3]) + h[4]
    BY <1>2, Halves
  <2> QED
    BY <1>1, <2>1, DigitsOf4
<1>4. Digits(Uint256(d).low, 4) = l
  <2>1. Uint256(d).low = Chunk * (Chunk * (Chunk * l[1] + l[2]) + l[3]) + l[4]
    BY <1>2, Halves
  <2> QED
    BY <1>1, <2>1, DigitsOf4
<1>5. \A i \in 1..8 : d[i] \in Nat
  BY ChunkFacts DEF Digest
<1>6. ASSUME NEW a \in Nat, NEW b \in Nat, NEW c \in Nat, NEW e \in Nat
      PROVE  a * Pow96 + b * Pow64 + c * Chunk + e
               = Chunk * (Chunk * (Chunk * a + b) + c) + e
  BY ChunkFacts DEF Pow96, Pow64
<1>7. Uint256(d) = ChunksToUint256(d)
  <2>1. Uint256(d) = [low |-> Uint256(d).low, high |-> Uint256(d).high]
    BY DEF Uint256
  <2>2. /\ Uint256(d).low = d[5] * Pow96 + d[6] * Pow64 + d[7] * Chunk + d[8]
        /\ Uint256(d).high = d[1] * Pow96 + d[2] * Pow64 + d[3] * Chunk + d[4]
    BY <1>5, <1>6, Halves
  <2> QED
    BY <2>1, <2>2 DEF ChunksToUint256
<1> QED
  BY <1>1, <1>3, <1>4, <1>7 DEF ChunkUint256

\* A half has 128 bits.
LEMMA HalfRange ==
  ASSUME NEW d \in Digest
  PROVE  Uint256(d) \in Uint256s
<1>1. ASSUME NEW a \in 0..(Chunk - 1), NEW b \in 0..(Chunk - 1),
             NEW c \in 0..(Chunk - 1), NEW e \in 0..(Chunk - 1)
      PROVE  Chunk * (Chunk * (Chunk * a + b) + c) + e \in 0..(Pow64 * Pow64 - 1)
  <2> DEFINE u == Chunk * a + b
             v == Chunk * u + c
             w == Chunk * v + e
  <2>1. ASSUME NEW m \in Nat, NEW x \in 0..(m - 1), NEW y \in 0..(Chunk - 1)
        PROVE  Chunk * x + y \in 0..(Chunk * m - 1)
    <3>1. x + 1 <= m
      OBVIOUS
    <3>2. Chunk * (x + 1) <= Chunk * m
      BY <3>1, ChunkFacts
    <3>3. Chunk * (x + 1) = Chunk * x + Chunk
      BY ChunkFacts
    <3>4. Chunk * x \in Nat /\ Chunk * m \in Nat
      BY ChunkFacts
    <3> QED
      BY <3>2, <3>3, <3>4, ChunkFacts
  <2>2. u \in 0..(Pow64 - 1)
    BY <2>1, ChunkFacts
  <2> HIDE DEF u
  <2>3. v \in 0..(Pow96 - 1)
    BY <2>1, <2>2, ChunkFacts
  <2> HIDE DEF v
  <2>4. w \in 0..(Chunk * Pow96 - 1)
    BY <2>1, <2>3, ChunkFacts
  <2>5. Chunk * Pow96 = Pow64 * Pow64
    BY ChunkFacts DEF Pow64, Pow96
  <2> QED
    BY <2>4, <2>5 DEF u, v
<1>2. \A i \in 1..8 : d[i] \in 0..(Chunk - 1)
  BY DEF Digest
<1>3. /\ Uint256(d).low \in 0..(Pow64 * Pow64 - 1)
      /\ Uint256(d).high \in 0..(Pow64 * Pow64 - 1)
  <2>1. d[1] \in 0..(Chunk - 1) /\ d[2] \in 0..(Chunk - 1) /\ d[3] \in 0..(Chunk - 1)
        /\ d[4] \in 0..(Chunk - 1) /\ d[5] \in 0..(Chunk - 1) /\ d[6] \in 0..(Chunk - 1)
        /\ d[7] \in 0..(Chunk - 1) /\ d[8] \in 0..(Chunk - 1)
    BY <1>2
  <2>2. Chunk * (Chunk * (Chunk * d[1] + d[2]) + d[3]) + d[4] \in 0..(Pow64 * Pow64 - 1)
    BY <1>1, <2>1
  <2>3. Chunk * (Chunk * (Chunk * d[5] + d[6]) + d[7]) + d[8] \in 0..(Pow64 * Pow64 - 1)
    BY <1>1, <2>1
  <2> QED
    BY <2>2, <2>3, Halves
<1> QED
  BY <1>3 DEF Uint256, Uint256s

\* A number as a leaf, from the client's bytes or by the circuit's reversal,
\* and back.
LEMMA NumberLeaf ==
  ASSUME NEW v \in 0..(Pow64 - 1)
  PROVE  /\ LittleEndian(v) \in Digest
         /\ Uint256ReverseEndian([low |-> v, high |-> 0]) = Uint256(LittleEndian(v))
         /\ Uint256ReverseEndian(Uint256(LittleEndian(v))).low = v
<1> DEFINE D == 0..(Chunk - 1)
           a == v \div Chunk
           b == v % Chunk
           t == <<0, 0, a, b>>
           z == <<0, 0, 0, 0>>
           w == <<0, 0, 0, 0, 0, 0, a, b>>
           l == <<b, a, 0, 0, 0, 0, 0, 0>>
<1>1. a \in D /\ b \in D /\ 0 \in D /\ v = Chunk * a + b
  <2>1. v \in Nat /\ v < Chunk * Chunk /\ Chunk \in Nat \ {0}
    BY ChunkFacts
  <2>2. a \in Nat /\ b \in D /\ v = Chunk * a + b
    BY <2>1
  <2> HIDE DEF a, b
  <2>3. ~(a >= Chunk)
    <3> SUFFICES ASSUME a >= Chunk PROVE FALSE
      OBVIOUS
    <3>1. Chunk * a >= Chunk * Chunk
      BY <2>1, <2>2
    <3> QED
      BY <2>1, <2>2, <3>1
  <2> QED
    BY <2>1, <2>2, <2>3
<1> HIDE DEF a, b
<1>2. /\ t \in [1..4 -> D] /\ z \in [1..4 -> D]
      /\ w \in [1..8 -> D] /\ l \in [1..8 -> D]
  BY <1>1
<1>3. ByDigits(D, 8)
  BY SameDigits, 8 \in Nat
<1>4. Digits(v, 4) = t
  <2>1. Chunk * (Chunk * (Chunk * t[1] + t[2]) + t[3]) + t[4] = v
    BY <1>1, ChunkFacts
  <2> HIDE DEF t
  <2> QED
    BY <1>2, <2>1, DigitsOf4
<1>5. Digits(0, 4) = z
  <2>1. Chunk * (Chunk * (Chunk * z[1] + z[2]) + z[3]) + z[4] = 0
    BY ChunkFacts
  <2> HIDE DEF z
  <2> QED
    BY <1>2, <2>1, DigitsOf4
<1>6. z \o t = w
  <2>1. 8 = 4 + 4 /\ 4 \in Nat
    OBVIOUS
  <2>2. Joined(D, 4, 4, 8)
    BY <2>1, Join
  <2>3. /\ z \o t \in [1..8 -> D]
        /\ \A i \in 1..4 : (z \o t)[i] = z[i]
        /\ \A i \in 1..4 : (z \o t)[4 + i] = t[i]
    <3> HIDE DEF z, t
    <3> QED
      BY <1>2, <2>2 DEF Joined
  <2>4. /\ (z \o t)[5] = 0 /\ (z \o t)[6] = 0 /\ (z \o t)[7] = a /\ (z \o t)[8] = b
        /\ (z \o t)[1] = 0 /\ (z \o t)[2] = 0 /\ (z \o t)[3] = 0 /\ (z \o t)[4] = 0
    BY <2>3
  <2>5. \A i \in 1..8 : (z \o t)[i] = w[i]
    BY <2>4
  <2> HIDE DEF z, t, w
  <2> QED
    BY <1>2, <1>3, <2>3, <2>5 DEF ByDigits
<1>7. Reverse(w) = l
  <2>1. /\ Reverse(w) \in [1..8 -> D]
        /\ \A i \in 1..8 : Reverse(w)[i] = w[(8 - i) + 1]
    <3> HIDE DEF w
    <3>1. Reversed(D, 8)
      BY ReverseOf, 8 \in Nat
    <3> QED
      BY <1>2, <3>1 DEF Reversed
  <2>2. \A i \in 1..8 : w[(8 - i) + 1] = l[i]
    OBVIOUS
  <2> HIDE DEF w, l
  <2> QED
    BY <1>2, <1>3, <2>1, <2>2 DEF ByDigits
<1>8. Reverse(l) = w
  <2>1. /\ Reverse(l) \in [1..8 -> D]
        /\ \A i \in 1..8 : Reverse(l)[i] = l[(8 - i) + 1]
    <3> HIDE DEF l
    <3>1. Reversed(D, 8)
      BY ReverseOf, 8 \in Nat
    <3> QED
      BY <1>2, <3>1 DEF Reversed
  <2>2. \A i \in 1..8 : l[(8 - i) + 1] = w[i]
    OBVIOUS
  <2> HIDE DEF w, l
  <2> QED
    BY <1>2, <1>3, <2>1, <2>2 DEF ByDigits
<1>9. LittleEndian(v) = l
  <2> DEFINE r == Reverse(<<a, b>>)
  <2>1. Digits(v, 2) = <<a, b>>
    BY <1>1, DigitsOf2
  <2>2. r \in [1..2 -> D] /\ r[1] = b /\ r[2] = a
    <3>1. <<a, b>> \in [1..2 -> D]
      BY <1>1
    <3>2. Reversed(D, 2)
      BY ReverseOf, 2 \in Nat
    <3>3. r \in [1..2 -> D] /\ \A i \in 1..2 : r[i] = <<a, b>>[(2 - i) + 1]
      BY <3>1, <3>2 DEF Reversed
    <3> HIDE DEF r
    <3> QED
      BY <3>3
  <2> HIDE DEF r
  <2>3. Zeros(6) \in [1..6 -> D] /\ \A i \in 1..6 : Zeros(6)[i] = 0
    BY <1>1 DEF Zeros
  <2>4. 8 = 2 + 6 /\ 2 \in Nat /\ 6 \in Nat
    OBVIOUS
  <2>5. Joined(D, 2, 6, 8)
    BY <2>4, Join
  <2>6. /\ r \o Zeros(6) \in [1..8 -> D]
        /\ \A i \in 1..2 : (r \o Zeros(6))[i] = r[i]
        /\ \A i \in 1..6 : (r \o Zeros(6))[2 + i] = Zeros(6)[i]
    BY <2>2, <2>3, <2>5 DEF Joined
  <2>7. \A i \in 1..8 : (r \o Zeros(6))[i] = l[i]
    <3> DEFINE x == r \o Zeros(6)
    <3>1. /\ \A i \in 1..2 : x[i] = r[i]
          /\ \A i \in 1..6 : x[2 + i] = 0
      BY <2>3, <2>6
    <3> HIDE DEF x
    <3>2. /\ x[1] = r[1] /\ x[2] = r[2] /\ x[3] = 0 /\ x[4] = 0
          /\ x[5] = 0 /\ x[6] = 0 /\ x[7] = 0 /\ x[8] = 0
      <4>1. /\ x[2 + 1] = 0 /\ x[2 + 2] = 0 /\ x[2 + 3] = 0
            /\ x[2 + 4] = 0 /\ x[2 + 5] = 0 /\ x[2 + 6] = 0
        BY <3>1
      <4> QED
        BY <3>1, <4>1
    <3>3. \A i \in 1..8 : x[i] = l[i]
      BY <2>2, <3>2
    <3> QED
      BY <3>3 DEF x
  <2>8. r \o Zeros(6) = l
    <3> HIDE DEF l
    <3> QED
      BY <1>2, <1>3, <2>6, <2>7 DEF ByDigits
  <2> QED
    BY <2>1, <2>8 DEF LittleEndian, r
<1>10. l \in Digest /\ w[5] = 0 /\ w[6] = 0 /\ w[7] = a /\ w[8] = b
  BY <1>2 DEF Digest
<1>11. 0 * Pow96 + 0 * Pow64 + a * Chunk + b = v
  BY <1>1, ChunkFacts
<1> HIDE DEF t, z, w, l
<1>12. ChunkUint256([low |-> v, high |-> 0]) = w
  BY <1>4, <1>5, <1>6 DEF ChunkUint256
<1>13. Uint256ReverseEndian([low |-> v, high |-> 0]) = Uint256(l)
  BY <1>7, <1>10, <1>12, ChunksOfHalves DEF Uint256ReverseEndian
<1>14. Uint256ReverseEndian(Uint256(l)) = ChunksToUint256(w)
  BY <1>8, <1>10, ChunksOfHalves DEF Uint256ReverseEndian
<1>15. ChunksToUint256(w).low = v
  BY <1>10, <1>11 DEF ChunksToUint256
<1> QED
  BY <1>9, <1>10, <1>13, <1>14, <1>15

\* A limb is three digits; the limbs of a coordinate chunked again are it.
LEMMA Limbs ==
  ASSUME NEW c \in Coordinate
  PROVE  /\ Uint384(c) \in [0..3 -> Nat]
         /\ Uint384(c)[3] = Chunk * (Chunk * c[1] + c[2]) + c[3]
         /\ Uint384(c)[2] = Chunk * (Chunk * c[4] + c[5]) + c[6]
         /\ Uint384(c)[1] = Chunk * (Chunk * c[7] + c[8]) + c[9]
         /\ Uint384(c)[0] = Chunk * (Chunk * c[10] + c[11]) + c[12]
<1> DEFINE D == 0..(Chunk - 1)
<1>1. c \in [1..12 -> D] /\ \A i \in 1..12 : c[i] \in Nat
  BY ChunkFacts DEF Coordinate
<1> HIDE DEF D
<1>2. Number(SubSeq(c, 1, 3)) = Chunk * (Chunk * c[1] + c[2]) + c[3]
  <2> DEFINE p == SubSeq(c, 1, 3)
  <2>1. 12 \in Nat /\ 1 \in 1..12 /\ 3 \in 1..12 /\ 3 = 3 - 1 + 1
    OBVIOUS
  <2>2. Parts(D, 12, 1, 3, 3)
    BY <2>1, Cut
  <2>3. Len(p) = 3 /\ p[1] = c[1] /\ p[2] = c[2] /\ p[3] = c[3]
    BY <1>1, <2>2 DEF Parts
  <2> HIDE DEF p
  <2>4. Number(p) = Chunk * (Chunk * c[1] + c[2]) + c[3]
    BY <1>1, <2>3, NumberOf3
  <2> QED
    BY <2>4 DEF p
<1>3. Number(SubSeq(c, 4, 6)) = Chunk * (Chunk * c[4] + c[5]) + c[6]
  <2> DEFINE p == SubSeq(c, 4, 6)
  <2>1. 12 \in Nat /\ 4 \in 1..12 /\ 6 \in 4..12 /\ 3 = 6 - 4 + 1
    OBVIOUS
  <2>2. Parts(D, 12, 4, 6, 3)
    BY <2>1, Cut
  <2>3. Len(p) = 3 /\ p[1] = c[4] /\ p[2] = c[5] /\ p[3] = c[6]
    BY <1>1, <2>2 DEF Parts
  <2> HIDE DEF p
  <2>4. Number(p) = Chunk * (Chunk * c[4] + c[5]) + c[6]
    BY <1>1, <2>3, NumberOf3
  <2> QED
    BY <2>4 DEF p
<1>4. Number(SubSeq(c, 7, 9)) = Chunk * (Chunk * c[7] + c[8]) + c[9]
  <2> DEFINE p == SubSeq(c, 7, 9)
  <2>1. 12 \in Nat /\ 7 \in 1..12 /\ 9 \in 7..12 /\ 3 = 9 - 7 + 1
    OBVIOUS
  <2>2. Parts(D, 12, 7, 9, 3)
    BY <2>1, Cut
  <2>3. Len(p) = 3 /\ p[1] = c[7] /\ p[2] = c[8] /\ p[3] = c[9]
    BY <1>1, <2>2 DEF Parts
  <2> HIDE DEF p
  <2>4. Number(p) = Chunk * (Chunk * c[7] + c[8]) + c[9]
    BY <1>1, <2>3, NumberOf3
  <2> QED
    BY <2>4 DEF p
<1>5. Number(SubSeq(c, 10, 12)) = Chunk * (Chunk * c[10] + c[11]) + c[12]
  <2> DEFINE p == SubSeq(c, 10, 12)
  <2>1. 12 \in Nat /\ 10 \in 1..12 /\ 12 \in 10..12 /\ 3 = 12 - 10 + 1
    OBVIOUS
  <2>2. Parts(D, 12, 10, 12, 3)
    BY <2>1, Cut
  <2>3. Len(p) = 3 /\ p[1] = c[10] /\ p[2] = c[11] /\ p[3] = c[12]
    BY <1>1, <2>2 DEF Parts
  <2> HIDE DEF p
  <2>4. Number(p) = Chunk * (Chunk * c[10] + c[11]) + c[12]
    BY <1>1, <2>3, NumberOf3
  <2> QED
    BY <2>4 DEF p
<1>6. /\ Uint384(c)[3] = Number(SubSeq(c, 1, 3))
      /\ Uint384(c)[2] = Number(SubSeq(c, 4, 6))
      /\ Uint384(c)[1] = Number(SubSeq(c, 7, 9))
      /\ Uint384(c)[0] = Number(SubSeq(c, 10, 12))
  BY DEF Uint384
<1>7. \A a, b, e \in Nat : Chunk * (Chunk * a + b) + e \in Nat
  BY ChunkFacts
<1>8. \A i \in 0..3 : Uint384(c)[i] \in Nat
  <2>1. /\ c[1] \in Nat /\ c[2] \in Nat /\ c[3] \in Nat /\ c[4] \in Nat
        /\ c[5] \in Nat /\ c[6] \in Nat /\ c[7] \in Nat /\ c[8] \in Nat
        /\ c[9] \in Nat /\ c[10] \in Nat /\ c[11] \in Nat /\ c[12] \in Nat
    BY <1>1
  <2>2. /\ Chunk * (Chunk * c[1] + c[2]) + c[3] \in Nat
        /\ Chunk * (Chunk * c[4] + c[5]) + c[6] \in Nat
        /\ Chunk * (Chunk * c[7] + c[8]) + c[9] \in Nat
        /\ Chunk * (Chunk * c[10] + c[11]) + c[12] \in Nat
    BY <1>7, <2>1
  <2>3. /\ Uint384(c)[3] \in Nat /\ Uint384(c)[2] \in Nat
        /\ Uint384(c)[1] \in Nat /\ Uint384(c)[0] \in Nat
    BY <1>2, <1>3, <1>4, <1>5, <1>6, <2>2, Zenon
  <2> QED
    BY <2>3
<1>9. Uint384(c) \in [0..3 -> Nat]
  BY <1>8 DEF Uint384
<1> QED
  BY <1>2, <1>3, <1>4, <1>5, <1>6, <1>9

\* The chunks of the limbs of a coordinate are the coordinate.
LEMMA ChunksOfLimbs ==
  ASSUME NEW c \in Coordinate
  PROVE  ChunkUint384(Uint384(c)) = c
<1> DEFINE D == 0..(Chunk - 1)
           p == <<c[1], c[2], c[3]>>
           q == <<c[4], c[5], c[6]>>
           r == <<c[7], c[8], c[9]>>
           s == <<c[10], c[11], c[12]>>
<1>1. /\ c \in [1..12 -> D]
      /\ p \in [1..3 -> D] /\ q \in [1..3 -> D]
      /\ r \in [1..3 -> D] /\ s \in [1..3 -> D]
  BY DEF Coordinate
<1>2. Digits(Uint384(c)[3], 3) = p
  <2>1. Uint384(c)[3] = Chunk * (Chunk * p[1] + p[2]) + p[3]
    BY Limbs
  <2> HIDE DEF p
  <2> QED
    BY <1>1, <2>1, DigitsOf3
<1>3. Digits(Uint384(c)[2], 3) = q
  <2>1. Uint384(c)[2] = Chunk * (Chunk * q[1] + q[2]) + q[3]
    BY Limbs
  <2> HIDE DEF q
  <2> QED
    BY <1>1, <2>1, DigitsOf3
<1>4. Digits(Uint384(c)[1], 3) = r
  <2>1. Uint384(c)[1] = Chunk * (Chunk * r[1] + r[2]) + r[3]
    BY Limbs
  <2> HIDE DEF r
  <2> QED
    BY <1>1, <2>1, DigitsOf3
<1>5. Digits(Uint384(c)[0], 3) = s
  <2>1. Uint384(c)[0] = Chunk * (Chunk * s[1] + s[2]) + s[3]
    BY Limbs
  <2> HIDE DEF s
  <2> QED
    BY <1>1, <2>1, DigitsOf3
<1>6. /\ p[1] = c[1] /\ p[2] = c[2] /\ p[3] = c[3]
      /\ q[1] = c[4] /\ q[2] = c[5] /\ q[3] = c[6]
      /\ r[1] = c[7] /\ r[2] = c[8] /\ r[3] = c[9]
      /\ s[1] = c[10] /\ s[2] = c[11] /\ s[3] = c[12]
  OBVIOUS
<1> HIDE DEF D, p, q, r, s
<1>7. p \o q \o r \o s = c
  <2>1. 6 = 3 + 3 /\ 9 = 6 + 3 /\ 12 = 9 + 3 /\ 3 \in Nat /\ 6 \in Nat /\ 9 \in Nat
        /\ 12 \in Nat
    OBVIOUS
  <2>2. Joined(D, 3, 3, 6) /\ Joined(D, 6, 3, 9) /\ Joined(D, 9, 3, 12) /\ ByDigits(D, 12)
    BY <2>1, Join, SameDigits
  <2> DEFINE x == p \o q
             y == x \o r
             z == y \o s
  <2>3. /\ x \in [1..6 -> D]
        /\ \A i \in 1..3 : x[i] = p[i]
        /\ \A i \in 1..3 : x[3 + i] = q[i]
    BY <1>1, <2>2 DEF Joined
  <2> HIDE DEF x
  <2>4. /\ y \in [1..9 -> D]
        /\ \A i \in 1..6 : y[i] = x[i]
        /\ \A i \in 1..3 : y[6 + i] = r[i]
    BY <1>1, <2>2, <2>3 DEF Joined
  <2> HIDE DEF y
  <2>5. /\ z \in [1..12 -> D]
        /\ \A i \in 1..9 : z[i] = y[i]
        /\ \A i \in 1..3 : z[9 + i] = s[i]
    BY <1>1, <2>2, <2>4 DEF Joined
  <2> HIDE DEF z
  <2>6. /\ x[1] = p[1] /\ x[2] = p[2] /\ x[3] = p[3]
        /\ x[3 + 1] = q[1] /\ x[3 + 2] = q[2] /\ x[3 + 3] = q[3]
        /\ y[1] = x[1] /\ y[2] = x[2] /\ y[3] = x[3]
        /\ y[4] = x[4] /\ y[5] = x[5] /\ y[6] = x[6]
        /\ y[6 + 1] = r[1] /\ y[6 + 2] = r[2] /\ y[6 + 3] = r[3]
    BY <2>3, <2>4
  <2>7. /\ z[1] = y[1] /\ z[2] = y[2] /\ z[3] = y[3]
        /\ z[4] = y[4] /\ z[5] = y[5] /\ z[6] = y[6]
        /\ z[7] = y[7] /\ z[8] = y[8] /\ z[9] = y[9]
        /\ z[9 + 1] = s[1] /\ z[9 + 2] = s[2] /\ z[9 + 3] = s[3]
    BY <2>5
  <2>8. /\ z[1] = c[1] /\ z[2] = c[2] /\ z[3] = c[3] /\ z[4] = c[4]
        /\ z[5] = c[5] /\ z[6] = c[6] /\ z[7] = c[7] /\ z[8] = c[8]
        /\ z[9] = c[9] /\ z[10] = c[10] /\ z[11] = c[11] /\ z[12] = c[12]
    BY <1>6, <2>6, <2>7
  <2>9. \A i \in 1..12 : z[i] = c[i]
    BY <2>8
  <2>10. z = c
    BY <1>1, <2>2, <2>5, <2>9 DEF ByDigits
  <2> QED
    BY <2>10 DEF x, y, z
<1> QED
  BY <1>2, <1>3, <1>4, <1>5, <1>7 DEF ChunkUint384

---------------------------------------------------------------------------
(* Points. *)

\* The coordinates of a point are the parts of its bytes.
LEMMA PartsOfPair ==
  ASSUME NEW a \in Coordinate, NEW b \in Coordinate
  PROVE  Part(a \o b, 1) = a /\ Part(a \o b, 2) = b
<1> DEFINE D == 0..(Chunk - 1)
<1>1. a \in [1..12 -> D] /\ b \in [1..12 -> D]
  BY DEF Coordinate
<1> HIDE DEF D
<1>2. /\ Fronts(D, 12, 12, 1, 12) /\ Backs(D, 12, 12, 13, 24, 1, 12) /\ Whole(D, 12)
  <2>1. 12 \in Nat /\ 1 \in 1..12 /\ 12 \in 1..12 /\ 13 \in (12 + 1)..(12 + 12)
        /\ 24 \in (12 + 1)..(12 + 12) /\ 1 = 13 - 12 /\ 12 = 24 - 12
    OBVIOUS
  <2> QED
    BY <2>1, FrontOf, BackOf, WholeOf
<1>3. SubSeq(a \o b, 1, 12) = a
  BY <1>1, <1>2 DEF Fronts, Whole
<1>4. SubSeq(a \o b, 13, 24) = b
  BY <1>1, <1>2 DEF Backs, Whole
<1>5. Part(a \o b, 1) = SubSeq(a \o b, 1, 12) /\ Part(a \o b, 2) = SubSeq(a \o b, 13, 24)
  BY DEF Part
<1> QED
  BY <1>3, <1>4, <1>5

\* The four coordinates of a signature come apart as they were joined.
LEMMA PartsOfFour ==
  ASSUME NEW a \in Coordinate, NEW b \in Coordinate,
         NEW c \in Coordinate, NEW d \in Coordinate
  PROVE  /\ Part(a \o b \o c \o d, 1) = a /\ Part(a \o b \o c \o d, 2) = b
         /\ Part(a \o b \o c \o d, 3) = c /\ Part(a \o b \o c \o d, 4) = d
<1> DEFINE D == 0..(Chunk - 1)
           u == a \o b
           v == u \o c
           w == v \o d
<1>1. /\ a \in [1..12 -> D] /\ b \in [1..12 -> D]
      /\ c \in [1..12 -> D] /\ d \in [1..12 -> D]
  BY DEF Coordinate
<1>2. /\ Part(u, 1) = a /\ Part(u, 2) = b
  BY PartsOfPair
<1>3. Part(u, 1) = SubSeq(u, 1, 12) /\ Part(u, 2) = SubSeq(u, 13, 24)
  BY DEF Part
<1>4. /\ Part(w, 1) = SubSeq(w, 1, 12) /\ Part(w, 2) = SubSeq(w, 13, 24)
      /\ Part(w, 3) = SubSeq(w, 25, 36) /\ Part(w, 4) = SubSeq(w, 37, 48)
  BY DEF Part
<1> HIDE DEF D
<1>5. /\ Joined(D, 12, 12, 24) /\ Joined(D, 24, 12, 36) /\ Whole(D, 12)
      /\ Fronts(D, 24, 12, 1, 12) /\ Fronts(D, 24, 12, 13, 24)
      /\ Fronts(D, 36, 12, 1, 12) /\ Fronts(D, 36, 12, 13, 24)
      /\ Fronts(D, 36, 12, 25, 36)
      /\ Backs(D, 24, 12, 25, 36, 1, 12) /\ Backs(D, 36, 12, 37, 48, 1, 12)
  <2>1. 12 \in Nat /\ 24 \in Nat /\ 36 \in Nat /\ 24 = 12 + 12 /\ 36 = 24 + 12
    OBVIOUS
  <2>2. /\ 1 \in 1..24 /\ 12 \in 1..24 /\ 13 \in 1..24 /\ 24 \in 1..24
        /\ 1 \in 1..36 /\ 12 \in 1..36 /\ 13 \in 1..36 /\ 24 \in 1..36
        /\ 25 \in 1..36 /\ 36 \in 1..36
    OBVIOUS
  <2>3. /\ 25 \in (24 + 1)..(24 + 12) /\ 36 \in (24 + 1)..(24 + 12)
        /\ 1 = 25 - 24 /\ 12 = 36 - 24
        /\ 37 \in (36 + 1)..(36 + 12) /\ 48 \in (36 + 1)..(36 + 12)
        /\ 1 = 37 - 36 /\ 12 = 48 - 36
    OBVIOUS
  <2>4. Joined(D, 12, 12, 24) /\ Joined(D, 24, 12, 36)
    BY <2>1, Join
  <2>5. /\ Fronts(D, 24, 12, 1, 12) /\ Fronts(D, 24, 12, 13, 24)
        /\ Fronts(D, 36, 12, 1, 12) /\ Fronts(D, 36, 12, 13, 24)
        /\ Fronts(D, 36, 12, 25, 36)
    BY <2>1, <2>2, FrontOf
  <2>6. Backs(D, 24, 12, 25, 36, 1, 12) /\ Backs(D, 36, 12, 37, 48, 1, 12)
    BY <2>1, <2>3, BackOf
  <2> QED
    BY <2>1, <2>4, <2>5, <2>6, WholeOf
<1>6. u \in [1..24 -> D]
  BY <1>1, <1>5 DEF Joined
<1> HIDE DEF u
<1>7. v \in [1..36 -> D]
  BY <1>1, <1>5, <1>6 DEF Joined
<1>8. /\ SubSeq(v, 1, 12) = SubSeq(u, 1, 12) /\ SubSeq(v, 13, 24) = SubSeq(u, 13, 24)
  BY <1>1, <1>5, <1>6 DEF Fronts
<1>9. SubSeq(v, 25, 36) = c
  BY <1>1, <1>5, <1>6 DEF Backs, Whole
<1> HIDE DEF v
<1>10. /\ SubSeq(w, 1, 12) = SubSeq(v, 1, 12) /\ SubSeq(w, 13, 24) = SubSeq(v, 13, 24)
       /\ SubSeq(w, 25, 36) = SubSeq(v, 25, 36)
  BY <1>1, <1>5, <1>7 DEF Fronts
<1>11. SubSeq(w, 37, 48) = d
  BY <1>1, <1>5, <1>7 DEF Backs, Whole
<1>12. Part(w, 1) = a /\ Part(w, 2) = b /\ Part(w, 3) = c /\ Part(w, 4) = d
  BY <1>2, <1>3, <1>4, <1>8, <1>9, <1>10, <1>11
<1> QED
  BY <1>12 DEF u, v, w

\* The bytes of a point joined from coordinates are a preimage of a hash.
LEMMA JoinedNat ==
  ASSUME NEW m \in Nat, NEW n \in Nat,
         NEW s \in [1..m -> 0..(Chunk - 1)], NEW t \in [1..n -> 0..(Chunk - 1)]
  PROVE  s \o t \in Seq(Nat)
<1>1. s \in [1..m -> Nat] /\ t \in [1..n -> Nat]
  BY ChunkFacts
<1>2. s \in Seq(Nat) /\ t \in Seq(Nat)
  BY <1>1, IsSeqOf
<1> QED
  BY <1>2, ConcatProperties

\* A key keeps its bytes through the file, and the circuit commits to the
\* bytes the client hashes.
LEMMA KeyPoint ==
  ASSUME PrimitivesTyped, NEW k \in Keys
  PROVE  /\ k.x \in Coordinate /\ CurveY(k.x, k.sign) \in Coordinate
         /\ GetCommitteeHash(k) \in Digest
         /\ SerializeG1(Uncompressed(k)) = [x |-> k.x, y |-> CurveY(k.x, k.sign)]
         /\ DeserializeG1(SerializeG1(Uncompressed(k))) = Uncompressed(k)
         /\ CommitCommitteeKey(Uint384(k.x), Uint384(CurveY(k.x, k.sign)))
              = Uint256(GetCommitteeHash(k))
<1> DEFINE y == CurveY(k.x, k.sign)
<1>1. k.x \in Coordinate /\ k.sign \in 0..1
  BY KeysAssumption
<1>2. y \in Coordinate
  BY <1>1 DEF PrimitivesTyped
<1>3. Uncompressed(k) = k.x \o y
  BY DEF Uncompressed
<1> HIDE DEF y
<1>4. Sha(k.x \o y) \in Digest
  <2>1. 12 \in Nat /\ k.x \in [1..12 -> 0..(Chunk - 1)] /\ y \in [1..12 -> 0..(Chunk - 1)]
    BY <1>1, <1>2 DEF Coordinate
  <2>2. k.x \o y \in Seq(Nat)
    BY <2>1, JoinedNat
  <2> QED
    BY <2>2 DEF PrimitivesTyped
<1>5. SerializeG1(k.x \o y) = [x |-> k.x, y |-> y]
  BY <1>1, <1>2, PartsOfPair DEF SerializeG1
<1>6. DeserializeG1([x |-> k.x, y |-> y]) = k.x \o y
  BY DEF DeserializeG1
<1>7. CommitCommitteeKey(Uint384(k.x), Uint384(y)) = Uint256(Sha(k.x \o y))
  <2>1. ChunkUint384(Uint384(k.x)) = k.x /\ ChunkUint384(Uint384(y)) = y
    BY <1>1, <1>2, ChunksOfLimbs
  <2>2. CommitCommitteeKey(Uint384(k.x), Uint384(y)) = ChunksToUint256(Sha(k.x \o y))
    BY <2>1 DEF CommitCommitteeKey
  <2> QED
    BY <1>4, <2>2, ChunksOfHalves
<1>8. GetCommitteeHash(k) = Sha(k.x \o y)
  BY <1>3 DEF GetCommitteeHash
<1> QED
  BY <1>1, <1>2, <1>3, <1>4, <1>5, <1>6, <1>7, <1>8 DEF y

\* So does a signature.
LEMMA SignaturePoint ==
  ASSUME PrimitivesTyped, NEW m \in Digest
  PROVE  /\ SerializeG2(UncompressedG2(Signature(m))) = Signature(m)
         /\ DeserializeG2(SerializeG2(UncompressedG2(Signature(m))))
              = UncompressedG2(Signature(m))
<1> DEFINE p == Signature(m)
<1>1. p \in [x0 : Coordinate, x1 : Coordinate, y0 : Coordinate, y1 : Coordinate]
  BY DEF PrimitivesTyped
<1> HIDE DEF p
<1>2. /\ p.x0 \in Coordinate /\ p.x1 \in Coordinate
      /\ p.y0 \in Coordinate /\ p.y1 \in Coordinate
      /\ p = [x0 |-> p.x0, x1 |-> p.x1, y0 |-> p.y0, y1 |-> p.y1]
  BY <1>1
<1>3. SerializeG2(UncompressedG2(p)) = [x0 |-> p.x0, x1 |-> p.x1, y0 |-> p.y0, y1 |-> p.y1]
  BY <1>2, PartsOfFour DEF SerializeG2, UncompressedG2
<1>4. DeserializeG2(p) = UncompressedG2(p)
  BY DEF DeserializeG2, UncompressedG2
<1>5. SerializeG2(UncompressedG2(p)) = p
  BY <1>2, <1>3
<1> QED
  BY <1>4, <1>5 DEF p

\* A compressed key is read back, and its three flags and its x are those the
\* circuit takes from the highest limb.
LEMMA KeyCompressed ==
  ASSUME NEW k \in Keys
  PROVE  /\ Compressed(k) \in Coordinate
         /\ FromCompressed(Compressed(k)) = k
         /\ DecompressG1(Uint384(Compressed(k)))
              = [compression_bit |-> 1, infinity_bit |-> 0, sign_bit |-> k.sign,
                 x |-> Uint384(k.x)]
<1> DEFINE q == Chunk \div 8
           c == Compressed(k)
           r == Chunk * k.x[2] + k.x[3]
           m == q * Pow64
           y == Pow64 * k.x[1] + r
<1>1. /\ k \in [x : Coordinate, sign : 0..1] /\ k.x \in Coordinate /\ k.sign \in 0..1
      /\ k = [x |-> k.x, sign |-> k.sign] /\ k.x[1] < q
  BY KeysAssumption
<1>2. k.x \in [1..12 -> 0..(Chunk - 1)] /\ k.x[1] \in Nat
  BY <1>1, ChunkFacts DEF Coordinate
<1>3. /\ q \in Nat \ {0} /\ Chunk = 8 * q /\ Chunk \div 2 = 4 * q
      /\ Chunk \in Nat /\ Pow64 \in Nat /\ Pow64 >= 64 /\ Pow96 = 8 * m /\ m \in Nat \ {0}
  <2>1. q \in Nat \ {0} /\ Chunk = 8 * q /\ Chunk \div 2 = 4 * q
        /\ Chunk \in Nat /\ Pow64 \in Nat /\ Pow64 >= 64 /\ Pow96 = Chunk * Pow64
    BY ChunkFacts
  <2> HIDE DEF q
  <2>2. Pow96 = 8 * (q * Pow64) /\ q * Pow64 \in Nat \ {0}
    BY <2>1
  <2> QED
    BY <2>1, <2>2
<1>4. c = [k.x EXCEPT ![1] = k.x[1] + 4 * q + k.sign * q]
  BY <1>3 DEF Compressed
<1> HIDE DEF q, c
<1>5. \A v \in 0..(q - 1) : v + 4 * q + k.sign * q \in 0..(Chunk - 1)
  BY <1>1, <1>3
<1>6. /\ c \in [1..12 -> 0..(Chunk - 1)]
      /\ c[1] = k.x[1] + 4 * q + k.sign * q
      /\ \A i \in 2..12 : c[i] = k.x[i]
  BY <1>1, <1>2, <1>3, <1>4, <1>5
<1>7. c \in Coordinate
  BY <1>6 DEF Coordinate
<1>8. c[1] \div q = 4 + k.sign /\ c[1] % q = k.x[1]
  <2>1. c[1] = q * (4 + k.sign) + k.x[1] /\ 4 + k.sign \in Nat /\ k.x[1] \in 0..(q - 1)
    BY <1>1, <1>2, <1>3, <1>6
  <2>2. c[1] \div q = 4 + k.sign
    BY <1>3, <2>1, DivUnique
  <2>3. c[1] = q * (c[1] \div q) + (c[1] % q) /\ c[1] % q \in Nat
    BY <1>3, <1>6
  <2>4. q * (4 + k.sign) + (c[1] % q) = q * (4 + k.sign) + k.x[1]
    BY <2>1, <2>2, <2>3
  <2>5. q * (4 + k.sign) \in Nat
    BY <1>1, <1>3
  <2>6. c[1] % q = k.x[1]
    BY <1>2, <2>3, <2>4, <2>5
  <2> QED
    BY <2>2, <2>6
<1>9. FromCompressed(c) = k
  <2> DEFINE f == [c EXCEPT ![1] = c[1] % q]
  <2>1. f = k.x
    <3>1. k.x[1] \in 0..(Chunk - 1)
      BY <1>2
    <3>2. f \in [1..12 -> 0..(Chunk - 1)] /\ \A i \in 1..12 : f[i] = k.x[i]
      BY <1>6, <1>8, <3>1
    <3> HIDE DEF f
    <3>3. \A g, h \in [1..12 -> 0..(Chunk - 1)] : (\A i \in 1..12 : g[i] = h[i]) => g = h
      OBVIOUS
    <3> QED
      BY <1>2, <3>2, <3>3
  <2>2. (c[1] \div q) % 2 = k.sign
    BY <1>1, <1>8
  <2> QED
    BY <1>1, <2>1, <2>2 DEF FromCompressed, q

<1>10. /\ r \in 0..(Pow64 - 1)
       /\ Uint384(c)[3] = Pow64 * c[1] + r
       /\ Uint384(k.x)[3] = y
       /\ \A i \in 0..2 : Uint384(c)[i] = Uint384(k.x)[i]
  <2>1. r \in 0..(Pow64 - 1)
    <3>1. k.x[2] \in 0..(Chunk - 1) /\ k.x[3] \in 0..(Chunk - 1)
      BY <1>2
    <3>2. Chunk * (k.x[2] + 1) <= Chunk * Chunk
      BY <1>3, <3>1
    <3>3. Chunk * (k.x[2] + 1) = Chunk * k.x[2] + Chunk /\ Chunk * k.x[2] \in Nat
      BY <1>3, <3>1
    <3> QED
      BY <1>3, <3>1, <3>2, <3>3 DEF Pow64
  <2>2. \A a, b, e \in Nat : Chunk * (Chunk * a + b) + e = Pow64 * a + (Chunk * b + e)
    BY <1>3 DEF Pow64
  <2>3. /\ c[1] \in Nat /\ k.x[1] \in Nat /\ k.x[2] \in Nat /\ k.x[3] \in Nat
        /\ c[2] = k.x[2] /\ c[3] = k.x[3] /\ c[4] = k.x[4] /\ c[5] = k.x[5]
        /\ c[6] = k.x[6] /\ c[7] = k.x[7] /\ c[8] = k.x[8] /\ c[9] = k.x[9]
        /\ c[10] = k.x[10] /\ c[11] = k.x[11] /\ c[12] = k.x[12]
    BY <1>2, <1>6
  <2>4. Uint384(c)[3] = Chunk * (Chunk * c[1] + k.x[2]) + k.x[3]
    BY <1>7, <2>3, Limbs
  <2>5. Uint384(k.x)[3] = Chunk * (Chunk * k.x[1] + k.x[2]) + k.x[3]
    BY <1>1, Limbs
  <2>6. /\ Uint384(c)[2] = Uint384(k.x)[2] /\ Uint384(c)[1] = Uint384(k.x)[1]
        /\ Uint384(c)[0] = Uint384(k.x)[0]
    BY <1>1, <1>7, <2>3, Limbs
  <2>7. \A i \in 0..2 : Uint384(c)[i] = Uint384(k.x)[i]
    BY <2>6
  <2> QED
    BY <2>1, <2>2, <2>3, <2>4, <2>5, <2>7
<1> HIDE DEF r
<1>11. y \in 0..(m - 1)
  <2>1. k.x[1] + 1 <= q
    BY <1>1, <1>2, <1>3
  <2>2. Pow64 * (k.x[1] + 1) <= Pow64 * q
    BY <1>2, <1>3, <2>1
  <2>3. Pow64 * (k.x[1] + 1) = Pow64 * k.x[1] + Pow64 /\ Pow64 * q = m
        /\ Pow64 * k.x[1] \in Nat
    BY <1>2, <1>3
  <2> QED
    BY <1>3, <1>10, <2>2, <2>3
<1>12. Uint384(c)[3] = m * (4 + k.sign) + y
  BY <1>1, <1>2, <1>3, <1>6, <1>10
<1> HIDE DEF m, y
<1>13. /\ Pow96 \div 2 = 4 * m /\ Pow96 \div 4 = 2 * m /\ Pow96 \div 8 = m
  BY <1>3
<1>14. /\ Uint384(c)[3] \div (4 * m) = 1
       /\ (Uint384(c)[3] % (4 * m)) \div (2 * m) = 0
       /\ (Uint384(c)[3] % (2 * m)) \div m = k.sign
       /\ Uint384(c)[3] % m = y
  <2> DEFINE v == Uint384(c)[3]
  <2>1. v = (4 * m) * 1 + (m * k.sign + y) /\ v = (2 * m) * 2 + (m * k.sign + y)
        /\ v = m * (4 + k.sign) + y
    BY <1>1, <1>3, <1>11, <1>12
  <2>2. m * k.sign + y \in 0..(2 * m - 1)
    BY <1>1, <1>3, <1>11
  <2> HIDE DEF v
  <2>3. v \div (4 * m) = 1 /\ v \div (2 * m) = 2 /\ v \div m = 4 + k.sign
    <3>1. /\ 4 * m \in Nat \ {0} /\ 2 * m \in Nat \ {0} /\ 4 + k.sign \in Nat
          /\ m * k.sign + y \in 0..(4 * m - 1)
      BY <1>1, <1>3, <2>2
    <3>2. v \div (4 * m) = 1
      BY <2>1, <3>1, DivUnique
    <3>3. v \div (2 * m) = 2
      BY <2>1, <2>2, <3>1, DivUnique
    <3>4. v \div m = 4 + k.sign
      BY <1>3, <1>11, <2>1, <3>1, DivUnique
    <3> QED
      BY <3>2, <3>3, <3>4
  <2>4. v % (4 * m) = m * k.sign + y /\ v % (2 * m) = m * k.sign + y /\ v % m = y
    <3>1. v \in Nat /\ 4 * m \in Nat \ {0} /\ 2 * m \in Nat \ {0}
      BY <1>1, <1>3, <1>11, <2>1, <2>2
    <3>2. ASSUME NEW d \in Nat \ {0}, NEW a \in Nat, NEW b \in Nat,
                 v \div d = a, v = d * a + b
          PROVE  v % d = b
      <4>1. v = d * (v \div d) + (v % d) /\ v % d \in Nat /\ d * a \in Nat
        BY <3>1
      <4>2. d * a + (v % d) = d * a + b
        BY <3>2, <4>1
      <4> QED
        BY <4>1, <4>2
    <3>3. v % (4 * m) = m * k.sign + y
      BY <2>1, <2>2, <2>3, <3>1, <3>2
    <3>4. v % (2 * m) = m * k.sign + y
      BY <2>1, <2>2, <2>3, <3>1, <3>2
    <3>5. v % m = y
      BY <1>1, <1>3, <1>11, <2>1, <2>3, <3>2
    <3> QED
      BY <3>3, <3>4, <3>5
  <2>5. (m * k.sign + y) \div (2 * m) = 0
    BY <1>3, <2>2
  <2>6. (m * k.sign + y) \div m = k.sign
    <3>1. k.sign \in Nat
      BY <1>1
    <3> QED
      BY <1>3, <1>11, <3>1, DivUnique
  <2> QED
    BY <2>3, <2>4, <2>5, <2>6 DEF v
<1>15. [Uint384(c) EXCEPT ![3] = y] = Uint384(k.x)
  <2>1. Uint384(c) \in [0..3 -> Nat] /\ Uint384(k.x) \in [0..3 -> Nat]
    BY <1>1, <1>7, Limbs
  <2> DEFINE f == [Uint384(c) EXCEPT ![3] = y]
  <2>2. f \in [0..3 -> Nat] /\ \A i \in 0..3 : f[i] = Uint384(k.x)[i]
    BY <1>10, <1>11, <2>1
  <2> HIDE DEF f
  <2>3. \A g, h \in [0..3 -> Nat] : (\A i \in 0..3 : g[i] = h[i]) => g = h
    OBVIOUS
  <2>4. f = Uint384(k.x)
    BY <2>1, <2>2, <2>3
  <2> QED
    BY <2>4 DEF f
<1> QED
  BY <1>7, <1>9, <1>13, <1>14, <1>15 DEF DecompressG1, c

---------------------------------------------------------------------------
(* Trees. *)

\* A node is the hash of its two children, for the depths in use.
LEMMA Nodes ==
  ASSUME NEW leaves
  PROVE  /\ \A i \in Nat : Node(leaves, 0, i)
                             = IF i < Len(leaves) THEN leaves[i + 1] ELSE Zeros(8)
         /\ \A k \in 1..5, i \in Nat :
              Node(leaves, k, i)
                = Sha(Node(leaves, k - 1, 2 * i) \o Node(leaves, k - 1, 2 * i + 1))
<1> DEFINE leaf(j) == IF j < Len(leaves) THEN leaves[j + 1] ELSE Zeros(8)
           level == CHOOSE f : f = [l \in 0..5 |-> [j \in Nat |->
                      IF l > 0 THEN Sha(f[l - 1][2 * j] \o f[l - 1][2 * j + 1])
                      ELSE IF j < Len(leaves) THEN leaves[j + 1] ELSE Zeros(8)]]
           l0 == [j \in Nat |-> leaf(j)]
           l1 == [j \in Nat |-> Sha(l0[2 * j] \o l0[2 * j + 1])]
           l2 == [j \in Nat |-> Sha(l1[2 * j] \o l1[2 * j + 1])]
           l3 == [j \in Nat |-> Sha(l2[2 * j] \o l2[2 * j + 1])]
           l4 == [j \in Nat |-> Sha(l3[2 * j] \o l3[2 * j + 1])]
           l5 == [j \in Nat |-> Sha(l4[2 * j] \o l4[2 * j + 1])]
           g == [l \in 0..5 |->
                   IF l = 0 THEN l0 ELSE IF l = 1 THEN l1 ELSE IF l = 2 THEN l2
                   ELSE IF l = 3 THEN l3 ELSE IF l = 4 THEN l4 ELSE l5]
<1>1. \A k \in 0..5, i \in Nat : Node(leaves, k, i) = level[k][i]
  BY DEF Node
<1>2. g[0] = l0 /\ g[1] = l1 /\ g[2] = l2 /\ g[3] = l3 /\ g[4] = l4 /\ g[5] = l5
  <2> HIDE DEF l0, l1, l2, l3, l4, l5
  <2> QED
    OBVIOUS
<1>3. \A l \in 0..5 :
        g[l] = [j \in Nat |-> IF l > 0 THEN Sha(g[l - 1][2 * j] \o g[l - 1][2 * j + 1])
                              ELSE leaf(j)]
  <2> HIDE DEF g, leaf
  <2>1. g[0] = [j \in Nat |-> leaf(j)]
    BY <1>2
  <2>2. g[1] = [j \in Nat |-> Sha(g[0][2 * j] \o g[0][2 * j + 1])]
    <3> HIDE DEF l0
    <3> QED
      BY <1>2
  <2>3. g[2] = [j \in Nat |-> Sha(g[1][2 * j] \o g[1][2 * j + 1])]
    <3> HIDE DEF l1
    <3> QED
      BY <1>2
  <2>4. g[3] = [j \in Nat |-> Sha(g[2][2 * j] \o g[2][2 * j + 1])]
    <3> HIDE DEF l2
    <3> QED
      BY <1>2
  <2>5. g[4] = [j \in Nat |-> Sha(g[3][2 * j] \o g[3][2 * j + 1])]
    <3> HIDE DEF l3
    <3> QED
      BY <1>2
  <2>6. g[5] = [j \in Nat |-> Sha(g[4][2 * j] \o g[4][2 * j + 1])]
    <3> HIDE DEF l4
    <3> QED
      BY <1>2
  <2>7. ASSUME NEW l \in 1..5
        PROVE  g[l] = [j \in Nat |-> Sha(g[l - 1][2 * j] \o g[l - 1][2 * j + 1])]
    <3>1. l = 1 \/ l = 2 \/ l = 3 \/ l = 4 \/ l = 5
      OBVIOUS
    <3>2. 1 - 1 = 0 /\ 2 - 1 = 1 /\ 3 - 1 = 2 /\ 4 - 1 = 3 /\ 5 - 1 = 4
      OBVIOUS
    <3> QED
      BY <2>2, <2>3, <2>4, <2>5, <2>6, <3>1, <3>2, Zenon
  <2>8. ASSUME NEW l \in 0..5
        PROVE  g[l] = [j \in Nat |->
                        IF l > 0 THEN Sha(g[l - 1][2 * j] \o g[l - 1][2 * j + 1])
                        ELSE leaf(j)]
    <3>1. CASE l = 0
      <4>1. ~(l > 0)
        BY <3>1
      <4>2. g[l] = [j \in Nat |-> leaf(j)]
        BY <2>1, <3>1
      <4> QED
        BY <4>1, <4>2, Zenon
    <3>2. CASE l # 0
      <4>1. l > 0 /\ l \in 1..5
        BY <3>2
      <4> QED
        BY <2>7, <4>1, Zenon
    <3> QED
      BY <3>1, <3>2
  <2> QED
    BY <2>8
<1> HIDE DEF l0, l1, l2, l3, l4, l5
<1>4. g = [l \in 0..5 |-> [j \in Nat |->
             IF l > 0 THEN Sha(g[l - 1][2 * j] \o g[l - 1][2 * j + 1]) ELSE leaf(j)]]
  <2> HIDE DEF leaf
  <2>1. g = [l \in 0..5 |-> g[l]]
    OBVIOUS
  <2> HIDE DEF g
  <2> QED
    BY <1>3, <2>1
<1> HIDE DEF g
<1>5. level = [l \in 0..5 |-> [j \in Nat |->
                IF l > 0 THEN Sha(level[l - 1][2 * j] \o level[l - 1][2 * j + 1])
                ELSE leaf(j)]]
  BY <1>4
<1> HIDE DEF level, leaf
<1>6. \A l \in 0..5, j \in Nat :
        level[l][j] = IF l > 0 THEN Sha(level[l - 1][2 * j] \o level[l - 1][2 * j + 1])
                      ELSE leaf(j)
  <2>1. \A l \in 0..5 :
          level[l] = [j \in Nat |->
            IF l > 0 THEN Sha(level[l - 1][2 * j] \o level[l - 1][2 * j + 1]) ELSE leaf(j)]
    <3> DEFINE body(l) == [j \in Nat |->
            IF l > 0 THEN Sha(level[l - 1][2 * j] \o level[l - 1][2 * j + 1]) ELSE leaf(j)]
    <3>1. level = [l \in 0..5 |-> body(l)]
      BY <1>5
    <3> HIDE DEF body
    <3>2. \A l \in 0..5 : level[l] = body(l)
      BY <3>1
    <3> QED
      BY <3>2 DEF body
  <2> QED
    BY <2>1
<1>7. \A i \in Nat : Node(leaves, 0, i) = leaf(i)
  BY <1>1, <1>6
<1>8. ASSUME NEW k \in 1..5, NEW i \in Nat
      PROVE  Node(leaves, k, i)
               = Sha(Node(leaves, k - 1, 2 * i) \o Node(leaves, k - 1, 2 * i + 1))
  <2>1. k \in 0..5 /\ k > 0 /\ k - 1 \in 0..5 /\ 2 * i \in Nat /\ 2 * i + 1 \in Nat
    OBVIOUS
  <2>2. level[k][i] = Sha(level[k - 1][2 * i] \o level[k - 1][2 * i + 1])
    BY <1>6, <2>1
  <2>3. /\ Node(leaves, k, i) = level[k][i]
        /\ Node(leaves, k - 1, 2 * i) = level[k - 1][2 * i]
        /\ Node(leaves, k - 1, 2 * i + 1) = level[k - 1][2 * i + 1]
    BY <1>1, <2>1
  <2> QED
    BY <2>2, <2>3
<1> QED
  BY <1>7, <1>8 DEF leaf

\* A tree over digests has digests for nodes.
LEMMA NodesTyped ==
  ASSUME PrimitivesTyped, NEW n \in Nat, NEW leaves \in [1..n -> Digest]
  PROVE  \A k \in 0..5, i \in Nat : Node(leaves, k, i) \in Digest
<1> DEFINE Typed(k) == \A i \in Nat : Node(leaves, k, i) \in Digest
<1>1. Typed(0)
  <2>1. Len(leaves) = n
    OBVIOUS
  <2>2. Zeros(8) \in Digest
    BY ChunkFacts DEF Zeros, Digest
  <2>3. \A i \in Nat : i < n => leaves[i + 1] \in Digest
    <3> HIDE DEF Digest
    <3> QED
      OBVIOUS
  <2> QED
    BY <2>1, <2>2, <2>3, Nodes
<1>2. ASSUME NEW k \in 1..5, Typed(k - 1) PROVE Typed(k)
  <2> SUFFICES ASSUME NEW i \in Nat PROVE Node(leaves, k, i) \in Digest
    OBVIOUS
  <2>1. /\ Node(leaves, k - 1, 2 * i) \in Digest
        /\ Node(leaves, k - 1, 2 * i + 1) \in Digest
    BY <1>2
  <2>2. \A s, t \in Digest : Sha(s \o t) \in Digest
    BY JoinedNat, 8 \in Nat DEF Digest, PrimitivesTyped
  <2>3. Node(leaves, k, i)
          = Sha(Node(leaves, k - 1, 2 * i) \o Node(leaves, k - 1, 2 * i + 1))
    BY Nodes
  <2> QED
    BY <2>1, <2>2, <2>3
<1> HIDE DEF Typed
<1>3. Typed(1) /\ Typed(2) /\ Typed(3) /\ Typed(4) /\ Typed(5)
  <2>1. Typed(1 - 1)
    BY <1>1
  <2>2. Typed(1)
    BY <1>2, <2>1
  <2>3. Typed(2)
    BY <1>2, <2>2, 2 - 1 = 1
  <2>4. Typed(3)
    BY <1>2, <2>3, 3 - 1 = 2
  <2>5. Typed(4)
    BY <1>2, <2>4, 4 - 1 = 3
  <2>6. Typed(5)
    BY <1>2, <2>5, 5 - 1 = 4
  <2> QED
    BY <2>2, <2>3, <2>4, <2>5, <2>6
<1>4. \A k \in 0..5 : Typed(k)
  BY <1>1, <1>3
<1> QED
  BY <1>4 DEF Typed

\* Trees that agree on their leaves and on the zeros after them agree.
LEMMA SameLeaves ==
  ASSUME NEW s, NEW t, \A i \in Nat : Node(s, 0, i) = Node(t, 0, i)
  PROVE  \A k \in 0..5, i \in Nat : Node(s, k, i) = Node(t, k, i)
<1> DEFINE Same(k) == \A i \in Nat : Node(s, k, i) = Node(t, k, i)
<1>1. Same(0)
  OBVIOUS
<1>2. ASSUME NEW k \in 1..5, Same(k - 1) PROVE Same(k)
  <2> SUFFICES ASSUME NEW i \in Nat PROVE Node(s, k, i) = Node(t, k, i)
    OBVIOUS
  <2>1. /\ Node(s, k - 1, 2 * i) = Node(t, k - 1, 2 * i)
        /\ Node(s, k - 1, 2 * i + 1) = Node(t, k - 1, 2 * i + 1)
    BY <1>2
  <2>2. /\ Node(s, k, i) = Sha(Node(s, k - 1, 2 * i) \o Node(s, k - 1, 2 * i + 1))
        /\ Node(t, k, i) = Sha(Node(t, k - 1, 2 * i) \o Node(t, k - 1, 2 * i + 1))
    BY Nodes
  <2> QED
    BY <2>1, <2>2
<1> HIDE DEF Same
<1>3. Same(1)
  BY <1>1, <1>2, 1 - 1 = 0
<1>4. Same(2)
  BY <1>2, <1>3, 2 - 1 = 1
<1>5. Same(3)
  BY <1>2, <1>4, 3 - 1 = 2
<1>6. Same(4)
  BY <1>2, <1>5, 4 - 1 = 3
<1>7. Same(5)
  BY <1>2, <1>6, 5 - 1 = 4
<1>8. \A k \in 0..5 : Same(k)
  BY <1>1, <1>3, <1>4, <1>5, <1>6, <1>7
<1> QED
  BY <1>8 DEF Same

\* The depths of the trees in use.
LEMMA Depths ==
  ASSUME NEW leaves
  PROVE  /\ Len(leaves) \in {5, 8} => Depth(leaves) = 3
         /\ Len(leaves) = 12 => Depth(leaves) = 4
         /\ Len(leaves) \in {17, 28, 32} => Depth(leaves) = 5
<1> DEFINE size == <<1, 2, 4, 8, 16, 32>>
           Fits(n) == size[n] >= Len(leaves) /\ size[n] < 2 * Len(leaves)
<1>1. Depth(leaves) = (CHOOSE n \in 1..6 : Fits(n)) - 1
  BY DEF Depth
<1>2. /\ size[1] = 1 /\ size[2] = 2 /\ size[3] = 4
      /\ size[4] = 8 /\ size[5] = 16 /\ size[6] = 32
  OBVIOUS
<1> HIDE DEF size
<1>3. ASSUME NEW m \in 1..6, \A n \in 1..6 : Fits(n) <=> n = m
      PROVE  (CHOOSE n \in 1..6 : Fits(n)) = m
  <2> HIDE DEF Fits
  <2> QED
    BY <1>3
<1>4. ASSUME NEW l \in {5, 8, 12, 17, 28, 32}, Len(leaves) = l, NEW n \in 1..6
      PROVE  /\ l \in {5, 8} => (Fits(n) <=> n = 4)
             /\ l = 12 => (Fits(n) <=> n = 5)
             /\ l \in {17, 28, 32} => (Fits(n) <=> n = 6)
  <2>1. n = 1 \/ n = 2 \/ n = 3 \/ n = 4 \/ n = 5 \/ n = 6
    OBVIOUS
  <2>2. l = 5 \/ l = 8 \/ l = 12 \/ l = 17 \/ l = 28 \/ l = 32
    OBVIOUS
  <2>3. Fits(n) <=> size[n] >= l /\ size[n] < 2 * l
    BY <1>4
  <2> QED
    BY <1>2, <2>1, <2>2, <2>3
<1> HIDE DEF Fits
<1>5. Len(leaves) \in {5, 8} => Depth(leaves) = 3
  BY <1>1, <1>3, <1>4
<1>6. Len(leaves) = 12 => Depth(leaves) = 4
  BY <1>1, <1>3, <1>4
<1>7. Len(leaves) \in {17, 28, 32} => Depth(leaves) = 5
  BY <1>1, <1>3, <1>4
<1> QED
  BY <1>5, <1>6, <1>7

\* The zero leaf of the circuit is that of the client.
LEMMA ZeroLeaf ==
  Zeros(8) \in Digest /\ ChunkUint256([low |-> 0, high |-> 0]) = Zeros(8)
<1> DEFINE z == Zeros(8)
<1>1. z \in Digest /\ \A i \in 1..8 : z[i] = 0
  BY ChunkFacts DEF Zeros, Digest
<1> HIDE DEF z
<1>2. /\ Uint256(z).high = Chunk * (Chunk * (Chunk * z[1] + z[2]) + z[3]) + z[4]
      /\ Uint256(z).low  = Chunk * (Chunk * (Chunk * z[5] + z[6]) + z[7]) + z[8]
  BY <1>1, Halves
<1>3. Chunk * (Chunk * (Chunk * 0 + 0) + 0) + 0 = 0
  BY ChunkFacts
<1>4. Uint256(z).high = 0 /\ Uint256(z).low = 0
  BY <1>1, <1>2, <1>3
<1>5. Uint256(z) = [low |-> 0, high |-> 0]
  BY <1>4 DEF Uint256
<1>6. ChunkUint256(Uint256(z)) = z
  BY <1>1, ChunksOfHalves
<1> QED
  BY <1>1, <1>5, <1>6 DEF z

\* The root a circuit computes over halves that zeros pad is the root the
\* client computes over the digests.
LEMMA RootOfHalves ==
  ASSUME PrimitivesTyped, NEW n \in Nat, NEW m \in Nat,
         (n = 5 /\ m = 8) \/ (n = 17 /\ m = 32),
         NEW leaves \in [1..n -> Digest], NEW u, Len(u) = m,
         \A i \in 1..m : u[i] = IF i <= n THEN Uint256(leaves[i]) ELSE [low |-> 0, high |-> 0]
  PROVE  Merkleize(leaves) \in Digest /\ ComputeRoot(u) = Uint256(Merkleize(leaves))
<1> DEFINE c == [i \in 1..Len(u) |-> ChunkUint256(u[i])]
<1>1. Len(leaves) = n
  OBVIOUS
<1>2. Len(c) = m /\ \A i \in 1..m : c[i] = ChunkUint256(u[i])
  OBVIOUS
<1>3. \A i \in 1..n : leaves[i] \in Digest
  <2> HIDE DEF Digest
  <2> QED
    OBVIOUS
<1>4. Depth(leaves) = Depth(c) /\ Depth(c) \in {3, 5}
  <2> HIDE DEF c
  <2> QED
    BY <1>1, <1>2, Depths
<1>5. ComputeRoot(u) = ChunksToUint256(Merkleize(c))
  BY DEF ComputeRoot
<1> HIDE DEF c
<1>6. ASSUME NEW i \in Nat PROVE Node(leaves, 0, i) = Node(c, 0, i)
  <2>1. CASE i < n
    <3>1. i + 1 \in 1..n /\ i + 1 \in 1..m /\ i < m /\ i + 1 <= n
      BY <2>1
    <3>2. c[i + 1] = ChunkUint256(Uint256(leaves[i + 1]))
      BY <1>2, <3>1
    <3>3. c[i + 1] = leaves[i + 1]
      BY <1>3, <3>1, <3>2, ChunksOfHalves
    <3> QED
      BY <1>1, <1>2, <2>1, <3>1, <3>3, Nodes
  <2>2. CASE ~(i < n) /\ i < m
    <3>1. i + 1 \in 1..m /\ ~(i + 1 <= n)
      BY <2>2
    <3>2. c[i + 1] = Zeros(8)
      BY <1>2, <3>1, ZeroLeaf
    <3> QED
      BY <1>1, <1>2, <2>2, <3>2, Nodes
  <2>3. CASE ~(i < m)
    <3>1. ~(i < n)
      BY <2>3
    <3> QED
      BY <1>1, <1>2, <2>3, <3>1, Nodes
  <2> QED
    BY <2>1, <2>2, <2>3
<1>7. \A k \in 0..5, i \in Nat : Node(leaves, k, i) = Node(c, k, i)
  BY <1>6, SameLeaves
<1>8. Merkleize(leaves) = Merkleize(c)
  BY <1>4, <1>7 DEF Merkleize
<1>9. Merkleize(leaves) \in Digest
  BY <1>4, NodesTyped DEF Merkleize
<1> QED
  BY <1>5, <1>8, <1>9, ChunksOfHalves

\* The circuit's root of a header is the client's.
LEMMA HeaderRoot ==
  ASSUME PrimitivesTyped, NEW h,
         h.slot \in 0..(Pow64 - 1), h.proposer_index \in 0..(Pow64 - 1),
         h.parent_root \in Digest, h.state_root \in Digest, h.body_root \in Digest
  PROVE  /\ TreeHashRoot(h) \in Digest
         /\ HashHeaderRoot([low |-> h.slot, high |-> 0], [low |-> h.proposer_index, high |-> 0],
                           Uint256(h.parent_root), Uint256(h.state_root),
                           Uint256(h.body_root))
              = Uint256(TreeHashRoot(h))
<1> DEFINE a == LittleEndian(h.slot)
           b == LittleEndian(h.proposer_index)
           l == <<a, b, h.parent_root, h.state_root, h.body_root>>
           s == <<Uint256(a), Uint256(b), Uint256(h.parent_root), Uint256(h.state_root),
                  Uint256(h.body_root)>>
           zero == [low |-> 0, high |-> 0]
           z == [i \in 1..3 |-> zero]
           u == s \o z
<1>1. /\ a \in Digest /\ b \in Digest
      /\ SlotLeaf([low |-> h.slot, high |-> 0]) = Uint256(a)
      /\ Uint256ReverseEndian([low |-> h.proposer_index, high |-> 0]) = Uint256(b)
  BY NumberLeaf DEF SlotLeaf
<1>2. TreeHashRoot(h) = Merkleize(l)
  BY DEF TreeHashRoot
<1>3. HashHeaderRoot([low |-> h.slot, high |-> 0], [low |-> h.proposer_index, high |-> 0],
                     Uint256(h.parent_root), Uint256(h.state_root), Uint256(h.body_root))
        = ComputeRoot(u)
  BY <1>1 DEF HashHeaderRoot
<1> HIDE DEF a, b
<1>4. l \in [1..5 -> Digest]
  <2> HIDE DEF Digest
  <2> QED
    BY <1>1
<1>5. s \in [1..5 -> Uint256s] /\ z \in [1..3 -> Uint256s]
  <2>1. zero \in Uint256s
    BY ChunkFacts DEF Uint256s
  <2>2. /\ Uint256(a) \in Uint256s /\ Uint256(b) \in Uint256s
        /\ Uint256(h.parent_root) \in Uint256s /\ Uint256(h.state_root) \in Uint256s
        /\ Uint256(h.body_root) \in Uint256s
    BY <1>1, HalfRange
  <2> HIDE DEF zero
  <2> QED
    BY <2>1, <2>2
<1>6. Joined(Uint256s, 5, 3, 8)
  BY Join, 8 = 5 + 3 /\ 5 \in Nat /\ 3 \in Nat
<1>7. /\ \A i \in 1..5 : s[i] = Uint256(l[i])
      /\ \A i \in 1..3 : z[i] = zero
  OBVIOUS
<1> HIDE DEF s, z, l, zero
<1>8. /\ u \in [1..8 -> Uint256s]
      /\ \A i \in 1..5 : u[i] = s[i]
      /\ \A i \in 1..3 : u[5 + i] = z[i]
  BY <1>5, <1>6 DEF Joined
<1> HIDE DEF u
<1>9. u[6] = zero /\ u[7] = zero /\ u[8] = zero
  <2>1. u[5 + 1] = z[1] /\ u[5 + 2] = z[2] /\ u[5 + 3] = z[3]
    BY <1>8
  <2> QED
    BY <1>7, <2>1
<1>10. \A i \in 1..8 : u[i] = IF i <= 5 THEN Uint256(l[i]) ELSE zero
  BY <1>7, <1>8, <1>9
<1>11. Len(u) = 8
  BY <1>8, IsSeqOf, 8 \in Nat
<1>12. Merkleize(l) \in Digest /\ ComputeRoot(u) = Uint256(Merkleize(l))
  BY <1>4, <1>10, <1>11, RootOfHalves, 5 \in Nat, 8 \in Nat DEF zero
<1> QED
  BY <1>2, <1>3, <1>12

Payload == [block_number : 0..(Pow64 - 1), block_hash : Digest, rest : Digest]

\* So is the root of an execution payload header.
LEMMA PayloadRoot ==
  ASSUME PrimitivesTyped, NEW p \in Payload
  PROVE  /\ PayloadFields(p) \in [1..17 -> Digest]
         /\ PayloadFields(p)[7] = LittleEndian(p.block_number)
         /\ PayloadFields(p)[13] = p.block_hash
         /\ Merkleize(PayloadFields(p)) \in Digest
         /\ PayloadLeafs(p)[7] = Uint256(LittleEndian(p.block_number))
         /\ PayloadLeafs(p)[13] = Uint256(p.block_hash)
         /\ ComputeRoot(PayloadLeafs(p)) = Uint256(Merkleize(PayloadFields(p)))
<1> DEFINE l == PayloadFields(p)
           u == PayloadLeafs(p)
<1>1. LittleEndian(p.block_number) \in Digest /\ p.block_hash \in Digest /\ p.rest \in Digest
  <2> HIDE DEF Digest
  <2>1. p.block_number \in 0..(Pow64 - 1) /\ p.block_hash \in Digest /\ p.rest \in Digest
    BY DEF Payload
  <2> QED
    BY <2>1, NumberLeaf
<1>2. l \in [1..17 -> Digest] /\ l[7] = LittleEndian(p.block_number) /\ l[13] = p.block_hash
  <2> HIDE DEF Digest
  <2> QED
    BY <1>1 DEF PayloadFields
<1>3. \A i \in 1..32 : u[i] = IF i <= 17 THEN Uint256(l[i]) ELSE [low |-> 0, high |-> 0]
  BY DEF PayloadLeafs
<1>4. Len(u) = 32
  BY DEF PayloadLeafs
<1> HIDE DEF l
<1> HIDE DEF u
<1>5. Merkleize(l) \in Digest /\ ComputeRoot(u) = Uint256(Merkleize(l))
  BY <1>2, <1>3, <1>4, RootOfHalves, 17 \in Nat, 32 \in Nat
<1> QED
  BY <1>2, <1>3, <1>5 DEF l, u

---------------------------------------------------------------------------
(* Paths. *)

\* A path's nodes, step by step, for the lengths in use: v is the value, g the
\* index of the node reached after k siblings.
HasSteps(path, leaf, index) ==
  \E v, g :
    /\ v[0] = leaf /\ g[0] = index
    /\ \A k \in 1..Len(path) :
         /\ g[k] = g[k - 1] \div 2
         /\ v[k] = IF g[k - 1] % 2 = 0 THEN Sha(v[k - 1] \o path[k])
                   ELSE Sha(path[k] \o v[k - 1])
    /\ HashPath(path, leaf, index) = v[Len(path)]

\* A walk along a path, round by round.
LEMMA PathSteps ==
  ASSUME NEW path, Len(path) \in {4, 5}, NEW leaf, NEW index
  PROVE  HasSteps(path, leaf, index)
<1> DEFINE Up(n, sibling) ==
             [value |-> IF n.g_index % 2 = 0 THEN Sha(n.value \o sibling)
                        ELSE Sha(sibling \o n.value),
              g_index |-> n.g_index \div 2]
           node == CHOOSE f : f = [k \in 0..Len(path) |->
                     IF k = 0 THEN [value |-> leaf, g_index |-> index]
                     ELSE [value |-> IF f[k - 1].g_index % 2 = 0
                                     THEN Sha(f[k - 1].value \o path[k])
                                     ELSE Sha(path[k] \o f[k - 1].value),
                           g_index |-> f[k - 1].g_index \div 2]]
           n0 == [value |-> leaf, g_index |-> index]
           n1 == Up(n0, path[1])
           n2 == Up(n1, path[2])
           n3 == Up(n2, path[3])
           n4 == Up(n3, path[4])
           n5 == Up(n4, path[5])
           w == [k \in 0..Len(path) |->
                   IF k = 0 THEN n0 ELSE IF k = 1 THEN n1 ELSE IF k = 2 THEN n2
                   ELSE IF k = 3 THEN n3 ELSE IF k = 4 THEN n4 ELSE n5]
<1>1. HashPath(path, leaf, index) = node[Len(path)].value
  BY DEF HashPath
<1>2. \A k \in 0..Len(path) : w[k] = IF k = 0 THEN n0 ELSE Up(w[k - 1], path[k])
  <2> HIDE DEF Up, n0
  <2>1. /\ w[0] = n0 /\ w[1] = Up(w[0], path[1]) /\ w[2] = Up(w[1], path[2])
        /\ w[3] = Up(w[2], path[3]) /\ w[4] = Up(w[3], path[4])
        /\ 5 \in 0..Len(path) => w[5] = Up(w[4], path[5])
    <3>1. /\ w[0] = n0 /\ w[1] = n1 /\ w[2] = n2 /\ w[3] = n3 /\ w[4] = n4
          /\ 5 \in 0..Len(path) => w[5] = n5
      <4> HIDE DEF n1, n2, n3, n4, n5
      <4> QED
        OBVIOUS
    <3> HIDE DEF w
    <3> QED
      BY <3>1
  <2> HIDE DEF w
  <2> SUFFICES ASSUME NEW k \in 0..Len(path)
               PROVE  w[k] = IF k = 0 THEN n0 ELSE Up(w[k - 1], path[k])
    OBVIOUS
  <2>2. k = 0 \/ k = 1 \/ k = 2 \/ k = 3 \/ k = 4 \/ (k = 5 /\ 5 \in 0..Len(path))
    <3>1. CASE Len(path) = 4
      <4>1. k \in 0..4
        BY <3>1
      <4> QED
        BY <4>1
    <3>2. CASE Len(path) = 5
      <4>1. k \in 0..5
        BY <3>2
      <4> QED
        BY <3>2, <4>1
    <3> QED
      BY <3>1, <3>2
  <2>3. 1 - 1 = 0 /\ 2 - 1 = 1 /\ 3 - 1 = 2 /\ 4 - 1 = 3 /\ 5 - 1 = 4
    OBVIOUS
  <2> QED
    BY <2>1, <2>2, <2>3
<1> HIDE DEF n1, n2, n3, n4, n5
<1>3. w = [k \in 0..Len(path) |-> IF k = 0 THEN n0 ELSE Up(w[k - 1], path[k])]
  <2> HIDE DEF Up, n0
  <2>1. w = [k \in 0..Len(path) |-> w[k]]
    OBVIOUS
  <2> HIDE DEF w
  <2> QED
    BY <1>2, <2>1
<1> HIDE DEF w
<1>4. node = [k \in 0..Len(path) |-> IF k = 0 THEN n0 ELSE Up(node[k - 1], path[k])]
  BY <1>3
<1> HIDE DEF node
<1>5. \A k \in 0..Len(path) : node[k] = IF k = 0 THEN n0 ELSE Up(node[k - 1], path[k])
  <2> HIDE DEF Up, n0
  <2> QED
    BY <1>4
<1> DEFINE v == [k \in 0..Len(path) |-> node[k].value]
           g == [k \in 0..Len(path) |-> node[k].g_index]
<1>6. v[0] = leaf /\ g[0] = index /\ v[Len(path)] = node[Len(path)].value
  <2>1. Len(path) \in Nat /\ 0 \in 0..Len(path) /\ Len(path) \in 0..Len(path)
    OBVIOUS
  <2>2. node[0] = n0
    BY <1>5, <2>1
  <2> QED
    BY <2>1, <2>2
<1>7. ASSUME NEW k \in 1..Len(path)
      PROVE  /\ g[k] = g[k - 1] \div 2
             /\ v[k] = IF g[k - 1] % 2 = 0 THEN Sha(v[k - 1] \o path[k])
                       ELSE Sha(path[k] \o v[k - 1])
  <2>1. k \in 0..Len(path) /\ k # 0 /\ k - 1 \in 0..Len(path)
    OBVIOUS
  <2>2. node[k] = Up(node[k - 1], path[k])
    BY <1>5, <2>1
  <2> QED
    BY <2>1, <2>2
<1> HIDE DEF v, g
<1> QED
  BY <1>1, <1>6, <1>7 DEF HasSteps

HasPath(leaves, pos) ==
  \E at : /\ at[0] = pos
          /\ \A k \in 1..5 : at[k] = at[k - 1] \div 2
          /\ GeneratePath(leaves, pos)
               = [k \in 1..Depth(leaves) |->
                    Node(leaves, k - 1, IF at[k - 1] % 2 = 0 THEN at[k - 1] + 1
                                        ELSE at[k - 1] - 1)]

\* A generated path, level by level.
LEMMA PathOf ==
  ASSUME NEW leaves, NEW pos
  PROVE  HasPath(leaves, pos)
<1> DEFINE at == CHOOSE f : f = [k \in 0..5 |-> IF k = 0 THEN pos ELSE f[k - 1] \div 2]
           g == [k \in 0..5 |->
                   IF k = 0 THEN pos ELSE IF k = 1 THEN pos \div 2
                   ELSE IF k = 2 THEN (pos \div 2) \div 2
                   ELSE IF k = 3 THEN ((pos \div 2) \div 2) \div 2
                   ELSE IF k = 4 THEN (((pos \div 2) \div 2) \div 2) \div 2
                   ELSE ((((pos \div 2) \div 2) \div 2) \div 2) \div 2]
<1>1. GeneratePath(leaves, pos)
        = [k \in 1..Depth(leaves) |->
             Node(leaves, k - 1, IF at[k - 1] % 2 = 0 THEN at[k - 1] + 1 ELSE at[k - 1] - 1)]
  BY DEF GeneratePath
<1>2. \A k \in 0..5 : g[k] = IF k = 0 THEN pos ELSE g[k - 1] \div 2
  OBVIOUS
<1>3. g = [k \in 0..5 |-> IF k = 0 THEN pos ELSE g[k - 1] \div 2]
  BY <1>2
<1>4. at = [k \in 0..5 |-> IF k = 0 THEN pos ELSE at[k - 1] \div 2]
  <2> HIDE DEF g
  <2> QED
    BY <1>3
<1> HIDE DEF at
<1>5. at[0] = pos /\ \A k \in 1..5 : at[k] = at[k - 1] \div 2
  BY <1>4
<1> QED
  BY <1>1, <1>5 DEF HasPath

\* Leaf 9 of a body is hashed up to its root along the path the client made.
LEMMA BodyPath ==
  ASSUME NEW leaves, Len(leaves) = 12
  PROVE  HashPath(GeneratePath(leaves, 9), leaves[10], 9) = Merkleize(leaves)
<1> DEFINE path == GeneratePath(leaves, 9)
<1>1. Depth(leaves) = 4
  BY Depths
<1>2. path = <<Node(leaves, 0, 8), Node(leaves, 1, 5), Node(leaves, 2, 3),
               Node(leaves, 3, 0)>>
  <2>1. PICK at : /\ at[0] = 9
                  /\ \A k \in 1..5 : at[k] = at[k - 1] \div 2
                  /\ path = [k \in 1..Depth(leaves) |->
                       Node(leaves, k - 1, IF at[k - 1] % 2 = 0 THEN at[k - 1] + 1
                                           ELSE at[k - 1] - 1)]
    <3>1. HasPath(leaves, 9)
      BY PathOf
    <3> QED
      BY <3>1 DEF HasPath
  <2>2. at[0] = 9 /\ at[1] = 4 /\ at[2] = 2 /\ at[3] = 1
    <3>1. at[1] = at[0] \div 2 /\ at[2] = at[1] \div 2 /\ at[3] = at[2] \div 2
      BY <2>1
    <3> QED
      BY <2>1, <3>1
  <2>3. path = [k \in 1..4 |->
                  Node(leaves, k - 1, IF at[k - 1] % 2 = 0 THEN at[k - 1] + 1
                                      ELSE at[k - 1] - 1)]
    BY <1>1, <2>1
  <2> HIDE DEF path
  <2>4. /\ path[1] = Node(leaves, 0, 8) /\ path[2] = Node(leaves, 1, 5)
        /\ path[3] = Node(leaves, 2, 3) /\ path[4] = Node(leaves, 3, 0)
    BY <2>2, <2>3
  <2> QED
    BY <2>3, <2>4
<1> HIDE DEF path
<1>3. /\ Len(path) = 4
      /\ path[1] = Node(leaves, 0, 8) /\ path[2] = Node(leaves, 1, 5)
      /\ path[3] = Node(leaves, 2, 3) /\ path[4] = Node(leaves, 3, 0)
  BY <1>2
<1>4. PICK v, g :
        /\ v[0] = leaves[10] /\ g[0] = 9
        /\ \A k \in 1..Len(path) :
             /\ g[k] = g[k - 1] \div 2
             /\ v[k] = IF g[k - 1] % 2 = 0 THEN Sha(v[k - 1] \o path[k])
                       ELSE Sha(path[k] \o v[k - 1])
        /\ HashPath(path, leaves[10], 9) = v[Len(path)]
  <2>1. HasSteps(path, leaves[10], 9)
    BY <1>3, PathSteps
  <2> QED
    BY <2>1 DEF HasSteps
<1>5. /\ g[1] = g[0] \div 2 /\ g[2] = g[1] \div 2 /\ g[3] = g[2] \div 2
      /\ v[1] = IF g[0] % 2 = 0 THEN Sha(v[0] \o path[1]) ELSE Sha(path[1] \o v[0])
      /\ v[2] = IF g[1] % 2 = 0 THEN Sha(v[1] \o path[2]) ELSE Sha(path[2] \o v[1])
      /\ v[3] = IF g[2] % 2 = 0 THEN Sha(v[2] \o path[3]) ELSE Sha(path[3] \o v[2])
      /\ v[4] = IF g[3] % 2 = 0 THEN Sha(v[3] \o path[4]) ELSE Sha(path[4] \o v[3])
  BY <1>3, <1>4
<1>6. g[0] = 9 /\ g[1] = 4 /\ g[2] = 2 /\ g[3] = 1
  BY <1>4, <1>5
<1>7. /\ Node(leaves, 0, 9) = leaves[10]
      /\ Sha(Node(leaves, 0, 8) \o Node(leaves, 0, 9)) = Node(leaves, 1, 4)
      /\ Sha(Node(leaves, 1, 4) \o Node(leaves, 1, 5)) = Node(leaves, 2, 2)
      /\ Sha(Node(leaves, 2, 2) \o Node(leaves, 2, 3)) = Node(leaves, 3, 1)
      /\ Sha(Node(leaves, 3, 0) \o Node(leaves, 3, 1)) = Node(leaves, 4, 0)
  <2>1. Node(leaves, 0, 9) = leaves[10]
    BY Nodes, 9 < 12 /\ 9 + 1 = 10 /\ 9 \in Nat
  <2>2. Sha(Node(leaves, 0, 8) \o Node(leaves, 0, 9)) = Node(leaves, 1, 4)
    BY Nodes, 1 \in 1..5 /\ 4 \in Nat /\ 1 - 1 = 0 /\ 2 * 4 = 8 /\ 2 * 4 + 1 = 9
  <2>3. Sha(Node(leaves, 1, 4) \o Node(leaves, 1, 5)) = Node(leaves, 2, 2)
    BY Nodes, 2 \in 1..5 /\ 2 \in Nat /\ 2 - 1 = 1 /\ 2 * 2 = 4 /\ 2 * 2 + 1 = 5
  <2>4. Sha(Node(leaves, 2, 2) \o Node(leaves, 2, 3)) = Node(leaves, 3, 1)
    BY Nodes, 3 \in 1..5 /\ 1 \in Nat /\ 3 - 1 = 2 /\ 2 * 1 = 2 /\ 2 * 1 + 1 = 3
  <2>5. Sha(Node(leaves, 3, 0) \o Node(leaves, 3, 1)) = Node(leaves, 4, 0)
    BY Nodes, 4 \in 1..5 /\ 0 \in Nat /\ 4 - 1 = 3 /\ 2 * 0 = 0 /\ 2 * 0 + 1 = 1
  <2> QED
    BY <2>1, <2>2, <2>3, <2>4, <2>5
<1>8. v[1] = Node(leaves, 1, 4) /\ v[2] = Node(leaves, 2, 2) /\ v[3] = Node(leaves, 3, 1)
      /\ v[4] = Node(leaves, 4, 0)
  BY <1>3, <1>4, <1>5, <1>6, <1>7
<1>9. Merkleize(leaves) = Node(leaves, 4, 0)
  BY <1>1 DEF Merkleize
<1> QED
  BY <1>3, <1>4, <1>8, <1>9 DEF path

\* Leaf 23 of a state is: index 55 goes up as position 23 does.
LEMMA StatePath ==
  ASSUME NEW leaves, Len(leaves) = 28
  PROVE  HashPath(GeneratePath(leaves, 23), leaves[24], 55) = Merkleize(leaves)
<1> DEFINE path == GeneratePath(leaves, 23)
<1>1. Depth(leaves) = 5
  BY Depths
<1>2. path = <<Node(leaves, 0, 22), Node(leaves, 1, 10), Node(leaves, 2, 4),
               Node(leaves, 3, 3), Node(leaves, 4, 0)>>
  <2>1. PICK at : /\ at[0] = 23
                  /\ \A k \in 1..5 : at[k] = at[k - 1] \div 2
                  /\ path = [k \in 1..Depth(leaves) |->
                       Node(leaves, k - 1, IF at[k - 1] % 2 = 0 THEN at[k - 1] + 1
                                           ELSE at[k - 1] - 1)]
    <3>1. HasPath(leaves, 23)
      BY PathOf
    <3> QED
      BY <3>1 DEF HasPath
  <2>2. at[0] = 23 /\ at[1] = 11 /\ at[2] = 5 /\ at[3] = 2 /\ at[4] = 1
    <3>1. /\ at[1] = at[0] \div 2 /\ at[2] = at[1] \div 2
          /\ at[3] = at[2] \div 2 /\ at[4] = at[3] \div 2
      BY <2>1
    <3> QED
      BY <2>1, <3>1
  <2>3. path = [k \in 1..5 |->
                  Node(leaves, k - 1, IF at[k - 1] % 2 = 0 THEN at[k - 1] + 1
                                      ELSE at[k - 1] - 1)]
    BY <1>1, <2>1
  <2> HIDE DEF path
  <2>4. /\ path[1] = Node(leaves, 0, 22) /\ path[2] = Node(leaves, 1, 10)
        /\ path[3] = Node(leaves, 2, 4) /\ path[4] = Node(leaves, 3, 3)
        /\ path[5] = Node(leaves, 4, 0)
    BY <2>2, <2>3
  <2> QED
    BY <2>3, <2>4
<1> HIDE DEF path
<1>3. /\ Len(path) = 5
      /\ path[1] = Node(leaves, 0, 22) /\ path[2] = Node(leaves, 1, 10)
      /\ path[3] = Node(leaves, 2, 4) /\ path[4] = Node(leaves, 3, 3)
      /\ path[5] = Node(leaves, 4, 0)
  BY <1>2
<1>4. PICK v, g :
        /\ v[0] = leaves[24] /\ g[0] = 55
        /\ \A k \in 1..Len(path) :
             /\ g[k] = g[k - 1] \div 2
             /\ v[k] = IF g[k - 1] % 2 = 0 THEN Sha(v[k - 1] \o path[k])
                       ELSE Sha(path[k] \o v[k - 1])
        /\ HashPath(path, leaves[24], 55) = v[Len(path)]
  <2>1. HasSteps(path, leaves[24], 55)
    BY <1>3, PathSteps
  <2> QED
    BY <2>1 DEF HasSteps
<1>5. /\ g[1] = g[0] \div 2 /\ g[2] = g[1] \div 2
      /\ g[3] = g[2] \div 2 /\ g[4] = g[3] \div 2
      /\ v[1] = IF g[0] % 2 = 0 THEN Sha(v[0] \o path[1]) ELSE Sha(path[1] \o v[0])
      /\ v[2] = IF g[1] % 2 = 0 THEN Sha(v[1] \o path[2]) ELSE Sha(path[2] \o v[1])
      /\ v[3] = IF g[2] % 2 = 0 THEN Sha(v[2] \o path[3]) ELSE Sha(path[3] \o v[2])
      /\ v[4] = IF g[3] % 2 = 0 THEN Sha(v[3] \o path[4]) ELSE Sha(path[4] \o v[3])
      /\ v[5] = IF g[4] % 2 = 0 THEN Sha(v[4] \o path[5]) ELSE Sha(path[5] \o v[4])
  BY <1>3, <1>4
<1>6. g[0] = 55 /\ g[1] = 27 /\ g[2] = 13 /\ g[3] = 6 /\ g[4] = 3
  BY <1>4, <1>5
<1>7. /\ Node(leaves, 0, 23) = leaves[24]
      /\ Sha(Node(leaves, 0, 22) \o Node(leaves, 0, 23)) = Node(leaves, 1, 11)
      /\ Sha(Node(leaves, 1, 10) \o Node(leaves, 1, 11)) = Node(leaves, 2, 5)
      /\ Sha(Node(leaves, 2, 4) \o Node(leaves, 2, 5)) = Node(leaves, 3, 2)
      /\ Sha(Node(leaves, 3, 2) \o Node(leaves, 3, 3)) = Node(leaves, 4, 1)
      /\ Sha(Node(leaves, 4, 0) \o Node(leaves, 4, 1)) = Node(leaves, 5, 0)
  <2>1. Node(leaves, 0, 23) = leaves[24]
    BY Nodes, 23 < 28 /\ 23 + 1 = 24 /\ 23 \in Nat
  <2>2. Sha(Node(leaves, 0, 22) \o Node(leaves, 0, 23)) = Node(leaves, 1, 11)
    BY Nodes, 1 \in 1..5 /\ 11 \in Nat /\ 1 - 1 = 0 /\ 2 * 11 = 22 /\ 2 * 11 + 1 = 23
  <2>3. Sha(Node(leaves, 1, 10) \o Node(leaves, 1, 11)) = Node(leaves, 2, 5)
    BY Nodes, 2 \in 1..5 /\ 5 \in Nat /\ 2 - 1 = 1 /\ 2 * 5 = 10 /\ 2 * 5 + 1 = 11
  <2>4. Sha(Node(leaves, 2, 4) \o Node(leaves, 2, 5)) = Node(leaves, 3, 2)
    BY Nodes, 3 \in 1..5 /\ 2 \in Nat /\ 3 - 1 = 2 /\ 2 * 2 = 4 /\ 2 * 2 + 1 = 5
  <2>5. Sha(Node(leaves, 3, 2) \o Node(leaves, 3, 3)) = Node(leaves, 4, 1)
    BY Nodes, 4 \in 1..5 /\ 1 \in Nat /\ 4 - 1 = 3 /\ 2 * 1 = 2 /\ 2 * 1 + 1 = 3
  <2>6. Sha(Node(leaves, 4, 0) \o Node(leaves, 4, 1)) = Node(leaves, 5, 0)
    BY Nodes, 5 \in 1..5 /\ 0 \in Nat /\ 5 - 1 = 4 /\ 2 * 0 = 0 /\ 2 * 0 + 1 = 1
  <2> QED
    BY <2>1, <2>2, <2>3, <2>4, <2>5, <2>6
<1>8. v[1] = Node(leaves, 1, 11) /\ v[2] = Node(leaves, 2, 5) /\ v[3] = Node(leaves, 3, 2)
      /\ v[4] = Node(leaves, 4, 1) /\ v[5] = Node(leaves, 5, 0)
  BY <1>3, <1>4, <1>5, <1>6, <1>7
<1>9. Merkleize(leaves) = Node(leaves, 5, 0)
  BY <1>1 DEF Merkleize
<1> QED
  BY <1>3, <1>4, <1>8, <1>9 DEF path

---------------------------------------------------------------------------
(* The world. *)

\* What the beacon node serves follows from three keys and a served payload.
WorldInv ==
  \E k \in Keys, next \in Keys, served \in Served :
    world = World(<<k, next, k>>, served)

\* A hash of numbers is a hash.
LEMMA DigestOf ==
  ASSUME PrimitivesTyped, NEW s \in Seq(Nat)
  PROVE  Sha(s) \in Digest
BY DEF PrimitivesTyped

\* The leaf of a committee in a state, from its key.
CommitteeLeaf(k) == Sha(KeysRoot(k) \o Sha(Compressed(k) \o Zeros(4)))

\* The path to the next committee leads from its leaf to the state root.
LEMMA StateTree ==
  ASSUME PrimitivesTyped, NEW k \in Keys
  PROVE  /\ Merkleize(StateLeaves(k)) \in Digest
         /\ HashPath(GeneratePath(StateLeaves(k), 23), CommitteeLeaf(k), 55)
              = Merkleize(StateLeaves(k))
<1>1. CommitteeLeaf(k) \in Digest
  <2>1. KeysRoot(k) \in Digest
    <3>1. k.x \in Coordinate /\ k.sign \in 0..1
      BY KeysAssumption
    <3>2. <<k.sign>> \in Seq(Nat)
      BY <3>1
    <3>3. k.x \in Seq(Nat)
      <4>1. k.x \in [1..12 -> Nat]
        BY <3>1, ChunkFacts DEF Coordinate
      <4> QED
        BY <4>1, IsSeqOf, 12 \in Nat
    <3>4. <<k.sign>> \o k.x \in Seq(Nat)
      BY <3>2, <3>3, ConcatProperties
    <3> QED
      BY <3>4, DigestOf DEF KeysRoot
  <2>2. Sha(Compressed(k) \o Zeros(4)) \in Digest
    <3>1. Compressed(k) \in [1..12 -> 0..(Chunk - 1)]
      BY KeyCompressed DEF Coordinate
    <3>2. Zeros(4) \in [1..4 -> 0..(Chunk - 1)]
      BY ChunkFacts DEF Zeros
    <3>3. Compressed(k) \o Zeros(4) \in Seq(Nat)
      BY <3>1, <3>2, JoinedNat, 12 \in Nat, 4 \in Nat
    <3> QED
      BY <3>3, DigestOf
  <2>3. KeysRoot(k) \o Sha(Compressed(k) \o Zeros(4)) \in Seq(Nat)
    BY <2>1, <2>2, JoinedNat, 8 \in Nat DEF Digest
  <2> QED
    BY <2>3, DigestOf DEF CommitteeLeaf
<1> DEFINE l == StateLeaves(k)
<1>2. \A i \in 1..28 : Sha(<<i, i>>) \in Digest
  <2> SUFFICES ASSUME NEW i \in 1..28 PROVE Sha(<<i, i>>) \in Digest
    OBVIOUS
  <2>1. <<i, i>> \in Seq(Nat)
    OBVIOUS
  <2> QED
    BY <2>1, DigestOf
<1>3. l \in [1..28 -> Digest] /\ l[24] = CommitteeLeaf(k)
  <2> HIDE DEF Digest
  <2>1. l = [i \in 1..28 |-> IF i = 24 THEN CommitteeLeaf(k) ELSE Sha(<<i, i>>)]
    BY DEF StateLeaves, CommitteeLeaf
  <2> HIDE DEF l
  <2> QED
    BY <1>1, <1>2, <2>1
<1>4. Len(l) = 28
  <2> HIDE DEF l
  <2> QED
    BY <1>3, IsSeqOf, 28 \in Nat
<1> HIDE DEF l
<1>5. Merkleize(l) \in Digest
  <2>1. Depth(l) = 5
    BY <1>4, Depths
  <2>2. Node(l, 5, 0) \in Digest
    BY <1>3, NodesTyped, 28 \in Nat /\ 5 \in 0..5 /\ 0 \in Nat
  <2> QED
    BY <2>1, <2>2 DEF Merkleize
<1>6. HashPath(GeneratePath(l, 23), l[24], 55) = Merkleize(l)
  BY <1>4, StatePath
<1> QED
  BY <1>3, <1>5, <1>6 DEF l

\* The path to the payload leads from its root to the body root.
LEMMA BodyTree ==
  ASSUME PrimitivesTyped, NEW p \in Payload
  PROVE  /\ Merkleize(BodyLeaves(p)) \in Digest
         /\ HashPath(GeneratePath(BodyLeaves(p), 9), Merkleize(PayloadFields(p)), 9)
              = Merkleize(BodyLeaves(p))
<1> DEFINE l == BodyLeaves(p)
<1>1. \A i \in 1..12 : Sha(<<i>>) \in Digest
  <2> SUFFICES ASSUME NEW i \in 1..12 PROVE Sha(<<i>>) \in Digest
    OBVIOUS
  <2>1. <<i>> \in Seq(Nat)
    OBVIOUS
  <2> QED
    BY <2>1, DigestOf
<1>2. l \in [1..12 -> Digest] /\ l[10] = Merkleize(PayloadFields(p))
  <2> HIDE DEF Digest
  <2> QED
    BY <1>1, PayloadRoot DEF BodyLeaves
<1>3. Len(l) = 12
  <2> HIDE DEF l
  <2> QED
    BY <1>2, IsSeqOf, 12 \in Nat
<1> HIDE DEF l
<1>4. Merkleize(l) \in Digest
  <2>1. Depth(l) = 4
    BY <1>3, Depths
  <2>2. Node(l, 4, 0) \in Digest
    BY <1>2, NodesTyped, 12 \in Nat /\ 4 \in 0..5 /\ 0 \in Nat
  <2> QED
    BY <2>1, <2>2 DEF Merkleize
<1>5. HashPath(GeneratePath(l, 9), l[10], 9) = Merkleize(l)
  BY <1>3, BodyPath
<1> QED
  BY <1>2, <1>4, <1>5 DEF l

\* Who signs the headers, and who follows.
LEMMA Committees ==
  ASSUME WorldInv
  PROVE  /\ \A p \in 1..3 : world.keys[p] \in Keys
         /\ Signer(world.keys, 1) = world.keys[1] /\ NextKey(world.keys, 1) = world.keys[2]
         /\ Signer(world.keys, 2) = world.keys[1] /\ NextKey(world.keys, 2) = world.keys[2]
         /\ Signer(world.keys, 3) = world.keys[2] /\ NextKey(world.keys, 3) = world.keys[3]
<1>1. PICK k \in Keys, next \in Keys, served \in Served :
        world = World(<<k, next, k>>, served)
  BY DEF WorldInv
<1>2. world.keys = <<k, next, k>>
  BY <1>1 DEF World
<1>3. \A p \in 1..3 : world.keys[p] \in Keys
  BY <1>2
<1>4. /\ 1 + HeaderSlots[1] \div SlotsPerPeriod = 1 /\ 2 + HeaderSlots[1] \div SlotsPerPeriod = 2
      /\ 1 + HeaderSlots[2] \div SlotsPerPeriod = 1 /\ 2 + HeaderSlots[2] \div SlotsPerPeriod = 2
      /\ 1 + HeaderSlots[3] \div SlotsPerPeriod = 2 /\ 2 + HeaderSlots[3] \div SlotsPerPeriod = 3
  BY SlotsAssumption
<1> QED
  BY <1>3, <1>4 DEF Signer, NextKey

\* The types of what the beacon node serves, and where its roots come from.
LEMMA Headers ==
  ASSUME PrimitivesTyped, WorldInv
  PROVE  /\ world.payload \in Payload /\ world.absent \in 0..Seats
         /\ \A i \in 1..3 :
              /\ world.headers[i].slot = HeaderSlots[i]
              /\ world.headers[i].state_root = Merkleize(StateLeaves(NextKey(world.keys, i)))
              /\ world.headers[i].body_root = Merkleize(BodyLeaves(world.payload))
              /\ world.headers[i].slot \in 1..(Pow64 - 1)
              /\ world.headers[i].proposer_index \in 0..(Pow64 - 1)
              /\ world.headers[i].parent_root \in Digest
              /\ world.headers[i].state_root \in Digest
              /\ world.headers[i].body_root \in Digest
<1>1. PICK k \in Keys, next \in Keys, served \in Served :
        world = World(<<k, next, k>>, served)
  BY DEF WorldInv
<1>2. /\ served.payload \in Payload /\ served.absent \in 0..Seats
      /\ served.parent_root \in Digest
  <2> HIDE DEF Digest
  <2>1. served \in [payload : Payload, parent_root : Digest, absent : 0..Seats]
    BY ServedAssumption DEF Payload
  <2> QED
    BY <2>1
<1>3. /\ world.keys = <<k, next, k>> /\ world.payload = served.payload
      /\ world.absent = served.absent
      /\ world.headers = [i \in 1..3 |->
           [slot |-> HeaderSlots[i], proposer_index |-> i,
            parent_root |-> served.parent_root,
            state_root |-> Merkleize(StateLeaves(NextKey(world.keys, i))),
            body_root |-> Merkleize(BodyLeaves(world.payload))]]
  BY <1>1 DEF World
<1>4. ASSUME NEW i \in 1..3
      PROVE  /\ world.headers[i].slot = HeaderSlots[i]
             /\ world.headers[i].proposer_index = i
             /\ world.headers[i].parent_root = served.parent_root
             /\ world.headers[i].state_root = Merkleize(StateLeaves(NextKey(world.keys, i)))
             /\ world.headers[i].body_root = Merkleize(BodyLeaves(world.payload))
  BY <1>3
<1>5. \A i \in 1..3 : NextKey(world.keys, i) \in Keys
  <2>1. \A i \in 1..3 : i = 1 \/ i = 2 \/ i = 3
    OBVIOUS
  <2> QED
    BY <2>1, Committees
<1>6. \A i \in 1..3 : HeaderSlots[i] \in 1..(Pow64 - 1) /\ i \in 0..(Pow64 - 1)
  BY SlotsAssumption, ChunkFacts
<1>7. Merkleize(BodyLeaves(world.payload)) \in Digest
  BY <1>2, <1>3, BodyTree
<1>8. \A i \in 1..3 : Merkleize(StateLeaves(NextKey(world.keys, i))) \in Digest
  BY <1>5, StateTree
<1> QED
  BY <1>2, <1>3, <1>4, <1>6, <1>7, <1>8

---------------------------------------------------------------------------
(* The circuits. *)

\* A hash as two field elements is the same from the client and the circuit.
LEMMA SameWords ==
  ASSUME NEW d
  PROVE  Words(d) = Felts(Uint256(d))
BY DEF Words, Felts, Uint256

\* An epoch file is accepted, proves the words that are submitted, and is read
\* back.
LEMMA EpochRun ==
  ASSUME PrimitivesTyped, WorldInv, NEW i \in 1..3
  PROVE  /\ RunEpochUpdate(EpochFile(i)).accepted
         /\ RunEpochUpdate(EpochFile(i)).output = EpochCalldata(EpochFile(i).expected)
         /\ PointsAreRead(EpochFile(i))
<1> DEFINE f   == EpochFile(i)
           in  == f.circuit_inputs
           h   == world.headers[i]
           key == Signer(world.keys, i)
           p   == world.payload
           R   == TreeHashRoot(h)
           S   == Signature(R)
           U64(n) == [low |-> n, high |-> 0]
           header_root == HashHeaderRoot(U64(in.header.slot), U64(in.header.proposer_index),
                            Uint256(in.header.parent_root), Uint256(in.header.state_root),
                            Uint256(in.header.body_root))
           committee_hash == CommitCommitteeKey(Uint384(in.committee_pub.x),
                                                Uint384(in.committee_pub.y))
           leafs == PayloadLeafs(in.execution_header_proof.execution_payload_header)
           body_root == HashMerklePath(in.execution_header_proof.path,
                                       ChunkUint256(ComputeRoot(leafs)), 9)
<1>1. /\ in.header = h
      /\ in.signature_point = SerializeG2(UncompressedG2(S))
      /\ in.committee_pub = SerializeG1(Uncompressed(key))
      /\ in.non_signers = world.absent
      /\ in.execution_header_proof.path = GeneratePath(BodyLeaves(p), 9)
      /\ in.execution_header_proof.execution_payload_header = p
      /\ f.expected = EpochOutputs(h, key, world.absent, p)
  BY DEF EpochFile
<1>2. /\ f.expected.beacon_header_root = R
      /\ f.expected.beacon_state_root = h.state_root
      /\ f.expected.slot = h.slot
      /\ f.expected.committee_hash = GetCommitteeHash(key)
      /\ f.expected.n_signers = Seats - world.absent
      /\ f.expected.execution_header_hash = p.block_hash
      /\ f.expected.execution_header_height = p.block_number
  <2> HIDE DEF f
  <2> QED
    BY <1>1 DEF EpochOutputs
<1>3. /\ p \in Payload /\ key \in Keys /\ \E n \in DOMAIN world.keys : world.keys[n] = key
      /\ h.slot \in 0..(Pow64 - 1) /\ h.proposer_index \in 0..(Pow64 - 1)
      /\ h.parent_root \in Digest /\ h.state_root \in Digest /\ h.body_root \in Digest
      /\ h.body_root = Merkleize(BodyLeaves(p))
  <2>1. i = 1 \/ i = 2 \/ i = 3
    OBVIOUS
  <2>2. key \in Keys /\ (key = world.keys[1] \/ key = world.keys[2])
    BY <2>1, Committees
  <2>3. 1 \in DOMAIN world.keys /\ 2 \in DOMAIN world.keys
    BY DEF WorldInv, World
  <2>4. h.slot \in 1..(Pow64 - 1)
    BY Headers
  <2> QED
    BY <2>2, <2>3, <2>4, Headers
<1>4. R \in Digest
      /\ HashHeaderRoot(U64(h.slot), U64(h.proposer_index), Uint256(h.parent_root),
                        Uint256(h.state_root), Uint256(h.body_root))
           = Uint256(R)
  <2> HIDE DEF h
  <2> QED
    BY <1>3, HeaderRoot
<1> HIDE DEF f, in, h, key, p, R, S, U64
<1>5. header_root = Uint256(R)
  BY <1>1, <1>4
<1>6. committee_hash = Uint256(GetCommitteeHash(key))
  BY <1>1, <1>3, KeyPoint
<1>7. leafs = PayloadLeafs(p)
  BY <1>1
<1>8. /\ leafs[13] = Uint256(p.block_hash)
      /\ Uint256ReverseEndian(leafs[7]).low = p.block_number
  <2>1. leafs[7] = Uint256(LittleEndian(p.block_number))
    BY <1>3, <1>7, PayloadRoot
  <2>2. p.block_number \in 0..(Pow64 - 1)
    BY <1>3 DEF Payload
  <2> QED
    BY <1>3, <1>7, <2>1, <2>2, PayloadRoot, NumberLeaf
<1>9. body_root = Uint256(h.body_root)
  <2> DEFINE m == Merkleize(PayloadFields(p))
  <2>1. m \in Digest /\ ComputeRoot(leafs) = Uint256(m)
    BY <1>3, <1>7, PayloadRoot
  <2>2. ChunkUint256(ComputeRoot(leafs)) = m
    BY <2>1, ChunksOfHalves
  <2> HIDE DEF leafs
  <2>3. body_root = ChunksToUint256(HashPath(GeneratePath(BodyLeaves(p), 9), m, 9))
    BY <1>1, <2>2 DEF HashMerklePath
  <2>4. body_root = ChunksToUint256(h.body_root)
    BY <1>3, <2>3, BodyTree
  <2> QED
    BY <1>3, <2>4, ChunksOfHalves
<1>10. in.signature_point = S /\ ChunkUint256(header_root) = R
  BY <1>1, <1>4, <1>5, SignaturePoint, ChunksOfHalves DEF S
<1>11. RunEpochUpdate(f).output
         = Felts(header_root) \o Felts(Uint256(in.header.state_root))
             \o <<in.header.slot>> \o Felts(committee_hash) \o <<Seats - in.non_signers>>
             \o Felts(leafs[13]) \o <<Uint256ReverseEndian(leafs[7]).low>>
  BY DEF RunEpochUpdate, in, U64
<1>12. RunEpochUpdate(f).accepted <=>
         /\ \A c \in DOMAIN Signature(ChunkUint256(header_root)) :
              Uint384(in.signature_point[c])
                = Uint384(Signature(ChunkUint256(header_root))[c])
         /\ body_root = Uint256(in.header.body_root)
         /\ header_root = Uint256(f.expected.beacon_header_root)
         /\ Uint256(in.header.state_root) = Uint256(f.expected.beacon_state_root)
         /\ in.header.slot = f.expected.slot
         /\ committee_hash = Uint256(f.expected.committee_hash)
         /\ Seats - in.non_signers = f.expected.n_signers
         /\ leafs[13] = Uint256(f.expected.execution_header_hash)
         /\ Uint256ReverseEndian(leafs[7]).low = f.expected.execution_header_height
  BY DEF RunEpochUpdate, in, U64
<1> HIDE DEF header_root, committee_hash, leafs, body_root
<1>13. RunEpochUpdate(f).accepted
  BY <1>1, <1>2, <1>5, <1>6, <1>8, <1>9, <1>10, <1>12 DEF S
<1>14. RunEpochUpdate(f).output = EpochCalldata(f.expected)
  <2>1. RunEpochUpdate(f).output
          = Felts(Uint256(R)) \o Felts(Uint256(h.state_root)) \o <<h.slot>>
              \o Felts(Uint256(GetCommitteeHash(key))) \o <<Seats - world.absent>>
              \o Felts(Uint256(p.block_hash)) \o <<p.block_number>>
    BY <1>1, <1>5, <1>6, <1>8, <1>11
  <2> QED
    BY <1>2, <2>1, SameWords DEF EpochCalldata
<1>15. PointsAreRead(f)
  <2>1. DeserializeG1(in.committee_pub) = Uncompressed(key)
    BY <1>1, <1>3, KeyPoint
  <2>2. DeserializeG2(in.signature_point) = UncompressedG2(Signature(TreeHashRoot(in.header)))
    BY <1>1, <1>4, SignaturePoint DEF S, R
  <2>3. key \in Range(world.keys)
    BY <1>3 DEF Range
  <2> QED
    BY <2>1, <2>2, <2>3 DEF PointsAreRead, in
<1> QED
  BY <1>13, <1>14, <1>15 DEF f

\* So is a committee file.
LEMMA CommitteeRun ==
  ASSUME PrimitivesTyped, WorldInv, NEW i \in 1..2
  PROVE  /\ RunCommitteeUpdate(CommitteeFile(i)).accepted
         /\ RunCommitteeUpdate(CommitteeFile(i)).output
              = CommitteeCalldata(CommitteeFile(i).expected)
         /\ CommitteeFile(i).expected.state_root = world.headers[i].state_root
         /\ CommitteeFile(i).expected.committee_hash = GetCommitteeHash(world.keys[2])
         /\ CommitteeFile(i).expected.slot = HeaderSlots[i]
<1> DEFINE f    == CommitteeFile(i)
           in   == f.circuit_inputs
           next == NextKey(world.keys, i)
           l    == StateLeaves(next)
           R    == Merkleize(l)
           key  == Uint384(in.next_aggregate_sync_committee)
           leaf == Sha(in.committee_keys_root \o Sha(ChunkUint384(key) \o Zeros(4)))
           state_root == HashMerklePath(in.next_sync_committee_branch, leaf, 55)
           point == DecompressG1(key)
           y == Uint384(CurveY(ChunkUint384(point.x), point.sign_bit))
           committee_hash == CommitCommitteeKey(point.x, y)
<1>1. /\ next \in Keys /\ next = world.keys[2]
      /\ R \in Digest /\ world.headers[i].state_root = R
  <2>1. (i = 1 \/ i = 2) /\ i \in 1..3
    OBVIOUS
  <2>2. next \in Keys /\ next = world.keys[2]
    BY <2>1, Committees
  <2> QED
    BY <2>1, <2>2, StateTree, Headers
<1>2. /\ in.beacon_slot = HeaderSlots[i]
      /\ in.next_sync_committee_branch = GeneratePath(l, 23)
      /\ in.next_aggregate_sync_committee = Compressed(next)
      /\ in.committee_keys_root = KeysRoot(next)
      /\ f.expected = [state_root |-> ComputeStateRoot(in), slot |-> in.beacon_slot,
                       committee_hash |->
                         GetCommitteeHash(FromCompressed(in.next_aggregate_sync_committee))]
  BY DEF CommitteeFile
<1> HIDE DEF f, in, next, l
<1>3. /\ Compressed(next) \in Coordinate /\ FromCompressed(Compressed(next)) = next
      /\ key = Uint384(Compressed(next)) /\ ChunkUint384(key) = Compressed(next)
  BY <1>1, <1>2, KeyCompressed, ChunksOfLimbs
<1>4. HashPath(GeneratePath(l, 23), CommitteeLeaf(next), 55) = R
  BY <1>1, StateTree DEF l
<1>5. leaf = CommitteeLeaf(next)
  BY <1>2, <1>3 DEF CommitteeLeaf
<1>6. /\ f.expected.state_root = R
      /\ f.expected.slot = HeaderSlots[i]
      /\ f.expected.committee_hash = GetCommitteeHash(next)
  BY <1>2, <1>3, <1>4 DEF ComputeStateRoot, CommitteeLeaf
<1>7. state_root = Uint256(R)
  <2> HIDE DEF leaf, R
  <2> QED
    BY <1>1, <1>2, <1>4, <1>5, ChunksOfHalves DEF HashMerklePath
<1>8. /\ point.compression_bit = 1 /\ point.infinity_bit = 0
      /\ point.sign_bit = next.sign /\ point.x = Uint384(next.x)
  <2>1. point = [compression_bit |-> 1, infinity_bit |-> 0, sign_bit |-> next.sign,
                 x |-> Uint384(next.x)]
    BY <1>1, <1>3, KeyCompressed
  <2> HIDE DEF point
  <2> QED
    BY <2>1
<1>9. committee_hash = Uint256(GetCommitteeHash(next))
  <2>1. ChunkUint384(point.x) = next.x
    BY <1>1, <1>8, KeyPoint, ChunksOfLimbs
  <2>2. y = Uint384(CurveY(next.x, next.sign))
    BY <1>8, <2>1
  <2> HIDE DEF point, y
  <2> QED
    BY <1>1, <1>8, <2>2, KeyPoint
<1>10. RunCommitteeUpdate(f).output
         = Felts(state_root) \o Felts(committee_hash) \o <<in.beacon_slot>>
  BY DEF RunCommitteeUpdate, in
<1>11. RunCommitteeUpdate(f).accepted <=>
         /\ point.compression_bit = 1 /\ point.infinity_bit = 0
         /\ state_root = Uint256(f.expected.state_root)
         /\ in.beacon_slot = f.expected.slot
         /\ committee_hash = Uint256(f.expected.committee_hash)
  BY DEF RunCommitteeUpdate, in
<1> HIDE DEF key, leaf, state_root, point, y, committee_hash, R
<1>12. RunCommitteeUpdate(f).accepted
  BY <1>2, <1>6, <1>7, <1>8, <1>9, <1>11
<1>13. RunCommitteeUpdate(f).output = CommitteeCalldata(f.expected)
  <2>1. RunCommitteeUpdate(f).output
          = Felts(Uint256(R)) \o Felts(Uint256(GetCommitteeHash(next))) \o <<HeaderSlots[i]>>
    BY <1>2, <1>7, <1>9, <1>10
  <2> QED
    BY <1>6, <2>1, SameWords DEF CommitteeCalldata
<1> QED
  BY <1>1, <1>6, <1>12, <1>13 DEF f

---------------------------------------------------------------------------
(* The words of calldata. *)

\* The words of a committee update, one by one.
LEMMA FiveWords ==
  ASSUME NEW a, NEW b, NEW c, NEW d, NEW e
  PROVE  <<a, b>> \o <<c, d>> \o <<e>> = <<a, b, c, d, e>>
<1> DEFINE S == {a, b, c, d, e}
           ab == <<a, b>>
           cd == <<c, d>>
           x == ab \o cd
           y == x \o <<e>>
<1>1. /\ ab \in [1..2 -> S] /\ cd \in [1..2 -> S] /\ <<e>> \in [1..1 -> S]
      /\ <<a, b, c, d, e>> \in [1..5 -> S]
      /\ ab[1] = a /\ ab[2] = b /\ cd[1] = c /\ cd[2] = d
  OBVIOUS
<1> HIDE DEF S, ab, cd
<1>2. Joined(S, 2, 2, 4) /\ Joined(S, 4, 1, 5) /\ ByDigits(S, 5)
  <2>1. 4 = 2 + 2 /\ 5 = 4 + 1 /\ 1 \in Nat /\ 2 \in Nat /\ 4 \in Nat /\ 5 \in Nat
    OBVIOUS
  <2> QED
    BY <2>1, Join, SameDigits
<1>3. /\ x \in [1..4 -> S]
      /\ \A i \in 1..2 : x[i] = ab[i]
      /\ \A i \in 1..2 : x[2 + i] = cd[i]
  BY <1>1, <1>2 DEF Joined
<1> HIDE DEF x
<1>4. /\ y \in [1..5 -> S]
      /\ \A i \in 1..4 : y[i] = x[i]
      /\ \A i \in 1..1 : y[4 + i] = <<e>>[i]
  BY <1>1, <1>2, <1>3 DEF Joined
<1> HIDE DEF y
<1>5. /\ x[1] = a /\ x[2] = b /\ x[2 + 1] = c /\ x[2 + 2] = d
      /\ y[1] = x[1] /\ y[2] = x[2] /\ y[3] = x[3] /\ y[4] = x[4] /\ y[4 + 1] = e
  BY <1>1, <1>3, <1>4
<1>6. \A i \in 1..5 : y[i] = <<a, b, c, d, e>>[i]
  BY <1>5
<1>7. y = <<a, b, c, d, e>>
  BY <1>1, <1>2, <1>4, <1>6 DEF ByDigits
<1> QED
  BY <1>7 DEF ab, cd, x, y

AreWords(s, a, b, c, d, e, f, g, h, j, k, l) ==
  s = <<a, b>> \o <<c, d>> \o <<e>> \o <<f, g>> \o <<h>> \o <<j, k>> \o <<l>>
    => s = <<a, b, c, d, e, f, g, h, j, k, l>>

\* The words of an epoch, one by one.
LEMMA ElevenWords ==
  ASSUME NEW s, NEW a, NEW b, NEW c, NEW d, NEW e, NEW f, NEW g, NEW h, NEW j, NEW k, NEW l
  PROVE  AreWords(s, a, b, c, d, e, f, g, h, j, k, l)
<1> DEFINE S == {a, b, c, d, e, f, g, h, j, k, l}
           u == <<a, b, c, d, e>>
           fg == <<f, g>>
           jk == <<j, k>>
           all == <<a, b, c, d, e, f, g, h, j, k, l>>
           v == u \o fg
           w == v \o <<h>>
           x == w \o jk
           y == x \o <<l>>
<1>1. /\ u \in [1..5 -> S] /\ fg \in [1..2 -> S] /\ <<h>> \in [1..1 -> S]
      /\ jk \in [1..2 -> S] /\ <<l>> \in [1..1 -> S] /\ all \in [1..11 -> S]
  OBVIOUS
<1>2. /\ u[1] = a /\ u[2] = b /\ u[3] = c /\ u[4] = d /\ u[5] = e
      /\ fg[1] = f /\ fg[2] = g /\ jk[1] = j /\ jk[2] = k
      /\ all[1] = a /\ all[2] = b /\ all[3] = c /\ all[4] = d /\ all[5] = e
      /\ all[6] = f /\ all[7] = g /\ all[8] = h /\ all[9] = j /\ all[10] = k /\ all[11] = l
  OBVIOUS
<1> HIDE DEF S, u, fg, jk, all
<1>3. /\ Joined(S, 5, 2, 7) /\ Joined(S, 7, 1, 8) /\ Joined(S, 8, 2, 10)
      /\ Joined(S, 10, 1, 11) /\ ByDigits(S, 11)
  <2>1. /\ 7 = 5 + 2 /\ 8 = 7 + 1 /\ 10 = 8 + 2 /\ 11 = 10 + 1
        /\ 1 \in Nat /\ 2 \in Nat /\ 5 \in Nat /\ 7 \in Nat /\ 8 \in Nat /\ 10 \in Nat
        /\ 11 \in Nat
    OBVIOUS
  <2> QED
    BY <2>1, Join, SameDigits
<1>4. /\ v \in [1..7 -> S]
      /\ \A i \in 1..5 : v[i] = u[i]
      /\ \A i \in 1..2 : v[5 + i] = fg[i]
  BY <1>1, <1>3 DEF Joined
<1> HIDE DEF v
<1>5. /\ w \in [1..8 -> S]
      /\ \A i \in 1..7 : w[i] = v[i]
      /\ \A i \in 1..1 : w[7 + i] = <<h>>[i]
  BY <1>1, <1>3, <1>4 DEF Joined
<1> HIDE DEF w
<1>6. /\ x \in [1..10 -> S]
      /\ \A i \in 1..8 : x[i] = w[i]
      /\ \A i \in 1..2 : x[8 + i] = jk[i]
  BY <1>1, <1>3, <1>5 DEF Joined
<1> HIDE DEF x
<1>7. /\ y \in [1..11 -> S]
      /\ \A i \in 1..10 : y[i] = x[i]
      /\ \A i \in 1..1 : y[10 + i] = <<l>>[i]
  BY <1>1, <1>3, <1>6 DEF Joined
<1> HIDE DEF y
<1>8. /\ v[1] = a /\ v[2] = b /\ v[3] = c /\ v[4] = d /\ v[5] = e
      /\ v[5 + 1] = f /\ v[5 + 2] = g
  BY <1>2, <1>4
<1>9. /\ w[1] = v[1] /\ w[2] = v[2] /\ w[3] = v[3] /\ w[4] = v[4] /\ w[5] = v[5]
      /\ w[6] = v[6] /\ w[7] = v[7] /\ w[7 + 1] = h
  BY <1>5
<1>10. /\ x[1] = w[1] /\ x[2] = w[2] /\ x[3] = w[3] /\ x[4] = w[4] /\ x[5] = w[5]
       /\ x[6] = w[6] /\ x[7] = w[7] /\ x[8] = w[8] /\ x[8 + 1] = j /\ x[8 + 2] = k
  BY <1>2, <1>6
<1>11. /\ y[1] = x[1] /\ y[2] = x[2] /\ y[3] = x[3] /\ y[4] = x[4] /\ y[5] = x[5]
       /\ y[6] = x[6] /\ y[7] = x[7] /\ y[8] = x[8] /\ y[9] = x[9] /\ y[10] = x[10]
       /\ y[10 + 1] = l
  BY <1>7
<1>12. /\ y[1] = a /\ y[2] = b /\ y[3] = c /\ y[4] = d /\ y[5] = e /\ y[6] = f
       /\ y[7] = g /\ y[8] = h /\ y[9] = j /\ y[10] = k /\ y[11] = l
  BY <1>8, <1>9, <1>10, <1>11
<1>13. \A i \in 1..11 : y[i] = all[i]
  BY <1>2, <1>12
<1>14. y = all
  BY <1>1, <1>3, <1>7, <1>13 DEF ByDigits
<1>15. <<a, b>> \o <<c, d>> \o <<e>> = u
  BY FiveWords DEF u
<1> QED
  BY <1>14, <1>15 DEF AreWords, fg, jk, all, v, w, x, y

\* The words the contract takes for the fields of an epoch.
LEMMA EpochWords ==
  ASSUME NEW o, NEW r, NEW s, NEW c, NEW e,
         r = Uint256(o.beacon_header_root), s = Uint256(o.beacon_state_root),
         c = Uint256(o.committee_hash), e = Uint256(o.execution_header_hash)
  PROVE  EpochCalldata(o)
           = <<r.low, r.high, s.low, s.high, o.slot, c.low, c.high, o.n_signers,
               e.low, e.high, o.execution_header_height>>
<1>1. /\ Words(o.beacon_header_root) = <<r.low, r.high>>
      /\ Words(o.beacon_state_root) = <<s.low, s.high>>
      /\ Words(o.committee_hash) = <<c.low, c.high>>
      /\ Words(o.execution_header_hash) = <<e.low, e.high>>
  BY DEF Words, Uint256
<1>2. EpochCalldata(o)
        = <<r.low, r.high>> \o <<s.low, s.high>> \o <<o.slot>> \o <<c.low, c.high>>
            \o <<o.n_signers>> \o <<e.low, e.high>> \o <<o.execution_header_height>>
  BY <1>1 DEF EpochCalldata
<1>3. AreWords(EpochCalldata(o), r.low, r.high, s.low, s.high, o.slot, c.low, c.high,
               o.n_signers, e.low, e.high, o.execution_header_height)
  BY ElevenWords
<1> QED
  BY <1>2, <1>3 DEF AreWords

\* The words of an epoch are eleven, of whatever set.
LEMMA CalldataTyped ==
  ASSUME NEW o
  PROVE  \E S : EpochCalldata(o) \in [1..11 -> S]
<1> DEFINE r == Uint256(o.beacon_header_root)
           s == Uint256(o.beacon_state_root)
           c == Uint256(o.committee_hash)
           e == Uint256(o.execution_header_hash)
           S == {r.low, r.high, s.low, s.high, o.slot, c.low, c.high, o.n_signers,
                 e.low, e.high, o.execution_header_height}
<1>1. EpochCalldata(o)
        = <<r.low, r.high, s.low, s.high, o.slot, c.low, c.high, o.n_signers,
            e.low, e.high, o.execution_header_height>>
  BY EpochWords
<1>2. EpochCalldata(o) \in [1..11 -> S]
  BY <1>1
<1> HIDE DEF S
<1> QED
  BY <1>2

\* The arguments the contract decodes are the outputs, and it hashes the words
\* that were submitted.
LEMMA EpochArguments ==
  ASSUME NEW o, NEW a, a = EpochArgs(EpochCalldata(o))
  PROVE  /\ a.header_root = Uint256(o.beacon_header_root)
         /\ a.beacon_state_root = Uint256(o.beacon_state_root)
         /\ a.slot = o.slot
         /\ a.committee_hash = Uint256(o.committee_hash)
         /\ a.n_signers = o.n_signers
         /\ a.execution_hash = Uint256(o.execution_header_hash)
         /\ a.execution_height = o.execution_header_height
         /\ EpochFelts(a) = EpochCalldata(o)
<1> DEFINE r == Uint256(o.beacon_header_root)
           s == Uint256(o.beacon_state_root)
           c == Uint256(o.committee_hash)
           e == Uint256(o.execution_header_hash)
           cd == EpochCalldata(o)
<1>1. cd = <<r.low, r.high, s.low, s.high, o.slot, c.low, c.high, o.n_signers,
             e.low, e.high, o.execution_header_height>>
  BY EpochWords
<1>2. /\ r = [low |-> r.low, high |-> r.high] /\ s = [low |-> s.low, high |-> s.high]
      /\ c = [low |-> c.low, high |-> c.high] /\ e = [low |-> e.low, high |-> e.high]
  BY DEF Uint256
<1> HIDE DEF r, s, c, e, cd
<1>3. /\ cd[1] = r.low /\ cd[2] = r.high /\ cd[3] = s.low /\ cd[4] = s.high
      /\ cd[5] = o.slot /\ cd[6] = c.low /\ cd[7] = c.high /\ cd[8] = o.n_signers
      /\ cd[9] = e.low /\ cd[10] = e.high /\ cd[11] = o.execution_header_height
  BY <1>1
<1>4. a = EpochArgs(cd)
  BY DEF cd
<1>5. /\ a.header_root = r /\ a.beacon_state_root = s /\ a.slot = o.slot
      /\ a.committee_hash = c /\ a.n_signers = o.n_signers
      /\ a.execution_hash = e /\ a.execution_height = o.execution_header_height
  BY <1>2, <1>3, <1>4 DEF EpochArgs, U256
<1>6. EpochFelts(a) = cd
  BY <1>5, SameWords DEF EpochFelts, EpochCalldata, r, s, c, e, cd
<1> QED
  BY <1>5, <1>6 DEF r, s, c, e, cd

\* A batch's calldata is the root before the words of its last epoch.
LEMMA BatchTail ==
  ASSUME NEW o
  PROVE  /\ BatchCalldata(o)[1] = o.batch_root
         /\ Tail(BatchCalldata(o)) = EpochCalldata(o.latest_batch_output)
<1> DEFINE c == EpochCalldata(o.latest_batch_output)
           b == <<o.batch_root>> \o c
<1>1. PICK T : c \in [1..11 -> T]
  BY CalldataTyped
<1> DEFINE S == T \cup {o.batch_root}
           r == <<o.batch_root>>
<1>2. c \in [1..11 -> S] /\ r \in [1..1 -> S] /\ r[1] = o.batch_root
  BY <1>1
<1> HIDE DEF c, S, r
<1>3. c \in Seq(S) /\ Len(c) = 11
  <2>1. c \in Seq(S)
    BY <1>2, IsSeqOf, 11 \in Nat
  <2>2. Len(c) = 11
    BY <1>2
  <2> QED
    BY <2>1, <2>2
<1>4. /\ b \in [1..12 -> S] /\ b[1] = r[1]
      /\ \A i \in 1..11 : b[1 + i] = c[i]
  <2>1. 12 = 1 + 11 /\ 1 \in Nat /\ 11 \in Nat
    OBVIOUS
  <2>2. Joined(S, 1, 11, 12)
    BY <2>1, Join
  <2>3. /\ r \o c \in [1..12 -> S]
        /\ \A i \in 1..1 : (r \o c)[i] = r[i]
        /\ \A i \in 1..11 : (r \o c)[1 + i] = c[i]
    BY <1>2, <2>2 DEF Joined
  <2>4. b = r \o c
    BY DEF r
  <2>5. (r \o c)[1] = r[1]
    BY <2>3
  <2> HIDE DEF b
  <2> QED
    BY <2>3, <2>4, <2>5, Zenon
<1> HIDE DEF b
<1>5. b \in Seq(S) /\ Len(b) = 12
  <2>1. b \in Seq(S)
    BY <1>4, IsSeqOf, 12 \in Nat
  <2>2. Len(b) = 12
    BY <1>4
  <2> QED
    BY <2>1, <2>2
<1>6. Tail(b) = c
  <2>1. b # <<>>
    BY <1>5
  <2>2. /\ Tail(b) \in Seq(S) /\ Len(Tail(b)) = Len(b) - 1
        /\ \A i \in 1..Len(Tail(b)) : Tail(b)[i] = b[i + 1]
    BY <1>5, <2>1, HeadTailProperties
  <2>3. Len(Tail(b)) = 11
    BY <1>5, <2>2
  <2>4. ASSUME NEW i \in 1..11 PROVE Tail(b)[i] = c[i]
    <3>1. b[1 + i] = c[i] /\ 1 + i = i + 1
      BY <1>4
    <3> QED
      BY <2>2, <2>3, <3>1
  <2> QED
    BY <1>3, <2>2, <2>3, <2>4, SeqEqual
<1>7. BatchCalldata(o) = b
  BY DEF BatchCalldata, b, c
<1> QED
  BY <1>2, <1>4, <1>6, <1>7 DEF c

\* Words 6 and 7 of an epoch's output are its committee.
LEMMA CommitteeWords ==
  ASSUME NEW o
  PROVE  SubSeq(EpochCalldata(o), 6, 7) = Felts(Uint256(o.committee_hash))
<1> DEFINE cd == EpochCalldata(o)
           c == Uint256(o.committee_hash)
           p == SubSeq(cd, 6, 7)
<1>1. PICK S : cd \in [1..11 -> S]
  BY CalldataTyped
<1>2. cd[6] = c.low /\ cd[7] = c.high
  <2> DEFINE r == Uint256(o.beacon_header_root)
             s == Uint256(o.beacon_state_root)
             e == Uint256(o.execution_header_hash)
  <2>1. cd = <<r.low, r.high, s.low, s.high, o.slot, c.low, c.high, o.n_signers,
               e.low, e.high, o.execution_header_height>>
    BY EpochWords
  <2> HIDE DEF cd, c, r, s, e
  <2> QED
    BY <2>1
<1> HIDE DEF cd, c
<1>3. p \in [1..2 -> S] /\ \A i \in 1..2 : p[i] = cd[6 + i - 1]
  <2>1. Parts(S, 11, 6, 7, 2)
    BY Cut, 11 \in Nat /\ 6 \in 1..11 /\ 7 \in 6..11 /\ 2 = 7 - 6 + 1
  <2> QED
    BY <1>1, <2>1 DEF Parts
<1> HIDE DEF p
<1>4. p[1] = c.low /\ p[2] = c.high
  BY <1>2, <1>3
<1>5. p = <<c.low, c.high>>
  BY <1>3, <1>4
<1> QED
  BY <1>5 DEF Felts, p, c, cd

---------------------------------------------------------------------------
(* The batch. *)

\* What the client expects of an epoch.
LEMMA EpochExpected ==
  ASSUME PrimitivesTyped, WorldInv, NEW i \in 1..3, NEW o, o = EpochFile(i).expected
  PROVE  /\ o.beacon_header_root = TreeHashRoot(world.headers[i])
         /\ o.beacon_state_root = world.headers[i].state_root
         /\ o.slot = HeaderSlots[i]
         /\ o.committee_hash = GetCommitteeHash(Signer(world.keys, i))
         /\ o.n_signers = Seats - world.absent
         /\ o.execution_header_hash = world.payload.block_hash
         /\ o.execution_header_height = world.payload.block_number
<1>1. o = EpochOutputs(world.headers[i], Signer(world.keys, i), world.absent, world.payload)
  BY DEF EpochFile
<1>2. world.headers[i].slot = HeaderSlots[i]
  BY Headers
<1> QED
  BY <1>1, <1>2 DEF EpochOutputs

\* A batch file is accepted, proves its root and the words of its last epoch,
\* and its two epochs are read back.
LEMMA BatchRun ==
  ASSUME PrimitivesTyped, WorldInv
  PROVE  /\ RunEpochBatch(BatchFile).accepted
         /\ RunEpochBatch(BatchFile).output = BatchCalldata(BatchFile.expected)
         /\ \A i \in 1..2 : PointsAreRead(BatchFile.circuit_inputs.epochs[i])
<1> DEFINE f  == BatchFile
           in == f.circuit_inputs
           e1 == EpochFile(1)
           e2 == EpochFile(2)
           r1 == RunEpochUpdate(in.epochs[1])
           r2 == RunEpochUpdate(in.epochs[2])
           runs == <<r1, r2>>
           root == Poseidon(<<Poseidon(runs[1].output), Poseidon(runs[2].output)>>)
<1>1. /\ in.epochs[1] = e1 /\ in.epochs[2] = e2
      /\ in.committee_hash = e1.expected.committee_hash
      /\ f.expected.batch_root
           = Poseidon(<<LeafHash(e1.expected), LeafHash(e2.expected)>>)
      /\ f.expected.latest_batch_output = e2.expected
  <2> HIDE DEF e1, e2
  <2> QED
    BY DEF BatchFile, e1, e2
<1>2. 1 \in 1..3 /\ 2 \in 1..3 /\ 1 \in 1..2 /\ 2 \in 1..2
  OBVIOUS
<1>3. /\ RunEpochUpdate(e1).accepted /\ RunEpochUpdate(e2).accepted
      /\ RunEpochUpdate(e1).output = EpochCalldata(e1.expected)
      /\ RunEpochUpdate(e2).output = EpochCalldata(e2.expected)
      /\ PointsAreRead(e1) /\ PointsAreRead(e2)
  BY <1>2, EpochRun
<1>4. /\ e1.expected.slot = HeaderSlots[1] /\ e2.expected.slot = HeaderSlots[2]
      /\ e1.expected.committee_hash = GetCommitteeHash(world.keys[1])
      /\ e2.expected.committee_hash = GetCommitteeHash(world.keys[1])
  BY <1>2, EpochExpected, Committees
<1>5. /\ EpochCalldata(e1.expected)[5] = HeaderSlots[1]
      /\ EpochCalldata(e2.expected)[5] = HeaderSlots[2]
  <2>1. \A o : EpochCalldata(o)[5] = o.slot
    BY EpochArguments DEF EpochArgs
  <2> QED
    BY <1>4, <2>1
<1>6. 0 < HeaderSlots[1] /\ HeaderSlots[1] < HeaderSlots[2]
  BY <1>2, SlotsAssumption
<1> HIDE DEF f, in, e1, e2
<1>7. /\ r1.accepted /\ r2.accepted
      /\ r1.output = EpochCalldata(e1.expected) /\ r2.output = EpochCalldata(e2.expected)
  BY <1>1, <1>3
<1>8. RunEpochBatch(f).output = <<root>> \o runs[2].output
  BY DEF RunEpochBatch, in
<1>9. RunEpochBatch(f).accepted <=>
        /\ \A i \in 1..2 :
             /\ runs[i].accepted
             /\ SubSeq(runs[i].output, 6, 7) = Felts(Uint256(in.committee_hash))
        /\ 0 < runs[1].output[5] /\ runs[1].output[5] < runs[2].output[5]
        /\ Uint256(in.committee_hash)
             = Uint256(f.expected.latest_batch_output.committee_hash)
        /\ root = f.expected.batch_root
  BY DEF RunEpochBatch, in
<1>10. runs[1] = r1 /\ runs[2] = r2
  BY Zenon
<1> HIDE DEF r1, r2, runs
<1>11. root = f.expected.batch_root
  BY <1>1, <1>7, <1>10 DEF LeafHash
<1> HIDE DEF root
<1>12. RunEpochBatch(f).accepted
  <2>1. /\ SubSeq(runs[1].output, 6, 7) = Felts(Uint256(in.committee_hash))
        /\ SubSeq(runs[2].output, 6, 7) = Felts(Uint256(in.committee_hash))
    BY <1>1, <1>4, <1>7, <1>10, CommitteeWords
  <2>2. runs[1].accepted /\ runs[2].accepted
    BY <1>7, <1>10
  <2>3. \A i \in 1..2 :
          /\ runs[i].accepted
          /\ SubSeq(runs[i].output, 6, 7) = Felts(Uint256(in.committee_hash))
    <3>1. \A i \in 1..2 : i = 1 \/ i = 2
      OBVIOUS
    <3> QED
      BY <2>1, <2>2, <3>1, Zenon
  <2>4. 0 < runs[1].output[5] /\ runs[1].output[5] < runs[2].output[5]
    BY <1>5, <1>6, <1>7, <1>10
  <2>5. in.committee_hash = f.expected.latest_batch_output.committee_hash
    BY <1>1, <1>4
  <2> QED
    BY <1>9, <1>11, <2>3, <2>4, <2>5, Zenon
<1>13. RunEpochBatch(f).output = BatchCalldata(f.expected)
  BY <1>1, <1>7, <1>8, <1>10, <1>11 DEF BatchCalldata
<1>14. \A i \in 1..2 : PointsAreRead(in.epochs[i])
  <2>1. \A i \in 1..2 : i = 1 \/ i = 2
    OBVIOUS
  <2> QED
    BY <1>1, <1>3, <2>1, Zenon
<1> QED
  BY <1>12, <1>13, <1>14 DEF f, in

---------------------------------------------------------------------------
(* The invariant: an update under way keeps what it rests on, its file is    *)
(* the one the world gives, and the contract holds what the world serves.    *)

BatchRoot == BatchFile.expected.batch_root

Proofs ==
  [header_root : Uint256s, beacon_state_root : Uint256s, n_signers : Int,
   execution_hash : Uint256s, execution_height : Nat]

Programs ==
  [committee |-> "committee_update", epoch |-> "epoch_update", batch |-> "epoch_batch"]

StorageInv ==
  storage \in [committee : [0..1 -> Uint256s],
               epochs    : [Range(HeaderSlots) -> Proofs],
               batches   : SUBSET {BatchRoot},
               programs  : {Programs}]

\* What is submitted of a file, word by word.
Calldata(u, f) ==
  IF u.kind = "epoch" THEN EpochCalldata(f.expected)
  ELSE IF u.kind = "batch" THEN BatchCalldata(f.expected)
  ELSE CommitteeCalldata(f.expected)

FlowInv ==
  /\ pc \in {"idle", "exported", "traced", "proved"}
  /\ pc = "idle" => update = NoUpdate
  /\ pc # "idle" => update \in Updates /\ Ready(update) /\ file = File(update)
  /\ pc \in {"traced", "proved"} => output = Calldata(update, file)
  /\ pc = "proved" => IsFact(Program(update.kind), output)

IInv == WorldInv /\ StorageInv /\ StoredIsServed /\ FlowInv

\* The words the constructor is given.
LEMMA InitWords ==
  ASSUME NEW k, NEW cd, cd = InitCalldata(k)
  PROVE  /\ cd[1] = 0 /\ cd[2] = Uint256(GetCommitteeHash(k)).low
         /\ cd[3] = Uint256(GetCommitteeHash(k)).high
         /\ cd[4] = "committee_update" /\ cd[5] = "epoch_update" /\ cd[6] = "epoch_batch"
<1> DEFINE h == Uint256(GetCommitteeHash(k))
           S == {0, h.low, h.high, "committee_update", "epoch_update", "epoch_batch"}
           a == <<0>>
           b == <<h.low, h.high>>
           c == <<"committee_update", "epoch_update", "epoch_batch">>
           x == a \o b
           y == x \o c
<1>1. cd = y
  <2>1. Words(GetCommitteeHash(k)) = b
    BY DEF Words, Uint256
  <2> QED
    BY <2>1 DEF InitCalldata
<1>2. /\ a \in [1..1 -> S] /\ b \in [1..2 -> S] /\ c \in [1..3 -> S]
      /\ a[1] = 0 /\ b[1] = h.low /\ b[2] = h.high
      /\ c[1] = "committee_update" /\ c[2] = "epoch_update" /\ c[3] = "epoch_batch"
  <2> HIDE DEF h
  <2> QED
    OBVIOUS
<1> HIDE DEF S, a, b, c, h
<1>3. Joined(S, 1, 2, 3) /\ Joined(S, 3, 3, 6)
  <2>1. 3 = 1 + 2 /\ 6 = 3 + 3 /\ 1 \in Nat /\ 2 \in Nat /\ 3 \in Nat
    OBVIOUS
  <2> QED
    BY <2>1, Join
<1>4. /\ x \in [1..3 -> S]
      /\ \A i \in 1..1 : x[i] = a[i]
      /\ \A i \in 1..2 : x[1 + i] = b[i]
  BY <1>2, <1>3 DEF Joined
<1> HIDE DEF x
<1>5. /\ y \in [1..6 -> S]
      /\ \A i \in 1..3 : y[i] = x[i]
      /\ \A i \in 1..3 : y[3 + i] = c[i]
  BY <1>2, <1>3, <1>4 DEF Joined
<1> HIDE DEF y
<1>6. x[1] = 0 /\ x[1 + 1] = h.low /\ x[1 + 2] = h.high
  BY <1>2, <1>4
<1>7. /\ y[1] = x[1] /\ y[2] = x[2] /\ y[3] = x[3]
      /\ y[3 + 1] = "committee_update" /\ y[3 + 2] = "epoch_update"
      /\ y[3 + 3] = "epoch_batch"
  BY <1>2, <1>5
<1> QED
  BY <1>1, <1>6, <1>7 DEF h

\* What is unset in storage has the types of what is set.
LEMMA ZeroTyped == ZeroHash \in Uint256s /\ ZeroProof \in Proofs
<1>1. ZeroHash \in Uint256s
  BY ChunkFacts DEF ZeroHash, Uint256s
<1> QED
  BY <1>1 DEF ZeroProof, Proofs

\* A contract that was just deployed, with nothing under way.
LEMMA InitIInv ==
  ASSUME PrimitivesTyped, Init
  PROVE  IInv
<1>1. WorldInv
  BY DEF Init, WorldInv
<1> DEFINE cd == InitCalldata(world.keys[1])
           h  == Uint256(GetCommitteeHash(world.keys[1]))
<1>2. storage = Constructor(cd)
  BY DEF Init
<1>3. /\ cd[1] = 0 /\ cd[2] = h.low /\ cd[3] = h.high
      /\ cd[4] = "committee_update" /\ cd[5] = "epoch_update" /\ cd[6] = "epoch_batch"
  BY InitWords
<1>4. h \in Uint256s /\ U256(h.low, h.high) = h
  <2>1. GetCommitteeHash(world.keys[1]) \in Digest
    BY <1>1, Committees, KeyPoint, 1 \in 1..3
  <2> QED
    BY <2>1, HalfRange DEF Uint256, U256
<1> HIDE DEF cd, h
<1>5. storage = [committee |-> [p \in 0..1 |-> IF p = 0 THEN h ELSE ZeroHash],
                 epochs    |-> [s \in Range(HeaderSlots) |-> ZeroProof],
                 batches   |-> {},
                 programs  |-> Programs]
  BY <1>2, <1>3, <1>4 DEF Constructor, Programs
<1>6. StorageInv
  <2>1. [p \in 0..1 |-> IF p = 0 THEN h ELSE ZeroHash] \in [0..1 -> Uint256s]
    BY <1>4, ZeroTyped
  <2>2. [s \in Range(HeaderSlots) |-> ZeroProof] \in [Range(HeaderSlots) -> Proofs]
    BY ZeroTyped
  <2> QED
    BY <1>5, <2>1, <2>2 DEF StorageInv
<1>7. StoredIsServed
  <2>1. \A i \in 1..3 : storage.epochs[HeaderSlots[i]] = ZeroProof
    <3>1. \A i \in 1..3 : HeaderSlots[i] \in Range(HeaderSlots)
      BY SlotsAssumption DEF Range
    <3> QED
      BY <1>5, <3>1
  <2>2. \A p \in 0..1 : storage.committee[p]
                          \in {ZeroHash, Uint256(GetCommitteeHash(world.keys[p + 1]))}
    <3>1. storage.committee[0] = Uint256(GetCommitteeHash(world.keys[1]))
          /\ storage.committee[1] = ZeroHash
      BY <1>5 DEF h
    <3>2. \A p \in 0..1 : p = 0 \/ p = 1
      OBVIOUS
    <3> QED
      BY <3>1, <3>2
  <2> QED
    BY <2>1, <2>2 DEF StoredIsServed
<1>8. FlowInv
  BY DEF Init, FlowInv
<1> QED
  BY <1>1, <1>6, <1>7, <1>8 DEF IInv

\* A step that leaves the world and the storage alone.
LEMMA WorldSame ==
  ASSUME world' = world
  PROVE  (WorldInv => WorldInv') /\ BatchRoot' = BatchRoot
<1>1. WorldInv => WorldInv'
  BY DEF WorldInv
<1>2. BatchFile' = BatchFile
  BY DEF BatchFile, EpochFile
<1> QED
  BY <1>1, <1>2 DEF BatchRoot

\* A step that leaves the storage alone too.
LEMMA StorageSame ==
  ASSUME WorldInv, StorageInv, StoredIsServed, UNCHANGED <<world, storage>>
  PROVE  WorldInv' /\ StorageInv' /\ StoredIsServed'
<1>1. WorldInv' /\ BatchRoot' = BatchRoot
  BY WorldSame
<1>2. StorageInv'
  BY <1>1 DEF StorageInv
<1>3. StoredIsServed'
  BY DEF StoredIsServed
<1> QED
  BY <1>1, <1>2, <1>3

\* The file of the update that is under way after a step.
LEMMA FileSame ==
  ASSUME UNCHANGED world, NEW u \in Updates, update' = u
  PROVE  File(update)' = File(u)
<1>1. u.kind = "epoch" \/ u.kind = "batch" \/ u.kind = "committee"
  BY DEF Updates
<1>2. CASE u.kind = "epoch"
  <2>1. File(u) = EpochFile(u.at)
    BY <1>2 DEF File
  <2>2. File(update)' = EpochFile(update.at)'
    BY <1>2 DEF File
  <2>3. EpochFile(update.at)' = EpochFile(u.at)
    BY DEF EpochFile
  <2> QED
    BY <2>1, <2>2, <2>3
<1>3. CASE u.kind = "batch"
  <2>1. File(u) = BatchFile
    BY <1>3 DEF File
  <2>2. File(update)' = BatchFile'
    BY <1>3 DEF File
  <2>3. BatchFile' = BatchFile
    BY DEF BatchFile, EpochFile
  <2> QED
    BY <2>1, <2>2, <2>3
<1>4. CASE u.kind = "committee"
  <2>1. File(u) = CommitteeFile(u.at)
    BY <1>4 DEF File
  <2>2. File(update)' = CommitteeFile(update.at)'
    BY <1>4 DEF File
  <2>3. CommitteeFile(update.at)' = CommitteeFile(u.at)
    BY DEF CommitteeFile
  <2> QED
    BY <2>1, <2>2, <2>3
<1> QED
  BY <1>1, <1>2, <1>3, <1>4

---------------------------------------------------------------------------
(* The steps. *)

\* The client writes the file of the world for an update that is ready.
LEMMA ExportStep ==
  ASSUME IInv, NEW u \in Updates, Export(u)
  PROVE  IInv'
<1>1. WorldInv' /\ StorageInv' /\ StoredIsServed'
  BY StorageSame DEF IInv, Export
<1>2. File(update)' = File(u)
  BY FileSame DEF Export
<1>3. Ready(update)'
  BY DEF Export, Ready, CommitteeOf
<1>4. pc' = "exported" /\ update' = u /\ file' = File(u)
  BY DEF Export
<1>5. FlowInv'
  BY <1>2, <1>3, <1>4 DEF FlowInv
<1> QED
  BY <1>1, <1>5 DEF IInv

\* What an update that is ready has for a file: the circuit accepts it and
\* writes the words that will be submitted.
LEMMA ReadyRun ==
  ASSUME PrimitivesTyped, WorldInv, NEW u \in Updates, Ready(u), NEW f, f = File(u)
  PROVE  /\ Run(u, f).accepted
         /\ Run(u, f).output = Calldata(u, f)
         /\ FileIsRead(u, f)
<1>1. \/ u.kind = "epoch" /\ u.at \in 1..3
      \/ u.kind = "batch"
      \/ u.kind = "committee" /\ u.at \in 1..2
  BY DEF Updates, Ready
<1>2. CASE u.kind = "epoch" /\ u.at \in 1..3
  <2>1. f = EpochFile(u.at) /\ Run(u, f) = RunEpochUpdate(f)
    BY <1>2 DEF File, Run
  <2>2. Calldata(u, f) = EpochCalldata(f.expected)
    BY <1>2 DEF Calldata
  <2>3. FileIsRead(u, f) <=> PointsAreRead(f)
    BY <1>2 DEF FileIsRead
  <2>4. /\ RunEpochUpdate(f).accepted /\ PointsAreRead(f)
        /\ RunEpochUpdate(f).output = EpochCalldata(f.expected)
    BY <1>2, <2>1, EpochRun
  <2> QED
    BY <2>1, <2>2, <2>3, <2>4
<1>3. CASE u.kind = "batch"
  <2>1. f = BatchFile /\ Run(u, f) = RunEpochBatch(f)
    BY <1>3 DEF File, Run
  <2>2. Calldata(u, f) = BatchCalldata(f.expected)
    BY <1>3 DEF Calldata
  <2>3. FileIsRead(u, f) <=> \A i \in 1..2 : PointsAreRead(f.circuit_inputs.epochs[i])
    BY <1>3 DEF FileIsRead
  <2>4. /\ RunEpochBatch(f).accepted
        /\ RunEpochBatch(f).output = BatchCalldata(f.expected)
        /\ \A i \in 1..2 : PointsAreRead(f.circuit_inputs.epochs[i])
    BY <2>1, BatchRun
  <2> QED
    BY <2>1, <2>2, <2>3, <2>4
<1>4. CASE u.kind = "committee" /\ u.at \in 1..2
  <2>1. f = CommitteeFile(u.at) /\ Run(u, f) = RunCommitteeUpdate(f)
    BY <1>4 DEF File, Run
  <2>2. Calldata(u, f) = CommitteeCalldata(f.expected)
    BY <1>4 DEF Calldata
  <2>3. FileIsRead(u, f)
    BY <1>4 DEF FileIsRead
  <2>4. /\ RunCommitteeUpdate(f).accepted
        /\ RunCommitteeUpdate(f).output = CommitteeCalldata(f.expected)
    BY <1>4, <2>1, CommitteeRun
  <2> QED
    BY <2>1, <2>2, <2>3, <2>4
<1> QED
  BY <1>1, <1>2, <1>3, <1>4

\* The circuit accepts that file and writes its calldata.
LEMMA RunStep ==
  ASSUME PrimitivesTyped, IInv, RunCircuit
  PROVE  IInv'
<1>1. WorldInv' /\ StorageInv' /\ StoredIsServed'
  BY StorageSame DEF IInv, RunCircuit
<1>2. update \in Updates /\ Ready(update) /\ file = File(update)
  BY DEF IInv, FlowInv, RunCircuit
<1>3. Run(update, file).accepted /\ Run(update, file).output = Calldata(update, file)
  BY <1>2, ReadyRun DEF IInv
<1>4. /\ pc' = "traced" /\ output' = Calldata(update, file)
      /\ UNCHANGED <<world, storage, update, file>>
  BY <1>3 DEF RunCircuit
<1>5. File(update)' = File(update)
  BY <1>2, <1>4, FileSame
<1>6. Ready(update)'
  BY <1>2, <1>4 DEF Ready, CommitteeOf
<1>7. output' = Calldata(update, file)'
  BY <1>4 DEF Calldata
<1>8. FlowInv'
  BY <1>2, <1>4, <1>5, <1>6, <1>7 DEF FlowInv
<1> QED
  BY <1>1, <1>8 DEF IInv

\* The proof registers what the circuit wrote.
LEMMA ProofStep ==
  ASSUME IInv, ProofVerified
  PROVE  IInv'
<1>1. WorldInv' /\ StorageInv' /\ StoredIsServed'
  BY StorageSame DEF IInv, ProofVerified
<1>2. update \in Updates /\ Ready(update) /\ file = File(update)
      /\ output = Calldata(update, file)
  BY DEF IInv, FlowInv, ProofVerified
<1>3. /\ pc' = "proved" /\ UNCHANGED <<world, storage, update, file, output>>
      /\ facts' = facts \cup {[program |-> Program(update.kind), output |-> output]}
  BY DEF ProofVerified
<1>4. File(update)' = File(update)
  BY <1>2, <1>3, FileSame
<1>5. Ready(update)'
  BY <1>2, <1>3 DEF Ready, CommitteeOf
<1>6. output' = Calldata(update, file)'
  BY <1>2, <1>3 DEF Calldata
<1>7. IsFact(Program(update.kind), output)'
  <2>1. update.kind = "epoch" \/ update.kind = "batch" \/ update.kind = "committee"
    BY <1>2 DEF Updates
  <2>2. Program(update.kind)' = Program(update.kind)
    BY <1>3, <2>1 DEF Program
  <2>3. IsFact(Program(update.kind), output)'
          <=> [program |-> Program(update.kind)', output |-> output'] \in facts'
    BY DEF IsFact
  <2> QED
    BY <1>3, <2>2, <2>3
<1>8. FlowInv'
  BY <1>2, <1>3, <1>4, <1>5, <1>6, <1>7 DEF FlowInv
<1> QED
  BY <1>1, <1>8 DEF IInv

\* What the contract stores of a header.
StoredProof(i) ==
  [header_root |-> Uint256(TreeHashRoot(world.headers[i])),
   beacon_state_root |-> Uint256(world.headers[i].state_root),
   n_signers |-> Seats - world.absent,
   execution_hash |-> Uint256(world.payload.block_hash),
   execution_height |-> world.payload.block_number]

\* The types of what is stored of a header.
LEMMA StoredTyped ==
  ASSUME PrimitivesTyped, WorldInv, NEW i \in 1..3
  PROVE  StoredProof(i) \in Proofs
<1> DEFINE h == world.headers[i]
<1>1. /\ h.slot \in 0..(Pow64 - 1) /\ h.proposer_index \in 0..(Pow64 - 1)
      /\ h.parent_root \in Digest /\ h.state_root \in Digest /\ h.body_root \in Digest
      /\ world.payload \in Payload /\ world.absent \in 0..Seats
  <2>1. world.headers[i].slot \in 1..(Pow64 - 1) => world.headers[i].slot \in 0..(Pow64 - 1)
    BY ChunkFacts
  <2> QED
    BY <2>1, Headers
<1>2. TreeHashRoot(h) \in Digest
  BY <1>1, HeaderRoot
<1>3. world.payload.block_hash \in Digest /\ world.payload.block_number \in Nat
  BY <1>1 DEF Payload
<1>4. Seats - world.absent \in Int
  BY <1>1, ServedAssumption
<1>5. /\ Uint256(TreeHashRoot(h)) \in Uint256s
      /\ Uint256(h.state_root) \in Uint256s
      /\ Uint256(world.payload.block_hash) \in Uint256s
  BY <1>1, <1>2, <1>3, HalfRange
<1> QED
  BY <1>3, <1>4, <1>5 DEF StoredProof, Proofs

\* The three headers have slots of their own, the first two in period 0.
LEMMA Slots ==
  /\ \A i \in 1..3 : HeaderSlots[i] \in Nat /\ HeaderSlots[i] \in Range(HeaderSlots)
  /\ \A i, j \in 1..3 : HeaderSlots[i] = HeaderSlots[j] => i = j
  /\ \A i \in 1..3 : HeaderSlots[i] \div SlotsPerPeriod = IF i = 3 THEN 1 ELSE 0
<1>1. \A i \in 1..3 : HeaderSlots[i] \in Nat /\ HeaderSlots[i] \in Range(HeaderSlots)
  <2>1. DOMAIN HeaderSlots = 1..3
    BY SlotsAssumption
  <2>2. \A i \in 1..3 : HeaderSlots[i] \in 1..(Pow64 - 1)
    BY SlotsAssumption
  <2>3. \A n \in 1..(Pow64 - 1) : n \in Nat
    OBVIOUS
  <2> QED
    BY <2>1, <2>2, <2>3 DEF Range
<1>2. \A i \in 1..3 : i = 1 \/ i = 2 \/ i = 3
  OBVIOUS
<1>3. /\ HeaderSlots[1] \div SlotsPerPeriod = 0
      /\ HeaderSlots[2] \div SlotsPerPeriod = 0
      /\ HeaderSlots[3] \div SlotsPerPeriod = 1
  BY SlotsAssumption
<1>4. HeaderSlots[1] # HeaderSlots[2]
  BY <1>1, SlotsAssumption
<1>5. HeaderSlots[1] # HeaderSlots[3] /\ HeaderSlots[2] # HeaderSlots[3]
  BY <1>3
<1>6. \A i, j \in 1..3 : HeaderSlots[i] = HeaderSlots[j] => i = j
  BY <1>2, <1>4, <1>5
<1>7. \A i \in 1..3 : HeaderSlots[i] \div SlotsPerPeriod = IF i = 3 THEN 1 ELSE 0
  BY <1>2, <1>3
<1> QED
  BY <1>1, <1>6, <1>7

\* Storing what is served of a header keeps what is stored.
LEMMA StoreEpoch ==
  ASSUME PrimitivesTyped, WorldInv, StorageInv, StoredIsServed, world' = world,
         NEW i \in 1..3, NEW b \in SUBSET {BatchRoot},
         storage' = [storage EXCEPT !.epochs[HeaderSlots[i]] = StoredProof(i),
                                    !.batches = b]
  PROVE  WorldInv' /\ StorageInv' /\ StoredIsServed'
<1>1. WorldInv' /\ BatchRoot' = BatchRoot
  BY WorldSame
<1>2. /\ storage'.committee = storage.committee
      /\ storage'.epochs = [storage.epochs EXCEPT ![HeaderSlots[i]] = StoredProof(i)]
      /\ storage'.batches = b
      /\ storage'.programs = storage.programs
      /\ storage' = [committee |-> storage'.committee, epochs |-> storage'.epochs,
                     batches |-> storage'.batches, programs |-> storage'.programs]
  BY DEF StorageInv
<1>3. /\ storage.committee \in [0..1 -> Uint256s]
      /\ storage.epochs \in [Range(HeaderSlots) -> Proofs]
      /\ storage.programs = Programs
  BY DEF StorageInv
<1>4. StoredProof(i) \in Proofs
  BY StoredTyped
<1>5. storage'.epochs \in [Range(HeaderSlots) -> Proofs]
  BY <1>2, <1>3, <1>4
<1>6. StorageInv'
  BY <1>1, <1>2, <1>3, <1>5 DEF StorageInv
<1>7. \A j \in 1..3 : storage'.epochs[HeaderSlots[j]] \in {ZeroProof, StoredProof(j)}
  <2> SUFFICES ASSUME NEW j \in 1..3
               PROVE  storage'.epochs[HeaderSlots[j]] \in {ZeroProof, StoredProof(j)}
    OBVIOUS
  <2>1. storage.epochs[HeaderSlots[j]] \in {ZeroProof, StoredProof(j)}
    BY DEF StoredIsServed, StoredProof
  <2>2. CASE j = i
    BY <1>2, <1>3, <2>2, Slots
  <2>3. CASE j # i
    BY <1>2, <1>3, <2>1, <2>3, Slots
  <2> QED
    BY <2>2, <2>3
<1>8. \A p \in 0..1 :
        storage'.committee[p]
          \in {ZeroHash, Uint256(GetCommitteeHash(world'.keys[p + 1]))}
  BY <1>2 DEF StoredIsServed
<1>9. StoredIsServed'
  BY <1>7, <1>8 DEF StoredIsServed, StoredProof
<1> QED
  BY <1>1, <1>6, <1>9

\* What the contract decodes of an epoch's words is what is served.
LEMMA EpochDecoded ==
  ASSUME PrimitivesTyped, WorldInv, NEW i \in 1..3,
         NEW o, o = EpochFile(i).expected, NEW a, a = EpochArgs(EpochCalldata(o))
  PROVE  /\ a.slot = HeaderSlots[i]
         /\ a.committee_hash = Uint256(GetCommitteeHash(Signer(world.keys, i)))
         /\ EpochProof(a) = StoredProof(i)
         /\ EpochFelts(a) = EpochCalldata(o)
<1>1. /\ o.beacon_header_root = TreeHashRoot(world.headers[i])
      /\ o.beacon_state_root = world.headers[i].state_root
      /\ o.slot = HeaderSlots[i]
      /\ o.committee_hash = GetCommitteeHash(Signer(world.keys, i))
      /\ o.n_signers = Seats - world.absent
      /\ o.execution_header_hash = world.payload.block_hash
      /\ o.execution_header_height = world.payload.block_number
  BY EpochExpected
<1>2. /\ a.header_root = Uint256(o.beacon_header_root)
      /\ a.beacon_state_root = Uint256(o.beacon_state_root)
      /\ a.slot = o.slot
      /\ a.committee_hash = Uint256(o.committee_hash)
      /\ a.n_signers = o.n_signers
      /\ a.execution_hash = Uint256(o.execution_header_hash)
      /\ a.execution_height = o.execution_header_height
      /\ EpochFelts(a) = EpochCalldata(o)
  BY EpochArguments
<1>3. EpochProof(a) = StoredProof(i)
  BY <1>1, <1>2 DEF EpochProof, StoredProof
<1> QED
  BY <1>1, <1>2, <1>3

\* The committee a header of period 0 or 1 is checked against.
LEMMA KnownCommittee ==
  ASSUME WorldInv, StoredIsServed, NEW i \in 1..3,
         CommitteeOf(HeaderSlots[i]) # ZeroHash
  PROVE  CommitteeOf(HeaderSlots[i]) = Uint256(GetCommitteeHash(Signer(world.keys, i)))
<1>1. \A p \in 0..1 : storage.committee[p]
                        \in {ZeroHash, Uint256(GetCommitteeHash(world.keys[p + 1]))}
  BY DEF StoredIsServed
<1>2. CASE i = 3
  <2>1. HeaderSlots[i] \div SlotsPerPeriod = 1 /\ Signer(world.keys, i) = world.keys[1 + 1]
    BY <1>2, Slots, Committees
  <2> QED
    BY <1>1, <2>1 DEF CommitteeOf
<1>3. CASE i = 1 \/ i = 2
  <2>1. HeaderSlots[i] \div SlotsPerPeriod = 0 /\ Signer(world.keys, i) = world.keys[0 + 1]
    BY <1>3, Slots, Committees
  <2> QED
    BY <1>1, <2>1 DEF CommitteeOf
<1> QED
  BY <1>2, <1>3

\* A proven epoch is accepted.
LEMMA EpochSubmitted ==
  ASSUME PrimitivesTyped, IInv, world' = world, NEW i \in 1..3,
         CommitteeOf(HeaderSlots[i]) # ZeroHash,
         NEW o, o = EpochFile(i).expected,
         IsFact("epoch_update", EpochCalldata(o))
  PROVE  /\ VerifyEpochUpdate(EpochCalldata(o)).passes
         /\ storage' = VerifyEpochUpdate(EpochCalldata(o)).storage
              => WorldInv' /\ StorageInv' /\ StoredIsServed'
<1> DEFINE a == EpochArgs(EpochCalldata(o))
           call == VerifyEpochUpdate(EpochCalldata(o))
<1>1. /\ a.slot = HeaderSlots[i]
      /\ a.committee_hash = Uint256(GetCommitteeHash(Signer(world.keys, i)))
      /\ EpochProof(a) = StoredProof(i)
      /\ EpochFelts(a) = EpochCalldata(o)
  BY EpochDecoded DEF IInv
<1>2. CommitteeOf(HeaderSlots[i]) = Uint256(GetCommitteeHash(Signer(world.keys, i)))
  BY KnownCommittee DEF IInv
<1>3. storage.programs.epoch = "epoch_update"
  BY DEF IInv, StorageInv, Programs
<1>4. /\ call.passes <=> /\ a.committee_hash = CommitteeOf(a.slot)
                         /\ IsFact(storage.programs.epoch, EpochFelts(a))
      /\ call.storage = [storage EXCEPT !.epochs[a.slot] = EpochProof(a)]
  BY DEF VerifyEpochUpdate
<1> HIDE DEF a, call
<1>5. call.passes
  BY <1>1, <1>2, <1>3, <1>4
<1>6. call.storage = [storage EXCEPT !.epochs[HeaderSlots[i]] = StoredProof(i)]
  BY <1>1, <1>4
<1>7. call.storage = [storage EXCEPT !.epochs[HeaderSlots[i]] = StoredProof(i),
                                     !.batches = storage.batches]
  BY <1>6 DEF IInv, StorageInv
<1>8. storage.batches \in SUBSET {BatchRoot}
  BY DEF IInv, StorageInv
<1>9. storage' = call.storage => WorldInv' /\ StorageInv' /\ StoredIsServed'
  BY <1>7, <1>8, StoreEpoch DEF IInv
<1> QED
  BY <1>5, <1>9 DEF call

\* So is a proven batch.
LEMMA BatchSubmitted ==
  ASSUME PrimitivesTyped, IInv, world' = world,
         CommitteeOf(HeaderSlots[1]) # ZeroHash,
         NEW o, o = BatchFile.expected,
         IsFact("epoch_batch", BatchCalldata(o))
  PROVE  /\ VerifyEpochBatch(BatchCalldata(o)).passes
         /\ storage' = VerifyEpochBatch(BatchCalldata(o)).storage
              => WorldInv' /\ StorageInv' /\ StoredIsServed'
<1> DEFINE cd == BatchCalldata(o)
           last == EpochFile(2).expected
           a == EpochArgs(Tail(cd))
           call == VerifyEpochBatch(cd)
<1>0. 2 \in 1..3
  OBVIOUS
<1>1. o.latest_batch_output = last /\ o.batch_root = BatchRoot
  BY DEF BatchFile, BatchRoot
<1>2. /\ cd[1] = BatchRoot /\ Tail(cd) = EpochCalldata(last)
      /\ cd = <<BatchRoot>> \o EpochCalldata(last)
  BY <1>1, BatchTail DEF BatchCalldata
<1>3. /\ a.slot = HeaderSlots[2]
      /\ a.committee_hash = Uint256(GetCommitteeHash(Signer(world.keys, 2)))
      /\ EpochProof(a) = StoredProof(2)
      /\ EpochFelts(a) = EpochCalldata(last)
  <2>1. a = EpochArgs(EpochCalldata(last))
    BY <1>2
  <2> HIDE DEF last, cd, a
  <2>2. last = EpochFile(2).expected
    BY DEF last
  <2> QED
    BY <1>0, <2>1, <2>2, EpochDecoded DEF IInv
<1>4. CommitteeOf(HeaderSlots[2]) = Uint256(GetCommitteeHash(Signer(world.keys, 2)))
  <2>1. CommitteeOf(HeaderSlots[2]) = CommitteeOf(HeaderSlots[1])
    BY Slots DEF CommitteeOf
  <2> QED
    BY <1>0, <2>1, KnownCommittee DEF IInv
<1>5. storage.programs.batch = "epoch_batch"
  BY DEF IInv, StorageInv, Programs
<1>6. /\ call.passes <=> /\ a.committee_hash = CommitteeOf(a.slot)
                         /\ IsFact(storage.programs.batch, <<cd[1]>> \o EpochFelts(a))
      /\ call.storage = [storage EXCEPT !.epochs[a.slot] = EpochProof(a),
                                        !.batches = @ \cup {cd[1]}]
  BY DEF VerifyEpochBatch
<1>7. IsFact("epoch_batch", cd)
  OBVIOUS
<1> HIDE DEF cd, last, a, call
<1>8. call.passes
  BY <1>2, <1>3, <1>4, <1>5, <1>6, <1>7
<1>9. call.storage = [storage EXCEPT !.epochs[HeaderSlots[2]] = StoredProof(2),
                                     !.batches = storage.batches \cup {BatchRoot}]
  BY <1>2, <1>3, <1>6
<1>10. storage.batches \cup {BatchRoot} \in SUBSET {BatchRoot}
  BY DEF IInv, StorageInv
<1>11. storage' = call.storage => WorldInv' /\ StorageInv' /\ StoredIsServed'
  BY <1>0, <1>9, <1>10, StoreEpoch DEF IInv
<1> QED
  BY <1>8, <1>11 DEF call, cd

\* And a proven committee, which names the state root of a stored epoch.
LEMMA CommitteeSubmitted ==
  ASSUME PrimitivesTyped, IInv, world' = world, NEW i \in 1..2,
         storage.epochs[HeaderSlots[i]] # ZeroProof,
         NEW o, o = CommitteeFile(i).expected,
         IsFact("committee_update", CommitteeCalldata(o))
  PROVE  /\ VerifyCommitteeUpdate(CommitteeCalldata(o)).passes
         /\ storage' = VerifyCommitteeUpdate(CommitteeCalldata(o)).storage
              => WorldInv' /\ StorageInv' /\ StoredIsServed'
<1> DEFINE cd == CommitteeCalldata(o)
           r == Uint256(o.state_root)
           c == Uint256(o.committee_hash)
           root == U256(cd[1], cd[2])
           hash == U256(cd[3], cd[4])
           call == VerifyCommitteeUpdate(cd)
<1>1. /\ o.state_root = world.headers[i].state_root
      /\ o.committee_hash = GetCommitteeHash(world.keys[2])
      /\ o.slot = HeaderSlots[i]
  BY CommitteeRun DEF IInv
<1>2. cd = <<r.low, r.high, c.low, c.high, o.slot>>
  <2>1. Words(o.state_root) = <<r.low, r.high>> /\ Words(o.committee_hash) = <<c.low, c.high>>
    BY DEF Words, Uint256
  <2> HIDE DEF r, c
  <2> QED
    BY <2>1, FiveWords DEF CommitteeCalldata
<1>3. r = [low |-> r.low, high |-> r.high] /\ c = [low |-> c.low, high |-> c.high]
  BY DEF Uint256
<1>4. IsFact("committee_update", cd)
  OBVIOUS
<1>5. cd = Words(o.state_root) \o Words(o.committee_hash) \o <<o.slot>>
  BY DEF CommitteeCalldata
<1>6. /\ call.passes <=> /\ root = storage.epochs[cd[5]].beacon_state_root
                         /\ IsFact(storage.programs.committee,
                                   Felts(root) \o Felts(hash) \o <<cd[5]>>)
      /\ call.storage
           = [storage EXCEPT !.committee[cd[5] \div SlotsPerPeriod + 1] = hash]
  BY DEF VerifyCommitteeUpdate
<1>7. Words(o.state_root) = Felts(r) /\ Words(o.committee_hash) = Felts(c)
  BY SameWords
<1> HIDE DEF cd, root, hash, call, r, c
<1>8. /\ cd[1] = r.low /\ cd[2] = r.high /\ cd[3] = c.low /\ cd[4] = c.high
      /\ cd[5] = o.slot
  BY <1>2
<1>9. root = r /\ hash = c /\ cd[5] = HeaderSlots[i]
  BY <1>1, <1>3, <1>8 DEF root, hash, U256
<1>10. storage.epochs[HeaderSlots[i]].beacon_state_root = r
  <2>1. i \in 1..3
    OBVIOUS
  <2>2. storage.epochs[HeaderSlots[i]] = StoredProof(i)
    BY <2>1 DEF IInv, StoredIsServed, StoredProof
  <2> QED
    BY <1>1, <2>2 DEF StoredProof, r
<1>11. storage.programs.committee = "committee_update"
  BY DEF IInv, StorageInv, Programs
<1>12. call.passes
  BY <1>1, <1>4, <1>5, <1>6, <1>7, <1>9, <1>10, <1>11
<1>13. cd[5] \div SlotsPerPeriod + 1 = 1
  BY <1>9, Slots
<1>14. c = Uint256(GetCommitteeHash(world.keys[2])) /\ c \in Uint256s
  <2>1. world.keys[2] \in Keys
    BY Committees, 2 \in 1..3 DEF IInv
  <2>2. GetCommitteeHash(world.keys[2]) \in Digest
    BY <2>1, KeyPoint
  <2> QED
    BY <1>1, <2>2, HalfRange DEF c
<1>15. call.storage = [storage EXCEPT !.committee[1] = c]
  BY <1>6, <1>9, <1>13
<1>16. ASSUME storage' = call.storage
       PROVE  WorldInv' /\ StorageInv' /\ StoredIsServed'
  <2>1. WorldInv' /\ BatchRoot' = BatchRoot
    BY WorldSame DEF IInv
  <2>2. /\ storage'.committee = [storage.committee EXCEPT ![1] = c]
        /\ storage'.epochs = storage.epochs
        /\ storage' = [committee |-> storage'.committee, epochs |-> storage.epochs,
                       batches |-> storage.batches, programs |-> storage.programs]
    BY <1>15, <1>16 DEF IInv, StorageInv
  <2>3. storage.committee \in [0..1 -> Uint256s]
    BY DEF IInv, StorageInv
  <2>4. storage'.committee \in [0..1 -> Uint256s]
    BY <1>14, <2>2, <2>3
  <2>5. StorageInv'
    BY <2>1, <2>2, <2>4 DEF IInv, StorageInv
  <2>6. storage'.committee[1] = c /\ storage'.committee[0] = storage.committee[0]
    BY <2>2, <2>3
  <2>7. storage.committee[0] \in {ZeroHash, Uint256(GetCommitteeHash(world.keys[0 + 1]))}
    BY DEF IInv, StoredIsServed
  <2>8. \A p \in 0..1 : storage'.committee[p]
                          \in {ZeroHash, Uint256(GetCommitteeHash(world.keys[p + 1]))}
    <3>1. \A p \in 0..1 : p = 0 \/ p = 1
      OBVIOUS
    <3>2. storage'.committee[1]
            \in {ZeroHash, Uint256(GetCommitteeHash(world.keys[1 + 1]))}
      BY <1>14, <2>6
    <3> QED
      BY <2>6, <2>7, <3>1, <3>2
  <2>9. \A j \in 1..3 : storage'.epochs[HeaderSlots[j]] \in {ZeroProof, StoredProof(j)}
    BY <2>2 DEF IInv, StoredIsServed, StoredProof
  <2>10. StoredIsServed'
    BY <2>8, <2>9 DEF StoredIsServed, StoredProof
  <2> QED
    BY <2>1, <2>5, <2>10
<1> QED
  BY <1>12, <1>16 DEF call, cd

\* An update whose proof is verified is read back and accepted, and what it
\* stores is what is served.
LEMMA ProvenSubmitted ==
  ASSUME PrimitivesTyped, IInv, world' = world, pc = "proved",
         NEW call, call = Call(update, file.expected)
  PROVE  /\ FileIsRead(update, file)
         /\ call.passes
         /\ storage' = call.storage => WorldInv' /\ StorageInv' /\ StoredIsServed'
<1>1. /\ update \in Updates /\ Ready(update) /\ file = File(update)
      /\ IsFact(Program(update.kind), Calldata(update, file))
  BY DEF IInv, FlowInv
<1>2. FileIsRead(update, file)
  BY <1>1, ReadyRun DEF IInv
<1>3. \/ update.kind = "epoch" /\ update.at \in 1..3
      \/ update.kind = "batch"
      \/ update.kind = "committee" /\ update.at \in 1..2
  BY <1>1 DEF Updates, Ready
<1> DEFINE o == file.expected
<1>4. CASE update.kind = "epoch" /\ update.at \in 1..3
  <2>1. /\ file = EpochFile(update.at) /\ Program(update.kind) = "epoch_update"
        /\ Calldata(update, file) = EpochCalldata(o)
        /\ call = VerifyEpochUpdate(EpochCalldata(o))
    BY <1>1, <1>4 DEF File, Program, Calldata, Call
  <2>2. CommitteeOf(HeaderSlots[update.at]) # ZeroHash
    BY <1>1, <1>4 DEF Ready
  <2>3. IsFact("epoch_update", EpochCalldata(o)) /\ o = EpochFile(update.at).expected
    BY <1>1, <2>1
  <2> HIDE DEF o
  <2> QED
    BY <1>2, <1>4, <2>1, <2>2, <2>3, EpochSubmitted
<1>5. CASE update.kind = "batch"
  <2>1. /\ file = BatchFile /\ Program(update.kind) = "epoch_batch"
        /\ Calldata(update, file) = BatchCalldata(o)
        /\ call = VerifyEpochBatch(BatchCalldata(o))
    BY <1>1, <1>5 DEF File, Program, Calldata, Call
  <2>2. CommitteeOf(HeaderSlots[1]) # ZeroHash
    BY <1>1, <1>5 DEF Ready
  <2>3. IsFact("epoch_batch", BatchCalldata(o)) /\ o = BatchFile.expected
    BY <1>1, <2>1
  <2> HIDE DEF o
  <2> QED
    BY <1>2, <2>1, <2>2, <2>3, BatchSubmitted
<1>6. CASE update.kind = "committee" /\ update.at \in 1..2
  <2>1. /\ file = CommitteeFile(update.at) /\ Program(update.kind) = "committee_update"
        /\ Calldata(update, file) = CommitteeCalldata(o)
        /\ call = VerifyCommitteeUpdate(CommitteeCalldata(o))
    BY <1>1, <1>6 DEF File, Program, Calldata, Call
  <2>2. storage.epochs[HeaderSlots[update.at]] # ZeroProof
    BY <1>1, <1>6 DEF Ready
  <2>3. IsFact("committee_update", CommitteeCalldata(o)) /\ o = CommitteeFile(update.at).expected
    BY <1>1, <2>1
  <2> HIDE DEF o
  <2> QED
    BY <1>2, <1>6, <2>1, <2>2, <2>3, CommitteeSubmitted
<1> QED
  BY <1>2, <1>3, <1>4, <1>5, <1>6

\* The file is read back, the call accepted, and nothing is under way.
LEMMA SubmitStep ==
  ASSUME PrimitivesTyped, IInv, Submit
  PROVE  IInv'
<1> DEFINE call == Call(update, file.expected)
<1>1. pc = "proved" /\ world' = world
  BY DEF Submit
<1>2. /\ FileIsRead(update, file)
      /\ call.passes
      /\ storage' = call.storage => WorldInv' /\ StorageInv' /\ StoredIsServed'
  <2> HIDE DEF call
  <2>1. call = Call(update, file.expected)
    BY DEF call
  <2> QED
    BY <1>1, <2>1, ProvenSubmitted
<1>3. storage' = call.storage /\ pc' = "idle" /\ update' = NoUpdate
  BY <1>2 DEF Submit
<1> HIDE DEF call
<1>4. FlowInv'
  BY <1>3 DEF FlowInv
<1> QED
  BY <1>2, <1>3, <1>4 DEF IInv

\* An epoch of a stored batch opens its root.
LEMMA DecommitStep ==
  ASSUME PrimitivesTyped, IInv, NEW i \in 1..2, Decommit(i)
  PROVE  IInv'
<1> DEFINE e1 == EpochFile(1).expected
           e2 == EpochFile(2).expected
           o == EpochFile(i).expected
           a == EpochArgs(EpochCalldata(o))
           path == BatchFile.merkle_paths[i]
           leaf == Poseidon(EpochFelts(a))
           up == IF (i - 1) % 2 = 0 THEN <<leaf, path[1]>> ELSE <<path[1], leaf>>
           call == DecommitBatchedEpoch(BatchRoot, i - 1, path, EpochCalldata(o))
<1>1. i \in 1..3 /\ (i = 1 \/ i = 2)
  OBVIOUS
<1>2. /\ pc = "idle" /\ storage.batches # {} /\ world' = world /\ update' = update
  BY DEF Decommit
<1>3. BatchRoot \in storage.batches /\ storage.batches \in SUBSET {BatchRoot}
  BY <1>2 DEF IInv, StorageInv
<1>4. /\ BatchFile.circuit_inputs.epochs[i].expected = o
      /\ BatchRoot = Poseidon(<<LeafHash(e1), LeafHash(e2)>>)
      /\ i = 1 => path[1] = LeafHash(e2)
      /\ i = 2 => path[1] = LeafHash(e1)
  <2> DEFINE f1 == EpochFile(1)
             f2 == EpochFile(2)
  <2>1. /\ BatchFile.circuit_inputs.epochs = <<f1, f2>>
        /\ BatchFile.merkle_paths = <<<<LeafHash(e2)>>, <<LeafHash(e1)>>>>
        /\ BatchFile.expected.batch_root = Poseidon(<<LeafHash(e1), LeafHash(e2)>>)
    BY DEF BatchFile
  <2>2. (i = 1 => o = f1.expected) /\ (i = 2 => o = f2.expected)
    OBVIOUS
  <2> HIDE DEF f1, f2, e1, e2, o
  <2>3. /\ i = 1 => BatchFile.circuit_inputs.epochs[i] = f1
        /\ i = 2 => BatchFile.circuit_inputs.epochs[i] = f2
    BY <2>1
  <2> QED
    BY <1>1, <2>1, <2>2, <2>3 DEF BatchRoot
<1>5. IF call.passes THEN storage' = call.storage /\ pc' = pc
                     ELSE pc' = "reverted" /\ storage' = storage
  <2> HIDE DEF o
  <2> QED
    BY <1>4 DEF Decommit, BatchRoot
<1>6. /\ a.slot = HeaderSlots[i] /\ EpochProof(a) = StoredProof(i)
      /\ EpochFelts(a) = EpochCalldata(o)
  <2> HIDE DEF o, a
  <2>1. o = EpochFile(i).expected /\ a = EpochArgs(EpochCalldata(o))
    BY DEF o, a
  <2> QED
    BY <1>1, <2>1, EpochDecoded DEF IInv
<1>7. (call.passes <=> BatchRoot \in storage.batches /\ Poseidon(up) = BatchRoot)
      /\ call.storage = [storage EXCEPT !.epochs[a.slot] = EpochProof(a)]
  BY DEF DecommitBatchedEpoch
<1>8. (i = 1 => o = e1) /\ (i = 2 => o = e2)
  OBVIOUS
<1>9. (i = 1 => (i - 1) % 2 = 0) /\ (i = 2 => (i - 1) % 2 # 0)
  BY <1>1
<1> HIDE DEF e1, e2, o, a, path, call
<1>10. leaf = LeafHash(o)
  BY <1>6 DEF LeafHash
<1>11. Poseidon(up) = BatchRoot
  <2>1. CASE i = 1
    BY <1>4, <1>8, <1>9, <1>10, <2>1
  <2>2. CASE i = 2
    BY <1>4, <1>8, <1>9, <1>10, <2>2
  <2> QED
    BY <1>1, <2>1, <2>2
<1>12. call.passes
  BY <1>3, <1>7, <1>11
<1>13. storage' = [storage EXCEPT !.epochs[HeaderSlots[i]] = StoredProof(i),
                                  !.batches = storage.batches]
  BY <1>5, <1>6, <1>7, <1>12 DEF IInv, StorageInv
<1>14. WorldInv' /\ StorageInv' /\ StoredIsServed'
  BY <1>1, <1>2, <1>3, <1>13, StoreEpoch DEF IInv
<1>15. FlowInv'
  <2>1. pc' = "idle"
    BY <1>2, <1>5, <1>12
  <2>2. update = NoUpdate
    BY <1>2 DEF IInv, FlowInv
  <2> QED
    BY <1>2, <2>1, <2>2 DEF FlowInv
<1> QED
  BY <1>14, <1>15 DEF IInv

---------------------------------------------------------------------------
(* The theorems. *)

\* Every step keeps the invariant.
LEMMA NextIInv ==
  ASSUME PrimitivesTyped, IInv, [Next]_vars
  PROVE  IInv'
<1>1. ASSUME NEW u \in Updates, Export(u) PROVE IInv'
  BY <1>1, ExportStep
<1>2. CASE RunCircuit
  BY <1>2, RunStep
<1>3. CASE ProofVerified
  BY <1>3, ProofStep
<1>4. CASE Submit
  BY <1>4, SubmitStep
<1>5. ASSUME NEW i \in 1..2, Decommit(i) PROVE IInv'
  BY <1>5, DecommitStep
<1>6. CASE UNCHANGED vars
  <2>1. UNCHANGED <<world, storage, update, pc, file, output, facts>>
    BY <1>6 DEF vars
  <2>2. WorldInv' /\ StorageInv' /\ StoredIsServed'
    BY <2>1, StorageSame DEF IInv
  <2>3. FlowInv'
    <3>1. CASE pc = "idle"
      BY <2>1, <3>1 DEF IInv, FlowInv
    <3>2. CASE pc # "idle"
      <4>1. update \in Updates /\ Ready(update) /\ file = File(update)
        BY <3>2 DEF IInv, FlowInv
      <4>2. File(update)' = File(update)
        BY <2>1, <4>1, FileSame
      <4>3. Ready(update)'
        BY <2>1, <4>1 DEF Ready, CommitteeOf
      <4>4. Calldata(update, file)' = Calldata(update, file)
        BY <2>1 DEF Calldata
      <4>5. Program(update.kind)' = Program(update.kind)
        <5>1. update.kind = "epoch" \/ update.kind = "batch" \/ update.kind = "committee"
          BY <4>1 DEF Updates
        <5> QED
          BY <2>1, <5>1 DEF Program
      <4>6. pc = "proved" => IsFact(Program(update.kind), output)'
        <5>1. IsFact(Program(update.kind), output)'
                <=> [program |-> Program(update.kind)', output |-> output'] \in facts'
          BY DEF IsFact
        <5>2. pc = "proved" => [program |-> Program(update.kind), output |-> output] \in facts
          BY DEF IInv, FlowInv, IsFact
        <5> QED
          BY <2>1, <4>5, <5>1, <5>2
      <4>7. /\ pc \in {"idle", "exported", "traced", "proved"}
            /\ pc \in {"traced", "proved"} => output = Calldata(update, file)
        BY DEF IInv, FlowInv
      <4> QED
        BY <2>1, <3>2, <4>1, <4>2, <4>3, <4>4, <4>6, <4>7 DEF FlowInv
    <3> QED
      BY <3>1, <3>2
  <2> QED
    BY <2>2, <2>3 DEF IInv
<1> QED
  BY <1>1, <1>2, <1>3, <1>4, <1>5, <1>6 DEF Next

\* The invariant that carries the others: an update under way has the file the
\* world gives for it, a proof of it states the words that are submitted, and
\* the contract holds what the world serves.
THEOREM FlowInvariant ==
  ASSUME PrimitivesTyped
  PROVE  Spec => []IInv
<1>1. Init => IInv
  BY InitIInv
<1>2. IInv /\ [Next]_vars => IInv'
  BY NextIInv
<1> QED
  BY <1>1, <1>2, PTL DEF Spec

\* Committees and roots are halves of 128 bits each, the kinds and the steps of
\* an update those of the client.
THEOREM TypeCorrect ==
  ASSUME PrimitivesTyped
  PROVE  Spec => []TypeOK
<1>1. IInv => TypeOK
  <2> SUFFICES ASSUME IInv PROVE TypeOK
    OBVIOUS
  <2>1. /\ storage.committee \in [0..1 -> Uint256s]
        /\ storage.epochs \in [Range(HeaderSlots) -> Proofs]
    BY DEF IInv, StorageInv
  <2>2. \A s \in Range(HeaderSlots) : storage.epochs[s].header_root \in Uint256s
    BY <2>1 DEF Proofs
  <2>3. /\ pc \in {"idle", "exported", "traced", "proved"}
        /\ update \in Updates \cup {NoUpdate}
    BY DEF IInv, FlowInv
  <2> QED
    BY <2>1, <2>2, <2>3 DEF TypeOK
<1> QED
  BY <1>1, FlowInvariant, PTL

\* Whatever the beacon node serves, every file the client writes is accepted by
\* the circuit it is for: its trees, hashes, limbs and points are the client's.
THEOREM InputsAccepted ==
  ASSUME PrimitivesTyped
  PROVE  Spec => []CircuitsAcceptInputs
<1>1. IInv => CircuitsAcceptInputs
  BY DEF IInv, FlowInv, CircuitsAcceptInputs
<1> QED
  BY <1>1, FlowInvariant, PTL

\* Every file of a verified proof is read back to the points it was made from.
THEOREM FilesAreRead ==
  ASSUME PrimitivesTyped
  PROVE  Spec => []FilesReadBack
<1>1. IInv => FilesReadBack
  BY DEF IInv, FlowInv, FilesReadBack
<1> QED
  BY <1>1, FlowInvariant, PTL

\* The contract accepts every submission and every decommitment of what was
\* proven: the facts it looks up are the ones the programs registered.
THEOREM ProofsAccepted ==
  ASSUME PrimitivesTyped
  PROVE  Spec => []ContractAcceptsProofs
<1>1. IInv => ContractAcceptsProofs
  BY DEF IInv, FlowInv, ContractAcceptsProofs
<1> QED
  BY <1>1, FlowInvariant, PTL

\* What the contract stores, by whichever of its ways, is what the beacon node
\* serves for that slot, and the hash of the committee of that period.
THEOREM ServedIsStored ==
  ASSUME PrimitivesTyped
  PROVE  Spec => []StoredIsServed
<1>1. IInv => StoredIsServed
  BY DEF IInv
<1> QED
  BY <1>1, FlowInvariant, PTL
===============================================================================
