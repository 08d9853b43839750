---------------------------- MODULE ArithmeticProofs ----------------------------
(***************************************************************************)
(* Facts about division, powers of two and sets of naturals, which the      *)
(* proofs about slots and about trees rest on.                             *)
(***************************************************************************)
EXTENDS PowersOfTwo, WellFoundedInduction, TLAPS

\* Division with remainder has one answer.
LEMMA DivUnique ==
  ASSUME NEW n \in Nat \ {0}, NEW q \in Nat, NEW r \in 0..(n - 1)
  PROVE  (n * q + r) \div n = q
<1> DEFINE x == n * q + r
           d == x \div n
           m == x % n
<1>1. x \in Nat /\ n * q \in Nat
  OBVIOUS
<1>2. d \in Nat /\ m \in 0..(n - 1) /\ x = n * d + m
  BY <1>1
<1> HIDE DEF d, m
<1>3. n * (q - d) = m - r
  BY <1>1, <1>2
<1>4. n * (q - d) < n /\ n * (q - d) > -n
  BY <1>2, <1>3
<1>5. q - d < 1 /\ q - d > -1
  BY <1>2, <1>4
<1> QED
  BY <1>2, <1>5 DEF d

LEMMA Multiple ==
  ASSUME NEW n \in Nat \ {0}, NEW q \in Nat
  PROVE  (n * q) % n = 0 /\ (n * q) \div n = q /\ n * q \in Nat
<1>1. 0 \in 0..(n - 1) /\ n * q + 0 = n * q /\ n * q \in Nat
  OBVIOUS
<1>2. (n * q) \div n = q
  BY <1>1, DivUnique
<1>3. n * q = n * ((n * q) \div n) + ((n * q) % n) /\ (n * q) % n \in Nat
  BY <1>1
<1> QED
  BY <1>1, <1>2, <1>3

\* The numbers of a block of n that starts at s, as the slots of an epoch do,
\* have the quotient of its first.
LEMMA BlockOf ==
  ASSUME NEW n \in Nat \ {0}, NEW s \in Nat, s % n = 0,
         NEW a \in Nat, s <= a, a < s + n
  PROVE  a \div n = s \div n
<1> DEFINE k == s \div n
<1>1. k \in Nat /\ s = n * k
  OBVIOUS
<1> HIDE DEF k
<1>2. a - s \in 0..(n - 1) /\ a = n * k + (a - s)
  BY <1>1
<1>3. (n * k + (a - s)) \div n = k
  BY <1>1, <1>2, DivUnique
<1> QED
  BY <1>2, <1>3 DEF k

\* And such a block lies in one of the larger blocks n divides, as an epoch
\* lies in a period.
LEMMA LargerBlockOf ==
  ASSUME NEW n \in Nat \ {0}, NEW l \in Nat \ {0}, l % n = 0,
         NEW s \in Nat, s % n = 0, NEW a \in Nat, s <= a, a < s + n
  PROVE  a \div l = s \div l
<1> DEFINE k == s \div n
           m == l \div n
           p == k \div m
           r == k % m
<1>1. k \in Nat /\ s = n * k
  OBVIOUS
<1>2. m \in Nat /\ l = n * m
  OBVIOUS
<1>3. m # 0
  BY <1>2
<1> HIDE DEF k, m
<1>4. p \in Nat /\ r \in 0..(m - 1) /\ k = m * p + r
  BY <1>1, <1>2, <1>3
<1> HIDE DEF p, r
<1>5. \A i \in 0..(n - 1) : (s + i) \div l = p
  <2> SUFFICES ASSUME NEW i \in 0..(n - 1)
               PROVE  (s + i) \div l = p
    OBVIOUS
  <2>1. n * (m * p) = (n * m) * p
    BY <1>2, <1>4
  <2>2. s = l * p + n * r
    BY <1>1, <1>2, <1>4, <2>1
  <2>3. n * r <= n * (m - 1)
    BY <1>2, <1>4
  <2>4. n * (m - 1) = l - n
    BY <1>2
  <2>5. n * r \in Nat
    BY <1>4
  <2>6. n * r + i \in 0..(l - 1)
    BY <2>3, <2>4, <2>5
  <2>7. (l * p + (n * r + i)) \div l = p
    BY <1>4, <2>6, DivUnique
  <2>8. l * p \in Nat
    BY <1>4
  <2>9. s + i = l * p + (n * r + i)
    BY <2>2, <2>5, <2>8
  <2> QED
    BY <2>7, <2>9
<1>6. a - s \in 0..(n - 1) /\ a = s + (a - s) /\ 0 \in 0..(n - 1) /\ s = s + 0
  OBVIOUS
<1> QED
  BY <1>5, <1>6

Less == {p \in Nat \X Nat : p[1] < p[2]}

LEMMA LessWellFounded == IsWellFoundedOn(Less, Nat)
<1>1. Less = OpToRel(<, Nat)
  BY DEF Less, OpToRel
<1> QED
  BY <1>1, NatLessThanWellFounded, Zenon

\* A nonempty set of naturals has a least element, and a greatest one if it is
\* bounded.
LEMMA LeastElement ==
  ASSUME NEW S \in SUBSET Nat, S # {}
  PROVE  \E m \in S : \A x \in S : m <= x
<1>1. PICK m \in S : \A x \in S : <<x, m>> \notin Less
  BY LessWellFounded, WFMin
<1>2. ASSUME NEW x \in S PROVE m <= x
  <2>1. <<x, m>> \in Nat \X Nat /\ <<x, m>> \notin Less
    BY <1>1
  <2>2. ~ (x < m)
    BY <2>1 DEF Less
  <2> QED
    BY <2>1, <2>2
<1> QED
  BY <1>2

LEMMA GreatestElement ==
  ASSUME NEW n \in Nat, NEW S \in SUBSET (0..n), S # {}
  PROVE  \E m \in S : \A x \in S : x <= m
<1> DEFINE D == {n - x : x \in S}
<1>1. \A x \in S : x \in Nat /\ n - x \in Nat
  OBVIOUS
<1>2. D \in SUBSET Nat
  BY <1>1
<1>3. D # {}
  OBVIOUS
<1>4. PICK d \in D : \A x \in D : d <= x
  BY <1>2, <1>3, LeastElement
<1>5. PICK m \in S : d = n - m
  BY <1>4
<1>6. \A x \in S : n - m <= n - x
  BY <1>4, <1>5
<1> QED
  BY <1>1, <1>5, <1>6
---------------------------------------------------------------------------
(* Powers of two. *)

LEMMA OneIsPower == IsPowerOfTwo(1)
BY DEF IsPowerOfTwo

LEMMA DoublePower ==
  ASSUME NEW n \in Nat \ {0}, IsPowerOfTwo(n)
  PROVE  IsPowerOfTwo(2 * n)
<1> SUFFICES ASSUME NEW d \in 1..(2 * n), (2 * n) % d = 0, d % 2 # 0
             PROVE  d = 1
  BY DEF IsPowerOfTwo
<1> DEFINE q == (2 * n) \div d
           h == d \div 2
<1>1. q \in Nat /\ 2 * n = d * q
  OBVIOUS
<1>2. h \in Nat /\ d = 2 * h + 1
  OBVIOUS
<1> HIDE DEF q, h
<1>3. q = 2 * (n - h * q)
  <2>1. d * q = 2 * (h * q) + q
    BY <1>1, <1>2
  <2>2. h * q \in Nat
    BY <1>1, <1>2
  <2> DEFINE x == h * q
  <2> HIDE DEF x
  <2>3. 2 * n = 2 * x + q /\ x \in Nat
    BY <1>1, <2>1, <2>2 DEF x
  <2>4. q = 2 * (n - x)
    BY <1>1, <2>3
  <2> QED
    BY <2>4 DEF x
<1> DEFINE j == n - h * q
<1>4. j \in Nat /\ q = 2 * j
  BY <1>1, <1>2, <1>3
<1> HIDE DEF j
<1>5. n = d * j
  <2>1. 2 * n = 2 * (d * j) /\ d * j \in Nat
    BY <1>1, <1>4
  <2> QED
    BY <2>1
<1>6. n % d = 0 /\ d \in 1..n
  <2>1. n % d = 0
    BY <1>4, <1>5, Multiple
  <2>2. j >= 1
    BY <1>4, <1>5
  <2>3. d * j >= d
    BY <1>4, <2>2
  <2> QED
    BY <1>5, <2>1, <2>3
<1> QED
  BY <1>6 DEF IsPowerOfTwo

\* A tree with more than one leaf has two halves, each a tree.
LEMMA HalfOfPower ==
  ASSUME NEW n \in Nat, n > 1, IsPowerOfTwo(n)
  PROVE  /\ n \div 2 \in Nat /\ n \div 2 >= 1
         /\ n = 2 * (n \div 2)
         /\ IsPowerOfTwo(n \div 2)
<1> DEFINE h == n \div 2
<1>1. n % 2 = 0
  <2>1. n \in 1..n /\ n % n = 0
    OBVIOUS
  <2> QED
    BY <2>1 DEF IsPowerOfTwo
<1>2. h \in Nat /\ h >= 1 /\ n = 2 * h
  BY <1>1
<1> HIDE DEF h
<1>3. ASSUME NEW d \in 1..h, h % d = 0 PROVE n % d = 0
  <2> DEFINE q == h \div d
  <2>1. q \in Nat /\ h = d * q
    BY <1>2, <1>3
  <2> HIDE DEF q
  <2>2. n = d * (2 * q) /\ 2 * q \in Nat /\ d \in Nat \ {0}
    BY <1>2, <2>1
  <2> QED
    BY <2>2, Multiple
<1>4. IsPowerOfTwo(h)
  <2>1. 1..h \subseteq 1..n
    BY <1>2
  <2> QED
    BY <1>3, <2>1 DEF IsPowerOfTwo
<1> QED
  BY <1>2, <1>4 DEF h

\* There is a power of two less than twice as large as n.
LEMMA PowerAbove ==
  ASSUME NEW n \in Nat \ {0}
  PROVE  \E p \in n..(2 * n - 1) : IsPowerOfTwo(p)
<1> DEFINE Without == {i \in Nat \ {0} : \A p \in i..(2 * i - 1) : ~ IsPowerOfTwo(p)}
<1> SUFFICES ASSUME Without # {} PROVE FALSE
  OBVIOUS
<1>1. PICK i \in Without : \A j \in Without : i <= j
  BY LeastElement
<1>2. i # 1
  BY <1>1, OneIsPower
<1> DEFINE m == (i + 1) \div 2
<1>3. m \in Nat \ {0} /\ m < i /\ 2 * m >= i /\ 2 * m <= i + 1
  BY <1>1, <1>2
<1> HIDE DEF m
<1>4. PICK p \in m..(2 * m - 1) : IsPowerOfTwo(p)
  BY <1>1, <1>3
<1>5. p \in Nat \ {0} /\ p <= i
  BY <1>1, <1>3
<1>6. CASE p = i
  BY <1>1, <1>4, <1>5, <1>6
<1>7. CASE p < i
  <2>1. 2 * p \in i..(2 * i - 1)
    BY <1>1, <1>3, <1>4, <1>5, <1>7
  <2> QED
    BY <1>1, <1>4, <1>5, <2>1, DoublePower
<1> QED
  BY <1>1, <1>5, <1>6, <1>7
===============================================================================
