--------------------------- MODULE MerkleTreesProofs ---------------------------
(***************************************************************************)
(* Proofs about MerkleTrees, for every number of leaves: the three builders *)
(* agree on the root and keep to write-once memory, the client's paths     *)
(* reach the root, and whatever path is passed no other epoch does.        *)
(***************************************************************************)
EXTENDS MerkleTrees, ArithmeticProofs

\* The size of the tree, and of a level.
N    == SszLen
M(k) == Len(levels[k])

\* A sequence of whatever values it has.
IsSeq(s) == s \in Seq({s[i] : i \in DOMAIN s})

\* Each level is half of the one below it, and its nodes are hashes of pairs.
LevelsInv ==
  /\ leaves \in Seq({Leaf(i) : i \in 1..MaxLeaves})
  /\ Len(leaves) \in 1..MaxLeaves
  /\ IsSeq(levels) /\ Len(levels) >= 1
  /\ levels[1] = Padded(leaves, N)
  /\ \A k \in 1..Len(levels) : /\ IsSeq(levels[k])
                               /\ M(k) \in Nat \ {0} /\ IsPowerOfTwo(M(k))
                               /\ Span(k) \in Nat \ {0} /\ Span(k) * M(k) = N
  /\ \A k \in 1..(Len(levels) - 1) :
       /\ M(k) = 2 * M(k + 1)
       /\ Span(k + 1) = 2 * Span(k)
       /\ \A j \in 1..M(k + 1) :
            levels[k + 1][j] = Hash(levels[k][2 * j - 1], levels[k][2 * j])

\* A tree in memory, written from its end down to cell o: a written inner node
\* hashes the two cells after its double, and what is written of a level the
\* client has, is that level.
HeapInv(t, o) ==
  /\ t = [c \in 0..(2 * N - 2) |-> t[c]]
  /\ o \in 0..(N - 1)
  /\ \A c \in 0..(2 * N - 2) : t[c] = Unwritten <=> c < o
  /\ \A c \in o..(N - 2) : t[c] = Hash(t[2 * c + 1], t[2 * c + 2])
  /\ \A k \in 1..Len(levels) : \A j \in 1..M(k) :
       M(k) - 2 + j >= o => t[M(k) - 2 + j] = levels[k][j]

BatchInv ==
  /\ HeapInv(tree, out_ptr)
  /\ tree_ptr = 2 * out_ptr + 1
  /\ steps = out_ptr

SszInv ==
  /\ index \in 0..(N - 1)
  /\ HeapInv(ssz_tree, N - 1 - index)
  /\ ssz_ptr = 2 * (N - 1 - index) + 1

PathsInv ==
  paths # <<>> =>
    /\ Len(Last(levels)) = 1
    /\ paths = [i \in 1..Len(leaves) |-> PathOf(i - 1)]

\* With the client's path the node is, after some rounds of hash_path, the one
\* the client has at that level above the leaf.  With any path: if the node is
\* one the client has at the position the index says, on whatever level, the
\* walk has come just that far and began at the leaf.
WalkInv ==
  /\ pc \in {"waiting", "walking"}
  /\ pc = "waiting" => path = <<>> /\ walked = 0 /\ position = 0 /\ current.index = 0
  /\ pc = "walking" =>
       /\ paths # <<>>
       /\ Len(path) \in Nat /\ walked \in 0..Len(path)
       /\ position \in Nat /\ current.index \in 0..position
       /\ \A i \in 1..Len(leaves) :
            leaf = leaves[i] /\ path = paths[i] /\ position = i - 1 =>
              /\ current.index = CurrentIdx(i - 1, walked + 1)
              /\ current.hash = levels[walked + 1][current.index + 1]
       /\ \A m \in 1..Len(levels) :
            current.hash = levels[m][(current.index % M(m)) + 1] =>
              m = walked + 1 /\ leaf = levels[1][(position % N) + 1]

IInv == LevelsInv /\ BatchInv /\ SszInv /\ PathsInv /\ WalkInv

---------------------------------------------------------------------------
(* Sizes, hashes and sequences. *)

LEMMA TreeSizeFacts ==
  ASSUME NEW n \in Nat \ {0}
  PROVE  /\ TreeSize(n) \in n..(2 * n - 1) /\ IsPowerOfTwo(TreeSize(n))
         /\ \A p \in n..(2 * n - 1) : IsPowerOfTwo(p) => TreeSize(n) <= p
<1> DEFINE S == {p \in n..(2 * n - 1) : IsPowerOfTwo(p)}
<1>1. S \in SUBSET Nat /\ S # {}
  BY PowerAbove
<1>2. \E p \in S : \A q \in S : p <= q
  BY <1>1, LeastElement
<1>3. Min(S) \in S /\ \A q \in S : Min(S) <= q
  BY <1>2 DEF Min
<1> QED
  BY <1>3 DEF TreeSize

LEMMA HashFacts ==
  /\ \A l, r : Hash(l, r) # Unwritten
  /\ \A i : Leaf(i) # Unwritten
  /\ Zero # Unwritten
  /\ \A l, r, i : Hash(l, r) # Leaf(i) /\ Hash(l, r) # Zero
  /\ \A l, r, a, b : Hash(l, r) = Hash(a, b) => l = a /\ r = b
BY DEF Hash, Leaf, Zero, Unwritten

\* A function on 1..n is a sequence.
LEMMA FunctionIsSeq ==
  ASSUME NEW n \in Nat, NEW s, s = [i \in 1..n |-> s[i]]
  PROVE  IsSeq(s) /\ Len(s) = n
<1>1. DOMAIN s = 1..n
  OBVIOUS
<1>2. s \in [1..n -> {s[i] : i \in DOMAIN s}]
  BY <1>1
<1> QED
  BY <1>1, <1>2 DEF IsSeq

LEMMA SeqFacts ==
  ASSUME NEW s, IsSeq(s)
  PROVE  Len(s) \in Nat /\ DOMAIN s = 1..Len(s)
BY DEF IsSeq

LEMMA AppendFacts ==
  ASSUME NEW s, NEW x, IsSeq(s)
  PROVE  /\ IsSeq(Append(s, x))
         /\ Len(Append(s, x)) = Len(s) + 1
         /\ \A i \in 1..Len(s) : Append(s, x)[i] = s[i]
         /\ Append(s, x)[Len(s) + 1] = x
<1> DEFINE S == {s[i] : i \in DOMAIN s} \cup {x}
           a == Append(s, x)
<1>1. s \in Seq(S) /\ x \in S
  BY DEF IsSeq
<1>2. /\ Len(a) = Len(s) + 1 /\ Len(s) \in Nat
      /\ \A i \in 1..Len(s) : a[i] = s[i]
      /\ a[Len(s) + 1] = x
      /\ a \in Seq(S)
  BY <1>1
<1> HIDE DEF a
<1>3. a = [i \in 1..Len(a) |-> a[i]]
  BY <1>2
<1>4. IsSeq(a)
  BY <1>2, <1>3, FunctionIsSeq
<1> QED
  BY <1>2, <1>4 DEF a

LEMMA SizeFacts ==
  ASSUME LevelsInv
  PROVE  /\ N \in Nat \ {0} /\ IsPowerOfTwo(N)
         /\ Len(leaves) \in Nat \ {0} /\ Len(leaves) <= N /\ N < 2 * Len(leaves)
<1>1. Len(leaves) \in Nat \ {0}
  BY LeavesAssumption DEF LevelsInv
<1>2. /\ TreeSize(Len(leaves)) \in Len(leaves)..(2 * Len(leaves) - 1)
      /\ IsPowerOfTwo(TreeSize(Len(leaves)))
  BY <1>1, TreeSizeFacts
<1> QED
  BY <1>1, <1>2 DEF N, SszLen

---------------------------------------------------------------------------
(* Trees in memory. *)

\* No level is larger than the leaves, which are the only one of their size.
LEMMA LevelFacts ==
  ASSUME LevelsInv, NEW k \in 1..Len(levels)
  PROVE  /\ M(k) \in Nat \ {0} /\ M(k) <= N /\ M(1) = N
         /\ k # 1 => /\ k - 1 \in 1..Len(levels) /\ M(k - 1) = 2 * M(k)
                     /\ \A j \in 1..M(k) : levels[k][j] =
                          Hash(levels[k - 1][2 * j - 1], levels[k - 1][2 * j])
<1>1. N \in Nat \ {0} /\ Len(levels) \in Nat /\ k \in Nat /\ k >= 1
  BY SizeFacts, SeqFacts DEF LevelsInv
<1>2. M(k) \in Nat \ {0} /\ Span(k) \in Nat \ {0} /\ Span(k) * M(k) = N
  BY DEF LevelsInv
<1>3. M(k) <= N
  <2> DEFINE m == M(k)
             w == Span(k)
  <2>1. m \in Nat /\ w \in Nat /\ w >= 1 /\ w * m = N
    BY <1>2
  <2> HIDE DEF m, w
  <2>2. 1 * m <= w * m
    BY <2>1
  <2> QED
    BY <2>1, <2>2 DEF m
<1>4. M(1) = N
  <2>1. levels[1] = [i \in 1..N |-> levels[1][i]]
    BY DEF LevelsInv, Padded
  <2> QED
    BY <1>1, <2>1, FunctionIsSeq DEF M
<1>5. ASSUME k # 1
      PROVE  /\ k - 1 \in 1..Len(levels) /\ M(k - 1) = 2 * M(k)
             /\ \A j \in 1..M(k) : levels[k][j] =
                  Hash(levels[k - 1][2 * j - 1], levels[k - 1][2 * j])
  <2>1. k - 1 \in 1..(Len(levels) - 1) /\ (k - 1) + 1 = k
    BY <1>1, <1>5
  <2> QED
    BY <1>1, <2>1 DEF LevelsInv
<1> QED
  BY <1>2, <1>3, <1>4, <1>5

\* Hashes of pairs are on every level but the lowest.
LEMMA HashLevels ==
  ASSUME LevelsInv, NEW m \in 1..Len(levels), NEW j \in 1..M(m),
         NEW l, NEW r, levels[m][j] = Hash(l, r)
  PROVE  m # 1
<1> SUFFICES ASSUME m = 1 PROVE FALSE
  OBVIOUS
<1>1. j \in 1..N /\ N \in Nat /\ Len(leaves) \in Nat
  BY LevelFacts, SizeFacts
<1>2. levels[1][j] = IF j <= Len(leaves) THEN leaves[j] ELSE Zero
  BY <1>1 DEF LevelsInv, Padded
<1>3. levels[1][j] = Zero \/ \E i \in 1..MaxLeaves : levels[1][j] = Leaf(i)
  <2>1. j <= Len(leaves) => leaves[j] \in {Leaf(i) : i \in 1..MaxLeaves}
    BY <1>1 DEF LevelsInv
  <2> QED
    BY <1>2, <2>1
<1> QED
  BY <1>3, HashFacts

\* One more inner node: its children are there, its cell was free, and the
\* memory keeps its shape.
LEMMA HeapStep ==
  ASSUME LevelsInv, NEW t, NEW o, HeapInv(t, o), o > 0,
         NEW u, u = [t EXCEPT ![o - 1] = Hash(t[2 * o - 1], t[2 * o])]
  PROVE  HeapInv(u, o - 1)
<1>1. N \in Nat \ {0} /\ o \in 1..(N - 1)
  BY SizeFacts DEF HeapInv
<1>2. /\ t = [c \in 0..(2 * N - 2) |-> t[c]] /\ DOMAIN t = 0..(2 * N - 2)
      /\ \A c \in 0..(2 * N - 2) : t[c] = Unwritten <=> c < o
      /\ \A c \in o..(N - 2) : t[c] = Hash(t[2 * c + 1], t[2 * c + 2])
  BY DEF HeapInv
<1>3. /\ u = [c \in 0..(2 * N - 2) |-> u[c]]
      /\ u[o - 1] = Hash(t[2 * o - 1], t[2 * o])
      /\ \A c \in 0..(2 * N - 2) : c # o - 1 => u[c] = t[c]
  <2> DEFINE h == Hash(t[2 * o - 1], t[2 * o])
             D == 0..(2 * N - 2)
             e == o - 1
  <2>1. t = [c \in D |-> t[c]] /\ e \in D /\ u = [t EXCEPT ![e] = h]
    BY <1>1, <1>2
  <2> HIDE DEF h, D, e
  <2>2. DOMAIN t = D
    BY <2>1
  <2>3. u = [c \in D |-> IF c = e THEN h ELSE t[c]]
    BY <2>1, <2>2
  <2>4. u = [c \in D |-> u[c]] /\ u[e] = h /\ \A c \in D : c # e => u[c] = t[c]
    BY <2>1, <2>3
  <2> QED
    BY <2>4 DEF h, D, e
<1>4. \A c \in 0..(2 * N - 2) : u[c] = Unwritten <=> c < o - 1
  BY <1>1, <1>2, <1>3, HashFacts
<1>5. \A c \in (o - 1)..(N - 2) : u[c] = Hash(u[2 * c + 1], u[2 * c + 2])
  <2> SUFFICES ASSUME NEW c \in (o - 1)..(N - 2)
               PROVE  u[c] = Hash(u[2 * c + 1], u[2 * c + 2])
    OBVIOUS
  <2>1. /\ 2 * c + 1 \in 0..(2 * N - 2) /\ 2 * c + 1 # o - 1
        /\ 2 * c + 2 \in 0..(2 * N - 2) /\ 2 * c + 2 # o - 1
    BY <1>1
  <2>2. u[2 * c + 1] = t[2 * c + 1] /\ u[2 * c + 2] = t[2 * c + 2]
    BY <1>3, <2>1
  <2>3. CASE c = o - 1
    <3>1. 2 * c + 1 = 2 * o - 1 /\ 2 * c + 2 = 2 * o
      BY <1>1, <2>3
    <3> QED
      BY <1>3, <2>2, <2>3, <3>1
  <2>4. CASE c # o - 1
    <3>1. c \in o..(N - 2) /\ c \in 0..(2 * N - 2)
      BY <1>1, <2>4
    <3> QED
      BY <1>2, <1>3, <2>2, <2>4, <3>1
  <2> QED
    BY <2>3, <2>4
<1>6. ASSUME NEW k \in 1..Len(levels), NEW j \in 1..M(k), M(k) - 2 + j >= o - 1
      PROVE  u[M(k) - 2 + j] = levels[k][j]
  <2> DEFINE c == M(k) - 2 + j
  <2>1. M(k) \in Nat \ {0} /\ M(k) <= N /\ M(1) = N
    BY LevelFacts
  <2>2. c \in 0..(2 * N - 2) /\ j \in Nat /\ j >= 1
    BY <1>1, <2>1
  <2>3. CASE c >= o
    <3>1. t[c] = levels[k][j]
      BY <2>3 DEF HeapInv
    <3>2. c # o - 1
      BY <1>1, <2>2, <2>3
    <3> QED
      BY <1>3, <2>2, <3>1, <3>2
  <2>4. CASE c = o - 1
    <3>1. k # 1
      BY <1>1, <2>1, <2>4
    <3>2. /\ k - 1 \in 1..Len(levels) /\ M(k - 1) = 2 * M(k)
          /\ levels[k][j] = Hash(levels[k - 1][2 * j - 1], levels[k - 1][2 * j])
      BY <3>1, LevelFacts
    <3>3. /\ 2 * j - 1 \in 1..M(k - 1) /\ 2 * j \in 1..M(k - 1)
          /\ M(k - 1) - 2 + (2 * j - 1) = 2 * o - 1
          /\ M(k - 1) - 2 + 2 * j = 2 * o
      <4> DEFINE m == M(k)
                 l == M(k - 1)
      <4>1. m \in Nat /\ l = 2 * m /\ j \in 1..m /\ m - 2 + j = o - 1
        BY <2>1, <2>4, <3>2
      <4> HIDE DEF m, l
      <4>2. /\ 2 * j - 1 \in 1..l /\ 2 * j \in 1..l
            /\ l - 2 + (2 * j - 1) = 2 * o - 1
            /\ l - 2 + 2 * j = 2 * o
        BY <1>1, <4>1
      <4> QED
        BY <4>2 DEF l
    <3>4. 2 * o - 1 >= o /\ 2 * o >= o
      BY <1>1
    <3>5. t[2 * o - 1] = levels[k - 1][2 * j - 1] /\ t[2 * o] = levels[k - 1][2 * j]
      BY <3>2, <3>3, <3>4 DEF HeapInv
    <3> QED
      BY <1>3, <2>4, <3>2, <3>5
  <2> QED
    BY <1>1, <1>6, <2>2, <2>3, <2>4
<1>7. o - 1 \in 0..(N - 1)
  BY <1>1
<1> QED
  BY <1>3, <1>4, <1>5, <1>6, <1>7, Zenon DEF HeapInv

LEMMA HeapReads ==
  ASSUME LevelsInv, NEW t, NEW o, HeapInv(t, o), o > 0
  PROVE  /\ t[2 * o - 1] # Unwritten /\ t[2 * o] # Unwritten
         /\ o - 1 \in DOMAIN t /\ t[o - 1] = Unwritten
<1>1. N \in Nat \ {0} /\ o \in 1..(N - 1)
  BY SizeFacts DEF HeapInv
<1>2. /\ 2 * o - 1 \in 0..(2 * N - 2) /\ ~ (2 * o - 1 < o)
      /\ 2 * o \in 0..(2 * N - 2) /\ ~ (2 * o < o)
      /\ o - 1 \in 0..(2 * N - 2) /\ o - 1 < o
  BY <1>1
<1> QED
  BY <1>2 DEF HeapInv

\* The memory a run starts from, with the leaves at its end.
LEMMA HeapInit ==
  ASSUME LevelsInv, Len(levels) = 1
  PROVE  HeapInv(Heap(Padded(leaves, N)), N - 1)
<1> DEFINE p == Padded(leaves, N)
           t == Heap(p)
<1>1. N \in Nat \ {0} /\ N - 1 \in 0..(N - 1)
  BY SizeFacts
<1>2. p = [i \in 1..N |-> p[i]] /\ Len(p) = N /\ \A i \in 1..N : p[i] # Unwritten
  <2>1. p = [i \in 1..N |-> p[i]]
    BY DEF Padded
  <2>2. \A i \in 1..N : p[i] # Unwritten
    <3>1. \A i \in 1..Len(leaves) : leaves[i] \in {Leaf(n) : n \in 1..MaxLeaves}
      BY DEF LevelsInv
    <3>2. \A i \in 1..Len(leaves) : leaves[i] # Unwritten
      BY <3>1, HashFacts
    <3>3. Len(leaves) \in Nat
      BY SizeFacts
    <3> QED
      BY <1>1, <3>2, <3>3, HashFacts DEF Padded
  <2> QED
    BY <1>1, <2>1, <2>2, FunctionIsSeq
<1>3. t = [c \in 0..(2 * N - 2) |-> IF c >= N - 1 THEN p[c - N + 2] ELSE Unwritten]
  BY <1>2 DEF Heap
<1>4. levels[1] = p /\ M(1) = N
  BY LevelFacts DEF LevelsInv
<1> HIDE DEF p, t
<1>5. \A c \in 0..(2 * N - 2) : t[c] = Unwritten <=> c < N - 1
  <2> SUFFICES ASSUME NEW c \in 0..(2 * N - 2) PROVE t[c] = Unwritten <=> c < N - 1
    OBVIOUS
  <2>1. CASE c >= N - 1
    <3>1. c - N + 2 \in 1..N
      BY <1>1, <2>1
    <3> QED
      BY <1>1, <1>2, <1>3, <2>1, <3>1
  <2> QED
    BY <1>1, <1>3, <2>1
<1>6. (N - 1)..(N - 2) = {}
  BY <1>1
<1>7. ASSUME NEW j \in 1..N PROVE t[N - 2 + j] = p[j]
  <2>1. N - 2 + j \in 0..(2 * N - 2) /\ N - 2 + j >= N - 1 /\ (N - 2 + j) - N + 2 = j
    BY <1>1
  <2> QED
    BY <1>3, <2>1
<1>8. t = [c \in 0..(2 * N - 2) |-> t[c]]
  BY <1>3
<1>9. \A k \in 1..Len(levels) : \A j \in 1..M(k) :
        M(k) - 2 + j >= N - 1 => t[M(k) - 2 + j] = levels[k][j]
  <2> SUFFICES ASSUME NEW k \in 1..Len(levels), NEW j \in 1..M(k)
               PROVE  t[M(k) - 2 + j] = levels[k][j]
    OBVIOUS
  <2>1. k = 1
    OBVIOUS
  <2> QED
    BY <1>4, <1>7, <2>1
<1>10. \A c \in (N - 1)..(N - 2) : t[c] = Hash(t[2 * c + 1], t[2 * c + 2])
  BY <1>6
<1>11. HeapInv(t, N - 1)
  BY <1>1, <1>5, <1>8, <1>9, <1>10, Zenon DEF HeapInv
<1> QED
  BY <1>11 DEF t, p

---------------------------------------------------------------------------
(* The invariant holds at the start. *)

LEMMA LevelsInit ==
  ASSUME Init
  PROVE  LevelsInv /\ Len(levels) = 1
<1>1. PICK n \in 1..MaxLeaves : leaves = [i \in 1..n |-> Leaf(i)]
  BY DEF Init
<1>2. n \in Nat \ {0} /\ MaxLeaves \in Nat
  BY LeavesAssumption
<1>3. Len(leaves) = n /\ leaves \in Seq({Leaf(i) : i \in 1..MaxLeaves})
  <2>1. \A i \in 1..n : i \in 1..MaxLeaves
    BY <1>2
  <2>2. leaves \in [1..n -> {Leaf(i) : i \in 1..MaxLeaves}]
    BY <1>1, <2>1
  <2> QED
    BY <1>2, <2>2
<1>4. N \in Nat \ {0} /\ IsPowerOfTwo(N)
  <2>1. TreeSize(n) \in n..(2 * n - 1) /\ IsPowerOfTwo(TreeSize(n))
    BY <1>2, TreeSizeFacts
  <2> QED
    BY <1>2, <1>3, <2>1 DEF N, SszLen
<1> DEFINE p == Padded(leaves, N)
<1>5. levels = <<p>>
  BY DEF Init, N, SszLen
<1>6. IsSeq(p) /\ Len(p) = N
  BY <1>4, FunctionIsSeq DEF Padded
<1> HIDE DEF p
<1>7. Len(levels) = 1 /\ levels[1] = p
  BY <1>5
<1>8. IsSeq(levels)
  <2>1. levels = [i \in 1..1 |-> levels[i]]
    BY <1>5
  <2> QED
    BY <2>1, FunctionIsSeq
<1>9. M(1) = N /\ Span(1) = 1
  <2>1. N \div N = 1
    BY <1>4, DivUnique
  <2> QED
    BY <1>6, <1>7, <2>1 DEF M, Span
<1>10. \A k \in 1..Len(levels) : k = 1
  BY <1>7
<1>11. 1..(Len(levels) - 1) = {}
  BY <1>7
<1>12. /\ IsSeq(levels[1]) /\ M(1) \in Nat \ {0} /\ IsPowerOfTwo(M(1))
       /\ Span(1) \in Nat \ {0} /\ Span(1) * M(1) = N
  BY <1>4, <1>6, <1>7, <1>9
<1>13. Len(leaves) \in 1..MaxLeaves
  BY <1>3
<1>14. levels[1] = Padded(leaves, N)
  BY <1>7 DEF p
<1>15. \A k \in 1..Len(levels) :
         /\ IsSeq(levels[k]) /\ M(k) \in Nat \ {0} /\ IsPowerOfTwo(M(k))
         /\ Span(k) \in Nat \ {0} /\ Span(k) * M(k) = N
  BY <1>10, <1>12
<1>16. \A k \in 1..(Len(levels) - 1) :
       /\ M(k) = 2 * M(k + 1)
       /\ Span(k + 1) = 2 * Span(k)
       /\ \A j \in 1..M(k + 1) :
            levels[k + 1][j] = Hash(levels[k][2 * j - 1], levels[k][2 * j])
  BY <1>11
<1>17. Len(levels) >= 1
  BY <1>7
<1> QED
  BY <1>3, <1>7, <1>8, <1>13, <1>14, <1>15, <1>16, <1>17 DEF LevelsInv

LEMMA InitInv == Init => IInv
<1> SUFFICES ASSUME Init PROVE IInv
  OBVIOUS
<1>1. LevelsInv /\ Len(levels) = 1
  BY LevelsInit
<1>2. N \in Nat \ {0}
  BY <1>1, SizeFacts
<1>3. HeapInv(Heap(Padded(leaves, N)), N - 1)
  BY <1>1, HeapInit
<1>4. /\ tree = Heap(Padded(leaves, N)) /\ tree_ptr = 2 * N - 1
      /\ out_ptr = N - 1 /\ steps = N - 1
      /\ ssz_tree = Heap(Padded(leaves, N)) /\ ssz_ptr = 2 * N - 1 /\ index = 0
  BY DEF Init, PaddedLen, FirstOutPtr, SszLen, N
<1>5. BatchInv
  BY <1>2, <1>3, <1>4 DEF BatchInv
<1>6. N - 1 - index = N - 1 /\ index \in 0..(N - 1)
  BY <1>2, <1>4
<1>7. ssz_ptr = 2 * (N - 1 - index) + 1
  BY <1>2, <1>4
<1>8. SszInv
  BY <1>3, <1>4, <1>6, <1>7 DEF SszInv
<1>9. PathsInv /\ WalkInv
  BY DEF Init, PathsInv, WalkInv
<1> QED
  BY <1>1, <1>5, <1>8, <1>9 DEF IInv

---------------------------------------------------------------------------
(* The client builds a level. *)

LEMMA NewLevel ==
  ASSUME LevelsInv, BuildLevel, NEW top, top = Len(levels), NEW h, h = M(top) \div 2
  PROVE  /\ top \in Nat \ {0} /\ h \in Nat \ {0} /\ M(top) = 2 * h /\ IsPowerOfTwo(h)
         /\ IsSeq(levels') /\ Len(levels') = top + 1
         /\ \A k \in 1..top : levels'[k] = levels[k]
         /\ IsSeq(levels'[top + 1]) /\ Len(levels'[top + 1]) = h
         /\ \A j \in 1..h : levels'[top + 1][j] =
              Hash(levels[top][2 * j - 1], levels[top][2 * j])
<1> DEFINE new == NextLevel(levels[top])
<1>1. top \in Nat \ {0} /\ IsSeq(levels)
  <2>1. IsSeq(levels) /\ top >= 1
    BY DEF LevelsInv
  <2> QED
    BY <2>1, SeqFacts
<1>2. M(top) \in Nat \ {0} /\ IsPowerOfTwo(M(top))
  <2>1. top \in 1..Len(levels)
    BY <1>1
  <2> QED
    BY <2>1 DEF LevelsInv
<1>3. M(top) > 1 /\ levels' = Append(levels, new)
  BY DEF BuildLevel, Last, M
<1>4. h \in Nat \ {0} /\ M(top) = 2 * h /\ IsPowerOfTwo(h)
  <2> DEFINE m == M(top)
  <2>1. m \in Nat /\ m > 1 /\ IsPowerOfTwo(m)
    BY <1>2, <1>3
  <2> HIDE DEF m
  <2>2. m \div 2 \in Nat /\ m \div 2 >= 1 /\ m = 2 * (m \div 2) /\ IsPowerOfTwo(m \div 2)
    BY <2>1, HalfOfPower
  <2> QED
    BY <2>2 DEF m
<1>5. new = [j \in 1..h |-> Hash(levels[top][2 * j - 1], levels[top][2 * j])]
  BY DEF NextLevel, M
<1> HIDE DEF new
<1>6. IsSeq(new) /\ Len(new) = h
  <2>1. new = [j \in 1..h |-> new[j]]
    BY <1>5
  <2> QED
    BY <1>4, <2>1, FunctionIsSeq
<1>7. /\ IsSeq(levels') /\ Len(levels') = top + 1
      /\ \A k \in 1..top : levels'[k] = levels[k]
      /\ levels'[top + 1] = new
  BY <1>1, <1>3, AppendFacts
<1> QED
  BY <1>1, <1>4, <1>5, <1>6, <1>7

LEMMA BuildLevelLevels ==
  ASSUME LevelsInv, BuildLevel
  PROVE  LevelsInv'
<1> DEFINE top == Len(levels)
           h   == M(top) \div 2
           w   == Span(top)
           M1(k) == Len(levels'[k])
           W1(k) == Len(levels'[1]) \div Len(levels'[k])
<1>1. /\ top \in Nat \ {0} /\ h \in Nat \ {0} /\ M(top) = 2 * h /\ IsPowerOfTwo(h)
      /\ IsSeq(levels') /\ Len(levels') = top + 1
      /\ \A k \in 1..top : levels'[k] = levels[k]
      /\ IsSeq(levels'[top + 1]) /\ Len(levels'[top + 1]) = h
      /\ \A j \in 1..h : levels'[top + 1][j] =
           Hash(levels[top][2 * j - 1], levels[top][2 * j])
  BY NewLevel
<1>2. w \in Nat \ {0} /\ w * M(top) = N
  <2>1. top \in 1..Len(levels)
    BY <1>1
  <2> QED
    BY <2>1 DEF LevelsInv
<1>3. leaves' = leaves /\ N' = N
  BY DEF BuildLevel, N, SszLen
<1>4. levels'[1] = levels[1] /\ Len(levels[1]) = N
  <2>1. 1 \in 1..top
    BY <1>1
  <2>2. M(1) = N
    BY <2>1, LevelFacts
  <2> QED
    BY <1>1, <2>1, <2>2 DEF M
<1>5. \A k \in 1..top : M1(k) = M(k) /\ W1(k) = Span(k)
  BY <1>1, <1>4 DEF M, Span
<1>6. M1(top + 1) = h
  BY <1>1 DEF M
<1>7. W1(top + 1) = 2 * w /\ (2 * w) * h = N
  <2> HIDE DEF w, h
  <2>1. h * (2 * w) = N /\ (2 * w) * h = N /\ 2 * w \in Nat
    BY <1>1, <1>2
  <2>2. (h * (2 * w)) \div h = 2 * w
    BY <1>1, <2>1, Multiple
  <2>3. N \div h = 2 * w
    BY <2>1, <2>2
  <2>4. W1(top + 1) = N \div h
    BY <1>1, <1>4 DEF Span
  <2> QED
    BY <2>1, <2>3, <2>4
<1>8. ASSUME NEW k \in 1..(top + 1)
      PROVE  /\ IsSeq(levels'[k]) /\ M1(k) \in Nat \ {0} /\ IsPowerOfTwo(M1(k))
             /\ W1(k) \in Nat \ {0} /\ W1(k) * M1(k) = N
  <2>1. CASE k = top + 1
    <3> HIDE DEF w, h
    <3>1. 2 * w \in Nat \ {0}
      BY <1>2
    <3> QED
      BY <1>1, <1>6, <1>7, <2>1, <3>1
  <2>2. CASE k # top + 1
    <3>1. k \in 1..top
      BY <1>1, <2>2
    <3>2. /\ IsSeq(levels[k]) /\ M(k) \in Nat \ {0} /\ IsPowerOfTwo(M(k))
          /\ Span(k) \in Nat \ {0} /\ Span(k) * M(k) = N
      BY <3>1 DEF LevelsInv
    <3> QED
      BY <1>1, <1>5, <3>1, <3>2
  <2> QED
    BY <2>1, <2>2
<1>9. ASSUME NEW k \in 1..top
      PROVE  /\ M1(k) = 2 * M1(k + 1)
             /\ W1(k + 1) = 2 * W1(k)
             /\ \A j \in 1..M1(k + 1) :
                  levels'[k + 1][j] = Hash(levels'[k][2 * j - 1], levels'[k][2 * j])
  <2>1. CASE k = top
    BY <1>1, <1>5, <1>6, <1>7, <2>1
  <2>2. CASE k # top
    <3>1. k \in 1..(top - 1) /\ k + 1 \in 1..top
      BY <1>1, <2>2
    <3>2. /\ M(k) = 2 * M(k + 1)
          /\ Span(k + 1) = 2 * Span(k)
          /\ \A j \in 1..M(k + 1) :
               levels[k + 1][j] = Hash(levels[k][2 * j - 1], levels[k][2 * j])
      BY <3>1 DEF LevelsInv
    <3> QED
      BY <1>1, <1>5, <3>1, <3>2
  <2> QED
    BY <2>1, <2>2
<1>10. Len(levels') - 1 = top /\ Len(levels') >= 1
  BY <1>1
<1>11. /\ leaves' \in Seq({Leaf(i) : i \in 1..MaxLeaves})
       /\ Len(leaves') \in 1..MaxLeaves
       /\ levels'[1] = Padded(leaves', N')
  BY <1>3, <1>4 DEF LevelsInv
<1>12. \A k \in 1..Len(levels') :
         /\ IsSeq(levels'[k]) /\ M1(k) \in Nat \ {0} /\ IsPowerOfTwo(M1(k))
         /\ W1(k) \in Nat \ {0} /\ W1(k) * M1(k) = N'
  BY <1>1, <1>3, <1>8
<1>13. \A k \in 1..(Len(levels') - 1) :
         /\ M1(k) = 2 * M1(k + 1)
         /\ W1(k + 1) = 2 * W1(k)
         /\ \A j \in 1..M1(k + 1) :
              levels'[k + 1][j] = Hash(levels'[k][2 * j - 1], levels'[k][2 * j])
  BY <1>9, <1>10
<1> HIDE DEF top, h, w
<1> QED
  BY <1>1, <1>10, <1>11, <1>12, <1>13 DEF LevelsInv, M, Span, M, Span

\* What is written of the new level is the hashes of the one below it.
LEMMA BuildLevelHeap ==
  ASSUME LevelsInv, BuildLevel, NEW t, NEW o, HeapInv(t, o)
  PROVE  \A k \in 1..Len(levels') : \A j \in 1..Len(levels'[k]) :
           Len(levels'[k]) - 2 + j >= o => t[Len(levels'[k]) - 2 + j] = levels'[k][j]
<1> DEFINE top == Len(levels)
           h   == M(top) \div 2
<1>1. /\ top \in Nat \ {0} /\ h \in Nat \ {0} /\ M(top) = 2 * h
      /\ Len(levels') = top + 1
      /\ \A k \in 1..top : levels'[k] = levels[k]
      /\ Len(levels'[top + 1]) = h
      /\ \A j \in 1..h : levels'[top + 1][j] =
           Hash(levels[top][2 * j - 1], levels[top][2 * j])
  BY NewLevel
<1>2. top \in 1..Len(levels)
  BY <1>1
<1>3. M(top) <= N /\ N \in Nat \ {0}
  BY <1>2, LevelFacts, SizeFacts
<1>4. o \in Nat
  BY <1>3 DEF HeapInv
<1>5. ASSUME NEW j \in 1..h, h - 2 + j >= o
      PROVE  t[h - 2 + j] = levels'[top + 1][j]
  <2> DEFINE c == h - 2 + j
             m == M(top)
  <2>1. m = 2 * h /\ m <= N
    BY <1>1, <1>3
  <2> HIDE DEF h, m
  <2>2. /\ c \in o..(N - 2)
        /\ 2 * j - 1 \in 1..m /\ m - 2 + (2 * j - 1) = 2 * c + 1 /\ 2 * c + 1 >= o
        /\ 2 * j \in 1..m /\ m - 2 + 2 * j = 2 * c + 2 /\ 2 * c + 2 >= o
    BY <1>1, <1>3, <1>4, <1>5, <2>1
  <2>3. t[c] = Hash(t[2 * c + 1], t[2 * c + 2])
    BY <2>2 DEF HeapInv
  <2>4. t[2 * c + 1] = levels[top][2 * j - 1] /\ t[2 * c + 2] = levels[top][2 * j]
    BY <1>2, <2>2 DEF HeapInv, m
  <2> QED
    BY <1>1, <2>3, <2>4
<1>6. ASSUME NEW k \in 1..top, NEW j \in 1..Len(levels[k]), Len(levels[k]) - 2 + j >= o
      PROVE  t[Len(levels[k]) - 2 + j] = levels[k][j]
  BY <1>6 DEF HeapInv, M
<1> HIDE DEF top, h
<1>7. ASSUME NEW k \in 1..(top + 1), NEW j \in 1..Len(levels'[k]),
             Len(levels'[k]) - 2 + j >= o
      PROVE  t[Len(levels'[k]) - 2 + j] = levels'[k][j]
  <2>1. CASE k = top + 1
    BY <1>1, <1>5, <1>7, <2>1
  <2>2. CASE k # top + 1
    <3>1. k \in 1..top
      BY <1>1, <2>2
    <3> QED
      BY <1>1, <1>6, <1>7, <3>1
  <2> QED
    BY <2>1, <2>2
<1> QED
  BY <1>1, <1>7

LEMMA BuildLevelInv ==
  ASSUME IInv, BuildLevel
  PROVE  IInv'
<1>1. LevelsInv /\ LevelsInv'
  BY BuildLevelLevels DEF IInv
<1>2. N' = N
  BY DEF BuildLevel, N, SszLen
<1>3. paths = <<>> /\ pc = "waiting"
  <2>1. Len(Last(levels)) \in Nat /\ Len(Last(levels)) > 1
    <3>1. Len(levels) \in 1..Len(levels)
      BY SeqFacts, <1>1 DEF LevelsInv
    <3> QED
      BY <1>1, <3>1 DEF LevelsInv, M, Last, BuildLevel
  <2> QED
    <3>1. Len(Last(levels)) # 1
      BY <2>1
    <3>2. paths = <<>>
      BY <3>1, Zenon DEF IInv, PathsInv
    <3> QED
      BY <3>2 DEF IInv, WalkInv
<1>4. ASSUME NEW t, NEW o, HeapInv(t, o)
      PROVE  \A k \in 1..Len(levels') : \A j \in 1..Len(levels'[k]) :
               Len(levels'[k]) - 2 + j >= o => t[Len(levels'[k]) - 2 + j] = levels'[k][j]
  BY <1>1, <1>4, BuildLevelHeap
<1>5. BatchInv'
  <2>1. HeapInv(tree, out_ptr)
    BY DEF IInv, BatchInv
  <2>2. tree' = tree /\ out_ptr' = out_ptr /\ tree_ptr' = tree_ptr /\ steps' = steps
    BY DEF BuildLevel, batch
  <2>3. HeapInv(tree, out_ptr)'
    BY <1>2, <1>4, <2>1, <2>2 DEF HeapInv, M
  <2> QED
    BY <2>2, <2>3 DEF IInv, BatchInv
<1>6. SszInv'
  <2>1. HeapInv(ssz_tree, N - 1 - index)
    BY DEF IInv, SszInv
  <2>2. ssz_tree' = ssz_tree /\ ssz_ptr' = ssz_ptr /\ index' = index
    BY DEF BuildLevel, ssz
  <2>3. HeapInv(ssz_tree, N - 1 - index)'
    BY <1>2, <1>4, <2>1, <2>2 DEF HeapInv, M
  <2> QED
    BY <1>2, <2>2, <2>3 DEF IInv, SszInv
<1>7. PathsInv' /\ WalkInv'
  BY <1>3 DEF BuildLevel, contract, PathsInv, IInv, WalkInv
<1> QED
  BY <1>1, <1>5, <1>6, <1>7 DEF IInv

---------------------------------------------------------------------------
(* Each part of the invariant is about the variables it names. *)

LEMMA LevelsKept ==
  ASSUME LevelsInv, UNCHANGED <<leaves, levels>>
  PROVE  LevelsInv'
BY DEF LevelsInv, N, SszLen, M, Span

LEMMA BatchKept ==
  ASSUME BatchInv, UNCHANGED <<leaves, levels, batch>>
  PROVE  BatchInv'
BY DEF BatchInv, HeapInv, batch, N, SszLen, M

LEMMA SszKept ==
  ASSUME SszInv, UNCHANGED <<leaves, levels, ssz>>
  PROVE  SszInv'
BY DEF SszInv, HeapInv, ssz, N, SszLen, M

LEMMA PathsKept ==
  ASSUME PathsInv, UNCHANGED <<leaves, client>>
  PROVE  PathsInv'
BY DEF PathsInv, client, PathOf, CurrentIdx, Span

LEMMA WalkKept ==
  ASSUME WalkInv, UNCHANGED <<leaves, client, contract>>
  PROVE  WalkInv'
BY DEF WalkInv, client, contract, CurrentIdx, Span, N, SszLen, M

---------------------------------------------------------------------------
(* The circuits fill their memory. *)

LEMMA ComputeNodeInv ==
  ASSUME IInv, ComputeNode
  PROVE  IInv'
<1>1. LevelsInv /\ HeapInv(tree, out_ptr) /\ tree_ptr = 2 * out_ptr + 1 /\ steps = out_ptr
  BY DEF IInv, BatchInv
<1>2. N \in Nat \ {0} /\ out_ptr \in 1..(N - 1)
  <2>1. out_ptr \in 0..(N - 1) /\ steps > 0
    BY <1>1 DEF HeapInv, ComputeNode
  <2> QED
    BY <1>1, <2>1, SizeFacts
<1>3. UNCHANGED <<leaves, client, ssz, contract>> /\ N' = N
  BY DEF ComputeNode, N, SszLen
<1>4. /\ tree' = [tree EXCEPT ![out_ptr - 1] = Hash(tree[2 * out_ptr - 1], tree[2 * out_ptr])]
      /\ out_ptr' = out_ptr - 1 /\ tree_ptr' = 2 * out_ptr' + 1 /\ steps' = out_ptr'
  <2>1. tree_ptr - 2 = 2 * out_ptr - 1 /\ tree_ptr - 1 = 2 * out_ptr
    BY <1>1, <1>2
  <2>2. /\ tree' = [tree EXCEPT ![out_ptr - 1] = Hash(tree[tree_ptr - 2], tree[tree_ptr - 1])]
        /\ out_ptr' = out_ptr - 1 /\ tree_ptr' = tree_ptr - 2 /\ steps' = steps - 1
    BY DEF ComputeNode
  <2>3. tree' = [tree EXCEPT ![out_ptr - 1] = Hash(tree[2 * out_ptr - 1], tree[2 * out_ptr])]
    BY <2>1, <2>2, Zenon
  <2>4. tree_ptr' = 2 * out_ptr' + 1 /\ steps' = out_ptr'
    BY <1>1, <1>2, <2>2
  <2> QED
    BY <2>2, <2>3, <2>4
<1>5. HeapInv(tree', out_ptr - 1)
  <2>1. out_ptr > 0
    BY <1>2
  <2> QED
    BY <1>1, <1>4, <2>1, HeapStep
<1>6. BatchInv'
  <2>1. HeapInv(tree, out_ptr)'
    BY <1>3, <1>4, <1>5 DEF HeapInv, M, client
  <2> QED
    BY <1>4, <2>1 DEF BatchInv
<1>7. LevelsInv' /\ SszInv' /\ PathsInv' /\ WalkInv'
  BY <1>3, LevelsKept, SszKept, PathsKept, WalkKept DEF IInv, client
<1> QED
  BY <1>6, <1>7 DEF IInv

LEMMA ComputeSszNodeInv ==
  ASSUME IInv, ComputeSszNode
  PROVE  IInv'
<1> DEFINE o == N - 1 - index
           q == N - 1 - index'
<1>1. LevelsInv /\ index \in 0..(N - 1) /\ HeapInv(ssz_tree, o) /\ ssz_ptr = 2 * o + 1
  BY DEF IInv, SszInv
<1>2. N \in Nat \ {0} /\ index \in 0..(N - 2) /\ o \in 1..(N - 1)
  <2>1. index < N - 1
    BY DEF ComputeSszNode, N
  <2> QED
    BY <1>1, <2>1, SizeFacts
<1>3. UNCHANGED <<leaves, client, batch, contract>> /\ N' = N
  BY DEF ComputeSszNode, N, SszLen
<1>4. /\ index' = index + 1 /\ ssz_ptr' = ssz_ptr - 2
      /\ ssz_tree' = [ssz_tree EXCEPT ![Destination(ssz_ptr - 2, N - 2, index)] =
                        Hash(ssz_tree[ssz_ptr - 2], ssz_tree[(ssz_ptr - 2) + 1])]
  BY DEF ComputeSszNode, N
<1>5. /\ Destination(ssz_ptr - 2, N - 2, index) = o - 1
      /\ ssz_ptr - 2 = 2 * o - 1 /\ (ssz_ptr - 2) + 1 = 2 * o
  BY <1>1, <1>2 DEF Destination
<1>6. q = o - 1 /\ ssz_ptr' = 2 * q + 1 /\ index' \in 0..(N - 1)
  BY <1>1, <1>2, <1>4
<1>7. ssz_tree' = [ssz_tree EXCEPT ![o - 1] = Hash(ssz_tree[2 * o - 1], ssz_tree[2 * o])]
  BY <1>4, <1>5, Zenon
<1> HIDE DEF o, q
<1>8. HeapInv(ssz_tree', o - 1)
  <2>1. o > 0
    BY <1>2
  <2> QED
    BY <1>1, <1>7, <2>1, HeapStep
<1>9. HeapInv(ssz_tree', q)
  BY <1>6, <1>8
<1>10. SszInv'
  <2>1. HeapInv(ssz_tree, N - 1 - index)'
    BY <1>3, <1>9 DEF HeapInv, M, client, q
  <2> QED
    BY <1>3, <1>6, <2>1 DEF SszInv, q
<1>11. LevelsInv' /\ BatchInv' /\ PathsInv' /\ WalkInv'
  BY <1>3, LevelsKept, BatchKept, PathsKept, WalkKept DEF IInv, client
<1> QED
  BY <1>10, <1>11 DEF IInv

---------------------------------------------------------------------------
(* The paths, and the walk along one. *)

LEMMA BuildPathsInv ==
  ASSUME IInv, BuildPaths
  PROVE  IInv'
<1>1. UNCHANGED <<leaves, levels, batch, ssz, contract>>
  BY DEF BuildPaths
<1>2. paths = <<>> /\ Len(Last(levels)) = 1
  BY DEF BuildPaths
<1>3. pc = "waiting"
  BY <1>2 DEF IInv, WalkInv
<1>4. paths' = [i \in 1..Len(leaves) |-> PathOf(i - 1)]
  BY DEF BuildPaths
<1>5. PathsInv'
  BY <1>1, <1>2, <1>4 DEF PathsInv, PathOf, CurrentIdx, Span
<1>6. WalkInv'
  BY <1>1, <1>3 DEF IInv, WalkInv, contract
<1> QED
  BY <1>1, <1>5, <1>6, LevelsKept, BatchKept, SszKept DEF IInv

\* Each path the client keeps is one of a leaf, as long as the tree is high.
LEMMA KeptPath ==
  ASSUME IInv, NEW p \in ToSet(paths), paths # <<>>
  PROVE  /\ \E i \in 1..Len(leaves) : p = PathOf(i - 1)
         /\ Len(p) = Len(levels) - 1 /\ Len(levels) \in Nat \ {0}
<1>1. paths = [i \in 1..Len(leaves) |-> PathOf(i - 1)]
  BY DEF IInv, PathsInv
<1>2. PICK i \in 1..Len(leaves) : p = PathOf(i - 1)
  BY <1>1 DEF ToSet
<1>3. Len(levels) \in Nat \ {0}
  BY SeqFacts DEF IInv, LevelsInv
<1>4. p = [k \in 1..(Len(levels) - 1) |-> p[k]]
  BY <1>2 DEF PathOf
<1>5. Len(p) = Len(levels) - 1
  BY <1>3, <1>4, FunctionIsSeq
<1> QED
  BY <1>2, <1>3, <1>5

LEMMA CallHashPathInv ==
  ASSUME IInv, CallHashPath
  PROVE  IInv'
<1>1. UNCHANGED <<leaves, levels, paths, batch, ssz>> /\ N' = N
  BY DEF CallHashPath, client, N, SszLen
<1>2. /\ pc' = "walking" /\ paths # <<>> /\ path' \in OtherPaths \cup ToSet(paths)
      /\ leaf' \in {Leaf(i) : i \in 0..MaxLeaves}
      /\ position' \in Nat /\ walked' = 0
      /\ current' = [hash |-> leaf', index |-> position']
  BY PositionsAssumption DEF CallHashPath
<1>len. Len(path') \in Nat
  <2>1. CASE path' \in OtherPaths
    BY <2>1, PathsAssumption
  <2>2. CASE path' \in ToSet(paths)
    <3> DEFINE p == path'
    <3>1. p \in ToSet(paths)
      BY <2>2
    <3> HIDE DEF p
    <3>2. Len(p) = Len(levels) - 1 /\ Len(levels) \in Nat \ {0}
      BY <1>2, <3>1, KeptPath
    <3>3. Len(p) \in Nat
      BY <3>2
    <3> QED
      BY <3>3 DEF p
  <2> QED
    BY <1>2, <2>1, <2>2
<1>3. LevelsInv /\ N \in Nat \ {0} /\ Len(leaves) \in Nat /\ Len(leaves) <= N
  BY SizeFacts DEF IInv
<1>4. 1 \in 1..Len(levels) /\ Len(levels) \in Nat \ {0}
  BY <1>3, SeqFacts DEF LevelsInv
<1>5. M(1) = N /\ Span(1) = 1
  <2>1. M(1) = N /\ Span(1) \in Nat /\ Span(1) * M(1) = N
    BY <1>3, <1>4, LevelFacts DEF LevelsInv
  <2> DEFINE w == Span(1)
  <2>2. w \in Nat /\ w * N = 1 * N
    BY <1>3, <2>1
  <2> HIDE DEF w
  <2>3. w = 1
    BY <1>3, <2>2
  <2> QED
    BY <2>1, <2>3 DEF w
<1>6. levels[1] = Padded(leaves, N)
  BY <1>3 DEF LevelsInv
<1>7. ASSUME NEW i \in 1..Len(leaves), leaf' = leaves[i], position' = i - 1
      PROVE  /\ current'.index = CurrentIdx(i - 1, 1)
             /\ current'.hash = levels[1][current'.index + 1]
  <2>1. current'.index = i - 1 /\ current'.hash = leaves[i]
    BY <1>2, <1>7
  <2>2. i \in 1..N /\ i <= Len(leaves) /\ (i - 1) + 1 = i
    BY <1>3
  <2>3. levels[1][i] = leaves[i]
    BY <1>6, <2>2 DEF Padded
  <2>4. CurrentIdx(i - 1, 1) = (i - 1) \div 1
    BY <1>5 DEF CurrentIdx
  <2>5. (i - 1) \div 1 = i - 1
    BY <1>3
  <2> QED
    BY <2>1, <2>2, <2>3, <2>4, <2>5
<1>8. position' \in Nat /\ current'.index \in 0..position'
  BY <1>2, <1>3
<1>9. ASSUME NEW m \in 1..Len(levels),
             current'.hash = levels[m][(current'.index % M(m)) + 1]
      PROVE  m = 1 /\ leaf' = levels[1][(position' % N) + 1]
  <2> DEFINE j == (current'.index % M(m)) + 1
  <2>1. M(m) \in Nat \ {0} /\ current'.index \in Nat
    BY <1>3, <1>8, LevelFacts
  <2>2. j \in 1..M(m)
    BY <2>1
  <2> HIDE DEF j
  <2>3. m = 1
    <3> SUFFICES ASSUME m # 1 PROVE FALSE
      OBVIOUS
    <3>1. levels[m][j] = Hash(levels[m - 1][2 * j - 1], levels[m - 1][2 * j])
      BY <1>3, <2>2, LevelFacts
    <3>2. PICK i \in 0..MaxLeaves : current'.hash = Leaf(i)
      BY <1>2
    <3> QED
      BY <1>9, <3>1, <3>2, HashFacts DEF j
  <2> QED
    BY <1>2, <1>5, <1>9, <2>3
<1>10. walked' + 1 = 1 /\ walked' \in 0..Len(path')
  BY <1>len, <1>2
<1>11. ASSUME NEW i \in 1..Len(leaves) PROVE CurrentIdx(i - 1, 1)' = CurrentIdx(i - 1, 1)
  BY <1>1 DEF CurrentIdx, Span
<1>12. M(1)' = M(1)
  BY <1>1 DEF M
<1>13. WalkInv'
  <2>1. \A i \in 1..Len(leaves') :
          leaf' = leaves'[i] /\ path' = paths'[i] /\ position' = i - 1 =>
            /\ current'.index = CurrentIdx(i - 1, walked + 1)'
            /\ current'.hash = levels'[walked' + 1][current'.index + 1]
    BY <1>1, <1>7, <1>10 DEF CurrentIdx, Span
  <2>2. \A m \in 1..Len(levels') :
          current'.hash = levels'[m][(current'.index % M(m)') + 1] =>
            m = walked' + 1 /\ leaf' = levels'[1][(position' % N') + 1]
    BY <1>1, <1>9, <1>10 DEF M
  <2> QED
    BY <1>len, <1>1, <1>2, <1>8, <1>10, <2>1, <2>2 DEF WalkInv
<1> QED
  BY <1>1, <1>13, LevelsKept, BatchKept, SszKept, PathsKept DEF IInv, client

\* The remainder of a double, and of the number after it.
LEMMA ModDouble ==
  ASSUME NEW n \in Nat \ {0}, NEW h \in Nat
  PROVE  (2 * h) % (2 * n) = 2 * (h % n) /\ (2 * h + 1) % (2 * n) = 2 * (h % n) + 1
<1> DEFINE q == h \div n
           r == h % n
<1>1. q \in Nat /\ r \in 0..(n - 1) /\ h = n * q + r
  OBVIOUS
<1> HIDE DEF q, r
<1>2. ASSUME NEW x \in 0..(2 * n - 1) PROVE ((2 * n) * q + x) % (2 * n) = x
  <2> DEFINE l == 2 * n
             y == l * q + x
  <2>1. l \in Nat \ {0} /\ x \in 0..(l - 1)
    OBVIOUS
  <2> HIDE DEF l
  <2>2. y \div l = q
    BY <1>1, <2>1, DivUnique
  <2>3. y \in Nat
    BY <1>1, <2>1
  <2> HIDE DEF y
  <2>4. y = l * (y \div l) + (y % l) /\ y % l \in Nat
    BY <2>1, <2>3
  <2>5. y % l = x
    BY <1>1, <2>1, <2>2, <2>4 DEF y
  <2> QED
    BY <2>5 DEF l, y
<1>3. 2 * r \in 0..(2 * n - 1) /\ 2 * r + 1 \in 0..(2 * n - 1)
  BY <1>1
<1>4. (2 * n) * q = 2 * (n * q) /\ n * q \in Nat
  BY <1>1
<1>5. 2 * h = (2 * n) * q + 2 * r /\ 2 * h + 1 = (2 * n) * q + (2 * r + 1)
  BY <1>1, <1>4
<1> QED
  BY <1>2, <1>3, <1>5 DEF r

\* Halving an index is what doubling the span does to it.
LEMMA HalvedIdx ==
  ASSUME NEW s \in Nat \ {0}, NEW x \in Nat
  PROVE  (x \div s) \div 2 = x \div (2 * s)
<1> DEFINE a == x \div s
           h == a \div 2
           r == x % s
           e == a % 2
<1>1. a \in Nat /\ r \in 0..(s - 1) /\ x = s * a + r
  OBVIOUS
<1>2. h \in Nat /\ e \in 0..1 /\ a = 2 * h + e
  BY <1>1
<1> HIDE DEF a, h, r, e
<1>3. s * e \in {0, s}
  BY <1>2
<1>4. s * e + r \in 0..(2 * s - 1)
  BY <1>1, <1>3
<1>5. s * (2 * h + e) = (2 * s) * h + s * e
  BY <1>2
<1>6. x = (2 * s) * h + (s * e + r)
  BY <1>1, <1>2, <1>5
<1>7. x \div (2 * s) = h
  <2> DEFINE l == 2 * s
             y == s * e + r
  <2>1. l \in Nat \ {0} /\ y \in 0..(l - 1) /\ x = l * h + y
    BY <1>4, <1>6
  <2> HIDE DEF l, y
  <2>2. (l * h + y) \div l = h
    BY <1>2, <2>1, DivUnique
  <2> QED
    BY <2>1, <2>2 DEF l
<1> QED
  BY <1>7 DEF h, a

\* A node and its sibling are the pair the next level hashes.
LEMMA Pairs ==
  ASSUME NEW a \in Nat, NEW h, h = a \div 2
  PROVE  /\ h \in Nat /\ h <= a
         /\ IsLeft(a) => a = 2 * h /\ SiblingIdx(a) = 2 * h + 1
         /\ ~ IsLeft(a) => a = 2 * h + 1 /\ SiblingIdx(a) = 2 * h
BY DEF IsLeft, SiblingIdx

\* The nodes of a level, counted from 0.
LEMMA PairsHashed ==
  ASSUME LevelsInv, NEW k \in 1..(Len(levels) - 1)
  PROVE  /\ k \in 1..Len(levels) /\ k + 1 \in 1..Len(levels)
         /\ M(k + 1) \in Nat \ {0} /\ M(k) = 2 * M(k + 1)
         /\ Span(k) \in Nat \ {0} /\ Span(k) * M(k) = N
         /\ Span(k + 1) = 2 * Span(k)
         /\ \A j \in 0..(M(k + 1) - 1) :
              levels[k + 1][j + 1] = Hash(levels[k][2 * j + 1], levels[k][2 * j + 2])
<1> DEFINE b == M(k + 1)
<1>1. Len(levels) \in Nat
  BY SeqFacts DEF LevelsInv
<1>2. k \in 1..Len(levels) /\ k + 1 \in 1..Len(levels)
  BY <1>1
<1>3. /\ b \in Nat \ {0} /\ M(k) = 2 * b
      /\ Span(k) \in Nat \ {0} /\ Span(k) * M(k) = N
      /\ Span(k + 1) = 2 * Span(k)
      /\ \A j \in 1..b : levels[k + 1][j] = Hash(levels[k][2 * j - 1], levels[k][2 * j])
  BY <1>2 DEF LevelsInv
<1>4. ASSUME NEW j \in 0..(b - 1)
      PROVE  levels[k + 1][j + 1] = Hash(levels[k][2 * j + 1], levels[k][2 * j + 2])
  <2> HIDE DEF b
  <2>1. j + 1 \in 1..b /\ 2 * (j + 1) - 1 = 2 * j + 1 /\ 2 * (j + 1) = 2 * j + 2
    BY <1>3
  <2>2. levels[k + 1][j + 1] = Hash(levels[k][2 * (j + 1) - 1], levels[k][2 * (j + 1)])
    BY <1>3, <2>1
  <2> QED
    BY <2>1, <2>2
<1> QED
  BY <1>2, <1>3, <1>4

LEMMA HashPathInv ==
  ASSUME IInv, HashPath
  PROVE  IInv'
<1> DEFINE k == walked + 1
           a == current.index
           h == a \div 2
           b == M(k + 1)
           sibling == path[k]
           current1 == IF IsLeft(a) THEN Hash(current.hash, sibling)
                       ELSE Hash(sibling, current.hash)
<1>1. /\ UNCHANGED <<leaves, levels, paths, batch, ssz, pc, leaf, path, position>>
      /\ N' = N
      /\ pc = "walking" /\ walked < Len(path) /\ walked' = walked + 1
      /\ current'.hash = current1 /\ current'.index = h
  BY DEF HashPath, client, N, SszLen
<1>2. /\ paths # <<>> /\ Len(path) \in Nat /\ walked \in 0..Len(path)
      /\ position \in Nat /\ a \in 0..position
      /\ LevelsInv
  BY <1>1 DEF IInv, WalkInv
<1>4. walked' = k /\ k \in 1..Len(path)
  BY <1>1, <1>2
<1>7. /\ h \in Nat /\ h <= a
      /\ IsLeft(a) => a = 2 * h /\ SiblingIdx(a) = 2 * h + 1
      /\ ~ IsLeft(a) => a = 2 * h + 1 /\ SiblingIdx(a) = 2 * h
  <2>1. a \in Nat
    BY <1>2
  <2> HIDE DEF a
  <2> QED
    BY <2>1, Pairs
<1> HIDE DEF k, a, h, b, sibling
<1>8. ASSUME NEW i \in 1..Len(leaves), leaf = leaves[i], path = paths[i], position = i - 1
      PROVE  h = CurrentIdx(i - 1, k + 1) /\ current1 = levels[k + 1][h + 1]
  <2>level. k \in 1..(Len(levels) - 1)
    <3>1. path \in ToSet(paths)
      <4>1. paths = [n \in 1..Len(leaves) |-> PathOf(n - 1)]
        BY <1>2 DEF IInv, PathsInv
      <4> QED
        BY <1>8, <4>1 DEF ToSet
    <3>2. Len(path) = Len(levels) - 1
      BY <1>2, <3>1, KeptPath
    <3> QED
      BY <1>4, <3>2
  <2>pairs. /\ b \in Nat \ {0} /\ M(k) = 2 * b /\ N \in Nat \ {0}
         /\ Span(k) \in Nat \ {0} /\ Span(k) * M(k) = N
         /\ Span(k + 1) = 2 * Span(k)
         /\ \A j \in 0..(b - 1) :
              levels[k + 1][j + 1] = Hash(levels[k][2 * j + 1], levels[k][2 * j + 2])
    BY <1>2, <2>level, PairsHashed, SizeFacts DEF b
  <2>1. a = CurrentIdx(i - 1, k) /\ current.hash = levels[k][a + 1]
    BY <1>1, <1>8 DEF IInv, WalkInv, k, a
  <2>2. i - 1 \in Nat /\ i - 1 < N
    BY SizeFacts DEF IInv
  <2>3. h = CurrentIdx(i - 1, k + 1)
    BY <2>pairs, <2>1, <2>2, HalvedIdx DEF CurrentIdx, h
  <2>4. a < 2 * b
    <3> DEFINE w == Span(k)
               x == i - 1
    <3>1. w \in Nat \ {0} /\ w * (2 * b) = N /\ x \in Nat /\ x < N
      BY <2>pairs, <2>2
    <3>2. a = x \div w
      BY <2>1 DEF CurrentIdx
    <3> HIDE DEF w, x
    <3>3. a \in Nat /\ w * a <= x
      BY <3>1, <3>2
    <3> DEFINE m == 2 * b
    <3>4. m \in Nat /\ w * m = N
      BY <2>pairs, <3>1
    <3> HIDE DEF m
    <3>5. m <= a => w * m <= w * a
      BY <3>1, <3>3, <3>4
    <3>6. a < m
      BY <3>1, <3>3, <3>4, <3>5
    <3> QED
      BY <3>6 DEF m
  <2>5. h \in 0..(b - 1) /\ SiblingIdx(a) < 2 * b /\ a \in Nat
    BY <1>2, <2>pairs, <1>7, <2>4
  <2>6. sibling = levels[k][SiblingIdx(a) + 1]
    <3>1. paths = [n \in 1..Len(leaves) |-> PathOf(n - 1)]
      BY <1>2 DEF IInv, PathsInv
    <3>2. path = PathOf(i - 1)
      BY <1>8, <3>1
    <3> QED
      BY <2>level, <2>pairs, <2>1, <2>5, <3>2 DEF PathOf, sibling, M
  <2>7. levels[k + 1][h + 1] = Hash(levels[k][2 * h + 1], levels[k][2 * h + 2])
    BY <2>pairs, <2>5
  <2>8. (2 * h + 1) + 1 = 2 * h + 2
    BY <1>7
  <2>9. CASE IsLeft(a)
    BY <1>7, <2>1, <2>3, <2>6, <2>7, <2>8, <2>9
  <2>10. CASE ~ IsLeft(a)
    BY <1>7, <2>1, <2>3, <2>6, <2>7, <2>8, <2>10
  <2> QED
    BY <2>3, <2>9, <2>10
<1>9. ASSUME NEW m \in 1..Len(levels), current1 = levels[m][(h % M(m)) + 1]
      PROVE  m = k + 1 /\ leaf = levels[1][(position % N) + 1]
  <2> DEFINE j == h % M(m)
             l == m - 1
             c == M(m)
  <2>1. c \in Nat \ {0}
    BY <1>2, LevelFacts
  <2>2. j \in 0..(c - 1) /\ j + 1 \in 1..c
    BY <1>7, <2>1
  <2>3. (2 * h) % (2 * c) = 2 * j /\ (2 * h + 1) % (2 * c) = 2 * j + 1
    <3> HIDE DEF c
    <3> QED
      BY <1>7, <2>1, ModDouble DEF c
  <2>4. current1 = levels[m][j + 1]
    BY <1>9
  <2>5. \E x, y : current1 = Hash(x, y)
    BY DEF current1
  <2> HIDE DEF j, c
  <2>6. m # 1
    BY <1>2, <2>2, <2>4, <2>5, HashLevels DEF c
  <2>7. l \in 1..(Len(levels) - 1) /\ l + 1 = m /\ l \in 1..Len(levels)
    <3>1. Len(levels) \in Nat
      BY <1>2, SeqFacts DEF LevelsInv
    <3> QED
      BY <2>6, <3>1
  <2> HIDE DEF l
  <2>8. /\ M(l) = 2 * c
        /\ levels[m][j + 1] = Hash(levels[l][2 * j + 1], levels[l][2 * j + 2])
    BY <1>2, <2>2, <2>7, PairsHashed DEF c
  <2>9. current.hash = levels[l][(a % M(l)) + 1]
    <3>1. CASE IsLeft(a)
      <4>1. current.hash = levels[l][2 * j + 1]
        BY <2>4, <2>8, <3>1, HashFacts DEF current1
      <4>2. a % M(l) = 2 * j
        BY <1>7, <2>3, <2>8, <3>1
      <4> QED
        BY <4>1, <4>2
    <3>2. CASE ~ IsLeft(a)
      <4>1. current.hash = levels[l][2 * j + 2]
        BY <2>4, <2>8, <3>2, HashFacts DEF current1
      <4>2. a % M(l) = 2 * j + 1 /\ (2 * j + 1) + 1 = 2 * j + 2
        BY <1>7, <2>2, <2>3, <2>8, <3>2
      <4> QED
        BY <4>1, <4>2
    <3> QED
      BY <3>1, <3>2
  <2>10. l = k /\ leaf = levels[1][(position % N) + 1]
    BY <1>1, <2>7, <2>9 DEF IInv, WalkInv, k, a
  <2> QED
    BY <2>7, <2>10
<1>10. current'.index \in 0..position
  BY <1>1, <1>2, <1>7
<1>11. WalkInv'
  <2> HIDE DEF current1
  <2>1. \A i \in 1..Len(leaves') :
          leaf' = leaves'[i] /\ path' = paths'[i] /\ position' = i - 1 =>
            /\ current'.index = CurrentIdx(i - 1, walked + 1)'
            /\ current'.hash = levels'[walked' + 1][current'.index + 1]
    BY <1>1, <1>4, <1>8 DEF CurrentIdx, Span
  <2>2. \A m \in 1..Len(levels') :
          current'.hash = levels'[m][(current'.index % M(m)') + 1] =>
            m = walked' + 1 /\ leaf' = levels'[1][(position' % N') + 1]
    BY <1>1, <1>4, <1>9 DEF M
  <2>3. walked' \in 0..Len(path')
    BY <1>1, <1>2, <1>4
  <2> QED
    BY <1>1, <1>2, <1>10, <2>1, <2>2, <2>3 DEF WalkInv
<1> QED
  BY <1>1, <1>11, LevelsKept, BatchKept, SszKept, PathsKept DEF IInv, client

---------------------------------------------------------------------------
(* The results. *)

LEMMA StepInv == IInv /\ [Next]_vars => IInv'
<1> SUFFICES ASSUME IInv, [Next]_vars PROVE IInv'
  OBVIOUS
<1>1. CASE UNCHANGED vars
  <2>1. UNCHANGED <<leaves, client, batch, ssz, contract>> /\ UNCHANGED <<levels, paths>>
    BY <1>1 DEF vars, client
  <2> QED
    BY <2>1, LevelsKept, BatchKept, SszKept, PathsKept, WalkKept DEF IInv
<1>2. CASE BuildLevel
  BY <1>2, BuildLevelInv
<1>3. CASE BuildPaths
  BY <1>3, BuildPathsInv
<1>4. CASE ComputeNode
  BY <1>4, ComputeNodeInv
<1>5. CASE ComputeSszNode
  BY <1>5, ComputeSszNodeInv
<1>6. CASE CallHashPath
  BY <1>6, CallHashPathInv
<1>7. CASE HashPath
  BY <1>7, HashPathInv
<1> QED
  BY <1>1, <1>2, <1>3, <1>4, <1>5, <1>6, <1>7 DEF Next

THEOREM Inductive == Spec => []IInv
<1> QED
  BY InitInv, StepInv, PTL DEF Spec

\* The memory of both circuits is written once and never read before: a run of
\* either cannot die of a conflict, for any number of leaves.
THEOREM WrittenOnce == Spec => []MemoryIsWrittenOnce
<1>1. IInv => MemoryIsWrittenOnce
  <2> SUFFICES ASSUME IInv PROVE MemoryIsWrittenOnce
    OBVIOUS
  <2>1. ASSUME steps > 0
        PROVE  /\ tree[tree_ptr - 2] # Unwritten /\ tree[tree_ptr - 1] # Unwritten
               /\ tree[out_ptr - 1] = Unwritten
    <3>1. LevelsInv /\ HeapInv(tree, out_ptr) /\ out_ptr > 0
      BY <2>1 DEF IInv, BatchInv
    <3>2. /\ tree[2 * out_ptr - 1] # Unwritten /\ tree[2 * out_ptr] # Unwritten
          /\ tree[out_ptr - 1] = Unwritten
      BY <3>1, HeapReads
    <3>3. N \in Nat /\ out_ptr \in 0..(N - 1)
      BY <3>1, SizeFacts DEF HeapInv
    <3>4. tree_ptr - 2 = 2 * out_ptr - 1 /\ tree_ptr - 1 = 2 * out_ptr
      BY <3>3 DEF IInv, BatchInv
    <3> QED
      BY <3>2, <3>4
  <2>2. ASSUME index < SszLen - 1
        PROVE  /\ ssz_tree[ssz_ptr - 2] # Unwritten /\ ssz_tree[ssz_ptr - 1] # Unwritten
               /\ Destination(ssz_ptr - 2, SszLen - 2, index) \in DOMAIN ssz_tree
               /\ ssz_tree[Destination(ssz_ptr - 2, SszLen - 2, index)] = Unwritten
    <3> DEFINE o == N - 1 - index
    <3>1. LevelsInv /\ HeapInv(ssz_tree, o) /\ index \in 0..(N - 1)
      BY DEF IInv, SszInv
    <3>2. N \in Nat /\ o \in Nat /\ o > 0
      BY <2>2, <3>1, SizeFacts DEF N
    <3>3. /\ ssz_ptr - 2 = 2 * o - 1 /\ ssz_ptr - 1 = 2 * o
          /\ Destination(ssz_ptr - 2, SszLen - 2, index) = o - 1
      BY <3>1, <3>2 DEF IInv, SszInv, Destination, N
    <3> HIDE DEF o
    <3>4. /\ ssz_tree[2 * o - 1] # Unwritten /\ ssz_tree[2 * o] # Unwritten
          /\ o - 1 \in DOMAIN ssz_tree /\ ssz_tree[o - 1] = Unwritten
      BY <3>1, <3>2, HeapReads
    <3> QED
      BY <3>3, <3>4
  <2> QED
    BY <2>1, <2>2, Zenon DEF MemoryIsWrittenOnce
<1> QED
  BY <1>1, Inductive, PTL

\* The last level is a single node, at the start of a finished memory.
LEMMA RootOf ==
  ASSUME LevelsInv, Len(Last(levels)) = 1, NEW t, HeapInv(t, 0)
  PROVE  t[0] = Root
<1> DEFINE top == Len(levels)
<1>1. top \in 1..Len(levels)
  BY SeqFacts DEF LevelsInv
<1>2. M(top) = 1
  BY DEF M, Last
<1>3. 1 \in 1..M(top) /\ M(top) - 2 + 1 = 0
  BY <1>2
<1> HIDE DEF top
<1>4. t[0] = levels[top][1]
  <2>1. \A j \in 1..M(top) : M(top) - 2 + j >= 0 => t[M(top) - 2 + j] = levels[top][j]
    BY <1>1 DEF HeapInv
  <2> QED
    BY <1>3, <2>1
<1> QED
  BY <1>4 DEF Root, Last, top

\* One root, whoever computes it, for any number of leaves.
THEOREM Roots == Spec => []RootsAgree
<1>1. IInv => RootsAgree
  <2> SUFFICES ASSUME IInv, Len(Last(levels)) = 1
               PROVE  /\ steps = 0 => tree[0] = Root
                      /\ index = SszLen - 1 => ssz_tree[0] = Root
    BY DEF RootsAgree
  <2>1. ASSUME steps = 0 PROVE tree[0] = Root
    BY <2>1, RootOf DEF IInv, BatchInv
  <2>2. ASSUME index = N - 1 PROVE ssz_tree[0] = Root
    <3>1. N - 1 - index = 0
      BY <2>2, SizeFacts DEF IInv
    <3> QED
      BY <3>1, RootOf DEF IInv, SszInv
  <2> QED
    BY <2>1, <2>2 DEF N
<1> QED
  BY <1>1, Inductive, PTL

\* The root is the only node of the last level.
LEMMA LastLevel ==
  ASSUME IInv, pc = "walking"
  PROVE  /\ Len(levels) \in 1..Len(levels) /\ M(Len(levels)) = 1
         /\ Root = levels[Len(levels)][1]
<1>1. Len(Last(levels)) = 1
  BY DEF IInv, WalkInv, PathsInv
<1>2. Len(levels) \in 1..Len(levels)
  BY SeqFacts DEF IInv, LevelsInv
<1> QED
  BY <1>1, <1>2 DEF M, Last, Root

\* The path the client keeps for an epoch leads from it to the root.
THEOREM Paths == Spec => []PathsReachRoot
<1>1. IInv => PathsReachRoot
  <2> SUFFICES ASSUME IInv, NEW i \in 1..Len(leaves),
                      Walked, leaf = leaves[i], path = paths[i], position = i - 1
               PROVE  current.hash = Root
    BY DEF PathsReachRoot
  <2>1. /\ walked + 1 = Len(levels) /\ M(walked + 1) = 1 /\ Root = levels[walked + 1][1]
    <3>1. pc = "walking" /\ walked = Len(path) /\ paths # <<>>
      BY DEF Walked, IInv, WalkInv
    <3>2. path \in ToSet(paths)
      <4>1. paths = [n \in 1..Len(leaves) |-> PathOf(n - 1)]
        BY <3>1 DEF IInv, PathsInv
      <4> QED
        BY <4>1 DEF ToSet
    <3>3. Len(path) = Len(levels) - 1 /\ Len(levels) \in Nat \ {0}
      BY <3>1, <3>2, KeptPath
    <3>4. walked + 1 = Len(levels)
      BY <3>1, <3>3
    <3> QED
      BY <3>1, <3>4, LastLevel
  <2>2. /\ current.index = CurrentIdx(i - 1, walked + 1)
        /\ current.hash = levels[walked + 1][current.index + 1]
    BY DEF IInv, WalkInv, Walked
  <2>3. Span(walked + 1) = N /\ i - 1 \in 0..(N - 1) /\ N \in Nat \ {0}
    <3>1. Len(levels) \in 1..Len(levels) /\ LevelsInv
      <4>1. LevelsInv /\ IsSeq(levels) /\ Len(levels) >= 1
        BY DEF IInv, LevelsInv
      <4> QED
        BY <4>1, SeqFacts
    <3>2. Span(walked + 1) \in Nat /\ Span(walked + 1) * M(walked + 1) = N
      BY <2>1, <3>1 DEF LevelsInv
    <3> DEFINE w == Span(walked + 1)
    <3>3. w \in Nat /\ w * 1 = N
      BY <2>1, <3>2
    <3> HIDE DEF w
    <3>4. w = N
      BY <3>3
    <3> QED
      BY <3>1, <3>4, SizeFacts DEF w
  <2>4. (N * 0 + (i - 1)) \div N = 0
    BY <2>3, DivUnique
  <2>5. CurrentIdx(i - 1, walked + 1) = 0
    BY <2>3, <2>4 DEF CurrentIdx
  <2> QED
    BY <2>1, <2>2, <2>5
<1> QED
  BY <1>1, Inductive, PTL

\* And with whatever path and position, a walk of an epoch that ends at the root
\* is as long as the tree is high and began at the leaf of that position.
THEOREM OnlyLeaves == Spec => []OnlyLeavesHavePaths
<1>1. IInv => OnlyLeavesHavePaths
  <2> SUFFICES ASSUME IInv, Walked, current.hash = Root
               PROVE  /\ Len(path) = Len(levels) - 1
                      /\ leaf = Padded(leaves, SszLen)[(position % SszLen) + 1]
    BY DEF OnlyLeavesHavePaths
  <2> DEFINE top == Len(levels)
  <2>1. /\ pc = "walking" /\ walked = Len(path) /\ walked \in Nat
        /\ current.index \in Nat
    BY DEF Walked, IInv, WalkInv
  <2>2. top \in 1..Len(levels) /\ M(top) = 1 /\ Root = levels[top][1]
    BY <2>1, LastLevel
  <2> HIDE DEF top
  <2>3. current.index % 1 = 0
    BY <2>1
  <2>4. current.hash = levels[top][(current.index % M(top)) + 1]
    BY <2>2, <2>3
  <2>5. top = walked + 1 /\ leaf = levels[1][(position % N) + 1]
    BY <2>1, <2>2, <2>4 DEF IInv, WalkInv
  <2>6. Len(path) = Len(levels) - 1
    BY <2>1, <2>5 DEF top
  <2> QED
    BY <2>5, <2>6 DEF IInv, LevelsInv, N
<1> QED
  BY <1>1, Inductive, PTL

\* The next power of two does not fall as the number of leaves grows.
LEMMA TreeSizeGrows ==
  ASSUME NEW m \in Nat \ {0}, NEW n \in Nat, m <= n
  PROVE  TreeSize(m) <= TreeSize(n)
<1>1. /\ TreeSize(m) \in m..(2 * m - 1)
      /\ \A p \in m..(2 * m - 1) : IsPowerOfTwo(p) => TreeSize(m) <= p
  BY TreeSizeFacts
<1>2. TreeSize(n) \in n..(2 * n - 1) /\ IsPowerOfTwo(TreeSize(n))
  <2>1. n \in Nat \ {0}
    OBVIOUS
  <2> QED
    BY <2>1, TreeSizeFacts
<1>3. CASE TreeSize(n) \in m..(2 * m - 1)
  BY <1>1, <1>2, <1>3
<1>4. CASE TreeSize(n) \notin m..(2 * m - 1)
  BY <1>1, <1>2, <1>4
<1> QED
  BY <1>3, <1>4

\* Types, and the bounds of every pointer and counter.
THEOREM TypeCorrect == Spec => []TypeOK
<1>1. IInv => TypeOK
  <2> SUFFICES ASSUME IInv PROVE TypeOK
    OBVIOUS
  <2>1. LevelsInv /\ BatchInv /\ SszInv /\ PathsInv /\ WalkInv
    BY DEF IInv
  <2>2. /\ N \in Nat \ {0} /\ Len(leaves) \in Nat \ {0} /\ N < 2 * Len(leaves)
    BY <2>1, SizeFacts
  <2>3. /\ leaves \in Seq({Leaf(i) : i \in 1..MaxLeaves}) /\ Len(leaves) \in 1..MaxLeaves
        /\ Len(levels) \in Nat /\ Len(levels) >= 1
    BY <2>1, SeqFacts DEF LevelsInv
  <2>4. Len(Last(levels)) \in 1..TreeSize(MaxLeaves)
    <3>1. Len(levels) \in 1..Len(levels)
      BY <2>3
    <3>2. M(Len(levels)) \in Nat \ {0} /\ M(Len(levels)) <= N
      BY <2>1, <3>1, LevelFacts
    <3>3. N <= TreeSize(MaxLeaves)
      BY <2>2, <2>3, LeavesAssumption, TreeSizeGrows DEF N, SszLen
    <3>4. TreeSize(MaxLeaves) \in Nat
      BY LeavesAssumption, TreeSizeFacts
    <3>5. M(Len(levels)) \in 1..TreeSize(MaxLeaves)
      BY <2>2, <3>2, <3>3, <3>4
    <3> QED
      BY <3>5 DEF M, Last
  <2>5. Len(paths) \in {0, Len(leaves)}
    <3>1. CASE paths = <<>>
      BY <3>1
    <3>2. CASE paths # <<>>
      <4>1. paths = [i \in 1..Len(leaves) |-> PathOf(i - 1)]
        BY <2>1, <3>2 DEF PathsInv
      <4> QED
        BY <2>2, <4>1, FunctionIsSeq
    <3> QED
      BY <3>1, <3>2
  <2>6. out_ptr \in DOMAIN tree /\ tree_ptr - 1 \in DOMAIN tree /\ steps \in 0..(Len(leaves) * 2)
    <3>1. /\ DOMAIN tree = 0..(2 * N - 2) /\ out_ptr \in 0..(N - 1)
          /\ tree_ptr = 2 * out_ptr + 1 /\ steps = out_ptr
      BY <2>1 DEF BatchInv, HeapInv
    <3> QED
      BY <2>2, <3>1
  <2>7. ssz_ptr - 1 \in DOMAIN ssz_tree /\ index \in 0..(SszLen - 1)
    <3>1. /\ DOMAIN ssz_tree = 0..(2 * N - 2) /\ index \in 0..(N - 1)
          /\ ssz_ptr = 2 * (N - 1 - index) + 1
      BY <2>1 DEF SszInv, HeapInv
    <3>2. ssz_ptr - 1 \in DOMAIN ssz_tree
      BY <2>2, <3>1
    <3> QED
      BY <3>1, <3>2 DEF N
  <2>8. pc \in {"waiting", "walking"} /\ walked \in 0..Len(path) /\ current.index \in 0..position
    <3>1. CASE pc = "waiting"
      BY <2>1, <3>1 DEF WalkInv
    <3>2. CASE pc = "walking"
      BY <2>1, <3>2 DEF WalkInv
    <3> QED
      BY <2>1, <3>1, <3>2 DEF WalkInv
  <2> QED
    BY <2>3, <2>4, <2>5, <2>6, <2>7, <2>8 DEF TypeOK
<1> QED
  BY <1>1, Inductive, PTL
===============================================================================
