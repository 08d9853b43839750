-------------------------- MODULE SyncAggregateProofs --------------------------
(***************************************************************************)
(* Proofs about SyncAggregate, for committees of every size and every      *)
(* distribution of the seats: the circuit's key is that of the seats that  *)
(* signed, and the contract's count counts them.                           *)
(***************************************************************************)
EXTENDS SyncAggregate, ArithmeticProofs, FiniteSetTheorems

\* The seats below n that validator v holds; those whose bit is clear; both.
Held(v, n)     == {s \in 0..(n - 1) : validator_pubs[s] = v}
Absent(n)      == {s \in 0..(n - 1) : ~ Signed(s)}
AbsentOf(v, n) == {s \in 0..(n - 1) : ~ Signed(s) /\ validator_pubs[s] = v}

\* The places of the list, from k on, with the key of v.
Listed(v, k)   == {p \in k..Len(non_signers) : non_signers[p] = Key(v)}

InputsInv ==
  /\ validator_pubs \in [Seats -> Validators]
  /\ sync_committee_bits \in [0..(Bytes - 1) -> SUBSET (0..(BitsPerByte - 1))]

FoldInv ==
  /\ added \in 0..Size
  /\ aggregate_pub = [v \in Validators |-> Cardinality(Held(v, added))]

BitsInv ==
  /\ byte \in 0..Bytes /\ i \in 0..(BitsPerByte - 1)
  /\ byte = Bytes => i = 0
  /\ bits \in Seq(BOOLEAN)
  /\ Len(bits) = byte * BitsPerByte + i
  /\ \A s \in 0..(Len(bits) - 1) : bits[s + 1] <=> Signed(s)

\* The list holds a validator's key as often as the validator was absent.
FilterInv ==
  /\ filtered \in 0..Size
  /\ non_signers \in Seq({Key(v) : v \in Validators})
  /\ Len(non_signers) = Cardinality(Absent(filtered))
  /\ \A v \in Validators :
       Cardinality(Listed(v, 1)) = Cardinality(AbsentOf(v, filtered))

\* So does the sum, of the part of the list that was added.
CircuitInv ==
  /\ pc \in {"client", "circuit", "done"}
  /\ byte # 0 \/ i # 0 => added = Size
  /\ filtered # 0 => byte = Bytes
  /\ pc # "client" => filtered = Size
  /\ unadded \in 0..Len(non_signers)
  /\ pc = "client" => unadded = 0 /\ res = Identity
  /\ pc # "client" => res = [v \in Validators |-> Cardinality(Listed(v, unadded + 1))]
  /\ pc # "done" => agg_pub = Identity /\ n_signers = 0
  /\ pc = "done" => /\ unadded = 0
                    /\ agg_pub = SignerKey(Len(non_signers))
                    /\ n_signers = CountSigners

IInv == InputsInv /\ FoldInv /\ BitsInv /\ FilterInv /\ CircuitInv

---------------------------------------------------------------------------
(* Counting. *)

LEMMA SizeType == Size \in Nat \ {0}
BY AggregateAssumption DEF Size

\* One more element that may or may not be of the set.
LEMMA CountNext ==
  ASSUME NEW S, IsFiniteSet(S), NEW x, x \notin S, NEW b \in BOOLEAN,
         NEW T, T = IF b THEN S \cup {x} ELSE S
  PROVE  /\ IsFiniteSet(T) /\ Cardinality(S) \in Nat
         /\ Cardinality(T) = Cardinality(S) + (IF b THEN 1 ELSE 0)
BY FS_AddElement, FS_CardinalityType

\* A set of seats, or of places of the list, is finite and no larger.
LEMMA CountBelow ==
  ASSUME NEW n \in Nat, NEW S \in SUBSET (0..(n - 1))
  PROVE  IsFiniteSet(S) /\ Cardinality(S) \in Nat /\ Cardinality(S) <= n
<1>1. IsFiniteSet(0..(n - 1)) /\ Cardinality(0..(n - 1)) = n
  BY FS_Interval
<1> QED
  BY <1>1, FS_Subset, FS_CardinalityType

LEMMA ListedFinite ==
  ASSUME NEW v, NEW k \in Nat, Len(non_signers) \in Nat
  PROVE  IsFiniteSet(Listed(v, k)) /\ Cardinality(Listed(v, k)) \in Nat
<1>1. IsFiniteSet(k..Len(non_signers)) /\ Listed(v, k) \subseteq k..Len(non_signers)
  BY FS_Interval DEF Listed
<1> QED
  BY <1>1, FS_Subset, FS_CardinalityType

LEMMA KeyIsOwn ==
  ASSUME NEW v \in Validators, NEW w \in Validators, Key(v) = Key(w)
  PROVE  v = w
<1>1. Key(v)[v] = 1 /\ Key(w)[v] = IF v = w THEN 1 ELSE 0
  BY DEF Key
<1> QED
  BY <1>1

LEMMA EmptyCount ==
  /\ Cardinality({}) = 0 /\ Cardinality(Absent(0)) = 0
  /\ \A v : Cardinality(Held(v, 0)) = 0 /\ Cardinality(AbsentOf(v, 0)) = 0
<1>1. \A v : Held(v, 0) = {} /\ AbsentOf(v, 0) = {}
  BY DEF Held, AbsentOf
<1>2. Absent(0) = {}
  BY DEF Absent
<1>3. Cardinality({}) = 0
  BY FS_EmptySet
<1>4. ASSUME NEW v PROVE Cardinality(Held(v, 0)) = 0 /\ Cardinality(AbsentOf(v, 0)) = 0
  <2>1. Held(v, 0) = {} /\ AbsentOf(v, 0) = {}
    BY <1>1
  <2> QED
    BY <1>3, <2>1
<1> QED
  BY <1>2, <1>3, <1>4

---------------------------------------------------------------------------
(* Each action keeps the invariant. *)

LEMMA InitInv == Init => IInv
<1> SUFFICES ASSUME Init PROVE IInv
  OBVIOUS
<1>1. Size \in Nat \ {0}
  BY SizeType
<1>2. InputsInv
  BY DEF Init, InputsInv
<1>3. FoldInv
  <2>1. added = 0 /\ aggregate_pub = [v \in Validators |-> 0]
    BY DEF Init, Identity
  <2>2. \A v \in Validators : Cardinality(Held(v, added)) = 0
    BY <2>1, EmptyCount
  <2> QED
    BY <1>1, <2>1, <2>2 DEF FoldInv
<1>4. BitsInv
  BY AggregateAssumption DEF Init, BitsInv
<1>5. FilterInv
  <2>1. non_signers = <<>> /\ filtered = 0
    BY DEF Init
  <2>2. ASSUME NEW v \in Validators
        PROVE  Cardinality(Listed(v, 1)) = Cardinality(AbsentOf(v, filtered))
    <3>1. Listed(v, 1) = {}
      BY <2>1 DEF Listed
    <3>2. Cardinality(AbsentOf(v, filtered)) = 0
      BY <2>1, EmptyCount
    <3> QED
      BY <3>1, <3>2, EmptyCount
  <2>3. Len(non_signers) = Cardinality(Absent(filtered))
    BY <2>1, EmptyCount
  <2>4. non_signers \in Seq({Key(v) : v \in Validators})
    BY <2>1
  <2> QED
    BY <1>1, <2>1, <2>2, <2>3, <2>4 DEF FilterInv
<1>6. CircuitInv
  BY DEF Init, CircuitInv
<1> QED
  BY <1>2, <1>3, <1>4, <1>5, <1>6 DEF IInv

LEMMA AddPubkeyInv ==
  ASSUME IInv, AddPubkey
  PROVE  IInv'
<1>1. /\ added \in 0..(Size - 1) /\ Size \in Nat
      /\ added' = added + 1 /\ added' \in 0..Size
  BY SizeType DEF IInv, FoldInv, AddPubkey
<1>2. UNCHANGED <<inputs, bits, byte, i, non_signers, filtered, pc, circuit>>
  BY DEF AddPubkey
<1>3. ASSUME NEW v \in Validators
      PROVE  Cardinality(Held(v, added + 1)) =
               Cardinality(Held(v, added)) + (IF validator_pubs[added] = v THEN 1 ELSE 0)
  <2> DEFINE b == validator_pubs[added] = v
             S == Held(v, added)
             T == Held(v, added + 1)
  <2>1. S \in SUBSET (0..(added - 1)) /\ added \notin S
    BY <1>1 DEF Held
  <2>2. T = IF b THEN S \cup {added} ELSE S
    BY <1>1 DEF Held
  <2>3. IsFiniteSet(S)
    BY <1>1, <2>1, CountBelow
  <2>4. b \in BOOLEAN
    OBVIOUS
  <2> HIDE DEF S, T, b
  <2>5. Cardinality(T) = Cardinality(S) + (IF b THEN 1 ELSE 0)
    BY <2>1, <2>2, <2>3, <2>4, CountNext
  <2> QED
    BY <2>5 DEF S, T, b
<1>4. aggregate_pub' = [v \in Validators |-> Cardinality(Held(v, added + 1))]
  <2>1. validator_pubs[added] \in Validators
    BY <1>1 DEF IInv, InputsInv, Seats
  <2>2. aggregate_pub' = [v \in Validators |->
          aggregate_pub[v] + (IF v = validator_pubs[added] THEN 1 ELSE 0)]
    BY DEF AddPubkey, Add, Key
  <2>3. \A v \in Validators : aggregate_pub[v] = Cardinality(Held(v, added))
    BY DEF IInv, FoldInv
  <2> QED
    BY <1>3, <2>2, <2>3
<1>5. FoldInv'
  BY <1>1, <1>2, <1>4 DEF FoldInv, Held, inputs
<1>6. InputsInv' /\ BitsInv' /\ FilterInv'
  BY <1>2 DEF IInv, InputsInv, BitsInv, FilterInv, inputs, Signed, Absent, AbsentOf, Listed
<1>7. CircuitInv'
  <2>1. filtered = 0 /\ byte = 0 /\ i = 0
    BY <1>1, AggregateAssumption DEF IInv, CircuitInv
  <2>2. pc = "client"
    BY DEF AddPubkey
  <2> QED
    BY <1>2, <2>1, <2>2 DEF IInv, CircuitInv, circuit
<1> QED
  BY <1>5, <1>6, <1>7 DEF IInv

\* The bit of a seat, where the array has it.
LEMMA SignedBit ==
  ASSUME NEW b \in Nat, NEW k \in 0..(BitsPerByte - 1)
  PROVE  Signed(b * BitsPerByte + k) <=> IsSet(b, k)
<1> DEFINE n == BitsPerByte
           x == n * b + k
<1>1. n \in Nat \ {0}
  BY AggregateAssumption
<1> HIDE DEF n
<1>2. x \div n = b
  BY <1>1, DivUnique DEF n
<1>3. x \in Nat
  BY <1>1 DEF n
<1>4. x = n * (x \div n) + (x % n) /\ x % n \in Nat
  BY <1>1, <1>3
<1>5. x % n = k
  BY <1>1, <1>2, <1>4 DEF n
<1>6. b * n + k = x
  BY <1>1
<1> QED
  BY <1>2, <1>5, <1>6 DEF Signed, IsSet, n

LEMMA ConvertBitInv ==
  ASSUME IInv, ConvertBit
  PROVE  IInv'
<1> DEFINE n == BitsPerByte
           l == Len(bits)
<1>1. /\ n \in Nat \ {0} /\ Bytes \in Nat /\ byte \in 0..(Bytes - 1) /\ i \in 0..(n - 1)
      /\ bits \in Seq(BOOLEAN) /\ l = byte * n + i /\ l \in Nat
      /\ \A s \in 0..(l - 1) : bits[s + 1] <=> Signed(s)
  BY AggregateAssumption DEF IInv, BitsInv, ConvertBit
<1>2. UNCHANGED <<inputs, aggregate_pub, added, non_signers, filtered, pc, circuit>>
  BY DEF ConvertBit
<1>3. bits' = Append(bits, IsSet(byte, i))
  BY DEF ConvertBit
<1>4. IsSet(byte, i) \in BOOLEAN /\ (IsSet(byte, i) <=> Signed(l))
  <2>1. Signed(byte * BitsPerByte + i) <=> IsSet(byte, i)
    BY <1>1, SignedBit
  <2>2. IsSet(byte, i) \in BOOLEAN
    BY DEF IsSet
  <2> QED
    BY <1>1, <2>1, <2>2
<1>5. /\ bits' \in Seq(BOOLEAN) /\ Len(bits') = l + 1
      /\ \A s \in 1..l : bits'[s] = bits[s]
      /\ bits'[l + 1] = IsSet(byte, i)
  <2> DEFINE x == IsSet(byte, i)
  <2>1. x \in BOOLEAN /\ bits \in Seq(BOOLEAN) /\ bits' = Append(bits, x)
    BY <1>1, <1>3, <1>4
  <2> HIDE DEF x
  <2>2. /\ bits' \in Seq(BOOLEAN) /\ Len(bits') = l + 1
        /\ \A s \in 1..l : bits'[s] = bits[s]
        /\ bits'[l + 1] = x
    BY <2>1
  <2> QED
    BY <2>2 DEF x
<1>6. \A s \in 0..(l + 1 - 1) : bits'[s + 1] <=> Signed(s)
  <2> SUFFICES ASSUME NEW s \in 0..l PROVE bits'[s + 1] <=> Signed(s)
    BY <1>1
  <2> HIDE DEF l
  <2>1. CASE s = l
    BY <1>4, <1>5, <2>1
  <2>2. CASE s # l
    <3>1. s \in 0..(l - 1) /\ s + 1 \in 1..l
      BY <1>1, <2>2
    <3> QED
      BY <1>1, <1>5, <3>1
  <2> QED
    BY <2>1, <2>2
<1>7. /\ byte' \in 0..Bytes /\ i' \in 0..(n - 1) /\ (byte' = Bytes => i' = 0)
      /\ l + 1 = byte' * n + i'
  <2> HIDE DEF n, l
  <2>1. CASE i + 1 < n /\ i' = i + 1 /\ byte' = byte
    BY <1>1, <2>1
  <2>2. CASE i + 1 = n /\ i' = 0 /\ byte' = byte + 1
    <3>1. (byte + 1) * n = byte * n + n
      BY <1>1
    <3> QED
      BY <1>1, <2>2, <3>1
  <2> QED
    BY <2>1, <2>2 DEF ConvertBit, n
<1>8. BitsInv'
  <2>1. \A s \in 0..(Len(bits') - 1) : bits'[s + 1] <=> Signed(s)'
    BY <1>2, <1>5, <1>6 DEF Signed, inputs
  <2> QED
    BY <1>5, <1>7, <2>1 DEF BitsInv
<1>9. InputsInv' /\ FoldInv' /\ FilterInv'
  BY <1>2 DEF IInv, InputsInv, FoldInv, FilterInv, inputs, Held, Signed, Absent, AbsentOf,
              Listed
<1>10. CircuitInv'
  <2>1. filtered = 0
    BY <1>1 DEF IInv, CircuitInv
  <2>2. pc = "client" /\ added = Size
    BY DEF ConvertBit
  <2> QED
    BY <1>2, <2>1, <2>2 DEF IInv, CircuitInv, circuit
<1> QED
  BY <1>8, <1>9, <1>10 DEF IInv

\* One seat more, absent or not.
LEMMA AbsentNext ==
  ASSUME InputsInv, NEW n \in 0..(Size - 1)
  PROVE  /\ Cardinality(Absent(n + 1)) =
              Cardinality(Absent(n)) + (IF ~ Signed(n) THEN 1 ELSE 0)
         /\ \A v : Cardinality(AbsentOf(v, n + 1)) = Cardinality(AbsentOf(v, n)) +
                     (IF ~ Signed(n) /\ validator_pubs[n] = v THEN 1 ELSE 0)
         /\ Cardinality(Absent(n)) \in Nat /\ \A v : Cardinality(AbsentOf(v, n)) \in Nat
<1>1. n \in Nat
  BY SizeType
<1>2. /\ Cardinality(Absent(n + 1)) =
           Cardinality(Absent(n)) + (IF ~ Signed(n) THEN 1 ELSE 0)
      /\ Cardinality(Absent(n)) \in Nat
  <2> DEFINE b == ~ Signed(n)
             S == Absent(n)
             T == Absent(n + 1)
  <2>1. S \in SUBSET (0..(n - 1)) /\ n \notin S
    BY <1>1 DEF Absent
  <2>2. T = IF b THEN S \cup {n} ELSE S
    BY <1>1 DEF Absent
  <2>3. IsFiniteSet(S) /\ b \in BOOLEAN
    BY <1>1, <2>1, CountBelow
  <2> HIDE DEF S, T, b
  <2>4. Cardinality(T) = Cardinality(S) + (IF b THEN 1 ELSE 0) /\ Cardinality(S) \in Nat
    BY <2>1, <2>2, <2>3, CountNext
  <2> QED
    BY <2>4 DEF S, T, b
<1>3. ASSUME NEW v
      PROVE  /\ Cardinality(AbsentOf(v, n + 1)) = Cardinality(AbsentOf(v, n)) +
                  (IF ~ Signed(n) /\ validator_pubs[n] = v THEN 1 ELSE 0)
             /\ Cardinality(AbsentOf(v, n)) \in Nat
  <2> DEFINE b == ~ Signed(n) /\ validator_pubs[n] = v
             S == AbsentOf(v, n)
             T == AbsentOf(v, n + 1)
  <2>1. S \in SUBSET (0..(n - 1)) /\ n \notin S
    BY <1>1 DEF AbsentOf
  <2>2. T = IF b THEN S \cup {n} ELSE S
    BY <1>1 DEF AbsentOf
  <2>3. IsFiniteSet(S) /\ b \in BOOLEAN
    BY <1>1, <2>1, CountBelow
  <2> HIDE DEF S, T, b
  <2>4. Cardinality(T) = Cardinality(S) + (IF b THEN 1 ELSE 0) /\ Cardinality(S) \in Nat
    BY <2>1, <2>2, <2>3, CountNext
  <2> QED
    BY <2>4 DEF S, T, b
<1> QED
  BY <1>2, <1>3

\* A key more in the list.
LEMMA ListNext ==
  ASSUME NEW w \in Validators, non_signers \in Seq({Key(v) : v \in Validators}),
         non_signers' = Append(non_signers, Key(w))
  PROVE  /\ non_signers' \in Seq({Key(v) : v \in Validators})
         /\ Len(non_signers) \in Nat /\ Len(non_signers') = Len(non_signers) + 1
         /\ \A v \in Validators : Cardinality(Listed(v, 1)') = Cardinality(Listed(v, 1)) +
                                    (IF w = v THEN 1 ELSE 0)
<1> DEFINE l == Len(non_signers)
<1>1. /\ non_signers' \in Seq({Key(v) : v \in Validators})
      /\ l \in Nat /\ Len(non_signers') = l + 1
      /\ \A p \in 1..l : non_signers'[p] = non_signers[p]
      /\ non_signers'[l + 1] = Key(w)
  <2> DEFINE x == Key(w)
             K == {Key(v) : v \in Validators}
  <2>1. x \in K /\ non_signers \in Seq(K) /\ non_signers' = Append(non_signers, x)
    OBVIOUS
  <2> HIDE DEF x, K
  <2>2. /\ non_signers' \in Seq(K) /\ l \in Nat /\ Len(non_signers') = l + 1
        /\ \A p \in 1..l : non_signers'[p] = non_signers[p]
        /\ non_signers'[l + 1] = x
    BY <2>1
  <2> QED
    BY <2>2 DEF x, K
<1>2. ASSUME NEW v \in Validators
      PROVE  Cardinality(Listed(v, 1)') = Cardinality(Listed(v, 1)) +
               (IF w = v THEN 1 ELSE 0)
  <2> DEFINE b == w = v
             S == Listed(v, 1)
             T == {p \in 1..(l + 1) : non_signers'[p] = Key(v)}
  <2>1. IsFiniteSet(S) /\ l + 1 \notin S
    BY <1>1, ListedFinite DEF Listed
  <2>2. b <=> Key(w) = Key(v)
    BY KeyIsOwn
  <2> HIDE DEF l, b
  <2>3. T = IF b THEN S \cup {l + 1} ELSE S
    BY <1>1, <2>2 DEF Listed, l
  <2>4. Listed(v, 1)' = T
    BY <1>1 DEF Listed
  <2>5. b \in BOOLEAN
    BY DEF b
  <2> HIDE DEF S, T
  <2>6. Cardinality(T) = Cardinality(S) + (IF b THEN 1 ELSE 0)
    BY <2>1, <2>3, <2>5, CountNext
  <2> QED
    BY <2>4, <2>6 DEF S, b
<1> QED
  BY <1>1, <1>2

LEMMA FilterSeatInv ==
  ASSUME IInv, FilterSeat
  PROVE  IInv'
<1>1. /\ filtered \in 0..(Size - 1) /\ Size \in Nat /\ filtered' = filtered + 1
      /\ byte = Bytes /\ pc = "client"
  BY SizeType DEF IInv, FilterInv, FilterSeat
<1>2. UNCHANGED <<inputs, aggregate_pub, added, bits, byte, i, pc, circuit>>
  BY DEF FilterSeat
<1>3. bits[filtered + 1] <=> Signed(filtered)
  <2>1. Len(bits) = Size
    BY <1>1, SizeType, AggregateAssumption DEF IInv, BitsInv, Size
  <2> QED
    BY <1>1, <2>1 DEF IInv, BitsInv
<1> DEFINE w == validator_pubs[filtered]
<1>4. w \in Validators
  BY <1>1 DEF IInv, InputsInv, Seats
<1>5. non_signers' = IF ~ Signed(filtered) THEN Append(non_signers, Key(w)) ELSE non_signers
  BY <1>3 DEF FilterSeat
<1>6. /\ non_signers \in Seq({Key(v) : v \in Validators})
      /\ Len(non_signers) = Cardinality(Absent(filtered))
      /\ \A v \in Validators :
           Cardinality(Listed(v, 1)) = Cardinality(AbsentOf(v, filtered))
  BY DEF IInv, FilterInv
<1>7. /\ Cardinality(Absent(filtered + 1)) =
           Cardinality(Absent(filtered)) + (IF ~ Signed(filtered) THEN 1 ELSE 0)
      /\ \A v : Cardinality(AbsentOf(v, filtered + 1)) = Cardinality(AbsentOf(v, filtered)) +
                  (IF ~ Signed(filtered) /\ w = v THEN 1 ELSE 0)
      /\ Cardinality(Absent(filtered)) \in Nat
      /\ \A v : Cardinality(AbsentOf(v, filtered)) \in Nat
  BY <1>1, AbsentNext DEF IInv
<1> HIDE DEF w
<1>8. /\ non_signers' \in Seq({Key(v) : v \in Validators})
      /\ Len(non_signers') = Cardinality(Absent(filtered + 1))
      /\ \A v \in Validators :
           Cardinality(Listed(v, 1)') = Cardinality(AbsentOf(v, filtered + 1))
      /\ Len(non_signers') \in Nat /\ Len(non_signers') >= Len(non_signers)
  <2>1. CASE ~ Signed(filtered)
    <3>1. non_signers' = Append(non_signers, Key(w))
      BY <1>5, <2>1
    <3>2. /\ non_signers' \in Seq({Key(v) : v \in Validators})
          /\ Len(non_signers) \in Nat /\ Len(non_signers') = Len(non_signers) + 1
          /\ \A v \in Validators : Cardinality(Listed(v, 1)') = Cardinality(Listed(v, 1)) +
                                     (IF w = v THEN 1 ELSE 0)
      BY <1>4, <1>6, <3>1, ListNext
    <3> QED
      BY <1>6, <1>7, <2>1, <3>2
  <2>2. CASE Signed(filtered)
    <3>1. non_signers' = non_signers
      BY <1>5, <2>2
    <3>2. \A v : Listed(v, 1)' = Listed(v, 1)
      BY <3>1 DEF Listed
    <3> QED
      BY <1>6, <1>7, <2>2, <3>1, <3>2
  <2> QED
    BY <2>1, <2>2
<1>9. FilterInv'
  <2>1. Absent(filtered)' = Absent(filtered + 1)
    BY <1>1, <1>2 DEF Absent, Signed, inputs
  <2>2. \A v : AbsentOf(v, filtered)' = AbsentOf(v, filtered + 1)
    BY <1>1, <1>2 DEF AbsentOf, Signed, inputs
  <2>3. filtered' \in 0..Size
    BY <1>1
  <2> QED
    BY <1>8, <2>1, <2>2, <2>3 DEF FilterInv
<1>10. InputsInv' /\ FoldInv' /\ BitsInv'
  BY <1>2 DEF IInv, InputsInv, FoldInv, BitsInv, inputs, Held, Signed
<1>11. CircuitInv'
  <2>1. byte = Bytes /\ added = Size
    BY <1>1, AggregateAssumption DEF IInv, CircuitInv
  <2>2. unadded' = 0 /\ res' = Identity /\ agg_pub' = Identity /\ n_signers' = 0
    BY <1>1, <1>2 DEF IInv, CircuitInv, circuit
  <2> QED
    BY <1>1, <1>2, <1>8, <2>1, <2>2 DEF CircuitInv
<1> QED
  BY <1>9, <1>10, <1>11 DEF IInv

LEMMA ReadInputsInv ==
  ASSUME IInv, ReadInputs
  PROVE  IInv'
<1>1. /\ UNCHANGED <<inputs, client, res, agg_pub, n_signers>>
      /\ pc = "client" /\ pc' = "circuit" /\ unadded' = Len(non_signers)
      /\ filtered = Size
  BY DEF ReadInputs
<1>2. Len(non_signers) \in Nat
  BY DEF IInv, FilterInv
<1>3. \A v \in Validators : Cardinality(Listed(v, Len(non_signers) + 1)) = 0
  <2> TAKE v \in Validators
  <2>1. Listed(v, Len(non_signers) + 1) = {}
    BY <1>2 DEF Listed
  <2> QED
    BY <2>1, FS_EmptySet
<1>4. InputsInv' /\ FoldInv' /\ BitsInv' /\ FilterInv'
  BY <1>1 DEF IInv, InputsInv, FoldInv, BitsInv, FilterInv, inputs, client, Held, Signed,
              Absent, AbsentOf, Listed
<1>5. res' = [v \in Validators |-> Cardinality(Listed(v, Len(non_signers) + 1))]
  <2>1. res' = [v \in Validators |-> 0]
    BY <1>1 DEF IInv, CircuitInv, Identity
  <2> QED
    BY <1>3, <2>1
<1>6. res' = [v \in Validators |-> Cardinality(Listed(v, unadded + 1)')]
  BY <1>1, <1>5 DEF client, Listed
<1>7. CircuitInv'
  <2>1. unadded' \in 0..Len(non_signers')
    BY <1>1, <1>2 DEF client
  <2> QED
    BY <1>1, <1>6, <2>1 DEF IInv, CircuitInv, client
<1> QED
  BY <1>4, <1>7 DEF IInv

LEMMA AddNonSignerInv ==
  ASSUME IInv, AddNonSigner
  PROVE  IInv'
<1> DEFINE l == Len(non_signers)
           u == unadded
<1>1. /\ UNCHANGED <<inputs, client, pc, agg_pub, n_signers>>
      /\ pc = "circuit" /\ u \in 1..l /\ l \in Nat /\ unadded' = u - 1
      /\ res = [v \in Validators |-> Cardinality(Listed(v, u + 1))]
      /\ res' = IF u = l THEN non_signers[u] ELSE Add(res, non_signers[u])
  BY DEF AddNonSigner, IsBaseCase, IInv, CircuitInv, FilterInv
<1>2. PICK w \in Validators : non_signers[u] = Key(w)
  <2>1. non_signers[u] \in {Key(v) : v \in Validators}
    BY <1>1 DEF IInv, FilterInv
  <2> QED
    BY <2>1
<1>3. ASSUME NEW v \in Validators
      PROVE  /\ Cardinality(Listed(v, u)) =
                  Cardinality(Listed(v, u + 1)) + (IF w = v THEN 1 ELSE 0)
             /\ u = l => Cardinality(Listed(v, u + 1)) = 0
             /\ Cardinality(Listed(v, u + 1)) \in Nat
  <2> DEFINE b == w = v
             S == Listed(v, u + 1)
             T == Listed(v, u)
  <2>1. IsFiniteSet(S)
    BY <1>1, ListedFinite
  <2>2. u \notin S
    BY <1>1 DEF Listed
  <2>3. b <=> non_signers[u] = Key(v)
    BY <1>2, KeyIsOwn
  <2> HIDE DEF b
  <2>4. T = IF b THEN S \cup {u} ELSE S
    BY <1>1, <2>3 DEF Listed
  <2>5. b \in BOOLEAN
    BY DEF b
  <2>6. u = l => S = {}
    BY <1>1 DEF Listed
  <2> HIDE DEF S, T, u
  <2>7. Cardinality(T) = Cardinality(S) + (IF b THEN 1 ELSE 0) /\ Cardinality(S) \in Nat
    BY <2>1, <2>2, <2>4, <2>5, CountNext
  <2>8. u = l => Cardinality(S) = 0
    BY <2>6, FS_EmptySet
  <2> QED
    BY <2>7, <2>8 DEF S, T, b
<1>4. res' = [v \in Validators |-> Cardinality(Listed(v, u))]
  <2> HIDE DEF u, l
  <2>1. Key(w) = [v \in Validators |-> IF v = w THEN 1 ELSE 0]
    BY DEF Key
  <2>2. CASE u = l
    <3>1. res' = Key(w)
      BY <1>1, <1>2, <2>2
    <3>2. \A v \in Validators : Cardinality(Listed(v, u)) = IF v = w THEN 1 ELSE 0
      BY <1>3, <2>2
    <3> QED
      BY <2>1, <3>1, <3>2
  <2>3. CASE u # l
    <3>1. res' = Add(res, Key(w))
      BY <1>1, <1>2, <2>3
    <3>2. res' = [v \in Validators |->
                    Cardinality(Listed(v, u + 1)) + (IF v = w THEN 1 ELSE 0)]
      BY <1>1, <2>1, <3>1 DEF Add
    <3> QED
      BY <1>3, <3>2
  <2> QED
    BY <2>2, <2>3
<1>5. InputsInv' /\ FoldInv' /\ BitsInv' /\ FilterInv'
  BY <1>1 DEF IInv, InputsInv, FoldInv, BitsInv, FilterInv, inputs, client, Held, Signed,
              Absent, AbsentOf, Listed
<1>6. \A v : Listed(v, unadded + 1)' = Listed(v, u)
  <2>1. unadded' + 1 = u
    BY <1>1
  <2> QED
    BY <1>1, <2>1 DEF Listed, client
<1>7. CircuitInv'
  <2>1. unadded' \in 0..Len(non_signers')
    BY <1>1 DEF client
  <2>2. res' = [v \in Validators |-> Cardinality(Listed(v, unadded + 1)')]
    BY <1>4, <1>6
  <2> QED
    BY <1>1, <2>1, <2>2 DEF IInv, CircuitInv, client
<1> QED
  BY <1>5, <1>7 DEF IInv

LEMMA AggregateInv ==
  ASSUME IInv, Aggregate
  PROVE  IInv'
<1>1. UNCHANGED <<inputs, client, unadded, res>>
  BY DEF Aggregate
<1>2. InputsInv' /\ FoldInv' /\ BitsInv' /\ FilterInv'
  BY <1>1 DEF IInv, InputsInv, FoldInv, BitsInv, FilterInv, inputs, client, Held, Signed,
              Absent, AbsentOf, Listed
<1>3. CircuitInv'
  BY <1>1 DEF IInv, CircuitInv, Aggregate, client, Listed, SignerKey, CountSigners
<1> QED
  BY <1>2, <1>3 DEF IInv

LEMMA StepInv == IInv /\ [Next]_vars => IInv'
<1> SUFFICES ASSUME IInv, [Next]_vars PROVE IInv'
  OBVIOUS
<1>1. CASE UNCHANGED vars
  <2>1. UNCHANGED <<inputs, client, pc, circuit>>
    BY <1>1 DEF vars
  <2>2. InputsInv' /\ FoldInv' /\ BitsInv' /\ FilterInv'
    BY <2>1 DEF IInv, InputsInv, FoldInv, BitsInv, FilterInv, inputs, client, Held, Signed,
                Absent, AbsentOf, Listed
  <2>3. CircuitInv'
    BY <2>1 DEF IInv, CircuitInv, client, circuit, Listed, SignerKey, CountSigners
  <2> QED
    BY <2>2, <2>3 DEF IInv
<1>2. CASE Next
  BY <1>2, AddPubkeyInv, ConvertBitInv, FilterSeatInv, ReadInputsInv, AddNonSignerInv,
     AggregateInv DEF Next
<1> QED
  BY <1>1, <1>2

THEOREM Inductive == Spec => []IInv
<1> QED
  BY InitInv, StepInv, PTL DEF Spec

---------------------------------------------------------------------------
(* The results. *)

\* The seats are those that signed and those that did not, and so are those of
\* each validator.
LEMMA Partition ==
  /\ Cardinality({s \in Seats : Signed(s)}) = Size - Cardinality(Absent(Size))
  /\ \A v : Cardinality({s \in Seats : Signed(s) /\ validator_pubs[s] = v}) =
              Cardinality(Held(v, Size)) - Cardinality(AbsentOf(v, Size))
<1>1. Size \in Nat /\ Seats = 0..(Size - 1)
  BY SizeType DEF Seats
<1>2. ASSUME NEW S, NEW A, NEW H, H \in SUBSET Seats, S \cup A = H, S \cap A = {}
      PROVE  Cardinality(S) = Cardinality(H) - Cardinality(A)
  <2>1. S \in SUBSET (0..(Size - 1)) /\ A \in SUBSET (0..(Size - 1))
    BY <1>1, <1>2
  <2>2. /\ IsFiniteSet(S) /\ Cardinality(S) \in Nat
        /\ IsFiniteSet(A) /\ Cardinality(A) \in Nat
    BY <1>1, <2>1, CountBelow
  <2>3. Cardinality(S \cup A) = Cardinality(S) + Cardinality(A) - Cardinality(S \cap A)
    BY <2>2, FS_Union
  <2>4. Cardinality(S \cap A) = 0
    BY <1>2, FS_EmptySet
  <2> QED
    BY <1>2, <2>2, <2>3, <2>4
<1>3. Cardinality(Seats) = Size
  BY <1>1, FS_Interval
<1>4. Cardinality({s \in Seats : Signed(s)}) = Size - Cardinality(Absent(Size))
  <2> DEFINE S == {s \in Seats : Signed(s)}
  <2>1. S \cup Absent(Size) = Seats /\ S \cap Absent(Size) = {}
    BY <1>1 DEF Absent
  <2> HIDE DEF S
  <2>2. Cardinality(S) = Cardinality(Seats) - Cardinality(Absent(Size))
    BY <1>2, <2>1
  <2> QED
    BY <1>3, <2>2 DEF S
<1>5. ASSUME NEW v
      PROVE  Cardinality({s \in Seats : Signed(s) /\ validator_pubs[s] = v}) =
               Cardinality(Held(v, Size)) - Cardinality(AbsentOf(v, Size))
  <2> DEFINE S == {s \in Seats : Signed(s) /\ validator_pubs[s] = v}
  <2>1. /\ S \cup AbsentOf(v, Size) = Held(v, Size) /\ S \cap AbsentOf(v, Size) = {}
        /\ Held(v, Size) \in SUBSET Seats
    BY <1>1 DEF AbsentOf, Held
  <2> HIDE DEF S
  <2>2. Cardinality(S) = Cardinality(Held(v, Size)) - Cardinality(AbsentOf(v, Size))
    BY <1>2, <2>1
  <2> QED
    BY <2>2 DEF S
<1> QED
  BY <1>4, <1>5

\* What a finished circuit has computed.
LEMMA Finished ==
  ASSUME IInv, pc = "done"
  PROVE  /\ added = Size /\ filtered = Size /\ unadded = 0
         /\ agg_pub = [v \in Validators |->
                         Cardinality(Held(v, Size)) - Cardinality(AbsentOf(v, Size))]
         /\ n_signers = Size - Cardinality(Absent(Size))
<1>1. /\ filtered = Size /\ unadded = 0
      /\ agg_pub = SignerKey(Len(non_signers)) /\ n_signers = CountSigners
      /\ res = [v \in Validators |-> Cardinality(Listed(v, unadded + 1))]
  BY DEF IInv, CircuitInv
<1>2. added = Size
  <2>1. byte # 0
    BY <1>1, SizeType, AggregateAssumption DEF IInv, CircuitInv
  <2> QED
    BY <2>1 DEF IInv, CircuitInv
<1>3. unadded + 1 = 1
  BY <1>1
<1>4. /\ Len(non_signers) \in Nat /\ Len(non_signers) = Cardinality(Absent(Size))
      /\ \A v \in Validators : Cardinality(Listed(v, 1)) = Cardinality(AbsentOf(v, Size))
  BY <1>1 DEF IInv, FilterInv
<1>5. res = [v \in Validators |-> Cardinality(AbsentOf(v, Size))]
  BY <1>1, <1>3, <1>4
<1>6. aggregate_pub = [v \in Validators |-> Cardinality(Held(v, Size))]
  BY <1>2 DEF IInv, FoldInv
<1>7. agg_pub = [v \in Validators |->
                   Cardinality(Held(v, Size)) - Cardinality(AbsentOf(v, Size))]
  <2>1. CASE Len(non_signers) # 0
    BY <1>1, <1>5, <1>6, <2>1 DEF SignerKey, Sub
  <2>2. CASE Len(non_signers) = 0
    <3>1. ASSUME NEW v \in Validators
          PROVE  Cardinality(AbsentOf(v, Size)) = 0
      <4>1. Listed(v, 1) = {}
        BY <2>2 DEF Listed
      <4> QED
        BY <1>4, <4>1, FS_EmptySet
    <3>2. ASSUME NEW v \in Validators
          PROVE  Cardinality(Held(v, Size)) \in Nat
      <4>1. Held(v, Size) \in SUBSET (0..(Size - 1))
        BY DEF Held
      <4> QED
        BY <4>1, SizeType, CountBelow
    <3>3. agg_pub = aggregate_pub
      BY <1>1, <2>2 DEF SignerKey
    <3>4. \A v \in Validators : Cardinality(Held(v, Size)) - Cardinality(AbsentOf(v, Size)) =
                                  Cardinality(Held(v, Size))
      BY <3>1, <3>2
    <3> QED
      BY <1>6, <3>3, <3>4
  <2> QED
    BY <2>1, <2>2
<1>8. n_signers = Size - Cardinality(Absent(Size))
  BY <1>1, <1>4 DEF CountSigners
<1> QED
  BY <1>1, <1>2, <1>7, <1>8

\* The signature is checked against the sum of the keys of exactly the seats
\* that signed, for any size, committee and participation.
THEOREM SignersKey == Spec => []KeyIsOfSigners
<1>1. IInv => KeyIsOfSigners
  <2> SUFFICES ASSUME IInv, pc = "done", NEW v \in Validators
               PROVE  agg_pub[v] =
                        Cardinality({s \in Seats : Signed(s) /\ validator_pubs[s] = v})
    BY DEF KeyIsOfSigners
  <2>1. agg_pub[v] = Cardinality(Held(v, Size)) - Cardinality(AbsentOf(v, Size))
    BY Finished
  <2> QED
    BY <2>1, Partition
<1> QED
  BY <1>1, Inductive, PTL

\* n_signers is the number of seats that signed.
THEOREM SignersCount == Spec => []CountIsOfSeats
<1>1. IInv => CountIsOfSeats
  <2> SUFFICES ASSUME IInv, pc = "done"
               PROVE  n_signers = Cardinality({s \in Seats : Signed(s)})
    BY DEF CountIsOfSeats
  <2> QED
    BY Finished, Partition
<1> QED
  BY <1>1, Inductive, PTL

\* Types; no sum exceeds the number of seats, and the subtraction of the
\* circuit never takes more from the committee's key than is in it.
THEOREM TypeCorrect == Spec => []TypeOK
<1>1. IInv => TypeOK
  <2> SUFFICES ASSUME IInv PROVE TypeOK
    OBVIOUS
  <2>1. Size \in Nat
    BY SizeType
  <2>2. /\ pc \in {"client", "circuit", "done"}
        /\ added \in 0..Size /\ filtered \in 0..Size
        /\ byte \in 0..Bytes /\ i \in 0..(BitsPerByte - 1)
        /\ bits \in Seq(BOOLEAN)
        /\ unadded \in 0..Len(non_signers)
    BY DEF IInv, FoldInv, BitsInv, FilterInv, CircuitInv
  <2>3. aggregate_pub \in [Validators -> 0..Size]
    <3>1. ASSUME NEW v \in Validators PROVE Cardinality(Held(v, added)) \in 0..Size
      <4>1. Held(v, added) \in SUBSET (0..(Size - 1))
        BY <2>1, <2>2 DEF Held
      <4> QED
        BY <2>1, <4>1, CountBelow
    <3> QED
      BY <3>1 DEF IInv, FoldInv
  <2>4. Len(non_signers) \in 0..Size
    <3>1. Absent(filtered) \in SUBSET (0..(Size - 1))
      BY <2>1, <2>2 DEF Absent
    <3>2. Cardinality(Absent(filtered)) \in 0..Size
      BY <2>1, <3>1, CountBelow
    <3> QED
      BY <3>2 DEF IInv, FilterInv
  <2>5. res \in [Validators -> 0..Size]
    <3>1. CASE pc = "client"
      BY <2>1, <3>1 DEF IInv, CircuitInv, Identity
    <3>2. CASE pc # "client"
      <4>1. res = [v \in Validators |-> Cardinality(Listed(v, unadded + 1))]
        BY <3>2 DEF IInv, CircuitInv
      <4>2. ASSUME NEW v \in Validators
            PROVE  Cardinality(Listed(v, unadded + 1)) \in 0..Size
        <5> DEFINE S == Listed(v, unadded + 1)
                   l == Len(non_signers)
        <5>1. IsFiniteSet(1..l) /\ Cardinality(1..l) = l
          BY <2>4, FS_Interval
        <5>2. S \in SUBSET (1..l)
          BY <2>2, <2>4 DEF Listed
        <5> HIDE DEF S, l
        <5>3. IsFiniteSet(S) /\ Cardinality(S) \in Nat /\ Cardinality(S) <= l
          BY <5>1, <5>2, FS_Subset, FS_CardinalityType
        <5> QED
          BY <2>1, <2>4, <5>3 DEF S, l
      <4> QED
        BY <4>1, <4>2
    <3> QED
      BY <3>1, <3>2
  <2>6. agg_pub \in [Validators -> 0..Size] /\ n_signers \in 0..Size
    <3>1. CASE pc # "done"
      BY <2>1, <3>1 DEF IInv, CircuitInv, Identity
    <3>2. CASE pc = "done"
      <4>1. /\ agg_pub = [v \in Validators |->
                  Cardinality({s \in Seats : Signed(s) /\ validator_pubs[s] = v})]
            /\ n_signers = Cardinality({s \in Seats : Signed(s)})
        BY <3>2, Finished, Partition
      <4>2. ASSUME NEW S \in SUBSET Seats PROVE Cardinality(S) \in 0..Size
        <5>1. S \in SUBSET (0..(Size - 1))
          BY DEF Seats
        <5> QED
          BY <2>1, <5>1, CountBelow
      <4>3. n_signers \in 0..Size
        BY <4>1, <4>2
      <4>4. \A v \in Validators :
              Cardinality({s \in Seats : Signed(s) /\ validator_pubs[s] = v}) \in 0..Size
        BY <4>2
      <4> QED
        BY <4>1, <4>3, <4>4
    <3> QED
      BY <3>1, <3>2
  <2> QED
    BY <2>2, <2>3, <2>5, <2>6 DEF TypeOK
<1> QED
  BY <1>1, Inductive, PTL
===============================================================================
