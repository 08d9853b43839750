----------------------------- MODULE SyncAggregate -----------------------------
(***************************************************************************)
(* Who signed a header: from the participation bits of a sync aggregate to *)
(* the key the epoch circuit checks the signature against.  The client     *)
(* (client-rs/src/epoch_update.rs) adds up the committee's keys and lists  *)
(* the keys of the seats whose bit is clear; the circuit (cairo/src/       *)
(* signer.cairo) adds those up recursively and subtracts them.             *)
(*                                                                         *)
(* A point of the curve is the formal sum of the validators' keys it is    *)
(* made of; a validator may hold several seats of a committee.             *)
(***************************************************************************)
EXTENDS Integers, FiniteSets, SequencesExt

CONSTANTS
  Validators,
  Bytes,         \* 64 bytes of participation bits
  BitsPerByte    \* 8

ASSUME AggregateAssumption ==
  /\ Bytes \in Nat \ {0}
  /\ BitsPerByte \in Nat \ {0}

Size  == Bytes * BitsPerByte      \* 512 in the code
Seats == 0..(Size - 1)

Key(v)    == [u \in Validators |-> IF u = v THEN 1 ELSE 0]
Identity  == [u \in Validators |-> 0]
Add(p, q) == [u \in Validators |-> p[u] + q[u]]
Sub(p, q) == [u \in Validators |-> p[u] - q[u]]

VARIABLES
  validator_pubs,            \* seat -> validator
  sync_committee_bits,       \* byte -> the positions of its set bits
  aggregate_pub, added,      \* seats folded into the key
  bits, byte, i,             \* the array, and the bit that is next in it
  non_signers, filtered,     \* seats looked at
  pc,                        \* "client", "circuit", "done"
  unadded,                   \* calls of the recursion that have not returned
  res, agg_pub, n_signers

inputs  == <<validator_pubs, sync_committee_bits>>
client  == <<aggregate_pub, added, bits, byte, i, non_signers, filtered>>
circuit == <<unadded, res, agg_pub, n_signers>>
vars    == <<inputs, client, pc, circuit>>

---------------------------------------------------------------------------
(* The client. *)

\* One round of the fold over the committee's keys.
AddPubkey ==
  /\ pc = "client" /\ added < Size
  /\ aggregate_pub' = Add(aggregate_pub, Key(validator_pubs[added]))
  /\ added' = added + 1
  /\ UNCHANGED <<inputs, bits, byte, i, non_signers, filtered, pc, circuit>>

\* Wrong: the high bit of a byte first.
HighBitFirst(b, k) == (BitsPerByte - 1 - k) \in sync_committee_bits[b]

\* `byte & (1 << i)`.
IsSet(b, k) == k \in sync_committee_bits[b]

\* convert_bits_to_bool_array, one bit: i from 0 in each byte.
ConvertBit ==
  /\ pc = "client" /\ added = Size /\ byte < Bytes
  /\ bits' = Append(bits, IsSet(byte, i))
  /\ \/ i + 1 < BitsPerByte /\ i' = i + 1 /\ byte' = byte
     \/ i + 1 = BitsPerByte /\ i' = 0 /\ byte' = byte + 1
  /\ UNCHANGED <<inputs, aggregate_pub, added, non_signers, filtered, pc, circuit>>

\* derive_non_signers, one seat of its filter_map.
FilterSeat ==
  /\ pc = "client" /\ byte = Bytes /\ filtered < Size
  /\ non_signers' = IF ~bits[filtered + 1]
                    THEN Append(non_signers, Key(validator_pubs[filtered]))
                    ELSE non_signers
  /\ filtered' = filtered + 1
  /\ UNCHANGED <<inputs, aggregate_pub, added, bits, byte, i, pc, circuit>>

---------------------------------------------------------------------------
(* The circuit. *)

\* Its hint reads the points; n_non_signers is their number.
ReadInputs ==
  /\ pc = "client" /\ filtered = Size
  /\ pc' = "circuit"
  /\ unadded' = Len(non_signers)
  /\ UNCHANGED <<inputs, client, res, agg_pub, n_signers>>

IsBaseCase(n) == n = Len(non_signers)

\* A call of faster_fast_aggregate_signer_pubs_inner returns, the innermost
\* (the last non-signer) first.
AddNonSigner ==
  /\ pc = "circuit" /\ unadded > 0
  /\ res' = IF IsBaseCase(unadded) THEN non_signers[unadded]
            ELSE Add(res, non_signers[unadded])
  /\ unadded' = unadded - 1
  /\ UNCHANGED <<inputs, client, pc, agg_pub, n_signers>>

\* Wrong: the non-signers' sum is not negated.
NotNegated(n_non_signers) ==
  IF n_non_signers # 0 THEN Add(aggregate_pub, res) ELSE aggregate_pub

\* Without non-signers the committee's key is taken as it is.
SignerKey(n_non_signers) ==
  IF n_non_signers # 0 THEN Sub(aggregate_pub, res) ELSE aggregate_pub

\* Wrong: distinct validators are counted.
CountValidators == Size - Cardinality(ToSet(non_signers))

CountSigners == Size - Len(non_signers)

Aggregate ==
  /\ pc = "circuit" /\ unadded = 0
  /\ agg_pub' = SignerKey(Len(non_signers))
  /\ n_signers' = CountSigners
  /\ pc' = "done"
  /\ UNCHANGED <<inputs, client, unadded, res>>

Init ==
  /\ validator_pubs \in [Seats -> Validators]
  /\ sync_committee_bits \in [0..(Bytes - 1) -> SUBSET (0..(BitsPerByte - 1))]
  /\ aggregate_pub = Identity /\ added = 0
  /\ bits = <<>> /\ byte = 0 /\ i = 0
  /\ non_signers = <<>> /\ filtered = 0 /\ pc = "client"
  /\ unadded = 0 /\ res = Identity /\ agg_pub = Identity /\ n_signers = 0

Next == \/ AddPubkey \/ ConvertBit \/ FilterSeat
        \/ ReadInputs \/ AddNonSigner \/ Aggregate

Spec == Init /\ [][Next]_vars

---------------------------------------------------------------------------
(* Properties. *)

TypeOK ==
  /\ pc \in {"client", "circuit", "done"}
  /\ added \in 0..Size /\ filtered \in 0..Size
  /\ byte \in 0..Bytes /\ i \in 0..(BitsPerByte - 1)
  /\ bits \in Seq(BOOLEAN)
  /\ aggregate_pub \in [Validators -> 0..Size]
  /\ unadded \in 0..Len(non_signers)
  /\ res \in [Validators -> 0..Size]
  /\ agg_pub \in [Validators -> 0..Size]
  /\ n_signers \in 0..Size

\* Bit s of the bitvector: bit s % 8 of byte s / 8.
Signed(s) == (s % BitsPerByte) \in sync_committee_bits[s \div BitsPerByte]

\* The circuit checks the signature against the sum of the keys of exactly the
\* seats that signed, a validator counted as often as it holds one, for every
\* committee and participation, full and empty included.
KeyIsOfSigners ==
  pc = "done" =>
    \A v \in Validators :
      agg_pub[v] = Cardinality({s \in Seats : Signed(s) /\ validator_pubs[s] = v})

\* n_signers, which the contract stores as the weight of an epoch, counts seats.
CountIsOfSeats == pc = "done" => n_signers = Cardinality({s \in Seats : Signed(s)})
===============================================================================
