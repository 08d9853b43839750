---------------------------- MODULE BankaiContract ----------------------------
(***************************************************************************)
(* contract/src/lib.cairo, the Cairo 1 contract on Starknet, and the       *)
(* registry of proven facts it consults (Integrity, external).             *)
(*                                                                         *)
(* An "epoch output" is what epoch_update.cairo outputs for one header: the *)
(* header (root, state root and execution data are all functions of the    *)
(* block), a slot and the hash of a committee.  A batch output is the      *)
(* batch root, which by collision resistance is the collection of its      *)
(* leaves, and the output of its last epoch.                               *)
(*                                                                         *)
(* A call whose assert fails reverts: it is no step.  Calls come in any    *)
(* order, any number of times.  In Spec they carry any output the circuits *)
(* can produce; ClientSpec is the contract while every proof registered    *)
(* was made from an input file of the Rust client.                         *)
(***************************************************************************)
EXTENDS Circuits, FiniteSets

CONSTANTS
  NoHash,        \* the zero u256 a committee slot holds before it is written
  NoProof,       \* the zero EpochProof an epoch slot holds before it is written
  EpochOutputs,      \* the outputs provers may get verified, per circuit;
  CommitteeOutputs,  \* CircuitAssumption is what the circuits' asserts ensure
  BatchOutputs       \* of them on any input

---------------------------------------------------------------------------
(* What provers can get verified. *)

\* compute_*_fact_hash: the program's hash and the output, hashed injectively.
EpochFact(o)     == [program |-> "epoch_update",     output |-> o]
CommitteeFact(o) == [program |-> "committee_update", output |-> o]
BatchFact(o)     == [program |-> "epoch_batch",      output |-> o]

Facts == {EpochFact(o) : o \in EpochOutputs}
  \cup {CommitteeFact(o) : o \in CommitteeOutputs}
  \cup {BatchFact(o) : o \in BatchOutputs}

ASSUME CircuitAssumption ==
  /\ NoHash \notin Committees
  /\ NoProof \notin Block
  /\ EpochOutputs \subseteq EpochOutput
  /\ CommitteeOutputs \subseteq CommitteeOutput
  /\ \A o \in BatchOutputs : /\ o.leaves \subseteq EpochOutput
                            /\ o.last \in EpochOutput
                            /\ o = [leaves |-> o.leaves, last |-> o.last]
  /\ \A o \in CommitteeOutputs : CommitteeProvable(o)
  /\ \A o \in BatchOutputs : BatchProvable(o)

---------------------------------------------------------------------------
VARIABLES
  facts,                   \* external: facts the Integrity registry vouches for
  committee,               \* committee id -> hash
  epochs,                  \* slot -> EpochProof
  batches,                 \* batch roots marked available
  latest_epoch,
  latest_committee_id,
  initialization_committee

storage == <<committee, epochs, batches, latest_epoch, latest_committee_id,
             initialization_committee>>
vars == <<facts, storage>>

FactUnchecked(f) == TRUE   \* wrong: the registry is not asked

IsValidFactHash(f) == f \in facts

\* The proof was made from an input file of the client.
FactFromClient(f) ==
  /\ f.program = "epoch_update" => FromClient(f.output)
  /\ f.program = "epoch_batch" => \A l \in f.output.leaves : FromClient(l)

AllFromClient == \A f \in facts : FactFromClient(f)

\* External: a proof of one of the three programs is verified on Starknet.
RegisterFact(f) ==
  /\ facts' = facts \cup {f}
  /\ UNCHANGED storage

---------------------------------------------------------------------------
(* The contract. *)

\* The deployer passes the committee of contract_init.rs, its trust anchor.
Constructor(id, hash) ==
  /\ committee = [p \in Periods |-> IF p = id THEN hash ELSE NoHash]
  /\ epochs = [s \in Slots |-> NoProof]
  /\ batches = {}
  /\ latest_epoch = 0
  /\ latest_committee_id = id
  /\ initialization_committee = id

WriteEpoch(s, proof) == epochs' = [epochs EXCEPT ![s] = proof]

\* Wrong: without `if slot > latest_epoch`.
SetLatestEpoch(s) == latest_epoch' = s

RaiseLatestEpoch(s) ==
  latest_epoch' = IF s > latest_epoch THEN s ELSE latest_epoch

\* Wrong forms: the state root unchecked, the period of the slot instead of
\* the next one, one period too far.
AnyStateRoot(o)     == TRUE
SameCommitteeId(s)  == s \div SlotsPerPeriod
SecondNextId(s)     == (s \div SlotsPerPeriod) + 2

IsStoredStateRoot(o) == o.beacon_state_root = epochs[o.slot]
NewCommitteeId(s)    == (s \div SlotsPerPeriod) + 1

VerifyCommitteeUpdate(o) ==
  /\ IsStoredStateRoot(o)
  /\ IsValidFactHash(CommitteeFact(o))
  /\ committee' = [committee EXCEPT ![NewCommitteeId(o.slot)] = o.committee_hash]
  /\ latest_committee_id' = NewCommitteeId(o.slot)
  /\ UNCHANGED <<facts, epochs, batches, latest_epoch, initialization_committee>>

\* Wrong: the committee of the output is not compared.
AnyCommittee(slot, committee_hash) == TRUE

\* The signing committee of a slot, by the contract's reckoning.
IsSigningCommittee(slot, committee_hash) ==
  committee_hash = committee[slot \div SlotsPerPeriod]

VerifyEpochUpdate(o) ==
  /\ IsSigningCommittee(o.slot, o.committee_hash)
  /\ IsValidFactHash(EpochFact(o))
  /\ WriteEpoch(o.slot, o.block)
  /\ RaiseLatestEpoch(o.slot)
  /\ UNCHANGED <<facts, committee, batches, latest_committee_id,
                 initialization_committee>>

VerifyEpochBatch(o) ==
  /\ IsSigningCommittee(o.last.slot, o.last.committee_hash)
  /\ IsValidFactHash(BatchFact(o))
  /\ WriteEpoch(o.last.slot, o.last.block)
  /\ batches' = batches \cup {o}
  /\ RaiseLatestEpoch(o.last.slot)
  /\ UNCHANGED <<facts, committee, latest_committee_id, initialization_committee>>

\* hash_path reaches the root from a leaf of the tree and from no other epoch,
\* whatever path is passed with it (MerkleTrees).
HasPath(leaf, root) == leaf \in root.leaves

DecommitBatchedEpoch(root, leaf) ==
  /\ root \in batches
  /\ HasPath(leaf, root)
  /\ WriteEpoch(leaf.slot, leaf.block)
  /\ UNCHANGED <<facts, committee, batches, latest_epoch, latest_committee_id,
                 initialization_committee>>

Init ==
  /\ facts = {}
  /\ \E id \in Periods : Constructor(id, Committee(Home, id))

Next ==
  \/ \E f \in Facts : RegisterFact(f)
  \/ \E o \in EpochOutputs : VerifyEpochUpdate(o)
  \/ \E o \in BatchOutputs : VerifyEpochBatch(o)
  \/ \E root \in BatchOutputs : \E leaf \in root.leaves :
       DecommitBatchedEpoch(root, leaf)
  \/ \E o \in CommitteeOutputs : VerifyCommitteeUpdate(o)

Spec == Init /\ [][Next]_vars

\* The contract while all proofs come from the client's input files.
ClientNext == Next /\ AllFromClient'

ClientSpec == Init /\ [][ClientNext]_vars

---------------------------------------------------------------------------
(* Properties. *)

Stored == {s \in Slots : epochs[s] # NoProof}
Known  == {p \in Periods : committee[p] # NoHash}

TypeOK ==
  /\ facts \subseteq Facts
  /\ committee \in [Periods -> Committees \cup {NoHash}]
  /\ epochs \in [Slots -> Blocks \cup {NoProof}]
  /\ batches \subseteq BatchOutputs
  /\ latest_epoch \in Slots
  /\ latest_committee_id \in Periods
  /\ initialization_committee \in Periods

\* Everything in storage, the anchor apart, was proven for the slot or the
\* period it is stored under: the registry holds a fact for it, a batch fact for
\* what was decommitted from a batch.  No handler mixes up two outputs.
StorageIsProven ==
  /\ \A s \in Stored :
       \/ \E o \in EpochOutputs : /\ EpochFact(o) \in facts
                                  /\ o.slot = s /\ o.block = epochs[s]
       \/ \E o \in batches : \E l \in o.leaves : l.slot = s /\ l.block = epochs[s]
  /\ \A o \in batches : BatchFact(o) \in facts
  /\ \A p \in Known \ {initialization_committee} :
       \E o \in CommitteeOutputs : /\ CommitteeFact(o) \in facts
                                   /\ p = Period(o.slot) + 1
                                   /\ o.committee_hash = committee[p]

\* get_latest_epoch, from which the client derives the next slot to prove, is
\* the newest stored epoch: late proofs of older epochs do not lower it, and
\* decommit_batched_epoch, which never writes it, stores nothing newer.
LatestEpochIsNewest ==
  /\ \A s \in Stored : s <= latest_epoch
  /\ latest_epoch # 0 => latest_epoch \in Stored

\* Why decommitting stores nothing newer.
BatchLeavesAreOlder ==
  \A root \in batches : \A l \in root.leaves : l.slot <= latest_epoch

\* The inductive invariant of Spec.
AnyInv ==
  /\ TypeOK
  /\ StorageIsProven
  /\ LatestEpochIsNewest
  /\ BatchLeavesAreOlder

---------------------------------------------------------------------------
(* Properties of ClientSpec.  None of them is the contract's doing alone:  *)
(* what the epoch circuit leaves to the input file must come from a client. *)

\* Everything in storage is of the chain the contract was deployed for, at the
\* slot or period it belongs to, in whatever order facts and calls of other
\* networks, old proofs and batches arrive.
StorageIsCanonical ==
  /\ \A s \in Stored : epochs[s] = [net |-> Home, slot |-> s]
  /\ \A p \in Known : committee[p] = Committee(Home, p)

\* The committees the contract knows form a chain without gaps that starts at
\* the anchor, and each link is an epoch stored in the period before it.
CommitteesFormChain ==
  \A p \in Known :
    \/ p = initialization_committee
    \/ /\ p - 1 \in Known
       /\ \E s \in Stored : Period(s) = p - 1

\* A leaf of a known batch can only be older than the newest epoch, and the
\* committee it was checked against is one the contract knows: this is what
\* lets decommit_batched_epoch skip both checks.
BatchLeavesAreCovered ==
  /\ BatchLeavesAreOlder
  /\ \A root \in batches : \A l \in root.leaves :
       \E p \in Known : l.committee_hash = committee[p]

\* A stored epoch lies in a period whose committee the contract knows.  The one
\* exception is a batched epoch at the end of the period before the anchor's,
\* signed by the anchor: decommit_batched_epoch admits it, a direct
\* verify_epoch_update would not.
EpochsAreCovered ==
  \A s \in Stored : \/ Period(s) \in Known
                    \/ Period(s) + 1 = initialization_committee

\* The inductive invariant of ClientSpec.
IInv ==
  /\ AnyInv
  /\ AllFromClient
  /\ StorageIsCanonical
  /\ CommitteesFormChain
  /\ BatchLeavesAreCovered
  /\ EpochsAreCovered

\* An epoch or a committee once stored keeps its value, although every handler
\* overwrites without looking, and the newest epoch never gets older.
StoredIsFinal ==
  [][/\ \A s \in Stored : epochs'[s] = epochs[s]
     /\ \A p \in Known : committee'[p] = committee[p]
     /\ latest_epoch' >= latest_epoch]_vars

\* Not so for latest_committee_id: verify_committee_update writes the id of
\* whatever proof it is given, without the guard latest_epoch has.
LatestCommitteeIsNewest == \A p \in Known : p <= latest_committee_id

---------------------------------------------------------------------------
\* The contract implements the abstract light client: what it stores is what
\* that client accepted, what it knows is what that client trusts.
LC == INSTANCE LightClient WITH
        accepted <- {<<s, epochs[s]>> : s \in Stored},
        trusted  <- {<<p, committee[p]>> : p \in Known}

ImplementsLightClient == LC!Spec
===============================================================================
