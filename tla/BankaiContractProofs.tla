------------------------- MODULE BankaiContractProofs -------------------------
(***************************************************************************)
(* Proofs about BankaiContract, for every chain, every set of outputs the  *)
(* provers may produce and every length of run.  AnyInv is inductive for   *)
(* Spec, whatever the epoch circuit was given: a lemma per action shows    *)
(* the action preserves it.  IInv is inductive for ClientSpec: StepEffect  *)
(* reduces its steps to an epoch stored, a committee added, or nothing.    *)
(***************************************************************************)
EXTENDS BankaiContract, TLAPS

---------------------------------------------------------------------------
(* Slots and periods. *)

\* The period of a slot, and the one after it, are indices of committee.
LEMMA PeriodType ==
  \A s \in Slots : /\ Period(s) \in Nat
                   /\ Period(s) \in Periods
                   /\ Period(s) + 1 \in Periods
<1> SUFFICES ASSUME NEW s \in Slots
             PROVE  /\ Period(s) \in Nat
                    /\ Period(s) \in Periods
                    /\ Period(s) + 1 \in Periods
  OBVIOUS
<1>1. s \in Nat /\ MaxSlot \in Nat /\ s <= MaxSlot
  BY SlotsAssumption, ChainAssumption DEF Slots
<1>2. Period(s) \in Nat /\ Period(MaxSlot) \in Nat
  BY <1>1, SlotsAssumption, ChainAssumption DEF Period
<1>3. Period(s) <= Period(MaxSlot)
  BY <1>1, SlotsAssumption, ChainAssumption DEF Period
<1> QED
  BY <1>2, <1>3 DEF Periods

\* Later slots are in later periods.
LEMMA PeriodMonotone ==
  \A s, t \in Slots : s <= t => Period(s) <= Period(t)
<1> SUFFICES ASSUME NEW s \in Slots, NEW t \in Slots, s <= t
             PROVE  Period(s) <= Period(t)
  OBVIOUS
<1>1. s \in Nat /\ t \in Nat
  BY SlotsAssumption, ChainAssumption DEF Slots
<1> QED
  BY <1>1, SlotsAssumption, ChainAssumption DEF Period

\* The committee that signed a block is the one of the block's period or,
\* for the last block of a period, of the next one.
LEMMA SignerPeriod ==
  ASSUME NEW b \in Blocks, NEW c, Signs(c, b)
  PROVE  /\ c \in Committees
         /\ c = Committee(b.net, c.period)
         /\ c.period = Period(b.slot) \/ c.period = Period(b.slot) + 1
<1>1. b.net \in Networks /\ b.slot \in Slots /\ b.slot \in Proposed[b.net]
  BY DEF Blocks, Block
<1>2. PICK t \in Slots : /\ IsSignatureSlot(Proposed[b.net], b.slot, t)
                         /\ c = Committee(b.net, Period(t))
  BY DEF Signs
<1>3. t \in Proposed[b.net] /\ b.slot <= t
  BY <1>1, <1>2, SlotsAssumption, ChainAssumption DEF IsSignatureSlot, Slots
<1>4. Period(t) <= Period(b.slot) + 1
  BY <1>1, <1>2, <1>3, SlotsAssumption, ChainAssumption
<1>5. Period(b.slot) <= Period(t)
  BY <1>1, <1>3, PeriodMonotone
<1>6. Period(t) \in Nat /\ Period(b.slot) \in Nat /\ Period(t) \in Periods
  BY <1>1, PeriodType
<1>7. c.period = Period(t) /\ c \in Committees /\ c = Committee(b.net, c.period)
  BY <1>1, <1>2, <1>6 DEF Committee, Committees
<1> QED
  BY <1>4, <1>5, <1>6, <1>7

\* A block of the home network is the canonical one of its slot.
LEMMA HomeBlock ==
  ASSUME NEW b \in Blocks, b.net = Home
  PROVE  b = [net |-> Home, slot |-> b.slot]
BY DEF Blocks, Block

---------------------------------------------------------------------------
(* What the circuits' asserts give the contract. *)

\* The parts of an epoch output.
LEMMA EpochOutputFacts ==
  ASSUME NEW o \in EpochOutputs
  PROVE  /\ o \in EpochOutput
         /\ o.block \in Blocks
         /\ o.slot \in Slots
         /\ o.committee_hash \in Committees
<1>1. o \in EpochOutput
  BY CircuitAssumption
<1> QED
  BY <1>1 DEF EpochOutput

\* Every leaf of a batch is such an output, under the batch's one committee,
\* and its slot is no newer than that of the epoch the batch output shows.
LEMMA BatchOutputFacts ==
  ASSUME NEW o \in BatchOutputs
  PROVE  /\ o.last \in o.leaves
         /\ \A l \in o.leaves :
              /\ l.block \in Blocks
              /\ l.slot \in Slots
              /\ l.committee_hash \in Committees
              /\ l.committee_hash = o.last.committee_hash
              /\ l.slot <= o.last.slot
<1>1. o.leaves \subseteq EpochOutput /\ BatchProvable(o)
  BY CircuitAssumption
<1>2. \A l \in o.leaves : l.block \in Blocks /\ l.slot \in Slots
                            /\ l.committee_hash \in Committees
  BY <1>1 DEF EpochOutput
<1>3. \A l \in o.leaves : l.slot \in Nat
  BY <1>2, SlotsAssumption, ChainAssumption DEF Slots
<1>4. o.last \in o.leaves
  BY <1>1 DEF BatchProvable
<1>5. \A l \in o.leaves : l.slot <= o.last.slot
  BY <1>1, <1>3, <1>4 DEF BatchProvable, BatchInOrder
<1> QED
  BY <1>1, <1>2, <1>4, <1>5 DEF BatchProvable, OneCommittee

\* What verify_committee_update reads is a stored epoch.
LEMMA CommitteeOutputFacts ==
  ASSUME NEW o \in CommitteeOutputs, o.beacon_state_root = epochs[o.slot]
  PROVE  /\ o.slot \in Stored
         /\ Period(o.slot) + 1 \in Periods
         /\ o.committee_hash \in Committees
         /\ o.committee_hash = NextCommittee(epochs[o.slot])
<1>1. o \in CommitteeOutput /\ CommitteeProvable(o)
  BY CircuitAssumption
<1>2. /\ o.slot \in Slots /\ o.beacon_state_root \in Blocks
      /\ o.committee_hash \in Committees
  BY <1>1 DEF CommitteeOutput
<1>3. o.slot \in Stored
  BY <1>2, CircuitAssumption DEF Stored, Blocks
<1> QED
  BY <1>1, <1>2, <1>3, PeriodType DEF CommitteeProvable

---------------------------------------------------------------------------
(* The effect of each assignment. *)

\* Writing an epoch stores its slot and no other.
LEMMA StoreEpoch ==
  ASSUME TypeOK, NEW b \in Blocks, NEW t \in Slots, WriteEpoch(t, b)
  PROVE  /\ epochs' \in [Slots -> Blocks \cup {NoProof}]
         /\ Stored' = Stored \cup {t}
         /\ epochs'[t] = b
         /\ \A s \in Stored : s # t => epochs'[s] = epochs[s]
<1>1. b # NoProof
  BY CircuitAssumption DEF Blocks, Block
<1>2. epochs \in [Slots -> Blocks \cup {NoProof}]
  BY DEF TypeOK
<1>3. \A s \in Slots : epochs'[s] = IF s = t THEN b ELSE epochs[s]
  BY <1>2 DEF WriteEpoch
<1>4. epochs' \in [Slots -> Blocks \cup {NoProof}]
  BY <1>2 DEF WriteEpoch
<1>5. Stored' = Stored \cup {t}
  BY <1>1, <1>3 DEF Stored
<1>6. \A s \in Stored : s # t => epochs'[s] = epochs[s]
  BY <1>3 DEF Stored
<1> QED
  BY <1>3, <1>4, <1>5, <1>6

\* Raising latest_epoch to the stored slot keeps it the newest.
LEMMA RaiseEpoch ==
  ASSUME TypeOK, LatestEpochIsNewest, NEW t \in Slots,
         Stored' = Stored \cup {t}, RaiseLatestEpoch(t)
  PROVE  LatestEpochIsNewest' /\ latest_epoch' \in Slots
         /\ latest_epoch <= latest_epoch' /\ t <= latest_epoch'
<1>1. t \in Nat /\ latest_epoch \in Nat /\ \A s \in Stored : s \in Nat
  BY SlotsAssumption, ChainAssumption DEF TypeOK, Slots, Stored
<1>2. latest_epoch' = t \/ latest_epoch' = latest_epoch
  BY DEF RaiseLatestEpoch
<1>3. latest_epoch <= latest_epoch' /\ t <= latest_epoch'
  BY <1>1 DEF RaiseLatestEpoch
<1>4. latest_epoch' \in Slots
  BY <1>2 DEF TypeOK
<1>5. \A s \in Stored' : s <= latest_epoch'
  BY <1>1, <1>2, <1>3 DEF LatestEpochIsNewest
<1>6. latest_epoch' # 0 => latest_epoch' \in Stored'
  BY <1>2 DEF LatestEpochIsNewest
<1> QED
  BY <1>3, <1>4, <1>5, <1>6 DEF LatestEpochIsNewest

\* verify_committee_update makes one more committee known, or writes a known
\* one again.
LEMMA StoreCommittee ==
  ASSUME TypeOK, NEW o \in CommitteeOutputs, VerifyCommitteeUpdate(o)
  PROVE  LET id == Period(o.slot) + 1 IN
         /\ o.slot \in Stored /\ id \in Periods
         /\ CommitteeFact(o) \in facts
         /\ committee' \in [Periods -> Committees \cup {NoHash}]
         /\ Known' = Known \cup {id}
         /\ committee'[id] = o.committee_hash
         /\ o.committee_hash = NextCommittee(epochs[o.slot])
         /\ \A p \in Known : p # id => committee'[p] = committee[p]
         /\ latest_committee_id' = id
         /\ UNCHANGED <<facts, epochs, batches, latest_epoch,
                         initialization_committee>>
<1> DEFINE id == Period(o.slot) + 1
<1>1. /\ o.slot \in Stored /\ id \in Periods
      /\ o.committee_hash \in Committees
      /\ o.committee_hash = NextCommittee(epochs[o.slot])
  BY CommitteeOutputFacts DEF VerifyCommitteeUpdate, IsStoredStateRoot
<1>2. /\ committee' = [committee EXCEPT ![id] = o.committee_hash]
      /\ CommitteeFact(o) \in facts
      /\ latest_committee_id' = id
      /\ UNCHANGED <<facts, epochs, batches, latest_epoch,
                      initialization_committee>>
  BY DEF VerifyCommitteeUpdate, NewCommitteeId, Period, IsValidFactHash
<1>3. committee \in [Periods -> Committees \cup {NoHash}]
  BY DEF TypeOK
<1>4. committee' \in [Periods -> Committees \cup {NoHash}]
  BY <1>1, <1>2, <1>3
<1>5. \A p \in Periods :
        committee'[p] = IF p = id THEN o.committee_hash ELSE committee[p]
  BY <1>2, <1>3
<1>6. o.committee_hash # NoHash
  BY <1>1, CircuitAssumption
<1>7. Known' = Known \cup {id}
  BY <1>1, <1>5, <1>6 DEF Known
<1> QED
  BY <1>1, <1>2, <1>4, <1>5, <1>7 DEF Known

---------------------------------------------------------------------------
(* AnyInv is inductive, whatever outputs are proven. *)

LEMMA InitAny == Init => AnyInv
<1> SUFFICES ASSUME Init PROVE AnyInv
  OBVIOUS
<1>1. PICK id \in Periods : Constructor(id, Committee(Home, id))
  BY DEF Init
<1>2. facts = {} /\ batches = {} /\ latest_epoch = 0
  BY <1>1 DEF Init, Constructor
<1>3. Stored = {}
  BY <1>1 DEF Constructor, Stored
<1>4. Committee(Home, id) \in Committees
  BY SlotsAssumption, ChainAssumption DEF Committee, Committees
<1>5. Known = {id} /\ initialization_committee = id
  BY <1>1, <1>4, CircuitAssumption DEF Constructor, Known
<1>6. TypeOK
  BY <1>1, <1>2, <1>4, SlotsAssumption, ChainAssumption DEF Constructor, TypeOK, Slots
<1> QED
  BY <1>2, <1>3, <1>5, <1>6
  DEF AnyInv, StorageIsProven, LatestEpochIsNewest, BatchLeavesAreOlder

LEMMA RegisterFactAny ==
  ASSUME AnyInv, NEW f \in Facts, RegisterFact(f)
  PROVE  AnyInv'
<1>1. Stored' = Stored /\ Known' = Known
  BY DEF RegisterFact, storage, Stored, Known
<1>2. facts \subseteq facts'
  BY DEF RegisterFact
<1>3. TypeOK'
  BY DEF AnyInv, TypeOK, RegisterFact, storage
<1>4. StorageIsProven'
  BY <1>1, <1>2 DEF AnyInv, StorageIsProven, RegisterFact, storage
<1> QED
  BY <1>1, <1>3, <1>4
  DEF AnyInv, RegisterFact, storage, LatestEpochIsNewest, BatchLeavesAreOlder

\* What is proven stays proven when one more epoch is stored that is.
LEMMA ProvenAfterStore ==
  ASSUME StorageIsProven, NEW b, NEW t \in Slots,
         Stored' = Stored \cup {t}, epochs'[t] = b,
         \A s \in Stored : s # t => epochs'[s] = epochs[s],
         UNCHANGED <<facts, committee, initialization_committee>>,
         batches \subseteq batches',
         \A e \in batches' : BatchFact(e) \in facts,
         \/ \E e \in EpochOutputs : /\ EpochFact(e) \in facts
                                    /\ e.slot = t /\ e.block = b
         \/ \E e \in batches' : \E l \in e.leaves : l.slot = t /\ l.block = b
  PROVE  StorageIsProven'
<1>1. \A s \in Stored' :
        \/ \E e \in EpochOutputs : /\ EpochFact(e) \in facts'
                                   /\ e.slot = s /\ e.block = epochs'[s]
        \/ \E e \in batches' : \E l \in e.leaves :
              l.slot = s /\ l.block = epochs'[s]
  <2> SUFFICES ASSUME NEW s \in Stored'
               PROVE \/ \E e \in EpochOutputs : /\ EpochFact(e) \in facts'
                                                /\ e.slot = s
                                                /\ e.block = epochs'[s]
                     \/ \E e \in batches' : \E l \in e.leaves :
                           l.slot = s /\ l.block = epochs'[s]
    OBVIOUS
  <2>1. CASE s = t
    BY <2>1
  <2>2. CASE s # t
    <3>1. s \in Stored /\ epochs'[s] = epochs[s]
      BY <2>2
    <3> QED
      BY <3>1 DEF StorageIsProven
  <2> QED
    BY <2>1, <2>2
<1>2. Known' = Known
  BY DEF Known
<1>3. \A p \in Known' \ {initialization_committee'} :
        \E o \in CommitteeOutputs : /\ CommitteeFact(o) \in facts'
                                    /\ p = Period(o.slot) + 1
                                    /\ o.committee_hash = committee'[p]
  BY <1>2 DEF StorageIsProven
<1>4. \A e \in batches' : BatchFact(e) \in facts'
  OBVIOUS
<1> QED
  BY <1>1, <1>3, <1>4 DEF StorageIsProven

LEMMA VerifyEpochUpdateAny ==
  ASSUME AnyInv, NEW o \in EpochOutputs, VerifyEpochUpdate(o)
  PROVE  AnyInv'
<1>1. o.block \in Blocks /\ o.slot \in Slots
  BY EpochOutputFacts
<1>2. /\ EpochFact(o) \in facts
      /\ WriteEpoch(o.slot, o.block) /\ RaiseLatestEpoch(o.slot)
      /\ UNCHANGED <<facts, committee, batches, latest_committee_id,
                      initialization_committee>>
  BY DEF VerifyEpochUpdate, IsValidFactHash
<1>3. /\ epochs' \in [Slots -> Blocks \cup {NoProof}]
      /\ Stored' = Stored \cup {o.slot}
      /\ epochs'[o.slot] = o.block
      /\ \A s \in Stored : s # o.slot => epochs'[s] = epochs[s]
  BY <1>1, <1>2, StoreEpoch DEF AnyInv
<1>4. /\ LatestEpochIsNewest' /\ latest_epoch' \in Slots
      /\ latest_epoch <= latest_epoch'
  BY <1>1, <1>2, <1>3, RaiseEpoch DEF AnyInv
<1>5. TypeOK'
  BY <1>2, <1>3, <1>4 DEF AnyInv, TypeOK
<1>6. StorageIsProven'
  <2>1. \A e \in batches' : BatchFact(e) \in facts
    BY <1>2 DEF AnyInv, StorageIsProven
  <2> QED
    BY <1>1, <1>2, <1>3, <2>1, ProvenAfterStore DEF AnyInv
<1>7. BatchLeavesAreOlder'
  <2>1. \A root \in batches : \A l \in root.leaves : l.slot \in Nat
    BY BatchOutputFacts, SlotsAssumption, ChainAssumption DEF AnyInv, TypeOK, Slots
  <2>2. latest_epoch \in Nat /\ latest_epoch' \in Nat
    BY <1>4, SlotsAssumption, ChainAssumption DEF AnyInv, TypeOK, Slots
  <2> QED
    BY <1>2, <1>4, <2>1, <2>2 DEF AnyInv, BatchLeavesAreOlder
<1> QED
  BY <1>4, <1>5, <1>6, <1>7 DEF AnyInv

LEMMA VerifyEpochBatchAny ==
  ASSUME AnyInv, NEW o \in BatchOutputs, VerifyEpochBatch(o)
  PROVE  AnyInv'
<1> DEFINE t == o.last.slot
           b == o.last.block
<1>1. o.last \in o.leaves /\ b \in Blocks /\ t \in Slots
  BY BatchOutputFacts
<1>2. /\ BatchFact(o) \in facts
      /\ WriteEpoch(t, b) /\ RaiseLatestEpoch(t)
      /\ batches' = batches \cup {o}
      /\ UNCHANGED <<facts, committee, latest_committee_id,
                      initialization_committee>>
  BY DEF VerifyEpochBatch, IsValidFactHash
<1>3. /\ epochs' \in [Slots -> Blocks \cup {NoProof}]
      /\ Stored' = Stored \cup {t}
      /\ epochs'[t] = b
      /\ \A s \in Stored : s # t => epochs'[s] = epochs[s]
  BY <1>1, <1>2, StoreEpoch DEF AnyInv
<1>4. /\ LatestEpochIsNewest' /\ latest_epoch' \in Slots
      /\ latest_epoch <= latest_epoch' /\ t <= latest_epoch'
  BY <1>1, <1>2, <1>3, RaiseEpoch DEF AnyInv
<1>5. TypeOK'
  BY <1>2, <1>3, <1>4 DEF AnyInv, TypeOK
<1>6. StorageIsProven'
  <2>1. \A e \in batches' : BatchFact(e) \in facts
    BY <1>2 DEF AnyInv, StorageIsProven
  <2>2. \E e \in batches' : \E l \in e.leaves : l.slot = t /\ l.block = b
    BY <1>1, <1>2
  <2> QED
    BY <1>1, <1>2, <1>3, <2>1, <2>2, ProvenAfterStore DEF AnyInv
<1>7. BatchLeavesAreOlder'
  <2>1. latest_epoch \in Nat /\ latest_epoch' \in Nat /\ t \in Nat
    BY <1>1, <1>4, SlotsAssumption, ChainAssumption DEF AnyInv, TypeOK, Slots
  <2>2. \A root \in batches' : \A l \in root.leaves : l.slot \in Nat
    BY <1>2, BatchOutputFacts, SlotsAssumption, ChainAssumption DEF AnyInv, TypeOK, Slots
  <2>3. \A l \in o.leaves : l.slot <= t
    BY BatchOutputFacts
  <2>4. \A l \in o.leaves : l.slot <= latest_epoch'
    BY <1>2, <1>4, <2>1, <2>2, <2>3
  <2>5. \A root \in batches : \A l \in root.leaves : l.slot <= latest_epoch'
    BY <1>2, <1>4, <2>1, <2>2 DEF AnyInv, BatchLeavesAreOlder
  <2> QED
    BY <1>2, <2>4, <2>5 DEF BatchLeavesAreOlder
<1> QED
  BY <1>4, <1>5, <1>6, <1>7 DEF AnyInv

LEMMA DecommitBatchedEpochAny ==
  ASSUME AnyInv, NEW root \in BatchOutputs, NEW leaf \in root.leaves,
         DecommitBatchedEpoch(root, leaf)
  PROVE  AnyInv'
<1>1. leaf.block \in Blocks /\ leaf.slot \in Slots
  BY BatchOutputFacts
<1>2. /\ root \in batches
      /\ WriteEpoch(leaf.slot, leaf.block)
      /\ UNCHANGED <<facts, committee, batches, latest_epoch,
                      latest_committee_id, initialization_committee>>
  BY DEF DecommitBatchedEpoch
<1>3. leaf.slot <= latest_epoch
  BY <1>2 DEF AnyInv, BatchLeavesAreOlder
<1>4. /\ epochs' \in [Slots -> Blocks \cup {NoProof}]
      /\ Stored' = Stored \cup {leaf.slot}
      /\ epochs'[leaf.slot] = leaf.block
      /\ \A s \in Stored : s # leaf.slot => epochs'[s] = epochs[s]
  BY <1>1, <1>2, StoreEpoch DEF AnyInv
<1>5. TypeOK'
  BY <1>2, <1>4 DEF AnyInv, TypeOK
<1>6. StorageIsProven'
  <2>1. \A e \in batches' : BatchFact(e) \in facts
    BY <1>2 DEF AnyInv, StorageIsProven
  <2>2. \E e \in batches' : \E l \in e.leaves :
           l.slot = leaf.slot /\ l.block = leaf.block
    BY <1>2
  <2> QED
    BY <1>1, <1>2, <1>4, <2>1, <2>2, ProvenAfterStore DEF AnyInv
<1>7. LatestEpochIsNewest'
  BY <1>2, <1>3, <1>4 DEF AnyInv, LatestEpochIsNewest
<1>8. BatchLeavesAreOlder'
  BY <1>2 DEF AnyInv, BatchLeavesAreOlder
<1> QED
  BY <1>5, <1>6, <1>7, <1>8 DEF AnyInv

LEMMA VerifyCommitteeUpdateAny ==
  ASSUME AnyInv, NEW o \in CommitteeOutputs, VerifyCommitteeUpdate(o)
  PROVE  AnyInv'
<1> DEFINE id == Period(o.slot) + 1
<1>1. /\ o.slot \in Stored /\ id \in Periods
      /\ CommitteeFact(o) \in facts
      /\ committee' \in [Periods -> Committees \cup {NoHash}]
      /\ Known' = Known \cup {id}
      /\ committee'[id] = o.committee_hash
      /\ \A p \in Known : p # id => committee'[p] = committee[p]
      /\ latest_committee_id' = id
      /\ UNCHANGED <<facts, epochs, batches, latest_epoch,
                      initialization_committee>>
  BY StoreCommittee DEF AnyInv
<1>2. Stored' = Stored
  BY <1>1 DEF Stored
<1>3. TypeOK'
  BY <1>1 DEF AnyInv, TypeOK
<1>4. StorageIsProven'
  <2>1. ASSUME NEW p \in Known' \ {initialization_committee'}
        PROVE  \E e \in CommitteeOutputs : /\ CommitteeFact(e) \in facts'
                                           /\ p = Period(e.slot) + 1
                                           /\ e.committee_hash = committee'[p]
    <3>1. CASE p = id
      BY <1>1, <3>1
    <3>2. CASE p # id
      <4>1. p \in Known \ {initialization_committee} /\ committee'[p] = committee[p]
        BY <1>1, <3>2
      <4> QED
        BY <1>1, <4>1 DEF AnyInv, StorageIsProven
    <3> QED
      BY <3>1, <3>2
  <2> QED
    BY <1>1, <1>2, <2>1 DEF AnyInv, StorageIsProven
<1>5. LatestEpochIsNewest' /\ BatchLeavesAreOlder'
  BY <1>1, <1>2 DEF AnyInv, LatestEpochIsNewest, BatchLeavesAreOlder
<1> QED
  BY <1>3, <1>4, <1>5 DEF AnyInv

LEMMA AnyNext == AnyInv /\ [Next]_vars => AnyInv'
<1> SUFFICES ASSUME AnyInv, [Next]_vars PROVE AnyInv'
  OBVIOUS
<1>1. CASE UNCHANGED vars
  BY <1>1 DEF AnyInv, vars, storage, Stored, Known, TypeOK, StorageIsProven,
     LatestEpochIsNewest, BatchLeavesAreOlder
<1>2. ASSUME NEW f \in Facts, RegisterFact(f) PROVE AnyInv'
  BY <1>2, RegisterFactAny
<1>3. ASSUME NEW o \in EpochOutputs, VerifyEpochUpdate(o) PROVE AnyInv'
  BY <1>3, VerifyEpochUpdateAny
<1>4. ASSUME NEW o \in BatchOutputs, VerifyEpochBatch(o) PROVE AnyInv'
  BY <1>4, VerifyEpochBatchAny
<1>5. ASSUME NEW root \in BatchOutputs, NEW leaf \in root.leaves,
             DecommitBatchedEpoch(root, leaf)
      PROVE  AnyInv'
  BY <1>5, DecommitBatchedEpochAny
<1>6. ASSUME NEW o \in CommitteeOutputs, VerifyCommitteeUpdate(o) PROVE AnyInv'
  BY <1>6, VerifyCommitteeUpdateAny
<1> QED
  BY <1>1, <1>2, <1>3, <1>4, <1>5, <1>6 DEF Next

\* The invariant holds in every run of the contract, whatever outputs are proven.
THEOREM AnyInvariance == Spec => []AnyInv
<1>1. Init => AnyInv
  BY InitAny
<1>2. AnyInv /\ [Next]_vars => AnyInv'
  BY AnyNext
<1> QED
  BY <1>1, <1>2, PTL DEF Spec

\* Every storage variable of the contract keeps its type.
THEOREM TypeCorrect == Spec => []TypeOK
<1>1. AnyInv => TypeOK
  BY DEF AnyInv
<1> QED
  BY <1>1, AnyInvariance, PTL

\* Nothing but the anchor enters storage without a fact in the registry, and
\* only under the slot or period that fact names.
THEOREM Proven == Spec => []StorageIsProven
<1>1. AnyInv => StorageIsProven
  BY DEF AnyInv
<1> QED
  BY <1>1, AnyInvariance, PTL

\* latest_epoch is the newest stored epoch, although decommitting does not
\* maintain it.
THEOREM LatestEpoch == Spec => []LatestEpochIsNewest
<1>1. AnyInv => LatestEpochIsNewest
  BY DEF AnyInv
<1> QED
  BY <1>1, AnyInvariance, PTL

---------------------------------------------------------------------------
(* Proofs made from the client's input files. *)

LEMMA FactsOfClient ==
  ASSUME AllFromClient
  PROVE  /\ \A o : EpochFact(o) \in facts => FromClient(o)
         /\ \A o : BatchFact(o) \in facts => \A l \in o.leaves : FromClient(l)
<1>1. \A o : /\ EpochFact(o).program = "epoch_update"
             /\ EpochFact(o).output = o
             /\ BatchFact(o).program = "epoch_batch"
             /\ BatchFact(o).output = o
  BY DEF EpochFact, BatchFact
<1> QED
  BY <1>1 DEF AllFromClient, FactFromClient

\* A block signed by a committee of the home network is canonical.
LEMMA SignedByHome ==
  ASSUME NEW b \in Blocks, NEW p, Signs(Committee(Home, p), b)
  PROVE  /\ b = [net |-> Home, slot |-> b.slot]
         /\ p = Period(b.slot) \/ p = Period(b.slot) + 1
<1>1. /\ Committee(Home, p) = Committee(b.net, Committee(Home, p).period)
      /\ \/ Committee(Home, p).period = Period(b.slot)
         \/ Committee(Home, p).period = Period(b.slot) + 1
  BY SignerPeriod
<1>2. b.net = Home /\ Committee(Home, p).period = p
  BY <1>1 DEF Committee
<1> QED
  BY <1>1, <1>2, HomeBlock

\* A committee the contract knows and that signed b makes b's slot covered,
\* and b canonical.
LEMMA SignedByKnown ==
  ASSUME IInv, NEW b \in Blocks, NEW p \in Known, Signs(committee[p], b)
  PROVE  /\ b = [net |-> Home, slot |-> b.slot]
         /\ \/ Period(b.slot) \in Known
            \/ Period(b.slot) + 1 = initialization_committee
<1>1. committee[p] = Committee(Home, p)
  BY DEF IInv, StorageIsCanonical
<1>2. /\ b = [net |-> Home, slot |-> b.slot]
      /\ p = Period(b.slot) \/ p = Period(b.slot) + 1
  BY <1>1, SignedByHome
<1>3. CASE p = Period(b.slot)
  BY <1>2, <1>3
<1>4. CASE p = Period(b.slot) + 1
  <2>1. Period(b.slot) \in Nat
    BY PeriodType DEF Blocks, Block
  <2>2. p = initialization_committee \/ p - 1 \in Known
    BY DEF IInv, CommitteesFormChain
  <2>3. p - 1 = Period(b.slot)
    BY <1>4, <2>1
  <2> QED
    BY <1>2, <1>4, <2>2, <2>3
<1> QED
  BY <1>2, <1>3, <1>4

\* The committee an epoch output was checked against is one the contract knows.
LEMMA SignerIsKnown ==
  ASSUME NEW s \in Slots, NEW c \in Committees, IsSigningCommittee(s, c)
  PROVE  Period(s) \in Known /\ c = committee[Period(s)]
<1>1. c = committee[Period(s)]
  BY DEF IsSigningCommittee, Period
<1> QED
  BY <1>1, PeriodType, CircuitAssumption DEF Known

\* What one step of the contract does to its maps and to latest_epoch: an
\* epoch stored that a known committee signed, a committee added, or nothing.
EpochStep ==
  /\ UNCHANGED committee
  /\ \E b \in Blocks, p \in Known :
       /\ Signs(committee[p], b) /\ WriteEpoch(b.slot, b)
       /\ UNCHANGED latest_epoch \/ RaiseLatestEpoch(b.slot)

CommitteeStep ==
  /\ UNCHANGED <<epochs, latest_epoch>>
  /\ \E o \in CommitteeOutputs : VerifyCommitteeUpdate(o)

LEMMA StepEffect ==
  ASSUME IInv, [ClientNext]_vars
  PROVE  /\ UNCHANGED initialization_committee
         /\ \/ UNCHANGED <<committee, epochs, latest_epoch>>
            \/ EpochStep
            \/ CommitteeStep
<1> DEFINE Goal == /\ UNCHANGED initialization_committee
                   /\ \/ UNCHANGED <<committee, epochs, latest_epoch>>
                      \/ EpochStep
                      \/ CommitteeStep
<1>1. CASE UNCHANGED vars
  BY <1>1 DEF vars, storage
<1>2. ASSUME NEW f \in Facts, RegisterFact(f) PROVE Goal
  BY <1>2 DEF RegisterFact, storage
<1>3. ASSUME NEW o \in EpochOutputs, VerifyEpochUpdate(o) PROVE Goal
  <2>1. o.block \in Blocks /\ o.slot \in Slots /\ o.committee_hash \in Committees
    BY EpochOutputFacts
  <2>2. FromClient(o)
    BY <1>3, FactsOfClient DEF VerifyEpochUpdate, IsValidFactHash, IInv
  <2>3. /\ Period(o.slot) \in Known
        /\ o.committee_hash = committee[Period(o.slot)]
    BY <1>3, <2>1, SignerIsKnown DEF VerifyEpochUpdate
  <2> QED
    BY <1>3, <2>1, <2>2, <2>3 DEF VerifyEpochUpdate, FromClient, EpochStep
<1>4. ASSUME NEW o \in BatchOutputs, VerifyEpochBatch(o) PROVE Goal
  <2>1. /\ o.last \in o.leaves
        /\ o.last.block \in Blocks /\ o.last.slot \in Slots
        /\ o.last.committee_hash \in Committees
    BY BatchOutputFacts
  <2>2. FromClient(o.last)
    BY <1>4, <2>1, FactsOfClient DEF VerifyEpochBatch, IsValidFactHash, IInv
  <2>3. /\ Period(o.last.slot) \in Known
        /\ o.last.committee_hash = committee[Period(o.last.slot)]
    BY <1>4, <2>1, SignerIsKnown DEF VerifyEpochBatch
  <2> QED
    BY <1>4, <2>1, <2>2, <2>3 DEF VerifyEpochBatch, FromClient, EpochStep
<1>5. ASSUME NEW root \in BatchOutputs, NEW leaf \in root.leaves,
             DecommitBatchedEpoch(root, leaf)
      PROVE  Goal
  <2>1. leaf.block \in Blocks
    BY BatchOutputFacts
  <2>2. root \in batches /\ BatchFact(root) \in facts
    BY <1>5 DEF DecommitBatchedEpoch, IInv, AnyInv, StorageIsProven
  <2>3. FromClient(leaf)
    BY <2>2, FactsOfClient DEF IInv
  <2>4. PICK p \in Known : leaf.committee_hash = committee[p]
    BY <2>2 DEF IInv, BatchLeavesAreCovered
  <2> QED
    BY <1>5, <2>1, <2>3, <2>4 DEF DecommitBatchedEpoch, FromClient, EpochStep
<1>6. ASSUME NEW o \in CommitteeOutputs, VerifyCommitteeUpdate(o) PROVE Goal
  BY <1>6 DEF VerifyCommitteeUpdate, CommitteeStep
<1> QED
  BY <1>1, <1>2, <1>3, <1>4, <1>5, <1>6 DEF ClientNext, Next

\* A stored epoch is the canonical one of its slot, and replaces only itself.
LEMMA EpochStepFacts ==
  ASSUME IInv, NEW b \in Blocks, NEW p \in Known, Signs(committee[p], b),
         WriteEpoch(b.slot, b)
  PROVE  /\ Stored' = Stored \cup {b.slot}
         /\ epochs'[b.slot] = b
         /\ \A s \in Stored' : epochs'[s] = [net |-> Home, slot |-> s]
         /\ \A s \in Stored : epochs'[s] = epochs[s]
         /\ b = [net |-> Home, slot |-> b.slot]
         /\ \/ Period(b.slot) \in Known
            \/ Period(b.slot) + 1 = initialization_committee
<1>1. /\ b = [net |-> Home, slot |-> b.slot]
      /\ \/ Period(b.slot) \in Known
         \/ Period(b.slot) + 1 = initialization_committee
  BY SignedByKnown
<1>2. b.slot \in Slots
  BY DEF Blocks, Block
<1>3. /\ Stored' = Stored \cup {b.slot}
      /\ epochs'[b.slot] = b
      /\ \A s \in Stored : s # b.slot => epochs'[s] = epochs[s]
  BY <1>2, StoreEpoch DEF IInv, AnyInv
<1>4. \A s \in Stored : epochs[s] = [net |-> Home, slot |-> s]
  BY DEF IInv, StorageIsCanonical
<1>5. \A s \in Stored' : epochs'[s] = [net |-> Home, slot |-> s]
  BY <1>1, <1>3, <1>4
<1>6. \A s \in Stored : epochs'[s] = epochs[s]
  BY <1>1, <1>3, <1>4
<1> QED
  BY <1>1, <1>3, <1>5, <1>6

\* So is a committee, under the period after that of a stored epoch.
LEMMA CommitteeStepFacts ==
  ASSUME IInv, NEW o \in CommitteeOutputs, VerifyCommitteeUpdate(o)
  PROVE  LET id == Period(o.slot) + 1 IN
         /\ o.slot \in Stored /\ id \in Periods
         /\ Known' = Known \cup {id}
         /\ \A p \in Known' : committee'[p] = Committee(Home, p)
         /\ \A p \in Known : committee'[p] = committee[p]
<1> DEFINE id == Period(o.slot) + 1
<1>1. /\ o.slot \in Stored /\ id \in Periods
      /\ Known' = Known \cup {id}
      /\ committee'[id] = o.committee_hash
      /\ o.committee_hash = NextCommittee(epochs[o.slot])
      /\ \A p \in Known : p # id => committee'[p] = committee[p]
  BY StoreCommittee DEF IInv, AnyInv
<1>2. epochs[o.slot] = [net |-> Home, slot |-> o.slot]
  BY <1>1 DEF IInv, StorageIsCanonical
<1>3. committee'[id] = Committee(Home, id)
  BY <1>1, <1>2 DEF NextCommittee
<1>4. \A p \in Known : committee[p] = Committee(Home, p)
  BY DEF IInv, StorageIsCanonical
<1>5. \A p \in Known' : committee'[p] = Committee(Home, p)
  BY <1>1, <1>3, <1>4
<1>6. \A p \in Known : committee'[p] = committee[p]
  BY <1>1, <1>3, <1>4
<1> QED
  BY <1>1, <1>5, <1>6

\* Nothing stored is replaced.
LEMMA FinalStep ==
  ASSUME IInv, [ClientNext]_vars
  PROVE  /\ \A s \in Stored : epochs'[s] = epochs[s]
         /\ \A p \in Known : committee'[p] = committee[p]
         /\ latest_epoch' >= latest_epoch
<1>1. latest_epoch \in Nat
  BY SlotsAssumption, ChainAssumption DEF IInv, AnyInv, TypeOK, Slots
<1>2. CASE UNCHANGED <<committee, epochs, latest_epoch>>
  BY <1>1, <1>2
<1>3. CASE EpochStep
  <2>1. PICK b \in Blocks, p \in Known :
           /\ Signs(committee[p], b) /\ WriteEpoch(b.slot, b)
           /\ UNCHANGED latest_epoch \/ RaiseLatestEpoch(b.slot)
    BY <1>3 DEF EpochStep
  <2>2. \A s \in Stored : epochs'[s] = epochs[s]
    BY <2>1, EpochStepFacts
  <2>3. b.slot \in Nat
    BY SlotsAssumption, ChainAssumption DEF Blocks, Block, Slots
  <2>4. latest_epoch' >= latest_epoch
    BY <1>1, <2>1, <2>3 DEF RaiseLatestEpoch
  <2> QED
    BY <1>3, <2>2, <2>4 DEF EpochStep
<1>4. CASE CommitteeStep
  BY <1>1, <1>4, CommitteeStepFacts DEF CommitteeStep
<1> QED
  BY <1>2, <1>3, <1>4, StepEffect

---------------------------------------------------------------------------
(* IInv is inductive for ClientSpec. *)

LEMMA InitInv == Init => IInv
<1> SUFFICES ASSUME Init PROVE IInv
  OBVIOUS
<1>1. PICK id \in Periods : Constructor(id, Committee(Home, id))
  BY DEF Init
<1>2. facts = {} /\ batches = {} /\ AnyInv
  BY <1>1, InitAny DEF Init, Constructor
<1>3. Stored = {}
  BY <1>1 DEF Constructor, Stored
<1>4. Committee(Home, id) \in Committees
  BY SlotsAssumption, ChainAssumption DEF Committee, Committees
<1>5. /\ Known = {id} /\ committee[id] = Committee(Home, id)
      /\ initialization_committee = id
  BY <1>1, <1>4, CircuitAssumption DEF Constructor, Known
<1> QED
  BY <1>2, <1>3, <1>5
  DEF IInv, AllFromClient, StorageIsCanonical, CommitteesFormChain,
      BatchLeavesAreCovered, BatchLeavesAreOlder, EpochsAreCovered

LEMMA CanonicalStep ==
  ASSUME IInv, [ClientNext]_vars
  PROVE  StorageIsCanonical'
<1>1. CASE UNCHANGED <<committee, epochs, latest_epoch>>
  BY <1>1 DEF IInv, StorageIsCanonical, Stored, Known
<1>2. CASE EpochStep
  <2>1. PICK b \in Blocks, p \in Known : Signs(committee[p], b) /\ WriteEpoch(b.slot, b)
    BY <1>2 DEF EpochStep
  <2>2. \A s \in Stored' : epochs'[s] = [net |-> Home, slot |-> s]
    BY <2>1, EpochStepFacts
  <2>3. committee' = committee /\ Known' = Known
    BY <1>2 DEF EpochStep, Known
  <2> QED
    BY <2>2, <2>3 DEF IInv, StorageIsCanonical
<1>3. CASE CommitteeStep
  <2>1. PICK o \in CommitteeOutputs : VerifyCommitteeUpdate(o)
    BY <1>3 DEF CommitteeStep
  <2>2. \A p \in Known' : committee'[p] = Committee(Home, p)
    BY <2>1, CommitteeStepFacts
  <2>3. epochs' = epochs /\ Stored' = Stored
    BY <1>3 DEF CommitteeStep, Stored
  <2> QED
    BY <2>2, <2>3 DEF IInv, StorageIsCanonical
<1> QED
  BY <1>1, <1>2, <1>3, StepEffect

LEMMA ChainStep ==
  ASSUME IInv, [ClientNext]_vars
  PROVE  CommitteesFormChain' /\ EpochsAreCovered'
<1>0. UNCHANGED initialization_committee
  BY StepEffect
<1>1. CASE UNCHANGED <<committee, epochs, latest_epoch>>
  BY <1>0, <1>1 DEF IInv, CommitteesFormChain, EpochsAreCovered, Stored, Known
<1>2. CASE EpochStep
  <2>1. PICK b \in Blocks, p \in Known : Signs(committee[p], b) /\ WriteEpoch(b.slot, b)
    BY <1>2 DEF EpochStep
  <2>2. /\ Stored' = Stored \cup {b.slot}
        /\ \/ Period(b.slot) \in Known
           \/ Period(b.slot) + 1 = initialization_committee
    BY <2>1, EpochStepFacts
  <2>3. Known' = Known
    BY <1>2 DEF EpochStep, Known
  <2>4. CommitteesFormChain'
    BY <1>0, <2>2, <2>3 DEF IInv, CommitteesFormChain
  <2>5. EpochsAreCovered'
    BY <1>0, <2>2, <2>3 DEF IInv, EpochsAreCovered
  <2> QED
    BY <2>4, <2>5
<1>3. CASE CommitteeStep
  <2>1. PICK o \in CommitteeOutputs : VerifyCommitteeUpdate(o)
    BY <1>3 DEF CommitteeStep
  <2> DEFINE id == Period(o.slot) + 1
  <2>2. o.slot \in Stored /\ Known' = Known \cup {id}
    BY <2>1, CommitteeStepFacts
  <2>3. Stored' = Stored
    BY <1>3 DEF CommitteeStep, Stored
  <2>4. EpochsAreCovered'
    BY <1>0, <2>2, <2>3 DEF IInv, EpochsAreCovered
  <2>5. ASSUME NEW p \in Known', p # initialization_committee'
        PROVE  p - 1 \in Known' /\ \E s \in Stored' : Period(s) = p - 1
    <3>1. CASE p \in Known
      BY <1>0, <2>2, <2>3, <2>5, <3>1 DEF IInv, CommitteesFormChain
    <3>2. CASE p = id
      <4>1. Period(o.slot) \in Nat
        BY <2>2, PeriodType DEF Stored
      <4>2. Period(o.slot) \in Known
        BY <1>0, <2>2, <2>5, <3>2 DEF IInv, EpochsAreCovered
      <4> QED
        BY <2>2, <2>3, <3>2, <4>1, <4>2
    <3> QED
      BY <2>2, <3>1, <3>2
  <2>6. CommitteesFormChain'
    BY <2>5 DEF CommitteesFormChain
  <2> QED
    BY <2>4, <2>6
<1> QED
  BY <1>1, <1>2, <1>3, StepEffect

\* A committee a batch was checked against stays known.
LEMMA BatchStep ==
  ASSUME IInv, [ClientNext]_vars
  PROVE  \A root \in batches' : \A l \in root.leaves :
           \E p \in Known' : l.committee_hash = committee'[p]
<1>1. Known \subseteq Known'
  <2>1. CASE UNCHANGED committee
    BY <2>1 DEF Known
  <2>2. CASE CommitteeStep
    BY <2>2, CommitteeStepFacts DEF CommitteeStep
  <2> QED
    BY <2>1, <2>2, StepEffect DEF EpochStep
<1>2. \A p \in Known : committee'[p] = committee[p]
  BY FinalStep
<1>3. ASSUME NEW root \in batches', root \notin batches
      PROVE  /\ root \in BatchOutputs
             /\ \E p \in Known : root.last.committee_hash = committee[p]
  <2>1. PICK o \in BatchOutputs : VerifyEpochBatch(o) /\ root = o
    BY <1>3 DEF ClientNext, Next, vars, storage, RegisterFact, VerifyEpochUpdate,
       VerifyEpochBatch, DecommitBatchedEpoch, VerifyCommitteeUpdate
  <2>2. o.last.slot \in Slots /\ o.last.committee_hash \in Committees
    BY BatchOutputFacts
  <2> QED
    BY <2>1, <2>2, SignerIsKnown DEF VerifyEpochBatch
<1>4. ASSUME NEW root \in batches', NEW l \in root.leaves
      PROVE  \E p \in Known : l.committee_hash = committee[p]
  <2>1. CASE root \in batches
    BY <2>1 DEF IInv, BatchLeavesAreCovered
  <2>2. CASE root \notin batches
    BY <1>3, <2>2, BatchOutputFacts
  <2> QED
    BY <2>1, <2>2
<1> QED
  BY <1>1, <1>2, <1>4

LEMMA NextInv == IInv /\ [ClientNext]_vars => IInv'
<1> SUFFICES ASSUME IInv, [ClientNext]_vars PROVE IInv'
  OBVIOUS
<1>1. AnyInv'
  BY AnyNext DEF IInv, ClientNext
<1>2. AllFromClient'
  BY DEF IInv, ClientNext, AllFromClient, vars
<1>3. BatchLeavesAreCovered'
  BY <1>1, BatchStep DEF AnyInv, BatchLeavesAreCovered
<1> QED
  BY <1>1, <1>2, <1>3, CanonicalStep, ChainStep DEF IInv

\* The invariant holds while all proofs come from the client's input files.
THEOREM Invariance == ClientSpec => []IInv
<1>1. Init => IInv
  BY InitInv
<1>2. IInv /\ [ClientNext]_vars => IInv'
  BY NextInv
<1> QED
  BY <1>1, <1>2, PTL DEF ClientSpec

\* Headers and committees in storage are those of the chain the contract was
\* deployed for, although facts of other networks are proven too.
THEOREM Canonical == ClientSpec => []StorageIsCanonical
<1>1. IInv => StorageIsCanonical
  BY DEF IInv
<1> QED
  BY <1>1, Invariance, PTL

\* The known committees are an unbroken chain from the anchor.
THEOREM CommitteeChain == ClientSpec => []CommitteesFormChain
<1>1. IInv => CommitteesFormChain
  BY DEF IInv
<1> QED
  BY <1>1, Invariance, PTL

\* The two checks decommit_batched_epoch leaves out hold of its leaf anyway.
THEOREM BatchLeaves == ClientSpec => []BatchLeavesAreCovered
<1>1. IInv => BatchLeavesAreCovered
  BY DEF IInv
<1> QED
  BY <1>1, Invariance, PTL

\* So every stored epoch, decommitted or verified itself, is of a period with a
\* known committee, or of the last blocks before the anchor's.
THEOREM Covered == ClientSpec => []EpochsAreCovered
<1>1. IInv => EpochsAreCovered
  BY DEF IInv
<1> QED
  BY <1>1, Invariance, PTL

\* Nothing stored is ever replaced by something else and the newest epoch is
\* never given up, although every handler overwrites without looking.
THEOREM Finality == ClientSpec => StoredIsFinal
<1> DEFINE Final == /\ \A s \in Stored : epochs'[s] = epochs[s]
                    /\ \A p \in Known : committee'[p] = committee[p]
                    /\ latest_epoch' >= latest_epoch
<1>1. IInv /\ [ClientNext]_vars => [Final]_vars
  BY FinalStep
<1> QED
  BY <1>1, Invariance, PTL DEF ClientSpec, StoredIsFinal

---------------------------------------------------------------------------
(* The contract implements the abstract light client. *)

\* The abstract client's chain is the contract's.
LEMMA SameChain ==
  /\ LC!Blocks = Blocks
  /\ \A c, b : LC!Signs(c, b) <=> Signs(c, b)
  /\ \A b : LC!NextCommittee(b) = NextCommittee(b)
  /\ LC!Periods = Periods
  /\ \A n, p : LC!Committee(n, p) = Committee(n, p)
<1>1. LC!Blocks = Blocks
  BY DEF LC!Blocks, LC!Block, LC!Slots, Blocks, Block, Slots
<1>2. \A c, b : LC!Signs(c, b) <=> Signs(c, b)
  BY DEF LC!Signs, LC!IsSignatureSlot, LC!Committee, LC!Period, LC!Slots,
     Signs, IsSignatureSlot, Committee, Period, Slots
<1>3. \A b : LC!NextCommittee(b) = NextCommittee(b)
  BY DEF LC!NextCommittee, LC!Committee, LC!Period, NextCommittee, Committee,
     Period
<1>4. LC!Periods = Periods
  BY DEF LC!Periods, LC!Period, Periods, Period
<1>5. \A n, p : LC!Committee(n, p) = Committee(n, p)
  BY DEF LC!Committee, Committee
<1> QED
  BY <1>1, <1>2, <1>3, <1>4, <1>5

LEMMA InitMaps == Init => LC!Init
<1> SUFFICES ASSUME Init PROVE LC!Init
  OBVIOUS
<1>1. PICK id \in Periods : Constructor(id, Committee(Home, id))
  BY DEF Init
<1>2. Stored = {}
  BY <1>1 DEF Constructor, Stored
<1>3. Committee(Home, id) \in Committees
  BY SlotsAssumption, ChainAssumption DEF Committee, Committees
<1>4. Known = {id} /\ committee[id] = Committee(Home, id)
  BY <1>1, <1>3, CircuitAssumption DEF Constructor, Known
<1>5. {<<p, committee[p]>> : p \in Known} = {<<id, Committee(Home, id)>>}
  BY <1>4
<1> QED
  BY <1>2, <1>5, SameChain DEF LC!Init

LEMMA StepMaps == IInv /\ [ClientNext]_vars => [LC!Next]_(LC!lightVars)
<1> SUFFICES ASSUME IInv, [ClientNext]_vars PROVE [LC!Next]_(LC!lightVars)
  OBVIOUS
<1>1. CASE UNCHANGED <<committee, epochs, latest_epoch>>
  BY <1>1 DEF LC!lightVars, Stored, Known
<1>2. CASE EpochStep
  <2>1. PICK b \in Blocks, p \in Known :
               Signs(committee[p], b) /\ WriteEpoch(b.slot, b)
    BY <1>2 DEF EpochStep
  <2>2. /\ Stored' = Stored \cup {b.slot}
        /\ epochs'[b.slot] = b
        /\ \A s \in Stored : epochs'[s] = epochs[s]
    BY <2>1, EpochStepFacts
  <2>3. {<<s, epochs'[s]>> : s \in Stored'}
          = {<<s, epochs[s]>> : s \in Stored} \cup {<<b.slot, b>>}
    BY <2>2
  <2>4. {<<q, committee'[q]>> : q \in Known'} = {<<q, committee[q]>> : q \in Known}
    BY <1>2 DEF Known, EpochStep
  <2>5. \E k \in {<<q, committee[q]>> : q \in Known} : Signs(k[2], b)
    <3>1. <<p, committee[p]>>[2] = committee[p]
      OBVIOUS
    <3>2. <<p, committee[p]>> \in {<<q, committee[q]>> : q \in Known}
      OBVIOUS
    <3> QED
      BY <2>1, <3>1, <3>2
  <2>6. LC!AcceptHeader(b)
    BY <2>3, <2>4, <2>5, SameChain DEF LC!AcceptHeader
  <2>7. LC!Next
    BY <2>6, SameChain DEF LC!Next
  <2> QED
    BY <2>7
<1>3. CASE CommitteeStep
  <2>1. PICK o \in CommitteeOutputs : VerifyCommitteeUpdate(o)
    BY <1>3 DEF CommitteeStep
  <2> DEFINE id == Period(o.slot) + 1
  <2>2. /\ o.slot \in Stored /\ id \in Periods
        /\ Known' = Known \cup {id}
        /\ \A p \in Known' : committee'[p] = Committee(Home, p)
        /\ \A p \in Known : committee'[p] = committee[p]
    BY <2>1, CommitteeStepFacts
  <2>3. PICK b \in Blocks : b = epochs[o.slot] /\ b.net = Home /\ b.slot = o.slot
    BY <2>2 DEF IInv, AnyInv, TypeOK, StorageIsCanonical, Stored
  <2>4. {<<p, committee'[p]>> : p \in Known'}
          = {<<p, committee[p]>> : p \in Known} \cup {<<id, Committee(Home, id)>>}
    BY <2>2
  <2>5. {<<s, epochs'[s]>> : s \in Stored'} = {<<s, epochs[s]>> : s \in Stored}
    BY <1>3 DEF Stored, CommitteeStep
  <2>6. <<b.slot, b>> \in {<<s, epochs[s]>> : s \in Stored}
    BY <2>2, <2>3
  <2>7. LC!AcceptCommittee(b)
    BY <2>3, <2>4, <2>5, <2>6, SameChain
    DEF LC!AcceptCommittee, LC!Period, NextCommittee, Period
  <2>8. LC!Next
    BY <2>3, <2>7, SameChain DEF LC!Next
  <2> QED
    BY <2>8
<1> QED
  BY <1>1, <1>2, <1>3, StepEffect

\* Every run of the contract on proofs of the client's input files is a run of
\* the abstract light client.
THEOREM Refinement == ClientSpec => ImplementsLightClient
<1>1. Init => LC!Init
  BY InitMaps
<1>2. IInv /\ [ClientNext]_vars => [LC!Next]_(LC!lightVars)
  BY StepMaps
<1> QED
  BY <1>1, <1>2, Invariance, PTL DEF ClientSpec, ImplementsLightClient, LC!Spec
===============================================================================
