-------------------------- MODULE BankaiSystemProofs --------------------------
(***************************************************************************)
(* Proofs about BankaiSystem, for every chain, every set of outputs,        *)
(* proofs under way and failures: the contract keeps its guarantees in the *)
(* system, and what the commands derive from it, the circuits accept.      *)
(***************************************************************************)
EXTENDS BankaiSystem, BankaiContractProofs, ArithmeticProofs, FiniteSetTheorems

LEMMA BoundFacts ==
  /\ MaxAttempts \in Nat \ {0} /\ 2 * MaxAttempts <= SlotsPerEpoch
  /\ SlotsPerEpoch \in Nat \ {0} /\ SlotsPerPeriod \in Nat \ {0}
  /\ TargetBatchSize \in Nat \ {0} /\ MaxSlot \in Nat
  /\ Slots \subseteq Nat /\ Heads \subseteq Slots
BY SlotsAssumption, SystemAssumption DEF Slots

\* An epoch lies in one period.
LEMMA PeriodOfEpoch ==
  ASSUME NEW s \in Nat, s % SlotsPerEpoch = 0,
         NEW a \in Nat, s <= a, a < s + SlotsPerEpoch
  PROVE  Period(a) = Period(s)
<1>1. /\ SlotsPerEpoch \in Nat \ {0} /\ SlotsPerPeriod \in Nat \ {0}
      /\ SlotsPerPeriod % SlotsPerEpoch = 0
  BY SlotsAssumption
<1>2. a \div SlotsPerPeriod = s \div SlotsPerPeriod
  BY <1>1, LargerBlockOf, Zenon
<1> QED
  BY <1>2 DEF Period

LEMMA VisibleFacts ==
  /\ Visible \subseteq Proposed[Home]
  /\ Visible \subseteq Slots
BY ChainAssumption DEF Visible

---------------------------------------------------------------------------
(* Inputs of one epoch. *)

\* The first slot of an epoch, from which inputs are fetched.
LEMMA NextEpochFacts ==
  ASSUME NEW e \in Nat
  PROVE  /\ NextEpoch(e) \in Nat /\ NextEpoch(e) % SlotsPerEpoch = 0
         /\ NextEpoch(e) >= SlotsPerEpoch
<1> DEFINE k == e \div SlotsPerEpoch
<1>1. k \in Nat
  BY BoundFacts
<1> HIDE DEF k
<1>2. NextEpoch(e) = SlotsPerEpoch * (k + 1)
  BY <1>1, BoundFacts DEF NextEpoch, k
<1>3. SlotsPerEpoch * (k + 1) \in Nat /\ SlotsPerEpoch * (k + 1) >= SlotsPerEpoch
  BY <1>1, BoundFacts
<1>4. (SlotsPerEpoch * (k + 1)) % SlotsPerEpoch = 0
  BY <1>1, BoundFacts
<1> QED
  BY <1>2, <1>3, <1>4

\* Header and aggregate are of one epoch, the aggregate is the header's, and
\* the committee fetched at the slot after the header is the one that signed.
LEMMA EpochInputFacts ==
  ASSUME head \in Slots, NEW s \in Nat, s % SlotsPerEpoch = 0,
         NEW o \in EpochInputs(s)
  PROVE  /\ o.block = [net |-> Home, slot |-> o.slot]
         /\ o.slot \in Visible
         /\ o.slot \in Nat
         /\ s <= o.slot /\ o.slot < s + SlotsPerEpoch
         /\ o = [block |-> o.block, slot |-> o.slot,
                 committee_hash |-> Committee(Home, Period(s))]
         /\ Period(o.slot) = Period(s)
         /\ FromClient(o)
         /\ FitsContract(o)
<1> USE BoundFacts, VisibleFacts
<1>1. PICK h \in FirstBlock(s) :
         /\ FirstBlock(h + 1) # {}
         /\ o = [block |-> [net |-> Home, slot |-> h],
                 slot |-> h,
                 committee_hash |-> Committee(Home, Period(h + 1))]
  BY DEF EpochInputs
<1>2. h \in Visible /\ h \in Nat /\ s <= h /\ h < s + MaxAttempts
  BY <1>1 DEF FirstBlock
<1>3. PICK t \in FirstBlock(h + 1) : TRUE
  BY <1>1
<1>4. /\ t \in Visible /\ t \in Nat /\ h + 1 <= t /\ t < h + 1 + MaxAttempts
      /\ \A u \in Visible : u < h + 1 \/ u >= t
  BY <1>3 DEF FirstBlock
<1>5. \A a \in {h, h + 1, t} : a \in Nat /\ s <= a /\ a < s + SlotsPerEpoch
  BY <1>2, <1>4
<1>6. Period(h) = Period(s) /\ Period(h + 1) = Period(s) /\ Period(t) = Period(s)
  BY <1>5, PeriodOfEpoch
<1>7. IsSignatureSlot(Proposed[Home], h, t)
  <2>1. ASSUME NEW u \in Proposed[Home], h < u PROVE t <= u
    <3>1. u \in Nat /\ t <= head /\ head \in Nat
      BY <1>4, ChainAssumption DEF Visible
    <3>2. CASE u <= head
      BY <1>2, <1>4, <2>1, <3>1, <3>2 DEF Visible
    <3>3. CASE u > head
      BY <1>4, <3>1, <3>3
    <3> QED
      BY <3>1, <3>2, <3>3
  <2> QED
    BY <1>2, <1>4, <2>1 DEF IsSignatureSlot
<1>8. Signs(o.committee_hash, o.block)
  BY <1>1, <1>4, <1>6, <1>7 DEF Signs
<1> QED
  BY <1>1, <1>2, <1>5, <1>6, <1>8 DEF FromClient, FitsContract

---------------------------------------------------------------------------
(* Inputs of a batch. *)

\* The range of a batch lies in the term of its first epoch.
LEMMA BatchSlotFacts ==
  ASSUME NEW e \in Nat, NEW s \in BatchSlots(e)
  PROVE  /\ s \in Nat /\ s % SlotsPerEpoch = 0 /\ s >= SlotsPerEpoch
         /\ Period(s) = Period(NextEpoch(e))
<1> DEFINE start == NextEpoch(e)
           end == TermsLastEpoch(start)
           gap == (end - start) \div SlotsPerEpoch
           p == Period(start)
<1> USE BoundFacts
<1>1. start \in Nat /\ start % SlotsPerEpoch = 0 /\ start >= SlotsPerEpoch
  BY NextEpochFacts
<1>2. p \in Nat
  BY <1>1 DEF Period
<1> HIDE DEF start
<1>3. end = SlotsPerPeriod * p + SlotsPerPeriod - SlotsPerEpoch /\ end \in Int
  BY <1>2 DEF TermsLastEpoch
<1>4. s \in start..(BatchEnd(start) - 1) /\ (s - start) % SlotsPerEpoch = 0
  BY DEF BatchSlots, start
<1>5. BatchEnd(start) <= end /\ BatchEnd(start) \in Int
  <2>1. gap \in Int /\ SlotsPerEpoch * gap <= end - start
    BY <1>1, <1>3
  <2> HIDE DEF gap, end
  <2>2. BatchEnd(start) = IF gap >= 2 * TargetBatchSize
                          THEN start + TargetBatchSize * SlotsPerEpoch ELSE end
    BY DEF BatchEnd, gap, end
  <2>3. TargetBatchSize * SlotsPerEpoch \in Nat /\ end \in Int
    BY <1>3
  <2>4. ASSUME gap >= 2 * TargetBatchSize
        PROVE  start + TargetBatchSize * SlotsPerEpoch <= end
    <3>1. SlotsPerEpoch * (2 * TargetBatchSize) <= SlotsPerEpoch * gap
      BY <2>1, <2>4
    <3>2. SlotsPerEpoch * (2 * TargetBatchSize) = 2 * (TargetBatchSize * SlotsPerEpoch)
      OBVIOUS
    <3>3. SlotsPerEpoch * gap \in Int
      BY <2>1
    <3> QED
      BY <1>1, <2>1, <2>3, <3>1, <3>2, <3>3
  <2> QED
    BY <1>1, <2>2, <2>3, <2>4
<1> HIDE DEF end
<1>6. s \in Nat /\ start <= s /\ s < SlotsPerPeriod * p + SlotsPerPeriod
  BY <1>1, <1>2, <1>3, <1>4, <1>5
<1>7. SlotsPerPeriod * p <= start /\ SlotsPerPeriod * p \in Nat
  BY <1>1, <1>2 DEF Period
<1> HIDE DEF p
<1>8. Period(s) = p
  <2>1. s - SlotsPerPeriod * p \in 0..(SlotsPerPeriod - 1)
    BY <1>1, <1>6, <1>7
  <2>2. (SlotsPerPeriod * p + (s - SlotsPerPeriod * p)) \div SlotsPerPeriod = p
    BY <1>2, <2>1, DivUnique
  <2>3. SlotsPerPeriod * p + (s - SlotsPerPeriod * p) = s
    BY <1>6, <1>7
  <2> QED
    BY <2>2, <2>3 DEF Period
<1>9. s % SlotsPerEpoch = 0
  <2> DEFINE j == (s - start) \div SlotsPerEpoch
             k == start \div SlotsPerEpoch
  <2>1. j \in Nat /\ s - start = SlotsPerEpoch * j
    BY <1>1, <1>4, <1>6
  <2>2. k \in Nat /\ start = SlotsPerEpoch * k
    BY <1>1
  <2> HIDE DEF j, k
  <2>3. s = SlotsPerEpoch * (j + k)
    BY <1>1, <1>6, <2>1, <2>2
  <2>4. (SlotsPerEpoch * (j + k)) % SlotsPerEpoch = 0
    BY <2>1, <2>2
  <2> QED
    BY <2>3, <2>4
<1> QED
  BY <1>1, <1>6, <1>8, <1>9 DEF start, p

\* The epochs of a batch are signed, of one committee, of different slots;
\* and the batch circuit's last output is the newest of them.
LEMMA BatchInputFacts ==
  ASSUME head \in Slots, NEW e \in Nat, NEW o \in BatchInputs(BatchSlots(e))
  PROVE  /\ BatchProvable(o) /\ FitsContract(o.last)
         /\ \A l \in o.leaves : FromClient(l)
<1> DEFINE slots == BatchSlots(e)
           leaves == UNION {EpochInputs(s) : s \in slots}
           p == Period(NextEpoch(e))
           numbers == {l.slot : l \in leaves}
<1> USE BoundFacts, VisibleFacts
<1>1. /\ slots # {} /\ \A s \in slots : EpochInputs(s) # {}
      /\ o = [leaves |-> leaves,
              last |-> CHOOSE l \in leaves :
                         \A m \in leaves : m.slot <= l.slot]
  BY DEF BatchInputs
<1>2. ASSUME NEW l \in leaves
      PROVE  /\ l = [block |-> [net |-> Home, slot |-> l.slot],
                     slot |-> l.slot,
                     committee_hash |-> Committee(Home, p)]
             /\ l.slot \in Nat /\ l.slot \in 0..MaxSlot
             /\ 0 < l.slot
             /\ FromClient(l) /\ FitsContract(l)
  <2>1. PICK s \in slots : l \in EpochInputs(s)
    OBVIOUS
  <2>2. s \in Nat /\ s % SlotsPerEpoch = 0 /\ s >= SlotsPerEpoch /\ Period(s) = p
    BY BatchSlotFacts
  <2>3. /\ l.block = [net |-> Home, slot |-> l.slot]
        /\ l.slot \in Visible /\ l.slot \in Nat /\ s <= l.slot
        /\ l = [block |-> l.block, slot |-> l.slot,
                committee_hash |-> Committee(Home, Period(s))]
        /\ FromClient(l) /\ FitsContract(l)
    BY <2>1, <2>2, EpochInputFacts
  <2>4. 0 < l.slot
    BY <2>2, <2>3
  <2>5. l.slot \in 0..MaxSlot
    BY <2>3 DEF Slots
  <2> QED
    BY <2>2, <2>3, <2>4, <2>5
<1> HIDE DEF slots, p
<1>3. leaves # {}
  BY <1>1
<1> HIDE DEF leaves
<1>4. PICK n \in numbers : \A m \in numbers : m <= n
  <2>1. numbers \in SUBSET (0..MaxSlot) /\ numbers # {}
    BY <1>2, <1>3
  <2> QED
    BY <2>1, GreatestElement
<1>5. \E l \in leaves : \A m \in leaves : m.slot <= l.slot
  BY <1>4
<1>6. /\ o.leaves = leaves /\ o.last \in leaves
      /\ \A m \in leaves : m.slot <= o.last.slot
  BY <1>1, <1>5
<1>7. \A l, m \in leaves : l.slot = m.slot => l = m
  BY <1>2
<1>8. BatchInOrder(o)
  BY <1>2, <1>6, <1>7 DEF BatchInOrder
<1>9. OneCommittee(o)
  BY <1>2, <1>6 DEF OneCommittee
<1> QED
  BY <1>2, <1>6, <1>8, <1>9 DEF BatchProvable

---------------------------------------------------------------------------
(* The contract inside the system. *)

LEMMA InitContract == SysInit => Init
BY SystemAssumption DEF SysInit, Init

\* A call of the contract by a command or by anyone.
Calls == \/ \E s \in Slots : VerifyEpoch(s) \/ VerifyBatch(s) \/ VerifyCommittee(s)
         \/ Decommit

\* A step of a prove-next command, of the operator or of Atlantic, or one more
\* slot.
ClientStep ==
  \/ Grow
  \/ \E c \in Commands : Start(c) \/ Prove(c) \/ ProveFails(c) \/ CommandAborts(c)
  \/ "committee" \in Commands /\ ReadEpochForCommittee
  \/ \E s \in ManualSlots : ProveByHand(s)
  \/ \E f \in Facts : AtlanticProves(f) \/ SubmitWrappedProof(f) \/ AtlanticFails(f)

LEMMA NextCases ==
  SysNext => Calls \/ ClientStep \/ \E f \in Facts : AtlanticVerifies(f)
BY DEF SysNext, Calls, ClientStep, AtlanticStep

LEMMA CallEffect ==
  ASSUME Calls
  PROVE  /\ Next /\ UNCHANGED client /\ UNCHANGED facts
<1>1. ASSUME NEW s \in Slots, VerifyEpoch(s)
      PROVE  Next /\ UNCHANGED client /\ UNCHANGED facts
  <2>1. PICK o \in EpochOutputs : VerifyEpochUpdate(o) /\ UNCHANGED client
    BY <1>1 DEF VerifyEpoch, EpochFilesAt
  <2> QED
    BY <2>1 DEF Next, VerifyEpochUpdate
<1>2. ASSUME NEW s \in Slots, VerifyBatch(s)
      PROVE  Next /\ UNCHANGED client /\ UNCHANGED facts
  <2>1. PICK o \in BatchOutputs : VerifyEpochBatch(o) /\ UNCHANGED client
    BY <1>2 DEF VerifyBatch, BatchFilesTo
  <2> QED
    BY <2>1 DEF Next, VerifyEpochBatch
<1>3. ASSUME NEW s \in Slots, VerifyCommittee(s)
      PROVE  Next /\ UNCHANGED client /\ UNCHANGED facts
  <2>1. PICK o \in CommitteeOutputs : VerifyCommitteeUpdate(o) /\ UNCHANGED client
    BY <1>3 DEF VerifyCommittee, CommitteeFilesAt
  <2> QED
    BY <2>1 DEF Next, VerifyCommitteeUpdate
<1>4. CASE Decommit
  <2>1. PICK root \in BatchOutputs : \E leaf \in root.leaves :
          DecommitBatchedEpoch(root, leaf) /\ UNCHANGED client
    BY <1>4 DEF Decommit
  <2> QED
    BY <2>1 DEF Next, DecommitBatchedEpoch
<1> QED
  BY <1>1, <1>2, <1>3, <1>4 DEF Calls

LEMMA ClientEffect == ClientStep => UNCHANGED vars
BY DEF ClientStep, Grow, Start, Prove, ProveFails, CommandAborts,
       ReadEpochForCommittee, ProveByHand, AtlanticProves, SubmitWrappedProof,
       AtlanticFails

---------------------------------------------------------------------------
(* Types of the system. *)

\* All files the commands leave are input files of the client.
FilesInv == \A f \in Files : FactFromClient(f)

TypeInv == IInv /\ SysTypeOK /\ IsFiniteSet(Jobs) /\ FilesInv

\* A file comes from a command that has fetched its inputs.
LEMMA ProvableFromClient ==
  \A c : \A f \in Provable(c) : f \in Facts /\ FactFromClient(f)
BY DEF Provable

ActiveStages == {"proving", "proved", "wrapping"}

\* What one change of a stage does to the set of jobs, and to the stages.
LEMMA StageStep ==
  ASSUME SysTypeOK, IsFiniteSet(Jobs), NEW f \in Facts, NEW v \in Stages,
         stage' = [stage EXCEPT ![f] = v],
         v \in ActiveStages /\ f \notin Jobs => Cardinality(Jobs) < MaxJobs
  PROVE  /\ stage' \in [Facts -> Stages]
         /\ IsFiniteSet(Jobs') /\ Cardinality(Jobs') <= MaxJobs
<1>1. stage' \in [Facts -> Stages]
  BY DEF SysTypeOK
<1>2. Cardinality(Jobs) \in Nat /\ Cardinality(Jobs) <= MaxJobs /\ MaxJobs \in Nat
  BY FS_CardinalityType, SystemAssumption DEF SysTypeOK
<1>3. CASE v \in ActiveStages
  <2>1. Jobs' = Jobs \cup {f}
    BY <1>3 DEF Jobs, ActiveStages, SysTypeOK
  <2>2. /\ IsFiniteSet(Jobs \cup {f})
        /\ Cardinality(Jobs \cup {f}) = IF f \in Jobs THEN Cardinality(Jobs)
                                       ELSE Cardinality(Jobs) + 1
    BY FS_AddElement
  <2> QED
    BY <1>1, <1>2, <1>3, <2>1, <2>2
<1>4. CASE v \notin ActiveStages
  <2>1. Jobs' \in SUBSET Jobs
    BY <1>4 DEF Jobs, ActiveStages, SysTypeOK
  <2>2. IsFiniteSet(Jobs') /\ Cardinality(Jobs') <= Cardinality(Jobs)
    BY <2>1, FS_Subset
  <2>3. Cardinality(Jobs') \in Nat
    BY <2>2, FS_CardinalityType
  <2> QED
    BY <1>1, <1>2, <2>2, <2>3
<1> QED
  BY <1>3, <1>4

LEMMA FilesStep ==
  ASSUME FilesInv, SysTypeOK, NEW f \in Facts, FactFromClient(f), NEW v,
         stage' = [stage EXCEPT ![f] = v]
  PROVE  FilesInv'
<1>1. Files' \subseteq Files \cup {f}
  BY DEF Files, SysTypeOK
<1> QED
  BY <1>1 DEF FilesInv

LEMMA InitTypes == SysInit => TypeInv
<1> SUFFICES ASSUME SysInit PROVE TypeInv
  OBVIOUS
<1> USE BoundFacts
<1>1. IInv
  BY InitContract, InitInv
<1>2. head \in Heads
  <2>1. Heads \in SUBSET Nat /\ Heads # {}
    BY SystemAssumption
  <2>2. \E m \in Heads : \A x \in Heads : m <= x
    BY <2>1, LeastElement
  <2> QED
    BY <2>2 DEF SysInit, Min
<1>3. Jobs = {} /\ IsFiniteSet(Jobs) /\ Cardinality(Jobs) = 0
  BY FS_EmptySet DEF SysInit, Jobs
<1>4. readId \in Periods
  BY PeriodType DEF SysInit, Periods, Slots
<1>5. latest_epoch = 0
  BY DEF SysInit, Constructor
<1>6. SysTypeOK
  BY <1>1, <1>2, <1>3, <1>4, <1>5, SystemAssumption
  DEF SysInit, SysTypeOK, Stages, IInv, AnyInv
<1>7. FilesInv
  BY DEF SysInit, FilesInv, Files
<1> QED
  BY <1>1, <1>3, <1>6, <1>7 DEF TypeInv

LEMMA CallTypes ==
  ASSUME TypeInv, Calls
  PROVE  TypeInv'
<1>1. IInv' /\ latest_epoch' >= latest_epoch
  <2>1. ClientNext
    BY CallEffect DEF ClientNext, TypeInv, IInv, AllFromClient
  <2> QED
    BY <2>1, NextInv, FinalStep DEF TypeInv
<1>2. latest_epoch \in Nat /\ latest_epoch' \in Nat
  BY <1>1, BoundFacts DEF TypeInv, IInv, AnyInv, TypeOK
<1>3. 0..latest_epoch \subseteq 0..latest_epoch'
  BY <1>1, <1>2
<1>4. UNCHANGED client /\ UNCHANGED facts
  BY CallEffect
<1>5. readEpoch' \in [Commands -> 0..latest_epoch']
  <2>1. readEpoch' = readEpoch
    BY <1>4 DEF client
  <2> QED
    BY <1>3, <2>1 DEF TypeInv, SysTypeOK
<1>6. SysTypeOK'
  BY <1>1, <1>4, <1>5 DEF TypeInv, SysTypeOK, client, Jobs, IInv, AnyInv
<1>7. IsFiniteSet(Jobs') /\ FilesInv'
  BY <1>4 DEF TypeInv, client, Jobs, FilesInv, Files
<1> QED
  BY <1>1, <1>6, <1>7 DEF TypeInv

\* Every step of the client leaves the contract alone, so a proof about one
\* only has to look at the client's variables.
LEMMA ClientTypes ==
  ASSUME TypeInv, UNCHANGED vars,
         head' \in Heads,
         pc' \in [Commands -> {"idle", "has_id", "has_epoch"}],
         readEpoch' \in [Commands -> 0..latest_epoch],
         readId' \in Periods,
         failures' \in 0..MaxFailures,
         \/ UNCHANGED stage
         \/ \E f \in Facts, v \in Stages :
              /\ stage' = [stage EXCEPT ![f] = v]
              /\ v \in ActiveStages /\ f \notin Jobs => Cardinality(Jobs) < MaxJobs
              /\ v # "verified" /\ stage[f] # "verified"
              /\ FactFromClient(f)
  PROVE  TypeInv'
<1>1. IInv'
  BY NextInv DEF TypeInv
<1>2. CASE UNCHANGED stage
  BY <1>1, <1>2 DEF TypeInv, SysTypeOK, Jobs, IInv, AnyInv, vars, storage, FilesInv,
                    Files
<1>3. ASSUME NEW f \in Facts, NEW v \in Stages, stage' = [stage EXCEPT ![f] = v],
             v \in ActiveStages /\ f \notin Jobs => Cardinality(Jobs) < MaxJobs,
             v # "verified", stage[f] # "verified", FactFromClient(f)
      PROVE  TypeInv'
  <2>1. /\ stage' \in [Facts -> Stages]
        /\ IsFiniteSet(Jobs') /\ Cardinality(Jobs') <= MaxJobs
    BY <1>3, StageStep DEF TypeInv
  <2>2. facts' = {g \in Facts : stage'[g] = "verified"}
    BY <1>3 DEF TypeInv, SysTypeOK, vars
  <2>3. FilesInv'
    BY <1>3, FilesStep DEF TypeInv
  <2> QED
    BY <1>1, <2>1, <2>2, <2>3 DEF TypeInv, SysTypeOK, IInv, AnyInv, vars, storage
<1> QED
  BY <1>2, <1>3

LEMMA GrowTypes ==
  ASSUME TypeInv, Grow
  PROVE  TypeInv'
<1>1. head' \in Heads
  <2> DEFINE later == {h \in Heads : h > head}
  <2>1. later \in SUBSET Nat /\ later # {}
    BY BoundFacts DEF Grow
  <2>2. \E m \in later : \A x \in later : m <= x
    BY <2>1, LeastElement
  <2>3. Min(later) \in later
    BY <2>2 DEF Min
  <2> QED
    BY <2>3 DEF Grow
<1> QED
  BY <1>1, ClientTypes DEF Grow, TypeInv, SysTypeOK

LEMMA StartTypes ==
  ASSUME TypeInv, NEW c \in Commands, Start(c)
  PROVE  TypeInv'
<1>1. latest_epoch \in 0..latest_epoch
  BY BoundFacts DEF TypeInv, IInv, AnyInv, TypeOK
<1>2. latest_committee_id \in Periods
  BY DEF TypeInv, IInv, AnyInv, TypeOK
<1> QED
  BY <1>1, <1>2, ClientTypes DEF Start, TypeInv, SysTypeOK

LEMMA ExitTypes ==
  ASSUME TypeInv, NEW c \in Commands, Exit(c)
  PROVE  /\ pc' \in [Commands -> {"idle", "has_id", "has_epoch"}]
         /\ readEpoch' \in [Commands -> 0..latest_epoch]
<1>1. 0 \in 0..latest_epoch
  BY BoundFacts DEF TypeInv, IInv, AnyInv, TypeOK
<1> QED
  BY <1>1 DEF Exit, TypeInv, SysTypeOK

LEMMA ZeroPeriod == 0 \in Periods
BY PeriodType, BoundFacts DEF Periods, Slots

LEMMA ReadTypes ==
  ASSUME TypeInv, "committee" \in Commands, ReadEpochForCommittee
  PROVE  TypeInv'
<1>1. latest_epoch \in 0..latest_epoch
  BY BoundFacts DEF TypeInv, IInv, AnyInv, TypeOK
<1>2. /\ pc' \in [Commands -> {"idle", "has_id", "has_epoch"}]
      /\ readEpoch' \in [Commands -> 0..latest_epoch]
  BY <1>1, ExitTypes DEF ReadEpochForCommittee, TypeInv, SysTypeOK
<1> QED
  BY <1>2, ZeroPeriod, ClientTypes DEF ReadEpochForCommittee, TypeInv, SysTypeOK

LEMMA SubmitTypes ==
  ASSUME NEW f \in Facts, FactFromClient(f), SubmitBatch(f)
  PROVE  \/ UNCHANGED stage
         \/ \E g \in Facts, v \in Stages :
              /\ stage' = [stage EXCEPT ![g] = v]
              /\ v \in ActiveStages /\ g \notin Jobs => Cardinality(Jobs) < MaxJobs
              /\ v # "verified" /\ stage[g] # "verified"
              /\ FactFromClient(g)
BY DEF SubmitBatch, Unproven, Stages

LEMMA CommandTypes ==
  ASSUME TypeInv, NEW c \in Commands, Prove(c) \/ ProveFails(c) \/ CommandAborts(c)
  PROVE  TypeInv'
<1>1. /\ pc' \in [Commands -> {"idle", "has_id", "has_epoch"}]
      /\ readEpoch' \in [Commands -> 0..latest_epoch]
  BY ExitTypes DEF Prove, ProveFails, CommandAborts
<1>2. CASE Prove(c)
  <2>1. PICK f \in Facts : FactFromClient(f) /\ SubmitBatch(f)
    BY <1>2, ProvableFromClient DEF Prove
  <2> QED
    BY <1>1, <1>2, <2>1, SubmitTypes, ClientTypes DEF Prove, TypeInv, SysTypeOK
<1>3. CASE ProveFails(c)
  BY <1>1, <1>3, ClientTypes DEF ProveFails, TypeInv, SysTypeOK
<1>4. CASE CommandAborts(c)
  <2>1. failures' \in 0..MaxFailures
    BY <1>4, SystemAssumption DEF CommandAborts, TypeInv, SysTypeOK
  <2>2. readId' \in Periods
    BY <1>4, ZeroPeriod DEF CommandAborts, TypeInv, SysTypeOK
  <2>3. \/ UNCHANGED stage
        \/ \E f \in Facts : /\ stage[f] = "none" /\ FactFromClient(f)
                             /\ stage' = [stage EXCEPT ![f] = "failed"]
    BY <1>4, ProvableFromClient DEF CommandAborts, Advance
  <2> QED
    BY <1>1, <1>4, <2>1, <2>2, <2>3, ClientTypes
    DEF CommandAborts, TypeInv, SysTypeOK, Stages, ActiveStages
<1> QED
  BY <1>2, <1>3, <1>4

LEMMA ByHandTypes ==
  ASSUME TypeInv, NEW s \in ManualSlots, ProveByHand(s)
  PROVE  TypeInv'
<1>1. PICK o \in EpochOutputs : FromClient(o) /\ SubmitBatch(EpochFact(o))
  BY DEF ProveByHand
<1>2. EpochFact(o) \in Facts /\ FactFromClient(EpochFact(o))
  BY <1>1 DEF Facts, FactFromClient, EpochFact
<1> QED
  BY <1>1, <1>2, SubmitTypes, ClientTypes DEF ProveByHand, TypeInv, SysTypeOK

LEMMA AtlanticTypes ==
  ASSUME TypeInv, NEW f \in Facts,
         AtlanticProves(f) \/ SubmitWrappedProof(f) \/ AtlanticFails(f)
  PROVE  TypeInv'
<1>1. failures' \in 0..MaxFailures
  BY SystemAssumption
  DEF AtlanticProves, SubmitWrappedProof, AtlanticFails, TypeInv, SysTypeOK
<1>2. \E v \in Stages :
        /\ stage' = [stage EXCEPT ![f] = v]
        /\ v \in ActiveStages /\ f \notin Jobs => Cardinality(Jobs) < MaxJobs
        /\ v # "verified" /\ stage[f] # "verified"
  BY DEF AtlanticProves, SubmitWrappedProof, AtlanticFails, Advance, Stages,
         ActiveStages, Jobs
<1>4. FactFromClient(f)
  BY DEF AtlanticProves, SubmitWrappedProof, AtlanticFails, Advance, TypeInv,
         FilesInv, Files
<1>3. UNCHANGED <<vars, head, pc, readEpoch, readId>>
  BY DEF AtlanticProves, SubmitWrappedProof, AtlanticFails
<1> QED
  BY <1>1, <1>2, <1>3, <1>4, ClientTypes DEF TypeInv, SysTypeOK

\* What is registered was made from a file.
LEMMA VerifiesClient ==
  ASSUME TypeInv, NEW f \in Facts, AtlanticVerifies(f)
  PROVE  ClientNext /\ FactFromClient(f)
<1>1. FactFromClient(f)
  BY DEF AtlanticVerifies, Advance, TypeInv, FilesInv, Files
<1>2. facts' = facts \cup {f} /\ Next
  BY DEF AtlanticVerifies, RegisterFact, Next
<1>3. AllFromClient'
  BY <1>1, <1>2 DEF TypeInv, IInv, AllFromClient
<1> QED
  BY <1>1, <1>2, <1>3 DEF ClientNext

LEMMA VerifiesTypes ==
  ASSUME TypeInv, NEW f \in Facts, AtlanticVerifies(f)
  PROVE  TypeInv'
<1>1. IInv' /\ UNCHANGED storage /\ facts' = facts \cup {f}
  <2>1. ClientNext
    BY VerifiesClient
  <2> QED
    BY <2>1, NextInv DEF AtlanticVerifies, RegisterFact, TypeInv
<1>2. stage' = [stage EXCEPT ![f] = "verified"] /\ "verified" \in Stages
      /\ "verified" \notin ActiveStages
  BY DEF AtlanticVerifies, Advance, Stages, ActiveStages
<1>3. /\ stage' \in [Facts -> Stages]
      /\ IsFiniteSet(Jobs') /\ Cardinality(Jobs') <= MaxJobs
  BY <1>2, StageStep DEF TypeInv
<1>4. facts' = {g \in Facts : stage'[g] = "verified"}
  BY <1>1, <1>2 DEF TypeInv, SysTypeOK
<1>5. FilesInv'
  BY <1>2, VerifiesClient, FilesStep DEF TypeInv
<1> QED
  BY <1>1, <1>3, <1>4, <1>5 DEF AtlanticVerifies, TypeInv, SysTypeOK, IInv, AnyInv, storage

LEMMA NextTypes == TypeInv /\ [SysNext]_sysVars => TypeInv'
<1> SUFFICES ASSUME TypeInv, [SysNext]_sysVars PROVE TypeInv'
  OBVIOUS
<1>1. CASE Calls
  BY <1>1, CallTypes
<1>2. CASE ClientStep
  BY <1>2, GrowTypes, StartTypes, CommandTypes, ReadTypes, ByHandTypes,
     AtlanticTypes DEF ClientStep
<1>3. CASE \E f \in Facts : AtlanticVerifies(f)
  BY <1>3, VerifiesTypes
<1>4. CASE UNCHANGED sysVars
  BY <1>4, ClientTypes DEF sysVars, client, TypeInv, SysTypeOK
<1> QED
  BY <1>1, <1>2, <1>3, <1>4, NextCases

THEOREM TypeInvariance == SysSpec => []TypeInv
<1>1. SysInit => TypeInv
  BY InitTypes
<1>2. TypeInv /\ [SysNext]_sysVars => TypeInv'
  BY NextTypes
<1> QED
  BY <1>1, <1>2, PTL DEF SysSpec

LEMMA StepContract == TypeInv /\ [SysNext]_sysVars => [ClientNext]_vars
<1> SUFFICES ASSUME TypeInv, [SysNext]_sysVars PROVE [ClientNext]_vars
  OBVIOUS
<1>1. ASSUME NEW f \in Facts, AtlanticVerifies(f) PROVE ClientNext
  BY <1>1, VerifiesClient
<1>2. CASE Calls
  BY <1>2, CallEffect DEF ClientNext, TypeInv, IInv, AllFromClient
<1>3. UNCHANGED sysVars => UNCHANGED vars
  BY DEF sysVars
<1> QED
  BY <1>1, <1>2, <1>3, NextCases, ClientEffect

\* Whatever the commands, the files and Atlantic do, the contract only takes
\* steps of its specification, on proofs of the client's input files: every
\* theorem about it holds in the system.
THEOREM ContractInSystem == SysSpec => ClientSpec
<1>1. SysInit => Init
  BY InitContract
<1>2. TypeInv /\ [SysNext]_sysVars => [ClientNext]_vars
  BY StepContract
<1> QED
  BY <1>1, <1>2, TypeInvariance, PTL DEF SysSpec, ClientSpec

\* The client's variables keep their types: what a command has read is never
\* ahead of the contract, and a proof counts as verified exactly when the
\* registry has its fact.
THEOREM SysTypeCorrect == SysSpec => []SysTypeOK
<1>1. TypeInv => SysTypeOK
  BY DEF TypeInv
<1> QED
  BY <1>1, TypeInvariance, PTL

\* For every chain, head and latest_epoch read, the circuits accept the inputs
\* of prove-next-epoch and prove-next-epoch-batch, and the contract knows their
\* committee under the id it looks up.
THEOREM InputsVerify == SysSpec => []DerivedInputsVerify
<1>1. TypeInv => DerivedInputsVerify
  <2> SUFFICES ASSUME TypeInv PROVE DerivedInputsVerify
    OBVIOUS
  <2>1. head \in Slots
    BY BoundFacts DEF TypeInv, SysTypeOK
  <2>2. \A c \in Commands : readEpoch[c] \in Nat
    BY BoundFacts DEF TypeInv, SysTypeOK, IInv, AnyInv, TypeOK
  <2>3. ASSUME "epoch" \in Commands,
               NEW o \in EpochInputs(NextEpoch(readEpoch["epoch"]))
        PROVE  FromClient(o) /\ FitsContract(o)
    BY <2>1, <2>2, <2>3, NextEpochFacts, EpochInputFacts
  <2>4. ASSUME "batch" \in Commands,
               NEW o \in BatchInputs(BatchSlots(readEpoch["batch"]))
        PROVE  /\ BatchProvable(o) /\ FitsContract(o.last)
               /\ \A l \in o.leaves : FromClient(l)
    BY <2>1, <2>2, <2>4, BatchInputFacts
  <2> QED
    BY <2>3, <2>4 DEF DerivedInputsVerify
<1> QED
  BY <1>1, TypeInvariance, PTL

---------------------------------------------------------------------------
(* Committee proofs and the state root they are compared with. *)

\* What prove-next-committee has read stays true while other proofs are
\* verified: no id is 0, and the epoch it goes on from is stored.
CommitteeInv ==
  /\ latest_committee_id # 0
  /\ "committee" \in Commands =>
       /\ pc["committee"] = "has_id" => readId # 0
       /\ pc["committee"] = "has_epoch" => readEpoch["committee"] \in Stored
  /\ CommitteeProofsMatch

\* The inputs of a committee update from a stored epoch are that epoch's.
LEMMA CommitteeInputFacts ==
  ASSUME TypeInv, NEW e \in Stored, NEW o \in CommitteeInputs(e)
  PROVE  epochs[o.slot] = o.beacon_state_root
<1> USE BoundFacts, VisibleFacts
<1>1. epochs[e] = [net |-> Home, slot |-> e]
  BY DEF TypeInv, IInv, AnyInv, StorageIsCanonical
<1>2. e \in Proposed[Home] /\ e \in Nat
  <2>1. e \in Slots /\ epochs[e] \in Blocks
    BY DEF TypeInv, IInv, AnyInv, TypeOK, Stored
  <2>2. epochs[e].net = Home /\ epochs[e].slot = e
    BY <1>1
  <2> QED
    BY <2>1, <2>2 DEF Blocks
<1>3. PICK h \in FirstBlock(e) : /\ o.slot = h
                                /\ o.beacon_state_root = [net |-> Home, slot |-> h]
  BY DEF CommitteeInputs
<1>4. h \in Visible /\ e <= h /\ h <= head /\ h \in Nat /\ head \in Nat
      /\ \A t \in Visible : t < e \/ t >= h
  BY <1>3 DEF FirstBlock, Visible, TypeInv, SysTypeOK
<1>5. e \in Visible
  BY <1>2, <1>4 DEF Visible
<1>6. h = e
  BY <1>2, <1>4, <1>5
<1> QED
  BY <1>1, <1>3, <1>6

LEMMA FilesMatch ==
  ASSUME TypeInv, CommitteeProofsMatch, NEW f \in Facts, NEW v \in Stages,
         stage' = [stage EXCEPT ![f] = v], UNCHANGED epochs,
         \A o \in CommitteeOutputs :
           f = CommitteeFact(o) => epochs[o.slot] = o.beacon_state_root
  PROVE  CommitteeProofsMatch'
<1>1. Files' \subseteq Files \cup {f}
  BY DEF Files, TypeInv, SysTypeOK
<1> QED
  BY <1>1 DEF CommitteeProofsMatch

LEMMA CommitteeFactsDiffer ==
  \A o, p : /\ CommitteeFact(o) # EpochFact(p) /\ CommitteeFact(o) # BatchFact(p)
            /\ CommitteeFact(o) = CommitteeFact(p) => o = p
BY DEF CommitteeFact, EpochFact, BatchFact

\* What a command may leave a file of matches what is stored.
LEMMA ProvableMatches ==
  ASSUME TypeInv, CommitteeInv, NEW c \in Commands, pc[c] = "has_epoch",
         NEW f \in Provable(c), NEW o \in CommitteeOutputs, f = CommitteeFact(o)
  PROVE  epochs[o.slot] = o.beacon_state_root
<1>1. c \in {"epoch", "batch", "committee"}
  BY SystemAssumption
<1>2. c = "committee"
  BY <1>1, CommitteeFactsDiffer DEF Provable, Outputs
<1>3. PICK p \in CommitteeInputs(readEpoch[c]) : f = CommitteeFact(p)
  BY <1>2 DEF Provable, Outputs
<1>4. o = p
  BY <1>3, CommitteeFactsDiffer
<1> QED
  BY <1>2, <1>3, <1>4, CommitteeInputFacts DEF CommitteeInv

LEMMA CommitteeCalls ==
  ASSUME TypeInv, CommitteeInv, Calls
  PROVE  CommitteeInv'
<1>1. /\ Next /\ UNCHANGED client /\ \A s \in Stored : epochs'[s] = epochs[s]
  BY CallEffect, FinalStep DEF TypeInv, ClientNext, IInv, AllFromClient
<1>2. Stored \subseteq Stored'
  BY <1>1 DEF Stored
<1>3. latest_committee_id' # 0
  <2>1. CASE UNCHANGED latest_committee_id
    BY <2>1 DEF CommitteeInv
  <2>2. ASSUME NEW o \in CommitteeOutputs, VerifyCommitteeUpdate(o)
        PROVE  latest_committee_id' # 0
    <3>1. o.slot \in Slots
      BY CircuitAssumption DEF CommitteeOutput
    <3>2. latest_committee_id' = Period(o.slot) + 1
      BY <2>2 DEF VerifyCommitteeUpdate, NewCommitteeId, Period
    <3> QED
      BY <3>1, <3>2, PeriodType
  <2> QED
    BY <1>1, <2>1, <2>2 DEF Next, RegisterFact, VerifyEpochUpdate, VerifyEpochBatch,
       DecommitBatchedEpoch, storage
<1>4. CommitteeProofsMatch'
  <2> SUFFICES ASSUME NEW o \in CommitteeOutputs, CommitteeFact(o) \in Files
               PROVE  epochs'[o.slot] = o.beacon_state_root
    BY <1>1 DEF CommitteeProofsMatch, client, Files
  <2>1. epochs[o.slot] = o.beacon_state_root
    BY DEF CommitteeInv, CommitteeProofsMatch
  <2>2. o.beacon_state_root \in Block /\ o.slot \in Slots
    BY CircuitAssumption DEF CommitteeOutput, Blocks
  <2>3. o.slot \in Stored
    BY <2>1, <2>2, CircuitAssumption DEF Stored
  <2> QED
    BY <1>1, <2>1, <2>3
<1> QED
  BY <1>1, <1>2, <1>3, <1>4 DEF CommitteeInv, client

LEMMA CommitteeClient ==
  ASSUME TypeInv, CommitteeInv, ClientStep
  PROVE  CommitteeInv'
<1> USE DEF vars, storage
<1>1. UNCHANGED vars
  BY ClientEffect
<1>2. UNCHANGED <<epochs, latest_committee_id>> /\ Stored' = Stored
  BY <1>1 DEF Stored
<1>3. /\ pc \in [Commands -> {"idle", "has_id", "has_epoch"}]
      /\ readEpoch \in [Commands -> 0..latest_epoch]
  BY DEF TypeInv, SysTypeOK
<1>4. "committee" \in Commands =>
        /\ pc'["committee"] = "has_id" => readId' # 0
        /\ pc'["committee"] = "has_epoch" => readEpoch'["committee"] \in Stored
  <2> SUFFICES ASSUME "committee" \in Commands
               PROVE  /\ pc'["committee"] = "has_id" => readId' # 0
                      /\ pc'["committee"] = "has_epoch" =>
                           readEpoch'["committee"] \in Stored
    OBVIOUS
  <2>1. CASE UNCHANGED <<pc, readEpoch, readId>>
    BY <2>1 DEF CommitteeInv
  <2>2. ASSUME NEW c \in Commands, Start(c)
        PROVE  /\ pc'["committee"] = "has_id" => readId' # 0
               /\ pc'["committee"] = "has_epoch" => readEpoch'["committee"] \in Stored
    BY <1>3, <2>2 DEF Start, CommitteeInv
  <2>3. ASSUME NEW c \in Commands, Exit(c),
               readId' = readId \/ c = "committee"
        PROVE  /\ pc'["committee"] = "has_id" => readId' # 0
               /\ pc'["committee"] = "has_epoch" => readEpoch'["committee"] \in Stored
    BY <1>3, <2>3 DEF Exit, CommitteeInv
  <2>4. CASE ReadEpochForCommittee
    <3>1. CASE Exit("committee")
      BY <2>3, <3>1
    <3>2. CASE ~ (latest_epoch < LowestCommitteeUpdateSlot(readId))
      <4>1. readId \in Nat /\ readId # 0
        BY <2>4, PeriodType, BoundFacts
        DEF ReadEpochForCommittee, CommitteeInv, TypeInv, SysTypeOK, Periods, Slots
      <4>2. LowestCommitteeUpdateSlot(readId) > 0
            /\ LowestCommitteeUpdateSlot(readId) \in Nat
        BY <4>1, BoundFacts DEF LowestCommitteeUpdateSlot
      <4>3. latest_epoch \in Stored
        BY <3>2, <4>2, BoundFacts DEF TypeInv, IInv, AnyInv, TypeOK, LatestEpochIsNewest
      <4> QED
        BY <1>3, <2>4, <3>2, <4>3 DEF ReadEpochForCommittee
    <3> QED
      BY <2>4, <3>1, <3>2 DEF ReadEpochForCommittee
  <2> QED
    BY <2>1, <2>2, <2>3, <2>4
    DEF ClientStep, Grow, Prove, ProveFails, CommandAborts, ProveByHand,
        AtlanticProves, SubmitWrappedProof, AtlanticFails
<1>5. CommitteeProofsMatch'
  <2>1. CASE UNCHANGED stage
    BY <1>2, <2>1 DEF CommitteeInv, CommitteeProofsMatch, Files
  <2>2. ASSUME NEW f \in Facts, NEW v \in Stages, stage[f] # "none",
               stage' = [stage EXCEPT ![f] = v]
        PROVE  CommitteeProofsMatch'
    BY <1>2, <2>2, FilesMatch DEF CommitteeInv, CommitteeProofsMatch, Files
  <2>3. ASSUME NEW c \in Commands, pc[c] = "has_epoch", NEW f \in Provable(c),
               NEW v \in Stages, stage' = [stage EXCEPT ![f] = v]
        PROVE  CommitteeProofsMatch'
    <3>1. f \in Facts
      BY DEF Provable
    <3>2. \A o \in CommitteeOutputs :
            f = CommitteeFact(o) => epochs[o.slot] = o.beacon_state_root
      BY <2>3, ProvableMatches
    <3> QED
      BY <1>2, <2>3, <3>1, <3>2, FilesMatch DEF CommitteeInv
  <2>4. ASSUME NEW c \in Commands, Prove(c) PROVE CommitteeProofsMatch'
    <3>1. PICK f \in Provable(c) : SubmitBatch(f)
      BY <2>4 DEF Prove
    <3>2. UNCHANGED stage \/ stage' = [stage EXCEPT ![f] = "proving"]
      BY <3>1 DEF SubmitBatch
    <3> QED
      BY <2>1, <2>3, <2>4, <3>2 DEF Prove, Stages
  <2>5. ASSUME NEW c \in Commands, CommandAborts(c) PROVE CommitteeProofsMatch'
    BY <2>1, <2>3, <2>5 DEF CommandAborts, Advance, Stages
  <2>6. ASSUME NEW s \in ManualSlots, ProveByHand(s) PROVE CommitteeProofsMatch'
    <3>1. PICK o \in EpochOutputs : SubmitBatch(EpochFact(o))
      BY <2>6 DEF ProveByHand
    <3>2. EpochFact(o) \in Facts
      BY DEF Facts
    <3>3. CASE stage' = [stage EXCEPT ![EpochFact(o)] = "proving"]
      BY <1>2, <3>2, <3>3, FilesMatch, CommitteeFactsDiffer DEF CommitteeInv, Stages
    <3> QED
      BY <2>1, <3>1, <3>3 DEF SubmitBatch
  <2>7. ASSUME NEW f \in Facts,
               AtlanticProves(f) \/ SubmitWrappedProof(f) \/ AtlanticFails(f)
        PROVE  CommitteeProofsMatch'
    BY <2>2, <2>7 DEF AtlanticProves, SubmitWrappedProof, AtlanticFails, Advance, Stages
  <2> QED
    BY <2>1, <2>4, <2>5, <2>6, <2>7
    DEF ClientStep, Grow, Start, ProveFails, ReadEpochForCommittee
<1> QED
  BY <1>2, <1>4, <1>5 DEF CommitteeInv

LEMMA NextCommitteeInv ==
  TypeInv /\ CommitteeInv /\ [SysNext]_sysVars => CommitteeInv'
<1> SUFFICES ASSUME TypeInv, CommitteeInv, [SysNext]_sysVars PROVE CommitteeInv'
  OBVIOUS
<1>1. ASSUME NEW f \in Facts, AtlanticVerifies(f) PROVE CommitteeInv'
  <2>1. /\ stage[f] = "wrapping" /\ stage' = [stage EXCEPT ![f] = "verified"]
        /\ "verified" \in Stages
        /\ UNCHANGED <<epochs, latest_committee_id, pc, readEpoch, readId>>
    BY <1>1 DEF AtlanticVerifies, Advance, RegisterFact, storage, Stages
  <2>2. CommitteeProofsMatch'
    BY <2>1, FilesMatch DEF CommitteeInv, CommitteeProofsMatch, Files
  <2> QED
    BY <2>1, <2>2 DEF CommitteeInv, Stored
<1>2. CASE UNCHANGED sysVars
  BY <1>2 DEF sysVars, vars, storage, client, CommitteeInv, CommitteeProofsMatch,
              Files, Stored
<1> QED
  BY <1>1, <1>2, NextCases, CommitteeCalls, CommitteeClient

\* What prove-next-committee proves from its two reads of the contract can
\* still be verified however late it is submitted: the state root of its slot is
\* stored, and stays.  A contract deployed in period 0 is excepted: its
\* requirement of an epoch is empty.
THEOREM ProofsMatch ==
  ASSUME 0 \notin DeployPeriods
  PROVE  SysSpec => []CommitteeProofsMatch
<1>1. SysInit => CommitteeInv
  BY DEF SysInit, Constructor, CommitteeInv, CommitteeProofsMatch, Files
<1>2. TypeInv /\ CommitteeInv /\ [SysNext]_sysVars => CommitteeInv'
  BY NextCommitteeInv
<1>3. CommitteeInv => CommitteeProofsMatch
  BY DEF CommitteeInv
<1> QED
  BY <1>1, <1>2, <1>3, TypeInvariance, PTL DEF SysSpec

---------------------------------------------------------------------------
(* The epochs the contract comes to have: one header each, without a hole. *)

LEMMA FactsDiffer ==
  \A o, p : /\ EpochFact(o) # BatchFact(p)
            /\ EpochFact(o) = EpochFact(p) => o = p
            /\ BatchFact(o) = BatchFact(p) => o = p
BY DEF EpochFact, BatchFact

\* Where a file comes from: what prove-next-epoch, or epoch-update by hand, and
\* what prove-next-epoch-batch fetched.
NewEpochFile(o) ==
  \/ /\ "epoch" \in Commands
     /\ o \in EpochInputs(NextEpoch(readEpoch["epoch"]))
  \/ \E s \in ManualSlots : o \in EpochInputs(s)

NewBatchFile(o) ==
  /\ "batch" \in Commands
  /\ o \in BatchInputs(BatchSlots(readEpoch["batch"]))

LEMMA ProvableFiles ==
  ASSUME NEW c \in Commands, NEW f \in Provable(c)
  PROVE  /\ \A o : f = EpochFact(o) => NewEpochFile(o)
         /\ \A o : f = BatchFact(o) => NewBatchFile(o)
<1>1. c \in {"epoch", "batch", "committee"}
  BY SystemAssumption
<1> QED
  BY <1>1, FactsDiffer, CommitteeFactsDiffer DEF Provable, Outputs, NewEpochFile, NewBatchFile

LEMMA NewFiles ==
  ASSUME TypeInv, [SysNext]_sysVars
  PROVE  /\ \A o : EpochFact(o) \in Files' => EpochFact(o) \in Files \/ NewEpochFile(o)
         /\ \A o : BatchFact(o) \in Files' => BatchFact(o) \in Files \/ NewBatchFile(o)
<1> DEFINE Goal ==
         /\ \A o : EpochFact(o) \in Files' => EpochFact(o) \in Files \/ NewEpochFile(o)
         /\ \A o : BatchFact(o) \in Files' => BatchFact(o) \in Files \/ NewBatchFile(o)
<1>1. CASE UNCHANGED stage
  BY <1>1 DEF Files
<1>2. ASSUME NEW f \in Facts, NEW v, stage' = [stage EXCEPT ![f] = v]
      PROVE  Files' \subseteq Files \cup {f}
  BY <1>2 DEF Files, TypeInv, SysTypeOK
<1>3. ASSUME NEW f \in Facts, NEW v, stage' = [stage EXCEPT ![f] = v],
             stage[f] # "none"
      PROVE  Goal
  BY <1>2, <1>3 DEF Files
<1>4. ASSUME NEW c \in Commands, NEW f \in Provable(c), NEW v,
             stage' = [stage EXCEPT ![f] = v]
      PROVE  Goal
  <2>1. f \in Facts
    BY DEF Provable
  <2> QED
    BY <1>2, <1>4, <2>1, ProvableFiles
<1>5. ASSUME NEW c \in Commands, Prove(c) PROVE Goal
  <2>1. PICK f \in Provable(c) : SubmitBatch(f)
    BY <1>5 DEF Prove
  <2> QED
    BY <1>1, <1>4, <2>1 DEF SubmitBatch
<1>6. ASSUME NEW c \in Commands, CommandAborts(c) PROVE Goal
  BY <1>1, <1>4, <1>6 DEF CommandAborts, Advance
<1>7. ASSUME NEW s \in ManualSlots, ProveByHand(s) PROVE Goal
  <2>1. PICK o \in EpochInputs(s) \cap EpochOutputs : SubmitBatch(EpochFact(o))
    BY <1>7 DEF ProveByHand
  <2>2. EpochFact(o) \in Facts /\ NewEpochFile(o)
    BY <2>1 DEF Facts, NewEpochFile
  <2> QED
    BY <1>1, <1>2, <2>1, <2>2, FactsDiffer DEF SubmitBatch
<1>8. ASSUME NEW f \in Facts, AtlanticStep(f) \/ AtlanticFails(f) PROVE Goal
  BY <1>3, <1>8 DEF AtlanticStep, AtlanticProves, SubmitWrappedProof,
                    AtlanticVerifies, AtlanticFails, Advance
<1>9. CASE Calls
  BY <1>1, <1>9, CallEffect DEF client
<1>10. CASE UNCHANGED sysVars
  BY <1>1, <1>10 DEF sysVars, client
<1>11. CASE ClientStep
  BY <1>1, <1>5, <1>6, <1>7, <1>8, <1>11
  DEF ClientStep, Grow, Start, ProveFails, ReadEpochForCommittee, AtlanticStep
<1> QED
  BY <1>8, <1>9, <1>10, <1>11, NextCases DEF AtlanticStep

\* What a step makes available: nothing, an epoch, or the leaves of a batch; in
\* both cases there is a file, and the contract has the committee.
LeafSlots(o) == {l.slot : l \in o.leaves}

NewEpoch(o) ==
  /\ EpochFact(o) \in Files
  /\ o.committee_hash = committee[Period(o.slot)]
  /\ Available' = Available \cup {o.slot}

NewBatch(o) ==
  /\ BatchFact(o) \in Files
  /\ o.last.committee_hash = committee[Period(o.last.slot)]
  /\ Available' = Available \cup LeafSlots(o)

LEMMA FactsAreFiles == TypeInv => facts \subseteq Files
BY DEF TypeInv, SysTypeOK, Files

LEMMA StoredAfterWrite ==
  ASSUME TypeInv, NEW b \in Blocks, NEW t \in Slots, WriteEpoch(t, b)
  PROVE  Stored' = Stored \cup {t}
BY StoreEpoch DEF TypeInv, IInv, AnyInv

LEMMA NewlyAvailable ==
  ASSUME TypeInv, [SysNext]_sysVars
  PROVE  \/ Available' = Available
         \/ \E o \in EpochOutputs : NewEpoch(o)
         \/ \E o \in BatchOutputs : NewBatch(o)
<1> DEFINE Goal == \/ Available' = Available
                   \/ \E o \in EpochOutputs : NewEpoch(o)
                   \/ \E o \in BatchOutputs : NewBatch(o)
<1>1. [ClientNext]_vars
  BY StepContract
<1>2. CASE UNCHANGED <<epochs, batches>>
  BY <1>2 DEF Available, Stored
<1>3. ASSUME NEW o \in EpochOutputs, VerifyEpochUpdate(o) PROVE Goal
  <2>1. EpochFact(o) \in Files /\ o.committee_hash = committee[Period(o.slot)]
    BY <1>3, FactsAreFiles DEF VerifyEpochUpdate, IsSigningCommittee, IsValidFactHash,
       Period
  <2>2. Stored' = Stored \cup {o.slot}
    BY <1>3, EpochOutputFacts, StoredAfterWrite DEF VerifyEpochUpdate
  <2>3. Available' = Available \cup {o.slot}
    BY <1>3, <2>2 DEF Available, VerifyEpochUpdate
  <2> QED
    BY <2>1, <2>3 DEF NewEpoch
<1>4. ASSUME NEW o \in BatchOutputs, VerifyEpochBatch(o) PROVE Goal
  <2>1. /\ BatchFact(o) \in Files
        /\ o.last.committee_hash = committee[Period(o.last.slot)]
    BY <1>4, FactsAreFiles DEF VerifyEpochBatch, IsSigningCommittee, IsValidFactHash,
       Period
  <2>2. Stored' = Stored \cup {o.last.slot} /\ o.last \in o.leaves
    BY <1>4, BatchOutputFacts, StoredAfterWrite, CircuitAssumption
    DEF VerifyEpochBatch, BatchProvable
  <2>3. UNION {r.leaves : r \in batches'} =
          (UNION {r.leaves : r \in batches}) \cup o.leaves
    BY <1>4 DEF VerifyEpochBatch
  <2>4. Available' = Available \cup LeafSlots(o)
    <3>1. o.last.slot \in LeafSlots(o)
      BY <2>2 DEF LeafSlots
    <3>2. Available' = Stored' \cup {l.slot : l \in UNION {r.leaves : r \in batches'}}
      BY DEF Available
    <3>3. Available' = Stored' \cup {l.slot : l \in UNION {r.leaves : r \in batches}}
                              \cup LeafSlots(o)
      BY <2>3, <3>2 DEF LeafSlots
    <3> QED
      BY <2>2, <3>1, <3>3 DEF Available
  <2> QED
    BY <2>1, <2>4 DEF NewBatch
<1>5. ASSUME NEW root \in BatchOutputs, NEW leaf \in root.leaves,
             DecommitBatchedEpoch(root, leaf)
      PROVE  Goal
  <2>1. Stored' = Stored \cup {leaf.slot}
    BY <1>5, BatchOutputFacts, StoredAfterWrite DEF DecommitBatchedEpoch
  <2>2. root \in batches /\ UNCHANGED batches
    BY <1>5 DEF DecommitBatchedEpoch
  <2>3. leaf \in UNION {r.leaves : r \in batches}
    BY <2>2
  <2>4. leaf.slot \in Available
    BY <2>3 DEF Available
  <2>5. Available' = Available
    BY <2>1, <2>2, <2>4 DEF Available
  <2> QED
    BY <2>5
<1>6. ASSUME NEW o \in CommitteeOutputs, VerifyCommitteeUpdate(o) PROVE Goal
  BY <1>2, <1>6 DEF VerifyCommitteeUpdate
<1>7. ASSUME NEW f \in Facts, RegisterFact(f) PROVE Goal
  BY <1>2, <1>7 DEF RegisterFact, storage
<1>8. CASE UNCHANGED vars
  BY <1>2, <1>8 DEF vars, storage
<1> QED
  BY <1>1, <1>3, <1>4, <1>5, <1>6, <1>7, <1>8 DEF ClientNext, Next

\* h is the header of its epoch: the first block proposed in it.
EpochHeader(h) ==
  /\ h \in Proposed[Home]
  /\ \A t \in Proposed[Home] : t >= h \/ Epoch(t) # Epoch(h)

\* However many slots of an epoch are missed, and whichever command asks, what
\* is fetched for an epoch is its header.
LEMMA InputIsHeader ==
  ASSUME head \in Slots, NEW s \in Nat, s % SlotsPerEpoch = 0,
         NEW o \in EpochInputs(s)
  PROVE  EpochHeader(o.slot) /\ Epoch(o.slot) = Epoch(s)
<1> DEFINE h == o.slot
           k == s \div SlotsPerEpoch
<1> USE BoundFacts, VisibleFacts
<1>1. h \in Visible /\ h \in Nat /\ s <= h /\ h < s + SlotsPerEpoch
  BY EpochInputFacts
<1>2. h \in FirstBlock(s)
  BY DEF EpochInputs
<1> HIDE DEF h
<1>3. h <= head /\ head \in Nat /\ h \in Proposed[Home]
      /\ \A t \in Visible : t < s \/ t >= h
  BY <1>1, <1>2 DEF FirstBlock, Visible
<1>4. Epoch(h) = k
  BY <1>1, BlockOf DEF Epoch
<1>5. k \in Nat /\ s = SlotsPerEpoch * k
  OBVIOUS
<1> HIDE DEF k
<1>6. ASSUME NEW t \in Proposed[Home], t < h PROVE Epoch(t) # k
  <2>1. t \in Visible /\ t \in Nat
    BY <1>1, <1>3, <1>6, ChainAssumption DEF Visible
  <2>2. t < SlotsPerEpoch * k
    BY <1>3, <1>5, <1>6, <2>1, <1>1
  <2>3. SlotsPerEpoch * (t \div SlotsPerEpoch) <= t
    BY <2>1
  <2> QED
    BY <1>5, <2>1, <2>2, <2>3 DEF Epoch
<1>7. \A t \in Proposed[Home] : t \in Nat
  BY ChainAssumption
<1> QED
  BY <1>1, <1>3, <1>4, <1>5, <1>6, <1>7 DEF EpochHeader, Epoch, h, k

HeadersInv ==
  /\ \A o \in EpochOutputs : EpochFact(o) \in Files => EpochHeader(o.slot)
  /\ \A o \in BatchOutputs : BatchFact(o) \in Files =>
       \A l \in o.leaves : EpochHeader(l.slot)
  /\ \A s \in Available : EpochHeader(s)

\* What a command reads is a slot, and so are those a batch starts from.
LEMMA ReadFacts ==
  ASSUME TypeInv
  PROVE  head \in Slots /\ \A c \in Commands : readEpoch[c] \in Nat
BY BoundFacts DEF TypeInv, SysTypeOK, IInv, AnyInv, TypeOK

LEMMA NextHeaders ==
  ASSUME \A s \in ManualSlots : s % SlotsPerEpoch = 0,
         TypeInv, HeadersInv, [SysNext]_sysVars
  PROVE  HeadersInv'
<1>1. head \in Slots /\ \A c \in Commands : readEpoch[c] \in Nat
  BY ReadFacts
<1>2. ASSUME NEW o \in EpochOutputs, EpochFact(o) \in Files'
      PROVE  EpochHeader(o.slot)
  <2>1. CASE EpochFact(o) \in Files
    BY <2>1 DEF HeadersInv
  <2>2. ASSUME "epoch" \in Commands,
               o \in EpochInputs(NextEpoch(readEpoch["epoch"]))
        PROVE  EpochHeader(o.slot)
    BY <1>1, <2>2, NextEpochFacts, InputIsHeader
  <2>3. ASSUME NEW s \in ManualSlots, o \in EpochInputs(s)
        PROVE  EpochHeader(o.slot)
    <3>1. s \in Nat
      BY SystemAssumption, BoundFacts
    <3> QED
      BY <1>1, <2>3, <3>1, InputIsHeader
  <2> QED
    BY <1>2, <2>1, <2>2, <2>3, NewFiles DEF NewEpochFile
<1>3. ASSUME NEW o \in BatchOutputs, BatchFact(o) \in Files', NEW l \in o.leaves
      PROVE  EpochHeader(l.slot)
  <2>1. CASE BatchFact(o) \in Files
    BY <2>1 DEF HeadersInv
  <2>2. CASE NewBatchFile(o)
    <3> DEFINE e == readEpoch["batch"]
    <3>1. e \in Nat
      BY <1>1, <2>2 DEF NewBatchFile
    <3>2. PICK s \in BatchSlots(e) : l \in EpochInputs(s)
      BY <2>2 DEF NewBatchFile, BatchInputs
    <3> HIDE DEF e
    <3>3. s \in Nat /\ s % SlotsPerEpoch = 0
      BY <3>1, BatchSlotFacts
    <3> QED
      BY <1>1, <3>2, <3>3, InputIsHeader
  <2> QED
    BY <1>3, <2>1, <2>2, NewFiles
<1>4. ASSUME NEW s \in Available' PROVE EpochHeader(s)
  <2>1. CASE s \in Available
    BY <2>1 DEF HeadersInv
  <2>2. ASSUME NEW o \in EpochOutputs, NewEpoch(o), s = o.slot
        PROVE  EpochHeader(s)
    BY <2>2 DEF NewEpoch, HeadersInv
  <2>3. ASSUME NEW o \in BatchOutputs, NewBatch(o), s \in LeafSlots(o)
        PROVE  EpochHeader(s)
    BY <2>3 DEF NewBatch, LeafSlots, HeadersInv
  <2> QED
    BY <1>4, <2>1, <2>2, <2>3, NewlyAvailable DEF NewEpoch, NewBatch
<1> QED
  BY <1>2, <1>3, <1>4 DEF HeadersInv

LEMMA InitEmpty == SysInit => Available = {} /\ Files = {}
<1> SUFFICES ASSUME SysInit PROVE Available = {} /\ Files = {}
  OBVIOUS
<1>1. Stored = {} /\ batches = {}
  BY DEF SysInit, Constructor, Stored
<1> QED
  BY <1>1 DEF SysInit, Files, Available

\* No epoch comes to have two headers: prove-next-epoch, prove-next-epoch-batch
\* and epoch-update by hand, at the first slots of epochs, all fetch the first
\* block of an epoch, whichever slots are missed, whenever they ask.
THEOREM OneHeader ==
  ASSUME \A s \in ManualSlots : s % SlotsPerEpoch = 0
  PROVE  SysSpec => []OneHeaderPerEpoch
<1>1. SysInit => HeadersInv
  BY InitEmpty DEF HeadersInv
<1>2. TypeInv /\ HeadersInv /\ [SysNext]_sysVars => HeadersInv'
  BY NextHeaders
<1>3. HeadersInv => OneHeaderPerEpoch
  <2> SUFFICES ASSUME HeadersInv, NEW s \in Available, NEW t \in Available,
                      Epoch(s) = Epoch(t)
               PROVE  s = t
    BY DEF OneHeaderPerEpoch
  <2>1. EpochHeader(s) /\ EpochHeader(t)
    BY DEF HeadersInv
  <2>2. s \in Nat /\ t \in Nat
    BY <2>1, ChainAssumption, BoundFacts DEF EpochHeader
  <2> QED
    BY <2>1, <2>2 DEF EpochHeader
<1> QED
  BY <1>1, <1>2, <1>3, TypeInvariance, PTL DEF SysSpec

CoveredEpochs     == {Epoch(s) : s \in Available}
EpochsOf(o) == {Epoch(l.slot) : l \in o.leaves}

\* A set of epochs without a hole, which stays so when it is continued.
WithoutHole(C) == \A i, j \in C : i..j \subseteq C

LEMMA Continued ==
  ASSUME NEW C \in SUBSET Int, WithoutHole(C), NEW e \in C, NEW n \in Int
  PROVE  WithoutHole(C \cup ((e + 1)..n))
<1> DEFINE D == C \cup ((e + 1)..n)
<1> SUFFICES ASSUME NEW i \in D, NEW j \in D, NEW k \in i..j, k \notin (e + 1)..n
             PROVE  k \in C
  BY DEF WithoutHole
<1>1. i \in Int /\ j \in Int /\ k \in Int /\ e \in Int /\ i <= k /\ k <= j
  OBVIOUS
<1>2. k <= e \/ k > n
  BY <1>1
<1>3. CASE i \in C /\ j \in C
  BY <1>3 DEF WithoutHole
<1>4. CASE i \notin C /\ j \in C
  BY <1>1, <1>2, <1>4 DEF WithoutHole
<1>5. CASE j \notin C
  <2>1. k <= e
    BY <1>1, <1>2, <1>5
  <2>2. i \in C
    BY <1>1, <2>1
  <2> QED
    BY <1>1, <2>1, <2>2 DEF WithoutHole
<1> QED
  BY <1>3, <1>4, <1>5

LEMMA NextEpochIsNext ==
  ASSUME NEW e \in Nat
  PROVE  Epoch(NextEpoch(e)) = Epoch(e) + 1
<1> DEFINE k == e \div SlotsPerEpoch
<1> USE BoundFacts
<1>1. k \in Nat
  OBVIOUS
<1> HIDE DEF k
<1>2. NextEpoch(e) = SlotsPerEpoch * (k + 1) + 0
  BY <1>1 DEF NextEpoch, k
<1>3. (SlotsPerEpoch * (k + 1) + 0) \div SlotsPerEpoch = k + 1
  BY <1>1, DivUnique
<1> QED
  BY <1>2, <1>3 DEF Epoch, k

\* A batch has one leaf for every epoch from the next one to its last.
LEMMA BatchIsContiguous ==
  ASSUME head \in Slots, NEW e \in Nat, NEW o \in BatchInputs(BatchSlots(e))
  PROVE  /\ EpochsOf(o) = (Epoch(e) + 1)..Epoch(o.last.slot)
         /\ Period(o.last.slot) = Period(NextEpoch(e))
<1> DEFINE slots == BatchSlots(e)
           k == Epoch(e)
           n == Epoch(o.last.slot)
<1> USE BoundFacts
<1>1. /\ \A s \in slots : EpochInputs(s) # {}
      /\ o.leaves = UNION {EpochInputs(s) : s \in slots}
  BY DEF BatchInputs
<1>2. o.last \in o.leaves /\ \A l \in o.leaves : l = o.last \/ l.slot < o.last.slot
  BY BatchInputFacts DEF BatchProvable, BatchInOrder
<1>3. ASSUME NEW s \in slots, NEW l \in EpochInputs(s)
      PROVE  /\ s \in Nat /\ s % SlotsPerEpoch = 0 /\ l.slot \in Nat
             /\ Epoch(l.slot) = Epoch(s) /\ Epoch(s) \in Nat
             /\ s = SlotsPerEpoch * Epoch(s)
             /\ Period(l.slot) = Period(NextEpoch(e))
  <2>1. s \in Nat /\ s % SlotsPerEpoch = 0 /\ Period(s) = Period(NextEpoch(e))
    BY BatchSlotFacts
  <2>2. l.slot \in Nat /\ Epoch(l.slot) = Epoch(s)
        /\ Period(l.slot) = Period(s)
    BY <2>1, EpochInputFacts, InputIsHeader
  <2>3. Epoch(s) \in Nat /\ s = SlotsPerEpoch * Epoch(s)
    BY <2>1 DEF Epoch
  <2> QED
    BY <2>1, <2>2, <2>3
<1>4. NextEpoch(e) = SlotsPerEpoch * (k + 1) /\ k \in Nat
  BY DEF NextEpoch, Epoch
<1>5. PICK z \in slots : o.last \in EpochInputs(z)
  BY <1>1, <1>2
<1>6. n = Epoch(z) /\ n \in Nat /\ z = SlotsPerEpoch * n /\ z \in Nat
  BY <1>3, <1>5
<1>7. /\ SlotsPerEpoch * (k + 1) <= z
      /\ \A s : s \in slots <=>
           /\ s \in SlotsPerEpoch * (k + 1)..(BatchEnd(NextEpoch(e)) - 1)
           /\ (s - SlotsPerEpoch * (k + 1)) % SlotsPerEpoch = 0
  BY <1>4, <1>5 DEF BatchSlots
<1> HIDE DEF slots, k, n
<1>8. ASSUME NEW i \in (k + 1)..n PROVE i \in EpochsOf(o)
  <2>1. i \in Nat /\ SlotsPerEpoch * (k + 1) <= SlotsPerEpoch * i
        /\ SlotsPerEpoch * i <= SlotsPerEpoch * n
    BY <1>4, <1>6
  <2>2. SlotsPerEpoch * i - SlotsPerEpoch * (k + 1) = SlotsPerEpoch * (i - (k + 1))
        /\ i - (k + 1) \in Nat
    BY <1>4, <2>1
  <2>3. (SlotsPerEpoch * (i - (k + 1))) % SlotsPerEpoch = 0
    BY <2>2
  <2>4. SlotsPerEpoch * i \in SlotsPerEpoch * (k + 1)..(BatchEnd(NextEpoch(e)) - 1)
    <3>1. z \in SlotsPerEpoch * (k + 1)..(BatchEnd(NextEpoch(e)) - 1)
      BY <1>5, <1>7
    <3>2. SlotsPerEpoch * i \in Int
      BY <2>1
    <3>3. SlotsPerEpoch * i <= z
      BY <1>6, <2>1
    <3> HIDE DEF n
    <3>4. BatchEnd(NextEpoch(e)) \in Int
      BY <1>4, NextEpochFacts DEF BatchEnd, TermsLastEpoch, Period
    <3>5. SlotsPerEpoch * (k + 1) \in Int
      BY <1>4
    <3> QED
      BY <1>6, <2>1, <3>1, <3>2, <3>3, <3>4, <3>5
  <2>5. SlotsPerEpoch * i \in slots
    BY <1>7, <2>2, <2>3, <2>4
  <2>6. PICK l \in EpochInputs(SlotsPerEpoch * i) : TRUE
    BY <1>1, <2>5
  <2>7. Epoch(l.slot) = Epoch(SlotsPerEpoch * i) /\ l \in o.leaves
    BY <1>1, <1>3, <2>5, <2>6
  <2>8. SlotsPerEpoch * i = SlotsPerEpoch * i + 0
        /\ (SlotsPerEpoch * i + 0) \div SlotsPerEpoch = i
    BY <2>1, DivUnique
  <2> QED
    BY <2>7, <2>8 DEF EpochsOf, Epoch
<1>9. ASSUME NEW l \in o.leaves PROVE Epoch(l.slot) \in (k + 1)..n
  <2>1. PICK s \in slots : l \in EpochInputs(s)
    BY <1>1
  <2> DEFINE i == Epoch(s)
  <2>2. i = Epoch(l.slot) /\ i \in Nat /\ s = SlotsPerEpoch * i
        /\ l.slot \in Nat
    BY <1>3, <2>1
  <2>3. SlotsPerEpoch * (k + 1) <= s
    BY <1>7, <2>1, <1>4, <2>2
  <2> HIDE DEF i
  <2>4. k + 1 <= i
    BY <1>4, <2>2, <2>3
  <2>5. i <= n
    <3>1. CASE l = o.last
      BY <1>6, <2>2, <3>1 DEF n
    <3>2. CASE l.slot < o.last.slot
      <4> DEFINE a == l.slot
                 b == o.last.slot
      <4>1. a \in Nat /\ b \in Nat /\ a < b
        BY <1>3, <1>5, <2>2, <3>2
      <4> HIDE DEF a, b
      <4>2. a \div SlotsPerEpoch <= b \div SlotsPerEpoch
        BY <4>1
      <4> QED
        BY <2>2, <4>2 DEF a, b, n, Epoch
    <3> QED
      BY <1>2, <3>1, <3>2
  <2> QED
    BY <1>4, <1>6, <2>2, <2>4, <2>5
<1> QED
  BY <1>3, <1>5, <1>8, <1>9 DEF EpochsOf, k, n

\* The one epoch that is proven by hand, at its first slot.
SameStart ==
  /\ \A s \in ManualSlots : s % SlotsPerEpoch = 0
  /\ \A s, t \in ManualSlots : Epoch(s) = Epoch(t)

\* A contract deployed after period 0 verifies nothing of that period, and what
\* a command reads is stored or 0: what it derives from 0 is of period 0, so
\* every file that can be verified continues an epoch that is available.
Anchored ==
  /\ initialization_committee \in DeployPeriods
  /\ \A c \in Commands : readEpoch[c] \in Stored \cup {0}

EpochContinues(o) ==
  \/ Period(o.slot) = 0
  \/ \E m \in ManualSlots : Epoch(o.slot) = Epoch(m)
  \/ Epoch(o.slot) - 1 \in CoveredEpochs

BatchContinues(o) ==
  \/ Period(o.last.slot) = 0
  \/ \E e \in CoveredEpochs : EpochsOf(o) = (e + 1)..Epoch(o.last.slot)

HoleInv ==
  /\ Anchored
  /\ \A o \in EpochOutputs : EpochFact(o) \in Files => EpochContinues(o)
  /\ \A o \in BatchOutputs : BatchFact(o) \in Files => BatchContinues(o)
  /\ Available # {} => \A m \in ManualSlots : Epoch(m) \in CoveredEpochs
  /\ WithoutHole(CoveredEpochs)

LEMMA AvailableSlots ==
  ASSUME TypeInv
  PROVE  /\ \A s \in Available : s \in Nat /\ Epoch(s) \in Nat
         /\ CoveredEpochs \in SUBSET Int
<1>1. ASSUME NEW s \in Available PROVE s \in Nat
  <2>1. s \in Slots
    BY BatchOutputFacts DEF Available, Stored, TypeInv, IInv, AnyInv, TypeOK
  <2> QED
    BY <2>1, BoundFacts
<1>2. \A s \in Nat : Epoch(s) \in Nat
  BY BoundFacts DEF Epoch
<1> QED
  BY <1>1, <1>2 DEF CoveredEpochs

LEMMA NextAnchored ==
  ASSUME TypeInv, Anchored, [SysNext]_sysVars
  PROVE  Anchored'
<1>1. [ClientNext]_vars
  BY StepContract
<1>2. UNCHANGED initialization_committee
  BY <1>1 DEF ClientNext, Next, RegisterFact, VerifyEpochUpdate, VerifyEpochBatch,
     DecommitBatchedEpoch, VerifyCommitteeUpdate, vars, storage
<1>3. Stored \subseteq Stored'
  BY <1>1, FinalStep DEF TypeInv, Stored
<1>4. latest_epoch \in Stored \cup {0}
  BY DEF TypeInv, IInv, AnyInv, LatestEpochIsNewest
<1>5. readEpoch \in [Commands -> 0..latest_epoch]
  BY DEF TypeInv, SysTypeOK
<1>6. CASE UNCHANGED readEpoch
  BY <1>2, <1>3, <1>6 DEF Anchored
<1>7. ASSUME NEW c \in Commands, NEW v \in {0, latest_epoch},
             readEpoch' = [readEpoch EXCEPT ![c] = v]
      PROVE  Anchored'
  BY <1>2, <1>3, <1>4, <1>5, <1>7 DEF Anchored
<1>8. CASE Calls
  BY <1>6, <1>8, CallEffect DEF client
<1>9. CASE ClientStep
  BY <1>6, <1>7, <1>9
  DEF ClientStep, Grow, Start, Prove, ProveFails, CommandAborts, Exit,
      ReadEpochForCommittee, ProveByHand, AtlanticProves, SubmitWrappedProof,
      AtlanticFails
<1>10. ASSUME NEW f \in Facts, AtlanticVerifies(f) PROVE Anchored'
  BY <1>6, <1>10 DEF AtlanticVerifies
<1>11. CASE UNCHANGED sysVars
  BY <1>6, <1>11 DEF sysVars, client
<1> QED
  BY <1>8, <1>9, <1>10, <1>11, NextCases

\* What a command derives from 0 is of period 0.
LEMMA FirstPeriod ==
  ASSUME SlotsPerEpoch < SlotsPerPeriod
  PROVE  Period(NextEpoch(0)) = 0
<1>1. NextEpoch(0) = SlotsPerEpoch
  BY BoundFacts DEF NextEpoch
<1>2. SlotsPerEpoch \in 0..(SlotsPerPeriod - 1)
      /\ SlotsPerEpoch = SlotsPerPeriod * 0 + SlotsPerEpoch
  BY BoundFacts
<1>3. (SlotsPerPeriod * 0 + SlotsPerEpoch) \div SlotsPerPeriod = 0
  BY <1>2, BoundFacts, DivUnique
<1> QED
  BY <1>1, <1>2, <1>3 DEF Period

LEMMA NewEpochContinues ==
  ASSUME SlotsPerEpoch < SlotsPerPeriod, SameStart, TypeInv, Anchored,
         NEW o, NewEpochFile(o)
  PROVE  EpochContinues(o)
<1>1. head \in Slots /\ \A c \in Commands : readEpoch[c] \in Nat
  BY ReadFacts
<1>2. ASSUME NEW s \in ManualSlots, o \in EpochInputs(s) PROVE EpochContinues(o)
  <2>1. s \in Nat /\ s % SlotsPerEpoch = 0
    BY SystemAssumption, BoundFacts DEF SameStart
  <2> QED
    BY <1>1, <1>2, <2>1, InputIsHeader DEF EpochContinues
<1>3. CASE /\ "epoch" \in Commands
           /\ o \in EpochInputs(NextEpoch(readEpoch["epoch"]))
  <2> DEFINE e == readEpoch["epoch"]
  <2>1. e \in Nat /\ e \in Stored \cup {0}
    BY <1>1, <1>3 DEF Anchored
  <2>2. o \in EpochInputs(NextEpoch(e))
    BY <1>3
  <2> HIDE DEF e
  <2>3. /\ Epoch(o.slot) = Epoch(e) + 1
        /\ Period(o.slot) = Period(NextEpoch(e))
    <3>1. NextEpoch(e) \in Nat /\ NextEpoch(e) % SlotsPerEpoch = 0
          /\ Epoch(NextEpoch(e)) = Epoch(e) + 1
      BY <2>1, NextEpochFacts, NextEpochIsNext
    <3> QED
      BY <1>1, <2>2, <3>1, InputIsHeader, EpochInputFacts
  <2>4. CASE e = 0
    BY <2>3, <2>4, FirstPeriod DEF EpochContinues
  <2>5. CASE e \in Stored
    <3>1. Epoch(e) \in CoveredEpochs /\ Epoch(e) \in Nat
      BY <2>1, <2>5, BoundFacts DEF CoveredEpochs, Available, Epoch
    <3> QED
      BY <2>3, <3>1 DEF EpochContinues
  <2> QED
    BY <2>1, <2>4, <2>5
<1> QED
  BY <1>2, <1>3 DEF NewEpochFile

LEMMA NewBatchContinues ==
  ASSUME SlotsPerEpoch < SlotsPerPeriod, TypeInv, Anchored,
         NEW o, NewBatchFile(o)
  PROVE  BatchContinues(o)
<1> DEFINE e == readEpoch["batch"]
<1>1. head \in Slots /\ e \in Nat /\ e \in Stored \cup {0}
  BY ReadFacts DEF Anchored, NewBatchFile
<1>2. o \in BatchInputs(BatchSlots(e))
  BY DEF NewBatchFile
<1> HIDE DEF e
<1>3. /\ EpochsOf(o) = (Epoch(e) + 1)..Epoch(o.last.slot)
      /\ Period(o.last.slot) = Period(NextEpoch(e))
  BY <1>1, <1>2, BatchIsContiguous
<1>4. CASE e = 0
  BY <1>3, <1>4, FirstPeriod DEF BatchContinues
<1>5. CASE e \in Stored
  <2>1. Epoch(e) \in CoveredEpochs
    BY <1>5 DEF CoveredEpochs, Available
  <2> QED
    BY <1>3, <2>1 DEF BatchContinues
<1> QED
  BY <1>1, <1>4, <1>5

\* What is verified is not of period 0.
LEMMA KnownIsLater ==
  ASSUME 0 \notin DeployPeriods, TypeInv, Anchored,
         NEW p, committee[p] \in Committees, p \in Periods
  PROVE  p # 0
<1>1. p \in Known
  BY CircuitAssumption DEF Known
<1>2. ASSUME p = 0 PROVE FALSE
  <2>1. p - 1 \notin Known
    BY <1>2, PeriodType, BoundFacts DEF Known, Periods, Slots
  <2>2. p = initialization_committee
    BY <1>1, <2>1 DEF TypeInv, IInv, AnyInv, CommitteesFormChain
  <2> QED
    BY <1>2, <2>2 DEF Anchored
<1> QED
  BY <1>2

LEMMA NextHole ==
  ASSUME 0 \notin DeployPeriods, SlotsPerEpoch < SlotsPerPeriod, SameStart,
         TypeInv, HoleInv, [SysNext]_sysVars
  PROVE  HoleInv'
<1>1. Anchored'
  BY NextAnchored DEF HoleInv
<1>2. \A o \in EpochOutputs : EpochFact(o) \in Files' => EpochContinues(o)
  BY NewFiles, NewEpochContinues DEF HoleInv
<1>3. \A o \in BatchOutputs : BatchFact(o) \in Files' => BatchContinues(o)
  BY NewFiles, NewBatchContinues DEF HoleInv
<1>4. /\ CoveredEpochs \in SUBSET Int /\ WithoutHole(CoveredEpochs)
      /\ Available # {} => \A m \in ManualSlots : Epoch(m) \in CoveredEpochs
      /\ CoveredEpochs # {} => Available # {}
  BY AvailableSlots DEF HoleInv, CoveredEpochs
<1> DEFINE Goal ==
         /\ CoveredEpochs \subseteq CoveredEpochs'
         /\ Available' # {} => \A m \in ManualSlots : Epoch(m) \in CoveredEpochs'
         /\ WithoutHole(CoveredEpochs')
<1>5. Goal
  <2>1. CASE Available' = Available
    BY <1>4, <2>1 DEF CoveredEpochs
  <2>2. ASSUME NEW e \in CoveredEpochs, NEW n \in Int, CoveredEpochs' = CoveredEpochs \cup ((e + 1)..n)
        PROVE  Goal
    BY <1>4, <2>2, Continued
  <2>3. ASSUME NEW o \in EpochOutputs, NewEpoch(o) PROVE Goal
    <3> DEFINE s == o.slot
    <3>1. o.committee_hash \in Committees /\ s \in Slots /\ s \in Nat
      BY EpochOutputFacts, BoundFacts DEF EpochOutput
    <3>2. Period(s) # 0
      BY <2>3, <3>1, PeriodType, KnownIsLater DEF NewEpoch, HoleInv
    <3>3. EpochContinues(o) /\ CoveredEpochs' = CoveredEpochs \cup {Epoch(s)} /\ Available' # {}
      BY <2>3 DEF NewEpoch, HoleInv, CoveredEpochs
    <3>4. Epoch(s) \in Nat
      BY <3>1, BoundFacts DEF Epoch
    <3>5. CASE Epoch(s) - 1 \in CoveredEpochs
      <4>1. (Epoch(s) - 1) + 1 = Epoch(s) /\ Epoch(s)..Epoch(s) = {Epoch(s)}
        BY <3>4
      <4>2. CoveredEpochs' = CoveredEpochs \cup (((Epoch(s) - 1) + 1)..Epoch(s)) /\ Epoch(s) \in Int
        BY <3>3, <3>4, <4>1
      <4> HIDE DEF Goal, s
      <4> QED
        BY <2>2, <3>5, <4>2
    <3>6. ASSUME NEW m \in ManualSlots, Epoch(s) = Epoch(m) PROVE Goal
      <4>1. \A k \in ManualSlots : Epoch(k) = Epoch(s)
        BY <3>6 DEF SameStart
      <4>2. CASE Available # {}
        BY <1>4, <3>3, <3>6, <4>2
      <4>3. CASE Available = {}
        <5>1. CoveredEpochs' = {Epoch(s)} /\ CoveredEpochs = {}
          BY <3>3, <4>3 DEF CoveredEpochs
        <5>2. WithoutHole({Epoch(s)})
          BY <3>4 DEF WithoutHole
        <5> QED
          BY <4>1, <5>1, <5>2
      <4> QED
        BY <4>2, <4>3
    <3> QED
      BY <3>2, <3>3, <3>5, <3>6 DEF EpochContinues
  <2>4. ASSUME NEW o \in BatchOutputs, NewBatch(o) PROVE Goal
    <3> DEFINE s == o.last.slot
    <3>1. /\ o.last.committee_hash \in Committees /\ s \in Slots /\ s \in Nat
      BY BatchOutputFacts, CircuitAssumption, BoundFacts DEF EpochOutput
    <3>2. Period(s) # 0
      BY <2>4, <3>1, PeriodType, KnownIsLater DEF NewBatch, HoleInv
    <3>3. BatchContinues(o) /\ CoveredEpochs' = CoveredEpochs \cup EpochsOf(o)
      BY <2>4 DEF NewBatch, HoleInv, CoveredEpochs, EpochsOf, LeafSlots
    <3>4. Epoch(s) \in Int
      BY <3>1, BoundFacts DEF Epoch
    <3>5. PICK e \in CoveredEpochs : EpochsOf(o) = (e + 1)..Epoch(s)
      BY <3>2, <3>3 DEF BatchContinues
    <3> QED
      BY <2>2, <3>3, <3>4, <3>5
  <2> QED
    BY <2>1, <2>3, <2>4, NewlyAvailable
<1>6. \A o \in EpochOutputs : EpochContinues(o) => EpochContinues(o)'
  BY <1>5 DEF EpochContinues
<1>7. \A o \in BatchOutputs : BatchContinues(o) => BatchContinues(o)'
  BY <1>5 DEF BatchContinues
<1> QED
  BY <1>1, <1>2, <1>3, <1>5, <1>6, <1>7 DEF HoleInv

\* The prove-next commands leave no hole between the oldest and the newest epoch
\* of the contract, whichever of them run side by side on what they have read,
\* and however late, or never, a proof is verified.  Three conditions: one epoch
\* is proven by hand, at its first slot; the contract is not deployed in period
\* 0, where what a command derives from the latest_epoch 0 of a new contract
\* could be verified; and a period has more than one epoch.
THEOREM NoHole ==
  ASSUME 0 \notin DeployPeriods, SlotsPerEpoch < SlotsPerPeriod,
         \A s \in ManualSlots : s % SlotsPerEpoch = 0,
         \A s, t \in ManualSlots : Epoch(s) = Epoch(t)
  PROVE  SysSpec => []NoEpochSkipped
<1>1. SysInit => HoleInv
  BY InitEmpty
  DEF SysInit, Constructor, HoleInv, Anchored, CoveredEpochs, WithoutHole
<1>2. TypeInv /\ HoleInv /\ [SysNext]_sysVars => HoleInv'
  BY NextHole DEF SameStart
<1>3. HoleInv => NoEpochSkipped
  BY DEF HoleInv, WithoutHole, CoveredEpochs, NoEpochSkipped
<1> QED
  BY <1>1, <1>2, <1>3, TypeInvariance, PTL DEF SysSpec
===============================================================================
