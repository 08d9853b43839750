----------------------------- MODULE BankaiSystem -----------------------------
(***************************************************************************)
(* The light client in operation: the contract, the commands of the Rust   *)
(* client (client-rs/src/main.rs) that an operator runs against it, the    *)
(* files they leave on disk and the Atlantic proving service.              *)
(*                                                                         *)
(* A prove-next-* command reads the contract in one or two calls, fetches  *)
(* its inputs, writes the input file, runs the circuit and submits the     *)
(* trace.  The three of them run side by side, against each other and      *)
(* against verify-* commands that change what was read.  The fetch of one  *)
(* epoch is one step here, on a node that has every block up to head;      *)
(* BeaconFetch shows what it returns and what a growing chain does to it.  *)
(***************************************************************************)
EXTENDS BankaiContract, FiniteSetsExt

CONSTANTS
  MaxAttempts,       \* MAX_ATTEMPTS, 3
  TargetBatchSize,   \* TARGET_BATCH_SIZE, 32
  DeployPeriods,     \* period of the slot given to deploy-contract, which is
                     \* not its last (BeaconFetch, InitCommitteeIsCurrent)
  ManualSlots,       \* slots of epoch-update runs whose trace is proven by hand
  Heads,             \* bound: the successive heads of the node's chain
  Commands,          \* which of the prove-next-* commands the operator uses
  Target,            \* newest epoch that can be fetched at the last head
  MaxJobs,           \* bound: proofs under way at a time
  MaxFailures        \* bound: commands and proofs that fail

ASSUME SystemAssumption ==
  /\ MaxAttempts \in Nat \ {0}
  /\ 2 * MaxAttempts <= SlotsPerEpoch
  /\ TargetBatchSize \in Nat \ {0}
  /\ DeployPeriods \subseteq Periods
  /\ Heads \subseteq Slots /\ Heads # {}
  /\ ManualSlots \subseteq Slots
  /\ Target \in Slots
  /\ Commands \subseteq {"epoch", "batch", "committee"}
  /\ MaxJobs \in Nat \ {0} /\ MaxFailures \in Nat

VARIABLES
  head,      \* newest slot the beacon node knows
  pc,        \* where each prove-next-* command is
  readEpoch, \* the latest_epoch each of them read
  readId,    \* the latest_committee_id prove-next-committee read
  stage,     \* how far the proof of each output is
  failures

client  == <<head, pc, readEpoch, readId, stage, failures>>
sysVars == <<vars, client>>

\* "failed": only the input file is left.  "proving": submitted to Atlantic.
\* "proved": the job is DONE.  "wrapping": submit-wrapped-proof was run.
Stages == {"none", "failed", "proving", "proved", "wrapping", "verified"}
Jobs   == {f \in Facts : stage[f] \in {"proving", "proved", "wrapping"}}
Files  == {f \in Facts : stage[f] # "none"}

Advance(f, from, to) == stage[f] = from /\ stage' = [stage EXCEPT ![f] = to]

---------------------------------------------------------------------------
(* Which inputs the client fetches. *)

\* Wrong: not aligned to an epoch; an epoch too far.
NextSlot(latest)   == latest + 1
SecondNext(latest) == (latest \div SlotsPerEpoch) * SlotsPerEpoch + 2 * SlotsPerEpoch

NextEpoch(latest) ==
  (latest \div SlotsPerEpoch) * SlotsPerEpoch + SlotsPerEpoch

Visible == {t \in Proposed[Home] : t <= head}

\* The first block in MaxAttempts slots from s, as a set of at most one slot.
FirstBlock(s) ==
  {h \in Visible : /\ s <= h /\ h < s + MaxAttempts
                   /\ \A t \in Visible : t < s \/ t >= h}

\* EpochUpdate::new: a header with a block after it that carries its
\* aggregate, and the committee of the slot after the header.
EpochInputs(s) ==
  {[block |-> [net |-> Home, slot |-> h],
    slot |-> h,
    committee_hash |-> Committee(Home, Period(h + 1))] :
     h \in {g \in FirstBlock(s) : FirstBlock(g + 1) # {}}}

\* Wrong: one epoch after the term, not before its end.
AfterTheTerm(next) ==
  (Period(next) + 1) * SlotsPerPeriod + SlotsPerEpoch

\* get_batching_range, the end excluded.
TermsLastEpoch(next) ==
  (Period(next) + 1) * SlotsPerPeriod - SlotsPerEpoch

\* EpochUpdateBatch::new: all of the range, or TARGET_BATCH_SIZE epochs when
\* it has twice as many.
BatchEnd(start) ==
  LET end == TermsLastEpoch(start)
      epoch_gap == (end - start) \div SlotsPerEpoch
  IN  IF epoch_gap >= 2 * TargetBatchSize
      THEN start + TargetBatchSize * SlotsPerEpoch
      ELSE end

BatchSlots(latest) ==
  LET start == NextEpoch(latest)
  IN  {s \in start..(BatchEnd(start) - 1) : (s - start) % SlotsPerEpoch = 0}

\* The batch over these slots, if every epoch of it can be fetched and there
\* is one (epochs[0] panics otherwise).
BatchInputs(slots) ==
  LET leaves == UNION {EpochInputs(s) : s \in slots} IN
  IF slots = {} \/ \E s \in slots : EpochInputs(s) = {}
  THEN {}
  ELSE {[leaves |-> leaves,
         last |-> CHOOSE l \in leaves :
                    \A m \in leaves : m.slot <= l.slot]}

\* SyncCommitteeUpdate::new at the first block from slot.
CommitteeInputs(slot) ==
  {[beacon_state_root |-> [net |-> Home, slot |-> h],
    committee_hash |-> Committee(Home, Period(h) + 1),
    slot |-> h] : h \in FirstBlock(slot)}

---------------------------------------------------------------------------
(* The prove-next-* commands. *)

Start(c) ==
  /\ c \in Commands /\ pc[c] = "idle"
  /\ IF c = "committee"
     THEN /\ pc' = [pc EXCEPT ![c] = "has_id"]
          /\ readId' = latest_committee_id
          /\ UNCHANGED readEpoch
     ELSE /\ pc' = [pc EXCEPT ![c] = "has_epoch"]
          /\ readEpoch' = [readEpoch EXCEPT ![c] = latest_epoch]
          /\ UNCHANGED readId
  /\ UNCHANGED <<vars, head, stage, failures>>

\* The process is over, and with it what it has read.
Exit(c) ==
  /\ pc' = [pc EXCEPT ![c] = "idle"]
  /\ readEpoch' = [readEpoch EXCEPT ![c] = 0]

\* Wrong forms: the period after the one required, and no requirement.
NextPeriodStart(id) == (id + 1) * SlotsPerPeriod
NoLowest(id)        == 0

LowestCommitteeUpdateSlot(id) == id * SlotsPerPeriod

\* prove-next-committee's second read; RequiresNewerEpoch ends the command.
ReadEpochForCommittee ==
  /\ pc["committee"] = "has_id"
  /\ IF latest_epoch < LowestCommitteeUpdateSlot(readId)
     THEN Exit("committee")
     ELSE /\ pc' = [pc EXCEPT !["committee"] = "has_epoch"]
          /\ readEpoch' = [readEpoch EXCEPT !["committee"] = latest_epoch]
  /\ readId' = 0
  /\ UNCHANGED <<vars, head, stage, failures>>

\* The output for each input file a command can write.
Outputs(c) ==
  LET e == readEpoch[c] IN
  CASE c = "epoch"     -> {EpochFact(o) : o \in EpochInputs(NextEpoch(e))}
    [] c = "batch"     -> {BatchFact(o) : o \in BatchInputs(BatchSlots(e))}
    [] c = "committee" -> {CommitteeFact(o) : o \in CommitteeInputs(e)}

\* The fact a command that has read latest_epoch goes on to prove: none if it
\* cannot fetch the inputs or the circuit rejects the file, whose non-signers
\* are seats (SyncAggregate), because the committee in it did not sign.  Facts
\* bounds them: a model leaves out those no contract of its DeployPeriods could
\* verify.
Provable(c) == {f \in Facts \cap Outputs(c) : FactFromClient(f)}

\* Input file, trace and submission.  Proving again what is under way or was
\* verified adds nothing.
Unproven(f) == stage[f] \in {"none", "failed"}

SubmitBatch(f) ==
  IF Unproven(f)
  THEN Cardinality(Jobs) < MaxJobs /\ stage' = [stage EXCEPT ![f] = "proving"]
  ELSE UNCHANGED stage

Prove(c) ==
  /\ pc[c] = "has_epoch"
  /\ \E f \in Provable(c) : SubmitBatch(f)
  /\ Exit(c)
  /\ UNCHANGED <<vars, head, readId, failures>>

\* EmptySlotDetected, the panic of an empty batch, or CairoRunError.
ProveFails(c) ==
  /\ pc[c] = "has_epoch"
  /\ Provable(c) = {}
  /\ Exit(c)
  /\ UNCHANGED <<vars, head, readId, stage, failures>>

\* A request to Starknet, to the beacon node or to Atlantic fails, or the
\* process ends: what was read is lost, and the input file may be left.
CommandAborts(c) ==
  /\ pc[c] # "idle" /\ failures < MaxFailures
  /\ failures' = failures + 1
  /\ \/ UNCHANGED stage
     \/ /\ pc[c] = "has_epoch"
        /\ \E f \in Provable(c) : Advance(f, "none", "failed")
  /\ Exit(c)
  /\ readId' = IF c = "committee" THEN 0 ELSE readId
  /\ UNCHANGED <<vars, head>>

\* epoch-update --slot s, exported to where verify-epoch looks for it, and its
\* trace made and submitted by hand.
ProveByHand(s) ==
  /\ \E o \in EpochInputs(s) \cap EpochOutputs :
       FromClient(o) /\ Unproven(EpochFact(o)) /\ SubmitBatch(EpochFact(o))
  /\ UNCHANGED <<vars, head, pc, readEpoch, readId, failures>>

---------------------------------------------------------------------------
(* Atlantic, and the commands that follow its jobs. *)

AtlanticProves(f) ==
  /\ Advance(f, "proving", "proved")
  /\ UNCHANGED <<vars, head, pc, readEpoch, readId, failures>>

SubmitWrappedProof(f) ==
  /\ Advance(f, "proved", "wrapping")
  /\ UNCHANGED <<vars, head, pc, readEpoch, readId, failures>>

\* Atlantic sends the wrapped proof to Starknet, where Integrity verifies it.
AtlanticVerifies(f) ==
  /\ Advance(f, "wrapping", "verified")
  /\ RegisterFact(f)
  /\ UNCHANGED <<head, pc, readEpoch, readId, failures>>

AtlanticFails(f) ==
  /\ failures < MaxFailures
  /\ failures' = failures + 1
  /\ Advance(f, "proving", "failed") \/ Advance(f, "wrapping", "proved")
  /\ UNCHANGED <<vars, head, pc, readEpoch, readId>>

\* verify-epoch and verify-committee find the file by the slot in its path.
EpochFilesAt(s) ==
  {o \in EpochOutputs : o.slot = s /\ EpochFact(o) \in Files}

CommitteeFilesAt(s) ==
  {o \in CommitteeOutputs : o.slot = s /\ CommitteeFact(o) \in Files}

VerifyEpoch(s) ==
  \E o \in EpochFilesAt(s) : VerifyEpochUpdate(o) /\ UNCHANGED client

VerifyCommittee(s) ==
  \E o \in CommitteeFilesAt(s) : VerifyCommitteeUpdate(o) /\ UNCHANGED client

\* verify-epoch-batch --slot s takes the first file named *_to_s.  Slots have
\* the same number of digits, so that is the one with the oldest first epoch.
BatchFilesTo(s) ==
  {o \in BatchOutputs : o.last.slot = s /\ BatchFact(o) \in Files}

FirstSlot(o) == Min({l.slot : l \in o.leaves})

VerifyBatch(s) ==
  \E o \in BatchFilesTo(s) :
    /\ \A p \in BatchFilesTo(s) : FirstSlot(o) <= FirstSlot(p)
    /\ VerifyEpochBatch(o)
    /\ UNCHANGED client

\* Anyone may decommit an epoch of a known batch.
Decommit ==
  \E root \in BatchOutputs : \E leaf \in root.leaves :
    DecommitBatchedEpoch(root, leaf) /\ UNCHANGED client

Grow ==
  /\ \E h \in Heads : h > head
  /\ head' = Min({h \in Heads : h > head})
  /\ UNCHANGED <<vars, pc, readEpoch, readId, stage, failures>>

---------------------------------------------------------------------------
SysInit ==
  /\ facts = {}
  /\ \E id \in DeployPeriods : Constructor(id, Committee(Home, id))
  /\ head = Min(Heads)
  /\ pc = [c \in Commands |-> "idle"]
  /\ readEpoch = [c \in Commands |-> 0]
  /\ readId = 0
  /\ stage = [f \in Facts |-> "none"]
  /\ failures = 0

AtlanticStep(f) ==
  AtlanticProves(f) \/ SubmitWrappedProof(f) \/ AtlanticVerifies(f)

SysNext ==
  \/ Grow
  \/ \E c \in Commands : Start(c) \/ Prove(c) \/ ProveFails(c) \/ CommandAborts(c)
  \/ "committee" \in Commands /\ ReadEpochForCommittee
  \/ \E s \in ManualSlots : ProveByHand(s)
  \/ \E f \in Facts : AtlanticStep(f) \/ AtlanticFails(f)
  \/ \E s \in Slots : VerifyEpoch(s) \/ VerifyBatch(s) \/ VerifyCommittee(s)
  \/ Decommit

\* An operator who keeps following the README: runs every command again and
\* again, each to its end, follows every job and verifies what was proven.
\* Prove is strongly fair because MaxJobs, a bound of the model, lets it wait.
Operation ==
  /\ WF_sysVars(Grow)
  /\ \A c \in Commands : /\ WF_sysVars(Start(c)) /\ WF_sysVars(ProveFails(c))
                        /\ SF_sysVars(Prove(c))
  /\ WF_sysVars("committee" \in Commands /\ ReadEpochForCommittee)
  /\ \A s \in ManualSlots : SF_sysVars(ProveByHand(s))
  /\ WF_sysVars(\E f \in Facts : AtlanticStep(f))
  /\ WF_sysVars(\E s \in Slots : VerifyEpoch(s))
  /\ WF_sysVars(\E s \in Slots : VerifyBatch(s))
  /\ \A o \in CommitteeOutputs : SF_sysVars(VerifyCommittee(o.slot))

SysSpec == SysInit /\ [][SysNext]_sysVars /\ Operation

---------------------------------------------------------------------------
(* Properties. *)

SysTypeOK ==
  /\ TypeOK
  /\ head \in Heads
  /\ pc \in [Commands -> {"idle", "has_id", "has_epoch"}]
  /\ readEpoch \in [Commands -> 0..latest_epoch]
  /\ readId \in Periods
  /\ stage \in [Facts -> Stages]
  /\ facts = {f \in Facts : stage[f] = "verified"}
  /\ Cardinality(Jobs) <= MaxJobs
  /\ failures \in 0..MaxFailures

\* The epochs of the light client: stored, or to be had by a decommit.
Epoch(s)  == s \div SlotsPerEpoch
Available == Stored \cup {l.slot : l \in UNION {o.leaves : o \in batches}}

\* The prove-next commands leave no hole: whichever of them run side by side
\* on what they read before, and however late their proofs are verified, every
\* epoch between the oldest and the newest is available.
NoEpochSkipped ==
  \A s, t \in Available : \A e \in Epoch(s)..Epoch(t) :
    \E u \in Available : Epoch(u) = e

\* Nor do they prove an epoch twice under different headers, although
\* prove-next-epoch and prove-next-epoch-batch overlap and missed slots move
\* the header away from the slot asked for.
OneHeaderPerEpoch ==
  \A s, t \in Available : Epoch(s) = Epoch(t) => s = t

\* What the prove-next commands derive from the latest_epoch they read, their
\* circuits accept, and the contract has the committee under the id it will
\* look up: an epoch's retries stay in its period, the aggregate they find is
\* of that header, and a batch never mixes two terms.
FitsContract(o) == o.committee_hash = Committee(Home, Period(o.slot))

DerivedInputsVerify ==
  /\ "epoch" \in Commands /\ pc["epoch"] = "has_epoch" =>
       \A o \in EpochInputs(NextEpoch(readEpoch["epoch"])) :
         FromClient(o) /\ FitsContract(o)
  /\ "batch" \in Commands /\ pc["batch"] = "has_epoch" =>
       \A o \in BatchInputs(BatchSlots(readEpoch["batch"])) :
         /\ BatchProvable(o) /\ FitsContract(o.last)
         /\ \A l \in o.leaves : FromClient(l)

\* prove-next-committee reads the contract twice and submits much later; what
\* it proves can still be verified then: the state root of its slot is stored.
CommitteeProofsMatch ==
  \A o \in CommitteeOutputs :
    CommitteeFact(o) \in Files => epochs[o.slot] = o.beacon_state_root

\* The light client follows the chain over the end of a term: it stores the
\* newest epoch there is to store and learns the committee after it.
SyncsToTarget ==
  <>(latest_epoch = Target /\ committee[Period(Target) + 1] # NoHash)
===============================================================================
