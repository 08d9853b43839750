----------------------------- MODULE BeaconFetch ------------------------------
(***************************************************************************)
(* How the client collects the inputs of a circuit from a beacon node while *)
(* the chain grows: generate_epoch_proof and its helpers in rpc.rs,        *)
(* get_sync_committee_update, ContractInitializationData::new.             *)
(*                                                                         *)
(* A node answers 404 for a slot it has no block for: because the slot was *)
(* missed, because the block has not reached the node, or because the slot *)
(* is still to come.  The client takes all three for a missed slot.  Each  *)
(* request is a step, the chain may grow between any two of them, and any  *)
(* request may fail for other reasons.  There are no reorganisations.      *)
(***************************************************************************)
EXTENDS BeaconSlots

CONSTANTS
  MaxAttempts,   \* MAX_ATTEMPTS, 3 in the code
  Starts         \* the slots commands are given

\* Both loops together stay within an epoch.
ASSUME FetchAssumption ==
  /\ MaxAttempts \in Nat \ {0}
  /\ 2 * MaxAttempts <= SlotsPerEpoch
  /\ Starts \subseteq Slots

VARIABLES
  now,         \* the current slot
  proposed,    \* slots up to now that have a block
  seen,        \* those the node has, parents before children
  kind,        \* what is being fetched: "epoch", "committee", "init"
  start,       \* the slot asked for
  settled,     \* at that time the node had a block past every slot the fetch
               \* can look at (history variable)
  pc,          \* next request, or how the fetch ended
  slot, attempts,
  header,      \* slot of the header chosen
  aggregate,   \* slot of the block whose sync aggregate was taken
  pubs         \* period whose committee was taken

chain == <<now, proposed, seen>>
fetch == <<kind, start, settled, pc, slot, attempts, header, aggregate, pubs>>
vars  == <<chain, fetch>>

Requests == {"header", "aggregate", "pubs", "execution", "state"}
Ends     == {"idle", "done", "empty_slot", "rpc_error"}

---------------------------------------------------------------------------
(* The chain and the node. *)

Tick(block) ==
  /\ now < MaxSlot
  /\ now' = now + 1
  /\ proposed' = IF block THEN proposed \cup {now + 1} ELSE proposed
  /\ UNCHANGED <<seen, fetch>>

Arrive(s) ==
  /\ s \in proposed \ seen
  /\ \A t \in proposed \ seen : s <= t
  /\ seen' = seen \cup {s}
  /\ UNCHANGED <<now, proposed, fetch>>

---------------------------------------------------------------------------
(* The client. *)

\* The slot whose state names the committee: get_sync_committee_validator_pubs.
CommitteeSlot(s) == s + 1

\* The first slot get_sync_aggregate tries, and a wrong form.
SameSlot(s)       == s
FirstAggregate(s) == s + 1

\* The attempt that is not repeated, and wrong forms: too many, one too few.
TwiceAsMany(n) == n >= 2 * MaxAttempts
OneTooFew(n)   == n >= MaxAttempts - 1
LastAttempt(n) == n >= MaxAttempts

LastSlotTried(s) == FirstAggregate(s + MaxAttempts - 1) + MaxAttempts - 1

Request(k, s) ==
  /\ pc \in Ends
  /\ kind' = k
  /\ start' = s
  /\ settled' = \E b \in seen : b >= LastSlotTried(s)
  /\ pc' = IF k = "init" THEN "pubs" ELSE "header"
  /\ slot' = s
  /\ attempts' = 0
  /\ header' = s
  /\ aggregate' = s
  /\ pubs' = 0
  /\ UNCHANGED chain

HeaderFound ==
  /\ pc = "header" /\ slot \in seen
  /\ header' = slot
  /\ IF kind = "epoch"
     THEN pc' = "aggregate" /\ slot' = FirstAggregate(slot) /\ attempts' = 0
     ELSE pc' = "state" /\ UNCHANGED <<slot, attempts>>
  /\ UNCHANGED <<chain, kind, start, settled, aggregate, pubs>>

AggregateFound ==
  /\ pc = "aggregate" /\ slot \in seen
  /\ aggregate' = slot
  /\ pc' = "pubs"
  /\ UNCHANGED <<chain, kind, start, settled, slot, attempts, header, pubs>>

\* Wrong: the same slot again, uncounted, until its block is there.
WaitForBlock ==
  /\ pc \in {"header", "aggregate"} /\ slot \notin seen
  /\ UNCHANGED vars

\* The loop around get_header, in all its callers.
EmptySlot ==
  /\ pc \in {"header", "aggregate"} /\ slot \notin seen
  /\ attempts' = attempts + 1
  /\ IF LastAttempt(attempts + 1)
     THEN pc' = "empty_slot" /\ UNCHANGED slot
     ELSE slot' = slot + 1 /\ UNCHANGED pc
  /\ UNCHANGED <<chain, kind, start, settled, header, aggregate, pubs>>

PubsFound ==
  /\ pc = "pubs" /\ CommitteeSlot(header) <= now
  /\ pubs' = Period(CommitteeSlot(header))
  /\ pc' = IF kind = "epoch" THEN "execution" ELSE "done"
  /\ UNCHANGED <<chain, kind, start, settled, slot, attempts, header, aggregate>>

\* ExecutionHeaderProof::fetch_proof reads the block of the header, and
\* SyncCommitteeUpdate::new its state; both are there.
DataFound ==
  /\ pc \in {"execution", "state"}
  /\ pc' = "done"
  /\ UNCHANGED <<chain, kind, start, settled, slot, attempts, header, aggregate,
                 pubs>>

\* fetch_sync_committee_indexes finds no list in the answer: the state is still
\* to come.
StateMissing ==
  /\ pc = "pubs" /\ CommitteeSlot(header) > now
  /\ pc' = "rpc_error"
  /\ UNCHANGED <<chain, kind, start, settled, slot, attempts, header, aggregate,
                 pubs>>

\* A request is not answered, or answered with something else.
RpcFails ==
  /\ pc \in Requests
  /\ pc' = "rpc_error"
  /\ UNCHANGED <<chain, kind, start, settled, slot, attempts, header, aggregate,
                 pubs>>

---------------------------------------------------------------------------
Init ==
  /\ now = 0 /\ proposed \in SUBSET {0} /\ seen = proposed
  /\ kind = "epoch" /\ start = 0 /\ settled = FALSE /\ pc = "idle"
  /\ slot = 0 /\ attempts = 0 /\ header = 0 /\ aggregate = 0 /\ pubs = 0

Answered == \/ HeaderFound \/ AggregateFound \/ EmptySlot \/ PubsFound
            \/ DataFound \/ StateMissing

Next ==
  \/ \E block \in BOOLEAN : Tick(block)
  \/ \E s \in Slots : Arrive(s)
  \/ \E k \in {"epoch", "committee", "init"}, s \in Starts : Request(k, s)
  \/ Answered
  \/ RpcFails

\* The node answers a request sooner or later, or the request fails.
Spec == Init /\ [][Next]_vars /\ WF_vars(Answered)

---------------------------------------------------------------------------
(* Properties. *)

TypeOK ==
  /\ now \in Slots /\ proposed \subseteq 0..now /\ seen \subseteq proposed
  /\ kind \in {"epoch", "committee", "init"}
  /\ start \in Starts \cup {0} /\ settled \in BOOLEAN
  /\ pc \in Requests \cup Ends
  /\ attempts \in 0..MaxAttempts
  /\ {slot, header, aggregate} \subseteq start..LastSlotTried(start)
  /\ pubs \in {Period(s) : s \in 0..(MaxSlot + 1)}

Fetched(k) == pc = "done" /\ kind = k

\* The circuit accepts the inputs: the aggregate signs this header and the
\* committee is the one that signed.
CircuitAccepts ==
  IsSignatureSlot(proposed, header, aggregate) /\ pubs = Period(aggregate)

\* prove-next-epoch and prove-next-epoch-batch ask for the first slot of an
\* epoch.  If the chain is past all slots involved when they ask, the inputs
\* satisfy the circuit, whatever the pattern of missed slots.
SettledInputsVerify ==
  Fetched("epoch") /\ settled /\ start % SlotsPerEpoch = 0 => CircuitAccepts

\* Even if it is not, the committee taken is the one under whose id the
\* contract will look: retries never carry the header into another period.
CommitteeIsContracts ==
  Fetched("epoch") /\ start % SlotsPerEpoch = 0 => pubs = Period(header)

\* On a settled chain a fetch takes the first block from the slot asked for,
\* and gives up only after MaxAttempts slots in a row were really missed.
FetchIsComplete ==
  settled =>
    /\ Fetched("epoch") \/ Fetched("committee") =>
         /\ header \in proposed
         /\ \A s \in proposed : s < start \/ s >= header
    /\ pc = "empty_slot" =>
         \A s \in (slot - MaxAttempts + 1)..slot : s \notin proposed

\* Every fetch ends.
FetchEnds == pc \in Requests ~> pc \in Ends

\* rpc.rs:84 "Ensure the slot is not missed and increment in case it is": the
\* inputs belong together however the chain grows meanwhile.
FetchedInputsVerify ==
  Fetched("epoch") /\ start % SlotsPerEpoch = 0 => CircuitAccepts

\* contract_init.rs:23 "since this is the current committee, we dont increment
\* the committee id": the hash stored under the id of the slot's period is that
\* period's committee.
InitCommitteeIsCurrent == Fetched("init") => pubs = Period(start)
===============================================================================
