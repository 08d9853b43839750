-------------------------- MODULE BeaconFetchProofs --------------------------
(***************************************************************************)
(* Proofs about BeaconFetch: for every chain, every growth of it between   *)
(* requests, every number of attempts.  The last part is about ForkDomain: *)
(* the domain of a fetched header is the one it was signed under, for      *)
(* every list of forks.                                                    *)
(***************************************************************************)
EXTENDS ForkDomain, ArithmeticProofs, FiniteSetTheorems

\* No block in a..b, as far as a settled chain is concerned.
Missed(a, b) == settled => \A t \in a..b : t \notin proposed

\* The node has the chain up to some slot, and on a settled chain past all the
\* fetch can look at: a slot it has no block for then was missed.
NodeInv ==
  /\ \A t \in proposed, b \in seen : t <= b => t \in seen
  /\ settled => \E b \in seen : b >= LastSlotTried(start)

HeaderChosen ==
  /\ header \in start..(start + MaxAttempts - 1)
  /\ header \in seen
  /\ Missed(start, header - 1)

AggregateChosen ==
  /\ aggregate \in (header + 1)..(header + MaxAttempts)
  /\ aggregate \in seen
  /\ Missed(header + 1, aggregate - 1)

\* What is known at each request.
HeaderInv ==
  pc = "header" =>
    /\ kind \in {"epoch", "committee"}
    /\ attempts < MaxAttempts
    /\ slot = start + attempts
    /\ Missed(start, slot - 1)

AggregateInv ==
  pc = "aggregate" =>
    /\ kind = "epoch"
    /\ HeaderChosen
    /\ attempts < MaxAttempts
    /\ slot = header + 1 + attempts
    /\ Missed(header + 1, slot - 1)

DataInv ==
  /\ pc = "pubs" => kind \in {"epoch", "init"}
  /\ pc = "execution" => kind = "epoch"
  /\ pc = "state" => kind = "committee"
  /\ pc \in {"pubs", "execution", "done"} /\ kind = "epoch" =>
       HeaderChosen /\ AggregateChosen
  /\ pc \in {"state", "done"} /\ kind = "committee" => HeaderChosen
  /\ pc \in {"execution", "done"} /\ kind = "epoch" => pubs = Period(header + 1)

GaveUpInv == pc = "empty_slot" => Missed(slot - MaxAttempts + 1, slot)

IInv ==
  /\ TypeOK
  /\ NodeInv
  /\ HeaderInv
  /\ AggregateInv
  /\ DataInv
  /\ GaveUpInv

---------------------------------------------------------------------------
LEMMA ConstantFacts ==
  /\ MaxAttempts \in Nat \ {0} /\ MaxSlot \in Nat
  /\ \A s \in Starts \cup {0} : s \in Slots /\ s \in Nat
BY SlotsAssumption, FetchAssumption DEF Slots

LEMMA LastSlot ==
  ASSUME NEW s \in Nat
  PROVE  LastSlotTried(s) = s + 2 * MaxAttempts - 1
BY ConstantFacts DEF LastSlotTried, FirstAggregate

LEMMA NumberFacts ==
  ASSUME TypeOK
  PROVE  /\ now \in Nat /\ proposed \subseteq Nat /\ seen \subseteq proposed
         /\ start \in Nat /\ start \in Slots
         /\ LastSlotTried(start) = start + 2 * MaxAttempts - 1
         /\ slot \in Nat /\ header \in Nat /\ aggregate \in Nat
         /\ attempts \in Nat
<1>1. start \in Nat /\ start \in Slots
  BY ConstantFacts DEF TypeOK
<1>2. now \in Nat /\ proposed \subseteq Nat /\ seen \subseteq proposed
  BY ConstantFacts DEF TypeOK, Slots
<1>3. LastSlotTried(start) = start + 2 * MaxAttempts - 1
  BY <1>1, LastSlot
<1>4. LastSlotTried(start) \in Int
  BY <1>1, <1>3, ConstantFacts
<1>5. slot \in Nat /\ header \in Nat /\ aggregate \in Nat /\ attempts \in Nat
  BY <1>1, <1>4, ConstantFacts DEF TypeOK
<1> QED
  BY <1>1, <1>2, <1>3, <1>5

\* On a settled chain a slot the node has no block for was missed, wherever the
\* fetch looks.
LEMMA NotSeenIsMissed ==
  ASSUME TypeOK, NodeInv, settled,
         NEW t \in Nat, t <= LastSlotTried(start), t \notin seen
  PROVE  t \notin proposed
<1>1. PICK b \in seen : b >= LastSlotTried(start)
  BY DEF NodeInv
<1>2. b \in Nat /\ LastSlotTried(start) \in Int
  BY <1>1, NumberFacts, ConstantFacts
<1>3. t <= b
  BY <1>1, <1>2
<1> QED
  BY <1>1, <1>3 DEF NodeInv

LEMMA InitInv == Init => IInv
<1> SUFFICES ASSUME Init PROVE IInv
  OBVIOUS
<1>1. LastSlotTried(0) = 2 * MaxAttempts - 1 /\ LastSlotTried(0) >= 0
  BY LastSlot, ConstantFacts
<1>2. TypeOK
  <2>1. Period(0) = 0
    BY SlotsAssumption DEF Period
  <2>2. 0 \in 0..(MaxSlot + 1) /\ 0 \in Slots
    BY ConstantFacts DEF Slots
  <2>3. pubs \in {Period(s) : s \in 0..(MaxSlot + 1)}
    BY <2>1, <2>2 DEF Init
  <2>4. now \in Slots /\ proposed \subseteq 0..now /\ seen \subseteq proposed
    BY <2>2 DEF Init
  <2>5. attempts \in 0..MaxAttempts
    BY ConstantFacts DEF Init
  <2>6. {slot, header, aggregate} \subseteq start..LastSlotTried(start)
    BY <1>1, ConstantFacts DEF Init
  <2> QED
    BY <2>3, <2>4, <2>5, <2>6 DEF Init, TypeOK, Ends
<1>3. NodeInv
  BY DEF Init, NodeInv
<1> QED
  BY <1>2, <1>3 DEF Init, IInv, HeaderInv, AggregateInv, DataInv, GaveUpInv

---------------------------------------------------------------------------
(* The chain grows. *)

\* New blocks are past all a fetch on a settled chain can look at, so what was
\* missed stays missed.
LEMMA ChainInv ==
  ASSUME IInv, UNCHANGED fetch,
         now' \in Slots, proposed' \subseteq 0..now', seen' \subseteq proposed',
         seen \subseteq seen', \A t \in proposed' : t \in proposed \/ t = now + 1,
         \A t \in proposed', b \in seen' : t <= b => t \in seen'
  PROVE  IInv'
<1> USE NumberFacts, ConstantFacts
<1>1. TypeOK'
  BY DEF IInv, TypeOK, fetch
<1>2. NodeInv'
  <2>1. settled' => \E b \in seen' : b >= LastSlotTried(start')
    BY DEF IInv, NodeInv, fetch
  <2> QED
    BY <2>1 DEF NodeInv
<1>3. \A a, b : b <= LastSlotTried(start) /\ a \in Int /\ b \in Int
                 /\ Missed(a, b) => Missed(a, b)'
  <2> SUFFICES ASSUME NEW a \in Int, NEW b \in Int, b <= LastSlotTried(start),
                      Missed(a, b), settled, NEW t \in a..b, t \in proposed'
               PROVE  FALSE
    BY DEF Missed, fetch
  <2>1. PICK c \in seen : c >= LastSlotTried(start)
    BY DEF IInv, NodeInv
  <2>2. c <= now /\ c \in Nat
    BY DEF IInv, TypeOK
  <2>3. t # now + 1
    BY <2>1, <2>2 DEF IInv
  <2> QED
    BY <2>3 DEF Missed
<1>4. LastSlotTried(start) = start + 2 * MaxAttempts - 1
      /\ slot <= LastSlotTried(start)
      /\ slot \in Nat /\ header \in Nat /\ aggregate \in Nat /\ start \in Nat
  BY DEF IInv, TypeOK
<1>5. HeaderChosen => HeaderChosen'
  <2> SUFFICES ASSUME HeaderChosen PROVE HeaderChosen'
    OBVIOUS
  <2>1. header - 1 <= LastSlotTried(start) /\ header - 1 \in Int
    BY <1>4 DEF HeaderChosen
  <2>2. Missed(start, header - 1)'
    BY <1>3, <1>4, <2>1 DEF HeaderChosen, fetch, Missed
  <2> QED
    BY <2>2 DEF HeaderChosen, fetch
<1>6. HeaderChosen /\ AggregateChosen => AggregateChosen'
  <2> SUFFICES ASSUME HeaderChosen, AggregateChosen PROVE AggregateChosen'
    OBVIOUS
  <2>1. aggregate - 1 <= LastSlotTried(start) /\ aggregate - 1 \in Int
        /\ header + 1 \in Int
    BY <1>4 DEF HeaderChosen, AggregateChosen
  <2>2. Missed(header + 1, aggregate - 1)'
    BY <1>3, <1>4, <2>1 DEF AggregateChosen, fetch, Missed
  <2> QED
    BY <2>2 DEF AggregateChosen, fetch
<1>7. HeaderInv'
  <2>1. Missed(start, slot - 1) => Missed(start, slot - 1)'
    BY <1>3, <1>4 DEF fetch, Missed
  <2> QED
    BY <2>1 DEF IInv, HeaderInv, fetch
<1>8. AggregateInv'
  <2>1. header + 1 \in Int /\ slot - 1 \in Int /\ slot - 1 <= LastSlotTried(start)
    BY <1>4
  <2>2. Missed(header + 1, slot - 1) => Missed(header + 1, slot - 1)'
    BY <1>3, <2>1 DEF fetch, Missed
  <2> QED
    BY <1>5, <2>2 DEF IInv, AggregateInv, fetch
<1>9. DataInv'
  BY <1>5, <1>6 DEF IInv, DataInv, fetch
<1>10. GaveUpInv'
  <2>1. Missed(slot - MaxAttempts + 1, slot) =>
          Missed(slot - MaxAttempts + 1, slot)'
    BY <1>3, <1>4 DEF fetch, Missed
  <2> QED
    BY <2>1 DEF IInv, GaveUpInv, fetch
<1> QED
  BY <1>1, <1>2, <1>7, <1>8, <1>9, <1>10 DEF IInv

LEMMA TickInv ==
  ASSUME IInv, NEW block \in BOOLEAN, Tick(block)
  PROVE  IInv'
<1> USE NumberFacts, ConstantFacts
<1>1. now' \in Slots /\ proposed' \subseteq 0..now' /\ seen' \subseteq proposed'
  BY DEF IInv, TypeOK, Tick, Slots
<1>2. \A t \in proposed' : t \in proposed \/ t = now + 1
  BY DEF Tick
<1>3. \A t \in proposed', b \in seen' : t <= b => t \in seen'
  <2> SUFFICES ASSUME NEW t \in proposed', NEW b \in seen', t <= b
               PROVE  t \in seen'
    OBVIOUS
  <2>1. b \in seen /\ b <= now /\ b \in Nat
    BY DEF Tick, IInv, TypeOK
  <2>2. t \in proposed
    BY <1>2, <2>1 DEF IInv
  <2> QED
    BY <2>1, <2>2 DEF Tick, IInv, NodeInv
<1> QED
  BY <1>1, <1>2, <1>3, ChainInv DEF Tick

LEMMA ArriveInv ==
  ASSUME IInv, NEW s \in Slots, Arrive(s)
  PROVE  IInv'
<1> USE NumberFacts, ConstantFacts
<1>1. now' \in Slots /\ proposed' \subseteq 0..now' /\ seen' \subseteq proposed'
  BY DEF IInv, TypeOK, Arrive
<1>2. \A t \in proposed', b \in seen' : t <= b => t \in seen'
  <2> SUFFICES ASSUME NEW t \in proposed, NEW b \in seen', t <= b, t \notin seen
               PROVE  t = s
    BY DEF Arrive
  <2>1. b = s
    BY DEF Arrive, IInv, NodeInv
  <2>2. s <= t /\ s \in Nat /\ t \in Nat
    BY DEF Arrive, IInv
  <2> QED
    BY <2>1, <2>2
<1> QED
  BY <1>1, <1>2, ChainInv DEF Arrive

---------------------------------------------------------------------------
(* The requests of the client. *)

LEMMA PeriodZero == 0 \in {Period(s) : s \in 0..(MaxSlot + 1)}
<1>1. Period(0) = 0
  BY SlotsAssumption DEF Period
<1>2. 0 \in 0..(MaxSlot + 1)
  BY SlotsAssumption
<1> QED
  BY <1>1, <1>2

LEMMA RequestInv ==
  ASSUME IInv, NEW k \in {"epoch", "committee", "init"}, NEW s \in Starts,
         Request(k, s)
  PROVE  IInv'
<1> USE ConstantFacts
<1>1. s \in Nat /\ LastSlotTried(s) = s + 2 * MaxAttempts - 1
  BY LastSlot
<1>2. TypeOK'
  <2>1. s \in s..LastSlotTried(s)
    BY <1>1
  <2> QED
    BY <2>1, PeriodZero DEF IInv, TypeOK, Request, chain, Requests
<1>3. NodeInv'
  BY DEF IInv, NodeInv, Request, chain
<1>4. HeaderInv'
  BY <1>1 DEF HeaderInv, Request, Missed
<1>5. AggregateInv' /\ DataInv' /\ GaveUpInv'
  BY DEF AggregateInv, DataInv, GaveUpInv, Request
<1> QED
  BY <1>2, <1>3, <1>4, <1>5 DEF IInv

LEMMA HeaderFoundInv ==
  ASSUME IInv, HeaderFound
  PROVE  IInv'
<1> USE NumberFacts, ConstantFacts
<1>1. /\ kind \in {"epoch", "committee"} /\ slot = start + attempts
      /\ attempts < MaxAttempts /\ Missed(start, slot - 1) /\ slot \in seen
  BY DEF IInv, HeaderInv, HeaderFound
<1>2. TypeOK'
  <2>1. {slot', header', aggregate'} \subseteq start..LastSlotTried(start)
    BY <1>1 DEF IInv, TypeOK, HeaderFound, FirstAggregate
  <2> QED
    BY <2>1 DEF IInv, TypeOK, HeaderFound, chain, Requests
<1>3. NodeInv'
  BY DEF IInv, NodeInv, HeaderFound, chain
<1>4. HeaderChosen'
  BY <1>1 DEF IInv, HeaderChosen, HeaderFound, chain, Missed
<1>5. HeaderInv' /\ GaveUpInv'
  BY DEF HeaderInv, GaveUpInv, HeaderFound
<1>6. AggregateInv'
  BY <1>1, <1>4 DEF IInv, AggregateInv, HeaderFound, FirstAggregate, Missed
<1>7. DataInv'
  BY <1>1, <1>4 DEF DataInv, HeaderFound
<1> QED
  BY <1>2, <1>3, <1>5, <1>6, <1>7 DEF IInv

LEMMA AggregateFoundInv ==
  ASSUME IInv, AggregateFound
  PROVE  IInv'
<1> USE NumberFacts, ConstantFacts
<1>1. /\ kind = "epoch" /\ HeaderChosen /\ slot = header + 1 + attempts
      /\ attempts < MaxAttempts /\ Missed(header + 1, slot - 1) /\ slot \in seen
  BY DEF IInv, AggregateInv, AggregateFound
<1>2. TypeOK'
  BY DEF IInv, TypeOK, AggregateFound, chain, Requests
<1>3. NodeInv'
  BY DEF IInv, NodeInv, AggregateFound, chain
<1>4. HeaderChosen' /\ AggregateChosen'
  BY <1>1 DEF IInv, HeaderChosen, AggregateChosen, AggregateFound, chain, Missed
<1>5. HeaderInv' /\ AggregateInv' /\ GaveUpInv'
  BY DEF HeaderInv, AggregateInv, GaveUpInv, AggregateFound
<1>6. DataInv'
  BY <1>1, <1>4 DEF DataInv, AggregateFound
<1> QED
  BY <1>2, <1>3, <1>5, <1>6 DEF IInv

LEMMA EmptySlotInv ==
  ASSUME IInv, EmptySlot
  PROVE  IInv'
<1> USE NumberFacts, ConstantFacts
<1>1. slot \notin seen /\ attempts' = attempts + 1 /\ attempts < MaxAttempts
  BY DEF IInv, HeaderInv, AggregateInv, EmptySlot
<1>2. slot < LastSlotTried(start) \/ attempts + 1 = MaxAttempts
  <2>1. CASE pc = "header"
    BY <2>1 DEF IInv, HeaderInv
  <2>2. CASE pc = "aggregate"
    BY <2>2 DEF IInv, AggregateInv, HeaderChosen
  <2> QED
    BY <2>1, <2>2 DEF EmptySlot
<1>3. TypeOK'
  BY <1>1, <1>2 DEF IInv, TypeOK, EmptySlot, LastAttempt, chain, Ends
<1>4. NodeInv'
  BY DEF IInv, NodeInv, EmptySlot, chain
<1>5. settled => slot \notin proposed
  <2>1. slot <= LastSlotTried(start)
    BY DEF IInv, TypeOK
  <2> QED
    BY <1>1, <2>1, NotSeenIsMissed DEF IInv
<1>6. \A a \in Int : Missed(a, slot - 1) => Missed(a, slot)
  BY <1>5 DEF IInv, Missed
<1>7. HeaderInv'
  <2> SUFFICES ASSUME pc' = "header" PROVE HeaderInv'
    BY DEF HeaderInv
  <2>1. pc = "header" /\ slot' = slot + 1 /\ attempts + 1 < MaxAttempts
    BY DEF EmptySlot, LastAttempt, IInv
  <2>2. Missed(start, slot)
    BY <1>6, <2>1 DEF IInv, HeaderInv
  <2> QED
    BY <1>1, <2>1, <2>2 DEF IInv, HeaderInv, EmptySlot, chain, Missed
<1>8. AggregateInv'
  <2> SUFFICES ASSUME pc' = "aggregate" PROVE AggregateInv'
    BY DEF AggregateInv
  <2>1. pc = "aggregate" /\ slot' = slot + 1 /\ attempts + 1 < MaxAttempts
    BY DEF EmptySlot, LastAttempt, IInv
  <2>2. Missed(header + 1, slot)
    BY <1>6, <2>1 DEF IInv, AggregateInv
  <2> QED
    BY <1>1, <2>1, <2>2
    DEF IInv, AggregateInv, HeaderChosen, EmptySlot, chain, Missed
<1>9. DataInv'
  BY DEF DataInv, EmptySlot
<1>10. GaveUpInv'
  <2> SUFFICES ASSUME pc' = "empty_slot" PROVE GaveUpInv'
    BY DEF GaveUpInv
  <2>1. attempts + 1 = MaxAttempts /\ slot' = slot
    BY <1>1 DEF EmptySlot, LastAttempt, IInv
  <2>2. Missed(slot - attempts, slot - 1)
    BY DEF EmptySlot, IInv, HeaderInv, AggregateInv, Missed
  <2>3. Missed(slot - attempts, slot)
    BY <1>6, <2>2 DEF IInv
  <2> QED
    BY <2>1, <2>3 DEF IInv, GaveUpInv, EmptySlot, chain, Missed
<1> QED
  BY <1>3, <1>4, <1>7, <1>8, <1>9, <1>10 DEF IInv

LEMMA PubsFoundInv ==
  ASSUME IInv, PubsFound
  PROVE  IInv'
<1> USE NumberFacts, ConstantFacts
<1>1. kind \in {"epoch", "init"} /\ pc = "pubs"
  BY DEF IInv, DataInv, PubsFound
<1>2. TypeOK'
  <2>1. CommitteeSlot(header) \in 0..(MaxSlot + 1)
    BY DEF IInv, TypeOK, PubsFound, CommitteeSlot, Slots
  <2>2. pubs' \in {Period(s) : s \in 0..(MaxSlot + 1)}
    BY <2>1 DEF PubsFound
  <2> QED
    BY <2>2 DEF IInv, TypeOK, PubsFound, chain, Requests, Ends
<1>3. NodeInv'
  BY DEF IInv, NodeInv, PubsFound, chain
<1>4. HeaderInv' /\ AggregateInv' /\ GaveUpInv'
  BY DEF HeaderInv, AggregateInv, GaveUpInv, PubsFound
<1>5. DataInv'
  <2>1. kind = "epoch" => HeaderChosen' /\ AggregateChosen'
    BY <1>1 DEF IInv, DataInv, HeaderChosen, AggregateChosen, PubsFound, chain, Missed
  <2>2. pubs' = Period(header + 1)
    BY DEF PubsFound, CommitteeSlot
  <2> QED
    BY <1>1, <2>1, <2>2 DEF DataInv, PubsFound
<1> QED
  BY <1>2, <1>3, <1>4, <1>5 DEF IInv

LEMMA DataFoundInv ==
  ASSUME IInv, DataFound
  PROVE  IInv'
<1>1. TypeOK'
  BY DEF IInv, TypeOK, DataFound, chain, Ends
<1>2. NodeInv'
  BY DEF IInv, NodeInv, DataFound, chain
<1>3. HeaderInv' /\ AggregateInv' /\ GaveUpInv'
  BY DEF HeaderInv, AggregateInv, GaveUpInv, DataFound
<1>4. DataInv'
  BY DEF IInv, DataInv, HeaderChosen, AggregateChosen, DataFound, chain, Missed
<1> QED
  BY <1>1, <1>2, <1>3, <1>4 DEF IInv

LEMMA FailureInv ==
  ASSUME IInv, StateMissing \/ RpcFails
  PROVE  IInv'
<1>1. TypeOK'
  BY DEF IInv, TypeOK, StateMissing, RpcFails, chain, Ends
<1>2. NodeInv'
  BY DEF IInv, NodeInv, StateMissing, RpcFails, chain
<1>3. HeaderInv' /\ AggregateInv' /\ DataInv' /\ GaveUpInv'
  BY DEF HeaderInv, AggregateInv, DataInv, GaveUpInv, StateMissing, RpcFails
<1> QED
  BY <1>1, <1>2, <1>3 DEF IInv

LEMMA StutterInv ==
  ASSUME IInv, UNCHANGED vars
  PROVE  IInv'
BY DEF IInv, TypeOK, NodeInv, HeaderInv, AggregateInv, DataInv, GaveUpInv,
       HeaderChosen, AggregateChosen, Missed, vars, chain, fetch

LEMMA NextInv == IInv /\ [Next]_vars => IInv'
<1> SUFFICES ASSUME IInv, [Next]_vars PROVE IInv'
  OBVIOUS
<1>1. ASSUME NEW block \in BOOLEAN, Tick(block) PROVE IInv'
  BY <1>1, TickInv
<1>2. ASSUME NEW s \in Slots, Arrive(s) PROVE IInv'
  BY <1>2, ArriveInv
<1>3. ASSUME NEW k \in {"epoch", "committee", "init"}, NEW s \in Starts, Request(k, s)
      PROVE  IInv'
  BY <1>3, RequestInv
<1>4. CASE Answered
  BY <1>4, HeaderFoundInv, AggregateFoundInv, EmptySlotInv, PubsFoundInv,
     DataFoundInv, FailureInv DEF Answered
<1>5. CASE RpcFails
  BY <1>5, FailureInv
<1>6. CASE UNCHANGED vars
  BY <1>6, StutterInv
<1> QED
  BY <1>1, <1>2, <1>3, <1>4, <1>5, <1>6 DEF Next

\* IInv holds in every reachable state.
THEOREM Invariance == Spec => []IInv
<1>1. Init => IInv
  BY InitInv
<1>2. IInv /\ [Next]_vars => IInv'
  BY NextInv
<1> QED
  BY <1>1, <1>2, PTL DEF Spec

---------------------------------------------------------------------------
\* The variables of the fetch keep their types, and no fetch looks past
\* LastSlotTried.
THEOREM TypeCorrect == Spec => []TypeOK
<1>1. IInv => TypeOK
  BY DEF IInv
<1> QED
  BY <1>1, Invariance, PTL

\* A fetch on a settled chain takes the first block from its slot on, and only
\* gives up over MaxAttempts missed slots (the loops of generate_epoch_proof,
\* get_sync_aggregate and get_sync_committee_update).
THEOREM Complete == Spec => []FetchIsComplete
<1>1. IInv => FetchIsComplete
  <2> SUFFICES ASSUME IInv, settled PROVE FetchIsComplete
    BY DEF FetchIsComplete
  <2> USE NumberFacts, ConstantFacts
  <2>1. ASSUME Fetched("epoch") \/ Fetched("committee")
        PROVE  header \in proposed /\ \A s \in proposed : s < start \/ s >= header
    <3>1. HeaderChosen
      BY <2>1 DEF IInv, DataInv, Fetched
    <3>2. header \in proposed
      BY <3>1 DEF IInv, HeaderChosen
    <3> QED
      BY <3>1, <3>2 DEF IInv, HeaderChosen, Missed
  <2>2. ASSUME pc = "empty_slot"
        PROVE  \A s \in (slot - MaxAttempts + 1)..slot : s \notin proposed
    BY <2>2 DEF IInv, GaveUpInv, Missed
  <2> QED
    BY <2>1, <2>2 DEF FetchIsComplete
<1> QED
  BY <1>1, Invariance, PTL

\* An epoch lies in one period.
LEMMA PeriodOfEpoch ==
  ASSUME NEW s \in Nat, s % SlotsPerEpoch = 0,
         NEW a \in Nat, s <= a, a < s + SlotsPerEpoch
  PROVE  Period(a) = Period(s)
<1>1. /\ SlotsPerEpoch \in Nat \ {0} /\ SlotsPerPeriod \in Nat \ {0}
      /\ SlotsPerPeriod % SlotsPerEpoch = 0
  BY SlotsAssumption
<1>2. a \div SlotsPerPeriod = s \div SlotsPerPeriod
  BY <1>1, LargerBlockOf, Zenon
<1> QED
  BY <1>2 DEF Period

\* A fetch from the first slot of an epoch takes its header and its aggregate
\* from that epoch.
LEMMA FetchedInEpoch ==
  ASSUME IInv, Fetched("epoch"), start % SlotsPerEpoch = 0
  PROVE  /\ header \in Nat /\ aggregate \in Nat /\ start \in Nat
         /\ start <= header /\ header < aggregate
         /\ aggregate < start + SlotsPerEpoch
         /\ Period(header + 1) = Period(start)
         /\ Period(header) = Period(start)
         /\ Period(aggregate) = Period(start)
<1> USE NumberFacts, ConstantFacts
<1>1. HeaderChosen /\ AggregateChosen
  BY DEF IInv, DataInv, Fetched
<1>2. header \in Nat /\ aggregate \in Nat /\ start \in Nat
  BY DEF IInv
<1>3. /\ start <= header /\ header < aggregate
      /\ aggregate < start + SlotsPerEpoch
  BY <1>1, <1>2, FetchAssumption, SlotsAssumption DEF HeaderChosen, AggregateChosen
<1>4. \A a \in {header, header + 1, aggregate} :
        a \in Nat /\ start <= a /\ a < start + SlotsPerEpoch
  BY <1>2, <1>3, SlotsAssumption
<1>5. \A a \in {header, header + 1, aggregate} : Period(a) = Period(start)
  BY <1>2, <1>4, PeriodOfEpoch
<1> QED
  BY <1>2, <1>3, <1>5

\* The committee a fetch takes is the one the contract looks up for the slot of
\* the header, on any chain and however far the node has it (rpc.rs,
\* get_sync_committee_validator_pubs at slot + 1).
THEOREM CommitteeAgreed == Spec => []CommitteeIsContracts
<1>1. IInv => CommitteeIsContracts
  <2> SUFFICES ASSUME IInv, Fetched("epoch"), start % SlotsPerEpoch = 0
               PROVE  pubs = Period(header)
    BY DEF CommitteeIsContracts
  <2>1. pubs = Period(header + 1)
    BY DEF IInv, DataInv, Fetched
  <2> QED
    BY <2>1, FetchedInEpoch
<1> QED
  BY <1>1, Invariance, PTL

\* On a settled chain the circuit accepts what the client fetched for an epoch:
\* the aggregate signs the header, and the committee is the one that signed.
THEOREM Verifiable == Spec => []SettledInputsVerify
<1>1. IInv => SettledInputsVerify
  <2> SUFFICES ASSUME IInv, Fetched("epoch"), settled, start % SlotsPerEpoch = 0
               PROVE  CircuitAccepts
    BY DEF SettledInputsVerify
  <2>1. HeaderChosen /\ AggregateChosen /\ pubs = Period(header + 1)
    BY DEF IInv, DataInv, Fetched
  <2>2. pubs = Period(aggregate)
    BY <2>1, FetchedInEpoch
  <2>3. aggregate \in proposed /\ proposed \subseteq Nat
    BY <2>1, NumberFacts DEF IInv, AggregateChosen
  <2>4. \A u \in proposed : header < u => aggregate <= u
    BY <2>1, <2>3, FetchedInEpoch DEF AggregateChosen, Missed
  <2> QED
    BY <2>2, <2>3, <2>4, FetchedInEpoch DEF CircuitAccepts, IsSignatureSlot
<1> QED
  BY <1>1, Invariance, PTL

---------------------------------------------------------------------------
(* Forks. *)

Active(s) == {i \in DOMAIN ForkEpochs : ActivationSlot(i) <= s}

LEMMA ForkFacts ==
  /\ Len(ForkEpochs) \in Nat /\ DOMAIN ForkEpochs = 1..Len(ForkEpochs)
  /\ \A i \in DOMAIN ForkEpochs : ForkEpochs[i] \in Nat /\ ActivationSlot(i) \in Nat
  /\ \A i, j \in DOMAIN ForkEpochs : i < j => ActivationSlot(i) <= ActivationSlot(j)
<1>1. Len(ForkEpochs) \in Nat /\ DOMAIN ForkEpochs = 1..Len(ForkEpochs)
      /\ \A i \in DOMAIN ForkEpochs : ForkEpochs[i] \in Nat
  BY ForkAssumption
<1>2. \A i \in DOMAIN ForkEpochs : ActivationSlot(i) \in Nat
  BY <1>1, SlotsAssumption DEF ActivationSlot
<1>3. ASSUME NEW i \in DOMAIN ForkEpochs, NEW j \in DOMAIN ForkEpochs, i < j
      PROVE  ActivationSlot(i) <= ActivationSlot(j)
  <2>1. ForkEpochs[i] < ForkEpochs[j]
    BY <1>3, ForkAssumption
  <2> QED
    BY <1>1, <2>1, SlotsAssumption DEF ActivationSlot
<1> QED
  BY <1>1, <1>2, <1>3

\* The hint's fork passes the range checks of its branch.
LEMMA HintInRange ==
  ASSUME NEW s \in Nat
  PROVE  InRange(HintFork(s), s)
<1> DEFINE n == HintFork(s)
           L == Len(ForkEpochs)
<1> USE ForkFacts
<1>1. IsFiniteSet(1..L) /\ Active(s) \subseteq 1..L
  BY FS_Interval DEF Active
<1>2. IsFiniteSet(Active(s)) /\ Cardinality(Active(s)) = n /\ n \in Nat
  BY <1>1, FS_Subset, FS_CardinalityType DEF Active, HintFork
<1>3. \A i, j \in 1..L : i < j /\ j \in Active(s) => i \in Active(s)
  BY DEF Active
<1>4. \A k \in Nat : IsFiniteSet(1..k) /\ Cardinality(1..k) = k
  BY FS_Interval
<1> HIDE DEF n
<1>5. ASSUME n < L PROVE s <= ActivationSlot(n + 1)
  <2> SUFFICES ASSUME n + 1 \in Active(s) PROVE FALSE
    BY <1>2, <1>5 DEF Active
  <2>1. 1..(n + 1) \subseteq Active(s)
    BY <1>1, <1>2, <1>3
  <2>2. Cardinality(1..(n + 1)) <= Cardinality(Active(s))
    BY <1>2, <2>1, FS_Subset
  <2> QED
    BY <1>2, <1>4, <2>2
<1>6. ASSUME n < L, n > 0 PROVE s >= ActivationSlot(n)
  <2> SUFFICES ASSUME n \notin Active(s) PROVE FALSE
    BY <1>2, <1>6 DEF Active
  <2>1. Active(s) \subseteq 1..(n - 1)
    BY <1>1, <1>2, <1>3, <1>6
  <2>2. n - 1 \in Nat
    BY <1>2, <1>6
  <2>3. Cardinality(Active(s)) <= Cardinality(1..(n - 1))
    BY <1>4, <2>1, <2>2, FS_Subset
  <2> QED
    BY <1>2, <1>4, <2>2, <2>3
<1> QED
  BY <1>5, <1>6 DEF InRange, n

\* A fork is active at a slot when it is in the slot's epoch.
LEMMA ActiveByEpoch ==
  ASSUME NEW s \in Nat
  PROVE  HintFork(s) =
           Cardinality({i \in DOMAIN ForkEpochs : ForkEpochs[i] <= s \div SlotsPerEpoch})
<1> SUFFICES ASSUME NEW i \in DOMAIN ForkEpochs
             PROVE  (ActivationSlot(i) <= s) <=> (ForkEpochs[i] <= s \div SlotsPerEpoch)
  BY DEF HintFork
<1> DEFINE q == s \div SlotsPerEpoch
           r == s % SlotsPerEpoch
           f == ForkEpochs[i]
<1>1. SlotsPerEpoch \in Nat \ {0} /\ f \in Nat
  BY ForkFacts, SlotsAssumption
<1>2. q \in Nat /\ r \in 0..(SlotsPerEpoch - 1) /\ s = SlotsPerEpoch * q + r
  BY <1>1
<1> HIDE DEF q, r, f
<1>3. ASSUME f <= q PROVE SlotsPerEpoch * f <= s
  <2>1. SlotsPerEpoch * f <= SlotsPerEpoch * q
    BY <1>1, <1>2, <1>3
  <2> QED
    BY <1>1, <1>2, <2>1
<1>4. ASSUME f > q PROVE SlotsPerEpoch * f > s
  <2>1. SlotsPerEpoch * f >= SlotsPerEpoch * (q + 1)
    BY <1>1, <1>2, <1>4
  <2>2. SlotsPerEpoch * (q + 1) = SlotsPerEpoch * q + SlotsPerEpoch
    BY <1>1, <1>2
  <2> QED
    BY <1>1, <1>2, <2>1, <2>2
<1>5. ActivationSlot(i) = SlotsPerEpoch * f /\ SlotsPerEpoch * f \in Nat
  BY <1>1 DEF ActivationSlot, f
<1> QED
  BY <1>1, <1>2, <1>3, <1>4, <1>5 DEF f, q

\* The domain the circuit takes for a fetched epoch is the committee's
\* (Domain.get_domain of the header's slot): no fork falls between a header and
\* the slot before its aggregate.
THEOREM DomainAgreed == Spec => []DomainIsSigners
<1>1. IInv => DomainIsSigners
  <2> SUFFICES ASSUME IInv, Fetched("epoch"), start % SlotsPerEpoch = 0
               PROVE  GetDomain(header) = SigningDomain(aggregate)
    BY DEF DomainIsSigners
  <2>1. /\ start \in Nat /\ header \in Nat /\ aggregate - 1 \in Nat
        /\ start <= header /\ header < start + SlotsPerEpoch
        /\ start <= aggregate - 1 /\ aggregate - 1 < start + SlotsPerEpoch
    BY FetchedInEpoch, SlotsAssumption
  <2>2. header \div SlotsPerEpoch = (aggregate - 1) \div SlotsPerEpoch
    BY <2>1, BlockOf, SlotsAssumption
  <2>3. HintFork(header) = SigningDomain(aggregate)
    BY <2>1, <2>2, ActiveByEpoch DEF SigningDomain
  <2> QED
    BY <2>1, <2>3, HintInRange DEF GetDomain
<1> QED
  BY <1>1, Invariance, PTL
===============================================================================
