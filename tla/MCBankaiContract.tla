--------------------------- MODULE MCBankaiContract ---------------------------
(* A chain of three periods with missed slots at both of its boundaries, and *)
(* a second network with blocks at the same slots.                           *)
EXTENDS BankaiContract

CONSTANTS Main, Other

MCNetworks == {Main, Other}

\* Period 0 is slots 0..3, period 1 slots 4..7, period 2 slots 8..9.  Slots
\* 3 and 6 are the last blocks of their periods, signed by the next committee.
MCProposed == [n \in MCNetworks |->
  IF n = Main THEN {1, 3, 4, 5, 6, 8, 9} ELSE {3, 4, 5}]

M(s) == [net |-> Main, slot |-> s]
X(s) == [net |-> Other, slot |-> s]
Out(b, p) == [block |-> b, slot |-> b.slot, committee_hash |-> Committee(b.net, p)]

\* M(6) was not signed by the committee of its own period.
MCEpochOutputs ==
  {Out(M(1), 0), Out(M(4), 1), Out(M(6), 1), Out(M(6), 2), Out(M(8), 2),
   Out(X(4), 1)}

Next_(b, s) == [beacon_state_root |-> b, committee_hash |-> NextCommittee(b),
                slot |-> s]

\* The last one claims a slot that is not the block's own.
MCCommitteeOutputs == {o \in
  {Next_(M(1), 1), Next_(M(3), 3), Next_(M(4), 4), Next_(X(4), 4),
   Next_(M(8), 8), Next_(M(4), 8)} : CommitteeProvable(o)}

Batch(S, l) == [leaves |-> S, last |-> l]

\* The first two are batches the circuit accepts, the others break one of its
\* checks each: order, one committee.
MCBatchOutputs == {o \in
  {Batch({Out(M(3), 1), Out(M(4), 1)}, Out(M(4), 1)),
   Batch({Out(M(6), 2), Out(M(8), 2)}, Out(M(8), 2)),
   Batch({Out(M(4), 1), Out(M(5), 1)}, Out(M(4), 1)),
   Batch({Out(X(4), 1), Out(M(1), 0), Out(M(8), 2)}, Out(M(8), 2))} : BatchProvable(o)}
===============================================================================
