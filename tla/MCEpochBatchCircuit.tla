------------------------- MODULE MCEpochBatchCircuit -------------------------
(* Epochs of two slots over the boundary of two periods of eight slots.  Slot *)
(* 7 is the last block of its period, signed by the next committee.  Of the   *)
(* epochs two fail in the epoch program; one has another slot in its output   *)
(* than in its header, one is of slot 0 and one of another network.           *)
EXTENDS EpochBatchCircuit

CONSTANTS Main, Other

MCProposed == [n \in {Main, Other} |-> {0, 2, 4, 7, 8, 10, 11}]

OutAt(n, b, s, p) == [block |-> [net |-> n, slot |-> b], slot |-> s,
                      committee_hash |-> Committee(n, p)]
Out(n, s, p) == OutAt(n, s, s, p)

MCFailing == {Out(Main, 4, 1), Out(Main, 10, 0)}

MCVerifying ==
  {Out(Main, 0, 0), Out(Main, 2, 0), Out(Main, 4, 0), OutAt(Main, 2, 5, 0),
   Out(Main, 7, 1), Out(Main, 8, 1), Out(Main, 10, 1), Out(Other, 8, 1)}

MCEpochInputs == MCVerifying \cup MCFailing

\* With and without padding, and sizes no tree of the client has.
MCSizes == 0..6 \cup {8}
===============================================================================
