---------------------------- MODULE MCBankaiSystem ----------------------------
(* A contract deployed in period 1, slots 16..31 of epochs of 4 slots.  The  *)
(* first slot of the second epoch is missed, and so is the last slot of the  *)
(* period: its last block, 30, is signed by the committee of period 2.       *)
EXTENDS BankaiSystem

CONSTANT Main

MCProposed == [n \in {Main} |-> (0..37) \ {20, 31}]

M(s) == [net |-> Main, slot |-> s]
Out(s) == [block |-> M(s), slot |-> s,
           committee_hash |-> Committee(Main, Period(s + 1))]

\* The header of each epoch from the deployment on, and one that is not.
MCEpochOutputs == {Out(s) : s \in {16, 17, 21, 24, 28, 32}}

\* And what prove-next-epoch derives from the latest_epoch 0 of a new contract,
\* which cannot verify it.
MCFreshEpochOutputs == MCEpochOutputs \cup {Out(4)}

MCCommitteeOutputs ==
  {[beacon_state_root |-> M(s), committee_hash |-> NextCommittee(M(s)),
    slot |-> s] : s \in {0, 16, 21, 24, 28, 32}}

Batch(S, l) == [leaves |-> {Out(s) : s \in S}, last |-> Out(l)]

MCBatchOutputs == {Batch({21, 24}, 24), Batch({21}, 21), Batch({24}, 24)}

MCFreshBatchOutputs == MCBatchOutputs \cup {Batch({4, 8}, 8)}
===============================================================================
