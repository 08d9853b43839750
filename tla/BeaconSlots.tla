----------------------------- MODULE BeaconSlots ------------------------------
(***************************************************************************)
(* Slot arithmetic shared by the contract, the circuits and the client.    *)
(***************************************************************************)
EXTENDS Integers

CONSTANTS
  SlotsPerEpoch,    \* 32 in the code
  SlotsPerPeriod,   \* 0x2000 in the code: slots a sync committee serves
  MaxSlot           \* horizon of the model

ASSUME SlotsAssumption ==
  /\ SlotsPerEpoch \in Nat \ {0}
  /\ SlotsPerPeriod \in Nat \ {0}
  /\ SlotsPerPeriod % SlotsPerEpoch = 0
  /\ MaxSlot \in Nat

Slots == 0..MaxSlot

\* The committee id of a slot.
Period(s) == s \div SlotsPerPeriod
Periods   == 0..(Period(MaxSlot) + 1)

\* t is the first of the proposed slots after s: the slot whose block carries
\* the signatures over the block of slot s.
IsSignatureSlot(proposed, s, t) ==
  /\ t \in proposed
  /\ s < t
  /\ \A u \in proposed : s < u => t <= u
===============================================================================
