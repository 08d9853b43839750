----------------------------- MODULE BeaconChain -----------------------------
(***************************************************************************)
(* The beacon chains the light client follows, as constants: which slots   *)
(* of which network hold a block, which sync committee signs a block, and  *)
(* which committee a block's state names as the next one.  The chains are  *)
(* the environment of the repository's code: nothing here changes, and a   *)
(* block, its header root and its state root are one value.                *)
(*                                                                         *)
(* Home is the network the contract is deployed for.  Any other network    *)
(* stands for headers that are well signed, but by committees of a chain   *)
(* the contract does not follow: the circuits check a signature against    *)
(* whatever committee key they are given.                                  *)
(***************************************************************************)
EXTENDS BeaconSlots

CONSTANTS
  Networks,
  Home,
  Proposed          \* Proposed[n]: the slots of n that hold a block

\* A period without a single block, which would end Ethereum's sync protocol
\* for every light client, does not occur: the signatures of a block come in
\* its own period or in the next one.
ASSUME ChainAssumption ==
  /\ Home \in Networks
  /\ Proposed \in [Networks -> SUBSET Slots]
  /\ \A n \in Networks : \A s, t \in Proposed[n] :
       IsSignatureSlot(Proposed[n], s, t) => Period(t) <= Period(s) + 1

Block  == [net : Networks, slot : Slots]
Blocks == {b \in Block : b.slot \in Proposed[b.net]}

\* The hash of the aggregate key of the committee of period p.  Hashes are
\* injective: two committees are one only if network and period agree.
Committee(n, p) == [net |-> n, period |-> p]
Committees      == [net : Networks, period : Periods]

\* c signed block b: c serves in the period of b's signature slot, which for
\* the last block of a period is the NEXT period.
Signs(c, b) ==
  \E t \in Slots : /\ IsSignatureSlot(Proposed[b.net], b.slot, t)
                   /\ c = Committee(b.net, Period(t))

\* next_sync_committee in the state of block b (index 55 of the state tree).
NextCommittee(b) == Committee(b.net, Period(b.slot) + 1)
===============================================================================
