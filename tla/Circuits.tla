------------------------------- MODULE Circuits -------------------------------
(***************************************************************************)
(* What the three Cairo programs (cairo/src) can output, and what their    *)
(* outputs say when the input is a file the Rust client wrote.             *)
(*                                                                         *)
(* The programs take part of their input by hints and constrain only some  *)
(* of it.  The epoch program has the slot in two cells, one it outputs and *)
(* one it hashes into the header, and takes the keys of the non-signers as *)
(* points on the curve, without a check that they are seats of the         *)
(* committee.  So slot, header and committee of an epoch output are        *)
(* independent here.  In a client's input file the cells are filled from   *)
(* one field and the non-signers are seats, and FromClient says what an    *)
(* output then means.                                                      *)
(***************************************************************************)
EXTENDS BeaconChain

\* epoch_update.cairo: a header, the cell output as its slot and the hash of
\* the committee the signer key was computed from.
EpochOutput == [block : Blocks, slot : Slots, committee_hash : Committees]

\* The output for an input file of the client: one slot, and a signature that
\* verifies under the seats that signed, so the committee signed the header.
FromClient(o) ==
  /\ o.slot = o.block.slot
  /\ Signs(o.committee_hash, o.block)

\* committee_update.cairo: committee_hash is the next committee of the state
\* with this root.  The slot is an input copied to the output.
CommitteeOutput == [beacon_state_root : Blocks, committee_hash : Committees,
                    slot : Slots]
CommitteeProvable(o) == o.committee_hash = NextCommittee(o.beacon_state_root)

\* Wrong forms: without the batch circuit's assert_lt, and its committee asserts.
BatchUnordered(o) == TRUE
ManyCommittees(o) == TRUE

\* epoch_batch.cairo: the leaves are outputs of the epoch circuit in strictly
\* increasing order of the output slots, which start above 0, all under one
\* committee hash; the output repeats the last leaf.
BatchInOrder(o) ==
  /\ \A l \in o.leaves : l = o.last \/ l.slot < o.last.slot
  /\ \A l, m \in o.leaves : l.slot = m.slot => l = m

OneCommittee(o) == \A l \in o.leaves : l.committee_hash = o.last.committee_hash

BatchProvable(o) ==
  /\ o.last \in o.leaves
  /\ \A l \in o.leaves : 0 < l.slot
  /\ BatchInOrder(o)
  /\ OneCommittee(o)
===============================================================================
