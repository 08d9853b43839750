----------------------------- MODULE LightClient ------------------------------
(***************************************************************************)
(* What the Bankai contract promises, without proofs, batches or storage   *)
(* layout: starting from one trusted committee it accepts a header only on *)
(* the signature of a committee it already trusts, and it trusts a further *)
(* committee only because an accepted header's state names it.  Accepted   *)
(* headers and trusted committees are never given up and never replaced.   *)
(***************************************************************************)
EXTENDS BeaconChain

VARIABLES
  accepted,   \* set of <<slot, block>>
  trusted     \* set of <<period, committee hash>>

lightVars == <<accepted, trusted>>

Init ==
  /\ accepted = {}
  /\ \E p \in Periods : trusted = {<<p, Committee(Home, p)>>}

AcceptHeader(b) ==
  /\ \E k \in trusted : Signs(k[2], b)
  /\ accepted' = accepted \cup {<<b.slot, b>>}
  /\ UNCHANGED trusted

AcceptCommittee(b) ==
  /\ <<b.slot, b>> \in accepted
  /\ trusted' = trusted \cup {<<Period(b.slot) + 1, NextCommittee(b)>>}
  /\ UNCHANGED accepted

Next == \E b \in Blocks : AcceptHeader(b) \/ AcceptCommittee(b)

Spec == Init /\ [][Next]_lightVars
===============================================================================
