----------------------------- MODULE MCForkDomain -----------------------------
(* A fetch that starts at a fork, at slot 6, one that may reach it, and one  *)
(* in the epoch before; the second fork is past the last slot.               *)
EXTENDS ForkDomain

MCForkEpochs == <<1, 2>>
===============================================================================
