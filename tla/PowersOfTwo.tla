----------------------------- MODULE PowersOfTwo ------------------------------
(***************************************************************************)
(* The sizes of the repository's Merkle trees.                             *)
(***************************************************************************)
EXTENDS Integers

\* The naturals no odd number divides but 1: what `n & (n - 1) == 0` tests.
IsPowerOfTwo(n) == \A d \in 1..n : n % d = 0 => d = 1 \/ d % 2 = 0
===============================================================================
