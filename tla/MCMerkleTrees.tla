----------------------------- MODULE MCMerkleTrees -----------------------------
(* A caller may pass every path of up to two of the terms, and some of three or *)
(* four with inner nodes: among them paths of trees of two, four and eight      *)
(* leaves, their beginnings and ends, and paths that go on above the root.     *)
EXTENDS MerkleTrees

Pair(i) == Hash(Leaf(i), Leaf(i + 1))
Quad(i) == Hash(Pair(i), Pair(i + 2))

MCTerms == {Zero, Leaf(1), Leaf(2), Leaf(4), Pair(1), Pair(3), Quad(5)}
MCInner == {Zero, Pair(3), Quad(5)}

MCOtherPaths ==
  SeqOf(MCTerms, 2) \cup [1..3 -> MCInner] \cup {<<Leaf(2)>> \o p : p \in [1..2 -> MCInner]}

MCPositions == 0..10 \cup {16, 17, 31}
===============================================================================
