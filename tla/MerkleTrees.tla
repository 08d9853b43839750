------------------------------ MODULE MerkleTrees ------------------------------
(***************************************************************************)
(* The Merkle trees of the repository, built three ways over one list of   *)
(* leaves:                                                                 *)
(*  - level by level, by the client (client-rs/src/utils/merkle.rs);       *)
(*  - as a heap in write-once memory with a read and a write pointer, by   *)
(*    the batch circuit (cairo/src/merkle.cairo);                          *)
(*  - as a heap with one pointer and a computed destination, by the SSZ    *)
(*    code of the epoch circuit (cairo/src/ssz.cairo).                     *)
(* and the path walk that checks a leaf against a root (contract/src/      *)
(* utils.cairo hash_path, the same loop as the client's).                  *)
(*                                                                         *)
(* A hash is the term it was computed from: Poseidon and SHA256 are taken  *)
(* to be injective, and a leaf's hash never to equal an inner node's.      *)
(***************************************************************************)
EXTENDS PowersOfTwo, SequencesExt

CONSTANTS
  MaxLeaves,
  OtherPaths, \* what a caller may pass as the path, besides the client's,
  Positions   \* and as the position: any u16

ASSUME LeavesAssumption    == MaxLeaves \in Nat \ {0}
ASSUME PositionsAssumption == Positions \subseteq Nat
ASSUME PathsAssumption     == \A p \in OtherPaths : Len(p) \in Nat

Leaf(i)    == <<"leaf", i>>
Zero       == <<"zero">>
Hash(l, r) == <<"node", l, r>>
Unwritten  == <<"unwritten">>

VARIABLES
  leaves,
  levels, paths,             \* client
  tree, tree_ptr, out_ptr, steps,     \* batch circuit
  ssz_tree, ssz_ptr, index,  \* epoch circuit
  pc,                        \* contract: "waiting", "walking"
  leaf, path, position,      \* arguments of hash_path
  current, walked            \* current_hash and current_index; siblings used

client   == <<levels, paths>>
batch    == <<tree, tree_ptr, out_ptr, steps>>
ssz      == <<ssz_tree, ssz_ptr, index>>
contract == <<pc, leaf, path, position, current, walked>>
vars     == <<leaves, client, batch, ssz, contract>>

---------------------------------------------------------------------------
(* The client. *)

\* The next power of two.
TreeSize(n) == Min({p \in n..(2 * n - 1) : IsPowerOfTwo(p)})

Padded(s, size) == [i \in 1..size |-> IF i <= Len(s) THEN s[i] ELSE Zero]

NextLevel(l) == [i \in 1..(Len(l) \div 2) |-> Hash(l[2 * i - 1], l[2 * i])]

BuildLevel ==
  /\ Len(Last(levels)) > 1
  /\ levels' = Append(levels, NextLevel(Last(levels)))
  /\ UNCHANGED <<leaves, paths, batch, ssz, contract>>

Root == Last(levels)[1]

\* Wrong: always the right neighbour.
RightSibling(i) == i + 1

\* Positions from 0.
SiblingIdx(i) == IF i % 2 = 0 THEN i + 1 ELSE i - 1

\* How many leaves a node of a level stands for; current_idx is halved from one
\* level to the next.
Span(k)          == Len(levels[1]) \div Len(levels[k])
CurrentIdx(i, k) == i \div Span(k)

\* Level by level from the leaf up, without the root.
PathOf(i) ==
  [k \in 1..(Len(levels) - 1) |->
     LET sibling == SiblingIdx(CurrentIdx(i, k)) IN
     IF sibling < Len(levels[k]) THEN levels[k][sibling + 1] ELSE Unwritten]

BuildPaths ==
  /\ Len(Last(levels)) = 1 /\ paths = <<>>
  /\ paths' = [i \in 1..Len(leaves) |-> PathOf(i - 1)]
  /\ UNCHANGED <<leaves, levels, batch, ssz, contract>>

---------------------------------------------------------------------------
(* The batch circuit, over the padded leaves. *)

\* Wrong: the leaves are not padded.
NoPadding(n) == n

PaddedLen(n) == TreeSize(n)

\* Memory cells 0..2n-2, the leaves in the last n of them.
Heap(s) ==
  [c \in 0..(2 * Len(s) - 2) |->
     IF c >= Len(s) - 1 THEN s[c - Len(s) + 2] ELSE Unwritten]

\* Wrong: one cell further.
FirstLeafCell(n) == n

\* `tree + internal_nodes`.
FirstOutPtr(n) == n - 1

\* Memory is write-once: the assert fails if the cell holds something else.
ComputeNode ==
  /\ steps > 0
  /\ LET node == Hash(tree[tree_ptr - 2], tree[tree_ptr - 1])
         out  == out_ptr - 1
     IN  /\ tree[out] \in {Unwritten, node}
         /\ tree' = [tree EXCEPT ![out] = node]
  /\ tree_ptr' = tree_ptr - 2
  /\ out_ptr' = out_ptr - 1
  /\ steps' = steps - 1
  /\ UNCHANGED <<leaves, client, ssz, contract>>

---------------------------------------------------------------------------
(* MerkleTree.compute_root of the SSZ code.  tree_range is len - 2. *)

\* Wrong: relative to the pointer before it moved.
StaleDestination(ptr, range, i) == ptr + 2 - (1 + range - i)

Destination(ptr, range, i) == ptr - (1 + range - i)

SszLen == TreeSize(Len(leaves))

ComputeSszNode ==
  /\ index < SszLen - 1
  /\ LET ptr  == ssz_ptr - 2
         node == Hash(ssz_tree[ptr], ssz_tree[ptr + 1])
         cell == Destination(ptr, SszLen - 2, index)
     IN  /\ ssz_tree[cell] \in {Unwritten, node}
         /\ ssz_tree' = [ssz_tree EXCEPT ![cell] = node]
         /\ ssz_ptr' = ptr
  /\ index' = index + 1
  /\ UNCHANGED <<leaves, client, batch, contract>>

---------------------------------------------------------------------------
(* The contract's hash_path, once the root was proven and the paths are kept. *)

\* Wrong: the position does not matter.
AlwaysLeft(i) == TRUE

IsLeft(i) == i - 2 * (i \div 2) = 0

\* A call as decommit_batched_epoch makes it: with any path and position the
\* caller passes, for a leaf the contract hashes itself from eleven words.
\* Leaf(0) is an epoch that is not in the batch.
CallHashPath ==
  /\ pc = "waiting" /\ paths # <<>> /\ steps = 0 /\ index = SszLen - 1
  /\ pc' = "walking"
  /\ leaf' \in {Leaf(i) : i \in 0..MaxLeaves}
  /\ path' \in OtherPaths \cup ToSet(paths)
  /\ position' \in Positions
  /\ current' = [hash |-> leaf', index |-> position']
  /\ walked' = 0
  /\ UNCHANGED <<leaves, client, batch, ssz>>

\* One round of its loop.
HashPath ==
  /\ pc = "walking" /\ walked < Len(path)
  /\ LET sibling == path[walked + 1] IN
     current' = [hash  |-> IF IsLeft(current.index) THEN Hash(current.hash, sibling)
                        ELSE Hash(sibling, current.hash),
              index |-> current.index \div 2]
  /\ walked' = walked + 1
  /\ UNCHANGED <<leaves, client, batch, ssz, pc, leaf, path, position>>

---------------------------------------------------------------------------
Init ==
  /\ leaves \in {[i \in 1..n |-> Leaf(i)] : n \in 1..MaxLeaves}
  /\ levels = <<Padded(leaves, TreeSize(Len(leaves)))>>
  /\ paths = <<>>
  /\ LET n == PaddedLen(Len(leaves)) IN
     /\ tree = Heap(Padded(leaves, n))
     /\ tree_ptr = 2 * n - 1
     /\ out_ptr = FirstOutPtr(n)
     /\ steps = n - 1
  /\ ssz_tree = Heap(Padded(leaves, SszLen))
  /\ ssz_ptr = 2 * SszLen - 1
  /\ index = 0
  /\ pc = "waiting" /\ leaf = Zero /\ path = <<>> /\ position = 0
  /\ current = [hash |-> Zero, index |-> 0] /\ walked = 0

Next == \/ BuildLevel \/ BuildPaths \/ ComputeNode \/ ComputeSszNode
        \/ CallHashPath \/ HashPath

Spec == Init /\ [][Next]_vars

---------------------------------------------------------------------------
(* Properties. *)

TypeOK ==
  /\ leaves \in Seq({Leaf(i) : i \in 1..MaxLeaves})
  /\ Len(Last(levels)) \in 1..TreeSize(MaxLeaves)
  /\ Len(paths) \in {0, Len(leaves)}
  /\ out_ptr \in DOMAIN tree /\ tree_ptr - 1 \in DOMAIN tree
  /\ steps \in 0..(Len(leaves) * 2)
  /\ ssz_ptr - 1 \in DOMAIN ssz_tree
  /\ index \in 0..(SszLen - 1)
  /\ pc \in {"waiting", "walking"}
  /\ walked \in 0..Len(path) /\ current.index \in 0..position

\* The pointer arithmetic of both circuits: the children of the next node are
\* there when it is computed, and it goes to a cell nothing was written to.
\* Neither run can die of a memory conflict.
MemoryIsWrittenOnce ==
  /\ steps > 0 =>
       /\ tree[tree_ptr - 2] # Unwritten /\ tree[tree_ptr - 1] # Unwritten
       /\ tree[out_ptr - 1] = Unwritten
  /\ index < SszLen - 1 =>
       /\ ssz_tree[ssz_ptr - 2] # Unwritten /\ ssz_tree[ssz_ptr - 1] # Unwritten
       /\ LET cell == Destination(ssz_ptr - 2, SszLen - 2, index)
          IN  cell \in DOMAIN ssz_tree /\ ssz_tree[cell] = Unwritten

\* The client's expected output is the circuit's: one root for any number of
\* leaves, however it is computed.
RootsAgree ==
  /\ steps = 0 /\ Len(Last(levels)) = 1 => tree[0] = Root
  /\ index = SszLen - 1 /\ Len(Last(levels)) = 1 => ssz_tree[0] = Root

\* hash_path has returned current.hash.
Walked == pc = "walking" /\ walked = Len(path)

\* Every epoch of a batch can be decommitted with the path the client kept for
\* it (EpochUpdateBatch::new panics otherwise).
PathsReachRoot ==
  \A i \in 1..Len(leaves) :
    Walked /\ leaf = leaves[i] /\ path = paths[i] /\ position = i - 1 =>
      current.hash = Root

\* No other epoch can be, with whatever path: a walk that ends at the root is as
\* long as the tree is high and began at the leaf of its position.  Of an index
\* beyond the tree only the bits within it count.
OnlyLeavesHavePaths ==
  Walked /\ current.hash = Root =>
    /\ Len(path) = Len(levels) - 1
    /\ leaf = Padded(leaves, SszLen)[(position % SszLen) + 1]
===============================================================================
