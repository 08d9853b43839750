------------------------------- MODULE Encodings -------------------------------
(***************************************************************************)
(* The formats a value passes through between the beacon node and the      *)
(* contract: bytes and SSZ trees in the client, hexadecimal strings in the *)
(* input file, 128 bit halves, 96 bit limbs and 32 bit chunks in the       *)
(* circuits, field elements in calldata and facts.                         *)
(*                                                                         *)
(* A digit stands for the four bytes of a 32 bit chunk, most significant   *)
(* first: a 32 byte hash has 8 digits, a 48 byte coordinate 12, a u64 two. *)
(* The order of the four bytes inside a chunk is not told apart.  A        *)
(* hexadecimal string and the bytes it is of are one sequence of digits.   *)
(***************************************************************************)
EXTENDS Integers, SequencesExt

CONSTANTS
  Chunk,         \* the values of a digit, 2^32 in the code
  Sha(_),        \* digits -> 8 digits
  Poseidon(_),   \* felts -> felt
  CurveY(_, _)   \* the y of a point of the curve from its x and the sign of y

ASSUME ChunkAssumption == Chunk \in Nat \ {0} /\ Chunk % 8 = 0

\* pow2_array at 64 and at 96.
Pow64 == Chunk * Chunk
Pow96 == Chunk * Chunk * Chunk

Digest     == [1..8 -> 0..(Chunk - 1)]
Coordinate == [1..12 -> 0..(Chunk - 1)]
Zeros(n) == [i \in 1..n |-> 0]

\* Big-endian value of a sequence of digits, and the digits of a value.
Number(s) ==
  LET value[i \in 0..Len(s)] == IF i = 0 THEN 0 ELSE Chunk * value[i - 1] + s[i]
  IN  value[Len(s)]

Digits(v, n) ==
  LET quotient[i \in 0..n] == IF i = 0 THEN v ELSE quotient[i - 1] \div Chunk
  IN  [i \in 1..n |-> quotient[n - i] % Chunk]

---------------------------------------------------------------------------
(* SSZ: trees over digests, padded with zeros to a power of two. *)

LittleEndian(v) == Reverse(Digits(v, 2)) \o Zeros(6)

\* Node i (from 0) of the k-th level above the leaves, which zeros follow.
Node(leaves, k, i) ==
  LET level[l \in 0..5] ==
        [j \in Nat |->
           IF l > 0 THEN Sha(level[l - 1][2 * j] \o level[l - 1][2 * j + 1])
           ELSE IF j < Len(leaves) THEN leaves[j + 1] ELSE Zeros(8)]
  IN  level[k][i]

\* The levels above the leaves, for at most 32 of them.
Depth(leaves) ==
  LET size == <<1, 2, 4, 8, 16, 32>>
      k == CHOOSE n \in 1..6 : size[n] >= Len(leaves) /\ size[n] < 2 * Len(leaves)
  IN  k - 1

Merkleize(leaves) == Node(leaves, Depth(leaves), 0)

\* The siblings from the leaf at position pos (from 0) up to the root.
GeneratePath(leaves, pos) ==
  LET at[k \in 0..5] == IF k = 0 THEN pos ELSE at[k - 1] \div 2
      sibling(i) == IF i % 2 = 0 THEN i + 1 ELSE i - 1
  IN  [k \in 1..Depth(leaves) |-> Node(leaves, k - 1, sibling(at[k - 1]))]

\* The derived tree_hash_root of BeaconHeader.
TreeHashRoot(h) ==
  Merkleize(<<LittleEndian(h.slot), LittleEndian(h.proposer_index),
              h.parent_root, h.state_root, h.body_root>>)

\* The 17 fields of an execution payload header; rest stands for the fields
\* nothing is taken from.
PayloadFields(p) ==
  [i \in 1..17 |-> IF i = 7 THEN LittleEndian(p.block_number)
                   ELSE IF i = 13 THEN p.block_hash ELSE p.rest]

\* sha256::hash_path of the client, whose rounds are those of the circuit.
HashPath(path, leaf, index) ==
  LET Up(n, sibling) ==
        [value |-> IF n.g_index % 2 = 0 THEN Sha(n.value \o sibling)
                   ELSE Sha(sibling \o n.value),
         g_index |-> n.g_index \div 2]
      node[k \in 0..Len(path)] ==
        IF k = 0 THEN [value |-> leaf, g_index |-> index] ELSE Up(node[k - 1], path[k])
  IN  node[Len(path)].value

---------------------------------------------------------------------------
(* Points.  A key of G1 is [x, sign]; a signature is its four coordinates. *)

Part(bytes, k) == SubSeq(bytes, 12 * k - 11, 12 * k)

\* bls12_381: the three flags of a compressed point are the top bits of x.
Uncompressed(k) == k.x \o CurveY(k.x, k.sign)
Compressed(k) ==
  [k.x EXCEPT ![1] = @ + Chunk \div 2 + k.sign * (Chunk \div 8)]
FromCompressed(c) ==
  [x |-> [c EXCEPT ![1] = @ % (Chunk \div 8)],
   sign |-> (c[1] \div (Chunk \div 8)) % 2]
UncompressedG2(p) == p.x1 \o p.x0 \o p.y1 \o p.y0

GetCommitteeHash(k) == Sha(Uncompressed(k))

SerializeG1(bytes) == [x |-> Part(bytes, 1), y |-> Part(bytes, 2)]
DeserializeG1(json) == json.x \o json.y

SerializeG2(bytes) == [x0 |-> Part(bytes, 2), x1 |-> Part(bytes, 1),
                       y0 |-> Part(bytes, 4), y1 |-> Part(bytes, 3)]

\* Wrong: in the order of the names.
InOrderG2(json) == json.x0 \o json.x1 \o json.y0 \o json.y1

DeserializeG2(json) == json.x1 \o json.x0 \o json.y1 \o json.y0

---------------------------------------------------------------------------
(* Halves, limbs and chunks of the circuits. *)

\* split_uint256 and int_to_uint256 of a hexadecimal string; a field element
\* is a number.
Uint256(hex) == [low |-> Number(SubSeq(hex, 5, 8)), high |-> Number(SubSeq(hex, 1, 4))]

\* MerkleUtils.chunk_uint256, by repeated felt_divmod, and chunks_to_uint256.
ChunkUint256(u) == Digits(u.high, 4) \o Digits(u.low, 4)
ChunksToUint256(c) ==
  [low  |-> c[5] * Pow96 + c[6] * Pow64 + c[7] * Chunk + c[8],
   high |-> c[1] * Pow96 + c[2] * Pow64 + c[3] * Chunk + c[4]]

Uint256ReverseEndian(u) ==
  ChunksToUint256(Reverse(ChunkUint256(u)))

\* write_uint384: the lowest 96 bits first.
Uint384(hex) == [i \in 0..3 |-> Number(SubSeq(hex, 10 - 3 * i, 12 - 3 * i))]
ChunkUint384(u) ==
  Digits(u[3], 3) \o Digits(u[2], 3) \o Digits(u[1], 3) \o Digits(u[0], 3)

\* MerkleTree.compute_root over Uint256 leaves.
ComputeRoot(leafs) ==
  ChunksToUint256(Merkleize([i \in 1..Len(leafs) |-> ChunkUint256(leafs[i])]))

\* MerkleTree.hash_merkle_path: a right child is copied behind its sibling.
HashMerklePath(path, leaf, index) == ChunksToUint256(HashPath(path, leaf, index))

\* The leafs of an execution payload header in the circuit, padded to 32.
PayloadLeafs(p) ==
  [i \in 1..32 |-> IF i <= 17 THEN Uint256(PayloadFields(p)[i])
                   ELSE [low |-> 0, high |-> 0]]

\* Wrong: the number is not turned into its little-endian leaf.
BigEndianSlot(u) == u

SlotLeaf(u) == Uint256ReverseEndian(u)

HashHeaderRoot(slot, proposer_index, parent_root, state_root, body_root) ==
  ComputeRoot(<<SlotLeaf(slot), Uint256ReverseEndian(proposer_index),
                parent_root, state_root, body_root>>
              \o [i \in 1..3 |-> [low |-> 0, high |-> 0]])

CommitCommitteeKey(x, y) ==
  ChunksToUint256(Sha(ChunkUint384(x) \o ChunkUint384(y)))

\* decompress_g1: the bits 383, 382 and 381 are bits 95, 94 and 93 of d3.
DecompressG1(u) ==
  [compression_bit |-> u[3] \div (Pow96 \div 2),
   infinity_bit    |-> (u[3] % (Pow96 \div 2)) \div (Pow96 \div 4),
   sign_bit        |-> (u[3] % (Pow96 \div 4)) \div (Pow96 \div 8),
   x               |-> [u EXCEPT ![3] = @ % (Pow96 \div 8)]]

---------------------------------------------------------------------------
(* Calldata and contract arguments. *)

\* Wrong: as one felt.
Unsplit(hash) == <<Number(hash), 0>>

\* A hash as two field elements: split_at(16), low first.
Words(hash) == <<Number(SubSeq(hash, 5, 8)), Number(SubSeq(hash, 1, 4))>>

\* The contract reads a u256 argument low first, and hashes it so.
U256(low, high) == [low |-> low, high |-> high]
Felts(u)        == <<u.low, u.high>>
===============================================================================
