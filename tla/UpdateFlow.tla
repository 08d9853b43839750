------------------------------ MODULE UpdateFlow ------------------------------
(***************************************************************************)
(* One value on its way: what the beacon node serves for a few headers, as *)
(* the client writes it to an input file, a circuit reads and recomputes   *)
(* it, a proof states it, the client submits it and the contract decodes   *)
(* and stores it.  Every word of every update is followed, for a contract  *)
(* that is deployed, learns epochs directly and in a batch, learns its     *)
(* next committee from a state root it stored, and then has an epoch of    *)
(* that committee.                                                         *)
(*                                                                         *)
(* One update is under way at a time and is sent when the contract holds   *)
(* what it rests on; BankaiSystem is about the order of several.           *)
(***************************************************************************)
EXTENDS Encodings

CONSTANTS
  Seats,          \* 512
  SlotsPerPeriod, \* 0x2000
  HeaderSlots,    \* <<two slots of period 0, one of period 1>>
  Keys,           \* keys of committees, [x, sign]
  Signature(_),   \* signature of a message: [x0, x1, y0, y1]
  Served          \* [payload, parent_root, absent]: the execution payload header
                  \* [block_number, block_hash, rest], rest for its other
                  \* fields, a parent root, a number of non-signers

\* Slots are u64 numbers; the program asserts that the first is not 0.
ASSUME SlotsAssumption ==
  /\ SlotsPerPeriod \in Nat \ {0}
  /\ HeaderSlots \in [1..3 -> 1..(Pow64 - 1)]
  /\ HeaderSlots[1] < HeaderSlots[2]
  /\ HeaderSlots[1] \div SlotsPerPeriod = 0
  /\ HeaderSlots[2] \div SlotsPerPeriod = 0
  /\ HeaderSlots[3] \div SlotsPerPeriod = 1

\* The modulus of the curve leaves the top three bits of a coordinate free.
ASSUME KeysAssumption ==
  \A k \in Keys : k \in [x : Coordinate, sign : 0..1] /\ k.x[1] < Chunk \div 8

ASSUME ServedAssumption ==
  /\ Seats \in Nat
  /\ \A s \in Served :
       s \in [payload : [block_number : 0..(Pow64 - 1), block_hash : Digest,
                        rest : Digest],
              parent_root : Digest, absent : 0..Seats]

VARIABLES
  world,    \* what the beacon node serves: [keys, headers, payload, absent]
  storage,  \* of the contract: committees, epochs, batches, program hashes;
            \* latest_epoch and latest_committee_id are BankaiContract's
  update,   \* [kind, at]: at is the index of a header, 0 for the batch
  pc,
  file,     \* the input file
  output,   \* of the circuit
  facts     \* verified statements: [program, output]

vars == <<world, storage, update, pc, file, output, facts>>

---------------------------------------------------------------------------
(* The beacon node. *)

\* The 12 fields of a body, the execution payload at position 9.
BodyLeaves(p) ==
  [i \in 1..12 |-> IF i = 10 THEN Merkleize(PayloadFields(p)) ELSE Sha(<<i>>)]

KeysRoot(k) == Sha(<<k.sign>> \o k.x)

\* The 28 fields of a state, next_sync_committee at position 23.
StateLeaves(next) ==
  [i \in 1..28 |->
     IF i = 24 THEN Sha(KeysRoot(next) \o Sha(Compressed(next) \o Zeros(4)))
     ELSE Sha(<<i, i>>)]

\* The committee of the slot of a header, and the one after it.
Signer(keys, i) == keys[1 + HeaderSlots[i] \div SlotsPerPeriod]
NextKey(keys, i) == keys[2 + HeaderSlots[i] \div SlotsPerPeriod]

World(keys, served) ==
  [keys |-> keys, payload |-> served.payload, absent |-> served.absent,
   headers |-> [i \in 1..3 |->
     [slot |-> HeaderSlots[i], proposer_index |-> i,
      parent_root |-> served.parent_root,
      state_root |-> Merkleize(StateLeaves(NextKey(keys, i))),
      body_root |-> Merkleize(BodyLeaves(served.payload))]]]

---------------------------------------------------------------------------
(* The client: inputs, expected outputs, files. *)

EpochOutputs(header, key, absent, payload) ==
  [beacon_header_root |-> TreeHashRoot(header),
   beacon_state_root |-> header.state_root,
   slot |-> header.slot,
   committee_hash |-> GetCommitteeHash(key),
   n_signers |-> Seats - absent,
   execution_header_hash |-> payload.block_hash,
   execution_header_height |-> payload.block_number]

EpochFile(i) ==
  LET header == world.headers[i]
      key    == Signer(world.keys, i)
  IN  [circuit_inputs |->
         [header |-> header,
          signature_point |->
            SerializeG2(UncompressedG2(Signature(TreeHashRoot(header)))),
          committee_pub |-> SerializeG1(Uncompressed(key)),
          non_signers |-> world.absent,
          execution_header_proof |->
            [path |-> GeneratePath(BodyLeaves(world.payload), 9),
             execution_payload_header |-> world.payload]],
       expected |-> EpochOutputs(header, key, world.absent, world.payload)]

EpochCalldata(o) ==
  Words(o.beacon_header_root) \o Words(o.beacon_state_root) \o <<o.slot>>
    \o Words(o.committee_hash) \o <<o.n_signers>>
    \o Words(o.execution_header_hash) \o <<o.execution_header_height>>

\* ExpectedEpochUpdateOutputs::hash.
LeafHash(o) == Poseidon(EpochCalldata(o))

\* The batch of both headers of period 0; MerkleTrees is about larger ones.
BatchFile ==
  LET epochs == <<EpochFile(1), EpochFile(2)>>
      hash(i) == LeafHash(epochs[i].expected)
  IN  [circuit_inputs |->
         [committee_hash |-> epochs[1].expected.committee_hash,
          epochs |-> epochs],
       expected |-> [batch_root |-> Poseidon(<<hash(1), hash(2)>>),
                     latest_batch_output |-> epochs[2].expected],
       merkle_paths |-> <<<<hash(2)>>, <<hash(1)>>>>]

BatchCalldata(o) == <<o.batch_root>> \o EpochCalldata(o.latest_batch_output)

\* CommitteeCircuitInputs::compute_state_root.
ComputeStateRoot(in) ==
  HashPath(in.next_sync_committee_branch,
           Sha(in.committee_keys_root
                 \o Sha(in.next_aggregate_sync_committee \o Zeros(4))),
           55)

CommitteeFile(i) ==
  LET next == NextKey(world.keys, i)
      in == [beacon_slot |-> HeaderSlots[i],
             next_sync_committee_branch |-> GeneratePath(StateLeaves(next), 23),
             next_aggregate_sync_committee |-> Compressed(next),
             committee_keys_root |-> KeysRoot(next)]
  IN  [circuit_inputs |-> in,
       expected |->
         [state_root |-> ComputeStateRoot(in),
          slot |-> in.beacon_slot,
          committee_hash |->
            GetCommitteeHash(FromCompressed(in.next_aggregate_sync_committee))]]

CommitteeCalldata(o) ==
  Words(o.state_root) \o Words(o.committee_hash) \o <<o.slot>>

File(u) ==
  CASE u.kind = "epoch"     -> EpochFile(u.at)
    [] u.kind = "batch"     -> BatchFile
    [] u.kind = "committee" -> CommitteeFile(u.at)

---------------------------------------------------------------------------
(* The circuits: whether a run is accepted, and its output. *)

\* The hints compare what was computed with the expected outputs.
RunEpochUpdate(f) ==
  LET in == f.circuit_inputs
      h  == in.header
      U64(n) == [low |-> n, high |-> 0]
      header_root == HashHeaderRoot(U64(h.slot), U64(h.proposer_index),
                       Uint256(h.parent_root), Uint256(h.state_root),
                       Uint256(h.body_root))
      committee_hash == CommitCommitteeKey(Uint384(in.committee_pub.x),
                                           Uint384(in.committee_pub.y))
      leafs  == PayloadLeafs(in.execution_header_proof.execution_payload_header)
      body_root == HashMerklePath(in.execution_header_proof.path,
                                  ChunkUint256(ComputeRoot(leafs)), 9)
      n_signers == Seats - in.non_signers
      height    == Uint256ReverseEndian(leafs[7]).low
      sig == Signature(ChunkUint256(header_root))
  IN  [accepted |->
         /\ \A c \in DOMAIN sig :
              Uint384(in.signature_point[c]) = Uint384(sig[c])
         /\ body_root = Uint256(h.body_root)
         /\ header_root = Uint256(f.expected.beacon_header_root)
         /\ Uint256(h.state_root) = Uint256(f.expected.beacon_state_root)
         /\ h.slot = f.expected.slot
         /\ committee_hash = Uint256(f.expected.committee_hash)
         /\ n_signers = f.expected.n_signers
         /\ leafs[13] = Uint256(f.expected.execution_header_hash)
         /\ height = f.expected.execution_header_height,
       output |-> Felts(header_root) \o Felts(Uint256(h.state_root))
                    \o <<h.slot>> \o Felts(committee_hash) \o <<n_signers>>
                    \o Felts(leafs[13]) \o <<height>>]

\* epoch_batch.cairo: word 5 of an output is the slot, 6 and 7 the committee.
RunEpochBatch(f) ==
  LET in   == f.circuit_inputs
      runs == <<RunEpochUpdate(in.epochs[1]), RunEpochUpdate(in.epochs[2])>>
      root == Poseidon(<<Poseidon(runs[1].output), Poseidon(runs[2].output)>>)
  IN  [accepted |->
         /\ \A i \in 1..2 :
              /\ runs[i].accepted
              /\ SubSeq(runs[i].output, 6, 7) = Felts(Uint256(in.committee_hash))
         /\ 0 < runs[1].output[5] /\ runs[1].output[5] < runs[2].output[5]
         /\ Uint256(in.committee_hash)
              = Uint256(f.expected.latest_batch_output.committee_hash)
         /\ root = f.expected.batch_root,
       output |-> <<root>> \o runs[2].output]

RunCommitteeUpdate(f) ==
  LET in  == f.circuit_inputs
      key == Uint384(in.next_aggregate_sync_committee)
      leaf == Sha(in.committee_keys_root \o Sha(ChunkUint384(key) \o Zeros(4)))
      state_root == HashMerklePath(in.next_sync_committee_branch, leaf, 55)
      point == DecompressG1(key)
      y == Uint384(CurveY(ChunkUint384(point.x), point.sign_bit))
      committee_hash == CommitCommitteeKey(point.x, y)
  IN  [accepted |->
         /\ point.compression_bit = 1 /\ point.infinity_bit = 0
         /\ state_root = Uint256(f.expected.state_root)
         /\ in.beacon_slot = f.expected.slot
         /\ committee_hash = Uint256(f.expected.committee_hash),
       output |-> Felts(state_root) \o Felts(committee_hash) \o <<in.beacon_slot>>]

\* The program the client runs for an update, and the hashes of its
\* configuration: a program's name stands for its hash.
Program(kind) ==
  CASE kind = "epoch"     -> "epoch_update"
    [] kind = "batch"     -> "epoch_batch"
    [] kind = "committee" -> "committee_update"

Run(u, f) ==
  CASE u.kind = "epoch"     -> RunEpochUpdate(f)
    [] u.kind = "batch"     -> RunEpochBatch(f)
    [] u.kind = "committee" -> RunCommitteeUpdate(f)

---------------------------------------------------------------------------
(* The contract. *)

ZeroHash  == [low |-> 0, high |-> 0]
ZeroProof == [header_root |-> ZeroHash, beacon_state_root |-> ZeroHash,
              n_signers |-> 0, execution_hash |-> ZeroHash, execution_height |-> 0]

\* Wrong: the programs in another order.
SwappedInitCalldata(key) ==
  <<0>> \o Words(GetCommitteeHash(key))
    \o <<"epoch_update", "committee_update", "epoch_batch">>

\* ContractInitializationData::to_calldata, for a slot of period 0.
InitCalldata(key) ==
  <<0>> \o Words(GetCommitteeHash(key))
    \o <<"committee_update", "epoch_update", "epoch_batch">>

Constructor(cd) ==
  [committee |-> [p \in 0..1 |-> IF p = cd[1] THEN U256(cd[2], cd[3]) ELSE ZeroHash],
   epochs    |-> [s \in Range(HeaderSlots) |-> ZeroProof],
   batches   |-> {},
   programs  |-> [committee |-> cd[4], epoch |-> cd[5], batch |-> cd[6]]]

EpochArgs(cd) ==
  [header_root |-> U256(cd[1], cd[2]), beacon_state_root |-> U256(cd[3], cd[4]),
   slot |-> cd[5], committee_hash |-> U256(cd[6], cd[7]), n_signers |-> cd[8],
   execution_hash |-> U256(cd[9], cd[10]), execution_height |-> cd[11]]

EpochFelts(a) ==
  Felts(a.header_root) \o Felts(a.beacon_state_root) \o <<a.slot>>
    \o Felts(a.committee_hash) \o <<a.n_signers>> \o Felts(a.execution_hash)
    \o <<a.execution_height>>

\* Wrong: the roots in each other's place.
ProofSwapped(a) ==
  [header_root |-> a.beacon_state_root, beacon_state_root |-> a.header_root,
   n_signers |-> a.n_signers, execution_hash |-> a.execution_hash,
   execution_height |-> a.execution_height]

EpochProof(a) ==
  [header_root |-> a.header_root, beacon_state_root |-> a.beacon_state_root,
   n_signers |-> a.n_signers, execution_hash |-> a.execution_hash,
   execution_height |-> a.execution_height]

IsFact(program, felts) == [program |-> program, output |-> felts] \in facts

CommitteeOf(slot) == storage.committee[slot \div SlotsPerPeriod]

\* Each handler: whether its asserts hold, and the storage after it.
VerifyEpochUpdate(cd) ==
  LET a == EpochArgs(cd) IN
  [passes  |-> /\ a.committee_hash = CommitteeOf(a.slot)
               /\ IsFact(storage.programs.epoch, EpochFelts(a)),
   storage |-> [storage EXCEPT !.epochs[a.slot] = EpochProof(a)]]

VerifyEpochBatch(cd) ==
  LET a == EpochArgs(Tail(cd)) IN
  [passes  |-> /\ a.committee_hash = CommitteeOf(a.slot)
               /\ IsFact(storage.programs.batch, <<cd[1]>> \o EpochFelts(a)),
   storage |-> [storage EXCEPT !.epochs[a.slot] = EpochProof(a),
                               !.batches = @ \cup {cd[1]}]]

VerifyCommitteeUpdate(cd) ==
  LET root == U256(cd[1], cd[2])
      hash == U256(cd[3], cd[4])
      slot == cd[5]
  IN  [passes  |-> /\ root = storage.epochs[slot].beacon_state_root
                   /\ IsFact(storage.programs.committee,
                             Felts(root) \o Felts(hash) \o <<slot>>),
       storage |-> [storage EXCEPT !.committee[slot \div SlotsPerPeriod + 1] = hash]]

\* decommit_batched_epoch for the leaf at an index of a batch of two.
DecommitBatchedEpoch(root, index, path, cd) ==
  LET a    == EpochArgs(cd)
      leaf == Poseidon(EpochFelts(a))
      up   == IF index % 2 = 0 THEN <<leaf, path[1]>> ELSE <<path[1], leaf>>
  IN  [passes  |-> root \in storage.batches /\ Poseidon(up) = root,
       storage |-> [storage EXCEPT !.epochs[a.slot] = EpochProof(a)]]

\* The entry point and the calldata of submit_update.
Call(u, o) ==
  CASE u.kind = "epoch"     -> VerifyEpochUpdate(EpochCalldata(o))
    [] u.kind = "batch"     -> VerifyEpochBatch(BatchCalldata(o))
    [] u.kind = "committee" -> VerifyCommitteeUpdate(CommitteeCalldata(o))

---------------------------------------------------------------------------
(* The steps of an update. *)

NoUpdate == [kind |-> "none", at |-> 0]
Updates  == [kind : {"epoch", "committee"}, at : 1..3] \cup {[kind |-> "batch", at |-> 0]}

\* What an update rests on: the committee of its headers, the state root at
\* its slot.  No committee follows the last one of this world.
Ready(u) ==
  IF u.kind = "committee"
  THEN u.at \in 1..2 /\ storage.epochs[HeaderSlots[u.at]] # ZeroProof
  ELSE CommitteeOf(HeaderSlots[IF u.kind = "batch" THEN 1 ELSE u.at]) # ZeroHash

Export(u) ==
  /\ pc = "idle" /\ Ready(u)
  /\ update' = u
  /\ file' = File(u)
  /\ pc' = "exported"
  /\ UNCHANGED <<world, storage, output, facts>>

RunCircuit ==
  /\ pc = "exported"
  /\ LET run == Run(update, file) IN
       IF run.accepted
       THEN pc' = "traced" /\ output' = run.output
       ELSE pc' = "rejected" /\ UNCHANGED output
  /\ UNCHANGED <<world, storage, update, file, facts>>

\* Atlantic proves the run of the program and has Integrity verify the proof.
ProofVerified ==
  /\ pc = "traced"
  /\ facts' = facts \cup {[program |-> Program(update.kind), output |-> output]}
  /\ pc' = "proved"
  /\ UNCHANGED <<world, storage, update, file, output>>

\* from_json gives the points it was made from; otherwise it panics, as any
\* other order of their bytes is not a point of the curve.
PointsAreRead(f) ==
  LET in == f.circuit_inputs IN
  /\ \E k \in Range(world.keys) : DeserializeG1(in.committee_pub) = Uncompressed(k)
  /\ DeserializeG2(in.signature_point)
       = UncompressedG2(Signature(TreeHashRoot(in.header)))

FileIsRead(u, f) ==
  CASE u.kind = "epoch"     -> PointsAreRead(f)
    [] u.kind = "batch"     -> \A i \in 1..2 : PointsAreRead(f.circuit_inputs.epochs[i])
    [] u.kind = "committee" -> TRUE

Submit ==
  /\ pc = "proved"
  /\ LET call == Call(update, file.expected) IN
       IF ~FileIsRead(update, file)
       THEN pc' = "panicked" /\ UNCHANGED <<storage, update, file, output>>
       ELSE IF ~call.passes
       THEN pc' = "reverted" /\ UNCHANGED <<storage, update, file, output>>
       ELSE /\ storage' = call.storage
            /\ pc' = "idle"
            /\ update' = NoUpdate /\ file' = <<>> /\ output' = <<>>
  /\ UNCHANGED <<world, facts>>

\* Anyone takes an epoch of a stored batch from its file.
Decommit(i) ==
  /\ pc = "idle" /\ storage.batches # {}
  /\ LET batch == BatchFile
         call  == DecommitBatchedEpoch(batch.expected.batch_root, i - 1,
                    batch.merkle_paths[i],
                    EpochCalldata(batch.circuit_inputs.epochs[i].expected))
     IN  IF call.passes
         THEN storage' = call.storage /\ UNCHANGED pc
         ELSE pc' = "reverted" /\ UNCHANGED storage
  /\ UNCHANGED <<world, update, file, output, facts>>

Init ==
  /\ \E k \in Keys, next \in Keys, served \in Served :
       k # next /\ world = World(<<k, next, k>>, served)
  /\ storage = Constructor(InitCalldata(world.keys[1]))
  /\ update = NoUpdate
  /\ pc = "idle"
  /\ file = <<>>
  /\ output = <<>>
  /\ facts = {}

Next ==
  \/ \E u \in Updates : Export(u)
  \/ RunCircuit \/ ProofVerified \/ Submit
  \/ \E i \in 1..2 : Decommit(i)

Spec == Init /\ [][Next]_vars

---------------------------------------------------------------------------
(* Properties. *)

Uint256s == [low : 0..(Pow64 * Pow64 - 1), high : 0..(Pow64 * Pow64 - 1)]

TypeOK ==
  /\ storage.committee \in [0..1 -> Uint256s]
  /\ \A s \in Range(HeaderSlots) : storage.epochs[s].header_root \in Uint256s
  /\ update \in Updates \cup {NoUpdate}
  /\ pc \in {"idle", "exported", "traced", "proved", "rejected", "panicked",
            "reverted"}

\* The circuits compute from the file what the client expects, hash by hash:
\* header and body roots from fields, committee hash from the point or from
\* the compressed key, state root from the key; and the points survive.
CircuitsAcceptInputs == pc # "rejected"

\* The file of a verified proof can be read back and submitted: the points
\* in it are in the order the client reads them.
FilesReadBack == pc # "panicked"

\* What is proven, the contract finds: the words it hashes from the calldata
\* are the words the program wrote, its committee is the one hashed in the
\* circuit, whichever way it learned it, and a committee update names the
\* state root an epoch stored.
ContractAcceptsProofs == pc # "reverted"

\* The contract holds, for each slot and period, what the beacon node serves:
\* roots in the halves of a u256, heights as numbers, the hash of the key.
StoredIsServed ==
  /\ \A i \in 1..3 :
       LET proof == storage.epochs[HeaderSlots[i]]
           h     == world.headers[i]
       IN  proof # ZeroProof =>
             proof = [header_root |-> Uint256(TreeHashRoot(h)),
                      beacon_state_root |-> Uint256(h.state_root),
                      n_signers |-> Seats - world.absent,
                      execution_hash |-> Uint256(world.payload.block_hash),
                      execution_height |-> world.payload.block_number]
  /\ \A p \in 0..1 :
       storage.committee[p] \in
         {ZeroHash, Uint256(GetCommitteeHash(world.keys[p + 1]))}
===============================================================================
