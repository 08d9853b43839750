# Bankai: verification development

Bankai is an Ethereum light client on Starknet. Sync committees sign beacon chain
headers; Cairo 0 circuits verify the signatures off chain, their proofs are verified on
Starknet, and a Cairo 1 contract stores headers and committees whose proofs it finds in
the registry of verified facts. A Rust client, run by an operator, derives what to prove
next, fetches it from a beacon node, runs the circuits and calls the contract.

This directory holds TLA+ models of those parts, the TLC configurations that check them
on small instances, and proofs of the most important results for every instance.

## Inventory

| Part | Source | State | Operations |
|---|---|---|---|
| Contract | `contract/src/lib.cairo`, `utils.cairo` | `committee`, `epochs`, `batches`, `latest_epoch`, `latest_committee_id`, `initialization_committee` | `constructor`, `verify_epoch_update`, `verify_epoch_batch`, `decommit_batched_epoch`, `verify_committee_update` |
| Epoch circuit | `cairo/src/verify_epoch.cairo`, `signer.cairo` | one run | header root, signing root, key of the signers, signature, execution header |
| Committee circuit | `cairo/src/committee_update.cairo` | one run | state root of a path to `next_sync_committee` |
| Batch circuit | `cairo/src/epoch_batch.cairo`, `merkle.cairo` | one run, recursive | epoch circuit per epoch, order and committee asserts, Merkle root |
| Client, fetching | `client-rs/src/utils/rpc.rs`, `epoch_update.rs`, `sync_committee.rs`, `contract_init.rs`, `execution_header.rs` | one fetch | header and aggregate with retries, committee, execution header, state |
| Client, commands | `client-rs/src/main.rs`, `epoch_batch.rs`, `utils/starknet_client.rs`, `utils/cairo_runner.rs` | files under `batches/` | `deploy-contract`, `prove-next-*`, `submit-wrapped-proof`, `verify-*` |
| Atlantic, Integrity | external; `utils/atlantic_client.rs` | jobs; facts | prove, wrap, verify, fail |
| Encodings | `client-rs/src/epoch_update.rs`, `epoch_batch.rs`, `sync_committee.rs`, `cairo/py`, `cairo/src/ssz.cairo`, `contract/src/lib.cairo` | one update on its way | export, hints, circuit, calldata, fact and leaf hashes |
| Fork domain | `cairo/src/domain.cairo` | | fork of a slot |
| Merkle trees | `client-rs/src/utils/merkle.rs`, `merkle.cairo`, `ssz.cairo`, `contract/src/utils.cairo` | | three builders, one path walk |

How they interact. A `prove-next-*` command reads the contract (one or two calls), makes
several requests to a beacon node whose chain keeps growing, writes the input file, runs
the circuit and submits the trace. Later runs of the client follow the Atlantic job and
call the contract with the outputs found in the file. Commands share nothing but the
contract, the files and the proving service: a command acts on what it read long ago.
Anyone may call the contract, in any order, any number of times, with whatever output has
been proven. What a proven output says depends on its program and, for the epoch program,
on the input it was made from: see *What an epoch proof says* below.

What is hard in this code, and what makes each part correct:

- *Contract.* Calls in any order, repeated, late; facts about other networks; a batch
  checked once and decommitted much later; the committee of the last block of a period.
  With any proof, storage has to be backed by facts and `latest_epoch` the newest epoch;
  with proofs of the client, storage is only ever of the home chain, committees form an
  unbroken chain, and nothing stored changes.
- *Batch circuit.* Any list of epochs, any size of padding. Correct if a proof implies for
  every leaf the order and the committee the contract looks at for the last one only.
- *Fetching.* A 404 is a missed slot, a late block or a slot to come; retries move on.
  Correct if the inputs belong together and to the committee the contract will ask for.
- *Commands.* Two reads, stale reads, overlap of single epochs with batches, failing jobs,
  epochs and committees waiting for each other. Correct if nothing is skipped, proven
  twice or unverifiable, and the client follows the chain over the end of a term.
- *Merkle trees, aggregate.* Padding, positions, pointer arithmetic in write-once memory,
  bit order, repeated validators; paths of any length and content from the caller. Correct
  if every builder gives one root, no epoch but the leaves has a path, and the key is that
  of the seats that signed.
- *Encodings.* Four languages write and read the same words: byte order of numbers and of
  hashes, order of coordinates, of halves, of limbs, of arguments. Correct if the circuit
  recomputes what the client expects, the contract finds the fact of what it is given, and
  storage says what the beacon node served.
- *Fork domain.* The circuit goes by the slot of the header, signers by the slot before
  the aggregate. Correct if no fork falls between them.

`PROJECT.json` lists every hazard with its line and the properties aimed at it.

## Modules

```
BeaconSlots <- BeaconChain <- LightClient
                    ^
                 Circuits <- EpochBatchCircuit <- EpochBatchCircuitProofs
                    ^                ^ MCEpochBatchCircuit
              BankaiContract <- BankaiContractProofs, MCBankaiContract
                    ^
               BankaiSystem <- BankaiSystemProofs, MCBankaiSystem

BeaconSlots <- BeaconFetch <- ForkDomain <- BeaconFetchProofs, MCForkDomain

PowersOfTwo <- MerkleTrees <- MerkleTreesProofs, MCMerkleTrees
     ^
ArithmeticProofs       SyncAggregate <- SyncAggregateProofs

Encodings <- UpdateFlow <- UpdateFlowProofs, MCUpdateFlow
```

BankaiSystemProofs also extends BankaiContractProofs. ArithmeticProofs (division, blocks of
slots, least elements, powers of two) is used by every proof module but BankaiContractProofs
and EpochBatchCircuitProofs.

- **BeaconSlots** slot arithmetic. **BeaconChain** the chains as constants: `Proposed[n]`
  are the slots of network `n` with a block; a block, its header root and its state root
  are one value; `Committee(n, p)` is the hash of the key of the committee of a period.
  `Home` is the chain the contract was deployed for; other networks stand for well-signed
  headers of chains it must not follow. A committee *signs* a block if it serves in the
  period of the next block, which carries the signatures.
- **LightClient** the abstract promise: accept a header signed by a trusted committee,
  trust a committee named by an accepted header, never give anything up.
- **Circuits** what each Cairo program can output on any input: `EpochOutput` (a header, a
  slot and a committee, independent of each other), `CommitteeProvable` and
  `BatchProvable`. `FromClient` is what an epoch output says besides if the input was a
  file of the client.
- **BankaiContract** one action per entry point, `RegisterFact` for a proof verified by
  Integrity. A reverting call is no step. `Spec` has any facts the circuits allow,
  `ClientSpec` only those of the client's files. `LC` is the refinement mapping:
  `accepted` is what `epochs` holds, `trusted` what `committee` holds.
- **EpochBatchCircuit** a run of `epoch_batch.cairo`: one step per recursive call of
  `run_epoch_batches`, then the padding. `Verifying` are the epochs on which the asserts of
  `run_epoch_update` hold, whatever they are; what the batch program adds to them is what
  is modelled. `next_power_of_2` is any of `Sizes`, as nothing checks the hint (a size
  smaller than the batch gives `memset` a negative count and the run no end). A cell of the
  tree nobody writes would be the prover's to choose: `Pad` has it so, and there is none.
- **SyncAggregate** from the bits of the aggregate to the key the signature is checked
  against, through the loops of the client (the fold of the keys, the bits one by one, the
  filter of the seats) and the recursion of `signer.cairo`, one round per step. A curve
  point is the formal sum of the keys in it.
- **MerkleTrees** the client's levels and paths, the two-pointer heap of `merkle.cairo`,
  the computed destination of `ssz.cairo`, one node or level per step; then `hash_path`,
  as `decommit_batched_epoch` calls it, one round of its loop per step: with the paths the
  client kept and any others (`OtherPaths`), of any length, at any position (`Positions`).
  The leaf is not the caller's to choose: the contract hashes it from eleven words
  (lib.cairo:304), so it is the leaf of some epoch, in the batch or not, and not an inner
  node or the padding. The walk itself would take an inner node with a shorter path to the
  root. A hash is the term hashed. The trees are of the size the client pads to.
- **PowersOfTwo** the sizes of trees: numbers no odd number divides but 1, which is what
  `n & (n - 1) == 0` tests and something a prover can reason about.
- **BeaconFetch** one step per request of a fetch; between any two the chain grows
  (`Tick`) and blocks reach the node (`Arrive`). `settled` is a history variable: when the
  fetch began the node had a block past every slot it can look at.
- **BankaiSystem** the contract with the operator's commands, their files and Atlantic. It
  extends BankaiContract, so `Verify*` are the contract's own actions under the client's
  conditions. A fetch is one step here, from a chain known up to `head`. A command may
  abort at any point (`CommandAborts`): what it read is gone, its file may stay.
- **ForkDomain** extends BeaconFetch with the activation slots of `domain.cairo`, the fork
  the hint finds, the range checks on it, and the fork the aggregate was signed under.
- **Encodings** the conversions, each by what it does to digits. A digit is the four bytes
  of a 32 bit chunk: a hash has 8, a coordinate 12, a number 2; halves, limbs and chunks
  are cut and put together from digits as the code does it: digits of a number by repeated
  division, trees level by level over zero leaves without end (`Node`), of which `Depth`
  says how many levels the padded list has. SHA256, Poseidon, the y of a
  point and signatures are constant operators.
- **UpdateFlow** one update at a time through file, circuit, proof and call: `file` is the
  input file, `output` the words the circuit writes, `facts` what Integrity verified,
  `storage` the maps and program hashes of the contract. A failed assert of a circuit ends
  in "rejected", a failed assert of the contract in "reverted", a point that is not one in
  "panicked"; the properties say that none of them is reached.

### What an epoch proof says

The epoch program fills part of its memory by hints and constrains only some of it by
asserts. The slot is in two cells, the one it outputs (verify_epoch.cairo:40) and the one
it hashes into the header (:120), compared in Python hints only (:87). The keys of the
non-signers come from the input file and are checked to be points, not to be seats of the
committee (signer.cairo:146-169), while `committee_hash` is of the committee's key. So on
an arbitrary input neither "the output slot is the header's" nor "the committee signed the
header" follows from the asserts, and no model here assumes it: in `Spec` of BankaiContract
slot, header and committee of an epoch fact are independent.

In a file the client writes the two slots are one field and the non-signers are seats of
the committee (`KeyIsOfSigners` of SyncAggregate says which), and there the program's
pairing check is on the committee's signature. `FromClient` states this, and `ClientSpec`
is the contract while all registered facts are of such files. `ContractInSystem` shows that
this holds in BankaiSystem, where proofs are made by the commands. Whoever uses the
results about `ClientSpec` has to take this as a premise: the contract cannot check it.

What needs no premise about the input is stated of `Spec`, of the batch circuit and of the
trees.

Operators marked "wrong" are forms of the definition after them that a slip in the code
would give; the checks of `PROJECT.json` put them in its place and expect the property
to fail.

## Runs

| Run | Shows | Bounds |
|---|---|---|
| `contract` | nine properties of the contract with the client's proofs (`ClientSpec`), refinement included | 10 slots, epochs of 2, periods of 4, two networks; six epoch, six committee and up to four batch outputs: every period boundary has a missed slot, one committee update claims a slot not its own |
| `latest_committee` (finding) | an older committee proof lowers `latest_committee_id` | same |
| `system` | `NoEpochSkipped`, `OneHeaderPerEpoch`, `CommitteeProofsMatch`, `DerivedInputsVerify` with the three commands side by side | epochs of 4, periods of 16, deployed in period 1, a missed first slot of an epoch and a missed last slot of the period; one proof at a time |
| `sync` | `SyncsToTarget` with prove-next-epoch and prove-next-committee, one command or proof failing | same, 35 slots |
| `batch_only` (finding) | batches never reach the last epoch of a term, and then fail for good | same |
| `fetch` | `SettledInputsVerify`, `CommitteeIsContracts`, `FetchIsComplete`, `FetchEnds` over every pattern of missed slots and every delay; `DomainIsSigners`: the circuit's domain is the signers' | 9 slots, 3 attempts as in the code, epochs and periods of 6 = 2 * 3 slots: the smallest for which the retries fit, as they do in 32; a fork at slot 6, fetches that start at it, may reach it or end before it, and a fork still to come |
| `fetch_race` (finding) | near the head, inputs that do not belong together | same, without forks |
| `contract_init` (finding) | at the last slot of a period the next committee gets this period's id | same |
| `batch_circuit` | `AcceptedIsProvable`, `AcceptsExactlyWellFormed`, `LeavesAreEpochs` on every list of at most four of ten epochs, some failing, one with two slots, slot 0 and another network included | lists of 0 to 4, padded to sizes up to 8, powers of two or not |
| `merkle` | one root from three builders, no memory conflict, the leaves have paths and no other epoch has | 1 to 9 leaves: trees of 1 to 16 leaves, full and with one more than a power of two; `hash_path` for an epoch of no batch too, with every path of up to two of seven terms and longer ones of inner nodes (beginnings and ends of right paths, paths beyond the root), at positions up to 31, beyond the largest tree |
| `sync_aggregate` | the key and the count are those of the seats that signed | see the cfg: 2 bytes of 2 bits, every committee of three validators, every participation |
| `update_flow` | `CircuitsAcceptInputs`, `FilesReadBack`, `ContractAcceptsProofs`, `StoredIsServed` for every word of every update | 24 worlds of two committees and four served blocks: keys that differ in the sign of y only, a key with a small x, numbers of one and of two digits, roots of zeros, of maxima, with a leading and a trailing zero |

Why the bounds are enough. The contract treats slots only through their period and their
order, so three periods with both kinds of boundary give every case of its comparisons.
In the system runs the interesting slots are the ones where epoch and slot differ (20 is
missed, 21 is the header) and where slot and signature are of two periods (30). One proof
at a time (`MaxJobs`) still lets any number of commands act on stale reads, since a job
may wait for Atlantic while others read; it keeps the state space in bounds. `Facts` holds
the outputs the commands can derive; the `system` run leaves out those of epochs before
the deployment, whose committee no contract of the run knows (the other three have them).
`MaxFailures` bounds aborted commands and failing proofs; the `sync` run has one, since an
unbounded number means nothing is ever proven, and the `system` run none: what its
properties say with any number of them is proved below. In `update_flow` digits have three bits, so that the flags of
a compressed key are its first digit as they are the top bits of its first byte; a digit
more or in another place changes the hash the model uses, and two headers and two periods
give every call the contract knows. The batch there has two leaves: MerkleTrees is about
larger ones.

The runs of circuits and trees stop (CHECK_DEADLOCK FALSE): a run of a program ends.

### Fairness

`BeaconFetch`: a pending request is answered or fails (`WF` of the answers). Nothing is
assumed of the chain: it may stop growing, blocks may stay away.

`BankaiSystem` (`Operation`): README.md:22-36 of the repository describes an operator who
goes through the steps again and again. So every command is started again once it is over
and every started command runs to its end, Atlantic finishes its jobs, `submit-wrapped-proof`
and the verify commands are run for what was proven, and the chain grows to its last head.
`Prove` and `ProveByHand` are strongly fair because the bound `MaxJobs` makes them wait
for a free place, which the code does not. `verify-committee` is strongly fair per output:
it stays possible to verify old outputs again, and the operator must not do only that.
Decommits are not fair: nobody has to make them.

The constructor sets `latest_epoch` to 0, and what the `prove-next-*` commands derive from
it belongs to the start of the chain, which a contract deployed later cannot verify. The
first epoch is made by hand: `epoch-update --slot`, exported where `verify-epoch` looks,
and a trace proven by hand. `ManualSlots` are the slots of such proofs, and `sync` shows
that one of them is enough (lib.cairo:147, main.rs:312).

## Findings

1. `latest_committee`: `verify_committee_update` writes `latest_committee_id` without the
   comparison `latest_epoch` has, so an old proof lowers it (lib.cairo:203).
2. `fetch_race`: a block not yet at the node is taken for a missed slot, so the aggregate
   may sign a later header than the one fetched (rpc.rs:88). The circuit rejects it.
3. `contract_init`: committee of `slot + 1` under the id of `slot` (contract_init.rs:23).
4. `batch_only`: the last epoch of a term is outside the batching range, and once it is
   next the range is empty and `epochs[0]` panics (starknet_client.rs:185,
   epoch_batch.rs:65). `prove-next-epoch` gets past it, which is what `sync` shows.

## Proofs

**BankaiContractProofs** proves, for all chains, networks, sets of outputs and slot
parameters that satisfy `SlotsAssumption`, `ChainAssumption` and `CircuitAssumption`, two
groups of theorems. `CircuitAssumption` is the types of outputs and what the asserts of the
committee and the batch circuit ensure on any input; of an epoch output it says nothing.

- Of `Spec`, any proofs: `TypeOK`, `StorageIsProven` and `LatestEpochIsNewest`
  (`TypeCorrect`, `Proven`, `LatestEpoch`), which the `contract` run checks on `ClientSpec`
  only. They follow from the inductive invariant `AnyInv`, which adds that leaves of known
  batches are no newer than `latest_epoch` (`BatchLeavesAreOlder`): it comes from the order
  of the slots in a batch output.
- Of `ClientSpec`, proofs from the client's files: the other invariants of that run,
  `StoredIsFinal` and the refinement of `LightClient`, from `IInv`.

`IInv` is `AnyInv`, that all facts are the client's, and four more invariants; none is
inductive alone. That an epoch
stored by a decommit is of the home chain (`StorageIsCanonical`) needs the leaf's committee
to be a known one (`BatchLeavesAreCovered`), which needs that known committees never
change, which needs a new committee to be the one already there (`StorageIsCanonical` of
the state root it is tied to); the chain of committees needs its links stored. The argument
in a step: a committee hash equal to a stored one is of the home chain (`SignedByKnown`),
what it signed is a home block (`SignedByHome`), and two home blocks of a slot are one
(`HomeBlock`). Finality and refinement follow from `StepEffect`: a step adds at most one
home block or one home committee. A direct update, a batch and a decommit map to
`AcceptHeader`, a committee update to `AcceptCommittee`, a fact to a stutter.

**EpochBatchCircuitProofs** proves, for every input list of every length, every set of
epochs that verify and every size of padding: that an accepted run satisfies what
`CircuitAssumption` says of batches and all its leaves verified (`Acceptance`); that of the
epochs that verify exactly the ordered lists of one committee are accepted (`Exactness`);
and that the tree holds the epochs at their positions and nothing else (`Leaves`). The
inductive invariant adds to the types what the recursion has established behind `index`
(`Verified`: each epoch verified and of the committee, slots increasing up to
`previous_epoch_slot`), what it has written (`Written`), and where the run stands
(`Progress`). Slot order for all pairs, not only neighbours, is in `Verified` because
`BatchProvable` is about all of them. `PadEffect` shows that no cell is left unwritten.

**BeaconFetchProofs** proves, for every chain, every growth of it between the requests and
every `MaxAttempts` with `2 * MaxAttempts <= SlotsPerEpoch` (6 and 32 in the code), the
invariants of the `fetch` run. The inductive invariant says what is known at each request:
every slot from the start to the one asked for now was missed, if the node had the whole
stretch when the fetch began (`Missed`, under `settled`); the header is the first block
from the start, the aggregate the first after it; the node's blocks are those of the chain
up to some slot (`NodeInv`), which is why a block not there is a missed one. That the
retries stay in the epoch (`FetchedInEpoch`) gives `CommitteeIsContracts`.

Its last part is about ForkDomain and proves `DomainIsSigners` for every list of forks:
header and signing slot are of one epoch (from the invariant of the fetch), forks activate
at epochs, so the same forks are active in both; the range checks hold since activation
slots increase (`HintInRange`).

**BankaiSystemProofs** proves for the system, of any number of jobs, failures, heads and
commands:

- `ContractInSystem`: every step of the system is a step of `ClientSpec` or leaves the
  contract's variables alone, since what is proven was in a file of a command (`FilesInv`);
  so each theorem of BankaiContractProofs holds in the system.
- `SysTypeCorrect`: with the contract's invariant, since `latest_epoch` never falls below
  what a command read and `facts` grows with `stage`.
- `InputsVerify`: whatever multiple of an epoch a command derives, the first block within
  its retries and the aggregate after it lie in one epoch, hence one period; a batch ends
  before the last epoch of its term; so the circuits accept the inputs and the contract
  asks for the committee they name.
- `ProofsMatch`, for contracts not deployed in period 0: `CommitteeInv` adds that the id
  read is not 0, so that the epoch that meets its requirement is a stored one, and that
  an epoch once read stays stored. With id 0 the required slot is 0, which a contract
  without any epoch meets.
- `OneHeader`, if what is proven by hand starts at an epoch (`ManualSlots`; the steps of
  README.md:22-36 of the repository): `HeadersInv` says that every header in a file or
  available to the contract is the first block of its epoch (`EpochHeader`), since each
  command asks for the first slot of an epoch (`InputIsHeader`). Two such headers of an
  epoch are one.
- `NoHole`, if one epoch is proven by hand, the contract is not deployed in period 0, and a
  period has more than one epoch. `HoleInv` says of every file on its way that it continues
  an epoch that is available: a command starts from the `latest_epoch` it read, which is
  stored or 0, what is stored stays so however stale the reading is (`Anchored`,
  `EpochContinues`), and a batch is an unbroken row after it (`BatchIsContiguous`). What is
  derived from the 0 of a new contract is of period 0, whose committee it never knows
  (`KnownIsLater`); a contract of period 0 would know it. The hypothesis on `ManualSlots`
  is real: an epoch proven by hand far ahead does leave a hole.

**MerkleTreesProofs** proves all invariants of the `merkle` run for every number of leaves,
every set of paths and every set of positions. The inductive invariant has a part for
each builder:

- `LevelsInv`: each level is half the one below it and hashes it pair by pair; sizes are
  powers of two, so halving ends at one node (`HalfOfPower`).
- `HeapInv(t, o)`, of either circuit's memory: exactly the cells from `o` on are written,
  an inner node hashes the cells `2c + 1` and `2c + 2`, and each level the client has sits
  at cell `M(k) - 1`, as far as it is written. `HeapStep` shows that the next node keeps
  it, wherever the pointers are; the two ways of computing its cell, two pointers and
  `Destination`, are both `o - 1`. It gives `WrittenOnce` and, at `o = 0`, `Roots`.
- `WalkInv`: walking from leaf `i` with its own path, the hash after `k` rounds is the node
  above it at level `k` (`HalvedIdx`). With any path, if the hash is a node of any level
  whose number the index has modulo the size of the level, that level is the one the walk
  is on and it began at the leaf of its position: hashes of pairs are on all levels but the
  lowest (`HashLevels`), the leaf of an epoch is none, and a hash has one preimage
  (`ModDouble` for the indexes). This gives `OnlyLeaves`.

**SyncAggregateProofs** proves all invariants of the `sync_aggregate` run for committees of
any size over any set of validators. Every loop has a part that counts: the key is the
number of seats of each validator among those folded, the list has a validator's key as
often as the validator was absent (`FilterInv`), the recursion's sum is that of the part of
the list behind it, and bit `s` of the array is bit `s % 8` of byte `s / 8` (`SignedBit`).
Present and absent seats are a partition of each validator's (`Partition`).

**UpdateFlowProofs** proves all five invariants of the `update_flow` run, for digits of any
size divisible by 8, any keys, signatures, payloads, parent roots and numbers of absentees,
any committee size, and any three slots as in `SlotsAssumption`. The theorems have one
hypothesis, `PrimitivesTyped`: SHA256 gives 32 bytes, `CurveY` and `Signature` give
coordinates, as the operators of MCUpdateFlow do. Neither injectivity nor any other property of a hash is assumed, as the
invariants say that what is right is accepted, not that nothing else is. The assumptions on
constants are the code's: `KeysAssumption` leaves the top three bits of a coordinate free
(the field has 381 bits), `ServedAssumption` and `SlotsAssumption` bound numbers by u64.
The argument goes from the digits up:

- sequences of known length (`Join`, `Cut`, `ReverseOf`), since a `\o` or `SubSeq` of a
  known length is all the conversions are made of; division gives digits back
  (`DigitsOf4`), so halves, limbs and chunks are put together to what they were cut from
  (`ChunksOfHalves`, `ChunksOfLimbs`), and the flags of a compressed key come off again
  (`KeyCompressed`);
- trees: a tree over the chunks of halves has the root of the tree over the digests
  (`RootOfHalves`), which makes header and payload roots agree (`HeaderRoot`,
  `PayloadRoot`); walking a generated path ends at the root, for the payload in the
  body (`BodyPath`, position 9 of 16) and the committee in the state (`StatePath`,
  position 23 of 32, walked by its generalized index 55 in client and circuit);
- files: `EpochRun`, `BatchRun` and `CommitteeRun` say of the files of any world that the
  circuit accepts them, that its output is, word by word, the calldata of the expected
  outputs, and that the points in them are read back;
- calls: `EpochDecoded` and its likes say that the contract takes from the words what was
  put there and hashes the words it was given; `StoreEpoch` that storing it keeps
  `StoredIsServed`.

`StoredIsServed` is needed for the others: that the contract's assert on the committee
passes depends on what it learned before, by `constructor` or from a committee update, and
that of `verify_committee_update` on the state root an epoch stored, directly or out of a
batch. `FlowInv` says where an update stands: not stopped, `file` is the one its world
gives, `output` is its calldata, its fact is registered once proven, and what it rests on
(`Ready`) is still there; `StorageInv` gives the types, the programs' places and that the
only batch is the world's. Their conjunction `IInv` is inductive, one lemma per action
(`ExportStep` to `DecommitStep`).

Only model-checked: `SyncsToTarget` and `FetchEnds`, as liveness under fairness is out of
the prover's reach, and the four findings, which are counterexamples. In UpdateFlow the
depths of the trees in use (5, 12, 17 and 28 leaves) are constants of the formats, so the
proofs unfold them level by level; MerkleTreesProofs is about trees of any size.

## Not modelled

- Pairing, hash to curve, square roots, SHA256 and Poseidon: taken as correct, and
  as injective everywhere but in UpdateFlow, which does not rest on it. Signature verification is the predicate `Signs`, or equality with the point
  `Signature` gives in UpdateFlow.
- Batch trees of another size than the client's in MerkleTrees: that such a size adds no
  leaf is in EpochBatchCircuit, the walk of a path in such a tree is not modelled.
- Inputs of the epoch program other than the client's in SyncAggregate and UpdateFlow.
- The order of the four bytes inside a 32 bit chunk, and payload fields nothing is taken
  from (`rest`).
- The domain values themselves and forks after Deneb, which `domain.cairo` does not know;
  the layout of the beacon state beyond the position of the next committee.
- Reorganisations of the beacon chain: the client has no notion of finality, and a header
  once signed is final for the contract; blocks are those of one chain per network.
- Configuration (which program goes with which proof is part of UpdateFlow), scripts,
  `bls.py`, CI.
- `owner` of the contract is written and never read; events are not part of its state.

## Plan

Done: the contract with its abstract specification and proofs; the batch circuit with its
proofs; fetching and fork domains with theirs; the system with proofs of every safety
property; Merkle trees and aggregates with proofs for every size; encodings from node to
storage with proofs for every world.

Open: walks of paths in trees of sizes the client does not use; chains with a gap of `MAX_ATTEMPTS` slots in `sync`, on which the client stops; in
UpdateFlow the remaining payload fields, one by one instead of as `rest`.
