--------------------------- MODULE EpochBatchCircuit ---------------------------
(***************************************************************************)
(* A run of cairo/src/epoch_batch.cairo.  The program input is any list of *)
(* epochs with any committee hash; run_epoch_batches handles one epoch per *)
(* recursive call, threading the slot of the previous one, and a failed    *)
(* assert ends the run without a proof.  An epoch is named by the output   *)
(* run_epoch_update has for it, and fails there or not; what the batch     *)
(* program adds to its checks is what is modelled.                         *)
(***************************************************************************)
EXTENDS Circuits, SequencesExt

CONSTANTS
  EpochInputs,   \* the epochs a program input may list
  Verifying,     \* those on which the asserts of run_epoch_update hold
  MaxBatch,      \* bound: their number
  Sizes,         \* what the hint may put into next_power_of_2
  ZeroLeaf       \* the felt 0 the leaves are padded with

ASSUME BatchAssumption ==
  /\ EpochInputs \subseteq EpochOutput
  /\ Verifying \subseteq EpochInputs
  /\ MaxBatch \in Nat
  /\ Sizes \subseteq Nat
  /\ ZeroLeaf \notin EpochOutput

VARIABLES
  pc,                   \* "running", "padding", "accepted", "rejected"
  epochs,               \* program_input["circuit_inputs"]["epochs"]
  committee_hash,
  index, previous_epoch_slot,
  epoch_outputs,        \* the leaves written
  latest_batch_output

input == <<epochs, committee_hash>>
vars  == <<pc, input, index, previous_epoch_slot, epoch_outputs,
           latest_batch_output>>

---------------------------------------------------------------------------
\* Wrong forms of the asserts: only the epoch right after the previous one
\* passes, no committee assert.
NextEpochOnly(previous, slot) ==
  previous = 0 \/ slot \div SlotsPerEpoch = previous \div SlotsPerEpoch + 1
NoCommitteeCheck(e) == TRUE

AssertSlot(previous, slot) == previous < slot
AssertCommittee(e)         == committee_hash = e.committee_hash

Accepts(e) ==
  /\ e \in Verifying
  /\ AssertSlot(previous_epoch_slot, e.slot)
  /\ AssertCommittee(e)

\* One call of run_epoch_batches.  It is made before batch_len is looked at:
\* an empty list fails on its first epoch.
RunEpoch ==
  /\ pc = "running"
  /\ index < Len(epochs)
  /\ LET e == epochs[index + 1] IN
     /\ Accepts(e)
     /\ epoch_outputs' = Append(epoch_outputs, e)
     /\ previous_epoch_slot' = e.slot
     /\ latest_batch_output' = e
  /\ index' = index + 1
  /\ pc' = IF index + 1 = Len(epochs) THEN "padding" ELSE "running"
  /\ UNCHANGED input

Fail ==
  /\ pc = "running"
  /\ index < Len(epochs) => ~Accepts(epochs[index + 1])
  /\ pc' = "rejected"
  /\ UNCHANGED <<input, index, previous_epoch_slot, epoch_outputs,
                 latest_batch_output>>

\* Wrong: a size one short, a first cell one too far.
ShortByOne(size) == size + 1 >= Len(epochs)
CellAfterNext(n) == n + 2

\* The count memset is given must not be negative.
Fits(size) == size >= Len(epochs)

\* Where memset begins after n leaves.
FirstPadded(n) == n + 1

\* next_power_of_2 is a hint nothing constrains: any size that fits.  memset
\* fills the cells after the leaves; a cell nobody wrote would be the prover's
\* to choose.
Pad ==
  /\ pc = "padding"
  /\ \E size \in {n \in Sizes : Fits(n)} :
       LET zeros   == FirstPadded(Len(epochs))..size
           unbound == (1..size) \ (1..Len(epochs) \cup zeros)
       IN  \E free \in [unbound -> EpochInputs \cup {ZeroLeaf}] :
             epoch_outputs' = [i \in 1..size |->
               CASE i \in unbound -> free[i]
                 [] i \in zeros   -> ZeroLeaf
                 [] OTHER         -> epoch_outputs[i]]
  /\ pc' = "accepted"
  /\ UNCHANGED <<input, index, previous_epoch_slot, latest_batch_output>>

Init ==
  /\ pc = "running"
  /\ epochs \in SeqOf(EpochInputs, MaxBatch)
  /\ committee_hash \in {e.committee_hash : e \in EpochInputs}
  /\ index = 0 /\ previous_epoch_slot = 0
  /\ epoch_outputs = <<>>
  /\ latest_batch_output = ZeroLeaf

Next == RunEpoch \/ Fail \/ Pad

Spec == Init /\ [][Next]_vars

---------------------------------------------------------------------------
(* Properties. *)

TypeOK ==
  /\ pc \in {"running", "padding", "accepted", "rejected"}
  /\ epochs \in Seq(EpochInputs)
  /\ committee_hash \in Committees
  /\ index \in 0..Len(epochs)
  /\ previous_epoch_slot \in Slots
  /\ epoch_outputs \in Seq(EpochInputs \cup {ZeroLeaf})
  /\ Len(epoch_outputs) >= index
  /\ latest_batch_output \in EpochInputs \cup {ZeroLeaf}

\* The output of the program: the tree as the collection of its epochs.
Output == [leaves |-> ToSet(epoch_outputs) \ {ZeroLeaf},
           last   |-> latest_batch_output]

\* Whatever the program input and the hinted size, every leaf passed the epoch
\* program, and the leaves are in the order of their slots, under the committee
\* of the last one: the contract looks at the last epoch only and accepts every
\* leaf because of it.
AcceptedIsProvable ==
  pc = "accepted" => BatchProvable(Output) /\ Output.leaves \subseteq Verifying

\* Whatever size the hint names, each epoch is at its position, where the path
\* the client keeps for it begins, and the tree holds nothing else.
LeavesAreEpochs ==
  pc = "accepted" =>
    /\ \A i \in 1..Len(epochs) : epoch_outputs[i] = epochs[i]
    /\ Output.leaves = ToSet(epochs)

\* Epochs the epoch program accepts, of one committee, in the order of their
\* slots, however far apart.
WellFormed ==
  /\ epochs # <<>>
  /\ \A i \in 1..Len(epochs) : /\ epochs[i] \in Verifying
                               /\ epochs[i].committee_hash = committee_hash
                               /\ epochs[i].slot > 0
  /\ \A i, j \in 1..Len(epochs) : i < j => epochs[i].slot < epochs[j].slot

\* The recursion neither refuses such a list nor lets another one through.
AcceptsExactlyWellFormed ==
  /\ pc = "accepted" => WellFormed
  /\ pc = "rejected" => ~WellFormed

\* The inductive invariant: what the recursion has established of the epochs
\* behind index.
Verified ==
  /\ \A i \in 1..index : /\ epochs[i] \in Verifying
                        /\ epochs[i].committee_hash = committee_hash
                        /\ 0 < epochs[i].slot
                        /\ epochs[i].slot <= previous_epoch_slot
  /\ \A i, j \in 1..index : i < j => epochs[i].slot < epochs[j].slot
  /\ index = 0 => previous_epoch_slot = 0
  /\ index # 0 => /\ previous_epoch_slot = epochs[index].slot
                  /\ latest_batch_output = epochs[index]

Written ==
  /\ \A i \in 1..index : epoch_outputs[i] = epochs[i]
  /\ \A i \in 1..Len(epoch_outputs) : i <= index \/ epoch_outputs[i] = ZeroLeaf

Progress ==
  /\ pc = "running" => Len(epoch_outputs) = index /\ (index = 0 \/ index < Len(epochs))
  /\ pc = "padding" => Len(epoch_outputs) = index
  /\ pc \in {"padding", "accepted"} => index = Len(epochs) /\ index # 0
  /\ pc = "rejected" => ~WellFormed

IInv == TypeOK /\ Verified /\ Written /\ Progress
===============================================================================
