------------------------ MODULE EpochBatchCircuitProofs ------------------------
(***************************************************************************)
(* Proofs about EpochBatchCircuit, for program inputs of every length: the *)
(* recursion accepts exactly the well-formed lists of epochs that verify,  *)
(* and the leaves of its output are those epochs in order, whatever size   *)
(* the hint pads them to.                                                  *)
(***************************************************************************)
EXTENDS EpochBatchCircuit, TLAPS

\* What an element of the program input is.
LEMMA EpochType ==
  \A e \in EpochInputs : /\ e \in EpochOutput
                         /\ e.committee_hash \in Committees
                         /\ e.slot \in Slots
                         /\ e.slot \in Nat
                         /\ e # ZeroLeaf
BY BatchAssumption, SlotsAssumption DEF EpochOutput, Slots

\* A program input is a sequence of its possible elements.
LEMMA InputType == Init => epochs \in Seq(EpochInputs)
BY BatchAssumption DEF Init, SeqOf

LEMMA InitInvariant == Init => IInv
<1> SUFFICES ASSUME Init PROVE IInv
  OBVIOUS
<1>1. TypeOK
  <2>1. epochs \in Seq(EpochInputs)
    BY InputType
  <2>2. committee_hash \in Committees
    BY EpochType DEF Init
  <2>3. 0 \in Slots
    BY SlotsAssumption DEF Slots
  <2>4. Len(epochs) \in Nat
    BY <2>1
  <2> QED
    BY <2>1, <2>2, <2>3, <2>4 DEF Init, TypeOK
<1>2. Verified /\ Written /\ Progress
  BY <1>1 DEF Init, Verified, Written, Progress, TypeOK
<1> QED
  BY <1>1, <1>2 DEF IInv

\* The call that verifies one more epoch.
LEMMA RunEpochInvariant == IInv /\ RunEpoch => IInv'
<1> SUFFICES ASSUME IInv, RunEpoch PROVE IInv'
  OBVIOUS
<1> USE DEF IInv
<1> DEFINE e == epochs[index + 1]
<1>1. /\ pc = "running" /\ index \in Nat /\ index < Len(epochs)
      /\ Len(epochs) \in Nat
      /\ epochs \in Seq(EpochInputs)
      /\ Len(epoch_outputs) = index
      /\ epoch_outputs \in Seq(EpochInputs \cup {ZeroLeaf})
  BY DEF RunEpoch, TypeOK, Progress
<1>2. /\ e \in EpochInputs
      /\ e \in Verifying
      /\ previous_epoch_slot < e.slot
      /\ committee_hash = e.committee_hash
  BY <1>1 DEF RunEpoch, Accepts, AssertSlot, AssertCommittee
<1>3. /\ epochs' = epochs /\ committee_hash' = committee_hash
      /\ index' = index + 1
      /\ epoch_outputs' = Append(epoch_outputs, e)
      /\ previous_epoch_slot' = e.slot
      /\ latest_batch_output' = e
      /\ pc' = IF index + 1 = Len(epochs) THEN "padding" ELSE "running"
  BY DEF RunEpoch, input
<1>4. /\ Len(epoch_outputs') = index + 1
      /\ epoch_outputs' \in Seq(EpochInputs \cup {ZeroLeaf})
      /\ epoch_outputs'[index + 1] = e
      /\ \A i \in 1..index : epoch_outputs'[i] = epoch_outputs[i]
  BY <1>1, <1>2, <1>3
<1>5. TypeOK'
  <2>1. e.slot \in Slots
    BY <1>2, EpochType
  <2> QED
    BY <1>1, <1>2, <1>3, <1>4, <2>1 DEF TypeOK
<1>6. Verified'
  <2>1. /\ previous_epoch_slot \in Nat /\ e.slot \in Nat
        /\ \A i \in 1..index : epochs[i].slot \in Nat
    BY <1>1, <1>2, EpochType, SlotsAssumption DEF TypeOK, Slots
  <2>2. \A i \in 1..index : epochs[i].slot < e.slot
    BY <1>1, <1>2, <2>1 DEF Verified
  <2>3. 0 < e.slot
    BY <1>2, <2>1
  <2>4. 1..(index + 1) = (1..index) \cup {index + 1}
    BY <1>1
  <2>5. \A i \in 1..(index + 1) : /\ epochs[i] \in Verifying
                                  /\ epochs[i].committee_hash = committee_hash
                                  /\ 0 < epochs[i].slot
                                  /\ epochs[i].slot <= e.slot
    BY <1>2, <2>1, <2>2, <2>3, <2>4 DEF Verified
  <2>6. \A i, j \in 1..(index + 1) :
          i < j => epochs[i].slot < epochs[j].slot
    <3>1. \A i, j \in 1..(index + 1) :
            i < j => i \in 1..index /\ (j \in 1..index \/ j = index + 1)
      BY <1>1
    <3>2. \A i, j \in 1..index :
            i < j => epochs[i].slot < epochs[j].slot
      BY DEF Verified
    <3> QED
      BY <2>2, <3>1, <3>2
  <2>7. index + 1 # 0
    BY <1>1
  <2> QED
    BY <1>3, <2>5, <2>6, <2>7 DEF Verified
<1>7. Written'
  BY <1>1, <1>3, <1>4 DEF Written
<1>8. Progress'
  BY <1>1, <1>3, <1>4 DEF Progress
<1> QED
  BY <1>5, <1>6, <1>7, <1>8

\* The call in which an assert fails: the input has a flaw there.
LEMMA FailInvariant == IInv /\ Fail => IInv'
<1> SUFFICES ASSUME IInv, Fail PROVE IInv'
  OBVIOUS
<1> USE DEF IInv
<1>1. /\ pc' = "rejected"
      /\ UNCHANGED <<epochs, committee_hash, index, previous_epoch_slot,
                     epoch_outputs, latest_batch_output>>
  BY DEF Fail, input
<1>2. TypeOK' /\ Written'
  BY <1>1 DEF TypeOK, Written
<1>3. Verified'
  BY <1>1 DEF Verified
<1>4. ~WellFormed
  <2> SUFFICES ASSUME WellFormed PROVE FALSE
    OBVIOUS
  <2>1. /\ index \in Nat /\ Len(epochs) \in Nat /\ epochs \in Seq(EpochInputs)
        /\ Len(epochs) # 0
    BY DEF TypeOK, WellFormed
  <2>2. index < Len(epochs) /\ index + 1 \in 1..Len(epochs)
    BY <2>1 DEF Fail, Progress
  <2> DEFINE e == epochs[index + 1]
  <2>3. e \in Verifying /\ AssertCommittee(e)
    BY <2>2 DEF WellFormed, AssertCommittee
  <2>4. previous_epoch_slot < e.slot
    <3>1. CASE index = 0
      BY <2>2, <3>1 DEF Verified, WellFormed
    <3>2. CASE index # 0
      <4>1. index \in 1..Len(epochs) /\ index < index + 1
        BY <2>1, <2>2, <3>2
      <4> QED
        BY <2>2, <3>2, <4>1 DEF Verified, WellFormed
    <3> QED
      BY <3>1, <3>2
  <2> QED
    BY <2>2, <2>3, <2>4 DEF Fail, Accepts, AssertSlot
<1>5. Progress'
  BY <1>1, <1>4 DEF Progress, WellFormed
<1> QED
  BY <1>2, <1>3, <1>5

\* The leaves padded to some size.
PaddedTo(n) == [i \in 1..n |-> IF i <= Len(epochs) THEN epoch_outputs[i] ELSE ZeroLeaf]

\* No cell of the tree is left to the prover.
LEMMA PadEffect ==
  ASSUME TypeOK, Pad
  PROVE  \E n \in Sizes : n >= Len(epochs) /\ epoch_outputs' = PaddedTo(n)
<1>1. Len(epochs) \in Nat
  BY DEF TypeOK
<1> DEFINE zeros(n)   == FirstPadded(Len(epochs))..n
           unbound(n) == (1..n) \ (1..Len(epochs) \cup zeros(n))
<1>2. PICK n \in Sizes : /\ Fits(n)
                         /\ \E free \in [unbound(n) -> EpochInputs \cup {ZeroLeaf}] :
                              epoch_outputs' = [i \in 1..n |->
                                CASE i \in unbound(n) -> free[i]
                                  [] i \in zeros(n)   -> ZeroLeaf
                                  [] OTHER            -> epoch_outputs[i]]
  BY DEF Pad
<1>3. n \in Nat /\ n >= Len(epochs)
  BY <1>2, BatchAssumption DEF Fits
<1>4. \A i \in 1..n : i \notin unbound(n) /\ (i \in zeros(n) <=> ~ (i <= Len(epochs)))
  BY <1>1, <1>3 DEF FirstPadded
<1> HIDE DEF zeros, unbound
<1>5. epoch_outputs' = PaddedTo(n)
  BY <1>2, <1>4 DEF PaddedTo
<1> QED
  BY <1>3, <1>5

\* Padding keeps the leaves written and adds nothing but zeros.
LEMMA PadInvariant == IInv /\ Pad => IInv'
<1> SUFFICES ASSUME IInv, Pad PROVE IInv'
  OBVIOUS
<1> USE DEF IInv
<1>1. /\ pc' = "accepted" /\ pc = "padding"
      /\ UNCHANGED <<epochs, committee_hash, index, previous_epoch_slot,
                     latest_batch_output>>
  BY DEF Pad, input
<1>size. PICK n \in Sizes : n >= Len(epochs) /\ epoch_outputs' = PaddedTo(n)
  BY PadEffect
<1> DEFINE outputs == PaddedTo(n)
<1> USE DEF PaddedTo
<1>2. /\ epoch_outputs' = outputs
      /\ n \in Nat /\ n >= index
      /\ index = Len(epochs) /\ index \in Nat /\ index # 0
      /\ Len(epoch_outputs) = index
      /\ epoch_outputs \in Seq(EpochInputs \cup {ZeroLeaf})
  BY <1>size, <1>1, BatchAssumption DEF TypeOK, Progress
<1>3. \A i \in 1..n : outputs[i] \in EpochInputs \cup {ZeroLeaf}
  BY <1>2
<1>4. outputs \in Seq(EpochInputs \cup {ZeroLeaf}) /\ Len(outputs) = n
  BY <1>2, <1>3
<1>5. TypeOK'
  BY <1>1, <1>2, <1>4 DEF TypeOK
<1>6. Verified'
  BY <1>1 DEF Verified
<1>7. Written'
  <2>1. \A i \in 1..index : outputs[i] = epochs[i]
    BY <1>2 DEF Written
  <2>2. \A i \in 1..n : i <= index \/ outputs[i] = ZeroLeaf
    BY <1>2
  <2> QED
    BY <1>1, <1>2, <1>4, <2>1, <2>2 DEF Written
<1>8. Progress'
  BY <1>1, <1>2 DEF Progress
<1> QED
  BY <1>5, <1>6, <1>7, <1>8

LEMMA StutterInvariant == IInv /\ UNCHANGED vars => IInv'
BY DEF IInv, TypeOK, Verified, Written, Progress, vars, input, WellFormed

\* IInv holds at every point of every run.
THEOREM Invariance == Spec => []IInv
<1>1. IInv /\ [Next]_vars => IInv'
  BY RunEpochInvariant, FailInvariant, PadInvariant,
     StutterInvariant DEF Next
<1> QED
  BY <1>1, InitInvariant, PTL DEF Spec

---------------------------------------------------------------------------

\* The leaves of the tree that are not padding.
LEMMA AcceptedLeaves ==
  ASSUME IInv, pc = "accepted"
  PROVE  /\ Output.leaves = {epochs[i] : i \in 1..index}
         /\ index = Len(epochs) /\ index \in Nat
<1> USE DEF IInv
<1>1. /\ index \in Nat /\ index # 0 /\ index = Len(epochs)
      /\ epochs \in Seq(EpochInputs)
      /\ epoch_outputs \in Seq(EpochInputs \cup {ZeroLeaf})
      /\ Len(epoch_outputs) \in Nat /\ index <= Len(epoch_outputs)
      /\ DOMAIN epoch_outputs = 1..Len(epoch_outputs)
  BY DEF TypeOK, Progress
<1>2. \A i \in 1..index : epochs[i] \in EpochInputs /\ epochs[i] # ZeroLeaf
  BY <1>1, EpochType
<1> QED
  BY <1>1, <1>2 DEF Output, ToSet, Written

\* The leaves of an accepted batch all passed the epoch program, in the order of
\* their slots, under one committee, the last one repeated in the output: for
\* every input, however long, and every size the hint may name.
THEOREM Acceptance == Spec => []AcceptedIsProvable
<1>1. IInv => AcceptedIsProvable
  <2> SUFFICES ASSUME IInv, pc = "accepted"
               PROVE  BatchProvable(Output) /\ Output.leaves \subseteq Verifying
    BY DEF AcceptedIsProvable
  <2> USE DEF IInv
  <2>1. /\ index \in Nat /\ index # 0 /\ index = Len(epochs)
        /\ epochs \in Seq(EpochInputs)
        /\ epoch_outputs \in Seq(EpochInputs \cup {ZeroLeaf})
        /\ Len(epoch_outputs) \in Nat /\ index <= Len(epoch_outputs)
        /\ DOMAIN epoch_outputs = 1..Len(epoch_outputs)
    BY DEF TypeOK, Progress
  <2>2. \A i \in 1..index : epochs[i] \in EpochInputs /\ epochs[i] # ZeroLeaf
    BY <2>1, EpochType
  <2>3. Output.leaves = {epochs[i] : i \in 1..index}
    BY AcceptedLeaves
  <2>4. Output.last = epochs[index]
    BY <2>1 DEF Output, Verified
  <2>5. Output.last \in Output.leaves
    BY <2>1, <2>3, <2>4
  <2>6. \A l \in Output.leaves : l \in Verifying /\ 0 < l.slot
    BY <2>3 DEF Verified
  <2>7. BatchInOrder(Output)
    <3>1. \A i, j \in 1..index :
            /\ epochs[i].slot \in Nat
            /\ i = j \/ i < j \/ j < i
      BY <2>1, <2>2, EpochType
    <3>2. \A i \in 1..index : i = index \/ i < index
      BY <2>1
    <3>3. \A i \in 1..index : \/ epochs[i] = epochs[index]
                              \/ epochs[i].slot < epochs[index].slot
      BY <2>1, <3>2 DEF Verified
    <3>4. \A i, j \in 1..index :
            epochs[i].slot = epochs[j].slot => epochs[i] = epochs[j]
      BY <3>1 DEF Verified
    <3> QED
      BY <2>3, <2>4, <3>3, <3>4 DEF BatchInOrder
  <2>8. OneCommittee(Output)
    BY <2>1, <2>3, <2>4 DEF OneCommittee, Verified
  <2> QED
    BY <2>5, <2>6, <2>7, <2>8 DEF BatchProvable
<1> QED
  BY <1>1, Invariance, PTL

\* The counters and outputs of a run keep their types, however long the input.
THEOREM TypeCorrect == Spec => []TypeOK
<1>1. IInv => TypeOK
  BY DEF IInv
<1> QED
  BY <1>1, Invariance, PTL

\* Of the epochs that verify, the program accepts every list of one committee in
\* the order of slots and no other list.
THEOREM Exactness == Spec => []AcceptsExactlyWellFormed
<1>1. IInv => AcceptsExactlyWellFormed
  BY DEF IInv, TypeOK, Verified, Progress, WellFormed, AcceptsExactlyWellFormed
<1> QED
  BY <1>1, Invariance, PTL

\* Every epoch of an accepted batch is the leaf at its position, and there is no
\* other leaf but padding, for every length of the input and every size the hint
\* may name.
THEOREM Leaves == Spec => []LeavesAreEpochs
<1>1. IInv => LeavesAreEpochs
  <2> SUFFICES ASSUME IInv, pc = "accepted"
               PROVE  /\ \A i \in 1..Len(epochs) : epoch_outputs[i] = epochs[i]
                      /\ Output.leaves = ToSet(epochs)
    BY DEF LeavesAreEpochs
  <2>1. Output.leaves = {epochs[i] : i \in 1..index} /\ index = Len(epochs)
    BY AcceptedLeaves
  <2>2. DOMAIN epochs = 1..Len(epochs)
    BY DEF IInv, TypeOK
  <2> QED
    BY <2>1, <2>2 DEF IInv, Written, ToSet
<1> QED
  BY <1>1, Invariance, PTL
===============================================================================
