------------------------------ MODULE ForkDomain ------------------------------
(***************************************************************************)
(* The signing domain the circuit takes for a header, next to the one the  *)
(* committee signed under, for every header and aggregate a fetch may pair.*)
(* A fork is known by its number, in the order of activation; a domain is  *)
(* known by its fork.                                                      *)
(***************************************************************************)
EXTENDS BeaconFetch, Sequences, FiniteSets

CONSTANT ForkEpochs   \* activation epochs: Altair, Bellatrix, Capella, Deneb

ASSUME ForkAssumption ==
  /\ ForkEpochs \in Seq(Nat)
  /\ \A i, j \in DOMAIN ForkEpochs : i < j => ForkEpochs[i] < ForkEpochs[j]

\* ALTAIR_ACTIVATION_SLOT and its successors.
ActivationSlot(fork) == ForkEpochs[fork] * SlotsPerEpoch

\* Wrong: the activation slot still belongs to the fork before.
LateFork(s) == Cardinality({i \in DOMAIN ForkEpochs : ActivationSlot(i) < s})

\* The fork the hint finds; 0 is the network before its first fork.
HintFork(s) == Cardinality({i \in DOMAIN ForkEpochs : ActivationSlot(i) <= s})

\* The differences the circuit range checks.  The last fork has none.
InRange(fork, s) ==
  fork < Len(ForkEpochs) =>
    /\ s <= ActivationSlot(fork + 1)
    /\ fork > 0 => s >= ActivationSlot(fork)

NoDomain == "range check failed"

GetDomain(s) == IF InRange(HintFork(s), s) THEN HintFork(s) ELSE NoDomain

\* What validators sign the block of slot t with: the fork of the epoch of the
\* slot before.
SigningDomain(t) ==
  Cardinality({i \in DOMAIN ForkEpochs : ForkEpochs[i] <= (t - 1) \div SlotsPerEpoch})

---------------------------------------------------------------------------
\* The circuit takes the fork of the header's own slot, the committee that of
\* the slot before the aggregate.  For the epochs the commands prove they are
\* the same: no pattern of missed slots and retries puts a fork between them.
DomainIsSigners ==
  Fetched("epoch") /\ start % SlotsPerEpoch = 0 =>
    GetDomain(header) = SigningDomain(aggregate)
===============================================================================
