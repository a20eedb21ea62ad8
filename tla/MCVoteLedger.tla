---------------------------- MODULE MCVoteLedger ---------------------------
(* Constants for model-checking the vote ledger with the answers it gives. *)
EXTENDS WireAnswers, TLC

CONSTANTS dev

\* Every installation was registered from the same machine.
SameDevice == [i \in Installation |-> dev]

\* Request ids are only compared for equality.
Symmetry == Permutations(Request)
=============================================================================
