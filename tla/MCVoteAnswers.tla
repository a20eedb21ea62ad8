--------------------------- MODULE MCVoteAnswers ---------------------------
(* Constants for model-checking VoteAnswers.                               *)
EXTENDS VoteAnswers

CONSTANTS dev

\* Every installation was registered from the same machine.
SameDevice == [i \in Installation |-> dev]

\* The pure part of the wire contract, over bounded counts: calculations, not premises.
ASSUME PureChecked == StatesFitBands(100) /\ FirstFramesParse(100, TokenPerIncense)
=============================================================================
