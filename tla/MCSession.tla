----------------------------- MODULE MCSession -----------------------------
(* Instances of Session for TLC.                                           *)
EXTENDS SessionRefinement, TLC

\* Callers and disconnects are interchangeable: sound for safety only.
Symmetry == Permutations(Callers) \cup Permutations(Disconnects)

\* An error that says nothing: where the codes are not the question.
PlainErrors == {[level |-> "none", saysTimedOut |-> FALSE, saysAuth |-> FALSE]}
=============================================================================
