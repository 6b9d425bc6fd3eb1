---------------------------- MODULE MCResponse ----------------------------
(* Instances of Response for TLC.                                          *)
EXTENDS Response

\* A command of two words, typed at the prompt "a " and completed at the
\* prompt "b ".
TwoWords == <<"a", " ", "b">>
PromptA == <<"a", " ">>
PromptB == <<"b", " ">>

\* What StdoutIsOutput (EchoProofs) asks of the prompts and the command holds here.
ASSUME EchoesAreUnambiguous == Unambiguous
=============================================================================
