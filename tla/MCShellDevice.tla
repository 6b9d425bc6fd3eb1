--------------------------- MODULE MCShellDevice ---------------------------
(* Instances of ShellDevice for TLC.                                       *)
EXTENDS ShellDevice, TLC

Symmetry == Permutations(Commands)

NoRegex == {}
NoChunks == {}
=============================================================================
