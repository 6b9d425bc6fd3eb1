-------------------------- MODULE ShellRefinement --------------------------
(***************************************************************************)
(* ShellIo implements the shell of module CommandShell.                    *)
(***************************************************************************)
EXTENDS ShellIo

commandCall ==
  [c \in Commands |-> IF calls[c] \in {"awaiting", "resuming"} THEN "waiting" ELSE calls[c]]

Abstract ==
  INSTANCE CommandShell WITH
    call      <- commandCall,
    resyncing <- resync.step # "none",
    gone      <- detached \/ deadNotified \/ resyncFailed

\* Every step of ShellIo is a step of the command shell or none.
ImplementsCommandShell == Abstract!CommandSpec
=============================================================================
