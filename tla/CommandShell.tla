---------------------------- MODULE CommandShell ----------------------------
(***************************************************************************)
(* What ShellIo promises the client, without waiters, timers, lines or     *)
(* keys: commands run one at a time; one that is given up leaves the shell *)
(* to be resynchronised, and no command runs until that is over; a shell   *)
(* that is gone runs none.  Client uses the shell in these terms.          *)
(***************************************************************************)
CONSTANT Commands

VARIABLES
  call,       \* of each command: "idle", "waiting", "running" or its outcome
  resyncing,
  gone        \* closed, dead, or not to be recovered

commandVars == <<call, resyncing, gone>>

CommandInit ==
  /\ call = [c \in Commands |-> "idle"]
  /\ resyncing = FALSE
  /\ gone = FALSE

Becomes(c, what) == call' = [call EXCEPT ![c] = what]

Running == {c \in Commands : call[c] = "running"}

\* A command is refused when withdrawn or when the shell is gone.
Refuse(c) ==
  /\ call[c] \in {"idle", "waiting"}
  /\ Becomes(c, "closed")
  /\ UNCHANGED <<resyncing, gone>>

Await(c) ==
  /\ call[c] = "idle"
  /\ resyncing
  /\ ~gone
  /\ Becomes(c, "waiting")
  /\ UNCHANGED <<resyncing, gone>>

\* One who comes while the shell is taken is turned away.
Collide(c) ==
  /\ call[c] \in {"idle", "waiting"}
  /\ Running # {} \/ resyncing
  /\ Becomes(c, "invalid")
  /\ UNCHANGED <<resyncing, gone>>

Start(c) ==
  /\ call[c] \in {"idle", "waiting"}
  /\ Running = {}
  /\ ~resyncing
  /\ ~gone
  /\ Becomes(c, "running")
  /\ UNCHANGED <<resyncing, gone>>

\* It completes, needs too many pages, or fails with its channel: the shell
\* is left as it is.
End(c) ==
  /\ call[c] = "running"
  /\ \E outcome \in {"ok", "limit", "closed"} : Becomes(c, outcome)
  /\ UNCHANGED <<resyncing, gone>>

GiveUp(c) ==
  /\ call[c] = "running"
  /\ \E outcome \in {"timeout", "closed"} : Becomes(c, outcome)
  /\ resyncing' = TRUE
  /\ UNCHANGED gone

\* The shell goes, and with it the command that runs.
Go(outcome) ==
  /\ gone' = TRUE
  /\ call' = [c \in Commands |-> IF call[c] = "running" THEN outcome ELSE call[c]]
  /\ UNCHANGED resyncing

ResyncEnds ==
  /\ resyncing
  /\ resyncing' = FALSE
  /\ gone' \in {gone, TRUE}
  /\ UNCHANGED call

CommandNext ==
  \/ \E c \in Commands :
       Refuse(c) \/ Await(c) \/ Collide(c) \/ Start(c) \/ End(c) \/ GiveUp(c)
  \/ \E outcome \in {"limit", "closed"} : Go(outcome)
  \/ ResyncEnds

CommandSpec == CommandInit /\ [][CommandNext]_commandVars
=============================================================================
