---------------------------- MODULE Connection ----------------------------
(***************************************************************************)
(* What SshSession promises its callers, without attempts, sockets or      *)
(* timers: one connection that callers share.  Those who ask while it is   *)
(* being established wait together and get one common answer; each may     *)
(* leave on its own; whoever asks for an open connection has it.           *)
(* Session implements this (see SessionRefinement).                        *)
(***************************************************************************)
CONSTANTS
  Callers,  \* requests for the connection
  Failures  \* the answers other than "ok"

VARIABLES
  state,   \* of the connection
  answer   \* of each request: "idle", "pending", "ok" or a failure

connectionVars == <<state, answer>>

ConnectionInit ==
  /\ state = "closed"
  /\ answer = [c \in Callers |-> "idle"]

Waiting == {c \in Callers : answer[c] = "pending"}

AnswerAll(a) == [c \in Callers |-> IF c \in Waiting THEN a ELSE answer[c]]

\* A request is granted by an open connection, and otherwise waits: the
\* first to wait starts it.
Request(c) ==
  /\ answer[c] = "idle"
  /\ answer' = [answer EXCEPT ![c] = IF state = "open" THEN "ok" ELSE "pending"]
  /\ state' = IF state = "closed" THEN "connecting" ELSE state

\* A request withdrawn before it was made.
Refuse(c) ==
  /\ answer[c] = "idle"
  /\ answer' = [answer EXCEPT ![c] = "closed"]
  /\ UNCHANGED state

\* One caller stops waiting; the last to do so stops the connection.
Leave(c) ==
  /\ c \in Waiting
  /\ answer' = [answer EXCEPT ![c] = "closed"]
  /\ state' = IF Waiting = {c} THEN "closed" ELSE state

Establish ==
  /\ state = "connecting"
  /\ state' = "open"
  /\ answer' = AnswerAll("ok")

Collapse(failure) ==
  /\ state = "connecting"
  /\ state' = "closed"
  /\ answer' = AnswerAll(failure)

Drop ==
  /\ state = "open"
  /\ state' = "closed"
  /\ UNCHANGED answer

ConnectionNext ==
  \/ \E c \in Callers : Request(c) \/ Refuse(c) \/ Leave(c)
  \/ Establish
  \/ \E failure \in Failures : Collapse(failure)
  \/ Drop

ConnectionSpec == ConnectionInit /\ [][ConnectionNext]_connectionVars
=============================================================================
