------------------------------- MODULE Client -------------------------------
(***************************************************************************)
(* client.ts and queue.ts: SshClient.  exec() calls queue up and use the   *)
(* session one after the other; disconnect() is a barrier.  The session is *)
(* module Session itself; the shell (shell-io.ts) is reduced to what the   *)
(* client sees of runCommand: a command waits for a resync, is written,    *)
(* and settles, and a timeout or an abort starts a resync.                 *)
(*                                                                         *)
(* A command that runs on a shell whose attempt is torn down has already   *)
(* been rejected by detach(); ShellRejects is the continuation.            *)
(***************************************************************************)
EXTENDS Session, Sequences

CONSTANT Execs  \* calls of exec(); the other callers are calls of connect()

ASSUME ExecsAssumption == Execs \subseteq Callers
ASSUME DisconnectsAssumption == IsFiniteSet(Disconnects)

Connects == Callers \ Execs

VARIABLES
  accepting,  \* #accepting
  epoch,      \* #epoch
  queue,      \* the promise chain of createQueue
  exec,       \* each exec() call
  connect,    \* each connect() call: its epoch and promise
  barrier,    \* the epoch of each disconnect()
  resyncing,  \* ShellIo.resyncing of each attempt's shell
  unclean     \* history: the shells where something of a command is left

clientVars == <<accepting, epoch, queue, exec, connect, barrier, resyncing, unclean>>
vars == <<sessionVars, clientVars>>

(* pc: where the queued function stands; `io' is the attempt whose shell   *)
(* runCommand was called on, `outcome' what the function settles with and  *)
(* `result' the promise the caller holds, which an abort settles at once.  *)
ClientInit ==
  /\ Init
  /\ accepting = TRUE
  /\ epoch = 0
  /\ queue = <<>>
  /\ exec = [e \in Execs |-> [pc |-> "idle", epoch |-> 0, io |-> NoAttempt,
                              outcome |-> "none", result |-> "none"]]
  /\ connect = [c \in Connects |-> [epoch |-> 0, result |-> "none"]]
  /\ barrier = [d \in Disconnects |-> 0]
  /\ resyncing = [a \in Attempts |-> FALSE]
  /\ unclean = {}

-----------------------------------------------------------------------------
(* exec(): the call, and the function it queues.                           *)

\* The command is taken to be valid: an invalid one is rejected at once and
\* changes nothing.
Exec(e) ==
  /\ exec[e].pc = "idle"
  /\ IF ~accepting \/ e \in aborted
       THEN /\ exec' = [exec EXCEPT ![e].pc = "done", ![e].result = "closed"]
            /\ queue' = queue
       ELSE /\ exec' = [exec EXCEPT ![e].pc = "queued", ![e].epoch = epoch,
                                    ![e].result = "pending"]
            /\ queue' = Append(queue, e)
  /\ UNCHANGED <<sessionVars, accepting, epoch, connect, barrier, resyncing, unclean>>

\* Seeded fault: the functions do not wait for one another.
HasTurn_Always(e) == TRUE

\* The function of e runs once those queued before it have settled.
HasTurn(e) == queue # <<>> /\ Head(queue) = e

\* Seeded fault: the epoch of the call is not compared.
Refused_NoEpoch(e) == e \in aborted \/ exec[e].result # "pending" \/ ~accepting

\* The two checks made before the connect and again before the command.
Refused(e) ==
  \/ e \in aborted
  \/ exec[e].result # "pending"
  \/ ~accepting
  \/ exec[e].epoch # epoch

Settles(e, outcome) ==
  exec' = [exec EXCEPT ![e].pc = "settling", ![e].outcome = outcome]

\* A command that was written is on the shell until its prompt is back.
Written(e) ==
  unclean' = IF exec'[e].pc = "running" THEN unclean \cup {exec'[e].io} ELSE unclean

\* stream.write of the command; when it throws, nothing has been sent and the
\* waiter fails at once.
WriteCommand(e, a) ==
  \/ exec' = [exec EXCEPT ![e].pc = "running", ![e].io = a]
  \/ exec' = [exec EXCEPT ![e].pc = "settling", ![e].io = a, ![e].outcome = "closed"]

\* getIo().runCommand(), up to its first await.
RunCommand(e) ==
  IF ~IsOpen THEN Settles(e, "closed")
  ELSE IF resyncing[active]
    THEN exec' = [exec EXCEPT ![e].pc = "awaitingResync", ![e].io = active]
    ELSE WriteCommand(e, active)

StartOnOpenSession(e) ==
  /\ HasTurn(e)
  /\ exec[e].pc = "queued"
  /\ Refused(e) \/ IsOpen
  /\ IF Refused(e) THEN Settles(e, "closed") ELSE RunCommand(e)
  /\ Written(e)
  /\ UNCHANGED <<sessionVars, accepting, epoch, queue, connect, barrier, resyncing>>

StartWithConnect(e) ==
  /\ HasTurn(e)
  /\ exec[e].pc = "queued"
  /\ ~Refused(e)
  /\ ~IsOpen
  /\ Connect(e)
  /\ exec' = [exec EXCEPT ![e].pc = "connecting"]
  /\ UNCHANGED <<accepting, epoch, queue, connect, barrier, resyncing, unclean>>

\* Seeded fault: the connect is not awaited.
Connected_NoAwait(e) ==
  /\ exec[e].pc = "connecting"
  /\ IF call[e] # "ok" THEN Settles(e, call[e])
     ELSE IF Refused(e) THEN Settles(e, "closed")
     ELSE RunCommand(e)
  /\ Written(e)
  /\ UNCHANGED <<sessionVars, accepting, epoch, queue, connect, barrier, resyncing>>

\* The function goes on when the promise of session.connect() has settled.
Connected(e) ==
  /\ exec[e].pc = "connecting"
  /\ call[e] \in Outcomes
  /\ IF call[e] # "ok" THEN Settles(e, call[e])
     ELSE IF Refused(e) THEN Settles(e, "closed")
     ELSE RunCommand(e)
  /\ Written(e)
  /\ UNCHANGED <<sessionVars, accepting, epoch, queue, connect, barrier, resyncing>>

\* Seeded fault: the signal is not read again after the resync.
AfterResync_NoSignal(e) ==
  LET a == exec[e].io
  IN /\ exec[e].pc = "awaitingResync"
     /\ ~resyncing[a] \/ attempt[a].tornDown
     /\ IF attempt[a].tornDown THEN Settles(e, "closed") ELSE WriteCommand(e, a)
     /\ Written(e)
     /\ UNCHANGED <<sessionVars, accepting, epoch, queue, connect, barrier, resyncing>>

\* runCommand goes on when the resync is over.  It looks at the signal and
\* at its own shell; the client's epoch is not read again.
AfterResync(e) ==
  LET a == exec[e].io
  IN /\ exec[e].pc = "awaitingResync"
     /\ ~resyncing[a] \/ attempt[a].tornDown
     /\ IF e \in aborted \/ attempt[a].tornDown
          THEN Settles(e, "closed")
          ELSE WriteCommand(e, a)
     /\ Written(e)
     /\ UNCHANGED <<sessionVars, accepting, epoch, queue, connect, barrier, resyncing>>

\* Seeded fault: the chain goes on after a success only.
ExecSettles_ChainBreaks(e) ==
  /\ exec[e].pc = "settling"
  /\ queue' = IF exec[e].outcome = "ok" THEN Tail(queue) ELSE queue
  /\ exec' = [exec EXCEPT ![e].pc = "done",
       ![e].result = IF @ = "pending" THEN exec[e].outcome ELSE @]
  /\ UNCHANGED <<sessionVars, accepting, epoch, connect, barrier, resyncing, unclean>>

\* The function's promise has settled: the next in the queue has its turn
\* and `finish' settles the caller, unless an abort has.
\* (The two reactions are queued back to back: nothing runs in between.)
ExecSettles(e) ==
  /\ exec[e].pc = "settling"
  /\ queue' = Tail(queue)
  /\ exec' = [exec EXCEPT ![e].pc = "done",
       ![e].result = IF @ = "pending" THEN exec[e].outcome ELSE @]
  /\ UNCHANGED <<sessionVars, accepting, epoch, connect, barrier, resyncing, unclean>>

-----------------------------------------------------------------------------
(* The command on the shell.                                               *)

OnLiveShell(e) == exec[e].pc = "running" /\ ~attempt[exec[e].io].tornDown

CommandCompletes(e) ==
  /\ OnLiveShell(e)
  /\ \/ Settles(e, "ok")
     \/ Settles(e, "limit")  \* too many pages: the session is kept
  /\ unclean' = unclean \ {exec[e].io}
  /\ UNCHANGED <<sessionVars, accepting, epoch, queue, connect, barrier, resyncing>>

\* The command's timeout, or its idle timeout: resync starts.
CommandTimesOut(e) ==
  /\ OnLiveShell(e)
  /\ Settles(e, "timeout")
  /\ resyncing' = [resyncing EXCEPT ![exec[e].io] = TRUE]
  /\ UNCHANGED <<sessionVars, accepting, epoch, queue, connect, barrier, unclean>>

\* Too much output, or the pager cannot be answered: the shell dies.
CommandKillsShell(e) ==
  /\ OnLiveShell(e)
  /\ \E outcome \in {"limit", "closed"} : Settles(e, outcome)
  /\ ShellDead(exec[e].io)
  /\ UNCHANGED <<accepting, epoch, queue, connect, barrier, resyncing, unclean>>

ShellRejects(e) ==
  /\ exec[e].pc = "running"
  /\ attempt[exec[e].io].tornDown
  /\ Settles(e, "closed")
  /\ UNCHANGED <<sessionVars, accepting, epoch, queue, connect, barrier, resyncing, unclean>>

\* The prompt came back, or it did not in time and the shell dies.
ResyncEnds(a) ==
  /\ resyncing[a]
  /\ ~attempt[a].tornDown
  /\ resyncing' = [resyncing EXCEPT ![a] = FALSE]
  /\ \/ UNCHANGED sessionVars /\ unclean' = unclean \ {a}
     \/ ShellDead(a) /\ unclean' = unclean
  /\ UNCHANGED <<accepting, epoch, queue, exec, connect, barrier>>

\* Seeded fault: runCommand is not given the signal.
AbortExec_ShellUntold(e) ==
  LET r == exec[e]
      rejected == [r EXCEPT !.result = IF @ = "pending" THEN "closed" ELSE @]
  IN /\ e \notin aborted
     /\ r.pc # "done"
     /\ aborted' = aborted \cup {e}
     /\ exec' = [exec EXCEPT ![e] = rejected]
     /\ SubscriberAbort(e)
     /\ UNCHANGED <<nextId, disc, awaits, accepting, epoch, queue, connect, barrier,
                    resyncing, unclean>>

\* The signal of an exec fires: the caller is rejected at once, its place
\* in the session's connect or its command on the shell is given up.
AbortExec(e) ==
  LET r == exec[e]
      rejected == [r EXCEPT !.result = IF @ = "pending" THEN "closed" ELSE @]
  IN /\ e \notin aborted
     /\ r.pc # "done"
     /\ aborted' = aborted \cup {e}
     /\ IF OnLiveShell(e)
          THEN /\ exec' = [exec EXCEPT ![e] =
                    [rejected EXCEPT !.pc = "settling", !.outcome = "closed"]]
               /\ resyncing' = [resyncing EXCEPT ![r.io] = TRUE]
          ELSE /\ exec' = [exec EXCEPT ![e] = rejected]
               /\ resyncing' = resyncing
     /\ SubscriberAbort(e)
     /\ UNCHANGED <<nextId, disc, awaits, accepting, epoch, queue, connect, barrier, unclean>>

-----------------------------------------------------------------------------
(* connect() and disconnect().                                             *)

ClientConnect(c) ==
  /\ connect[c].result = "none"
  /\ IF accepting
       THEN /\ Connect(c)
            /\ connect' = [connect EXCEPT ![c] = [epoch |-> epoch, result |-> "pending"]]
       ELSE /\ connect' = [connect EXCEPT ![c].result = "closed"]
            /\ UNCHANGED sessionVars
  /\ UNCHANGED <<accepting, epoch, queue, exec, barrier, resyncing, unclean>>

\* Seeded fault: a rejection is swallowed.
ConnectReturns_OkOnly(c) ==
  /\ connect[c].result = "pending"
  /\ call[c] = "ok"
  /\ connect' = [connect EXCEPT ![c].result = "ok"]
  /\ UNCHANGED <<sessionVars, accepting, epoch, queue, exec, barrier, resyncing, unclean>>

ConnectReturns(c) ==
  /\ connect[c].result = "pending"
  /\ call[c] \in Outcomes
  /\ connect' = [connect EXCEPT ![c].result =
       IF call[c] = "ok" /\ connect[c].epoch # epoch THEN "closed" ELSE call[c]]
  /\ UNCHANGED <<sessionVars, accepting, epoch, queue, exec, barrier, resyncing, unclean>>

\* Seeded fault: the epoch is remembered as it was before the increment.
ClientDisconnect_OldEpoch(d) ==
  /\ Disconnect(d)
  /\ accepting' = FALSE
  /\ epoch' = epoch + 1
  /\ barrier' = [barrier EXCEPT ![d] = epoch]
  /\ UNCHANGED <<queue, exec, connect, resyncing, unclean>>

ClientDisconnect(d) ==
  /\ Disconnect(d)
  /\ accepting' = FALSE
  /\ epoch' = epoch + 1
  /\ barrier' = [barrier EXCEPT ![d] = epoch']
  /\ UNCHANGED <<queue, exec, connect, resyncing, unclean>>

\* finally(): only the latest disconnect() lifts the barrier.
ClientDisconnectReturns(d) ==
  /\ DisconnectReturns(d)
  /\ accepting' = (accepting \/ barrier[d] = epoch)
  /\ UNCHANGED <<epoch, queue, exec, connect, barrier, resyncing, unclean>>

\* What becomes of the shell is said above by the commands and the resync.
ClientTransport(a) ==
  /\ Transport(a)
  /\ UNCHANGED clientVars

ClientNext ==
  \/ \E e \in Execs :
       \/ Exec(e) \/ StartOnOpenSession(e) \/ StartWithConnect(e) \/ Connected(e)
       \/ AfterResync(e) \/ ExecSettles(e) \/ AbortExec(e)
       \/ CommandCompletes(e) \/ CommandTimesOut(e) \/ CommandKillsShell(e)
       \/ ShellRejects(e)
  \/ \E c \in Connects : ClientConnect(c) \/ ConnectReturns(c)
  \/ \E d \in Disconnects : ClientDisconnect(d) \/ ClientDisconnectReturns(d)
  \/ \E a \in Created : ClientTransport(a) \/ ResyncEnds(a)

ClientSpec == ClientInit /\ [][ClientNext]_vars

-----------------------------------------------------------------------------
(* Fairness: continuations run, and a command and a resync have timers.    *)

ExecProgress(e) ==
  \/ StartOnOpenSession(e) \/ StartWithConnect(e) \/ Connected(e) \/ AfterResync(e)
  \/ CommandTimesOut(e) \/ ShellRejects(e) \/ ExecSettles(e)

ClientFairness ==
  /\ Fairness
  /\ \A e \in Execs : WF_vars(ExecProgress(e))
  /\ \A c \in Connects : WF_vars(ConnectReturns(c))
  /\ \A a \in Attempts : WF_vars(ResyncEnds(a))

FairClientSpec == ClientSpec /\ ClientFairness

-----------------------------------------------------------------------------
(* Properties.                                                             *)

InSession == {"connecting", "awaitingResync", "running", "settling"}

\* The values each variable takes.
ClientTypeOK ==
  /\ TypeOK
  /\ accepting \in BOOLEAN
  /\ epoch \in 0 .. Cardinality(Disconnects)
  /\ queue \in Seq(Execs)
  /\ exec \in [Execs ->
       [pc      : {"idle", "queued", "done"} \cup InSession,
        epoch   : 0 .. Cardinality(Disconnects),
        io      : {NoAttempt} \cup Attempts,
        outcome : {"none"} \cup Outcomes,
        result  : {"none", "pending"} \cup Outcomes]]
  /\ connect \in [Connects ->
       [epoch  : 0 .. Cardinality(Disconnects),
        result : {"none", "pending"} \cup Outcomes]]
  /\ barrier \in [Disconnects -> 0 .. Cardinality(Disconnects)]
  /\ resyncing \in [Attempts -> BOOLEAN]
  /\ unclean \subseteq Attempts

\* One command at a time, and none while its shell resyncs: a command that
\* runs has the open session's shell to itself, or its shell is gone.
OneCommandPerShell ==
  /\ \A e, f \in Execs :
       exec[e].pc \in InSession /\ exec[f].pc \in InSession => e = f
  /\ \A e \in Execs :
       OnLiveShell(e) => exec[e].io = active /\ ~resyncing[active]

\* Once no disconnect() is under way the client takes calls again.
AcceptsWhenIdle ==
  (\A d \in Disconnects : disc[d] # "waiting") => accepting

\* disconnect() is a barrier: afterwards an exec() made before it neither
\* connects, nor writes its command, nor completes it, and a connect() made
\* before it does not report success, also when it was waiting for a connect
\* or a resync at the time.
DisconnectIsABarrier ==
  [][/\ \A e \in Execs :
          exec[e].pc # "idle" /\ exec[e].epoch # epoch =>
            /\ exec'[e].pc \in {"connecting", "running"} => exec'[e].pc = exec[e].pc
            /\ exec'[e].outcome = "ok" => exec[e].outcome = "ok"
     /\ \A c \in Connects :
          connect'[c].result = "ok" =>
            connect[c].result = "ok" \/ connect[c].epoch = epoch]_vars

\* A command whose caller has given up is not written, whatever it was
\* waiting for: its turn, the connect or a resync.
AbortedIsNotWritten ==
  [][\A e \in Execs :
       e \in aborted /\ exec'[e].pc = "running" => exec[e].pc = "running"]_vars

\* No command is abandoned: a shell on which something of a command is left
\* is gone, or is being resynchronised, or runs the command of a caller who
\* still waits.  So a caller who was told `closed', when it gave up, left no
\* command of its own behind: it was never written or is being cleared away.
NoCommandIsAbandoned ==
  \A a \in unclean :
    \/ attempt[a].tornDown
    \/ resyncing[a]
    \/ \E e \in Execs :
         exec[e].pc = "running" /\ exec[e].io = a /\ exec[e].result = "pending"

\* Every exec() is answered, even when the server or the shell goes silent.
ExecsAnswered ==
  \A e \in Execs : (exec[e].result = "pending") ~> (exec[e].result \in Outcomes)

\* Every connect() is answered.
ConnectsAnswered ==
  \A c \in Connects : (connect[c].result = "pending") ~> (connect[c].result \in Outcomes)

\* A disconnect() does not close the client for good.
BarrierIsLifted == ~accepting ~> accepting

\* What the documentation says of the barrier: while a disconnect() is in
\* progress (a client it has ended is still to close), calls are rejected.
BarrierHeld ==
  \A d \in Disconnects :
    disc[d] = "waiting" /\ (\E a \in awaits[d] : attempt[a].end = "waiting") => ~accepting
=============================================================================
