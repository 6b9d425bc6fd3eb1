---------------------------- MODULE ClientProofs ----------------------------
(***************************************************************************)
(* Theorems about Client, for any number of calls.  The client's steps are *)
(* steps of its session, whose invariant (SessionProofs) is used here; its *)
(* own invariant says who has the queue, which shell a command may be on,  *)
(* and which disconnect() will lift the barrier.                           *)
(***************************************************************************)
EXTENDS Client, SessionProofs, FiniteSetTheorems

N == Cardinality(Disconnects)

ExecRecords ==
  [pc      : {"idle", "queued", "done"} \cup InSession,
   epoch   : 0 .. N,
   io      : {NoAttempt} \cup Attempts,
   outcome : {"none"} \cup Outcomes,
   result  : {"none", "pending"} \cup Outcomes]

AtShell == {"awaitingResync", "running"}

\* The functions that have not settled are in the queue, each once, and only
\* the first of them has started.
Turns ==
  /\ \A i \in DOMAIN queue :
       /\ exec[queue[i]].pc \in {"queued"} \cup InSession
       /\ i # 1 => exec[queue[i]].pc = "queued"
  /\ \A i, j \in DOMAIN queue : queue[i] = queue[j] => i = j
  /\ \A e \in Execs :
       exec[e].pc \in {"queued"} \cup InSession => \E i \in DOMAIN queue : queue[i] = e

\* The shell a command was given is the open session's, or it is gone; a
\* command that runs on a live shell has it to itself.
Shells ==
  \A e \in Execs :
    /\ exec[e].pc \in AtShell =>
         /\ exec[e].io \in Created
         /\ attempt[exec[e].io].tornDown \/ exec[e].io = active
    /\ OnLiveShell(e) => ~resyncing[exec[e].io]

\* The latest disconnect() that is under way has the current epoch: it will
\* lift the barrier.
Barriers ==
  /\ epoch = Cardinality({d \in Disconnects : disc[d] # "idle"})
  /\ \A d \in Disconnects : barrier[d] <= epoch
  /\ accepting \/ \E d \in Disconnects : disc[d] = "waiting" /\ barrier[d] = epoch

\* The inductive invariant.
ClientIInv == IInv /\ ClientTypeOK /\ Turns /\ Shells /\ Barriers

-----------------------------------------------------------------------------
(* What a step of the session does to the shells.                          *)

LEMMA ApplyMoves ==
  ASSUME NEW a, NEW r, NEW effect, Apply(a, r, effect)
  PROVE  inflight' \in {inflight, NoAttempt} /\ active' \in {active, NoAttempt}
<1>1. \/ \E s : OnlyRecord(a, s)
      \/ \E s, code : FailInflight(a, s, code)
      \/ Teardown(a, r)
  BY Zenon DEF Apply
<1> QED BY <1>1 DEF OnlyRecord, FailInflight, Teardown, Without

\* Who may be in flight and in use after a step.
Owners ==
  /\ inflight' \in {inflight, NoAttempt, nextId + 1}
  /\ active' \in {active, NoAttempt, inflight}
  /\ nextId' \in {nextId, nextId + 1}

LEMMA TransportMoves ==
  ASSUME NEW a, Transport(a)
  PROVE  Owners
<1>1. UNCHANGED untouched
  BY DEF Transport, HostKeyRejected, ClientReady, ShellCallback, ShellTimeout, ChannelGone,
         ClientError, ClientClose, EndTimer, DeadlinePasses, ReadySettles, ReadyResult, ShellDead
<1>2. \/ \E r : OnlyRecord(a, r)
      \/ \E r, code : FailInflight(a, r, code)
      \/ \E r, effect : Apply(a, r, effect)
      \/ \E r : FinishOk(a, r)
  BY DEF Transport, HostKeyRejected, ClientReady, ShellCallback, ShellTimeout, ChannelGone,
         ClientError, ClientClose, EndTimer, DeadlinePasses, ReadySettles, ReadyResult, ShellDead
<1>3. CASE \E r : OnlyRecord(a, r)
  BY <1>1, <1>3 DEF OnlyRecord, untouched, Owners
<1>4. CASE \E r, code : FailInflight(a, r, code)
  BY <1>1, <1>4 DEF FailInflight, Teardown, OnlyRecord, Without, untouched, Owners
<1>5. CASE \E r, effect : Apply(a, r, effect)
  BY <1>1, <1>5, ApplyMoves DEF untouched, Owners
<1>6. CASE \E r : FinishOk(a, r)
  BY <1>1, <1>6 DEF FinishOk, OnlyRecord, untouched, Owners
<1> QED BY <1>2, <1>3, <1>4, <1>5, <1>6

\* What the client's steps do to the session: its own steps, and signals
\* that fire after the session's part of the call is over.
SignalFires(c) ==
  /\ aborted' = aborted \cup {c}
  /\ SubscriberAbort(c)
  /\ UNCHANGED <<nextId, disc, awaits>>

SessionStep == [Next]_sessionVars \/ \E c \in Callers : SignalFires(c)

LEMMA SessionMoves ==
  ASSUME SessionStep
  PROVE  Owners
<1>1. CASE UNCHANGED sessionVars
  BY <1>1 DEF sessionVars, Owners
<1>2. CASE \E c \in Callers : Connect(c)
  BY <1>2 DEF Connect, ConnectOpen, ConnectJoin, ConnectAborted, ConnectNew, Owners
<1>3. CASE \E c \in Callers : SignalFires(c)
  BY <1>3 DEF SignalFires, SubscriberAbort, FailInflight, Teardown, OnlyRecord, Without, Owners
<1>4. CASE \E d \in Disconnects : Disconnect(d) \/ DisconnectReturns(d)
  BY <1>4 DEF Disconnect, DisconnectReturns, Owners
<1>5. CASE \E a \in Created : Transport(a)
  BY <1>5, TransportMoves
<1>6. ASSUME NEW c \in Callers, Abort(c) PROVE SignalFires(c)
  BY <1>6 DEF Abort, SignalFires
<1> QED BY <1>1, <1>2, <1>3, <1>4, <1>5, <1>6 DEF SessionStep, Next

\* A shell that is gone stays so, and one in use stays in use or goes.
LEMMA ShellsStay ==
  ASSUME IInv, SessionStep
  PROVE  /\ IInv'
         /\ \A a \in Created :
              /\ a \in Created'
              /\ attempt[a].tornDown => attempt'[a].tornDown
              /\ a = active => a = active' \/ attempt'[a].tornDown
<1>1. IInv'
  BY InvariantStep, SignalStep DEF SessionStep, SignalFires
<1>2. Owners
  BY SessionMoves
<1> SUFFICES ASSUME NEW a \in Created
             PROVE  /\ a \in Created'
                    /\ attempt[a].tornDown => attempt'[a].tornDown
                    /\ a = active => a = active' \/ attempt'[a].tornDown
  BY <1>1
<1>3. a \in Created' /\ a # nextId + 1 /\ a # NoAttempt
  BY <1>2 DEF Created, Owners, IInv, TypeOK, NoAttempt
<1>4. \/ a = inflight' /\ a # active' /\ Connecting(attempt'[a])
      \/ a # inflight' /\ a = active' /\ Open(attempt'[a])
      \/ a # inflight' /\ a # active' /\ Gone(attempt'[a])
  <2>1. a \in Attempts /\ ~(a > nextId')
    BY <1>1, <1>3, MaxAttemptsAssumption DEF IInv, TypeOK, Created, Attempts
  <2> QED BY <1>1, <2>1 DEF IInv, Situation
<1>5. \/ a = inflight /\ a # active /\ Connecting(attempt[a])
      \/ a # inflight /\ a = active /\ Open(attempt[a])
      \/ a # inflight /\ a # active /\ Gone(attempt[a])
  BY CreatedFacts
<1>6. attempt[a].tornDown => a # inflight /\ a # active
  BY <1>5 DEF Connecting, Open
<1>7. a # inflight => a # inflight'
  BY <1>2, <1>3 DEF Owners
<1>8. a # inflight /\ a # active => a # active'
  BY <1>2, <1>3 DEF Owners
<1> QED BY <1>3, <1>4, <1>5, <1>6, <1>7, <1>8 DEF Gone

-----------------------------------------------------------------------------
(* The two kinds of step: one function goes on, or none does.              *)

\* A function that has started is the first of the queue, and the only one.
LEMMA HeadFacts ==
  ASSUME ClientIInv, NEW e \in Execs, exec[e].pc \in InSession
  PROVE  /\ HasTurn(e) /\ queue[1] = e
         /\ \A f \in Execs : exec[f].pc \in InSession => f = e
<1>1. \A f \in Execs : exec[f].pc \in InSession => 1 \in DOMAIN queue /\ queue[1] = f
  BY DEF ClientIInv, Turns, InSession
<1>2. queue \in Seq(Execs)
  BY DEF ClientIInv, ClientTypeOK
<1> QED BY <1>1, <1>2 DEF HasTurn

LEMMA TurnFacts ==
  ASSUME ClientIInv, NEW e \in Execs, HasTurn(e)
  PROVE  /\ 1 \in DOMAIN queue /\ queue[1] = e
         /\ exec[e].pc \in {"queued"} \cup InSession
         /\ \A f \in Execs : exec[f].pc \in InSession => f = e
<1>1. queue \in Seq(Execs)
  BY DEF ClientIInv, ClientTypeOK
<1>2. 1 \in DOMAIN queue /\ queue[1] = e
  BY <1>1 DEF HasTurn
<1> QED BY <1>2, HeadFacts DEF ClientIInv, Turns

\* The function of e goes on; the others wait.
LEMMA ProgressKeeps ==
  ASSUME ClientIInv, SessionStep, NEW e \in Execs, HasTurn(e),
         exec' \in [Execs -> ExecRecords],
         \A f \in Execs : f # e => exec'[f] = exec[f],
         exec'[e].pc \in InSession,
         exec'[e].pc \in AtShell =>
           /\ exec'[e].io \in Created'
           /\ attempt'[exec'[e].io].tornDown \/ exec'[e].io = active',
         exec'[e].pc = "running" => ~resyncing'[exec'[e].io] \/ attempt'[exec'[e].io].tornDown,
         resyncing' \in [Attempts -> BOOLEAN],
         \A a \in unclean' : a \in unclean \/ (exec'[e].pc = "running" /\ exec'[e].io = a),
         UNCHANGED <<accepting, epoch, queue, connect, barrier, disc>>
  PROVE  ClientIInv'
<1>1. IInv'
  BY ShellsStay DEF ClientIInv
<1>2. ClientTypeOK'
  <2>1. unclean' \subseteq Attempts
    <3>1. exec'[e].pc = "running" => exec'[e].io \in Attempts
      BY <1>1, CreatedFacts DEF AtShell, ExecRecords, Created, NoAttempt
    <3> QED BY <3>1 DEF ClientIInv, ClientTypeOK
  <2> QED BY <1>1, <2>1 DEF ClientIInv, ClientTypeOK, IInv, ExecRecords, N
<1>3. /\ 1 \in DOMAIN queue /\ queue[1] = e
      /\ exec[e].pc \in {"queued"} \cup InSession
      /\ \A f \in Execs : exec[f].pc \in InSession => f = e
  BY TurnFacts
<1>4. queue \in Seq(Execs) /\ \A i \in DOMAIN queue : queue[i] \in Execs
  BY DEF ClientIInv, ClientTypeOK
<1>5. Turns'
  BY <1>3, <1>4 DEF ClientIInv, Turns
<1>6. Shells'
  BY <1>3 DEF Shells, OnLiveShell, AtShell, InSession
<1>7. Barriers'
  BY DEF ClientIInv, Barriers
<1> QED BY <1>1, <1>2, <1>5, <1>6, <1>7 DEF ClientIInv

\* No function goes on.
LEMMA QuietKeeps ==
  ASSUME ClientIInv, SessionStep,
         exec' \in [Execs -> ExecRecords],
         \A f \in Execs : exec'[f].pc = exec[f].pc /\ exec'[f].io = exec[f].io,
         queue' = queue,
         resyncing' \in [Attempts -> BOOLEAN],
         \A a \in Attempts : resyncing'[a] => resyncing[a],
         unclean' \subseteq unclean,
         accepting' \in BOOLEAN, epoch' \in 0 .. N,
         connect' \in [Connects -> [epoch : 0 .. N, result : {"none", "pending"} \cup Outcomes]],
         barrier' \in [Disconnects -> 0 .. N],
         Barriers'
  PROVE  ClientIInv'
<1>1. IInv'
  BY ShellsStay DEF ClientIInv
<1>2. ClientTypeOK'
  BY <1>1 DEF ClientIInv, ClientTypeOK, IInv, ExecRecords, N
<1>3. queue \in Seq(Execs) /\ \A i \in DOMAIN queue : queue[i] \in Execs
  BY DEF ClientIInv, ClientTypeOK
<1>4. Turns'
  BY <1>3 DEF ClientIInv, Turns
<1>5. Shells'
  <2> SUFFICES ASSUME NEW f \in Execs, exec[f].pc \in AtShell
               PROVE  /\ exec[f].io \in Created'
                      /\ attempt'[exec[f].io].tornDown \/ exec[f].io = active'
                      /\ OnLiveShell(f)' => ~resyncing'[exec'[f].io]
    BY DEF Shells, OnLiveShell, AtShell
  <2>1. /\ exec[f].io \in Created
        /\ attempt[exec[f].io].tornDown \/ exec[f].io = active
        /\ OnLiveShell(f) => ~resyncing[exec[f].io]
    BY DEF ClientIInv, Shells
  <2>2. exec[f].io \in Attempts
    BY <2>1, CreatedFacts DEF ClientIInv
  <2>3. /\ exec[f].io \in Created'
        /\ attempt[exec[f].io].tornDown => attempt'[exec[f].io].tornDown
        /\ exec[f].io = active => exec[f].io = active' \/ attempt'[exec[f].io].tornDown
    BY <2>1, ShellsStay DEF ClientIInv
  <2> QED BY <2>1, <2>2, <2>3 DEF OnLiveShell
<1> QED BY <1>1, <1>2, <1>4, <1>5 DEF ClientIInv

-----------------------------------------------------------------------------
(* What the helpers do to the call.                                        *)

LEMMA SettlesFacts ==
  ASSUME ClientTypeOK, NEW e \in Execs, NEW outcome \in Outcomes, Settles(e, outcome)
  PROVE  /\ exec' \in [Execs -> ExecRecords]
         /\ \A f \in Execs : f # e => exec'[f] = exec[f]
         /\ exec'[e].pc = "settling"
<1>1. exec \in [Execs -> ExecRecords]
  BY DEF ClientTypeOK, ExecRecords, N
<1>2. [exec[e] EXCEPT !.pc = "settling", !.outcome = outcome] \in ExecRecords
  BY <1>1 DEF ExecRecords, InSession
<1> QED BY <1>1, <1>2 DEF Settles, ExecRecords

LEMMA WriteCommandFacts ==
  ASSUME ClientTypeOK, NEW e \in Execs, NEW a \in Attempts, WriteCommand(e, a)
  PROVE  /\ exec' \in [Execs -> ExecRecords]
         /\ \A f \in Execs : f # e => exec'[f] = exec[f]
         /\ exec'[e].pc \in {"running", "settling"}
         /\ exec'[e].io = a
<1>1. exec \in [Execs -> ExecRecords]
  BY DEF ClientTypeOK, ExecRecords, N
<1>2. CASE exec' = [exec EXCEPT ![e].pc = "running", ![e].io = a]
  <2>1. [exec[e] EXCEPT !.pc = "running", !.io = a] \in ExecRecords
    BY <1>1 DEF ExecRecords, InSession
  <2> QED BY <1>1, <1>2, <2>1 DEF ExecRecords
<1>3. CASE exec' = [exec EXCEPT ![e].pc = "settling", ![e].io = a, ![e].outcome = "closed"]
  <2>1. [exec[e] EXCEPT !.pc = "settling", !.io = a, !.outcome = "closed"] \in ExecRecords
    BY <1>1 DEF ExecRecords, InSession, Outcomes, ErrorCodes
  <2> QED BY <1>1, <1>3, <2>1 DEF ExecRecords
<1> QED BY <1>2, <1>3 DEF WriteCommand

LEMMA SettlesWritesNothing ==
  ASSUME ClientIInv, NEW e \in Execs, NEW outcome \in Outcomes, Settles(e, outcome), Written(e)
  PROVE  unclean' \subseteq unclean
BY SettlesFacts DEF ClientIInv, Written

\* Settling keeps the invariant, whatever the session and the resyncs do.
LEMMA SettlesKeeps ==
  ASSUME ClientIInv, SessionStep, NEW e \in Execs, HasTurn(e),
         NEW outcome \in Outcomes, Settles(e, outcome),
         resyncing' \in [Attempts -> BOOLEAN], unclean' \subseteq unclean,
         UNCHANGED <<accepting, epoch, queue, connect, barrier, disc>>
  PROVE  ClientIInv'
<1>1. /\ exec' \in [Execs -> ExecRecords]
      /\ \A f \in Execs : f # e => exec'[f] = exec[f]
      /\ exec'[e].pc = "settling"
  BY SettlesFacts DEF ClientIInv
<1> QED BY <1>1, ProgressKeeps DEF InSession, AtShell

LEMMA WriteCommandKeeps ==
  ASSUME ClientIInv, NEW e \in Execs, HasTurn(e),
         NEW a \in Created, attempt[a].tornDown \/ a = active, ~resyncing[a],
         WriteCommand(e, a), Written(e),
         UNCHANGED <<sessionVars, accepting, epoch, queue, connect, barrier, resyncing>>
  PROVE  ClientIInv'
<1>1. a \in Attempts
  BY CreatedFacts DEF ClientIInv
<1>2. /\ exec' \in [Execs -> ExecRecords]
      /\ \A f \in Execs : f # e => exec'[f] = exec[f]
      /\ exec'[e].pc \in {"running", "settling"}
      /\ exec'[e].io = a
  BY <1>1, WriteCommandFacts DEF ClientIInv
<1>3. SessionStep /\ UNCHANGED <<disc, attempt, active, Created>>
  BY DEF SessionStep, sessionVars, Created
<1>4. resyncing' \in [Attempts -> BOOLEAN]
  BY DEF ClientIInv, ClientTypeOK
<1>5. \A b \in unclean' : b \in unclean \/ (exec'[e].pc = "running" /\ exec'[e].io = b)
  BY DEF Written
<1> QED BY <1>2, <1>3, <1>4, <1>5, ProgressKeeps DEF InSession

LEMMA RunCommandKeeps ==
  ASSUME ClientIInv, NEW e \in Execs, HasTurn(e), RunCommand(e), Written(e),
         UNCHANGED <<sessionVars, accepting, epoch, queue, connect, barrier, resyncing>>
  PROVE  ClientIInv'
<1>1. SessionStep /\ UNCHANGED <<disc, attempt, active, Created>>
  BY DEF SessionStep, sessionVars, Created
<1>2. resyncing' \in [Attempts -> BOOLEAN] /\ "closed" \in Outcomes
  BY DEF ClientIInv, ClientTypeOK, Outcomes, ErrorCodes
<1>3. CASE ~IsOpen
  BY <1>1, <1>2, <1>3, SettlesKeeps, SettlesWritesNothing DEF RunCommand
<1>4. CASE IsOpen
  <2>1. active \in Created /\ active \in Attempts
    BY <1>4, MaxAttemptsAssumption
    DEF IsOpen, ClientIInv, IInv, TypeOK, Situation, Created, Attempts, NoAttempt
  <2>2. CASE ~resyncing[active]
    BY <1>4, <2>1, <2>2, WriteCommandKeeps DEF RunCommand
  <2>3. CASE resyncing[active]
    <3>1. exec' = [exec EXCEPT ![e].pc = "awaitingResync", ![e].io = active]
      BY <1>4, <2>3 DEF RunCommand
    <3>2. exec \in [Execs -> ExecRecords]
      BY DEF ClientIInv, ClientTypeOK, ExecRecords, N
    <3>3. [exec[e] EXCEPT !.pc = "awaitingResync", !.io = active] \in ExecRecords
      BY <2>1, <3>2 DEF ExecRecords, InSession
    <3>4. /\ exec' \in [Execs -> ExecRecords]
          /\ \A f \in Execs : f # e => exec'[f] = exec[f]
          /\ exec'[e].pc = "awaitingResync"
          /\ exec'[e].io = active
      BY <3>1, <3>2, <3>3 DEF ExecRecords
    <3>5. \A b \in unclean' : b \in unclean
      BY <3>4 DEF Written
    <3> QED BY <1>1, <1>2, <2>1, <3>4, <3>5, ProgressKeeps DEF InSession
  <2> QED BY <2>2, <2>3
<1> QED BY <1>3, <1>4

-----------------------------------------------------------------------------
(* The steps of exec().                                                    *)

LEMMA ExecStep ==
  ASSUME ClientIInv, NEW e \in Execs, Exec(e)
  PROVE  ClientIInv'
<1>1. SessionStep /\ UNCHANGED <<disc, attempt, active, Created>>
  BY DEF Exec, SessionStep, sessionVars, Created
<1>2. exec \in [Execs -> ExecRecords] /\ epoch \in 0 .. N
  BY DEF ClientIInv, ClientTypeOK, ExecRecords, N
<1>3. CASE ~accepting \/ e \in aborted
  <2>1. exec' = [exec EXCEPT ![e].pc = "done", ![e].result = "closed"] /\ queue' = queue
    BY <1>3 DEF Exec
  <2>2. [exec[e] EXCEPT !.pc = "done", !.result = "closed"] \in ExecRecords
    BY <1>2 DEF ExecRecords, Outcomes, ErrorCodes
  <2>3. exec' \in [Execs -> ExecRecords] /\ exec'[e].pc = "done"
    BY <1>2, <2>1, <2>2 DEF ExecRecords
  <2>4. \A f \in Execs : f # e => exec'[f] = exec[f]
    BY <1>2, <2>1
  <2>5. exec[e].pc = "idle"
    BY DEF Exec
  <2>6. IInv' /\ ClientTypeOK'
    BY <1>1, <2>1, <2>3, ShellsStay DEF Exec, ClientIInv, ClientTypeOK, IInv, ExecRecords, N
  <2>7. queue \in Seq(Execs) /\ \A i \in DOMAIN queue : queue[i] \in Execs
    BY DEF ClientIInv, ClientTypeOK
  <2>8. Turns'
    BY <2>1, <2>3, <2>4, <2>5, <2>7 DEF ClientIInv, Turns, InSession
  <2>9. Shells' /\ Barriers'
    BY <1>1, <2>3, <2>4 DEF Exec, ClientIInv, Shells, OnLiveShell, AtShell, Barriers
  <2> QED BY <2>6, <2>8, <2>9 DEF ClientIInv
<1>4. CASE accepting /\ e \notin aborted
  <2>1. /\ exec' = [exec EXCEPT ![e].pc = "queued", ![e].epoch = epoch, ![e].result = "pending"]
        /\ queue' = Append(queue, e)
    BY <1>4 DEF Exec
  <2>2. [exec[e] EXCEPT !.pc = "queued", !.epoch = epoch, !.result = "pending"] \in ExecRecords
    BY <1>2 DEF ExecRecords
  <2>3. exec' \in [Execs -> ExecRecords] /\ exec'[e].pc = "queued"
    BY <1>2, <2>1, <2>2 DEF ExecRecords
  <2>4. \A f \in Execs : f # e => exec'[f] = exec[f]
    BY <1>2, <2>1
  <2>5. exec[e].pc = "idle"
    BY DEF Exec
  <2>6. queue \in Seq(Execs) /\ \A i \in DOMAIN queue : queue[i] \in Execs
    BY DEF ClientIInv, ClientTypeOK
  <2>7. IInv' /\ ClientTypeOK'
    BY <1>1, <2>1, <2>3, <2>6, ShellsStay
    DEF Exec, ClientIInv, ClientTypeOK, IInv, ExecRecords, N
  <2>8. \A i \in DOMAIN queue : queue[i] # e
    BY <2>5 DEF ClientIInv, Turns, InSession
  <2>9. /\ DOMAIN queue' = DOMAIN queue \cup {Len(queue) + 1}
        /\ queue'[Len(queue) + 1] = e
        /\ \A i \in DOMAIN queue : queue'[i] = queue[i]
    BY <2>1, <2>6
  <2>10. Turns'
    BY <2>3, <2>4, <2>6, <2>8, <2>9 DEF ClientIInv, Turns
  <2>11. Shells' /\ Barriers'
    BY <1>1, <2>3, <2>4 DEF Exec, ClientIInv, Shells, OnLiveShell, AtShell, Barriers
  <2> QED BY <2>7, <2>10, <2>11 DEF ClientIInv
<1> QED BY <1>3, <1>4

LEMMA ExecSettlesStep ==
  ASSUME ClientIInv, NEW e \in Execs, ExecSettles(e)
  PROVE  ClientIInv'
<1>1. SessionStep /\ UNCHANGED <<disc, attempt, active, Created>>
  BY DEF ExecSettles, SessionStep, sessionVars, Created
<1>2. exec \in [Execs -> ExecRecords]
  BY DEF ClientIInv, ClientTypeOK, ExecRecords, N
<1>3. PICK result : result = IF exec[e].result = "pending" THEN exec[e].outcome ELSE exec[e].result
  OBVIOUS
<1>4. exec' = [exec EXCEPT ![e] = [exec[e] EXCEPT !.pc = "done", !.result = result]]
  BY <1>2, <1>3 DEF ExecSettles, ExecRecords
<1>5. [exec[e] EXCEPT !.pc = "done", !.result = result] \in ExecRecords
  BY <1>2, <1>3 DEF ExecRecords
<1>6. exec' \in [Execs -> ExecRecords] /\ exec'[e].pc = "done"
  BY <1>2, <1>4, <1>5 DEF ExecRecords
<1>7. \A f \in Execs : f # e => exec'[f] = exec[f]
  BY <1>2, <1>4
<1>8. 1 \in DOMAIN queue /\ queue[1] = e
  BY HeadFacts, TurnFacts DEF ExecSettles, InSession
<1>9. queue \in Seq(Execs) /\ queue # <<>> /\ queue' = Tail(queue)
  BY <1>8 DEF ExecSettles, ClientIInv, ClientTypeOK
<1>10. /\ DOMAIN queue' = 1 .. Len(queue) - 1
       /\ \A i \in DOMAIN queue' : i + 1 \in DOMAIN queue /\ i + 1 # 1 /\ queue'[i] = queue[i + 1]
       /\ \A i \in DOMAIN queue : i # 1 => i - 1 \in DOMAIN queue' /\ queue'[i - 1] = queue[i]
       /\ \A i \in DOMAIN queue : queue[i] \in Execs /\ i \in Nat
  BY <1>9
<1>11. IInv' /\ ClientTypeOK'
  BY <1>1, <1>6, <1>9, ShellsStay
  DEF ExecSettles, ClientIInv, ClientTypeOK, IInv, ExecRecords, N
<1>12. Turns'
  <2>1. \A i \in DOMAIN queue' : queue'[i] \in Execs /\ queue'[i] # e /\ exec'[queue'[i]].pc = "queued"
    BY <1>7, <1>8, <1>10 DEF ClientIInv, Turns
  <2>2. \A i, j \in DOMAIN queue' : queue'[i] = queue'[j] => i = j
    BY <1>10 DEF ClientIInv, Turns
  <2>3. ASSUME NEW f \in Execs, exec'[f].pc \in {"queued"} \cup InSession
        PROVE  \E i \in DOMAIN queue' : queue'[i] = f
    <3>1. f # e
      BY <1>6, <2>3 DEF InSession
    <3>2. PICK i \in DOMAIN queue : queue[i] = f
      BY <1>7, <2>3, <3>1 DEF ClientIInv, Turns
    <3> QED BY <1>8, <1>10, <3>1, <3>2
  <2> QED BY <2>1, <2>2, <2>3 DEF Turns
<1>13. Shells' /\ Barriers'
  BY <1>1, <1>6, <1>7 DEF ExecSettles, ClientIInv, Shells, OnLiveShell, AtShell, Barriers
<1> QED BY <1>11, <1>12, <1>13 DEF ClientIInv

LEMMA StartStep ==
  ASSUME ClientIInv, NEW e \in Execs, StartOnOpenSession(e)
  PROVE  ClientIInv'
<1>1. SessionStep /\ disc' = disc
  BY DEF StartOnOpenSession, SessionStep, sessionVars
<1>2. resyncing' \in [Attempts -> BOOLEAN] /\ "closed" \in Outcomes
  BY DEF StartOnOpenSession, ClientIInv, ClientTypeOK, Outcomes, ErrorCodes
<1>3. CASE Refused(e)
  BY <1>1, <1>2, <1>3, SettlesKeeps, SettlesWritesNothing DEF StartOnOpenSession
<1>4. CASE ~Refused(e)
  BY <1>4, RunCommandKeeps DEF StartOnOpenSession
<1> QED BY <1>3, <1>4

LEMMA StartWithConnectStep ==
  ASSUME ClientIInv, NEW e \in Execs, StartWithConnect(e)
  PROVE  ClientIInv'
<1>1. SessionStep
  BY ExecsAssumption DEF StartWithConnect, SessionStep, Next
<1>2. disc' = disc
  BY DEF StartWithConnect, Connect, ConnectOpen, ConnectJoin, ConnectAborted, ConnectNew
<1>3. exec \in [Execs -> ExecRecords] /\ resyncing' \in [Attempts -> BOOLEAN]
  BY DEF StartWithConnect, ClientIInv, ClientTypeOK, ExecRecords, N
<1>4. exec' = [exec EXCEPT ![e].pc = "connecting"]
  BY DEF StartWithConnect
<1>5. [exec[e] EXCEPT !.pc = "connecting"] \in ExecRecords
  BY <1>3 DEF ExecRecords, InSession
<1>6. /\ exec' \in [Execs -> ExecRecords]
      /\ \A f \in Execs : f # e => exec'[f] = exec[f]
      /\ exec'[e].pc = "connecting"
  BY <1>3, <1>4, <1>5 DEF ExecRecords
<1> QED BY <1>1, <1>2, <1>3, <1>6, ProgressKeeps DEF StartWithConnect, InSession, AtShell

LEMMA ConnectedStep ==
  ASSUME ClientIInv, NEW e \in Execs, Connected(e)
  PROVE  ClientIInv'
<1>1. SessionStep /\ disc' = disc
  BY DEF Connected, SessionStep, sessionVars
<1>2. resyncing' \in [Attempts -> BOOLEAN] /\ "closed" \in Outcomes /\ call[e] \in Outcomes
  BY DEF Connected, ClientIInv, ClientTypeOK, Outcomes, ErrorCodes
<1>3. HasTurn(e)
  BY HeadFacts DEF Connected, InSession
<1>4. CASE call[e] # "ok" \/ Refused(e)
  BY <1>1, <1>2, <1>3, <1>4, SettlesKeeps, SettlesWritesNothing DEF Connected
<1>5. CASE call[e] = "ok" /\ ~Refused(e)
  BY <1>3, <1>5, RunCommandKeeps DEF Connected
<1> QED BY <1>4, <1>5

LEMMA AfterResyncStep ==
  ASSUME ClientIInv, NEW e \in Execs, AfterResync(e)
  PROVE  ClientIInv'
<1>1. SessionStep /\ disc' = disc
  BY DEF AfterResync, SessionStep, sessionVars
<1>2. resyncing' \in [Attempts -> BOOLEAN] /\ "closed" \in Outcomes
  BY DEF AfterResync, ClientIInv, ClientTypeOK, Outcomes, ErrorCodes
<1>3. HasTurn(e)
  BY HeadFacts DEF AfterResync, InSession
<1>4. CASE e \in aborted \/ attempt[exec[e].io].tornDown
  BY <1>1, <1>2, <1>3, <1>4, SettlesKeeps, SettlesWritesNothing DEF AfterResync
<1>5. CASE ~(e \in aborted \/ attempt[exec[e].io].tornDown)
  <2>1. exec[e].io \in Created /\ (attempt[exec[e].io].tornDown \/ exec[e].io = active)
    BY DEF AfterResync, ClientIInv, Shells, AtShell
  <2> QED BY <1>3, <1>5, <2>1, WriteCommandKeeps DEF AfterResync
<1> QED BY <1>4, <1>5

LEMMA CommandStep ==
  ASSUME ClientIInv, NEW e \in Execs,
         \/ CommandCompletes(e)
         \/ CommandTimesOut(e)
         \/ CommandKillsShell(e)
         \/ ShellRejects(e)
  PROVE  ClientIInv'
<1>1. HasTurn(e)
  BY HeadFacts
  DEF CommandCompletes, CommandTimesOut, CommandKillsShell, ShellRejects, OnLiveShell, InSession
<1>2. exec[e].io \in Created /\ exec[e].io \in Attempts
  BY CreatedFacts
  DEF CommandCompletes, CommandTimesOut, CommandKillsShell, ShellRejects, OnLiveShell,
      ClientIInv, Shells, AtShell
<1>3. {"ok", "limit", "timeout", "closed"} \subseteq Outcomes
  BY DEF Outcomes, ErrorCodes
<1>4. resyncing \in [Attempts -> BOOLEAN]
  BY DEF ClientIInv, ClientTypeOK
<1>5. CASE CommandCompletes(e)
  BY <1>1, <1>3, <1>4, <1>5, SettlesKeeps DEF CommandCompletes, SessionStep, sessionVars
<1>6. CASE CommandTimesOut(e)
  BY <1>1, <1>2, <1>3, <1>4, <1>6, SettlesKeeps DEF CommandTimesOut, SessionStep, sessionVars
<1>7. CASE CommandKillsShell(e)
  <2>1. SessionStep
    BY <1>2, <1>7 DEF CommandKillsShell, SessionStep, Next, Transport
  <2>2. disc' = disc
    BY <1>7 DEF CommandKillsShell, ShellDead, untouched
  <2> QED BY <1>1, <1>3, <1>4, <1>7, <2>1, <2>2, SettlesKeeps DEF CommandKillsShell
<1>8. CASE ShellRejects(e)
  BY <1>1, <1>3, <1>4, <1>8, SettlesKeeps DEF ShellRejects, SessionStep, sessionVars
<1> QED BY <1>5, <1>6, <1>7, <1>8

LEMMA AbortExecStep ==
  ASSUME ClientIInv, NEW e \in Execs, AbortExec(e)
  PROVE  ClientIInv'
<1>1. SessionStep /\ UNCHANGED <<disc, accepting, epoch, queue, connect, barrier, unclean>>
  BY ExecsAssumption DEF AbortExec, SessionStep, SignalFires
<1>2. exec \in [Execs -> ExecRecords] /\ resyncing \in [Attempts -> BOOLEAN] /\ "closed" \in Outcomes
  BY DEF ClientIInv, ClientTypeOK, ExecRecords, N, Outcomes, ErrorCodes
<1>3. PICK result \in {"none", "pending"} \cup Outcomes :
        result = IF exec[e].result = "pending" THEN "closed" ELSE exec[e].result
  BY <1>2 DEF ExecRecords
<1>4. CASE OnLiveShell(e)
  <2>1. exec' = [exec EXCEPT ![e] =
          [exec[e] EXCEPT !.result = result, !.pc = "settling", !.outcome = "closed"]]
    BY <1>2, <1>3, <1>4 DEF AbortExec, ExecRecords
  <2>2. [exec[e] EXCEPT !.result = result, !.pc = "settling", !.outcome = "closed"] \in ExecRecords
    BY <1>2 DEF ExecRecords, InSession
  <2>3. /\ exec' \in [Execs -> ExecRecords]
        /\ \A f \in Execs : f # e => exec'[f] = exec[f]
        /\ exec'[e].pc = "settling"
    BY <1>2, <2>1, <2>2 DEF ExecRecords
  <2>4. resyncing' \in [Attempts -> BOOLEAN]
    BY <1>2, <1>4 DEF AbortExec
  <2>5. HasTurn(e)
    BY <1>4, HeadFacts DEF OnLiveShell, InSession
  <2> QED BY <1>1, <2>3, <2>4, <2>5, ProgressKeeps DEF InSession, AtShell
<1>5. CASE ~OnLiveShell(e)
  <2>1. exec' = [exec EXCEPT ![e] = [exec[e] EXCEPT !.result = result]] /\ resyncing' = resyncing
    BY <1>2, <1>3, <1>5 DEF AbortExec, ExecRecords
  <2>2. [exec[e] EXCEPT !.result = result] \in ExecRecords
    BY <1>2 DEF ExecRecords
  <2>3. /\ exec' \in [Execs -> ExecRecords]
        /\ \A f \in Execs : exec'[f].pc = exec[f].pc /\ exec'[f].io = exec[f].io
    BY <1>2, <2>1, <2>2 DEF ExecRecords
  <2>4. Barriers'
    BY <1>1 DEF ClientIInv, Barriers
  <2> QED BY <1>1, <1>2, <2>1, <2>3, <2>4, QuietKeeps DEF ClientIInv, ClientTypeOK, N
<1> QED BY <1>4, <1>5

-----------------------------------------------------------------------------
(* The steps of connect() and disconnect(), of the network and the shell.  *)

\* Steps that leave the queue and the barrier alone.
LEMMA BystanderKeeps ==
  ASSUME ClientIInv, SessionStep, UNCHANGED <<accepting, epoch, queue, exec, barrier, disc>>,
         connect' \in [Connects -> [epoch : 0 .. N, result : {"none", "pending"} \cup Outcomes]],
         resyncing' \in [Attempts -> BOOLEAN],
         \A a \in Attempts : resyncing'[a] => resyncing[a],
         unclean' \subseteq unclean
  PROVE  ClientIInv'
<1>1. Barriers'
  BY DEF ClientIInv, Barriers
<1> QED BY <1>1, QuietKeeps DEF ClientIInv, ClientTypeOK, ExecRecords, N

LEMMA ClientConnectStep ==
  ASSUME ClientIInv, NEW c \in Connects, ClientConnect(c) \/ ConnectReturns(c)
  PROVE  ClientIInv'
<1>1. SessionStep
  BY DEF ClientConnect, ConnectReturns, SessionStep, Next, Connects
<1>2. disc' = disc
  BY DEF ClientConnect, ConnectReturns, sessionVars,
         Connect, ConnectOpen, ConnectJoin, ConnectAborted, ConnectNew
<1>3. connect' \in [Connects -> [epoch : 0 .. N, result : {"none", "pending"} \cup Outcomes]]
  <2> DEFINE Records == [epoch : 0 .. N, result : {"none", "pending"} \cup Outcomes]
  <2>1. connect \in [Connects -> Records] /\ epoch \in 0 .. N /\ "closed" \in Outcomes
    BY DEF ClientIInv, ClientTypeOK, N, Outcomes, ErrorCodes
  <2>2. CASE connect' = [connect EXCEPT ![c] = [epoch |-> epoch, result |-> "pending"]]
    BY <2>1, <2>2
  <2>3. ASSUME NEW r \in Outcomes, connect' = [connect EXCEPT ![c].result = r]
        PROVE  connect' \in [Connects -> Records]
    <3>1. [connect[c] EXCEPT !.result = r] \in Records
      BY <2>1
    <3> QED BY <2>1, <2>3, <3>1
  <2> QED BY <2>1, <2>2, <2>3 DEF ClientConnect, ConnectReturns
<1> QED BY <1>1, <1>2, <1>3, BystanderKeeps
        DEF ClientConnect, ConnectReturns, ClientIInv, ClientTypeOK

LEMMA ShellStep ==
  ASSUME ClientIInv, NEW a \in Created, ClientTransport(a) \/ ResyncEnds(a)
  PROVE  ClientIInv'
<1>1. SessionStep
  BY DEF ClientTransport, ResyncEnds, SessionStep, Next, Transport
<1>2. disc' = disc
  <2>1. ASSUME Transport(a) PROVE disc' = disc
    BY <2>1
    DEF Transport, HostKeyRejected, ClientReady, ShellCallback, ShellTimeout, ChannelGone,
        ClientError, ClientClose, EndTimer, DeadlinePasses, ReadySettles, ReadyResult, ShellDead,
        untouched
  <2> QED BY <2>1 DEF ClientTransport, ResyncEnds, Transport, sessionVars
<1> QED BY <1>1, <1>2, BystanderKeeps
        DEF ClientTransport, ResyncEnds, clientVars, ClientIInv, ClientTypeOK, N

LEMMA ClientDisconnectStep ==
  ASSUME ClientIInv, NEW d \in Disconnects, ClientDisconnect(d)
  PROVE  ClientIInv'
<1> DEFINE begun == {x \in Disconnects : disc[x] # "idle"}
<1>1. SessionStep
  BY DEF ClientDisconnect, SessionStep, Next
<1>2. /\ disc[d] = "idle" /\ disc' = [disc EXCEPT ![d] = "waiting"]
      /\ accepting' = FALSE
      /\ epoch' = epoch + 1
      /\ barrier' = [barrier EXCEPT ![d] = epoch']
  BY DEF ClientDisconnect, Disconnect
<1>3. disc \in [Disconnects -> {"idle", "waiting", "done"}]
  BY DEF ClientIInv, IInv, TypeOK
<1>4. {x \in Disconnects : disc'[x] # "idle"} = begun \cup {d}
  BY <1>2, <1>3
<1>5. /\ IsFiniteSet(begun) /\ d \notin begun /\ epoch = Cardinality(begun)
      /\ begun \cup {d} \subseteq Disconnects
  BY <1>2, DisconnectsAssumption, FS_Subset DEF ClientIInv, Barriers
<1>6. Cardinality(begun \cup {d}) = epoch + 1 /\ IsFiniteSet(begun \cup {d})
  BY <1>5, FS_AddElement
<1>7. epoch + 1 <= N /\ N \in Nat
  BY <1>5, <1>6, DisconnectsAssumption, FS_Subset, FS_CardinalityType DEF N
<1>8. barrier \in [Disconnects -> 0 .. N] /\ epoch \in 0 .. N
  BY DEF ClientIInv, ClientTypeOK, N
<1>9. epoch' \in 0 .. N /\ barrier' \in [Disconnects -> 0 .. N]
  BY <1>2, <1>7, <1>8
<1>10. Barriers'
  <2>1. epoch' = Cardinality({x \in Disconnects : disc'[x] # "idle"})
    BY <1>2, <1>4, <1>6
  <2>2. \A x \in Disconnects : barrier'[x] <= epoch'
    BY <1>2, <1>8 DEF ClientIInv, Barriers
  <2>3. disc'[d] = "waiting" /\ barrier'[d] = epoch'
    BY <1>2, <1>3, <1>8
  <2> QED BY <2>1, <2>2, <2>3 DEF Barriers
<1> QED BY <1>1, <1>2, <1>9, <1>10, QuietKeeps
        DEF ClientDisconnect, ClientIInv, ClientTypeOK, ExecRecords, N

LEMMA ClientDisconnectReturnsStep ==
  ASSUME ClientIInv, NEW d \in Disconnects, ClientDisconnectReturns(d)
  PROVE  ClientIInv'
<1>1. SessionStep
  BY DEF ClientDisconnectReturns, SessionStep, Next
<1>2. disc \in [Disconnects -> {"idle", "waiting", "done"}] /\ accepting \in BOOLEAN
  BY DEF ClientIInv, ClientTypeOK, IInv, TypeOK
<1>3. /\ disc[d] = "waiting" /\ disc' = [disc EXCEPT ![d] = "done"]
      /\ accepting' = (accepting \/ barrier[d] = epoch)
      /\ epoch' = epoch /\ barrier' = barrier
  BY DEF ClientDisconnectReturns, DisconnectReturns
<1>4. {x \in Disconnects : disc'[x] # "idle"} = {x \in Disconnects : disc[x] # "idle"}
  BY <1>2, <1>3
<1>5. accepting' \/ \E x \in Disconnects : disc'[x] = "waiting" /\ barrier[x] = epoch
  BY <1>2, <1>3 DEF ClientIInv, Barriers
<1>6. Barriers'
  BY <1>3, <1>4, <1>5 DEF ClientIInv, Barriers
<1>7. accepting' \in BOOLEAN
  BY <1>2, <1>3
<1> QED BY <1>1, <1>3, <1>6, <1>7, QuietKeeps
        DEF ClientDisconnectReturns, ClientIInv, ClientTypeOK, ExecRecords, N

-----------------------------------------------------------------------------
LEMMA ClientInvariantInit == ClientInit => ClientIInv
<1> SUFFICES ASSUME ClientInit PROVE ClientIInv
  OBVIOUS
<1>1. IInv
  BY InvariantInit DEF ClientInit
<1>2. N \in Nat
  BY DisconnectsAssumption, FS_CardinalityType DEF N
<1>3. ClientTypeOK
  BY <1>1, <1>2 DEF ClientInit, ClientTypeOK, IInv, N
<1>4. Turns /\ Shells
  BY DEF ClientInit, Turns, Shells, OnLiveShell, AtShell, InSession
<1>5. {d \in Disconnects : disc[d] # "idle"} = {}
  BY DEF ClientInit, Init
<1>6. Cardinality({}) = 0
  BY FS_EmptySet
<1>7. epoch = 0 /\ accepting /\ \A d \in Disconnects : barrier[d] = 0
  BY DEF ClientInit
<1>8. Barriers
  BY <1>5, <1>6, <1>7 DEF Barriers
<1> QED BY <1>1, <1>3, <1>4, <1>8 DEF ClientIInv

LEMMA ClientInvariantStep == ClientIInv /\ [ClientNext]_vars => ClientIInv'
<1> SUFFICES ASSUME ClientIInv, [ClientNext]_vars PROVE ClientIInv'
  OBVIOUS
<1>1. CASE UNCHANGED vars
  BY <1>1, BystanderKeeps
  DEF vars, clientVars, SessionStep, sessionVars, ClientIInv, ClientTypeOK, N
<1>2. ASSUME NEW e \in Execs,
             \/ Exec(e) \/ StartOnOpenSession(e) \/ StartWithConnect(e) \/ Connected(e)
             \/ AfterResync(e) \/ ExecSettles(e) \/ AbortExec(e)
             \/ CommandCompletes(e) \/ CommandTimesOut(e) \/ CommandKillsShell(e)
             \/ ShellRejects(e)
      PROVE  ClientIInv'
  BY <1>2, ExecStep, StartStep, StartWithConnectStep, ConnectedStep, AfterResyncStep,
     ExecSettlesStep, AbortExecStep, CommandStep
<1>3. ASSUME NEW c \in Connects, ClientConnect(c) \/ ConnectReturns(c) PROVE ClientIInv'
  BY <1>3, ClientConnectStep
<1>4. ASSUME NEW d \in Disconnects, ClientDisconnect(d) \/ ClientDisconnectReturns(d)
      PROVE  ClientIInv'
  BY <1>4, ClientDisconnectStep, ClientDisconnectReturnsStep
<1>5. ASSUME NEW a \in Created, ClientTransport(a) \/ ResyncEnds(a) PROVE ClientIInv'
  BY <1>5, ShellStep
<1> QED BY <1>1, <1>2, <1>3, <1>4, <1>5 DEF ClientNext

\* The inductive invariant holds in every state of the client.
THEOREM ClientInvariance == ClientSpec => []ClientIInv
BY ClientInvariantInit, ClientInvariantStep, PTL DEF ClientSpec

-----------------------------------------------------------------------------
(* What the invariant says to the users of a client.                       *)

\* The variables have their types; the epoch never passes the number of
\* disconnect() calls.
THEOREM ClientTypeCorrect == ClientSpec => []ClientTypeOK
BY ClientInvariance, PTL DEF ClientIInv

\* However exec(), aborts, timeouts, losses and disconnect() interleave, one
\* queued function is under way at a time, and a command that runs has the
\* open session's shell to itself, with no resync of an earlier command.
THEOREM CommandsAreSerial == ClientSpec => []OneCommandPerShell
<1>1. ClientIInv => OneCommandPerShell
  <2> SUFFICES ASSUME ClientIInv PROVE OneCommandPerShell
    OBVIOUS
  <2>1. \A e, f \in Execs : exec[e].pc \in InSession /\ exec[f].pc \in InSession => e = f
    BY HeadFacts
  <2>2. \A e \in Execs : OnLiveShell(e) => exec[e].io = active /\ ~resyncing[active]
    BY DEF ClientIInv, Shells, OnLiveShell, AtShell
  <2> QED BY <2>1, <2>2 DEF OneCommandPerShell
<1> QED BY <1>1, ClientInvariance, PTL

\* Of any number of overlapping disconnect() calls that end in any order, the
\* last to have begun lifts the barrier: none is left behind.
THEOREM NoBarrierIsLeft == ClientSpec => []AcceptsWhenIdle
<1>1. ClientIInv => AcceptsWhenIdle
  BY DEF ClientIInv, Barriers, AcceptsWhenIdle
<1> QED BY <1>1, ClientInvariance, PTL

-----------------------------------------------------------------------------
(* The steps of the client: the barrier, the signal and what becomes of    *)
(* the commands.                                                           *)

\* A command that was called before the latest disconnect() and is still
\* with its shell is with one that is gone.
StaleIsGone ==
  \A e \in Execs :
    exec[e].pc \in AtShell /\ exec[e].epoch # epoch => attempt[exec[e].io].tornDown

\* While its function has not settled, only its signal answers a caller; and
\* the signal takes the command off a live shell.
CallersWait ==
  \A e \in Execs :
    /\ exec[e].pc \in {"queued"} \cup InSession => e \in aborted \/ exec[e].result = "pending"
    /\ OnLiveShell(e) => exec[e].result = "pending"

\* Something of a command is left on the open session's shell alone, or on
\* one that is gone.
LeftOnOpenShell ==
  \A a \in unclean : a \in Created /\ (attempt[a].tornDown \/ a = active)

\* The inductive invariant.
StepIInv == ClientIInv /\ StaleIsGone /\ CallersWait /\ LeftOnOpenShell /\ NoCommandIsAbandoned

LEMMA ExecType ==
  ASSUME ClientIInv
  PROVE  exec \in [Execs -> ExecRecords]
BY DEF ClientIInv, ClientTypeOK, ExecRecords, N

\* A step of one exec() leaves the records of the others alone.
LEMMA OthersStay ==
  ASSUME ClientIInv, NEW e \in Execs, NEW f \in Execs, f # e,
         \/ Exec(e) \/ StartOnOpenSession(e) \/ StartWithConnect(e) \/ Connected(e)
         \/ AfterResync(e) \/ ExecSettles(e) \/ AbortExec(e)
         \/ CommandCompletes(e) \/ CommandTimesOut(e) \/ CommandKillsShell(e)
         \/ ShellRejects(e)
  PROVE  exec'[f] = exec[f] /\ epoch' = epoch
BY ExecType
DEF Exec, StartOnOpenSession, StartWithConnect, Connected, AfterResync, ExecSettles, AbortExec,
    CommandCompletes, CommandTimesOut, CommandKillsShell, ShellRejects, Settles, RunCommand,
    WriteCommand

\* A step of an exec() is a step of its session, and moves no barrier.
LEMMA ExecMoves ==
  ASSUME ClientIInv, NEW e \in Execs,
         \/ Exec(e) \/ StartOnOpenSession(e) \/ StartWithConnect(e) \/ Connected(e)
         \/ AfterResync(e) \/ ExecSettles(e) \/ AbortExec(e)
         \/ CommandCompletes(e) \/ CommandTimesOut(e) \/ CommandKillsShell(e)
         \/ ShellRejects(e)
  PROVE  epoch' = epoch /\ SessionStep
<1>1. epoch' = epoch
  BY DEF Exec, StartOnOpenSession, StartWithConnect, Connected, AfterResync, ExecSettles, AbortExec,
         CommandCompletes, CommandTimesOut, CommandKillsShell, ShellRejects
<1>2. SessionStep
  <2>1. CASE UNCHANGED sessionVars
    BY <2>1 DEF SessionStep
  <2>2. CASE StartWithConnect(e)
    BY <2>2, ExecsAssumption DEF StartWithConnect, SessionStep, Next
  <2>3. CASE AbortExec(e)
    BY <2>3, ExecsAssumption DEF AbortExec, SessionStep, SignalFires
  <2>4. CASE CommandKillsShell(e)
    <3>1. exec[e].io \in Created
      BY <2>4 DEF CommandKillsShell, OnLiveShell, ClientIInv, Shells, AtShell
    <3> QED BY <2>4, <3>1 DEF CommandKillsShell, SessionStep, Next, Transport
  <2> QED BY <2>1, <2>2, <2>3, <2>4
          DEF Exec, StartOnOpenSession, Connected, AfterResync, ExecSettles,
              CommandCompletes, CommandTimesOut, ShellRejects
<1> QED BY <1>1, <1>2

\* How the record of the exec() itself moves.
LEMMA OwnStep ==
  ASSUME ClientIInv, NEW e \in Execs,
         \/ Exec(e) \/ StartOnOpenSession(e) \/ StartWithConnect(e) \/ Connected(e)
         \/ AfterResync(e) \/ ExecSettles(e) \/ AbortExec(e)
         \/ CommandCompletes(e) \/ CommandTimesOut(e) \/ CommandKillsShell(e)
         \/ ShellRejects(e)
  PROVE  /\ exec[e].pc = "idle" \/ exec'[e].epoch = exec[e].epoch
         /\ exec'[e].pc \in AtShell =>
              \/ ~Refused(e) /\ exec[e].pc \in {"queued", "connecting"}
              \/ /\ exec[e].pc \in AtShell /\ exec'[e].io = exec[e].io
                 /\ \/ exec'[e].pc = exec[e].pc
                    \/ e \notin aborted /\ ~attempt[exec[e].io].tornDown
         /\ exec'[e].pc = "connecting" => exec[e].pc = "connecting" \/ ~Refused(e)
         /\ exec'[e].outcome = "ok" =>
              exec[e].outcome = "ok" \/ OnLiveShell(e)
<1>1. exec \in [Execs -> ExecRecords]
  BY ExecType
<1>2. CASE Exec(e)
  BY <1>1, <1>2 DEF Exec, ExecRecords, AtShell
<1>3. CASE StartOnOpenSession(e)
  BY <1>1, <1>3 DEF StartOnOpenSession, Settles, RunCommand, WriteCommand, ExecRecords, AtShell
<1>4. CASE StartWithConnect(e)
  BY <1>1, <1>4 DEF StartWithConnect, ExecRecords, AtShell
<1>5. CASE Connected(e)
  BY <1>1, <1>5 DEF Connected, Settles, RunCommand, WriteCommand, ExecRecords, AtShell
<1>6. CASE AfterResync(e)
  BY <1>1, <1>6 DEF AfterResync, Settles, WriteCommand, ExecRecords, AtShell
<1>7. CASE ExecSettles(e)
  BY <1>1, <1>7 DEF ExecSettles, ExecRecords, AtShell
<1>8. CASE AbortExec(e)
  <2>1. PICK result : result = IF exec[e].result = "pending" THEN "closed" ELSE exec[e].result
    OBVIOUS
  <2>2. \/ exec' = [exec EXCEPT ![e] =
             [exec[e] EXCEPT !.result = result, !.pc = "settling", !.outcome = "closed"]]
        \/ exec' = [exec EXCEPT ![e] = [exec[e] EXCEPT !.result = result]]
    BY <1>1, <1>8, <2>1 DEF AbortExec, ExecRecords
  <2>3. /\ exec'[e].epoch = exec[e].epoch /\ exec'[e].io = exec[e].io
        /\ \/ exec'[e].pc = exec[e].pc /\ exec'[e].outcome = exec[e].outcome
           \/ exec'[e].pc = "settling" /\ exec'[e].outcome = "closed"
    BY <1>1, <2>2 DEF ExecRecords
  <2> QED BY <2>3 DEF AtShell
<1>9. CASE CommandCompletes(e)
  BY <1>1, <1>9 DEF CommandCompletes, Settles, ExecRecords, AtShell, OnLiveShell
<1>10. CASE CommandTimesOut(e) \/ CommandKillsShell(e) \/ ShellRejects(e)
  BY <1>1, <1>10 DEF CommandTimesOut, CommandKillsShell, ShellRejects, Settles, ExecRecords,
                     AtShell, OnLiveShell
<1> QED BY <1>2, <1>3, <1>4, <1>5, <1>6, <1>7, <1>8, <1>9, <1>10

-----------------------------------------------------------------------------
(* The invariant.                                                          *)

\* Steps of the session that change neither a call of exec() nor the epoch.
LEMMA SessionKeepsStale ==
  ASSUME StepIInv, SessionStep, NEW e \in Execs,
         exec'[e].pc \in AtShell => exec[e].pc \in AtShell /\ exec'[e].io = exec[e].io,
         exec'[e].epoch = exec[e].epoch, epoch' = epoch
  PROVE  exec'[e].pc \in AtShell /\ exec'[e].epoch # epoch' => attempt'[exec'[e].io].tornDown
<1> SUFFICES ASSUME exec'[e].pc \in AtShell, exec'[e].epoch # epoch'
             PROVE  attempt'[exec'[e].io].tornDown
  OBVIOUS
<1>1. exec[e].io \in Created /\ attempt[exec[e].io].tornDown
  BY DEF StepIInv, StaleIsGone, ClientIInv, Shells
<1> QED BY <1>1, ShellsStay DEF StepIInv, ClientIInv

\* A disconnect() makes all calls stale, and tears down the shell in use.
LEMMA DisconnectKeepsStale ==
  ASSUME StepIInv, NEW d \in Disconnects, ClientDisconnect(d)
  PROVE  StaleIsGone'
<1> SUFFICES ASSUME NEW e \in Execs, exec[e].pc \in AtShell
             PROVE  attempt'[exec[e].io].tornDown
  BY DEF StaleIsGone, ClientDisconnect
<1>1. /\ exec[e].io \in Created
      /\ attempt[exec[e].io].tornDown \/ exec[e].io = active
  BY DEF StepIInv, ClientIInv, Shells
<1>2. exec[e].io # NoAttempt
  BY <1>1, CreatedFacts DEF StepIInv, ClientIInv
<1>3. active' = NoAttempt
  <2>1. active \in {NoAttempt} \cup Attempts /\ active' = IF active \in Owned THEN NoAttempt ELSE active
    BY DEF ClientDisconnect, Disconnect, StepIInv, ClientIInv, IInv, TypeOK
  <2>2. active \in Attempts => ~attempt[active].tornDown
    BY <2>1, MaxAttemptsAssumption
    DEF StepIInv, ClientIInv, IInv, TypeOK, Situation, Open, Attempts, NoAttempt
  <2> QED BY <2>1, <2>2 DEF Owned
<1>4. SessionStep
  BY DEF ClientDisconnect, SessionStep, Next
<1> QED BY <1>1, <1>2, <1>3, <1>4, ShellsStay DEF StepIInv, ClientIInv

-----------------------------------------------------------------------------
(* The callers and their commands.                                         *)

LEMMA SignalsStay ==
  ASSUME SessionStep
  PROVE  aborted \subseteq aborted'
<1>1. ASSUME NEW a, Transport(a) PROVE aborted' = aborted
  BY <1>1
  DEF Transport, HostKeyRejected, ClientReady, ShellCallback, ShellTimeout, ChannelGone,
      ClientError, ClientClose, EndTimer, DeadlinePasses, ReadySettles, ReadyResult, ShellDead,
      untouched
<1> QED BY <1>1
        DEF SessionStep, SignalFires, Next, sessionVars, Connect, ConnectOpen, ConnectJoin,
            ConnectAborted, ConnectNew, Abort, Disconnect, DisconnectReturns

\* Only an abort answers the caller of a function that goes on, and not
\* while the command runs on a live shell.
LEMMA OwnAnswer ==
  ASSUME StepIInv, NEW e \in Execs,
         \/ Exec(e) \/ StartOnOpenSession(e) \/ StartWithConnect(e) \/ Connected(e)
         \/ AfterResync(e) \/ ExecSettles(e) \/ AbortExec(e)
         \/ CommandCompletes(e) \/ CommandTimesOut(e) \/ CommandKillsShell(e)
         \/ ShellRejects(e)
  PROVE  /\ exec'[e].pc \in {"queued"} \cup InSession => e \in aborted' \/ exec'[e].result = "pending"
         /\ exec'[e].pc = "running" =>
              \/ exec'[e].result = "pending"
              \/ /\ exec[e].pc = "running" /\ exec'[e].io = exec[e].io
                 /\ attempt[exec[e].io].tornDown
<1>1. exec \in [Execs -> ExecRecords]
  BY ExecType DEF StepIInv
<1>2. aborted \subseteq aborted'
  BY ExecMoves, SignalsStay DEF StepIInv
<1>3. /\ exec[e].pc \in {"queued"} \cup InSession => e \in aborted \/ exec[e].result = "pending"
      /\ OnLiveShell(e) => exec[e].result = "pending"
  BY DEF StepIInv, CallersWait
<1>4. CASE Exec(e)
  BY <1>1, <1>4 DEF Exec, ExecRecords, InSession
<1>5. CASE StartOnOpenSession(e)
  BY <1>1, <1>2, <1>3, <1>5
  DEF StartOnOpenSession, Settles, RunCommand, WriteCommand, Refused, ExecRecords, InSession
<1>6. CASE StartWithConnect(e)
  BY <1>1, <1>2, <1>3, <1>6 DEF StartWithConnect, ExecRecords, InSession
<1>7. CASE Connected(e)
  BY <1>1, <1>2, <1>3, <1>7
  DEF Connected, Settles, RunCommand, WriteCommand, Refused, ExecRecords, InSession
<1>8. CASE AfterResync(e)
  BY <1>1, <1>2, <1>3, <1>8 DEF AfterResync, Settles, WriteCommand, ExecRecords, InSession
<1>9. CASE ExecSettles(e)
  BY <1>1, <1>9 DEF ExecSettles, ExecRecords, InSession
<1>10. CASE AbortExec(e)
  <2>1. PICK result : result = IF exec[e].result = "pending" THEN "closed" ELSE exec[e].result
    OBVIOUS
  <2>2. e \in aborted'
    BY <1>10 DEF AbortExec
  <2>3. CASE OnLiveShell(e)
    <3>1. exec' = [exec EXCEPT ![e] =
             [exec[e] EXCEPT !.result = result, !.pc = "settling", !.outcome = "closed"]]
      BY <1>1, <1>10, <2>1, <2>3 DEF AbortExec, ExecRecords
    <3> QED BY <1>1, <2>2, <3>1 DEF ExecRecords
  <2>4. CASE ~OnLiveShell(e)
    <3>1. exec' = [exec EXCEPT ![e] = [exec[e] EXCEPT !.result = result]]
      BY <1>1, <1>10, <2>1, <2>4 DEF AbortExec, ExecRecords
    <3> QED BY <1>1, <2>2, <2>4, <3>1 DEF OnLiveShell, ExecRecords
  <2> QED BY <2>3, <2>4
<1>11. CASE CommandCompletes(e) \/ CommandTimesOut(e) \/ CommandKillsShell(e) \/ ShellRejects(e)
  BY <1>1, <1>2, <1>3, <1>11
  DEF CommandCompletes, CommandTimesOut, CommandKillsShell, ShellRejects, OnLiveShell, Settles,
      ExecRecords, InSession
<1> QED BY <1>4, <1>5, <1>6, <1>7, <1>8, <1>9, <1>10, <1>11

\* A shell that dies in use is gone.
LEMMA DeadShellIsGone ==
  ASSUME IInv, NEW a \in Created, a = active, ShellDead(a)
  PROVE  attempt'[a].tornDown
<1>1. a \in Attempts /\ attempt[a] \in AttemptRecords /\ Open(attempt[a])
  BY CreatedFacts
<1>2. OnShellDead(Snapshot(a)) = Effect("teardown")
  BY <1>1 DEF OnShellDead, Snapshot, Open
<1>3. Teardown(a, attempt[a])
  BY <1>2 DEF ShellDead, Apply, Effect
<1> QED BY <1>1, <1>3 DEF Teardown, TornDown, IInv, TypeOK, AttemptRecords

\* Steps that write no command, and in which the callers keep waiting.
LEMMA QuietCommands ==
  ASSUME StepIInv, SessionStep, exec' = exec, unclean' \subseteq unclean,
         \A a \in unclean' : resyncing[a] => resyncing'[a] \/ attempt'[a].tornDown
  PROVE  CallersWait' /\ LeftOnOpenShell' /\ NoCommandIsAbandoned'
<1>1. \A a \in Created :
        /\ a \in Created'
        /\ attempt[a].tornDown => attempt'[a].tornDown
        /\ a = active => a = active' \/ attempt'[a].tornDown
  BY ShellsStay DEF StepIInv, ClientIInv
<1>2. CallersWait'
  <2>1. \A e \in Execs : exec[e].pc = "running" => exec[e].io \in Created
    BY DEF StepIInv, ClientIInv, Shells, AtShell
  <2> QED BY <1>1, <2>1, SignalsStay DEF StepIInv, CallersWait, OnLiveShell
<1>3. LeftOnOpenShell'
  BY <1>1 DEF StepIInv, LeftOnOpenShell
<1>4. NoCommandIsAbandoned'
  BY <1>1 DEF StepIInv, LeftOnOpenShell, NoCommandIsAbandoned
<1> QED BY <1>2, <1>3, <1>4

\* A step of one exec(): what it leaves on a shell.
LEMMA OwnCommand ==
  ASSUME StepIInv, NEW e \in Execs,
         \/ Exec(e) \/ StartOnOpenSession(e) \/ StartWithConnect(e) \/ Connected(e)
         \/ AfterResync(e) \/ ExecSettles(e) \/ AbortExec(e)
         \/ CommandCompletes(e) \/ CommandTimesOut(e) \/ CommandKillsShell(e)
         \/ ShellRejects(e)
  PROVE  /\ \A a \in unclean' : a \in unclean \/ (exec'[e].pc = "running" /\ exec'[e].io = a)
         /\ \A a \in unclean : resyncing[a] => resyncing'[a]
         /\ exec[e].pc = "running" =>
              \/ exec[e].io \notin unclean'
              \/ attempt'[exec[e].io].tornDown
              \/ resyncing'[exec[e].io]
<1>1. exec \in [Execs -> ExecRecords] /\ resyncing \in [Attempts -> BOOLEAN]
  BY ExecType DEF StepIInv, ClientIInv, ClientTypeOK
<1>2. exec[e].pc = "running" =>
        /\ exec[e].io \in Created /\ exec[e].io \in Attempts
        /\ attempt[exec[e].io].tornDown \/ exec[e].io = active
        /\ attempt[exec[e].io].tornDown => attempt'[exec[e].io].tornDown
  BY ExecMoves, ShellsStay, CreatedFacts DEF StepIInv, ClientIInv, Shells, AtShell
<1>3. CASE Exec(e) \/ StartWithConnect(e) \/ ExecSettles(e)
  BY <1>3 DEF Exec, StartWithConnect, ExecSettles
<1>4. CASE StartOnOpenSession(e) \/ Connected(e) \/ AfterResync(e)
  BY <1>4 DEF StartOnOpenSession, Connected, AfterResync, Written
<1>5. CASE CommandCompletes(e)
  BY <1>5 DEF CommandCompletes
<1>6. CASE CommandTimesOut(e)
  BY <1>1, <1>2, <1>6 DEF CommandTimesOut, OnLiveShell, StepIInv, LeftOnOpenShell
<1>7. CASE CommandKillsShell(e)
  BY <1>2, <1>7, DeadShellIsGone DEF CommandKillsShell, OnLiveShell, StepIInv, ClientIInv
<1>8. CASE ShellRejects(e)
  BY <1>2, <1>8 DEF ShellRejects
<1>9. CASE AbortExec(e)
  <2>1. CASE OnLiveShell(e)
    <3>1. resyncing' = [resyncing EXCEPT ![exec[e].io] = TRUE] /\ unclean' = unclean
      BY <1>9, <2>1 DEF AbortExec
    <3>2. unclean \subseteq Attempts /\ exec[e].io \in Attempts
      BY <1>2, <2>1 DEF OnLiveShell, StepIInv, ClientIInv, ClientTypeOK
    <3> QED BY <1>1, <3>1, <3>2
  <2>2. CASE ~OnLiveShell(e)
    BY <1>2, <1>9, <2>2 DEF AbortExec, OnLiveShell
  <2> QED BY <2>1, <2>2
<1> QED BY <1>3, <1>4, <1>5, <1>6, <1>7, <1>8, <1>9

LEMMA OwnCommandKeeps ==
  ASSUME StepIInv, NEW e \in Execs,
         \/ Exec(e) \/ StartOnOpenSession(e) \/ StartWithConnect(e) \/ Connected(e)
         \/ AfterResync(e) \/ ExecSettles(e) \/ AbortExec(e)
         \/ CommandCompletes(e) \/ CommandTimesOut(e) \/ CommandKillsShell(e)
         \/ ShellRejects(e)
  PROVE  CallersWait' /\ LeftOnOpenShell' /\ NoCommandIsAbandoned'
<1>1. ClientIInv'
  BY ClientInvariantStep DEF StepIInv, ClientNext
<1>2. /\ SessionStep
      /\ \A f \in Execs : f # e => exec'[f] = exec[f]
  BY ExecMoves, OthersStay DEF StepIInv
<1>3. \A a \in Created :
        /\ a \in Created'
        /\ attempt[a].tornDown => attempt'[a].tornDown
        /\ a = active => a = active' \/ attempt'[a].tornDown
  BY <1>2, ShellsStay DEF StepIInv, ClientIInv
<1>4. \A f \in Execs : exec[f].pc = "running" => exec[f].io \in Created
  BY DEF StepIInv, ClientIInv, Shells, AtShell
<1>5. exec'[e].pc = "running" =>
        /\ exec'[e].io \in Created'
        /\ attempt'[exec'[e].io].tornDown \/ exec'[e].io = active'
  BY <1>1 DEF ClientIInv, Shells, AtShell
<1>6. exec'[e].pc = "running" => exec'[e].result = "pending" \/ attempt'[exec'[e].io].tornDown
  BY <1>3, <1>4, OwnAnswer
<1>7. CallersWait'
  <2>1. ASSUME NEW f \in Execs
        PROVE  /\ exec'[f].pc \in {"queued"} \cup InSession => f \in aborted' \/ exec'[f].result = "pending"
               /\ exec'[f].pc = "running" /\ ~attempt'[exec'[f].io].tornDown => exec'[f].result = "pending"
    <3>1. CASE f = e
      BY <1>6, <3>1, OwnAnswer
    <3>2. CASE f # e
      BY <1>2, <1>3, <1>4, <3>2, SignalsStay DEF StepIInv, CallersWait, OnLiveShell
    <3> QED BY <3>1, <3>2
  <2> QED BY <2>1 DEF CallersWait, OnLiveShell
<1>8. LeftOnOpenShell'
  <2> SUFFICES ASSUME NEW a \in unclean'
               PROVE  a \in Created' /\ (attempt'[a].tornDown \/ a = active')
    BY DEF LeftOnOpenShell
  <2>1. a \in unclean \/ (exec'[e].pc = "running" /\ exec'[e].io = a)
    BY OwnCommand
  <2> QED BY <1>3, <1>5, <2>1 DEF StepIInv, LeftOnOpenShell
<1>9. NoCommandIsAbandoned'
  <2> SUFFICES ASSUME NEW a \in unclean', ~attempt'[a].tornDown, ~resyncing'[a]
               PROVE  \E f \in Execs :
                        exec'[f].pc = "running" /\ exec'[f].io = a /\ exec'[f].result = "pending"
    BY DEF NoCommandIsAbandoned
  <2>1. CASE exec'[e].pc = "running" /\ exec'[e].io = a
    BY <1>6, <2>1
  <2>2. CASE ~(exec'[e].pc = "running" /\ exec'[e].io = a)
    <3>1. a \in unclean
      BY <2>2, OwnCommand
    <3>2. ~attempt[a].tornDown /\ ~resyncing[a]
      BY <1>3, <3>1, OwnCommand DEF StepIInv, LeftOnOpenShell
    <3>3. PICK f \in Execs :
            exec[f].pc = "running" /\ exec[f].io = a /\ exec[f].result = "pending"
      BY <3>1, <3>2 DEF StepIInv, NoCommandIsAbandoned
    <3>4. f # e
      BY <3>3, OwnCommand
    <3> QED BY <1>2, <3>3, <3>4
  <2> QED BY <2>1, <2>2
<1> QED BY <1>7, <1>8, <1>9

\* The prompt came back, or the shell is gone.
LEMMA ResyncEndsKeeps ==
  ASSUME StepIInv, NEW a \in Created, ResyncEnds(a)
  PROVE  CallersWait' /\ LeftOnOpenShell' /\ NoCommandIsAbandoned'
<1>1. SessionStep /\ exec' = exec /\ unclean' \subseteq unclean
  BY DEF ResyncEnds, SessionStep, Next, Transport
<1>2. resyncing \in [Attempts -> BOOLEAN] /\ resyncing' = [resyncing EXCEPT ![a] = FALSE]
  BY DEF ResyncEnds, StepIInv, ClientIInv, ClientTypeOK
<1>3. ASSUME NEW b \in unclean', resyncing[b]
      PROVE  resyncing'[b] \/ attempt'[b].tornDown
  <2>1. b \in Attempts /\ b \in unclean
    BY <1>1 DEF StepIInv, ClientIInv, ClientTypeOK
  <2>2. CASE b # a
    BY <1>2, <1>3, <2>1, <2>2
  <2>3. CASE b = a
    <3>1. ShellDead(a) /\ ~attempt[a].tornDown
      BY <1>3, <2>3 DEF ResyncEnds
    <3>2. a = active
      BY <2>1, <2>3, <3>1 DEF StepIInv, LeftOnOpenShell
    <3> QED BY <2>3, <3>1, <3>2, DeadShellIsGone DEF StepIInv, ClientIInv
  <2> QED BY <2>2, <2>3
<1> QED BY <1>1, <1>3, QuietCommands

LEMMA StepInvariantStep == StepIInv /\ [ClientNext]_vars => StepIInv'
<1> SUFFICES ASSUME StepIInv, [ClientNext]_vars PROVE StepIInv'
  OBVIOUS
<1> DEFINE Added == StaleIsGone /\ CallersWait /\ LeftOnOpenShell /\ NoCommandIsAbandoned
<1>1. ClientIInv'
  BY ClientInvariantStep DEF StepIInv
<1>2. ASSUME NEW e \in Execs,
             \/ Exec(e) \/ StartOnOpenSession(e) \/ StartWithConnect(e) \/ Connected(e)
             \/ AfterResync(e) \/ ExecSettles(e) \/ AbortExec(e)
             \/ CommandCompletes(e) \/ CommandTimesOut(e) \/ CommandKillsShell(e)
             \/ ShellRejects(e)
      PROVE  Added'
  <2>1. SessionStep /\ epoch' = epoch
    BY <1>2, ExecMoves DEF StepIInv
  <2>2. ASSUME NEW f \in Execs, f # e
        PROVE  exec'[f] = exec[f]
    BY <1>2, <2>2, OthersStay DEF StepIInv
  <2>3. ASSUME NEW f \in Execs
        PROVE  exec'[f].pc \in AtShell /\ exec'[f].epoch # epoch' => attempt'[exec'[f].io].tornDown
    <3>1. CASE f # e
      BY <2>1, <2>2, <3>1, SessionKeepsStale
    <3>2. CASE f = e /\ exec'[e].pc \in AtShell
      <4>1. \/ ~Refused(e) /\ exec[e].pc \in {"queued", "connecting"}
            \/ exec[e].pc \in AtShell /\ exec'[e].io = exec[e].io
        BY <1>2, <3>2, OwnStep DEF StepIInv
      <4>2. exec'[e].epoch = exec[e].epoch
        BY <1>2, <4>1, OwnStep DEF StepIInv, AtShell
      <4>3. CASE ~Refused(e)
        BY <2>1, <3>2, <4>2, <4>3 DEF Refused
      <4>4. CASE exec[e].pc \in AtShell /\ exec'[e].io = exec[e].io
        BY <2>1, <3>2, <4>2, <4>4, SessionKeepsStale
      <4> QED BY <4>1, <4>3, <4>4
    <3> QED BY <3>1, <3>2
  <2>4. StaleIsGone'
    BY <2>3 DEF StaleIsGone
  <2> QED BY <1>2, <2>4, OwnCommandKeeps
<1>3. ASSUME SessionStep, exec' = exec, epoch' = epoch
      PROVE  StaleIsGone'
  BY <1>3, SessionKeepsStale DEF StepIInv, StaleIsGone
<1>4. ASSUME SessionStep, exec' = exec, UNCHANGED <<resyncing, unclean>>
      PROVE  CallersWait' /\ LeftOnOpenShell' /\ NoCommandIsAbandoned'
  BY <1>4, QuietCommands
<1>5. ASSUME UNCHANGED vars
      PROVE  Added'
  <2>1. SessionStep
    BY <1>5 DEF vars, SessionStep
  <2> QED BY <1>3, <1>4, <1>5, <2>1 DEF vars, clientVars
<1>6. ASSUME NEW c \in Connects, ClientConnect(c) \/ ConnectReturns(c)
      PROVE  Added'
  <2>1. SessionStep
    BY <1>6 DEF ClientConnect, ConnectReturns, SessionStep, Next, Connects
  <2> QED BY <1>3, <1>4, <1>6, <2>1 DEF ClientConnect, ConnectReturns
<1>7. ASSUME NEW d \in Disconnects, ClientDisconnect(d)
      PROVE  Added'
  <2>1. SessionStep
    BY <1>7 DEF ClientDisconnect, SessionStep, Next
  <2> QED BY <1>4, <1>7, <2>1, DisconnectKeepsStale DEF ClientDisconnect
<1>8. ASSUME NEW d \in Disconnects, ClientDisconnectReturns(d)
      PROVE  Added'
  <2>1. SessionStep
    BY <1>8 DEF ClientDisconnectReturns, SessionStep, Next
  <2> QED BY <1>3, <1>4, <1>8, <2>1 DEF ClientDisconnectReturns
<1>9. ASSUME NEW a \in Created, ClientTransport(a)
      PROVE  Added'
  <2>1. SessionStep
    BY <1>9 DEF ClientTransport, SessionStep, Next
  <2> QED BY <1>3, <1>4, <1>9, <2>1 DEF ClientTransport, clientVars
<1>10. ASSUME NEW a \in Created, ResyncEnds(a)
      PROVE  Added'
  <2>1. SessionStep
    BY <1>10 DEF ResyncEnds, SessionStep, Next, Transport
  <2> QED BY <1>3, <1>10, <2>1, ResyncEndsKeeps DEF ResyncEnds
<1>11. Added'
  BY <1>2, <1>5, <1>6, <1>7, <1>8, <1>9, <1>10 DEF ClientNext
<1> QED BY <1>1, <1>11 DEF StepIInv

\* The inductive invariant of these proofs: that of the client, and where
\* the commands of overtaken calls and of callers who gave up may be.
THEOREM StepInvariance == ClientSpec => []StepIInv
<1>1. ClientInit => StepIInv
  BY ClientInvariantInit
  DEF ClientInit, StepIInv, StaleIsGone, CallersWait, LeftOnOpenShell, NoCommandIsAbandoned,
      OnLiveShell, AtShell, InSession
<1> QED BY <1>1, StepInvariantStep, PTL DEF ClientSpec

-----------------------------------------------------------------------------
(* What no step may do.                                                    *)

\* Every step is one of an exec() or leaves the calls of exec() alone.
LEMMA WhoMoves ==
  ASSUME [ClientNext]_vars
  PROVE  \/ exec' = exec
         \/ \E e \in Execs :
              \/ Exec(e) \/ StartOnOpenSession(e) \/ StartWithConnect(e) \/ Connected(e)
              \/ AfterResync(e) \/ ExecSettles(e) \/ AbortExec(e)
              \/ CommandCompletes(e) \/ CommandTimesOut(e) \/ CommandKillsShell(e)
              \/ ShellRejects(e)
BY DEF ClientNext, vars, clientVars, ClientConnect, ConnectReturns, ClientDisconnect,
       ClientDisconnectReturns, ClientTransport, ResyncEnds

\* connect() reports success only to callers of the current epoch.
LEMMA ConnectMoves ==
  ASSUME ClientIInv, [ClientNext]_vars, NEW c \in Connects, connect'[c].result = "ok"
  PROVE  connect[c].result = "ok" \/ connect[c].epoch = epoch
<1>1. connect \in [Connects -> [epoch : 0 .. N, result : {"none", "pending"} \cup Outcomes]]
  BY DEF ClientIInv, ClientTypeOK, N
<1>2. CASE connect' = connect
  BY <1>2
<1>3. ASSUME NEW x \in Connects, ClientConnect(x) \/ ConnectReturns(x)
      PROVE  connect[c].result = "ok" \/ connect[c].epoch = epoch
  BY <1>1, <1>3 DEF ClientConnect, ConnectReturns
<1> QED BY <1>2, <1>3
        DEF ClientNext, vars, clientVars, Exec, StartOnOpenSession, StartWithConnect, Connected,
            AfterResync, ExecSettles, AbortExec, CommandCompletes, CommandTimesOut,
            CommandKillsShell, ShellRejects, ClientDisconnect, ClientDisconnectReturns,
            ClientTransport, ResyncEnds

\* disconnect() is a barrier, for any number of calls and of overlapping
\* disconnects: a call it overtook neither connects nor writes its command
\* nor completes it, also when it was waiting for a connect or a resync.
THEOREM NoCallCrossesTheBarrier == ClientSpec => DisconnectIsABarrier
<1>1. StepIInv /\ [ClientNext]_vars =>
        [/\ \A e \in Execs :
              exec[e].pc # "idle" /\ exec[e].epoch # epoch =>
                /\ exec'[e].pc \in {"connecting", "running"} => exec'[e].pc = exec[e].pc
                /\ exec'[e].outcome = "ok" => exec[e].outcome = "ok"
         /\ \A c \in Connects :
              connect'[c].result = "ok" =>
                connect[c].result = "ok" \/ connect[c].epoch = epoch]_vars
  <2> SUFFICES ASSUME StepIInv, [ClientNext]_vars
               PROVE  /\ \A e \in Execs :
                           exec[e].pc # "idle" /\ exec[e].epoch # epoch =>
                             /\ exec'[e].pc \in {"connecting", "running"} => exec'[e].pc = exec[e].pc
                             /\ exec'[e].outcome = "ok" => exec[e].outcome = "ok"
                      /\ \A c \in Connects :
                           connect'[c].result = "ok" =>
                             connect[c].result = "ok" \/ connect[c].epoch = epoch
    OBVIOUS
  <2>1. ASSUME NEW e \in Execs, exec[e].pc # "idle", exec[e].epoch # epoch
        PROVE  /\ exec'[e].pc \in {"connecting", "running"} => exec'[e].pc = exec[e].pc
               /\ exec'[e].outcome = "ok" => exec[e].outcome = "ok"
    <3>1. exec[e].pc \in AtShell => attempt[exec[e].io].tornDown
      BY <2>1 DEF StepIInv, StaleIsGone
    <3>2. Refused(e)
      BY <2>1 DEF Refused
    <3>3. CASE exec'[e] = exec[e]
      BY <3>3
    <3>4. CASE \/ Exec(e) \/ StartOnOpenSession(e) \/ StartWithConnect(e) \/ Connected(e)
               \/ AfterResync(e) \/ ExecSettles(e) \/ AbortExec(e)
               \/ CommandCompletes(e) \/ CommandTimesOut(e) \/ CommandKillsShell(e)
               \/ ShellRejects(e)
      <4>1. exec'[e].pc \in AtShell => exec'[e].pc = exec[e].pc
        BY <3>1, <3>2, <3>4, OwnStep DEF StepIInv
      <4>2. exec'[e].pc = "connecting" => exec[e].pc = "connecting"
        BY <3>2, <3>4, OwnStep DEF StepIInv
      <4>3. exec'[e].outcome = "ok" => exec[e].outcome = "ok"
        BY <3>1, <3>4, OwnStep DEF StepIInv, OnLiveShell, AtShell
      <4> QED BY <4>1, <4>2, <4>3 DEF AtShell
    <3> QED BY <3>3, <3>4, WhoMoves, OthersStay DEF StepIInv
  <2> QED BY <2>1, ConnectMoves DEF StepIInv
<1> QED BY <1>1, StepInvariance, PTL DEF ClientSpec, DisconnectIsABarrier

\* A command whose signal has fired is not written, whatever its function
\* was waiting for.
THEOREM NoAbortedCommandIsWritten == ClientSpec => AbortedIsNotWritten
<1>1. StepIInv /\ [ClientNext]_vars =>
        [\A e \in Execs :
           e \in aborted /\ exec'[e].pc = "running" => exec[e].pc = "running"]_vars
  <2> SUFFICES ASSUME StepIInv, [ClientNext]_vars,
                      NEW e \in Execs, e \in aborted, exec'[e].pc = "running"
               PROVE  exec[e].pc = "running"
    OBVIOUS
  <2>1. CASE exec'[e] = exec[e]
    BY <2>1
  <2>2. CASE \/ Exec(e) \/ StartOnOpenSession(e) \/ StartWithConnect(e) \/ Connected(e)
             \/ AfterResync(e) \/ ExecSettles(e) \/ AbortExec(e)
             \/ CommandCompletes(e) \/ CommandTimesOut(e) \/ CommandKillsShell(e)
             \/ ShellRejects(e)
    BY <2>2, OwnStep DEF StepIInv, Refused, AtShell
  <2> QED BY <2>1, <2>2, WhoMoves, OthersStay DEF StepIInv
<1> QED BY <1>1, StepInvariance, PTL DEF ClientSpec, AbortedIsNotWritten

\* However exec(), aborts, timeouts, losses and disconnect() interleave, what
\* is left of a command on a live shell is being cleared away, or its caller
\* still waits for it.
THEOREM NothingIsAbandoned == ClientSpec => []NoCommandIsAbandoned
<1>1. StepIInv => NoCommandIsAbandoned
  BY DEF StepIInv
<1> QED BY <1>1, StepInvariance, PTL
=============================================================================
