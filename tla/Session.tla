------------------------------ MODULE Session ------------------------------
(***************************************************************************)
(* session.ts: SshSession, one shared SSH session.  Callers that connect   *)
(* while an attempt is in flight join it; an attempt that succeeds becomes *)
(* the active one; every other attempt is torn down and its socket ended.  *)
(*                                                                         *)
(* JavaScript runs one job at a time, so a job (a call of the API, a       *)
(* listener, a timer, a promise continuation) is one action.  What can     *)
(* interleave is the ORDER of jobs: the transport's events, timers,        *)
(* continuations already due and the callers' own calls come in any order. *)
(***************************************************************************)
EXTENDS AttemptPlan, FiniteSets

CONSTANTS
  Callers,      \* promises returned by connect(), one per call
  Disconnects,  \* calls of disconnect()
  MaxAttempts,  \* bound on the attempts ever created
  HostKeyPinned,\* hostFingerprint is set and insecureSkipVerify is not
  Errors        \* the errors ssh2 may report

ASSUME MaxAttemptsAssumption == MaxAttempts \in Nat \ {0}
ASSUME HostKeyPinnedAssumption == HostKeyPinned \in BOOLEAN
ASSUME ErrorsAssumption == Errors \subseteq SshErrors

Attempts == 1 .. MaxAttempts
NoAttempt == 0

VARIABLES
  nextId,    \* #nextId: attempts 1 .. nextId have been created
  attempt,   \* ConnectionAttempt, with the Inflight record made for it
  inflight,  \* the attempt of #inflight, or NoAttempt
  active,    \* #active, or NoAttempt
  call,      \* the promise of each caller
  aborted,   \* callers whose AbortSignal has fired
  disc,      \* the promise of each disconnect()
  awaits     \* the attempts whose endPromise a disconnect() waits for

sessionVars == <<nextId, attempt, inflight, active, call, aborted, disc, awaits>>

(* `wire' and `channel' are the state of ssh2 (external); the others are   *)
(* the fields of ConnectionAttempt and Inflight.  `attached' stands for    *)
(* stream, io and onChannelGone, set together and read together; `ready'   *)
(* for the promise of waitForReady and its continuation, `end' for         *)
(* clientEnded and endPromise; `expired' says that the deadline is past.   *)
ReadyOutcomes == {"resolved"} \cup ErrorCodes

AttemptRecords ==
  [wire            : {"new", "connecting", "up", "down"},
   channel         : {"none", "requested", "open", "closed"},
   hostKeyRejected : BOOLEAN,
   expired         : BOOLEAN,
   shellTimer      : BOOLEAN,
   attached        : BOOLEAN,
   ready           : {"none", "waiting", "done"} \cup ReadyOutcomes,
   tornDown        : BOOLEAN,
   end             : {"none", "waiting", "done"},
   settled         : BOOLEAN,
   subscribers     : SUBSET Callers]

CreatedAttempt ==
  [wire |-> "new", channel |-> "none", hostKeyRejected |-> FALSE,
   expired |-> FALSE, shellTimer |-> FALSE, attached |-> FALSE,
   ready |-> "none", tornDown |-> FALSE, end |-> "none",
   settled |-> FALSE, subscribers |-> {}]

Init ==
  /\ nextId = 0
  /\ attempt = [a \in Attempts |-> CreatedAttempt]
  /\ inflight = NoAttempt
  /\ active = NoAttempt
  /\ call = [c \in Callers |-> "idle"]
  /\ aborted = {}
  /\ disc = [d \in Disconnects |-> "idle"]
  /\ awaits = [d \in Disconnects |-> {}]

-----------------------------------------------------------------------------
(* Tearing down and settling.  An operator takes the attempt's record r as *)
(* the running job has left it so far.                                     *)

Created == 1 .. nextId

\* Seeded fault: open as soon as there is a shell, confirmed or not.
IsOpen_BeforePrompt ==
  \E a \in Attempts : attempt[a].attached /\ ~attempt[a].tornDown

IsOpen ==
  /\ active # NoAttempt
  /\ ~attempt[active].tornDown
  /\ attempt[active].attached

Snapshot(a) ==
  [tornDown        |-> attempt[a].tornDown,
   isInflight      |-> inflight = a,
   inflightSettled |-> inflight = a /\ attempt[a].settled,
   isActive        |-> active = a]

\* What teardown makes of the record: listeners removed, the shell detached
\* (a ready wait still pending is rejected), the timer cleared, the stream
\* closed and end() called, with a close listener and a timer to resolve
\* endPromise.  (When end() throws, endPromise resolves at once: EndTimer.)
TornDown(r) ==
  IF r.tornDown THEN r
  ELSE [r EXCEPT !.tornDown   = TRUE,
                 !.ready      = IF @ = "waiting" THEN "closed" ELSE @,
                 !.channel    = IF r.attached THEN "closed" ELSE @,
                 !.attached   = FALSE,
                 !.shellTimer = FALSE,
                 !.end        = "waiting"]

FailedInflight(r) == [TornDown(r) EXCEPT !.settled = TRUE, !.subscribers = {}]

Without(current, a) == IF current = a THEN NoAttempt ELSE current

\* settleOne for each of the subscribers: the first outcome stands.
Settle(subscribers, outcome) ==
  [c \in Callers |->
     IF c \in subscribers /\ call[c] = "pending" THEN outcome ELSE call[c]]

Teardown(a, r) ==
  /\ attempt' = [attempt EXCEPT ![a] = TornDown(r)]
  /\ inflight' = Without(inflight, a)
  /\ active' = Without(active, a)
  /\ call' = call

OnlyRecord(a, r) ==
  /\ attempt' = [attempt EXCEPT ![a] = r]
  /\ UNCHANGED <<inflight, active, call>>

\* Seeded fault: the subscribers are cleared before they are copied.
FailInflight_NobodyTold(a, r, code) ==
  IF inflight = a /\ ~r.settled
    THEN /\ attempt' = [attempt EXCEPT ![a] = FailedInflight(r)]
         /\ inflight' = NoAttempt
         /\ active' = Without(active, a)
         /\ call' = call
    ELSE OnlyRecord(a, r)

FailInflight(a, r, code) ==
  IF inflight = a /\ ~r.settled
    THEN /\ attempt' = [attempt EXCEPT ![a] = FailedInflight(r)]
         /\ inflight' = NoAttempt
         /\ active' = Without(active, a)
         /\ call' = Settle(r.subscribers, code)
    ELSE IF active = a /\ ~r.tornDown
           THEN Teardown(a, r)
           ELSE OnlyRecord(a, r)

CloseStream(r) == [r EXCEPT !.channel = "closed"]

Apply(a, r, effect) ==
  CASE effect.type = "closeOwnStream" -> OnlyRecord(a, CloseStream(r))
    [] effect.type = "fail" ->
         FailInflight(a, IF effect.closeStream THEN CloseStream(r) ELSE r, effect.code)
    [] effect.type = "teardown" -> Teardown(a, r)
    [] OTHER -> OnlyRecord(a, r)

-----------------------------------------------------------------------------
(* connect(signal) and the abort of its signal.                            *)

\* The session is open: resolved at once, even if the signal has fired.
ConnectOpen(c) ==
  /\ call[c] = "idle"
  /\ IsOpen
  /\ call' = [call EXCEPT ![c] = "ok"]
  /\ UNCHANGED <<nextId, attempt, inflight, active, aborted, disc, awaits>>

\* subscribe to the attempt in flight.
ConnectJoin(c) ==
  /\ call[c] = "idle"
  /\ ~IsOpen
  /\ inflight # NoAttempt
  /\ IF attempt[inflight].settled \/ c \in aborted
       THEN /\ call' = [call EXCEPT ![c] = "closed"]
            /\ attempt' = attempt
       ELSE /\ call' = [call EXCEPT ![c] = "pending"]
            /\ attempt' = [attempt EXCEPT ![inflight].subscribers = @ \cup {c}]
  /\ UNCHANGED <<nextId, inflight, active, aborted, disc, awaits>>

\* Seeded fault: the attempt made for an aborted caller is not ended.
ConnectAborted_NotEnded(c) ==
  /\ call[c] = "idle"
  /\ ~IsOpen
  /\ inflight = NoAttempt
  /\ c \in aborted
  /\ nextId < MaxAttempts
  /\ nextId' = nextId + 1
  /\ call' = [call EXCEPT ![c] = "closed"]
  /\ UNCHANGED <<attempt, inflight, active, aborted, disc, awaits>>

\* The signal has fired already: the attempt is created only to be ended.
ConnectAborted(c) ==
  /\ call[c] = "idle"
  /\ ~IsOpen
  /\ inflight = NoAttempt
  /\ c \in aborted
  /\ nextId < MaxAttempts
  /\ nextId' = nextId + 1
  /\ attempt' = [attempt EXCEPT ![nextId'] = TornDown(CreatedAttempt)]
  /\ call' = [call EXCEPT ![c] = "closed"]
  /\ UNCHANGED <<inflight, active, aborted, disc, awaits>>

\* createAttempt, subscribe and openAttempt.  (The branch for an inflight
\* left without subscribers cannot be taken: the signal was just tested.)
ConnectNew(c) ==
  /\ call[c] = "idle"
  /\ ~IsOpen
  /\ inflight = NoAttempt
  /\ c \notin aborted
  /\ nextId < MaxAttempts
  /\ nextId' = nextId + 1
  /\ attempt' = [attempt EXCEPT ![nextId'] =
       [CreatedAttempt EXCEPT !.wire = "connecting", !.subscribers = {c}]]
  /\ inflight' = nextId'
  /\ call' = [call EXCEPT ![c] = "pending"]
  /\ UNCHANGED <<active, aborted, disc, awaits>>

Connect(c) == ConnectOpen(c) \/ ConnectJoin(c) \/ ConnectAborted(c) \/ ConnectNew(c)

\* Seeded fault: one caller's abort fails the attempt for all of them.
SubscriberAbort_FailsAll(c) ==
  IF inflight # NoAttempt /\ c \in attempt[inflight].subscribers
    THEN FailInflight(inflight, attempt[inflight], "closed")
    ELSE UNCHANGED <<attempt, inflight, active, call>>

\* onSubscriberAbort: the listener is there while c is subscribed; the last
\* subscriber to leave fails the attempt.
SubscriberAbort(c) ==
  IF \A a \in Attempts : c \notin attempt[a].subscribers
    THEN UNCHANGED <<attempt, inflight, active, call>>
    ELSE \E a \in Attempts :
           /\ c \in attempt[a].subscribers
           /\ IF attempt[a].subscribers = {c}
                THEN FailInflight(a, attempt[a], "closed")
                ELSE /\ attempt' = [attempt EXCEPT ![a].subscribers = @ \ {c}]
                     /\ call' = [call EXCEPT ![c] = "closed"]
                     /\ UNCHANGED <<inflight, active>>

\* The signal of c fires (bound: while the session may still look at it).
Abort(c) ==
  /\ c \notin aborted
  /\ call[c] \in {"idle", "pending"}
  /\ aborted' = aborted \cup {c}
  /\ SubscriberAbort(c)
  /\ UNCHANGED <<nextId, disc, awaits>>

-----------------------------------------------------------------------------
(* disconnect().                                                           *)

\* The attempts disconnect() tears down itself: it waits for these alone.
Owned ==
  {a \in Attempts : \/ inflight = a /\ ~attempt[a].settled
                    \/ active = a /\ ~attempt[a].tornDown}

Disconnect(d) ==
  /\ disc[d] = "idle"
  /\ disc' = [disc EXCEPT ![d] = "waiting"]
  /\ awaits' = [awaits EXCEPT ![d] = Owned]
  /\ attempt' = [a \in Attempts |->
       IF a \notin Owned THEN attempt[a]
       ELSE IF inflight = a THEN FailedInflight(attempt[a])
                            ELSE TornDown(attempt[a])]
  /\ call' = Settle(UNION {attempt[a].subscribers : a \in Owned}, "closed")
  /\ inflight' = IF inflight \in Owned THEN NoAttempt ELSE inflight
  /\ active' = IF active \in Owned THEN NoAttempt ELSE active
  /\ UNCHANGED <<nextId, aborted>>

DisconnectReturns(d) ==
  /\ disc[d] = "waiting"
  /\ \A a \in awaits[d] : attempt[a].end = "done"
  /\ disc' = [disc EXCEPT ![d] = "done"]
  /\ UNCHANGED <<nextId, attempt, inflight, active, call, aborted, awaits>>

-----------------------------------------------------------------------------
(* Events of the ssh2 client.  An attempt's listeners are there from       *)
(* openAttempt to teardown; shell()'s callback and promise continuations   *)
(* cannot be withdrawn and may run later.                                  *)

Listening(a) == attempt[a].wire \in {"connecting", "up"} /\ ~attempt[a].tornDown

untouched == <<nextId, aborted, disc, awaits>>

\* hostVerifier refuses the key; ssh2 then goes on to fail the handshake.
HostKeyRejected(a) ==
  /\ HostKeyPinned
  /\ attempt[a].wire = "connecting"
  /\ ~attempt[a].tornDown  \* bound: nothing reads the flag after teardown
  /\ ~attempt[a].hostKeyRejected
  /\ OnlyRecord(a, [attempt[a] EXCEPT !.hostKeyRejected = TRUE])
  /\ UNCHANGED untouched

\* Seeded fault: no timer while shell() is awaited.
ClientReady_NoTimer(a) ==
  /\ attempt[a].wire = "connecting"
  /\ Listening(a)
  /\ ~attempt[a].hostKeyRejected
  /\ OnlyRecord(a, [attempt[a] EXCEPT !.wire = "up", !.channel = "requested"])
  /\ UNCHANGED untouched

ClientReady(a) ==
  /\ attempt[a].wire = "connecting"
  /\ Listening(a)
  /\ ~attempt[a].hostKeyRejected
  /\ LET effect == OnReady(Snapshot(a), attempt[a].expired)
         up == [attempt[a] EXCEPT !.wire = "up"]
     IN IF effect.type = "openShell"
          THEN OnlyRecord(a, [up EXCEPT !.shellTimer = TRUE, !.channel = "requested"])
          ELSE Apply(a, up, effect)
  /\ UNCHANGED untouched

\* The callback of shell(): a stream, an error, or both.
ShellCallback(a, hasStream, failed) ==
  /\ attempt[a].channel = "requested"
  /\ LET effect == OnShell(Snapshot(a), hasStream, failed, attempt[a].expired)
         r == [attempt[a] EXCEPT !.shellTimer = FALSE,
                                 !.channel = IF hasStream THEN "open" ELSE "none"]
     IN IF effect.type = "attachShell"
          THEN OnlyRecord(a, [r EXCEPT !.attached = TRUE, !.ready = "waiting"])
          ELSE Apply(a, r, effect)
  /\ UNCHANGED untouched

\* The timer armed by ClientReady for the rest of readyTimeoutMs.
ShellTimeout(a) ==
  /\ attempt[a].shellTimer
  /\ FailInflight(a, [attempt[a] EXCEPT !.shellTimer = FALSE], "timeout")
  /\ UNCHANGED untouched

\* `close', `end' or `error' of the stream.
ChannelGone(a) ==
  /\ attempt[a].attached
  /\ Apply(a, CloseStream(attempt[a]), OnGone(Snapshot(a)))
  /\ UNCHANGED untouched

ClientError(a, err) ==
  /\ Listening(a)
  /\ LET code == ClassifyConnectError(err, attempt[a].hostKeyRejected)
     IN Apply(a, attempt[a], OnClientError(Snapshot(a), code))
  /\ UNCHANGED untouched

\* `close' of the client: onClientClose before teardown, endClient's own
\* listener after it.  (The one that runs teardown does not see the event.)
ClientClose(a) ==
  /\ attempt[a].wire \in {"connecting", "up"}
  /\ Listening(a) \/ attempt[a].end = "waiting"
  /\ LET down == [attempt[a] EXCEPT !.wire = "down"]
     IN IF Listening(a)
          THEN Apply(a, down, OnGone(Snapshot(a)))
          ELSE OnlyRecord(a, [down EXCEPT !.end = "done"])
  /\ UNCHANGED untouched

\* Seeded fault: only `close' ends the wait.
EndTimer_Missing(a) == FALSE

\* endClient gives up on `close' after CLOSE_WAIT_MS.
EndTimer(a) ==
  /\ attempt[a].end = "waiting"
  /\ OnlyRecord(a, [attempt[a] EXCEPT !.end = "done"])
  /\ UNCHANGED untouched

\* performance.now() passes the deadline (bound: while onReady and onShell
\* may still read it; afterwards the ready wait has a timer for the rest).
DeadlinePasses(a) ==
  /\ inflight = a
  /\ ~attempt[a].attached
  /\ ~attempt[a].expired
  /\ OnlyRecord(a, [attempt[a] EXCEPT !.expired = TRUE])
  /\ UNCHANGED untouched

-----------------------------------------------------------------------------
(* The shell of the attempt: waitForReady, its continuation, and onDead.   *)

\* The ready wait settles.  The output limit also calls onDead, which finds
\* the attempt not active yet.
ReadySettles(a, outcome) ==
  /\ attempt[a].ready = "waiting"
  /\ LET r == [attempt[a] EXCEPT !.ready = outcome]
     IN IF outcome = "limit" THEN Apply(a, r, OnShellDead(Snapshot(a)))
                             ELSE OnlyRecord(a, r)
  /\ UNCHANGED untouched

\* Seeded fault: #inflight is not cleared on success.
FinishOk_KeepsInflight(a, r) ==
  IF r.tornDown \/ r.settled \/ inflight # a
    THEN OnlyRecord(a, r)
    ELSE /\ attempt' = [attempt EXCEPT ![a] =
              [r EXCEPT !.settled = TRUE, !.subscribers = {}]]
         /\ active' = a
         /\ call' = Settle(r.subscribers, "ok")
         /\ UNCHANGED inflight

\* Seeded fault: success is not compared with what is current.
FinishOk_Unchecked(a, r) ==
  /\ attempt' = [attempt EXCEPT ![a] = [r EXCEPT !.settled = TRUE, !.subscribers = {}]]
  /\ inflight' = NoAttempt
  /\ active' = a
  /\ call' = Settle(r.subscribers, "ok")

\* finishOk: the captured inflight must still be the current one.
FinishOk(a, r) ==
  IF r.tornDown \/ r.settled \/ inflight # a
    THEN OnlyRecord(a, r)
    ELSE /\ attempt' = [attempt EXCEPT ![a] =
              [r EXCEPT !.settled = TRUE, !.subscribers = {}]]
         /\ inflight' = NoAttempt
         /\ active' = a
         /\ call' = Settle(r.subscribers, "ok")

ReadyPassthrough == {"timeout", "invalid", "limit", "hostkey"}

\* The continuation of waitForReady, a job of its own.
ReadyResult(a) ==
  /\ attempt[a].ready \in ReadyOutcomes
  /\ LET r == [attempt[a] EXCEPT !.ready = "done"]
         outcome == attempt[a].ready
         code == IF outcome \in ReadyPassthrough THEN outcome ELSE "connect"
     IN IF outcome = "resolved"
          THEN FinishOk(a, r)
          ELSE Apply(a, r, OnReadyResult(Snapshot(a), code))
  /\ UNCHANGED untouched

\* ShellIo gives the shell up: output limit, failed resync, failed write.
ShellDead(a) ==
  /\ attempt[a].attached
  /\ attempt[a].ready = "done"
  /\ Apply(a, attempt[a], OnShellDead(Snapshot(a)))
  /\ UNCHANGED untouched

-----------------------------------------------------------------------------
\* What the network, ssh2, timers and continuations do, in any order.
Transport(a) ==
  \/ HostKeyRejected(a)
  \/ ClientReady(a)
  \/ \E hasStream, failed \in BOOLEAN :
       (hasStream \/ failed) /\ ShellCallback(a, hasStream, failed)
  \/ ShellTimeout(a)
  \/ ChannelGone(a)
  \/ \E err \in Errors : ClientError(a, err)
  \/ ClientClose(a)
  \/ EndTimer(a)
  \/ DeadlinePasses(a)
  \/ \E outcome \in {"resolved", "timeout", "limit"} : ReadySettles(a, outcome)
  \/ ReadyResult(a)
  \/ ShellDead(a)

Next ==
  \/ \E c \in Callers : Connect(c) \/ Abort(c)
  \/ \E d \in Disconnects : Disconnect(d) \/ DisconnectReturns(d)
  \/ \E a \in Created : Transport(a)

Spec == Init /\ [][Next]_sessionVars

-----------------------------------------------------------------------------
(* Fairness.  Node runs every timer that is due and every continuation;    *)
(* ssh2 is given readyTimeout, so a handshake ends in ready, error or      *)
(* close.  Nothing else is owed: shell() may never call back, a shell may  *)
(* never print a prompt, `close' may never follow end().                   *)

HandshakeEnds(a) ==
  /\ attempt[a].wire = "connecting"
  /\ Listening(a)
  /\ ClientReady(a) \/ ClientClose(a) \/ \E err \in Errors : ClientError(a, err)

\* The phases of an attempt exclude one another, up to what is left of it
\* after teardown.
Progress(a) ==
  \/ HandshakeEnds(a)
  \/ ShellTimeout(a)
  \/ ReadySettles(a, "timeout")
  \/ ReadyResult(a)
  \/ EndTimer(a)

Fairness ==
  /\ \A a \in Attempts : WF_sessionVars(Progress(a))
  /\ \A d \in Disconnects : WF_sessionVars(DisconnectReturns(d))

FairSpec == Spec /\ Fairness

-----------------------------------------------------------------------------
(* Properties.                                                             *)

Outcomes == {"ok"} \cup ErrorCodes

\* The values each variable takes.
TypeOK ==
  /\ nextId \in 0 .. MaxAttempts
  /\ attempt \in [Attempts -> AttemptRecords]
  /\ inflight \in {NoAttempt} \cup Attempts
  /\ active \in {NoAttempt} \cup Attempts
  /\ call \in [Callers -> {"idle", "pending"} \cup Outcomes]
  /\ aborted \subseteq Callers
  /\ disc \in [Disconnects -> {"idle", "waiting", "done"}]
  /\ awaits \in [Disconnects -> SUBSET Attempts]

\* No socket is forgotten: an attempt that was created is the one in flight,
\* the one in use, or torn down (so that its client was ended), whatever the
\* order of aborts, disconnects, failures and late callbacks.
NoLeakedTransport ==
  \A a \in Created : a \in {inflight, active} \/ attempt[a].tornDown

\* No channel is forgotten: one that is open belongs to the live attempt,
\* also when shell() calls back after the attempt was given up.
NoLeakedStream ==
  \A a \in Attempts :
    attempt[a].channel = "open" => attempt[a].attached /\ a \in {inflight, active}

\* There is never a second attempt beside an open session, the one in use
\* has a shell that reached its prompt, and the one in flight is wanted.
SingleOwner ==
  /\ inflight = NoAttempt \/ active = NoAttempt
  /\ active # NoAttempt => IsOpen /\ attempt[active].ready = "done"
  /\ inflight # NoAttempt =>
       /\ ~attempt[inflight].tornDown
       /\ ~attempt[inflight].settled
       /\ attempt[inflight].subscribers # {}

\* No caller is forgotten: those whose promise is pending are exactly the
\* subscribers of the attempt in flight.
NoLostCaller ==
  \A c \in Callers :
    (call[c] = "pending") <=>
      (inflight # NoAttempt /\ c \in attempt[inflight].subscribers)

\* What is left of an attempt that was torn down (its close event, a shell()
\* callback, the continuation of its ready wait) cannot disturb a newer
\* attempt or any caller, and does not revive it.
StaleIsHarmless ==
  [][\A a \in Attempts :
       attempt[a].tornDown /\ attempt'[a] # attempt[a] =>
         /\ attempt'[a].tornDown /\ ~attempt'[a].attached
         /\ UNCHANGED <<inflight, active, call>>]_sessionVars

\* A caller that waits is told `closed' only when its own signal fired or a
\* disconnect() was called: not when another caller of the same attempt
\* aborts, and not for a failure of the transport.
ClosedWasAskedFor ==
  [][\A c \in Callers :
       call[c] = "pending" /\ call'[c] = "closed" =>
         c \in aborted' \ aborted \/ disc' # disc]_sessionVars

\* The verdict on the host key is the one of the attempt the caller waits
\* for: a caller is told `hostkey' only if that attempt's verifier refused
\* the key, and `auth' or success only if it did not.  (It may be told
\* something else before, when it gives up or the attempt times out.)
HostKeyVerdict ==
  [][\A c \in Callers :
       call[c] = "pending" /\ call'[c] \in {"hostkey", "auth", "ok"} =>
         ((call'[c] = "hostkey") <=> attempt[inflight].hostKeyRejected)]_sessionVars

\* Every caller that waits is answered, even when the server accepts the
\* connection and then stays silent.
CallersAnswered ==
  \A c \in Callers : (call[c] = "pending") ~> (call[c] \in Outcomes)

\* Every disconnect() resolves, even when the client never emits `close'.
DisconnectsReturn ==
  \A d \in Disconnects : (disc[d] = "waiting") ~> (disc[d] = "done")

\* What the documentation says of disconnect(): it resolves only when no
\* client that was ended is still waiting for its `close' (or the timer).
DisconnectWaitsForClose ==
  [][\A d \in Disconnects :
       disc[d] = "waiting" /\ disc'[d] = "done" =>
         \A a \in Attempts : attempt[a].end # "waiting"]_sessionVars
=============================================================================
