--------------------------- MODULE SessionProofs ----------------------------
(***************************************************************************)
(* Theorems about Session, for any number of callers, disconnects and      *)
(* attempts.  The inductive invariant says in which of four situations an  *)
(* attempt is (not created, connecting, open, gone), and what its record   *)
(* looks like in each; the safety invariants follow from it.  An event of  *)
(* the transport has one of four results for the session; what a leftover of *)
(* an old attempt, the answer `closed' and the verdict on the host key may *)
(* never do is read off them, and that Session implements the shared       *)
(* connection of module Connection, step by step.                          *)
(***************************************************************************)
EXTENDS SessionRefinement, TLAPS

\* The shell of an attempt that is not torn down: stream, io and a ready wait
\* go together, and the client has not been ended.
WellAttached(r) ==
  /\ r.channel = "open" <=> r.attached
  /\ r.ready # "none" => r.attached
  /\ r.wire = "connecting" => r.channel = "none"
  /\ r.end = "none"

Connecting(r) == ~r.tornDown /\ ~r.settled /\ r.subscribers # {} /\ WellAttached(r)

Open(r) ==
  /\ ~r.tornDown
  /\ r.settled
  /\ r.subscribers = {}
  /\ WellAttached(r)
  /\ r.attached
  /\ r.ready = "done"

Gone(r) ==
  /\ r.tornDown
  /\ r.subscribers = {}
  /\ ~r.attached
  /\ ~r.shellTimer
  /\ r.channel # "open"
  /\ r.ready # "waiting"
  /\ r.end # "none"

Situation(a) ==
  \/ a > nextId /\ a # inflight /\ a # active /\ attempt[a] = CreatedAttempt
  \/ a <= nextId /\ a = inflight /\ a # active /\ Connecting(attempt[a])
  \/ a <= nextId /\ a # inflight /\ a = active /\ Open(attempt[a])
  \/ a <= nextId /\ a # inflight /\ a # active /\ Gone(attempt[a])

\* The inductive invariant.
IInv ==
  /\ TypeOK
  /\ \A a \in Attempts : Situation(a)
  /\ inflight = NoAttempt \/ active = NoAttempt
  /\ NoLostCaller

-----------------------------------------------------------------------------
(* Lemmas on the operators the actions are built from.                     *)

\* What teardown leaves: a record with nothing attached and nothing armed.
LEMMA TornDownIsGone ==
  ASSUME NEW r \in AttemptRecords, ~r.tornDown, r.channel = "open" => r.attached
  PROVE  /\ TornDown(r) \in AttemptRecords
         /\ [TornDown(r) EXCEPT !.settled = TRUE, !.subscribers = {}] \in AttemptRecords
         /\ Gone([TornDown(r) EXCEPT !.settled = TRUE, !.subscribers = {}])
         /\ r.subscribers = {} => Gone(TornDown(r))
<1> DEFINE t == TornDown(r)
           s == [t EXCEPT !.settled = TRUE, !.subscribers = {}]
<1>1. PICK ready : ready = IF r.ready = "waiting" THEN "closed" ELSE r.ready
  OBVIOUS
<1>2. PICK channel : channel = IF r.attached THEN "closed" ELSE r.channel
  OBVIOUS
<1>3. /\ ready \in {"none", "waiting", "done"} \cup ReadyOutcomes
      /\ ready # "waiting"
  BY <1>1 DEF AttemptRecords, ReadyOutcomes, ErrorCodes
<1>4. /\ channel \in {"none", "requested", "open", "closed"}
      /\ channel # "open"
  BY <1>2 DEF AttemptRecords
<1>5. t = [r EXCEPT !.tornDown = TRUE, !.ready = ready, !.channel = channel,
                    !.attached = FALSE, !.shellTimer = FALSE, !.end = "waiting"]
  BY <1>1, <1>2 DEF TornDown
<1>6. t \in AttemptRecords
  BY <1>3, <1>4, <1>5 DEF AttemptRecords
<1>7. /\ t.tornDown = TRUE /\ t.attached = FALSE /\ t.shellTimer = FALSE
      /\ t.end = "waiting" /\ t.channel = channel /\ t.ready = ready
      /\ t.subscribers = r.subscribers
  BY <1>5 DEF AttemptRecords
<1> HIDE DEF t
<1>8. /\ s \in AttemptRecords
      /\ s.tornDown = t.tornDown /\ s.attached = t.attached /\ s.shellTimer = t.shellTimer
      /\ s.end = t.end /\ s.channel = t.channel /\ s.ready = t.ready
      /\ s.subscribers = {}
  BY <1>6 DEF AttemptRecords
<1> HIDE DEF s
<1>9. Gone(s)
  BY <1>3, <1>4, <1>7, <1>8 DEF Gone
<1>10. r.subscribers = {} => Gone(t)
  BY <1>3, <1>4, <1>7 DEF Gone
<1> QED BY <1>6, <1>8, <1>9, <1>10 DEF t, s

\* The calls after some of them were settled.
LEMMA SettleType ==
  ASSUME TypeOK, NEW S, NEW outcome \in Outcomes
  PROVE  /\ Settle(S, outcome) \in [Callers -> {"idle", "pending"} \cup Outcomes]
         /\ \A c \in Callers :
              Settle(S, outcome)[c] = "pending" <=> call[c] = "pending" /\ c \notin S
BY DEF TypeOK, Settle, Outcomes, ErrorCodes

\* A job that changes the record of one attempt and not its situation.
LEMMA OnlyRecordStep ==
  ASSUME IInv, NEW a \in Created, NEW r \in AttemptRecords,
         r.subscribers = attempt[a].subscribers,
         Connecting(attempt[a]) => Connecting(r),
         Open(attempt[a]) => Open(r),
         Gone(attempt[a]) => Gone(r),
         OnlyRecord(a, r), UNCHANGED untouched
  PROVE  IInv'
<1>1. a \in Attempts /\ a <= nextId
  BY MaxAttemptsAssumption DEF IInv, TypeOK, Created, Attempts
<1>2. TypeOK'
  BY <1>1 DEF IInv, TypeOK, OnlyRecord, untouched
<1>3. \A b \in Attempts : attempt'[b] = IF b = a THEN r ELSE attempt[b]
  BY <1>1 DEF IInv, TypeOK, OnlyRecord
<1>4. \A b \in Attempts : Situation(b)'
  BY <1>1, <1>3 DEF IInv, Situation, OnlyRecord, untouched, TypeOK, Attempts
<1>5. NoLostCaller'
  BY <1>1, <1>3 DEF IInv, NoLostCaller, OnlyRecord, TypeOK, NoAttempt
<1> QED BY <1>2, <1>4, <1>5 DEF IInv, OnlyRecord

\* What a job that ends an attempt may do to the other variables.
Rest ==
  /\ nextId' = nextId
  /\ aborted' \subseteq Callers
  /\ disc' \in [Disconnects -> {"idle", "waiting", "done"}]
  /\ awaits' \in [Disconnects -> SUBSET Attempts]

LEMMA UntouchedIsRest ==
  ASSUME IInv, UNCHANGED untouched
  PROVE  Rest
BY DEF IInv, TypeOK, untouched, Rest

\* A job that ends attempt a, with record g, and answers its subscribers.
LEMMA EndStep ==
  ASSUME IInv, NEW a \in Created, NEW g \in AttemptRecords, Gone(g),
         NEW outcome \in Outcomes,
         attempt' = [attempt EXCEPT ![a] = g],
         inflight' = Without(inflight, a), active' = Without(active, a),
         call' = Settle(attempt[a].subscribers, outcome), Rest
  PROVE  IInv'
<1>1. a \in Attempts /\ a <= nextId /\ a # NoAttempt
  BY MaxAttemptsAssumption DEF IInv, TypeOK, Created, Attempts, NoAttempt
<1>2. /\ call' \in [Callers -> {"idle", "pending"} \cup Outcomes]
      /\ \A c \in Callers :
           call'[c] = "pending" <=> call[c] = "pending" /\ c \notin attempt[a].subscribers
  BY SettleType DEF IInv
<1>3. TypeOK'
  BY <1>1, <1>2 DEF IInv, TypeOK, Rest, Without, Outcomes
<1>4. \A b \in Attempts : attempt'[b] = IF b = a THEN g ELSE attempt[b]
  BY <1>1 DEF IInv, TypeOK
<1>5. \A b \in Attempts : Situation(b)'
  <2> SUFFICES ASSUME NEW b \in Attempts PROVE Situation(b)'
    OBVIOUS
  <2>1. Situation(b) BY DEF IInv
  <2>2. b # NoAttempt /\ nextId' = nextId
    BY DEF Attempts, NoAttempt, Rest
  <2>3. CASE b = a
    BY <1>1, <1>4, <2>2, <2>3 DEF Situation, Without
  <2>4. CASE b # a
    BY <1>1, <1>4, <2>1, <2>2, <2>4 DEF Situation, Without
  <2> QED BY <2>3, <2>4
<1>6. NoLostCaller'
  <2>1. CASE inflight = a
    BY <1>1, <1>2, <2>1 DEF IInv, NoLostCaller, Without
  <2>2. CASE inflight # a
    <3>1. attempt[a].subscribers = {}
      BY <1>1, <2>2 DEF IInv, Situation, Open, Gone, CreatedAttempt
    <3>2. inflight' = inflight
      BY <2>2 DEF Without
    <3>3. inflight # NoAttempt => attempt'[inflight] = attempt[inflight]
      BY <1>4, <2>2 DEF IInv, TypeOK
    <3> QED BY <1>2, <3>1, <3>2, <3>3 DEF IInv, NoLostCaller
  <2> QED BY <2>1, <2>2
<1> QED BY <1>3, <1>5, <1>6 DEF IInv, Without

\* r is what the running job has made of the record s before it decides.
Continues(r, s) ==
  /\ r.subscribers = s.subscribers
  /\ r.settled = s.settled
  /\ r.tornDown = s.tornDown
  /\ IF s.tornDown THEN Gone(r) ELSE r.channel = "open" => r.attached

\* teardown of an attempt nobody waits for.
LEMMA TeardownStep ==
  ASSUME IInv, NEW a \in Created, NEW r \in AttemptRecords, Continues(r, attempt[a]),
         attempt[a].subscribers = {}, Teardown(a, r), UNCHANGED untouched
  PROVE  IInv'
<1>1. TornDown(r) \in AttemptRecords /\ Gone(TornDown(r))
  <2>1. CASE r.tornDown
    BY <2>1 DEF Continues, TornDown
  <2>2. CASE ~r.tornDown
    BY <2>2, TornDownIsGone DEF Continues
  <2> QED BY <2>1, <2>2
<1>2. call' = Settle({}, "closed")
  BY DEF Teardown, Settle, IInv, TypeOK
<1>3. "closed" \in Outcomes
  BY DEF Outcomes, ErrorCodes
<1> QED BY <1>1, <1>2, <1>3, EndStep, UntouchedIsRest DEF Teardown

\* failInflight, whichever attempt is current.
LEMMA FailInflightStep ==
  ASSUME IInv, NEW a \in Created, NEW r \in AttemptRecords, Continues(r, attempt[a]),
         NEW code \in ErrorCodes, FailInflight(a, r, code), UNCHANGED untouched
  PROVE  IInv'
<1>1. a \in Attempts /\ a <= nextId /\ ~(a > nextId)
  BY MaxAttemptsAssumption DEF IInv, TypeOK, Created, Attempts
<1>2. Situation(a)
  BY <1>1 DEF IInv
<1>3. CASE inflight = a /\ ~r.settled
  <2>1. ~r.tornDown
    BY <1>1, <1>2, <1>3 DEF Situation, Connecting, Continues
  <2>2. FailedInflight(r) \in AttemptRecords /\ Gone(FailedInflight(r))
    BY <2>1, TornDownIsGone DEF Continues, FailedInflight
  <2>3. /\ attempt' = [attempt EXCEPT ![a] = FailedInflight(r)]
        /\ inflight' = Without(inflight, a)
        /\ active' = Without(active, a)
        /\ call' = Settle(attempt[a].subscribers, code)
    BY <1>3 DEF FailInflight, Without, Continues
  <2>4. code \in Outcomes
    BY DEF Outcomes
  <2> QED BY <2>2, <2>3, <2>4, EndStep, UntouchedIsRest
<1>4. CASE ~(inflight = a /\ ~r.settled) /\ active = a /\ ~r.tornDown
  <2>1. attempt[a].subscribers = {}
    BY <1>1, <1>2, <1>4 DEF Situation, Open
  <2>2. Teardown(a, r)
    BY <1>4 DEF FailInflight
  <2> QED BY <2>1, <2>2, TeardownStep
<1>5. CASE ~(inflight = a /\ ~r.settled) /\ ~(active = a /\ ~r.tornDown)
  <2>1. OnlyRecord(a, r)
    BY <1>5 DEF FailInflight
  <2>2. Gone(attempt[a]) /\ Gone(r)
    <3>1. a = inflight /\ Connecting(attempt[a]) => FALSE
      BY <1>5 DEF Connecting, Continues
    <3>2. a = active /\ Open(attempt[a]) => FALSE
      BY <1>5 DEF Open, Continues
    <3>3. Gone(attempt[a])
      BY <1>1, <1>2, <3>1, <3>2 DEF Situation
    <3> QED BY <3>3 DEF Continues, Gone
  <2>3. ~Connecting(attempt[a]) /\ ~Open(attempt[a])
    BY <2>2 DEF Connecting, Open, Gone
  <2> QED BY <2>1, <2>2, <2>3, OnlyRecordStep DEF Continues
<1> QED BY <1>3, <1>4, <1>5

\* What is known of an attempt that was created.
LEMMA CreatedFacts ==
  ASSUME IInv, NEW a \in Created
  PROVE  /\ a \in Attempts /\ a # NoAttempt /\ attempt[a] \in AttemptRecords
         /\ \/ a = inflight /\ a # active /\ Connecting(attempt[a])
            \/ a # inflight /\ a = active /\ Open(attempt[a])
            \/ a # inflight /\ a # active /\ Gone(attempt[a])
<1>1. a \in Attempts /\ a # NoAttempt /\ ~(a > nextId)
  BY MaxAttemptsAssumption DEF IInv, TypeOK, Created, Attempts, NoAttempt
<1>2. attempt[a] \in AttemptRecords
  BY <1>1 DEF IInv, TypeOK
<1> QED BY <1>1, <1>2 DEF IInv, Situation

-----------------------------------------------------------------------------
(* Every event of the transport preserves the invariant.                   *)

LEMMA HostKeyRejectedStep ==
  ASSUME IInv, NEW a \in Created, HostKeyRejected(a)
  PROVE  IInv'
<1> DEFINE r == [attempt[a] EXCEPT !.hostKeyRejected = TRUE]
<1>1. attempt[a] \in AttemptRecords
  BY CreatedFacts
<1>2. /\ r \in AttemptRecords
      /\ r.subscribers = attempt[a].subscribers
      /\ Connecting(attempt[a]) => Connecting(r)
      /\ Open(attempt[a]) => Open(r)
      /\ Gone(attempt[a]) => Gone(r)
  BY <1>1 DEF AttemptRecords, Connecting, Open, Gone, WellAttached
<1> QED BY <1>2, OnlyRecordStep DEF HostKeyRejected

LEMMA DeadlinePassesStep ==
  ASSUME IInv, NEW a \in Created, DeadlinePasses(a)
  PROVE  IInv'
<1> DEFINE r == [attempt[a] EXCEPT !.expired = TRUE]
<1>1. attempt[a] \in AttemptRecords
  BY CreatedFacts
<1>2. /\ r \in AttemptRecords
      /\ r.subscribers = attempt[a].subscribers
      /\ Connecting(attempt[a]) => Connecting(r)
      /\ Open(attempt[a]) => Open(r)
      /\ Gone(attempt[a]) => Gone(r)
  BY <1>1 DEF AttemptRecords, Connecting, Open, Gone, WellAttached
<1> QED BY <1>2, OnlyRecordStep DEF DeadlinePasses

LEMMA EndTimerStep ==
  ASSUME IInv, NEW a \in Created, EndTimer(a)
  PROVE  IInv'
<1> DEFINE r == [attempt[a] EXCEPT !.end = "done"]
<1>1. attempt[a] \in AttemptRecords /\ attempt[a].end = "waiting"
  BY CreatedFacts DEF EndTimer
<1>2. /\ r \in AttemptRecords
      /\ r.subscribers = attempt[a].subscribers
      /\ ~Connecting(attempt[a])
      /\ ~Open(attempt[a])
      /\ Gone(attempt[a]) => Gone(r)
  BY <1>1 DEF AttemptRecords, Connecting, Open, Gone, WellAttached
<1> QED BY <1>2, OnlyRecordStep DEF EndTimer

LEMMA ClientReadyStep ==
  ASSUME IInv, NEW a \in Created, ClientReady(a)
  PROVE  IInv'
<1> DEFINE s == attempt[a]
           up == [s EXCEPT !.wire = "up"]
           asked == [up EXCEPT !.shellTimer = TRUE, !.channel = "requested"]
           effect == OnReady(Snapshot(a), s.expired)
<1>1. s \in AttemptRecords /\ a = inflight /\ Connecting(s) /\ s.channel = "none" /\ ~s.attached
  BY CreatedFacts DEF ClientReady, Listening, Open, Gone, Connecting, WellAttached
<1>2. /\ up \in AttemptRecords
      /\ Continues(up, s)
  BY <1>1 DEF AttemptRecords, Continues, Connecting, Gone
<1>3. /\ asked \in AttemptRecords
      /\ asked.subscribers = s.subscribers
      /\ Connecting(asked)
  BY <1>1 DEF AttemptRecords, Connecting, WellAttached
<1>4. ~Open(s) /\ ~Gone(s)
  BY <1>1 DEF Open, Gone, Connecting
<1>5. effect = Fail("timeout", FALSE) \/ effect = Effect("openShell")
  BY <1>1 DEF OnReady, IsStaleConnect, Snapshot, Connecting
<1>6. CASE effect = Fail("timeout", FALSE)
  <2>1. FailInflight(a, up, "timeout") /\ UNCHANGED untouched
    BY <1>6 DEF ClientReady, Fail, Apply
  <2> QED BY <1>2, <2>1, FailInflightStep DEF ErrorCodes
<1>7. CASE effect = Effect("openShell")
  <2>1. OnlyRecord(a, asked) /\ UNCHANGED untouched
    BY <1>7 DEF ClientReady, Effect
  <2> QED BY <1>3, <1>4, <2>1, OnlyRecordStep
<1> QED BY <1>5, <1>6, <1>7

LEMMA ShellCallbackStep ==
  ASSUME IInv, NEW a \in Created, NEW hasStream \in BOOLEAN, NEW failed \in BOOLEAN,
         hasStream \/ failed, ShellCallback(a, hasStream, failed)
  PROVE  IInv'
<1> DEFINE s == attempt[a]
           r == [s EXCEPT !.shellTimer = FALSE,
                          !.channel = IF hasStream THEN "open" ELSE "none"]
           attached == [r EXCEPT !.attached = TRUE, !.ready = "waiting"]
           effect == OnShell(Snapshot(a), hasStream, failed, s.expired)
<1>1. /\ s \in AttemptRecords /\ s.channel = "requested"
      /\ \/ a = inflight /\ a # active /\ Connecting(s) /\ ~Gone(s)
         \/ a # inflight /\ a # active /\ Gone(s) /\ ~Connecting(s)
      /\ ~Open(s)
  BY CreatedFacts DEF ShellCallback, Open, Connecting, WellAttached, Gone
<1>2. /\ r \in AttemptRecords
      /\ r.subscribers = s.subscribers /\ r.settled = s.settled /\ r.tornDown = s.tornDown
      /\ r.wire = s.wire /\ r.attached = s.attached /\ r.ready = s.ready /\ r.end = s.end
      /\ r.channel = IF hasStream THEN "open" ELSE "none"
      /\ r.shellTimer = FALSE
  <2>1. PICK channel : channel = IF hasStream THEN "open" ELSE "none"
    OBVIOUS
  <2>2. r = [s EXCEPT !.shellTimer = FALSE, !.channel = channel]
    BY <2>1
  <2>3. channel \in {"none", "requested", "open", "closed"}
    BY <2>1
  <2> HIDE DEF s
  <2> QED BY <1>1, <2>1, <2>2, <2>3 DEF AttemptRecords
<1> HIDE DEF r
<1>3. /\ CloseStream(r) \in AttemptRecords
      /\ CloseStream(r).subscribers = s.subscribers
      /\ CloseStream(r).settled = s.settled /\ CloseStream(r).tornDown = s.tornDown
      /\ CloseStream(r).channel = "closed"
      /\ Gone(s) => Gone(CloseStream(r))
  BY <1>2 DEF CloseStream, AttemptRecords, Gone
<1>4. CASE Gone(s)
  <2>1. effect = Effect(IF hasStream THEN "closeOwnStream" ELSE "ignore")
    BY <1>1, <1>4 DEF OnShell, IsStaleConnect, Snapshot, Gone
  <2>2. CASE hasStream
    <3>1. OnlyRecord(a, CloseStream(r)) /\ UNCHANGED untouched
      BY <2>1, <2>2 DEF ShellCallback, Apply, Effect, r
    <3> QED BY <1>1, <1>3, <1>4, <3>1, OnlyRecordStep
  <2>3. CASE ~hasStream
    <3>1. OnlyRecord(a, r) /\ UNCHANGED untouched
      BY <2>1, <2>3 DEF ShellCallback, Apply, Effect, r
    <3>2. Gone(r)
      BY <1>2, <1>4, <2>3 DEF Gone
    <3> QED BY <1>1, <1>2, <1>4, <3>1, <3>2, OnlyRecordStep
  <2> QED BY <2>2, <2>3
<1>5. CASE Connecting(s)
  <2>1. \/ effect = Fail("connect", hasStream)
        \/ effect = Fail("timeout", TRUE)
        \/ effect = Effect("attachShell") /\ hasStream
    BY <1>1, <1>5 DEF OnShell, IsStaleConnect, Snapshot, Connecting
  <2>2. ASSUME NEW code \in {"connect", "timeout"}, NEW close \in BOOLEAN,
               effect = Fail(code, close), close \/ ~hasStream
        PROVE  IInv'
    <3>1. FailInflight(a, IF close THEN CloseStream(r) ELSE r, code) /\ UNCHANGED untouched
      BY <2>2 DEF ShellCallback, Apply, Fail, r
    <3>2. Continues(CloseStream(r), s) /\ (~hasStream => Continues(r, s))
      BY <1>2, <1>3, <1>5 DEF Continues, Connecting
    <3>3. code \in ErrorCodes
      BY <2>2 DEF ErrorCodes
    <3>4. CASE close
      BY <1>3, <3>1, <3>2, <3>3, <3>4, FailInflightStep
    <3>5. CASE ~close
      BY <1>2, <2>2, <3>1, <3>2, <3>3, <3>5, FailInflightStep
    <3> QED BY <3>4, <3>5
  <2>3. CASE effect = Effect("attachShell") /\ hasStream
    <3>1. Effect("attachShell").type = "attachShell"
      BY DEF Effect
    <3>2. effect.type = "attachShell"
      BY <2>3, <3>1, Zenon
    <3>3. OnlyRecord(a, attached) /\ UNCHANGED untouched
      BY <3>2, Zenon DEF ShellCallback, r
    <3>4. /\ attached \in AttemptRecords
          /\ attached.subscribers = s.subscribers
          /\ Connecting(attached)
      BY <1>1, <1>2, <1>5, <2>3 DEF AttemptRecords, Connecting, WellAttached
    <3> QED BY <1>1, <1>5, <3>3, <3>4, OnlyRecordStep
  <2> QED BY <2>1, <2>2, <2>3
<1> QED BY <1>1, <1>4, <1>5

LEMMA ShellTimeoutStep ==
  ASSUME IInv, NEW a \in Created, ShellTimeout(a)
  PROVE  IInv'
<1> DEFINE s == attempt[a]
           r == [s EXCEPT !.shellTimer = FALSE]
<1>1. s \in AttemptRecords /\ ~s.tornDown /\ (s.channel = "open" => s.attached)
  BY CreatedFacts DEF ShellTimeout, Connecting, Open, WellAttached, Gone
<1>2. r \in AttemptRecords /\ Continues(r, s)
  BY <1>1 DEF AttemptRecords, Continues
<1> QED BY <1>2, FailInflightStep DEF ShellTimeout, ErrorCodes

\* The transport of a live attempt is lost, with record r so far.
LEMMA LossStep ==
  ASSUME IInv, NEW a \in Created, NEW r \in AttemptRecords, Continues(r, attempt[a]),
         ~attempt[a].tornDown, NEW code \in ErrorCodes,
         Apply(a, r, SettleLive(Snapshot(a), code)), UNCHANGED untouched
  PROVE  IInv'
<1>1. \/ a = inflight /\ Connecting(attempt[a])
      \/ a # inflight /\ a = active /\ Open(attempt[a])
  BY CreatedFacts DEF Gone
<1>2. CASE a = inflight /\ Connecting(attempt[a])
  <2>1. SettleLive(Snapshot(a), code) = Fail(code, FALSE)
    BY <1>2 DEF SettleLive, Snapshot, Connecting
  <2>2. FailInflight(a, r, code)
    BY <2>1 DEF Apply, Fail
  <2> QED BY <2>2, FailInflightStep
<1>3. CASE a # inflight /\ a = active /\ Open(attempt[a])
  <2>1. SettleLive(Snapshot(a), code) = Effect("teardown")
    BY <1>3 DEF SettleLive, Snapshot, Open
  <2>2. Teardown(a, r)
    BY <2>1 DEF Apply, Effect
  <2> QED BY <1>3, <2>2, TeardownStep DEF Open
<1> QED BY <1>1, <1>2, <1>3

LEMMA ChannelGoneStep ==
  ASSUME IInv, NEW a \in Created, ChannelGone(a)
  PROVE  IInv'
<1> DEFINE s == attempt[a]
           r == CloseStream(s)
<1>1. s \in AttemptRecords /\ ~s.tornDown
  BY CreatedFacts DEF ChannelGone, Connecting, Open, Gone
<1>2. r \in AttemptRecords /\ Continues(r, s)
  BY <1>1 DEF AttemptRecords, Continues, CloseStream
<1>3. Apply(a, r, SettleLive(Snapshot(a), "connect")) /\ UNCHANGED untouched
  BY DEF ChannelGone, OnGone
<1> QED BY <1>1, <1>2, <1>3, LossStep DEF ErrorCodes

LEMMA ClientErrorStep ==
  ASSUME IInv, NEW a \in Created, NEW err, ClientError(a, err)
  PROVE  IInv'
<1> DEFINE s == attempt[a]
           code == ClassifyConnectError(err, s.hostKeyRejected)
<1>1. s \in AttemptRecords /\ ~s.tornDown /\ (s.channel = "open" => s.attached)
  BY CreatedFacts DEF ClientError, Listening, Connecting, Open, WellAttached, Gone
<1>2. Continues(s, s)
  BY <1>1 DEF Continues
<1>3. code \in ErrorCodes
  BY DEF ClassifyConnectError, ErrorCodes
<1>4. Apply(a, s, SettleLive(Snapshot(a), code)) /\ UNCHANGED untouched
  BY DEF ClientError, OnClientError
<1> QED BY <1>1, <1>2, <1>3, <1>4, LossStep

LEMMA ClientCloseStep ==
  ASSUME IInv, NEW a \in Created, ClientClose(a)
  PROVE  IInv'
<1> DEFINE s == attempt[a]
           down == [s EXCEPT !.wire = "down"]
           ended == [down EXCEPT !.end = "done"]
<1>1. /\ s \in AttemptRecords
      /\ s.tornDown => Gone(s) /\ ~Connecting(s) /\ ~Open(s)
      /\ ~s.tornDown => (s.channel = "open" => s.attached)
  BY CreatedFacts DEF Connecting, Open, WellAttached, Gone
<1>2. CASE Listening(a)
  <2>1. ~s.tornDown
    BY <1>2 DEF Listening
  <2>2. down \in AttemptRecords /\ Continues(down, s)
    BY <1>1, <2>1 DEF AttemptRecords, Continues
  <2>3. Apply(a, down, SettleLive(Snapshot(a), "connect")) /\ UNCHANGED untouched
    BY <1>2 DEF ClientClose, OnGone
  <2> QED BY <2>1, <2>2, <2>3, LossStep DEF ErrorCodes
<1>3. CASE ~Listening(a)
  <2>1. s.tornDown
    BY <1>3 DEF ClientClose, Listening
  <2>2. ended \in AttemptRecords /\ ended.subscribers = s.subscribers /\ Gone(ended)
    BY <1>1, <2>1 DEF AttemptRecords, Gone
  <2>3. OnlyRecord(a, ended) /\ UNCHANGED untouched
    BY <1>3 DEF ClientClose
  <2> QED BY <1>1, <2>1, <2>2, <2>3, OnlyRecordStep
<1> QED BY <1>2, <1>3

LEMMA ReadySettlesStep ==
  ASSUME IInv, NEW a \in Created, NEW outcome \in ReadyOutcomes, ReadySettles(a, outcome)
  PROVE  IInv'
<1> DEFINE s == attempt[a]
           r == [s EXCEPT !.ready = outcome]
<1>1. s \in AttemptRecords /\ a = inflight /\ a # active /\ Connecting(s) /\ s.attached
  BY CreatedFacts DEF ReadySettles, Connecting, Open, WellAttached, Gone
<1>2. r \in AttemptRecords /\ r.subscribers = s.subscribers /\ Connecting(r)
  BY <1>1 DEF AttemptRecords, Connecting, WellAttached, ReadyOutcomes, ErrorCodes
<1>3. ~Open(s) /\ ~Gone(s)
  BY <1>1 DEF Open, Gone, Connecting
<1>4. OnShellDead(Snapshot(a)) = Effect("ignore")
  BY <1>1 DEF OnShellDead, Snapshot
<1>5. OnlyRecord(a, r) /\ UNCHANGED untouched
  BY <1>4 DEF ReadySettles, Apply, Effect
<1> QED BY <1>2, <1>3, <1>5, OnlyRecordStep

LEMMA ShellDeadStep ==
  ASSUME IInv, NEW a \in Created, ShellDead(a)
  PROVE  IInv'
<1> DEFINE s == attempt[a]
<1>1. /\ s \in AttemptRecords
      /\ Continues(s, s)
      /\ \/ a = active /\ Open(s)
         \/ a # active /\ Connecting(s) /\ ~Open(s) /\ ~Gone(s)
  BY CreatedFacts DEF ShellDead, Continues, Connecting, Open, WellAttached, Gone
<1>2. CASE a = active /\ Open(s)
  <2>1. OnShellDead(Snapshot(a)) = Effect("teardown")
    BY <1>2 DEF OnShellDead, Snapshot, Open
  <2>2. Teardown(a, s) /\ UNCHANGED untouched
    BY <2>1 DEF ShellDead, Apply, Effect
  <2> QED BY <1>1, <1>2, <2>2, TeardownStep DEF Open
<1>3. CASE a # active /\ Connecting(s) /\ ~Open(s) /\ ~Gone(s)
  <2>1. OnShellDead(Snapshot(a)) = Effect("ignore")
    BY <1>3 DEF OnShellDead, Snapshot
  <2>2. OnlyRecord(a, s) /\ UNCHANGED untouched
    BY <2>1 DEF ShellDead, Apply, Effect
  <2> QED BY <1>1, <1>3, <2>2, OnlyRecordStep
<1> QED BY <1>1, <1>2, <1>3

\* The attempt in flight becomes the one in use.
LEMMA FinishOkStep ==
  ASSUME IInv, NEW a \in Created, NEW r \in AttemptRecords,
         a = inflight, a # active, Connecting(attempt[a]),
         r.subscribers = attempt[a].subscribers, ~r.tornDown, ~r.settled,
         WellAttached(r), r.ready = "done",
         FinishOk(a, r), UNCHANGED untouched
  PROVE  IInv'
<1> DEFINE g == [r EXCEPT !.settled = TRUE, !.subscribers = {}]
<1>1. a \in Attempts /\ a # NoAttempt /\ a <= nextId
  BY CreatedFacts DEF Created
<1>2. g \in AttemptRecords /\ Open(g)
  BY DEF AttemptRecords, Open, WellAttached
<1>3. /\ attempt' = [attempt EXCEPT ![a] = g]
      /\ inflight' = NoAttempt
      /\ active' = a
      /\ call' = Settle(attempt[a].subscribers, "ok")
  BY DEF FinishOk
<1>4. /\ call' \in [Callers -> {"idle", "pending"} \cup Outcomes]
      /\ \A c \in Callers :
           call'[c] = "pending" <=> call[c] = "pending" /\ c \notin attempt[a].subscribers
  BY <1>3, SettleType DEF IInv, Outcomes
<1> HIDE DEF g
<1>5. TypeOK'
  BY <1>1, <1>2, <1>3, <1>4 DEF IInv, TypeOK, untouched
<1>6. \A b \in Attempts : attempt'[b] = IF b = a THEN g ELSE attempt[b]
  BY <1>1, <1>3 DEF IInv, TypeOK
<1>7. \A b \in Attempts : Situation(b)'
  <2> SUFFICES ASSUME NEW b \in Attempts PROVE Situation(b)'
    OBVIOUS
  <2>1. Situation(b) /\ active = NoAttempt
    BY <1>1 DEF IInv
  <2>2. b # NoAttempt /\ nextId' = nextId
    BY DEF Attempts, NoAttempt, untouched
  <2>3. CASE b = a
    BY <1>1, <1>2, <1>3, <1>6, <2>2, <2>3 DEF Situation
  <2>4. CASE b # a
    BY <1>3, <1>6, <2>1, <2>2, <2>4 DEF Situation
  <2> QED BY <2>3, <2>4
<1>8. NoLostCaller'
  BY <1>1, <1>3, <1>4 DEF IInv, NoLostCaller
<1> QED BY <1>3, <1>5, <1>7, <1>8 DEF IInv

LEMMA ReadyResultStep ==
  ASSUME IInv, NEW a \in Created, ReadyResult(a)
  PROVE  IInv'
<1> DEFINE s == attempt[a]
           r == [s EXCEPT !.ready = "done"]
           code == IF s.ready \in ReadyPassthrough THEN s.ready ELSE "connect"
<1>1. /\ s \in AttemptRecords
      /\ \/ a = inflight /\ a # active /\ Connecting(s) /\ s.ready # "none"
         \/ a # inflight /\ a # active /\ Gone(s) /\ ~Connecting(s) /\ ~Open(s)
  BY CreatedFacts DEF ReadyResult, ReadyOutcomes, ErrorCodes, Connecting, Open, Gone
<1>2. /\ r \in AttemptRecords /\ r.ready = "done"
      /\ r.subscribers = s.subscribers /\ r.settled = s.settled /\ r.tornDown = s.tornDown
      /\ Gone(s) => Gone(r)
      /\ Connecting(s) => Continues(r, s)
      /\ Connecting(s) /\ s.ready # "none" => WellAttached(r)
  BY <1>1 DEF AttemptRecords, Gone, Connecting, Continues, WellAttached
<1>3. code \in ErrorCodes
  BY DEF ReadyPassthrough, ErrorCodes
<1>4. CASE a = inflight /\ a # active /\ Connecting(s) /\ s.ready # "none"
  <2>1. CASE s.ready = "resolved"
    <3>1. FinishOk(a, r) /\ UNCHANGED untouched
      BY <2>1 DEF ReadyResult
    <3>2. ~r.tornDown /\ ~r.settled
      BY <1>2, <1>4 DEF Connecting
    <3> QED BY <1>2, <1>4, <3>1, <3>2, FinishOkStep
  <2>2. CASE s.ready # "resolved"
    <3>1. OnReadyResult(Snapshot(a), code) = Fail(code, FALSE)
      BY <1>4 DEF OnReadyResult, IsStaleConnect, Snapshot, Connecting
    <3>2. Apply(a, r, OnReadyResult(Snapshot(a), code)) /\ UNCHANGED untouched
      BY <2>2 DEF ReadyResult
    <3>3. FailInflight(a, r, code)
      BY <3>1, <3>2 DEF Apply, Fail
    <3> QED BY <1>2, <1>3, <1>4, <3>2, <3>3, FailInflightStep
  <2> QED BY <2>1, <2>2
<1>5. CASE a # inflight /\ a # active /\ Gone(s) /\ ~Connecting(s) /\ ~Open(s)
  <2>1. OnReadyResult(Snapshot(a), code) = Effect("ignore")
    BY <1>5 DEF OnReadyResult, IsStaleConnect, Snapshot
  <2>2. OnlyRecord(a, r) /\ UNCHANGED untouched
    <3>1. CASE s.ready = "resolved"
      BY <1>5, <3>1 DEF ReadyResult, FinishOk
    <3>2. CASE s.ready # "resolved"
      BY <2>1, <3>2 DEF ReadyResult, Apply, Effect
    <3> QED BY <3>1, <3>2
  <2> QED BY <1>2, <1>5, <2>2, OnlyRecordStep
<1> QED BY <1>1, <1>4, <1>5

LEMMA TransportStep ==
  ASSUME IInv, NEW a \in Created, Transport(a)
  PROVE  IInv'
<1>1. CASE \E hasStream, failed \in BOOLEAN :
             (hasStream \/ failed) /\ ShellCallback(a, hasStream, failed)
  BY <1>1, ShellCallbackStep
<1>2. CASE \E err \in Errors : ClientError(a, err)
  BY <1>2, ClientErrorStep
<1>3. CASE \E outcome \in {"resolved", "timeout", "limit"} : ReadySettles(a, outcome)
  BY <1>3, ReadySettlesStep DEF ReadyOutcomes, ErrorCodes
<1> QED BY <1>1, <1>2, <1>3, HostKeyRejectedStep, ClientReadyStep, ShellTimeoutStep,
           ChannelGoneStep, ClientCloseStep, EndTimerStep, DeadlinePassesStep,
           ReadyResultStep, ShellDeadStep DEF Transport

-----------------------------------------------------------------------------
(* So does every call, and the theorem follows.                            *)

LEMMA ConnectOpenStep ==
  ASSUME IInv, NEW c \in Callers, ConnectOpen(c)
  PROVE  IInv'
<1>1. TypeOK'
  BY DEF IInv, TypeOK, ConnectOpen, Outcomes
<1>2. \A a \in Attempts : Situation(a)'
  BY DEF IInv, Situation, ConnectOpen
<1>3. active # NoAttempt /\ inflight = NoAttempt
  BY DEF IInv, ConnectOpen, IsOpen
<1>4. NoLostCaller'
  BY <1>3 DEF IInv, TypeOK, NoLostCaller, ConnectOpen
<1> QED BY <1>1, <1>2, <1>4 DEF IInv, ConnectOpen

LEMMA ConnectJoinStep ==
  ASSUME IInv, NEW c \in Callers, ConnectJoin(c)
  PROVE  IInv'
<1> DEFINE s == attempt[inflight]
           r == [s EXCEPT !.subscribers = @ \cup {c}]
<1>1. /\ inflight \in Attempts /\ inflight # NoAttempt
      /\ s \in AttemptRecords /\ Connecting(s)
      /\ inflight <= nextId /\ inflight # active
  <2>1. inflight \in Attempts /\ inflight # NoAttempt /\ s \in AttemptRecords
    BY DEF IInv, TypeOK, ConnectJoin
  <2>2. Situation(inflight)
    BY <2>1 DEF IInv
  <2> QED BY <2>1, <2>2 DEF Situation
<1>2. CASE c \in aborted
  <2>1. attempt' = attempt /\ call' = [call EXCEPT ![c] = "closed"]
    BY <1>2 DEF ConnectJoin
  <2>2. TypeOK'
    BY <2>1 DEF IInv, TypeOK, ConnectJoin, Outcomes, ErrorCodes
  <2>3. \A a \in Attempts : Situation(a)'
    BY <2>1 DEF IInv, Situation, ConnectJoin
  <2>4. NoLostCaller'
    BY <2>1 DEF IInv, TypeOK, NoLostCaller, ConnectJoin
  <2> QED BY <2>2, <2>3, <2>4 DEF IInv, ConnectJoin
<1>3. CASE c \notin aborted
  <2>1. /\ attempt' = [attempt EXCEPT ![inflight] = r]
        /\ call' = [call EXCEPT ![c] = "pending"]
    BY <1>1, <1>3 DEF ConnectJoin, Connecting
  <2>2. /\ r \in AttemptRecords /\ Connecting(r)
        /\ r.subscribers = s.subscribers \cup {c}
    BY <1>1 DEF AttemptRecords, Connecting, WellAttached
  <2> HIDE DEF r
  <2>3. TypeOK'
    BY <1>1, <2>1, <2>2 DEF IInv, TypeOK, ConnectJoin
  <2>4. \A a \in Attempts : attempt'[a] = IF a = inflight THEN r ELSE attempt[a]
    BY <1>1, <2>1 DEF IInv, TypeOK
  <2>5. \A a \in Attempts : Situation(a)'
    BY <1>1, <2>2, <2>4 DEF IInv, Situation, ConnectJoin
  <2>6. NoLostCaller'
    BY <1>1, <2>1, <2>2, <2>4 DEF IInv, TypeOK, NoLostCaller, ConnectJoin
  <2> QED BY <2>3, <2>5, <2>6 DEF IInv, ConnectJoin
<1> QED BY <1>2, <1>3

LEMMA NewAttemptFacts ==
  ASSUME IInv, nextId < MaxAttempts
  PROVE  /\ nextId + 1 \in Attempts /\ nextId + 1 # NoAttempt
         /\ nextId + 1 \in 0 .. MaxAttempts
         /\ attempt[nextId + 1] = CreatedAttempt
         /\ nextId + 1 # inflight /\ nextId + 1 # active
         /\ \A a \in Attempts : a > nextId /\ a # nextId + 1 => a > nextId + 1
         /\ \A a \in Attempts : a <= nextId => a <= nextId + 1 /\ a # nextId + 1
<1>1. nextId \in Nat /\ MaxAttempts \in Nat
  BY MaxAttemptsAssumption DEF IInv, TypeOK
<1>2. nextId + 1 \in Attempts /\ nextId + 1 # NoAttempt /\ nextId + 1 \in 0 .. MaxAttempts
  BY <1>1 DEF Attempts, NoAttempt
<1>3. Situation(nextId + 1) /\ ~(nextId + 1 <= nextId)
  BY <1>1, <1>2 DEF IInv
<1> QED BY <1>1, <1>2, <1>3 DEF Situation, Attempts

\* The record made for a caller whose signal has fired is gone at once, the
\* other one is connecting.
LEMMA NewRecords ==
  ASSUME NEW c \in Callers
  PROVE  /\ TornDown(CreatedAttempt) \in AttemptRecords
         /\ Gone(TornDown(CreatedAttempt))
         /\ [CreatedAttempt EXCEPT !.wire = "connecting", !.subscribers = {c}] \in AttemptRecords
         /\ Connecting([CreatedAttempt EXCEPT !.wire = "connecting", !.subscribers = {c}])
         /\ [CreatedAttempt EXCEPT !.wire = "connecting", !.subscribers = {c}].subscribers = {c}
<1>1. CreatedAttempt \in AttemptRecords
  BY DEF CreatedAttempt, AttemptRecords
<1>2. ~CreatedAttempt.tornDown /\ CreatedAttempt.channel # "open" /\ CreatedAttempt.subscribers = {}
  BY DEF CreatedAttempt
<1>3. TornDown(CreatedAttempt) \in AttemptRecords /\ Gone(TornDown(CreatedAttempt))
  BY <1>1, <1>2, TornDownIsGone
<1> QED BY <1>3 DEF CreatedAttempt, AttemptRecords, Connecting, WellAttached

LEMMA ConnectAbortedStep ==
  ASSUME IInv, NEW c \in Callers, ConnectAborted(c)
  PROVE  IInv'
<1> DEFINE g == TornDown(CreatedAttempt)
           n == nextId + 1
<1>1. g \in AttemptRecords /\ Gone(g)
  BY NewRecords
<1> HIDE DEF g
<1>2. nextId' = n /\ attempt' = [attempt EXCEPT ![n] = g]
  BY DEF ConnectAborted, g
<1>3. /\ n \in Attempts /\ n # NoAttempt /\ n \in 0 .. MaxAttempts
      /\ n # inflight /\ n # active
      /\ \A a \in Attempts : a > nextId /\ a # n => a > n
      /\ \A a \in Attempts : a <= nextId => a <= n /\ a # n
  BY NewAttemptFacts DEF ConnectAborted
<1>4. n <= n
  BY <1>3 DEF Attempts
<1> HIDE DEF n
<1>5. \A a \in Attempts : attempt'[a] = IF a = n THEN g ELSE attempt[a]
  BY <1>2, <1>3 DEF IInv, TypeOK
<1>6. TypeOK'
  BY <1>1, <1>2, <1>3 DEF IInv, TypeOK, ConnectAborted, Outcomes, ErrorCodes
<1>7. \A a \in Attempts : Situation(a)'
  BY <1>1, <1>2, <1>3, <1>4, <1>5 DEF IInv, Situation, ConnectAborted
<1>8. NoLostCaller'
  BY DEF IInv, TypeOK, NoLostCaller, ConnectAborted
<1> QED BY <1>6, <1>7, <1>8 DEF IInv, ConnectAborted

LEMMA ConnectNewStep ==
  ASSUME IInv, NEW c \in Callers, ConnectNew(c)
  PROVE  IInv'
<1> DEFINE r == [CreatedAttempt EXCEPT !.wire = "connecting", !.subscribers = {c}]
           n == nextId + 1
<1>1. r \in AttemptRecords /\ Connecting(r) /\ r.subscribers = {c}
  BY NewRecords
<1> HIDE DEF r
<1>2. /\ nextId' = n /\ attempt' = [attempt EXCEPT ![n] = r] /\ inflight' = n
      /\ call' = [call EXCEPT ![c] = "pending"]
  BY DEF ConnectNew, r
<1>3. /\ n \in Attempts /\ n # NoAttempt /\ n \in 0 .. MaxAttempts
      /\ n # inflight /\ n # active
      /\ \A a \in Attempts : a > nextId /\ a # n => a > n
      /\ \A a \in Attempts : a <= nextId => a <= n /\ a # n
  BY NewAttemptFacts DEF ConnectNew
<1>4. n <= n
  BY <1>3 DEF Attempts
<1> HIDE DEF n
<1>5. \A a \in Attempts : attempt'[a] = IF a = n THEN r ELSE attempt[a]
  BY <1>2, <1>3 DEF IInv, TypeOK
<1>6. TypeOK'
  BY <1>1, <1>2, <1>3 DEF IInv, TypeOK, ConnectNew
\* Nothing was open: an active attempt would be.
<1>7. active = NoAttempt
  BY DEF IInv, ConnectNew, IsOpen, Situation, Open, TypeOK
<1>8. \A a \in Attempts : Situation(a)'
  BY <1>1, <1>2, <1>3, <1>4, <1>5, <1>7 DEF IInv, Situation, ConnectNew
<1>9. NoLostCaller'
  <2>1. \A b \in Callers : call[b] # "pending"
    BY DEF IInv, NoLostCaller, ConnectNew
  <2> QED BY <1>1, <1>2, <1>3, <1>5, <2>1 DEF IInv, TypeOK, NoLostCaller
<1> QED BY <1>6, <1>7, <1>8, <1>9 DEF IInv, ConnectNew

\* A signal that fires rejects its own caller, if that waits.
LEMMA SignalStep ==
  ASSUME IInv, NEW c \in Callers, aborted' = aborted \cup {c}, SubscriberAbort(c),
         UNCHANGED <<nextId, disc, awaits>>
  PROVE  IInv'
<1>1. Rest
  BY DEF IInv, TypeOK, Rest
<1>2. CASE \A a \in Attempts : c \notin attempt[a].subscribers
  <2>1. UNCHANGED <<nextId, attempt, inflight, active, call, disc, awaits>>
    BY <1>2 DEF SubscriberAbort
  <2>2. TypeOK'
    BY <1>1, <2>1 DEF IInv, TypeOK, Rest
  <2>3. \A a \in Attempts : Situation(a)'
    BY <2>1 DEF IInv, Situation
  <2>4. NoLostCaller'
    BY <2>1 DEF IInv, NoLostCaller
  <2> QED BY <2>1, <2>2, <2>3, <2>4 DEF IInv
<1>3. CASE ~(\A a \in Attempts : c \notin attempt[a].subscribers)
  <2>1. PICK a \in Attempts :
          /\ c \in attempt[a].subscribers
          /\ IF attempt[a].subscribers = {c}
               THEN FailInflight(a, attempt[a], "closed")
               ELSE /\ attempt' = [attempt EXCEPT ![a].subscribers = @ \ {c}]
                    /\ call' = [call EXCEPT ![c] = "closed"]
                    /\ UNCHANGED <<inflight, active>>
    BY <1>3 DEF SubscriberAbort
  <2> DEFINE s == attempt[a]
  <2>2. /\ s \in AttemptRecords
        /\ a <= nextId /\ a = inflight /\ a # active /\ Connecting(s)
    <3>1. Situation(a) /\ s \in AttemptRecords
      BY DEF IInv, TypeOK
    <3> QED BY <2>1, <3>1 DEF Situation, CreatedAttempt, Open, Gone
  <2>3. a \in Created
    BY <2>2 DEF Created, Attempts
  <2>4. CASE s.subscribers = {c}
    <3>1. /\ attempt' = [attempt EXCEPT ![a] = FailedInflight(s)]
          /\ inflight' = Without(inflight, a)
          /\ active' = Without(active, a)
          /\ call' = Settle(s.subscribers, "closed")
      BY <2>1, <2>2, <2>4 DEF FailInflight, Connecting, Without
    <3>2. FailedInflight(s) \in AttemptRecords /\ Gone(FailedInflight(s))
      BY <2>2, TornDownIsGone DEF Connecting, WellAttached, FailedInflight
    <3>3. "closed" \in Outcomes
      BY DEF Outcomes, ErrorCodes
    <3> QED BY <1>1, <2>3, <3>1, <3>2, <3>3, EndStep
  <2>5. CASE s.subscribers # {c}
    <3> DEFINE r == [s EXCEPT !.subscribers = @ \ {c}]
    <3>1. /\ attempt' = [attempt EXCEPT ![a] = r]
          /\ call' = [call EXCEPT ![c] = "closed"]
          /\ UNCHANGED <<inflight, active>>
      BY <2>1, <2>5
    <3>2. s.subscribers \ {c} # {} /\ s.subscribers \ {c} \subseteq Callers
      BY <2>1, <2>2, <2>5 DEF AttemptRecords
    <3>3. /\ r \in AttemptRecords /\ Connecting(r)
          /\ r.subscribers = s.subscribers \ {c}
      BY <2>2, <3>2 DEF AttemptRecords, Connecting, WellAttached
    <3> HIDE DEF r
    <3>4. TypeOK'
      BY <1>1, <3>1, <3>3 DEF IInv, TypeOK, Rest, Outcomes, ErrorCodes
    <3>5. \A b \in Attempts : attempt'[b] = IF b = a THEN r ELSE attempt[b]
      BY <3>1 DEF IInv, TypeOK
    <3>6. \A b \in Attempts : Situation(b)'
      BY <1>1, <2>2, <3>1, <3>3, <3>5 DEF IInv, Situation, Rest
    <3>7. NoLostCaller'
      BY <2>2, <3>1, <3>3, <3>5 DEF IInv, TypeOK, NoLostCaller
    <3> QED BY <3>1, <3>4, <3>6, <3>7 DEF IInv
  <2> QED BY <2>4, <2>5
<1> QED BY <1>2, <1>3

LEMMA AbortStep ==
  ASSUME IInv, NEW c \in Callers, Abort(c)
  PROVE  IInv'
BY SignalStep DEF Abort

LEMMA DisconnectStep ==
  ASSUME IInv, NEW d \in Disconnects, Disconnect(d)
  PROVE  IInv'
<1>1. Owned \subseteq Attempts
  BY DEF Owned
<1>2. Rest
  BY <1>1 DEF Disconnect, IInv, TypeOK, Rest
<1>3. "closed" \in Outcomes
  BY DEF Outcomes, ErrorCodes
<1>4. CASE inflight = NoAttempt /\ active = NoAttempt
  <2>1. Owned = {}
    BY <1>4 DEF Owned, Attempts, NoAttempt
  <2>2. attempt' = attempt /\ inflight' = inflight /\ active' = active
    BY <2>1 DEF Disconnect, IInv, TypeOK
  <2>3. call' = call
    BY <2>1 DEF Disconnect, Settle, IInv, TypeOK
  <2>4. TypeOK'
    BY <1>2, <2>2, <2>3 DEF IInv, TypeOK, Rest
  <2>5. \A a \in Attempts : Situation(a)'
    BY <1>2, <2>2 DEF IInv, Situation, Rest
  <2>6. NoLostCaller'
    BY <2>2, <2>3 DEF IInv, NoLostCaller
  <2> QED BY <2>2, <2>4, <2>5, <2>6 DEF IInv
<1>5. CASE inflight # NoAttempt
  <2> DEFINE a == inflight
  <2>1. /\ a \in Attempts /\ a <= nextId /\ active = NoAttempt /\ a # active
        /\ attempt[a] \in AttemptRecords /\ Connecting(attempt[a])
    <3>1. a \in Attempts /\ active = NoAttempt /\ attempt[a] \in AttemptRecords
      BY <1>5 DEF IInv, TypeOK
    <3>2. Situation(a)
      BY <3>1 DEF IInv
    <3> QED BY <1>5, <3>1, <3>2 DEF Situation
  <2>2. Owned = {a}
    BY <2>1 DEF Owned, Connecting, Attempts, NoAttempt
  <2>3. attempt' = [attempt EXCEPT ![a] = FailedInflight(attempt[a])]
    BY <2>1, <2>2 DEF Disconnect, IInv, TypeOK
  <2>4. /\ inflight' = Without(inflight, a) /\ active' = Without(active, a)
        /\ call' = Settle(attempt[a].subscribers, "closed")
    BY <2>1, <2>2 DEF Disconnect, Without
  <2>5. FailedInflight(attempt[a]) \in AttemptRecords /\ Gone(FailedInflight(attempt[a]))
    BY <2>1, TornDownIsGone DEF Connecting, WellAttached, FailedInflight
  <2>6. a \in Created
    BY <2>1 DEF Created, Attempts
  <2> QED BY <1>2, <1>3, <2>3, <2>4, <2>5, <2>6, EndStep
<1>6. CASE active # NoAttempt
  <2> DEFINE a == active
  <2>1. /\ a \in Attempts /\ a <= nextId /\ inflight = NoAttempt /\ a # inflight
        /\ attempt[a] \in AttemptRecords /\ Open(attempt[a])
    <3>1. a \in Attempts /\ inflight = NoAttempt /\ attempt[a] \in AttemptRecords
      BY <1>6 DEF IInv, TypeOK
    <3>2. Situation(a)
      BY <3>1 DEF IInv
    <3> QED BY <1>6, <3>1, <3>2 DEF Situation
  <2>2. Owned = {a}
    BY <2>1 DEF Owned, Open, Attempts, NoAttempt
  <2>3. attempt' = [attempt EXCEPT ![a] = TornDown(attempt[a])]
    BY <2>1, <2>2 DEF Disconnect, IInv, TypeOK
  <2>4. /\ inflight' = Without(inflight, a) /\ active' = Without(active, a)
        /\ call' = Settle(attempt[a].subscribers, "closed")
    BY <2>1, <2>2 DEF Disconnect, Without
  <2>5. TornDown(attempt[a]) \in AttemptRecords /\ Gone(TornDown(attempt[a]))
    BY <2>1, TornDownIsGone DEF Open, WellAttached
  <2>6. a \in Created
    BY <2>1 DEF Created, Attempts
  <2> QED BY <1>2, <1>3, <2>3, <2>4, <2>5, <2>6, EndStep
<1> QED BY <1>4, <1>5, <1>6

LEMMA DisconnectReturnsStep ==
  ASSUME IInv, NEW d \in Disconnects, DisconnectReturns(d)
  PROVE  IInv'
<1>1. TypeOK'
  BY DEF IInv, TypeOK, DisconnectReturns
<1>2. \A a \in Attempts : Situation(a)'
  BY DEF IInv, Situation, DisconnectReturns
<1>3. NoLostCaller'
  BY DEF IInv, NoLostCaller, DisconnectReturns
<1> QED BY <1>1, <1>2, <1>3 DEF IInv, DisconnectReturns

LEMMA StutterStep ==
  ASSUME IInv, UNCHANGED sessionVars
  PROVE  IInv'
<1>1. TypeOK'
  BY DEF IInv, TypeOK, sessionVars
<1>2. \A a \in Attempts : Situation(a)'
  BY DEF IInv, Situation, sessionVars
<1>3. NoLostCaller'
  BY DEF IInv, NoLostCaller, sessionVars
<1> QED BY <1>1, <1>2, <1>3 DEF IInv, sessionVars

\* The invariant holds at first and is preserved by every step.
LEMMA InvariantInit == Init => IInv
<1> SUFFICES ASSUME Init PROVE IInv
  OBVIOUS
<1>1. CreatedAttempt \in AttemptRecords /\ CreatedAttempt.subscribers = {}
  BY DEF CreatedAttempt, AttemptRecords
<1>2. TypeOK
  BY <1>1, MaxAttemptsAssumption DEF Init, TypeOK
<1>3. \A a \in Attempts : Situation(a)
  BY MaxAttemptsAssumption DEF Init, Situation, Attempts, NoAttempt
<1>4. NoLostCaller
  BY DEF Init, NoLostCaller
<1> QED BY <1>2, <1>3, <1>4 DEF IInv, Init

LEMMA InvariantStep == IInv /\ [Next]_sessionVars => IInv'
<1> SUFFICES ASSUME IInv, [Next]_sessionVars PROVE IInv'
  OBVIOUS
<1>1. CASE \E c \in Callers : Connect(c) \/ Abort(c)
  BY <1>1, ConnectOpenStep, ConnectJoinStep, ConnectAbortedStep, ConnectNewStep, AbortStep
  DEF Connect
<1>2. CASE \E d \in Disconnects : Disconnect(d) \/ DisconnectReturns(d)
  BY <1>2, DisconnectStep, DisconnectReturnsStep
<1>3. CASE \E a \in Created : Transport(a)
  BY <1>3, TransportStep
<1>4. CASE UNCHANGED sessionVars
  BY <1>4, StutterStep
<1> QED BY <1>1, <1>2, <1>3, <1>4 DEF Next

\* Every reachable state satisfies the inductive invariant.
THEOREM Invariance == Spec => []IInv
BY InvariantInit, InvariantStep, PTL DEF Spec
-----------------------------------------------------------------------------
(* What the invariant says to the users of a session.                      *)

\* The variables have their types.
THEOREM TypeCorrect == Spec => []TypeOK
BY Invariance, PTL DEF IInv

\* No socket is forgotten: of the attempts created, all but the one in flight
\* and the one in use were torn down and their clients ended.
THEOREM NoTransportIsLeaked == Spec => []NoLeakedTransport
<1>1. IInv => NoLeakedTransport
  BY CreatedFacts DEF NoLeakedTransport, Gone
<1> QED BY <1>1, Invariance, PTL

\* No channel is forgotten: an open one is attached to the attempt in flight
\* or in use, so that teardown will close it.
THEOREM NoStreamIsLeaked == Spec => []NoLeakedStream
<1>1. IInv => NoLeakedStream
  <2> SUFFICES ASSUME IInv, NEW a \in Attempts, attempt[a].channel = "open"
               PROVE  attempt[a].attached /\ a \in {inflight, active}
    BY DEF NoLeakedStream
  <2>1. Situation(a)
    BY DEF IInv
  <2> QED BY <2>1 DEF Situation, CreatedAttempt, Connecting, Open, WellAttached, Gone
<1> QED BY <1>1, Invariance, PTL

\* There is never an attempt in flight beside an open session; the attempt in
\* use has its shell and its prompt, the one in flight has a caller.
THEOREM OneOwner == Spec => []SingleOwner
<1>1. IInv => SingleOwner
  <2> SUFFICES ASSUME IInv PROVE SingleOwner
    OBVIOUS
  <2>1. active # NoAttempt => IsOpen /\ attempt[active].ready = "done"
    BY DEF IInv, TypeOK, Situation, Open, IsOpen
  <2>2. inflight # NoAttempt =>
          /\ ~attempt[inflight].tornDown
          /\ ~attempt[inflight].settled
          /\ attempt[inflight].subscribers # {}
    BY DEF IInv, TypeOK, Situation, Connecting
  <2> QED BY <2>1, <2>2 DEF IInv, SingleOwner
<1> QED BY <1>1, Invariance, PTL

\* No caller is forgotten: whoever waits is a subscriber of the attempt in
\* flight, so that its end, whichever it is, answers them.
THEOREM NoCallerIsLost == Spec => []NoLostCaller
BY Invariance, PTL DEF IInv

-----------------------------------------------------------------------------
(* What a step may never do.                                               *)

\* A handshake goes no further once the host key was refused, and the ready
\* wait of a live attempt ends in one of the ways ShellIo has.
SoundVerdict(r) ==
  /\ r.hostKeyRejected => r.wire = "connecting"
  /\ r.ready \in {"none", "waiting", "done", "resolved", "timeout", "limit"}

\* The inductive invariant of these proofs.
VerdictIInv ==
  /\ IInv
  /\ \A a \in Created : attempt[a].tornDown \/ SoundVerdict(attempt[a])

-----------------------------------------------------------------------------
(* The four results of an event of attempt a.                              *)

OnlyAttempt(a) == \A b \in Attempts \ {a} : attempt'[b] = attempt[b]

\* Nobody notices.
Kept(a) ==
  /\ OnlyAttempt(a)
  /\ UNCHANGED <<inflight, active, call>>
  /\ attempt'[a].tornDown = attempt[a].tornDown
  /\ attempt'[a].tornDown \/ SoundVerdict(attempt'[a])

\* The attempt in flight fails, and whoever waits for it is told so.
Fails(a, code) ==
  /\ OnlyAttempt(a)
  /\ inflight = a /\ inflight' = NoAttempt /\ active' = NoAttempt
  /\ call' = Settle(attempt[a].subscribers, code)
  /\ attempt'[a].tornDown

\* The attempt in flight becomes the open session.
Establishes(a) ==
  /\ OnlyAttempt(a)
  /\ inflight = a /\ inflight' = NoAttempt /\ active' = a
  /\ call' = Settle(attempt[a].subscribers, "ok")
  /\ ~attempt[a].hostKeyRejected
  /\ SoundVerdict(attempt'[a])

\* The open session ends.
Drops(a) ==
  /\ OnlyAttempt(a)
  /\ active = a /\ inflight' = inflight /\ active' = NoAttempt
  /\ call' = call
  /\ attempt'[a].tornDown

\* What a transport may say of an attempt: never `closed', and `hostkey' or
\* `auth' by the verdict of the attempt's own verifier.
Justified(a, code) ==
  /\ code \in ErrorCodes \ {"closed"}
  /\ code \in {"hostkey", "auth"} =>
       ((code = "hostkey") <=> attempt[a].hostKeyRejected)

Moves(a) ==
  \/ Kept(a)
  \/ \E code : Justified(a, code) /\ Fails(a, code)
  \/ Establishes(a)
  \/ Drops(a)

-----------------------------------------------------------------------------
(* Which result a way of ending the job has.                               *)

LEMMA WriteRecord ==
  ASSUME IInv, NEW a \in Created, NEW r, attempt' = [attempt EXCEPT ![a] = r]
  PROVE  OnlyAttempt(a) /\ attempt'[a] = r
BY CreatedFacts DEF IInv, TypeOK, OnlyAttempt

LEMMA KeptRecord ==
  ASSUME IInv, NEW a \in Created, NEW r, OnlyRecord(a, r),
         r.tornDown = attempt[a].tornDown, r.tornDown \/ SoundVerdict(r)
  PROVE  Moves(a)
<1>1. OnlyAttempt(a) /\ attempt'[a] = r
  BY WriteRecord DEF OnlyRecord
<1> QED BY <1>1 DEF OnlyRecord, Moves, Kept

LEMMA TornDownField ==
  ASSUME NEW r \in AttemptRecords
  PROVE  TornDown(r).tornDown /\ FailedInflight(r).tornDown
<1>1. PICK ready : ready = IF r.ready = "waiting" THEN "closed" ELSE r.ready
  OBVIOUS
<1>2. PICK channel : channel = IF r.attached THEN "closed" ELSE r.channel
  OBVIOUS
<1>3. TornDown(r) = IF r.tornDown THEN r
        ELSE [r EXCEPT !.tornDown = TRUE, !.ready = ready, !.channel = channel,
                       !.attached = FALSE, !.shellTimer = FALSE, !.end = "waiting"]
  BY <1>1, <1>2 DEF TornDown
<1>4. TornDown(r).tornDown
  BY <1>3 DEF AttemptRecords
<1>5. PICK t : t = TornDown(r)
  OBVIOUS
<1>6. /\ FailedInflight(r) = [t EXCEPT !.settled = TRUE, !.subscribers = {}]
      /\ "tornDown" \in DOMAIN t
  <2>1. "tornDown" \in DOMAIN t
    BY <1>3, <1>5 DEF AttemptRecords
  <2> QED BY <1>5, <2>1 DEF FailedInflight
<1>7. FailedInflight(r).tornDown = t.tornDown
  BY <1>6
<1> QED BY <1>4, <1>5, <1>7

LEMMA FailRecord ==
  ASSUME IInv, NEW a \in Created, a = inflight, NEW r \in AttemptRecords,
         r.subscribers = attempt[a].subscribers, ~r.settled,
         NEW code, Justified(a, code), FailInflight(a, r, code)
  PROVE  Moves(a)
<1>1. /\ attempt' = [attempt EXCEPT ![a] = FailedInflight(r)]
      /\ inflight' = NoAttempt
      /\ active' = Without(active, a)
      /\ call' = Settle(attempt[a].subscribers, code)
  BY DEF FailInflight
<1>2. active' = NoAttempt
  BY <1>1, CreatedFacts DEF IInv, Without
<1>3. OnlyAttempt(a) /\ attempt'[a] = FailedInflight(r)
  BY <1>1, WriteRecord
<1>4. Fails(a, code)
  BY <1>1, <1>2, <1>3, TornDownField DEF Fails
<1> QED BY <1>4 DEF Moves

LEMMA DropRecord ==
  ASSUME IInv, NEW a \in Created, a = active, a # inflight, NEW r \in AttemptRecords,
         Teardown(a, r)
  PROVE  Moves(a)
<1>1. OnlyAttempt(a) /\ attempt'[a] = TornDown(r)
  BY WriteRecord DEF Teardown
<1>2. Drops(a)
  BY <1>1, TornDownField DEF Drops, Teardown, Without
<1> QED BY <1>2 DEF Moves

\* The transport of a live attempt is lost, with record r so far.
LEMMA LossMoves ==
  ASSUME IInv, NEW a \in Created, NEW r \in AttemptRecords, Continues(r, attempt[a]),
         ~attempt[a].tornDown, NEW code, Justified(a, code),
         Apply(a, r, SettleLive(Snapshot(a), code))
  PROVE  Moves(a)
<1>1. \/ a = inflight /\ Connecting(attempt[a])
      \/ a # inflight /\ a = active /\ Open(attempt[a])
  BY CreatedFacts DEF Gone
<1>2. CASE a = inflight /\ Connecting(attempt[a])
  <2>1. SettleLive(Snapshot(a), code) = Fail(code, FALSE)
    BY <1>2 DEF SettleLive, Snapshot, Connecting
  <2>2. FailInflight(a, r, code)
    BY <2>1 DEF Apply, Fail
  <2> QED BY <1>2, <2>2, FailRecord DEF Continues, Connecting
<1>3. CASE a # inflight /\ a = active /\ Open(attempt[a])
  <2>1. SettleLive(Snapshot(a), code) = Effect("teardown")
    BY <1>3 DEF SettleLive, Snapshot, Open
  <2>2. Teardown(a, r)
    BY <2>1 DEF Apply, Effect
  <2> QED BY <1>3, <2>2, DropRecord
<1> QED BY <1>1, <1>2, <1>3

-----------------------------------------------------------------------------
(* Every event of the transport has one of the four results.               *)

\* What is known of an attempt that was created, with its verdict.
LEMMA VerdictFacts ==
  ASSUME VerdictIInv, NEW a \in Created
  PROVE  /\ attempt[a] \in AttemptRecords
         /\ \/ a = inflight /\ a # active /\ Connecting(attempt[a]) /\ SoundVerdict(attempt[a])
            \/ a # inflight /\ a = active /\ Open(attempt[a]) /\ SoundVerdict(attempt[a])
            \/ a # inflight /\ a # active /\ Gone(attempt[a])
BY CreatedFacts DEF VerdictIInv, Connecting, Open

LEMMA HostKeyRejectedMoves ==
  ASSUME VerdictIInv, NEW a \in Created, HostKeyRejected(a)
  PROVE  Moves(a)
<1> DEFINE r == [attempt[a] EXCEPT !.hostKeyRejected = TRUE]
<1>1. attempt[a] \in AttemptRecords /\ SoundVerdict(attempt[a]) /\ attempt[a].wire = "connecting"
  BY VerdictFacts DEF HostKeyRejected, Gone
<1>2. r.tornDown = attempt[a].tornDown /\ SoundVerdict(r)
  BY <1>1 DEF AttemptRecords, SoundVerdict
<1> QED BY <1>2, KeptRecord DEF HostKeyRejected, VerdictIInv

LEMMA DeadlinePassesMoves ==
  ASSUME VerdictIInv, NEW a \in Created, DeadlinePasses(a)
  PROVE  Moves(a)
<1> DEFINE r == [attempt[a] EXCEPT !.expired = TRUE]
<1>1. attempt[a] \in AttemptRecords /\ (attempt[a].tornDown \/ SoundVerdict(attempt[a]))
  BY VerdictFacts DEF VerdictIInv
<1>2. r.tornDown = attempt[a].tornDown /\ (r.tornDown \/ SoundVerdict(r))
  BY <1>1 DEF AttemptRecords, SoundVerdict
<1> QED BY <1>2, KeptRecord DEF DeadlinePasses, VerdictIInv

LEMMA EndTimerMoves ==
  ASSUME VerdictIInv, NEW a \in Created, EndTimer(a)
  PROVE  Moves(a)
<1> DEFINE r == [attempt[a] EXCEPT !.end = "done"]
<1>1. attempt[a] \in AttemptRecords /\ (attempt[a].tornDown \/ SoundVerdict(attempt[a]))
  BY VerdictFacts DEF VerdictIInv
<1>2. r.tornDown = attempt[a].tornDown /\ (r.tornDown \/ SoundVerdict(r))
  BY <1>1 DEF AttemptRecords, SoundVerdict
<1> QED BY <1>2, KeptRecord DEF EndTimer, VerdictIInv

LEMMA ClientReadyMoves ==
  ASSUME VerdictIInv, NEW a \in Created, ClientReady(a)
  PROVE  Moves(a)
<1> DEFINE s == attempt[a]
           up == [s EXCEPT !.wire = "up"]
           asked == [up EXCEPT !.shellTimer = TRUE, !.channel = "requested"]
           effect == OnReady(Snapshot(a), s.expired)
<1>1. /\ s \in AttemptRecords /\ a = inflight /\ Connecting(s) /\ SoundVerdict(s)
      /\ ~s.hostKeyRejected
  BY VerdictFacts DEF ClientReady, Listening, Open, Gone, WellAttached
<1>2. /\ up \in AttemptRecords /\ up.subscribers = s.subscribers /\ ~up.settled
  BY <1>1 DEF AttemptRecords, Connecting
<1>3. asked.tornDown = s.tornDown /\ SoundVerdict(asked)
  BY <1>1 DEF AttemptRecords, SoundVerdict
<1>4. effect = Fail("timeout", FALSE) \/ effect = Effect("openShell")
  BY <1>1 DEF OnReady, IsStaleConnect, Snapshot, Connecting
<1>5. CASE effect = Fail("timeout", FALSE)
  <2>1. FailInflight(a, up, "timeout")
    BY <1>5 DEF ClientReady, Fail, Apply
  <2>2. Justified(a, "timeout")
    BY DEF Justified, ErrorCodes
  <2> QED BY <1>1, <1>2, <2>1, <2>2, FailRecord DEF VerdictIInv
<1>6. CASE effect = Effect("openShell")
  <2>1. OnlyRecord(a, asked)
    BY <1>6 DEF ClientReady, Effect
  <2> QED BY <1>3, <2>1, KeptRecord DEF VerdictIInv
<1> QED BY <1>4, <1>5, <1>6

LEMMA ShellCallbackMoves ==
  ASSUME VerdictIInv, NEW a \in Created, NEW hasStream \in BOOLEAN, NEW failed \in BOOLEAN,
         ShellCallback(a, hasStream, failed)
  PROVE  Moves(a)
<1> DEFINE s == attempt[a]
           r == [s EXCEPT !.shellTimer = FALSE,
                          !.channel = IF hasStream THEN "open" ELSE "none"]
           attached == [r EXCEPT !.attached = TRUE, !.ready = "waiting"]
           effect == OnShell(Snapshot(a), hasStream, failed, s.expired)
<1>1. /\ s \in AttemptRecords
      /\ \/ a = inflight /\ Connecting(s) /\ SoundVerdict(s) /\ s.wire # "connecting"
         \/ Gone(s)
  BY VerdictFacts DEF ShellCallback, Open, Connecting, WellAttached
<1>2. /\ r \in AttemptRecords
      /\ r.subscribers = s.subscribers /\ r.settled = s.settled /\ r.tornDown = s.tornDown
      /\ r.wire = s.wire /\ r.hostKeyRejected = s.hostKeyRejected
  <2>1. PICK channel : channel = IF hasStream THEN "open" ELSE "none"
    OBVIOUS
  <2>2. r = [s EXCEPT !.shellTimer = FALSE, !.channel = channel]
    BY <2>1
  <2>3. channel \in {"none", "requested", "open", "closed"}
    BY <2>1
  <2> HIDE DEF s
  <2> QED BY <1>1, <2>1, <2>2, <2>3 DEF AttemptRecords
<1> HIDE DEF r
<1>3. /\ CloseStream(r) \in AttemptRecords
      /\ CloseStream(r).subscribers = s.subscribers
      /\ CloseStream(r).settled = s.settled /\ CloseStream(r).tornDown = s.tornDown
  BY <1>2 DEF CloseStream, AttemptRecords
<1>4. CASE Gone(s)
  <2>1. effect = Effect(IF hasStream THEN "closeOwnStream" ELSE "ignore")
    BY <1>4 DEF OnShell, IsStaleConnect, Snapshot, Gone
  <2>2. OnlyRecord(a, CloseStream(r)) \/ OnlyRecord(a, r)
    BY <2>1 DEF ShellCallback, Apply, Effect, r
  <2> QED BY <1>2, <1>3, <1>4, <2>2, KeptRecord DEF VerdictIInv, Gone
<1>5. CASE a = inflight /\ Connecting(s) /\ SoundVerdict(s) /\ s.wire # "connecting"
  <2>1. \/ effect = Fail("connect", hasStream)
        \/ effect = Fail("timeout", TRUE)
        \/ effect = Effect("attachShell")
    BY <1>5 DEF OnShell, IsStaleConnect, Snapshot, Connecting
  <2>2. ASSUME NEW code \in {"connect", "timeout"}, NEW close \in BOOLEAN,
               effect = Fail(code, close)
        PROVE  Moves(a)
    <3>1. FailInflight(a, IF close THEN CloseStream(r) ELSE r, code)
      BY <2>2 DEF ShellCallback, Apply, Fail, r
    <3>2. Justified(a, code)
      BY <2>2 DEF Justified, ErrorCodes
    <3>3. ~s.settled
      BY <1>5 DEF Connecting
    <3>4. CASE close
      BY <1>3, <1>5, <3>1, <3>2, <3>3, <3>4, FailRecord DEF VerdictIInv
    <3>5. CASE ~close
      BY <1>2, <1>5, <3>1, <3>2, <3>3, <3>5, FailRecord DEF VerdictIInv
    <3> QED BY <3>4, <3>5
  <2>3. CASE effect = Effect("attachShell")
    <3>1. Effect("attachShell").type = "attachShell"
      BY DEF Effect
    <3>2. effect.type = "attachShell"
      BY <2>3, <3>1, Zenon
    <3>3. OnlyRecord(a, attached)
      BY <3>2, Zenon DEF ShellCallback, r
    <3>4. attached.tornDown = s.tornDown /\ SoundVerdict(attached)
      BY <1>2, <1>5 DEF AttemptRecords, SoundVerdict
    <3> QED BY <3>3, <3>4, KeptRecord DEF VerdictIInv
  <2> QED BY <2>1, <2>2, <2>3
<1> QED BY <1>1, <1>4, <1>5

LEMMA ShellTimeoutMoves ==
  ASSUME VerdictIInv, NEW a \in Created, ShellTimeout(a)
  PROVE  Moves(a)
<1> DEFINE s == attempt[a]
           r == [s EXCEPT !.shellTimer = FALSE]
<1>1. /\ s \in AttemptRecords /\ ~s.tornDown
      /\ \/ a = inflight /\ Connecting(s)
         \/ a # inflight /\ a = active
  BY VerdictFacts DEF ShellTimeout, Connecting, Open, Gone
<1>2. /\ r \in AttemptRecords /\ r.subscribers = s.subscribers
      /\ r.settled = s.settled /\ r.tornDown = s.tornDown
  BY <1>1 DEF AttemptRecords
<1> HIDE DEF r
<1>3. FailInflight(a, r, "timeout")
  BY DEF ShellTimeout, r
<1>4. Justified(a, "timeout")
  BY DEF Justified, ErrorCodes
<1>5. CASE a = inflight /\ Connecting(s)
  BY <1>2, <1>3, <1>4, <1>5, FailRecord DEF VerdictIInv, Connecting
<1>6. CASE a # inflight /\ a = active
  <2>1. Teardown(a, r)
    BY <1>1, <1>2, <1>3, <1>6 DEF FailInflight
  <2> QED BY <1>2, <1>6, <2>1, DropRecord DEF VerdictIInv
<1> QED BY <1>1, <1>5, <1>6

LEMMA ChannelGoneMoves ==
  ASSUME VerdictIInv, NEW a \in Created, ChannelGone(a)
  PROVE  Moves(a)
<1> DEFINE s == attempt[a]
           r == CloseStream(s)
<1>1. s \in AttemptRecords /\ ~s.tornDown
  BY VerdictFacts DEF ChannelGone, Connecting, Open, Gone
<1>2. r \in AttemptRecords /\ Continues(r, s)
  BY <1>1 DEF AttemptRecords, Continues, CloseStream
<1>3. Apply(a, r, SettleLive(Snapshot(a), "connect"))
  BY DEF ChannelGone, OnGone
<1>4. Justified(a, "connect")
  BY DEF Justified, ErrorCodes
<1> QED BY <1>1, <1>2, <1>3, <1>4, LossMoves DEF VerdictIInv

LEMMA ClientErrorMoves ==
  ASSUME VerdictIInv, NEW a \in Created, NEW err, ClientError(a, err)
  PROVE  Moves(a)
<1> DEFINE s == attempt[a]
           code == ClassifyConnectError(err, s.hostKeyRejected)
<1>1. s \in AttemptRecords /\ ~s.tornDown /\ (s.channel = "open" => s.attached)
  BY VerdictFacts DEF ClientError, Listening, Connecting, Open, WellAttached, Gone
<1>2. Continues(s, s)
  BY <1>1 DEF Continues
<1>3. Justified(a, code)
  BY DEF ClassifyConnectError, Justified, ErrorCodes
<1>4. Apply(a, s, SettleLive(Snapshot(a), code))
  BY DEF ClientError, OnClientError
<1> QED BY <1>1, <1>2, <1>3, <1>4, LossMoves DEF VerdictIInv

LEMMA ClientCloseMoves ==
  ASSUME VerdictIInv, NEW a \in Created, ClientClose(a)
  PROVE  Moves(a)
<1> DEFINE s == attempt[a]
           down == [s EXCEPT !.wire = "down"]
           ended == [down EXCEPT !.end = "done"]
<1>1. /\ s \in AttemptRecords
      /\ ~s.tornDown => (s.channel = "open" => s.attached)
  BY VerdictFacts DEF Connecting, Open, WellAttached, Gone
<1>2. CASE Listening(a)
  <2>1. ~s.tornDown
    BY <1>2 DEF Listening
  <2>2. down \in AttemptRecords /\ Continues(down, s)
    BY <1>1, <2>1 DEF AttemptRecords, Continues
  <2>3. Apply(a, down, SettleLive(Snapshot(a), "connect"))
    BY <1>2 DEF ClientClose, OnGone
  <2>4. Justified(a, "connect")
    BY DEF Justified, ErrorCodes
  <2> QED BY <2>1, <2>2, <2>3, <2>4, LossMoves DEF VerdictIInv
<1>3. CASE ~Listening(a)
  <2>1. s.tornDown
    BY <1>3 DEF ClientClose, Listening
  <2>2. ended.tornDown = s.tornDown
    BY <1>1 DEF AttemptRecords
  <2>3. OnlyRecord(a, ended)
    BY <1>3 DEF ClientClose
  <2> QED BY <2>1, <2>2, <2>3, KeptRecord DEF VerdictIInv
<1> QED BY <1>2, <1>3

LEMMA ReadySettlesMoves ==
  ASSUME VerdictIInv, NEW a \in Created, NEW outcome \in {"resolved", "timeout", "limit"},
         ReadySettles(a, outcome)
  PROVE  Moves(a)
<1> DEFINE s == attempt[a]
           r == [s EXCEPT !.ready = outcome]
<1>1. s \in AttemptRecords /\ a # active /\ SoundVerdict(s)
  BY VerdictFacts DEF ReadySettles, Open, Gone
<1>2. r.tornDown = s.tornDown /\ SoundVerdict(r)
  BY <1>1 DEF AttemptRecords, SoundVerdict
<1>3. OnShellDead(Snapshot(a)) = Effect("ignore")
  BY <1>1 DEF OnShellDead, Snapshot
<1>4. OnlyRecord(a, r)
  BY <1>3 DEF ReadySettles, Apply, Effect
<1> QED BY <1>2, <1>4, KeptRecord DEF VerdictIInv

LEMMA ShellDeadMoves ==
  ASSUME VerdictIInv, NEW a \in Created, ShellDead(a)
  PROVE  Moves(a)
<1> DEFINE s == attempt[a]
<1>1. /\ s \in AttemptRecords
      /\ \/ a = active /\ a # inflight /\ Open(s)
         \/ a # active /\ (s.tornDown \/ SoundVerdict(s))
  BY VerdictFacts DEF Gone
<1>2. CASE a = active /\ a # inflight /\ Open(s)
  <2>1. OnShellDead(Snapshot(a)) = Effect("teardown")
    BY <1>2 DEF OnShellDead, Snapshot, Open
  <2>2. Teardown(a, s)
    BY <2>1 DEF ShellDead, Apply, Effect
  <2> QED BY <1>1, <1>2, <2>2, DropRecord DEF VerdictIInv
<1>3. CASE a # active /\ (s.tornDown \/ SoundVerdict(s))
  <2>1. OnShellDead(Snapshot(a)) = Effect("ignore")
    BY <1>3 DEF OnShellDead, Snapshot
  <2>2. OnlyRecord(a, s)
    BY <2>1 DEF ShellDead, Apply, Effect
  <2> QED BY <1>3, <2>2, KeptRecord DEF VerdictIInv
<1> QED BY <1>1, <1>2, <1>3

\* finishOk: success is for the attempt in flight alone.
LEMMA FinishOkMoves ==
  ASSUME VerdictIInv, NEW a \in Created, a = inflight, NEW r \in AttemptRecords,
         SoundVerdict(r), ~attempt[a].hostKeyRejected,
         r.subscribers = attempt[a].subscribers, ~r.tornDown, ~r.settled,
         FinishOk(a, r)
  PROVE  Moves(a)
<1> DEFINE g == [r EXCEPT !.settled = TRUE, !.subscribers = {}]
<1>1. /\ attempt' = [attempt EXCEPT ![a] = g]
      /\ inflight' = NoAttempt
      /\ active' = a
      /\ call' = Settle(attempt[a].subscribers, "ok")
  BY DEF FinishOk
<1>2. SoundVerdict(g)
  BY DEF AttemptRecords, SoundVerdict
<1>3. OnlyAttempt(a) /\ attempt'[a] = g
  BY <1>1, WriteRecord DEF VerdictIInv
<1> QED BY <1>1, <1>2, <1>3 DEF Moves, Establishes

LEMMA ReadyResultMoves ==
  ASSUME VerdictIInv, NEW a \in Created, ReadyResult(a)
  PROVE  Moves(a)
<1> DEFINE s == attempt[a]
           r == [s EXCEPT !.ready = "done"]
           code == IF s.ready \in ReadyPassthrough THEN s.ready ELSE "connect"
<1>1. /\ s \in AttemptRecords
      /\ \/ a = inflight /\ Connecting(s) /\ SoundVerdict(s) /\ s.wire # "connecting"
         \/ a # inflight /\ Gone(s)
  BY VerdictFacts DEF ReadyResult, ReadyOutcomes, ErrorCodes, Connecting, Open, WellAttached
<1>2. /\ r \in AttemptRecords
      /\ r.subscribers = s.subscribers /\ r.settled = s.settled /\ r.tornDown = s.tornDown
      /\ SoundVerdict(s) => SoundVerdict(r)
  BY <1>1 DEF AttemptRecords, SoundVerdict
<1> HIDE DEF r
<1>3. CASE a = inflight /\ Connecting(s) /\ SoundVerdict(s) /\ s.wire # "connecting"
  <2>1. ~s.hostKeyRejected /\ ~r.tornDown /\ ~r.settled
    BY <1>2, <1>3 DEF SoundVerdict, Connecting
  <2>2. CASE s.ready = "resolved"
    <3>1. FinishOk(a, r)
      BY <2>2 DEF ReadyResult, r
    <3> QED BY <1>2, <1>3, <2>1, <3>1, FinishOkMoves
  <2>3. CASE s.ready # "resolved"
    <3>1. OnReadyResult(Snapshot(a), code) = Fail(code, FALSE)
      BY <1>3 DEF OnReadyResult, IsStaleConnect, Snapshot, Connecting
    <3>2. Apply(a, r, OnReadyResult(Snapshot(a), code))
      BY <2>3 DEF ReadyResult, r
    <3>3. FailInflight(a, r, code)
      BY <3>1, <3>2 DEF Apply, Fail
    <3>4. Justified(a, code)
      BY <1>3 DEF Justified, SoundVerdict, ReadyPassthrough, ErrorCodes
    <3> QED BY <1>2, <1>3, <2>1, <3>3, <3>4, FailRecord DEF VerdictIInv
  <2> QED BY <2>2, <2>3
<1>4. CASE a # inflight /\ Gone(s)
  <2>1. OnReadyResult(Snapshot(a), code) = Effect("ignore")
    BY <1>4 DEF OnReadyResult, IsStaleConnect, Snapshot
  <2>2. OnlyRecord(a, r)
    <3>1. CASE s.ready = "resolved"
      BY <1>4, <3>1 DEF ReadyResult, FinishOk, r
    <3>2. CASE s.ready # "resolved"
      BY <2>1, <3>2 DEF ReadyResult, Apply, Effect, r
    <3> QED BY <3>1, <3>2
  <2> QED BY <1>2, <1>4, <2>2, KeptRecord DEF VerdictIInv, Gone
<1> QED BY <1>1, <1>3, <1>4

LEMMA TransportResult ==
  ASSUME VerdictIInv, NEW a \in Created, Transport(a)
  PROVE  Moves(a)
<1>1. CASE \E hasStream, failed \in BOOLEAN :
             (hasStream \/ failed) /\ ShellCallback(a, hasStream, failed)
  BY <1>1, ShellCallbackMoves
<1>2. CASE \E err \in Errors : ClientError(a, err)
  BY <1>2, ClientErrorMoves
<1>3. CASE \E outcome \in {"resolved", "timeout", "limit"} : ReadySettles(a, outcome)
  BY <1>3, ReadySettlesMoves
<1> QED BY <1>1, <1>2, <1>3, HostKeyRejectedMoves, ClientReadyMoves, ShellTimeoutMoves,
           ChannelGoneMoves, ClientCloseMoves, EndTimerMoves, DeadlinePassesMoves,
           ReadyResultMoves, ShellDeadMoves DEF Transport

-----------------------------------------------------------------------------
(* What the calls of the API do.                                           *)

\* A call touches no attempt that is torn down, and tells callers who wait
\* nothing but `closed': those whose signal fires, or all of them.
CallResult ==
  /\ \A a \in Attempts : attempt[a].tornDown => attempt'[a] = attempt[a]
  /\ \A a \in Created' : attempt'[a].tornDown \/ SoundVerdict(attempt'[a])
  /\ \A c \in Callers : call[c] = "pending" => call'[c] \in {"pending", "closed"}
  /\ \A c \in Callers :
       call[c] = "pending" /\ call'[c] = "closed" =>
         c \in aborted' \ aborted \/ disc' # disc

\* One attempt's record is written.
LEMMA RecordVerdict ==
  ASSUME VerdictIInv, NEW n \in Attempts, ~attempt[n].tornDown, NEW r,
         attempt' = [attempt EXCEPT ![n] = r], r.tornDown \/ SoundVerdict(r),
         Created' \subseteq Created \cup {n}
  PROVE  /\ \A a \in Attempts : attempt[a].tornDown => attempt'[a] = attempt[a]
         /\ \A a \in Created' : attempt'[a].tornDown \/ SoundVerdict(attempt'[a])
<1>1. \A a \in Attempts : attempt'[a] = IF a = n THEN r ELSE attempt[a]
  BY DEF VerdictIInv, IInv, TypeOK
<1>2. Created \subseteq Attempts
  BY CreatedFacts DEF VerdictIInv
<1> QED BY <1>1, <1>2 DEF VerdictIInv

LEMMA ConnectResult ==
  ASSUME VerdictIInv, NEW c \in Callers, Connect(c)
  PROVE  CallResult
<1>1. IInv /\ call \in [Callers -> {"idle", "pending"} \cup Outcomes]
  BY DEF VerdictIInv, IInv, TypeOK
<1>2. \A d \in Callers : call[d] = "pending" => call'[d] = "pending"
  BY <1>1 DEF Connect, ConnectOpen, ConnectJoin, ConnectAborted, ConnectNew
<1> SUFFICES /\ \A a \in Attempts : attempt[a].tornDown => attempt'[a] = attempt[a]
             /\ \A a \in Created' : attempt'[a].tornDown \/ SoundVerdict(attempt'[a])
  BY <1>2 DEF CallResult
<1>3. CASE attempt' = attempt /\ nextId' = nextId
  BY <1>3 DEF VerdictIInv, Created
<1>4. CASE ConnectJoin(c) /\ c \notin aborted
  <2> DEFINE s == attempt[inflight]
             r == [s EXCEPT !.subscribers = @ \cup {c}]
  <2>1. inflight \in Attempts /\ s \in AttemptRecords /\ Connecting(s) /\ inflight \in Created
    <3>1. inflight \in Attempts /\ s \in AttemptRecords
      BY <1>1, <1>4 DEF IInv, TypeOK, ConnectJoin
    <3>2. Situation(inflight)
      BY <1>1, <3>1 DEF IInv
    <3> QED BY <3>1, <3>2 DEF Situation, Created, Attempts
  <2>2. attempt' = [attempt EXCEPT ![inflight] = r] /\ Created' = Created
    BY <1>4, <2>1 DEF ConnectJoin, Connecting, Created
  <2>3. SoundVerdict(s) /\ ~s.tornDown
    BY <2>1 DEF VerdictIInv, Connecting
  <2>4. SoundVerdict(r)
    BY <2>1, <2>3 DEF AttemptRecords, SoundVerdict
  <2> QED BY <2>1, <2>2, <2>3, <2>4, RecordVerdict
<1>5. ASSUME NEW r \in AttemptRecords, r.tornDown \/ SoundVerdict(r), nextId < MaxAttempts,
             nextId' = nextId + 1, attempt' = [attempt EXCEPT ![nextId + 1] = r]
      PROVE  /\ \A a \in Attempts : attempt[a].tornDown => attempt'[a] = attempt[a]
             /\ \A a \in Created' : attempt'[a].tornDown \/ SoundVerdict(attempt'[a])
  <2>1. /\ nextId + 1 \in Attempts /\ ~attempt[nextId + 1].tornDown
    BY <1>1, <1>5, NewAttemptFacts DEF CreatedAttempt
  <2>2. Created' \subseteq Created \cup {nextId + 1}
    BY <1>1, <1>5 DEF IInv, TypeOK, Created
  <2> QED BY <1>5, <2>1, <2>2, RecordVerdict
<1>6. CASE ConnectAborted(c)
  <2>1. TornDown(CreatedAttempt) \in AttemptRecords /\ TornDown(CreatedAttempt).tornDown
    BY NewRecords DEF Gone
  <2> QED BY <1>5, <1>6, <2>1 DEF ConnectAborted
<1>7. CASE ConnectNew(c)
  <2> DEFINE r == [CreatedAttempt EXCEPT !.wire = "connecting", !.subscribers = {c}]
  <2>1. r \in AttemptRecords
    BY NewRecords
  <2>2. SoundVerdict(r)
    BY DEF SoundVerdict, CreatedAttempt
  <2>3. /\ nextId < MaxAttempts /\ nextId' = nextId + 1
        /\ attempt' = [attempt EXCEPT ![nextId + 1] = r]
    BY <1>7 DEF ConnectNew
  <2> QED BY <1>5, <2>1, <2>2, <2>3
<1> QED BY <1>3, <1>4, <1>6, <1>7 DEF Connect, ConnectOpen, ConnectJoin

LEMMA AbortResult ==
  ASSUME VerdictIInv, NEW c \in Callers, Abort(c)
  PROVE  CallResult
<1>1. IInv /\ call \in [Callers -> {"idle", "pending"} \cup Outcomes]
  BY DEF VerdictIInv, IInv, TypeOK
<1>2. c \in aborted' \ aborted /\ nextId' = nextId
  BY DEF Abort
<1>3. CASE \A a \in Attempts : c \notin attempt[a].subscribers
  <2>1. UNCHANGED <<nextId, attempt, call>>
    BY <1>3 DEF Abort, SubscriberAbort
  <2> QED BY <2>1 DEF VerdictIInv, CallResult, Created
<1>4. CASE ~(\A a \in Attempts : c \notin attempt[a].subscribers)
  <2>1. PICK a \in Attempts :
          /\ c \in attempt[a].subscribers
          /\ IF attempt[a].subscribers = {c}
               THEN FailInflight(a, attempt[a], "closed")
               ELSE /\ attempt' = [attempt EXCEPT ![a].subscribers = @ \ {c}]
                    /\ call' = [call EXCEPT ![c] = "closed"]
                    /\ UNCHANGED <<inflight, active>>
    BY <1>4 DEF Abort, SubscriberAbort
  <2> DEFINE s == attempt[a]
  <2>2. s \in AttemptRecords /\ a \in Created /\ a = inflight /\ Connecting(s)
    <3>1. Situation(a) /\ s \in AttemptRecords
      BY <1>1 DEF IInv, TypeOK
    <3>2. nextId \in Nat /\ a \in Nat /\ a >= 1
      BY <1>1 DEF IInv, TypeOK, Attempts
    <3> QED BY <2>1, <3>1, <3>2 DEF Situation, CreatedAttempt, Open, Gone, Created
  <2>3. SoundVerdict(s) /\ ~s.tornDown /\ ~s.settled
    BY <2>2 DEF VerdictIInv, Connecting
  <2>4. CASE s.subscribers = {c}
    <3>1. attempt' = [attempt EXCEPT ![a] = FailedInflight(s)] /\ call' = Settle({c}, "closed")
      BY <2>1, <2>2, <2>3, <2>4 DEF FailInflight
    <3>2. FailedInflight(s).tornDown /\ Created' = Created
      BY <1>2, <2>2, TornDownField DEF Created
    <3>3. /\ \A b \in Attempts : attempt[b].tornDown => attempt'[b] = attempt[b]
          /\ \A b \in Created' : attempt'[b].tornDown \/ SoundVerdict(attempt'[b])
      BY <2>3, <3>1, <3>2, RecordVerdict
    <3>4. \A d \in Callers : call'[d] = IF d = c /\ call[d] = "pending" THEN "closed" ELSE call[d]
      BY <3>1 DEF Settle
    <3> QED BY <1>2, <3>3, <3>4 DEF CallResult
  <2>5. CASE s.subscribers # {c}
    <3> DEFINE r == [s EXCEPT !.subscribers = @ \ {c}]
    <3>1. /\ attempt' = [attempt EXCEPT ![a] = r]
          /\ call' = [call EXCEPT ![c] = "closed"]
      BY <2>1, <2>5
    <3>2. SoundVerdict(r) /\ Created' = Created
      BY <1>2, <2>2, <2>3 DEF AttemptRecords, SoundVerdict, Created
    <3>3. /\ \A b \in Attempts : attempt[b].tornDown => attempt'[b] = attempt[b]
          /\ \A b \in Created' : attempt'[b].tornDown \/ SoundVerdict(attempt'[b])
      BY <2>3, <3>1, <3>2, RecordVerdict
    <3>4. \A d \in Callers : call'[d] = IF d = c THEN "closed" ELSE call[d]
      BY <1>1, <3>1
    <3> QED BY <1>2, <3>3, <3>4 DEF CallResult
  <2> QED BY <2>4, <2>5
<1> QED BY <1>3, <1>4

LEMMA DisconnectResult ==
  ASSUME VerdictIInv, NEW d \in Disconnects, Disconnect(d)
  PROVE  CallResult
<1>1. IInv /\ nextId' = nextId
  BY DEF VerdictIInv, Disconnect
<1>2. disc' # disc
  BY <1>1 DEF IInv, TypeOK, Disconnect
<1>3. \A c \in Callers : call[c] = "pending" => call'[c] \in {"pending", "closed"}
  BY DEF Disconnect, Settle
<1>4. \A a \in Attempts :
        attempt'[a] = IF a \notin Owned THEN attempt[a]
                      ELSE IF inflight = a THEN FailedInflight(attempt[a])
                                           ELSE TornDown(attempt[a])
  BY DEF Disconnect
<1>5. \A a \in Owned : ~attempt[a].tornDown
  <2> SUFFICES ASSUME NEW a \in Owned PROVE ~attempt[a].tornDown
    OBVIOUS
  <2>1. a \in Attempts /\ (inflight = a \/ active = a)
    BY DEF Owned
  <2>2. Situation(a)
    BY <1>1, <2>1 DEF IInv
  <2> QED BY <2>1, <2>2 DEF Situation, Connecting, Open
<1>6. \A a \in Attempts : attempt[a].tornDown => attempt'[a] = attempt[a]
  BY <1>4, <1>5
<1>7. \A a \in Created' : attempt'[a].tornDown \/ SoundVerdict(attempt'[a])
  <2> SUFFICES ASSUME NEW a \in Created
               PROVE  attempt'[a].tornDown \/ SoundVerdict(attempt'[a])
    BY <1>1 DEF Created
  <2>1. a \in Attempts /\ attempt[a] \in AttemptRecords
    BY <1>1, CreatedFacts
  <2>2. TornDown(attempt[a]).tornDown /\ FailedInflight(attempt[a]).tornDown
    BY <2>1, TornDownField
  <2> QED BY <1>4, <2>1, <2>2 DEF VerdictIInv
<1> QED BY <1>2, <1>3, <1>6, <1>7 DEF CallResult

\* Whatever a step is, it is an event of the transport or a call.
LEMMA StepResult ==
  ASSUME VerdictIInv, [Next]_sessionVars
  PROVE  CallResult \/ \E a \in Created : Moves(a) /\ UNCHANGED untouched
<1>1. CASE \E c \in Callers : Connect(c) \/ Abort(c)
  BY <1>1, ConnectResult, AbortResult
<1>2. CASE \E d \in Disconnects : Disconnect(d)
  BY <1>2, DisconnectResult
<1>3. CASE UNCHANGED <<nextId, attempt, call>>
  BY <1>3 DEF CallResult, VerdictIInv, Created
<1>4. CASE \E a \in Created : Transport(a)
  <2>1. PICK a \in Created : Transport(a)
    BY <1>4
  <2>2. UNCHANGED untouched
    BY <2>1 DEF Transport, HostKeyRejected, ClientReady, ShellCallback, ShellTimeout,
                ChannelGone, ClientError, ClientClose, EndTimer, DeadlinePasses,
                ReadySettles, ReadyResult, ShellDead
  <2> QED BY <2>1, <2>2, TransportResult
<1> QED BY <1>1, <1>2, <1>3, <1>4 DEF Next, DisconnectReturns, sessionVars

LEMMA VerdictStep ==
  ASSUME VerdictIInv, [Next]_sessionVars
  PROVE  VerdictIInv'
<1>1. IInv'
  BY InvariantStep DEF VerdictIInv
<1>2. CASE CallResult
  BY <1>1, <1>2 DEF VerdictIInv, CallResult
<1>3. CASE \E a \in Created : Moves(a) /\ UNCHANGED untouched
  <2>1. PICK a \in Created : Moves(a) /\ UNCHANGED untouched
    BY <1>3
  <2>2. Created' = Created /\ Created \subseteq Attempts
    BY <2>1, CreatedFacts DEF Created, untouched, VerdictIInv
  <2>3. OnlyAttempt(a) /\ (attempt'[a].tornDown \/ SoundVerdict(attempt'[a]))
    BY <2>1 DEF Moves, Kept, Fails, Establishes, Drops
  <2> QED BY <1>1, <2>2, <2>3 DEF VerdictIInv, OnlyAttempt
<1> QED BY <1>2, <1>3, StepResult

\* Every reachable state satisfies the inductive invariant of these proofs.
THEOREM VerdictInvariance == Spec => []VerdictIInv
<1>1. Init => VerdictIInv
  BY InvariantInit DEF VerdictIInv, Init, Created
<1> QED BY <1>1, VerdictStep, PTL DEF Spec

-----------------------------------------------------------------------------
(* What no step may do.                                                    *)

\* For any number of attempts: what is left of one that was torn down (its
\* close event, a late shell() callback, the continuation of its ready wait)
\* changes its own record only, and attaches nothing to it again.
THEOREM LeftoversAreHarmless == Spec => StaleIsHarmless
<1>1. VerdictIInv /\ [Next]_sessionVars =>
        [\A a \in Attempts :
           attempt[a].tornDown /\ attempt'[a] # attempt[a] =>
             /\ attempt'[a].tornDown /\ ~attempt'[a].attached
             /\ UNCHANGED <<inflight, active, call>>]_sessionVars
  <2> SUFFICES ASSUME VerdictIInv, [Next]_sessionVars,
                      NEW a \in Attempts, attempt[a].tornDown, attempt'[a] # attempt[a]
               PROVE  /\ attempt'[a].tornDown /\ ~attempt'[a].attached
                      /\ UNCHANGED <<inflight, active, call>>
    OBVIOUS
  <2>1. PICK b \in Created : Moves(b) /\ UNCHANGED untouched
    BY StepResult DEF CallResult
  <2>2. a = b
    BY <2>1 DEF Moves, Kept, Fails, Establishes, Drops, OnlyAttempt
  <2>3. Gone(attempt[a]) /\ a # inflight /\ a # active
    BY <2>1, <2>2, CreatedFacts DEF VerdictIInv, Connecting, Open
  <2>4. Kept(a)
    BY <2>1, <2>2, <2>3 DEF Moves, Fails, Establishes, Drops
  <2>5. IInv' /\ a \in Created'
    BY <2>1, <2>2, InvariantStep DEF VerdictIInv, Created, untouched
  <2>6. attempt'[a].tornDown
    BY <2>3, <2>4 DEF Kept, Gone
  <2>7. Situation(a)' /\ attempt[a] # CreatedAttempt
    BY <2>3, <2>5 DEF IInv, Gone, CreatedAttempt
  <2>8. ~attempt'[a].attached
    BY <2>6, <2>7 DEF Situation, Connecting, Open, Gone, CreatedAttempt
  <2> QED BY <2>4, <2>6, <2>8 DEF Kept
<1> QED BY <1>1, VerdictInvariance, PTL DEF Spec, StaleIsHarmless

\* Who waits is answered `closed' because its own signal fired or because a
\* disconnect() was called, never for what another caller or the transport did.
THEOREM ClosedIsAskedFor == Spec => ClosedWasAskedFor
<1>1. VerdictIInv /\ [Next]_sessionVars =>
        [\A c \in Callers :
           call[c] = "pending" /\ call'[c] = "closed" =>
             c \in aborted' \ aborted \/ disc' # disc]_sessionVars
  <2> SUFFICES ASSUME VerdictIInv, [Next]_sessionVars,
                      NEW c \in Callers, call[c] = "pending", call'[c] = "closed"
               PROVE  c \in aborted' \ aborted \/ disc' # disc
    OBVIOUS
  <2>1. ASSUME NEW b \in Created, Moves(b) PROVE FALSE
    BY <2>1 DEF Moves, Kept, Fails, Establishes, Drops, Settle, Justified
  <2> QED BY <2>1, StepResult DEF CallResult
<1> QED BY <1>1, VerdictInvariance, PTL DEF Spec, ClosedWasAskedFor

\* Who waits for an attempt whose verifier refused the host key is told so,
\* never that the session is open or the password wrong; and only they are.
THEOREM VerdictIsTheAttempts == Spec => HostKeyVerdict
<1>1. VerdictIInv /\ [Next]_sessionVars =>
        [\A c \in Callers :
           call[c] = "pending" /\ call'[c] \in {"hostkey", "auth", "ok"} =>
             ((call'[c] = "hostkey") <=> attempt[inflight].hostKeyRejected)]_sessionVars
  <2> SUFFICES ASSUME VerdictIInv, [Next]_sessionVars, NEW c \in Callers,
                      call[c] = "pending", call'[c] \in {"hostkey", "auth", "ok"}
               PROVE  (call'[c] = "hostkey") <=> attempt[inflight].hostKeyRejected
    OBVIOUS
  <2>1. ~CallResult
    BY DEF CallResult
  <2>2. PICK b \in Created : Moves(b)
    BY <2>1, StepResult
  <2>3. inflight = b /\ (Establishes(b) \/ \E code : Justified(b, code) /\ Fails(b, code))
    BY <2>2 DEF Moves, Kept, Drops, Fails, Establishes
  <2>4. CASE Establishes(b)
    <3>1. call'[c] = "ok" /\ ~attempt[b].hostKeyRejected
      BY <2>4 DEF Establishes, Settle
    <3> QED BY <2>3, <3>1
  <2>5. CASE \E code : Justified(b, code) /\ Fails(b, code)
    <3>1. PICK code : Justified(b, code) /\ Fails(b, code)
      BY <2>5
    <3>2. call'[c] = code
      BY <3>1 DEF Fails, Settle
    <3> QED BY <2>3, <3>1, <3>2 DEF Justified, ErrorCodes
  <2> QED BY <2>3, <2>4, <2>5
<1> QED BY <1>1, VerdictInvariance, PTL DEF Spec, HostKeyVerdict

-----------------------------------------------------------------------------
(* Every step of the session is a step of the shared connection or none,   *)
(* for any number of callers, disconnects and attempts.                    *)

\* Nothing the shared connection shows has changed.
Hidden == UNCHANGED <<connectionState, call>>

Simulated == Abstract!ConnectionNext \/ Hidden

\* The callers who wait are the subscribers of the attempt in flight.
LEMMA SubscribersWait ==
  ASSUME IInv, inflight # NoAttempt
  PROVE  /\ inflight \in Attempts /\ inflight \in Created
         /\ Connecting(attempt[inflight])
         /\ Abstract!Waiting = attempt[inflight].subscribers
         /\ \A outcome : Settle(attempt[inflight].subscribers, outcome) =
                           Abstract!AnswerAll(outcome)
         /\ connectionState = "connecting" /\ active = NoAttempt
<1>1. inflight \in Attempts /\ active = NoAttempt /\ attempt[inflight] \in AttemptRecords
  BY DEF IInv, TypeOK
<1>2. Situation(inflight)
  BY <1>1 DEF IInv
<1>3. inflight <= nextId /\ Connecting(attempt[inflight])
  BY <1>1, <1>2 DEF Situation
<1>4. attempt[inflight].subscribers \subseteq Callers
  BY <1>1 DEF AttemptRecords
<1>5. \A c \in Callers : call[c] = "pending" <=> c \in attempt[inflight].subscribers
  BY DEF IInv, NoLostCaller
<1>6. Abstract!Waiting = attempt[inflight].subscribers
  BY <1>4, <1>5 DEF Abstract!Waiting
<1>7. inflight \in Created
  BY <1>1, <1>3 DEF Created, Attempts
<1>8. ASSUME NEW outcome
      PROVE  Settle(attempt[inflight].subscribers, outcome) = Abstract!AnswerAll(outcome)
  BY <1>5, <1>6 DEF Settle, Abstract!AnswerAll
<1> QED BY <1>1, <1>3, <1>6, <1>7, <1>8 DEF connectionState

\* The connection is open when the session is.
LEMMA OpenIsOpen ==
  ASSUME IInv
  PROVE  IsOpen <=> active # NoAttempt
BY DEF IInv, TypeOK, Situation, Open, IsOpen

-----------------------------------------------------------------------------
(* The events of the transport.                                            *)

\* The attempt in flight fails, whoever or whatever made it fail.
LEMMA CollapseSimulated ==
  ASSUME IInv, NEW a, inflight = a, a # NoAttempt, inflight' = NoAttempt, active' = NoAttempt,
         NEW code \in ErrorCodes, call' = Settle(attempt[a].subscribers, code)
  PROVE  Abstract!Collapse(code)
BY SubscribersWait DEF Abstract!Collapse, connectionState

LEMMA DropSimulated ==
  ASSUME IInv, active # NoAttempt, active' = NoAttempt, inflight' = NoAttempt, call' = call
  PROVE  Abstract!Drop
BY DEF Abstract!Drop, connectionState

LEMMA MovesSimulated ==
  ASSUME IInv, NEW a \in Created, Moves(a)
  PROVE  Simulated
<1>1. a # NoAttempt
  BY CreatedFacts
<1>2. CASE Kept(a)
  BY <1>2 DEF Kept, Simulated, Hidden, connectionState
<1>3. CASE \E code : Justified(a, code) /\ Fails(a, code)
  <2>1. PICK code \in ErrorCodes : Fails(a, code)
    BY <1>3 DEF Justified
  <2>2. Abstract!Collapse(code)
    BY <1>1, <2>1, CollapseSimulated DEF Fails
  <2> QED BY <2>2 DEF Simulated, Abstract!ConnectionNext
<1>4. CASE Establishes(a)
  <2>1. Abstract!Establish
    BY <1>1, <1>4, SubscribersWait DEF Establishes, Abstract!Establish, connectionState
  <2> QED BY <2>1 DEF Simulated, Abstract!ConnectionNext
<1>5. CASE Drops(a)
  <2>1. inflight = NoAttempt
    BY <1>1, <1>5 DEF Drops, IInv
  <2>2. Abstract!Drop
    BY <1>1, <1>5, <2>1, DropSimulated DEF Drops
  <2> QED BY <2>2 DEF Simulated, Abstract!ConnectionNext
<1> QED BY <1>2, <1>3, <1>4, <1>5 DEF Moves

-----------------------------------------------------------------------------
(* The calls of the API.                                                   *)

LEMMA ConnectSimulated ==
  ASSUME IInv, NEW c \in Callers, Connect(c)
  PROVE  Simulated
<1>1. call[c] = "idle"
  BY DEF Connect, ConnectOpen, ConnectJoin, ConnectAborted, ConnectNew
<1>2. CASE ConnectOpen(c)
  <2>1. connectionState = "open" /\ connectionState' = connectionState
    BY <1>2 DEF ConnectOpen, IsOpen, connectionState
  <2>2. Abstract!Request(c)
    BY <1>1, <1>2, <2>1 DEF ConnectOpen, Abstract!Request
  <2> QED BY <2>2 DEF Simulated, Abstract!ConnectionNext
<1>3. CASE ConnectJoin(c)
  <2>1. connectionState = "connecting" /\ connectionState' = connectionState
    BY <1>3, SubscribersWait DEF ConnectJoin, connectionState
  <2>2. ~attempt[inflight].settled
    BY <1>3, SubscribersWait DEF ConnectJoin, Connecting
  <2>3. CASE c \in aborted
    <3>1. Abstract!Refuse(c)
      BY <1>1, <1>3, <2>1, <2>3 DEF ConnectJoin, Abstract!Refuse
    <3> QED BY <3>1 DEF Simulated, Abstract!ConnectionNext
  <2>4. CASE c \notin aborted
    <3>1. call' = [call EXCEPT ![c] = "pending"]
      BY <1>3, <2>2, <2>4 DEF ConnectJoin
    <3>2. Abstract!Request(c)
      BY <1>1, <2>1, <3>1 DEF Abstract!Request
    <3> QED BY <3>2 DEF Simulated, Abstract!ConnectionNext
  <2> QED BY <2>3, <2>4
<1>4. CASE ConnectAborted(c)
  <2>1. Abstract!Refuse(c)
    BY <1>1, <1>4 DEF ConnectAborted, Abstract!Refuse, connectionState
  <2> QED BY <2>1 DEF Simulated, Abstract!ConnectionNext
<1>5. CASE ConnectNew(c)
  <2>1. active = NoAttempt /\ inflight = NoAttempt
    BY <1>5, OpenIsOpen DEF ConnectNew
  <2>2. inflight' # NoAttempt /\ active' = NoAttempt
    BY <1>5, <2>1, NewAttemptFacts DEF ConnectNew
  <2>3. connectionState = "closed" /\ connectionState' = "connecting"
    BY <2>1, <2>2 DEF connectionState
  <2>4. Abstract!Request(c)
    BY <1>1, <1>5, <2>3 DEF ConnectNew, Abstract!Request
  <2> QED BY <2>4 DEF Simulated, Abstract!ConnectionNext
<1> QED BY <1>2, <1>3, <1>4, <1>5 DEF Connect

LEMMA AbortSimulated ==
  ASSUME IInv, NEW c \in Callers, Abort(c)
  PROVE  Simulated
<1>1. CASE \A a \in Attempts : c \notin attempt[a].subscribers
  BY <1>1 DEF Abort, SubscriberAbort, Simulated, Hidden, connectionState
<1>2. CASE ~(\A a \in Attempts : c \notin attempt[a].subscribers)
  <2>1. PICK a \in Attempts :
          /\ c \in attempt[a].subscribers
          /\ IF attempt[a].subscribers = {c}
               THEN FailInflight(a, attempt[a], "closed")
               ELSE /\ attempt' = [attempt EXCEPT ![a].subscribers = @ \ {c}]
                    /\ call' = [call EXCEPT ![c] = "closed"]
                    /\ UNCHANGED <<inflight, active>>
    BY <1>2 DEF Abort, SubscriberAbort
  <2>2. a = inflight /\ a # NoAttempt
    <3>1. Situation(a) /\ a # NoAttempt
      BY DEF IInv, Attempts, NoAttempt
    <3> QED BY <2>1, <3>1 DEF Situation, CreatedAttempt, Open, Gone
  <2>3. /\ Abstract!Waiting = attempt[a].subscribers /\ connectionState = "connecting"
        /\ active = NoAttempt /\ ~attempt[a].settled
    BY <2>2, SubscribersWait DEF Connecting
  <2>4. Abstract!Leave(c)
    <3>1. CASE attempt[a].subscribers = {c}
      <4>1. inflight' = NoAttempt /\ active' = NoAttempt /\ call' = Settle({c}, "closed")
        BY <2>1, <2>2, <2>3, <3>1 DEF FailInflight, Without
      <4>2. call[c] = "pending"
        BY <2>1, <2>3 DEF Abstract!Waiting
      <4>3. call' = [call EXCEPT ![c] = "closed"]
        BY <4>1, <4>2 DEF Settle, IInv, TypeOK
      <4> QED BY <2>1, <2>3, <3>1, <4>1, <4>3 DEF Abstract!Leave, connectionState
    <3>2. CASE attempt[a].subscribers # {c}
      BY <2>1, <2>3, <3>2 DEF Abstract!Leave, connectionState
    <3> QED BY <3>1, <3>2
  <2> QED BY <2>4 DEF Simulated, Abstract!ConnectionNext
<1> QED BY <1>1, <1>2

LEMMA DisconnectSimulated ==
  ASSUME IInv, NEW d \in Disconnects, Disconnect(d)
  PROVE  Simulated
<1>1. /\ inflight' = IF inflight \in Owned THEN NoAttempt ELSE inflight
      /\ active' = IF active \in Owned THEN NoAttempt ELSE active
      /\ call' = Settle(UNION {attempt[a].subscribers : a \in Owned}, "closed")
  BY DEF Disconnect
<1>2. CASE inflight = NoAttempt /\ active = NoAttempt
  <2>1. Owned = {}
    BY <1>2 DEF Owned, Attempts, NoAttempt
  <2>2. call' = call
    BY <1>1, <2>1 DEF Settle, IInv, TypeOK
  <2> QED BY <1>1, <1>2, <2>2 DEF Simulated, Hidden, connectionState
<1>3. CASE inflight # NoAttempt
  <2>1. /\ inflight \in Attempts /\ active = NoAttempt /\ Connecting(attempt[inflight])
    BY <1>3, SubscribersWait
  <2>2. Owned = {inflight}
    BY <2>1 DEF Owned, Connecting, Attempts, NoAttempt
  <2>3. /\ inflight' = NoAttempt /\ active' = NoAttempt
        /\ call' = Settle(attempt[inflight].subscribers, "closed")
    BY <1>1, <2>1, <2>2
  <2>4. Abstract!Collapse("closed")
    BY <1>3, <2>3, CollapseSimulated DEF ErrorCodes
  <2> QED BY <2>4 DEF Simulated, Abstract!ConnectionNext, ErrorCodes
<1>4. CASE active # NoAttempt
  <2>1. /\ active \in Attempts /\ inflight = NoAttempt /\ Open(attempt[active])
    BY <1>4 DEF IInv, TypeOK, Situation
  <2>2. Owned = {active}
    BY <1>4, <2>1 DEF Owned, Open, Attempts, NoAttempt
  <2>3. inflight' = NoAttempt /\ active' = NoAttempt
    BY <1>1, <2>1, <2>2
  <2>4. call' = call
    <3>1. UNION {attempt[a].subscribers : a \in Owned} = {}
      BY <2>1, <2>2 DEF Open
    <3> QED BY <1>1, <3>1 DEF Settle, IInv, TypeOK
  <2>5. Abstract!Drop
    BY <1>4, <2>3, <2>4, DropSimulated
  <2> QED BY <2>5 DEF Simulated, Abstract!ConnectionNext
<1> QED BY <1>2, <1>3, <1>4

-----------------------------------------------------------------------------

LEMMA InitSimulated == Init => Abstract!ConnectionInit
BY DEF Init, Abstract!ConnectionInit, connectionState

LEMMA StepSimulated ==
  VerdictIInv /\ [Next]_sessionVars => [Abstract!ConnectionNext]_(Abstract!connectionVars)
<1> SUFFICES ASSUME VerdictIInv, [Next]_sessionVars PROVE Simulated
  BY DEF Simulated, Hidden, Abstract!connectionVars
<1>1. CASE \E c \in Callers : Connect(c) \/ Abort(c)
  BY <1>1, ConnectSimulated, AbortSimulated DEF VerdictIInv
<1>2. CASE \E d \in Disconnects : Disconnect(d)
  BY <1>2, DisconnectSimulated DEF VerdictIInv
<1>3. CASE UNCHANGED <<inflight, active, call>>
  BY <1>3 DEF Simulated, Hidden, connectionState
<1>4. CASE \E a \in Created : Transport(a)
  BY <1>4, TransportResult, MovesSimulated DEF VerdictIInv
<1> QED BY <1>1, <1>2, <1>3, <1>4 DEF Next, DisconnectReturns, sessionVars

\* The session is what its callers take it for, one connection they share:
\* who waits together is answered together and alike, who leaves leaves
\* alone, nobody is told `ok' unless the connection opens, and a request on
\* an open one is granted (session.ts, connect to failInflight).
THEOREM SessionImplementsConnection == Spec => ImplementsConnection
BY InitSimulated, StepSimulated, VerdictInvariance, PTL
   DEF Spec, ImplementsConnection, Abstract!ConnectionSpec
=============================================================================
