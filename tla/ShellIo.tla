------------------------------ MODULE ShellIo ------------------------------
(***************************************************************************)
(* shell-io.ts: ShellIo, with the PagerState of its waiter.  One waiter at *)
(* a time owns the stream: the ready wait, a command, or the resync that   *)
(* follows a command that timed out or was aborted.  The peer is free: any *)
(* chunk may arrive at any time.                                           *)
(*                                                                         *)
(* A write to the stream may throw, and the stream may deliver data before *)
(* write() returns.  So a handler ends at its write: the rest of it is a   *)
(* frame on `stack', and only data may come before the frame is popped.    *)
(* When the stack is empty the job is over; promise continuations then run *)
(* before the next timer or event.                                         *)
(*                                                                         *)
(* The accumulator is reduced to its current line.  A chunk that takes     *)
(* byteLength past the cap is the action Overflow.  lastPrompt and the     *)
(* number of markers handled matter to cleanOutput alone.                  *)
(***************************************************************************)
EXTENDS Lines, FiniteSets

CONSTANTS
  Commands,         \* calls of runCommand
  Regex,            \* see IsPromptLine
  Chunks,           \* what a chunk may be: [newLine, text]
  MaxPages,         \* maxPages of the commands
  MaxPromptLength,  \* in pieces
  MaxLine,          \* bound: pieces on the longest line
  MaxDepth          \* bound: replies delivered inside one another's write()

ASSUME ShellIoAssumption ==
  /\ {"none", "ready"} \cap Commands = {}
  /\ {"timeout", "idle", "settle", "poke"} \cap Commands = {}
  /\ MaxPages \in Nat \ {0}
  /\ MaxPromptLength \in Nat \ {0}
  /\ MaxLine \in Nat
  /\ MaxDepth \in Nat
  /\ \A c \in Chunks : c.newLine \in BOOLEAN /\ c.text \in Seq(Pieces)

Ready == "ready"
Calls == Commands \cup {Ready}
Outcomes == {"ok", "closed", "invalid", "timeout", "limit"}
Keys == {"command", "cr", "space", "quit", "interrupt", "kill"}

VARIABLES
  waiter,        \* the waiter in place
  generation,    \* of the latest waiter
  timers,        \* <<kind, generation>>: armed; <<c, generation>>: listening to c's signal
  stack,         \* the writes that have not returned
  line,          \* accumulator.currentLine()
  calls,         \* the promise of each call
  resync,        \* performResync: the step under way and what its wait came to
  identity,      \* promptIdentity
  aborted,       \* the commands whose signal has fired
  detached, deadNotified, resyncFailed,
  typed,         \* history: keys written during this wait, 2 standing for more
  scrolled       \* history: pager keys written for the latest marker on the line

shellVars == <<waiter, generation, timers, stack, line, calls, resync, identity,
               aborted, detached, deadNotified, resyncFailed, typed, scrolled>>

\* `sameLine': answeredEpoch = lineEpoch.
Waiters ==
  [mode : {"none", "ready", "command", "resync"}, call : Calls \cup {"none"},
   gen : Nat, pages : 0 .. MaxPages, answeredTail : Seq(Pieces) \cup {NoLine},
   sameLine : BOOLEAN, quitSent : BOOLEAN, confirming : BOOLEAN,
   candidate : Seq(Pieces) \cup {NoLine}, killSent : BOOLEAN]

NewWaiter(mode, call, g) ==
  [mode |-> mode, call |-> call, gen |-> g, pages |-> 0, answeredTail |-> NoLine,
   sameLine |-> FALSE, quitSent |-> FALSE, confirming |-> FALSE,
   candidate |-> NoLine, killSent |-> FALSE]

NoWaiter == NewWaiter("none", "none", 0)
NoResync == [step |-> "none", outcome |-> "none"]
NothingTyped == [k \in Keys |-> 0]

ShellInit ==
  /\ waiter = NoWaiter
  /\ generation = 0
  /\ timers = {}
  /\ stack = <<>>
  /\ line = <<>>
  /\ calls = [c \in Calls |-> "idle"]
  /\ resync = NoResync
  /\ identity = NoLine
  /\ aborted = {}
  /\ detached = FALSE
  /\ deadNotified = FALSE
  /\ resyncFailed = FALSE
  /\ typed = NothingTyped
  /\ scrolled = 0

-----------------------------------------------------------------------------
(* When things may run.                                                    *)

\* onDead is the session's (session.ts:307): it detaches the shell at once.
OwnerHasActed == deadNotified => detached

JobIsOver == stack = <<>> /\ OwnerHasActed

\* No promise continuation is waiting: a timer or an event may come.
TurnIsOver ==
  /\ JobIsOver
  /\ resync.outcome \in {"none", "pending"}
  /\ \A c \in Commands : calls[c] # "resuming"

-----------------------------------------------------------------------------
(* The waiter: beginWait, finishWaiter, clearTimers.                       *)

HasWaiter == waiter.mode # "none"

IsPrompt(l, mode) ==
  /\ Len(l) <= MaxPromptLength
  /\ IF mode = "ready" /\ Regex = {}
       THEN LooksLikeReadyPrompt(l)
       ELSE IsPromptLine(l, identity, Regex)

\* A prompt, or for a resync any line that is still to be killed.
MaySettle(w, l) ==
  \/ IsPrompt(l, w.mode)
  \/ w.mode = "resync" /\ l # <<>> /\ ~w.killSent

\* The settle timer after evaluateWaiter has seen line l.
SettleTimer(w, l) ==
  IF MaySettle(w, l) THEN timers \cup {<<"settle", w.gen>>}
  ELSE timers \ {<<"settle", w.gen>>}

\* The timers and the listener of a new waiter w.  Its microtask, before any
\* event, evaluates the line l that it finds: the empty one, but for a resync
\* that goes on, and promptRegex may match that too.
Begun(w, l) ==
  {<<"timeout", w.gen>>} \cup
  (IF w.mode = "ready" THEN {<<"poke", w.gen>>}
   ELSE IF w.mode = "command" THEN {<<"idle", w.gen>>, <<w.call, w.gen>>} ELSE {}) \cup
  (IF MaySettle(w, l) THEN {<<"settle", w.gen>>} ELSE {})

\* Seeded fault: the signal's listener stays.
Cleared_KeepsListener(g) ==
  {t \in timers : t[2] # g \/ t[1] \in Commands}

Cleared(g) == {t \in timers : t[2] # g}

\* The waiter w is done; its promise is settled.
Finish(w, outcome) ==
  /\ waiter' = NoWaiter
  /\ timers' = Cleared(w.gen)
  /\ IF w.mode = "resync"
       THEN resync' = [resync EXCEPT !.outcome = outcome] /\ calls' = calls
       ELSE calls' = [calls EXCEPT ![w.call] = outcome] /\ resync' = resync
  /\ UNCHANGED generation

\* failWaiter without a resync.
FailWaiter(outcome) ==
  IF HasWaiter THEN Finish(waiter, outcome)
  ELSE UNCHANGED <<waiter, timers, calls, resync, generation>>

\* die(): onDead, once, and not after detach.
Die == deadNotified' = (deadNotified \/ ~detached)

Count(n) == IF n = 0 THEN 1 ELSE 2

\* stream.write(key).  `paging' tells the pager's keys; `gen' and `before'
\* are what the handler compares when the write has returned.
Write(alreadyTyped, key, paging, gen, before) ==
  /\ stack' = Append(stack, [key |-> key, paging |-> paging, gen |-> gen, before |-> before])
  /\ typed' = [alreadyTyped EXCEPT ![key] = Count(@)]

PagerTail(l) == LastPieces(l, MaxPromptLength)

\* resync() up to its first await; w is the command that failed.
BeginResync(w, outcome) ==
  LET g    == generation + 1
      quit == (w.pages > 0 \/ w.quitSent) /\ MarkerOnTail(PagerTail(line))
      key  == IF quit THEN "quit" ELSE "interrupt"
      next == NewWaiter("resync", "none", g)
  IN /\ calls' = [calls EXCEPT ![w.call] = outcome]
     /\ resync' = [step |-> key, outcome |-> "pending"]
     /\ generation' = g
     /\ waiter' = next
     /\ timers' = Cleared(w.gen) \cup Begun(next, <<>>)
     /\ line' = <<>>
     /\ scrolled' = 0
     /\ Write(NothingTyped, key, FALSE, g, NoLine)

\* Seeded fault: the shell is not resynchronised.
FailAndResync_Skipped(outcome) ==
  Finish(waiter, outcome) /\ UNCHANGED <<line, stack, typed, scrolled>>

\* failWaiter(err, true) of a command.
FailAndResync(outcome) ==
  IF resync.step = "none" /\ ~detached /\ ~resyncFailed
    THEN BeginResync(waiter, outcome)
    ELSE /\ Finish(waiter, outcome)
         /\ UNCHANGED <<line, stack, typed, scrolled>>

-----------------------------------------------------------------------------
(* waitForReady and runCommand.                                            *)

\* Called once, by the session, before any command.
WaitForReady ==
  LET g == generation + 1
      w == NewWaiter("ready", Ready, g)
  IN /\ JobIsOver
     /\ calls[Ready] = "idle"
     /\ ~detached
     /\ calls' = [calls EXCEPT ![Ready] = "running"]
     /\ generation' = g
     /\ waiter' = w
     /\ timers' = timers \cup Begun(w, line)
     /\ typed' = NothingTyped
     /\ UNCHANGED <<stack, line, resync, identity, aborted, detached, deadNotified,
                    resyncFailed, scrolled>>

StartCommand(c) ==
  LET g == generation + 1
      w == NewWaiter("command", c, g)
  IN /\ calls' = [calls EXCEPT ![c] = "running"]
     /\ generation' = g
     /\ waiter' = w
     /\ timers' = timers \cup Begun(w, <<>>)
     /\ line' = <<>>
     /\ scrolled' = 0
     /\ Write(NothingTyped, "command", FALSE, g, NoLine)

RejectCall(c, outcome) ==
  /\ calls' = [calls EXCEPT ![c] = outcome]
  /\ UNCHANGED <<waiter, generation, timers, stack, line, typed, scrolled>>

\* Seeded fault: a resync under way is not awaited.
RunCommand_NoAwait(c) ==
  /\ JobIsOver
  /\ calls[Ready] = "ok"
  /\ calls[c] = "idle"
  /\ IF c \in aborted \/ resyncFailed \/ detached THEN RejectCall(c, "closed")
     ELSE IF HasWaiter /\ resync.step = "none" THEN RejectCall(c, "invalid")
     ELSE StartCommand(c)
  /\ UNCHANGED <<resync, identity, aborted, detached, deadNotified, resyncFailed>>

\* The session hands out the shell once it is ready.
RunCommand(c) ==
  /\ JobIsOver
  /\ calls[Ready] = "ok"
  /\ calls[c] = "idle"
  /\ IF c \in aborted \/ resyncFailed \/ detached THEN RejectCall(c, "closed")
     ELSE IF resync.step # "none" THEN RejectCall(c, "awaiting")
     ELSE IF HasWaiter THEN RejectCall(c, "invalid")
     ELSE StartCommand(c)
  /\ UNCHANGED <<resync, identity, aborted, detached, deadNotified, resyncFailed>>

\* `await this.resyncing' has returned, or thrown.
Resume(c) ==
  /\ JobIsOver
  /\ calls[c] = "resuming"
  /\ IF c \in aborted \/ resyncFailed \/ detached THEN RejectCall(c, "closed")
     ELSE IF HasWaiter THEN RejectCall(c, "invalid")
     ELSE StartCommand(c)
  /\ UNCHANGED <<resync, identity, aborted, detached, deadNotified, resyncFailed>>

\* The signal of c fires; onAbort fails whatever waiter is in place.  The
\* client's queue calls runCommand for one command at a time: no other is
\* about to go on while c runs.
Abort(c) ==
  /\ JobIsOver
  /\ calls[c] = "running" => \A d \in Commands : calls[d] # "resuming"
  /\ c \notin aborted
  /\ aborted' = aborted \cup {c}
  /\ IF HasWaiter /\ \E t \in timers : t[1] = c
       THEN IF waiter.mode = "command" THEN FailAndResync("closed")
            ELSE Finish(waiter, "closed") /\ UNCHANGED <<line, stack, typed, scrolled>>
       ELSE UNCHANGED <<waiter, generation, timers, stack, line, calls, resync, typed, scrolled>>
  /\ UNCHANGED <<identity, detached, deadNotified, resyncFailed>>

-----------------------------------------------------------------------------
(* Data: onData, evaluateWaiter, pageTail and handlePagerTail.             *)

NoWrite == UNCHANGED <<stack, typed>>

\* Seeded fault: the line is not compared.
AlreadyAnswered_OnAnyLine(w, tail) == IsPrefix(w.answeredTail, tail)

\* Seeded fault: a tail that extends the answered one is another marker.
AlreadyAnswered_SameTailOnly(w, tail) == w.sameLine /\ tail = w.answeredTail

\* The same marker still arriving.
AlreadyAnswered(w, tail) == w.sameLine /\ IsPrefix(w.answeredTail, tail)

\* Seeded fault: one page too many.
AnswerPager_ExtraPage(w, l, seen) ==
  /\ waiter' = [w EXCEPT !.answeredTail = PagerTail(l), !.sameLine = TRUE,
                         !.pages = IF @ <= MaxPages THEN @ + 1 ELSE @]
  /\ Write(typed, IF w.pages <= MaxPages THEN "space" ELSE "quit", TRUE, w.gen, PagerTail(l))
  /\ timers' = timers
  /\ scrolled' = Count(seen)

\* handlePagerTail, up to its write; `seen' is scrolled before it.
AnswerPager(w, l, seen) ==
  LET tail     == PagerTail(l)
      answered == [w EXCEPT !.answeredTail = tail, !.sameLine = TRUE]
  IN /\ IF w.pages < MaxPages
          THEN /\ waiter' = [answered EXCEPT !.pages = @ + 1]
               /\ Write(typed, "space", TRUE, w.gen, tail)
               /\ timers' = timers
               /\ scrolled' = Count(seen)
        ELSE IF ~w.quitSent
          THEN /\ waiter' = answered
               /\ Write(typed, "quit", TRUE, w.gen, tail)
               /\ timers' = timers
               /\ scrolled' = Count(seen)
        ELSE /\ waiter' = answered
             /\ timers' = timers \ {<<"settle", w.gen>>}
             /\ scrolled' = seen
             /\ NoWrite

EvaluateWaiter(w, l, seen) ==
  LET tail == PagerTail(l)
      paged == IF w.sameLine THEN w ELSE [w EXCEPT !.answeredTail = NoLine, !.sameLine = TRUE]
  IN IF w.mode = "command" /\ MarkerOnTail(tail) /\ ~AlreadyAnswered(w, tail)
       THEN AnswerPager(w, l, seen)
       ELSE /\ waiter' = IF w.mode = "command" THEN paged ELSE w
            /\ timers' = SettleTimer(w, l)
            /\ scrolled' = seen
            /\ NoWrite

\* Between two jobs, or inside a write that has not returned.
DataMayCome ==
  /\ ~detached
  /\ OwnerHasActed
  /\ IF stack = <<>> THEN TurnIsOver ELSE Len(stack) <= MaxDepth

\* onData.  Without a waiter the chunk is dropped.
Data(chunk) ==
  LET l == IF chunk.newLine THEN chunk.text ELSE line \o chunk.text
      w == IF chunk.newLine THEN [waiter EXCEPT !.sameLine = FALSE] ELSE waiter
  IN /\ DataMayCome
     /\ HasWaiter
     /\ Len(l) <= MaxLine
     /\ line' = l
     /\ EvaluateWaiter(w, l, IF chunk.newLine \/ Contains(chunk.text, "more") THEN 0 ELSE scrolled)
     /\ UNCHANGED <<generation, calls, resync, identity, aborted, detached,
                    deadNotified, resyncFailed>>

\* A lone CR and a text shorter than the line, whose last pieces stay.  It
\* begins a new display line, also for a marker among those pieces.
Repaint(chunk, kept) ==
  Data([newLine |-> TRUE, text |-> chunk.text \o LastPieces(line, kept)])

\* A chunk takes the count past maxOutputBytes: the shell dies.
Overflow ==
  /\ DataMayCome
  /\ HasWaiter
  /\ FailWaiter("limit")
  /\ line' = <<>>
  /\ scrolled' = 0
  /\ Die
  /\ UNCHANGED <<stack, identity, aborted, detached, resyncFailed, typed>>

\* Seeded fault: the timer that a reply has armed is dropped with the other.
Paged_Disarmed(w, before) == timers \ {<<"settle", w.gen>>}

\* The settle timer when the pager's write has returned: a reply inside it
\* may have changed the line, which is then looked at again.
Paged(w, before) ==
  IF PagerTail(line) = before THEN timers \ {<<"settle", w.gen>>} ELSE SettleTimer(w, line)

\* The write on top of the stack returns, and its handler goes on.  Only
\* the pager does something then.
WriteReturns ==
  LET f == Last(stack)
      w == IF f.key = "quit" THEN [waiter EXCEPT !.quitSent = TRUE] ELSE waiter
  IN /\ stack # <<>>
     /\ stack' = Front(stack)
     /\ IF f.paging /\ waiter.gen = f.gen
          THEN /\ waiter' = w
               /\ timers' = Paged(w, f.before)
          ELSE UNCHANGED <<waiter, timers>>
     /\ UNCHANGED <<generation, line, calls, resync, identity, aborted, detached,
                    deadNotified, resyncFailed, typed, scrolled>>

\* It throws: fatal to the shell when paging, to the waiter for a command or
\* a resync's key, of no consequence otherwise.
WriteThrows ==
  LET f == Last(stack)
  IN /\ stack # <<>>
     /\ stack' = Front(stack)
     /\ IF f.key \in {"cr", "kill"} THEN UNCHANGED <<waiter, timers, calls, resync, generation>>
        ELSE FailWaiter("closed")
     /\ IF f.paging THEN Die ELSE UNCHANGED deadNotified
     /\ UNCHANGED <<line, identity, aborted, detached, resyncFailed, typed, scrolled>>

-----------------------------------------------------------------------------
(* The settle timer: onSettled.                                            *)

ClearLine == line' = <<>> /\ scrolled' = 0

Unsettled(g) == timers \ {<<"settle", g>>}

\* The line settled once, or is not the one that did: confirm it.
ReadyConfirms ==
  /\ waiter' = [waiter EXCEPT !.confirming = TRUE, !.candidate = line]
  /\ timers' = Unsettled(waiter.gen) \ {<<"poke", waiter.gen>>}
  /\ Write(typed, "cr", FALSE, waiter.gen, NoLine)
  /\ UNCHANGED <<generation, calls, resync, identity>>

\* Seeded fault: one settled line is enough.
ReadySettles_Unconfirmed == identity' = line /\ Finish(waiter, "ok") /\ NoWrite

ReadySettles ==
  IF ~waiter.confirming \/ waiter.candidate # line THEN ReadyConfirms
  ELSE identity' = line /\ Finish(waiter, "ok") /\ NoWrite

\* Seeded fault: killSent is not remembered.
ResyncSettles_KillAgain ==
  IF IsPrompt(line, "resync")
    THEN Finish(waiter, "ok") /\ NoWrite /\ UNCHANGED identity
    ELSE /\ waiter' = waiter
         /\ timers' = Unsettled(waiter.gen)
         /\ Write(typed, "kill", FALSE, waiter.gen, NoLine)
         /\ UNCHANGED <<generation, calls, resync, identity>>

\* The prompt ends the resync; any other line is killed, once.
ResyncSettles ==
  IF IsPrompt(line, "resync")
    THEN Finish(waiter, "ok") /\ NoWrite /\ UNCHANGED identity
    ELSE /\ waiter' = [waiter EXCEPT !.killSent = TRUE]
         /\ timers' = Unsettled(waiter.gen)
         /\ Write(typed, "kill", FALSE, waiter.gen, NoLine)
         /\ UNCHANGED <<generation, calls, resync, identity>>

\* A command that needed more pages than allowed fails, now that the pager
\* has quit and the prompt is back.
CommandSettles ==
  /\ IF waiter.quitSent /\ waiter.pages >= MaxPages
       THEN Finish(waiter, "limit") /\ UNCHANGED identity
       ELSE Finish(waiter, "ok") /\ identity' = IF Regex # {} THEN line ELSE identity
  /\ NoWrite

\* The timer of waiter g: onSettled does nothing if another has its place or
\* the line will not do.
SettleFires(g) ==
  /\ TurnIsOver
  /\ <<"settle", g>> \in timers
  /\ IF waiter.gen # g \/ ~MaySettle(waiter, line)
       THEN /\ timers' = Unsettled(g)
            /\ UNCHANGED <<waiter, generation, line, calls, resync, identity, scrolled>>
            /\ NoWrite
       ELSE /\ ClearLine
            /\ CASE waiter.mode = "ready"   -> ReadySettles
                 [] waiter.mode = "resync"  -> ResyncSettles
                 [] waiter.mode = "command" -> CommandSettles
  /\ UNCHANGED <<aborted, detached, deadNotified, resyncFailed>>

-----------------------------------------------------------------------------
(* The other timers, the stream's end and detach().                        *)

\* Fails the waiter g, with a resync if it is a command.
Expire(g) ==
  /\ IF waiter.mode = "command" /\ waiter.gen = g THEN FailAndResync("timeout")
     ELSE /\ IF waiter.gen = g THEN Finish(waiter, "timeout")
             ELSE timers' = Cleared(g) /\ UNCHANGED <<waiter, calls, resync, generation>>
          /\ UNCHANGED <<line, stack, typed, scrolled>>
  /\ UNCHANGED <<identity, aborted, detached, deadNotified, resyncFailed>>

TimeoutFires(g) == TurnIsOver /\ <<"timeout", g>> \in timers /\ Expire(g)

\* For a command without an idle timeout this timer never fires.
IdleFires(g) == TurnIsOver /\ <<"idle", g>> \in timers /\ Expire(g)

PokeFires(g) ==
  /\ TurnIsOver
  /\ <<"poke", g>> \in timers
  /\ timers' = timers \ {<<"poke", g>>}
  /\ IF waiter.gen = g /\ ~waiter.confirming
       THEN Write(typed, "cr", FALSE, g, NoLine)
       ELSE NoWrite
  /\ UNCHANGED <<waiter, generation, line, calls, resync, identity, aborted, detached,
                 deadNotified, resyncFailed, scrolled>>

\* close, end or error of the stream: onClosed.
Closed ==
  /\ TurnIsOver
  /\ ~detached
  /\ HasWaiter
  /\ Finish(waiter, "closed")
  /\ UNCHANGED <<stack, line, identity, aborted, detached, deadNotified, resyncFailed,
                 typed, scrolled>>

\* Seeded fault: the waiter is dropped, its promise left pending.
Detach_WaiterForgotten ==
  /\ stack = <<>>
  /\ ~detached
  /\ detached' = TRUE
  /\ waiter' = NoWaiter
  /\ timers' = Cleared(waiter.gen)
  /\ ClearLine
  /\ UNCHANGED <<generation, calls, resync, stack, identity, aborted, deadNotified,
                 resyncFailed, typed>>

Detach ==
  /\ stack = <<>>
  /\ ~detached
  /\ detached' = TRUE
  /\ FailWaiter("closed")
  /\ ClearLine
  /\ UNCHANGED <<stack, identity, aborted, deadNotified, resyncFailed, typed>>

-----------------------------------------------------------------------------
(* performResync after the wait of a step.                                 *)

\* Seeded fault: the commands that wait are not woken.
ResyncOver_NobodyWoken ==
  /\ resync' = NoResync
  /\ UNCHANGED <<calls, waiter, generation, timers, stack, typed>>

ResyncOver ==
  /\ resync' = NoResync
  /\ calls' = [c \in Calls |-> IF calls[c] = "awaiting" THEN "resuming" ELSE calls[c]]
  /\ UNCHANGED <<waiter, generation, timers, stack, typed>>

\* The step that quits the pager failed: interrupt, in the time left.
InterruptInstead ==
  LET g == generation + 1
      w == NewWaiter("resync", "none", g)
  IN /\ resync' = [step |-> "interrupt", outcome |-> "pending"]
     /\ generation' = g
     /\ waiter' = w
     /\ timers' = timers \cup Begun(w, line)
     /\ Write(NothingTyped, "interrupt", FALSE, g, NoLine)
     /\ UNCHANGED <<calls, resyncFailed, deadNotified>>

\* Seeded fault: the failure of the first step is not recorded.
MarkResyncFailed_Forgotten == UNCHANGED <<resyncFailed, deadNotified>>

MarkResyncFailed == resyncFailed' = (resyncFailed \/ ~detached) /\ Die

ResyncContinues ==
  /\ JobIsOver
  /\ resync.outcome \in Outcomes
  /\ IF resync.outcome = "ok"
       THEN ResyncOver /\ UNCHANGED <<resyncFailed, deadNotified>>
       ELSE \/ resync.step = "quit" /\ ~detached /\ InterruptInstead
            \/ MarkResyncFailed /\ ResyncOver
  /\ UNCHANGED <<line, identity, aborted, detached, scrolled>>

-----------------------------------------------------------------------------

Waits == 1 .. generation

ShellNext ==
  \/ WaitForReady
  \/ \E c \in Commands : RunCommand(c) \/ Resume(c) \/ Abort(c)
  \/ \E chunk \in Chunks : Data(chunk)
  \/ \E chunk \in Chunks : \E kept \in 1 .. Len(line) - 1 :
       chunk.newLine /\ chunk.text # <<>> /\ Repaint(chunk, kept)
  \/ Overflow
  \/ WriteReturns
  \/ WriteThrows
  \/ \E g \in Waits : SettleFires(g) \/ TimeoutFires(g) \/ IdleFires(g) \/ PokeFires(g)
  \/ Closed
  \/ Detach
  \/ ResyncContinues

ShellSpec == ShellInit /\ [][ShellNext]_shellVars

-----------------------------------------------------------------------------
(* Fairness.  The event loop serves a timer that is due at its next turn,  *)
(* however often other jobs come in between; a write returns or throws;    *)
(* continuations run; onDead detaches.  Nothing is assumed of the peer.    *)

\* A ready wait; for each command one wait and at most two of its resync.
MaxWaits == 1 + 3 * Cardinality(Commands)

ShellFairness ==
  /\ \A g \in 1 .. MaxWaits : SF_shellVars(TimeoutFires(g))
  /\ WF_shellVars(WriteReturns)
  /\ \A c \in Commands : WF_shellVars(Resume(c))
  /\ WF_shellVars(ResyncContinues)
  /\ WF_shellVars(deadNotified /\ Detach)

FairShellSpec == ShellSpec /\ ShellFairness

-----------------------------------------------------------------------------
(* Properties.                                                             *)

\* The values each variable takes.
ShellTypeOK ==
  /\ waiter \in Waiters
  /\ generation \in Nat
  /\ timers \subseteq (Commands \cup {"timeout", "idle", "settle", "poke"}) \X Nat
  /\ stack \in Seq([key : Keys, paging : BOOLEAN, gen : Nat,
                     before : Seq(Pieces) \cup {NoLine}])
  /\ line \in Seq(Pieces)
  /\ calls \in [Calls -> {"idle", "awaiting", "resuming", "running"} \cup Outcomes]
  /\ resync \in [step : {"none", "quit", "interrupt"},
                  outcome : {"none", "pending"} \cup Outcomes]
  /\ identity \in Seq(Pieces) \cup {NoLine}
  /\ aborted \subseteq Commands
  /\ {detached, deadNotified, resyncFailed} \subseteq BOOLEAN
  /\ typed \in [Keys -> 0 .. 2]
  /\ scrolled \in 0 .. 2

\* Each promise that is still pending has someone to settle it: a command
\* that runs or a resync's step the waiter in place, which its timeout will
\* settle if nothing else does; a command that waits the resync under way.
NoPromiseIsLost ==
  /\ \A c \in Calls : calls[c] = "running" <=> waiter.call = c
  /\ resync.outcome = "pending" <=> waiter.mode = "resync"
  /\ HasWaiter => <<"timeout", waiter.gen>> \in timers
  /\ \A c \in Commands : calls[c] = "awaiting" => resync.step # "none"

\* No timer and no listener outlives its waiter, so that none acts on the
\* next one.
NoStaleTimer == \A t \in timers : HasWaiter /\ t[2] = waiter.gen

\* No command is on the shell while it is being resynchronised.
NoCommandInResync == waiter.mode = "command" => resync.step = "none"

\* In one wait, a device that answers after write() has returned gets at
\* most one q, one Ctrl-C and one Ctrl-U.
KeysAreTypedOnce ==
  \A k \in {"quit", "interrupt", "kill", "command"} : typed[k] <= 1

AtRest == waiter.mode = "command" /\ stack = <<>>

MarkersOn(l) == {i \in DOMAIN l : l[i] = "more"}

\* A pager marker is answered once, however many chunks it comes in, and it
\* is answered if it is the first on its line.  On a line longer than the
\* tail that is looked at, a key hint that follows gets it a second answer.
MarkerIsAnsweredOnce ==
  AtRest /\ Len(line) <= MaxPromptLength =>
    /\ scrolled <= 1
    /\ MarkerOnTail(line) /\ Cardinality(MarkersOn(line)) = 1 /\ ~waiter.quitSent => scrolled = 1

\* What waits for a prompt goes on by itself once one is on the line: its
\* settle timer runs, also when it came inside the write of a pager's key.
PromptWillSettle ==
  /\ HasWaiter /\ line # <<>>
  /\ IsPrompt(line, waiter.mode) /\ ~MarkerOnTail(PagerTail(line))
  => <<"settle", waiter.gen>> \in timers

\* Every call is answered, whatever the peer does or does not send.
CallsAreAnswered ==
  \A c \in Calls :
    (calls[c] \in {"running", "awaiting", "resuming"}) ~> (calls[c] \in Outcomes)
=============================================================================
