---------------------------- MODULE ShellProofs -----------------------------
(***************************************************************************)
(* Theorems about ShellIo, for any number of commands, any chunks and any  *)
(* nesting of replies inside write(), and that ShellIo implements          *)
(* CommandShell: the steps of the shell's handlers are steps of the command *)
(* shell or none.                                                          *)
(***************************************************************************)
EXTENDS ShellRefinement, TLAPS

\* Who the waiter in place waits for; generation 0 is nobody's.
WaiterFits ==
  /\ ~HasWaiter => waiter.gen = 0 /\ waiter.call = "none"
  /\ HasWaiter => waiter.gen > 0
  /\ waiter.mode = "ready" => waiter.call = Ready
  /\ waiter.mode = "command" => waiter.call \in Commands
  /\ waiter.mode = "resync" => waiter.call = "none"

\* Nothing else comes before the ready wait has succeeded, and no command is
\* about to go on while a resync is under way.
CallsFit ==
  /\ (\E c \in Commands : calls[c] # "idle") \/ resync.step # "none" => calls[Ready] = "ok"
  /\ resync.step = "none" <=> resync.outcome = "none"
  /\ resync.step # "none" => \A c \in Commands : calls[c] # "resuming"

\* The writes under way were made for some waiter.
FramesOfWaiters ==
  \A i \in DOMAIN stack :
    /\ stack[i].gen > 0
    /\ stack[i].paging => stack[i].key \in {"space", "quit"}

\* A signal is listened to by its own command's waiter.
OwnersFit ==
  /\ \A t \in timers : t[1] \in Commands => waiter.call = t[1]
  /\ FramesOfWaiters

\* A shell that is gone has no waiter.
GoneFits ==
  /\ detached \/ deadNotified => ~HasWaiter
  /\ resyncFailed => deadNotified

Core ==
  /\ NoPromiseIsLost
  /\ NoStaleTimer
  /\ NoCommandInResync
  /\ WaiterFits
  /\ CallsFit
  /\ OwnersFit

\* What onData may be given, and the steps of the shell, whatever arrives.
IsChunk(chunk) == chunk.newLine \in BOOLEAN /\ chunk.text \in Seq(Pieces)

AnyStep ==
  \/ WaitForReady
  \/ \E c \in Commands : RunCommand(c) \/ Resume(c) \/ Abort(c)
  \/ \E chunk : IsChunk(chunk) /\ Data(chunk)
  \/ Overflow
  \/ WriteReturns
  \/ WriteThrows
  \/ \E g \in Waits : SettleFires(g) \/ TimeoutFires(g) \/ IdleFires(g) \/ PokeFires(g)
  \/ Closed
  \/ Detach
  \/ ResyncContinues

\* The inductive invariant.
IInv == ShellTypeOK /\ Core /\ GoneFits

-----------------------------------------------------------------------------
(* Types.                                                                  *)

LEMMA NewWaiterType ==
  ASSUME NEW mode \in {"none", "ready", "command", "resync"},
         NEW call \in Calls \cup {"none"}, NEW g \in Nat
  PROVE  /\ NewWaiter(mode, call, g) \in Waiters
         /\ NewWaiter(mode, call, g).mode = mode
         /\ NewWaiter(mode, call, g).call = call
         /\ NewWaiter(mode, call, g).gen = g
BY ShellIoAssumption DEF NewWaiter, Waiters

LEMMA NoWaiterType ==
  /\ NoWaiter \in Waiters
  /\ NoWaiter.mode = "none" /\ NoWaiter.call = "none" /\ NoWaiter.gen = 0
BY NewWaiterType DEF NoWaiter

LEMMA LastPiecesType ==
  ASSUME NEW l \in Seq(Pieces), NEW max \in Nat \ {0}
  PROVE  LastPieces(l, max) \in Seq(Pieces)
BY DEF LastPieces

LEMMA PagerTailType ==
  ASSUME NEW l \in Seq(Pieces)
  PROVE  PagerTail(l) \in Seq(Pieces)
BY LastPiecesType, ShellIoAssumption DEF PagerTail

Frames == [key : Keys, paging : BOOLEAN, gen : Nat, before : Seq(Pieces) \cup {NoLine}]

Timers == (Commands \cup {"timeout", "idle", "settle", "poke"}) \X Nat

\* A write that begins.
LEMMA WriteType ==
  ASSUME ShellTypeOK,
         NEW already \in [Keys -> 0 .. 2], NEW key \in Keys, NEW paging \in BOOLEAN,
         NEW g \in Nat, NEW before \in Seq(Pieces) \cup {NoLine},
         Write(already, key, paging, g, before)
  PROVE  /\ stack' \in Seq(Frames)
         /\ typed' \in [Keys -> 0 .. 2]
<1>1. Count(already[key]) \in 0 .. 2
  BY DEF Count
<1> QED BY <1>1 DEF Write, ShellTypeOK, Frames

LEMMA NothingTypedType == NothingTyped \in [Keys -> 0 .. 2]
BY DEF NothingTyped

LEMMA TimersType ==
  ASSUME ShellTypeOK, NEW g \in Nat, NEW w \in Waiters, NEW l
  PROVE  /\ Cleared(g) \subseteq Timers
         /\ Unsettled(g) \subseteq Timers
         /\ SettleTimer(w, l) \subseteq Timers
BY DEF ShellTypeOK, Cleared, Unsettled, SettleTimer, Waiters, Timers

\* What a wait begins with: its timeout and its listener, and others of its own.
LEMMA BegunTimers ==
  ASSUME NEW w, NEW l
  PROVE  /\ <<"timeout", w.gen>> \in Begun(w, l)
         /\ w.mode = "command" =>
              /\ <<w.call, w.gen>> \in Begun(w, l)
              /\ Begun(w, l) \subseteq {<<"timeout", w.gen>>, <<"idle", w.gen>>,
                                        <<"settle", w.gen>>, <<w.call, w.gen>>}
         /\ w.mode # "command" =>
              Begun(w, l) \subseteq {<<"timeout", w.gen>>, <<"settle", w.gen>>, <<"poke", w.gen>>}
         /\ w.mode = "resync" => Begun(w, l) \subseteq {<<"timeout", w.gen>>, <<"settle", w.gen>>}
BY DEF Begun

LEMMA BegunType ==
  ASSUME NEW w, w.gen \in Nat, w.mode = "command" => w.call \in Commands, NEW l
  PROVE  Begun(w, l) \subseteq Timers
<1>1. {<<"timeout", w.gen>>, <<"idle", w.gen>>, <<"settle", w.gen>>, <<"poke", w.gen>>} \subseteq Timers
  BY DEF Timers
<1>2. w.mode = "command" => <<w.call, w.gen>> \in Timers
  BY DEF Timers
<1>3. CASE w.mode = "command"
  BY <1>1, <1>2, <1>3, BegunTimers
<1>4. CASE w.mode # "command"
  BY <1>1, <1>4, BegunTimers
<1> QED BY <1>3, <1>4

\* The waiter is done.
LEMMA FinishType ==
  ASSUME ShellTypeOK, NEW outcome \in Outcomes, Finish(waiter, outcome)
  PROVE  /\ waiter' \in Waiters
         /\ generation' \in Nat
         /\ timers' \subseteq Timers
         /\ calls' \in [Calls -> {"idle", "awaiting", "resuming", "running"} \cup Outcomes]
         /\ resync' \in [step : {"none", "quit", "interrupt"},
                          outcome : {"none", "pending"} \cup Outcomes]
<1>1. waiter.gen \in Nat /\ waiter' = NoWaiter /\ timers' = Cleared(waiter.gen)
  BY DEF ShellTypeOK, Waiters, Finish
<1>2. waiter' \in Waiters /\ timers' \subseteq Timers
  BY <1>1, NoWaiterType, TimersType DEF ShellTypeOK
<1> QED BY <1>2 DEF ShellTypeOK, Finish

\* A command fails, with the resync that follows.
LEMMA BeginResyncType ==
  ASSUME ShellTypeOK, NEW outcome \in Outcomes, BeginResync(waiter, outcome)
  PROVE  /\ waiter' \in Waiters
         /\ generation' \in Nat
         /\ timers' \subseteq Timers
         /\ calls' \in [Calls -> {"idle", "awaiting", "resuming", "running"} \cup Outcomes]
         /\ resync' \in [step : {"none", "quit", "interrupt"},
                          outcome : {"none", "pending"} \cup Outcomes]
         /\ stack' \in Seq(Frames)
         /\ typed' \in [Keys -> 0 .. 2]
         /\ line' = <<>> /\ scrolled' = 0
<1> DEFINE g == generation + 1
           quit == (waiter.pages > 0 \/ waiter.quitSent) /\ MarkerOnTail(PagerTail(line))
           key == IF quit THEN "quit" ELSE "interrupt"
<1>1. g \in Nat /\ waiter.gen \in Nat /\ key \in {"quit", "interrupt"}
  BY DEF ShellTypeOK, Waiters
<1>2. /\ waiter' = NewWaiter("resync", "none", g) /\ waiter' \in Waiters
      /\ waiter'.mode = "resync" /\ waiter'.gen = g
  BY <1>1, NewWaiterType DEF BeginResync
<1>3. timers' \subseteq Timers
  <2>1. timers' = Cleared(waiter.gen) \cup Begun(waiter', <<>>)
    BY DEF BeginResync
  <2> QED BY <1>1, <1>2, <2>1, TimersType, BegunType DEF ShellTypeOK
<1>4. Write(NothingTyped, key, FALSE, g, NoLine)
  BY DEF BeginResync
<1>5. stack' \in Seq(Frames) /\ typed' \in [Keys -> 0 .. 2]
  <2>1. key \in Keys
    BY <1>1 DEF Keys
  <2> QED BY <1>1, <1>4, <2>1, WriteType, NothingTypedType
<1>6. calls' = [calls EXCEPT ![waiter.call] = outcome]
      /\ resync' = [step |-> key, outcome |-> "pending"]
      /\ generation' = g /\ line' = <<>> /\ scrolled' = 0
  BY DEF BeginResync
<1> QED BY <1>1, <1>2, <1>3, <1>5, <1>6 DEF ShellTypeOK

LEMMA FailAndResyncType ==
  ASSUME ShellTypeOK, NEW outcome \in Outcomes, FailAndResync(outcome)
  PROVE  /\ waiter' \in Waiters
         /\ generation' \in Nat
         /\ timers' \subseteq Timers
         /\ calls' \in [Calls -> {"idle", "awaiting", "resuming", "running"} \cup Outcomes]
         /\ resync' \in [step : {"none", "quit", "interrupt"},
                          outcome : {"none", "pending"} \cup Outcomes]
         /\ stack' \in Seq(Frames)
         /\ typed' \in [Keys -> 0 .. 2]
         /\ line' \in Seq(Pieces) /\ scrolled' \in 0 .. 2
<1>1. CASE BeginResync(waiter, outcome)
  <2>1. line' = <<>> /\ scrolled' = 0
    BY <1>1, BeginResyncType
  <2> QED BY <1>1, <2>1, BeginResyncType
<1>2. CASE Finish(waiter, outcome) /\ UNCHANGED <<line, stack, typed, scrolled>>
  BY <1>2, FinishType DEF ShellTypeOK, Frames
<1> QED BY <1>1, <1>2 DEF FailAndResync

\* A command is written or refused.
LEMMA StartCommandType ==
  ASSUME ShellTypeOK, NEW c \in Commands, StartCommand(c)
  PROVE  /\ waiter' \in Waiters
         /\ generation' \in Nat
         /\ timers' \subseteq Timers
         /\ calls' \in [Calls -> {"idle", "awaiting", "resuming", "running"} \cup Outcomes]
         /\ stack' \in Seq(Frames)
         /\ typed' \in [Keys -> 0 .. 2]
         /\ line' \in Seq(Pieces) /\ scrolled' \in 0 .. 2
<1> DEFINE g == generation + 1
<1>1. g \in Nat /\ c \in Calls /\ "command" \in Keys
  BY DEF ShellTypeOK, Calls, Keys
<1>2. waiter' \in Waiters /\ waiter'.call = c /\ waiter'.gen = g
  BY <1>1, NewWaiterType DEF StartCommand
<1>3. timers' \subseteq Timers
  <2>1. timers' = timers \cup Begun(waiter', <<>>)
    BY DEF StartCommand
  <2> QED BY <1>1, <1>2, <2>1, BegunType DEF ShellTypeOK, Timers
<1>4. stack' \in Seq(Frames) /\ typed' \in [Keys -> 0 .. 2]
  BY <1>1, WriteType, NothingTypedType DEF StartCommand
<1> QED BY <1>1, <1>2, <1>3, <1>4 DEF StartCommand, ShellTypeOK

LEMMA RejectCallType ==
  ASSUME ShellTypeOK, NEW c \in Commands, NEW outcome \in Outcomes \cup {"awaiting"},
         RejectCall(c, outcome)
  PROVE  /\ calls' \in [Calls -> {"idle", "awaiting", "resuming", "running"} \cup Outcomes]
         /\ UNCHANGED <<waiter, generation, timers, stack, line, typed, scrolled>>
BY DEF RejectCall, ShellTypeOK

\* A line is looked at.
LEMMA EvaluateWaiterType ==
  ASSUME ShellTypeOK, NEW w \in Waiters, NEW l \in Seq(Pieces), NEW seen \in 0 .. 2,
         EvaluateWaiter(w, l, seen)
  PROVE  /\ waiter' \in Waiters
         /\ waiter'.mode = w.mode /\ waiter'.call = w.call /\ waiter'.gen = w.gen
         /\ timers' \subseteq Timers
         /\ stack' \in Seq(Frames)
         /\ typed' \in [Keys -> 0 .. 2]
         /\ scrolled' \in 0 .. 2
<1> DEFINE tail == PagerTail(l)
           answered == [w EXCEPT !.answeredTail = tail, !.sameLine = TRUE]
<1>1. tail \in Seq(Pieces)
  BY PagerTailType
<1>2. /\ answered \in Waiters
      /\ answered.mode = w.mode /\ answered.call = w.call /\ answered.gen = w.gen
      /\ answered.pages = w.pages
  BY <1>1 DEF Waiters
<1>3. CASE AnswerPager(w, l, seen)
  <2>1. w.gen \in Nat /\ w.pages \in 0 .. MaxPages /\ typed \in [Keys -> 0 .. 2]
        /\ {"space", "quit"} \subseteq Keys
    BY DEF Waiters, ShellTypeOK, Keys
  <2>2. CASE w.pages < MaxPages
    <3>1. /\ waiter' = [answered EXCEPT !.pages = @ + 1]
          /\ Write(typed, "space", TRUE, w.gen, tail)
          /\ timers' = timers /\ scrolled' = Count(seen)
      BY <1>3, <2>2 DEF AnswerPager
    <3>2. stack' \in Seq(Frames) /\ typed' \in [Keys -> 0 .. 2]
      BY <1>1, <2>1, <3>1, WriteType
    <3>3. w.pages + 1 \in 0 .. MaxPages
      BY <2>1, <2>2, ShellIoAssumption
    <3>4. waiter' \in Waiters /\ waiter'.mode = w.mode /\ waiter'.call = w.call
          /\ waiter'.gen = w.gen
      BY <1>2, <3>1, <3>3 DEF Waiters
    <3> QED BY <3>1, <3>2, <3>4 DEF ShellTypeOK, Timers, Count
  <2>3. CASE ~(w.pages < MaxPages) /\ ~w.quitSent
    <3>1. /\ waiter' = answered
          /\ Write(typed, "quit", TRUE, w.gen, tail)
          /\ timers' = timers /\ scrolled' = Count(seen)
      BY <1>3, <2>3 DEF AnswerPager
    <3>2. stack' \in Seq(Frames) /\ typed' \in [Keys -> 0 .. 2]
      BY <1>1, <2>1, <3>1, WriteType
    <3> QED BY <1>2, <3>1, <3>2 DEF ShellTypeOK, Timers, Count
  <2>4. CASE ~(w.pages < MaxPages) /\ w.quitSent
    <3>1. /\ waiter' = answered
          /\ timers' \subseteq timers /\ scrolled' = seen /\ NoWrite
      BY <1>3, <2>4 DEF AnswerPager
    <3> QED BY <1>2, <3>1 DEF ShellTypeOK, Timers, NoWrite, Frames
  <2> QED BY <2>2, <2>3, <2>4
<1>4. CASE /\ waiter' \in {w, [w EXCEPT !.answeredTail = NoLine, !.sameLine = TRUE]}
           /\ timers' = SettleTimer(w, l)
           /\ scrolled' = seen
           /\ NoWrite
  <2>1. /\ waiter' \in Waiters
        /\ waiter'.mode = w.mode /\ waiter'.call = w.call /\ waiter'.gen = w.gen
    BY <1>4 DEF Waiters
  <2>2. timers' \subseteq Timers
    BY <1>4, TimersType, ShellIoAssumption DEF Waiters
  <2> QED BY <1>4, <2>1, <2>2 DEF NoWrite, ShellTypeOK, Frames
<1>5. AnswerPager(w, l, seen) \/
      /\ waiter' \in {w, [w EXCEPT !.answeredTail = NoLine, !.sameLine = TRUE]}
      /\ timers' = SettleTimer(w, l)
      /\ scrolled' = seen
      /\ NoWrite
  BY DEF EvaluateWaiter
<1> QED BY <1>3, <1>4, <1>5

LEMMA FrontType ==
  ASSUME NEW S, NEW s \in Seq(S), s # <<>>
  PROVE  /\ Front(s) \in Seq(S)
         /\ \A i \in DOMAIN Front(s) : i \in DOMAIN s /\ Front(s)[i] = s[i]
<1>1. Len(s) \in Nat \ {0}
  OBVIOUS
<1>2. \A i \in 1 .. Len(s) - 1 : s[i] \in S
  OBVIOUS
<1> QED BY <1>1, <1>2 DEF Front

LEMMA TypeInit == ShellInit => ShellTypeOK
<1> SUFFICES ASSUME ShellInit PROVE ShellTypeOK
  OBVIOUS
<1>1. waiter \in Waiters
  BY NoWaiterType DEF ShellInit
<1>2. typed \in [Keys -> 0 .. 2]
  BY NothingTypedType DEF ShellInit
<1>3. stack = <<>> /\ line = <<>> /\ timers = {} /\ identity \in Seq(Pieces) \cup {NoLine}
  BY DEF ShellInit
<1>4. calls \in [Calls -> {"idle"}] /\ resync = [step |-> "none", outcome |-> "none"]
  BY DEF ShellInit, NoResync
<1>5. /\ generation = 0 /\ aborted = {} /\ scrolled = 0
      /\ {detached, deadNotified, resyncFailed} \subseteq BOOLEAN
  BY DEF ShellInit
<1> QED BY <1>1, <1>2, <1>3, <1>4, <1>5 DEF ShellTypeOK

\* Every action keeps the types: first the calls and the data.
LEMMA CallTypeStep ==
  ASSUME ShellTypeOK,
         WaitForReady \/ \E c \in Commands : RunCommand(c) \/ Resume(c) \/ Abort(c)
  PROVE  ShellTypeOK'
<1>1. CASE WaitForReady
  <2>1. generation + 1 \in Nat /\ Ready \in Calls
    BY DEF ShellTypeOK, Calls
  <2>2. /\ waiter' \in Waiters
        /\ waiter'.mode = "ready" /\ waiter'.gen = generation + 1
    BY <1>1, <2>1, NewWaiterType DEF WaitForReady
  <2>3. timers' \subseteq Timers
    <3>1. timers' = timers \cup Begun(waiter', line)
      BY <1>1 DEF WaitForReady
    <3> QED BY <2>1, <2>2, <3>1, BegunType DEF ShellTypeOK, Timers
  <2>4. typed' \in [Keys -> 0 .. 2]
    BY <1>1, NothingTypedType DEF WaitForReady
  <2> QED BY <1>1, <2>1, <2>2, <2>3, <2>4 DEF WaitForReady, ShellTypeOK, Timers
<1>2. CASE \E c \in Commands : RunCommand(c) \/ Resume(c)
  <2>1. PICK c \in Commands : RunCommand(c) \/ Resume(c)
    BY <1>2
  <2>2. /\ StartCommand(c) \/ \E outcome \in Outcomes \cup {"awaiting"} : RejectCall(c, outcome)
        /\ UNCHANGED <<resync, identity, aborted, detached, deadNotified, resyncFailed>>
    BY <2>1 DEF RunCommand, Resume, Outcomes
  <2>3. CASE StartCommand(c)
    BY <2>2, <2>3, StartCommandType DEF ShellTypeOK, Frames, Timers
  <2>4. CASE \E outcome \in Outcomes \cup {"awaiting"} : RejectCall(c, outcome)
    BY <2>2, <2>4, RejectCallType DEF ShellTypeOK, Frames, Timers
  <2> QED BY <2>2, <2>3, <2>4
<1>3. CASE \E c \in Commands : Abort(c)
  <2>1. PICK c \in Commands : Abort(c)
    BY <1>3
  <2>2. "closed" \in Outcomes
    BY DEF Outcomes
  <2>3. /\ aborted' = aborted \cup {c}
        /\ UNCHANGED <<identity, detached, deadNotified, resyncFailed>>
        /\ \/ FailAndResync("closed")
           \/ Finish(waiter, "closed") /\ UNCHANGED <<line, stack, typed, scrolled>>
           \/ UNCHANGED <<waiter, generation, timers, stack, line, calls, resync, typed, scrolled>>
    BY <2>1 DEF Abort
  <2>4. CASE FailAndResync("closed")
    BY <2>2, <2>3, <2>4, FailAndResyncType DEF ShellTypeOK, Frames, Timers
  <2>5. CASE Finish(waiter, "closed") /\ UNCHANGED <<line, stack, typed, scrolled>>
    BY <2>2, <2>3, <2>5, FinishType DEF ShellTypeOK, Timers
  <2>6. CASE UNCHANGED <<waiter, generation, timers, stack, line, calls, resync, typed, scrolled>>
    BY <2>3, <2>6 DEF ShellTypeOK
  <2> QED BY <2>3, <2>4, <2>5, <2>6
<1> QED BY <1>1, <1>2, <1>3

LEMMA FailWaiterType ==
  ASSUME ShellTypeOK, NEW outcome \in Outcomes, FailWaiter(outcome)
  PROVE  /\ waiter' \in Waiters
         /\ generation' \in Nat
         /\ timers' \subseteq Timers
         /\ calls' \in [Calls -> {"idle", "awaiting", "resuming", "running"} \cup Outcomes]
         /\ resync' \in [step : {"none", "quit", "interrupt"},
                          outcome : {"none", "pending"} \cup Outcomes]
<1>1. CASE Finish(waiter, outcome)
  BY <1>1, FinishType
<1>2. CASE UNCHANGED <<waiter, timers, calls, resync, generation>>
  BY <1>2 DEF ShellTypeOK, Timers
<1> QED BY <1>1, <1>2 DEF FailWaiter

\* A repaint is what a longer text on a new line would be.
LEMMA RepaintIsData ==
  ASSUME ShellTypeOK, NEW chunk \in Chunks, NEW kept \in 1 .. Len(line) - 1,
         Repaint(chunk, kept)
  PROVE  \E any : IsChunk(any) /\ Data(any)
<1> DEFINE any == [newLine |-> TRUE, text |-> chunk.text \o LastPieces(line, kept)]
<1>1. chunk.text \in Seq(Pieces) /\ LastPieces(line, kept) \in Seq(Pieces)
  BY LastPiecesType, ShellIoAssumption DEF ShellTypeOK
<1>2. IsChunk(any) /\ Data(any)
  BY <1>1 DEF IsChunk, Repaint
<1> QED BY <1>2

LEMMA NextIsAnyStep == ShellTypeOK /\ ShellNext => AnyStep
<1> SUFFICES ASSUME ShellTypeOK, ShellNext PROVE AnyStep
  OBVIOUS
<1>1. ASSUME NEW chunk \in Chunks, Data(chunk) PROVE AnyStep
  BY <1>1, ShellIoAssumption DEF AnyStep, IsChunk
<1>2. ASSUME NEW chunk \in Chunks, NEW kept \in 1 .. Len(line) - 1, Repaint(chunk, kept)
      PROVE AnyStep
  BY <1>2, RepaintIsData DEF AnyStep
<1> QED BY <1>1, <1>2 DEF ShellNext, AnyStep

LEMMA DataTypeStep ==
  ASSUME ShellTypeOK,
         (\E chunk : IsChunk(chunk) /\ Data(chunk)) \/ Overflow \/ WriteReturns \/ WriteThrows
  PROVE  ShellTypeOK'
<1>1. CASE \E chunk : IsChunk(chunk) /\ Data(chunk)
  <2>1. PICK chunk : IsChunk(chunk) /\ Data(chunk)
    BY <1>1
  <2> DEFINE l == IF chunk.newLine THEN chunk.text ELSE line \o chunk.text
             w == IF chunk.newLine THEN [waiter EXCEPT !.sameLine = FALSE] ELSE waiter
             seen == IF chunk.newLine \/ Contains(chunk.text, "more") THEN 0 ELSE scrolled
  <2>2. l \in Seq(Pieces)
    BY <2>1 DEF IsChunk, ShellTypeOK
  <2>3. w \in Waiters
    BY DEF ShellTypeOK, Waiters
  <2>4. seen \in 0 .. 2
    BY DEF ShellTypeOK
  <2>5. /\ EvaluateWaiter(w, l, seen) /\ line' = l
        /\ UNCHANGED <<generation, calls, resync, identity, aborted, detached,
                       deadNotified, resyncFailed>>
    BY <2>1 DEF Data
  <2> HIDE DEF l, w, seen
  <2> QED BY <2>2, <2>3, <2>4, <2>5, EvaluateWaiterType DEF ShellTypeOK, Frames, Timers
<1>2. CASE Overflow
  <2>1. "limit" \in Outcomes
    BY DEF Outcomes
  <2> QED BY <1>2, <2>1, FailWaiterType DEF Overflow, Die, ShellTypeOK, Timers
<1>3. CASE WriteReturns
  <2> DEFINE f == Last(stack)
             w == IF f.key = "quit" THEN [waiter EXCEPT !.quitSent = TRUE] ELSE waiter
  <2>1. w \in Waiters
    BY DEF ShellTypeOK, Waiters
  <2>2. stack' \in Seq(Frames)
    BY <1>3, FrontType DEF WriteReturns, ShellTypeOK, Frames
  <2>3. w.gen \in Nat /\ timers \subseteq Timers
    BY <2>1 DEF Waiters, ShellTypeOK, Timers
  <2>4. /\ waiter' = w \/ waiter' = waiter
        /\ timers' \subseteq timers \/ timers' = SettleTimer(w, line)
        /\ UNCHANGED <<generation, line, calls, resync, identity, aborted, detached,
                       deadNotified, resyncFailed, typed, scrolled>>
    BY <1>3 DEF WriteReturns, Paged
  <2>5. timers' \subseteq Timers
    BY <2>1, <2>3, <2>4, TimersType
  <2> QED BY <2>1, <2>2, <2>4, <2>5 DEF ShellTypeOK, Frames, Timers
<1>4. CASE WriteThrows
  <2>1. stack' \in Seq(Frames)
    BY <1>4, FrontType DEF WriteThrows, ShellTypeOK, Frames
  <2>2. "closed" \in Outcomes
    BY DEF Outcomes
  <2>3. /\ FailWaiter("closed") \/ UNCHANGED <<waiter, timers, calls, resync, generation>>
        /\ deadNotified' = deadNotified \/ Die
        /\ UNCHANGED <<line, identity, aborted, detached, resyncFailed, typed, scrolled>>
    BY <1>4 DEF WriteThrows
  <2>4. deadNotified' \in BOOLEAN
    BY <2>3 DEF Die, ShellTypeOK
  <2>5. CASE FailWaiter("closed")
    BY <2>1, <2>2, <2>3, <2>4, <2>5, FailWaiterType DEF ShellTypeOK, Frames, Timers
  <2>6. CASE UNCHANGED <<waiter, timers, calls, resync, generation>>
    BY <2>1, <2>3, <2>4, <2>6 DEF ShellTypeOK, Frames
  <2> QED BY <2>3, <2>5, <2>6
<1> QED BY <1>1, <1>2, <1>3, <1>4

\* The settle timer has fired on a line that will do.
LEMMA SettlesType ==
  ASSUME ShellTypeOK, ReadySettles \/ ResyncSettles \/ CommandSettles
  PROVE  /\ waiter' \in Waiters
         /\ generation' \in Nat
         /\ timers' \subseteq Timers
         /\ calls' \in [Calls -> {"idle", "awaiting", "resuming", "running"} \cup Outcomes]
         /\ resync' \in [step : {"none", "quit", "interrupt"},
                          outcome : {"none", "pending"} \cup Outcomes]
         /\ stack' \in Seq(Frames)
         /\ typed' \in [Keys -> 0 .. 2]
         /\ identity' \in Seq(Pieces) \cup {NoLine}
<1>1. {"ok", "limit"} \subseteq Outcomes /\ {"cr", "kill"} \subseteq Keys
  BY DEF Outcomes, Keys
<1>2. waiter.gen \in Nat
  BY DEF ShellTypeOK, Waiters
<1>3. CASE /\ \E outcome \in {"ok", "limit"} : Finish(waiter, outcome)
           /\ NoWrite
           /\ identity' \in {line, identity}
  BY <1>1, <1>3, FinishType DEF NoWrite, ShellTypeOK, Frames
<1>4. CASE ReadyConfirms /\ UNCHANGED identity
  <2>1. waiter' \in Waiters
    BY <1>4 DEF ReadyConfirms, ShellTypeOK, Waiters
  <2>2. timers' \subseteq Timers
    BY <1>4 DEF ReadyConfirms, Unsettled, ShellTypeOK, Timers
  <2>3. stack' \in Seq(Frames) /\ typed' \in [Keys -> 0 .. 2]
    BY <1>1, <1>2, <1>4, WriteType DEF ReadyConfirms, ShellTypeOK
  <2> QED BY <1>4, <2>1, <2>2, <2>3 DEF ReadyConfirms, ShellTypeOK
<1>5. CASE /\ waiter' = [waiter EXCEPT !.killSent = TRUE]
           /\ timers' = Unsettled(waiter.gen)
           /\ Write(typed, "kill", FALSE, waiter.gen, NoLine)
           /\ UNCHANGED <<generation, calls, resync, identity>>
  <2>1. waiter' \in Waiters
    BY <1>5 DEF ShellTypeOK, Waiters
  <2>2. timers' \subseteq Timers
    BY <1>5 DEF Unsettled, ShellTypeOK, Timers
  <2>3. stack' \in Seq(Frames) /\ typed' \in [Keys -> 0 .. 2]
    BY <1>1, <1>2, <1>5, WriteType DEF ShellTypeOK
  <2> QED BY <1>5, <2>1, <2>2, <2>3 DEF ShellTypeOK
<1>6. CASE ReadySettles
  BY <1>3, <1>4, <1>6 DEF ReadySettles, ReadyConfirms
<1>7. CASE ResyncSettles
  BY <1>3, <1>5, <1>7 DEF ResyncSettles
<1>8. CASE CommandSettles
  BY <1>3, <1>8 DEF CommandSettles
<1> QED BY <1>6, <1>7, <1>8

\* The shell is resynchronised, or is not.
LEMMA ResyncContinuesType ==
  ASSUME ShellTypeOK, ResyncContinues
  PROVE  ShellTypeOK'
<1>1. UNCHANGED <<line, identity, aborted, detached, scrolled>>
  BY DEF ResyncContinues
<1>2. CASE ResyncOver /\ (UNCHANGED <<resyncFailed, deadNotified>> \/ MarkResyncFailed)
  <2>1. {resyncFailed', deadNotified'} \subseteq BOOLEAN
    BY <1>2 DEF MarkResyncFailed, Die, ShellTypeOK
  <2>2. calls' \in [Calls -> {"idle", "awaiting", "resuming", "running"} \cup Outcomes]
    BY <1>2 DEF ResyncOver, ShellTypeOK
  <2> QED BY <1>1, <1>2, <2>1, <2>2 DEF ResyncOver, NoResync, ShellTypeOK
<1>3. CASE InterruptInstead
  <2> DEFINE g == generation + 1
             w == NewWaiter("resync", "none", g)
  <2>1. g \in Nat /\ "interrupt" \in Keys
    BY DEF ShellTypeOK, Keys
  <2>2. w \in Waiters /\ w.mode = "resync" /\ w.gen = g
    BY <2>1, NewWaiterType
  <2>3. timers' = timers \cup Begun(w, line)
    BY <1>3 DEF InterruptInstead
  <2>4. timers' \subseteq Timers
    BY <2>1, <2>2, <2>3, BegunType DEF ShellTypeOK, Timers
  <2>5. stack' \in Seq(Frames) /\ typed' \in [Keys -> 0 .. 2]
    BY <1>3, <2>1, WriteType, NothingTypedType DEF InterruptInstead
  <2>6. resync' = [step |-> "interrupt", outcome |-> "pending"] /\ waiter' = w
        /\ generation' = g /\ UNCHANGED <<calls, resyncFailed, deadNotified>>
    BY <1>3 DEF InterruptInstead
  <2> HIDE DEF w, g
  <2> QED BY <1>1, <2>1, <2>2, <2>4, <2>5, <2>6 DEF ShellTypeOK, Frames, Timers
<1> QED BY <1>2, <1>3 DEF ResyncContinues

LEMMA TimerTypeStep ==
  ASSUME ShellTypeOK, waiter.mode = "none" => waiter.gen = 0,
         \/ \E g \in Waits : SettleFires(g) \/ TimeoutFires(g) \/ IdleFires(g) \/ PokeFires(g)
         \/ Closed \/ Detach
  PROVE  ShellTypeOK'
<1>1. ASSUME NEW g \in Waits, SettleFires(g) PROVE ShellTypeOK'
  <2>1. g \in Nat
    BY DEF Waits, ShellTypeOK
  <2>2. UNCHANGED <<aborted, detached, deadNotified, resyncFailed>>
    BY <1>1 DEF SettleFires
  <2>3. CASE /\ timers' = Unsettled(g)
             /\ UNCHANGED <<waiter, generation, line, calls, resync, identity, scrolled>>
             /\ NoWrite
    <3>1. timers' \subseteq Timers
      BY <2>3 DEF Unsettled, ShellTypeOK, Timers
    <3> QED BY <2>2, <2>3, <3>1 DEF ShellTypeOK, NoWrite, Timers
  <2>4. CASE ClearLine /\ (ReadySettles \/ ResyncSettles \/ CommandSettles)
    BY <2>2, <2>4, SettlesType DEF ClearLine, ShellTypeOK, Frames, Timers
  <2>5. waiter.mode \in {"ready", "resync", "command"} \/ waiter.mode = "none"
    BY DEF ShellTypeOK, Waiters
  <2>6. waiter.mode = "none" => waiter.gen # g
    BY DEF Waits
  <2> QED BY <1>1, <2>3, <2>4, <2>5, <2>6 DEF SettleFires
<1>2. ASSUME NEW g \in Waits, Expire(g) PROVE ShellTypeOK'
  <2>1. g \in Nat /\ "timeout" \in Outcomes
    BY DEF Waits, ShellTypeOK, Outcomes
  <2>2. UNCHANGED <<identity, aborted, detached, deadNotified, resyncFailed>>
    BY <1>2 DEF Expire
  <2>3. CASE FailAndResync("timeout")
    BY <2>1, <2>2, <2>3, FailAndResyncType DEF ShellTypeOK, Frames, Timers
  <2>4. CASE Finish(waiter, "timeout") /\ UNCHANGED <<line, stack, typed, scrolled>>
    BY <2>1, <2>2, <2>4, FinishType DEF ShellTypeOK, Timers
  <2>5. CASE /\ timers' = Cleared(g) /\ UNCHANGED <<waiter, calls, resync, generation>>
             /\ UNCHANGED <<line, stack, typed, scrolled>>
    <3>1. timers' \subseteq Timers
      BY <2>5 DEF Cleared, ShellTypeOK, Timers
    <3> QED BY <2>2, <2>5, <3>1 DEF ShellTypeOK, Timers
  <2> QED BY <1>2, <2>3, <2>4, <2>5 DEF Expire
<1>3. ASSUME NEW g \in Waits, PokeFires(g) PROVE ShellTypeOK'
  <2>1. g \in Nat /\ "cr" \in Keys
    BY DEF Waits, ShellTypeOK, Keys
  <2>2. stack' \in Seq(Frames) /\ typed' \in [Keys -> 0 .. 2]
    <3>1. CASE Write(typed, "cr", FALSE, g, NoLine)
      BY <2>1, <3>1, WriteType DEF ShellTypeOK
    <3>2. CASE NoWrite
      BY <3>2 DEF NoWrite, ShellTypeOK, Frames
    <3> QED BY <1>3, <3>1, <3>2 DEF PokeFires
  <2> QED BY <1>3, <2>2 DEF PokeFires, ShellTypeOK, Frames
<1>4. "closed" \in Outcomes
  BY DEF Outcomes
<1>5. CASE Closed
  BY <1>4, <1>5, FinishType DEF Closed, ShellTypeOK, Timers
<1>6. CASE Detach
  BY <1>4, <1>6, FailWaiterType DEF Detach, ClearLine, ShellTypeOK, Timers
<1> QED BY <1>1, <1>2, <1>3, <1>5, <1>6 DEF TimeoutFires, IdleFires

LEMMA TypeStep ==
  ASSUME ShellTypeOK, WaiterFits, [AnyStep]_shellVars
  PROVE  ShellTypeOK'
<1>1. CASE UNCHANGED shellVars
  BY <1>1 DEF shellVars, ShellTypeOK
<1>2. CASE AnyStep
  BY <1>2, CallTypeStep, DataTypeStep, TimerTypeStep, ResyncContinuesType
     DEF AnyStep, WaiterFits, HasWaiter
<1> QED BY <1>1, <1>2

-----------------------------------------------------------------------------
(* What the operators of the actions do to the invariant.                  *)

\* With no waiter there is no timer; with one, nothing of an earlier one.
LEMMA ClearedIsEmpty ==
  ASSUME ShellTypeOK, NoStaleTimer
  PROVE  Cleared(waiter.gen) = {} /\ (~HasWaiter => timers = {})
BY DEF ShellTypeOK, NoStaleTimer, Cleared

\* The writes that have not returned, and one more.
LEMMA WriteFrames ==
  ASSUME ShellTypeOK, OwnersFit, NEW already, NEW key, NEW paging, NEW g \in Nat \ {0}, NEW before,
         paging => key \in {"space", "quit"},
         Write(already, key, paging, g, before)
  PROVE  FramesOfWaiters'
<1> DEFINE f == [key |-> key, paging |-> paging, gen |-> g, before |-> before]
<1>1. /\ stack' = Append(stack, f) /\ stack \in Seq(Frames)
      /\ f.gen > 0 /\ (f.paging => f.key \in {"space", "quit"})
  BY DEF Write, ShellTypeOK, Frames
<1> HIDE DEF f
<1>2. \A i \in DOMAIN stack' : stack'[i] = f \/ (i \in DOMAIN stack /\ stack'[i] = stack[i])
  BY <1>1
<1> QED BY <1>1, <1>2 DEF OwnersFit, FramesOfWaiters

\* The waiter's promise is settled and its place is free.
LEMMA FinishKeeps ==
  ASSUME ShellTypeOK, Core, HasWaiter, NEW outcome \in Outcomes, Finish(waiter, outcome),
         FramesOfWaiters'
  PROVE  Core' /\ ~HasWaiter'
<1>1. waiter' = NoWaiter /\ timers' = {}
  BY ClearedIsEmpty DEF Finish, Core
<1>2. ~HasWaiter' /\ waiter'.gen = 0 /\ waiter'.call = "none" /\ waiter'.mode = "none"
  BY <1>1, NoWaiterType DEF HasWaiter
<1>3. WaiterFits' /\ NoStaleTimer' /\ NoCommandInResync' /\ OwnersFit'
  BY <1>1, <1>2 DEF WaiterFits, NoStaleTimer, NoCommandInResync, OwnersFit, FramesOfWaiters
<1>4. "none" \notin Calls /\ Ready \in Calls /\ Ready \notin Commands /\ Commands \subseteq Calls
  BY ShellIoAssumption DEF Calls, Ready
<1>5. outcome \notin {"none", "pending", "idle", "awaiting", "resuming", "running"}
  BY DEF Outcomes
<1>6. CASE waiter.mode = "resync"
  <2>1. calls' = calls /\ resync' = [resync EXCEPT !.outcome = outcome]
    BY <1>6 DEF Finish
  <2>2. resync'.step = resync.step /\ resync'.outcome = outcome
    BY <2>1 DEF ShellTypeOK
  <2>3. waiter.call = "none" /\ resync.outcome = "pending" /\ resync.step # "none"
    BY <1>6 DEF Core, WaiterFits, NoPromiseIsLost, CallsFit
  <2>4. NoPromiseIsLost'
    BY <1>2, <1>4, <1>5, <2>1, <2>2, <2>3 DEF Core, NoPromiseIsLost
  <2>5. CallsFit'
    BY <1>5, <2>1, <2>2, <2>3 DEF Core, CallsFit
  <2> QED BY <1>2, <1>3, <2>4, <2>5 DEF Core
<1>7. CASE waiter.mode # "resync"
  <2>1. resync' = resync /\ calls' = [calls EXCEPT ![waiter.call] = outcome]
    BY <1>7 DEF Finish
  <2>2. waiter.call \in Calls /\ calls[waiter.call] = "running"
    BY <1>4, <1>7 DEF Core, WaiterFits, NoPromiseIsLost, HasWaiter, ShellTypeOK, Waiters
  <2>3. \A c \in Calls : calls'[c] = IF c = waiter.call THEN outcome ELSE calls[c]
    BY <2>1 DEF ShellTypeOK
  <2>4. NoPromiseIsLost'
    <3>1. \A c \in Calls : calls'[c] # "running"
      BY <1>5, <2>3 DEF Core, NoPromiseIsLost
    <3>2. resync.outcome # "pending"
      BY <1>7 DEF Core, NoPromiseIsLost
    <3>3. \A c \in Commands : calls'[c] = "awaiting" => resync'.step # "none"
      BY <1>4, <1>5, <2>1, <2>3 DEF Core, NoPromiseIsLost
    <3> QED BY <1>2, <1>4, <2>1, <3>1, <3>2, <3>3 DEF NoPromiseIsLost
  <2>5. CallsFit'
    <3>1. CASE waiter.call = Ready
      <4>1. calls[Ready] # "ok"
        BY <2>2, <3>1
      <4>2. resync.step = "none" /\ \A c \in Commands : calls[c] = "idle"
        BY <4>1 DEF Core, CallsFit
      <4> QED BY <1>4, <2>1, <2>3, <3>1, <4>2 DEF Core, CallsFit
    <3>2. CASE waiter.call \in Commands
      <4>1. calls[Ready] = "ok"
        BY <2>2, <3>2 DEF Core, CallsFit
      <4> QED BY <1>4, <1>5, <2>1, <2>3, <3>2, <4>1 DEF Core, CallsFit
    <3> QED BY <2>2, <3>1, <3>2 DEF Calls
  <2> QED BY <1>2, <1>3, <2>4, <2>5 DEF Core
<1> QED BY <1>6, <1>7

LEMMA FailWaiterKeeps ==
  ASSUME ShellTypeOK, Core, NEW outcome \in Outcomes, FailWaiter(outcome), FramesOfWaiters'
  PROVE  Core' /\ ~HasWaiter'
<1>1. CASE HasWaiter
  BY <1>1, FinishKeeps DEF FailWaiter
<1>2. CASE ~HasWaiter
  BY <1>2 DEF FailWaiter, Core, NoPromiseIsLost, NoStaleTimer, NoCommandInResync, WaiterFits,
              CallsFit, OwnersFit, HasWaiter, FramesOfWaiters
<1> QED BY <1>1, <1>2

\* A command fails; its resync has the shell, and no command is about to go on.
LEMMA BeginResyncKeeps ==
  ASSUME ShellTypeOK, Core, waiter.mode = "command", NEW outcome \in Outcomes,
         \A c \in Commands : calls[c] # "resuming",
         BeginResync(waiter, outcome)
  PROVE  /\ Core'
         /\ waiter.call \in Commands
         /\ calls' = [calls EXCEPT ![waiter.call] = outcome]
         /\ resync'.step # "none"
<1> DEFINE g == generation + 1
           quit == (waiter.pages > 0 \/ waiter.quitSent) /\ MarkerOnTail(PagerTail(line))
           key == IF quit THEN "quit" ELSE "interrupt"
<1>1. g \in Nat \ {0} /\ key # "none"
  BY DEF ShellTypeOK
<1>2. /\ calls' = [calls EXCEPT ![waiter.call] = outcome]
      /\ resync' = [step |-> key, outcome |-> "pending"]
      /\ waiter' = NewWaiter("resync", "none", g)
      /\ timers' = Cleared(waiter.gen) \cup Begun(waiter', <<>>)
      /\ Write(NothingTyped, key, FALSE, g, NoLine)
  BY DEF BeginResync
<1>3. waiter'.mode = "resync" /\ waiter'.call = "none" /\ waiter'.gen = g /\ HasWaiter'
  BY <1>1, <1>2, NewWaiterType DEF HasWaiter
<1>4. /\ <<"timeout", g>> \in timers'
      /\ timers' \subseteq {<<"timeout", g>>, <<"settle", g>>, <<"poke", g>>}
  BY <1>2, <1>3, BegunTimers, ClearedIsEmpty DEF Core
<1>5. FramesOfWaiters'
  BY <1>1, <1>2, WriteFrames DEF Core
<1>6. resync'.step = key /\ resync'.outcome = "pending"
  BY <1>2
<1>7. waiter.call \in Commands /\ calls[waiter.call] = "running" /\ calls[Ready] = "ok"
  BY DEF Core, WaiterFits, NoPromiseIsLost, CallsFit, Calls
<1>8. \A c \in Calls : calls'[c] = IF c = waiter.call THEN outcome ELSE calls[c]
  BY <1>2 DEF ShellTypeOK
<1>9. outcome \notin {"none", "pending", "idle", "awaiting", "resuming", "running"}
  BY DEF Outcomes
<1>10. "none" \notin Calls /\ Ready \in Calls /\ Ready \notin Commands /\ Commands \subseteq Calls
       /\ {"timeout", "settle", "poke"} \cap Commands = {}
  BY ShellIoAssumption DEF Calls, Ready
<1> HIDE DEF key, g
<1>11. NoPromiseIsLost'
  BY <1>1, <1>3, <1>4, <1>6, <1>8, <1>9, <1>10 DEF Core, NoPromiseIsLost
<1>12. CallsFit'
  BY <1>1, <1>6, <1>7, <1>8, <1>9, <1>10 DEF CallsFit
<1>13. NoStaleTimer' /\ NoCommandInResync' /\ WaiterFits' /\ OwnersFit'
  BY <1>1, <1>3, <1>4, <1>5, <1>10
     DEF NoStaleTimer, NoCommandInResync, WaiterFits, OwnersFit, FramesOfWaiters
<1> QED BY <1>1, <1>2, <1>6, <1>7, <1>11, <1>12, <1>13 DEF Core

\* A command that fails is always followed by a resync: a shell that is gone
\* has no command.
LEMMA FailAndResyncKeeps ==
  ASSUME IInv, waiter.mode = "command", NEW outcome \in Outcomes,
         \A c \in Commands : calls[c] # "resuming",
         FailAndResync(outcome)
  PROVE  /\ Core'
         /\ waiter.call \in Commands
         /\ calls' = [calls EXCEPT ![waiter.call] = outcome]
         /\ resync'.step # "none"
<1>1. resync.step = "none" /\ ~detached /\ ~resyncFailed
  BY DEF IInv, Core, NoCommandInResync, GoneFits, HasWaiter
<1> QED BY <1>1, BeginResyncKeeps DEF FailAndResync, IInv

\* A waiter takes the free place.
LEMMA StartCommandKeeps ==
  ASSUME ShellTypeOK, Core, ~HasWaiter, resync.step = "none", calls[Ready] = "ok",
         NEW c \in Commands, resync' = resync, StartCommand(c)
  PROVE  Core' /\ calls' = [calls EXCEPT ![c] = "running"]
<1> DEFINE g == generation + 1
<1>1. g \in Nat \ {0} /\ c \in Calls /\ c # "none" /\ c # Ready /\ "none" \notin Calls
  BY ShellIoAssumption DEF ShellTypeOK, Calls, Ready
<1>2. /\ calls' = [calls EXCEPT ![c] = "running"]
      /\ waiter' = NewWaiter("command", c, g)
      /\ timers' = timers \cup Begun(waiter', <<>>)
      /\ Write(NothingTyped, "command", FALSE, g, NoLine)
  BY DEF StartCommand
<1>3. waiter'.mode = "command" /\ waiter'.call = c /\ waiter'.gen = g /\ HasWaiter'
  BY <1>1, <1>2, NewWaiterType DEF HasWaiter
<1>4. /\ {<<"timeout", g>>, <<c, g>>} \subseteq timers'
      /\ timers' \subseteq {<<"timeout", g>>, <<"idle", g>>, <<"settle", g>>, <<c, g>>}
  BY <1>2, <1>3, BegunTimers, ClearedIsEmpty DEF Core
<1>5. FramesOfWaiters'
  BY <1>1, <1>2, WriteFrames DEF Core
<1>6. \A d \in Calls : calls'[d] = IF d = c THEN "running" ELSE calls[d]
  BY <1>2 DEF ShellTypeOK
<1>7. \A d \in Calls : calls[d] # "running"
  BY <1>1 DEF Core, NoPromiseIsLost, WaiterFits
<1> HIDE DEF g
<1>8. NoPromiseIsLost'
  BY <1>1, <1>3, <1>4, <1>6, <1>7 DEF Core, NoPromiseIsLost, Calls, HasWaiter
<1>9. CallsFit'
  BY <1>1, <1>6 DEF Core, CallsFit, Calls
<1>10. {"timeout", "idle", "settle"} \cap Commands = {}
  BY ShellIoAssumption
<1>11. NoStaleTimer' /\ NoCommandInResync' /\ WaiterFits' /\ OwnersFit'
  BY <1>1, <1>3, <1>4, <1>5, <1>10
     DEF NoStaleTimer, NoCommandInResync, WaiterFits, OwnersFit, FramesOfWaiters
<1> QED BY <1>2, <1>8, <1>9, <1>11 DEF Core

\* A call is refused, or waits for the resync under way.
LEMMA RejectCallKeeps ==
  ASSUME ShellTypeOK, Core, calls[Ready] = "ok", NEW c \in Commands,
         calls[c] # "running", NEW outcome \in Outcomes \cup {"awaiting"},
         outcome = "awaiting" => resync.step # "none",
         resync' = resync, RejectCall(c, outcome)
  PROVE  Core' /\ calls' = [calls EXCEPT ![c] = outcome]
<1>1. /\ calls' = [calls EXCEPT ![c] = outcome]
      /\ UNCHANGED <<waiter, generation, timers, stack, line, typed, scrolled>>
  BY DEF RejectCall
<1>2. \A d \in Calls : calls'[d] = IF d = c THEN outcome ELSE calls[d]
  BY <1>1 DEF ShellTypeOK
<1>3. outcome \notin {"idle", "resuming", "running"} /\ c # Ready /\ c \in Calls
  BY ShellIoAssumption DEF Outcomes, Ready, Calls
<1>4. NoPromiseIsLost'
  BY <1>1, <1>2, <1>3 DEF Core, NoPromiseIsLost, Calls, HasWaiter
<1>5. CallsFit'
  BY <1>1, <1>2, <1>3 DEF Core, CallsFit, Calls
<1> QED BY <1>1, <1>4, <1>5
       DEF Core, NoStaleTimer, NoCommandInResync, WaiterFits, OwnersFit, FramesOfWaiters, HasWaiter

\* The waiter stays and keeps its timeout; its other timers may come and go.
LEMMA SameWaiterKeeps ==
  ASSUME ShellTypeOK, Core, FramesOfWaiters',
         waiter'.mode = waiter.mode, waiter'.call = waiter.call, waiter'.gen = waiter.gen,
         \/ timers' \subseteq timers
         \/ HasWaiter /\ timers' \subseteq timers \cup {<<"settle", waiter.gen>>},
         HasWaiter => <<"timeout", waiter.gen>> \in timers',
         UNCHANGED <<calls, resync>>
  PROVE  Core'
<1>1. "settle" \notin Commands
  BY ShellIoAssumption
<1>2. HasWaiter' = HasWaiter
  BY DEF HasWaiter
<1>3. NoPromiseIsLost'
  BY <1>2 DEF Core, NoPromiseIsLost
<1>4. NoStaleTimer'
  BY <1>2 DEF Core, NoStaleTimer
<1>5. OwnersFit'
  BY <1>1 DEF Core, OwnersFit, FramesOfWaiters
<1> QED BY <1>2, <1>3, <1>4, <1>5 DEF Core, NoCommandInResync, WaiterFits, CallsFit

-----------------------------------------------------------------------------
(* What each action does to it.                                            *)

LEMMA WaitForReadyKeeps ==
  ASSUME IInv, WaitForReady
  PROVE  Core' /\ GoneFits'
<1> DEFINE g == generation + 1
<1>1. g \in Nat \ {0} /\ Ready \in Calls /\ Ready # "none" /\ Ready \notin Commands
  BY ShellIoAssumption DEF IInv, ShellTypeOK, Calls, Ready
<1>2. ~HasWaiter /\ resync.step = "none" /\ \A c \in Commands : calls[c] = "idle"
  <2>1. resync.step = "none" /\ \A c \in Commands : calls[c] = "idle"
    BY DEF WaitForReady, IInv, Core, CallsFit
  <2>2. waiter.mode # "ready" /\ waiter.mode # "resync"
    BY <1>1, <2>1 DEF WaitForReady, IInv, Core, NoPromiseIsLost, CallsFit, WaiterFits
  <2>3. waiter.mode # "command"
    BY <2>1 DEF IInv, Core, NoPromiseIsLost, WaiterFits, Calls
  <2> QED BY <2>1, <2>2, <2>3 DEF HasWaiter, IInv, ShellTypeOK, Waiters
<1>3. /\ calls' = [calls EXCEPT ![Ready] = "running"]
      /\ waiter' = NewWaiter("ready", Ready, g)
      /\ timers' = timers \cup Begun(waiter', line)
      /\ UNCHANGED <<stack, resync, detached, deadNotified, resyncFailed>>
  BY DEF WaitForReady
<1>4. waiter'.mode = "ready" /\ waiter'.call = Ready /\ waiter'.gen = g /\ HasWaiter'
  BY <1>1, <1>3, NewWaiterType DEF HasWaiter
<1>5. /\ <<"timeout", g>> \in timers'
      /\ timers' \subseteq {<<"timeout", g>>, <<"settle", g>>, <<"poke", g>>}
  BY <1>2, <1>3, <1>4, BegunTimers, ClearedIsEmpty DEF IInv, Core
<1>6. \A d \in Calls : calls'[d] = IF d = Ready THEN "running" ELSE calls[d]
  BY <1>3 DEF IInv, ShellTypeOK
<1> HIDE DEF g
<1>7. NoPromiseIsLost'
  BY <1>1, <1>2, <1>3, <1>4, <1>5, <1>6 DEF IInv, Core, NoPromiseIsLost, Calls, CallsFit
<1>8. CallsFit'
  BY <1>1, <1>2, <1>3, <1>6 DEF IInv, Core, CallsFit, Calls
<1>9. {"timeout", "settle", "poke"} \cap Commands = {}
  BY ShellIoAssumption
<1>10. NoStaleTimer' /\ NoCommandInResync' /\ WaiterFits' /\ OwnersFit'
  BY <1>1, <1>3, <1>4, <1>5, <1>9
     DEF IInv, Core, NoStaleTimer, NoCommandInResync, WaiterFits, OwnersFit, FramesOfWaiters
<1>11. GoneFits'
  BY <1>3 DEF WaitForReady, JobIsOver, OwnerHasActed, IInv, GoneFits
<1> QED BY <1>7, <1>8, <1>10, <1>11 DEF Core

\* runCommand, at its call and after the resync it waited for.
LEMMA RunCommandKeeps ==
  ASSUME IInv, NEW c \in Commands, RunCommand(c) \/ Resume(c)
  PROVE  Core' /\ GoneFits'
<1>1. /\ calls[Ready] = "ok" /\ calls[c] \in {"idle", "resuming"} /\ JobIsOver
      /\ UNCHANGED <<resync, identity, aborted, detached, deadNotified, resyncFailed>>
  BY DEF RunCommand, Resume, IInv, Core, CallsFit
<1>2. CASE \E outcome \in {"closed", "invalid"} : RejectCall(c, outcome)
  <2>1. Core'
    BY <1>1, <1>2, RejectCallKeeps DEF IInv, Outcomes
  <2> QED BY <1>1, <1>2, <2>1 DEF RejectCall, IInv, GoneFits, HasWaiter
<1>3. CASE resync.step # "none" /\ RejectCall(c, "awaiting")
  <2>1. Core'
    BY <1>1, <1>3, RejectCallKeeps DEF IInv
  <2> QED BY <1>1, <1>3, <2>1 DEF RejectCall, IInv, GoneFits, HasWaiter
<1>4. CASE ~detached /\ ~resyncFailed /\ ~HasWaiter /\ resync.step = "none" /\ StartCommand(c)
  <2>1. Core'
    BY <1>1, <1>4, StartCommandKeeps DEF IInv
  <2> QED BY <1>1, <1>4, <2>1 DEF JobIsOver, OwnerHasActed, IInv, GoneFits
<1>5. Resume(c) => resync.step = "none"
  BY DEF Resume, IInv, Core, CallsFit
<1> QED BY <1>2, <1>3, <1>4, <1>5 DEF RunCommand, Resume

LEMMA AbortKeeps ==
  ASSUME IInv, NEW c \in Commands, Abort(c)
  PROVE  Core' /\ GoneFits'
<1>1. UNCHANGED <<detached, deadNotified, resyncFailed>> /\ "closed" \in Outcomes
  BY DEF Abort, Outcomes
<1>2. CASE HasWaiter /\ \E t \in timers : t[1] = c
  <2>1. waiter.call = c /\ calls[c] = "running"
    BY <1>2 DEF IInv, Core, OwnersFit, NoPromiseIsLost, Calls
  <2>2. waiter.mode = "command"
    BY <1>2, <2>1, ShellIoAssumption DEF IInv, Core, WaiterFits, HasWaiter, ShellTypeOK, Waiters, Ready
  <2>3. FailAndResync("closed") /\ \A d \in Commands : calls[d] # "resuming"
    BY <1>2, <2>1, <2>2 DEF Abort
  <2>4. Core'
    BY <1>1, <2>2, <2>3, FailAndResyncKeeps
  <2> QED BY <1>1, <1>2, <2>4 DEF IInv, GoneFits
<1>3. CASE ~(HasWaiter /\ \E t \in timers : t[1] = c)
  <2>1. UNCHANGED <<waiter, generation, timers, stack, line, calls, resync, typed, scrolled>>
    BY <1>3 DEF Abort
  <2> QED BY <1>1, <2>1 DEF IInv, Core, NoPromiseIsLost, NoStaleTimer, NoCommandInResync,
                            WaiterFits, CallsFit, OwnersFit, FramesOfWaiters, GoneFits, HasWaiter
<1> QED BY <1>2, <1>3

LEMMA DataKeeps ==
  ASSUME IInv, NEW chunk, IsChunk(chunk), Data(chunk)
  PROVE  Core' /\ GoneFits'
<1> DEFINE l == IF chunk.newLine THEN chunk.text ELSE line \o chunk.text
           w == IF chunk.newLine THEN [waiter EXCEPT !.sameLine = FALSE] ELSE waiter
           seen == IF chunk.newLine \/ Contains(chunk.text, "more") THEN 0 ELSE scrolled
<1>1. l \in Seq(Pieces) /\ seen \in 0 .. 2
  BY DEF IsChunk, IInv, ShellTypeOK
<1>2. w \in Waiters /\ w.mode = waiter.mode /\ w.call = waiter.call /\ w.gen = waiter.gen
  BY DEF IInv, ShellTypeOK, Waiters
<1>3. /\ EvaluateWaiter(w, l, seen) /\ HasWaiter
      /\ UNCHANGED <<generation, calls, resync, detached, deadNotified, resyncFailed>>
  BY DEF Data
<1> HIDE DEF l, w, seen
<1>4. waiter'.mode = w.mode /\ waiter'.call = w.call /\ waiter'.gen = w.gen
  BY <1>1, <1>2, <1>3, EvaluateWaiterType DEF IInv
<1>5. /\ timers' \subseteq timers \cup {<<"settle", waiter.gen>>}
      /\ timers \ {<<"settle", waiter.gen>>} \subseteq timers'
  BY <1>2, <1>3 DEF EvaluateWaiter, AnswerPager, SettleTimer
<1>6. FramesOfWaiters'
  <2>1. CASE NoWrite
    BY <2>1 DEF NoWrite, IInv, Core, OwnersFit, FramesOfWaiters
  <2>2. CASE \E key \in {"space", "quit"} : Write(typed, key, TRUE, w.gen, PagerTail(l))
    <3>1. w.gen \in Nat \ {0}
      BY <1>2, <1>3 DEF IInv, Core, WaiterFits, Waiters
    <3> QED BY <2>2, <3>1, WriteFrames DEF IInv, Core
  <2> QED BY <1>3, <2>1, <2>2 DEF EvaluateWaiter, AnswerPager
<1>7. <<"timeout", waiter.gen>> \in timers'
  BY <1>3, <1>5 DEF IInv, Core, NoPromiseIsLost
<1>8. Core'
  BY <1>2, <1>3, <1>4, <1>5, <1>6, <1>7, SameWaiterKeeps DEF IInv
<1>9. GoneFits'
  BY <1>3, <1>4, <1>2 DEF IInv, GoneFits, HasWaiter
<1> QED BY <1>8, <1>9

LEMMA OverflowKeeps ==
  ASSUME IInv, Overflow
  PROVE  Core' /\ GoneFits'
<1>1. FailWaiter("limit") /\ Die /\ UNCHANGED <<stack, detached, resyncFailed>>
      /\ "limit" \in Outcomes
  BY DEF Overflow, Outcomes
<1>2. FramesOfWaiters'
  BY <1>1 DEF IInv, Core, OwnersFit, FramesOfWaiters
<1>3. Core' /\ ~HasWaiter'
  BY <1>1, <1>2, FailWaiterKeeps DEF IInv
<1> QED BY <1>1, <1>3 DEF Die, IInv, GoneFits

LEMMA PoppedFrames ==
  ASSUME IInv, stack # <<>>, stack' = Front(stack)
  PROVE  /\ FramesOfWaiters'
         /\ Last(stack).gen > 0
         /\ Last(stack).paging => Last(stack).key \in {"space", "quit"}
<1>1. stack \in Seq(Frames) /\ FramesOfWaiters
  BY DEF IInv, ShellTypeOK, Frames, Core, OwnersFit
<1>2. Len(stack) \in DOMAIN stack
  BY <1>1
<1>3. \A i \in DOMAIN stack' : i \in DOMAIN stack /\ stack'[i] = stack[i]
  BY <1>1, FrontType
<1> QED BY <1>1, <1>2, <1>3 DEF FramesOfWaiters, Last

LEMMA WriteReturnsKeeps ==
  ASSUME IInv, WriteReturns
  PROVE  Core' /\ GoneFits'
<1> DEFINE f == Last(stack)
           w == IF f.key = "quit" THEN [waiter EXCEPT !.quitSent = TRUE] ELSE waiter
<1>1. /\ stack # <<>> /\ stack' = Front(stack)
      /\ UNCHANGED <<calls, resync, detached, deadNotified, resyncFailed>>
  BY DEF WriteReturns
<1>2. FramesOfWaiters' /\ f.gen > 0
  BY <1>1, PoppedFrames
<1>3. w.mode = waiter.mode /\ w.call = waiter.call /\ w.gen = waiter.gen
  BY DEF IInv, ShellTypeOK, Waiters
<1>4. CASE f.paging /\ waiter.gen = f.gen
  <2>1. HasWaiter
    BY <1>2, <1>4 DEF IInv, Core, WaiterFits
  <2>2. /\ waiter' = w
        /\ timers' \subseteq timers \cup {<<"settle", w.gen>>}
        /\ timers \ {<<"settle", w.gen>>} \subseteq timers'
    BY <1>4 DEF WriteReturns, Paged, SettleTimer
  <2>3. <<"timeout", waiter.gen>> \in timers'
    BY <1>3, <2>1, <2>2 DEF IInv, Core, NoPromiseIsLost
  <2>4. Core'
    BY <1>1, <1>2, <1>3, <2>1, <2>2, <2>3, SameWaiterKeeps DEF IInv
  <2> QED BY <1>1, <2>1, <2>4 DEF IInv, GoneFits
<1>5. CASE ~(f.paging /\ waiter.gen = f.gen)
  <2>1. UNCHANGED <<waiter, timers>>
    BY <1>5 DEF WriteReturns
  <2>2. Core'
    BY <1>1, <1>2, <2>1, SameWaiterKeeps DEF IInv, Core, NoPromiseIsLost
  <2> QED BY <1>1, <2>1, <2>2 DEF IInv, GoneFits, HasWaiter
<1> QED BY <1>4, <1>5

LEMMA WriteThrowsKeeps ==
  ASSUME IInv, WriteThrows
  PROVE  Core' /\ GoneFits'
<1> DEFINE f == Last(stack)
<1>1. /\ stack # <<>> /\ stack' = Front(stack)
      /\ UNCHANGED <<detached, resyncFailed>>
      /\ "closed" \in Outcomes
  BY DEF WriteThrows, Outcomes
<1>2. FramesOfWaiters' /\ (f.paging => f.key \in {"space", "quit"})
  BY <1>1, PoppedFrames
<1>3. CASE f.key \in {"cr", "kill"}
  <2>1. UNCHANGED <<waiter, timers, calls, resync, deadNotified>>
    BY <1>2, <1>3 DEF WriteThrows
  <2>2. Core'
    BY <1>2, <2>1, SameWaiterKeeps DEF IInv, Core, NoPromiseIsLost
  <2> QED BY <1>1, <2>1, <2>2 DEF IInv, GoneFits, HasWaiter
<1>4. CASE f.key \notin {"cr", "kill"}
  <2>1. FailWaiter("closed") /\ (Die \/ deadNotified' = deadNotified)
    BY <1>4 DEF WriteThrows
  <2>2. Core' /\ ~HasWaiter'
    BY <1>1, <1>2, <2>1, FailWaiterKeeps DEF IInv
  <2>3. resyncFailed' => deadNotified'
    <3>1. CASE Die
      BY <1>1, <3>1 DEF Die, IInv, GoneFits
    <3>2. CASE deadNotified' = deadNotified
      BY <1>1, <3>2 DEF IInv, GoneFits
    <3> QED BY <2>1, <3>1, <3>2
  <2> QED BY <1>1, <2>2, <2>3 DEF GoneFits
<1> QED BY <1>3, <1>4

\* The settle timer: the waiter stays with a key on its way, or is done.
LEMMA SettleFiresKeeps ==
  ASSUME IInv, NEW g \in Waits, SettleFires(g)
  PROVE  Core' /\ GoneFits'
<1>1. UNCHANGED <<detached, deadNotified, resyncFailed>> /\ {"ok", "limit"} \subseteq Outcomes
  BY DEF SettleFires, Outcomes
<1>2. g > 0 /\ waiter.gen \in Nat
  BY DEF Waits, IInv, ShellTypeOK, Waiters
<1>3. CASE waiter.gen # g \/ ~MaySettle(waiter, line)
  <2>1. timers' = Unsettled(g) /\ UNCHANGED <<waiter, stack, calls, resync>>
    BY <1>3 DEF SettleFires, NoWrite
  <2>2. FramesOfWaiters'
    BY <2>1 DEF IInv, Core, OwnersFit, FramesOfWaiters
  <2>3. HasWaiter => <<"timeout", waiter.gen>> \in timers'
    BY <2>1 DEF Unsettled, IInv, Core, NoPromiseIsLost
  <2>4. timers' \subseteq timers
    BY <2>1 DEF Unsettled
  <2>5. Core'
    BY <2>1, <2>2, <2>3, <2>4, SameWaiterKeeps DEF IInv
  <2> QED BY <1>1, <2>1, <2>5 DEF IInv, GoneFits, HasWaiter
<1>4. CASE waiter.gen = g /\ MaySettle(waiter, line)
  <2>1. HasWaiter
    BY <1>2, <1>4 DEF IInv, Core, WaiterFits
  <2>2. ReadySettles \/ ResyncSettles \/ CommandSettles
    BY <1>4, <2>1 DEF SettleFires, HasWaiter, IInv, ShellTypeOK, Waiters
  <2>3. CASE (\E outcome \in {"ok", "limit"} : Finish(waiter, outcome)) /\ NoWrite
    <3>1. FramesOfWaiters'
      BY <2>3 DEF NoWrite, IInv, Core, OwnersFit, FramesOfWaiters
    <3>2. Core' /\ ~HasWaiter'
      BY <1>1, <2>1, <2>3, <3>1, FinishKeeps DEF IInv
    <3> QED BY <1>1, <3>2 DEF IInv, GoneFits
  <2>4. CASE /\ waiter' \in {[waiter EXCEPT !.confirming = TRUE, !.candidate = line],
                             [waiter EXCEPT !.killSent = TRUE]}
             /\ timers' \in {Unsettled(g) \ {<<"poke", g>>}, Unsettled(g)}
             /\ \E key \in {"cr", "kill"} : Write(typed, key, FALSE, g, NoLine)
             /\ UNCHANGED <<calls, resync>>
    <3>1. FramesOfWaiters'
      <4>1. g \in Nat \ {0}
        BY <1>2, <1>4
      <4>2. PICK key \in {"cr", "kill"} : Write(typed, key, FALSE, g, NoLine)
        BY <2>4
      <4> QED BY <4>1, <4>2, WriteFrames DEF IInv, Core
    <3>2. waiter'.mode = waiter.mode /\ waiter'.call = waiter.call /\ waiter'.gen = waiter.gen
      BY <2>4 DEF IInv, ShellTypeOK, Waiters
    <3>3. timers' \subseteq timers /\ <<"timeout", waiter.gen>> \in timers'
      BY <2>1, <2>4 DEF Unsettled, IInv, Core, NoPromiseIsLost
    <3>4. Core'
      BY <2>4, <3>1, <3>2, <3>3, SameWaiterKeeps DEF IInv
    <3> QED BY <1>1, <3>2, <3>4 DEF IInv, GoneFits, HasWaiter
  <2>5. CASE ReadySettles
    BY <1>4, <2>3, <2>4, <2>5 DEF ReadySettles, ReadyConfirms
  <2>6. CASE ResyncSettles
    BY <1>4, <2>3, <2>4, <2>6 DEF ResyncSettles
  <2>7. CASE CommandSettles
    BY <2>3, <2>7 DEF CommandSettles
  <2> QED BY <2>2, <2>5, <2>6, <2>7
<1> QED BY <1>3, <1>4

\* A waiter's time is up.
LEMMA ExpireKeeps ==
  ASSUME IInv, NEW g \in Waits, TurnIsOver, Expire(g)
  PROVE  Core' /\ GoneFits'
<1>1. UNCHANGED <<detached, deadNotified, resyncFailed>> /\ "timeout" \in Outcomes
  BY DEF Expire, Outcomes
<1>2. g > 0
  BY DEF Waits
<1>3. CASE waiter.mode = "command" /\ waiter.gen = g
  <2>1. Core'
    BY <1>1, <1>3, FailAndResyncKeeps DEF Expire, TurnIsOver
  <2>2. ~(detached \/ deadNotified)
    BY <1>3 DEF IInv, GoneFits, HasWaiter
  <2> QED BY <1>1, <2>1, <2>2 DEF IInv, GoneFits
<1>4. CASE waiter.mode # "command" /\ waiter.gen = g
  <2>1. HasWaiter
    BY <1>2, <1>4 DEF IInv, Core, WaiterFits
  <2>2. Finish(waiter, "timeout") /\ stack' = stack
    BY <1>4 DEF Expire
  <2>3. FramesOfWaiters'
    BY <2>2 DEF IInv, Core, OwnersFit, FramesOfWaiters
  <2>4. Core' /\ ~HasWaiter'
    BY <1>1, <2>1, <2>2, <2>3, FinishKeeps DEF IInv
  <2> QED BY <1>1, <2>4 DEF IInv, GoneFits
<1>5. CASE waiter.gen # g
  <2>1. timers' = Cleared(g) /\ UNCHANGED <<waiter, calls, resync, stack>>
    BY <1>5 DEF Expire
  <2>2. FramesOfWaiters'
    BY <2>1 DEF IInv, Core, OwnersFit, FramesOfWaiters
  <2>3. timers' \subseteq timers
    BY <2>1 DEF Cleared
  <2>4. HasWaiter => <<"timeout", waiter.gen>> \in timers'
    BY <1>5, <2>1 DEF Cleared, IInv, Core, NoPromiseIsLost
  <2>5. Core'
    BY <2>1, <2>2, <2>3, <2>4, SameWaiterKeeps DEF IInv
  <2> QED BY <1>1, <2>1, <2>5 DEF IInv, GoneFits, HasWaiter
<1> QED BY <1>3, <1>4, <1>5

LEMMA PokeFiresKeeps ==
  ASSUME IInv, NEW g \in Waits, PokeFires(g)
  PROVE  Core' /\ GoneFits'
<1>1. /\ timers' = timers \ {<<"poke", g>>}
      /\ Write(typed, "cr", FALSE, g, NoLine) \/ NoWrite
      /\ UNCHANGED <<waiter, calls, resync, detached, deadNotified, resyncFailed>>
  BY DEF PokeFires
<1>2. g \in Nat \ {0}
  BY DEF Waits, IInv, ShellTypeOK
<1>3. FramesOfWaiters'
  <2>1. CASE NoWrite
    BY <2>1 DEF NoWrite, IInv, Core, OwnersFit, FramesOfWaiters
  <2> QED BY <1>1, <1>2, <2>1, WriteFrames DEF IInv, Core
<1>4. timers' \subseteq timers /\ (HasWaiter => <<"timeout", waiter.gen>> \in timers')
  BY <1>1 DEF IInv, Core, NoPromiseIsLost
<1>5. Core'
  BY <1>1, <1>3, <1>4, SameWaiterKeeps DEF IInv
<1> QED BY <1>1, <1>5 DEF IInv, GoneFits, HasWaiter

\* The stream ends, or the session lets the shell go.
LEMMA EndKeeps ==
  ASSUME IInv, Closed \/ Detach
  PROVE  Core' /\ GoneFits'
<1>1. /\ FailWaiter("closed") /\ stack' = stack /\ UNCHANGED <<deadNotified, resyncFailed>>
      /\ "closed" \in Outcomes
  BY DEF Closed, Detach, FailWaiter, Outcomes
<1>2. FramesOfWaiters'
  BY <1>1 DEF IInv, Core, OwnersFit, FramesOfWaiters
<1>3. Core' /\ ~HasWaiter'
  BY <1>1, <1>2, FailWaiterKeeps DEF IInv
<1> QED BY <1>1, <1>3 DEF IInv, GoneFits

\* When the wait of a resync's step is over no waiter is in place.
LEMMA NobodyWaits ==
  ASSUME IInv, resync.outcome \in Outcomes
  PROVE  /\ ~HasWaiter /\ waiter.mode = "none" /\ waiter.gen = 0 /\ waiter.call = "none"
         /\ timers = {} /\ resync.step # "none" /\ calls[Ready] = "ok"
<1>1. resync.step # "none" /\ calls[Ready] = "ok"
  BY DEF IInv, Core, CallsFit, Outcomes
<1>2. waiter.mode # "resync"
  BY DEF IInv, Core, NoPromiseIsLost, Outcomes
<1>3. waiter.mode # "command"
  BY <1>1 DEF IInv, Core, NoCommandInResync
<1>4. waiter.mode # "ready"
  BY <1>1 DEF IInv, Core, WaiterFits, NoPromiseIsLost, Calls
<1>5. ~HasWaiter
  BY <1>2, <1>3, <1>4 DEF HasWaiter, IInv, ShellTypeOK, Waiters
<1> QED BY <1>1, <1>5, ClearedIsEmpty DEF IInv, Core, WaiterFits, HasWaiter

LEMMA ResyncContinuesKeeps ==
  ASSUME IInv, ResyncContinues
  PROVE  Core' /\ GoneFits'
<1>1. /\ JobIsOver /\ resync.outcome \in Outcomes /\ detached' = detached
      /\ resync.step # "none" /\ calls[Ready] = "ok"
  BY DEF ResyncContinues, IInv, Core, CallsFit, Outcomes
<1>2. ~HasWaiter
  BY <1>1, NobodyWaits
<1>3. waiter.gen = 0 /\ waiter.call = "none" /\ timers = {} /\ waiter.mode = "none"
  BY <1>1, NobodyWaits
<1>4. "none" \notin Calls /\ Ready \in Calls /\ Ready \notin Commands /\ Commands \subseteq Calls
      /\ "timeout" \notin Commands
  BY ShellIoAssumption DEF Calls, Ready
<1>5. {detached, deadNotified, resyncFailed} \subseteq BOOLEAN
  BY DEF IInv, ShellTypeOK
<1>6. CASE ResyncOver /\ (UNCHANGED <<resyncFailed, deadNotified>> \/ MarkResyncFailed)
  <2>1. /\ UNCHANGED <<waiter, timers, stack>>
        /\ resync'.step = "none" /\ resync'.outcome = "none"
    BY <1>6 DEF ResyncOver, NoResync
  <2>2. \A c \in Calls : calls'[c] = IF calls[c] = "awaiting" THEN "resuming" ELSE calls[c]
    BY <1>6 DEF ResyncOver
  <2>3. NoPromiseIsLost'
    BY <1>2, <1>3, <1>4, <2>1, <2>2 DEF IInv, Core, NoPromiseIsLost, HasWaiter
  <2>4. CallsFit'
    BY <1>1, <1>4, <2>1, <2>2 DEF CallsFit
  <2>5. NoStaleTimer' /\ NoCommandInResync' /\ WaiterFits' /\ OwnersFit'
    BY <1>2, <1>3, <2>1 DEF IInv, Core, NoStaleTimer, NoCommandInResync, WaiterFits, OwnersFit,
                            FramesOfWaiters, HasWaiter
  <2>6. GoneFits'
    BY <1>1, <1>2, <1>5, <1>6, <2>1 DEF MarkResyncFailed, Die, IInv, GoneFits, HasWaiter
  <2> QED BY <2>3, <2>4, <2>5, <2>6 DEF Core
<1>7. CASE ~detached /\ InterruptInstead
  <2> DEFINE g == generation + 1
             w == NewWaiter("resync", "none", g)
  <2>1. g \in Nat \ {0}
    BY DEF IInv, ShellTypeOK
  <2>2. /\ resync' = [step |-> "interrupt", outcome |-> "pending"]
        /\ waiter' = w
        /\ timers' = timers \cup Begun(w, line)
        /\ Write(NothingTyped, "interrupt", FALSE, g, NoLine)
        /\ UNCHANGED <<calls, resyncFailed, deadNotified>>
    BY <1>7 DEF InterruptInstead
  <2>3. waiter'.mode = "resync" /\ waiter'.call = "none" /\ waiter'.gen = g /\ HasWaiter'
        /\ w.mode = "resync" /\ w.call = "none" /\ w.gen = g
    BY <2>1, <2>2, NewWaiterType DEF HasWaiter
  <2>4. /\ <<"timeout", g>> \in timers'
        /\ timers' \subseteq {<<"timeout", g>>, <<"settle", g>>, <<"poke", g>>}
    BY <1>3, <2>2, <2>3, BegunTimers
  <2>5. FramesOfWaiters'
    BY <2>1, <2>2, WriteFrames DEF IInv, Core
  <2>6. resync'.step = "interrupt" /\ resync'.outcome = "pending"
    BY <2>2
  <2> HIDE DEF g, w
  <2>7. NoPromiseIsLost'
    BY <1>3, <1>4, <2>2, <2>3, <2>4, <2>6 DEF IInv, Core, NoPromiseIsLost
  <2>8. CallsFit'
    BY <1>1, <2>2, <2>6 DEF IInv, Core, CallsFit
  <2>9. {"timeout", "settle", "poke"} \cap Commands = {}
    BY ShellIoAssumption
  <2>10. NoStaleTimer' /\ NoCommandInResync' /\ WaiterFits' /\ OwnersFit'
    BY <1>4, <2>1, <2>3, <2>4, <2>5, <2>9
       DEF NoStaleTimer, NoCommandInResync, WaiterFits, OwnersFit, FramesOfWaiters
  <2>11. ~deadNotified /\ ~resyncFailed
    BY <1>1, <1>7 DEF JobIsOver, OwnerHasActed, IInv, GoneFits
  <2>12. GoneFits'
    BY <1>1, <1>7, <2>2, <2>11 DEF GoneFits
  <2> QED BY <2>7, <2>8, <2>10, <2>12 DEF Core
<1> QED BY <1>6, <1>7 DEF ResyncContinues

-----------------------------------------------------------------------------
(* The invariant holds.                                                    *)

LEMMA IInvInit == ShellInit => IInv
<1> SUFFICES ASSUME ShellInit PROVE IInv
  OBVIOUS
<1>1. ShellTypeOK
  BY TypeInit
<1>2. waiter.mode = "none" /\ waiter.call = "none" /\ waiter.gen = 0 /\ ~HasWaiter
  BY NoWaiterType DEF ShellInit, HasWaiter
<1>3. /\ timers = {} /\ stack = <<>> /\ \A c \in Calls : calls[c] = "idle"
      /\ resync.step = "none" /\ resync.outcome = "none" /\ ~resyncFailed
  BY DEF ShellInit, NoResync
<1>4. "none" \notin Calls /\ Commands \subseteq Calls
  BY ShellIoAssumption DEF Calls, Ready
<1>5. Core
  BY <1>2, <1>3, <1>4 DEF Core, NoPromiseIsLost, NoStaleTimer, NoCommandInResync, WaiterFits,
                          CallsFit, OwnersFit, FramesOfWaiters
<1> QED BY <1>1, <1>2, <1>3, <1>5 DEF IInv, GoneFits

LEMMA IInvStep == IInv /\ [AnyStep]_shellVars => IInv'
<1> SUFFICES ASSUME IInv, [AnyStep]_shellVars PROVE IInv'
  OBVIOUS
<1>1. ShellTypeOK'
  BY TypeStep DEF IInv, Core
<1>2. CASE AnyStep
  <2>1. Core' /\ GoneFits'
    BY <1>2, WaitForReadyKeeps, RunCommandKeeps, AbortKeeps, DataKeeps, OverflowKeeps,
       WriteReturnsKeeps, WriteThrowsKeeps, SettleFiresKeeps, ExpireKeeps, PokeFiresKeeps,
       EndKeeps, ResyncContinuesKeeps
       DEF AnyStep, TimeoutFires, IdleFires
  <2> QED BY <1>1, <2>1 DEF IInv
<1>3. CASE UNCHANGED shellVars
  <2>1. Core' /\ GoneFits'
    BY <1>3 DEF shellVars, IInv, Core, NoPromiseIsLost, NoStaleTimer, NoCommandInResync,
                WaiterFits, CallsFit, OwnersFit, FramesOfWaiters, GoneFits, HasWaiter
  <2> QED BY <1>1, <2>1 DEF IInv
<1> QED BY <1>2, <1>3

\* The inductive invariant holds of every behaviour of the shell.
THEOREM ShellInvariance == ShellSpec => []IInv
<1>1. IInv /\ [ShellNext]_shellVars => IInv'
  BY NextIsAnyStep, IInvStep DEF IInv
<1> QED BY <1>1, IInvInit, PTL DEF ShellSpec

\* Each variable keeps to its values (shell-io.ts:51-106).
THEOREM ShellTypeCorrect == ShellSpec => []ShellTypeOK
<1>1. IInv => ShellTypeOK
  BY DEF IInv
<1> QED BY <1>1, ShellInvariance, PTL

\* No promise of the shell is left without someone who will settle it: what
\* runs has the waiter in place and its timeout, what waits has a resync
\* under way (shell-io.ts:206-243, 592-660).
THEOREM EveryPromiseIsKept == ShellSpec => []NoPromiseIsLost
<1>1. IInv => NoPromiseIsLost
  BY DEF IInv, Core
<1> QED BY <1>1, ShellInvariance, PTL

\* However a wait ends, no timer of it and no listener stays behind to act
\* on the next one (clearTimers and finishWaiter).
THEOREM TimersDieWithTheirWaiter == ShellSpec => []NoStaleTimer
<1>1. IInv => NoStaleTimer
  BY DEF IInv, Core
<1> QED BY <1>1, ShellInvariance, PTL

\* A command is on the shell only when no resync is under way, also when it
\* arrived during one (runCommand).
THEOREM CommandsWaitForResync == ShellSpec => []NoCommandInResync
<1>1. IInv => NoCommandInResync
  BY DEF IInv, Core
<1> QED BY <1>1, ShellInvariance, PTL

-----------------------------------------------------------------------------
(* ShellIo implements CommandShell.                                        *)

gone == detached \/ deadNotified \/ resyncFailed

\* Nothing the command shell shows has changed.
Hidden ==
  UNCHANGED <<commandCall, resync.step # "none", detached \/ deadNotified \/ resyncFailed>>

Simulated == Abstract!CommandNext \/ Hidden

LEMMA CallNames ==
  /\ Commands \subseteq Calls /\ Ready \in Calls /\ Ready \notin Commands /\ "none" \notin Calls
BY ShellIoAssumption DEF Calls, Ready

LEMMA CommandCall ==
  ASSUME NEW c \in Commands
  PROVE  /\ commandCall[c] = IF calls[c] \in {"awaiting", "resuming"} THEN "waiting" ELSE calls[c]
         /\ commandCall'[c] = IF calls'[c] \in {"awaiting", "resuming"} THEN "waiting" ELSE calls'[c]
BY DEF commandCall

\* One command's promise changes.
LEMMA OneCall ==
  ASSUME ShellTypeOK, NEW c \in Commands, NEW x, calls' = [calls EXCEPT ![c] = x]
  PROVE  commandCall' = [commandCall EXCEPT ![c] = IF x \in {"awaiting", "resuming"}
                                                    THEN "waiting" ELSE x]
<1>1. \A d \in Commands : calls'[d] = IF d = c THEN x ELSE calls[d]
  BY CallNames DEF ShellTypeOK
<1> QED BY <1>1 DEF commandCall

\* The command that runs is the one the waiter in place waits for.
LEMMA RunningIsWaiter ==
  ASSUME IInv, NEW c \in Commands
  PROVE  commandCall[c] = "running" <=> waiter.mode = "command" /\ waiter.call = c
<1>1. commandCall[c] = "running" <=> calls[c] = "running"
  BY CommandCall
<1>2. calls[c] = "running" <=> waiter.call = c
  BY CallNames DEF IInv, Core, NoPromiseIsLost
<1>3. waiter.call = c => waiter.mode = "command"
  BY CallNames DEF IInv, Core, WaiterFits, HasWaiter, ShellTypeOK, Waiters
<1> QED BY <1>1, <1>2, <1>3

\* The waiter's promise is settled: the running command's, if it is a
\* command, and nobody's otherwise.
LEMMA FinishMaps ==
  ASSUME IInv, HasWaiter, NEW outcome \in Outcomes, Finish(waiter, outcome)
  PROVE  /\ resync'.step = resync.step
         /\ waiter.mode = "command" =>
              /\ waiter.call \in Commands
              /\ commandCall[waiter.call] = "running"
              /\ commandCall' = [commandCall EXCEPT ![waiter.call] = outcome]
         /\ waiter.mode # "command" => commandCall' = commandCall
         /\ commandCall' = [c \in Commands |-> IF commandCall[c] = "running" THEN outcome
                                                ELSE commandCall[c]]
<1>1. resync'.step = resync.step
  BY DEF Finish, IInv, ShellTypeOK
<1>2. outcome \notin {"awaiting", "resuming"}
  BY DEF Outcomes
<1>3. CASE waiter.mode = "command"
  <2>1. waiter.call \in Commands /\ commandCall[waiter.call] = "running"
    BY <1>3, RunningIsWaiter DEF IInv, Core, WaiterFits
  <2>2. calls' = [calls EXCEPT ![waiter.call] = outcome]
    BY <1>3 DEF Finish
  <2>3. commandCall' = [commandCall EXCEPT ![waiter.call] = outcome]
    BY <1>2, <2>1, <2>2, OneCall DEF IInv
  <2>4. \A c \in Commands : commandCall[c] = "running" <=> c = waiter.call
    BY <1>3, <2>1, RunningIsWaiter
  <2> QED BY <1>1, <1>3, <2>1, <2>3, <2>4 DEF commandCall
<1>4. CASE waiter.mode # "command"
  <2>1. \A c \in Commands : calls'[c] = calls[c]
    <3>1. CASE waiter.mode = "resync"
      BY <3>1 DEF Finish
    <3>2. CASE waiter.mode = "ready"
      BY <3>2, CallNames DEF Finish, IInv, Core, WaiterFits, ShellTypeOK
    <3> QED BY <1>4, <3>1, <3>2 DEF HasWaiter, IInv, ShellTypeOK, Waiters
  <2>2. commandCall' = commandCall
    BY <2>1 DEF commandCall
  <2>3. \A c \in Commands : commandCall[c] # "running"
    BY <1>4, RunningIsWaiter
  <2> QED BY <1>1, <1>4, <2>2, <2>3 DEF commandCall
<1> QED BY <1>3, <1>4

\* A wait ends and the shell is as it was.
LEMMA FinishSimulated ==
  ASSUME IInv, HasWaiter, NEW outcome \in Outcomes, Finish(waiter, outcome),
         waiter.mode = "command" => outcome \in {"ok", "limit", "closed"},
         UNCHANGED <<detached, deadNotified, resyncFailed>>
  PROVE  Simulated
<1>1. CASE waiter.mode = "command"
  <2>1. Abstract!End(waiter.call)
    BY <1>1, FinishMaps DEF Abstract!End, Abstract!Becomes
  <2> QED BY <1>1, <2>1, FinishMaps DEF Simulated, Abstract!CommandNext
<1>2. CASE waiter.mode # "command"
  BY <1>2, FinishMaps DEF Simulated, Hidden
<1> QED BY <1>1, <1>2

\* The shell goes.
LEMMA GoSimulated ==
  ASSUME IInv, NEW outcome \in {"limit", "closed"}, FailWaiter(outcome), gone'
  PROVE  Simulated
<1>1. outcome \in Outcomes
  BY DEF Outcomes
<1>2. /\ commandCall' = [c \in Commands |-> IF commandCall[c] = "running" THEN outcome
                                             ELSE commandCall[c]]
      /\ resync'.step = resync.step
  <2>1. CASE HasWaiter
    BY <1>1, <2>1, FinishMaps DEF FailWaiter
  <2>2. CASE ~HasWaiter
    <3>1. \A c \in Commands : commandCall[c] # "running"
      BY <2>2, RunningIsWaiter DEF HasWaiter
    <3> QED BY <2>2, <3>1 DEF FailWaiter, commandCall
  <2> QED BY <2>1, <2>2
<1>3. Abstract!Go(outcome)
  BY <1>2 DEF Abstract!Go, gone
<1> QED BY <1>3 DEF Simulated, Abstract!CommandNext

\* The command that runs is given up.
LEMMA GiveUpSimulated ==
  ASSUME IInv, waiter.mode = "command", NEW outcome \in {"timeout", "closed"},
         \A c \in Commands : calls[c] # "resuming", FailAndResync(outcome),
         UNCHANGED <<detached, deadNotified, resyncFailed>>
  PROVE  Simulated
<1>1. outcome \in Outcomes
  BY DEF Outcomes
<1>2. /\ waiter.call \in Commands
      /\ calls' = [calls EXCEPT ![waiter.call] = outcome]
      /\ resync'.step # "none"
  BY <1>1, FailAndResyncKeeps
<1>3. commandCall[waiter.call] = "running"
  BY <1>2, RunningIsWaiter
<1>4. commandCall' = [commandCall EXCEPT ![waiter.call] = outcome]
  BY <1>2, OneCall DEF IInv
<1>5. Abstract!GiveUp(waiter.call)
  BY <1>2, <1>3, <1>4 DEF Abstract!GiveUp, Abstract!Becomes
<1> QED BY <1>2, <1>5 DEF Simulated, Abstract!CommandNext

-----------------------------------------------------------------------------
(* The actions.                                                            *)

LEMMA WaitForReadySimulated ==
  ASSUME IInv, WaitForReady
  PROVE  Simulated
<1>1. \A c \in Commands : calls'[c] = calls[c]
  BY CallNames DEF WaitForReady, IInv, ShellTypeOK
<1>2. commandCall' = commandCall
  BY <1>1 DEF commandCall
<1> QED BY <1>2 DEF WaitForReady, Simulated, Hidden

LEMMA RunCommandSimulated ==
  ASSUME IInv, NEW c \in Commands, RunCommand(c) \/ Resume(c)
  PROVE  Simulated
<1>1. /\ calls[Ready] = "ok" /\ calls[c] \in {"idle", "resuming"} /\ JobIsOver
      /\ UNCHANGED <<resync, detached, deadNotified, resyncFailed>>
  BY DEF RunCommand, Resume, IInv, Core, CallsFit
<1>2. commandCall[c] \in {"idle", "waiting"} /\ (calls[c] = "idle" => commandCall[c] = "idle")
  BY <1>1, CommandCall
<1>3. ~detached /\ ~resyncFailed => ~gone
  BY <1>1 DEF JobIsOver, OwnerHasActed, gone
<1>4. CASE RejectCall(c, "closed")
  <2>1. commandCall' = [commandCall EXCEPT ![c] = "closed"]
    BY <1>4, OneCall DEF RejectCall, IInv
  <2>2. Abstract!Refuse(c)
    BY <1>1, <1>2, <2>1 DEF Abstract!Refuse, Abstract!Becomes
  <2> QED BY <2>2 DEF Simulated, Abstract!CommandNext
<1>5. CASE ~detached /\ ~resyncFailed /\ resync.step # "none" /\ RejectCall(c, "awaiting")
           /\ calls[c] = "idle"
  <2>1. commandCall' = [commandCall EXCEPT ![c] = "waiting"]
    BY <1>5, OneCall DEF RejectCall, IInv
  <2>2. Abstract!Await(c)
    BY <1>1, <1>2, <1>3, <1>5, <2>1 DEF Abstract!Await, Abstract!Becomes, gone
  <2> QED BY <2>2 DEF Simulated, Abstract!CommandNext
<1>6. CASE HasWaiter /\ resync.step = "none" /\ RejectCall(c, "invalid")
  <2>1. commandCall' = [commandCall EXCEPT ![c] = "invalid"]
    BY <1>6, OneCall DEF RejectCall, IInv
  <2>2. waiter.mode = "command"
    <3>1. waiter.mode # "ready"
      BY <1>1, CallNames DEF IInv, Core, WaiterFits, NoPromiseIsLost
    <3>2. waiter.mode # "resync"
      BY <1>6 DEF IInv, Core, CallsFit, NoPromiseIsLost
    <3> QED BY <1>6, <3>1, <3>2 DEF HasWaiter, IInv, ShellTypeOK, Waiters
  <2>3. waiter.call \in Commands /\ commandCall[waiter.call] = "running"
    BY <2>2, RunningIsWaiter DEF IInv, Core, WaiterFits
  <2>4. Abstract!Collide(c)
    BY <1>1, <1>2, <2>1, <2>3 DEF Abstract!Collide, Abstract!Becomes, Abstract!Running
  <2> QED BY <2>4 DEF Simulated, Abstract!CommandNext
<1>7. CASE /\ ~detached /\ ~resyncFailed /\ ~HasWaiter /\ resync.step = "none"
           /\ StartCommand(c)
  <2>1. commandCall' = [commandCall EXCEPT ![c] = "running"]
    BY <1>7, OneCall DEF StartCommand, IInv
  <2>2. \A d \in Commands : commandCall[d] # "running"
    BY <1>7, RunningIsWaiter DEF HasWaiter
  <2>3. Abstract!Start(c)
    BY <1>1, <1>2, <1>3, <1>7, <2>1, <2>2
       DEF Abstract!Start, Abstract!Becomes, Abstract!Running, gone
  <2> QED BY <2>3 DEF Simulated, Abstract!CommandNext
<1>8. Resume(c) => resync.step = "none"
  BY DEF Resume, IInv, Core, CallsFit
<1> QED BY <1>4, <1>5, <1>6, <1>7, <1>8 DEF RunCommand, Resume

LEMMA AbortSimulated ==
  ASSUME IInv, NEW c \in Commands, Abort(c)
  PROVE  Simulated
<1>1. UNCHANGED <<detached, deadNotified, resyncFailed>>
  BY DEF Abort
<1>2. CASE HasWaiter /\ \E t \in timers : t[1] = c
  <2>1. waiter.call = c /\ calls[c] = "running"
    BY <1>2, CallNames DEF IInv, Core, OwnersFit, NoPromiseIsLost
  <2>2. waiter.mode = "command"
    BY <2>1, CommandCall, RunningIsWaiter
  <2> QED BY <1>1, <1>2, <2>1, <2>2, GiveUpSimulated DEF Abort
<1>3. CASE ~(HasWaiter /\ \E t \in timers : t[1] = c)
  BY <1>1, <1>3 DEF Abort, Simulated, Hidden, commandCall
<1> QED BY <1>2, <1>3

LEMMA WriteThrowsSimulated ==
  ASSUME IInv, WriteThrows
  PROVE  Simulated
<1> DEFINE f == Last(stack)
<1>1. /\ stack # <<>> /\ stack' = Front(stack) /\ UNCHANGED <<detached, resyncFailed>>
      /\ IF f.paging THEN Die ELSE UNCHANGED deadNotified
  BY DEF WriteThrows
<1>2. f.paging => f.key \in {"space", "quit"}
  BY <1>1, PoppedFrames
<1>3. CASE f.key \in {"cr", "kill"}
  BY <1>1, <1>2, <1>3 DEF WriteThrows, Simulated, Hidden, commandCall
<1>4. CASE f.key \notin {"cr", "kill"} /\ f.paging
  <2>1. gone'
    BY <1>1, <1>4 DEF Die, gone
  <2> QED BY <1>4, <2>1, GoSimulated DEF WriteThrows
<1>5. CASE f.key \notin {"cr", "kill"} /\ ~f.paging
  <2>1. FailWaiter("closed") /\ UNCHANGED <<detached, deadNotified, resyncFailed>>
        /\ "closed" \in Outcomes
    BY <1>1, <1>5 DEF WriteThrows, Outcomes
  <2>2. CASE HasWaiter
    BY <2>1, <2>2, FinishSimulated DEF FailWaiter
  <2>3. CASE ~HasWaiter
    BY <2>1, <2>3 DEF FailWaiter, Simulated, Hidden, commandCall
  <2> QED BY <2>2, <2>3
<1> QED BY <1>3, <1>4, <1>5

LEMMA SettleFiresSimulated ==
  ASSUME IInv, NEW g \in Waits, SettleFires(g)
  PROVE  Simulated
<1>1. UNCHANGED <<detached, deadNotified, resyncFailed>> /\ {"ok", "limit"} \subseteq Outcomes
  BY DEF SettleFires, Outcomes
<1>2. CASE UNCHANGED <<calls, resync>>
  BY <1>1, <1>2 DEF Simulated, Hidden, commandCall
<1>3. CASE waiter.gen = g /\ \E outcome \in {"ok", "limit"} : Finish(waiter, outcome)
  <2>1. HasWaiter
    BY <1>3 DEF IInv, Core, WaiterFits, Waits
  <2> QED BY <1>1, <1>3, <2>1, FinishSimulated
<1>4. CASE waiter.gen = g /\ MaySettle(waiter, line)
  <2>1. HasWaiter
    BY <1>4 DEF IInv, Core, WaiterFits, Waits
  <2>2. ReadySettles \/ ResyncSettles \/ CommandSettles
    BY <1>4, <2>1 DEF SettleFires, HasWaiter, IInv, ShellTypeOK, Waiters
  <2> QED BY <1>2, <1>3, <1>4, <2>2 DEF ReadySettles, ReadyConfirms, ResyncSettles, CommandSettles
<1>5. CASE waiter.gen # g \/ ~MaySettle(waiter, line)
  BY <1>2, <1>5 DEF SettleFires
<1> QED BY <1>4, <1>5

LEMMA ExpireSimulated ==
  ASSUME IInv, NEW g \in Waits, TurnIsOver, Expire(g)
  PROVE  Simulated
<1>1. UNCHANGED <<detached, deadNotified, resyncFailed>> /\ "timeout" \in Outcomes
  BY DEF Expire, Outcomes
<1>2. CASE waiter.mode = "command" /\ waiter.gen = g
  BY <1>1, <1>2, GiveUpSimulated DEF Expire, TurnIsOver
<1>3. CASE waiter.mode # "command" /\ waiter.gen = g
  <2>1. HasWaiter
    BY <1>3 DEF IInv, Core, WaiterFits, Waits
  <2> QED BY <1>1, <1>3, <2>1, FinishSimulated DEF Expire
<1>4. CASE waiter.gen # g
  BY <1>1, <1>4 DEF Expire, Simulated, Hidden, commandCall
<1> QED BY <1>2, <1>3, <1>4

LEMMA ResyncContinuesSimulated ==
  ASSUME IInv, ResyncContinues
  PROVE  Simulated
<1>1. resync.outcome \in Outcomes /\ detached' = detached /\ resync.step # "none"
  BY DEF ResyncContinues, IInv, Core, CallsFit, Outcomes
<1>2. {detached, deadNotified, resyncFailed} \subseteq BOOLEAN
  BY DEF IInv, ShellTypeOK
<1>3. CASE ResyncOver /\ (UNCHANGED <<resyncFailed, deadNotified>> \/ MarkResyncFailed)
  <2>1. resync'.step = "none"
    BY <1>3 DEF ResyncOver, NoResync
  <2>2. \A c \in Commands : calls'[c] = IF calls[c] = "awaiting" THEN "resuming" ELSE calls[c]
    BY <1>3, CallNames DEF ResyncOver
  <2>3. commandCall' = commandCall
    BY <2>2 DEF commandCall
  <2>4. gone' \in {gone, TRUE}
    <3>1. CASE UNCHANGED <<resyncFailed, deadNotified>>
      BY <1>1, <3>1 DEF gone
    <3>2. CASE MarkResyncFailed
      BY <1>1, <1>2, <3>2 DEF MarkResyncFailed, Die, gone
    <3> QED BY <1>3, <3>1, <3>2
  <2>5. Abstract!ResyncEnds
    BY <1>1, <2>1, <2>3, <2>4 DEF Abstract!ResyncEnds, gone
  <2> QED BY <2>5 DEF Simulated, Abstract!CommandNext
<1>4. CASE InterruptInstead
  <2>1. resync'.step # "none" /\ UNCHANGED <<calls, resyncFailed, deadNotified>>
    BY <1>4 DEF InterruptInstead
  <2> QED BY <1>1, <2>1 DEF Simulated, Hidden, commandCall
<1> QED BY <1>3, <1>4 DEF ResyncContinues

-----------------------------------------------------------------------------

LEMMA InitSimulated == ShellInit => Abstract!CommandInit
<1> SUFFICES ASSUME ShellInit PROVE Abstract!CommandInit
  OBVIOUS
<1>1. resync.step = "none" /\ ~detached /\ ~deadNotified /\ ~resyncFailed
  BY DEF ShellInit, NoResync
<1>2. \A c \in Commands : calls[c] = "idle"
  BY CallNames DEF ShellInit
<1>3. commandCall = [c \in Commands |-> "idle"]
  BY <1>2 DEF commandCall
<1> QED BY <1>1, <1>3 DEF Abstract!CommandInit

LEMMA StepSimulated ==
  IInv /\ [ShellNext]_shellVars => [Abstract!CommandNext]_(Abstract!commandVars)
<1> SUFFICES ASSUME IInv, [ShellNext]_shellVars PROVE Simulated
  BY DEF Simulated, Hidden, Abstract!commandVars
<1>1. CASE UNCHANGED shellVars
  BY <1>1 DEF shellVars, Simulated, Hidden, commandCall
<1>2. CASE \/ \E chunk : Data(chunk)
           \/ WriteReturns
           \/ \E g \in Waits : PokeFires(g)
  <2>1. UNCHANGED <<calls, resync, detached, deadNotified, resyncFailed>>
    BY <1>2 DEF Data, WriteReturns, PokeFires
  <2> QED BY <2>1 DEF Simulated, Hidden, commandCall
<1>3. CASE Overflow
  <2>1. gone'
    BY <1>3 DEF Overflow, DataMayCome, Die, gone
  <2> QED BY <1>3, <2>1, GoSimulated DEF Overflow
<1>4. CASE Detach
  <2>1. gone'
    BY <1>4 DEF Detach, gone
  <2> QED BY <1>4, <2>1, GoSimulated DEF Detach
<1>5. CASE Closed
  BY <1>5, FinishSimulated DEF Closed, Outcomes
<1> QED BY <1>1, <1>2, <1>3, <1>4, <1>5, WaitForReadySimulated, RunCommandSimulated,
           AbortSimulated, WriteThrowsSimulated, SettleFiresSimulated, ExpireSimulated,
           ResyncContinuesSimulated
        DEF ShellNext, Repaint, TimeoutFires, IdleFires

\* The shell does what the client's queue relies on: one command at a time,
\* none while the shell is resynchronised after a timeout or an abort, none
\* once it is gone, and every one that is withdrawn refused (shell-io.ts,
\* runCommand to performResync).
THEOREM ShellImplementsCommandShell == ShellSpec => ImplementsCommandShell
BY InitSimulated, StepSimulated, ShellInvariance, PTL
   DEF ShellSpec, ImplementsCommandShell, Abstract!CommandSpec
=============================================================================
