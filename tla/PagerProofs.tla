---------------------------- MODULE PagerProofs ----------------------------
(***************************************************************************)
(* Theorems about what ShellIo types: the keys it sends once in a wait,    *)
(* and the pager markers it answers once.                                  *)
(***************************************************************************)
EXTENDS ShellProofs, FiniteSetTheorems

-----------------------------------------------------------------------------
(* The keys of one wait, when nothing is delivered inside a write().       *)

\* A q that the pager has typed and of which the write has not returned.
QuitOnItsWay ==
  /\ stack # <<>>
  /\ stack[1].key = "quit" /\ stack[1].paging /\ stack[1].gen = waiter.gen

\* Whoever would type a key again remembers that it is typed.
TypedFits ==
  /\ Len(stack) <= 1
  /\ KeysAreTypedOnce
  /\ waiter.mode = "resync" /\ typed["kill"] # 0 => waiter.killSent
  /\ waiter.mode = "command" /\ typed["quit"] # 0 => waiter.quitSent \/ QuitOnItsWay

\* A write that begins when no other is under way.
LEMMA FirstWrite ==
  ASSUME NEW already \in [Keys -> 0 .. 2], NEW key \in Keys, NEW paging \in BOOLEAN, NEW g, NEW before,
         Write(already, key, paging, g, before), stack = <<>>
  PROVE  /\ Len(stack') = 1
         /\ stack' # <<>>
         /\ stack'[1].key = key /\ (stack'[1].paging <=> paging) /\ stack'[1].gen = g
         /\ \A k \in Keys : typed'[k] = IF k = key THEN Count(already[k]) ELSE already[k]
BY DEF Write

LEMMA NextWrite ==
  ASSUME IInv, NEW key \in {"cr", "kill", "space", "quit"}, NEW paging \in BOOLEAN, NEW g,
         NEW before, Write(typed, key, paging, g, before), stack = <<>>
  PROVE  /\ Len(stack') = 1
         /\ stack' # <<>>
         /\ stack'[1].key = key /\ (stack'[1].paging <=> paging) /\ stack'[1].gen = g
         /\ \A k \in Keys : typed'[k] = IF k = key THEN Count(typed[k]) ELSE typed[k]
<1>1. typed \in [Keys -> 0 .. 2] /\ key \in Keys
  BY DEF IInv, ShellTypeOK, Keys
<1> QED BY <1>1, FirstWrite

LEMMA NewWaiterIs ==
  ASSUME NEW mode, NEW call, NEW g
  PROVE  LET w == NewWaiter(mode, call, g)
         IN /\ w.mode = mode /\ w.call = call /\ w.gen = g
            /\ ~w.sameLine /\ ~w.quitSent /\ ~w.killSent
BY DEF NewWaiter

\* A wait begins with its key.
LEMMA NewWaitKeys ==
  ASSUME NEW key \in Keys, NEW g, stack = <<>>, Write(NothingTyped, key, FALSE, g, NoLine),
         waiter'.mode = "resync" => key # "kill",
         waiter'.mode = "command" => key # "quit"
  PROVE  TypedFits'
<1>1. /\ Len(stack') = 1
      /\ \A k \in Keys : typed'[k] = IF k = key THEN Count(NothingTyped[k]) ELSE NothingTyped[k]
  BY FirstWrite, NothingTypedType
<1>2. \A k \in Keys : typed'[k] = IF k = key THEN 1 ELSE 0
  BY <1>1 DEF NothingTyped, Count
<1>3. {"quit", "interrupt", "kill", "command"} \subseteq Keys
  BY DEF Keys
<1> QED BY <1>1, <1>2, <1>3 DEF TypedFits, KeysAreTypedOnce

\* The wait goes on, or ends, and nothing is typed.
LEMMA NothingNewTyped ==
  ASSUME TypedFits, UNCHANGED <<stack, typed>>,
         \/ waiter'.mode \notin {"resync", "command"}
         \/ /\ waiter'.mode = waiter.mode /\ waiter'.gen = waiter.gen
            /\ waiter'.killSent = waiter.killSent /\ waiter'.quitSent = waiter.quitSent
  PROVE  TypedFits'
BY DEF TypedFits, KeysAreTypedOnce, QuitOnItsWay

LEMMA FinishTypes ==
  ASSUME TypedFits, NEW outcome, FailWaiter(outcome), UNCHANGED <<stack, typed>>
  PROVE  TypedFits'
<1>1. waiter' = NoWaiter \/ waiter' = waiter
  BY DEF FailWaiter, Finish
<1> QED BY <1>1, NothingNewTyped, NoWaiterType

\* A command that fails has the resync's key typed.
LEMMA FailAndResyncTypes ==
  ASSUME IInv, TypedFits, NEW outcome, stack = <<>>, HasWaiter, FailAndResync(outcome)
  PROVE  TypedFits'
<1>1. CASE BeginResync(waiter, outcome)
  <2>1. PICK key \in {"quit", "interrupt"} :
          Write(NothingTyped, key, FALSE, generation + 1, NoLine)
    BY <1>1 DEF BeginResync
  <2>2. waiter'.mode = "resync"
    BY <1>1 DEF BeginResync, NewWaiter
  <2>3. key \in Keys
    BY DEF Keys
  <2> QED BY <2>1, <2>2, <2>3, NewWaitKeys
<1>2. CASE Finish(waiter, outcome) /\ UNCHANGED <<line, stack, typed, scrolled>>
  BY <1>2, FinishTypes DEF FailWaiter
<1> QED BY <1>1, <1>2 DEF FailAndResync

LEMMA CallTypes ==
  ASSUME IInv, TypedFits, stack = <<>>,
         WaitForReady \/ \E c \in Commands : RunCommand(c) \/ Resume(c) \/ Abort(c)
  PROVE  TypedFits'
<1>1. CASE WaitForReady
  <2>1. typed' = NothingTyped /\ stack' = <<>>
    BY <1>1 DEF WaitForReady
  <2>2. \A k \in Keys : typed'[k] = 0
    BY <2>1 DEF NothingTyped
  <2>3. {"quit", "interrupt", "kill", "command"} \subseteq Keys
    BY DEF Keys
  <2> QED BY <2>1, <2>2, <2>3 DEF TypedFits, KeysAreTypedOnce
<1>2. ASSUME NEW c \in Commands, RunCommand(c) \/ Resume(c) PROVE TypedFits'
  <2>1. CASE StartCommand(c)
    <3>1. waiter'.mode = "command" /\ Write(NothingTyped, "command", FALSE, generation + 1, NoLine)
      BY <2>1 DEF StartCommand, NewWaiter
    <3>2. "command" \in Keys
      BY DEF Keys
    <3> QED BY <3>1, <3>2, NewWaitKeys
  <2>2. CASE UNCHANGED <<waiter, stack, typed>>
    BY <2>2, NothingNewTyped
  <2> QED BY <1>2, <2>1, <2>2 DEF RunCommand, Resume, RejectCall
<1>3. ASSUME NEW c \in Commands, Abort(c) PROVE TypedFits'
  <2>1. CASE HasWaiter /\ FailAndResync("closed")
    BY <2>1, FailAndResyncTypes
  <2>2. CASE HasWaiter /\ Finish(waiter, "closed") /\ UNCHANGED <<stack, typed>>
    BY <2>2, FinishTypes DEF FailWaiter
  <2>3. CASE UNCHANGED <<waiter, stack, typed>>
    BY <2>3, NothingNewTyped
  <2> QED BY <1>3, <2>1, <2>2, <2>3 DEF Abort
<1> QED BY <1>1, <1>2, <1>3

\* onData: the pager's q only when quitSent does not say that it is typed.
LEMMA DataTypes ==
  ASSUME IInv, TypedFits, stack = <<>>, NEW chunk, IsChunk(chunk), Data(chunk)
  PROVE  TypedFits'
<1> DEFINE l == IF chunk.newLine THEN chunk.text ELSE line \o chunk.text
           w == IF chunk.newLine THEN [waiter EXCEPT !.sameLine = FALSE] ELSE waiter
           seen == IF chunk.newLine \/ Contains(chunk.text, "more") THEN 0 ELSE scrolled
           tail == PagerTail(l)
           answered == [w EXCEPT !.answeredTail = tail, !.sameLine = TRUE]
<1>1. /\ w \in Waiters /\ w.mode = waiter.mode /\ w.gen = waiter.gen
      /\ w.killSent = waiter.killSent /\ w.quitSent = waiter.quitSent
  BY DEF IInv, ShellTypeOK, Waiters
<1>2. EvaluateWaiter(w, l, seen)
  BY DEF Data
<1>3. typed \in [Keys -> 0 .. 2] /\ {"quit", "space", "kill", "interrupt", "command"} \subseteq Keys
  BY DEF IInv, ShellTypeOK, Keys
<1> HIDE DEF w, l, seen, tail
<1>4. /\ answered.mode = w.mode /\ answered.gen = w.gen
      /\ answered.killSent = w.killSent /\ answered.quitSent = w.quitSent
  BY <1>1 DEF Waiters
<1>5. CASE NoWrite /\ waiter' \in {w, answered, [w EXCEPT !.answeredTail = NoLine, !.sameLine = TRUE]}
  <2>1. /\ waiter'.mode = w.mode /\ waiter'.gen = w.gen
        /\ waiter'.killSent = w.killSent /\ waiter'.quitSent = w.quitSent
    BY <1>1, <1>4, <1>5 DEF Waiters
  <2> QED BY <1>1, <1>5, <2>1, NothingNewTyped DEF NoWrite
<1>6. CASE w.mode = "command" /\ waiter' = [answered EXCEPT !.pages = @ + 1]
           /\ Write(typed, "space", TRUE, w.gen, tail)
  <2>1. waiter'.mode = "command" /\ waiter'.quitSent = w.quitSent
    BY <1>1, <1>4, <1>6 DEF Waiters
  <2>2. Len(stack') = 1 /\ \A k \in Keys : k # "space" => typed'[k] = typed[k]
    BY <1>6, NextWrite
  <2> QED BY <1>1, <1>3, <1>6, <2>1, <2>2 DEF TypedFits, KeysAreTypedOnce, QuitOnItsWay
<1>7. CASE w.mode = "command" /\ ~w.quitSent /\ waiter' = answered
           /\ Write(typed, "quit", TRUE, w.gen, tail)
  <2>1. waiter'.mode = "command" /\ waiter'.gen = w.gen
    BY <1>4, <1>7
  <2>2. /\ Len(stack') = 1 /\ stack' # <<>>
        /\ stack'[1].key = "quit" /\ stack'[1].paging /\ stack'[1].gen = w.gen
        /\ \A k \in Keys : typed'[k] = IF k = "quit" THEN Count(typed[k]) ELSE typed[k]
    BY <1>7, NextWrite
  <2>3. typed["quit"] = 0
    BY <1>1, <1>7 DEF TypedFits, QuitOnItsWay
  <2> QED BY <1>3, <2>1, <2>2, <2>3 DEF TypedFits, KeysAreTypedOnce, QuitOnItsWay, Count
<1> QED BY <1>2, <1>5, <1>6, <1>7 DEF EvaluateWaiter, AnswerPager, tail

LEMMA PoppedStack ==
  ASSUME IInv, TypedFits, stack # <<>>, stack' = Front(stack)
  PROVE  stack' = <<>> /\ Last(stack) = stack[1]
<1>1. stack \in Seq(Frames) /\ Len(stack) <= 1
  BY DEF IInv, ShellTypeOK, Frames, TypedFits
<1> QED BY <1>1 DEF Front, Last

\* The write has returned: quitSent tells of the q.
LEMMA WriteReturnsTypes ==
  ASSUME IInv, TypedFits, WriteReturns
  PROVE  TypedFits'
<1> DEFINE f == Last(stack)
           w == IF f.key = "quit" THEN [waiter EXCEPT !.quitSent = TRUE] ELSE waiter
<1>1. /\ stack # <<>> /\ typed' = typed
      /\ waiter' = IF f.paging /\ waiter.gen = f.gen THEN w ELSE waiter
  BY DEF WriteReturns
<1>2. stack' = <<>> /\ f = stack[1]
  BY PoppedStack DEF WriteReturns
<1>3. w.mode = waiter.mode /\ w.killSent = waiter.killSent
      /\ w.quitSent = (f.key = "quit" \/ waiter.quitSent)
  BY DEF IInv, ShellTypeOK, Waiters
<1> QED BY <1>1, <1>2, <1>3 DEF TypedFits, KeysAreTypedOnce, QuitOnItsWay

LEMMA WriteThrowsTypes ==
  ASSUME IInv, TypedFits, WriteThrows
  PROVE  TypedFits'
<1>1. stack # <<>> /\ typed' = typed
  BY DEF WriteThrows
<1>2. stack' = <<>> /\ Last(stack) = stack[1]
  BY PoppedStack DEF WriteThrows
<1>3. CASE Last(stack).key \in {"cr", "kill"}
  BY <1>1, <1>2, <1>3 DEF WriteThrows, TypedFits, KeysAreTypedOnce, QuitOnItsWay
<1>4. CASE Last(stack).key \notin {"cr", "kill"}
  <2>1. ~HasWaiter'
    BY <1>4, NoWaiterType DEF WriteThrows, FailWaiter, Finish, HasWaiter
  <2> QED BY <1>1, <1>2, <2>1 DEF TypedFits, KeysAreTypedOnce, HasWaiter
<1> QED BY <1>3, <1>4

\* The settle timer: a line is killed only if killSent does not say that one
\* has been.
LEMMA SettleFiresTypes ==
  ASSUME IInv, TypedFits, NEW g \in Waits, SettleFires(g)
  PROVE  TypedFits'
<1>1. stack = <<>>
  BY DEF SettleFires, TurnIsOver, JobIsOver
<1>2. typed \in [Keys -> 0 .. 2] /\ {"quit", "cr", "kill", "interrupt", "command"} \subseteq Keys
  BY DEF IInv, ShellTypeOK, Keys
<1>3. CASE UNCHANGED <<waiter, stack, typed>>
  BY <1>3, NothingNewTyped
<1>4. CASE (\E outcome \in {"ok", "limit"} : Finish(waiter, outcome)) /\ NoWrite
  <2>1. waiter'.mode = "none" /\ UNCHANGED <<stack, typed>>
    BY <1>4, NoWaiterType DEF Finish, NoWrite
  <2> QED BY <2>1, NothingNewTyped
<1>5. CASE waiter.mode = "ready" /\ ReadyConfirms
  <2>1. waiter'.mode = "ready"
    BY <1>5 DEF ReadyConfirms, IInv, ShellTypeOK, Waiters
  <2>2. Len(stack') = 1 /\ \A k \in Keys : k # "cr" => typed'[k] = typed[k]
    BY <1>1, <1>5, NextWrite DEF ReadyConfirms
  <2> QED BY <1>2, <2>1, <2>2 DEF TypedFits, KeysAreTypedOnce
<1>6. CASE /\ waiter.mode = "resync" /\ ~waiter.killSent
           /\ waiter' = [waiter EXCEPT !.killSent = TRUE]
           /\ Write(typed, "kill", FALSE, waiter.gen, NoLine)
  <2>1. waiter'.mode = "resync" /\ waiter'.killSent
    BY <1>6 DEF IInv, ShellTypeOK, Waiters
  <2>2. /\ Len(stack') = 1
        /\ \A k \in Keys : typed'[k] = IF k = "kill" THEN Count(typed[k]) ELSE typed[k]
    BY <1>1, <1>6, NextWrite
  <2>3. typed["kill"] = 0
    BY <1>6 DEF TypedFits
  <2> QED BY <1>2, <2>1, <2>2, <2>3 DEF TypedFits, KeysAreTypedOnce, Count
<1>7. waiter.gen = g => HasWaiter
  BY DEF Waits, IInv, Core, WaiterFits
<1>8. CASE waiter.gen = g /\ MaySettle(waiter, line)
  <2>1. waiter.mode \in {"ready", "resync", "command"}
    BY <1>7, <1>8 DEF HasWaiter, IInv, ShellTypeOK, Waiters
  <2>2. CASE waiter.mode = "ready"
    BY <1>4, <1>5, <1>8, <2>2 DEF SettleFires, ReadySettles
  <2>3. CASE waiter.mode = "resync"
    BY <1>4, <1>6, <1>8, <2>3 DEF SettleFires, ResyncSettles, MaySettle
  <2>4. CASE waiter.mode = "command"
    BY <1>4, <1>8, <2>4 DEF SettleFires, CommandSettles
  <2> QED BY <2>1, <2>2, <2>3, <2>4
<1> QED BY <1>3, <1>8 DEF SettleFires, NoWrite

LEMMA TimerTypes ==
  ASSUME IInv, TypedFits, NEW g \in Waits, TurnIsOver, Expire(g) \/ PokeFires(g)
  PROVE  TypedFits'
<1>1. stack = <<>> /\ g # 0
  BY DEF TurnIsOver, JobIsOver, Waits
<1>2. CASE UNCHANGED <<waiter, stack, typed>>
  BY <1>2, NothingNewTyped
<1>3. CASE HasWaiter /\ FailAndResync("timeout")
  BY <1>1, <1>3, FailAndResyncTypes
<1>4. CASE waiter.gen = g /\ Finish(waiter, "timeout") /\ UNCHANGED <<stack, typed>>
  <2>1. HasWaiter
    BY <1>1, <1>4 DEF IInv, Core, WaiterFits
  <2> QED BY <1>4, <2>1, FinishTypes DEF FailWaiter
<1>5. CASE waiter' = waiter /\ Write(typed, "cr", FALSE, g, NoLine)
  <2>1. typed \in [Keys -> 0 .. 2] /\ {"quit", "cr", "kill", "interrupt", "command"} \subseteq Keys
    BY DEF IInv, ShellTypeOK, Keys
  <2>2. Len(stack') = 1 /\ \A k \in Keys : k # "cr" => typed'[k] = typed[k]
    BY <1>1, <1>5, NextWrite
  <2> QED BY <1>1, <1>5, <2>1, <2>2 DEF TypedFits, KeysAreTypedOnce, QuitOnItsWay
<1> QED BY <1>2, <1>3, <1>4, <1>5 DEF Expire, PokeFires, NoWrite, HasWaiter

LEMMA ResyncContinuesTypes ==
  ASSUME TypedFits, ResyncContinues
  PROVE  TypedFits'
<1>1. stack = <<>>
  BY DEF ResyncContinues, JobIsOver
<1>2. CASE ResyncOver
  BY <1>2, NothingNewTyped DEF ResyncOver
<1>3. CASE InterruptInstead
  <2>1. waiter'.mode = "resync" /\ Write(NothingTyped, "interrupt", FALSE, generation + 1, NoLine)
    BY <1>3 DEF InterruptInstead, NewWaiter
  <2>2. "interrupt" \in Keys
    BY DEF Keys
  <2> QED BY <1>1, <2>1, <2>2, NewWaitKeys
<1> QED BY <1>2, <1>3 DEF ResyncContinues

LEMMA TypedInit == ShellInit => TypedFits
<1> SUFFICES ASSUME ShellInit PROVE TypedFits
  OBVIOUS
<1>1. stack = <<>> /\ typed = NothingTyped
  BY DEF ShellInit
<1>2. \A k \in Keys : typed[k] = 0
  BY <1>1 DEF NothingTyped
<1>3. {"quit", "interrupt", "kill", "command"} \subseteq Keys
  BY DEF Keys
<1> QED BY <1>1, <1>2, <1>3 DEF TypedFits, KeysAreTypedOnce

LEMMA TypedStep ==
  ASSUME MaxDepth = 0, IInv, TypedFits, [AnyStep]_shellVars
  PROVE  TypedFits'
<1>1. CASE UNCHANGED shellVars
  BY <1>1, NothingNewTyped DEF shellVars
<1>2. ASSUME DataMayCome PROVE stack = <<>>
  <2>1. Len(stack) <= 0 => stack = <<>>
    BY DEF IInv, ShellTypeOK
  <2> QED BY <1>2, <2>1 DEF DataMayCome
<1>3. ASSUME NEW chunk, IsChunk(chunk), Data(chunk) PROVE TypedFits'
  BY <1>2, <1>3, DataTypes DEF Data
<1>4. CASE WaitForReady \/ \E c \in Commands : RunCommand(c) \/ Resume(c) \/ Abort(c)
  BY <1>4, CallTypes DEF WaitForReady, RunCommand, Resume, Abort, JobIsOver
<1>5. CASE Overflow \/ Closed \/ Detach
  <2>1. FailWaiter("limit") \/ FailWaiter("closed")
    BY <1>5 DEF Overflow, Closed, Detach, FailWaiter
  <2> QED BY <1>5, <2>1, FinishTypes DEF Overflow, Closed, Detach
<1>6. CASE WriteReturns \/ WriteThrows
  BY <1>6, WriteReturnsTypes, WriteThrowsTypes
<1>7. CASE \E g \in Waits : SettleFires(g) \/ TimeoutFires(g) \/ IdleFires(g) \/ PokeFires(g)
  BY <1>7, SettleFiresTypes, TimerTypes DEF TimeoutFires, IdleFires, PokeFires
<1> QED BY <1>1, <1>3, <1>4, <1>5, <1>6, <1>7, ResyncContinuesTypes
       DEF AnyStep

\* When no data is delivered inside a write(), each wait types one q, one
\* Ctrl-C, one Ctrl-U and one command at most: quitSent and killSent are set
\* before anything could ask for another (pager.ts:47, shell-io.ts:525-545).
THEOREM KeysTypedOnce ==
  ASSUME MaxDepth = 0
  PROVE  ShellSpec => []KeysAreTypedOnce
<1>1. ShellInit => IInv /\ TypedFits
  BY IInvInit, TypedInit
<1>2. IInv /\ TypedFits /\ [ShellNext]_shellVars => IInv' /\ TypedFits'
  <2>1. IInv /\ [ShellNext]_shellVars => [AnyStep]_shellVars
    BY NextIsAnyStep DEF IInv
  <2> QED BY <2>1, IInvStep, TypedStep
<1>3. TypedFits => KeysAreTypedOnce
  BY DEF TypedFits
<1> QED BY <1>1, <1>2, <1>3, PTL DEF ShellSpec

-----------------------------------------------------------------------------
(* The keys that a reply inside write() cannot have typed again.           *)

OtherKeysTypedOnce == \A k \in {"interrupt", "kill", "command"} : typed[k] <= 1

OthersFit ==
  /\ OtherKeysTypedOnce
  /\ waiter.mode = "resync" /\ typed["kill"] # 0 => waiter.killSent

\* A wait that begins with its key.
LEMMA NewWaitOthers ==
  ASSUME NEW key \in Keys, NEW g, Write(NothingTyped, key, FALSE, g, NoLine), key # "kill"
  PROVE  OthersFit'
<1>1. \A k \in Keys : typed'[k] = IF k = key THEN 1 ELSE 0
  BY DEF Write, NothingTyped, Count
<1>2. {"interrupt", "kill", "command"} \subseteq Keys
  BY DEF Keys
<1> QED BY <1>1, <1>2 DEF OthersFit, OtherKeysTypedOnce

\* A wait that goes on, or ends.
LEMMA SameOthers ==
  ASSUME IInv, OthersFit,
         \/ typed' = typed
         \/ \E key \in {"cr", "space", "quit"} : \E paging, g, before :
              Write(typed, key, paging, g, before),
         \/ waiter'.mode # "resync"
         \/ waiter'.mode = waiter.mode /\ waiter'.killSent = waiter.killSent
  PROVE  OthersFit'
<1>1. typed \in [Keys -> 0 .. 2] /\ {"interrupt", "kill", "command"} \subseteq Keys
  BY DEF IInv, ShellTypeOK, Keys
<1>2. \A k \in {"interrupt", "kill", "command"} : typed'[k] = typed[k]
  BY <1>1 DEF Write
<1> QED BY <1>2 DEF OthersFit, OtherKeysTypedOnce

LEMMA FailureOthers ==
  ASSUME IInv, OthersFit, NEW outcome,
         FailAndResync(outcome) \/ (FailWaiter(outcome) /\ UNCHANGED typed)
  PROVE  OthersFit'
<1>1. CASE BeginResync(waiter, outcome)
  <2>1. PICK key \in {"quit", "interrupt"} : Write(NothingTyped, key, FALSE, generation + 1, NoLine)
    BY <1>1 DEF BeginResync
  <2>2. key \in Keys
    BY DEF Keys
  <2> QED BY <2>1, <2>2, NewWaitOthers
<1>2. CASE Finish(waiter, outcome) /\ UNCHANGED typed
  <2>1. waiter'.mode = "none"
    BY <1>2, NoWaiterType DEF Finish
  <2> QED BY <1>2, <2>1, SameOthers
<1>3. CASE UNCHANGED <<waiter, typed>>
  BY <1>3, SameOthers
<1> QED BY <1>1, <1>2, <1>3 DEF FailAndResync, FailWaiter

LEMMA CallOthers ==
  ASSUME IInv, OthersFit,
         WaitForReady \/ \E c \in Commands : RunCommand(c) \/ Resume(c) \/ Abort(c)
  PROVE  OthersFit'
<1>1. CASE WaitForReady
  <2>1. \A k \in {"interrupt", "kill", "command"} : typed'[k] = 0
    BY <1>1 DEF WaitForReady, NothingTyped, Keys
  <2> QED BY <2>1 DEF OthersFit, OtherKeysTypedOnce
<1>2. ASSUME NEW c \in Commands, RunCommand(c) \/ Resume(c) PROVE OthersFit'
  <2>1. CASE StartCommand(c)
    BY <2>1, NewWaitOthers DEF StartCommand, Keys
  <2>2. CASE UNCHANGED <<waiter, typed>>
    BY <2>2, SameOthers
  <2> QED BY <1>2, <2>1, <2>2 DEF RunCommand, Resume, RejectCall
<1>3. ASSUME NEW c \in Commands, Abort(c) PROVE OthersFit'
  <2>1. CASE HasWaiter /\ Finish(waiter, "closed") /\ UNCHANGED typed
    BY <2>1, FailureOthers DEF FailWaiter
  <2>2. CASE UNCHANGED <<waiter, typed>>
    BY <2>2, SameOthers
  <2> QED BY <1>3, <2>1, <2>2, FailureOthers DEF Abort
<1> QED BY <1>1, <1>2, <1>3

LEMMA DataOthers ==
  ASSUME IInv, OthersFit, NEW chunk, IsChunk(chunk), Data(chunk)
  PROVE  OthersFit'
<1> DEFINE l == IF chunk.newLine THEN chunk.text ELSE line \o chunk.text
           w == IF chunk.newLine THEN [waiter EXCEPT !.sameLine = FALSE] ELSE waiter
           seen == IF chunk.newLine \/ Contains(chunk.text, "more") THEN 0 ELSE scrolled
<1>1. w \in Waiters /\ w.mode = waiter.mode /\ w.killSent = waiter.killSent
  BY DEF IInv, ShellTypeOK, Waiters
<1>2. EvaluateWaiter(w, l, seen)
  BY DEF Data
<1> HIDE DEF w, l, seen
<1>3. waiter'.mode = w.mode /\ waiter'.killSent = w.killSent
  BY <1>1, <1>2 DEF EvaluateWaiter, AnswerPager, Waiters
<1>4. \/ typed' = typed
      \/ \E key \in {"cr", "space", "quit"} : \E paging, g, before : Write(typed, key, paging, g, before)
  <2>1. NoWrite => typed' = typed
    BY DEF NoWrite
  <2> QED BY <1>2, <2>1 DEF EvaluateWaiter, AnswerPager
<1> QED BY <1>1, <1>3, <1>4, SameOthers

\* The line is killed once: killSent is set before the key is written.
LEMMA SettleFiresOthers ==
  ASSUME IInv, OthersFit, NEW g \in Waits, SettleFires(g)
  PROVE  OthersFit'
<1>1. CASE UNCHANGED <<waiter, typed>>
  BY <1>1, SameOthers
<1>2. CASE waiter'.mode = "none" /\ NoWrite
  BY <1>2, SameOthers DEF NoWrite
<1>3. CASE waiter.gen = g /\ MaySettle(waiter, line)
  <2>1. waiter.mode \in {"ready", "resync", "command"}
    BY <1>3 DEF Waits, IInv, Core, WaiterFits, HasWaiter, ShellTypeOK, Waiters
  <2>2. \A outcome : Finish(waiter, outcome) => waiter'.mode = "none"
    BY NoWaiterType DEF Finish
  <2>3. CASE waiter.mode = "ready"
    <3>1. CASE ReadyConfirms
      <4>1. waiter'.mode = "ready"
        BY <2>3, <3>1 DEF ReadyConfirms, IInv, ShellTypeOK, Waiters
      <4> QED BY <3>1, <4>1, SameOthers DEF ReadyConfirms
    <3> QED BY <1>2, <1>3, <2>2, <2>3, <3>1 DEF SettleFires, ReadySettles
  <2>4. CASE waiter.mode = "resync"
    <3>1. CASE /\ ~waiter.killSent /\ waiter' = [waiter EXCEPT !.killSent = TRUE]
               /\ Write(typed, "kill", FALSE, waiter.gen, NoLine)
      <4>1. waiter'.killSent /\ typed["kill"] = 0
        BY <2>4, <3>1 DEF OthersFit, IInv, ShellTypeOK, Waiters
      <4>2. \A k \in {"interrupt", "kill", "command"} :
              typed'[k] = IF k = "kill" THEN Count(typed[k]) ELSE typed[k]
        BY <3>1 DEF Write, IInv, ShellTypeOK, Keys
      <4> QED BY <4>1, <4>2 DEF OthersFit, OtherKeysTypedOnce, Count
    <3> QED BY <1>2, <1>3, <2>2, <2>4, <3>1 DEF SettleFires, ResyncSettles, MaySettle
  <2>5. CASE waiter.mode = "command"
    BY <1>2, <1>3, <2>2, <2>5 DEF SettleFires, CommandSettles
  <2> QED BY <2>1, <2>3, <2>4, <2>5
<1> QED BY <1>1, <1>3 DEF SettleFires, NoWrite

LEMMA TimerOthers ==
  ASSUME IInv, OthersFit, NEW g, Expire(g) \/ PokeFires(g)
  PROVE  OthersFit'
<1>1. CASE UNCHANGED <<waiter, typed>>
  BY <1>1, SameOthers
<1>2. CASE Finish(waiter, "timeout") /\ UNCHANGED typed
  <2>1. waiter'.mode = "none"
    BY <1>2, NoWaiterType DEF Finish
  <2> QED BY <1>2, <2>1, SameOthers
<1>3. CASE waiter' = waiter /\ Write(typed, "cr", FALSE, g, NoLine)
  BY <1>3, SameOthers
<1> QED BY <1>1, <1>2, <1>3, FailureOthers DEF Expire, PokeFires, NoWrite

LEMMA ResyncContinuesOthers ==
  ASSUME IInv, OthersFit, ResyncContinues
  PROVE  OthersFit'
<1>1. CASE ResyncOver
  BY <1>1, SameOthers DEF ResyncOver
<1>2. CASE InterruptInstead
  BY <1>2, NewWaitOthers DEF InterruptInstead, Keys
<1> QED BY <1>1, <1>2 DEF ResyncContinues

LEMMA WriteEndsOthers ==
  ASSUME IInv, OthersFit, WriteReturns \/ WriteThrows
  PROVE  OthersFit'
<1>1. typed' = typed
  BY DEF WriteReturns, WriteThrows
<1>2. CASE WriteReturns
  <2>1. waiter' \in {waiter, [waiter EXCEPT !.quitSent = TRUE]}
    BY <1>2 DEF WriteReturns
  <2>2. waiter'.mode = waiter.mode /\ waiter'.killSent = waiter.killSent
    BY <2>1 DEF IInv, ShellTypeOK, Waiters
  <2> QED BY <1>1, <2>2, SameOthers
<1>3. CASE WriteThrows
  <2>1. waiter' = waiter \/ FailWaiter("closed")
    BY <1>3 DEF WriteThrows
  <2> QED BY <1>1, <2>1, SameOthers, FailureOthers
<1> QED BY <1>2, <1>3

LEMMA OthersStep ==
  ASSUME IInv, OthersFit, [AnyStep]_shellVars
  PROVE  OthersFit'
<1>1. CASE UNCHANGED shellVars
  BY <1>1, SameOthers DEF shellVars
<1>2. CASE Overflow \/ Closed \/ Detach
  <2>1. (FailWaiter("limit") \/ FailWaiter("closed")) /\ typed' = typed
    BY <1>2 DEF Overflow, Closed, Detach, FailWaiter
  <2> QED BY <2>1, FailureOthers
<1>3. CASE \E g \in Waits : SettleFires(g) \/ TimeoutFires(g) \/ IdleFires(g) \/ PokeFires(g)
  BY <1>3, SettleFiresOthers, TimerOthers DEF TimeoutFires, IdleFires
<1> QED BY <1>1, <1>2, <1>3, CallOthers, DataOthers, WriteEndsOthers, ResyncContinuesOthers
       DEF AnyStep

\* Whatever the stream delivers inside write(), a wait types one command, one
\* Ctrl-C and one Ctrl-U at most; only the q of the pager can be repeated.
THEOREM OtherKeysOnce == ShellSpec => []OtherKeysTypedOnce
<1>1. ShellInit => OthersFit
  BY DEF ShellInit, NothingTyped, NoWaiter, NewWaiter, OthersFit, OtherKeysTypedOnce, Keys
<1>2. IInv /\ OthersFit /\ [ShellNext]_shellVars => OthersFit'
  <2>1. IInv /\ [ShellNext]_shellVars => [AnyStep]_shellVars
    BY NextIsAnyStep DEF IInv
  <2> QED BY <2>1, OthersStep
<1>3. OthersFit => OtherKeysTypedOnce
  BY DEF OthersFit
<1> QED BY <1>1, <1>2, <1>3, ShellInvariance, PTL DEF ShellSpec

-----------------------------------------------------------------------------
(* The markers of a line.                                                  *)

Twice(l) == \E i, j \in DOMAIN l : i # j /\ l[i] = "more" /\ l[j] = "more"

\* What the pager of a command has made of a line no longer than its tail:
\* no marker yet, or one that it has answered.
TailFits(w, l, keysTyped) ==
  IF w.answeredTail = NoLine THEN keysTyped = 0 /\ ~MarkerOnTail(l)
  ELSE /\ IsPrefix(w.answeredTail, l)
       /\ Contains(w.answeredTail, "more")
       /\ keysTyped <= 1
       /\ keysTyped = 1 \/ Twice(l) \/ w.quitSent

MarkerFits ==
  waiter.mode = "command" =>
    /\ ~waiter.sameLine => line = <<>> /\ scrolled = 0
    /\ waiter.sameLine /\ Len(line) <= MaxPromptLength => TailFits(waiter, line, scrolled)

LEMMA PrefixExtends ==
  ASSUME NEW s \in Seq(Pieces), NEW l \in Seq(Pieces), NEW t \in Seq(Pieces), IsPrefix(s, l)
  PROVE  IsPrefix(s, l \o t)
<1>1. Len(s) <= Len(l) /\ \A i \in 1 .. Len(s) : s[i] = l[i]
  <2>1. SubSeq(s, 1, Len(s)) = SubSeq(l, 1, Len(s)) /\ Len(s) <= Len(l)
    BY DEF IsPrefix
  <2>2. \A i \in 1 .. Len(s) : SubSeq(s, 1, Len(s))[i] = s[i] /\ SubSeq(l, 1, Len(s))[i] = l[i]
    BY <2>1
  <2> QED BY <2>1, <2>2
<1>2. l \o t \in Seq(Pieces) /\ Len(l \o t) = Len(l) + Len(t)
      /\ \A i \in 1 .. Len(l) : (l \o t)[i] = l[i]
  OBVIOUS
<1>3. SubSeq(s, 1, Len(s)) = SubSeq(l \o t, 1, Len(s))
  BY <1>1, <1>2
<1> QED BY <1>1, <1>2, <1>3 DEF IsPrefix

LEMMA NoLineIsNoPrefix ==
  ASSUME NEW l \in Seq(Pieces)
  PROVE  ~IsPrefix(NoLine, l)
<1> SUFFICES ASSUME IsPrefix(NoLine, l) PROVE FALSE
  OBVIOUS
<1>1. Len(NoLine) = 1 /\ NoLine[1] = "null"
  BY DEF NoLine
<1>2. 1 <= Len(l) /\ SubSeq(NoLine, 1, 1) = SubSeq(l, 1, 1)
  BY <1>1 DEF IsPrefix
<1>3. SubSeq(NoLine, 1, 1)[1] = "null" /\ SubSeq(l, 1, 1)[1] = l[1]
  BY <1>1, <1>2 DEF NoLine
<1>4. l[1] \in Pieces
  BY <1>2
<1> QED BY <1>2, <1>3, <1>4 DEF Pieces

LEMMA PrefixOfItself ==
  ASSUME NEW l \in Seq(Pieces)
  PROVE  IsPrefix(l, l)
BY DEF IsPrefix

LEMMA TailIsLine ==
  ASSUME NEW l, Len(l) <= MaxPromptLength
  PROVE  PagerTail(l) = l
BY DEF PagerTail, LastPieces

\* A line that ends in a marker has a marker on it.
LEMMA MarkerIsThere ==
  ASSUME NEW l \in Seq(Pieces), MarkerOnTail(l)
  PROVE  Contains(l, "more")
<1> PICK m \in Markers : IsSuffix(m, l)
  BY DEF MarkerOnTail
<1>1. m \in Seq(Pieces) /\ m[1] = "more" /\ Len(m) > 0
  <2>1. {"more", "key", "end"} \subseteq Pieces
    BY DEF Pieces
  <2>2. CASE m = <<"more">>
    BY <2>1, <2>2
  <2>3. CASE m = <<"more", "key", "end">>
    BY <2>1, <2>3
  <2> QED BY <2>2, <2>3 DEF Markers
<1>2. /\ Len(Reverse(m)) = Len(m) /\ Len(Reverse(l)) = Len(l)
      /\ \A i \in 1 .. Len(m) : Reverse(m)[i] = m[Len(m) - i + 1]
      /\ \A i \in 1 .. Len(l) : Reverse(l)[i] = l[Len(l) - i + 1]
      /\ Reverse(m) \in Seq(Pieces) /\ Reverse(l) \in Seq(Pieces)
  BY <1>1 DEF Reverse
<1>3. /\ Len(m) <= Len(l)
      /\ SubSeq(Reverse(m), 1, Len(m)) = SubSeq(Reverse(l), 1, Len(m))
  BY <1>2 DEF IsSuffix, IsPrefix
<1>4. Reverse(m)[Len(m)] = Reverse(l)[Len(m)]
  <2>1. SubSeq(Reverse(m), 1, Len(m))[Len(m)] = Reverse(m)[Len(m)]
    BY <1>1, <1>2
  <2>2. SubSeq(Reverse(l), 1, Len(m))[Len(m)] = Reverse(l)[Len(m)]
    BY <1>1, <1>2, <1>3
  <2> QED BY <1>3, <2>1, <2>2
<1>5. l[Len(l) - Len(m) + 1] = "more" /\ Len(l) - Len(m) + 1 \in 1 .. Len(l)
  <2>1. Len(m) \in 1 .. Len(m) /\ Len(m) \in 1 .. Len(l)
    BY <1>1, <1>3
  <2>2. Reverse(m)[Len(m)] = m[1]
    <3>1. Reverse(m)[Len(m)] = m[Len(m) - Len(m) + 1]
      BY <1>2, <2>1
    <3>2. Len(m) - Len(m) + 1 = 1
      BY <1>1
    <3> QED BY <3>1, <3>2
  <2>3. Reverse(l)[Len(m)] = l[Len(l) - Len(m) + 1]
    BY <1>2, <2>1
  <2>4. Len(l) - Len(m) + 1 \in 1 .. Len(l)
    BY <2>1
  <2> QED BY <1>1, <1>4, <2>2, <2>3, <2>4
<1> QED BY <1>5 DEF Contains

\* A marker that comes after an answered one is the second on the line.
LEMMA SecondMarker ==
  ASSUME NEW s \in Seq(Pieces), NEW l \in Seq(Pieces), NEW t \in Seq(Pieces),
         IsPrefix(s, l), Contains(s, "more")
  PROVE  /\ Contains(t, "more") => Twice(l \o t)
         /\ Twice(l) => Twice(l \o t)
<1>1. PICK i \in 1 .. Len(l) : l[i] = "more"
  <2>1. PICK i \in 1 .. Len(s) : s[i] = "more"
    BY DEF Contains
  <2>2. Len(s) <= Len(l) /\ SubSeq(s, 1, Len(s)) = SubSeq(l, 1, Len(s))
    BY DEF IsPrefix
  <2>3. SubSeq(s, 1, Len(s))[i] = s[i] /\ SubSeq(l, 1, Len(s))[i] = l[i]
    BY <2>2
  <2> QED BY <2>1, <2>2, <2>3
<1>2. /\ l \o t \in Seq(Pieces) /\ Len(l \o t) = Len(l) + Len(t)
      /\ \A k \in 1 .. Len(l) : (l \o t)[k] = l[k]
      /\ \A k \in 1 .. Len(t) : (l \o t)[Len(l) + k] = t[k]
  OBVIOUS
<1>3. ASSUME Contains(t, "more") PROVE Twice(l \o t)
  <2>1. PICK k \in 1 .. Len(t) : t[k] = "more"
    BY <1>3 DEF Contains
  <2>2. Len(l) + k \in DOMAIN (l \o t) /\ i \in DOMAIN (l \o t) /\ i # Len(l) + k
    BY <1>2
  <2> QED BY <1>1, <1>2, <2>1, <2>2 DEF Twice
<1>4. ASSUME Twice(l) PROVE Twice(l \o t)
  <2>1. PICK j, k \in DOMAIN l : j # k /\ l[j] = "more" /\ l[k] = "more"
    BY <1>4 DEF Twice
  <2>2. j \in DOMAIN (l \o t) /\ k \in DOMAIN (l \o t)
    BY <1>2
  <2> QED BY <1>2, <2>1, <2>2 DEF Twice
<1> QED BY <1>3, <1>4

LEMMA TwiceIsNotOnce ==
  ASSUME NEW l \in Seq(Pieces), Twice(l)
  PROVE  Cardinality(MarkersOn(l)) # 1
<1>1. PICK i, j \in DOMAIN l : i # j /\ l[i] = "more" /\ l[j] = "more"
  BY DEF Twice
<1>2. i \in MarkersOn(l) /\ j \in MarkersOn(l)
  BY <1>1 DEF MarkersOn
<1>3. IsFiniteSet(MarkersOn(l))
  <2>1. IsFiniteSet(1 .. Len(l))
    BY FS_Interval
  <2>2. MarkersOn(l) \subseteq 1 .. Len(l)
    BY DEF MarkersOn
  <2> QED BY <2>1, <2>2, FS_Subset
<1>4. Cardinality(MarkersOn(l)) = 1 => \E x : MarkersOn(l) = {x}
  BY <1>3, FS_Singleton
<1> QED BY <1>1, <1>2, <1>4

-----------------------------------------------------------------------------
(* What each action does to the answered marker.                           *)

\* The line and what the pager knows of it stay; a q may be remembered.
LEMMA SameTail ==
  ASSUME MarkerFits, UNCHANGED <<line, scrolled>>,
         waiter'.mode = waiter.mode, waiter'.sameLine = waiter.sameLine,
         waiter'.answeredTail = waiter.answeredTail, waiter.quitSent => waiter'.quitSent
  PROVE  MarkerFits'
BY DEF MarkerFits, TailFits

LEMMA NoCommandNoMarker ==
  ASSUME waiter'.mode # "command"
  PROVE  MarkerFits'
BY DEF MarkerFits

LEMMA FinishMarks ==
  ASSUME MarkerFits, NEW outcome, FailWaiter(outcome), HasWaiter \/ UNCHANGED <<line, scrolled>>
  PROVE  MarkerFits'
<1>1. CASE HasWaiter
  BY <1>1, NoCommandNoMarker, NoWaiterType DEF FailWaiter, Finish
<1>2. CASE ~HasWaiter
  BY <1>2, NoCommandNoMarker DEF FailWaiter, HasWaiter
<1> QED BY <1>1, <1>2

LEMMA FailAndResyncMarks ==
  ASSUME NEW outcome, FailAndResync(outcome)
  PROVE  MarkerFits'
<1>1. CASE BeginResync(waiter, outcome)
  BY <1>1, NoCommandNoMarker DEF BeginResync, NewWaiter
<1>2. CASE Finish(waiter, outcome)
  BY <1>2, NoCommandNoMarker, NoWaiterType DEF Finish
<1> QED BY <1>1, <1>2 DEF FailAndResync

LEMMA CallMarks ==
  ASSUME IInv, MarkerFits,
         WaitForReady \/ \E c \in Commands : RunCommand(c) \/ Resume(c) \/ Abort(c)
  PROVE  MarkerFits'
<1>1. CASE WaitForReady
  BY <1>1, NoCommandNoMarker DEF WaitForReady, NewWaiter
<1>2. ASSUME NEW c \in Commands, RunCommand(c) \/ Resume(c) PROVE MarkerFits'
  <2>1. CASE StartCommand(c)
    <3>1. line' = <<>> /\ scrolled' = 0 /\ ~waiter'.sameLine
      BY <2>1 DEF StartCommand, NewWaiter
    <3> QED BY <3>1 DEF MarkerFits
  <2>2. CASE UNCHANGED <<waiter, line, scrolled>>
    BY <2>2, SameTail
  <2> QED BY <1>2, <2>1, <2>2 DEF RunCommand, Resume, RejectCall
<1>3. ASSUME NEW c \in Commands, Abort(c) PROVE MarkerFits'
  <2>1. CASE FailAndResync("closed")
    BY <2>1, FailAndResyncMarks
  <2>2. CASE Finish(waiter, "closed")
    BY <2>2, NoCommandNoMarker, NoWaiterType DEF Finish
  <2>3. CASE UNCHANGED <<waiter, line, scrolled>>
    BY <2>3, SameTail
  <2> QED BY <1>3, <2>1, <2>2, <2>3 DEF Abort
<1> QED BY <1>1, <1>2, <1>3

\* onData while a command runs: w and l are the waiter and the line that
\* evaluateWaiter is given.
LEMMA EvaluateMarks ==
  ASSUME IInv, NEW w \in Waiters, NEW l \in Seq(Pieces), NEW seen \in 0 .. 2,
         w.mode = "command",
         w.sameLine /\ Len(l) <= MaxPromptLength =>
           \/ w.answeredTail = NoLine /\ seen = 0
           \/ w.answeredTail # NoLine /\ TailFits(w, l, seen),
         ~w.sameLine => seen = 0,
         EvaluateWaiter(w, l, seen)
  PROVE  waiter'.sameLine /\ (Len(l) <= MaxPromptLength => TailFits(waiter', l, scrolled'))
<1> DEFINE tail == PagerTail(l)
           answered == [w EXCEPT !.answeredTail = tail, !.sameLine = TRUE]
           paged == IF w.sameLine THEN w ELSE [w EXCEPT !.answeredTail = NoLine, !.sameLine = TRUE]
<1>1. tail \in Seq(Pieces)
  BY PagerTailType
<1>2. answered.sameLine /\ answered.answeredTail = tail /\ answered.quitSent = w.quitSent
  BY <1>1 DEF Waiters
<1>3. CASE MarkerOnTail(tail) /\ ~AlreadyAnswered(w, tail)
  <2>1. AnswerPager(w, l, seen)
    BY <1>3 DEF EvaluateWaiter
  <2>2. /\ waiter'.sameLine /\ waiter'.answeredTail = tail /\ waiter'.quitSent = w.quitSent
        /\ scrolled' = Count(seen) \/ (scrolled' = seen /\ w.quitSent)
    BY <1>2, <2>1 DEF AnswerPager, Waiters
  <2>3. ASSUME Len(l) <= MaxPromptLength PROVE TailFits(waiter', l, scrolled')
    <3>1. tail = l
      BY <2>3, TailIsLine
    <3>2. ~(w.sameLine /\ w.answeredTail # NoLine)
      BY <1>3, <2>3, <3>1 DEF AlreadyAnswered, TailFits
    <3>3. seen = 0
      BY <2>3, <3>2
    <3>4. scrolled' <= 1 /\ (scrolled' = 1 \/ waiter'.quitSent)
      BY <2>2, <3>3 DEF Count
    <3>5. l # NoLine /\ IsPrefix(l, l) /\ Contains(l, "more")
      BY <1>3, <3>1, PrefixOfItself, NoLineIsNoPrefix, MarkerIsThere
    <3> QED BY <2>2, <3>1, <3>4, <3>5 DEF TailFits
  <2> QED BY <2>2, <2>3
<1>4. CASE ~(MarkerOnTail(tail) /\ ~AlreadyAnswered(w, tail))
  <2>1. waiter' = paged /\ scrolled' = seen
    BY <1>4 DEF EvaluateWaiter
  <2>2. /\ paged.sameLine /\ paged.quitSent = w.quitSent
        /\ paged.answeredTail = IF w.sameLine THEN w.answeredTail ELSE NoLine
    BY DEF Waiters
  <2>3. ASSUME Len(l) <= MaxPromptLength PROVE TailFits(waiter', l, scrolled')
    <3>1. tail = l
      BY <2>3, TailIsLine
    <3>2. CASE w.sameLine /\ w.answeredTail # NoLine
      <4>1. TailFits(w, l, seen)
        BY <2>3, <3>2
      <4> QED BY <2>1, <2>2, <3>2, <4>1 DEF TailFits
    <3>3. CASE ~(w.sameLine /\ w.answeredTail # NoLine)
      <4>1. ~AlreadyAnswered(w, tail)
        BY <3>1, <3>3, NoLineIsNoPrefix DEF AlreadyAnswered
      <4>2. ~MarkerOnTail(l) /\ seen = 0 /\ waiter'.answeredTail = NoLine
        BY <1>4, <2>1, <2>2, <2>3, <3>1, <3>3, <4>1
      <4> QED BY <2>1, <4>2 DEF TailFits
    <3> QED BY <3>2, <3>3
  <2> QED BY <2>1, <2>2, <2>3
<1> QED BY <1>3, <1>4

LEMMA DataMarks ==
  ASSUME IInv, MarkerFits, NEW chunk, IsChunk(chunk), Data(chunk)
  PROVE  MarkerFits'
<1> DEFINE l == IF chunk.newLine THEN chunk.text ELSE line \o chunk.text
           w == IF chunk.newLine THEN [waiter EXCEPT !.sameLine = FALSE] ELSE waiter
           seen == IF chunk.newLine \/ Contains(chunk.text, "more") THEN 0 ELSE scrolled
<1>1. /\ w \in Waiters /\ w.mode = waiter.mode /\ w.answeredTail = waiter.answeredTail
      /\ w.quitSent = waiter.quitSent /\ w.sameLine = (~chunk.newLine /\ waiter.sameLine)
  BY DEF IsChunk, IInv, ShellTypeOK, Waiters
<1>2. /\ line \in Seq(Pieces) /\ chunk.text \in Seq(Pieces) /\ scrolled \in 0 .. 2
      /\ line \o chunk.text \in Seq(Pieces)
      /\ Len(line \o chunk.text) = Len(line) + Len(chunk.text)
  BY DEF IsChunk, IInv, ShellTypeOK
<1>3. l \in Seq(Pieces) /\ seen \in 0 .. 2
  BY <1>2
<1>4. EvaluateWaiter(w, l, seen) /\ line' = l
  BY DEF Data
<1>5. CASE waiter.mode # "command"
  <2>1. waiter'.mode = w.mode
    BY <1>1, <1>3, <1>4, EvaluateWaiterType DEF IInv
  <2> QED BY <1>1, <1>5, <2>1, NoCommandNoMarker
<1>6. CASE waiter.mode = "command"
  <2>1. ~w.sameLine => seen = 0
    BY <1>1, <1>6 DEF MarkerFits
  <2>2. ASSUME w.sameLine, Len(l) <= MaxPromptLength
        PROVE  \/ w.answeredTail = NoLine /\ seen = 0
               \/ w.answeredTail # NoLine /\ TailFits(w, l, seen)
    <3>1. ~chunk.newLine /\ waiter.sameLine /\ l = line \o chunk.text
          /\ Len(line) <= MaxPromptLength
      BY SMTT(20), <1>1, <1>2, <2>2, ShellIoAssumption
    <3>2. TailFits(waiter, line, scrolled)
      BY <1>6, <3>1 DEF MarkerFits
    <3>3. CASE w.answeredTail = NoLine
      BY <1>1, <3>1, <3>2, <3>3 DEF TailFits
    <3>4. CASE w.answeredTail # NoLine
      <4>1. w.answeredTail \in Seq(Pieces) /\ IsPrefix(w.answeredTail, line)
            /\ Contains(w.answeredTail, "more")
        BY <1>1, <3>2, <3>4 DEF TailFits, Waiters
      <4>2. IsPrefix(w.answeredTail, l)
        BY <1>2, <3>1, <4>1, PrefixExtends
      <4>3. Twice(line) \/ Contains(chunk.text, "more") => Twice(l)
        BY <1>2, <3>1, <4>1, SecondMarker
      <4>4. seen <= 1 /\ (seen = 1 \/ Twice(l) \/ w.quitSent)
        BY <1>1, <3>1, <3>2, <3>4, <4>3 DEF TailFits
      <4> QED BY <3>4, <4>1, <4>2, <4>4 DEF TailFits
    <3> QED BY <3>3, <3>4
  <2> HIDE DEF w, l, seen
  <2>3. waiter'.sameLine /\ (Len(l) <= MaxPromptLength => TailFits(waiter', l, scrolled'))
    BY <1>1, <1>3, <1>4, <1>6, <2>1, <2>2, EvaluateMarks
  <2> QED BY <1>4, <2>3 DEF MarkerFits, TailFits
<1> QED BY <1>5, <1>6

LEMMA WriteReturnsMarks ==
  ASSUME IInv, MarkerFits, WriteReturns
  PROVE  MarkerFits'
<1>1. UNCHANGED <<line, scrolled>>
      /\ waiter' \in {waiter, [waiter EXCEPT !.quitSent = TRUE]}
  BY DEF WriteReturns
<1>2. /\ waiter'.mode = waiter.mode /\ waiter'.sameLine = waiter.sameLine
      /\ waiter'.answeredTail = waiter.answeredTail /\ (waiter.quitSent => waiter'.quitSent)
  BY <1>1 DEF IInv, ShellTypeOK, Waiters
<1> QED BY <1>1, <1>2, SameTail

LEMMA SettleFiresMarks ==
  ASSUME IInv, MarkerFits, NEW g \in Waits, SettleFires(g)
  PROVE  MarkerFits'
<1>1. CASE UNCHANGED <<waiter, line, scrolled>>
  BY <1>1, SameTail
<1>2. CASE \E outcome \in {"ok", "limit"} : Finish(waiter, outcome)
  BY <1>2, NoCommandNoMarker, NoWaiterType DEF Finish
<1>3. CASE waiter.mode \in {"ready", "resync"} /\ waiter'.mode = waiter.mode
  BY <1>3, NoCommandNoMarker
<1>4. waiter.gen = g => HasWaiter
  BY DEF Waits, IInv, Core, WaiterFits
<1>5. CASE waiter.gen = g /\ MaySettle(waiter, line)
  <2>1. waiter.mode \in {"ready", "resync", "command"}
    BY <1>4, <1>5 DEF HasWaiter, IInv, ShellTypeOK, Waiters
  <2>2. ReadySettles \/ ResyncSettles \/ CommandSettles
    BY <1>5, <2>1 DEF SettleFires
  <2>3. \/ \E outcome \in {"ok", "limit"} : Finish(waiter, outcome)
        \/ waiter.mode \in {"ready", "resync"} /\ waiter'.mode = waiter.mode
    <3>1. CASE waiter.mode = "ready"
      BY <1>5, <3>1 DEF SettleFires, ReadySettles, ReadyConfirms, IInv, ShellTypeOK, Waiters
    <3>2. CASE waiter.mode = "resync"
      BY <1>5, <3>2 DEF SettleFires, ResyncSettles, IInv, ShellTypeOK, Waiters
    <3>3. CASE waiter.mode = "command"
      BY <1>5, <3>3 DEF SettleFires, CommandSettles
    <3> QED BY <2>1, <3>1, <3>2, <3>3
  <2> QED BY <1>2, <1>3, <2>3
<1> QED BY <1>1, <1>5 DEF SettleFires

LEMMA ExpireMarks ==
  ASSUME MarkerFits, NEW g, Expire(g)
  PROVE  MarkerFits'
<1>1. CASE UNCHANGED <<waiter, line, scrolled>>
  BY <1>1, SameTail
<1>2. CASE Finish(waiter, "timeout")
  BY <1>2, NoCommandNoMarker, NoWaiterType DEF Finish
<1> QED BY <1>1, <1>2, FailAndResyncMarks DEF Expire

LEMMA ResyncContinuesMarks ==
  ASSUME MarkerFits, ResyncContinues
  PROVE  MarkerFits'
<1>1. CASE ResyncOver
  BY <1>1, SameTail DEF ResyncContinues, ResyncOver
<1>2. CASE InterruptInstead
  BY <1>2, NoCommandNoMarker DEF InterruptInstead, NewWaiter
<1> QED BY <1>1, <1>2 DEF ResyncContinues

LEMMA MarkerInit == ShellInit => MarkerFits
BY NoWaiterType DEF ShellInit, MarkerFits

LEMMA MarkerStep ==
  ASSUME IInv, MarkerFits, [AnyStep]_shellVars
  PROVE  MarkerFits'
<1>1. CASE UNCHANGED shellVars
  BY <1>1, SameTail DEF shellVars
<1>2. CASE Overflow \/ Closed \/ Detach
  <2>1. FailWaiter("limit") \/ FailWaiter("closed")
    BY <1>2 DEF Overflow, Closed, Detach, FailWaiter
  <2>2. CASE HasWaiter
    BY <2>1, <2>2, FinishMarks
  <2>3. CASE ~HasWaiter
    BY <2>1, <2>3, NoCommandNoMarker DEF FailWaiter, HasWaiter
  <2> QED BY <2>2, <2>3
<1>3. CASE WriteThrows
  <2>1. CASE UNCHANGED <<waiter, line, scrolled>>
    BY <2>1, SameTail
  <2>2. CASE FailWaiter("closed") /\ UNCHANGED <<line, scrolled>>
    BY <2>2, FinishMarks
  <2> QED BY <1>3, <2>1, <2>2 DEF WriteThrows
<1>4. ASSUME NEW g \in Waits, PokeFires(g) PROVE MarkerFits'
  BY <1>4, SameTail DEF PokeFires
<1> QED BY <1>1, <1>2, <1>3, <1>4, CallMarks, DataMarks, WriteReturnsMarks, SettleFiresMarks,
        ExpireMarks, ResyncContinuesMarks
        DEF AnyStep, TimeoutFires, IdleFires

LEMMA MarkerFollows ==
  ASSUME IInv, MarkerFits
  PROVE  MarkerIsAnsweredOnce
<1> SUFFICES ASSUME waiter.mode = "command", Len(line) <= MaxPromptLength
             PROVE  /\ scrolled <= 1
                    /\ MarkerOnTail(line) /\ Cardinality(MarkersOn(line)) = 1 /\ ~waiter.quitSent
                         => scrolled = 1
  BY DEF MarkerIsAnsweredOnce, AtRest
<1>1. line \in Seq(Pieces)
  BY DEF IInv, ShellTypeOK
<1>2. CASE ~waiter.sameLine
  <2>1. line = <<>> /\ scrolled = 0
    BY <1>2 DEF MarkerFits
  <2>2. ~Contains(line, "more")
    BY <2>1 DEF Contains
  <2>3. ~MarkerOnTail(line)
    BY <1>1, <2>2, MarkerIsThere
  <2> QED BY <2>1, <2>3
<1>3. CASE waiter.sameLine
  BY <1>1, <1>3, TwiceIsNotOnce DEF MarkerFits, TailFits
<1> QED BY <1>2, <1>3

\* A marker on a line that the pager sees whole is answered by one key, in
\* however many chunks it and its key hint come and whatever the device sends
\* inside a write (answeredTail and answeredEpoch, pager.ts:33-75).
THEOREM MarkerAnsweredOnce == ShellSpec => []MarkerIsAnsweredOnce
<1>1. ShellInit => IInv /\ MarkerFits
  BY IInvInit, MarkerInit
<1>2. IInv /\ MarkerFits /\ [ShellNext]_shellVars => IInv' /\ MarkerFits'
  <2>1. IInv /\ [ShellNext]_shellVars => [AnyStep]_shellVars
    BY NextIsAnyStep DEF IInv
  <2> QED BY <2>1, IInvStep, MarkerStep
<1>3. IInv /\ MarkerFits => MarkerIsAnsweredOnce
  BY MarkerFollows
<1> QED BY <1>1, <1>2, <1>3, PTL DEF ShellSpec

-----------------------------------------------------------------------------
(* A prompt is waited out.                                                 *)

\* The pager's writes answer a marker, which is no prompt.
PagedFrames == \A i \in DOMAIN stack : stack[i].paging => MarkerOnTail(stack[i].before)

PromptFits == PromptWillSettle /\ PagedFrames

LEMMA OneMoreFrame ==
  ASSUME IInv, PagedFrames, NEW already, NEW key, NEW paging, NEW g, NEW before,
         Write(already, key, paging, g, before), paging => MarkerOnTail(before)
  PROVE  PagedFrames'
<1> DEFINE f == [key |-> key, paging |-> paging, gen |-> g, before |-> before]
<1>1. stack' = Append(stack, f) /\ stack \in Seq(Frames)
      /\ (f.paging => MarkerOnTail(f.before))
  BY DEF Write, IInv, ShellTypeOK, Frames
<1> HIDE DEF f
<1>2. \A i \in DOMAIN stack' : stack'[i] = f \/ (i \in DOMAIN stack /\ stack'[i] = stack[i])
  BY <1>1
<1> QED BY <1>1, <1>2 DEF PagedFrames

LEMMA OneFrameLess ==
  ASSUME IInv, PagedFrames, stack # <<>>, stack' = Front(stack)
  PROVE  PagedFrames' /\ (Last(stack).paging => MarkerOnTail(Last(stack).before))
<1>1. stack \in Seq(Frames)
  BY DEF IInv, ShellTypeOK, Frames
<1>2. Len(stack) \in DOMAIN stack
  BY <1>1
<1>3. \A i \in DOMAIN stack' : i \in DOMAIN stack /\ stack'[i] = stack[i]
  BY <1>1, FrontType
<1> QED BY <1>1, <1>2, <1>3 DEF PagedFrames, Last

\* Nobody waits for a prompt, or there is none on the line.
LEMMA NothingToSettle ==
  ASSUME ~HasWaiter' \/ line' = <<>>
  PROVE  PromptWillSettle'
BY DEF PromptWillSettle

\* The same waiter looks at the same line, and its settle timer stays.
LEMMA StillSettles ==
  ASSUME PromptWillSettle, waiter'.mode = waiter.mode, waiter'.gen = waiter.gen,
         UNCHANGED <<line, identity>>,
         HasWaiter /\ <<"settle", waiter.gen>> \in timers => <<"settle", waiter.gen>> \in timers'
  PROVE  PromptWillSettle'
BY DEF PromptWillSettle, HasWaiter, IsPrompt

\* The waiter has just looked at the line.
LEMMA SettlesNow ==
  ASSUME NEW w, waiter'.mode = w.mode, waiter'.gen = w.gen, UNCHANGED identity,
         \/ timers' = SettleTimer(w, line')
         \/ \E old : timers' = old \cup Begun(w, line')
  PROVE  PromptWillSettle'
<1>1. MaySettle(w, line') => <<"settle", w.gen>> \in timers'
  BY DEF SettleTimer, Begun
<1>2. IsPrompt(line, waiter.mode)' => MaySettle(w, line')
  BY DEF IsPrompt, MaySettle
<1> QED BY <1>1, <1>2 DEF PromptWillSettle

LEMMA FinishSettles ==
  ASSUME NEW outcome, Finish(waiter, outcome)
  PROVE  PromptWillSettle'
BY NoWaiterType, NothingToSettle DEF Finish, HasWaiter

LEMMA FailAndResyncFits ==
  ASSUME IInv, PromptFits, NEW outcome, FailAndResync(outcome)
  PROVE  PromptFits'
<1>1. CASE BeginResync(waiter, outcome)
  <2>1. PICK key, g : Write(NothingTyped, key, FALSE, g, NoLine)
    BY <1>1 DEF BeginResync
  <2>2. line' = <<>>
    BY <1>1 DEF BeginResync
  <2> QED BY <2>1, <2>2, OneMoreFrame, NothingToSettle DEF PromptFits
<1>2. CASE Finish(waiter, outcome) /\ UNCHANGED stack
  BY <1>2, FinishSettles DEF PromptFits, PagedFrames
<1> QED BY <1>1, <1>2 DEF FailAndResync

LEMMA CallFits ==
  ASSUME IInv, PromptFits,
         WaitForReady \/ \E c \in Commands : RunCommand(c) \/ Resume(c) \/ Abort(c)
  PROVE  PromptFits'
<1>1. CASE WaitForReady
  <2>1. /\ waiter' = NewWaiter("ready", Ready, generation + 1)
        /\ timers' = timers \cup Begun(waiter', line')
        /\ UNCHANGED <<line, identity, stack>>
    BY <1>1 DEF WaitForReady
  <2> QED BY <2>1, SettlesNow DEF PromptFits, PagedFrames
<1>2. ASSUME NEW c \in Commands, RunCommand(c) \/ Resume(c) PROVE PromptFits'
  <2>1. identity' = identity
    BY <1>2 DEF RunCommand, Resume
  <2>2. CASE StartCommand(c)
    <3>1. line' = <<>> /\ Write(NothingTyped, "command", FALSE, generation + 1, NoLine)
      BY <2>2 DEF StartCommand
    <3> QED BY <3>1, OneMoreFrame, NothingToSettle DEF PromptFits
  <2>3. CASE UNCHANGED <<waiter, timers, stack, line>>
    BY <2>1, <2>3, StillSettles DEF PromptFits, PagedFrames
  <2> QED BY <1>2, <2>2, <2>3 DEF RunCommand, Resume, RejectCall
<1>3. ASSUME NEW c \in Commands, Abort(c) PROVE PromptFits'
  <2>1. identity' = identity
    BY <1>3 DEF Abort
  <2>2. CASE FailAndResync("closed")
    BY <2>2, FailAndResyncFits
  <2>3. CASE Finish(waiter, "closed") /\ UNCHANGED stack
    BY <2>3, FinishSettles DEF PromptFits, PagedFrames
  <2>4. CASE UNCHANGED <<waiter, timers, stack, line>>
    BY <2>1, <2>4, StillSettles DEF PromptFits, PagedFrames
  <2> QED BY <1>3, <2>2, <2>3, <2>4 DEF Abort
<1> QED BY <1>1, <1>2, <1>3

\* A chunk: a marker to answer is no prompt, and any other line is looked at.
LEMMA DataFits ==
  ASSUME IInv, PromptFits, NEW chunk, IsChunk(chunk), Data(chunk)
  PROVE  PromptFits'
<1> DEFINE w == IF chunk.newLine THEN [waiter EXCEPT !.sameLine = FALSE] ELSE waiter
           seen == IF chunk.newLine \/ Contains(chunk.text, "more") THEN 0 ELSE scrolled
<1>1. /\ EvaluateWaiter(w, line', seen) /\ identity' = identity
      /\ w \in Waiters
  BY DEF Data, IInv, ShellTypeOK, Waiters
<1> HIDE DEF w, seen
<1>2. CASE MarkerOnTail(PagerTail(line')) /\ AnswerPager(w, line', seen)
  <2>1. CASE \E key : Write(typed, key, TRUE, w.gen, PagerTail(line'))
    BY <1>2, <2>1, OneMoreFrame DEF PromptFits, PromptWillSettle, PagerTail
  <2>2. CASE NoWrite
    BY <1>2, <2>2 DEF PromptFits, PromptWillSettle, PagerTail, NoWrite, PagedFrames
  <2> QED BY <1>2, <2>1, <2>2 DEF AnswerPager
<1>3. CASE /\ waiter' \in {w, [w EXCEPT !.answeredTail = NoLine, !.sameLine = TRUE]}
           /\ timers' = SettleTimer(w, line')
           /\ NoWrite
  <2>1. waiter'.mode = w.mode /\ waiter'.gen = w.gen
    BY <1>1, <1>3 DEF Waiters
  <2>2. PromptWillSettle'
    BY <1>1, <1>3, <2>1, SettlesNow
  <2> QED BY <1>3, <2>2 DEF PromptFits, PagedFrames, NoWrite
<1> QED BY <1>1, <1>2, <1>3 DEF EvaluateWaiter

LEMMA WriteEndsFits ==
  ASSUME IInv, PromptFits, WriteReturns \/ WriteThrows
  PROVE  PromptFits'
<1>1. PagedFrames' /\ (Last(stack).paging => MarkerOnTail(Last(stack).before))
  BY OneFrameLess DEF WriteReturns, WriteThrows, PromptFits
<1>2. UNCHANGED <<line, identity>>
  BY DEF WriteReturns, WriteThrows
<1>3. CASE UNCHANGED <<waiter, timers>>
  BY <1>1, <1>2, <1>3, StillSettles DEF PromptFits
<1>4. CASE WriteReturns /\ Last(stack).paging
  <2> DEFINE f == Last(stack)
             w == IF f.key = "quit" THEN [waiter EXCEPT !.quitSent = TRUE] ELSE waiter
  <2>1. CASE waiter' = w /\ timers' = SettleTimer(w, line)
    BY <1>1, <1>2, <2>1, SettlesNow DEF PromptFits
  <2>2. CASE PagerTail(line) = f.before
    BY <1>1, <1>2, <1>4, <2>2 DEF PromptFits, PromptWillSettle, PagerTail
  <2> QED BY <1>3, <1>4, <2>1, <2>2 DEF WriteReturns, Paged
<1>5. CASE WriteReturns /\ ~Last(stack).paging
  BY <1>3, <1>5 DEF WriteReturns
<1>6. CASE WriteThrows
  <2>1. Finish(waiter, "closed") \/ UNCHANGED <<waiter, timers>>
    BY <1>6 DEF WriteThrows, FailWaiter
  <2> QED BY <1>1, <1>3, <2>1, FinishSettles DEF PromptFits
<1> QED BY <1>4, <1>5, <1>6

LEMMA SettleFiresFits ==
  ASSUME IInv, PromptFits, NEW g \in Waits, SettleFires(g)
  PROVE  PromptFits'
<1>1. CASE /\ waiter.gen # g \/ ~MaySettle(waiter, line)
           /\ timers' = Unsettled(g)
           /\ UNCHANGED <<waiter, line, identity, stack>>
  <2>1. CASE waiter.gen # g
    BY <1>1, <2>1, StillSettles DEF Unsettled, PromptFits, PagedFrames
  <2>2. CASE ~MaySettle(waiter, line)
    BY <1>1, <2>2 DEF MaySettle, IsPrompt, PromptWillSettle, PromptFits, PagedFrames
  <2> QED BY <1>1, <2>1, <2>2
<1>2. CASE /\ line' = <<>>
           /\ UNCHANGED stack \/ \E key : Write(typed, key, FALSE, waiter.gen, NoLine)
  BY <1>2, OneMoreFrame, NothingToSettle DEF PromptFits, PagedFrames
<1>3. waiter.gen = g => waiter.mode \in {"ready", "resync", "command"}
  BY DEF Waits, IInv, Core, WaiterFits, HasWaiter, ShellTypeOK, Waiters
<1>4. ReadySettles \/ ResyncSettles \/ CommandSettles =>
        UNCHANGED stack \/ \E key : Write(typed, key, FALSE, waiter.gen, NoLine)
  BY DEF ReadySettles, ReadyConfirms, ResyncSettles, CommandSettles, NoWrite
<1>5. CASE waiter.gen = g /\ MaySettle(waiter, line)
  <2>1. line' = <<>> /\ (ReadySettles \/ ResyncSettles \/ CommandSettles)
    BY <1>3, <1>5 DEF SettleFires, ClearLine
  <2> QED BY <1>2, <1>4, <2>1
<1> QED BY <1>1, <1>5 DEF SettleFires, NoWrite

LEMMA TimerFits ==
  ASSUME IInv, PromptFits, NEW g, Expire(g) \/ PokeFires(g)
  PROVE  PromptFits'
<1>1. CASE PokeFires(g)
  <2>1. /\ UNCHANGED <<waiter, line, identity>>
        /\ timers' = timers \ {<<"poke", g>>}
        /\ UNCHANGED stack \/ Write(typed, "cr", FALSE, g, NoLine)
    BY <1>1 DEF PokeFires, NoWrite
  <2> QED BY <2>1, OneMoreFrame, StillSettles DEF PromptFits, PagedFrames
<1>2. CASE Expire(g)
  <2>1. CASE FailAndResync("timeout")
    BY <2>1, FailAndResyncFits
  <2>2. CASE Finish(waiter, "timeout") /\ UNCHANGED stack
    BY <2>2, FinishSettles DEF PromptFits, PagedFrames
  <2>3. CASE waiter.gen # g /\ timers' = Cleared(g) /\ UNCHANGED <<waiter, line, stack>>
    BY <1>2, <2>3, StillSettles DEF Expire, Cleared, PromptFits, PagedFrames
  <2> QED BY <1>2, <2>1, <2>2, <2>3 DEF Expire
<1> QED BY <1>1, <1>2

LEMMA ResyncContinuesFits ==
  ASSUME IInv, PromptFits, ResyncContinues
  PROVE  PromptFits'
<1>1. UNCHANGED <<line, identity>>
  BY DEF ResyncContinues
<1>2. CASE ResyncOver
  BY <1>1, <1>2, StillSettles DEF ResyncOver, PromptFits, PagedFrames
<1>3. CASE InterruptInstead
  <2>1. /\ waiter' = NewWaiter("resync", "none", generation + 1)
        /\ timers' = timers \cup Begun(waiter', line')
        /\ Write(NothingTyped, "interrupt", FALSE, generation + 1, NoLine)
    BY <1>1, <1>3 DEF InterruptInstead
  <2> QED BY <1>1, <2>1, SettlesNow, OneMoreFrame DEF PromptFits
<1> QED BY <1>2, <1>3 DEF ResyncContinues

LEMMA PromptInit == ShellInit => PromptFits
BY DEF ShellInit, PromptFits, PromptWillSettle, PagedFrames

LEMMA PromptStep ==
  ASSUME IInv, PromptFits, [AnyStep]_shellVars
  PROVE  PromptFits'
<1>1. CASE UNCHANGED shellVars
  BY <1>1, StillSettles DEF shellVars, PromptFits, PagedFrames
<1>2. CASE Overflow \/ Closed \/ Detach
  <2>1. UNCHANGED stack /\ (Finish(waiter, "limit") \/ Finish(waiter, "closed") \/ line' = <<>>)
    BY <1>2 DEF Overflow, Closed, Detach, ClearLine
  <2> QED BY <2>1, FinishSettles, NothingToSettle DEF PromptFits, PagedFrames
<1>3. CASE \E g \in Waits : SettleFires(g) \/ TimeoutFires(g) \/ IdleFires(g) \/ PokeFires(g)
  BY <1>3, SettleFiresFits, TimerFits DEF TimeoutFires, IdleFires
<1> QED BY <1>1, <1>2, <1>3, CallFits, DataFits, WriteEndsFits, ResyncContinuesFits
       DEF AnyStep

\* A prompt on the line is always being waited out: no reply inside a write,
\* no answer to the pager and no new wait leaves it without its settle timer
\* (evaluateWaiter, pageTail, beginWait).
THEOREM PromptSettles == ShellSpec => []PromptWillSettle
<1>1. ShellInit => IInv /\ PromptFits
  BY IInvInit, PromptInit
<1>2. IInv /\ PromptFits /\ [ShellNext]_shellVars => IInv' /\ PromptFits'
  <2>1. IInv /\ [ShellNext]_shellVars => [AnyStep]_shellVars
    BY NextIsAnyStep DEF IInv
  <2> QED BY <2>1, IInvStep, PromptStep
<1>3. PromptFits => PromptWillSettle
  BY DEF PromptFits
<1> QED BY <1>1, <1>2, <1>3, PTL DEF ShellSpec
=============================================================================
