# A TLA+ model of ssh-client

The library runs commands on one interactive SSH shell (`SshClient.exec`), which
it opens on demand, shares between callers and recovers after a timeout. This
directory holds TLA+ models of its concurrent core, the TLC configurations that
check them on small instances, and proofs checked by TLAPS.

    tlc -config MCSession.cfg MCSession        # one of the runs below
    tlapm SessionProofs.tla                    # the proofs: this one, ClientProofs, ShellProofs,
                                               # PagerProofs, DeviceProofs, ResponseProofs,
                                               # OutputProofs, EchoProofs

## The system

| Component | State | Operations | Talks to |
| --- | --- | --- | --- |
| `client.ts` `SshClient` | `#accepting`, `#epoch`, one promise per call | `connect`, `exec`, `disconnect`, abort of an exec's signal | the queue, the session, the shell |
| `queue.ts` | the tail of a promise chain | `enqueue` | the client's functions |
| `session.ts` `SshSession` | `#active`, `#inflight` with its subscribers, `#nextId`; per attempt: stream, shell, timers, flags, `endPromise` | `connect`, `disconnect`, abort of a subscriber's signal; listeners of ssh2's client and channel; timers; the continuation of the ready wait | ssh2, the shell, the plan |
| `attempt-plan.ts` | none | `decideAttempt`, `classifyConnectError` | called by the session for every transport event |
| `shell-io.ts` `ShellIo` | one waiter, `generation`, `resyncing`, `resyncFailed`, `detached`, the prompt | `waitForReady`, `runCommand`, `detach`; data, close, timers, abort | the channel, the accumulator, the pager; tells the session `onDead` |
| `output-accumulator.ts` | decoder, ANSI state, pending CR, current line | `push`, `drop`, `snapshot`, `clear`; `cleanOutput` | the shell |
| `pager.ts`, `prompt.ts` | `PagerState` of a waiter | recognise and answer a pager marker; recognise a prompt | the shell |
| `options.ts`, `host-key.ts`, `errors.ts`, `public-types.ts`, `index.ts` | none | validation, fingerprints, types | everybody |
| ssh2 (external) | socket, channel | `connect`, `shell`, `end`; `ready`, `error`, `close` | the session |

Everything runs in one JavaScript thread, so there are no data races, but every
`await`, listener and timer is a point where another job may come first. What is
hard is the order of these jobs:

- a `shell()` callback or the continuation of the ready wait cannot be withdrawn:
  it may come after an abort, a timeout, a `disconnect()` or a newer attempt;
- callers share an attempt and leave it one by one;
- a server may stay silent at any stage, and `close` may never follow `end()`;
- `exec` checks the signal and the barrier, awaits, and checks again;
- an aborted or timed out command leaves the shell to be resynchronised under
  the feet of the next one;
- the shell has one waiter at a time, with timers of its own; data may arrive inside
  its own `write()`, and a write may throw;
- a prompt is recognised by its looks and by silence, not by which key it answers;
- output is cut into chunks anywhere, an escape sequence or a CR LF included.

What makes each part correct: no socket, channel or caller is ever forgotten
(session); all that wait together are told together and only what concerns them
(session, plan); late events are harmless (session, plan); one command at a time
and none for a caller that gave up (client, queue, shell); `disconnect()` is a
barrier that always lifts (client); a command completes on its own prompt and on no
other (shell); its stdout is what the device printed and nothing else (accumulator);
every promise settles (all). The hazards are
listed one by one in `PROJECT.json` with the line where each bites and the
property that watches it.

## The modules

| Module | Models |
| --- | --- |
| `AttemptPlan` | `attempt-plan.ts`: `decideAttempt`, one operator per event type, and `classifyConnectError` |
| `Session` | `session.ts` with ssh2 as its environment |
| `Connection` | abstract specification: one connection that callers share, without attempts |
| `SessionRefinement` | the mapping from `Session` to `Connection` |
| `Client` | `client.ts` and `queue.ts`, composed with `Session`; the shell reduced to what the client observes |
| `Lines` | `prompt.ts` and the recognition of markers in `pager.ts`: what a line looks like, as a sequence of pieces |
| `ShellIo` | `shell-io.ts` with the `PagerState` of its waiter, against a peer that may send anything |
| `CommandShell` | abstract specification: the shell the client relies on, with calls and a resync and nothing else |
| `ShellRefinement` | the mapping from `ShellIo` to `CommandShell` |
| `ShellDevice` | `ShellIo` composed with a device: what arrives follows from what was typed |
| `Terminal` | the pure parts of `output-accumulator.ts`: `stripAnsi`, `writeDisplay` |
| `Output` | `output-accumulator.ts` as a machine fed with bytes |
| `CleanOutput` | the functions `cleanOutput` is made of, `removeHandledMarkers` of `pager.ts` among them |
| `Response` | `Output` and `CleanOutput` composed with a device that echoes, wraps, pages and prompts |
| `MCSession`, `MCClient`, `MCShellIo`, `MCShellDevice`, `MCResponse` | instances for TLC |
| `SessionProofs` | theorems about `Session` and `SessionRefinement` |
| `ClientProofs` | theorems about `Client` |
| `ShellProofs`, `PagerProofs` | theorems about `ShellIo` and `ShellRefinement` |
| `DeviceProofs` | theorems about `ShellDevice` |
| `ResponseProofs` | theorems about `Output` and the accumulator of `Response` |
| `OutputProofs` | lemmas about `CleanOutput` and about what bytes leave in the accumulator |
| `EchoProofs` | theorems about the stdout of `Response` |

`Session` extends `AttemptPlan`; `Client` extends `Session` and conjoins its
actions (`StartWithConnect` is `Connect`, `ClientDisconnect` is `Disconnect`,
and so on), so that the barrier is checked against the session's real races. `ShellDevice` extends
`ShellIo` in the same way, and `Response` extends `Output` and `CleanOutput`. `Client` does not
extend `ShellIo`: it uses the shell reduced to what it observes, and `CommandShell`
states the same promises, which `ShellIo` is shown and proved to keep.

### Session

`attempt[a]` is the `ConnectionAttempt` number `a` together with the `Inflight`
made for it (they are created as a pair). Fields that the code always sets and
reads together are one field: `attached` is `stream`, `io` and `onChannelGone`;
`end` is `clientEnded` and `endPromise`; `ready` is the promise of `waitForReady`
up to the job that consumes it. `wire` and `channel` are the state of ssh2. Each
job is one action: a call of the API, a listener, a timer, a continuation. A job
with several steps (`failInflight`: settle, clear, tear down, answer) is one action
with all of them, since nothing can run in between; promises settled by it are
consumed by later actions, in any order.

| Code | Action |
| --- | --- |
| `connect(signal)`: four exits | `ConnectOpen`, `ConnectJoin`, `ConnectAborted`, `ConnectNew` |
| a subscriber's signal fires, `onSubscriberAbort` | `Abort` |
| `disconnect()` and its `await` | `Disconnect`, `DisconnectReturns` |
| `hostVerifier` refuses | `HostKeyRejected` |
| `onClientReady`, `onShell`, the shell timer | `ClientReady`, `ShellCallback`, `ShellTimeout` |
| `onChannelGone`, `onClientError`, `onClientClose` | `ChannelGone`, `ClientError`, `ClientClose` |
| the ready wait settles; its continuation (`finishOk` or `catch`) | `ReadySettles`, `ReadyResult` |
| `onDead` | `ShellDead` (and `ReadySettles` with "limit") |
| `endClient`'s timer and its `close` listener | `EndTimer`, `ClientClose` |
| `performance.now()` passes the deadline | `DeadlinePasses` |

Bounds, all named in the module: `MaxAttempts` attempts; each caller connects once;
`Abort` only while the session may still look at the signal; `DeadlinePasses`
only while a handler may still read the clock; `HostKeyRejected` only before
teardown, as nothing reads the flag later.

### Client

`exec[e]` holds where the queued function of a call stands (`pc`), the epoch it
captured, the shell it uses, what the function settles with (`outcome`) and what
the caller was told (`result`); an abort tells the caller at once while the
function goes on, and the model keeps the two apart. `queue` is the promise chain.
The shell is reduced to: `runCommand` awaits a resync if one is under way
(`AfterResync`), writes (`WriteCommand`, which may throw), and settles with output, a
timeout, too many pages, too much output (the shell dies) or because it was
detached; a timeout or an abort of a running command starts a resync, which ends with the
prompt or with the death of the shell (`ResyncEnds`). A command that the session has
detached is already rejected; `ShellRejects` is the continuation. `unclean` is a history variable that no
guard reads: the shells on which a command was written and that have neither brought its prompt nor
been resynchronised since.

### Shell

| Code | Action |
| --- | --- |
| `waitForReady`, `runCommand`, `detach` | `WaitForReady`, `RunCommand`, `Detach` |
| `runCommand` after `await this.resyncing` | `Resume` |
| a command's signal fires | `Abort` |
| `onData` with `evaluateWaiter` and `handlePagerTail` | `Data`; `Repaint` for a chunk with a lone CR and a text shorter than the line, whose tail stays; `Overflow` when the chunk passes the cap |
| the rest of a handler after `write()`, or its `catch` | `WriteReturns` (with the pager's second look at the line, `Paged`), `WriteThrows` |
| `beginWait`, the microtask it queues included | `Begun`, the timers of a new waiter |
| settle timer (`onSettled`), timeout, idle timeout, poke | `SettleFires`, `TimeoutFires`, `IdleFires`, `PokeFires` |
| `onClosed` | `Closed` |
| `performResync` after each wait | `ResyncContinues` |

A handler that writes ends its action at the write and leaves a frame on `stack`: what the tests'
fake stream does (answer before `write()` returns, or throw) is `Data`, `WriteReturns` or
`WriteThrows` while the frame is there, and nothing else may come before it is popped. With the
stack empty the job is over; promise continuations (`Resume`, `ResyncContinues`, and the session's
`Detach` after `onDead`) run before the next timer or event (`TurnIsOver`).

A line is a sequence of pieces (`text`, `hash`, `more`, `key`, `end`): what the regular expressions
of the prompt and of the pager tell apart. The accumulator is reduced to its current line; a repainted one is a new
display line (`lineEpoch`) as one after a line feed is. A `promptRegex` may accept the empty line: the microtask that looks at
the line a new waiter finds (shell-io.ts:290-292) then arms the settle timer at once. Durations are
left out: a timer that is armed may fire at any time, which includes every relation between
the options. `lastPrompt` and the number of markers handled serve `cleanOutput` alone and are in
`Response`. `typed` and `scrolled` are history variables that no guard reads.

`Abort` requires that no other command is about to go on after a resync while one runs. The client's
queue calls `runCommand` for one command at a time, so it never meets this case; without the
condition and with three commands, two of them resume after one resync, the first is aborted at once,
the key of its resync cannot be written, and the second starts before that resync has ended.

### Device

`ShellDevice` adds a line editor with echo, a command that prints, pages and ends, Ctrl-C that a
running command may heed or ignore, keys on their way to it and chunks on their way back.
`PausesAreShort` is an assumption about the device: it prints what it owes within `settleMs`, so
that a settle timer does not fire while something is on its way. It is what shell-io.ts is built on
(a prompt is a line that looks like one and stays for `settleMs`). The run `device` makes it,
`device_slow` does not. The stream does not close, no write throws and output stays below the cap
there: `ShellIo` alone has all that.

### Response

Characters are reduced to the kinds the code tells apart, each of width one; `lead` and `cont` are
the two bytes of a character, so that a chunk may end inside one. A device echoes the command (with the
previous prompt before it, trimmed or whole, or without), wraps the echo at any place, prints any bytes,
pages, and prints the prompt; or it does not echo. `Displays` is a reference definition independent of the
accumulator: it says of a text what a terminal shows in each column, the latest character written there.
`Screen` is not independent: it is what the accumulator itself makes of the output when it comes alone and in one
chunk (`Pushed`, `Snapshot`), with its CRs applied (`ApplyCarriageReturns`); what it tells is whether the echo, the markers, the
prompt and the cuts leave a trace. `Unwrapped` is the set of texts a wrapped echo may stand for.

### Seeded faults

Next to some definitions stands a variant with a plausible mistake (`FinishOk_Unchecked`
beside `FinishOk`), marked "Seeded fault" and used by no specification. Put in the place
of the original it violates the property `PROJECT.json` names under "mutants":
evidence that the property watches the code in question.

## What is checked

| Run | Instance | Distinct states | Shows |
| --- | --- | --- | --- |
| `session` | 3 callers, 1 disconnect, 2 attempts, pinned key, every error | 490,710 | `TypeOK`; `NoLeakedTransport`, `NoLeakedStream`, `NoLostCaller`, `SingleOwner`; `StaleIsHarmless`, `ClosedWasAskedFor`, `HostKeyVerdict`; the refinement `ImplementsConnection` |
| `session_live` | 2 callers, 1 disconnect, 2 attempts | 125,570 | `CallersAnswered`, `DisconnectsReturn` |
| `client_queue` | 3 execs, 1 disconnect, 2 attempts | 345,917 | `ClientTypeOK`, `OneCommandPerShell`, `AbortedIsNotWritten`, `NoCommandIsAbandoned` |
| `client_barrier` | 1 exec, 1 connect, 2 disconnects, 2 attempts | 548,536 | `AcceptsWhenIdle`, `DisconnectIsABarrier` |
| `client_live` | 2 execs, 2 attempts | 362,223 | `ExecsAnswered` |
| `client_lift` | 1 connect, 2 disconnects, 1 attempt | 4,751 | `ConnectsAnswered`, `BarrierIsLifted` |
| `shell` | 2 commands, 1 page, lines of 2 pieces, 5 chunks and their repaints, a prompt regex that also accepts the empty line | 37,313 | `NoPromiseIsLost`, `NoStaleTimer`, `NoCommandInResync`, `KeysAreTypedOnce`, `MarkerIsAnsweredOnce`, `CallsAreAnswered`; the refinement `ImplementsCommandShell` |
| `device` | 3 commands, 2 pages, prompts of 3 pieces, lines of 4, 1 reply inside `write()`, 2 chunks on their way, no regex | 815,829 | `ShellTypeOK`, `OneCommandOneResponse`, `IdleShellIsAtPrompt`, `IdentityIsPrompt`, `MarkerIsAnsweredOnce`, `PromptWillSettle` |
| `response` | a command of two words and a blank, chunks of 2 bytes out of 13 kinds, 2 wraps, 2 bytes or markers of output (4 without an echo) | 241,450 | `ChunksDoNotMatter`, `LineIsDisplayed`, `SnapshotIsClean`, `StdoutIsTheOutput`, `OnlyTheEchoIsLost` |
| `session_close` | 1 caller, 1 disconnect, 1 attempt | violated | `DisconnectWaitsForClose`: a divergence from the documentation, below |
| `client_overlap` | 1 connect, 2 disconnects, 1 attempt | violated | `BarrierHeld`: a divergence from the documentation, below |
| `device_slow` | 2 commands, 1 page, a device slower than `settleMs` | violated | `OneCommandOneResponse`: a divergence from the documentation, below |

Why these bounds are enough for the cases that matter: three callers are one who creates
an attempt, one who joins and one who comes late or leaves; two attempts are the
stale one and the one it might disturb; one `disconnect()` can hit each phase, and two
can overlap in every way; three execs are one running, one queued behind it and one more, to tell
the order of the queue from a choice between two. A call that needs an attempt when `MaxAttempts` are
used up cannot go on; in the session's and the client's liveness runs this cannot happen, because an exec connects at most once
(two execs, two attempts) and only pending calls are asked about.

Two commands are one that fails and one that awaits its resync; `device` has a third, so that a
command follows a resync that followed a command. Two pages are one below and one at the limit.
The chunks of `shell` are a prompt and a marker, each on a line of its own and behind other text, and another line; a chunk that is
shorter than the line may also repaint its head alone. A line of two pieces is shorter or longer than, or as long as, what is looked at. `device` cuts a
marker with its key hint into three chunks, on a line longer than `MaxPromptLength`. For `response`, an escape
sequence of three bytes or a CR LF fits into the output without an echo, and two chunks cut it at each place.

Symmetry is used for safety runs only: calls of one kind differ by name alone.
The client's safety runs also use a VIEW (`LiveState`): two states are identified
when they differ only in fields nothing reads any more. For an attempt torn down,
every guard left reads `end`, `channel`, `ready` and (while `end` is waiting) `wire`; for an
answered call or a returned `disconnect()`, none reads anything. The properties of those runs
do not read the fields left out either, except to compare an answered call with itself.
Which of the symmetric states TLC keeps depends on the fields left out, so that the number of states of
`client_queue` varies a little with the number of workers (the table has that of two); without `SYMMETRY` it does not, and is 1,109,608.

Deadlock is not checked: the number of calls is finite, an idle session or shell has nothing to do,
and a response ends with its prompt.
Whether anything gets stuck is the business of the liveness properties.

### Fairness

Weak fairness, and only for what the code or the platform schedules:
timers that were armed (`ShellTimeout`, the ready wait's timeout, `EndTimer`, a command's
timeout, the resync's), promise continuations (`ReadyResult`, `DisconnectReturns`,
`Connected`, ...), and the end of ssh2's handshake, which the session bounds by passing
`readyTimeout` (`HandshakeEnds`: ready, error or close). Nothing is assumed of the server:
`shell()` may never call back, no prompt may ever come, `close` may never follow `end()`, a
command may print nothing.

In `ShellIo` a timer and a chunk compete for the next turn of the event loop, and a chunk may
switch the timer's action off and on again (`TurnIsOver`) without end. Node serves a timer that is due at
the next turn whatever else came in, so `TimeoutFires` is strongly fair, for each of the `MaxWaits`
waits there can be: one for ready, and for each command its own and at most two of its resync. A
write returns or throws, continuations run, and `onDead` detaches the shell (`deadNotified /\ Detach`):
weak fairness.

### Three divergences from the documentation

1. `disconnect()` "waits until the client emits `close`, or 1 second" (docs/usage.md:114). It waits
   for the attempts it tears down itself (session.ts:158-172). When an attempt was aborted or
   failed just before, its socket is still closing, it is in neither `#inflight` nor `#active`, and
   `disconnect()` returns at once (`session_close`).
2. "`exec` / `connect` while `disconnect()` is in progress: rejects `closed` immediately"
   (docs/usage.md:111). By the same mechanism, a second `disconnect()` during a first finds nothing
   to wait for, returns at once and, having the latest epoch, lifts the barrier while the first
   is still in progress (`client_overlap`). What does hold is `DisconnectIsABarrier` (no call made
   before any of the disconnects takes effect after it) and `AcceptsWhenIdle`.
3. "Commands are serialized on the single shell session [...] one command <-> one response"
   (docs/usage.md:98-99). A command completes on whatever prompt is on the line when the settle timer
   fires (shell-io.ts:475), also one that answers an earlier key: the CR or the poke of the ready wait, the
   Ctrl-C of a resync. If the device takes longer than `settleMs` for that answer, it completes the
   next command, whose own output is then taken for that of the one after (`device_slow`). What does hold is
   `OneCommandOneResponse` for a device with short pauses (`device`).

### Cases the properties leave out

Each is a precondition of a property or of the environment, met while the model was written:

- a key hint that arrives for a marker on a line longer than `maxPromptLength` gets the marker a second
  answer, because the tail that is compared has moved on (pager.ts:38; CHANGELOG.md:14):
  `MarkerIsAnsweredOnce` is about lines not longer than that;
- a space inserted before a wrap that falls before a space of the command is taken for that space,
  and the echo stays in stdout (output-accumulator.ts:236; docs/usage.md:136-137), and ordinary markers
  of the output are taken for paged ones when both occur, for they are removed by count (pager.ts:71; docs/usage.md:132):
  `StdoutIsTheOutput` excludes both by `wraps` and `ordinary`;
- an echo that begins like another one and goes on can take the first line of the output with it: after the prompt
  `a`, a device that echoes the command `a` alone and prints `a` seems to have echoed prompt and command in two lines
  (output-accumulator.ts:196-217). TLC finds this when `Previous` and `Command` are both `a`, so `StdoutIsTheOutput` is
  about constants that are `Unambiguous`. `OnlyTheEchoIsLost` needs no such thing;
- a marker that arrives inside the write of `q` is answered by a second `q`, since `quitSent` is set
  after the write (pager.ts:47): `KeysAreTypedOnce` is checked with `MaxDepth = 0`;
- `settleMs` above 5 s leaves a resync no time to succeed (options.ts:40): durations are not in the model, and whether time is left
  before a resync's deadline (shell-io.ts:578) is a free choice;
- when the ready wait has taken its candidate it clears the line (`settleReady`), and a `promptRegex` may accept the empty line that
  is left; it is looked at when something else arrives. `PromptWillSettle` is about lines that are not empty, and `Response` about a
  final prompt that is not;
- when `disconnect()` is called, a function of an exec may already have its outcome, output included, and only its
  caller not know it yet: `DisconnectIsABarrier` forbids that the function comes to succeed after it, not that the caller is told;
- an escape sequence the output leaves open takes the first characters of the prompt with it, and
  `clear()` in the middle of one leaves its rest to be read as text (output-accumulator.ts:60): in
  `Response` the prompt comes when no sequence is open.

## What is proved

`SessionProofs` proves, for any number of callers, disconnects and attempts and any set of errors:
`TypeOK`, `NoLeakedTransport`, `NoLeakedStream`, `SingleOwner` and `NoLostCaller` are invariants of
`Session`. The assumptions are those of the module: `MaxAttempts` is a positive natural number,
`HostKeyPinned` a Boolean and `Errors` a set of ssh2 errors.

None of the safety invariants is inductive by itself: that no channel is forgotten depends on an
attempt with a shell being one that teardown will find, that no caller is lost depends on a settled
attempt having no subscribers. The inductive invariant `IInv` says that an attempt is in one of four
situations, told apart by `nextId`, `inflight` and `active`:

| Situation | Known by | Its record |
| --- | --- | --- |
| not created | `a > nextId` | `CreatedAttempt`, untouched |
| connecting | `inflight = a` | not torn down, not settled, has subscribers, client not ended; channel open iff attached |
| open | `active = a` | settled, no subscribers, attached, its ready wait consumed |
| gone | neither | torn down, no subscribers, nothing attached, no timer, channel not open, client ended |

and that in flight and in use exclude one another. The proof has one lemma per action. Most actions
come down to three general lemmas: the job changes the record within its situation (`OnlyRecordStep`),
it ends the attempt and answers its subscribers (`EndStep`), or it fails whatever is current
(`FailInflightStep`). The five theorems then follow from `IInv` by one step each.

It also proves the action properties `StaleIsHarmless`, `ClosedWasAskedFor` and `HostKeyVerdict`,
and `ImplementsConnection`. One lemma (`StepResult`) says what a step of the session can come to: a call of
the API, or a job of one attempt that changes its own record alone (`Kept`), fails whatever is in flight with a
reason its record justifies (`Fails`), makes it the one in use (`Establishes`), or ends the one in use (`Drops`).
The plan of `attempt-plan.ts` is looked into only there: that its decision for a
stale attempt is to close its own stream, for a failed one an error its record accounts for. `HostKeyVerdict`
needs two facts more than `IInv` (`VerdictIInv`): a handshake whose key was refused never gets
past `connecting`, so that neither success nor a ready wait can follow the refusal, and the ready wait of a live attempt ends in
one of the ways the shell has. For the refinement, `Kept` is a stutter, `Fails` is the abstract connection's
failure that answers all who wait, `Establishes` its success and `Drops` its loss; the callers it answers are the subscribers of the
attempt in flight by `NoLostCaller`.

`ClientProofs` proves, for any number of calls of `exec`, `connect` and `disconnect` (finitely many of the last):
`ClientTypeOK`, `OneCommandPerShell` and `AcceptsWhenIdle` are invariants of `Client`. Its inductive invariant
`ClientIInv` has the session's `IInv`, the types and three parts:

- `Turns`: the functions that have not settled are in `queue`, each once, and only the first has started. That
  two are never under way says nothing by itself of who is still to come;
- `Shells`: the shell a command was given is the open session's or is torn down, and not being resynchronised
  while a command runs on it. It covers the commands that wait for a resync too, as they are written later without
  another look at the session;
- `Barriers`: the epoch is the number of `disconnect()` calls made, and unless the client accepts calls the one that
  has this epoch is still waiting. Without the count, `accepting` could be waiting for a call that has returned.

The steps of the session enter by `ShellsStay`: an attempt torn down stays so, and the one in use stays in use or
is torn down. A step of the client either moves the function of one exec (`ProgressKeeps`) or none
(`QuietKeeps`); only `Exec` and `ExecSettles` change the queue.

It also proves the action properties `DisconnectIsABarrier` and `AbortedIsNotWritten`, and
the invariant `NoCommandIsAbandoned`, again for any number of calls. The barrier needs one thing more: `runCommand` does not
read the epoch again after it has waited for a resync, so the proof must know that a call overtaken by a
`disconnect()` is with a shell that was torn down (`StaleIsGone`), which `disconnect()` establishes and
nothing undoes. `NoCommandIsAbandoned` needs to know of a call that has failed and still runs that its caller was told by an abort
(`CallersWait`), and that a shell with something left on it is in use or torn down (`LeftOnOpenShell`).

`ShellProofs` proves, for any commands, chunks and prompts and any nesting of replies inside `write()`:
`ShellTypeOK`, `NoPromiseIsLost`, `NoStaleTimer` and `NoCommandInResync` are invariants of `ShellIo`. `ShellTypeOK`
contains that `pages` never passes `MaxPages`. The rest of the inductive invariant (`IInv` of that module) says

- who the waiter in place waits for, and that generation 0 is nobody's (`WaiterFits`): a promise can only be shown
  to be settled by its waiter if the waiter's mode determines its call;
- that the writes under way were made for some waiter, and that a signal is listened to by its own command
  (`OwnersFit`): a write that returns when its waiter is done must not touch the absence of one;
- that nothing comes before the ready wait has succeeded, that a resync under way has an outcome, and that
  no command is about to go on while there is one (`CallsFit`): such a command would start in the middle of a
  resync;
- that a shell that was detached, or has told its owner that it is dead, has no waiter (`GoneFits`).

It also proves that `ShellIo` implements `CommandShell`, the specification `Client` is
built upon. Step by step: a command's waiter that finishes is `End`, a failure that starts a resync `GiveUp`,
whatever ends the shell `Go`; a call that is refused, waits or collides is `Refuse`, `Await` or `Collide`, a command that
is written `Start`, the end of a resync `ResyncEnds`; data, pages, keys and timers that only rearm are stutters.

`PagerProofs` proves the properties of the keys that `ShellIo` writes.

- `MarkerIsAnsweredOnce`, for any chunks and any nesting of replies inside `write()`. The invariant (`MarkerFits`) ties the
  history to what the pager remembers: while `sameLine` holds, either the line has had no answer and ends in no marker, or
  `answeredTail` is a prefix of the line that contains the marker answered. A tail that extends it with a second
  marker is another one's; with a key hint it is the same.
- `KeysAreTypedOnce`, for `MaxDepth = 0`: a peer that answers after `write()` has returned. That is necessary: a marker
  that arrives inside the write of `q` is answered by a second `q` (see "Cases the properties leave out"). The invariant (`TypedFits`) says which
  write is under way when a flag that should prevent the next is not set yet. For any nesting, the command, Ctrl-C and
  Ctrl-U are typed once in each wait (`OtherKeysOnce`): `q` is the only key that can be repeated.
- `PromptWillSettle`, for any chunks and any nesting of replies inside `write()`: while the line looks like the prompt a waiter waits for, its
  settle timer runs. The pager stops the timer when its write has returned, which is wrong if a reply inside the write has armed it
  for a prompt. The invariant (`PromptFits`) adds that the writes of the pager that are under way answer a marker (`PagedFrames`):
  a line that is a prompt is not the one such a write was made for, so the pager looks again.

`DeviceProofs` proves the properties of `ShellDevice`, for any number of commands, pages, nested replies and chunks on
their way. The theorems of `ShellProofs` and `PagerProofs` are about steps with any chunk (`AnyStep`), so that they hold in front
of the device too; a repaint is `Data` of a longer chunk that is a line of its own (`RepaintIsData`). From there on the proof looks at a step of the shell for what the device could tell of
it: fourteen moves (`Pokes`, `Confirms`, `Starts`, `Completes`, `Resyncs`, ...), and the device's own steps.

- `IdentityIsPrompt`, however late the device prints. Until the shell is ready (`BeforeReady`) only empty lines are typed, and the banner
  comes once and before every prompt; as it leaves the line with `candidate` unset, it is never both the line and the
  candidate that the line must equal.
- `IdleShellIsAtPrompt` and `OneCommandOneResponse`, for a device with short pauses (`PausesAreShort = TRUE`; without it they are
  false, run `device_slow`). The invariant (`InStep`) has three parts: a prompt that nothing follows, on the wire or on the line, is the device's last word
  (`PromptIsLast`), so that a prompt which settled while the device owes nothing means it waits there (`Quiet`); without a waiter and a resync it is
  quiet; and while a command is on the shell, the device has it still to read, runs it, or has ended it, and every prompt on
  its way or on the line was printed by its end (`DeviceServes`). The last is what neither property says and both need. During a resync
  nothing but `PromptIsLast` is known of the device: the proof shows that this is enough to be in step again when it succeeds.

These assume `Regex \subseteq {Prompt}`: `promptRegex` is not given, or matches the device's prompt
and nothing else it prints. A regex that matches lines of the output ends a command there, which is what its caller asked for.

`ResponseProofs` proves the properties of the accumulator, for an input of any length in any chunks (the bounds of
the run are not used).

- `ChunksDoNotMatter`: the state is the one that a single chunk would have left.
- `SnapshotIsClean`: no escape character and no CR before an LF is in a snapshot, taken at any time.
- `LineIsDisplayed`: the line that is matched against prompts and markers shows what a terminal would, which is stated
  of the text (`Displays`) and not of how the accumulator computes it.

The accumulator folds a step over its input (`FoldLeft`), so each of these is an induction over a text. The induction theorems of the
library have an operator as a parameter; the module has the same for a set (`Induction`, from the least element of a
set of naturals), with the step as a function. A fold is shown to be the last state of a `Runs` of its step, a
sequence of states, and what the proofs need of folds is proved of runs: the states stay in a set that the step
does not leave (`RunStaysIn`), a run over two texts is a run over the first continued over the second (`RunsJoin`), and
a map that commutes with the step takes runs to runs (`RunsMap`). Each is then stated for the three folds
of `Output`: the decoder, the filter of escapes and `appendChar`. From the first follow the sets of states
(`Decodings`, `Strippings`, `Accumulators`: nothing that the filter lets through is an escape, and in the text each CR is followed by
something else than an LF). From the other two follows `PushedInPieces`, from which `ChunksDoNotMatter` is inductive: the decoder and the filter carry only
`partial` and `ansi` from one chunk to the next, and what they have put out before does not matter to them (`DecodeShift`, `StripShift`).

For `LineIsDisplayed` the invariant (`Showing`) is about the text before the CRs that are held back: `line` and `col` are what
the last line shows and where its cursor is (`Shown`), said of positions: the character in a column is the latest that was written
there (`Cell`). Another character (`ShownChar`) and any number of CRs (`ShownCrs`) keep that. That it is the same as `Displays`, which goes from
return to return and takes the last stroke that is long enough, is `VisibleDisplays`.

Two more theorems say what `cleanOutput` may rely on. It strips escapes and collapses CR LF in the snapshot once more, with
code of its own: `SecondPassIsIdle` says that this changes no snapshot. And `stripFinalPrompt` computes the last line from the text, where
`onSettled` compared `currentLine()` with the prompt: `PromptIsRemoved` says that the line is the same (both are what the
text shows, `ApplyCrLineShows`, and a text shows one thing, `VisibleIsUnique`), so that the prompt on which a command completes is removed.
The second supposes that the output does not end in the middle of a character (`~acc.partial`). Neither is a property of a run.

`EchoProofs` proves what a command returns, again for an input of any length in any chunks, with any number of wraps and of markers.

- `OnlyTheEchoIsLost`: when the device does not echo, `cleanOutput` takes nothing from the output unless its first line is the command.
- `StdoutIsTheOutput`, for constants that are `Unambiguous`: the echo, wrapped anywhere, the paged markers and the prompt are
  gone and nothing else is.

The invariant (`PhaseInv`) says what the accumulator holds while the echo comes, while the output comes and when the prompt has come. The
properties speak of `shown`, which is a history of bytes and has no markers in it; the accumulator has folded bytes and markers together,
behind an echo. So the invariant relates the accumulator to others that the program never has:

- `Prefixed(w, a)`: the accumulator is `a` with `w` in front of its text. After a line feed bytes change nothing in front of them
  (`PrefixedPushed`), so the output may be looked at as if nothing had come before it;
- `Proper(a)`: `a` is to the accumulator of `shown` alone (`Pushed(Fresh, shown)`) what a text with `handled` markers is to the text
  without them (`Twins`), or has only ordinary markers and is that accumulator. Removing as many markers as were handled then
  leaves the screen of `shown` (`ScreenOfOutput`);
- `Lead(w)`: `w` is an echo and a line feed, or nothing if the device is silent;
- `Following(acc, expected, j)`: while `expected` is echoed and its first `j - 1` characters have come, with whatever wraps, the table of
  `matchWrapped` comes, at the end of the text, to the entry `j`, however the text goes on (`Tracks`). The table is greedy and goes
  forward, while it is computed from the end of the text backwards; what is proved is that its first entry
  is the one that the characters read so far lead to. CRs held back are the reason that this is said of texts that go on with a line end. When all has
  come, the match ends where the echo does (`Greedy`).

For `Done`, `Screen` and the markers the proofs go as in `ResponseProofs`, with two folds more (`SplitAll` for the lines, `RemoveAll` for the markers). `Table`
and `Unwrapping` name the recursive functions that `WrappedEnd` and `Unwrapped` define inside: that there is one (`TableExists`) is
shown by an induction over the text, since the library's theorem on recursive functions has an operator as a parameter. `MatchUnwraps`
relates the two: where `matchWrapped` ends, the text up to there has a reading that is what was looked for. From it follows `OnlyTheEchoIsLost`:
the text that is taken, if any, is in front of the output, and the output has nothing else in front of it than what the property allows.
`StdoutIsTheOutput` needs the converse, that nothing but the echo is taken, and `StripEcho` takes the first match of five that it tries. What two matches of one
text have in common is seen without the blanks that wraps add or drop (`Ink`): the longer one has the ink of the other and goes on
(`LongerMatch`). `Unambiguous` says that no two of the five are so related, and that is what it is for. It fails when the command is the
beginning of a prompt, as `r` at `r1#`; stdout is then wrong only if the output also begins like the rest. `MCResponse` assumes it of the
run's constants, where TLC evaluates it.

The assumptions about the constants (`ResponseAssumption`) are that the command and the prompts are sequences of `Letters`, for `validateCommand` refuses control
characters and a prompt is read from the display line; that the command is not empty and does not end in a blank, as it is trimmed (options.ts:76-80); that the
prompt on which a command completes is not empty, as it was recognised on the line; and that `Bytes` are among `Kinds`, as what is beyond them
has no meaning to the accumulator.

Every invariant and every action property that the passing runs check is proved. Model-checked only is everything about liveness, fairness and
`ENABLED`, which the prover does not reach.

## Not modelled

- Synchronous exceptions of ssh2: one thrown inside its `ready` handler (by `shell()`) ssh2 turns into an `error`
  event, which is `ClientError`; `connect()` throws only for configurations that `resolveOptions` rejects.
- `shellWindow`, `getStream`, messages and causes of errors, durations: nothing is decided on them.
- Validation of options and parsing of fingerprints: stateless functions of one argument, covered by unit tests.
- The width of characters: each takes one column (the code counts UTF-16 units). A caller's `promptRegex` is the set of lines it accepts.
- Types, re-exports, tests, end-to-end tests and tools.

## Plan

Done: the session, the client with its queue and barrier, the shell against any peer and against a device, the
accumulator and `cleanOutput`, and the proofs above, of every safety property the passing runs check. Left:

1. `Client` over `ShellIo` for a small instance, in the place of the reduced shell; so far the two are joined by
   `CommandShell` alone, which `ShellIo` is proved to implement.
2. Durations for the few relations the code depends on (`settleMs` against the 5 s of a resync).
