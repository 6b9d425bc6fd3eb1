---------------------------- MODULE ShellDevice ----------------------------
(***************************************************************************)
(* ShellIo in front of a device: what is printed follows from what was     *)
(* typed, and both take time.  The device is external; it is what the      *)
(* shell is written for: a line editor that echoes, a command that runs,   *)
(* pages its output and ends with the prompt, Ctrl-C that a command may    *)
(* heed or ignore.  The stream does not close, a write does not throw and  *)
(* output stays below the cap (ShellIo alone has all that).                *)
(***************************************************************************)
EXTENDS ShellIo

CONSTANTS
  PausesAreShort,  \* the device prints what it owes within settleMs
  MaxWire          \* bound: chunks on their way

ASSUME DeviceAssumption == PausesAreShort \in BOOLEAN /\ MaxWire \in Nat \ {0}

VARIABLES
  dev,     \* what the device is doing, for which command, junk on its input line
  keys,    \* typed and not yet read
  wire,    \* printed and not yet received
  lineBy   \* history: the command whose end printed the line received last

deviceVars == <<dev, keys, wire, lineBy>>
vars == <<shellVars, deviceVars>>

Prompt == <<"hash">>
Chunk(newLine, text) == [newLine |-> newLine, text |-> text]

Emits(chunks, by) ==
  wire' = wire \o [i \in DOMAIN chunks |-> [chunk |-> chunks[i], by |-> by]]
Emit(chunk, by) == Emits(<<chunk>>, by)
EmitPrompt(by) == Emit(Chunk(TRUE, Prompt), by)

\* A banner that looks like a prompt is on its way; the prompt will follow.
DeviceInit ==
  /\ ShellInit
  /\ dev = [at |-> "boot", cmd |-> "none", junk |-> FALSE]
  /\ keys = <<>>
  /\ wire = <<[chunk |-> Chunk(FALSE, <<"text", "hash">>), by |-> "none"]>>
  /\ lineBy = "none"

-----------------------------------------------------------------------------
(* The device.                                                             *)

Becomes(at, cmd, junk) == dev' = [at |-> at, cmd |-> cmd, junk |-> junk]

AtPrompt == Becomes("prompt", "none", FALSE)

Room == Len(wire) < MaxWire

Boot ==
  /\ dev.at = "boot"
  /\ Room
  /\ AtPrompt
  /\ EmitPrompt("none")
  /\ UNCHANGED <<shellVars, keys, lineBy>>

\* A key read by the line editor.  A command typed after junk is an error.
EditLine(k) ==
  /\ dev.at = "prompt"
  /\ \/ k.key \in {"cr", "interrupt", "kill"} /\ AtPrompt /\ EmitPrompt("none")
     \/ k.key \in {"space", "quit"} /\ Becomes("prompt", "none", TRUE)
                                    /\ Emit(Chunk(FALSE, <<"text">>), "none")
     \/ k.key = "command" /\ dev.junk /\ AtPrompt /\ EmitPrompt("none")
     \/ k.key = "command" /\ ~dev.junk /\ Becomes("running", k.call, FALSE)
                                       /\ Emit(Chunk(TRUE, <<>>), "none")

\* A key read by the pager; those it does not know it ignores.
Page(k) ==
  /\ dev.at = "paging"
  /\ \/ k.key = "space" /\ Becomes("running", dev.cmd, FALSE)
                        /\ Emit(Chunk(TRUE, <<>>), "none")
     \/ k.key \in {"quit", "interrupt"} /\ AtPrompt /\ EmitPrompt(dev.cmd)
     \/ k.key \notin {"space", "quit", "interrupt"} /\ UNCHANGED <<dev, wire>>

ReadKey ==
  /\ keys # <<>>
  /\ Room
  /\ EditLine(Head(keys)) \/ Page(Head(keys))
  /\ keys' = Tail(keys)
  /\ UNCHANGED <<shellVars, lineBy>>

\* While a command runs, keys wait to be read; Ctrl-C flushes those before it.
Interrupted ==
  \E i \in DOMAIN keys :
    /\ keys[i].key = "interrupt"
    /\ dev.at = "running"
    /\ Room
    /\ keys' = SubSeq(keys, i + 1, Len(keys))
    /\ \/ AtPrompt /\ EmitPrompt(dev.cmd)
       \/ UNCHANGED <<dev, wire>>
    /\ UNCHANGED <<shellVars, lineBy>>

\* A marker, with or without its key hint, as it may be cut into chunks.
MarkerChunks ==
  {<<Chunk(TRUE, <<"more">>)>>,
   <<Chunk(TRUE, <<"more", "key", "end">>)>>,
   <<Chunk(TRUE, <<"more">>), Chunk(FALSE, <<"key">>), Chunk(FALSE, <<"end">>)>>}

\* The command prints, pauses at a marker or ends.
Runs ==
  /\ dev.at = "running"
  /\ Room
  /\ \/ Emit(Chunk(TRUE, <<"text">>), "none") /\ UNCHANGED dev
     \/ /\ \E chunks \in MarkerChunks : Emits(chunks, "none")
        /\ Becomes("paging", dev.cmd, FALSE)
     \/ EmitPrompt(dev.cmd) /\ AtPrompt
  /\ UNCHANGED <<shellVars, keys, lineBy>>

\* What the device will do without being typed to again, and without its
\* command going on.
Owes ==
  \/ wire # <<>>
  \/ dev.at \in {"prompt", "paging"} /\ keys # <<>>
  \/ dev.at = "running" /\ \E i \in DOMAIN keys : keys[i].key = "interrupt"

-----------------------------------------------------------------------------
(* The shell in front of it.                                               *)

\* The key of a write that has just been made is on its way.
Typed ==
  IF Len(stack') > Len(stack)
    THEN keys' = Append(keys, [key |-> Last(stack').key, call |-> waiter'.call])
    ELSE keys' = keys

\* A step of the shell by itself.
Acts ==
  /\ \/ WaitForReady
     \/ WriteReturns
     \/ ResyncContinues
     \/ \E c \in Commands : RunCommand(c) \/ Resume(c) \/ Abort(c)
     \/ \E g \in Waits : TimeoutFires(g) \/ PokeFires(g)
  /\ Typed
  /\ UNCHANGED <<dev, wire, lineBy>>

Settles ==
  /\ PausesAreShort => ~Owes
  /\ \E g \in Waits : SettleFires(g)
  /\ Typed
  /\ UNCHANGED <<dev, wire, lineBy>>

\* The next chunk arrives; without a waiter it is dropped.
Receives ==
  /\ wire # <<>>
  /\ IF HasWaiter THEN Data(Head(wire).chunk)
     ELSE DataMayCome /\ UNCHANGED shellVars
  /\ lineBy' = Head(wire).by
  /\ wire' = Tail(wire)
  /\ Typed
  /\ UNCHANGED dev

DeviceNext ==
  Boot \/ ReadKey \/ Interrupted \/ Runs \/ Acts \/ Settles \/ Receives

DeviceSpec == DeviceInit /\ [][DeviceNext]_vars

-----------------------------------------------------------------------------
(* Properties.                                                             *)

\* One command, one response: a command completes on the prompt that the
\* device printed when that very command ended.
OneCommandOneResponse ==
  [][\A c \in Commands :
       calls[c] = "running" /\ calls'[c] \in {"ok", "limit"} => lineBy = c]_vars

\* Between commands, after a completed resync too, the device waits at an
\* empty prompt, and nothing is on its way to the next command.
IdleShellIsAtPrompt ==
  calls[Ready] = "ok" /\ ~HasWaiter /\ resync.step = "none" /\ ~detached /\ ~deadNotified
    => dev.at = "prompt" /\ ~dev.junk /\ ~Owes

\* The line confirmed when the shell became ready is the prompt and not the
\* banner, however late the prompt comes.
IdentityIsPrompt == identity \in {NoLine, Prompt}
=============================================================================
