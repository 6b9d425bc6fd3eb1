---------------------------- MODULE DeviceProofs ----------------------------
(***************************************************************************)
(* Theorems about ShellDevice, for any number of commands, any depth of    *)
(* replies inside write() and any amount of output on its way.             *)
(***************************************************************************)
EXTENDS ShellDevice, PagerProofs

Banner == <<"text", "hash">>
BannerChunk == Chunk(FALSE, Banner)
PromptChunk == Chunk(TRUE, Prompt)

\* All that the device prints.
Printed ==
  {BannerChunk, PromptChunk, Chunk(TRUE, <<>>), Chunk(TRUE, <<"text">>), Chunk(TRUE, <<"more">>),
   Chunk(TRUE, <<"more", "key", "end">>), Chunk(FALSE, <<"text">>), Chunk(FALSE, <<"key">>),
   Chunk(FALSE, <<"end">>)}

DeviceTypeOK ==
  /\ dev \in [at : {"boot", "prompt", "running", "paging"}, cmd : Calls \cup {"none"},
              junk : BOOLEAN]
  /\ keys \in Seq([key : Keys, call : Calls \cup {"none"}])
  /\ wire \in Seq([chunk : Printed, by : Calls \cup {"none"}])
  /\ lineBy \in Calls \cup {"none"}

\* The shell as this device sees it: it is never detached, without a waiter
\* it writes nothing, and it pokes the device only before it is ready.
OneWriter ==
  /\ ~detached
  /\ ~HasWaiter => stack = <<>>
  /\ \A t \in timers : t[1] = "poke" => waiter.mode = "ready"

\* Until the shell is ready: only empty lines are typed, and the banner comes
\* once, before every prompt.
BeforeReady ==
  /\ identity = NoLine
  /\ \A i \in DOMAIN keys : keys[i].key = "cr"
  /\ dev.at \in {"boot", "prompt"} /\ ~dev.junk
  /\ \A i \in DOMAIN wire : wire[i].chunk = PromptChunk \/ (i = 1 /\ wire[i].chunk = BannerChunk)
  /\ line \in {<<>>, Banner, Prompt}
  /\ waiter.candidate \in {NoLine, Banner, Prompt}
  /\ (wire # <<>> /\ wire[1].chunk = BannerChunk) => line = <<>> /\ waiter.candidate = NoLine
  /\ line = Banner => waiter.candidate = NoLine
  /\ dev.at = "boot" => line # Prompt /\ \A i \in DOMAIN wire : wire[i].chunk = BannerChunk

ReadyFits == IF calls[Ready] = "ok" THEN identity = Prompt ELSE BeforeReady

Quiet == dev.at = "prompt" /\ ~dev.junk /\ wire = <<>> /\ keys = <<>>

\* A prompt that nothing follows is the device's last word: it waits.
PromptIsLast ==
  IF wire = <<>> THEN line = Prompt => dev.at = "prompt" /\ ~dev.junk
  ELSE wire[Len(wire)].chunk = PromptChunk => dev.at = "prompt" /\ ~dev.junk

\* While c is on the shell the device has c to do, or does it, or has done it.
DeviceServes(c) ==
  /\ dev.at # "boot"
  /\ dev.at \in {"running", "paging"} => dev.cmd = c
  /\ \A i \in DOMAIN keys :
       \/ keys[i].key \in {"space", "quit"}
       \/ /\ keys[i] = [key |-> "command", call |-> c]
          /\ i = 1 /\ dev.at = "prompt" /\ ~dev.junk
  /\ \A i \in DOMAIN wire : wire[i].chunk = PromptChunk => wire[i].by = c
  /\ line = Prompt => lineBy = c

InStep ==
  calls[Ready] = "ok" /\ ~deadNotified =>
    /\ PromptIsLast
    /\ ~HasWaiter /\ (resync.step = "none" \/ resync.outcome = "ok") => Quiet
    /\ waiter.mode = "command" => DeviceServes(waiter.call)

-----------------------------------------------------------------------------
(* What is printed.                                                        *)

Sent == [chunk : Printed, by : Calls \cup {"none"}]
Pressed == [key : Keys, call : Calls \cup {"none"}]

LEMMA ChunkIs ==
  ASSUME NEW newLine, NEW text
  PROVE  Chunk(newLine, text).newLine = newLine /\ Chunk(newLine, text).text = text
BY DEF Chunk

LEMMA Texts ==
  /\ Prompt \in Seq(Pieces) /\ Len(Prompt) = 1 /\ Prompt[1] = "hash" /\ Prompt # <<>>
  /\ Banner \in Seq(Pieces) /\ Len(Banner) = 2 /\ Banner # <<>> /\ Banner # Prompt
  /\ NoLine # Prompt /\ NoLine # Banner
BY DEF Prompt, Banner, NoLine, Pieces

LEMMA OtherTexts ==
  /\ <<>> \in Seq(Pieces) /\ <<>> # Prompt
  /\ <<"text">> \in Seq(Pieces) /\ <<"text">> # Prompt /\ Len(<<"text">>) = 1
  /\ <<"more">> \in Seq(Pieces) /\ <<"more">> # Prompt
  /\ <<"more", "key", "end">> \in Seq(Pieces) /\ <<"more", "key", "end">> # Prompt
  /\ <<"key">> \in Seq(Pieces) /\ <<"key">> # Prompt /\ Len(<<"key">>) = 1
  /\ <<"end">> \in Seq(Pieces) /\ <<"end">> # Prompt /\ Len(<<"end">>) = 1
<1>1. {"text", "more", "key", "end"} \subseteq Pieces
  BY DEF Pieces
<1>2. \A x \in Pieces : <<x>> \in Seq(Pieces) /\ Len(<<x>>) = 1 /\ <<x>>[1] = x
  OBVIOUS
<1>3. <<"more", "key", "end">> \in Seq(Pieces) /\ Len(<<"more", "key", "end">>) = 3
  BY <1>1
<1>4. <<>> \in Seq(Pieces)
  OBVIOUS
<1> QED BY <1>1, <1>2, <1>3, <1>4, Texts

\* A chunk on a new line, and one that goes on with the line.
LEMMA PrintedTexts ==
  ASSUME NEW chunk \in Printed
  PROVE  \/ /\ chunk.newLine = TRUE
            /\ chunk = PromptChunk \/ chunk.text \in {<<>>, <<"text">>, <<"more">>, <<"more", "key", "end">>}
         \/ /\ chunk.newLine = FALSE
            /\ chunk.text \in {Banner, <<"text">>, <<"key">>, <<"end">>}
BY DEF Printed, BannerChunk, PromptChunk, Chunk

LEMMA PrintedChunks ==
  ASSUME NEW chunk \in Printed
  PROVE  IsChunk(chunk)
<1>1. PromptChunk.text = Prompt
  BY DEF PromptChunk, Chunk
<1>2. chunk.text \in {Prompt, Banner, <<>>, <<"text">>, <<"more">>, <<"more", "key", "end">>,
                      <<"key">>, <<"end">>}
  BY <1>1, PrintedTexts
<1>3. chunk.text \in Seq(Pieces)
  BY <1>2, Texts, OtherTexts
<1>4. chunk.newLine \in BOOLEAN
  BY PrintedTexts
<1> QED BY <1>3, <1>4 DEF IsChunk

\* No other chunk leaves a line that is the prompt.
LEMMA OnlyThePrompt ==
  ASSUME NEW chunk \in Printed, NEW l \in Seq(Pieces),
         (IF chunk.newLine THEN chunk.text ELSE l \o chunk.text) = Prompt
  PROVE  chunk = PromptChunk
<1>1. CASE chunk.newLine = TRUE
  BY <1>1, PrintedTexts, OtherTexts
<1>2. CASE chunk.newLine = FALSE
  <2>1. chunk.text \in {Banner, <<"text">>, <<"key">>, <<"end">>} /\ chunk.text \in Seq(Pieces)
    BY <1>2, PrintedTexts, PrintedChunks DEF IsChunk
  <2>2. l \o chunk.text = Prompt
    BY <1>2
  <2>3. Len(l \o chunk.text) = Len(l) + Len(chunk.text)
    BY <2>1
  <2>4. chunk.text # Banner
    BY <2>2, <2>3, Texts
  <2>5. Len(chunk.text) = 1
    BY <2>1, <2>4, OtherTexts
  <2>6. Len(l) = 0
    BY <2>2, <2>3, <2>5, Texts
  <2>7. l \o chunk.text = chunk.text
    BY <2>1, <2>6
  <2> QED BY <2>1, <2>2, <2>4, <2>7, OtherTexts
<1> QED BY <1>1, <1>2, PrintedTexts

\* What has been printed is followed by what is printed now.
LEMMA EmitsWire ==
  ASSUME wire \in Seq(Sent), NEW chunks \in Seq(Printed), chunks # <<>>,
         NEW by \in Calls \cup {"none"}, Emits(chunks, by)
  PROVE  /\ wire' \in Seq(Sent) /\ wire' # <<>>
         /\ wire'[Len(wire')].chunk = chunks[Len(chunks)]
         /\ \A i \in DOMAIN wire' :
              \/ i \in DOMAIN wire /\ wire'[i] = wire[i]
              \/ /\ i \notin DOMAIN wire
                 /\ wire'[i].by = by
                 /\ \E j \in DOMAIN chunks : wire'[i].chunk = chunks[j]
<1> DEFINE new == [i \in DOMAIN chunks |-> [chunk |-> chunks[i], by |-> by]]
<1>1. new \in Seq(Sent) /\ Len(new) = Len(chunks) /\ wire' = wire \o new
  <2>1. DOMAIN chunks = 1 .. Len(chunks) /\ Len(chunks) \in Nat
        /\ \A i \in 1 .. Len(chunks) : chunks[i] \in Printed
    OBVIOUS
  <2>2. \A i \in 1 .. Len(chunks) : [chunk |-> chunks[i], by |-> by] \in Sent
    BY <2>1 DEF Sent
  <2>3. new \in Seq(Sent) /\ Len(new) = Len(chunks)
    BY <2>1, <2>2
  <2> QED BY <2>3 DEF Emits
<1>2. \A i \in DOMAIN new : new[i].chunk = chunks[i] /\ new[i].by = by
  OBVIOUS
<1>3. DOMAIN new = 1 .. Len(chunks) /\ DOMAIN chunks = 1 .. Len(chunks) /\ Len(chunks) \in Nat \ {0}
  OBVIOUS
<1> HIDE DEF new
<1>4. /\ wire' \in Seq(Sent) /\ Len(wire') = Len(wire) + Len(new)
      /\ \A i \in 1 .. Len(wire) : wire'[i] = wire[i]
      /\ \A i \in 1 .. Len(new) : wire'[Len(wire) + i] = new[i]
  BY <1>1
<1>5. wire' # <<>> /\ wire'[Len(wire')].chunk = chunks[Len(chunks)]
  BY SMTT(20), <1>1, <1>2, <1>3, <1>4
<1>6. ASSUME NEW i \in DOMAIN wire', i \notin DOMAIN wire
      PROVE  wire'[i].by = by /\ \E j \in DOMAIN chunks : wire'[i].chunk = chunks[j]
  <2>1. i - Len(wire) \in 1 .. Len(new) /\ i = Len(wire) + (i - Len(wire))
    BY <1>4, <1>6
  <2>2. wire'[i] = new[i - Len(wire)]
    BY <1>4, <2>1
  <2> QED BY <1>1, <1>2, <1>3, <2>1, <2>2
<1>7. ASSUME NEW i \in DOMAIN wire', i \in DOMAIN wire PROVE wire'[i] = wire[i]
  BY <1>4, <1>7
<1>8. \A i \in DOMAIN wire' :
        \/ i \in DOMAIN wire /\ wire'[i] = wire[i]
        \/ /\ i \notin DOMAIN wire
           /\ wire'[i].by = by
           /\ \E j \in DOMAIN chunks : wire'[i].chunk = chunks[j]
  BY <1>6, <1>7
<1> QED BY <1>4, <1>5, <1>8

LEMMA EmitWire ==
  ASSUME wire \in Seq(Sent), NEW chunk \in Printed,
         NEW by \in Calls \cup {"none"}, Emit(chunk, by)
  PROVE  /\ wire' \in Seq(Sent) /\ wire' # <<>>
         /\ wire'[Len(wire')].chunk = chunk
         /\ \A i \in DOMAIN wire' :
              \/ i \in DOMAIN wire /\ wire'[i] = wire[i]
              \/ i \notin DOMAIN wire /\ wire'[i].by = by /\ wire'[i].chunk = chunk
<1>1. <<chunk>> \in Seq(Printed) /\ <<chunk>> # <<>> /\ Len(<<chunk>>) = 1
      /\ \A j \in DOMAIN <<chunk>> : <<chunk>>[j] = chunk
  OBVIOUS
<1>2. Emits(<<chunk>>, by)
  BY DEF Emit
<1>3. /\ wire' \in Seq(Sent) /\ wire' # <<>>
      /\ wire'[Len(wire')].chunk = <<chunk>>[Len(<<chunk>>)]
      /\ \A i \in DOMAIN wire' :
           \/ i \in DOMAIN wire /\ wire'[i] = wire[i]
           \/ /\ i \notin DOMAIN wire
              /\ wire'[i].by = by
              /\ \E j \in DOMAIN <<chunk>> : wire'[i].chunk = <<chunk>>[j]
  BY <1>1, <1>2, EmitsWire
<1> QED BY <1>1, <1>3

-----------------------------------------------------------------------------
(* What every step keeps: first the device's own.                          *)

LEMMA Becoming ==
  ASSUME NEW at \in {"boot", "prompt", "running", "paging"},
         NEW cmd \in Calls \cup {"none"}, NEW junk \in BOOLEAN, Becomes(at, cmd, junk)
  PROVE  /\ dev' \in [at : {"boot", "prompt", "running", "paging"}, cmd : Calls \cup {"none"},
                      junk : BOOLEAN]
         /\ dev'.at = at /\ dev'.cmd = cmd /\ dev'.junk = junk
BY DEF Becomes

LEMMA BackAtPrompt ==
  ASSUME DeviceTypeOK, AtPrompt, NEW by \in Calls \cup {"none"}, EmitPrompt(by)
  PROVE  /\ dev' \in [at : {"boot", "prompt", "running", "paging"}, cmd : Calls \cup {"none"},
                      junk : BOOLEAN]
         /\ dev'.at = "prompt" /\ ~dev'.junk /\ Emit(PromptChunk, by)
         /\ wire' \in Seq(Sent) /\ wire' # <<>>
<1>1. Emit(PromptChunk, by) /\ PromptChunk \in Printed
  BY DEF EmitPrompt, PromptChunk, Printed
<1> QED BY <1>1, EmitWire, Becoming DEF AtPrompt, DeviceTypeOK, Sent

\* What the device makes of what it prints: nothing has changed, or its last
\* word is the prompt only if it is there.
LastWord ==
  \/ UNCHANGED <<dev, wire>>
  \/ /\ dev' \in [at : {"boot", "prompt", "running", "paging"}, cmd : Calls \cup {"none"},
                  junk : BOOLEAN]
     /\ wire' \in Seq(Sent) /\ wire' # <<>>
     /\ wire'[Len(wire')].chunk = PromptChunk => dev'.at = "prompt" /\ ~dev'.junk

\* Something other than the prompt is printed.
LEMMA OtherWord ==
  ASSUME DeviceTypeOK, NEW chunk \in Printed \ {PromptChunk}, Emit(chunk, "none"),
         dev' \in [at : {"boot", "prompt", "running", "paging"}, cmd : Calls \cup {"none"},
                   junk : BOOLEAN]
  PROVE  LastWord
BY EmitWire DEF LastWord, DeviceTypeOK, Sent

LEMMA PromptWord ==
  ASSUME DeviceTypeOK, AtPrompt, NEW by \in Calls \cup {"none"}, EmitPrompt(by)
  PROVE  LastWord
BY BackAtPrompt DEF LastWord

LEMMA OtherChunks ==
  /\ Chunk(TRUE, <<>>) \in Printed \ {PromptChunk}
  /\ Chunk(TRUE, <<"text">>) \in Printed \ {PromptChunk}
  /\ Chunk(TRUE, <<"more">>) \in Printed \ {PromptChunk}
  /\ Chunk(TRUE, <<"more", "key", "end">>) \in Printed \ {PromptChunk}
  /\ Chunk(FALSE, <<"text">>) \in Printed \ {PromptChunk}
  /\ Chunk(FALSE, <<"key">>) \in Printed \ {PromptChunk}
  /\ Chunk(FALSE, <<"end">>) \in Printed \ {PromptChunk}
<1>1. PromptChunk.newLine = TRUE /\ PromptChunk.text = Prompt
  BY DEF PromptChunk, Chunk
<1>2. \A t \in {<<>>, <<"text">>, <<"more">>, <<"more", "key", "end">>} :
        Chunk(TRUE, t).text = t
  BY DEF Chunk
<1>3. \A t \in {<<"text">>, <<"key">>, <<"end">>} : Chunk(FALSE, t).text = t
  BY DEF Chunk
<1> QED BY <1>1, <1>2, <1>3, OtherTexts DEF Printed

LEMMA EditsLine ==
  ASSUME DeviceTypeOK, NEW k \in Pressed, EditLine(k)
  PROVE  LastWord
<1>1. "none" \in Calls \cup {"none"} /\ k.call \in Calls \cup {"none"}
  BY DEF Pressed
<1>2. CASE AtPrompt /\ EmitPrompt("none")
  BY <1>1, <1>2, PromptWord
<1>3. CASE Becomes("prompt", "none", TRUE) /\ Emit(Chunk(FALSE, <<"text">>), "none")
  BY <1>1, <1>3, Becoming, OtherChunks, OtherWord
<1>4. CASE Becomes("running", k.call, FALSE) /\ Emit(Chunk(TRUE, <<>>), "none")
  BY <1>1, <1>4, Becoming, OtherChunks, OtherWord
<1> QED BY <1>2, <1>3, <1>4 DEF EditLine

LEMMA Pages ==
  ASSUME DeviceTypeOK, NEW k, Page(k)
  PROVE  LastWord
<1>1. dev.cmd \in Calls \cup {"none"}
  BY DEF DeviceTypeOK
<1>2. CASE Becomes("running", dev.cmd, FALSE) /\ Emit(Chunk(TRUE, <<>>), "none")
  BY <1>1, <1>2, Becoming, OtherChunks, OtherWord
<1>3. CASE AtPrompt /\ EmitPrompt(dev.cmd)
  BY <1>1, <1>3, PromptWord
<1>4. CASE UNCHANGED <<dev, wire>>
  BY <1>4 DEF LastWord
<1> QED BY <1>2, <1>3, <1>4 DEF Page

\* A marker is not the prompt, in however many chunks it is printed.
LEMMA MarkerWord ==
  ASSUME DeviceTypeOK, NEW chunks \in MarkerChunks, Emits(chunks, "none")
  PROVE  /\ wire' \in Seq(Sent) /\ wire' # <<>>
         /\ wire'[Len(wire')].chunk # PromptChunk
         /\ \A i \in DOMAIN wire' :
              \/ i \in DOMAIN wire /\ wire'[i] = wire[i]
              \/ wire'[i].chunk # PromptChunk
<1> DEFINE Others == Printed \ {PromptChunk}
<1>1. /\ Chunk(TRUE, <<"more">>) \in Others /\ Chunk(TRUE, <<"more", "key", "end">>) \in Others
      /\ Chunk(FALSE, <<"key">>) \in Others /\ Chunk(FALSE, <<"end">>) \in Others
  BY OtherChunks
<1>2. \A a \in Others : <<a>> \in Seq(Others) /\ <<a>> # <<>>
  OBVIOUS
<1>3. \A a, b, c \in Others : <<a, b, c>> \in Seq(Others) /\ <<a, b, c>> # <<>>
  OBVIOUS
<1>4. chunks \in Seq(Others) /\ chunks # <<>>
  BY <1>1, <1>2, <1>3 DEF MarkerChunks
<1>5. chunks \in Seq(Printed) /\ Len(chunks) \in DOMAIN chunks
      /\ \A j \in DOMAIN chunks : chunks[j] # PromptChunk
  BY <1>4
<1>6. wire \in Seq(Sent) /\ "none" \in Calls \cup {"none"}
  BY DEF DeviceTypeOK, Sent
<1> QED BY <1>4, <1>5, <1>6, EmitsWire

LEMMA RunsOn ==
  ASSUME DeviceTypeOK, Runs
  PROVE  LastWord
<1>1. dev.cmd \in Calls \cup {"none"}
      /\ dev \in [at : {"boot", "prompt", "running", "paging"}, cmd : Calls \cup {"none"},
                  junk : BOOLEAN]
  BY DEF DeviceTypeOK
<1>2. CASE Emit(Chunk(TRUE, <<"text">>), "none") /\ UNCHANGED dev
  BY <1>1, <1>2, OtherChunks, OtherWord
<1>3. CASE (\E chunks \in MarkerChunks : Emits(chunks, "none")) /\ Becomes("paging", dev.cmd, FALSE)
  <2>1. wire' \in Seq(Sent) /\ wire' # <<>> /\ wire'[Len(wire')].chunk # PromptChunk
    BY <1>3, MarkerWord
  <2> QED BY <1>1, <1>3, <2>1, Becoming DEF LastWord
<1>4. CASE EmitPrompt(dev.cmd) /\ AtPrompt
  BY <1>1, <1>4, PromptWord
<1> QED BY <1>2, <1>3, <1>4 DEF Runs

LEMMA DeviceWord ==
  ASSUME DeviceTypeOK, Boot \/ ReadKey \/ Interrupted \/ Runs
  PROVE  /\ DeviceTypeOK' /\ LastWord
         /\ UNCHANGED <<shellVars, lineBy>>
<1>1. "none" \in Calls \cup {"none"} /\ dev.cmd \in Calls \cup {"none"} /\ keys \in Seq(Pressed)
  BY DEF DeviceTypeOK, Pressed
<1>2. CASE Boot
  <2>1. LastWord
    BY <1>1, <1>2, PromptWord DEF Boot
  <2> QED BY <1>2, <2>1 DEF Boot, LastWord, DeviceTypeOK, Sent
<1>3. CASE ReadKey
  <2>1. Head(keys) \in Pressed /\ Tail(keys) \in Seq(Pressed)
    BY <1>1, <1>3 DEF ReadKey
  <2>2. LastWord
    BY <1>3, <2>1, EditsLine, Pages DEF ReadKey
  <2> QED BY <1>3, <2>1, <2>2 DEF ReadKey, LastWord, DeviceTypeOK, Sent, Pressed
<1>4. CASE Interrupted
  <2>1. PICK i \in DOMAIN keys : keys' = SubSeq(keys, i + 1, Len(keys))
    BY <1>4 DEF Interrupted
  <2>2. keys' \in Seq(Pressed)
    BY <1>1, <2>1
  <2>3. LastWord
    BY <1>1, <1>4, PromptWord DEF Interrupted, LastWord
  <2> QED BY <1>4, <2>2, <2>3 DEF Interrupted, LastWord, DeviceTypeOK, Sent, Pressed
<1>5. CASE Runs
  <2>1. LastWord
    BY <1>5, RunsOn
  <2> QED BY <1>5, <2>1 DEF Runs, LastWord, DeviceTypeOK, Sent
<1> QED BY <1>2, <1>3, <1>4, <1>5

-----------------------------------------------------------------------------
(* The shell's steps in front of the device.                               *)

LEMMA FirstChunk ==
  ASSUME DeviceTypeOK, wire # <<>>
  PROVE  /\ Head(wire) = wire[1] /\ wire[1] \in Sent /\ 1 \in DOMAIN wire
         /\ Tail(wire) \in Seq(Sent)
         /\ Tail(wire) = <<>> => Len(wire) = 1
         /\ \A i \in DOMAIN Tail(wire) : i + 1 \in DOMAIN wire /\ Tail(wire)[i] = wire[i + 1]
<1>1. wire \in Seq(Sent)
  BY DEF DeviceTypeOK, Sent
<1>2. Tail(wire) \in Seq(Sent) /\ Len(Tail(wire)) = Len(wire) - 1 /\ Len(wire) \in Nat
  BY <1>1
<1>3. \A l \in Seq(Sent) : l = <<>> => Len(l) = 0
  OBVIOUS
<1>4. Tail(wire) = <<>> => Len(Tail(wire)) = 0
  BY <1>2, <1>3, Zenon
<1>5. Tail(wire) = <<>> => Len(wire) = 1
  BY <1>2, <1>4
<1> QED BY <1>1, <1>5

LEMMA DeviceShellStep ==
  ASSUME DeviceTypeOK, [DeviceNext]_vars
  PROVE  [AnyStep]_shellVars
<1>1. CASE Boot \/ ReadKey \/ Interrupted \/ Runs
  BY <1>1, DeviceWord
<1>2. CASE Acts \/ Settles
  BY <1>2 DEF Acts, Settles, AnyStep
<1>3. CASE Receives
  <2>1. Head(wire).chunk \in Printed
    BY <1>3, FirstChunk DEF Receives, Sent
  <2>2. Data(Head(wire).chunk) \/ UNCHANGED shellVars
    BY <1>3 DEF Receives
  <2> QED BY <2>1, <2>2, PrintedChunks DEF AnyStep
<1>4. CASE UNCHANGED vars
  BY <1>4 DEF vars
<1> QED BY <1>1, <1>2, <1>3, <1>4 DEF DeviceNext

\* The key of the write that begins.
LEMMA KeyTyped ==
  ASSUME IInv, NEW already, NEW key, NEW paging, NEW g, NEW before,
         Write(already, key, paging, g, before), Typed
  PROVE  keys' = Append(keys, [key |-> key, call |-> waiter'.call])
<1>1. stack \in Seq(Frames)
  BY DEF IInv, ShellTypeOK, Frames
<1> DEFINE f == [key |-> key, paging |-> paging, gen |-> g, before |-> before]
<1>2. stack' = Append(stack, f) /\ f.key = key
  BY DEF Write
<1> HIDE DEF f
<1>3. Len(stack') = Len(stack) + 1 /\ stack'[Len(stack')] = f
  BY <1>1, <1>2
<1>4. Len(stack') > Len(stack)
  BY <1>1, <1>3
<1> QED BY <1>2, <1>3, <1>4 DEF Typed, Last

LEMMA NothingOnItsWay ==
  ASSUME IInv, stack' = stack \/ (stack # <<>> /\ stack' = Front(stack)), Typed
  PROVE  keys' = keys
<1>1. stack \in Seq(Frames)
  BY DEF IInv, ShellTypeOK, Frames
<1>2. ~(Len(stack') > Len(stack))
  BY <1>1 DEF Front
<1> QED BY <1>2 DEF Typed

LEMMA TypedType ==
  ASSUME DeviceTypeOK, IInv, IInv', Typed
  PROVE  keys' \in Seq(Pressed)
<1>1. CASE Len(stack') > Len(stack)
  <2>1. stack' \in Seq(Frames) /\ waiter'.call \in Calls \cup {"none"}
        /\ Len(stack) \in Nat
    BY DEF IInv, ShellTypeOK, Frames, Waiters
  <2>2. stack'[Len(stack')] \in Frames
    BY <1>1, <2>1
  <2>3. [key |-> Last(stack').key, call |-> waiter'.call] \in Pressed
    BY <2>1, <2>2 DEF Last, Frames, Pressed
  <2>4. keys' = Append(keys, [key |-> Last(stack').key, call |-> waiter'.call])
    BY <1>1 DEF Typed
  <2>5. keys \in Seq(Pressed)
    BY DEF DeviceTypeOK, Pressed
  <2> QED BY <2>3, <2>4, <2>5
<1>2. CASE ~(Len(stack') > Len(stack))
  BY <1>2 DEF Typed, DeviceTypeOK, Pressed
<1> QED BY <1>1, <1>2

LEMMA DeviceTypeStep ==
  ASSUME IInv, DeviceTypeOK, [DeviceNext]_vars
  PROVE  IInv' /\ DeviceTypeOK'
<1>1. IInv'
  BY DeviceShellStep, IInvStep
<1>2. CASE Boot \/ ReadKey \/ Interrupted \/ Runs
  BY <1>1, <1>2, DeviceWord
<1>3. CASE Acts \/ Settles
  <2>1. Typed /\ UNCHANGED <<dev, wire, lineBy>>
    BY <1>3 DEF Acts, Settles
  <2> QED BY <1>1, <2>1, TypedType DEF DeviceTypeOK, Pressed
<1>4. CASE Receives
  <2>1. Typed /\ dev' = dev /\ wire # <<>> /\ wire' = Tail(wire) /\ lineBy' = Head(wire).by
    BY <1>4 DEF Receives
  <2>2. wire' \in Seq(Sent) /\ lineBy' \in Calls \cup {"none"}
    BY <2>1, FirstChunk DEF Sent
  <2> QED BY <1>1, <2>1, <2>2, TypedType DEF DeviceTypeOK, Pressed, Sent
<1>5. CASE UNCHANGED vars
  BY <1>1, <1>5 DEF vars, deviceVars, DeviceTypeOK
<1> QED BY <1>2, <1>3, <1>4, <1>5 DEF DeviceNext

-----------------------------------------------------------------------------
(* One writer.                                                             *)

\* The waiter stays.
LEMMA WriterStays ==
  ASSUME OneWriter, detached' = detached, waiter'.mode = waiter.mode,
         HasWaiter \/ stack' = stack,
         \A t \in timers' : t \in timers \/ t[1] # "poke"
  PROVE  OneWriter'
BY DEF OneWriter, HasWaiter

\* It goes when nothing is being written.
LEMMA WriterGoes ==
  ASSUME OneWriter, detached' = detached, IInv, stack = <<>>, stack' = stack,
         NEW outcome, Finish(waiter, outcome)
  PROVE  OneWriter'
<1>1. timers' = {}
  BY ClearedIsEmpty DEF Finish, IInv, Core
<1> QED BY <1>1 DEF OneWriter

\* One that is not the ready wait comes.
LEMMA WriterComes ==
  ASSUME OneWriter, detached' = detached, waiter'.mode # "none",
         \A t \in timers' : t[1] # "poke"
  PROVE  OneWriter'
BY DEF OneWriter, HasWaiter

LEMMA NoPoke ==
  ASSUME NEW w, w.mode \in {"command", "resync"}, w.call \in Commands \cup {"none"},
         NEW l, NEW t \in Begun(w, l)
  PROVE  t[1] # "poke"
<1>1. "poke" \notin Commands \cup {"none"}
  BY ShellIoAssumption
<1>2. t \in {<<"timeout", w.gen>>, <<"idle", w.gen>>, <<"settle", w.gen>>, <<w.call, w.gen>>}
  BY BegunTimers
<1> QED BY <1>1, <1>2

LEMMA FailureIsResync ==
  ASSUME IInv, waiter.mode = "command", NEW outcome, FailAndResync(outcome)
  PROVE  BeginResync(waiter, outcome)
BY DEF FailAndResync, IInv, Core, NoCommandInResync, GoneFits, HasWaiter

LEMMA BeginResyncWriter ==
  ASSUME IInv, OneWriter, detached' = detached, NEW outcome, BeginResync(waiter, outcome)
  PROVE  OneWriter'
<1>1. waiter'.mode = "resync" /\ waiter'.call = "none"
  BY DEF BeginResync, NewWaiter
<1>2. timers' = Begun(waiter', <<>>)
  BY ClearedIsEmpty DEF BeginResync, IInv, Core
<1> QED BY <1>1, <1>2, NoPoke, WriterComes

LEMMA CallWriter ==
  ASSUME IInv, OneWriter,
         WaitForReady \/ \E c \in Commands : RunCommand(c) \/ Resume(c) \/ Abort(c)
  PROVE  OneWriter'
<1>1. CASE WaitForReady
  BY <1>1 DEF WaitForReady, NewWaiter, OneWriter, HasWaiter
<1>2. ASSUME NEW c \in Commands, RunCommand(c) \/ Resume(c) PROVE OneWriter'
  <2>1. CASE ~HasWaiter /\ StartCommand(c)
    <3>1. waiter'.mode = "command" /\ waiter'.call = c
      BY <2>1 DEF StartCommand, NewWaiter
    <3>2. timers' = Begun(waiter', <<>>)
      BY <2>1, ClearedIsEmpty DEF StartCommand, IInv, Core
    <3>3. detached' = detached
      BY <1>2 DEF RunCommand, Resume
    <3> QED BY <3>1, <3>2, <3>3, NoPoke, WriterComes
  <2>2. CASE UNCHANGED <<waiter, timers, stack, detached>>
    BY <2>2, WriterStays
  <2> QED BY <1>2, <2>1, <2>2 DEF RunCommand, Resume, RejectCall
<1>3. ASSUME NEW c \in Commands, Abort(c) PROVE OneWriter'
  <2>1. stack = <<>> /\ detached' = detached
    BY <1>3 DEF Abort, JobIsOver
  <2>2. CASE waiter.mode = "command" /\ FailAndResync("closed")
    BY <2>1, <2>2, FailureIsResync, BeginResyncWriter
  <2>3. CASE Finish(waiter, "closed") /\ stack' = stack
    BY <2>1, <2>3, WriterGoes
  <2>4. CASE UNCHANGED <<waiter, timers, stack>>
    BY <2>1, <2>4, WriterStays
  <2> QED BY <1>3, <2>2, <2>3, <2>4 DEF Abort
<1> QED BY <1>1, <1>2, <1>3

LEMMA DataWriter ==
  ASSUME IInv, OneWriter, NEW chunk, IsChunk(chunk), Data(chunk)
  PROVE  OneWriter'
<1> DEFINE l == IF chunk.newLine THEN chunk.text ELSE line \o chunk.text
           w == IF chunk.newLine THEN [waiter EXCEPT !.sameLine = FALSE] ELSE waiter
           seen == IF chunk.newLine \/ Contains(chunk.text, "more") THEN 0 ELSE scrolled
<1>1. l \in Seq(Pieces) /\ seen \in 0 .. 2
  BY DEF IsChunk, IInv, ShellTypeOK
<1>2. w \in Waiters /\ w.mode = waiter.mode
  BY DEF IInv, ShellTypeOK, Waiters
<1>3. EvaluateWaiter(w, l, seen) /\ HasWaiter /\ detached' = detached
  BY DEF Data
<1> HIDE DEF l, w, seen
<1>4. waiter'.mode = waiter.mode
  BY <1>1, <1>2, <1>3, EvaluateWaiterType DEF IInv
<1>5. timers' \subseteq timers \cup {<<"settle", w.gen>>}
  BY <1>3 DEF EvaluateWaiter, AnswerPager, SettleTimer
<1> QED BY <1>3, <1>4, <1>5, WriterStays

LEMMA WriteReturnsWriter ==
  ASSUME IInv, OneWriter, WriteReturns
  PROVE  OneWriter'
<1>1. HasWaiter /\ detached' = detached
  BY DEF WriteReturns, OneWriter
<1>2. waiter' \in {waiter, [waiter EXCEPT !.quitSent = TRUE]}
  BY DEF WriteReturns
<1>3. waiter'.mode = waiter.mode
  BY <1>2 DEF IInv, ShellTypeOK, Waiters
<1>4. \E g : timers' \subseteq timers \cup {<<"settle", g>>}
  BY DEF WriteReturns, Paged, SettleTimer
<1> QED BY <1>1, <1>3, <1>4, WriterStays

LEMMA TimerWriter ==
  ASSUME IInv, OneWriter, NEW g \in Waits, TimeoutFires(g) \/ PokeFires(g)
  PROVE  OneWriter'
<1>1. stack = <<>> /\ detached' = detached
  BY DEF TimeoutFires, PokeFires, TurnIsOver, JobIsOver, Expire
<1>2. CASE waiter.mode = "command" /\ FailAndResync("timeout")
  BY <1>1, <1>2, FailureIsResync, BeginResyncWriter
<1>3. CASE Finish(waiter, "timeout") /\ stack' = stack
  BY <1>1, <1>3, WriterGoes
<1>4. CASE timers' = Cleared(g) /\ UNCHANGED <<waiter, stack>>
  BY <1>1, <1>4, WriterStays DEF Cleared
<1>5. CASE PokeFires(g)
  <2>1. <<"poke", g>> \in timers /\ timers' \subseteq timers /\ waiter' = waiter
    BY <1>5 DEF PokeFires
  <2>2. HasWaiter
    BY <2>1 DEF IInv, Core, NoStaleTimer
  <2> QED BY <1>1, <2>1, <2>2, WriterStays
<1> QED BY <1>2, <1>3, <1>4, <1>5 DEF TimeoutFires, Expire

LEMMA SettleWriter ==
  ASSUME IInv, OneWriter, NEW g \in Waits, SettleFires(g)
  PROVE  OneWriter'
<1>1. stack = <<>> /\ detached' = detached
  BY DEF SettleFires, TurnIsOver, JobIsOver
<1>2. CASE timers' = Unsettled(g) /\ UNCHANGED <<waiter, stack>>
  BY <1>1, <1>2, WriterStays DEF Unsettled
<1>3. CASE \E outcome \in {"ok", "limit"} : Finish(waiter, outcome) /\ NoWrite
  BY <1>1, <1>3, WriterGoes DEF NoWrite
<1>4. waiter.gen = g => HasWaiter
  BY DEF Waits, IInv, Core, WaiterFits
<1>5. CASE HasWaiter /\ waiter'.mode = waiter.mode /\ timers' \subseteq timers
  BY <1>1, <1>5, WriterStays
<1>6. CASE waiter.gen = g /\ MaySettle(waiter, line)
  <2>1. waiter.mode \in {"ready", "resync", "command"} /\ HasWaiter
    BY <1>4, <1>6 DEF HasWaiter, IInv, ShellTypeOK, Waiters
  <2>2. CASE waiter.mode = "ready"
    <3>1. CASE ReadyConfirms
      <4>1. waiter'.mode = waiter.mode /\ timers' \subseteq timers
        BY <3>1 DEF ReadyConfirms, Unsettled, IInv, ShellTypeOK, Waiters
      <4> QED BY <1>5, <2>1, <4>1
    <3> QED BY <1>3, <1>6, <2>2, <3>1 DEF SettleFires, ReadySettles
  <2>3. CASE waiter.mode = "resync"
    <3>1. CASE waiter' = [waiter EXCEPT !.killSent = TRUE] /\ timers' = Unsettled(waiter.gen)
      <4>1. waiter'.mode = waiter.mode /\ timers' \subseteq timers
        BY <3>1 DEF Unsettled, IInv, ShellTypeOK, Waiters
      <4> QED BY <1>5, <2>1, <4>1
    <3> QED BY <1>3, <1>6, <2>3, <3>1 DEF SettleFires, ResyncSettles
  <2>4. CASE waiter.mode = "command"
    BY <1>3, <1>6, <2>4 DEF SettleFires, CommandSettles
  <2> QED BY <2>1, <2>2, <2>3, <2>4
<1> QED BY <1>2, <1>6 DEF SettleFires, NoWrite

LEMMA ResyncContinuesWriter ==
  ASSUME IInv, OneWriter, ResyncContinues
  PROVE  OneWriter'
<1>1. timers = {} /\ detached' = detached
  BY NobodyWaits DEF ResyncContinues
<1>2. CASE ResyncOver
  BY <1>1, <1>2, WriterStays DEF ResyncOver
<1>3. CASE InterruptInstead
  <2>1. waiter'.mode = "resync" /\ waiter'.call = "none"
    BY <1>3 DEF InterruptInstead, NewWaiter
  <2>2. timers' = Begun(waiter', line)
    BY <1>1, <1>3 DEF InterruptInstead
  <2> QED BY <1>1, <2>1, <2>2, NoPoke, WriterComes
<1> QED BY <1>2, <1>3 DEF ResyncContinues

LEMMA OneWriterStep ==
  ASSUME IInv, DeviceTypeOK, OneWriter, [DeviceNext]_vars
  PROVE  OneWriter'
<1>1. CASE UNCHANGED shellVars
  BY <1>1 DEF shellVars, OneWriter, HasWaiter
<1>2. CASE Boot \/ ReadKey \/ Interrupted \/ Runs
  BY <1>1, <1>2, DeviceWord
<1>3. CASE Acts \/ Settles
  BY <1>3, CallWriter, WriteReturnsWriter, ResyncContinuesWriter, TimerWriter, SettleWriter
     DEF Acts, Settles
<1>4. CASE Receives
  <2>1. Head(wire).chunk \in Printed
    BY <1>4, FirstChunk DEF Receives, Sent
  <2>2. CASE Data(Head(wire).chunk)
    BY <2>1, <2>2, PrintedChunks, DataWriter
  <2> QED BY <1>1, <1>4, <2>2 DEF Receives
<1>5. CASE UNCHANGED vars
  BY <1>1, <1>5 DEF vars
<1> QED BY <1>2, <1>3, <1>4, <1>5 DEF DeviceNext

-----------------------------------------------------------------------------
(* What the shell's steps are to the device.                               *)

PressedKey(key, call) == [key |-> key, call |-> call]

\* Nothing that the device could tell.
Stays ==
  /\ waiter'.mode = waiter.mode /\ waiter'.call = waiter.call
  /\ waiter'.candidate = waiter.candidate
  /\ UNCHANGED <<line, identity, keys, resync, deadNotified>>
  /\ calls'[Ready] = calls[Ready]

WaitsReady ==
  /\ calls[Ready] = "idle" /\ calls'[Ready] = "running"
  /\ waiter'.mode = "ready" /\ waiter'.candidate = NoLine
  /\ UNCHANGED <<line, identity, keys>>

Pokes ==
  /\ waiter.mode = "ready" /\ waiter' = waiter
  /\ \E call : keys' = Append(keys, PressedKey("cr", call))
  /\ UNCHANGED <<line, identity, calls>>

Confirms ==
  /\ waiter.mode = "ready" /\ waiter'.mode = "ready"
  /\ line # <<>> /\ line' = <<>> /\ waiter'.candidate = line
  /\ \E call : keys' = Append(keys, PressedKey("cr", call))
  /\ UNCHANGED <<identity, calls>>

GetsReady ==
  /\ waiter.mode = "ready" /\ waiter'.mode = "none"
  /\ line # <<>> /\ line' = <<>> /\ waiter.candidate = line /\ identity' = line
  /\ calls'[Ready] = "ok" /\ keys' = keys

NotReady ==
  /\ waiter.mode = "ready" /\ waiter'.candidate = NoLine
  /\ calls'[Ready] = "timeout"
  /\ UNCHANGED <<line, identity, keys>>

Starts ==
  /\ ~HasWaiter /\ resync.step = "none" /\ ~deadNotified
  /\ waiter'.mode = "command" /\ waiter'.call \in Commands
  /\ line' = <<>> /\ keys' = Append(keys, PressedKey("command", waiter'.call))
  /\ calls[Ready] = "ok" /\ calls'[Ready] = "ok"
  /\ identity' = identity

Completes ==
  /\ waiter.mode = "command" /\ IsPrompt(line, "command") /\ waiter'.mode = "none"
  /\ line' = <<>> /\ keys' = keys /\ identity' \in {identity, line}
  /\ calls[Ready] = "ok" /\ calls'[Ready] = "ok"

\* The resync begins, or goes on.
Resyncs ==
  /\ waiter'.mode = "resync" /\ line' \in {line, <<>>}
  /\ calls[Ready] = "ok" /\ calls'[Ready] = "ok"
  /\ UNCHANGED <<identity, deadNotified>>

ResyncSucceeds ==
  /\ waiter.mode = "resync" /\ IsPrompt(line, "resync") /\ waiter'.mode = "none"
  /\ line' = <<>> /\ keys' = keys /\ identity' = identity
  /\ calls[Ready] = "ok" /\ calls'[Ready] = "ok"

ResyncFails ==
  /\ waiter.mode = "resync" /\ waiter'.mode = "none"
  /\ resync'.step # "none" /\ resync'.outcome = "timeout"
  /\ calls[Ready] = "ok" /\ calls'[Ready] = "ok"
  /\ UNCHANGED <<line, identity, keys, deadNotified>>

ResyncEnds ==
  /\ ~HasWaiter /\ waiter' = waiter
  /\ resync.outcome = "ok" \/ deadNotified'
  /\ resync.outcome = "ok" => UNCHANGED deadNotified
  /\ calls[Ready] = "ok" /\ calls'[Ready] = "ok"
  /\ UNCHANGED <<line, identity, keys>>

ActMoves ==
  Stays \/ WaitsReady \/ Pokes \/ NotReady \/ Starts \/ Resyncs \/ ResyncFails \/ ResyncEnds

SettleMoves == Stays \/ Confirms \/ GetsReady \/ Completes \/ Resyncs \/ ResyncSucceeds

LEMMA Names ==
  Commands \subseteq Calls /\ Ready \in Calls /\ Ready \notin Commands /\ "none" \notin Calls
BY ShellIoAssumption DEF Calls, Ready

LEMMA CommandIsServed ==
  ASSUME IInv, waiter.mode = "command"
  PROVE  waiter.call \in Commands /\ calls[Ready] = "ok" /\ waiter.call # Ready
BY Names DEF IInv, Core, WaiterFits, NoPromiseIsLost, CallsFit

LEMMA NotDead ==
  ASSUME OneWriter, JobIsOver
  PROVE  stack = <<>> /\ ~deadNotified
BY DEF OneWriter, JobIsOver, OwnerHasActed

LEMMA BeginResyncMoves ==
  ASSUME IInv, waiter.mode = "command", NEW outcome, BeginResync(waiter, outcome),
         UNCHANGED <<identity, deadNotified>>
  PROVE  Resyncs
<1>1. waiter'.mode = "resync" /\ line' = <<>> /\ calls' = [calls EXCEPT ![waiter.call] = outcome]
  BY DEF BeginResync, NewWaiter
<1>2. calls'[Ready] = calls[Ready]
  BY <1>1, CommandIsServed, Names DEF IInv, ShellTypeOK
<1> QED BY <1>1, <1>2, CommandIsServed DEF Resyncs

LEMMA WaitForReadyMoves ==
  ASSUME IInv, WaitForReady, Typed
  PROVE  WaitsReady
<1>1. keys' = keys
  BY NothingOnItsWay DEF WaitForReady
<1>2. waiter'.mode = "ready" /\ waiter'.candidate = NoLine
  BY DEF WaitForReady, NewWaiter
<1>3. calls'[Ready] = "running"
  BY Names DEF WaitForReady, IInv, ShellTypeOK
<1> QED BY <1>1, <1>2, <1>3 DEF WaitForReady, WaitsReady

LEMMA RunCommandMoves ==
  ASSUME IInv, OneWriter, NEW c \in Commands, RunCommand(c) \/ Resume(c), Typed
  PROVE  Stays \/ Starts
<1>1. /\ calls[Ready] = "ok" /\ JobIsOver /\ UNCHANGED <<resync, identity, deadNotified>>
      /\ Resume(c) => resync.step = "none"
  BY DEF RunCommand, Resume, IInv, Core, CallsFit
<1>2. CASE \E outcome : RejectCall(c, outcome)
  <2>1. UNCHANGED <<waiter, line, stack>> /\ calls'[Ready] = calls[Ready]
    BY <1>2, Names DEF RejectCall, IInv, ShellTypeOK
  <2> QED BY <1>1, <2>1, NothingOnItsWay DEF Stays
<1>3. CASE ~HasWaiter /\ resync.step = "none" /\ StartCommand(c)
  <2>1. waiter'.mode = "command" /\ waiter'.call = c
    BY <1>3 DEF StartCommand, NewWaiter
  <2>2. keys' = Append(keys, PressedKey("command", c))
    <3>1. Write(NothingTyped, "command", FALSE, generation + 1, NoLine)
      BY <1>3 DEF StartCommand
    <3> QED BY <2>1, <3>1, KeyTyped DEF PressedKey
  <2>3. calls'[Ready] = "ok" /\ line' = <<>>
    BY <1>1, <1>3, Names DEF StartCommand, IInv, ShellTypeOK
  <2> QED BY <1>1, <1>3, <2>1, <2>2, <2>3, NotDead DEF Starts
<1> QED BY <1>1, <1>2, <1>3 DEF RunCommand, Resume

LEMMA AbortMoves ==
  ASSUME IInv, OneWriter, NEW c \in Commands, Abort(c), Typed
  PROVE  Stays \/ Resyncs
<1>1. UNCHANGED <<identity, deadNotified>>
  BY DEF Abort
<1>2. CASE HasWaiter /\ \E t \in timers : t[1] = c
  <2>1. waiter.call = c
    BY <1>2 DEF IInv, Core, OwnersFit
  <2>2. waiter.mode = "command"
    BY <1>2, <2>1, Names DEF IInv, Core, WaiterFits, HasWaiter, ShellTypeOK, Waiters
  <2>3. BeginResync(waiter, "closed")
    BY <1>2, <2>2, FailureIsResync DEF Abort
  <2> QED BY <1>1, <2>2, <2>3, BeginResyncMoves
<1>3. CASE ~(HasWaiter /\ \E t \in timers : t[1] = c)
  BY <1>1, <1>3, NothingOnItsWay DEF Abort, Stays
<1> QED BY <1>2, <1>3

LEMMA WriteReturnsMoves ==
  ASSUME IInv, WriteReturns, Typed
  PROVE  Stays
<1>1. /\ UNCHANGED <<line, identity, resync, deadNotified, calls>>
      /\ waiter' \in {waiter, [waiter EXCEPT !.quitSent = TRUE]}
      /\ stack # <<>> /\ stack' = Front(stack)
  BY DEF WriteReturns
<1>2. /\ waiter'.mode = waiter.mode /\ waiter'.call = waiter.call
      /\ waiter'.candidate = waiter.candidate
  BY <1>1 DEF IInv, ShellTypeOK, Waiters
<1> QED BY <1>1, <1>2, NothingOnItsWay DEF Stays

LEMMA TimeoutMoves ==
  ASSUME IInv, OneWriter, NEW g \in Waits, TimeoutFires(g), Typed
  PROVE  Stays \/ NotReady \/ Resyncs \/ ResyncFails
<1>1. UNCHANGED <<identity, deadNotified>>
  BY DEF TimeoutFires, Expire
<1>2. CASE waiter.mode = "command" /\ FailAndResync("timeout")
  BY <1>1, <1>2, FailureIsResync, BeginResyncMoves
<1>3. CASE waiter.gen = g /\ waiter.mode # "command" /\ Finish(waiter, "timeout")
           /\ UNCHANGED <<line, stack>>
  <2>1. keys' = keys /\ waiter'.mode = "none" /\ waiter'.candidate = NoLine
    BY <1>3, NothingOnItsWay DEF Finish, NoWaiter, NewWaiter
  <2>2. HasWaiter
    BY <1>3 DEF Waits, IInv, Core, WaiterFits
  <2>3. CASE waiter.mode = "ready"
    <3>1. calls'[Ready] = "timeout"
      BY <1>3, <2>3, Names DEF Finish, IInv, Core, WaiterFits, ShellTypeOK
    <3> QED BY <1>1, <1>3, <2>1, <2>3, <3>1 DEF NotReady
  <2>4. CASE waiter.mode = "resync"
    <3>1. resync' = [resync EXCEPT !.outcome = "timeout"] /\ calls' = calls
      BY <1>3, <2>4 DEF Finish
    <3>2. resync'.step = resync.step /\ resync'.outcome = "timeout"
      BY <3>1 DEF IInv, ShellTypeOK
    <3>3. resync.step # "none" /\ calls[Ready] = "ok"
      BY <2>4 DEF IInv, Core, NoPromiseIsLost, CallsFit
    <3> QED BY <1>1, <1>3, <2>1, <2>4, <3>1, <3>2, <3>3 DEF ResyncFails
  <2> QED BY <1>3, <2>2, <2>3, <2>4 DEF HasWaiter, IInv, ShellTypeOK, Waiters
<1>4. CASE UNCHANGED <<waiter, calls, resync, line, stack>>
  BY <1>1, <1>4, NothingOnItsWay DEF Stays
<1> QED BY <1>2, <1>3, <1>4 DEF TimeoutFires, Expire

LEMMA PokeMoves ==
  ASSUME IInv, OneWriter, NEW g \in Waits, PokeFires(g), Typed
  PROVE  Stays \/ Pokes
<1>1. UNCHANGED <<waiter, line, calls, resync, identity, deadNotified>>
  BY DEF PokeFires
<1>2. CASE NoWrite
  BY <1>1, <1>2, NothingOnItsWay DEF NoWrite, Stays
<1>3. CASE Write(typed, "cr", FALSE, g, NoLine)
  <2>1. keys' = Append(keys, PressedKey("cr", waiter'.call))
    BY <1>3, KeyTyped DEF PressedKey
  <2>2. waiter.mode = "ready"
    <3>1. <<"poke", g>> \in timers
      BY DEF PokeFires
    <3> QED BY <3>1 DEF OneWriter
  <2> QED BY <1>1, <2>1, <2>2 DEF Pokes
<1> QED BY <1>2, <1>3 DEF PokeFires

LEMMA ResyncContinuesMoves ==
  ASSUME IInv, OneWriter, ResyncContinues, Typed
  PROVE  Resyncs \/ ResyncEnds
<1>1. ~HasWaiter /\ calls[Ready] = "ok" /\ ~deadNotified /\ ~detached
  BY NobodyWaits, NotDead DEF ResyncContinues, OneWriter
<1>2. UNCHANGED <<line, identity>>
  BY DEF ResyncContinues
<1>3. CASE ResyncOver /\ (resync.outcome = "ok" \/ MarkResyncFailed)
           /\ (resync.outcome = "ok" => UNCHANGED deadNotified)
  <2>1. calls'[Ready] = "ok" /\ waiter' = waiter /\ stack' = stack
    BY <1>1, <1>3, Names DEF ResyncOver
  <2>2. resync.outcome = "ok" \/ deadNotified'
    BY <1>1, <1>3 DEF MarkResyncFailed, Die
  <2> QED BY <1>1, <1>2, <1>3, <2>1, <2>2, NothingOnItsWay DEF ResyncEnds
<1>4. CASE InterruptInstead
  <2>1. waiter'.mode = "resync" /\ calls' = calls /\ deadNotified' = deadNotified
    BY <1>4 DEF InterruptInstead, NewWaiter
  <2> QED BY <1>1, <1>2, <2>1 DEF Resyncs
<1> QED BY <1>3, <1>4 DEF ResyncContinues

LEMMA SettleFiresMoves ==
  ASSUME Regex \subseteq {Prompt}, IInv, OneWriter, NEW g \in Waits, SettleFires(g), Typed
  PROVE  SettleMoves
<1>1. deadNotified' = deadNotified
  BY DEF SettleFires
<1>2. CASE UNCHANGED <<waiter, line, calls, resync, identity, stack>>
  BY <1>1, <1>2, NothingOnItsWay DEF Stays, SettleMoves
<1>3. waiter.gen = g => HasWaiter
  BY DEF Waits, IInv, Core, WaiterFits
<1>4. CASE waiter.gen = g /\ MaySettle(waiter, line)
  <2>1. waiter.mode \in {"ready", "resync", "command"}
    BY <1>3, <1>4 DEF HasWaiter, IInv, ShellTypeOK, Waiters
  <2>2. line' = <<>>
    BY <1>4 DEF SettleFires, ClearLine
  <2>3. NoWrite => keys' = keys
    BY NothingOnItsWay DEF NoWrite
  <2>4. NoWaiter.mode = "none"
    BY NoWaiterType
  <2>5. CASE waiter.mode = "ready"
    <3>1. line # <<>>
      BY <1>4, <2>5, Texts DEF MaySettle, IsPrompt, IsPromptLine, LooksLikeReadyPrompt
    <3>2. ReadySettles
      BY <1>4, <2>5 DEF SettleFires
    <3>3. CASE ReadyConfirms /\ UNCHANGED identity
      <4>1. waiter'.mode = "ready" /\ waiter'.candidate = line /\ calls' = calls
        BY <2>5, <3>3 DEF ReadyConfirms, IInv, ShellTypeOK, Waiters
      <4>2. Write(typed, "cr", FALSE, waiter.gen, NoLine)
        BY <3>3 DEF ReadyConfirms
      <4>3. keys' = Append(keys, PressedKey("cr", waiter'.call))
        BY <4>2, KeyTyped DEF PressedKey
      <4> QED BY <2>2, <2>5, <3>1, <3>3, <4>1, <4>3 DEF Confirms, SettleMoves
    <3>4. CASE waiter.candidate = line /\ identity' = line /\ Finish(waiter, "ok") /\ NoWrite
      <4>1. calls'[Ready] = "ok" /\ waiter'.mode = "none"
        BY <2>4, <2>5, <3>4, Names DEF Finish, IInv, Core, WaiterFits, ShellTypeOK
      <4> QED BY <2>2, <2>3, <2>5, <3>1, <3>4, <4>1 DEF GetsReady, SettleMoves
    <3> QED BY <3>2, <3>3, <3>4 DEF ReadySettles, ReadyConfirms
  <2>6. CASE waiter.mode = "resync"
    <3>1. calls[Ready] = "ok"
      BY <2>6 DEF IInv, Core, NoPromiseIsLost, CallsFit
    <3>2. ResyncSettles
      BY <1>4, <2>6 DEF SettleFires
    <3>3. CASE IsPrompt(line, "resync")
      <4>1. calls' = calls /\ waiter'.mode = "none" /\ identity' = identity /\ NoWrite
        BY <2>4, <2>6, <3>2, <3>3 DEF ResyncSettles, Finish
      <4> QED BY <2>2, <2>3, <2>6, <3>1, <3>3, <4>1 DEF ResyncSucceeds, SettleMoves
    <3>4. CASE ~IsPrompt(line, "resync")
      <4>1. waiter'.mode = "resync" /\ calls' = calls /\ identity' = identity
        BY <2>6, <3>2, <3>4 DEF ResyncSettles, IInv, ShellTypeOK, Waiters
      <4> QED BY <1>1, <2>2, <3>1, <4>1 DEF Resyncs, SettleMoves
    <3> QED BY <3>3, <3>4
  <2>7. CASE waiter.mode = "command"
    <3>1. IsPrompt(line, "command")
      BY <1>4, <2>7 DEF MaySettle
    <3>2. PICK outcome \in {"ok", "limit"} : Finish(waiter, outcome)
      BY <1>4, <2>7 DEF SettleFires, CommandSettles
    <3>3. NoWrite /\ identity' \in {identity, line}
      BY <1>4, <2>7 DEF SettleFires, CommandSettles
    <3>4. waiter'.mode = "none" /\ calls' = [calls EXCEPT ![waiter.call] = outcome]
      BY <2>4, <2>7, <3>2 DEF Finish
    <3>5. calls[Ready] = "ok" /\ calls'[Ready] = "ok"
      BY <2>7, <3>4, CommandIsServed, Names DEF IInv, ShellTypeOK
    <3> QED BY <2>2, <2>3, <2>7, <3>1, <3>3, <3>4, <3>5 DEF Completes, SettleMoves
  <2> QED BY <2>1, <2>5, <2>6, <2>7
<1> QED BY <1>2, <1>4 DEF SettleFires, NoWrite

LEMMA ActsMoves ==
  ASSUME IInv, OneWriter, Acts
  PROVE  ActMoves
BY WaitForReadyMoves, RunCommandMoves, AbortMoves, WriteReturnsMoves, TimeoutMoves, PokeMoves,
   ResyncContinuesMoves DEF Acts, ActMoves

LEMMA SettlesMoves ==
  ASSUME Regex \subseteq {Prompt}, IInv, OneWriter, Settles
  PROVE  SettleMoves /\ ~deadNotified
<1>1. TurnIsOver
  BY DEF Settles, SettleFires
<1> QED BY <1>1, NotDead, SettleFiresMoves DEF Settles, TurnIsOver

\* A chunk is read by the waiter, or there is none.
Reads(chunk) ==
  /\ HasWaiter /\ waiter'.mode = waiter.mode /\ waiter'.call = waiter.call
  /\ waiter'.candidate = waiter.candidate
  /\ line' = IF chunk.newLine THEN chunk.text ELSE line \o chunk.text
  /\ UNCHANGED <<identity, resync, deadNotified, calls>>
  /\ \/ keys' = keys
     \/ /\ waiter.mode = "command"
        /\ \E key \in {"space", "quit"} : keys' = Append(keys, PressedKey(key, waiter.call))

Drops == ~HasWaiter /\ TurnIsOver /\ UNCHANGED shellVars /\ keys' = keys

LEMMA AnswerPagerTypes ==
  ASSUME IInv, NEW w \in Waiters, NEW l, NEW seen, AnswerPager(w, l, seen), Typed
  PROVE  \/ keys' = keys
         \/ \E key \in {"space", "quit"} : keys' = Append(keys, PressedKey(key, waiter'.call))
<1>1. CASE NoWrite
  BY <1>1, NothingOnItsWay DEF NoWrite
<1>2. CASE \E key \in {"space", "quit"} : Write(typed, key, TRUE, w.gen, PagerTail(l))
  BY <1>2, KeyTyped DEF PressedKey
<1> QED BY <1>1, <1>2 DEF AnswerPager

LEMMA DataReads ==
  ASSUME IInv, NEW chunk, IsChunk(chunk), Data(chunk), Typed
  PROVE  Reads(chunk)
<1> DEFINE l == IF chunk.newLine THEN chunk.text ELSE line \o chunk.text
           w == IF chunk.newLine THEN [waiter EXCEPT !.sameLine = FALSE] ELSE waiter
           seen == IF chunk.newLine \/ Contains(chunk.text, "more") THEN 0 ELSE scrolled
<1>1. /\ w \in Waiters /\ w.mode = waiter.mode /\ w.call = waiter.call
      /\ w.candidate = waiter.candidate
  BY DEF IInv, ShellTypeOK, Waiters
<1>2. /\ EvaluateWaiter(w, l, seen) /\ HasWaiter /\ line' = l
      /\ UNCHANGED <<identity, resync, deadNotified, calls>>
  BY DEF Data
<1> HIDE DEF w, seen
<1>3. waiter'.mode = w.mode /\ waiter'.call = w.call /\ waiter'.candidate = w.candidate
  BY <1>1, <1>2 DEF EvaluateWaiter, AnswerPager, Waiters
<1>4. CASE w.mode = "command" /\ AnswerPager(w, l, seen)
  <2>1. \/ keys' = keys
        \/ \E key \in {"space", "quit"} : keys' = Append(keys, PressedKey(key, waiter'.call))
    BY <1>1, <1>4, AnswerPagerTypes
  <2> QED BY <1>1, <1>2, <1>3, <1>4, <2>1 DEF Reads
<1>5. CASE NoWrite
  <2>1. keys' = keys
    BY <1>5, NothingOnItsWay DEF NoWrite
  <2> QED BY <1>1, <1>2, <1>3, <2>1 DEF Reads
<1> QED BY <1>2, <1>4, <1>5 DEF EvaluateWaiter

LEMMA ReceivesMoves ==
  ASSUME IInv, DeviceTypeOK, OneWriter, Receives
  PROVE  /\ Head(wire).chunk \in Printed
         /\ Reads(Head(wire).chunk) \/ Drops
<1>1. Head(wire).chunk \in Printed
  BY FirstChunk DEF Receives, Sent
<1>2. CASE HasWaiter
  BY <1>1, <1>2, PrintedChunks, DataReads DEF Receives
<1>3. CASE ~HasWaiter
  <2>1. UNCHANGED shellVars /\ TurnIsOver
    BY <1>3 DEF Receives, DataMayCome, OneWriter
  <2>2. keys' = keys
    BY <2>1, NothingOnItsWay DEF Receives, shellVars
  <2> QED BY <1>1, <1>3, <2>1, <2>2 DEF Drops
<1> QED BY <1>2, <1>3

-----------------------------------------------------------------------------
(* Until the shell is ready.                                               *)

LEMMA DeviceStarts ==
  ASSUME DeviceInit
  PROVE  IInv /\ DeviceTypeOK /\ OneWriter /\ MarkerFits /\ BeforeReady /\ calls[Ready] = "idle"
<1> DEFINE first == [chunk |-> BannerChunk, by |-> "none"]
<1>1. ShellInit /\ wire = <<first>> /\ keys = <<>> /\ lineBy = "none"
      /\ dev = [at |-> "boot", cmd |-> "none", junk |-> FALSE]
  BY DEF DeviceInit, Banner, BannerChunk
<1>2. first \in Sent /\ first.chunk = BannerChunk
  BY DEF Sent, Printed
<1> HIDE DEF first
<1>3. wire \in Seq(Sent) /\ DOMAIN wire = {1} /\ wire[1] = first
  BY <1>1, <1>2
<1>4. DeviceTypeOK
  <2>1. keys \in Seq(Pressed)
    BY <1>1
  <2> QED BY <1>1, <1>3, <2>1 DEF DeviceTypeOK, Sent, Pressed
<1>5. IInv /\ MarkerFits
  BY <1>1, IInvInit, MarkerInit
<1>6. OneWriter
  BY <1>1 DEF ShellInit, OneWriter
<1>7. BeforeReady
  <2>1. waiter.candidate = NoLine /\ line = <<>> /\ identity = NoLine
    BY <1>1 DEF ShellInit, NoWaiter, NewWaiter
  <2> QED BY <1>1, <1>2, <1>3, <2>1, Texts, OtherTexts DEF BeforeReady
<1>8. calls[Ready] = "idle"
  BY <1>1, Names DEF ShellInit
<1> QED BY <1>4, <1>5, <1>6, <1>7, <1>8

LEMMA BannerIsNotPrompt == BannerChunk # PromptChunk
<1>1. BannerChunk.newLine = FALSE /\ PromptChunk.newLine = TRUE
  BY DEF BannerChunk, PromptChunk, Chunk
<1> QED BY <1>1

\* The device prints its first prompt, and another for every line typed.
LEMMA DeviceBeforeReady ==
  ASSUME DeviceTypeOK, BeforeReady, Boot \/ ReadKey \/ Interrupted \/ Runs
  PROVE  BeforeReady'
<1>1. UNCHANGED shellVars
  BY DeviceWord
<1>2. AtPrompt /\ EmitPrompt("none")
      /\ (keys' = keys \/ (keys # <<>> /\ keys' = Tail(keys)))
  <2>1. CASE Boot
    BY <2>1 DEF Boot
  <2>2. CASE ReadKey
    <3>1. keys # <<>> /\ keys \in Seq(Pressed)
      BY <2>2 DEF ReadKey, DeviceTypeOK, Pressed
    <3>2. Head(keys) = keys[1] /\ 1 \in DOMAIN keys
      BY <3>1
    <3>3. Head(keys).key = "cr" /\ dev.at # "paging"
      BY <3>2 DEF BeforeReady
    <3> QED BY <2>2, <3>1, <3>3 DEF ReadKey, EditLine, Page
  <2>3. ~Interrupted /\ ~Runs
    BY DEF Interrupted, Runs, BeforeReady
  <2> QED BY <2>1, <2>2, <2>3
<1>3. /\ dev'.at = "prompt" /\ ~dev'.junk /\ Emit(PromptChunk, "none")
      /\ PromptChunk \in Printed /\ wire \in Seq(Sent)
  BY <1>2, BackAtPrompt DEF DeviceTypeOK, Sent, Printed
<1>4. \A i \in DOMAIN wire' :
        \/ i \in DOMAIN wire /\ wire'[i] = wire[i]
        \/ i \notin DOMAIN wire /\ wire'[i].by = "none" /\ wire'[i].chunk = PromptChunk
  BY <1>3, EmitWire
<1>5. wire' \in Seq(Sent) /\ wire' # <<>>
  BY <1>3, EmitWire
<1>6. (wire # <<>> <=> 1 \in DOMAIN wire) /\ 1 \in DOMAIN wire'
  BY <1>3, <1>5
<1>7. \A i \in DOMAIN keys' : keys'[i].key = "cr"
  <2>1. keys \in Seq(Pressed) /\ \A i \in DOMAIN keys : keys[i].key = "cr"
    BY DEF DeviceTypeOK, Pressed, BeforeReady
  <2> QED BY <1>2, <2>1
<1>8. \A i \in DOMAIN wire' :
        wire'[i].chunk = PromptChunk \/ (i = 1 /\ wire'[i].chunk = BannerChunk)
  BY <1>4 DEF BeforeReady
<1>9. wire'[1].chunk = BannerChunk => wire # <<>> /\ wire[1].chunk = BannerChunk
  BY <1>4, <1>6, BannerIsNotPrompt
<1> QED BY <1>1, <1>3, <1>7, <1>8, <1>9 DEF BeforeReady, shellVars

LEMMA ReceivesBeforeReady ==
  ASSUME IInv, DeviceTypeOK, OneWriter, BeforeReady, Receives, calls[Ready] # "ok"
  PROVE  BeforeReady'
<1> DEFINE first == Head(wire).chunk
<1>1. /\ wire # <<>> /\ wire' = Tail(wire) /\ dev' = dev
      /\ first = wire[1].chunk /\ 1 \in DOMAIN wire
      /\ Tail(wire) \in Seq(Sent)
      /\ \A i \in DOMAIN Tail(wire) : i + 1 \in DOMAIN wire /\ Tail(wire)[i] = wire[i + 1]
  BY FirstChunk DEF Receives
<1>2. Reads(first) \/ Drops
  BY ReceivesMoves
<1>3. waiter.mode # "command"
  BY CommandIsServed
<1>4. keys' = keys /\ identity' = identity /\ waiter'.candidate = waiter.candidate
  BY <1>2, <1>3 DEF Reads, Drops, shellVars
<1>5. \A i \in DOMAIN wire' : wire'[i].chunk = PromptChunk
  <2>1. SUFFICES ASSUME NEW i \in DOMAIN Tail(wire) PROVE Tail(wire)[i].chunk = PromptChunk
    BY <1>1
  <2>2. i + 1 # 1
    BY <1>1
  <2> QED BY <1>1, <2>2 DEF BeforeReady
<1>6. ~(wire' # <<>> /\ wire'[1].chunk = BannerChunk)
  <2>1. wire' # <<>> => 1 \in DOMAIN wire'
    BY <1>1
  <2> QED BY <1>5, <2>1, BannerIsNotPrompt
<1>7. dev.at = "boot" => \A i \in DOMAIN wire' : wire'[i].chunk = BannerChunk
  BY <1>1 DEF BeforeReady
<1>8. CASE first = BannerChunk /\ Reads(first)
  <2>1. line = <<>> /\ waiter.candidate = NoLine
    BY <1>1, <1>8 DEF BeforeReady
  <2>2. line' = Banner
    <3>1. BannerChunk.newLine = FALSE /\ BannerChunk.text = Banner
      BY DEF BannerChunk, Chunk
    <3>2. line' = line \o Banner
      BY <1>8, <3>1 DEF Reads
    <3> QED BY <2>1, <3>2, Texts
  <2> QED BY <1>1, <1>4, <1>5, <1>6, <1>7, <2>1, <2>2, Texts DEF BeforeReady
<1>9. CASE first = PromptChunk /\ Reads(first)
  <2>1. line' = Prompt
    BY <1>9 DEF Reads, PromptChunk, Chunk
  <2>2. dev.at # "boot"
    BY <1>1, <1>9, BannerIsNotPrompt DEF BeforeReady
  <2> QED BY <1>1, <1>4, <1>5, <1>6, <2>1, <2>2, Texts DEF BeforeReady
<1>10. CASE Drops
  <2>1. line' = line
    BY <1>10 DEF Drops, shellVars
  <2> QED BY <1>1, <1>4, <1>5, <1>6, <1>7, <2>1 DEF BeforeReady
<1> QED BY <1>1, <1>2, <1>8, <1>9, <1>10 DEF BeforeReady

LEMMA ReadyRuns ==
  ASSUME IInv, waiter.mode = "ready"
  PROVE  calls[Ready] = "running"
BY Names DEF IInv, Core, WaiterFits, NoPromiseIsLost

\* Until then nothing is typed but empty lines.
LEMMA PressedBeforeReady ==
  ASSUME DeviceTypeOK, BeforeReady,
         keys' = keys \/ \E call : keys' = Append(keys, PressedKey("cr", call))
  PROVE  \A i \in DOMAIN keys' : keys'[i].key = "cr"
<1>1. keys \in Seq(Pressed) /\ \A i \in DOMAIN keys : keys[i].key = "cr"
  BY DEF DeviceTypeOK, Pressed, BeforeReady
<1>2. \A call : PressedKey("cr", call).key = "cr"
  BY DEF PressedKey
<1> QED BY <1>1, <1>2

LEMMA ActsBeforeReady ==
  ASSUME Regex \subseteq {Prompt}, IInv, DeviceTypeOK, OneWriter, BeforeReady, Acts \/ Settles,
         calls[Ready] # "ok"
  PROVE  IF calls'[Ready] = "ok"
           THEN /\ waiter'.mode = "none" /\ Settles
                /\ identity' = Prompt /\ line = Prompt /\ line' = <<>> /\ keys' = keys
           ELSE BeforeReady'
<1>1. dev' = dev /\ wire' = wire
  BY DEF Acts, Settles
<1>2. ActMoves \/ (SettleMoves /\ Settles)
  BY ActsMoves, SettlesMoves
<1>3. CASE GetsReady /\ Settles
  BY <1>3, Texts DEF GetsReady, BeforeReady
<1>4. ASSUME Stays \/ WaitsReady \/ Pokes \/ NotReady \/ Confirms
      PROVE  BeforeReady' /\ calls'[Ready] # "ok"
  <2>1. /\ keys' = keys \/ \E call : keys' = Append(keys, PressedKey("cr", call))
        /\ identity' = identity /\ calls'[Ready] # "ok"
    BY <1>4, ReadyRuns DEF Stays, WaitsReady, Pokes, NotReady, Confirms
  <2>2. \/ line' = line /\ waiter'.candidate \in {waiter.candidate, NoLine}
        \/ line # <<>> /\ line' = <<>> /\ waiter'.candidate = line
    BY <1>4 DEF Stays, WaitsReady, Pokes, NotReady, Confirms
  <2>3. \A i \in DOMAIN keys' : keys'[i].key = "cr"
    BY <2>1, PressedBeforeReady
  <2> QED BY <1>1, <2>1, <2>2, <2>3, Texts, OtherTexts DEF BeforeReady
<1>5. ~Starts /\ ~Resyncs /\ ~ResyncFails /\ ~ResyncEnds /\ ~Completes /\ ~ResyncSucceeds
  BY DEF Starts, Resyncs, ResyncFails, ResyncEnds, Completes, ResyncSucceeds
<1>6. ASSUME Stays \/ WaitsReady \/ Pokes \/ NotReady \/ Confirms
      PROVE  IF calls'[Ready] = "ok"
               THEN /\ waiter'.mode = "none" /\ Settles
                    /\ identity' = Prompt /\ line = Prompt /\ line' = <<>> /\ keys' = keys
               ELSE BeforeReady'
  BY <1>4, <1>6
<1>7. GetsReady => calls'[Ready] = "ok"
  BY DEF GetsReady
<1> QED BY <1>2, <1>3, <1>5, <1>6, <1>7 DEF ActMoves, SettleMoves

\* When promptRegex is given it matches the prompt alone.
LEMMA PromptIsIdentity ==
  ASSUME Regex \subseteq {Prompt}, identity = Prompt, NEW mode \in {"command", "resync"},
         IsPrompt(line, mode)
  PROVE  line = Prompt
BY DEF IsPrompt, IsPromptLine

LEMMA ReadyStep ==
  ASSUME Regex \subseteq {Prompt}, IInv, DeviceTypeOK, OneWriter, ReadyFits, [DeviceNext]_vars
  PROVE  ReadyFits'
<1>1. CASE Boot \/ ReadKey \/ Interrupted \/ Runs
  <2>1. UNCHANGED shellVars
    BY <1>1, DeviceWord
  <2> QED BY <1>1, <2>1, DeviceBeforeReady DEF ReadyFits, shellVars
<1>2. CASE Receives
  <2>1. Reads(Head(wire).chunk) \/ Drops
    BY <1>2, ReceivesMoves
  <2>2. UNCHANGED <<identity, calls>>
    BY <2>1 DEF Reads, Drops, shellVars
  <2> QED BY <1>2, <2>2, ReceivesBeforeReady DEF ReadyFits
<1>3. CASE (Acts \/ Settles) /\ calls[Ready] # "ok"
  BY <1>3, ActsBeforeReady DEF ReadyFits
<1>4. CASE (Acts \/ Settles) /\ calls[Ready] = "ok"
  <2>1. identity = Prompt
    BY <1>4 DEF ReadyFits
  <2>2. ActMoves \/ SettleMoves
    BY <1>4, ActsMoves, SettlesMoves
  <2>3. waiter.mode # "ready"
    BY <1>4, ReadyRuns
  <2>4. Completes => line = Prompt
    BY <2>1, PromptIsIdentity DEF Completes
  <2>5. calls'[Ready] = "ok" /\ identity' = Prompt
    BY <1>4, <2>1, <2>2, <2>3, <2>4
       DEF ActMoves, SettleMoves, Stays, WaitsReady, Pokes, Confirms, GetsReady, NotReady,
           Starts, Completes, Resyncs, ResyncSucceeds, ResyncFails, ResyncEnds
  <2> QED BY <2>5 DEF ReadyFits
<1>5. CASE UNCHANGED vars
  BY <1>5 DEF vars, deviceVars, shellVars, ReadyFits, BeforeReady
<1> QED BY <1>1, <1>2, <1>3, <1>4, <1>5 DEF DeviceNext

-----------------------------------------------------------------------------
(* Once it is ready the shell and the device stay in step.                 *)

\* What c has to do with the keys and the prompts on their way.
KeyOf(k, c) == k.key \in {"space", "quit"} \/ k = PressedKey("command", c)

PromptOf(sent, c) == sent.chunk = PromptChunk => sent.by = c

LEMMA ServesKeys ==
  ASSUME DeviceTypeOK, NEW c, DeviceServes(c), keys # <<>>
  PROVE  /\ Head(keys) = keys[1] /\ KeyOf(Head(keys), c)
         /\ Head(keys).key \in {"space", "quit", "command"}
         /\ Head(keys).key = "command" =>
              dev.at = "prompt" /\ ~dev.junk /\ Head(keys).call = c
         /\ \A i \in DOMAIN Tail(keys) : Tail(keys)[i].key \in {"space", "quit"}
<1>1. keys \in Seq(Pressed)
  BY DEF DeviceTypeOK, Pressed
<1>2. /\ Head(keys) = keys[1] /\ 1 \in DOMAIN keys
      /\ \A i \in DOMAIN Tail(keys) :
           i + 1 \in DOMAIN keys /\ i + 1 # 1 /\ Tail(keys)[i] = keys[i + 1]
  BY <1>1
<1>3. PressedKey("command", c).key = "command" /\ PressedKey("command", c).call = c
  BY DEF PressedKey
<1>4. \A i \in DOMAIN keys :
        \/ keys[i].key \in {"space", "quit"}
        \/ keys[i] = PressedKey("command", c) /\ i = 1 /\ dev.at = "prompt" /\ ~dev.junk
  BY DEF DeviceServes, PressedKey
<1> QED BY <1>2, <1>3, <1>4 DEF KeyOf

\* The keys that remain do not depend on what the device does.
LEMMA StillServes ==
  ASSUME NEW c, DeviceServes(c), UNCHANGED <<line, lineBy>>,
         dev'.at # "boot", dev'.at \in {"running", "paging"} => dev'.cmd = c,
         \A i \in DOMAIN keys' : keys'[i].key \in {"space", "quit"},
         \A i \in DOMAIN wire' : PromptOf(wire'[i], c)
  PROVE  DeviceServes(c)'
BY DEF DeviceServes, PromptOf

LEMMA PromptServes ==
  ASSUME DeviceTypeOK, NEW c \in Calls, DeviceServes(c), AtPrompt, EmitPrompt(c)
  PROVE  \A i \in DOMAIN wire' : PromptOf(wire'[i], c)
<1>1. Emit(PromptChunk, c) /\ PromptChunk \in Printed /\ wire \in Seq(Sent)
  BY DEF EmitPrompt, PromptChunk, Printed, DeviceTypeOK, Sent
<1>2. \A i \in DOMAIN wire' :
        \/ i \in DOMAIN wire /\ wire'[i] = wire[i]
        \/ i \notin DOMAIN wire /\ wire'[i].by = c /\ wire'[i].chunk = PromptChunk
  BY <1>1, EmitWire
<1> QED BY <1>2 DEF PromptOf, DeviceServes

LEMMA OtherServes ==
  ASSUME DeviceTypeOK, NEW c \in Calls, DeviceServes(c),
         NEW chunk \in Printed \ {PromptChunk}, Emit(chunk, "none")
  PROVE  \A i \in DOMAIN wire' : PromptOf(wire'[i], c)
<1>1. wire \in Seq(Sent) /\ "none" \in Calls \cup {"none"}
  BY DEF DeviceTypeOK, Sent
<1>2. \A i \in DOMAIN wire' :
        \/ i \in DOMAIN wire /\ wire'[i] = wire[i]
        \/ i \notin DOMAIN wire /\ wire'[i].by = "none" /\ wire'[i].chunk = chunk
  BY <1>1, EmitWire
<1> QED BY <1>2 DEF PromptOf, DeviceServes

LEMMA MarkerServes ==
  ASSUME DeviceTypeOK, NEW c \in Calls, DeviceServes(c),
         NEW chunks \in MarkerChunks, Emits(chunks, "none")
  PROVE  \A i \in DOMAIN wire' : PromptOf(wire'[i], c)
<1>1. \A i \in DOMAIN wire' :
        (i \in DOMAIN wire /\ wire'[i] = wire[i]) \/ wire'[i].chunk # PromptChunk
  BY MarkerWord
<1> QED BY <1>1 DEF PromptOf, DeviceServes

LEMMA ServingDeviceStep ==
  ASSUME DeviceTypeOK, NEW c \in Calls, DeviceServes(c), Boot \/ ReadKey \/ Interrupted \/ Runs
  PROVE  DeviceServes(c)'
<1>1. UNCHANGED <<line, lineBy>>
  BY DeviceWord DEF shellVars
<1>2. \A i \in DOMAIN wire : PromptOf(wire[i], c)
  BY DEF DeviceServes, PromptOf
<1>3. dev.at # "boot" /\ (dev.at \in {"running", "paging"} => dev.cmd = c)
  BY DEF DeviceServes
<1>4. CASE ReadKey
  <2> DEFINE k == Head(keys)
  <2>1. /\ keys # <<>> /\ keys' = Tail(keys)
        /\ k.key \in {"space", "quit", "command"}
        /\ k.key = "command" => dev.at = "prompt" /\ ~dev.junk /\ k.call = c
        /\ \A i \in DOMAIN keys' : keys'[i].key \in {"space", "quit"}
    BY <1>4, ServesKeys DEF ReadKey
  <2> HIDE DEF k
  <2>2. CASE dev.at = "prompt" /\ k.key \in {"space", "quit"} /\ EditLine(k)
    <3>1. Becomes("prompt", "none", TRUE) /\ Emit(Chunk(FALSE, <<"text">>), "none")
      BY <2>2 DEF EditLine
    <3>2. dev'.at = "prompt"
      BY <3>1 DEF Becomes
    <3> QED BY <1>1, <2>1, <3>1, <3>2, OtherServes, OtherChunks, StillServes
  <2>3. CASE dev.at = "prompt" /\ k.key = "command" /\ EditLine(k)
    <3>1. Becomes("running", c, FALSE) /\ Emit(Chunk(TRUE, <<>>), "none")
      BY <2>1, <2>3 DEF EditLine
    <3>2. dev'.at = "running" /\ dev'.cmd = c
      BY <3>1 DEF Becomes
    <3> QED BY <1>1, <2>1, <3>1, <3>2, OtherServes, OtherChunks, StillServes
  <2>4. CASE dev.at = "paging" /\ k.key = "space" /\ Page(k)
    <3>1. Becomes("running", c, FALSE) /\ Emit(Chunk(TRUE, <<>>), "none")
      BY <1>3, <2>4 DEF Page
    <3>2. dev'.at = "running" /\ dev'.cmd = c
      BY <3>1 DEF Becomes
    <3> QED BY <1>1, <2>1, <3>1, <3>2, OtherServes, OtherChunks, StillServes
  <2>5. CASE dev.at = "paging" /\ k.key = "quit" /\ Page(k)
    <3>1. AtPrompt /\ EmitPrompt(c)
      BY <1>3, <2>5 DEF Page
    <3>2. dev'.at = "prompt"
      BY <3>1 DEF AtPrompt, Becomes
    <3> QED BY <1>1, <2>1, <3>1, <3>2, PromptServes, StillServes
  <2>6. EditLine(k) => dev.at = "prompt"
    BY DEF EditLine
  <2>7. Page(k) => dev.at = "paging"
    BY DEF Page
  <2>8. EditLine(k) \/ Page(k)
    BY <1>4 DEF ReadKey, k
  <2> QED BY <2>1, <2>2, <2>3, <2>4, <2>5, <2>6, <2>7, <2>8
<1>5. CASE Interrupted
  BY <1>5 DEF Interrupted, DeviceServes
<1>6. CASE Runs
  <2>1. dev.at = "running" /\ dev.cmd = c /\ keys' = keys
    BY <1>3, <1>6 DEF Runs
  <2>2. \A i \in DOMAIN keys' : keys'[i].key \in {"space", "quit"}
    BY <2>1 DEF DeviceServes
  <2>3. CASE Emit(Chunk(TRUE, <<"text">>), "none") /\ UNCHANGED dev
    BY <1>1, <2>1, <2>2, <2>3, OtherServes, OtherChunks, StillServes
  <2>4. CASE (\E chunks \in MarkerChunks : Emits(chunks, "none")) /\ Becomes("paging", dev.cmd, FALSE)
    <3>1. dev'.at = "paging" /\ dev'.cmd = c
      BY <2>1, <2>4 DEF Becomes
    <3> QED BY <1>1, <2>2, <2>4, <3>1, MarkerServes, StillServes
  <2>5. CASE EmitPrompt(c) /\ AtPrompt
    <3>1. dev'.at = "prompt"
      BY <2>5 DEF AtPrompt, Becomes
    <3> QED BY <1>1, <2>2, <2>5, <3>1, PromptServes, StillServes
  <2> QED BY <1>6, <2>1, <2>3, <2>4, <2>5 DEF Runs
<1>7. CASE Boot
  BY <1>3, <1>7 DEF Boot
<1> QED BY <1>4, <1>5, <1>6, <1>7

\* A step of the device.
LEMMA DeviceInStep ==
  ASSUME IInv, DeviceTypeOK, InStep, Boot \/ ReadKey \/ Interrupted \/ Runs
  PROVE  InStep'
<1>1. UNCHANGED shellVars /\ LastWord
  BY DeviceWord
<1>2. UNCHANGED <<waiter, line, calls, resync, deadNotified>>
  BY <1>1 DEF shellVars
<1>3. ~Quiet
  BY DEF Quiet, Boot, ReadKey, Interrupted, Runs
<1>4. PromptIsLast => PromptIsLast'
  BY <1>1, <1>2 DEF PromptIsLast, LastWord
<1>5. ASSUME waiter.mode = "command", DeviceServes(waiter.call)
      PROVE  DeviceServes(waiter.call)'
  <2>1. waiter.call \in Calls
    BY <1>5, CommandIsServed, Names
  <2>2. PICK c \in Calls : c = waiter.call
    BY <2>1
  <2>3. DeviceServes(c)'
    BY <1>5, <2>2, ServingDeviceStep
  <2> QED BY <1>2, <2>2, <2>3 DEF DeviceServes
<1> QED BY <1>2, <1>3, <1>4, <1>5 DEF InStep, HasWaiter

\* The device owes nothing: it waits at the prompt that the shell has seen.
LEMMA SettledIsQuiet ==
  ASSUME PausesAreShort = TRUE, Settles, PromptIsLast, line = Prompt, keys' = keys
  PROVE  Quiet' /\ wire = <<>>
<1>1. ~Owes /\ UNCHANGED <<dev, wire>>
  BY DEF Settles
<1>2. wire = <<>> /\ dev.at = "prompt" /\ ~dev.junk
  BY <1>1 DEF Owes, PromptIsLast
<1>3. keys = <<>>
  BY <1>1, <1>2 DEF Owes
<1> QED BY <1>1, <1>2, <1>3 DEF Quiet

LEMMA QuietIsInStep ==
  ASSUME waiter'.mode = "none", line' = <<>>, Quiet'
  PROVE  InStep'
<1>1. PromptIsLast'
  BY OtherTexts DEF PromptIsLast, Quiet
<1> QED BY <1>1 DEF InStep

LEMMA StartsInStep ==
  ASSUME Quiet, Starts, UNCHANGED <<dev, wire, lineBy>>
  PROVE  InStep'
<1> DEFINE c == waiter'.call
           k == PressedKey("command", c)
<1>1. keys' = <<k>> /\ k = [key |-> "command", call |-> c]
  BY DEF Quiet, Starts, PressedKey
<1> HIDE DEF k
<1>2. DOMAIN keys' = {1} /\ keys'[1] = k
  BY <1>1
<1>3. /\ waiter'.mode = "command" /\ line' = <<>> /\ wire' = <<>>
      /\ dev'.at = "prompt" /\ ~dev'.junk
  BY DEF Starts, Quiet
<1>4. DeviceServes(waiter.call)'
  BY <1>1, <1>2, <1>3, OtherTexts DEF DeviceServes
<1>5. PromptIsLast' /\ HasWaiter'
  BY <1>3, OtherTexts DEF PromptIsLast, HasWaiter
<1> QED BY <1>3, <1>4, <1>5 DEF InStep

\* A step of the shell.
LEMMA ShellInStep ==
  ASSUME Regex \subseteq {Prompt}, PausesAreShort = TRUE, IInv, DeviceTypeOK, OneWriter,
         ReadyFits, InStep, Acts \/ Settles
  PROVE  InStep'
<1>1. UNCHANGED <<dev, wire, lineBy>>
  BY DEF Acts, Settles
<1>2. SUFFICES ASSUME calls'[Ready] = "ok", ~deadNotified' PROVE InStep'
  BY DEF InStep
<1>3. CASE calls[Ready] # "ok"
  <2>1. /\ waiter'.mode = "none" /\ Settles
        /\ identity' = Prompt /\ line = Prompt /\ line' = <<>> /\ keys' = keys
    BY <1>2, <1>3, ActsBeforeReady DEF ReadyFits
  <2>2. BeforeReady
    BY <1>3 DEF ReadyFits
  <2>3. PromptIsLast
    <3>1. wire = <<>>
      BY <2>1 DEF Settles, Owes
    <3> QED BY <2>1, <2>2, <3>1 DEF PromptIsLast, BeforeReady
  <2> QED BY <2>1, <2>3, SettledIsQuiet, QuietIsInStep
<1>4. CASE calls[Ready] = "ok" /\ ~deadNotified
  <2>1. /\ PromptIsLast
        /\ ~HasWaiter /\ (resync.step = "none" \/ resync.outcome = "ok") => Quiet
        /\ waiter.mode = "command" => DeviceServes(waiter.call)
    BY <1>4 DEF InStep
  <2>2. identity = Prompt /\ waiter.mode # "ready"
    BY <1>4, ReadyRuns DEF ReadyFits
  <2>3. ActMoves \/ (SettleMoves /\ Settles)
    BY ActsMoves, SettlesMoves
  <2>4. CASE Stays
    <3>1. PromptIsLast'
      BY <1>1, <2>1, <2>4 DEF PromptIsLast, Stays
    <3>2. Quiet => Quiet'
      BY <1>1, <2>4 DEF Quiet, Stays
    <3>3. ~HasWaiter' => ~HasWaiter
      BY <2>4 DEF HasWaiter, Stays
    <3>4. waiter.mode = "command" => DeviceServes(waiter.call)'
      BY <1>1, <2>1, <2>4 DEF Stays, DeviceServes
    <3> QED BY <2>1, <2>4, <3>1, <3>2, <3>3, <3>4 DEF InStep, Stays
  <2>5. CASE Starts
    BY <1>1, <2>1, <2>5, StartsInStep DEF Starts
  <2>6. CASE (Completes \/ ResyncSucceeds) /\ Settles
    <3>1. line = Prompt /\ keys' = keys /\ waiter'.mode = "none" /\ line' = <<>>
      BY <2>2, <2>6, PromptIsIdentity DEF Completes, ResyncSucceeds
    <3> QED BY <2>1, <2>6, <3>1, SettledIsQuiet, QuietIsInStep
  <2>7. CASE Resyncs
    <3>1. PromptIsLast'
      BY <1>1, <2>1, <2>7, OtherTexts DEF PromptIsLast, Resyncs
    <3> QED BY <2>7, <3>1 DEF InStep, Resyncs, HasWaiter
  <2>8. CASE ResyncFails
    <3>1. PromptIsLast'
      BY <1>1, <2>1, <2>8 DEF PromptIsLast, ResyncFails
    <3> QED BY <2>8, <3>1 DEF InStep, ResyncFails, HasWaiter
  <2>9. CASE ResyncEnds
    <3>1. Quiet
      BY <1>2, <2>1, <2>9 DEF ResyncEnds
    <3>2. Quiet' /\ PromptIsLast'
      BY <1>1, <2>1, <2>9, <3>1 DEF ResyncEnds, Quiet, PromptIsLast
    <3>3. waiter'.mode = "none"
      BY <2>9 DEF ResyncEnds, HasWaiter
    <3> QED BY <3>2, <3>3 DEF InStep
  <2>10. ~WaitsReady /\ ~Pokes /\ ~NotReady /\ ~Confirms /\ ~GetsReady
    BY <1>4, <2>2 DEF WaitsReady, Pokes, NotReady, Confirms, GetsReady
  <2> QED BY <2>3, <2>4, <2>5, <2>6, <2>7, <2>8, <2>9, <2>10 DEF ActMoves, SettleMoves
<1>5. CASE calls[Ready] = "ok" /\ deadNotified
  <2>1. ActMoves
    BY <1>5, ActsMoves, SettlesMoves
  <2>2. waiter.mode # "ready"
    BY <1>5, ReadyRuns
  <2>3. deadNotified'
    BY <1>5, <2>1, <2>2
       DEF ActMoves, Stays, WaitsReady, Pokes, NotReady, Starts, Resyncs, ResyncFails, ResyncEnds
  <2> QED BY <1>2, <2>3
<1> QED BY <1>3, <1>4, <1>5

\* A chunk is received.
LEMMA ReceivesInStep ==
  ASSUME IInv, DeviceTypeOK, OneWriter, InStep, Receives
  PROVE  InStep'
<1> DEFINE first == Head(wire).chunk
<1>1. /\ wire # <<>> /\ wire' = Tail(wire) /\ dev' = dev /\ lineBy' = wire[1].by
      /\ first = wire[1].chunk /\ 1 \in DOMAIN wire
      /\ Tail(wire) = <<>> => Len(wire) = 1
      /\ \A i \in DOMAIN Tail(wire) : i + 1 \in DOMAIN wire /\ Tail(wire)[i] = wire[i + 1]
  BY FirstChunk DEF Receives
<1>2. first \in Printed /\ (Reads(first) \/ Drops)
  BY ReceivesMoves
<1>3. UNCHANGED <<calls, deadNotified, resync>>
  BY <1>2 DEF Reads, Drops, shellVars
<1>4. SUFFICES ASSUME calls[Ready] = "ok", ~deadNotified PROVE InStep'
  BY <1>3 DEF InStep
<1>5. /\ PromptIsLast
      /\ ~HasWaiter /\ (resync.step = "none" \/ resync.outcome = "ok") => Quiet
      /\ waiter.mode = "command" => DeviceServes(waiter.call)
  BY <1>4 DEF InStep
<1>6. CASE Drops
  <2>1. ~HasWaiter /\ resync.outcome \in {"none", "pending"}
    BY <1>6 DEF Drops, TurnIsOver
  <2>2. resync.step = "none"
    BY <2>1 DEF IInv, Core, NoPromiseIsLost, CallsFit, HasWaiter
  <2> QED BY <1>1, <1>5, <2>1, <2>2 DEF Quiet
<1>7. CASE Reads(first)
  <2>1. line \in Seq(Pieces)
    BY DEF IInv, ShellTypeOK
  <2>2. line' = Prompt => first = PromptChunk
    BY <1>2, <1>7, <2>1, OnlyThePrompt DEF Reads
  <2>3. PromptIsLast'
    <3>1. wire \in Seq(Sent)
      BY DEF DeviceTypeOK, Sent
    <3>2. CASE Tail(wire) = <<>>
      <4>1. Len(wire) = 1
        BY <1>1, <3>2
      <4> QED BY <1>1, <1>5, <2>2, <3>2, <4>1 DEF PromptIsLast
    <3>3. CASE Tail(wire) # <<>>
      <4>1. Tail(wire)[Len(Tail(wire))] = wire[Len(wire)]
        BY <1>1, <3>1, <3>3
      <4> QED BY <1>1, <1>5, <3>3, <4>1 DEF PromptIsLast
    <3> QED BY <3>2, <3>3
  <2>4. ASSUME waiter.mode = "command" PROVE DeviceServes(waiter.call)'
    <3>1. DeviceServes(waiter.call) /\ waiter'.call = waiter.call
      BY <1>5, <1>7, <2>4 DEF Reads
    <3>2. \A i \in DOMAIN wire' : PromptOf(wire'[i], waiter.call)
      BY <1>1, <3>1 DEF DeviceServes, PromptOf
    <3>3. line' = Prompt => lineBy' = waiter.call
      BY <1>1, <2>2, <3>1 DEF DeviceServes
    <3>4. \A i \in DOMAIN keys' :
            keys'[i].key \in {"space", "quit"} \/ (i \in DOMAIN keys /\ keys'[i] = keys[i])
      <4>1. keys \in Seq(Pressed)
        BY DEF DeviceTypeOK, Pressed
      <4>2. \A key : PressedKey(key, waiter.call).key = key
        BY DEF PressedKey
      <4>3. \/ keys' = keys
            \/ \E key \in {"space", "quit"} : keys' = Append(keys, PressedKey(key, waiter.call))
        BY <1>7 DEF Reads
      <4> QED BY <4>1, <4>2, <4>3
    <3> QED BY <1>1, <3>1, <3>2, <3>3, <3>4 DEF DeviceServes, PromptOf
  <2>5. HasWaiter' /\ waiter'.mode = waiter.mode
    BY <1>7 DEF Reads, HasWaiter
  <2> QED BY <2>3, <2>4, <2>5 DEF InStep
<1> QED BY <1>2, <1>6, <1>7

LEMMA InStepStep ==
  ASSUME Regex \subseteq {Prompt}, PausesAreShort = TRUE, IInv, DeviceTypeOK, OneWriter,
         ReadyFits, InStep, [DeviceNext]_vars
  PROVE  InStep'
<1>1. CASE UNCHANGED vars
  BY <1>1 DEF vars, deviceVars, shellVars, InStep, HasWaiter, PromptIsLast, Quiet, DeviceServes
<1> QED BY <1>1, DeviceInStep, ShellInStep, ReceivesInStep DEF DeviceNext

\* Only a settled prompt ends a command well, and on a shell that lives.
LEMMA CompletesSettled ==
  ASSUME Regex \subseteq {Prompt}, IInv, OneWriter,
         NEW c \in Commands, calls[c] = "running", calls'[c] \in {"ok", "limit"},
         [DeviceNext]_vars, DeviceTypeOK
  PROVE  /\ waiter.mode = "command" /\ waiter.call = c /\ IsPrompt(line, "command")
         /\ calls[Ready] = "ok" /\ ~deadNotified
<1>1. c \in Calls /\ c # Ready /\ calls \in [Calls -> {"idle", "awaiting", "resuming", "running"} \cup Outcomes]
  BY Names DEF IInv, ShellTypeOK
<1>2. calls' # calls
  BY DEF IInv
<1>3. ~Boot /\ ~ReadKey /\ ~Interrupted /\ ~Runs /\ ~Receives
  BY <1>2, DeviceWord, ReceivesMoves DEF shellVars, Reads, Drops
<1>4. ~Acts
  <2>1. ~WaitForReady /\ ~WriteReturns /\ ~ResyncContinues
    BY <1>1, <1>2 DEF WaitForReady, WriteReturns, ResyncContinues, ResyncOver, InterruptInstead
  <2>2. ASSUME NEW d \in Commands, RunCommand(d) \/ Resume(d) PROVE FALSE
    <3>1. d # c
      BY <2>2 DEF RunCommand, Resume
    <3> QED BY <1>1, <2>2, <3>1 DEF RunCommand, Resume, RejectCall, StartCommand
  <2>3. \A outcome \in {"closed", "timeout"} : ~FailAndResync(outcome) /\ ~Finish(waiter, outcome)
    BY <1>1 DEF FailAndResync, BeginResync, Finish
  <2>4. \A d \in Commands : ~Abort(d)
    BY <1>2, <2>3 DEF Abort
  <2>5. \A g \in Waits : ~TimeoutFires(g) /\ ~PokeFires(g)
    BY <1>2, <2>3 DEF TimeoutFires, Expire, PokeFires
  <2> QED BY <2>1, <2>2, <2>4, <2>5 DEF Acts
<1>5. Settles
  BY <1>2, <1>3, <1>4 DEF DeviceNext, vars, shellVars
<1>6. PICK g \in Waits : SettleFires(g)
  BY <1>5 DEF Settles
<1>7. waiter.gen = g /\ MaySettle(waiter, line)
  BY <1>2, <1>6 DEF SettleFires
<1>8. waiter.mode \in {"ready", "resync", "command"}
  BY <1>7 DEF Waits, IInv, Core, WaiterFits, ShellTypeOK, Waiters, HasWaiter
<1>9. PICK outcome : Finish(waiter, outcome)
  BY <1>2, <1>6, <1>7, <1>8
     DEF SettleFires, ReadySettles, ReadyConfirms, ResyncSettles, CommandSettles
<1>10. waiter.mode # "resync" /\ waiter.call = c
  BY <1>1, <1>2, <1>9 DEF Finish
<1>11. waiter.mode = "command"
  BY <1>1, <1>8, <1>10 DEF IInv, Core, WaiterFits
<1> QED BY <1>5, <1>7, <1>10, <1>11, CommandIsServed, SettlesMoves DEF MaySettle

-----------------------------------------------------------------------------
(* Theorems.                                                               *)

\* The invariants of the shell hold in front of the device as well.
THEOREM DeviceInvariance == DeviceSpec => [](IInv /\ DeviceTypeOK /\ OneWriter)
<1>1. DeviceInit => IInv /\ DeviceTypeOK /\ OneWriter
  BY DeviceStarts
<1>2. IInv /\ DeviceTypeOK /\ OneWriter /\ [DeviceNext]_vars
        => (IInv /\ DeviceTypeOK /\ OneWriter)'
  BY DeviceTypeStep, OneWriterStep
<1> QED BY <1>1, <1>2, PTL DEF DeviceSpec

\* A marker is answered once in front of this device, however it cuts its
\* output into chunks and however late it prints.
THEOREM DeviceMarkerAnsweredOnce == DeviceSpec => []MarkerIsAnsweredOnce
<1>1. DeviceInit => MarkerFits
  BY DeviceStarts
<1>2. IInv /\ DeviceTypeOK /\ MarkerFits /\ [DeviceNext]_vars => MarkerFits'
  BY DeviceShellStep, MarkerStep
<1>3. IInv /\ MarkerFits => MarkerIsAnsweredOnce
  BY MarkerFollows
<1> QED BY <1>1, <1>2, <1>3, DeviceInvariance, PTL DEF DeviceSpec

\* A prompt on the line is waited out also when the device prints it inside
\* the write of the pager's key.
THEOREM DevicePromptSettles == DeviceSpec => []PromptWillSettle
<1>1. DeviceInit => PromptFits
  BY PromptInit DEF DeviceInit
<1>2. IInv /\ DeviceTypeOK /\ PromptFits /\ [DeviceNext]_vars => PromptFits'
  BY DeviceShellStep, PromptStep
<1>3. PromptFits => PromptWillSettle
  BY DEF PromptFits
<1> QED BY <1>1, <1>2, <1>3, DeviceInvariance, PTL DEF DeviceSpec

\* However late the first prompt comes, the shell takes it for its identity,
\* and not the banner that looks like one.
THEOREM IdentityOnceReady ==
  ASSUME Regex \subseteq {Prompt}
  PROVE  DeviceSpec => []IdentityIsPrompt
<1>1. DeviceInit => ReadyFits
  BY DeviceStarts DEF ReadyFits
<1>2. IInv /\ DeviceTypeOK /\ OneWriter /\ ReadyFits /\ [DeviceNext]_vars => ReadyFits'
  BY ReadyStep
<1>3. ReadyFits => IdentityIsPrompt
  BY DEF ReadyFits, BeforeReady, IdentityIsPrompt
<1> QED BY <1>1, <1>2, <1>3, DeviceInvariance, PTL DEF DeviceSpec

\* The shell is in step with a device that prints what it owes in time.
THEOREM DeviceInStepInvariance ==
  ASSUME Regex \subseteq {Prompt}, PausesAreShort = TRUE
  PROVE  DeviceSpec => [](IInv /\ DeviceTypeOK /\ OneWriter /\ ReadyFits /\ InStep)
<1> DEFINE Inv == IInv /\ DeviceTypeOK /\ OneWriter /\ ReadyFits /\ InStep
<1>1. DeviceInit => Inv
  BY DeviceStarts DEF ReadyFits, InStep
<1>2. Inv /\ [DeviceNext]_vars => Inv'
  BY DeviceTypeStep, OneWriterStep, ReadyStep, InStepStep
<1> QED BY <1>1, <1>2, PTL DEF DeviceSpec

\* Between commands the device waits at an empty prompt: no answer to one
\* command is still to come when the next is typed.
THEOREM IdleAtPrompt ==
  ASSUME Regex \subseteq {Prompt}, PausesAreShort = TRUE
  PROVE  DeviceSpec => []IdleShellIsAtPrompt
<1>1. InStep => IdleShellIsAtPrompt
  BY DEF InStep, Quiet, Owes, IdleShellIsAtPrompt
<1> QED BY <1>1, DeviceInStepInvariance, PTL

\* A command completes on the prompt that ended it, not on one left over from
\* the command before it.
THEOREM OneResponse ==
  ASSUME Regex \subseteq {Prompt}, PausesAreShort = TRUE
  PROVE  DeviceSpec => OneCommandOneResponse
<1> DEFINE Inv == IInv /\ DeviceTypeOK /\ OneWriter /\ ReadyFits /\ InStep
<1>1. ASSUME Inv, [DeviceNext]_vars
      PROVE  [\A c \in Commands :
                calls[c] = "running" /\ calls'[c] \in {"ok", "limit"} => lineBy = c]_vars
  <2>1. SUFFICES ASSUME NEW c \in Commands, calls[c] = "running", calls'[c] \in {"ok", "limit"}
                 PROVE  lineBy = c
    OBVIOUS
  <2>2. /\ waiter.mode = "command" /\ waiter.call = c /\ IsPrompt(line, "command")
        /\ calls[Ready] = "ok" /\ ~deadNotified
    BY <1>1, <2>1, CompletesSettled
  <2>3. identity = Prompt /\ DeviceServes(c)
    BY <1>1, <2>2 DEF ReadyFits, InStep
  <2>4. line = Prompt
    BY <2>2, <2>3, PromptIsIdentity
  <2> QED BY <2>3, <2>4 DEF DeviceServes
<1>2. Inv /\ [DeviceNext]_vars
        => [\A c \in Commands :
              calls[c] = "running" /\ calls'[c] \in {"ok", "limit"} => lineBy = c]_vars
  BY <1>1
<1> QED BY <1>2, DeviceInStepInvariance, PTL DEF DeviceSpec, OneCommandOneResponse
=============================================================================
