------------------------------ MODULE Response ------------------------------
(***************************************************************************)
(* From the bytes a device prints after a command to the command's stdout: *)
(* the accumulator takes them chunk by chunk, and cleanOutput its snapshot *)
(* once the prompt is on the display line.  The device is external: it may *)
(* echo the command, with or without the prompt before it, and wrap the    *)
(* echo; its output may hold escape sequences, CRs and markers, paged or   *)
(* part of the text; the prompt comes on a line of its own.                *)
(***************************************************************************)
EXTENDS Output, CleanOutput

CONSTANTS
  Command,
  Previous,     \* lastPrompt
  Current,      \* the prompt the command completes on
  Bytes,        \* of the output
  MaxChunk,     \* bound: bytes of output in a chunk
  MaxWraps,     \* bound: wraps of the echo
  MaxOutput,    \* bound: bytes and markers of output after an echo
  MaxSilent     \* the same, without an echo

\* One byte of each kind that the decoder, the escape filter, the display and
\* the echo tell apart.
Kinds == {"a", "b", "0", " ", "[", "]", "\\", "ESC", "BEL", "CR", "LF", "lead", "cont"}

\* A prompt was read from the display; a command has no control characters.
Letters == Kinds \ {"ESC", "CR", "LF", "lead", "cont"}

\* The prompt that a command completes on is not empty; validateCommand trims
\* the command, and wants one.
ASSUME ResponseAssumption ==
  /\ Bytes \subseteq Kinds
  /\ {Command, Previous, Current} \subseteq Seq(Letters)
  /\ Current # <<>>
  /\ Command # <<>> /\ Command[Len(Command)] # " "
  /\ {MaxChunk, MaxWraps, MaxOutput, MaxSilent} \subseteq Nat

VARIABLES
  phase,        \* "echo", "output", "done"
  echo,         \* what is still to be echoed
  acc,          \* the accumulator
  handled,      \* pager.handled
  input,        \* history: the bytes received since clear()
  shown,        \* history: those that are the output proper
  silent,       \* history: the device does not echo
  wraps,        \* history: the wraps made, "space" if a space was put before one
  pieces,       \* history: bytes and markers of output
  ordinary      \* history: a marker was part of the output

responseVars ==
  <<phase, echo, acc, handled, input, shown, silent, wraps, pieces, ordinary>>

ResponseInit ==
  /\ silent \in BOOLEAN
  /\ IF silent
       THEN phase = "output" /\ echo = <<>>
       ELSE phase = "echo" /\ echo \in {p \o Command : p \in {<<>>, Previous, Trim(Previous)}}
  /\ acc = Fresh
  /\ handled = 0
  /\ input = <<>>
  /\ shown = <<>>
  /\ wraps = <<>>
  /\ pieces = 0
  /\ ordinary = FALSE

Push(chunk) ==
  /\ acc' = Pushed(acc, chunk)
  /\ input' = input \o chunk

-----------------------------------------------------------------------------
(* The echo.                                                               *)

EchoChar ==
  /\ phase = "echo"
  /\ echo # <<>>
  /\ Push(<<Head(echo)>>)
  /\ echo' = Tail(echo)
  /\ UNCHANGED <<phase, handled, shown, silent, wraps, pieces, ordinary>>

\* The terminal's line is full.
Wrap(inserted) ==
  /\ phase = "echo"
  /\ echo # <<>>
  /\ input # <<>>
  /\ Len(wraps) < MaxWraps
  /\ Push(inserted)
  /\ wraps' = Append(wraps, IF Head(inserted) = " " /\ Head(echo) = " " THEN "space" ELSE "plain")
  /\ UNCHANGED <<phase, echo, handled, shown, silent, pieces, ordinary>>

EchoEnds ==
  /\ phase = "echo"
  /\ echo = <<>>
  /\ phase' = "output"
  /\ Push(<<"CR", "LF">>)
  /\ UNCHANGED <<echo, handled, shown, silent, wraps, pieces, ordinary>>

-----------------------------------------------------------------------------
(* The output and the prompt.                                              *)

Puts(size, received, output) ==
  /\ phase = "output"
  /\ pieces + size <= IF silent THEN MaxSilent ELSE MaxOutput
  /\ pieces' = pieces + size
  /\ Push(received)
  /\ shown' = shown \o output
  /\ UNCHANGED <<phase, echo, silent, wraps>>

PutChunk(chunk) ==
  /\ chunk # <<>>
  /\ Puts(Len(chunk), chunk, chunk)
  /\ UNCHANGED <<handled, ordinary>>

AtLineStart == acc.ansi = "text" /\ LastLine(input) = <<>>

\* A marker that ends its line in the chunk it comes with.
PutOrdinaryMarker ==
  /\ AtLineStart
  /\ Puts(1, <<"more", "LF">>, <<"more", "LF">>)
  /\ ordinary' = TRUE
  /\ UNCHANGED handled

\* A marker at which the device waits for a key; then it goes on below or
\* wipes the line.
PutPagedMarker ==
  /\ AtLineStart
  /\ \E after \in {<<"LF">>, <<"CR", " ", "CR">>} : Puts(1, <<"more">> \o after, after)
  /\ handled' = handled + 1
  /\ UNCHANGED ordinary

\* An escape sequence that is left open would take part of the prompt.
PutPrompt ==
  /\ phase # "done"
  /\ echo = <<>>
  /\ acc.ansi = "text"
  /\ phase' = "done"
  /\ \E before \in {<<"CR", "LF">>, <<"LF", "CR">>} : Push(before \o Current)
  /\ UNCHANGED <<echo, handled, shown, silent, wraps, pieces, ordinary>>

ResponseNext ==
  \/ EchoChar
  \/ \E inserted \in {<<"LF">>, <<" ", "LF">>, <<" ", "CR">>} : Wrap(inserted)
  \/ EchoEnds
  \/ \E chunk \in SeqOf(Bytes, MaxChunk) : PutChunk(chunk)
  \/ PutOrdinaryMarker
  \/ PutPagedMarker
  \/ PutPrompt

ResponseSpec == ResponseInit /\ [][ResponseNext]_responseVars

-----------------------------------------------------------------------------
(* The response, and what it should be.                                    *)

\* onSettled, when the display line is the prompt.
Completes == phase = "done" /\ acc.line = Current

Stdout == Clean(Snapshot(acc), Command, Current, Previous, handled)

\* A text received in one piece, and what is left of it on a screen, by the
\* accumulator's own rules (see Displays for one that does not use them).
Whole(bytes) == Snapshot(Pushed(Fresh, bytes))
Screen(bytes) == ApplyCarriageReturns(Whole(bytes))

\* The pieces of a line between its CRs.
Strokes(l) ==
  LET ends == {i \in DOMAIN l : l[i] = "CR"} \cup {Len(l) + 1}
      start(e) == CHOOSE s \in {0} \cup ends :
                    s < e /\ \A t \in {0} \cup ends : t < e => t <= s
  IN {[at |-> e, text |-> SubSeq(l, start(e) + 1, e - 1)] : e \in ends}

\* What a terminal shows of line l, independently of the accumulator: in each
\* column the latest character written there.
Displays(l, visible) ==
  LET strokes == Strokes(l)
      over(n) == {s \in strokes : Len(s.text) >= n}
  IN /\ over(Len(visible) + 1) = {}
     /\ \A n \in DOMAIN visible :
          \E s \in over(n) : s.text[n] = visible[n] /\ \A t \in over(n) : t.at <= s.at

\* The texts that wrap to `text': line ends removed, and any of the spaces
\* before them.
Unwrapped(text) ==
  LET upTo[k \in 0 .. Len(text)] ==
        IF k = 0 THEN {<<>>}
        ELSE LET kept == {Append(t, text[k]) : t \in upTo[k - 1]}
             IN IF text[k] \in LineEnds THEN upTo[k - 1]
                ELSE IF text[k] = " " /\ CharAt(text, k + 1) \in LineEnds
                  THEN kept \cup upTo[k - 1]
                ELSE kept
  IN upTo[Len(text)]

\* A text without its blanks: what no wrap changes.
InkChar(t, ch) == IF ch \in LineEnds \cup {" "} THEN t ELSE Append(t, ch)
Ink(text) == FoldLeft(InkChar, <<>>, text)

\* What may be typed before the command as far as cleanOutput knows.
MayPrecede == {<<>>, Previous, Current, Trim(Previous), Trim(Current)}

\* No echo begins like another one and then goes on.  With one that does,
\* cleanOutput may take the first line of the output with the echo: a device
\* that echoes `a' alone and prints `a', after the prompt `a'.
Unambiguous ==
  \A p, q \in MayPrecede : ~IsStrictPrefix(Ink(p \o Command), Ink(q \o Command))

\* The text begins with a line that, unwrapped, is the command, with or
\* without a prompt before it.
BeginsWithEcho(text) ==
  \E n \in DOMAIN text :
    /\ CharAt(text, n + 1) \in LineEnds \cup {"none"}
    /\ \E p \in MayPrecede : p \o Command \in Unwrapped(SubSeq(text, 1, n))

-----------------------------------------------------------------------------
(* Properties.                                                             *)

\* However the bytes are cut into chunks, the accumulator comes to the same
\* text, line and carry.
ChunksDoNotMatter == acc = Pushed(Fresh, input)

\* currentLine() is what a terminal would show on the last line of
\* snapshot(): so a prompt recognised on it is also found by
\* stripFinalPrompt in the output.
LineIsDisplayed == ~acc.partial => Displays(LastLine(Snapshot(acc)), acc.line)

\* No escape sequence is left, and no CR before an LF: a text that has been
\* through once is not changed by the second pass of cleanOutput.
SnapshotIsClean ==
  LET text == Snapshot(acc)
  IN \A i \in DOMAIN text :
       text[i] # "ESC" /\ (text[i] = "CR" /\ i < Len(text) => text[i + 1] # "LF")

\* stdout is the output as the screen shows it: the echo, wrapped or not,
\* is gone, and so are the markers that were paged and the prompt, and
\* nothing else.  Two cases, stated here, are left out: a space inserted
\* before a space, and ordinary markers together with paged ones; a third one,
\* of the constants, is an echo that is not Unambiguous.
StdoutIsTheOutput ==
  Completes /\ ~silent /\ ~Contains(wraps, "space") /\ (handled = 0 \/ ~ordinary)
    => Stdout = Screen(shown)

\* When the device does not echo, output is lost only if its first line is
\* the command.
OnlyTheEchoIsLost ==
  Completes /\ silent /\ (handled = 0 \/ ~ordinary) /\ Stdout # Screen(shown)
    => BeginsWithEcho(Whole(shown))
=============================================================================
