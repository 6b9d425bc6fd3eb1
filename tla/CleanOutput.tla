---------------------------- MODULE CleanOutput ----------------------------
(***************************************************************************)
(* output-accumulator.ts: cleanOutput, which turns the text received       *)
(* during a command into its stdout; pager.ts: removeHandledMarkers.  A    *)
(* pager marker is one character, "more", as wide as any other.            *)
(***************************************************************************)
EXTENDS Terminal, FiniteSets

-----------------------------------------------------------------------------
(* Carriage returns.                                                       *)

\* CRs wait in t.crs for what follows them.
CollapseChar(t, ch) ==
  IF ch = "CR" THEN [t EXCEPT !.crs = @ + 1]
  ELSE IF ch = "LF" THEN [out |-> Append(t.out, "LF"), crs |-> 0]
  ELSE [out |-> t.out \o Append(Repeat("CR", t.crs), ch), crs |-> 0]

CollapseCrLf(text) ==
  LET t == FoldLeft(CollapseChar, [out |-> <<>>, crs |-> 0], text)
  IN t.out \o Repeat("CR", t.crs)

ApplyCrChar(d, ch) == IF ch = "CR" THEN [d EXCEPT !.col = 0] ELSE WriteDisplay(d, ch)

ApplyCrLine(line) == FoldLeft(ApplyCrChar, [line |-> <<>>, col |-> 0], line).line

\* The text up to its last LF, or nothing, and what follows it.
LastLF(text) == SelectLastInSeq(text, LAMBDA ch : ch = "LF")
UpToLastLine(text) == SubSeq(text, 1, LastLF(text) - 1)
LastLine(text) == SubSeq(text, LastLF(text) + 1, Len(text))

\* applyCrLine on each line.
ApplyCarriageReturns(text) ==
  LET char(t, ch) ==
        IF ch = "LF" THEN [done |-> Append(t.done \o ApplyCrLine(t.line), ch), line |-> <<>>]
        ELSE [t EXCEPT !.line = Append(@, ch)]
      all == FoldLeft(char, [done |-> <<>>, line |-> <<>>], text)
  IN all.done \o ApplyCrLine(all.line)

-----------------------------------------------------------------------------
(* The prompt and the echo.                                                *)

\* Seeded fault: the last line is compared as received.
StripFinalPrompt_Raw(text, promptLine) ==
  IF promptLine # <<>> /\ LastLine(text) = promptLine THEN UpToLastLine(text) ELSE text

StripFinalPrompt(text, promptLine) ==
  IF promptLine # <<>> /\ ApplyCrLine(LastLine(text)) = promptLine
    THEN UpToLastLine(text) ELSE text

Trim(text) ==
  LET kept == {i \in DOMAIN text : text[i] # " "}
  IN IF kept = {} THEN <<>> ELSE SubSeq(text, Min(kept), Max(kept))

\* What is tried before the command, in this order: the prompts that there
\* are, and at last nothing.
EchoPrefixes(previousPrompt, promptLine) ==
  <<previousPrompt, promptLine, Trim(previousPrompt), Trim(promptLine), <<>> >>

CharAt(text, i) == IF i \in DOMAIN text THEN text[i] ELSE "none"

\* Where the wrapped text that equals `expected' ends, 0 if there is none.
\* Wraps are skipped: a line end, and a space before one unless a space is
\* what is expected.
WrappedEnd(text, expected) ==
  LET from[i \in 1 .. Len(text) + 1] ==
        [j \in 1 .. Len(expected) + 1 |->
           IF j > Len(expected) THEN i - 1
           ELSE IF CharAt(text, i) = expected[j] THEN from[i + 1][j + 1]
           ELSE IF \/ CharAt(text, i) = " " /\ CharAt(text, i + 1) \in LineEnds
                   \/ CharAt(text, i) \in LineEnds
             THEN from[i + 1][j]
           ELSE 0]
  IN from[1][1]

\* Seeded fault: the match need not end the line.
MatchWrapped_Prefix(text, expected) == WrappedEnd(text, expected)

\* How much of the text is the echo and its line end; 0 for no match.
MatchWrapped(text, expected) ==
  LET end == WrappedEnd(text, expected)
      cr  == IF CharAt(text, end + 1) = "CR" THEN end + 1 ELSE end
  IN IF end = 0 \/ CharAt(text, end + 1) \notin LineEnds \cup {"none"} THEN 0
     ELSE IF CharAt(text, cr + 1) = "LF" THEN cr + 1 ELSE cr

StripEcho(text, command, previousPrompt, promptLine) ==
  LET prefixes == EchoPrefixes(previousPrompt, promptLine)
      matches == {i \in DOMAIN prefixes :
                    /\ prefixes[i] # <<>> \/ i = Len(prefixes)
                    /\ MatchWrapped(text, prefixes[i] \o command) > 0}
  IN IF command = <<>> \/ matches = {} THEN text
     ELSE SubSeq(text, MatchWrapped(text, prefixes[Min(matches)] \o command) + 1, Len(text))

-----------------------------------------------------------------------------
(* The pager's markers, and the whole.                                     *)

\* The first `handled' of them go.
RemoveHandledMarkers(text, handled) ==
  LET char(t, ch) ==
        IF ch = "more" /\ t.left > 0 THEN [t EXCEPT !.left = @ - 1]
        ELSE [t EXCEPT !.out = Append(@, ch)]
  IN FoldLeft(char, [out |-> <<>>, left |-> handled], text).out

Clean(raw, command, promptLine, previousPrompt, handled) ==
  LET text == StripFinalPrompt(CollapseCrLf(StripAnsi(raw)), promptLine)
      rest == StripEcho(text, command, previousPrompt, promptLine)
  IN RemoveHandledMarkers(ApplyCarriageReturns(rest), handled)
=============================================================================
