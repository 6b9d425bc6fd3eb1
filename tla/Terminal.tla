------------------------------ MODULE Terminal ------------------------------
(***************************************************************************)
(* output-accumulator.ts: what the accumulator and cleanOutput share, the  *)
(* ANSI machine and writing on a display line.  A text is a sequence of    *)
(* characters, of which there is one for each kind that is told apart.     *)
(***************************************************************************)
EXTENDS Naturals, Sequences, SequencesExt

Intermediates == {" "}                     \* 0x20-0x2f
Columns4And5 == {"[", "]", "\\"}           \* 0x40-0x5f
Finals == Columns4And5 \cup {"a", "b"}     \* 0x40-0x7e
LineEnds == {"CR", "LF"}

-----------------------------------------------------------------------------
(* stripAnsiChunk: one character in state s.ansi; some are read again.     *)

AsText(s, ch) ==
  IF ch = "ESC" THEN [s EXCEPT !.ansi = "esc"]
  ELSE [ansi |-> "text", out |-> Append(s.out, ch)]

StripChar(s, ch) ==
  CASE s.ansi = "text" -> AsText(s, ch)
    [] s.ansi = "esc" ->
         IF ch = "[" THEN [s EXCEPT !.ansi = "csi"]
         ELSE IF ch = "]" THEN [s EXCEPT !.ansi = "osc"]
         ELSE IF ch \in Intermediates THEN [s EXCEPT !.ansi = "esc-int"]
         ELSE IF ch \in Columns4And5 THEN [s EXCEPT !.ansi = "text"]
         ELSE AsText(s, ch)
    [] s.ansi = "esc-int" ->
         IF ch \in Intermediates THEN s
         ELSE IF ch \in Finals THEN [s EXCEPT !.ansi = "text"]
         ELSE AsText(s, ch)
    [] s.ansi = "csi" -> IF ch \in Finals THEN [s EXCEPT !.ansi = "text"] ELSE s
    [] s.ansi = "osc" ->
         IF ch = "BEL" THEN [s EXCEPT !.ansi = "text"]
         ELSE IF ch = "ESC" THEN [s EXCEPT !.ansi = "osc-esc"] ELSE s
    [] s.ansi = "osc-esc" -> [s EXCEPT !.ansi = IF ch = "\\" THEN "text" ELSE "osc"]

\* Seeded fault: each chunk is stripped by itself.
StripAnsiChunk_NoCarry(text, ansi) ==
  FoldLeft(StripChar, [ansi |-> "text", out |-> <<>>], text)

StripAnsiChunk(text, ansi) == FoldLeft(StripChar, [ansi |-> ansi, out |-> <<>>], text)

StripAnsi(text) == StripAnsiChunk(text, "text").out

-----------------------------------------------------------------------------
(* A line and its cursor: [line, col].                                     *)

Repeat(ch, n) == [i \in 1 .. n |-> ch]

\* Seeded fault: writing over a line cuts off what was right of it.
WriteDisplay_CutsOff(d, ch) ==
  [d EXCEPT !.line = Append(SubSeq(@, 1, d.col), ch), !.col = @ + 1]

WriteDisplay(d, ch) ==
  [d EXCEPT !.line = IF d.col < Len(@) THEN [@ EXCEPT ![d.col + 1] = ch] ELSE Append(@, ch),
            !.col = @ + 1]
=============================================================================
