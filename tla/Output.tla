------------------------------- MODULE Output -------------------------------
(***************************************************************************)
(* output-accumulator.ts: OutputAccumulator, fed with chunks of bytes.     *)
(* "lead" and "cont" are the bytes of the two-byte character "wide", and  *)
(* "bad" is U+FFFD; any other byte is a character.  Node's StringDecoder   *)
(* is external.  maxPromptLength, byteLength and lineEpoch are the matter  *)
(* of module ShellIo.                                                      *)
(***************************************************************************)
EXTENDS Terminal

-----------------------------------------------------------------------------
(* StringDecoder('utf8'): a lead byte waits for what follows it.           *)

DecodeByte(d, byte) ==
  LET broken == IF d.partial THEN <<"bad">> ELSE <<>>
  IN IF byte = "lead" THEN [partial |-> TRUE, text |-> d.text \o broken]
     ELSE IF byte = "cont"
       THEN [partial |-> FALSE, text |-> Append(d.text, IF d.partial THEN "wide" ELSE "bad")]
     ELSE [partial |-> FALSE, text |-> (d.text \o broken) \o <<byte>>]

Decode(partial, chunk) == FoldLeft(DecodeByte, [partial |-> partial, text |-> <<>>], chunk)

DecoderEnd(partial) == IF partial THEN <<"bad">> ELSE <<>>

-----------------------------------------------------------------------------
(* The display line.                                                       *)

NewLine(a) == [a EXCEPT !.parts = Append(@, "LF"), !.line = <<>>, !.col = 0, !.crs = 0]

\* CRs that no newline followed move to the start of the line.
PendingCrs(a) ==
  IF a.crs = 0 THEN a
  ELSE [a EXCEPT !.parts = @ \o Repeat("CR", a.crs), !.col = 0, !.crs = 0]

\* Seeded fault: a CR is taken for an overwrite at once.
AppendChar_CrAtOnce(a, ch) ==
  IF ch = "CR" THEN [a EXCEPT !.parts = Append(@, "CR"), !.col = 0]
  ELSE IF ch = "LF" THEN NewLine(a)
  ELSE LET d == WriteDisplay([line |-> a.line, col |-> a.col], ch)
       IN [a EXCEPT !.parts = Append(@, ch), !.line = d.line, !.col = d.col]

AppendChar(a, ch) ==
  IF ch = "CR" THEN [a EXCEPT !.crs = @ + 1]
  ELSE IF ch = "LF" THEN NewLine(a)
  ELSE LET at == PendingCrs(a)
           d  == WriteDisplay([line |-> at.line, col |-> at.col], ch)
       IN [at EXCEPT !.parts = Append(@, ch), !.line = d.line, !.col = d.col]

AppendNormalized(a, text) == FoldLeft(AppendChar, a, text)

Ingest(a, text) ==
  LET s == StripAnsiChunk(text, a.ansi)
  IN AppendNormalized([a EXCEPT !.ansi = s.ansi], s.out)

-----------------------------------------------------------------------------
(* The accumulator.  clear() makes it Fresh; drop() meets it only then.    *)

Fresh == [parts |-> <<>>, line |-> <<>>, col |-> 0, crs |-> 0, partial |-> FALSE,
          ansi |-> "text"]

Pushed(a, chunk) ==
  LET d == Decode(a.partial, chunk)
  IN Ingest([a EXCEPT !.partial = d.partial], d.text)

\* snapshot() is read just before clear().
Snapshot(a) ==
  LET all == Ingest(a, DecoderEnd(a.partial))
  IN all.parts \o Repeat("CR", all.crs)
=============================================================================
