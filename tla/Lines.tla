------------------------------- MODULE Lines -------------------------------
(***************************************************************************)
(* pager.ts and prompt.ts: what the shell recognises on a line.  A line is *)
(* a sequence of the pieces that make a difference:                        *)
(*   "text"  anything                                                      *)
(*   "hash"  text whose last character is one of > # $ %                   *)
(*   "more"  the marker `--- MORE ---'                                     *)
(*   "key"   the first half of its key hint, `['q': Quit,'                 *)
(*   "end"   the second half, ` ...] ---'                                  *)
(***************************************************************************)
EXTENDS Naturals, Sequences, SequencesExt

Pieces == {"text", "hash", "more", "key", "end"}

\* null, for a line that is not there
NoLine == <<"null">>

Markers == {<<"more">>, <<"more", "key", "end">>}

\* The unterminated line is a pager prompt; a hint cut short is not.
MarkerOnTail(line) == \E m \in Markers : IsSuffix(m, line)

\* Ready only: any line that ends like a prompt.
LooksLikeReadyPrompt(line) == line # <<>> /\ Last(line) = "hash"

\* `regex' is the set of lines that promptRegex matches as a whole, or {}
\* when the caller gave none.
IsPromptLine(line, identity, regex) ==
  IF regex # {} THEN line \in regex ELSE line = identity

\* The last max pieces of a line.
LastPieces(line, max) ==
  IF Len(line) <= max THEN line ELSE SubSeq(line, Len(line) - max + 1, Len(line))
=============================================================================
