----------------------------- MODULE MCShellIo -----------------------------
(* An instance of ShellIo for TLC.                                         *)
EXTENDS ShellRefinement

Chunk(newLine, text) == [newLine |-> newLine, text |-> text]

\* A prompt or a marker, on a line of its own or behind what is already
\* there, and a new line with something else.
ShellChunks ==
  {Chunk(TRUE, <<"hash">>), Chunk(FALSE, <<"hash">>), Chunk(TRUE, <<"text">>),
   Chunk(TRUE, <<"more">>), Chunk(FALSE, <<"more">>)}

\* The prompt, and the line that is still empty.
HashRegex == {<<"hash">>, <<>>}
=============================================================================
