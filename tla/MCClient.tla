------------------------------ MODULE MCClient ------------------------------
(* Instances of Client for TLC.                                            *)
EXTENDS Client, TLC

\* Calls of one kind are interchangeable: sound for safety only.
Symmetry == Permutations(Execs) \cup Permutations(Connects) \cup Permutations(Disconnects)

\* An error that says nothing: where the codes are not the question.
PlainErrors == {[level |-> "none", saysTimedOut |-> FALSE, saysAuth |-> FALSE]}

\* States are told apart by what an action may still read or change.  Of an
\* attempt that is torn down: the events that may still come.  Of a call
\* that was answered, or a disconnect() that has returned: nothing.
Left(r) ==
  IF r.tornDown THEN <<IF r.end = "waiting" THEN r.wire ELSE "-", r.end, r.channel, r.ready>>
                ELSE <<r>>

LiveState ==
  <<nextId, [a \in Attempts |-> Left(attempt[a])], inflight, active,
    [e \in Execs |-> IF exec[e].pc = "done" THEN <<>>
                     ELSE <<exec[e], call[e], e \in aborted>>],
    [c \in Connects |-> IF connect[c].result \in Outcomes THEN <<>>
                        ELSE <<connect[c], call[c], c \in aborted>>],
    [d \in Disconnects |-> IF disc[d] = "done" THEN <<>>
                           ELSE <<disc[d], awaits[d], barrier[d]>>],
    accepting, epoch, queue, resyncing,
    {a \in unclean : ~attempt[a].tornDown}>>
=============================================================================
