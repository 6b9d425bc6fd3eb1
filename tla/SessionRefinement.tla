------------------------- MODULE SessionRefinement -------------------------
(***************************************************************************)
(* SshSession implements the shared connection of module Connection.       *)
(***************************************************************************)
EXTENDS Session

connectionState ==
  IF active # NoAttempt THEN "open"
  ELSE IF inflight # NoAttempt THEN "connecting"
  ELSE "closed"

Abstract ==
  INSTANCE Connection WITH state <- connectionState, answer <- call, Failures <- ErrorCodes

\* Every step of the session is a step of the shared connection or none:
\* callers that wait together are answered together and alike, nobody is
\* answered `ok' unless the connection opens, and nothing a stale attempt
\* does is visible.
ImplementsConnection == Abstract!ConnectionSpec
=============================================================================
