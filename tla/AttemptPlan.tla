---------------------------- MODULE AttemptPlan ----------------------------
(***************************************************************************)
(* attempt-plan.ts: the pure decision the session takes for one SSH        *)
(* attempt.  A snapshot says what the session knows of the attempt when a  *)
(* transport event arrives; decideAttempt maps the pair to an effect, and  *)
(* SshSession performs it.  There is one operator per type of event.       *)
(* Messages are left out: nothing is decided on them.                      *)
(***************************************************************************)
EXTENDS Naturals

ErrorCodes ==
  {"connect", "auth", "timeout", "closed", "invalid", "hostkey", "limit"}

Snapshots ==
  [tornDown : BOOLEAN, isInflight : BOOLEAN, inflightSettled : BOOLEAN, isActive : BOOLEAN]

\* An effect.  `code' and `closeStream' are read for "fail" alone; the other
\* effects carry the neutral values.
EffectTypes ==
  {"ignore", "openShell", "attachShell", "closeOwnStream", "fail", "teardown"}

Effects ==
  [type : EffectTypes, code : ErrorCodes \cup {"none"}, closeStream : BOOLEAN]

Effect(type) == [type |-> type, code |-> "none", closeStream |-> FALSE]

Fail(code, closeStream) == [type |-> "fail", code |-> code, closeStream |-> closeStream]

-----------------------------------------------------------------------------
(* Which attempts an event may still act on.                               *)

\* Ready and shell events belong only to the unsettled in-flight attempt.
IsStaleConnect(s) == s.tornDown \/ ~s.isInflight \/ s.inflightSettled

\* A transport that is lost: it fails the connect under way, or ends the
\* session that is open, or concerns nobody any more.
SettleLive(s, code) ==
  IF s.tornDown
    THEN Effect("ignore")
    ELSE IF s.isInflight /\ ~s.inflightSettled
           THEN Fail(code, FALSE)
           ELSE Effect(IF s.isActive THEN "teardown" ELSE "ignore")

-----------------------------------------------------------------------------
(* decideAttempt, one operator per event.  `expired' is remainingMs = 0.   *)

\* Seeded fault: the timeout carries no code.
OnReady_NoCode(s, expired) ==
  IF IsStaleConnect(s) THEN Effect("ignore")
  ELSE IF expired THEN Effect("fail") ELSE Effect("openShell")

OnReady(s, expired) ==
  IF IsStaleConnect(s) THEN Effect("ignore")
  ELSE IF expired      THEN Fail("timeout", FALSE)
                       ELSE Effect("openShell")

\* Seeded fault: a stream that comes too late is dropped without closing it.
OnShell_DropsLateStream(s, hasStream, failed, expired) ==
  IF IsStaleConnect(s) THEN Effect("ignore")
  ELSE IF failed THEN Fail("connect", hasStream)
  ELSE IF expired THEN Fail("timeout", TRUE) ELSE Effect("attachShell")

OnShell(s, hasStream, failed, expired) ==
  IF IsStaleConnect(s) THEN Effect(IF hasStream THEN "closeOwnStream" ELSE "ignore")
  ELSE IF failed       THEN Fail("connect", hasStream)
  ELSE IF expired      THEN Fail("timeout", TRUE)
                       ELSE Effect("attachShell")

OnGone(s) == SettleLive(s, "connect")

OnClientError(s, code) == SettleLive(s, code)

OnReadyResult(s, code) ==
  IF IsStaleConnect(s) THEN Effect("ignore") ELSE Fail(code, FALSE)

OnShellDead(s) ==
  Effect(IF s.tornDown \/ ~s.isActive THEN "ignore" ELSE "teardown")

-----------------------------------------------------------------------------
(* classifyConnectError.  An error is abstracted to the `level' ssh2 puts  *)
(* on it ("none" when it has none) and to what the two regular expressions *)
(* find in its message: both may match, and then the first test wins.      *)

ErrorLevels ==
  {"client-authentication", "agent", "client-timeout", "client-socket",
   "handshake", "protocol", "none"}

SshErrors == [level : ErrorLevels, saysTimedOut : BOOLEAN, saysAuth : BOOLEAN]

\* Seeded fault: the verdict of the host verifier is not looked at.
ClassifyConnectError_NoHostKey(err, hostKeyRejected) ==
  IF err.level \in {"client-authentication", "agent"} THEN "auth" ELSE "connect"

ClassifyConnectError(err, hostKeyRejected) ==
  IF hostKeyRejected THEN "hostkey"
  ELSE IF err.level \in {"client-authentication", "agent"} THEN "auth"
  ELSE IF err.level = "client-timeout" THEN "timeout"
  ELSE IF err.level # "none" THEN "connect"
  ELSE IF err.saysTimedOut THEN "timeout"
  ELSE IF err.saysAuth THEN "auth"
  ELSE "connect"
=============================================================================
