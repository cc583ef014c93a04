-------------------------- MODULE ExecutorGateway --------------------------
(***************************************************************************)
(* The executor-sh adapter: an executor is created over an MCP connection  *)
(* from a deployment profile, a conformance receipt and reviewed tool pins,*)
(* and then serves calls, each a single call of the connection's execute   *)
(* tool that races the caller's signal and a timeout.  A digest stands for *)
(* the material it is computed from.                                       *)
(***************************************************************************)
EXTENDS Naturals, FiniteSets

CONSTANTS
  ExeReceipts,     \* records [id, platform, intact, observed, expires]
  ExeProfiles,     \* records [receipt, platform, origin, of, binding, intact]
  ExePins,         \* records [id, address, server, binding, risk, intact]
  ExeConnections,  \* records [server, artifact, exposes]
  ExeCalls,
  ExeMaxAge,       \* EXECUTOR_SELF_HOST_MAX_RECEIPT_AGE_MS
  ExeMaxAttempts,  \* bound: the attempts the caller gives a call
  ExeLastTime      \* bound of the clock

\* A receipt's id is computed from the receipt.
ASSUME ExeAssumption ==
  /\ ExeMaxAge \in Nat /\ ExeMaxAttempts \in Nat /\ ExeLastTime \in Nat
  /\ \A a, b \in ExeReceipts : a.id = b.id => a = b

VARIABLES
  exeTime,
  exeConnection,
  exeExecutor,  \* what the executor was created from, none before that
  exeCall       \* by call: [phase, pin, aborted, timed, answer, outcome, sent]

exeVars == <<exeTime, exeConnection, exeExecutor, exeCall>>

ExeNone == [made |-> FALSE]

ExeInit ==
  /\ exeTime = 0
  /\ exeConnection \in ExeConnections
  /\ exeExecutor = ExeNone
  /\ exeCall = [c \in ExeCalls |->
       [phase |-> "idle", pin |-> {}, aborted |-> FALSE, timed |-> FALSE,
        answer |-> "none", outcome |-> "none", sent |-> 0]]

\* ------------------------------------------------------------------ creation

ExeReceiptValid(receipt) ==
  /\ receipt.intact
  /\ receipt.expires > receipt.observed /\ receipt.expires - receipt.observed =< ExeMaxAge
  /\ exeTime >= receipt.observed /\ exeTime < receipt.expires

ExeOriginNormal(profile) == profile.origin = "https"

ExeDeployed(profile, receipt) ==
  /\ profile.intact /\ ExeOriginNormal(profile) /\ profile.binding = profile.of
  /\ ExeReceiptValid(receipt)
  /\ profile.receipt = receipt.id /\ profile.platform = receipt.platform

\* Only read tools of risk R0 and R1 can be pinned.
ExePinValid(pin) == pin.intact /\ pin.risk \in {"R0", "R1"}

ExePinBelongs(pin, profile) ==
  pin.server = exeConnection.server /\ pin.binding = profile.binding

ExeUnambiguous(pins) ==
  \A a, b \in pins : a # b => a.id # b.id /\ a.address # b.address

ExeBinds(pins, profile, receipt) ==
  /\ exeConnection.exposes = "execute" /\ exeConnection.artifact = receipt.platform
  /\ pins # {} /\ ExeUnambiguous(pins)
  /\ \A pin \in pins : ExePinValid(pin) /\ ExePinBelongs(pin, profile)

\* A creation that fails leaves nothing behind.
ExeCreate(profile, receipt, pins) ==
  /\ ~exeExecutor.made
  /\ ExeDeployed(profile, receipt) /\ ExeBinds(pins, profile, receipt)
  /\ exeExecutor' = [made |-> TRUE, profile |-> profile, receipt |-> receipt,
                     pins |-> pins, at |-> exeTime]
  /\ UNCHANGED <<exeTime, exeConnection, exeCall>>

\* ------------------------------------------------------------------ calls

ExeSettle(c, outcome) ==
  exeCall' = [exeCall EXCEPT ![c].phase = "settled", ![c].outcome = outcome]

ExeEntryAborted(c) == exeCall[c].aborted

\* execute, up to the call of the connection: the registration has to be the one of a bound pin.
ExeBegin(c, pin) ==
  /\ exeExecutor.made /\ exeCall[c].phase = "idle" /\ exeCall[c].sent < ExeMaxAttempts
  /\ \/ ExeEntryAborted(c) /\ ExeSettle(c, "aborted")
     \/ /\ ~ExeEntryAborted(c) /\ pin \in exeExecutor.pins
        /\ exeCall' = [exeCall EXCEPT ![c].phase = "sent", ![c].pin = {pin}, ![c].timed = FALSE,
                                      ![c].answer = "none", ![c].sent = @ + 1]
     \/ ~ExeEntryAborted(c) /\ ExeSettle(c, "refused")
  /\ UNCHANGED <<exeTime, exeConnection, exeExecutor>>

MutExeFailure(call) ==  \* mutant: the timeout is looked at first
  IF call.timed THEN "timeout" ELSE IF call.aborted THEN "aborted" ELSE "failed"

\* connectionFailure.
ExeFailure(call) ==
  IF call.aborted THEN "aborted" ELSE IF call.timed THEN "timeout" ELSE "failed"

\* classifyError.
ExeRetryable == {"timeout", "failed"}

\* The caller's signal; a call that is under way is rejected at once.
ExeAbort(c) ==
  /\ ~exeCall[c].aborted
  /\ LET call == [exeCall[c] EXCEPT !.aborted = TRUE] IN
       exeCall' = [exeCall EXCEPT ![c] =
         IF call.phase = "sent"
         THEN [call EXCEPT !.phase = "settled", !.outcome = ExeFailure(call)] ELSE call]
  /\ UNCHANGED <<exeTime, exeConnection, exeExecutor>>

\* The timeout signal; its timer runs on after the call was answered.
ExeTimeout(c) ==
  /\ exeCall[c].phase \in {"sent", "answered"} /\ ~exeCall[c].timed
  /\ LET call == [exeCall[c] EXCEPT !.timed = TRUE] IN
       exeCall' = [exeCall EXCEPT ![c] =
         IF call.phase = "sent"
         THEN [call EXCEPT !.phase = "settled", !.outcome = ExeFailure(call)] ELSE call]
  /\ UNCHANGED <<exeTime, exeConnection, exeExecutor>>

\* The connection answers; a call that was rejected meanwhile ignores it.
ExeAnswer(c, answer) ==
  /\ exeCall[c].phase = "sent"
  /\ exeCall' = [exeCall EXCEPT ![c].phase = "answered", ![c].answer = answer]
  /\ UNCHANGED <<exeTime, exeConnection, exeExecutor>>

\* The continuation of the answered call.
ExeContinue(c) ==
  /\ exeCall[c].phase = "answered"
  /\ ExeSettle(c, CASE exeCall[c].answer = "completed" -> "result"
                    [] exeCall[c].answer = "unusable" -> "refused"
                    [] exeCall[c].answer = "failed" -> ExeFailure(exeCall[c]))
  /\ UNCHANGED <<exeTime, exeConnection, exeExecutor>>

\* The caller tries a retryable call again.
ExeRetry(c) ==
  /\ exeCall[c].phase = "settled" /\ exeCall[c].outcome \in ExeRetryable
  /\ exeCall[c].sent < ExeMaxAttempts
  /\ exeCall' = [exeCall EXCEPT ![c].phase = "idle", ![c].outcome = "none"]
  /\ UNCHANGED <<exeTime, exeConnection, exeExecutor>>

ExeTick ==
  /\ exeTime < ExeLastTime /\ exeTime' = exeTime + 1
  /\ UNCHANGED <<exeConnection, exeExecutor, exeCall>>

ExeNext ==
  \/ ExeTick
  \/ \E profile \in ExeProfiles, receipt \in ExeReceipts, pins \in SUBSET ExePins :
       ExeCreate(profile, receipt, pins)
  \/ \E c \in ExeCalls :
       \/ \E pin \in ExePins : ExeBegin(c, pin)
       \/ ExeAbort(c) \/ ExeTimeout(c) \/ ExeContinue(c) \/ ExeRetry(c)
       \/ \E answer \in {"completed", "unusable", "failed"} : ExeAnswer(c, answer)

ExeSpec == ExeInit /\ [][ExeNext]_exeVars

\* ------------------------------------------------------------------ properties

\* A call reaches only the tool that was reviewed: its pin names the tenant connection the
\* profile was made for, the profile the receipt it was admitted with, and the receipt tested
\* the image that answers (verifyExecutorDeployment and bindTools together).
ExeReachesReviewed ==
  \A c \in ExeCalls : \A pin \in exeCall[c].pin :
    /\ exeExecutor.made
    /\ pin.binding = exeExecutor.profile.of
    /\ \A receipt \in ExeReceipts : receipt.id = exeExecutor.profile.receipt =>
         receipt = exeExecutor.receipt /\ receipt.platform = exeConnection.artifact
    /\ Cardinality({p \in exeExecutor.pins : p.address = pin.address}) = 1

\* Once the caller aborted nothing more is sent for its call, also not by a retry that was
\* already on its way (the check of request.signal when execute starts).
ExeQuietAfterAbort ==
  \A c \in ExeCalls : exeCall[c].aborted => exeCall'[c].sent = exeCall[c].sent

\* A failure is offered for a retry only if the caller had not aborted when it was
\* classified, whichever of abort, timeout and answer came first (connectionFailure).
ExeAbortWins ==
  \A c \in ExeCalls :
    exeCall'[c].outcome \in ExeRetryable /\ exeCall[c].outcome \notin ExeRetryable
      => ~exeCall'[c].aborted

\* A call reaches the reviewed tool or nothing, and an abort is final: nothing is sent and no
\* retry is offered after it (createExecutorToolExecutor).
ExecutorSafe == [][ExeQuietAfterAbort /\ ExeAbortWins /\ ExeReachesReviewed']_exeVars
=============================================================================
