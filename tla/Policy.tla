------------------------------- MODULE Policy -------------------------------
(***************************************************************************)
(* The two evaluators of packages/policy/src/policy.ts: the preflight that *)
(* the runtime calls through createPolicyPreflightEngine and the complete  *)
(* evaluatePolicy.  A call is evaluated, an approver may add an approval,  *)
(* a kill switch may fall, time passes, and the call is evaluated again.   *)
(* The comparisons of names, digests and scopes are facts of the call.     *)
(***************************************************************************)
EXTENDS Naturals

CONSTANTS
  PolR5MaxAge,   \* r5ApprovalMaxAgeMs
  PolExpiresAt,  \* age at which an approval expires
  PolLastAge     \* bound: the oldest approval

\* The runtime stores no approval that is expired when it is given (runtime.ts, the check of
\* approval.expiresAt against now).
ASSUME PolAssumption ==
  {PolR5MaxAge, PolExpiresAt, PolLastAge} \subseteq Nat /\ PolExpiresAt > 0

\* The checks of the preflight in their order; a call names the first that fails.
PolChecks == {"killed", "purpose", "data_class", "risk", "schema", "capability", "scope",
              "calls", "cost", "network"}

PolGrants == {"absent", "inactive", "binding_mismatch", "other", "matching"}

\* single_factor, multi_factor, phishing_resistant, user_presence
PolStrengths == 0..3

VARIABLES
  polCall,      \* the call: what it is and what its first failing check is
  polApproval,  \* whether it was given, its strength and what it is bound to
  polAge,       \* how long ago the approval was given
  polDecision,  \* answer of the last evaluation, or "none"
  polPreflight  \* answer of the runtime's engine to the same call

polVars == <<polCall, polApproval, polAge, polDecision, polPreflight>>

PolCalls ==
  [fails : PolChecks \cup {"nothing"}, grant : PolGrants, risk : 0..5, enableR5 : BOOLEAN,
   preview : BOOLEAN, write : BOOLEAN, compensatable : BOOLEAN]

PolInit ==
  /\ polCall \in PolCalls
  /\ polApproval = [given |-> FALSE, strength |-> 0, bound |-> FALSE] /\ polAge = 0
  /\ polDecision = "none" /\ polPreflight = "none"

MutPolPreflight(call) ==  \* mutant: irreversible R4 calls only
  IF call.fails # "nothing" THEN "deny"
  ELSE IF call.risk = 5 THEN "require_approval" ELSE "allow_with_grant"

\* createPolicyPreflightEngine over evaluatePolicyPreflight
PolPreflight(call) ==
  IF call.fails # "nothing" THEN "deny"
  ELSE IF call.risk \in {4, 5} THEN "require_approval" ELSE "allow_with_grant"

\* approvalMatches: bound to this call and not expired
PolApprovalMatches(a, age) == a.bound /\ age < PolExpiresAt

PolStrong(call, a, age) ==
  IF call.risk = 4 THEN a.strength >= 2 ELSE a.strength = 3 /\ age <= PolR5MaxAge

\* What evaluatePolicy denies whatever approval there is.
PolDenied(call) ==
  \/ call.fails # "nothing" \/ call.grant # "matching"
  \/ call.risk >= 3 /\ (~call.preview \/ ~call.write)
  \/ call.risk = 3 /\ ~call.compensatable
  \/ call.risk = 5 /\ ~call.enableR5

\* evaluatePolicy
PolDecision(call, a, age) ==
  IF PolDenied(call) THEN "deny"
  ELSE IF call.risk <= 3 THEN "allow"
  ELSE IF ~a.given THEN "require_approval"
  ELSE IF PolApprovalMatches(a, age) /\ PolStrong(call, a, age) THEN "allow" ELSE "deny"

PolEvaluate ==
  /\ polDecision' = PolDecision(polCall, polApproval, polAge)
  /\ polPreflight' = PolPreflight(polCall)
  /\ UNCHANGED <<polCall, polApproval, polAge>>

\* An approver answers a call the runtime's engine asked an approval for, with whatever they
\* signed: the runtime asks through the preflight, whatever the complete evaluator says.
PolApprove ==
  /\ polPreflight = "require_approval" /\ ~polApproval.given
  /\ polApproval' \in [given : {TRUE}, strength : PolStrengths, bound : BOOLEAN]
  /\ polDecision' = "none" /\ polPreflight' = "none"
  /\ UNCHANGED <<polCall, polAge>>

PolTick ==
  /\ polApproval.given /\ polAge < PolLastAge
  /\ polAge' = polAge + 1
  /\ polDecision' = "none" /\ polPreflight' = "none"
  /\ UNCHANGED <<polCall, polApproval>>

\* The registration is killed between two evaluations.
PolKill ==
  /\ polCall.fails = "nothing"
  /\ polCall' = [polCall EXCEPT !.fails = "killed"]
  /\ polDecision' = "none" /\ polPreflight' = "none"
  /\ UNCHANGED <<polApproval, polAge>>

PolNext == PolEvaluate \/ PolApprove \/ PolTick \/ PolKill

PolSpec == PolInit /\ [][PolNext]_polVars

\* The complete evaluator and the runtime's engine agree: what the first allows without an
\* approval the second does not ask one for, what the first asks for the second asks for
\* too, and what the second denies the first denies (policy.ts evaluatePolicy,
\* createPolicyPreflightEngine).
EvaluatorsAgree ==
  /\ polDecision = "allow" /\ ~polApproval.given => polPreflight = "allow_with_grant"
  /\ polDecision = "require_approval" => polPreflight = "require_approval"
  /\ polPreflight = "deny" => polDecision = "deny"

\* Which calls the runtime asks an approval for in vain: the preflight (policy.ts 249-343)
\* reads neither the grant nor the preview, the write strategy or enableR5, so it asks for
\* calls that evaluatePolicy denies under every approval (policy.ts 379-404).  For the calls
\* the preflight asks about, the strongest approval, bound and fresh, is enough exactly when
\* those four are in order.
ApprovalSuffices ==
  polPreflight = "require_approval" =>
    (PolDecision(polCall, [given |-> TRUE, strength |-> 3, bound |-> TRUE], 0) = "allow" <=>
       /\ polCall.grant = "matching" /\ polCall.preview /\ polCall.write
       /\ polCall.risk = 5 => polCall.enableR5)

\* What the complete evaluator would deny now it denies after every later step: neither an
\* approval, nor its ageing, nor a kill makes a denied call good (policy.ts evaluatePolicy).
DeniedForGood ==
  PolDecision(polCall, polApproval, polAge) = "deny" =>
    PolDecision(polCall, polApproval, polAge)' = "deny"

\* The runtime's engine is never stricter than the complete evaluator and never waves through
\* what that one asks an approval for; an approval it asks for is in vain for exactly the
\* calls whose grant, preview, write strategy or R5 switch is missing; and a denial stands
\* (policy.ts evaluatePolicyPreflight, evaluatePolicy).
PolicySound == [][(EvaluatorsAgree /\ ApprovalSuffices)' /\ DeniedForGood]_polVars
=============================================================================
