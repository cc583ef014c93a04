----------------------------- MODULE RunReducer -----------------------------
(***************************************************************************)
(* The run automaton and the event reducer of packages/core: run.ts (the   *)
(* statuses, RUN_TRANSITIONS, RunProjection) and events.ts (which event    *)
(* types keep the status, which move it, what an event writes into the     *)
(* projection).  Constant-level operators only: the modules that own state *)
(* call Reducible and Reduce exactly where the code calls reduceRunEvent.  *)
(*                                                                         *)
(* Abstracted data: digests, timestamps, step ids and the artifact and     *)
(* verification id lists are left out; nothing in the reducer branches on  *)
(* them.  A projection keeps one run's fields, so the binding check on run *)
(* id, tenant and definition digest is the identity of the stream.         *)
(***************************************************************************)
EXTENDS Naturals

CONSTANTS
  Ids,        \* identifiers of input requests, decisions and effects
  Verifiers,  \* verifier identifiers a work order may require
  None        \* the null of a nullable field

TerminalStatuses == {"completed", "failed", "cancelled"}

Statuses ==
  {"created", "accepted", "planning", "running", "waiting_for_input",
   "waiting_for_approval", "suspended", "verifying"} \cup TerminalStatuses

ASSUME NoneIsNoId == None \notin Ids \cup Verifiers \cup Statuses

ResumeTargets == {"planning", "running", "verifying"}

Kinds == {"agent", "compensation"}

RUN_TRANSITIONS(status) ==
  CASE status = "created"   -> {"accepted", "failed"}
    [] status = "accepted"  -> {"planning", "running", "waiting_for_approval",
                                "failed", "cancelled"}
    [] status = "planning"  -> {"running", "waiting_for_input", "waiting_for_approval",
                                "suspended", "failed", "cancelled"}
    [] status = "running"   -> {"planning", "waiting_for_input", "waiting_for_approval",
                                "verifying", "suspended", "failed", "cancelled"}
    [] status = "waiting_for_input"    -> {"planning", "failed", "cancelled"}
    [] status = "waiting_for_approval" -> {"running", "planning", "failed", "cancelled"}
    [] status = "suspended" -> {"planning", "running", "verifying", "failed", "cancelled"}
    [] status = "verifying" -> {"completed", "planning", "waiting_for_input",
                                "waiting_for_approval", "suspended", "failed", "cancelled"}
    [] OTHER -> {}

STATE_PRESERVING_EVENTS(status) ==
  CASE status = "planning"  -> {"ModelCallStarted", "ModelCallCompleted",
                                "RetryScheduled", "RetryResumed"}
    [] status = "running"   -> {"ToolCallRequested", "ToolCallCompleted",
                                "RetryScheduled", "RetryResumed", "EffectPrepared",
                                "EffectDispatched", "EffectAcknowledged", "EffectUncertain",
                                "ArtifactProduced", "CompensationRequested",
                                "EffectCompensated"}
    [] status = "suspended" -> {"EffectNeedsReconciliation", "EffectReconciliationRecorded",
                                "EffectAcknowledged"}
    [] status = "verifying" -> {"VerificationRecorded", "VerificationExceptionRecorded"}
    [] OTHER -> {}

EventTypes ==
  {"RunAccepted", "PlanningStarted", "ModelCallStarted", "ModelCallCompleted",
   "ExecutionStarted", "ToolCallRequested", "ToolCallCompleted", "RetryScheduled",
   "RetryResumed", "InputRequested", "InputSubmitted", "ApprovalRequested",
   "ApprovalRecorded", "ApprovalRejected", "EffectPrepared", "EffectDispatched",
   "EffectAcknowledged", "EffectUncertain", "EffectNeedsReconciliation",
   "EffectReconciliationRecorded", "EffectAbandoned", "CompensationRequested",
   "EffectCompensated", "ArtifactProduced", "VerificationStarted", "VerificationRecorded",
   "VerificationExceptionRecorded", "RunSuspended", "RunCompleted", "RunFailed",
   "RunCancelled"}

(***************************************************************************)
(* An event: its type and the payload fields the reducer reads.  "target"  *)
(* is ApprovalRecorded's and RunSuspended's resumeTarget, ApprovalRejected's *)
(* nextStatus and VerificationRecorded's status.                           *)
(***************************************************************************)
Ev(type) ==
  [type |-> type, id |-> None, target |-> None, verifier |-> None, required |-> {}]

EvId(type, id) == [Ev(type) EXCEPT !.id = id]

\* mutant: the suspension forgets the effect
MutEvSuspended(target, id) == [Ev("RunSuspended") EXCEPT !.target = target]

EvSuspended(target, id) ==
  [type |-> "RunSuspended", id |-> id, target |-> target, verifier |-> None, required |-> {}]

EvVerified(verifier, status) ==
  [type |-> "VerificationRecorded", id |-> None, target |-> status, verifier |-> verifier,
   required |-> {}]

EventRecords ==
  [type : EventTypes,
   id : Ids \cup {None},
   target : ResumeTargets \cup {"failed", "cancelled", "pass", "fail", None},
   verifier : Verifiers \cup {None},
   required : SUBSET Verifiers]

\* RunEventSchema: the payload each event type carries, and nothing else.
Events ==
  {e \in EventRecords :
    /\ e.type \in {"InputRequested", "ApprovalRequested", "EffectPrepared"} => e.id # None
    /\ e.id # None => e.type \in {"InputRequested", "ApprovalRequested", "EffectPrepared",
                                  "RunSuspended"}
    /\ e.target \in (CASE e.type = "ApprovalRecorded"     -> {"planning", "running"}
                       [] e.type = "ApprovalRejected"     -> {"planning", "failed", "cancelled"}
                       [] e.type = "RunSuspended"         -> ResumeTargets
                       [] e.type = "VerificationRecorded" -> {"pass", "fail"}
                       [] OTHER                           -> {None})
    /\ e.verifier # None <=>
         e.type \in {"VerificationRecorded", "VerificationExceptionRecorded"}
    /\ e.required # {} => e.type = "RunAccepted"}

Projections ==
  [kind : Kinds, status : Statuses, lastSequence : Nat,
   resumeTarget : ResumeTargets \cup {None},
   waitingRequestId : Ids \cup {None}, waitingDecisionId : Ids \cup {None},
   activeEffectId : Ids \cup {None},
   required : SUBSET Verifiers, passed : SUBSET Verifiers,
   exceptions : SUBSET Verifiers, terminalError : BOOLEAN]

createRunProjection(kind) ==
  [kind |-> kind, status |-> "created", lastSequence |-> 0, resumeTarget |-> None,
   waitingRequestId |-> None, waitingDecisionId |-> None, activeEffectId |-> None,
   required |-> {}, passed |-> {}, exceptions |-> {}, terminalError |-> FALSE]

\* The status an event moves the run to; None for an event that keeps it.
nextStatusFor(e) ==
  CASE e.type = "RunAccepted"         -> "accepted"
    [] e.type = "PlanningStarted"     -> "planning"
    [] e.type = "ExecutionStarted"    -> "running"
    [] e.type = "InputRequested"      -> "waiting_for_input"
    [] e.type = "InputSubmitted"      -> "planning"
    [] e.type = "ApprovalRequested"   -> "waiting_for_approval"
    [] e.type = "ApprovalRecorded"    -> e.target
    [] e.type = "ApprovalRejected"    -> e.target
    [] e.type = "VerificationStarted" -> "verifying"
    [] e.type = "RunSuspended"        -> "suspended"
    [] e.type = "RunCompleted"        -> "completed"
    [] e.type = "RunFailed"           -> "failed"
    [] e.type = "RunCancelled"        -> "cancelled"
    [] OTHER                          -> None

\* A compensation run has no model and no input; only it requests compensation.
assertKindAllowed(p, e) ==
  /\ p.kind = "compensation" =>
       /\ e.type \notin {"PlanningStarted", "ModelCallStarted", "ModelCallCompleted",
                         "InputRequested", "InputSubmitted"}
       /\ nextStatusFor(e) # "planning"
  /\ e.type = "CompensationRequested" => p.kind = "compensation"

MutSatisfied(p) == TRUE  \* mutant: completion without the verifier check

\* Every required verifier passed or holds an exception.
Satisfied(p) == p.required \subseteq p.passed \cup p.exceptions

\* reduceRunEvent does not throw on event e, stamped with the given sequence.
Reducible(p, e, sequence) ==
  /\ p.status \notin TerminalStatuses
  /\ sequence = p.lastSequence + 1
  /\ assertKindAllowed(p, e)
  /\ IF nextStatusFor(e) = None
     THEN e.type \in STATE_PRESERVING_EVENTS(p.status)
     ELSE nextStatusFor(e) \in RUN_TRANSITIONS(p.status)
  /\ e.type = "RunCompleted" => Satisfied(p)

\* passedVerifierIds after the event.
Passed(p, e) ==
  IF e.type = "VerificationRecorded" /\ e.target = "pass"
  THEN p.passed \cup {e.verifier} ELSE p.passed

\* The projection reduceRunEvent returns for a reducible event.
Reduce(p, e) ==
  [kind |-> p.kind,
   status |-> IF nextStatusFor(e) = None THEN p.status ELSE nextStatusFor(e),
   lastSequence |-> p.lastSequence + 1,
   required |-> IF e.type = "RunAccepted" THEN e.required ELSE p.required,
   waitingRequestId |->
     CASE e.type = "InputRequested" -> e.id
       [] e.type = "InputSubmitted" -> None
       [] OTHER -> p.waitingRequestId,
   waitingDecisionId |->
     CASE e.type = "ApprovalRequested" -> e.id
       [] e.type \in {"ApprovalRecorded", "ApprovalRejected"} -> None
       [] OTHER -> p.waitingDecisionId,
   resumeTarget |->
     CASE e.type = "RunSuspended" -> e.target
       [] e.type \in {"PlanningStarted", "ExecutionStarted", "VerificationStarted"} -> None
       [] OTHER -> p.resumeTarget,
   activeEffectId |->
     CASE e.type \in {"RunSuspended", "EffectPrepared"} -> e.id
       [] e.type \in {"EffectAcknowledged", "EffectAbandoned"} -> None
       [] OTHER -> p.activeEffectId,
   passed |-> Passed(p, e),
   exceptions |-> IF e.type = "VerificationExceptionRecorded"
                  THEN p.exceptions \cup {e.verifier} ELSE p.exceptions,
   terminalError |-> IF e.type = "RunFailed" THEN TRUE ELSE p.terminalError]
=============================================================================
