-------------------------- MODULE AgentLoopProofs ---------------------------
(***************************************************************************)
(* The agent loop, for every budget, retry policy, set of verifiers and    *)
(* number of faults, and every configuration of checkpoints, reservations  *)
(* and production services: no run exceeds its budgets, and an             *)
(* interruption at any point neither repeats a call nor frees one that was *)
(* sent, leaves no reservation behind the next call and a checkpoint the   *)
(* next execution accepts.                                                 *)
(*                                                                         *)
(* Each action is first summarised by what it does to the execution and to *)
(* the store (Does...); the invariants are proved from the summaries.      *)
(*   Shape     types, and which keys and checkpoints go with which place   *)
(*   Sends     what was sent is reserved, was sent once and is charged     *)
(*   Rest, Sides   the checkpoint, the suffix and the status fit together, *)
(*             and the execution stands where the status allows            *)
(*   Budget    the model calls sent are at most what the execution, the    *)
(*             stored checkpoint and the attempt number count              *)
(*   OpenBase, OpenNow   an open reservation is the one the stored         *)
(*             checkpoint leads back to and the execution stands at        *)
(***************************************************************************)
EXTENDS AgentLoop, FiniteSetTheorems, SequenceTheorems, TLAPS

-----------------------------------------------------------------------------
(* The state of the loop *)

\* Where an execution stands.
LoopPcs ==
  {"top", "enter", "resume", "model", "emit", "policy", "request", "finalize", "call", "send",
   "await", "dispatch", "record", "doubt", "settle", "after", "retry", "fail"}

\* Inside the boundary of a call, and wherever the key of the boundary counts.
Inside == {"call", "dispatch", "send", "await", "record", "doubt", "settle"}
Keyed == Inside \cup {"enter", "after", "retry"}

LoopOutcomes == EmissionKinds \cup Classifications \cup {"ok", "pass", "fail", "throw", None}

Executions ==
  [pc : LoopPcs, turns : Nat, models : Nat, tools : Nat, ck : Checkpoints,
   next : EmissionKinds \cup {None}, key : BoundaryKeys \cup {None}, held : BOOLEAN,
   outcome : LoopOutcomes, inflight : BOOLEAN]

\* The types of the loop's state; the counters stay within the budget.
StoreTypes ==
  /\ setup \in Setups /\ run \in Projections
  /\ count \in [turns : 0..MaxTurns, models : Nat, tools : 0..MaxToolCalls]
  /\ snapshot \in Checkpoints \cup {None}
  /\ suffix \in Seq(EventTypes)
  /\ slots \in [BoundaryKeys -> ActiveStates \cup {NoReservation}]
  /\ calls \in [Steps \X Attempts -> ModelStates \cup {NoReservation}]
  /\ approved \in BOOLEAN
  /\ sent \in [BoundaryKeys -> 0..2] /\ faults \in 0..MaxFaults

LoopTypes == StoreTypes /\ exec \in Executions \cup {None}

\* The kinds of keys with a step and an attempt.
AttemptKinds == {"model", "tool", "model_backoff", "tool_backoff"}

\* What a boundary key is made of.
LEMMA LoopKeys ==
  ASSUME NEW k \in BoundaryKeys
  PROVE  /\ k # None
         /\ k[1] \in AttemptKinds \cup {"verifier", "evidence"}
         /\ k[1] \in AttemptKinds =>
              k[2] \in Steps /\ k[3] \in Attempts /\ k = <<k[1], k[2], k[3]>>
         /\ k[1] = "verifier" => k[2] \in Verifiers
  BY NoneIsNoData DEF BoundaryKeys, AttemptKinds

\* The keys the loop makes.
LEMMA LoopKeyMade ==
  /\ \A b \in AttemptKinds, s \in Steps, a \in Attempts :
       /\ <<b, s, a>> \in BoundaryKeys /\ <<s, a>> \in Steps \X Attempts
       /\ <<b, s, a>>[1] = b /\ <<b, s, a>>[2] = s /\ <<b, s, a>>[3] = a
  /\ \A v \in Verifiers : <<"verifier", v>> \in BoundaryKeys
                          /\ <<"verifier", v>>[1] = "verifier" /\ <<"verifier", v>>[2] = v
  /\ <<"evidence">> \in BoundaryKeys /\ <<"evidence">>[1] = "evidence"
  BY DEF BoundaryKeys, AttemptKinds

\* The bounds are positive naturals.
LEMMA LoopBounds ==
  /\ MaxTurns \in Nat /\ MaxTurns > 0 /\ MaxModelCalls \in Nat /\ MaxModelCalls > 0
  /\ MaxToolCalls \in Nat /\ MaxToolCalls > 0 /\ MaximumAttempts \in Nat /\ MaxFaults \in Nat
  /\ LastAttempt \in Nat /\ LastAttempt >= MaximumAttempts
  /\ LastAttempt >= MaxModelCalls + 1
  BY BudgetAssumption DEF LastAttempt

\* What the status of the run was and becomes, by the type of the event appended.
StatusMove(type, from, to) ==
  /\ from \notin TerminalStatuses /\ to \notin {"created", "accepted"}
  /\ type \in {"PlanningStarted", "InputSubmitted"} => to = "planning"
  /\ type \in {"ModelCallStarted", "ModelCallCompleted"} => from = "planning" /\ to = "planning"
  /\ type \in {"RetryScheduled", "RetryResumed"} => to = from /\ from \in {"planning", "running"}
  /\ type \in {"ExecutionStarted", "ApprovalRecorded"} => to = "running"
  /\ type \in {"ToolCallRequested", "ToolCallCompleted", "ArtifactProduced"} =>
       from = "running" /\ to = "running"
  /\ type = "InputRequested" => to = "waiting_for_input"
  /\ type = "ApprovalRequested" => to = "waiting_for_approval"
  /\ type = "VerificationStarted" => to = "verifying"
  /\ type = "VerificationRecorded" => from = "verifying" /\ to = "verifying"
  /\ type = "RunSuspended" => to = "suspended"
  /\ type \in {"RunCompleted", "RunFailed", "RunCancelled"} => to \in TerminalStatuses

\* What an append of an event of this type with this checkpoint does to the store.
Appends(type, c) ==
  /\ run' \in Projections /\ run'.required = run.required
  /\ StatusMove(type, run.status, run'.status)
  /\ count' = [turns  |-> count.turns + (IF type = "PlanningStarted" THEN 1 ELSE 0),
               models |-> count.models + (IF type = "ModelCallStarted" THEN 1 ELSE 0),
               tools  |-> count.tools + (IF type = "ToolCallRequested" THEN 1 ELSE 0)]
  /\ c = None \/ ~setup.context => snapshot' = snapshot /\ suffix' = Append(suffix, type)
  /\ c # None /\ setup.context => snapshot' = c /\ suffix' = <<>>

\* The event types the loop appends.
LoopEventTypes ==
  {"PlanningStarted", "InputSubmitted", "ModelCallStarted", "ModelCallCompleted",
   "RetryScheduled", "RetryResumed", "ExecutionStarted", "ApprovalRecorded",
   "ToolCallRequested", "ToolCallCompleted", "ArtifactProduced", "InputRequested",
   "ApprovalRequested", "VerificationStarted", "VerificationRecorded", "RunSuspended",
   "RunCompleted", "RunFailed", "RunCancelled"}

\* An event of the loop carries what its type requires.
LoopEvent(e) ==
  /\ e.type \in LoopEventTypes /\ e.id \in Ids \cup {None}
  /\ e.type = "RunSuspended" => e.target \in ResumeTargets
  /\ e.type = "ApprovalRecorded" => e.target = "running"
  /\ e.type = "VerificationRecorded" => e.verifier \in Verifiers

\* None is no status.
LEMMA NoneNoStatus == None \notin Statuses
  BY NoneIsNoId

\* The status move of a reducible event of the loop.
LEMMA LoopStatus ==
  ASSUME NEW p \in Projections, NEW e, LoopEvent(e), NEW n, Reducible(p, e, n)
  PROVE  /\ StatusMove(e.type, p.status, Reduce(p, e).status)
         /\ Reduce(p, e).status \in Statuses
  <1> DEFINE q == Reduce(p, e).status
  <1>1. q = IF nextStatusFor(e) = None THEN p.status ELSE nextStatusFor(e)
    BY DEF Reduce
  <1>2. p.status \in Statuses
    BY DEF Projections
  <1>3. /\ nextStatusFor(e) = None => e.type \in STATE_PRESERVING_EVENTS(p.status)
        /\ nextStatusFor(e) # None => nextStatusFor(e) \in RUN_TRANSITIONS(p.status)
        /\ p.status \notin TerminalStatuses
    BY DEF Reducible
  <1>4. CASE e.type \in {"ModelCallStarted", "ModelCallCompleted", "RetryScheduled", "RetryResumed",
                         "ToolCallRequested", "ToolCallCompleted", "ArtifactProduced",
                         "VerificationRecorded"}
    <2>1. nextStatusFor(e) = None
      BY <1>4 DEF nextStatusFor
    <2>2. e.type \in STATE_PRESERVING_EVENTS(p.status) /\ q = p.status
      BY <1>1, <1>3, <2>1
    <2> HIDE DEF q
    <2> QED
      BY <1>2, <1>3, <1>4, <2>2 DEF STATE_PRESERVING_EVENTS, StatusMove, TerminalStatuses,
         Statuses, q
  <1>5. CASE e.type \in {"PlanningStarted", "InputSubmitted", "ExecutionStarted",
                         "ApprovalRecorded", "InputRequested", "ApprovalRequested",
                         "VerificationStarted", "RunSuspended", "RunCompleted", "RunFailed",
                         "RunCancelled"}
    <2>1. /\ nextStatusFor(e) \in {"planning", "running", "waiting_for_input",
                                   "waiting_for_approval", "verifying", "suspended"}
                                  \cup TerminalStatuses
          /\ StatusMove(e.type, p.status, nextStatusFor(e))
      BY <1>3, <1>5 DEF LoopEvent, nextStatusFor, StatusMove, TerminalStatuses
    <2>2. nextStatusFor(e) # None /\ nextStatusFor(e) \in Statuses
      BY <2>1, NoneNoStatus DEF Statuses
    <2> QED
      BY <1>1, <2>1, <2>2
  <1> QED
    BY <1>4, <1>5 DEF LoopEvent, LoopEventTypes

\* Reducing an event of the loop gives a projection with the same verifiers.
LEMMA LoopReduce ==
  ASSUME NEW p \in Projections, NEW e, LoopEvent(e), NEW n, Reducible(p, e, n)
  PROVE  Reduce(p, e) \in Projections /\ Reduce(p, e).required = p.required
  <1>1. Reduce(p, e).status \in Statuses
    BY LoopStatus
  <1>2. e.type # "RunAccepted" /\ e.type # "VerificationExceptionRecorded"
        /\ e.type \notin {"EffectPrepared", "ApprovalRejected", "EffectAcknowledged", "EffectAbandoned"}
    BY DEF LoopEvent, LoopEventTypes
  <1>3. Passed(p, e) \in SUBSET Verifiers
    BY DEF Passed, LoopEvent, Projections
  <1>4. /\ Reduce(p, e).kind \in Kinds /\ Reduce(p, e).lastSequence \in Nat
        /\ Reduce(p, e).required = p.required
        /\ Reduce(p, e).exceptions = p.exceptions /\ Reduce(p, e).passed = Passed(p, e)
    BY <1>2 DEF Reduce, Projections
  <1>9. Reduce(p, e).terminalError \in BOOLEAN
    <2>1. p.terminalError \in BOOLEAN
      BY DEF Projections
    <2>2. Reduce(p, e).terminalError = IF e.type = "RunFailed" THEN TRUE ELSE p.terminalError
      BY DEF Reduce
    <2> QED
      BY <2>1, <2>2
  <1>5. /\ Reduce(p, e).waitingRequestId \in Ids \cup {None}
        /\ Reduce(p, e).waitingDecisionId \in Ids \cup {None}
    BY <1>2 DEF Reduce, Projections, LoopEvent
  <1>6. /\ Reduce(p, e).resumeTarget \in ResumeTargets \cup {None}
        /\ Reduce(p, e).activeEffectId \in Ids \cup {None}
    BY <1>2 DEF Reduce, Projections, LoopEvent
  <1>7. p.required \in SUBSET Verifiers /\ p.exceptions \in SUBSET Verifiers
    BY DEF Projections
  <1>8. Reduce(p, e) = [kind |-> Reduce(p, e).kind, status |-> Reduce(p, e).status,
          lastSequence |-> Reduce(p, e).lastSequence, required |-> Reduce(p, e).required,
          waitingRequestId |-> Reduce(p, e).waitingRequestId,
          waitingDecisionId |-> Reduce(p, e).waitingDecisionId,
          resumeTarget |-> Reduce(p, e).resumeTarget, activeEffectId |-> Reduce(p, e).activeEffectId,
          passed |-> Reduce(p, e).passed, exceptions |-> Reduce(p, e).exceptions,
          terminalError |-> Reduce(p, e).terminalError]
    BY DEF Reduce
  <1> QED
    BY <1>1, <1>3, <1>4, <1>5, <1>6, <1>7, <1>8, <1>9 DEF Projections

\* An append of the loop, in those terms.
LEMMA LoopAppends ==
  ASSUME StoreTypes, NEW e, LoopEvent(e), NEW c, Append1(e, c)
  PROVE  Appends(e.type, c)
  <1>1. run \in Projections
    BY DEF StoreTypes
  <1>2. Reducible(run, e, run.lastSequence + 1) /\ run' = Reduce(run, e)
    BY DEF Append1
  <1>3. /\ run' \in Projections /\ run'.required = run.required
        /\ StatusMove(e.type, run.status, run'.status)
    BY <1>1, <1>2, LoopReduce, LoopStatus
  <1> QED
    BY <1>3 DEF Append1, Appends

\* The types whose events carry nothing.
PlainTypes == LoopEventTypes \ {"RunSuspended", "ApprovalRecorded", "VerificationRecorded"}

\* An event that only has a type.
LEMMA AppendPlain ==
  ASSUME StoreTypes, NEW t \in PlainTypes, NEW c, Append1(Ev(t), c)
  PROVE  Appends(t, c)
  <1>1. LoopEvent(Ev(t)) /\ Ev(t).type = t
    BY DEF LoopEvent, Ev, PlainTypes
  <1> QED
    BY <1>1, LoopAppends

\* An event with an id, such as a request for input or approval.
LEMMA AppendId ==
  ASSUME StoreTypes, NEW t \in PlainTypes, NEW c, Append1(EvId(t, CHOOSE i \in Ids : TRUE), c)
  PROVE  Appends(t, c)
  <1>1. (CHOOSE i \in Ids : TRUE) \in Ids
    BY NoneIsNoData
  <1>2. LoopEvent(EvId(t, CHOOSE i \in Ids : TRUE)) /\ EvId(t, CHOOSE i \in Ids : TRUE).type = t
    BY <1>1 DEF LoopEvent, EvId, Ev, PlainTypes
  <1> QED
    BY <1>2, LoopAppends

\* RunSuspended with its resume target.
LEMMA AppendSuspended ==
  ASSUME StoreTypes, NEW t \in ResumeTargets, NEW c, Append1(EvSuspended(t, None), c)
  PROVE  Appends("RunSuspended", c)
  <1>1. LoopEvent(EvSuspended(t, None)) /\ EvSuspended(t, None).type = "RunSuspended"
    BY DEF LoopEvent, EvSuspended, LoopEventTypes
  <1> QED
    BY <1>1, LoopAppends

\* VerificationRecorded with a verifier and its verdict.
LEMMA AppendVerified ==
  ASSUME StoreTypes, NEW v \in Verifiers, NEW o, NEW c, Append1(EvVerified(v, o), c)
  PROVE  Appends("VerificationRecorded", c)
  <1>1. LoopEvent(EvVerified(v, o)) /\ EvVerified(v, o).type = "VerificationRecorded"
    BY DEF LoopEvent, EvVerified, LoopEventTypes
  <1> QED
    BY <1>1, LoopAppends

\* ApprovalRecorded, which resumes the run.
LEMMA AppendApproved ==
  ASSUME StoreTypes, NEW c, Append1([Ev("ApprovalRecorded") EXCEPT !.target = "running"], c)
  PROVE  Appends("ApprovalRecorded", c)
  <1>1. LoopEvent([Ev("ApprovalRecorded") EXCEPT !.target = "running"])
        /\ [Ev("ApprovalRecorded") EXCEPT !.target = "running"].type = "ApprovalRecorded"
    BY DEF LoopEvent, Ev, LoopEventTypes
  <1> QED
    BY <1>1, LoopAppends

\* What the appends leave in the store.
LEMMA AppendTypes ==
  ASSUME StoreTypes, NEW t \in LoopEventTypes, NEW c \in Checkpoints \cup {None}, Appends(t, c)
  PROVE  /\ snapshot' \in Checkpoints \cup {None} /\ suffix' \in Seq(EventTypes)
         /\ count' \in [turns : Nat, models : Nat, tools : Nat]
         /\ count'.turns = count.turns + (IF t = "PlanningStarted" THEN 1 ELSE 0)
         /\ count'.models = count.models + (IF t = "ModelCallStarted" THEN 1 ELSE 0)
         /\ count'.tools = count.tools + (IF t = "ToolCallRequested" THEN 1 ELSE 0)
         /\ run' \in Projections
  <1>1. t \in EventTypes
    BY DEF LoopEventTypes, EventTypes
  <1>2. suffix' \in Seq(EventTypes)
    <2>1. suffix \in Seq(EventTypes)
      BY DEF StoreTypes
    <2>2. suffix' = Append(suffix, t) \/ suffix' = <<>>
      BY DEF Appends
    <2>3. Append(suffix, t) \in Seq(EventTypes) /\ <<>> \in Seq(EventTypes)
      BY <1>1, <2>1
    <2> QED
      BY <2>2, <2>3
  <1>3. count \in [turns : Nat, models : Nat, tools : Nat]
    BY LoopBounds DEF StoreTypes
  <1>4. /\ count' \in [turns : Nat, models : Nat, tools : Nat]
        /\ count'.turns = count.turns + (IF t = "PlanningStarted" THEN 1 ELSE 0)
        /\ count'.models = count.models + (IF t = "ModelCallStarted" THEN 1 ELSE 0)
        /\ count'.tools = count.tools + (IF t = "ToolCallRequested" THEN 1 ELSE 0)
    <2>1. PICK a, b, d \in Nat :
            /\ a = count.turns + (IF t = "PlanningStarted" THEN 1 ELSE 0)
            /\ b = count.models + (IF t = "ModelCallStarted" THEN 1 ELSE 0)
            /\ d = count.tools + (IF t = "ToolCallRequested" THEN 1 ELSE 0)
      BY <1>3
    <2>2. count' = [turns |-> a, models |-> b, tools |-> d]
      BY <2>1 DEF Appends
    <2> QED
      BY <2>1, <2>2
  <1>5. snapshot' \in Checkpoints \cup {None} /\ run' \in Projections
    BY DEF Appends, StoreTypes
  <1> QED
    BY <1>2, <1>4, <1>5

\* A checkpoint has the fields it is made with.
LEMMA CkptMade ==
  ASSUME NEW p \in CheckpointPhases \cup {None}, NEW a \in Nat, NEW e \in EmissionKinds \cup {None}
  PROVE  /\ Ckpt(p, a, e) \in Checkpoints
         /\ Ckpt(p, a, e).phase = p /\ Ckpt(p, a, e).attempt = a /\ Ckpt(p, a, e).emission = e
         /\ Ckpt(p, a, e).back = None /\ Ckpt(p, a, e).verified = {}
         /\ Ckpt(p, a, e) # None
  <1>1. Ckpt(p, a, e) \in Checkpoints
    BY DEF Ckpt, Checkpoints
  <1> QED
    BY <1>1, NoneIsNoData DEF Ckpt

\* The execution stands at the boundary of a call of one of these kinds.
Of(kinds) == exec.pc \in Keyed /\ exec.key[1] \in kinds

ModelPhases == {"model", "model_inflight"}

\* The execution holds a backoff before a call of this kind.
BackTo(kind) == exec.ck.phase = "scheduled_backoff" /\ exec.ck.back = kind

\* The execution is past its model call: the model calls it counts are within the budget
\* or in the stream.
ToolSide ==
  \/ exec.pc \in {"emit", "request", "policy"}
  \/ Of({"tool", "tool_backoff"})
  \/ /\ exec.pc \in {"top", "resume"}
     /\ exec.ck.phase \in {None, "turn", "emission", "tool_request", "tool"} \/ BackTo("tool")

\* The attempts of a checkpoint; a model call's may be beyond the last when the budget is used.
CkShape(c, limit) ==
  /\ c.phase = "scheduled_backoff" => c.back \in {"model", "tool"} /\ c.attempt \in Attempts
  /\ c.phase \in {None, "turn"} => c.attempt = 0
  /\ c.phase \in ModelPhases => c.attempt >= 1 /\ (c.attempt <= LastAttempt \/ c.attempt <= limit)
  /\ c.phase \notin ModelPhases => c.attempt <= LastAttempt

\* What an execution holds fits where it stands: the key of a boundary, its checkpoint, the
\* counters it recounted and what was checked before.
ExecShape ==
  exec # None =>
    /\ exec.turns = count.turns /\ exec.tools = count.tools
    /\ count.turns >= 1 \/ (exec.pc = "top" /\ exec.ck.phase \in {None, "turn"})
    /\ exec.pc \in Keyed => exec.key \in BoundaryKeys
    /\ exec.pc \in {"dispatch", "send", "record", "doubt"} => exec.key[1] = "model"
    /\ exec.pc \in {"dispatch", "record", "doubt"} => setup.production
    /\ exec.pc = "record" => exec.outcome \in EmissionKinds
    /\ exec.pc = "retry" => exec.key[1] \in {"model", "tool"}
    /\ exec.pc = "model" \/ Of({"model"}) => exec.ck.phase \in {None, "turn"} \cup ModelPhases
    /\ exec.pc = "resume" => exec.ck.phase = "scheduled_backoff"
    /\ CkShape(exec.ck, exec.models + 1)
    /\ exec.pc \notin {"top", "model"} => exec.ck.attempt <= LastAttempt
    /\ Of({"model"}) /\ exec.pc # "retry" => exec.models < MaxModelCalls
    /\ ToolSide => exec.models <= MaxModelCalls \/ exec.models <= count.models
    /\ Of({"model_backoff"}) => BackTo("model")
    /\ Of({"tool_backoff"}) => BackTo("tool")
    /\ exec.pc = "request" \/ (exec.pc \in {"top", "emit"} /\ exec.ck.phase = "tool_request")
         => count.tools < MaxToolCalls

\* The same of the stored checkpoint.
SnapShape ==
  snapshot # None =>
    /\ setup.context /\ count.turns >= 1 /\ snapshot.phase # None
    /\ CkShape(snapshot, count.models + 1)
    /\ snapshot.phase = "tool_request" => count.tools < MaxToolCalls

Shape == LoopTypes /\ ExecShape /\ SnapShape

-----------------------------------------------------------------------------
(* The steps of the loop, by what they do to the execution and to the store. *)

SameStream == run' = run /\ count' = count /\ snapshot' = snapshot /\ suffix' = suffix
SameRest == setup' = setup /\ approved' = approved /\ sent' = sent /\ faults' = faults
SameStore == SameStream /\ SameRest /\ slots' = slots /\ calls' = calls

\* The execution goes on with other values in these fields only.
Changes(fields) ==
  /\ exec \in Executions /\ exec # None /\ exec' \in Executions
  /\ "pc" \notin fields => exec'.pc = exec.pc
  /\ "turns" \notin fields => exec'.turns = exec.turns
  /\ "models" \notin fields => exec'.models = exec.models
  /\ "tools" \notin fields => exec'.tools = exec.tools
  /\ "ck" \notin fields => exec'.ck = exec.ck
  /\ "next" \notin fields => exec'.next = exec.next
  /\ "key" \notin fields => exec'.key = exec.key
  /\ "held" \notin fields => exec'.held = exec.held
  /\ "outcome" \notin fields => exec'.outcome = exec.outcome
  /\ "inflight" \notin fields => exec'.inflight = exec.inflight

\* An assignment to fields of the execution changes these fields only: one fact for each set
\* of fields the loop assigns.
LEMMA SetPc ==
  ASSUME exec \in Executions, exec # None, NEW p \in LoopPcs,
         exec' = [exec EXCEPT !.pc = p]
  PROVE  Changes({"pc"}) /\ exec'.pc = p
  <1>1. PICK x : x = [exec EXCEPT !.pc = p]
    OBVIOUS
  <1>2. exec' = x /\ x \in Executions
    BY <1>1 DEF Executions
  <1> QED
    BY <1>1, <1>2 DEF Changes, Executions

\* An execution that moves on and sets the boundary key.
LEMMA SetKey ==
  ASSUME exec \in Executions, exec # None, NEW p \in LoopPcs, NEW k \in BoundaryKeys,
         exec' = [exec EXCEPT !.pc = p, !.key = k]
  PROVE  Changes({"pc", "key"}) /\ exec'.pc = p /\ exec'.key = k
  <1>1. PICK x : x = [exec EXCEPT !.pc = p, !.key = k]
    OBVIOUS
  <1>2. exec' = x /\ x \in Executions
    BY <1>1 DEF Executions
  <1> QED
    BY <1>1, <1>2 DEF Changes, Executions

\* An execution that moves on and sets the checkpoint and the emission.
LEMMA SetCkNext ==
  ASSUME exec \in Executions, exec # None, NEW p \in LoopPcs, NEW c \in Checkpoints, NEW m \in EmissionKinds \cup {None},
         exec' = [exec EXCEPT !.pc = p, !.ck = c, !.next = m]
  PROVE  Changes({"pc", "ck", "next"}) /\ exec'.pc = p /\ exec'.ck = c /\ exec'.next = m
  <1>1. PICK x : x = [exec EXCEPT !.pc = p, !.ck = c, !.next = m]
    OBVIOUS
  <1>2. exec' = x /\ x \in Executions
    BY <1>1 DEF Executions
  <1> QED
    BY <1>1, <1>2 DEF Changes, Executions

\* An execution that moves on and sets the checkpoint.
LEMMA SetCk ==
  ASSUME exec \in Executions, exec # None, NEW p \in LoopPcs, NEW c \in Checkpoints,
         exec' = [exec EXCEPT !.pc = p, !.ck = c]
  PROVE  Changes({"pc", "ck"}) /\ exec'.pc = p /\ exec'.ck = c
  <1>1. PICK x : x = [exec EXCEPT !.pc = p, !.ck = c]
    OBVIOUS
  <1>2. exec' = x /\ x \in Executions
    BY <1>1 DEF Executions
  <1> QED
    BY <1>1, <1>2 DEF Changes, Executions

\* An execution that moves on and sets the turns.
LEMMA SetTurns ==
  ASSUME exec \in Executions, exec # None, NEW p \in LoopPcs, NEW n \in Nat,
         exec' = [exec EXCEPT !.pc = p, !.turns = n]
  PROVE  Changes({"pc", "turns"}) /\ exec'.pc = p /\ exec'.turns = n
  <1>1. PICK x : x = [exec EXCEPT !.pc = p, !.turns = n]
    OBVIOUS
  <1>2. exec' = x /\ x \in Executions
    BY <1>1 DEF Executions
  <1> QED
    BY <1>1, <1>2 DEF Changes, Executions

\* An execution that moves on and sets the tool calls.
LEMMA SetTools ==
  ASSUME exec \in Executions, exec # None, NEW p \in LoopPcs, NEW n \in Nat,
         exec' = [exec EXCEPT !.pc = p, !.tools = n]
  PROVE  Changes({"pc", "tools"}) /\ exec'.pc = p /\ exec'.tools = n
  <1>1. PICK x : x = [exec EXCEPT !.pc = p, !.tools = n]
    OBVIOUS
  <1>2. exec' = x /\ x \in Executions
    BY <1>1 DEF Executions
  <1> QED
    BY <1>1, <1>2 DEF Changes, Executions

\* An execution that moves on and sets the model calls.
LEMMA SetModels ==
  ASSUME exec \in Executions, exec # None, NEW p \in LoopPcs, NEW n \in Nat,
         exec' = [exec EXCEPT !.pc = p, !.models = n]
  PROVE  Changes({"pc", "models"}) /\ exec'.pc = p /\ exec'.models = n
  <1>1. PICK x : x = [exec EXCEPT !.pc = p, !.models = n]
    OBVIOUS
  <1>2. exec' = x /\ x \in Executions
    BY <1>1 DEF Executions
  <1> QED
    BY <1>1, <1>2 DEF Changes, Executions

\* An execution that moves on and sets whether the boundary is reserved.
LEMMA SetHeld ==
  ASSUME exec \in Executions, exec # None, NEW p \in LoopPcs, NEW b \in BOOLEAN,
         exec' = [exec EXCEPT !.pc = p, !.held = b]
  PROVE  Changes({"pc", "held"}) /\ exec'.pc = p /\ exec'.held = b
  <1>1. PICK x : x = [exec EXCEPT !.pc = p, !.held = b]
    OBVIOUS
  <1>2. exec' = x /\ x \in Executions
    BY <1>1 DEF Executions
  <1> QED
    BY <1>1, <1>2 DEF Changes, Executions

\* An execution that moves on and sets the outcome.
LEMMA SetOutcome ==
  ASSUME exec \in Executions, exec # None, NEW p \in LoopPcs, NEW o \in LoopOutcomes,
         exec' = [exec EXCEPT !.pc = p, !.outcome = o]
  PROVE  Changes({"pc", "outcome"}) /\ exec'.pc = p /\ exec'.outcome = o
  <1>1. PICK x : x = [exec EXCEPT !.pc = p, !.outcome = o]
    OBVIOUS
  <1>2. exec' = x /\ x \in Executions
    BY <1>1 DEF Executions
  <1> QED
    BY <1>1, <1>2 DEF Changes, Executions

\* An execution that moves on and sets the boundary key and the outcome.
LEMMA SetKeyOutcome ==
  ASSUME exec \in Executions, exec # None, NEW p \in LoopPcs, NEW k \in BoundaryKeys, NEW o \in LoopOutcomes,
         exec' = [exec EXCEPT !.pc = p, !.key = k, !.outcome = o]
  PROVE  Changes({"pc", "key", "outcome"}) /\ exec'.pc = p /\ exec'.key = k /\ exec'.outcome = o
  <1>1. PICK x : x = [exec EXCEPT !.pc = p, !.key = k, !.outcome = o]
    OBVIOUS
  <1>2. exec' = x /\ x \in Executions
    BY <1>1 DEF Executions
  <1> QED
    BY <1>1, <1>2 DEF Changes, Executions

\* An execution that moves on and sets the outcome and the model calls.
LEMMA SetOutcomeModels ==
  ASSUME exec \in Executions, exec # None, NEW p \in LoopPcs, NEW o \in LoopOutcomes, NEW n \in Nat,
         exec' = [exec EXCEPT !.pc = p, !.outcome = o, !.models = n]
  PROVE  Changes({"pc", "outcome", "models"}) /\ exec'.pc = p /\ exec'.outcome = o /\ exec'.models = n
  <1>1. PICK x : x = [exec EXCEPT !.pc = p, !.outcome = o, !.models = n]
    OBVIOUS
  <1>2. exec' = x /\ x \in Executions
    BY <1>1 DEF Executions
  <1> QED
    BY <1>1, <1>2 DEF Changes, Executions

\* An execution that moves on and sets the emission and the model calls.
LEMMA SetNextModels ==
  ASSUME exec \in Executions, exec # None, NEW p \in LoopPcs, NEW m \in EmissionKinds \cup {None}, NEW n \in Nat,
         exec' = [exec EXCEPT !.pc = p, !.next = m, !.models = n]
  PROVE  Changes({"pc", "next", "models"}) /\ exec'.pc = p /\ exec'.next = m /\ exec'.models = n
  <1>1. PICK x : x = [exec EXCEPT !.pc = p, !.next = m, !.models = n]
    OBVIOUS
  <1>2. exec' = x /\ x \in Executions
    BY <1>1 DEF Executions
  <1> QED
    BY <1>1, <1>2 DEF Changes, Executions

\* An execution that stays where it is and sets the checkpoint.
LEMMA SetCkOnly ==
  ASSUME exec \in Executions, exec # None, NEW c \in Checkpoints,
         exec' = [exec EXCEPT !.ck = c]
  PROVE  Changes({"ck"}) /\ exec'.ck = c
  <1>1. PICK x : x = [exec EXCEPT !.ck = c]
    OBVIOUS
  <1>2. exec' = x /\ x \in Executions
    BY <1>1 DEF Executions
  <1> QED
    BY <1>1, <1>2 DEF Changes, Executions

\* An execution that moves on and sets the boundary key and whether its call was announced.
LEMMA SetKeyInflight ==
  ASSUME exec \in Executions, exec # None, NEW p \in LoopPcs, NEW k \in BoundaryKeys, NEW b \in BOOLEAN,
         exec' = [exec EXCEPT !.pc = p, !.key = k, !.inflight = b]
  PROVE  Changes({"pc", "key", "inflight"}) /\ exec'.pc = p /\ exec'.key = k /\ exec'.inflight = b
  <1>1. PICK x : x = [exec EXCEPT !.pc = p, !.key = k, !.inflight = b]
    OBVIOUS
  <1>2. exec' = x /\ x \in Executions
    BY <1>1 DEF Executions
  <1> QED
    BY <1>1, <1>2 DEF Changes, Executions

\* An execution that moves on and sets the checkpoint, and that no call is announced.
LEMMA SetCkInflight ==
  ASSUME exec \in Executions, exec # None, NEW p \in LoopPcs, NEW c \in Checkpoints,
         exec' = [exec EXCEPT !.pc = p, !.ck = c, !.inflight = FALSE]
  PROVE  Changes({"pc", "ck", "inflight"}) /\ exec'.pc = p /\ exec'.ck = c /\ exec'.inflight = FALSE
  <1>1. PICK x : x = [exec EXCEPT !.pc = p, !.ck = c, !.inflight = FALSE]
    OBVIOUS
  <1>2. exec' = x /\ x \in Executions
    BY <1>1 DEF Executions
  <1> QED
    BY <1>1, <1>2 DEF Changes, Executions

\* The fields of an execution under way.
LEMMA ExecFields ==
  ASSUME Shape, exec # None
  PROVE  /\ StoreTypes /\ exec \in Executions /\ exec.pc \in LoopPcs /\ exec.ck \in Checkpoints
         /\ exec.turns \in Nat /\ exec.models \in Nat /\ exec.tools \in Nat
         /\ exec.ck.phase \in CheckpointPhases \cup {None} /\ exec.ck.attempt \in Nat
         /\ exec.ck.emission \in EmissionKinds \cup {None} /\ exec.ck.verified \subseteq Verifiers
         /\ exec.ck.back \in {None, "model", "tool"} /\ exec.next \in EmissionKinds \cup {None}
         /\ exec.inflight \in BOOLEAN /\ exec.held \in BOOLEAN /\ exec.outcome \in LoopOutcomes
         /\ exec.turns = count.turns /\ exec.tools = count.tools
  <1>1. exec \in Executions /\ StoreTypes
    BY DEF Shape, LoopTypes
  <1> QED
    BY <1>1 DEF Shape, ExecShape, Executions, Checkpoints

\* The key of the boundary an execution stands at.
LEMMA ExecKey ==
  ASSUME Shape, exec # None, exec.pc \in Keyed
  PROVE  /\ exec.key \in BoundaryKeys /\ exec.key # None
         /\ exec.key[1] \in AttemptKinds \cup {"verifier", "evidence"}
         /\ exec.key[1] \in AttemptKinds =>
              /\ exec.key[2] \in Steps /\ exec.key[3] \in Attempts /\ exec.key[3] \in Nat
              /\ exec.key = <<exec.key[1], exec.key[2], exec.key[3]>>
              /\ <<exec.key[2], exec.key[3]>> \in Steps \X Attempts
         /\ exec.key[1] = "verifier" => exec.key[2] \in Verifiers
  <1>1. exec.key \in BoundaryKeys
    BY DEF Shape, ExecShape
  <1> QED
    BY <1>1, LoopKeys DEF Attempts

\* The key of the model call an execution makes, when it is within the budget.
LEMMA ModelKeyMade ==
  ASSUME Shape, exec # None, exec.pc = "model", exec.models < MaxModelCalls
  PROVE  /\ ModelKey \in BoundaryKeys /\ ModelKey[1] = "model" /\ ModelKey[2] = count.turns
         /\ ModelKey[3] = Attempt /\ Attempt \in Attempts /\ <<step, Attempt>> \in Steps \X Attempts
         /\ exec.ck.phase \in ModelPhases => Attempt = exec.ck.attempt
         /\ exec.ck.phase \notin ModelPhases => Attempt = exec.models + 1
  <1>1. /\ exec.turns \in Nat /\ exec.models \in Nat /\ exec.ck.attempt \in Nat
        /\ exec.turns = count.turns /\ count.turns \in 0..MaxTurns
    BY ExecFields DEF StoreTypes
  <1>2. /\ count.turns >= 1 /\ CkShape(exec.ck, exec.models + 1)
        /\ exec.ck.phase \in {None, "turn"} \cup ModelPhases
    BY DEF Shape, ExecShape
  <1>3. step \in Steps
    BY <1>1, <1>2, LoopBounds DEF step, Steps
  <1>4. /\ exec.ck.phase \in ModelPhases => Attempt = exec.ck.attempt
        /\ exec.ck.phase \notin ModelPhases => Attempt = exec.models + 1
        /\ Attempt \in Attempts
    BY <1>1, <1>2, LoopBounds DEF Attempt, Attempts, CkShape
  <1> QED
    BY <1>1, <1>3, <1>4, LoopKeyMade DEF ModelKey, AttemptKinds, step

-----------------------------------------------------------------------------

\* RunFailed and Suspend end the execution.
LEMMA DoFail ==
  ASSUME Shape, RunFailed
  PROVE  exec' = None /\ Appends("RunFailed", None) /\ SameRest /\ slots' = slots /\ calls' = calls
  BY AppendPlain DEF Shape, LoopTypes, RunFailed, Leave, SameRest, PlainTypes, LoopEventTypes

\* #suspend ends the execution with a RunSuspended.
LEMMA DoSuspend ==
  ASSUME Shape, NEW t \in ResumeTargets, Suspend(t)
  PROVE  exec' = None /\ Appends("RunSuspended", None) /\ SameRest /\ slots' = slots /\ calls' = calls
  BY AppendSuspended DEF Shape, LoopTypes, Suspend, Leave, SameRest

\* Execute, by what it does.
DoesExecute ==
  exec = None /\
  \/ exec' = None /\ Appends("RunSuspended", None) /\ SameRest /\ slots' = slots /\ calls' = calls
  \/ /\ SameStore /\ exec' \in Executions
     /\ exec'.pc = "top" /\ exec'.turns = count.turns /\ exec'.models = count.models
     /\ exec'.tools = count.tools
     /\ \/ run.status = "accepted" /\ exec'.ck = NoCkpt
        \/ /\ run.status \in Runnable \ {"accepted"} /\ snapshot # None /\ SafeSuffix
           /\ exec'.ck = IF snapshot.phase = "input" THEN Ckpt("model", count.models + 1, None)
                         ELSE snapshot

\* What execute does.
LEMMA DoExecute ==
  ASSUME Shape, Execute
  PROVE  DoesExecute
  <1> USE DEF DoesExecute
  <1>0. StoreTypes /\ count.models + 1 \in Nat /\ count.turns \in Nat /\ count.models \in Nat
        /\ count.tools \in Nat
    BY LoopBounds DEF Shape, LoopTypes, StoreTypes
  <1>1. CASE Suspend(run.status) /\ run.status \in Runnable \ {"accepted"}
    BY <1>1, DoSuspend DEF Runnable, ResumeTargets, Execute
  <1>2. ASSUME NEW ck \in Checkpoints, exec' = Loaded(ck),
               UNCHANGED <<setup, store, doubtful, approved, approvalUse, sent, faults>>
        PROVE  /\ SameStore /\ exec' \in Executions
               /\ exec'.pc = "top" /\ exec'.turns = count.turns /\ exec'.models = count.models
               /\ exec'.tools = count.tools
               /\ exec'.ck = IF ck.phase = "input" THEN Ckpt("model", count.models + 1, None)
                             ELSE ck
    <2>1. PICK c : c = IF ck.phase = "input" THEN Ckpt("model", count.models + 1, None) ELSE ck
      OBVIOUS
    <2>2. c \in Checkpoints
      BY <1>0, <2>1, CkptMade DEF CheckpointPhases
    <2>3. exec' = [pc |-> "top", turns |-> count.turns, models |-> count.models,
                   tools |-> count.tools, ck |-> c, next |-> ck.emission, key |-> None,
                   held |-> FALSE, outcome |-> None, inflight |-> FALSE]
      BY <1>2, <2>1 DEF Loaded
    <2>4. ck.emission \in EmissionKinds \cup {None}
      BY DEF Checkpoints
    <2>5. exec' \in Executions
      BY <1>0, <2>2, <2>3, <2>4 DEF Executions, LoopPcs, LoopOutcomes
    <2> QED
      BY <1>2, <2>1, <2>3, <2>5 DEF SameStore, SameStream, SameRest, store
  <1>3. NoCkpt \in Checkpoints /\ NoCkpt.phase = None
    BY CkptMade DEF NoCkpt
  <1>4. NoCkpt.phase # "input"
    BY <1>3, NoneIsNoData DEF CheckpointPhases
  <1>5. snapshot # None => snapshot \in Checkpoints
    BY <1>0 DEF StoreTypes
  <1> QED
    BY <1>1, <1>2, <1>3, <1>4, <1>5 DEF Execute

\* A step of the execution alone leaves the store.
LEMMA LocalSame ==
  ASSUME Local PROVE SameStore
  BY DEF Local, store, SameStore, SameStream, SameRest

\* Appending without another write.
LEMMA AppendedSame ==
  ASSUME Appended PROVE SameRest /\ slots' = slots /\ calls' = calls
  BY DEF Appended, SameRest

\* Backoff, by what it does.
DoesBackoff ==
  /\ exec # None /\ exec.pc = "top" /\ exec.ck.phase = "scheduled_backoff" /\ SameStore
  /\ \/ Changes({"pc"}) /\ exec'.pc = "resume"
     \/ /\ Changes({"pc", "key"}) /\ exec'.pc = "enter" /\ exec'.key \in BoundaryKeys
        /\ exec'.key[1] = IF exec.ck.back = "model" THEN "model_backoff" ELSE "tool_backoff"

\* What the wait for a persisted backoff does.
LEMMA DoBackoff ==
  ASSUME Shape, Backoff
  PROVE  DoesBackoff
  <1> USE DEF DoesBackoff
  <1>1. exec # None /\ exec.pc = "top" /\ exec.ck.phase = "scheduled_backoff" /\ Local
    BY DEF Backoff, At
  <1>2. /\ exec \in Executions /\ exec.turns = count.turns /\ count.turns >= 1
        /\ exec.ck.attempt \in Attempts /\ count.turns \in 0..MaxTurns
    BY <1>1, ExecFields, NoneIsNoData DEF Shape, ExecShape, CkShape, CheckpointPhases, StoreTypes
  <1>3. step \in Steps
    BY <1>2, LoopBounds DEF step, Steps
  <1>4. /\ BackoffKey \in BoundaryKeys
        /\ BackoffKey[1] = IF exec.ck.back = "model" THEN "model_backoff" ELSE "tool_backoff"
    BY <1>2, <1>3, LoopKeyMade DEF BackoffKey, AttemptKinds
  <1>5. exec' = [exec EXCEPT !.pc = "enter", !.key = BackoffKey] \/ exec' = [exec EXCEPT !.pc = "resume"]
    BY DEF Backoff, Go
  <1>6. "resume" \in LoopPcs /\ "enter" \in LoopPcs
    BY DEF LoopPcs
  <1> HIDE DEF BackoffKey
  <1> QED
    BY <1>1, <1>2, <1>4, <1>5, <1>6, SetPc, SetKey, LocalSame

\* RetryResumed, by what it does.
DoesRetryResumed ==
  /\ exec # None /\ exec.pc = "resume" /\ SameRest /\ slots' = slots /\ calls' = calls
  /\ exec.ck.phase = "scheduled_backoff" /\ exec.ck.back \in {"model", "tool"}
  /\ Changes({"pc", "ck", "next"}) /\ exec'.pc = "top"
  /\ exec'.ck = Ckpt(exec.ck.back, exec.ck.attempt, exec.ck.emission)
  /\ Appends("RetryResumed", exec'.ck)

\* What RetryResumed does.
LEMMA DoRetryResumed ==
  ASSUME Shape, RetryResumed
  PROVE  DoesRetryResumed
  <1> USE DEF DoesRetryResumed
  <1>1. exec # None /\ exec.pc = "resume" /\ Appended
    BY DEF RetryResumed, At
  <1>2. /\ exec \in Executions /\ StoreTypes /\ exec.ck.phase = "scheduled_backoff"
        /\ exec.ck.attempt \in Nat /\ exec.ck.emission \in EmissionKinds \cup {None}
        /\ exec.ck.back \in {"model", "tool"}
    BY <1>1, ExecFields DEF Shape, ExecShape, CkShape
  <1> DEFINE c == Ckpt(exec.ck.back, exec.ck.attempt, exec.ck.emission)
  <1>3. c \in Checkpoints /\ c.emission = exec.ck.emission
    BY <1>2, CkptMade DEF CheckpointPhases
  <1>4. Append1(Ev("RetryResumed"), c) /\ exec' = [exec EXCEPT !.pc = "top", !.ck = c, !.next = c.emission]
    BY DEF RetryResumed
  <1>5. "top" \in LoopPcs /\ "RetryResumed" \in PlainTypes
    BY DEF LoopPcs, PlainTypes, LoopEventTypes
  <1> HIDE DEF c
  <1>6. Appends("RetryResumed", c)
    BY <1>2, <1>4, <1>5, AppendPlain
  <1>7. Changes({"pc", "ck", "next"}) /\ exec'.pc = "top" /\ exec'.ck = c
    <2>1. PICK m \in EmissionKinds \cup {None} : m = c.emission
      BY <1>2, <1>3
    <2>2. exec' = [exec EXCEPT !.pc = "top", !.ck = c, !.next = m]
      BY <1>4, <2>1
    <2>3. exec \in Executions /\ exec # None /\ c \in Checkpoints
      BY <1>1, <1>2, <1>3
    <2> QED
      BY <1>5, <2>2, <2>3, SetCkNext, ZenonT(30)
  <1> QED
    BY <1>1, <1>2, <1>6, <1>7, AppendedSame DEF c

\* Turn, by what it does.
DoesTurn ==
  /\ exec # None /\ exec.pc = "top" /\ exec.turns < MaxTurns
  /\ \/ /\ exec.ck.phase \in {"emission", "tool_request", "tool"} /\ SameStore
        /\ Changes({"pc"}) /\ exec'.pc = "emit"
     \/ /\ exec.ck.phase \in ModelPhases /\ SameStore
        /\ Changes({"pc"}) /\ exec'.pc = "model"
     \/ /\ exec.ck.phase \in {None, "turn"}
        /\ Appends("PlanningStarted", Ckpt("model", exec.models + 1, None))
        /\ SameRest /\ slots' = slots /\ calls' = calls
        /\ Changes({"pc", "turns"}) /\ exec'.pc = "model" /\ exec'.turns = exec.turns + 1

\* What entering a turn does.
LEMMA DoTurn ==
  ASSUME Shape, Turn
  PROVE  DoesTurn
  <1> USE DEF DoesTurn
  <1>1. exec # None /\ exec.pc = "top" /\ ~TurnOver
    BY DEF Turn, At
  <1>2. exec \in Executions /\ StoreTypes /\ exec.turns \in Nat
    BY <1>1, ExecFields
  <1>3. {"emit", "model"} \subseteq LoopPcs /\ "PlanningStarted" \in PlainTypes
    BY DEF LoopPcs, PlainTypes, LoopEventTypes
  <1>4. exec.turns < MaxTurns
    BY <1>1, <1>2, LoopBounds DEF TurnOver
  <1>5. CASE exec.ck.phase \in {"emission", "tool_request", "tool"} /\ Go("emit") /\ Local
    BY <1>1, <1>2, <1>3, <1>4, <1>5, SetPc, LocalSame DEF Go
  <1>6. CASE exec.ck.phase \in ModelPhases /\ Go("model") /\ Local
    BY <1>1, <1>2, <1>3, <1>4, <1>6, SetPc, LocalSame DEF Go
  <1>7. CASE /\ exec.ck.phase \in {None, "turn"}
             /\ Append1(Ev("PlanningStarted"), Ckpt("model", exec.models + 1, None))
             /\ exec' = [exec EXCEPT !.pc = "model", !.turns = @ + 1]
             /\ Appended
    <2>1. Appends("PlanningStarted", Ckpt("model", exec.models + 1, None))
      BY <1>2, <1>3, <1>7, AppendPlain
    <2>2. exec' = [exec EXCEPT !.pc = "model", !.turns = exec.turns + 1] /\ exec.turns + 1 \in Nat
      BY <1>2, <1>7
    <2>3. Changes({"pc", "turns"}) /\ exec'.pc = "model" /\ exec'.turns = exec.turns + 1
      BY <1>1, <1>2, <1>3, <2>2, SetTurns
    <2> QED
      BY <1>1, <1>4, <1>7, <2>1, <2>3, AppendedSame
  <1> QED
    BY <1>5, <1>6, <1>7 DEF Turn, ModelPhases

\* ModelStep, by what it does.
DoesModelStep ==
  /\ exec # None /\ exec.pc = "model" /\ exec.models < MaxModelCalls
  /\ \/ exec' = None /\ Appends("RunSuspended", None) /\ SameRest /\ slots' = slots /\ calls' = calls
     \/ /\ SameStore /\ Changes({"pc", "key", "inflight"}) /\ exec'.pc = "enter"
        /\ exec'.key = ModelKey /\ exec'.inflight = (exec.ck.phase = "model_inflight")
     \/ /\ exec.ck.phase = "model_inflight" /\ setup.production /\ SameStore
        /\ Changes({"pc", "key", "outcome"}) /\ exec'.pc = "retry" /\ exec'.key = ModelKey
     \/ /\ calls[<<step, Attempt>>] = "dispatched" /\ exec' = exec
        /\ calls' = [calls EXCEPT ![<<step, Attempt>>] = "uncertain"]
        /\ SameStream /\ SameRest /\ slots' = slots

\* What the step before a model call does.
LEMMA DoModelStep ==
  ASSUME Shape, ModelStep
  PROVE  DoesModelStep
  <1> USE DEF DoesModelStep
  <1>1. exec # None /\ exec.pc = "model" /\ exec.models < MaxModelCalls
    BY DEF ModelStep, At
  <1>2. exec \in Executions /\ StoreTypes
    BY <1>1, ExecFields
  <1>3. {"enter", "retry"} \subseteq LoopPcs /\ "uncertain" \in LoopOutcomes /\ "planning" \in ResumeTargets
    BY DEF LoopPcs, LoopOutcomes, Classifications, ResumeTargets
  <1>4. ModelKey \in BoundaryKeys
    BY <1>1, ModelKeyMade
  <1>5. CASE EnterModel /\ Local
    BY <1>1, <1>2, <1>3, <1>4, <1>5, SetKeyInflight, LocalSame DEF EnterModel
  <1>6. CASE /\ exec' = [exec EXCEPT !.pc = "retry", !.key = ModelKey, !.outcome = "uncertain"]
             /\ Local /\ exec.ck.phase = "model_inflight" /\ setup.production
    BY <1>1, <1>2, <1>3, <1>4, <1>6, SetKeyOutcome, LocalSame
  <1>7. CASE Suspend("planning")
    BY <1>1, <1>3, <1>7, DoSuspend
  <1>8. CASE /\ Dispatched
             /\ calls' = [calls EXCEPT ![<<step, Attempt>>] = "uncertain"]
             /\ UNCHANGED <<setup, run, count, snapshot, suffix, slots, exec, doubtful,
                            approved, approvalUse, rethrown, sent, faults>>
    BY <1>1, <1>8 DEF Dispatched, SameStream, SameRest
  <1> QED
    BY <1>5, <1>6, <1>7, <1>8 DEF ModelStep, Undecided

\* Final, by what it does.
DoesFinal ==
  /\ exec # None /\ exec.pc = "top" /\ exec.ck.phase \in {"final", "verification"}
  /\ SameStore /\ Changes({"pc"}) /\ exec'.pc = "finalize"

\* What going to #finalize does.
LEMMA DoFinal ==
  ASSUME Shape, FinalOrVerification
  PROVE  DoesFinal
  <1> USE DEF DoesFinal
  <1>1. /\ exec # None /\ exec.pc = "top" /\ exec.ck.phase \in {"final", "verification"} /\ Local
        /\ exec' = [exec EXCEPT !.pc = "finalize"]
    BY DEF FinalOrVerification, At, Go
  <1>2. exec \in Executions /\ "finalize" \in LoopPcs
    BY <1>1, ExecFields DEF LoopPcs
  <1> QED
    BY <1>1, <1>2, SetPc, LocalSame

\* The states a reservation found at entry is left in.
ClosedStates == {"settled", "closed_uncertain"}

\* Enter, by what it does.
DoesEnter ==
  /\ exec # None /\ exec.pc = "enter" /\ exec.key \in BoundaryKeys
  /\ SameStream /\ SameRest /\ calls' = calls
  /\ \/ /\ ~setup.reserve /\ slots' = slots
        /\ Changes({"pc"}) /\ exec'.pc = "call"
     \/ /\ setup.reserve /\ slots[exec.key] = NoReservation
        /\ slots' = [slots EXCEPT ![exec.key] = "reserved"]
        /\ Changes({"pc", "held"}) /\ exec'.pc = "call" /\ exec'.held = TRUE
     \/ /\ slots[exec.key] # NoReservation
        /\ \E s \in ClosedStates : slots' = [slots EXCEPT ![exec.key] = s]
        /\ \/ /\ exec.key[1] \in {"model_backoff", "tool_backoff"}
              /\ Changes({"pc"}) /\ exec'.pc = "call"
           \/ /\ exec.key[1] \in {"model", "tool"}
              /\ Changes({"pc", "outcome", "models"}) /\ exec'.pc = "retry"
              /\ exec'.models = IF exec.key[1] = "model" /\ exec.models < exec.key[3]
                                THEN exec.key[3] ELSE exec.models
           \/ exec.key[1] \in {"verifier", "evidence"} /\ exec' = None

\* What the entry of #withActiveExecution does.
LEMMA DoEnter ==
  ASSUME Shape, Enter
  PROVE  DoesEnter
  <1> USE DEF DoesEnter
  <1>1. exec # None /\ exec.pc = "enter" /\ exec.pc \in Keyed
    BY DEF Enter, At, Keyed
  <1>2. /\ exec \in Executions /\ StoreTypes /\ exec.key \in BoundaryKeys
        /\ exec.key[1] \in AttemptKinds \cup {"verifier", "evidence"} /\ exec.models \in Nat
        /\ exec.key[1] \in AttemptKinds => exec.key[3] \in Nat
    BY <1>1, ExecFields, ExecKey
  <1>3. {"call", "retry"} \subseteq LoopPcs /\ "uncertain" \in LoopOutcomes /\ TRUE \in BOOLEAN
    BY DEF LoopPcs, LoopOutcomes, Classifications
  <1>4. CASE ~setup.reserve /\ Go("call") /\ Local
    BY <1>1, <1>2, <1>3, <1>4, SetPc, LocalSame DEF Go, SameStore
  <1>5. CASE /\ setup.reserve /\ slots[exec.key] = NoReservation
             /\ slots' = [slots EXCEPT ![exec.key] = "reserved"]
             /\ exec' = [exec EXCEPT !.pc = "call", !.held = TRUE]
             /\ UNCHANGED <<setup, run, count, snapshot, suffix, calls, doubtful, approved, approvalUse, rethrown,
                            sent, faults>>
    BY <1>1, <1>2, <1>3, <1>5, SetHeld DEF SameStream, SameRest
  <1>6. CASE /\ setup.reserve /\ slots[exec.key] # NoReservation
             /\ slots' = [slots EXCEPT ![exec.key] = Closed(@)]
             /\ Recovered
             /\ UNCHANGED <<setup, run, count, snapshot, suffix, calls, doubtful, approved, approvalUse, rethrown,
                            sent, faults>>
    <2>1. slots[exec.key] \in ActiveStates
      BY <1>2, <1>6 DEF StoreTypes
    <2>2. \E s \in ClosedStates : slots' = [slots EXCEPT ![exec.key] = s]
      BY <1>6, <2>1 DEF Closed, ClosedStates, ActiveStates
    <2>3. CASE exec.key[1] \in {"model_backoff", "tool_backoff"}
      <3>1. exec' = [exec EXCEPT !.pc = "call"]
        BY <1>6, <2>3 DEF Recovered, Asleep, Go
      <3> QED
        BY <1>1, <1>2, <1>3, <1>6, <2>2, <2>3, <3>1, SetPc DEF SameStream, SameRest
    <2>4. CASE exec.key[1] \in {"model", "tool"}
      <3>1. PICK n : n = IF exec.key[1] = "model" /\ exec.models < exec.key[3]
                         THEN exec.key[3] ELSE exec.models
        OBVIOUS
      <3>2. n \in Nat
        BY <1>2, <2>4, <3>1 DEF AttemptKinds
      <3>3. exec' = [exec EXCEPT !.pc = "retry", !.outcome = "uncertain", !.models = n]
        BY <1>6, <2>4, <3>1 DEF Recovered, Asleep
      <3>4. Changes({"pc", "outcome", "models"}) /\ exec'.pc = "retry" /\ exec'.models = n
        BY <1>1, <1>2, <1>3, <3>2, <3>3, SetOutcomeModels
      <3> QED
        BY <1>1, <1>2, <1>6, <2>2, <2>4, <3>1, <3>4 DEF SameStream, SameRest
    <2>5. CASE exec.key[1] \in {"verifier", "evidence"}
      BY <1>1, <1>2, <1>6, <2>2, <2>5 DEF Recovered, Asleep, Leave, SameStream, SameRest
    <2> QED
      BY <1>2, <2>3, <2>4, <2>5 DEF AttemptKinds
  <1> QED
    BY <1>4, <1>5, <1>6 DEF Enter

\* A model call before it is sent.
DoesModelStart ==
  /\ exec # None /\ exec.pc = "call" /\ exec.key \in BoundaryKeys /\ exec.key[1] = "model"
  /\ exec.key[3] \in Nat /\ Call \in Steps \X Attempts
  /\ \/ /\ exec.inflight /\ ~setup.production /\ SameStore
        /\ Changes({"pc"}) /\ exec'.pc = "send"
     \/ /\ Appends("ModelCallStarted", Ckpt("model_inflight", exec.key[3], None))
        /\ SameRest /\ slots' = slots /\ Changes({"pc"})
        /\ \/ ~setup.production /\ calls' = calls /\ exec'.pc = "send"
           \/ /\ setup.production /\ calls[Call] \in {NoReservation, "accepted"}
              /\ calls' = [calls EXCEPT ![Call] = "accepted"] /\ exec'.pc = "dispatch"
     \/ SameStore /\ Changes({"pc", "outcome"}) /\ exec'.pc = "settle"

\* What announcing a model call does.
LEMMA DoModelStart ==
  ASSUME Shape, LocalModelStart \/ ProductionStart
  PROVE  DoesModelStart
  <1> USE DEF DoesModelStart
  <1>1. exec # None /\ exec.pc = "call" /\ exec.pc \in Keyed /\ exec.key[1] = "model"
    BY DEF LocalModelStart, ProductionStart, At, InModel, Keyed, Inside
  <1>2. /\ exec \in Executions /\ StoreTypes /\ exec.key \in BoundaryKeys
        /\ exec.key[3] \in Nat /\ Call \in Steps \X Attempts
    BY <1>1, ExecFields, ExecKey DEF Call, AttemptKinds
  <1>3. /\ {"send", "dispatch", "settle"} \subseteq LoopPcs /\ "throw" \in LoopOutcomes
        /\ "ModelCallStarted" \in PlainTypes
    BY DEF LoopPcs, LoopOutcomes, PlainTypes, LoopEventTypes
  <1> HIDE DEF Call
  <1>4. CASE LocalModelStart /\ exec.inflight
    <2>1. exec' = [exec EXCEPT !.pc = "send"] /\ Local /\ ~setup.production
      BY <1>4 DEF LocalModelStart, Go
    <2> QED
      BY <1>1, <1>2, <1>3, <1>4, <2>1, SetPc, LocalSame
  <1>5. CASE LocalModelStart /\ ~exec.inflight
    <2>1. /\ exec' = [exec EXCEPT !.pc = "send"] /\ Appended /\ ~setup.production
          /\ Append1(Ev("ModelCallStarted"), Ckpt("model_inflight", exec.key[3], None))
      BY <1>5 DEF LocalModelStart, Go
    <2>2. Appends("ModelCallStarted", Ckpt("model_inflight", exec.key[3], None))
      BY <1>2, <1>3, <2>1, AppendPlain
    <2> QED
      BY <1>1, <1>2, <1>3, <2>1, <2>2, SetPc, AppendedSame
  <1>6. CASE ProductionStart
    <2>1. CASE Ends("throw") /\ Local
      BY <1>1, <1>2, <1>3, <2>1, SetOutcome, LocalSame DEF Ends
    <2>2. CASE /\ calls[Call] \in {NoReservation, "accepted"}
               /\ Append1(Ev("ModelCallStarted"), Ckpt("model_inflight", exec.key[3], None))
               /\ calls' = [calls EXCEPT ![Call] = "accepted"]
               /\ Go("dispatch") /\ setup.production
               /\ UNCHANGED <<setup, slots, doubtful, approved, approvalUse, rethrown, sent, faults>>
      <3>1. Appends("ModelCallStarted", Ckpt("model_inflight", exec.key[3], None))
        BY <1>2, <1>3, <2>2, AppendPlain
      <3>2. Changes({"pc"}) /\ exec'.pc = "dispatch"
        BY <1>1, <1>2, <1>3, <2>2, SetPc DEF Go
      <3> QED
        BY <1>1, <1>2, <2>2, <3>1, <3>2 DEF SameRest
    <2> QED
      BY <1>6, <2>1, <2>2 DEF ProductionStart
  <1> QED
    BY <1>4, <1>5, <1>6

\* The stream, the reservations and what was sent stay; a fault may be counted.
Quiet ==
  /\ SameStream /\ slots' = slots /\ calls' = calls /\ setup' = setup /\ approved' = approved
  /\ sent' = sent /\ faults' \in 0..MaxFaults

\* A step that leaves the store is quiet.
LEMMA SameIsQuiet ==
  ASSUME Shape, SameStore PROVE Quiet
  BY DEF Shape, LoopTypes, StoreTypes, SameStore, SameRest, Quiet

\* A fault that is counted and leaves the store is quiet.
LEMMA FaultIsQuiet ==
  ASSUME Shape, faults < MaxFaults, faults' = faults + 1,
         UNCHANGED <<setup, store, approved, sent>>
  PROVE  Quiet
  BY LoopBounds DEF Shape, LoopTypes, StoreTypes, SameStream, Quiet, store

\* Dispatch, by what it does.
DoesDispatch ==
  /\ exec # None /\ exec.pc = "dispatch" /\ exec.key \in BoundaryKeys
  /\ Call \in Steps \X Attempts
  /\ \/ Quiet /\ Changes({"pc", "outcome"}) /\ exec'.pc = "settle"
     \/ /\ SameStream /\ SameRest /\ slots' = slots /\ calls[Call] \in {"accepted", "dispatched"}
        /\ calls' = [calls EXCEPT ![Call] = "dispatched"]
        /\ Changes({"pc"}) /\ exec'.pc = "send"

\* What markDispatched does.
LEMMA DoDispatch ==
  ASSUME Shape, Dispatch
  PROVE  DoesDispatch
  <1> USE DEF DoesDispatch
  <1>1. exec # None /\ exec.pc = "dispatch" /\ exec.pc \in Keyed
    BY DEF Dispatch, At, Keyed, Inside
  <1>2. exec.key[1] = "model"
    BY <1>1 DEF Shape, ExecShape
  <1>3. exec \in Executions /\ exec.key \in BoundaryKeys /\ Call \in Steps \X Attempts /\ StoreTypes
    BY <1>1, <1>2, ExecFields, ExecKey DEF Call, AttemptKinds
  <1>4. {"send", "settle"} \subseteq LoopPcs /\ "throw" \in LoopOutcomes
    BY DEF LoopPcs, LoopOutcomes
  <1> HIDE DEF Call
  <1>5. CASE Ends("throw") /\ Quiet
    BY <1>1, <1>3, <1>4, <1>5, SetOutcome DEF Ends
  <1>6. CASE /\ ModelPut(calls[Call], "dispatched")
             /\ calls' = [calls EXCEPT ![Call] = "dispatched"]
             /\ Go("send")
             /\ UNCHANGED <<setup, run, count, snapshot, suffix, slots, doubtful, approved, approvalUse, rethrown,
                            sent, faults>>
    <2>1. calls[Call] \in {"accepted", "dispatched"}
      <3>1. calls[Call] \in ModelStates \cup {NoReservation}
        BY <1>3 DEF StoreTypes
      <3> QED
        BY <1>6, <3>1 DEF ModelPut, ModelStates, NoReservation
    <2> QED
      BY <1>1, <1>3, <1>4, <1>6, <2>1, SetPc DEF Go, SameStream, SameRest
  <1> QED
    BY <1>5, <1>6, SameIsQuiet, LocalSame, FaultIsQuiet DEF Dispatch

\* Send, by what it does.
DoesSend ==
  /\ exec # None /\ exec.key \in BoundaryKeys
  /\ exec.pc = "send" \/ (exec.pc = "call" /\ exec.key[1] \in {"tool", "verifier", "evidence"})
  /\ SameStream /\ slots' = slots /\ calls' = calls /\ setup' = setup /\ approved' = approved
  /\ faults' = faults /\ sent' = [sent EXCEPT ![exec.key] = OnceMore(@)]
  /\ Changes({"pc"}) /\ exec'.pc = "await"

\* What a call to the outside does.
LEMMA DoSend ==
  ASSUME Shape, SendModel \/ (OtherCall /\ ~Asleep)
  PROVE  DoesSend
  <1> USE DEF DoesSend
  <1>1. exec # None /\ exec.pc \in {"send", "call"} /\ exec.pc \in Keyed /\ Send
    BY DEF SendModel, OtherCall, At, Keyed, Inside
  <1>2. /\ exec \in Executions /\ exec.key \in BoundaryKeys /\ exec.key # None
        /\ exec.key[1] \in AttemptKinds \cup {"verifier", "evidence"}
    BY <1>1, ExecFields, ExecKey
  <1>3. exec.pc = "send" \/ (exec.pc = "call" /\ exec.key[1] \in {"tool", "verifier", "evidence"})
    BY <1>1, <1>2 DEF SendModel, OtherCall, At, Asleep, InModel, AttemptKinds
  <1>4. "await" \in LoopPcs
    BY DEF LoopPcs
  <1> QED
    BY <1>1, <1>2, <1>3, <1>4, SetPc DEF Send, Go, SameStream, store

\* What brings a call to its settlement without a write.
DoesQuietCall ==
  /\ exec # None /\ exec.pc \in {"call", "await"} /\ exec.key \in BoundaryKeys /\ Quiet
  /\ Changes({"pc", "outcome"})
  /\ exec'.pc = "settle"
     \/ (exec.key[1] = "model" /\ setup.production /\ exec'.pc \in {"record", "doubt"})
  /\ exec'.pc = "record" => exec'.outcome \in EmissionKinds

\* What a slept backoff or an answer from the outside does.
LEMMA DoQuietCall ==
  ASSUME Shape, (OtherCall /\ Asleep) \/ ModelAnswers \/ OtherAnswers
  PROVE  DoesQuietCall
  <1> USE DEF DoesQuietCall
  <1>1. exec # None /\ exec.pc \in {"call", "await"} /\ exec.pc \in Keyed
    BY DEF OtherCall, ModelAnswers, OtherAnswers, At, Keyed, Inside
  <1>2. exec \in Executions /\ exec.key \in BoundaryKeys
    BY <1>1, ExecFields, ExecKey
  <1>3. /\ {"record", "doubt", "settle"} \subseteq LoopPcs
        /\ EmissionKinds \cup Classifications \cup {"ok", "pass", "fail", "throw"} \subseteq LoopOutcomes
        /\ setup.emissions \subseteq EmissionKinds
    BY SetupAssumption DEF LoopPcs, LoopOutcomes, Shape, LoopTypes, StoreTypes
  <1>4. CASE OtherCall /\ Asleep
    BY <1>1, <1>2, <1>3, <1>4, SetOutcome, LocalSame, SameIsQuiet DEF OtherCall, Ends
  <1>5. CASE ModelAnswers
    <2>1. PICK o \in LoopOutcomes, p \in {"record", "doubt", "settle"} :
            exec' = [exec EXCEPT !.pc = p, !.outcome = o] /\ (p # "settle" => setup.production)
            /\ (p = "record" => o \in EmissionKinds)
      BY <1>3, <1>5 DEF ModelAnswers
    <2>2. exec.key[1] = "model" /\ Quiet
      BY <1>5, SameIsQuiet DEF ModelAnswers, InModel, SameStore, SameStream, SameRest, store
    <2> QED
      BY <1>1, <1>2, <1>3, <2>1, <2>2, SetOutcome
  <1>6. CASE OtherAnswers
    <2>1. PICK o \in LoopOutcomes : exec' = [exec EXCEPT !.pc = "settle", !.outcome = o]
      BY <1>3, <1>6 DEF OtherAnswers, Ends
    <2>2. Quiet
      <3>1. CASE UNCHANGED faults
        BY <1>6, <3>1, SameIsQuiet DEF OtherAnswers, SameStore, SameStream, SameRest, store
      <3>2. CASE faults < MaxFaults /\ faults' = faults + 1
        BY <1>6, <3>2, FaultIsQuiet DEF OtherAnswers
      <3> QED
        BY <1>6, <3>1, <3>2 DEF OtherAnswers
    <2> QED
      BY <1>1, <1>2, <1>3, <2>1, <2>2, SetOutcome
  <1> QED
    BY <1>4, <1>5, <1>6

\* The answer of a production call and its settlement, or its doubt.
DoesRecord ==
  /\ exec # None /\ exec.pc = "record" /\ exec.key \in BoundaryKeys /\ exec.key[1] = "model"
  /\ Call \in Steps \X Attempts /\ setup.production
  /\ \/ Quiet /\ Changes({"pc", "outcome"}) /\ exec'.pc = "settle"
     \/ /\ \/ Appends("ModelCallCompleted", Ckpt("model", exec.key[3], None))
           \/ \E o \in EmissionKinds \cup {None} :
                Appends("ModelCallCompleted", Ckpt("emission", exec.key[3], o))
        /\ SameRest /\ slots' = slots
        /\ calls' = [calls EXCEPT ![Call] = "settled"]
        /\ calls[Call] \in {"accepted", "dispatched", "settled"}
        /\ Changes({"pc"}) /\ exec'.pc = "settle"

\* What recording a production answer does.
LEMMA DoRecord ==
  ASSUME Shape, RecordAnswer
  PROVE  DoesRecord
  <1> USE DEF DoesRecord
  <1>1. exec # None /\ exec.pc = "record" /\ exec.pc \in Keyed
    BY DEF RecordAnswer, At, Keyed, Inside
  <1>2. exec.key[1] = "model" /\ setup.production /\ exec.outcome \in EmissionKinds
    BY <1>1 DEF Shape, ExecShape
  <1>3. exec \in Executions /\ exec.key \in BoundaryKeys /\ Call \in Steps \X Attempts /\ StoreTypes
    BY <1>1, <1>2, ExecFields, ExecKey DEF Call, AttemptKinds
  <1>4. "settle" \in LoopPcs /\ "throw" \in LoopOutcomes /\ "ModelCallCompleted" \in PlainTypes
    BY DEF LoopPcs, LoopOutcomes, PlainTypes, LoopEventTypes
  <1> HIDE DEF Call
  <1>5. CASE Ends("throw") /\ Quiet
    BY <1>1, <1>2, <1>3, <1>4, <1>5, SetOutcome DEF Ends
  <1>6. CASE /\ ModelPut(calls[Call], "settled")
             /\ Append1(Ev("ModelCallCompleted"),
                        IF exec.outcome = "empty" THEN Ckpt("model", exec.key[3], None)
                        ELSE Ckpt("emission", exec.key[3], exec.outcome))
             /\ calls' = [calls EXCEPT ![Call] = "settled"]
             /\ Go("settle")
             /\ UNCHANGED <<setup, slots, doubtful, approved, approvalUse, rethrown, sent, faults>>
             /\ exec.outcome \in EmissionKinds
    <2>1. calls[Call] \in {"accepted", "dispatched", "settled"}
      <3>1. calls[Call] \in ModelStates \cup {NoReservation}
        BY <1>3 DEF StoreTypes
      <3> QED
        BY <1>6, <3>1 DEF ModelPut, ModelStates, NoReservation
    <2>2. \/ Appends("ModelCallCompleted", Ckpt("model", exec.key[3], None))
          \/ \E o \in EmissionKinds \cup {None} :
               Appends("ModelCallCompleted", Ckpt("emission", exec.key[3], o))
      <3>1. CASE exec.outcome = "empty"
        BY <1>3, <1>4, <1>6, <3>1, AppendPlain
      <3>2. CASE exec.outcome # "empty"
        <4>1. Append1(Ev("ModelCallCompleted"), Ckpt("emission", exec.key[3], exec.outcome))
          BY <1>6, <3>2
        <4> QED
          BY <1>3, <1>4, <1>6, <3>2, <4>1, AppendPlain
      <3> QED
        BY <3>1, <3>2
    <2> QED
      BY <1>1, <1>2, <1>3, <1>4, <1>6, <2>1, <2>2, SetPc DEF Go, SameRest
  <1> QED
    BY <1>2, <1>5, <1>6, SameIsQuiet, LocalSame, FaultIsQuiet DEF RecordAnswer
\* Doubt, by what it does.
DoesDoubt ==
  /\ exec # None /\ exec.pc = "doubt" /\ exec.key \in BoundaryKeys /\ exec.key[1] = "model"
  /\ Call \in Steps \X Attempts /\ setup.production
  /\ \/ Quiet /\ Changes({"pc", "outcome"}) /\ exec'.pc = "settle"
     \/ /\ SameStream /\ SameRest /\ slots' = slots
        /\ calls' = [calls EXCEPT ![Call] = "uncertain"]
        /\ calls[Call] \in {"dispatched", "uncertain"}
        /\ Changes({"pc"}) /\ exec'.pc = "settle"

\* What recording an uncertain production call does.
LEMMA DoDoubt ==
  ASSUME Shape, RecordDoubt
  PROVE  DoesDoubt
  <1> USE DEF DoesDoubt
  <1>1. exec # None /\ exec.pc = "doubt" /\ exec.pc \in Keyed
    BY DEF RecordDoubt, At, Keyed, Inside
  <1>2. exec.key[1] = "model" /\ setup.production
    BY <1>1 DEF Shape, ExecShape
  <1>3. exec \in Executions /\ exec.key \in BoundaryKeys /\ Call \in Steps \X Attempts /\ StoreTypes
    BY <1>1, <1>2, ExecFields, ExecKey DEF Call, AttemptKinds
  <1>4. "settle" \in LoopPcs /\ "throw" \in LoopOutcomes
    BY DEF LoopPcs, LoopOutcomes
  <1> HIDE DEF Call
  <1>5. CASE Ends("throw") /\ Quiet
    BY <1>1, <1>2, <1>3, <1>4, <1>5, SetOutcome DEF Ends
  <1>6. CASE /\ ModelPut(calls[Call], "uncertain")
             /\ calls' = [calls EXCEPT ![Call] = "uncertain"]
             /\ Go("settle")
             /\ UNCHANGED <<setup, run, count, snapshot, suffix, slots, doubtful, approved, approvalUse, rethrown,
                            sent, faults>>
    <2>1. calls[Call] \in {"dispatched", "uncertain"}
      <3>1. calls[Call] \in ModelStates \cup {NoReservation}
        BY <1>3 DEF StoreTypes
      <3> QED
        BY <1>6, <3>1 DEF ModelPut, ModelStates, NoReservation
    <2> QED
      BY <1>1, <1>2, <1>3, <1>4, <1>6, <2>1, SetPc DEF Go, SameRest, SameStream
  <1> QED
    BY <1>5, <1>6, SameIsQuiet, LocalSame DEF RecordDoubt

\* The exit of a boundary.
DoesSettle ==
  /\ exec # None /\ exec.pc = "settle" /\ exec.key \in BoundaryKeys
  /\ SameStream /\ SameRest /\ calls' = calls
  /\ \/ slots' = slots /\ (exec' = None \/ ~exec.held)
     \/ slots[exec.key] # NoReservation /\ slots' = [slots EXCEPT ![exec.key] = "settled"]
  /\ exec' = None \/ (Changes({"pc", "held"}) /\ exec'.pc = "after")

\* What #settleActiveExecution does.
LEMMA DoSettle ==
  ASSUME Shape, Settle
  PROVE  DoesSettle
  <1> USE DEF DoesSettle
  <1>1. exec # None /\ exec.pc = "settle" /\ exec.pc \in Keyed
    BY DEF Settle, At, Keyed, Inside
  <1>2. exec \in Executions /\ exec.key \in BoundaryKeys /\ exec.held \in BOOLEAN
    BY <1>1, ExecFields, ExecKey
  <1>3. "after" \in LoopPcs /\ FALSE \in BOOLEAN
    BY DEF LoopPcs
  <1>4. CASE Leave /\ Local
    BY <1>1, <1>2, <1>4, LocalSame DEF Leave, SameStore
  <1>5. CASE ~exec.held /\ Go("after") /\ Local
    <2>1. Changes({"pc"}) /\ exec'.pc = "after"
      BY <1>1, <1>2, <1>3, <1>5, SetPc DEF Go
    <2>2. Changes({"pc", "held"})
      BY <2>1 DEF Changes
    <2> QED
      BY <1>1, <1>2, <1>5, <2>1, <2>2, LocalSame DEF SameStore
  <1>6. CASE /\ exec.held /\ ActivePut(slots[exec.key], "settled")
             /\ slots' = [slots EXCEPT ![exec.key] = "settled"]
             /\ exec' = IF exec.outcome = "throw" THEN None
                        ELSE [exec EXCEPT !.pc = "after", !.held = FALSE]
             /\ UNCHANGED <<setup, run, count, snapshot, suffix, calls, doubtful, approved, approvalUse, rethrown,
                            sent, faults>>
    <2>1. slots[exec.key] # NoReservation
      BY <1>6 DEF ActivePut, NoReservation
    <2>2. exec' = None \/ (Changes({"pc", "held"}) /\ exec'.pc = "after")
      BY <1>1, <1>2, <1>3, <1>6, SetHeld
    <2> QED
      BY <1>1, <1>2, <1>6, <2>1, <2>2 DEF SameStream, SameRest
  <1> QED
    BY <1>4, <1>5, <1>6 DEF Settle

\* AfterBackoff, by what it does.
DoesAfterBackoff ==
  /\ exec # None /\ exec.pc = "after" /\ exec.key \in BoundaryKeys
  /\ exec.key[1] \in {"model_backoff", "tool_backoff"} /\ exec.ck.phase = "scheduled_backoff"
  /\ SameStore /\ Changes({"pc"}) /\ exec'.pc = "resume"

\* What the end of a backoff does.
LEMMA DoAfterBackoff ==
  ASSUME Shape, AfterBackoff
  PROVE  DoesAfterBackoff
  <1> USE DEF DoesAfterBackoff
  <1>1. /\ exec # None /\ exec.pc = "after" /\ exec.pc \in Keyed /\ Local /\ exec' = [exec EXCEPT !.pc = "resume"]
        /\ exec.key[1] \in {"model_backoff", "tool_backoff"}
    BY DEF AfterBackoff, At, Keyed, Asleep, Go
  <1>2. exec \in Executions /\ exec.key \in BoundaryKeys /\ "resume" \in LoopPcs
    BY <1>1, ExecFields, ExecKey DEF LoopPcs
  <1>3. exec.ck.phase = "scheduled_backoff"
    BY <1>1 DEF Shape, ExecShape, Of, BackTo
  <1> QED
    BY <1>1, <1>2, <1>3, SetPc, LocalSame

\* NoRetry, by what it does.
DoesNoRetry ==
  /\ exec # None /\ exec' = None /\ SameRest /\ slots' = slots /\ calls' = calls
  /\ Appends("RunSuspended", None) \/ Appends("RunFailed", None)

\* What a failure without a retry does.
LEMMA DoNoRetry ==
  ASSUME Shape, NoRetry
  PROVE  DoesNoRetry
  <1> USE DEF DoesNoRetry
  <1>1. {"planning", "running"} \subseteq ResumeTargets /\ exec # None
    BY DEF ResumeTargets, NoRetry, At
  <1> QED
    BY <1>1, DoFail, DoSuspend DEF NoRetry

\* AfterModel, by what it does.
DoesAfterModel ==
  /\ exec # None /\ exec.pc = "after" /\ exec.key \in BoundaryKeys /\ exec.key[1] = "model"
  /\ exec.key[3] \in Attempts
  /\ SameRest /\ slots' = slots /\ calls' = calls
  /\ \/ exec' = None /\ Appends("RunFailed", None)
     \/ /\ setup.production /\ SameStream
        /\ Changes({"pc", "next", "models"}) /\ exec'.pc = "emit" /\ exec'.models = ModelCount
     \/ /\ \E o \in EmissionKinds : Appends("ModelCallCompleted", Ckpt("emission", 0, o))
        /\ Changes({"pc", "next", "models"}) /\ exec'.pc = "emit" /\ exec'.models = ModelCount
     \/ /\ SameStream /\ Changes({"pc", "models"}) /\ exec'.pc = "retry"
        /\ exec'.models = IF exec.models < exec.key[3] THEN exec.key[3] ELSE exec.models

\* What what follows a model call does.
LEMMA DoAfterModel ==
  ASSUME Shape, AfterModel
  PROVE  DoesAfterModel
  <1> USE DEF DoesAfterModel
  <1>1. exec # None /\ exec.pc = "after" /\ exec.pc \in Keyed /\ exec.key[1] = "model"
    BY DEF AfterModel, At, InModel, Keyed
  <1>2. /\ exec \in Executions /\ StoreTypes /\ exec.key \in BoundaryKeys /\ exec.key[3] \in Attempts
        /\ exec.key[3] \in Nat /\ exec.models \in Nat
    BY <1>1, ExecFields, ExecKey DEF AttemptKinds
  <1>3. {"emit", "retry"} \subseteq LoopPcs /\ "ModelCallCompleted" \in PlainTypes
    BY DEF LoopPcs, PlainTypes, LoopEventTypes
  <1>4. ModelCount \in Nat
    BY <1>2 DEF ModelCount
  <1>5. CASE exec.outcome = "empty" /\ RunFailed
    BY <1>1, <1>2, <1>5, DoFail
  <1>6. CASE /\ exec.outcome \in Classifications
             /\ exec' = [exec EXCEPT !.pc = "retry",
                                     !.models = IF @ < exec.key[3] THEN exec.key[3] ELSE @]
             /\ Local
    <2>1. PICK n : n = IF exec.models < exec.key[3] THEN exec.key[3] ELSE exec.models
      OBVIOUS
    <2>2. n \in Nat /\ exec' = [exec EXCEPT !.pc = "retry", !.models = n]
      BY <1>2, <1>6, <2>1
    <2>3. Changes({"pc", "models"}) /\ exec'.pc = "retry" /\ exec'.models = n
      BY <1>1, <1>2, <1>3, <2>2, SetModels
    <2> QED
      BY <1>1, <1>2, <1>6, <2>1, <2>3, LocalSame DEF SameStore
  <1>7. CASE /\ exec.outcome \in EmissionKinds \ {"empty"}
             /\ exec' = [exec EXCEPT !.pc = "emit", !.next = exec.outcome, !.models = ModelCount]
             /\ IF setup.production
                THEN Local
                ELSE /\ Append1(Ev("ModelCallCompleted"), Ckpt("emission", 0, exec.outcome))
                     /\ Appended
    <2> HIDE DEF ModelCount
    <2>1. Changes({"pc", "next", "models"}) /\ exec'.pc = "emit" /\ exec'.models = ModelCount
      BY <1>1, <1>2, <1>3, <1>4, <1>7, SetNextModels
    <2>2. CASE setup.production
      BY <1>1, <1>2, <1>7, <2>1, <2>2, LocalSame DEF SameStore
    <2>3. CASE ~setup.production
      <3>1. Appends("ModelCallCompleted", Ckpt("emission", 0, exec.outcome))
        BY <1>2, <1>3, <1>7, <2>3, AppendPlain
      <3> QED
        BY <1>1, <1>2, <1>7, <2>1, <2>3, <3>1, AppendedSame
    <2> QED
      BY <2>2, <2>3
  <1> QED
    BY <1>5, <1>6, <1>7 DEF AfterModel
\* A retry is a scheduled backoff before the next attempt.
DoesRetry ==
  /\ exec # None /\ exec.pc = "retry" /\ exec.key \in BoundaryKeys
  /\ exec.key[1] \in {"model", "tool"} /\ exec.key[3] \in Attempts
  /\ exec.key[3] < MaximumAttempts
  /\ SameRest /\ slots' = slots /\ calls' = calls
  /\ Changes({"pc", "ck", "inflight"}) /\ exec'.pc = "top"
  /\ exec'.ck.phase = "scheduled_backoff" /\ exec'.ck.back = exec.key[1]
  /\ exec'.ck.attempt = exec.key[3] + 1
  /\ Appends("RetryScheduled", exec'.ck)

\* What #scheduleRetry does.
LEMMA DoRetry ==
  ASSUME Shape, Retry
  PROVE  DoesRetry
  <1> USE DEF DoesRetry
  <1>1. exec # None /\ exec.pc = "retry" /\ exec.pc \in Keyed /\ exec.key[3] < MaximumAttempts /\ Appended
    BY DEF Retry, At, Keyed
  <1>2. exec.key[1] \in {"model", "tool"}
    BY <1>1 DEF Shape, ExecShape
  <1>3. /\ exec \in Executions /\ StoreTypes /\ exec.key \in BoundaryKeys /\ exec.key[3] \in Attempts
        /\ exec.key[3] \in Nat /\ exec.next \in EmissionKinds \cup {None}
    BY <1>1, <1>2, ExecFields, ExecKey DEF AttemptKinds
  <1>4. "top" \in LoopPcs /\ "RetryScheduled" \in PlainTypes
    BY DEF LoopPcs, PlainTypes, LoopEventTypes
  <1>5. PICK m : m = IF exec.key[1] = "tool" THEN exec.next ELSE None
    OBVIOUS
  <1>6. PICK c : c = [Ckpt("scheduled_backoff", exec.key[3] + 1, m) EXCEPT !.back = exec.key[1]]
    OBVIOUS
  <1>7. /\ c \in Checkpoints /\ c.phase = "scheduled_backoff" /\ c.back = exec.key[1]
        /\ c.attempt = exec.key[3] + 1
    <2>1. m \in EmissionKinds \cup {None} /\ exec.key[3] + 1 \in Nat
      BY <1>3, <1>5
    <2>2. PICK x : x = Ckpt("scheduled_backoff", exec.key[3] + 1, m)
      OBVIOUS
    <2>3. x \in Checkpoints /\ x.phase = "scheduled_backoff" /\ x.attempt = exec.key[3] + 1
      BY <2>1, <2>2, CkptMade DEF CheckpointPhases
    <2>4. c = [x EXCEPT !.back = exec.key[1]]
      BY <1>6, <2>2
    <2> QED
      BY <1>2, <2>3, <2>4 DEF Checkpoints
  <1>8. Append1(Ev("RetryScheduled"), c) /\ exec' = [exec EXCEPT !.pc = "top", !.ck = c, !.inflight = FALSE]
    BY <1>5, <1>6 DEF Retry
  <1>9. Appends("RetryScheduled", c)
    BY <1>3, <1>4, <1>8, AppendPlain
  <1>10. Changes({"pc", "ck", "inflight"}) /\ exec'.pc = "top" /\ exec'.ck = c
    BY <1>1, <1>3, <1>4, <1>7, <1>8, SetCkInflight
  <1> QED
    BY <1>1, <1>2, <1>3, <1>7, <1>9, <1>10, AppendedSame

\* EmitInput, by what it does.
DoesEmitInput ==
  /\ exec # None /\ exec.pc = "emit" /\ exec' = None
  /\ Appends("InputRequested", Ckpt("input", 0, None))
  /\ SameRest /\ slots' = slots /\ calls' = calls

\* What a request for input does.
LEMMA DoEmitInput ==
  ASSUME Shape, EmitInput
  PROVE  DoesEmitInput
  BY AppendId, AppendedSame DEF EmitInput, At, Leave, Shape, LoopTypes, PlainTypes,
     LoopEventTypes, DoesEmitInput

\* EmitFinal, by what it does.
DoesEmitFinal ==
  /\ exec # None /\ exec.pc = "emit"
  /\ Appends("ExecutionStarted", Ckpt("final", 0, "final"))
  /\ SameRest /\ slots' = slots /\ calls' = calls
  /\ Changes({"pc", "ck"}) /\ exec'.pc = "finalize" /\ exec'.ck = Ckpt("final", 0, "final")

\* What a final answer does.
LEMMA DoEmitFinal ==
  ASSUME Shape, EmitFinal
  PROVE  DoesEmitFinal
  <1> USE DEF DoesEmitFinal
  <1>1. exec # None /\ exec.pc = "emit" /\ Appended
    BY DEF EmitFinal, At
  <1>2. exec \in Executions /\ StoreTypes
    BY <1>1, ExecFields
  <1>3. "finalize" \in LoopPcs /\ "ExecutionStarted" \in PlainTypes
    BY DEF LoopPcs, PlainTypes, LoopEventTypes
  <1>4. PICK c : c = Ckpt("final", 0, "final")
    OBVIOUS
  <1>5. c \in Checkpoints
    BY <1>4, CkptMade DEF CheckpointPhases, EmissionKinds
  <1>6. Append1(Ev("ExecutionStarted"), c) /\ exec' = [exec EXCEPT !.pc = "finalize", !.ck = c]
    BY <1>4 DEF EmitFinal
  <1>7. Appends("ExecutionStarted", c)
    BY <1>2, <1>3, <1>6, AppendPlain
  <1> QED
    BY <1>1, <1>2, <1>3, <1>4, <1>5, <1>6, <1>7, SetCk, AppendedSame

\* EmitTool, by what it does.
DoesEmitTool ==
  /\ exec # None /\ exec.pc = "emit" /\ SameRest /\ slots' = slots /\ calls' = calls
  /\ Changes({"pc"})
  /\ \/ /\ count.tools < MaxToolCalls /\ exec'.pc = "request"
        /\ Appends("ExecutionStarted", Ckpt("tool_request", 0, exec.next))
     \/ SameStream /\ exec.ck.phase = "tool_request" /\ exec'.pc = "request"
     \/ SameStream /\ exec.ck.phase = "tool" /\ exec'.pc = "policy"

\* What a tool emission does.
LEMMA DoEmitTool ==
  ASSUME Shape, EmitTool
  PROVE  DoesEmitTool
  <1> USE DEF DoesEmitTool
  <1>1. exec # None /\ exec.pc = "emit"
    BY DEF EmitTool, At
  <1>2. exec \in Executions /\ StoreTypes /\ exec.tools = count.tools /\ count.tools \in Nat
    BY <1>1, ExecFields, LoopBounds DEF StoreTypes
  <1>3. {"request", "policy"} \subseteq LoopPcs /\ "ExecutionStarted" \in PlainTypes
    BY DEF LoopPcs, PlainTypes, LoopEventTypes
  <1>4. CASE /\ ~ToolOver
             /\ Append1(Ev("ExecutionStarted"), Ckpt("tool_request", 0, exec.next))
             /\ Go("request") /\ Appended
    <2>1. Appends("ExecutionStarted", Ckpt("tool_request", 0, exec.next))
      BY <1>2, <1>3, <1>4, AppendPlain
    <2>2. count.tools < MaxToolCalls
      BY <1>2, <1>4, LoopBounds DEF ToolOver
    <2> QED
      BY <1>1, <1>2, <1>3, <1>4, <2>1, <2>2, SetPc, AppendedSame DEF Go
  <1>5. CASE exec.ck.phase = "tool_request" /\ Go("request") /\ Local
    BY <1>1, <1>2, <1>3, <1>5, SetPc, LocalSame DEF Go, SameStore
  <1>6. CASE exec.ck.phase = "tool" /\ Go("policy") /\ Local
    BY <1>1, <1>2, <1>3, <1>6, SetPc, LocalSame DEF Go, SameStore
  <1> QED
    BY <1>4, <1>5, <1>6 DEF EmitTool

\* RequestTool, by what it does.
DoesRequestTool ==
  /\ exec # None /\ exec.pc = "request" /\ exec.next \in EmissionKinds \cup {None}
  /\ Appends("ToolCallRequested", Ckpt("tool", 1, exec.next))
  /\ setup' = setup /\ slots' = slots /\ calls' = calls /\ sent' = sent /\ faults' = faults
  /\ approved' = FALSE
  /\ Changes({"pc", "tools"}) /\ exec'.pc = "policy" /\ exec'.tools = exec.tools + 1

\* What ToolCallRequested does.
LEMMA DoRequestTool ==
  ASSUME Shape, RequestTool
  PROVE  DoesRequestTool
  <1> USE DEF DoesRequestTool
  <1>1. exec # None /\ exec.pc = "request"
    BY DEF RequestTool, At
  <1>2. exec \in Executions /\ StoreTypes /\ exec.tools \in Nat /\ exec.next \in EmissionKinds \cup {None}
    BY <1>1, ExecFields
  <1>3. "policy" \in LoopPcs /\ "ToolCallRequested" \in PlainTypes
    BY DEF LoopPcs, PlainTypes, LoopEventTypes
  <1>4. Appends("ToolCallRequested", Ckpt("tool", 1, exec.next))
    BY <1>2, <1>3, AppendPlain DEF RequestTool
  <1>5. exec' = [exec EXCEPT !.pc = "policy", !.tools = exec.tools + 1] /\ exec.tools + 1 \in Nat
    BY <1>2 DEF RequestTool
  <1>6. Changes({"pc", "tools"}) /\ exec'.pc = "policy" /\ exec'.tools = exec.tools + 1
    BY <1>1, <1>2, <1>3, <1>5, SetTools
  <1> QED
    BY <1>1, <1>2, <1>4, <1>6 DEF RequestTool
\* Policy, by what it does.
DoesPolicy ==
  /\ exec # None /\ exec.pc = "policy" /\ SameRest /\ slots' = slots /\ calls' = calls
  /\ \/ exec' = None /\ Appends("ApprovalRequested", None) /\ ~approved
     \/ /\ SameStream /\ Changes({"pc", "key"}) /\ exec'.pc = "enter"
        /\ exec'.key \in BoundaryKeys /\ exec'.key[1] = "tool"

\* What the policy decision about a tool does.
LEMMA DoPolicy ==
  ASSUME Shape, Policy
  PROVE  DoesPolicy
  <1> USE DEF DoesPolicy
  <1>1. exec # None /\ exec.pc = "policy"
    BY DEF Policy, At
  <1>2. /\ exec \in Executions /\ StoreTypes /\ exec.turns = count.turns /\ exec.ck.attempt \in Nat
        /\ count.turns \in 0..MaxTurns
    BY <1>1, ExecFields DEF StoreTypes
  <1>3. count.turns >= 1 /\ exec.ck.attempt <= LastAttempt
    BY <1>1 DEF Shape, ExecShape
  <1>4. step \in Steps /\ ToolAttempt \in Attempts
    BY <1>2, <1>3, LoopBounds DEF step, Steps, ToolAttempt, Attempts
  <1>5. PICK k : k = <<"tool", step, ToolAttempt>>
    OBVIOUS
  <1>6. k \in BoundaryKeys /\ k[1] = "tool"
    BY <1>4, <1>5, LoopKeyMade DEF AttemptKinds
  <1>7. "enter" \in LoopPcs /\ "ApprovalRequested" \in PlainTypes
    BY DEF LoopPcs, PlainTypes, LoopEventTypes
  <1>8. CASE exec.next = "gated" /\ ~approved
    BY <1>1, <1>2, <1>7, <1>8, AppendId, AppendedSame DEF Policy, Leave
  <1>9. CASE ~(exec.next = "gated" /\ ~approved)
    <2>1. /\ exec' = [exec EXCEPT !.pc = "enter", !.key = k]
          /\ UNCHANGED <<setup, store, doubtful, approved, rethrown, sent, faults>>
      BY <1>5, <1>9 DEF Policy
    <2>2. SameStream /\ SameRest /\ slots' = slots /\ calls' = calls
      BY <2>1 DEF store, SameStream, SameRest
    <2> QED
      BY <1>1, <1>2, <1>6, <1>7, <2>1, <2>2, SetKey
  <1> QED
    BY <1>8, <1>9

\* AfterTool, by what it does.
DoesAfterTool ==
  /\ exec # None /\ exec.pc = "after" /\ exec.key \in BoundaryKeys /\ exec.key[1] = "tool"
  /\ SameRest /\ slots' = slots /\ calls' = calls
  /\ \/ SameStream /\ Changes({"pc"}) /\ exec'.pc = "retry"
     \/ /\ Appends("ToolCallCompleted", Ckpt("turn", 0, None))
        /\ Changes({"pc", "ck", "next"}) /\ exec'.pc = "top" /\ exec'.ck = NoCkpt

\* What what follows a tool call does.
LEMMA DoAfterTool ==
  ASSUME Shape, AfterTool
  PROVE  DoesAfterTool
  <1> USE DEF DoesAfterTool
  <1>1. exec # None /\ exec.pc = "after" /\ exec.pc \in Keyed /\ exec.key[1] = "tool"
    BY DEF AfterTool, At, Keyed
  <1>2. exec \in Executions /\ StoreTypes /\ exec.key \in BoundaryKeys
    BY <1>1, ExecFields, ExecKey
  <1>3. /\ {"top", "retry"} \subseteq LoopPcs /\ "ToolCallCompleted" \in PlainTypes
        /\ None \in EmissionKinds \cup {None} /\ NoCkpt \in Checkpoints
    BY CkptMade DEF LoopPcs, PlainTypes, LoopEventTypes, NoCkpt
  <1>4. CASE exec.outcome = "ok"
    <2>1. /\ Append1(Ev("ToolCallCompleted"), Ckpt("turn", 0, None)) /\ Appended
          /\ exec' = [exec EXCEPT !.pc = "top", !.ck = NoCkpt, !.next = None]
      BY <1>4 DEF AfterTool
    <2>2. Appends("ToolCallCompleted", Ckpt("turn", 0, None))
      BY <1>2, <1>3, <2>1, AppendPlain
    <2>3. Changes({"pc", "ck", "next"}) /\ exec'.pc = "top" /\ exec'.ck = NoCkpt
      BY <1>1, <1>2, <1>3, <2>1, SetCkNext
    <2> QED
      BY <1>1, <1>2, <2>1, <2>2, <2>3, AppendedSame
  <1>5. CASE exec.outcome # "ok"
    BY <1>1, <1>2, <1>3, <1>5, SetPc, LocalSame DEF AfterTool, Go, SameStore
  <1> QED
    BY <1>4, <1>5

\* The checkpoints of finalization.
LEMMA VerificationMade ==
  ASSUME NEW v \in SUBSET Verifiers
  PROVE  /\ Verification(v) \in Checkpoints /\ Verification(v).phase = "verification"
         /\ Verification(v).attempt = 0 /\ Verification(v).verified = v /\ Verification(v) # None
  <1>1. PICK x : x = Ckpt("verification", 0, "final")
    OBVIOUS
  <1>2. x \in Checkpoints /\ x.phase = "verification" /\ x.attempt = 0
    BY <1>1, CkptMade DEF CheckpointPhases, EmissionKinds
  <1>3. Verification(v) = [x EXCEPT !.verified = v]
    BY <1>1 DEF Verification
  <1>4. Verification(v) \in Checkpoints
    BY <1>2, <1>3 DEF Checkpoints
  <1> QED
    BY <1>2, <1>3, <1>4, NoneIsNoData DEF Checkpoints

\* What finalization calls next: a verifier, or the evidence builder.
VKey(open) == IF open = {} THEN <<"evidence">> ELSE <<"verifier", NextVerifier(open)>>

\* The next boundary of #finalize is a verifier or the evidence.
LEMMA VKeyMade ==
  ASSUME NEW open \in SUBSET Verifiers
  PROVE  VKey(open) \in BoundaryKeys /\ VKey(open)[1] \in {"verifier", "evidence"}
  <1>1. open # {} => NextVerifier(open) \in Verifiers
    BY DEF NextVerifier
  <1> QED
    BY <1>1, LoopKeyMade DEF VKey

\* Finalize, by what it does.
DoesFinalize ==
  /\ exec # None /\ exec.pc = "finalize" /\ SameRest /\ slots' = slots /\ calls' = calls
  /\ \/ /\ exec.ck.phase = "final" /\ Appends("ArtifactProduced", Verification({}))
        /\ Changes({"ck"}) /\ exec'.ck = Verification({})
     \/ /\ exec.ck.phase = "verification" /\ run.status = "running" /\ exec' = exec
        /\ Appends("VerificationStarted", Verification({}))
     \/ /\ exec.ck.phase = "verification" /\ run.status = "verifying" /\ SameStream
        /\ Changes({"pc", "key"}) /\ exec'.pc = "enter"
        /\ exec'.key = VKey(run.required \ exec.ck.verified)

\* What a step of #finalize does.
LEMMA DoFinalize ==
  ASSUME Shape, Finalize
  PROVE  DoesFinalize
  <1> USE DEF DoesFinalize
  <1>1. exec # None /\ exec.pc = "finalize"
    BY DEF Finalize, At
  <1>2. exec \in Executions /\ StoreTypes /\ run.required \ exec.ck.verified \in SUBSET Verifiers
    BY <1>1, ExecFields DEF StoreTypes, Projections
  <1>3. PICK c : c = Verification({})
    OBVIOUS
  <1>4. c \in Checkpoints
    BY <1>3, VerificationMade
  <1>5. "enter" \in LoopPcs /\ {"ArtifactProduced", "VerificationStarted"} \subseteq PlainTypes
    BY DEF LoopPcs, PlainTypes, LoopEventTypes
  <1>6. CASE exec.ck.phase = "final" /\ Append1(Ev("ArtifactProduced"), Verification({}))
             /\ exec' = [exec EXCEPT !.ck = Verification({})] /\ Appended
    <2>1. Appends("ArtifactProduced", c)
      BY <1>2, <1>3, <1>5, <1>6, AppendPlain
    <2>2. Changes({"ck"}) /\ exec'.ck = c
      BY <1>1, <1>2, <1>3, <1>4, <1>6, SetCkOnly
    <2> QED
      BY <1>1, <1>3, <1>6, <2>1, <2>2, AppendedSame
  <1>7. CASE /\ exec.ck.phase = "verification" /\ run.status = "running"
             /\ Append1(Ev("VerificationStarted"), Verification({}))
             /\ UNCHANGED exec /\ Appended
    <2>1. Appends("VerificationStarted", c)
      BY <1>2, <1>3, <1>5, <1>7, AppendPlain
    <2> QED
      BY <1>1, <1>3, <1>7, <2>1, AppendedSame
  <1>8. CASE /\ exec.ck.phase = "verification" /\ run.status = "verifying"
             /\ LET open == run.required \ exec.ck.verified
                IN IF open = {}
                   THEN exec' = [exec EXCEPT !.pc = "enter", !.key = <<"evidence">>]
                   ELSE exec' = [exec EXCEPT !.pc = "enter",
                                             !.key = <<"verifier", NextVerifier(open)>>]
             /\ Local
    <2>1. PICK k : k = VKey(run.required \ exec.ck.verified)
      OBVIOUS
    <2>2. k \in BoundaryKeys
      BY <1>2, <2>1, VKeyMade
    <2>3. exec' = [exec EXCEPT !.pc = "enter", !.key = k]
      BY <1>8, <2>1 DEF VKey
    <2>4. Changes({"pc", "key"}) /\ exec'.pc = "enter" /\ exec'.key = k
      BY <1>1, <1>2, <1>5, <2>2, <2>3, SetKey
    <2> QED
      BY <1>1, <1>8, <2>1, <2>4, LocalSame DEF SameStore
  <1> QED
    BY <1>6, <1>7, <1>8 DEF Finalize

\* AfterVerifier, by what it does.
DoesAfterVerifier ==
  /\ exec # None /\ exec.pc = "after" /\ exec.key \in BoundaryKeys /\ exec.key[1] = "verifier"
  /\ SameRest /\ slots' = slots /\ calls' = calls
  /\ Changes({"pc", "ck"}) /\ exec'.pc \in {"finalize", "fail"}
  /\ \E v \in SUBSET Verifiers : exec'.ck = Verification(v)
  /\ Appends("VerificationRecorded", exec'.ck)

\* What a verdict does.
LEMMA DoAfterVerifier ==
  ASSUME Shape, AfterVerifier
  PROVE  DoesAfterVerifier
  <1> USE DEF DoesAfterVerifier
  <1>1. exec # None /\ exec.pc = "after" /\ exec.pc \in Keyed /\ exec.key[1] = "verifier" /\ Appended
    BY DEF AfterVerifier, At, Keyed
  <1>2. /\ exec \in Executions /\ StoreTypes /\ exec.key \in BoundaryKeys /\ exec.key[2] \in Verifiers
        /\ exec.ck.verified \subseteq Verifiers
    BY <1>1, ExecFields, ExecKey
  <1>3. PICK v : v = exec.ck.verified \cup {exec.key[2]}
    OBVIOUS
  <1>4. v \in SUBSET Verifiers
    BY <1>2, <1>3
  <1>5. PICK c : c = Verification(v)
    OBVIOUS
  <1>6. c \in Checkpoints
    BY <1>4, <1>5, VerificationMade
  <1>7. PICK p \in {"finalize", "fail"} : p = IF exec.outcome = "pass" THEN "finalize" ELSE "fail"
    OBVIOUS
  <1>8. Append1(EvVerified(exec.key[2], exec.outcome), c) /\ exec' = [exec EXCEPT !.pc = p, !.ck = c]
    BY <1>3, <1>5, <1>7 DEF AfterVerifier
  <1>9. Appends("VerificationRecorded", c)
    BY <1>2, <1>8, AppendVerified
  <1>10. Changes({"pc", "ck"}) /\ exec'.pc = p /\ exec'.ck = c
    BY <1>1, <1>2, <1>6, <1>7, <1>8, SetCk DEF LoopPcs
  <1> QED
    BY <1>1, <1>2, <1>4, <1>5, <1>7, <1>9, <1>10, AppendedSame

\* AfterEvidence, by what it does.
DoesAfterEvidence ==
  /\ exec # None /\ exec' = None /\ SameRest /\ slots' = slots /\ calls' = calls
  /\ Appends("RunCompleted", None) \/ Appends("RunFailed", None)

\* What the end of #finalize does.
LEMMA DoAfterEvidence ==
  ASSUME Shape, AfterEvidence
  PROVE  DoesAfterEvidence
  <1> USE DEF DoesAfterEvidence
  <1>1. exec # None /\ StoreTypes /\ "RunCompleted" \in PlainTypes
    BY DEF AfterEvidence, At, Shape, LoopTypes, PlainTypes, LoopEventTypes
  <1>2. CASE Satisfied(run)
    BY <1>1, <1>2, AppendPlain, AppendedSame DEF AfterEvidence, Leave
  <1>3. CASE ~Satisfied(run)
    BY <1>1, <1>3, DoFail DEF AfterEvidence
  <1> QED
    BY <1>2, <1>3
\* Where the loop gives up.
Exhausted ==
  \/ TurnExhausted \/ ModelExhausted \/ ToolExhausted \/ VerificationFailed
  \/ Overdue \/ ActiveTimeExhausted \/ PolicyDenies

\* Exhausted, by what it does.
DoesExhausted ==
  /\ exec # None /\ exec' = None /\ Appends("RunFailed", None)
  /\ SameRest /\ slots' = slots /\ calls' = calls

\* What a budget or check that fails the run does.
LEMMA DoExhausted ==
  ASSUME Shape, Exhausted
  PROVE  DoesExhausted
  <1> USE DEF DoesExhausted
  <1>1. exec # None
    BY DEF Exhausted, TurnExhausted, ModelExhausted, ToolExhausted, VerificationFailed, Overdue,
           ActiveTimeExhausted, PolicyDenies, At
  <1>2. RunFailed
    BY DEF Exhausted, TurnExhausted, ModelExhausted, ToolExhausted, VerificationFailed, Overdue,
           ActiveTimeExhausted, PolicyDenies
  <1> QED
    BY <1>1, <1>2, DoFail

\* Where the execution ends without a write.
Ended == Notice \/ Crash \/ Throw \/ Rethrow \/ ApprovalExpired

\* Ended, by what it does.
DoesEnded ==
  exec # None /\ exec' = None /\ Quiet

\* What a noticed end, a crash, a store error, a rethrown error or an expired approval does.
LEMMA DoEnded ==
  ASSUME Shape, Ended
  PROVE  DoesEnded
  <1> USE DEF DoesEnded
  <1>1. exec # None /\ exec' = None
    BY DEF Ended, Notice, Crash, Throw, Rethrow, ApprovalExpired, Leave, At
  <1>2. CASE Notice
    BY <1>1, <1>2, LocalSame, SameIsQuiet DEF Notice
  <1>3. CASE Crash
    BY <1>1, <1>3, FaultIsQuiet DEF Crash
  <1>4. CASE Throw
    BY <1>1, <1>4, FaultIsQuiet DEF Throw
  <1>5. CASE Rethrow \/ ApprovalExpired
    <2>1. SameStore
      BY <1>5 DEF Rethrow, ApprovalExpired, SameStore, SameStream, SameRest, store
    <2> QED
      BY <1>1, <2>1, SameIsQuiet
  <1> QED
    BY <1>2, <1>3, <1>4, <1>5 DEF Ended

\* Start, by what it does.
DoesStart ==
  /\ run.status = "created" /\ run' \in Projections /\ run'.status = "accepted"
  /\ count' = count /\ snapshot' = snapshot /\ suffix' = suffix /\ SameRest
  /\ slots' = slots /\ calls' = calls /\ exec' = exec

\* What start does.
LEMMA DoStart ==
  ASSUME Shape, Start
  PROVE  DoesStart
  <1> USE DEF DoesStart
  <1>1. /\ run.status = "created" /\ count' = count /\ snapshot' = snapshot /\ suffix' = suffix
        /\ SameRest /\ slots' = slots /\ calls' = calls /\ exec' = exec
    BY DEF Start, SameRest
  <1>2. run \in Projections
    BY DEF Shape, LoopTypes, StoreTypes
  <1>3. PICK e : e = [Ev("RunAccepted") EXCEPT !.required = Verifiers]
    OBVIOUS
  <1>4. e.type = "RunAccepted" /\ e.required = Verifiers /\ e.id = None
    BY <1>3 DEF Ev
  <1>5. run' = Reduce(run, e)
    BY <1>3 DEF Start
  <1>6. "accepted" # None /\ "accepted" \in Statuses
    BY NoneNoStatus DEF Statuses
  <1>7. /\ Reduce(run, e).status = "accepted" /\ Reduce(run, e).required = Verifiers
        /\ Reduce(run, e).kind = run.kind /\ Reduce(run, e).lastSequence = run.lastSequence + 1
        /\ Reduce(run, e).exceptions = run.exceptions
    BY <1>4, <1>6 DEF Reduce, nextStatusFor
  <1>8. /\ Reduce(run, e).waitingRequestId = run.waitingRequestId
        /\ Reduce(run, e).waitingDecisionId = run.waitingDecisionId
        /\ Reduce(run, e).resumeTarget = run.resumeTarget
        /\ Reduce(run, e).activeEffectId = run.activeEffectId
        /\ Reduce(run, e).passed = run.passed
    BY <1>4 DEF Reduce, Passed
  <1>9. Reduce(run, e).terminalError = run.terminalError
    BY <1>4 DEF Reduce
  <1>10. Reduce(run, e) = [kind |-> Reduce(run, e).kind, status |-> Reduce(run, e).status,
          lastSequence |-> Reduce(run, e).lastSequence, required |-> Reduce(run, e).required,
          waitingRequestId |-> Reduce(run, e).waitingRequestId,
          waitingDecisionId |-> Reduce(run, e).waitingDecisionId,
          resumeTarget |-> Reduce(run, e).resumeTarget, activeEffectId |-> Reduce(run, e).activeEffectId,
          passed |-> Reduce(run, e).passed, exceptions |-> Reduce(run, e).exceptions,
          terminalError |-> Reduce(run, e).terminalError]
    BY DEF Reduce
  <1>11. /\ run.kind \in Kinds /\ run.lastSequence + 1 \in Nat
         /\ run.waitingRequestId \in Ids \cup {None} /\ run.waitingDecisionId \in Ids \cup {None}
         /\ run.resumeTarget \in ResumeTargets \cup {None} /\ run.activeEffectId \in Ids \cup {None}
    BY <1>2 DEF Projections
  <1>12. run.passed \in SUBSET Verifiers /\ run.exceptions \in SUBSET Verifiers
    BY <1>2 DEF Projections
  <1>13. run.terminalError \in BOOLEAN
    BY <1>2 DEF Projections
  <1>14. Reduce(run, e) \in Projections
    BY <1>6, <1>7, <1>8, <1>9, <1>10, <1>11, <1>12, <1>13 DEF Projections
  <1> QED
    BY <1>1, <1>5, <1>7, <1>14

\* Command, by what it does.
DoesCommand ==
  /\ exec' = exec /\ setup' = setup /\ slots' = slots /\ calls' = calls /\ sent' = sent
  /\ faults' = faults
  /\ \/ run.status = "waiting_for_input" /\ Appends("InputSubmitted", None) /\ approved' = approved
     \/ run.status = "waiting_for_approval" /\ Appends("ApprovalRecorded", None) /\ approved' = TRUE
     \/ Appends("RunCancelled", None) /\ approved' = approved

\* What submitInput, decide and cancel does.
LEMMA DoCommand ==
  ASSUME Shape, SubmitInput \/ Approve \/ Cancel
  PROVE  DoesCommand
  <1> USE DEF DoesCommand
  <1>1. StoreTypes /\ {"InputSubmitted", "RunCancelled"} \subseteq PlainTypes
    BY DEF Shape, LoopTypes, PlainTypes, LoopEventTypes
  <1>2. CASE SubmitInput
    BY <1>1, <1>2, AppendPlain DEF SubmitInput, Appended
  <1>3. CASE Approve
    BY <1>1, <1>3, AppendApproved DEF Approve
  <1>4. CASE Cancel
    BY <1>1, <1>4, AppendPlain DEF Cancel, Appended
  <1> QED
    BY <1>2, <1>3, <1>4

\* Host maintenance moves one reservation.
DoesReconcile ==
  /\ exec' = exec /\ SameStream /\ SameRest
  /\ \/ /\ slots' = slots
        /\ \E c \in Steps \X Attempts :
             \/ calls[c] = "accepted" /\ calls' = [calls EXCEPT ![c] = "expired"]
             \/ calls[c] = "dispatched" /\ calls' = [calls EXCEPT ![c] = "uncertain"]
     \/ /\ calls' = calls
        /\ \E k \in BoundaryKeys :
             slots[k] = "reserved" /\ slots' = [slots EXCEPT ![k] = "closed_uncertain"]

\* What reconcileExpired does.
LEMMA DoReconcile ==
  ASSUME Shape, Reconcile
  PROVE  DoesReconcile
  <1> USE DEF DoesReconcile
  <1>1. DOMAIN calls = Steps \X Attempts
    BY DEF Shape, LoopTypes, StoreTypes
  <1>2. exec' = exec /\ SameStream /\ SameRest
    BY DEF Reconcile, SameStream, SameRest
  <1>3. CASE /\ \E c \in DOMAIN calls :
                 calls[c] # Reconciled(calls[c]) /\ calls' = [calls EXCEPT ![c] = Reconciled(@)]
             /\ UNCHANGED slots
    <2>1. PICK c \in Steps \X Attempts :
            calls[c] # Reconciled(calls[c]) /\ calls' = [calls EXCEPT ![c] = Reconciled(calls[c])]
      BY <1>1, <1>3
    <2>2. \/ calls[c] = "accepted" /\ Reconciled(calls[c]) = "expired"
          \/ calls[c] = "dispatched" /\ Reconciled(calls[c]) = "uncertain"
      BY <2>1 DEF Reconciled
    <2> QED
      BY <1>2, <1>3, <2>1, <2>2
  <1>4. CASE /\ \E k \in BoundaryKeys :
                 slots[k] = "reserved" /\ slots' = [slots EXCEPT ![k] = "closed_uncertain"]
             /\ UNCHANGED calls
    BY <1>2, <1>4
  <1> QED
    BY <1>3, <1>4 DEF Reconcile
-----------------------------------------------------------------------------
(* Every step of the loop keeps the shape of the state. *)

\* The types of the store, when the stream stays.
LEMMA TypesSame ==
  ASSUME StoreTypes, SameStream, setup' = setup, approved' \in BOOLEAN,
         sent' \in [BoundaryKeys -> 0..2], faults' \in 0..MaxFaults,
         slots' \in [BoundaryKeys -> ActiveStates \cup {NoReservation}],
         calls' \in [Steps \X Attempts -> ModelStates \cup {NoReservation}]
  PROVE  StoreTypes'
  BY DEF StoreTypes, SameStream

\* The types of the store, after an append within the budget.
LEMMA TypesAppend ==
  ASSUME StoreTypes, NEW t \in LoopEventTypes, NEW c \in Checkpoints \cup {None}, Appends(t, c),
         t = "PlanningStarted" => count.turns < MaxTurns,
         t = "ToolCallRequested" => count.tools < MaxToolCalls,
         setup' = setup, approved' \in BOOLEAN, sent' = sent, faults' = faults, slots' = slots,
         calls' \in [Steps \X Attempts -> ModelStates \cup {NoReservation}]
  PROVE  StoreTypes'
  <1>1. /\ snapshot' \in Checkpoints \cup {None} /\ suffix' \in Seq(EventTypes)
        /\ count' \in [turns : Nat, models : Nat, tools : Nat]
        /\ count'.turns = count.turns + (IF t = "PlanningStarted" THEN 1 ELSE 0)
        /\ count'.tools = count.tools + (IF t = "ToolCallRequested" THEN 1 ELSE 0)
        /\ run' \in Projections
    BY AppendTypes
  <1>2. count.turns \in 0..MaxTurns /\ count.tools \in 0..MaxToolCalls
    BY DEF StoreTypes
  <1>3. count'.turns \in 0..MaxTurns /\ count'.tools \in 0..MaxToolCalls
    BY <1>1, <1>2, LoopBounds
  <1>4. count' \in [turns : 0..MaxTurns, models : Nat, tools : 0..MaxToolCalls]
    BY <1>1, <1>3
  <1> QED
    BY <1>1, <1>4 DEF StoreTypes

\* The stored checkpoint, when the stream stays, and after an append.
LEMMA SnapSame ==
  ASSUME Shape, SameStream, setup' = setup
  PROVE  SnapShape'
  BY DEF Shape, SnapShape, SameStream, CkShape

\* An append leaves a checkpoint of the right shape.
LEMMA SnapAppend ==
  ASSUME Shape, NEW t \in LoopEventTypes, NEW c \in Checkpoints \cup {None}, Appends(t, c),
         setup' = setup, t = "ToolCallRequested" => c # None,
         c # None =>
           /\ c.phase # None /\ CkShape(c, count'.models + 1) /\ count'.turns >= 1
           /\ c.phase = "tool_request" => count'.tools < MaxToolCalls
  PROVE  SnapShape'
  <1>1. /\ count'.turns = count.turns + (IF t = "PlanningStarted" THEN 1 ELSE 0)
        /\ count'.models = count.models + (IF t = "ModelCallStarted" THEN 1 ELSE 0)
        /\ count'.tools = count.tools + (IF t = "ToolCallRequested" THEN 1 ELSE 0)
        /\ count.turns \in Nat /\ count.models \in Nat /\ count.tools \in Nat
    BY AppendTypes, LoopBounds DEF Shape, LoopTypes, StoreTypes
  <1>2. CASE c # None /\ setup.context
    BY <1>2 DEF Appends, SnapShape
  <1>3. CASE c = None \/ ~setup.context
    <2>1. snapshot' = snapshot
      BY <1>3 DEF Appends
    <2>2. CASE snapshot = None
      BY <2>1, <2>2 DEF SnapShape
    <2>3. CASE snapshot # None
      <3>1. setup.context /\ count.turns >= 1 /\ snapshot.phase # None /\ CkShape(snapshot, count.models + 1)
            /\ (snapshot.phase = "tool_request" => count.tools < MaxToolCalls)
        BY <2>3 DEF Shape, SnapShape
      <3>2. t # "ToolCallRequested" /\ snapshot.attempt \in Nat
        BY <1>3, <2>3, <3>1 DEF Shape, LoopTypes, StoreTypes, Checkpoints
      <3>3. CkShape(snapshot, count'.models + 1)
        BY <1>1, <3>1, <3>2, LoopBounds DEF CkShape
      <3> QED
        BY <1>1, <2>1, <3>1, <3>2, <3>3 DEF SnapShape
    <2> QED
      BY <2>2, <2>3
  <1> QED
    BY <1>2, <1>3

\* The parts together.
LEMMA ShapeWhole ==
  ASSUME StoreTypes', exec' \in Executions \cup {None}, ExecShape', SnapShape'
  PROVE  Shape'
  BY DEF Shape, LoopTypes

\* An execution that has ended has no shape to keep.
LEMMA ShapeEnded ==
  ASSUME StoreTypes', exec' = None, SnapShape'
  PROVE  Shape'
  BY DEF Shape, LoopTypes, ExecShape

\* A step without a write to stream or reservations.
LEMMA QuietTypes ==
  ASSUME Shape, Quiet
  PROVE  StoreTypes' /\ SnapShape' /\ count' = count /\ setup' = setup
  BY SnapSame, TypesSame DEF Quiet, Shape, LoopTypes, StoreTypes, SameStream

\* Ending the execution with an event without a checkpoint.
LEMMA AppendEnds ==
  ASSUME Shape, NEW t \in LoopEventTypes \ {"PlanningStarted", "ToolCallRequested"},
         Appends(t, None), SameRest, slots' = slots, calls' = calls, exec' = None
  PROVE  Shape'
  <1>1. StoreTypes /\ approved \in BOOLEAN /\ calls \in [Steps \X Attempts -> ModelStates \cup {NoReservation}]
    BY DEF Shape, LoopTypes, StoreTypes
  <1>2. StoreTypes'
    BY <1>1, TypesAppend DEF SameRest
  <1>3. SnapShape'
    BY SnapAppend DEF SameRest
  <1> QED
    BY <1>2, <1>3, ShapeEnded

\* A step of the execution on an unchanged store.
LEMMA ShapeQuiet ==
  ASSUME Shape, Quiet, exec' \in Executions \cup {None}, ExecShape'
  PROVE  Shape'
  BY QuietTypes, ShapeWhole
\* None is no phase of a checkpoint.
LEMMA NoPhase ==
  /\ None # "model" /\ None # "model_inflight" /\ None # "emission" /\ None # "tool_request"
  /\ None # "tool" /\ None # "turn" /\ None # "input" /\ None # "scheduled_backoff"
  /\ None # "final" /\ None # "verification"
  BY NoneIsNoData DEF CheckpointPhases

\* Every case of the steps below: the fields that change decide what must hold of them.
LEMMA ShapeBackoff ==
  ASSUME Shape, Backoff PROVE Shape'
  <1> USE DEF DoesBackoff
  <1>1. DoesBackoff
    BY DoBackoff
  <1>2. Quiet /\ count' = count /\ setup' = setup
    BY <1>1, SameIsQuiet, QuietTypes
  <1>3. exec.ck.back \in {"model", "tool"} /\ exec' \in Executions
    BY <1>1, NoneIsNoData DEF Shape, ExecShape, CkShape, Changes
  <1>4. ExecShape'
    BY <1>1, <1>2, <1>3, NoPhase DEF Shape, ExecShape, CkShape, Changes, Of, BackTo, ToolSide,
       Keyed, Inside, ModelPhases
  <1> QED
    BY <1>2, <1>3, <1>4, ShapeQuiet

\* The shape of the state survives entering a turn.
LEMMA ShapeTurn ==
  ASSUME Shape, Turn PROVE Shape'
  <1> USE DEF DoesTurn
  <1>1. DoesTurn
    BY DoTurn
  <1>2. exec' \in Executions /\ "turn" # None /\ StoreTypes /\ exec.models \in Nat
    BY <1>1, NoneIsNoData, ExecFields DEF Changes, CheckpointPhases
  <1>3. CASE /\ SameStore /\ Changes({"pc"})
             /\ \/ exec.ck.phase \in {"emission", "tool_request", "tool"} /\ exec'.pc = "emit"
                \/ exec.ck.phase \in ModelPhases /\ exec'.pc = "model"
    <2>1. Quiet /\ count' = count /\ setup' = setup
      BY <1>3, SameIsQuiet, QuietTypes
    <2>2. ExecShape'
      BY <1>1, <1>2, <1>3, <2>1, NoPhase DEF Shape, ExecShape, CkShape, Changes, Of, BackTo,
         ToolSide, Keyed, Inside, ModelPhases
    <2> QED
      BY <1>2, <2>1, <2>2, ShapeQuiet
  <1>4. CASE /\ exec.ck.phase \in {None, "turn"}
             /\ Appends("PlanningStarted", Ckpt("model", exec.models + 1, None))
             /\ SameRest /\ slots' = slots /\ calls' = calls
             /\ Changes({"pc", "turns"}) /\ exec'.pc = "model" /\ exec'.turns = exec.turns + 1
    <2>1. PICK c \in Checkpoints : c = Ckpt("model", exec.models + 1, None) /\ c # None
            /\ c.phase = "model" /\ c.attempt = exec.models + 1
      BY <1>2, CkptMade DEF CheckpointPhases
    <2>2. "PlanningStarted" \in LoopEventTypes /\ Appends("PlanningStarted", c)
      BY <1>4, <2>1 DEF LoopEventTypes
    <2>3. /\ count'.turns = count.turns + 1 /\ count'.models = count.models /\ count'.tools = count.tools
          /\ count.turns \in Nat /\ exec.turns = count.turns /\ count.tools \in Nat /\ count.models \in Nat
      <3>1. count.turns \in Nat /\ count.models \in Nat /\ count.tools \in Nat /\ exec.turns = count.turns
        BY <1>1, <1>2, ExecFields, LoopBounds DEF StoreTypes
      <3> QED
        BY <1>2, <2>2, <3>1, AppendTypes
    <2>4. approved \in BOOLEAN /\ calls \in [Steps \X Attempts -> ModelStates \cup {NoReservation}]
      BY <1>2 DEF StoreTypes
    <2>5. StoreTypes'
      BY <1>1, <1>2, <1>4, <2>2, <2>3, <2>4, TypesAppend DEF SameRest
    <2>6. exec.models <= MaxModelCalls \/ exec.models <= count.models
      BY <1>1, <1>4 DEF Shape, ExecShape, ToolSide
    <2>7. SnapShape'
      <3>1. CkShape(c, count'.models + 1) /\ c.phase # None
        BY <1>2, <2>1, <2>3, <2>6, LoopBounds, NoneIsNoData DEF CkShape, ModelPhases,
           CheckpointPhases
      <3> QED
        BY <1>2, <1>4, <2>1, <2>2, <2>3, <3>1, SnapAppend DEF SameRest
    <2>8. ExecShape'
      BY <1>1, <1>2, <1>4, <2>3 DEF Shape, ExecShape, CkShape, Changes, Of, BackTo, ToolSide,
         Keyed, Inside, ModelPhases, SameRest
    <2> QED
      BY <1>2, <2>5, <2>7, <2>8, ShapeWhole
  <1> QED
    BY <1>1, <1>3, <1>4
\* A step that writes reservations, sends a call or counts a fault.
LEMMA ShapeSame ==
  ASSUME Shape, SameStream, setup' = setup, approved' = approved, faults' \in 0..MaxFaults,
         sent' \in [BoundaryKeys -> 0..2],
         slots' \in [BoundaryKeys -> ActiveStates \cup {NoReservation}],
         calls' \in [Steps \X Attempts -> ModelStates \cup {NoReservation}],
         exec' \in Executions \cup {None}, ExecShape'
  PROVE  Shape'
  <1>1. StoreTypes'
    BY TypesSame DEF Shape, LoopTypes, StoreTypes
  <1> QED
    BY <1>1, SnapSame, ShapeWhole

\* A step that appends an event.
LEMMA ShapeAppend ==
  ASSUME Shape, NEW t \in LoopEventTypes, NEW c \in Checkpoints \cup {None}, Appends(t, c),
         t = "PlanningStarted" => count.turns < MaxTurns,
         t = "ToolCallRequested" => count.tools < MaxToolCalls /\ c # None,
         setup' = setup, approved' \in BOOLEAN, sent' = sent, faults' = faults, slots' = slots,
         calls' \in [Steps \X Attempts -> ModelStates \cup {NoReservation}],
         c # None =>
           /\ c.phase # None /\ CkShape(c, count'.models + 1) /\ count'.turns >= 1
           /\ c.phase = "tool_request" => count'.tools < MaxToolCalls,
         exec' \in Executions \cup {None}, ExecShape'
  PROVE  Shape'
  <1>1. StoreTypes
    BY DEF Shape, LoopTypes
  <1>2. StoreTypes'
    BY <1>1, TypesAppend
  <1>3. SnapShape'
    BY SnapAppend
  <1> QED
    BY <1>2, <1>3, ShapeWhole

\* What an append counts.
LEMMA Counted ==
  ASSUME Shape, NEW t \in LoopEventTypes, NEW c \in Checkpoints \cup {None}, Appends(t, c)
  PROVE  /\ count.turns \in Nat /\ count.models \in Nat /\ count.tools \in Nat
         /\ count'.turns = count.turns + (IF t = "PlanningStarted" THEN 1 ELSE 0)
         /\ count'.models = count.models + (IF t = "ModelCallStarted" THEN 1 ELSE 0)
         /\ count'.tools = count.tools + (IF t = "ToolCallRequested" THEN 1 ELSE 0)
  <1>1. StoreTypes /\ count.turns \in Nat /\ count.models \in Nat /\ count.tools \in Nat
    BY LoopBounds DEF Shape, LoopTypes, StoreTypes
  <1> QED
    BY <1>1, AppendTypes

\* The tables of reservations and calls of a shaped state.
LEMMA Tables ==
  ASSUME Shape
  PROVE  /\ slots \in [BoundaryKeys -> ActiveStates \cup {NoReservation}]
         /\ calls \in [Steps \X Attempts -> ModelStates \cup {NoReservation}]
         /\ sent \in [BoundaryKeys -> 0..2] /\ approved \in BOOLEAN /\ faults \in 0..MaxFaults
  BY DEF Shape, LoopTypes, StoreTypes

\* The shape of the state survives going to #finalize.
LEMMA ShapeFinal ==
  ASSUME Shape, FinalOrVerification PROVE Shape'
  <1> USE DEF DoesFinal
  <1>1. DoesFinal
    BY DoFinal
  <1>2. Quiet /\ count' = count /\ setup' = setup /\ exec' \in Executions
    BY <1>1, SameIsQuiet, QuietTypes DEF Changes
  <1>3. ExecShape'
    BY <1>1, <1>2, NoPhase DEF Shape, ExecShape, CkShape, Changes, Of, BackTo, ToolSide, Keyed,
       Inside, ModelPhases
  <1> QED
    BY <1>2, <1>3, ShapeQuiet

\* The shape of the state survives the step before a model call.
LEMMA ShapeModelStep ==
  ASSUME Shape, ModelStep PROVE Shape'
  <1> USE DEF DoesModelStep
  <1>1. DoesModelStep
    BY DoModelStep
  <1>2. /\ ModelKey \in BoundaryKeys /\ ModelKey[1] = "model" /\ Attempt \in Attempts
        /\ <<step, Attempt>> \in Steps \X Attempts
        /\ exec.ck.phase \in ModelPhases => Attempt = exec.ck.attempt
    BY <1>1, ModelKeyMade
  <1>3. CASE exec' = None /\ Appends("RunSuspended", None) /\ SameRest /\ slots' = slots /\ calls' = calls
    BY <1>3, AppendEnds DEF LoopEventTypes
  <1>4. CASE /\ SameStore /\ exec'.key = ModelKey
             /\ \/ Changes({"pc", "key", "inflight"}) /\ exec'.pc = "enter"
                \/ Changes({"pc", "key", "outcome"}) /\ exec'.pc = "retry"
    <2>1. Quiet /\ count' = count /\ setup' = setup /\ exec' \in Executions
      BY <1>4, SameIsQuiet, QuietTypes DEF Changes
    <2>2. exec.ck.attempt <= LastAttempt
      BY <1>1, <1>2, LoopBounds, NoPhase, ExecFields DEF Shape, ExecShape, CkShape, Attempts,
         ModelPhases
    <2>3. exec'.key[1] = "model" /\ exec'.key \in BoundaryKeys
      BY <1>2, <1>4
    <2>4. ExecShape'
      BY <1>1, <1>4, <2>1, <2>2, <2>3, NoPhase DEF Shape, ExecShape, CkShape, Changes, Of, BackTo,
         ToolSide, Keyed, Inside, ModelPhases
    <2> QED
      BY <2>1, <2>4, ShapeQuiet
  <1>5. CASE /\ calls' = [calls EXCEPT ![<<step, Attempt>>] = "uncertain"] /\ exec' = exec
             /\ SameStream /\ SameRest /\ slots' = slots
    <2>1. /\ calls' \in [Steps \X Attempts -> ModelStates \cup {NoReservation}]
          /\ exec' \in Executions /\ count' = count /\ setup' = setup
      BY <1>1, <1>2, <1>5, Tables, ExecFields DEF ModelStates, SameStream, SameRest
    <2>2. ExecShape'
      BY <1>5, <2>1 DEF Shape, ExecShape, Of, BackTo, ToolSide
    <2> QED
      BY <1>5, <2>1, <2>2, ShapeSame, Tables DEF SameRest
  <1> QED
    BY <1>1, <1>3, <1>4, <1>5

\* The shape of the state survives the entry of #withActiveExecution.
LEMMA ShapeEnter ==
  ASSUME Shape, Enter PROVE Shape'
  <1> USE DEF DoesEnter
  <1>1. DoesEnter
    BY DoEnter
  <1>2. slots' \in [BoundaryKeys -> ActiveStates \cup {NoReservation}]
    BY <1>1, Tables DEF ClosedStates, ActiveStates
  <1>3. count' = count /\ setup' = setup
    BY <1>1 DEF SameStream, SameRest
  <1>4. exec' \in Executions \cup {None}
    BY <1>1 DEF Changes
  <1>5. /\ exec.key[1] \in AttemptKinds =>
             exec.key[3] \in Attempts /\ exec.key[3] \in Nat
        /\ exec.models \in Nat /\ exec.ck.attempt \in Nat
    BY <1>1, ExecKey, ExecFields DEF Keyed
  <1>6. ExecShape'
    <2>1. CASE exec' = None
      BY <2>1 DEF ExecShape
    <2>2. CASE Changes({"pc"}) /\ exec'.pc = "call"
      BY <1>1, <1>3, <2>2, NoPhase DEF Shape, ExecShape, CkShape, Changes, Of, BackTo, ToolSide,
         Keyed, Inside, ModelPhases
    <2>3. CASE Changes({"pc", "held"}) /\ exec'.pc = "call"
      BY <1>1, <1>3, <2>3, NoPhase DEF Shape, ExecShape, CkShape, Changes, Of, BackTo, ToolSide,
         Keyed, Inside, ModelPhases
    <2>4. CASE /\ exec.key[1] \in {"model", "tool"}
               /\ Changes({"pc", "outcome", "models"}) /\ exec'.pc = "retry"
               /\ exec'.models = IF exec.key[1] = "model" /\ exec.models < exec.key[3]
                                 THEN exec.key[3] ELSE exec.models
      <3>1. exec'.models \in Nat /\ exec'.models >= exec.models
        BY <1>5, <2>4 DEF AttemptKinds
      <3>2. exec'.key = exec.key /\ exec'.ck = exec.ck /\ exec'.turns = exec.turns /\ exec'.tools = exec.tools
        BY <2>4 DEF Changes
      <3>3. exec'.models = exec.models \/ exec.key[1] = "model"
        BY <2>4
      <3>4. CkShape(exec'.ck, exec'.models + 1)
        BY <1>1, <1>5, <3>1, <3>2, LoopBounds DEF Shape, ExecShape, CkShape
      <3> QED
        BY <1>1, <1>3, <2>4, <3>2, <3>3, <3>4, NoPhase DEF Shape, ExecShape, Of, BackTo, ToolSide,
           Keyed, Inside, ModelPhases
    <2> QED
      BY <1>1, <2>1, <2>2, <2>3, <2>4
  <1> QED
    BY <1>1, <1>2, <1>4, <1>6, ShapeSame, Tables DEF SameRest
\* The shape of the state survives announcing a model call.
LEMMA ShapeModelStart ==
  ASSUME Shape, LocalModelStart \/ ProductionStart PROVE Shape'
  <1> USE DEF DoesModelStart
  <1>1. DoesModelStart
    BY DoModelStart
  <1>2. CASE /\ SameStore
             /\ \/ Changes({"pc"}) /\ exec'.pc = "send"
                \/ Changes({"pc", "outcome"}) /\ exec'.pc = "settle"
    <2>1. Quiet /\ count' = count /\ setup' = setup /\ exec' \in Executions
      BY <1>2, SameIsQuiet, QuietTypes DEF Changes
    <2>2. ExecShape'
      BY <1>1, <1>2, <2>1, NoPhase DEF Shape, ExecShape, CkShape, Changes, Of, BackTo, ToolSide,
         Keyed, Inside, ModelPhases
    <2> QED
      BY <2>1, <2>2, ShapeQuiet
  <1>3. CASE /\ Appends("ModelCallStarted", Ckpt("model_inflight", exec.key[3], None))
             /\ SameRest /\ slots' = slots /\ Changes({"pc"})
             /\ \/ ~setup.production /\ calls' = calls /\ exec'.pc = "send"
                \/ /\ setup.production /\ calls[Call] \in {NoReservation, "accepted"}
                   /\ calls' = [calls EXCEPT ![Call] = "accepted"] /\ exec'.pc = "dispatch"
    <2>1. PICK c \in Checkpoints : c = Ckpt("model_inflight", exec.key[3], None) /\ c # None
            /\ c.phase = "model_inflight" /\ c.attempt = exec.key[3]
      BY <1>1, CkptMade DEF CheckpointPhases
    <2>2. "ModelCallStarted" \in LoopEventTypes /\ Appends("ModelCallStarted", c)
      BY <1>3, <2>1 DEF LoopEventTypes
    <2>3. /\ count.turns \in Nat /\ count.models \in Nat /\ count.tools \in Nat
          /\ count'.turns = count.turns /\ count'.models = count.models + 1 /\ count'.tools = count.tools
      BY <2>2, Counted
    <2>4. calls' \in [Steps \X Attempts -> ModelStates \cup {NoReservation}]
      BY <1>1, <1>3, Tables DEF ModelStates
    <2>5. exec.key[3] \in Attempts /\ exec.key[3] \in Nat
      BY <1>1, ExecKey DEF Keyed, Inside, AttemptKinds
    <2>6. count.turns >= 1
      BY <1>1 DEF Shape, ExecShape
    <2>7. CkShape(c, count'.models + 1) /\ c.phase # None /\ c.phase # "tool_request"
      BY <2>1, <2>5, NoPhase, LoopBounds DEF CkShape, ModelPhases, Attempts
    <2>8. exec' \in Executions /\ setup' = setup
      BY <1>3 DEF Changes, SameRest
    <2>9. ExecShape'
      <3>1. exec.models < MaxModelCalls
        BY <1>1 DEF Shape, ExecShape, Of, Keyed, Inside
      <3> QED
        BY <1>1, <1>3, <2>3, <2>8, <3>1, NoPhase DEF Shape, ExecShape, CkShape, Changes, Of,
           BackTo, ToolSide, Keyed, Inside, ModelPhases
    <2> QED
      BY <1>3, <2>1, <2>2, <2>3, <2>4, <2>6, <2>7, <2>8, <2>9, ShapeAppend, Tables DEF SameRest
  <1> QED
    BY <1>1, <1>2, <1>3

\* The shape of the state survives markDispatched.
LEMMA ShapeDispatch ==
  ASSUME Shape, Dispatch PROVE Shape'
  <1> USE DEF DoesDispatch
  <1>1. DoesDispatch
    BY DoDispatch
  <1>2. CASE Quiet /\ Changes({"pc", "outcome"}) /\ exec'.pc = "settle"
    <2>1. count' = count /\ setup' = setup /\ exec' \in Executions
      BY <1>2, QuietTypes DEF Changes
    <2>2. ExecShape'
      BY <1>1, <1>2, <2>1, NoPhase DEF Shape, ExecShape, CkShape, Changes, Of, BackTo, ToolSide,
         Keyed, Inside, ModelPhases
    <2> QED
      BY <1>2, <2>1, <2>2, ShapeQuiet
  <1>3. CASE /\ SameStream /\ SameRest /\ slots' = slots
             /\ calls' = [calls EXCEPT ![Call] = "dispatched"]
             /\ Changes({"pc"}) /\ exec'.pc = "send"
    <2>1. count' = count /\ setup' = setup /\ exec' \in Executions
      BY <1>3 DEF SameStream, SameRest, Changes
    <2>2. calls' \in [Steps \X Attempts -> ModelStates \cup {NoReservation}]
      BY <1>1, <1>3, Tables DEF ModelStates
    <2>3. ExecShape'
      BY <1>1, <1>3, <2>1, NoPhase DEF Shape, ExecShape, CkShape, Changes, Of, BackTo, ToolSide,
         Keyed, Inside, ModelPhases
    <2> QED
      BY <1>3, <2>1, <2>2, <2>3, ShapeSame, Tables DEF SameRest
  <1> QED
    BY <1>1, <1>2, <1>3

\* The shape of the state survives a call to the outside.
LEMMA ShapeSend ==
  ASSUME Shape, SendModel \/ (OtherCall /\ ~Asleep) PROVE Shape'
  <1> USE DEF DoesSend
  <1>1. DoesSend
    BY DoSend
  <1>2. count' = count /\ setup' = setup /\ exec' \in Executions
    BY <1>1 DEF SameStream, Changes
  <1>3. sent' \in [BoundaryKeys -> 0..2]
    BY <1>1, Tables DEF OnceMore
  <1>4. ExecShape'
    BY <1>1, <1>2, NoPhase DEF Shape, ExecShape, CkShape, Changes, Of, BackTo, ToolSide, Keyed,
       Inside, ModelPhases
  <1> QED
    BY <1>1, <1>2, <1>3, <1>4, ShapeSame, Tables

\* The shape of the state survives a slept backoff or an answer from the outside.
LEMMA ShapeQuietCall ==
  ASSUME Shape, (OtherCall /\ Asleep) \/ ModelAnswers \/ OtherAnswers PROVE Shape'
  <1> USE DEF DoesQuietCall
  <1>1. DoesQuietCall
    BY DoQuietCall
  <1>2. count' = count /\ setup' = setup /\ exec' \in Executions
    BY <1>1, QuietTypes DEF Changes
  <1>3. ExecShape'
    BY <1>1, <1>2, NoPhase DEF Shape, ExecShape, CkShape, Changes, Of, BackTo, ToolSide, Keyed,
       Inside, ModelPhases
  <1> QED
    BY <1>1, <1>2, <1>3, ShapeQuiet

\* The shape of the state survives recording a production answer.
LEMMA ShapeRecord ==
  ASSUME Shape, RecordAnswer PROVE Shape'
  <1> USE DEF DoesRecord
  <1>1. DoesRecord
    BY DoRecord
  <1>2. CASE Quiet /\ Changes({"pc", "outcome"}) /\ exec'.pc = "settle"
    <2>1. count' = count /\ setup' = setup /\ exec' \in Executions
      BY <1>2, QuietTypes DEF Changes
    <2>2. ExecShape'
      BY <1>1, <1>2, <2>1, NoPhase DEF Shape, ExecShape, CkShape, Changes, Of, BackTo, ToolSide,
         Keyed, Inside, ModelPhases
    <2> QED
      BY <1>2, <2>1, <2>2, ShapeQuiet
  <1>3. CASE /\ \/ Appends("ModelCallCompleted", Ckpt("model", exec.key[3], None))
                \/ \E o \in EmissionKinds \cup {None} :
                     Appends("ModelCallCompleted", Ckpt("emission", exec.key[3], o))
             /\ SameRest /\ slots' = slots
             /\ calls' = [calls EXCEPT ![Call] = "settled"]
             /\ Changes({"pc"}) /\ exec'.pc = "settle"
    <2>1. exec.key[3] \in Attempts /\ exec.key[3] \in Nat
      BY <1>1, ExecKey DEF Keyed, Inside, AttemptKinds
    <2>2. PICK c \in Checkpoints : c # None /\ c.phase \in {"model", "emission"} /\ c.attempt = exec.key[3]
            /\ Appends("ModelCallCompleted", c)
      BY <1>3, <2>1, CkptMade DEF CheckpointPhases
    <2>3. "ModelCallCompleted" \in LoopEventTypes
      BY DEF LoopEventTypes
    <2>4. /\ count.turns \in Nat /\ count.models \in Nat /\ count.tools \in Nat
          /\ count'.turns = count.turns /\ count'.models = count.models /\ count'.tools = count.tools
      BY <2>2, <2>3, Counted
    <2>5. calls' \in [Steps \X Attempts -> ModelStates \cup {NoReservation}]
      BY <1>1, <1>3, Tables DEF ModelStates
    <2>6. count.turns >= 1
      BY <1>1 DEF Shape, ExecShape
    <2>7. CkShape(c, count'.models + 1) /\ c.phase # None /\ c.phase # "tool_request"
      BY <2>1, <2>2, NoPhase, LoopBounds DEF CkShape, ModelPhases, Attempts
    <2>8. exec' \in Executions /\ setup' = setup
      BY <1>3 DEF Changes, SameRest
    <2>9. ExecShape'
      BY <1>1, <1>3, <2>4, <2>8, NoPhase DEF Shape, ExecShape, CkShape, Changes, Of, BackTo,
         ToolSide, Keyed, Inside, ModelPhases
    <2> QED
      BY <1>3, <2>2, <2>3, <2>4, <2>5, <2>6, <2>7, <2>8, <2>9, ShapeAppend, Tables DEF SameRest
  <1> QED
    BY <1>1, <1>2, <1>3

\* The shape of the state survives recording an uncertain production call.
LEMMA ShapeDoubt ==
  ASSUME Shape, RecordDoubt PROVE Shape'
  <1> USE DEF DoesDoubt
  <1>1. DoesDoubt
    BY DoDoubt
  <1>2. count' = count /\ setup' = setup /\ exec' \in Executions
    BY <1>1, QuietTypes DEF Changes, SameStream, SameRest
  <1>3. ExecShape'
    BY <1>1, <1>2, NoPhase DEF Shape, ExecShape, CkShape, Changes, Of, BackTo, ToolSide, Keyed,
       Inside, ModelPhases
  <1>4. CASE Quiet
    BY <1>2, <1>3, <1>4, ShapeQuiet
  <1>5. CASE SameStream /\ SameRest /\ slots' = slots /\ calls' = [calls EXCEPT ![Call] = "uncertain"]
    <2>1. calls' \in [Steps \X Attempts -> ModelStates \cup {NoReservation}]
      BY <1>1, <1>5, Tables DEF ModelStates
    <2> QED
      BY <1>2, <1>3, <1>5, <2>1, ShapeSame, Tables DEF SameRest
  <1> QED
    BY <1>1, <1>4, <1>5

\* The shape of the state survives #settleActiveExecution.
LEMMA ShapeSettle ==
  ASSUME Shape, Settle PROVE Shape'
  <1> USE DEF DoesSettle
  <1>1. DoesSettle
    BY DoSettle
  <1>2. count' = count /\ setup' = setup /\ exec' \in Executions \cup {None}
    BY <1>1 DEF Changes, SameStream, SameRest
  <1>3. slots' \in [BoundaryKeys -> ActiveStates \cup {NoReservation}]
    BY <1>1, Tables DEF ActiveStates
  <1>4. ExecShape'
    <2>1. CASE exec' = None
      BY <2>1 DEF ExecShape
    <2>2. CASE Changes({"pc", "held"}) /\ exec'.pc = "after"
      BY <1>1, <1>2, <2>2, NoPhase DEF Shape, ExecShape, CkShape, Changes, Of, BackTo, ToolSide,
         Keyed, Inside, ModelPhases
    <2> QED
      BY <1>1, <2>1, <2>2
  <1> QED
    BY <1>1, <1>2, <1>3, <1>4, ShapeSame, Tables DEF SameRest
\* No checkpoint.
LEMMA NoCkptMade ==
  NoCkpt \in Checkpoints /\ NoCkpt.phase = None /\ NoCkpt.attempt = 0
  BY CkptMade DEF NoCkpt

\* The shape of the state survives what follows a model call.
LEMMA ShapeAfterModel ==
  ASSUME Shape, AfterModel PROVE Shape'
  <1> USE DEF DoesAfterModel
  <1>1. DoesAfterModel
    BY DoAfterModel
  <1>2. CASE exec' = None /\ Appends("RunFailed", None)
    BY <1>1, <1>2, AppendEnds DEF LoopEventTypes
  <1>3. /\ exec.models \in Nat /\ exec.models < MaxModelCalls /\ exec.ck.attempt \in Nat
        /\ exec.key[3] \in Attempts /\ exec.key[3] \in Nat
        /\ exec.ck.phase \in {None, "turn"} \cup ModelPhases
    BY <1>1, ExecFields DEF Shape, ExecShape, Of, Keyed, Attempts
  <1>4. ASSUME exec' \in Executions, exec'.pc \in {"emit", "retry"}, exec'.models >= exec.models,
               exec'.models \in Nat,
               exec'.pc = "emit" => exec'.models <= MaxModelCalls,
               exec'.ck = exec.ck, exec'.key = exec.key, exec'.turns = exec.turns,
               exec'.tools = exec.tools, setup' = setup,
               count'.turns = count.turns, count'.tools = count.tools
        PROVE  ExecShape'
    <2>1. CkShape(exec'.ck, exec'.models + 1)
      BY <1>1, <1>3, <1>4, LoopBounds DEF Shape, ExecShape, CkShape
    <2> QED
      BY <1>1, <1>3, <1>4, <2>1, NoPhase DEF Shape, ExecShape, Of, BackTo, ToolSide, Keyed,
         Inside, ModelPhases
  <1>5. ModelCount \in Nat /\ ModelCount >= exec.models /\ ModelCount <= MaxModelCalls
    BY <1>3, LoopBounds DEF ModelCount
  <1>6. CASE /\ SameStream
             /\ \/ Changes({"pc", "next", "models"}) /\ exec'.pc = "emit" /\ exec'.models = ModelCount
                \/ /\ Changes({"pc", "models"}) /\ exec'.pc = "retry"
                   /\ exec'.models = IF exec.models < exec.key[3] THEN exec.key[3] ELSE exec.models
    <2>1. /\ exec' \in Executions /\ exec'.ck = exec.ck /\ exec'.key = exec.key
          /\ exec'.turns = exec.turns /\ exec'.tools = exec.tools
      BY <1>6 DEF Changes
    <2>2. /\ exec'.models \in Nat /\ exec'.models >= exec.models /\ exec'.pc \in {"emit", "retry"}
          /\ exec'.pc = "emit" => exec'.models <= MaxModelCalls
      BY <1>3, <1>5, <1>6
    <2>3. ExecShape'
      BY <1>1, <1>4, <1>6, <2>1, <2>2 DEF SameStream, SameRest
    <2> QED
      BY <1>1, <1>6, <2>1, <2>3, ShapeSame, Tables DEF SameRest
  <1>7. CASE /\ \E o \in EmissionKinds : Appends("ModelCallCompleted", Ckpt("emission", 0, o))
             /\ Changes({"pc", "next", "models"}) /\ exec'.pc = "emit" /\ exec'.models = ModelCount
    <2>1. PICK c \in Checkpoints : c # None /\ c.phase = "emission" /\ c.attempt = 0
            /\ Appends("ModelCallCompleted", c)
      BY <1>7, CkptMade DEF CheckpointPhases
    <2>2. "ModelCallCompleted" \in LoopEventTypes
      BY DEF LoopEventTypes
    <2>3. /\ count.turns \in Nat /\ count.models \in Nat /\ count.tools \in Nat
          /\ count'.turns = count.turns /\ count'.models = count.models /\ count'.tools = count.tools
      BY <2>1, <2>2, Counted
    <2>4. count.turns >= 1
      BY <1>1 DEF Shape, ExecShape
    <2>5. CkShape(c, count'.models + 1) /\ c.phase # None /\ c.phase # "tool_request"
      BY <2>1, NoPhase, LoopBounds DEF CkShape, ModelPhases
    <2>6. /\ exec' \in Executions /\ exec'.ck = exec.ck /\ exec'.key = exec.key
          /\ exec'.turns = exec.turns /\ exec'.tools = exec.tools /\ setup' = setup
      BY <1>1, <1>7 DEF Changes, SameRest
    <2>7. ExecShape'
      BY <1>4, <1>5, <1>7, <2>3, <2>6
    <2> QED
      BY <1>1, <2>1, <2>2, <2>3, <2>4, <2>5, <2>6, <2>7, ShapeAppend, Tables DEF SameRest
  <1> QED
    BY <1>1, <1>2, <1>6, <1>7

\* The shape of the state survives the end of a backoff.
LEMMA ShapeAfterBackoff ==
  ASSUME Shape, AfterBackoff PROVE Shape'
  <1> USE DEF DoesAfterBackoff
  <1>1. DoesAfterBackoff
    BY DoAfterBackoff
  <1>2. Quiet /\ count' = count /\ setup' = setup /\ exec' \in Executions
    BY <1>1, SameIsQuiet, QuietTypes DEF Changes
  <1>3. ExecShape'
    BY <1>1, <1>2, NoPhase DEF Shape, ExecShape, CkShape, Changes, Of, BackTo, ToolSide, Keyed,
       Inside, ModelPhases
  <1> QED
    BY <1>2, <1>3, ShapeQuiet

\* The shape of the state survives what follows a tool call.
LEMMA ShapeAfterTool ==
  ASSUME Shape, AfterTool PROVE Shape'
  <1> USE DEF DoesAfterTool
  <1>1. DoesAfterTool
    BY DoAfterTool
  <1>2. CASE SameStream /\ Changes({"pc"}) /\ exec'.pc = "retry"
    <2>1. count' = count /\ setup' = setup /\ exec' \in Executions
      BY <1>1, <1>2 DEF Changes, SameStream, SameRest
    <2>2. ExecShape'
      BY <1>1, <1>2, <2>1, NoPhase DEF Shape, ExecShape, CkShape, Changes, Of, BackTo, ToolSide,
         Keyed, Inside, ModelPhases
    <2> QED
      BY <1>1, <1>2, <2>1, <2>2, ShapeSame, Tables DEF SameRest
  <1>3. CASE /\ Appends("ToolCallCompleted", Ckpt("turn", 0, None))
             /\ Changes({"pc", "ck", "next"}) /\ exec'.pc = "top" /\ exec'.ck = NoCkpt
    <2>1. PICK c \in Checkpoints : c # None /\ c.phase = "turn" /\ c.attempt = 0
            /\ Appends("ToolCallCompleted", c)
      BY <1>3, CkptMade DEF CheckpointPhases
    <2>2. "ToolCallCompleted" \in LoopEventTypes
      BY DEF LoopEventTypes
    <2>3. /\ count.turns \in Nat /\ count.models \in Nat /\ count.tools \in Nat
          /\ count'.turns = count.turns /\ count'.models = count.models /\ count'.tools = count.tools
      BY <2>1, <2>2, Counted
    <2>4. count.turns >= 1
      BY <1>1 DEF Shape, ExecShape
    <2>5. CkShape(c, count'.models + 1) /\ c.phase # None /\ c.phase # "tool_request"
      BY <2>1, NoPhase, LoopBounds DEF CkShape, ModelPhases
    <2>6. exec' \in Executions /\ setup' = setup /\ exec'.ck.phase = None /\ exec'.ck.attempt = 0
      BY <1>1, <1>3, NoCkptMade DEF Changes, SameRest
    <2>7. ExecShape'
      BY <1>1, <1>3, <2>3, <2>4, <2>6, NoPhase, LoopBounds DEF Shape, ExecShape, CkShape, Changes,
         Of, BackTo, ToolSide, Keyed, Inside, ModelPhases
    <2> QED
      BY <1>1, <2>1, <2>2, <2>3, <2>4, <2>5, <2>6, <2>7, ShapeAppend, Tables DEF SameRest
  <1> QED
    BY <1>1, <1>2, <1>3
\* The shape of the state survives a verdict.
LEMMA ShapeAfterVerifier ==
  ASSUME Shape, AfterVerifier PROVE Shape'
  <1> USE DEF DoesAfterVerifier
  <1>1. DoesAfterVerifier
    BY DoAfterVerifier
  <1>2. /\ exec'.ck \in Checkpoints /\ exec'.ck.phase = "verification" /\ exec'.ck.attempt = 0
        /\ exec'.ck # None
    BY <1>1, VerificationMade
  <1>3. "VerificationRecorded" \in LoopEventTypes
    BY DEF LoopEventTypes
  <1>4. /\ count.turns \in Nat /\ count.models \in Nat /\ count.tools \in Nat
        /\ count'.turns = count.turns /\ count'.models = count.models /\ count'.tools = count.tools
    BY <1>1, <1>2, <1>3, Counted
  <1>5. count.turns >= 1
    BY <1>1 DEF Shape, ExecShape
  <1>6. CkShape(exec'.ck, count'.models + 1) /\ exec'.ck.phase # None
    BY <1>2, NoPhase, LoopBounds DEF CkShape, ModelPhases
  <1>7. exec' \in Executions /\ setup' = setup
    BY <1>1 DEF Changes, SameRest
  <1>8. ExecShape'
    BY <1>1, <1>2, <1>4, <1>5, <1>7, NoPhase, LoopBounds DEF Shape, ExecShape, CkShape, Changes,
       Of, BackTo, ToolSide, Keyed, Inside, ModelPhases
  <1> QED
    BY <1>1, <1>2, <1>3, <1>4, <1>5, <1>6, <1>7, <1>8, ShapeAppend, Tables DEF SameRest

\* The shape of the state survives #scheduleRetry.
LEMMA ShapeRetry ==
  ASSUME Shape, Retry PROVE Shape'
  <1> USE DEF DoesRetry
  <1>1. DoesRetry
    BY DoRetry
  <1>2. exec'.ck \in Checkpoints /\ exec'.ck # None /\ exec.models \in Nat
    BY <1>1, NoneIsNoData, ExecFields DEF Changes, Executions
  <1>3. "RetryScheduled" \in LoopEventTypes
    BY DEF LoopEventTypes
  <1>4. /\ count.turns \in Nat /\ count.models \in Nat /\ count.tools \in Nat
        /\ count'.turns = count.turns /\ count'.models = count.models /\ count'.tools = count.tools
    BY <1>1, <1>2, <1>3, Counted
  <1>5. count.turns >= 1
    BY <1>1 DEF Shape, ExecShape
  <1>6. exec'.ck.attempt \in Attempts /\ exec'.ck.attempt \in Nat /\ exec'.ck.attempt <= LastAttempt
    BY <1>1, LoopBounds DEF Attempts
  <1>7. CkShape(exec'.ck, count'.models + 1) /\ exec'.ck.phase # None
    BY <1>1, <1>6, NoPhase DEF CkShape, ModelPhases
  <1>8. exec' \in Executions /\ setup' = setup
    BY <1>1 DEF Changes, SameRest
  <1>9. exec.key[1] = "tool" => exec.models <= MaxModelCalls \/ exec.models <= count.models
    BY <1>1 DEF Shape, ExecShape, ToolSide, Of, Keyed
  <1>10. CkShape(exec'.ck, exec'.models + 1)
    BY <1>1, <1>6, NoPhase DEF CkShape, ModelPhases
  <1>11. exec'.turns = exec.turns /\ exec'.tools = exec.tools /\ exec'.models = exec.models
    BY <1>1 DEF Changes
  <1>12. ExecShape'
    BY <1>1, <1>4, <1>5, <1>8, <1>9, <1>10, <1>11, NoPhase DEF Shape, ExecShape, Of, BackTo,
       ToolSide, Keyed, Inside, ModelPhases
  <1> QED
    BY <1>1, <1>2, <1>3, <1>4, <1>5, <1>7, <1>8, <1>12, ShapeAppend, Tables DEF SameRest

\* The shape of the state survives RetryResumed.
LEMMA ShapeRetryResumed ==
  ASSUME Shape, RetryResumed PROVE Shape'
  <1> USE DEF DoesRetryResumed
  <1>1. DoesRetryResumed
    BY DoRetryResumed
  <1>2. exec.models \in Nat /\ exec.ck.attempt \in Attempts /\ exec.ck.attempt \in Nat
        /\ exec.ck.emission \in EmissionKinds \cup {None}
    BY <1>1, ExecFields DEF Shape, ExecShape, CkShape
  <1>3. /\ exec'.ck \in Checkpoints /\ exec'.ck # None /\ exec'.ck.phase = exec.ck.back
        /\ exec'.ck.attempt = exec.ck.attempt
    BY <1>1, <1>2, CkptMade DEF CheckpointPhases
  <1>4. "RetryResumed" \in LoopEventTypes
    BY DEF LoopEventTypes
  <1>5. /\ count.turns \in Nat /\ count.models \in Nat /\ count.tools \in Nat
        /\ count'.turns = count.turns /\ count'.models = count.models /\ count'.tools = count.tools
    BY <1>1, <1>3, <1>4, Counted
  <1>6. count.turns >= 1
    BY <1>1 DEF Shape, ExecShape
  <1>7. CkShape(exec'.ck, count'.models + 1) /\ exec'.ck.phase # None /\ exec'.ck.phase # "tool_request"
        /\ CkShape(exec'.ck, exec'.models + 1)
    BY <1>1, <1>2, <1>3, NoPhase, LoopBounds DEF CkShape, ModelPhases, Attempts
  <1>8. exec' \in Executions /\ setup' = setup
    BY <1>1 DEF Changes, SameRest
  <1>9. exec'.turns = exec.turns /\ exec'.tools = exec.tools /\ exec'.models = exec.models
    BY <1>1 DEF Changes
  <1>10. ExecShape'
    BY <1>1, <1>3, <1>5, <1>6, <1>7, <1>8, <1>9, NoPhase DEF Shape, ExecShape, Of, BackTo,
       ToolSide, Keyed, Inside, ModelPhases
  <1> QED
    BY <1>1, <1>3, <1>4, <1>5, <1>6, <1>7, <1>8, <1>10, ShapeAppend, Tables DEF SameRest

\* The shape of the state survives a request for input.
LEMMA ShapeEmitInput ==
  ASSUME Shape, EmitInput PROVE Shape'
  <1> USE DEF DoesEmitInput
  <1>1. DoesEmitInput
    BY DoEmitInput
  <1>2. PICK c \in Checkpoints : c # None /\ c.phase = "input" /\ c.attempt = 0 /\ Appends("InputRequested", c)
    BY <1>1, CkptMade DEF CheckpointPhases
  <1>3. "InputRequested" \in LoopEventTypes
    BY DEF LoopEventTypes
  <1>4. /\ count.turns \in Nat /\ count'.turns = count.turns /\ count.turns >= 1
    BY <1>1, <1>2, <1>3, Counted DEF Shape, ExecShape
  <1>5. CkShape(c, count'.models + 1) /\ c.phase # None /\ c.phase # "tool_request"
    BY <1>2, NoPhase, LoopBounds DEF CkShape, ModelPhases
  <1>6. ExecShape' /\ setup' = setup
    BY <1>1 DEF ExecShape, SameRest
  <1> QED
    BY <1>1, <1>2, <1>3, <1>4, <1>5, <1>6, ShapeAppend, Tables DEF SameRest

\* The shape of the state survives a final answer.
LEMMA ShapeEmitFinal ==
  ASSUME Shape, EmitFinal PROVE Shape'
  <1> USE DEF DoesEmitFinal
  <1>1. DoesEmitFinal
    BY DoEmitFinal
  <1>2. /\ exec'.ck \in Checkpoints /\ exec'.ck # None /\ exec'.ck.phase = "final" /\ exec'.ck.attempt = 0
        /\ Appends("ExecutionStarted", exec'.ck)
    BY <1>1, CkptMade DEF CheckpointPhases, EmissionKinds
  <1>3. "ExecutionStarted" \in LoopEventTypes
    BY DEF LoopEventTypes
  <1>4. /\ count.turns \in Nat /\ count.models \in Nat /\ count.tools \in Nat
        /\ count'.turns = count.turns /\ count'.models = count.models /\ count'.tools = count.tools
    BY <1>2, <1>3, Counted
  <1>5. count.turns >= 1
    BY <1>1 DEF Shape, ExecShape
  <1>6. CkShape(exec'.ck, count'.models + 1) /\ exec'.ck.phase # None
    BY <1>2, NoPhase, LoopBounds DEF CkShape, ModelPhases
  <1>7. exec' \in Executions /\ setup' = setup
    BY <1>1 DEF Changes, SameRest
  <1>8. ExecShape'
    BY <1>1, <1>2, <1>4, <1>5, <1>7, NoPhase, LoopBounds DEF Shape, ExecShape, CkShape, Changes,
       Of, BackTo, ToolSide, Keyed, Inside, ModelPhases
  <1> QED
    BY <1>1, <1>2, <1>3, <1>4, <1>5, <1>6, <1>7, <1>8, ShapeAppend, Tables DEF SameRest
\* The shape of the state survives a tool emission.
LEMMA ShapeEmitTool ==
  ASSUME Shape, EmitTool PROVE Shape'
  <1> USE DEF DoesEmitTool
  <1>1. DoesEmitTool
    BY DoEmitTool
  <1>2. exec' \in Executions /\ setup' = setup
    BY <1>1 DEF Changes, SameRest
  <1>3. CASE /\ SameStream
             /\ \/ exec.ck.phase = "tool_request" /\ exec'.pc = "request"
                \/ exec.ck.phase = "tool" /\ exec'.pc = "policy"
    <2>1. count' = count
      BY <1>3 DEF SameStream
    <2>2. ExecShape'
      BY <1>1, <1>2, <1>3, <2>1, NoPhase DEF Shape, ExecShape, CkShape, Changes, Of, BackTo,
         ToolSide, Keyed, Inside, ModelPhases
    <2> QED
      BY <1>1, <1>2, <1>3, <2>2, ShapeSame, Tables DEF SameRest
  <1>4. CASE /\ count.tools < MaxToolCalls /\ exec'.pc = "request"
             /\ Appends("ExecutionStarted", Ckpt("tool_request", 0, exec.next))
    <2>1. PICK c \in Checkpoints : c # None /\ c.phase = "tool_request" /\ c.attempt = 0
            /\ Appends("ExecutionStarted", c)
      <3>1. exec.next \in EmissionKinds \cup {None}
        BY <1>1, ExecFields
      <3> QED
        BY <1>4, <3>1, CkptMade DEF CheckpointPhases
    <2>2. "ExecutionStarted" \in LoopEventTypes
      BY DEF LoopEventTypes
    <2>3. /\ count.turns \in Nat /\ count.models \in Nat /\ count.tools \in Nat
          /\ count'.turns = count.turns /\ count'.models = count.models /\ count'.tools = count.tools
      BY <2>1, <2>2, Counted
    <2>4. count.turns >= 1
      BY <1>1 DEF Shape, ExecShape
    <2>5. CkShape(c, count'.models + 1) /\ c.phase # None
      BY <2>1, NoPhase, LoopBounds DEF CkShape, ModelPhases
    <2>6. ExecShape'
      BY <1>1, <1>2, <1>4, <2>3, <2>4, NoPhase DEF Shape, ExecShape, CkShape, Changes, Of, BackTo,
         ToolSide, Keyed, Inside, ModelPhases
    <2> QED
      BY <1>1, <1>2, <1>4, <2>1, <2>2, <2>3, <2>4, <2>5, <2>6, ShapeAppend, Tables DEF SameRest
  <1> QED
    BY <1>1, <1>3, <1>4

\* The shape of the state survives ToolCallRequested.
LEMMA ShapeRequestTool ==
  ASSUME Shape, RequestTool PROVE Shape'
  <1> USE DEF DoesRequestTool
  <1>1. DoesRequestTool
    BY DoRequestTool
  <1>2. PICK c \in Checkpoints : c # None /\ c.phase = "tool" /\ c.attempt = 1
          /\ Appends("ToolCallRequested", c)
    BY <1>1, CkptMade DEF CheckpointPhases
  <1>3. "ToolCallRequested" \in LoopEventTypes
    BY DEF LoopEventTypes
  <1>4. /\ count.turns \in Nat /\ count.models \in Nat /\ count.tools \in Nat
        /\ count'.turns = count.turns /\ count'.models = count.models /\ count'.tools = count.tools + 1
    BY <1>2, <1>3, Counted
  <1>5. count.turns >= 1 /\ count.tools < MaxToolCalls
    BY <1>1 DEF Shape, ExecShape
  <1>6. CkShape(c, count'.models + 1) /\ c.phase # None /\ c.phase # "tool_request"
    BY <1>2, NoPhase, LoopBounds DEF CkShape, ModelPhases
  <1>7. exec' \in Executions /\ FALSE \in BOOLEAN
    BY <1>1 DEF Changes
  <1>8. ExecShape'
    BY <1>1, <1>4, <1>5, <1>7, NoPhase DEF Shape, ExecShape, CkShape, Changes, Of, BackTo,
       ToolSide, Keyed, Inside, ModelPhases
  <1> QED
    BY <1>1, <1>2, <1>3, <1>4, <1>5, <1>6, <1>7, <1>8, ShapeAppend, Tables

\* The shape of the state survives the policy decision about a tool.
LEMMA ShapePolicy ==
  ASSUME Shape, Policy PROVE Shape'
  <1> USE DEF DoesPolicy
  <1>1. DoesPolicy
    BY DoPolicy
  <1>2. CASE exec' = None /\ Appends("ApprovalRequested", None)
    BY <1>1, <1>2, AppendEnds DEF LoopEventTypes
  <1>3. CASE /\ SameStream /\ Changes({"pc", "key"}) /\ exec'.pc = "enter"
             /\ exec'.key \in BoundaryKeys /\ exec'.key[1] = "tool"
    <2>1. exec' \in Executions /\ setup' = setup /\ count' = count
      BY <1>1, <1>3 DEF Changes, SameStream, SameRest
    <2>2. ExecShape'
      BY <1>1, <1>3, <2>1, NoPhase DEF Shape, ExecShape, CkShape, Changes, Of, BackTo, ToolSide,
         Keyed, Inside, ModelPhases
    <2> QED
      BY <1>1, <1>3, <2>1, <2>2, ShapeSame, Tables DEF SameRest
  <1> QED
    BY <1>1, <1>2, <1>3

\* The shape of the state survives a step of #finalize.
LEMMA ShapeFinalize ==
  ASSUME Shape, Finalize PROVE Shape'
  <1> USE DEF DoesFinalize
  <1>1. DoesFinalize
    BY DoFinalize
  <1>2. PICK c \in Checkpoints : /\ c = Verification({}) /\ c.phase = "verification" /\ c.attempt = 0 /\ c # None
    BY VerificationMade
  <1>3. {"ArtifactProduced", "VerificationStarted"} \subseteq LoopEventTypes
    BY DEF LoopEventTypes
  <1>4. setup' = setup /\ count.turns >= 1
    BY <1>1 DEF SameRest, Shape, ExecShape
  <1>5. CkShape(c, count'.models + 1) /\ c.phase # None
    BY <1>2, NoPhase, LoopBounds DEF CkShape, ModelPhases
  <1>6. CASE /\ exec.ck.phase = "final" /\ Appends("ArtifactProduced", c)
             /\ Changes({"ck"}) /\ exec'.ck = c
    <2>1. /\ count.turns \in Nat /\ count.models \in Nat /\ count.tools \in Nat
          /\ count'.turns = count.turns /\ count'.models = count.models /\ count'.tools = count.tools
      BY <1>3, <1>6, Counted
    <2>2. exec' \in Executions
      BY <1>6 DEF Changes
    <2>3. ExecShape'
      BY <1>1, <1>2, <1>4, <1>6, <2>1, <2>2, NoPhase, LoopBounds DEF Shape, ExecShape, CkShape,
         Changes, Of, BackTo, ToolSide, Keyed, Inside, ModelPhases
    <2> QED
      BY <1>1, <1>2, <1>3, <1>4, <1>5, <1>6, <2>1, <2>2, <2>3, ShapeAppend, Tables DEF SameRest
  <1>7. CASE /\ exec.ck.phase = "verification" /\ exec' = exec /\ Appends("VerificationStarted", c)
    <2>1. /\ count.turns \in Nat /\ count.models \in Nat /\ count.tools \in Nat
          /\ count'.turns = count.turns /\ count'.models = count.models /\ count'.tools = count.tools
      BY <1>3, <1>7, Counted
    <2>2. exec' \in Executions
      BY <1>1, <1>7, ExecFields
    <2>3. ExecShape'
      BY <1>1, <1>4, <1>7, <2>1 DEF Shape, ExecShape, Of, BackTo, ToolSide
    <2> QED
      BY <1>1, <1>2, <1>3, <1>4, <1>5, <1>7, <2>1, <2>2, <2>3, ShapeAppend, Tables DEF SameRest
  <1>8. CASE /\ exec.ck.phase = "verification" /\ SameStream
             /\ Changes({"pc", "key"}) /\ exec'.pc = "enter"
             /\ exec'.key = VKey(run.required \ exec.ck.verified)
    <2>1. exec' \in Executions /\ count' = count
      BY <1>8 DEF Changes, SameStream
    <2>2. exec'.key \in BoundaryKeys /\ exec'.key[1] \in {"verifier", "evidence"}
      <3>1. run.required \ exec.ck.verified \in SUBSET Verifiers
        BY DEF Shape, LoopTypes, StoreTypes, Projections
      <3> QED
        BY <1>8, <3>1, VKeyMade
    <2>3. ExecShape'
      BY <1>1, <1>4, <1>8, <2>1, <2>2, NoPhase DEF Shape, ExecShape, CkShape, Changes, Of, BackTo,
         ToolSide, Keyed, Inside, ModelPhases
    <2> QED
      BY <1>1, <1>8, <2>1, <2>3, ShapeSame, Tables DEF SameRest
  <1> QED
    BY <1>1, <1>2, <1>6, <1>7, <1>8

\* The shape of the state survives execute.
LEMMA ShapeExecute ==
  ASSUME Shape, Execute PROVE Shape'
  <1> USE DEF DoesExecute
  <1>1. DoesExecute
    BY DoExecute
  <1>2. CASE exec' = None /\ Appends("RunSuspended", None) /\ SameRest /\ slots' = slots /\ calls' = calls
    BY <1>2, AppendEnds DEF LoopEventTypes
  <1>3. CASE /\ SameStore /\ exec' \in Executions
             /\ exec'.pc = "top" /\ exec'.turns = count.turns /\ exec'.models = count.models
             /\ exec'.tools = count.tools
             /\ \/ exec'.ck = NoCkpt
                \/ /\ snapshot # None
                   /\ exec'.ck = IF snapshot.phase = "input" THEN Ckpt("model", count.models + 1, None)
                                 ELSE snapshot
    <2>1. Quiet /\ count' = count /\ setup' = setup
      BY <1>3, SameIsQuiet, QuietTypes
    <2>2. count.models \in Nat
      BY DEF Shape, LoopTypes, StoreTypes
    <2>3. ASSUME exec'.ck = NoCkpt PROVE ExecShape'
      BY <1>3, <2>1, <2>2, <2>3, NoCkptMade, NoPhase, LoopBounds DEF ExecShape, CkShape, Of,
         BackTo, ToolSide, Keyed, Inside, ModelPhases
    <2>4. ASSUME snapshot # None /\ snapshot.phase = "input" /\ exec'.ck = Ckpt("model", count.models + 1, None) PROVE ExecShape'
      <3>1. exec'.ck.phase = "model" /\ exec'.ck.attempt = count.models + 1
        <4>1. count.models + 1 \in Nat /\ "model" \in CheckpointPhases
          BY <2>2 DEF CheckpointPhases
        <4> QED
          BY <2>4, <4>1, CkptMade
      <3>2. count.turns >= 1
        BY <2>4 DEF Shape, SnapShape
      <3> QED
        BY <1>3, <2>1, <2>2, <3>1, <3>2, NoPhase, LoopBounds DEF ExecShape, CkShape, Of, BackTo,
           ToolSide, Keyed, Inside, ModelPhases
    <2>5. ASSUME snapshot # None /\ exec'.ck = snapshot PROVE ExecShape'
      BY <1>3, <2>1, <2>2, <2>5, NoPhase DEF Shape, SnapShape, ExecShape, CkShape, Of, BackTo,
         ToolSide, Keyed, Inside, ModelPhases
    <2>6. ExecShape'
      BY <1>3, <2>3, <2>4, <2>5
    <2> QED
      BY <1>3, <2>1, <2>6, ShapeQuiet
  <1> QED
    BY <1>1, <1>2, <1>3
\* What ends the execution, and what others do meanwhile.
LEMMA ShapeEnds ==
  ASSUME Shape, NoRetry \/ AfterEvidence \/ Exhausted \/ Ended PROVE Shape'
  <1>1. CASE NoRetry
    BY <1>1, DoNoRetry, AppendEnds DEF DoesNoRetry, LoopEventTypes
  <1>2. CASE AfterEvidence
    BY <1>2, DoAfterEvidence, AppendEnds DEF DoesAfterEvidence, LoopEventTypes
  <1>3. CASE Exhausted
    BY <1>3, DoExhausted, AppendEnds DEF DoesExhausted, LoopEventTypes
  <1>4. CASE Ended
    BY <1>4, DoEnded, QuietTypes, ShapeEnded DEF DoesEnded
  <1> QED
    BY <1>1, <1>2, <1>3, <1>4

\* The shape of the state survives the commands and the maintenance.
LEMMA ShapeOthers ==
  ASSUME Shape, Start \/ SubmitInput \/ Approve \/ Cancel \/ Reconcile PROVE Shape'
  <1>1. exec' = exec /\ setup' = setup /\ sent' = sent /\ faults' = faults
    BY DoStart, DoCommand, DoReconcile DEF DoesStart, DoesCommand, DoesReconcile, SameRest
  <1>2. exec' \in Executions \cup {None}
    BY <1>1 DEF Shape, LoopTypes
  <1>3. ASSUME count'.turns = count.turns, count'.models = count.models, count'.tools = count.tools
        PROVE  ExecShape'
    BY <1>1, <1>3 DEF Shape, ExecShape, Of, BackTo, ToolSide
  <1>4. CASE Start
    <2>1. DoesStart
      BY <1>4, DoStart
    <2>2. StoreTypes'
      BY <2>1 DEF DoesStart, Shape, LoopTypes, StoreTypes, SameRest
    <2>3. SnapShape'
      BY <2>1 DEF DoesStart, Shape, SnapShape, SameRest
    <2> QED
      BY <1>2, <1>3, <2>1, <2>2, <2>3, ShapeWhole DEF DoesStart
  <1>5. CASE SubmitInput \/ Approve \/ Cancel
    <2>1. DoesCommand
      BY <1>5, DoCommand
    <2>2. PICK t \in {"InputSubmitted", "ApprovalRecorded", "RunCancelled"} : Appends(t, None)
      BY <2>1 DEF DoesCommand
    <2>3. t \in LoopEventTypes
      BY DEF LoopEventTypes
    <2>4. count'.turns = count.turns /\ count'.models = count.models /\ count'.tools = count.tools
      BY <2>2, <2>3, Counted
    <2>5. approved' \in BOOLEAN
      <3>1. approved \in BOOLEAN
        BY Tables
      <3> QED
        BY <2>1, <3>1 DEF DoesCommand
    <2> QED
      BY <1>1, <1>2, <1>3, <2>1, <2>2, <2>3, <2>4, <2>5, ShapeAppend, Tables DEF DoesCommand
  <1>6. CASE Reconcile
    <2>1. DoesReconcile
      BY <1>6, DoReconcile
    <2>2. slots' \in [BoundaryKeys -> ActiveStates \cup {NoReservation}]
      BY <2>1, Tables DEF DoesReconcile, ActiveStates
    <2>3. calls' \in [Steps \X Attempts -> ModelStates \cup {NoReservation}]
      BY <2>1, Tables DEF DoesReconcile, ModelStates
    <2> QED
      BY <1>1, <1>2, <1>3, <2>1, <2>2, <2>3, ShapeSame, Tables DEF DoesReconcile, SameStream,
         SameRest
  <1> QED
    BY <1>4, <1>5, <1>6

\* The steps of the loop, grouped as their effects are.
LEMMA LoopSteps ==
  ASSUME Next
  PROVE  \/ Execute \/ Backoff \/ RetryResumed \/ Turn \/ FinalOrVerification \/ ModelStep \/ Enter
         \/ (LocalModelStart \/ ProductionStart) \/ Dispatch
         \/ (SendModel \/ (OtherCall /\ ~Asleep))
         \/ ((OtherCall /\ Asleep) \/ ModelAnswers \/ OtherAnswers)
         \/ RecordAnswer \/ RecordDoubt \/ Settle
         \/ AfterModel \/ AfterBackoff \/ AfterTool \/ AfterVerifier \/ Retry
         \/ EmitInput \/ EmitFinal \/ EmitTool \/ RequestTool \/ Policy \/ Finalize
         \/ (NoRetry \/ AfterEvidence \/ Exhausted \/ Ended)
         \/ (Start \/ SubmitInput \/ Approve \/ Cancel \/ Reconcile)
  BY DEF Next, Advance, Exhausted, Ended

\* Every step keeps the shape of the state.
LEMMA ShapeStep ==
  ASSUME Shape, [Next]_vars PROVE Shape'
  <1>1. CASE UNCHANGED vars
    BY <1>1 DEF vars, store, Shape, LoopTypes, StoreTypes, ExecShape, SnapShape, CkShape, Of,
       BackTo, ToolSide
  <1>2. CASE Next
    BY <1>2, LoopSteps, ShapeExecute, ShapeBackoff, ShapeRetryResumed, ShapeTurn, ShapeFinal,
       ShapeModelStep, ShapeEnter, ShapeModelStart, ShapeDispatch, ShapeSend, ShapeQuietCall,
       ShapeRecord, ShapeDoubt, ShapeSettle, ShapeAfterModel, ShapeAfterBackoff, ShapeAfterTool,
       ShapeAfterVerifier, ShapeRetry, ShapeEmitInput, ShapeEmitFinal, ShapeEmitTool,
       ShapeRequestTool, ShapePolicy, ShapeFinalize, ShapeEnds, ShapeOthers
  <1> QED
    BY <1>1, <1>2
-----------------------------------------------------------------------------
(* Calls are sent once and stay charged. *)

\* What was sent is reserved, was sent once and is charged.
SentStore ==
  /\ setup.reserve => \A k \in BoundaryKeys : sent[k] > 0 => slots[k] # NoReservation
  /\ SentOnce /\ ChargedWhenSent

\* A call on its way out is reserved and was not sent before; a production call is dispatched.
Sending ==
  exec # None =>
    /\ setup.reserve /\ exec.pc \in {"call", "dispatch", "send"}
         /\ exec.key[1] \notin {"model_backoff", "tool_backoff"}
         => slots[exec.key] # NoReservation /\ sent[exec.key] = 0
    /\ exec.pc = "dispatch" => calls[Call] \in {"accepted", "expired"}
    /\ exec.pc = "send" /\ setup.production =>
         calls[Call] \in {"dispatched", "uncertain"} /\ sent[exec.key] = 0

Sends == SentStore /\ Sending

\* Most steps neither send nor write a reservation.
LEMMA SendsKept ==
  ASSUME Sends, setup' = setup, slots' = slots, calls' = calls, sent' = sent,
         exec' = None \/ exec' = exec \/ exec'.pc \notin {"call", "dispatch", "send"}
  PROVE  Sends'
  <1>1. SentStore'
    BY DEF Sends, SentStore, SentOnce, ChargedWhenSent
  <1>2. Sending'
    BY DEF Sends, Sending, Call
  <1> QED
    BY <1>1, <1>2 DEF Sends

\* A reservation that is kept or made leaves what was sent as it is.
LEMMA SentWithSlots ==
  ASSUME SentStore, setup' = setup, calls' = calls, sent' = sent,
         \A k \in BoundaryKeys : slots[k] # NoReservation => slots'[k] # NoReservation
  PROVE  SentStore'
  BY DEF SentStore, SentOnce, ChargedWhenSent

\* A model-call reservation that moves forward does so too.
LEMMA SentWithCalls ==
  ASSUME Shape, SentStore, setup' = setup, slots' = slots, sent' = sent, NEW c \in Steps \X Attempts,
         NEW s, calls' = [calls EXCEPT ![c] = s],
         s \in {"dispatched", "settled", "uncertain"} \/ calls[c] \in {NoReservation, "accepted"}
  PROVE  SentStore'
  <1>1. calls \in [Steps \X Attempts -> ModelStates \cup {NoReservation}]
    BY Tables
  <1>2. /\ setup.reserve => \A k \in BoundaryKeys : sent[k] > 0 => slots[k] # NoReservation
        /\ SentOnce
    BY DEF SentStore
  <1>3. ChargedWhenSent'
    <2> SUFFICES ASSUME NEW d \in Steps \X Attempts,
                        setup.production, sent[<<"model", d[1], d[2]>>] > 0
                 PROVE  calls'[d] \in {"dispatched", "settled", "uncertain"}
      BY DEF ChargedWhenSent
    <2>1. calls[d] \in {"dispatched", "settled", "uncertain"}
      BY DEF SentStore, ChargedWhenSent
    <2>2. d = c => s \in {"dispatched", "settled", "uncertain"}
      BY <2>1 DEF NoReservation
    <2> QED
      BY <1>1, <2>1, <2>2
  <1> QED
    BY <1>2, <1>3 DEF SentStore, SentOnce

\* What was sent is still charged, and once, after the entry of #withActiveExecution.
LEMMA SendsEnter ==
  ASSUME Shape, Sends, Enter PROVE Sends'
  <1> USE DEF DoesEnter
  <1>1. DoesEnter
    BY DoEnter
  <1>2. /\ slots \in [BoundaryKeys -> ActiveStates \cup {NoReservation}]
        /\ sent \in [BoundaryKeys -> 0..2] /\ setup' = setup /\ calls' = calls /\ sent' = sent
        /\ exec.key \in BoundaryKeys
    BY <1>1, Tables DEF SameRest
  <1>3. \A k \in BoundaryKeys : slots[k] # NoReservation => slots'[k] # NoReservation
    BY <1>1, <1>2 DEF ClosedStates, NoReservation
  <1>4. SentStore'
    BY <1>2, <1>3, SentWithSlots DEF Sends
  <1>5. Sending'
    <2>1. CASE exec' = None
      BY <2>1 DEF Sending
    <2>2. CASE ~setup.reserve /\ Changes({"pc"}) /\ exec'.pc = "call"
      BY <1>2, <2>2 DEF Sending
    <2>3. CASE /\ setup.reserve /\ slots[exec.key] = NoReservation
               /\ slots' = [slots EXCEPT ![exec.key] = "reserved"]
               /\ Changes({"pc", "held"}) /\ exec'.pc = "call"
      <3>1. sent[exec.key] = 0
        BY <1>2, <2>3 DEF Sends, SentStore
      <3>2. exec'.key = exec.key /\ slots'[exec.key] = "reserved"
        BY <1>2, <2>3 DEF Changes
      <3> QED
        BY <1>2, <2>3, <3>1, <3>2 DEF Sending, NoReservation
    <2>4. CASE exec.key[1] \in {"model_backoff", "tool_backoff"} /\ Changes({"pc"}) /\ exec'.pc = "call"
      BY <1>2, <2>4 DEF Sending, Changes
    <2>5. CASE exec'.pc = "retry"
      BY <2>5 DEF Sending
    <2> QED
      BY <1>1, <2>1, <2>2, <2>3, <2>4, <2>5
  <1> QED
    BY <1>4, <1>5 DEF Sends

\* The key of a model call under way, and its reservation.
LEMMA ModelCallKey ==
  ASSUME Shape, exec # None, exec.pc \in Keyed, exec.key[1] = "model"
  PROVE  /\ exec.key = <<"model", Call[1], Call[2]>> /\ Call \in Steps \X Attempts
         /\ exec.key \in BoundaryKeys /\ Call[1] = exec.key[2] /\ Call[2] = exec.key[3]
  BY ExecKey DEF Call, AttemptKinds

\* What was sent is still charged, and once, after announcing a model call.
LEMMA SendsModelStart ==
  ASSUME Shape, Sends, LocalModelStart \/ ProductionStart PROVE Sends'
  <1> USE DEF DoesModelStart
  <1>1. DoesModelStart
    BY DoModelStart
  <1>2. CASE /\ SameStore
             /\ Changes({"pc", "outcome"}) /\ exec'.pc = "settle"
    BY <1>1, <1>2, SendsKept DEF SameStore, SameRest
  <1>3. CASE /\ ~setup.production /\ SameRest /\ slots' = slots /\ calls' = calls
             /\ Changes({"pc"}) /\ exec'.pc = "send"
    <2>1. SentStore'
      BY <1>3 DEF SameRest, Sends, SentStore, SentOnce, ChargedWhenSent
    <2>2. Sending'
      BY <1>1, <1>3 DEF Sends, Sending, Changes, SameRest
    <2> QED
      BY <2>1, <2>2 DEF Sends
  <1>4. CASE /\ SameRest /\ slots' = slots /\ Changes({"pc"})
             /\ setup.production /\ calls[Call] \in {NoReservation, "accepted"}
             /\ calls' = [calls EXCEPT ![Call] = "accepted"] /\ exec'.pc = "dispatch"
    <2>1. SentStore'
      BY <1>1, <1>4, SentWithCalls DEF SameRest, Sends
    <2>2. Call' = Call /\ exec'.key = exec.key
      BY <1>4 DEF Call, Changes
    <2>3. calls'[Call] = "accepted"
      BY <1>1, <1>4, Tables
    <2>4. Sending'
      BY <1>1, <1>4, <2>2, <2>3 DEF Sends, Sending, SameRest
    <2> QED
      BY <2>1, <2>4 DEF Sends
  <1> QED
    BY <1>1, <1>2, <1>3, <1>4 DEF SameStore

\* What was sent is still charged, and once, after markDispatched.
LEMMA SendsDispatch ==
  ASSUME Shape, Sends, Dispatch PROVE Sends'
  <1> USE DEF DoesDispatch
  <1>1. DoesDispatch
    BY DoDispatch
  <1>2. CASE Quiet /\ Changes({"pc", "outcome"}) /\ exec'.pc = "settle"
    BY <1>2, SendsKept DEF Quiet
  <1>3. CASE /\ SameRest /\ slots' = slots /\ calls[Call] \in {"accepted", "dispatched"}
             /\ calls' = [calls EXCEPT ![Call] = "dispatched"]
             /\ Changes({"pc"}) /\ exec'.pc = "send"
    <2>1. SentStore'
      BY <1>1, <1>3, SentWithCalls DEF SameRest, Sends
    <2>2. exec.key = <<"model", Call[1], Call[2]>> /\ exec.key \in BoundaryKeys /\ setup.production
      BY <1>1, ModelCallKey DEF Shape, ExecShape, Keyed, Inside
    <2>3. calls[Call] = "accepted"
      BY <1>1, <1>3 DEF Sends, Sending
    <2>4. sent[exec.key] = 0
      <3>1. ~(sent[<<"model", Call[1], Call[2]>>] > 0)
        BY <1>1, <2>2, <2>3 DEF Sends, SentStore, ChargedWhenSent
      <3> QED
        BY <2>2, <3>1, Tables
    <2>5. Call' = Call /\ exec'.key = exec.key /\ sent' = sent /\ setup' = setup
      BY <1>3 DEF Call, Changes, SameRest
    <2>6. calls'[Call] = "dispatched"
      BY <1>1, <1>3, Tables
    <2>7. Sending'
      BY <1>1, <1>3, <2>4, <2>5, <2>6 DEF Sends, Sending
    <2> QED
      BY <2>1, <2>7 DEF Sends
  <1> QED
    BY <1>1, <1>2, <1>3

\* What was sent is still charged, and once, after a call to the outside.
LEMMA SendsSend ==
  ASSUME Shape, Sends, SendModel \/ (OtherCall /\ ~Asleep) PROVE Sends'
  <1> USE DEF DoesSend
  <1>1. DoesSend
    BY DoSend
  <1>2. Sending'
    BY <1>1 DEF Sending
  <1>3. sent \in [BoundaryKeys -> 0..2] /\ exec.key \in BoundaryKeys
    BY <1>1, Tables
  <1>4. exec.pc = "send" => exec.key[1] = "model" /\ exec.key = <<"model", Call[1], Call[2]>> /\ Call \in Steps \X Attempts
    BY <1>1, ModelCallKey DEF Shape, ExecShape, Keyed, Inside
  <1>5. setup.reserve => slots[exec.key] # NoReservation /\ sent[exec.key] = 0
    BY <1>1, <1>4 DEF Sends, Sending
  <1>6. setup.production /\ exec.key[1] = "model" =>
          calls[Call] \in {"dispatched", "uncertain"} /\ sent[exec.key] = 0
    BY <1>1, <1>4 DEF Sends, Sending
  <1>7. \A k \in BoundaryKeys : k # exec.key => sent'[k] = sent[k]
    BY <1>1, <1>3
  <1>8. sent'[exec.key] = OnceMore(sent[exec.key])
    BY <1>1, <1>3
  <1>9. SentOnce'
    <2> SUFFICES ASSUME NEW k \in BoundaryKeys, setup.reserve \/ (setup.production /\ k[1] = "model")
                 PROVE  sent'[k] <= 1
      BY <1>1 DEF SentOnce
    <2>1. CASE k = exec.key
      BY <1>5, <1>6, <1>8, <2>1 DEF OnceMore
    <2>2. CASE k # exec.key
      BY <1>7, <2>2 DEF Sends, SentStore, SentOnce
    <2> QED
      BY <2>1, <2>2
  <1>10. ChargedWhenSent'
    <2> SUFFICES ASSUME NEW c \in Steps \X Attempts, setup.production, sent'[<<"model", c[1], c[2]>>] > 0
                 PROVE  calls[c] \in {"dispatched", "settled", "uncertain"}
      BY <1>1 DEF ChargedWhenSent
    <2>1. /\ <<"model", c[1], c[2]>> \in BoundaryKeys /\ <<"model", c[1], c[2]>>[1] = "model"
          /\ <<"model", c[1], c[2]>>[2] = c[1] /\ <<"model", c[1], c[2]>>[3] = c[2] /\ c = <<c[1], c[2]>>
      BY LoopKeyMade DEF AttemptKinds
    <2>2. CASE <<"model", c[1], c[2]>> = exec.key
      <3>1. Call = c
        BY <2>1, <2>2 DEF Call
      <3> QED
        BY <1>6, <2>1, <2>2, <3>1
    <2>3. CASE <<"model", c[1], c[2]>> # exec.key
      BY <1>7, <2>1, <2>3 DEF Sends, SentStore, ChargedWhenSent
    <2> QED
      BY <2>2, <2>3
  <1>11. setup.reserve => \A k \in BoundaryKeys : sent'[k] > 0 => slots[k] # NoReservation
    BY <1>5, <1>7 DEF Sends, SentStore
  <1>12. SentStore'
    BY <1>1, <1>9, <1>10, <1>11 DEF SentStore
  <1> QED
    BY <1>2, <1>12 DEF Sends
\* What was sent is still charged, and once, after recording a production call.
LEMMA SendsRecord ==
  ASSUME Shape, Sends, RecordAnswer \/ RecordDoubt PROVE Sends'
  <1>1. DoesRecord \/ DoesDoubt
    BY DoRecord, DoDoubt
  <1>2. /\ setup' = setup /\ slots' = slots /\ sent' = sent /\ exec'.pc = "settle"
        /\ Call \in Steps \X Attempts
        /\ \/ calls' = calls
           \/ \E s \in {"settled", "uncertain"} : calls' = [calls EXCEPT ![Call] = s]
    BY <1>1 DEF DoesRecord, DoesDoubt, Quiet, SameRest
  <1>3. SentStore'
    <2>1. CASE calls' = calls
      BY <1>2, <2>1, SentWithSlots DEF Sends
    <2>2. CASE \E s \in {"settled", "uncertain"} : calls' = [calls EXCEPT ![Call] = s]
      BY <1>2, <2>2, SentWithCalls DEF Sends
    <2> QED
      BY <1>2, <2>1, <2>2
  <1>4. Sending'
    BY <1>2 DEF Sending
  <1> QED
    BY <1>3, <1>4 DEF Sends

\* What was sent is still charged, and once, after the step before a model call.
LEMMA SendsModelStep ==
  ASSUME Shape, Sends, ModelStep PROVE Sends'
  <1>1. DoesModelStep
    BY DoModelStep
  <1>2. CASE calls' = calls
    <2>1. setup' = setup /\ slots' = slots /\ sent' = sent
      BY <1>1 DEF DoesModelStep, SameRest, SameStore
    <2>2. exec' = None \/ exec' = exec \/ exec'.pc \notin {"call", "dispatch", "send"}
      BY <1>1 DEF DoesModelStep
    <2> QED
      BY <1>2, <2>1, <2>2, SendsKept
  <1>3. CASE /\ exec' = exec /\ calls' = [calls EXCEPT ![<<step, Attempt>>] = "uncertain"]
             /\ SameRest /\ slots' = slots
    <2>1. exec # None /\ exec.pc = "model" /\ <<step, Attempt>> \in Steps \X Attempts
      BY <1>1, ModelKeyMade DEF DoesModelStep
    <2>2. SentStore'
      BY <1>3, <2>1, SentWithCalls DEF Sends, SameRest
    <2>3. Sending'
      BY <1>3, <2>1 DEF Sending
    <2> QED
      BY <2>2, <2>3 DEF Sends
  <1> QED
    BY <1>1, <1>2, <1>3 DEF DoesModelStep, SameStore

\* What was sent is still charged, and once, after #settleActiveExecution.
LEMMA SendsSettle ==
  ASSUME Shape, Sends, Settle PROVE Sends'
  <1>1. DoesSettle
    BY DoSettle
  <1>2. \A k \in BoundaryKeys : slots[k] # NoReservation => slots'[k] # NoReservation
    BY <1>1, Tables DEF DoesSettle, NoReservation
  <1>3. SentStore'
    BY <1>1, <1>2, SentWithSlots DEF DoesSettle, SameRest, Sends
  <1>4. Sending'
    BY <1>1 DEF DoesSettle, Sending
  <1> QED
    BY <1>3, <1>4 DEF Sends

\* What was sent is still charged, and once, after reconcileExpired.
LEMMA SendsReconcile ==
  ASSUME Shape, Sends, Reconcile PROVE Sends'
  <1>1. DoesReconcile
    BY DoReconcile
  <1>2. setup' = setup /\ sent' = sent /\ exec' = exec /\ Call' = Call
    BY <1>1 DEF DoesReconcile, SameRest, Call
  <1>3. CASE /\ slots' = slots
             /\ \E c \in Steps \X Attempts :
                  \/ calls[c] = "accepted" /\ calls' = [calls EXCEPT ![c] = "expired"]
                  \/ calls[c] = "dispatched" /\ calls' = [calls EXCEPT ![c] = "uncertain"]
    <2>0. PICK c \in Steps \X Attempts :
            \/ calls[c] = "accepted" /\ calls' = [calls EXCEPT ![c] = "expired"]
            \/ calls[c] = "dispatched" /\ calls' = [calls EXCEPT ![c] = "uncertain"]
      BY <1>3
    <2>1. PICK s \in {"expired", "uncertain"} :
            /\ calls' = [calls EXCEPT ![c] = s]
            /\ (calls[c] = "accepted" /\ s = "expired") \/ (calls[c] = "dispatched" /\ s = "uncertain")
      BY <2>0
    <2>2. SentStore'
      BY <1>2, <1>3, <2>1, SentWithCalls DEF Sends
    <2>3. \A d \in Steps \X Attempts : calls'[d] = IF d = c THEN s ELSE calls[d]
      BY <2>1, Tables
    <2>4. exec # None /\ exec.pc \in {"dispatch", "send"} => Call \in Steps \X Attempts
      BY ModelCallKey DEF Shape, ExecShape, Keyed, Inside
    <2>5. /\ exec # None /\ exec.pc = "dispatch" => calls'[Call] \in {"accepted", "expired"}
          /\ exec # None /\ exec.pc = "send" /\ setup.production => calls'[Call] \in {"dispatched", "uncertain"}
      BY <2>1, <2>3, <2>4 DEF Sends, Sending
    <2>6. Sending'
      BY <1>2, <1>3, <2>5 DEF Sends, Sending
    <2> QED
      BY <2>2, <2>6 DEF Sends
  <1>4. CASE /\ calls' = calls
             /\ \E k \in BoundaryKeys :
                  slots[k] = "reserved" /\ slots' = [slots EXCEPT ![k] = "closed_uncertain"]
    <2>1. \A k \in BoundaryKeys : slots[k] # NoReservation => slots'[k] # NoReservation
      BY <1>4, Tables DEF NoReservation
    <2>2. SentStore'
      BY <1>2, <1>4, <2>1, SentWithSlots DEF Sends
    <2>3. exec # None /\ exec.pc \in {"call", "dispatch", "send"} => exec.key \in BoundaryKeys
      BY ExecKey DEF Keyed, Inside
    <2>4. Sending'
      BY <1>2, <1>4, <2>1, <2>3 DEF Sends, Sending
    <2> QED
      BY <2>2, <2>4 DEF Sends
  <1> QED
    BY <1>1, <1>3, <1>4 DEF DoesReconcile

\* The steps that keep every reservation and send nothing.
Unsent ==
  /\ setup' = setup /\ slots' = slots /\ calls' = calls /\ sent' = sent
  /\ exec' = None \/ exec' = exec \/ exec'.pc \notin {"call", "dispatch", "send"}

\* The steps that neither send, reserve nor settle a call.
LEMMA UnsentSteps ==
  ASSUME Shape,
         \/ Execute \/ Backoff \/ RetryResumed \/ Turn \/ FinalOrVerification
         \/ (OtherCall /\ Asleep) \/ ModelAnswers \/ OtherAnswers
         \/ AfterModel \/ AfterBackoff \/ AfterTool \/ AfterVerifier \/ Retry
         \/ EmitInput \/ EmitFinal \/ EmitTool \/ RequestTool \/ Policy \/ Finalize
         \/ NoRetry \/ AfterEvidence \/ Exhausted \/ Ended
         \/ Start \/ SubmitInput \/ Approve \/ Cancel
  PROVE  Unsent
  <1>1. CASE Execute \/ Backoff \/ RetryResumed \/ Turn \/ FinalOrVerification
    BY <1>1, DoExecute, DoBackoff, DoRetryResumed, DoTurn, DoFinal
       DEF DoesExecute, DoesBackoff, DoesRetryResumed, DoesTurn, DoesFinal, SameStore, SameRest, Unsent
  <1>2. CASE (OtherCall /\ Asleep) \/ ModelAnswers \/ OtherAnswers
    BY <1>2, DoQuietCall DEF DoesQuietCall, Quiet, Unsent
  <1>3. CASE AfterModel \/ AfterBackoff \/ AfterTool \/ AfterVerifier \/ Retry
    BY <1>3, DoAfterModel, DoAfterBackoff, DoAfterTool, DoAfterVerifier, DoRetry
       DEF DoesAfterModel, DoesAfterBackoff, DoesAfterTool, DoesAfterVerifier, DoesRetry, SameStore, SameRest, Unsent
  <1>4. CASE EmitInput \/ EmitFinal \/ EmitTool \/ RequestTool \/ Policy
    BY <1>4, DoEmitInput, DoEmitFinal, DoEmitTool, DoRequestTool, DoPolicy
       DEF DoesEmitInput, DoesEmitFinal, DoesEmitTool, DoesRequestTool, DoesPolicy, SameRest, Unsent
  <1>5. CASE Finalize
    BY <1>5, DoFinalize DEF DoesFinalize, SameRest, Unsent, Changes
  <1>6. CASE NoRetry \/ AfterEvidence \/ Exhausted \/ Ended
    BY <1>6, DoNoRetry, DoAfterEvidence, DoExhausted, DoEnded
       DEF DoesNoRetry, DoesAfterEvidence, DoesExhausted, DoesEnded, SameRest, Quiet, Unsent
  <1>7. CASE Start \/ SubmitInput \/ Approve \/ Cancel
    BY <1>7, DoStart, DoCommand DEF DoesStart, DoesCommand, SameRest, Unsent
  <1> QED
    BY <1>1, <1>2, <1>3, <1>4, <1>5, <1>6, <1>7

\* Every step keeps what was sent charged and sends it once.
LEMMA SendsStep ==
  ASSUME Shape, Sends, [Next]_vars PROVE Sends'
  <1>1. CASE UNCHANGED vars
    BY <1>1, SendsKept DEF vars, store
  <1>2. CASE Next
    <2>1. CASE Unsent
      BY <2>1, SendsKept DEF Unsent
    <2> QED
      BY <1>2, <2>1, LoopSteps, UnsentSteps, SendsEnter, SendsModelStart, SendsDispatch, SendsSend,
         SendsRecord, SendsModelStep, SendsSettle, SendsReconcile
  <1> QED
    BY <1>1, <1>2
-----------------------------------------------------------------------------
(* The run can be resumed wherever an execution ends. *)

\* The phases of a checkpoint the run's status can continue from.
Fits(c, status) ==
  /\ status = "planning" =>
       /\ c.phase \in {"model", "model_inflight", "emission", "input", "scheduled_backoff"}
       /\ c.phase = "scheduled_backoff" => c.back = "model"
  /\ status = "running" =>
       /\ c.phase \in {"tool_request", "tool", "turn", "scheduled_backoff", "final", "verification"}
       /\ c.phase = "scheduled_backoff" => c.back = "tool"
  /\ status = "verifying" => c.phase = "verification"
  /\ status = "waiting_for_input" => c.phase = "input"
  /\ status = "waiting_for_approval" => c.phase = "tool"

Active == {"planning", "running", "verifying"}

\* The stored checkpoint fits the status of the run, and what follows it in the stream is the
\* answer to what the run waited for.
Rest ==
  setup.context =>
    /\ run.status \in Active \cup {"waiting_for_input", "waiting_for_approval"} =>
         snapshot # None /\ Fits(snapshot, run.status)
    /\ run.status \in Active => SafeSuffix
    /\ run.status = "waiting_for_input" => suffix = <<>>
    /\ run.status = "waiting_for_approval" => suffix = <<"ApprovalRequested">>
    /\ suffix = <<"ApprovalRequested", "ApprovalRecorded">> => approved

\* The execution makes model calls only while the run is planning.
ModelSide ==
  \/ exec.pc = "model" \/ Of({"model", "model_backoff"})
  \/ exec.pc \in {"top", "resume"} /\ (exec.ck.phase \in ModelPhases \/ BackTo("model"))

\* It makes tool calls only while the run is running, with the tool's checkpoint stored.
RunSide ==
  \/ exec.pc = "policy" \/ Of({"tool", "tool_backoff"})
  \/ exec.pc \in {"top", "emit"} /\ exec.ck.phase = "tool"
  \/ exec.pc \in {"top", "resume"} /\ BackTo("tool")

Sides ==
  exec # None =>
    /\ run.status \in Runnable \cup TerminalStatuses
    /\ setup.context /\ run.status \notin TerminalStatuses =>
         /\ ModelSide => run.status = "planning"
         /\ RunSide => run.status = "running"
         /\ exec.pc = "policy" \/ (exec.pc \in {"top", "emit"} /\ exec.ck.phase = "tool")
              => snapshot.phase = "tool"

\* A step on the same stream.
LEMMA RestSame ==
  ASSUME Rest, SameStream, setup' = setup, approved' = approved PROVE Rest'
  BY DEF Rest, SameStream, SafeSuffix, Fits

\* An append with a checkpoint that fits.
LEMMA RestCkpt ==
  ASSUME NEW t, NEW c, Appends(t, c), c # None, setup' = setup, Fits(c, run'.status),
         run'.status # "waiting_for_approval"
  PROVE  Rest'
  <1>1. CASE ~setup.context
    BY <1>1 DEF Rest
  <1>2. CASE setup.context
    <2>1. snapshot' = c /\ suffix' = <<>>
      BY <1>2 DEF Appends
    <2>2. <<>> # <<"ApprovalRequested", "ApprovalRecorded">>
      OBVIOUS
    <2> QED
      BY <2>1, <2>2 DEF Rest, SafeSuffix
  <1> QED
    BY <1>1, <1>2

\* An append that ends or parks the run.
LEMMA RestParked ==
  ASSUME Shape, NEW t \in {"RunFailed", "RunSuspended", "RunCompleted", "RunCancelled"},
         Appends(t, None), setup' = setup
  PROVE  Rest'
  <1>1. run'.status \in TerminalStatuses \cup {"suspended"}
    BY DEF Appends, StatusMove
  <1>2. suffix' = Append(suffix, t) /\ suffix \in Seq(EventTypes)
    BY DEF Appends, Shape, LoopTypes, StoreTypes
  <1>3. suffix' # <<"ApprovalRequested", "ApprovalRecorded">>
    <2>1. suffix'[Len(suffix) + 1] = t /\ Len(suffix') = Len(suffix) + 1
      BY <1>2
    <2> QED
      BY <2>1
  <1> QED
    BY <1>1, <1>3 DEF Rest, Active, TerminalStatuses

\* An execution that has ended, or goes on where the status is as it was.
LEMMA SidesEnded ==
  ASSUME exec' = None PROVE Sides'
  BY DEF Sides

\* An append that parks or ends the run.
LEMMA RestPark ==
  ASSUME Shape, NEW t \in {"RunFailed", "RunSuspended", "RunCompleted", "RunCancelled"},
         Appends(t, None), SameRest, exec' = None
  PROVE  Rest' /\ Sides'
  BY RestParked, SidesEnded DEF SameRest

\* A run can be resumed after the wait for a persisted backoff.
LEMMA RestBackoff ==
  ASSUME Shape, Rest, Sides, Backoff PROVE Rest' /\ Sides'
  <1>1. DoesBackoff
    BY DoBackoff
  <1>2. SameStream /\ setup' = setup /\ approved' = approved
    BY <1>1 DEF DoesBackoff, SameStore, SameRest
  <1>3. exec.ck.back \in {"model", "tool"}
    BY <1>1 DEF DoesBackoff, Shape, ExecShape, CkShape
  <1>4. Sides'
    BY <1>1, <1>2, <1>3, NoPhase DEF DoesBackoff, Sides, ModelSide, RunSide, Of, BackTo, Changes,
       SameStream, Keyed, Inside, ModelPhases
  <1> QED
    BY <1>2, <1>4, RestSame

\* A run can be resumed after entering a turn.
LEMMA RestTurn ==
  ASSUME Shape, Rest, Sides, Turn PROVE Rest' /\ Sides'
  <1>1. DoesTurn
    BY DoTurn
  <1>2. CASE /\ SameStore /\ Changes({"pc"}) /\ exec # None /\ exec.pc = "top"
             /\ \/ exec.ck.phase \in {"emission", "tool_request", "tool"} /\ exec'.pc = "emit"
                \/ exec.ck.phase \in ModelPhases /\ exec'.pc = "model"
    <2>1. SameStream /\ setup' = setup /\ approved' = approved
      BY <1>2 DEF SameStore, SameRest
    <2>2. Sides'
      BY <1>2, <2>1, NoPhase DEF Sides, ModelSide, RunSide, Of, BackTo, Changes, SameStream,
         Keyed, Inside, ModelPhases
    <2> QED
      BY <2>1, <2>2, RestSame
  <1>3. CASE /\ exec.ck.phase \in {None, "turn"}
             /\ Appends("PlanningStarted", Ckpt("model", exec.models + 1, None))
             /\ SameRest /\ slots' = slots /\ calls' = calls
             /\ Changes({"pc", "turns"}) /\ exec'.pc = "model"
    <2>1. exec.models + 1 \in Nat
      BY <1>1, ExecFields DEF DoesTurn
    <2>2. PICK c : c = Ckpt("model", exec.models + 1, None) /\ c # None /\ c.phase = "model"
      BY <2>1, CkptMade DEF CheckpointPhases
    <2>3. run'.status = "planning" /\ Appends("PlanningStarted", c)
      BY <1>3, <2>2 DEF Appends, StatusMove
    <2>4. Rest'
      BY <1>3, <2>2, <2>3, RestCkpt DEF Fits, SameRest
    <2>5. Sides'
      BY <1>3, <2>3, NoPhase DEF Sides, ModelSide, RunSide, Of, BackTo, Changes, Keyed, Inside,
         ModelPhases, Runnable
    <2> QED
      BY <2>4, <2>5
  <1> QED
    BY <1>1, <1>2, <1>3 DEF DoesTurn
\* A step inside the boundary of one call.
LEMMA RestInside ==
  ASSUME Rest, Sides, SameStream, setup' = setup, approved' = approved,
         \/ exec' = None
         \/ /\ exec # None /\ exec.pc \in Keyed /\ exec'.pc \in Keyed
            /\ exec'.key = exec.key /\ exec'.ck = exec.ck
  PROVE  Rest' /\ Sides'
  <1>1. Rest'
    BY RestSame
  <1>2. CASE exec' = None
    BY <1>1, <1>2, SidesEnded
  <1>3. CASE /\ exec # None /\ exec.pc \in Keyed /\ exec'.pc \in Keyed
             /\ exec'.key = exec.key /\ exec'.ck = exec.ck
    <2>1. Sides'
      BY <1>3 DEF Sides, ModelSide, RunSide, Of, BackTo, SameStream, Keyed, Inside
    <2> QED
      BY <1>1, <2>1
  <1> QED
    BY <1>2, <1>3

\* A run can be resumed after the steps around a call.
LEMMA RestCalls ==
  ASSUME Shape, Rest, Sides,
         \/ Enter \/ Dispatch \/ SendModel \/ (OtherCall /\ ~Asleep)
         \/ (OtherCall /\ Asleep) \/ ModelAnswers \/ OtherAnswers \/ RecordDoubt \/ Settle
  PROVE  Rest' /\ Sides'
  <1>1. CASE Enter
    BY <1>1, DoEnter, RestInside DEF DoesEnter, SameRest, Changes, Keyed, Inside
  <1>2. CASE Dispatch
    BY <1>2, DoDispatch, RestInside DEF DoesDispatch, SameRest, Quiet, Changes, Keyed, Inside
  <1>3. CASE SendModel \/ (OtherCall /\ ~Asleep)
    BY <1>3, DoSend, RestInside DEF DoesSend, Changes, Keyed, Inside
  <1>4. CASE (OtherCall /\ Asleep) \/ ModelAnswers \/ OtherAnswers
    BY <1>4, DoQuietCall, RestInside DEF DoesQuietCall, Quiet, Changes, Keyed, Inside
  <1>5. CASE RecordDoubt
    BY <1>5, DoDoubt, RestInside DEF DoesDoubt, SameRest, Quiet, Changes, Keyed, Inside
  <1>6. CASE Settle
    BY <1>6, DoSettle, RestInside DEF DoesSettle, SameRest, Changes, Keyed, Inside
  <1> QED
    BY <1>1, <1>2, <1>3, <1>4, <1>5, <1>6

\* A run can be resumed after execute.
LEMMA RestExecute ==
  ASSUME Shape, Rest, Sides, Execute PROVE Rest' /\ Sides'
  <1>1. DoesExecute
    BY DoExecute
  <1>2. CASE exec' = None /\ Appends("RunSuspended", None) /\ SameRest
    BY <1>2, RestPark
  <1>3. CASE /\ SameStore /\ exec' \in Executions /\ exec'.pc = "top"
             /\ \/ run.status = "accepted" /\ exec'.ck = NoCkpt
                \/ /\ run.status \in Runnable \ {"accepted"} /\ snapshot # None /\ SafeSuffix
                   /\ exec'.ck = IF snapshot.phase = "input" THEN Ckpt("model", count.models + 1, None)
                                 ELSE snapshot
    <2>1. Rest' /\ SameStream /\ setup' = setup
      BY <1>3, RestSame DEF SameStore, SameRest
    <2>2. CASE run.status = "accepted" /\ exec'.ck = NoCkpt
      BY <1>3, <2>1, <2>2, NoCkptMade, NoPhase DEF Sides, ModelSide, RunSide, Of, BackTo,
         SameStream, Keyed, Inside, ModelPhases, Runnable
    <2>3. CASE run.status \in Runnable \ {"accepted"} /\ snapshot.phase = "input"
               /\ exec'.ck = Ckpt("model", count.models + 1, None)
      <3>1. count.models + 1 \in Nat /\ "model" \in CheckpointPhases
        BY DEF Shape, LoopTypes, StoreTypes, CheckpointPhases
      <3>2. exec'.ck.phase = "model"
        BY <2>3, <3>1, CkptMade
      <3>3. setup.context => run.status = "planning"
        BY <2>3 DEF Rest, Fits, Active, Runnable
      <3> QED
        BY <1>3, <2>1, <2>3, <3>2, <3>3, NoPhase DEF Sides, ModelSide, RunSide, Of, BackTo,
           SameStream, Keyed, Inside, ModelPhases
    <2>4. CASE run.status \in Runnable \ {"accepted"} /\ exec'.ck = snapshot
      <3>1. setup.context => Fits(snapshot, run.status) /\ run.status \in Active
        BY <2>4 DEF Rest, Active, Runnable
      <3> QED
        BY <1>3, <2>1, <2>4, <3>1, NoPhase DEF Sides, ModelSide, RunSide, Of, BackTo, SameStream,
           Keyed, Inside, ModelPhases, Fits, Active
    <2> QED
      BY <1>3, <2>2, <2>3, <2>4
  <1> QED
    BY <1>1, <1>2, <1>3 DEF DoesExecute

\* A run can be resumed after RetryResumed.
LEMMA RestRetryResumed ==
  ASSUME Shape, Rest, Sides, RetryResumed PROVE Rest' /\ Sides'
  <1>1. DoesRetryResumed
    BY DoRetryResumed
  <1>2. exec.ck.attempt \in Nat /\ exec.ck.emission \in EmissionKinds \cup {None}
    BY <1>1, ExecFields DEF DoesRetryResumed
  <1>3. exec'.ck # None /\ exec'.ck.phase = exec.ck.back
    BY <1>1, <1>2, CkptMade DEF DoesRetryResumed, CheckpointPhases
  <1>4. run'.status = run.status /\ run.status \in {"planning", "running"}
    BY <1>1 DEF DoesRetryResumed, Appends, StatusMove
  <1>5. run.status \notin TerminalStatuses
    BY <1>1 DEF DoesRetryResumed, Appends, StatusMove
  <1>6. setup.context => (exec.ck.back = "model" => run.status = "planning") /\ (exec.ck.back = "tool" => run.status = "running")
    BY <1>1, <1>5 DEF DoesRetryResumed, Sides, ModelSide, RunSide, BackTo
  <1>7. setup' = setup /\ Appends("RetryResumed", exec'.ck) /\ exec.ck.back \in {"model", "tool"}
    BY <1>1 DEF DoesRetryResumed, SameRest
  <1>8. Rest'
    <2>1. CASE setup.context
      BY <1>3, <1>4, <1>6, <1>7, <2>1, RestCkpt DEF Fits
    <2>2. CASE ~setup.context
      BY <1>7, <2>2 DEF Rest
    <2> QED
      BY <2>1, <2>2
  <1>9. setup.context => snapshot' = exec'.ck
    BY <1>3, <1>7 DEF Appends
  <1>10. exec'.pc = "top" /\ exec' \in Executions
    BY <1>1 DEF DoesRetryResumed, Changes
  <1>11. Sides'
    BY <1>3, <1>4, <1>6, <1>7, <1>9, <1>10, NoPhase DEF Sides, ModelSide, RunSide, Of, BackTo,
       Keyed, Inside, ModelPhases, Runnable
  <1> QED
    BY <1>8, <1>11

\* A run can be resumed after the step before a model call.
LEMMA RestModelStep ==
  ASSUME Shape, Rest, Sides, ModelStep PROVE Rest' /\ Sides'
  <1>1. DoesModelStep
    BY DoModelStep
  <1>2. CASE exec' = None /\ Appends("RunSuspended", None) /\ SameRest
    BY <1>2, RestPark
  <1>3. CASE /\ SameStream /\ SameRest
             /\ \/ exec' = exec
                \/ exec'.pc \in {"enter", "retry"} /\ exec'.key = ModelKey /\ exec'.ck = exec.ck
    <2>1. Rest' /\ setup' = setup
      BY <1>3, RestSame DEF SameRest
    <2>2. ModelKey[1] = "model" /\ exec # None /\ exec.pc = "model"
      BY <1>1, ModelKeyMade DEF DoesModelStep
    <2>3. Sides'
      BY <1>3, <2>1, <2>2, NoPhase DEF Sides, ModelSide, RunSide, Of, BackTo, SameStream, Keyed,
         Inside
    <2> QED
      BY <2>1, <2>3
  <1> QED
    BY <1>1, <1>2, <1>3 DEF DoesModelStep, SameStore, Changes

\* A run can be resumed after announcing a model call.
LEMMA RestModelStart ==
  ASSUME Shape, Rest, Sides, LocalModelStart \/ ProductionStart PROVE Rest' /\ Sides'
  <1>1. DoesModelStart
    BY DoModelStart
  <1>2. CASE SameStore /\ (Changes({"pc"}) \/ Changes({"pc", "outcome"})) /\ exec'.pc \in {"send", "settle"}
    BY <1>1, <1>2, RestInside DEF DoesModelStart, SameStore, SameRest, Changes, Keyed, Inside
  <1>3. CASE /\ Appends("ModelCallStarted", Ckpt("model_inflight", exec.key[3], None))
             /\ SameRest /\ Changes({"pc"}) /\ exec'.pc \in {"send", "dispatch"}
    <2>1. PICK c : c = Ckpt("model_inflight", exec.key[3], None) /\ c # None /\ c.phase = "model_inflight"
      BY <1>1, CkptMade DEF DoesModelStart, CheckpointPhases
    <2>2. run'.status = "planning" /\ Appends("ModelCallStarted", c)
      BY <1>3, <2>1 DEF Appends, StatusMove
    <2>3. Rest'
      BY <1>3, <2>1, <2>2, RestCkpt DEF Fits, SameRest
    <2>4. Sides'
      BY <1>1, <1>3, <2>2, NoPhase DEF DoesModelStart, Sides, ModelSide, RunSide, Of, BackTo,
         Changes, Keyed, Inside, ModelPhases, Runnable
    <2> QED
      BY <2>3, <2>4
  <1> QED
    BY <1>1, <1>2, <1>3 DEF DoesModelStart

\* A run can be resumed after recording a production answer.
LEMMA RestRecord ==
  ASSUME Shape, Rest, Sides, RecordAnswer PROVE Rest' /\ Sides'
  <1>1. DoesRecord
    BY DoRecord
  <1>2. CASE Quiet /\ Changes({"pc", "outcome"}) /\ exec'.pc = "settle"
    BY <1>1, <1>2, RestInside DEF DoesRecord, Quiet, Changes, Keyed, Inside
  <1>3. CASE /\ \/ Appends("ModelCallCompleted", Ckpt("model", exec.key[3], None))
                \/ \E o \in EmissionKinds \cup {None} :
                     Appends("ModelCallCompleted", Ckpt("emission", exec.key[3], o))
             /\ SameRest /\ Changes({"pc"}) /\ exec'.pc = "settle"
    <2>1. exec.key[3] \in Nat
      BY <1>1, ExecKey DEF DoesRecord, Keyed, Inside, AttemptKinds
    <2>2. PICK c : c # None /\ c.phase \in {"model", "emission"} /\ Appends("ModelCallCompleted", c)
      BY <1>3, <2>1, CkptMade DEF CheckpointPhases
    <2>3. run'.status = "planning"
      BY <2>2 DEF Appends, StatusMove
    <2>4. Rest'
      BY <1>3, <2>2, <2>3, RestCkpt DEF Fits, SameRest
    <2>5. Sides'
      BY <1>1, <1>3, <2>3, NoPhase DEF DoesRecord, Sides, ModelSide, RunSide, Of, BackTo, Changes,
         Keyed, Inside, ModelPhases, Runnable
    <2> QED
      BY <2>4, <2>5
  <1> QED
    BY <1>1, <1>2, <1>3 DEF DoesRecord

\* A run can be resumed after going to #finalize.
LEMMA RestFinal ==
  ASSUME Shape, Rest, Sides, FinalOrVerification PROVE Rest' /\ Sides'
  <1>1. DoesFinal
    BY DoFinal
  <1>2. SameStream /\ setup' = setup /\ approved' = approved
    BY <1>1 DEF DoesFinal, SameStore, SameRest
  <1>3. Sides'
    BY <1>1, <1>2, NoPhase DEF DoesFinal, Sides, ModelSide, RunSide, Of, BackTo, Changes,
       SameStream, Keyed, Inside, ModelPhases
  <1> QED
    BY <1>2, <1>3, RestSame

\* The same checkpoint arguments for every append the execution goes on after.
LEMMA RestGoesOn ==
  ASSUME NEW t, NEW c, c # None, Appends(t, c), setup' = setup,
         run'.status \in {"planning", "running", "verifying"}, Fits(c, run'.status),
         exec' # None => /\ exec'.pc \notin Keyed \cup {"model", "resume"}
                         /\ exec'.pc = "top" => exec'.ck.phase \in {None, "turn"}
                         /\ exec'.pc = "emit" => exec'.ck.phase # "tool"
                         /\ exec'.pc = "policy" => run'.status = "running" /\ c.phase = "tool"
  PROVE  Rest' /\ Sides'
  <1>1. Rest'
    BY RestCkpt
  <1>2. setup.context => snapshot' = c
    BY DEF Appends
  <1>3. Sides'
    BY <1>2, NoPhase DEF Sides, ModelSide, RunSide, Of, BackTo, Keyed, Inside, ModelPhases, Runnable
  <1> QED
    BY <1>1, <1>3

\* A run can be resumed after what follows a model call.
LEMMA RestAfterModel ==
  ASSUME Shape, Rest, Sides, AfterModel PROVE Rest' /\ Sides'
  <1>1. DoesAfterModel
    BY DoAfterModel
  <1>2. CASE exec' = None /\ Appends("RunFailed", None)
    BY <1>1, <1>2, RestPark DEF DoesAfterModel
  <1>3. exec.ck.phase \in {None, "turn"} \cup ModelPhases
    BY <1>1 DEF DoesAfterModel, Shape, ExecShape, Of, Keyed
  <1>4. CASE SameStream /\ Changes({"pc", "next", "models"}) /\ exec'.pc = "emit"
    <2>1. Rest' /\ setup' = setup
      BY <1>1, <1>4, RestSame DEF DoesAfterModel, SameRest
    <2>2. Sides'
      BY <1>1, <1>3, <1>4, <2>1, NoPhase DEF DoesAfterModel, Sides, ModelSide, RunSide, Of,
         BackTo, Changes, SameStream, Keyed, Inside, ModelPhases
    <2> QED
      BY <2>1, <2>2
  <1>5. CASE /\ \E o \in EmissionKinds : Appends("ModelCallCompleted", Ckpt("emission", 0, o))
             /\ Changes({"pc", "next", "models"}) /\ exec'.pc = "emit"
    <2>1. PICK c : c # None /\ c.phase = "emission" /\ Appends("ModelCallCompleted", c)
      BY <1>5, CkptMade DEF CheckpointPhases
    <2>2. run'.status = "planning"
      BY <2>1 DEF Appends, StatusMove
    <2>3. exec'.ck.phase # "tool" /\ setup' = setup
      BY <1>1, <1>3, <1>5, NoPhase DEF DoesAfterModel, Changes, ModelPhases, SameRest
    <2> QED
      BY <1>5, <2>1, <2>2, <2>3, RestGoesOn DEF Fits, Keyed, Inside
  <1>6. CASE SameStream /\ Changes({"pc", "models"}) /\ exec'.pc = "retry"
    BY <1>1, <1>6, RestInside DEF DoesAfterModel, SameRest, Changes, Keyed, Inside
  <1> QED
    BY <1>1, <1>2, <1>4, <1>5, <1>6 DEF DoesAfterModel

\* A run can be resumed after the end of a backoff.
LEMMA RestAfterBackoff ==
  ASSUME Shape, Rest, Sides, AfterBackoff PROVE Rest' /\ Sides'
  <1>1. DoesAfterBackoff
    BY DoAfterBackoff
  <1>2. SameStream /\ setup' = setup /\ approved' = approved
    BY <1>1 DEF DoesAfterBackoff, SameStore, SameRest
  <1>3. \/ exec.key[1] = "model_backoff" /\ exec.ck.back = "model"
        \/ exec.key[1] = "tool_backoff" /\ exec.ck.back = "tool"
    BY <1>1 DEF DoesAfterBackoff, Shape, ExecShape, Of, BackTo, Keyed
  <1>4. Sides'
    BY <1>1, <1>2, <1>3, NoPhase DEF DoesAfterBackoff, Sides, ModelSide, RunSide, Of, BackTo,
       Changes, SameStream, Keyed, Inside, ModelPhases
  <1> QED
    BY <1>2, <1>4, RestSame

\* A run can be resumed after what follows a tool call.
LEMMA RestAfterTool ==
  ASSUME Shape, Rest, Sides, AfterTool PROVE Rest' /\ Sides'
  <1>1. DoesAfterTool
    BY DoAfterTool
  <1>2. CASE SameStream /\ Changes({"pc"}) /\ exec'.pc = "retry"
    BY <1>1, <1>2, RestInside DEF DoesAfterTool, SameRest, Changes, Keyed, Inside
  <1>3. CASE /\ Appends("ToolCallCompleted", Ckpt("turn", 0, None))
             /\ Changes({"pc", "ck", "next"}) /\ exec'.pc = "top" /\ exec'.ck = NoCkpt
    <2>1. PICK c : c # None /\ c.phase = "turn" /\ Appends("ToolCallCompleted", c)
      BY <1>3, CkptMade DEF CheckpointPhases
    <2>2. run'.status = "running" /\ setup' = setup
      BY <1>1, <2>1 DEF DoesAfterTool, Appends, StatusMove, SameRest
    <2> QED
      BY <1>3, <2>1, <2>2, NoCkptMade, RestGoesOn DEF Fits, Keyed, Inside
  <1> QED
    BY <1>1, <1>2, <1>3 DEF DoesAfterTool

\* A run can be resumed after a verdict.
LEMMA RestAfterVerifier ==
  ASSUME Shape, Rest, Sides, AfterVerifier PROVE Rest' /\ Sides'
  <1>1. DoesAfterVerifier
    BY DoAfterVerifier
  <1>2. exec'.ck # None /\ exec'.ck.phase = "verification" /\ Appends("VerificationRecorded", exec'.ck)
    BY <1>1, VerificationMade DEF DoesAfterVerifier
  <1>3. run'.status = "verifying" /\ setup' = setup
    BY <1>1, <1>2 DEF DoesAfterVerifier, Appends, StatusMove, SameRest
  <1>4. exec'.pc \in {"finalize", "fail"}
    BY <1>1 DEF DoesAfterVerifier
  <1> QED
    BY <1>2, <1>3, <1>4, RestGoesOn DEF Fits, Keyed, Inside

\* A run can be resumed after #scheduleRetry.
LEMMA RestRetry ==
  ASSUME Shape, Rest, Sides, Retry PROVE Rest' /\ Sides'
  <1>1. DoesRetry
    BY DoRetry
  <1>2. /\ exec' \in Executions /\ exec'.pc = "top" /\ exec'.ck.phase = "scheduled_backoff"
        /\ exec'.ck.back = exec.key[1] /\ exec.key[1] \in {"model", "tool"} /\ setup' = setup
        /\ Appends("RetryScheduled", exec'.ck)
    BY <1>1 DEF DoesRetry, Changes, SameRest
  <1>3. exec'.ck # None
    BY <1>2, NoneIsNoData DEF Executions
  <1>4. run'.status = run.status /\ run.status \in {"planning", "running"} /\ run.status \notin TerminalStatuses
    BY <1>2 DEF Appends, StatusMove
  <1>5. setup.context => (exec.key[1] = "model" => run.status = "planning") /\ (exec.key[1] = "tool" => run.status = "running")
    BY <1>1, <1>4 DEF DoesRetry, Sides, ModelSide, RunSide, Of, Keyed
  <1>6. Rest'
    <2>1. CASE setup.context
      BY <1>2, <1>3, <1>4, <1>5, <2>1, RestCkpt DEF Fits
    <2>2. CASE ~setup.context
      BY <1>2, <2>2 DEF Rest
    <2> QED
      BY <2>1, <2>2
  <1>7. Sides'
    BY <1>2, <1>4, <1>5, NoPhase DEF Sides, ModelSide, RunSide, Of, BackTo, Keyed, Inside,
       ModelPhases, Runnable
  <1> QED
    BY <1>6, <1>7

\* A run can be resumed after a request for input or a final answer.
LEMMA RestEmit ==
  ASSUME Shape, Rest, Sides, EmitInput \/ EmitFinal PROVE Rest' /\ Sides'
  <1>1. CASE EmitInput
    <2>1. DoesEmitInput
      BY <1>1, DoEmitInput
    <2>2. PICK c : c # None /\ c.phase = "input" /\ Appends("InputRequested", c)
      BY <2>1, CkptMade DEF DoesEmitInput, CheckpointPhases
    <2>3. run'.status = "waiting_for_input" /\ setup' = setup /\ exec' = None
      BY <2>1, <2>2 DEF DoesEmitInput, Appends, StatusMove, SameRest
    <2> QED
      BY <2>2, <2>3, RestCkpt, SidesEnded DEF Fits
  <1>2. CASE EmitFinal
    <2>1. DoesEmitFinal
      BY <1>2, DoEmitFinal
    <2>2. PICK c : c # None /\ c.phase = "final" /\ Appends("ExecutionStarted", c)
      BY <2>1, CkptMade DEF DoesEmitFinal, CheckpointPhases, EmissionKinds
    <2>3. run'.status = "running" /\ setup' = setup /\ exec'.pc = "finalize"
      BY <2>1, <2>2 DEF DoesEmitFinal, Appends, StatusMove, SameRest
    <2> QED
      BY <2>2, <2>3, RestGoesOn DEF Fits, Keyed, Inside
  <1> QED
    BY <1>1, <1>2

\* A run can be resumed after a tool emission.
LEMMA RestEmitTool ==
  ASSUME Shape, Rest, Sides, EmitTool PROVE Rest' /\ Sides'
  <1>1. DoesEmitTool
    BY DoEmitTool
  <1>2. CASE /\ exec'.pc = "request"
             /\ Appends("ExecutionStarted", Ckpt("tool_request", 0, exec.next))
    <2>1. exec.next \in EmissionKinds \cup {None}
      BY <1>1, ExecFields DEF DoesEmitTool
    <2>2. PICK c : c # None /\ c.phase = "tool_request" /\ Appends("ExecutionStarted", c)
      BY <1>2, <2>1, CkptMade DEF CheckpointPhases
    <2>3. run'.status = "running" /\ setup' = setup
      BY <1>1, <2>2 DEF DoesEmitTool, Appends, StatusMove, SameRest
    <2> QED
      BY <1>2, <2>2, <2>3, RestGoesOn DEF Fits, Keyed, Inside
  <1>3. CASE (SameStream /\ exec'.pc = "request") \/ (SameStream /\ exec.ck.phase = "tool" /\ exec'.pc = "policy")
    <2>1. Rest' /\ setup' = setup /\ SameStream
      BY <1>1, <1>3, RestSame DEF DoesEmitTool, SameRest
    <2>2. Sides'
      BY <1>1, <1>3, <2>1, NoPhase DEF DoesEmitTool, Sides, ModelSide, RunSide, Of, BackTo,
         Changes, SameStream, Keyed, Inside, ModelPhases
    <2> QED
      BY <2>1, <2>2
  <1> QED
    BY <1>1, <1>2, <1>3 DEF DoesEmitTool

\* A run can be resumed after ToolCallRequested.
LEMMA RestRequestTool ==
  ASSUME Shape, Rest, Sides, RequestTool PROVE Rest' /\ Sides'
  <1>1. DoesRequestTool
    BY DoRequestTool
  <1>2. PICK c : c # None /\ c.phase = "tool" /\ Appends("ToolCallRequested", c)
    BY <1>1, CkptMade DEF DoesRequestTool, CheckpointPhases
  <1>3. run'.status = "running" /\ setup' = setup /\ exec'.pc = "policy"
    BY <1>1, <1>2 DEF DoesRequestTool, Appends, StatusMove
  <1> QED
    BY <1>2, <1>3, RestGoesOn DEF Fits, Keyed, Inside

\* A run can be resumed after the policy decision about a tool.
LEMMA RestPolicy ==
  ASSUME Shape, Rest, Sides, Policy PROVE Rest' /\ Sides'
  <1>1. DoesPolicy
    BY DoPolicy
  <1>2. CASE exec' = None /\ Appends("ApprovalRequested", None) /\ ~approved
    <2>1. run'.status = "waiting_for_approval" /\ run.status \notin TerminalStatuses /\ setup' = setup
          /\ approved' = approved
      BY <1>1, <1>2 DEF DoesPolicy, Appends, StatusMove, SameRest
    <2>2. CASE setup.context
      <3>1. run.status = "running" /\ snapshot.phase = "tool"
        BY <1>1, <2>1, <2>2 DEF DoesPolicy, Sides, RunSide
      <3>2. snapshot # None /\ suffix = <<>>
        BY <1>2, <2>2, <3>1 DEF Rest, SafeSuffix, Active
      <3>3. snapshot' = snapshot /\ suffix' = <<"ApprovalRequested">>
        BY <1>2, <3>2 DEF Appends
      <3>4. suffix' # <<"ApprovalRequested", "ApprovalRecorded">>
        BY <3>3
      <3> QED
        BY <1>2, <2>1, <3>1, <3>2, <3>3, <3>4, SidesEnded DEF Rest, Fits, Active
    <2>3. CASE ~setup.context
      BY <1>2, <2>1, <2>3, SidesEnded DEF Rest
    <2> QED
      BY <2>2, <2>3
  <1>3. CASE SameStream /\ Changes({"pc", "key"}) /\ exec'.pc = "enter" /\ exec'.key[1] = "tool"
    <2>1. Rest' /\ setup' = setup
      BY <1>1, <1>3, RestSame DEF DoesPolicy, SameRest
    <2>2. Sides'
      BY <1>1, <1>3, <2>1, NoPhase DEF DoesPolicy, Sides, ModelSide, RunSide, Of, BackTo, Changes,
         SameStream, Keyed, Inside, ModelPhases
    <2> QED
      BY <2>1, <2>2
  <1> QED
    BY <1>1, <1>2, <1>3 DEF DoesPolicy

\* A run can be resumed after a step of #finalize.
LEMMA RestFinalize ==
  ASSUME Shape, Rest, Sides, Finalize PROVE Rest' /\ Sides'
  <1>1. DoesFinalize
    BY DoFinalize
  <1>2. /\ Verification({}) # None /\ Verification({}).phase = "verification"
    BY VerificationMade
  <1>3. CASE Appends("ArtifactProduced", Verification({})) /\ Changes({"ck"})
    <2>1. run'.status = "running" /\ setup' = setup /\ exec'.pc = "finalize"
      BY <1>1, <1>3 DEF DoesFinalize, Appends, StatusMove, SameRest, Changes
    <2> QED
      BY <1>2, <1>3, <2>1, RestGoesOn DEF Fits, Keyed, Inside
  <1>4. CASE exec' = exec /\ Appends("VerificationStarted", Verification({}))
    <2>1. run'.status = "verifying" /\ setup' = setup /\ exec'.pc = "finalize"
      BY <1>1, <1>4 DEF DoesFinalize, Appends, StatusMove, SameRest
    <2> QED
      BY <1>2, <1>4, <2>1, RestGoesOn DEF Fits, Keyed, Inside
  <1>5. CASE /\ SameStream /\ Changes({"pc", "key"}) /\ exec'.pc = "enter"
             /\ exec'.key = VKey(run.required \ exec.ck.verified)
    <2>1. Rest' /\ setup' = setup
      BY <1>1, <1>5, RestSame DEF DoesFinalize, SameRest
    <2>2. run.required \ exec.ck.verified \in SUBSET Verifiers
      BY DEF Shape, LoopTypes, StoreTypes, Projections
    <2>3. exec'.key[1] \in {"verifier", "evidence"}
      BY <1>5, <2>2, VKeyMade
    <2>4. Sides'
      BY <1>1, <1>5, <2>1, <2>3, NoPhase DEF DoesFinalize, Sides, ModelSide, RunSide, Of, BackTo,
         Changes, SameStream, Keyed, Inside, ModelPhases
    <2> QED
      BY <2>1, <2>4
  <1> QED
    BY <1>1, <1>3, <1>4, <1>5 DEF DoesFinalize

\* A run can be resumed after the ends of an execution, the commands and the maintenance.
LEMMA RestOthers ==
  ASSUME Shape, Rest, Sides,
         \/ NoRetry \/ AfterEvidence \/ Exhausted \/ Ended
         \/ Start \/ SubmitInput \/ Approve \/ Cancel \/ Reconcile
  PROVE  Rest' /\ Sides'
  <1>1. CASE NoRetry \/ AfterEvidence \/ Exhausted
    <2>1. DoesNoRetry \/ DoesAfterEvidence \/ DoesExhausted
      BY <1>1, DoNoRetry, DoAfterEvidence, DoExhausted
    <2> QED
      BY <2>1, RestPark DEF DoesNoRetry, DoesAfterEvidence, DoesExhausted
  <1>2. CASE Ended
    BY <1>2, DoEnded, RestSame, SidesEnded DEF DoesEnded, Quiet
  <1>3. CASE Start
    <2>1. DoesStart
      BY <1>3, DoStart
    <2>2. exec = None
      BY <2>1 DEF DoesStart, Sides, Runnable, TerminalStatuses
    <2>3. Sides'
      BY <2>1, <2>2 DEF DoesStart, Sides
    <2>4. Rest'
      BY <2>1 DEF DoesStart, Rest, SameRest, Active
    <2> QED
      BY <2>3, <2>4
  <1>4. CASE Reconcile
    <2>1. exec' = exec /\ SameStream /\ SameRest
      BY <1>4, DoReconcile DEF DoesReconcile
    <2>2. Sides'
      BY <2>1 DEF SameStream, SameRest, Sides, ModelSide, RunSide, Of, BackTo
    <2> QED
      BY <2>1, <2>2, RestSame DEF SameRest
  <1>5. CASE SubmitInput \/ Approve \/ Cancel
    <2>1. DoesCommand
      BY <1>5, DoCommand
    <2>2. exec' = exec /\ setup' = setup
      BY <2>1 DEF DoesCommand
    <2>3. CASE Appends("RunCancelled", None)
      <3>1. run'.status \in TerminalStatuses
        BY <2>3 DEF Appends, StatusMove
      <3>2. Sides'
        BY <2>2, <3>1 DEF Sides
      <3> QED
        BY <2>2, <2>3, <3>2, RestParked
    <2>4. CASE run.status = "waiting_for_input" /\ Appends("InputSubmitted", None) /\ approved' = approved
      <3>1. exec' = None
        BY <2>2, <2>4 DEF Sides, Runnable, TerminalStatuses
      <3>2. run'.status = "planning"
        BY <2>4 DEF Appends, StatusMove
      <3>3. CASE setup.context
        <4>1. snapshot # None /\ snapshot.phase = "input" /\ suffix = <<>>
          BY <2>4, <3>3 DEF Rest, Fits
        <4>2. snapshot' = snapshot /\ suffix' = <<"InputSubmitted">>
          BY <2>4, <4>1 DEF Appends
        <4>3. suffix' # <<"ApprovalRequested", "ApprovalRecorded">>
          BY <4>2
        <4> QED
          BY <3>1, <3>2, <4>1, <4>2, <4>3, SidesEnded DEF Rest, Fits, SafeSuffix
      <3> QED
        BY <2>2, <3>1, <3>3, SidesEnded DEF Rest
    <2>5. CASE run.status = "waiting_for_approval" /\ Appends("ApprovalRecorded", None) /\ approved' = TRUE
      <3>1. exec' = None
        BY <2>2, <2>5 DEF Sides, Runnable, TerminalStatuses
      <3>2. run'.status = "running"
        BY <2>5 DEF Appends, StatusMove
      <3>3. CASE setup.context
        <4>1. snapshot # None /\ snapshot.phase = "tool" /\ suffix = <<"ApprovalRequested">>
          BY <2>5, <3>3 DEF Rest, Fits
        <4>2. snapshot' = snapshot /\ suffix' = <<"ApprovalRequested", "ApprovalRecorded">>
          BY <2>5, <4>1 DEF Appends
        <4> QED
          BY <2>5, <3>1, <3>2, <4>1, <4>2, SidesEnded DEF Rest, Fits, SafeSuffix
      <3> QED
        BY <2>2, <3>1, <3>3, SidesEnded DEF Rest
    <2> QED
      BY <2>1, <2>3, <2>4, <2>5 DEF DoesCommand
  <1> QED
    BY <1>1, <1>2, <1>3, <1>4, <1>5

\* Every step leaves a run that can be resumed.
LEMMA RestStep ==
  ASSUME Shape, Rest, Sides, [Next]_vars PROVE Rest' /\ Sides'
  <1>1. CASE UNCHANGED vars
    BY <1>1 DEF vars, store, Rest, SafeSuffix, Fits, Sides, ModelSide, RunSide, Of, BackTo
  <1>2. CASE Next
    BY <1>2, LoopSteps, RestExecute, RestBackoff, RestRetryResumed, RestTurn, RestFinal,
       RestModelStep,
       RestModelStart, RestCalls, RestRecord, RestAfterModel, RestAfterBackoff, RestAfterTool,
       RestAfterVerifier, RestRetry, RestEmit, RestEmitTool, RestRequestTool, RestPolicy,
       RestFinalize, RestOthers
  <1> QED
    BY <1>1, <1>2

-----------------------------------------------------------------------------
(* The model calls sent are within the budget. *)

\* The model calls that were sent, and how many there are once this one is.
SentModels == {k \in BoundaryKeys : k[1] = "model" /\ sent[k] > 0}
Used == Cardinality(SentModels)
Need(k) == Used + (IF k \in SentModels THEN 0 ELSE 1)

\* The model call of the turn under way with this attempt.
MKey(a) == <<"model", count.turns, a>>

\* The call an execution makes belongs to the turn under way, and one announced before is the
\* one the stored checkpoint names.
Links ==
  exec # None =>
    /\ Of({"model"}) => exec.key[2] = count.turns
    /\ exec.pc \in {"top", "model"} /\ exec.ck.phase = "model_inflight" =>
         snapshot # None /\ snapshot.phase = "model_inflight" /\ snapshot.attempt = exec.ck.attempt
    /\ setup.context /\ Of({"model"})
         /\ (exec.pc \in {"dispatch", "send"} \/ (exec.pc \in {"enter", "call"} /\ exec.inflight)) =>
         snapshot # None /\ snapshot.phase = "model_inflight" /\ snapshot.attempt = exec.key[3]

\* The events of the stream and the stored checkpoint count what was sent.
SnapBudget ==
  /\ Used <= MaxModelCalls /\ Used <= count.models
  /\ snapshot # None =>
     /\ snapshot.phase \in ModelPhases => snapshot.attempt >= Need(MKey(snapshot.attempt))
     /\ snapshot.phase = "model_inflight" => count.models >= Need(MKey(snapshot.attempt))
     /\ snapshot.phase = "scheduled_backoff" /\ snapshot.back = "model" => snapshot.attempt > Used

\* So do the execution's own counters, its checkpoint and its attempts.
ExecBudget ==
  exec # None =>
    /\ exec.models >= Used \/ (Of({"model"}) /\ exec.pc # "retry")
    /\ exec.pc \in {"top", "model"} /\ exec.ck.phase \in ModelPhases =>
         exec.ck.attempt >= Need(MKey(exec.ck.attempt))
    /\ exec.pc \in {"top", "model"} /\ exec.ck.phase = "model_inflight" =>
         exec.models >= Need(MKey(exec.ck.attempt))
    /\ (exec.pc \in {"top", "resume"} \/ Of({"model_backoff"})) /\ BackTo("model") =>
         exec.ck.attempt > Used
    /\ Of({"model"}) /\ exec.pc # "retry" =>
         /\ exec.models + (IF exec.inflight THEN 0 ELSE 1) >= Need(exec.key)
         /\ exec.key[3] >= Need(exec.key)
    /\ Of({"model"}) /\ exec.pc = "retry" => exec.key[3] >= Used
    /\ Of({"model"}) /\ (exec.pc \in {"dispatch", "send"} \/ (exec.pc \in {"enter", "call"} /\ exec.inflight))
         => count.models >= Need(exec.key)

Budget == SnapBudget /\ ExecBudget /\ Links

\* There are finitely many model calls.
LEMMA ModelKeysFinite ==
  IsFiniteSet({k \in BoundaryKeys : k[1] = "model"})
  <1> DEFINE S == Steps \X Attempts
             T == {k \in BoundaryKeys : k[1] = "model"}
             f == [c \in S |-> <<"model", c[1], c[2]>>]
  <1>1. IsFiniteSet(Steps) /\ IsFiniteSet(Attempts)
    BY LoopBounds, FS_Interval DEF Steps, Attempts
  <1>2. IsFiniteSet(S)
    BY <1>1, FS_Product
  <1>3. \A c \in S : f[c] \in T
    BY DEF BoundaryKeys
  <1>4. \A k \in T : \E c \in S : f[c] = k
    <2> SUFFICES ASSUME NEW k \in T PROVE \E c \in S : f[c] = k
      OBVIOUS
    <2>1. k = <<"model", k[2], k[3]>> /\ k[2] \in Steps /\ k[3] \in Attempts
      BY LoopKeys DEF AttemptKinds
    <2>2. <<k[2], k[3]>> \in S /\ f[<<k[2], k[3]>>] = k
      BY <2>1
    <2> QED
      BY <2>2
  <1>5. f \in Surjection(S, T)
    BY <1>3, <1>4 DEF Surjection
  <1> HIDE DEF S, f
  <1>6. IsFiniteSet(T)
    BY <1>2, <1>5, FS_Surjection
  <1> QED
    BY <1>6

\* What was sent is counted by a natural number, and one more call adds one.
LEMMA UsedMade ==
  /\ IsFiniteSet(SentModels) /\ Used \in Nat
  /\ \A k : Need(k) \in Nat /\ Used <= Need(k) /\ Need(k) <= Used + 1
  <1>1. SentModels \in SUBSET {k \in BoundaryKeys : k[1] = "model"}
    BY DEF SentModels
  <1>2. IsFiniteSet(SentModels)
    BY <1>1, ModelKeysFinite, FS_Subset
  <1>3. Used \in Nat
    BY <1>2, FS_CardinalityType DEF Used
  <1> QED
    BY <1>2, <1>3 DEF Need

\* A call sends nothing, or a call that is no model call.
Kept == Used' = Used /\ SentModels' = SentModels

\* Nothing sent: the sent model calls are kept.
LEMMA KeptSame ==
  ASSUME sent' = sent PROVE Kept
  BY DEF Kept, Used, SentModels

\* A call that is no model call keeps the sent model calls.
LEMMA KeptOther ==
  ASSUME Shape, NEW k \in BoundaryKeys, k[1] # "model", sent' = [sent EXCEPT ![k] = OnceMore(@)]
  PROVE  Kept
  <1>1. \A j \in BoundaryKeys : j[1] = "model" => sent'[j] = sent[j]
    BY Tables
  <1>2. SentModels' = SentModels
    BY <1>1, Zenon DEF SentModels
  <1> QED
    BY <1>2 DEF Kept, Used

\* A model call that is sent is counted.
LEMMA UsedSent ==
  ASSUME Shape, NEW k \in BoundaryKeys, k[1] = "model", sent' = [sent EXCEPT ![k] = OnceMore(@)]
  PROVE  Used' = Need(k) /\ SentModels' = SentModels \cup {k}
  <1>1. /\ \A j \in BoundaryKeys : j # k => sent'[j] = sent[j]
        /\ sent'[k] = OnceMore(sent[k]) /\ sent[k] \in 0..2
    BY Tables
  <1>2. sent'[k] > 0
    BY <1>1 DEF OnceMore
  <1>3. SentModels' = SentModels \cup {k}
    BY <1>1, <1>2, Zenon DEF SentModels
  <1>4. Used' = Cardinality(SentModels \cup {k})
    BY <1>3 DEF Used
  <1>5. IsFiniteSet(SentModels) /\ Used \in Nat
    BY UsedMade
  <1>6. Cardinality(SentModels \cup {k}) =
          IF k \in SentModels THEN Cardinality(SentModels) ELSE Cardinality(SentModels) + 1
    BY <1>5, FS_AddElement, Zenon
  <1>7. Used = Cardinality(SentModels)
    BY DEF Used
  <1> HIDE DEF Used, SentModels
  <1>8. Used' = Need(k)
    BY <1>4, <1>5, <1>6, <1>7 DEF Need
  <1> QED
    BY <1>3, <1>8

\* The numbers of a shaped state.
LEMMA BudgetNumbers ==
  ASSUME Shape
  PROVE  /\ count.models \in Nat /\ Used \in Nat /\ MaxModelCalls \in Nat
         /\ snapshot # None => snapshot.attempt \in Nat
         /\ exec # None => exec.models \in Nat /\ exec.ck.attempt \in Nat
         /\ exec # None /\ Of({"model"}) =>
              exec.key[3] \in Nat /\ exec.key = <<"model", exec.key[2], exec.key[3]>>
  <1>1. StoreTypes
    BY DEF Shape, LoopTypes
  <1>2. snapshot # None => snapshot.attempt \in Nat
    BY <1>1 DEF StoreTypes, Checkpoints
  <1>3. exec # None => exec.models \in Nat /\ exec.ck.attempt \in Nat
    BY ExecFields
  <1>4. exec # None /\ Of({"model"}) =>
              exec.key[3] \in Nat /\ exec.key = <<"model", exec.key[2], exec.key[3]>>
    BY ExecKey DEF Of, AttemptKinds
  <1> QED
    BY <1>1, <1>2, <1>3, <1>4, UsedMade, LoopBounds DEF StoreTypes

\* The stored checkpoint and the counts stay.
LEMMA SnapBudgetSame ==
  ASSUME SnapBudget, Kept, snapshot' = snapshot,
         count'.turns = count.turns, count'.models = count.models
  PROVE  SnapBudget'
  BY DEF SnapBudget, Kept, Need, MKey

\* An append stores a checkpoint that counts what was sent.
LEMMA SnapBudgetAppend ==
  ASSUME Shape, SnapBudget, Kept, NEW t \in LoopEventTypes, NEW c \in Checkpoints, Appends(t, c),
         c.phase \in ModelPhases => c.attempt >= Need(<<"model", count'.turns, c.attempt>>),
         c.phase = "model_inflight" => count'.models >= Need(<<"model", count'.turns, c.attempt>>),
         c.phase = "scheduled_backoff" /\ c.back = "model" => c.attempt > Used
  PROVE  SnapBudget'
  <1>1. count'.models \in Nat /\ count'.models >= count.models /\ count.models \in Nat /\ Used \in Nat
    BY Counted, BudgetNumbers
  <1>2. c # None /\ (~setup.context => snapshot = None)
    BY NoneIsNoData DEF Shape, SnapShape
  <1>3. snapshot' = c \/ snapshot' = None
    BY <1>2 DEF Appends
  <1> QED
    BY <1>1, <1>3 DEF SnapBudget, Kept, Need, MKey

\* An append that stores none counts as before, but for what it announces.
LEMMA SnapBudgetNone ==
  ASSUME Shape, SnapBudget, Kept, NEW t \in LoopEventTypes \ {"PlanningStarted", "ModelCallStarted"},
         Appends(t, None)
  PROVE  SnapBudget'
  <1>1. count'.turns = count.turns /\ count'.models = count.models
    BY Counted
  <1>2. snapshot' = snapshot
    BY DEF Appends
  <1> QED
    BY <1>1, <1>2, SnapBudgetSame

\* Where an execution stands that neither makes nor resumes a model call.
LEMMA ExecBudgetPlain ==
  ASSUME Kept,
         exec' # None =>
           /\ exec'.models >= Used
           /\ exec'.pc \in Keyed => exec'.key[1] \notin {"model", "model_backoff"}
           /\ exec'.pc \in {"top", "model", "resume"} =>
                exec'.ck.phase \notin ModelPhases \cup {"scheduled_backoff"}
  PROVE  ExecBudget' /\ Links'
  <1>1. exec' # None => ~(Of({"model"})') /\ ~(Of({"model_backoff"})')
    BY DEF Of
  <1>2. ExecBudget'
    BY <1>1 DEF ExecBudget, BackTo, Kept, Keyed, Inside, ModelPhases
  <1>3. Links'
    BY <1>1 DEF Links, ModelPhases
  <1> QED
    BY <1>2, <1>3

\* A step inside the boundary of one call.
LEMMA ExecBudgetInside ==
  ASSUME ExecBudget, Links, Kept, SameStream, setup' = setup,
         \/ exec' = None
         \/ /\ exec # None /\ exec.pc \in Keyed \ {"retry"} /\ exec'.pc \in Keyed \ {"retry"}
            /\ exec'.key = exec.key /\ exec'.ck = exec.ck /\ exec'.models = exec.models
            /\ exec'.inflight = exec.inflight
            /\ exec'.pc \in {"dispatch", "send"} =>
                 exec.pc \in {"dispatch", "send"} \/ (exec.pc = "call" /\ exec.inflight)
            /\ exec'.pc \in {"enter", "call"} => exec.pc = "enter"
  PROVE  ExecBudget' /\ Links'
  <1>1. CASE exec' = None
    BY <1>1 DEF ExecBudget, Links
  <1>2. CASE exec' # None
    <2>1. Of({"model"})' = Of({"model"}) /\ Of({"model_backoff"})' = Of({"model_backoff"})
      BY <1>2 DEF Of
    <2>2. Links'
      BY <1>2, <2>1 DEF Links, SameStream, Keyed, Inside
    <2>3. ExecBudget'
      BY <1>2, <2>1 DEF ExecBudget, BackTo, Kept, Need, MKey, SameStream, Keyed, Inside
    <2> QED
      BY <2>2, <2>3
  <1> QED
    BY <1>1, <1>2

\* An execution that makes no model call has counted what was sent.
LEMMA ModelsCounted ==
  ASSUME Shape, ExecBudget, exec # None
  PROVE  /\ ~Of({"model"}) \/ exec.pc = "retry" => exec.models >= Used
         /\ Of({"model"}) => exec.key[3] >= Used
         /\ Of({"model"}) /\ exec.pc # "retry" => ModelCount >= Used
  <1>1. \A k : Need(k) \in Nat /\ Used <= Need(k)
    BY UsedMade
  <1> QED
    BY <1>1, BudgetNumbers DEF ExecBudget, ModelCount

\* The model calls sent are still counted after execute.
LEMMA BudgetExecute ==
  ASSUME Shape, Budget, Execute PROVE Budget'
  <1>1. DoesExecute
    BY DoExecute
  <1>2. Kept
    BY <1>1, KeptSame DEF DoesExecute, SameStore, SameRest
  <1>3. CASE exec' = None /\ Appends("RunSuspended", None)
    BY <1>2, <1>3, SnapBudgetNone, ExecBudgetPlain DEF Budget, LoopEventTypes
  <1>4. CASE /\ SameStore /\ exec' \in Executions
             /\ exec'.pc = "top" /\ exec'.models = count.models
             /\ \/ run.status = "accepted" /\ exec'.ck = NoCkpt
                \/ /\ snapshot # None
                   /\ exec'.ck = IF snapshot.phase = "input" THEN Ckpt("model", count.models + 1, None)
                                 ELSE snapshot
    <2>1. snapshot' = snapshot /\ count' = count /\ setup' = setup
      BY <1>4 DEF SameStore, SameStream, SameRest
    <2>2. SnapBudget'
      BY <1>2, <2>1, SnapBudgetSame DEF Budget
    <2>3. count.models \in Nat /\ Used \in Nat /\ count.models >= Used
      BY BudgetNumbers DEF Budget, SnapBudget
    <2>4. CASE exec'.ck = NoCkpt
      BY <1>2, <1>4, <2>2, <2>3, <2>4, NoCkptMade, NoPhase, ExecBudgetPlain
         DEF Budget, Keyed, Inside, ModelPhases
    <2>5. exec'.pc \notin Keyed
      BY <1>4 DEF Keyed, Inside
    <2>6. CASE exec'.ck = Ckpt("model", count.models + 1, None)
      <3>1. count.models + 1 \in Nat /\ "model" \in CheckpointPhases
        BY <2>3 DEF CheckpointPhases
      <3>2. exec'.ck.phase = "model" /\ exec'.ck.attempt = count.models + 1
        BY <2>6, <3>1, CkptMade
      <3>3. Links'
        BY <1>4, <2>5, <3>2 DEF Links, Of
      <3>4. ExecBudget'
        BY <1>2, <1>4, <2>1, <2>3, <2>5, <3>2 DEF ExecBudget, Of, BackTo, Need, Kept
      <3> QED
        BY <2>2, <3>3, <3>4 DEF Budget
    <2>7. CASE snapshot # None /\ exec'.ck = snapshot
      <3>1. Links'
        BY <1>4, <2>1, <2>5, <2>7 DEF Links, Of
      <3>2. ExecBudget'
        BY <1>2, <1>4, <2>1, <2>3, <2>5, <2>7 DEF Budget, SnapBudget, ExecBudget, Of, BackTo,
           Need, Kept, MKey
      <3> QED
        BY <2>2, <3>1, <3>2 DEF Budget
    <2> QED
      BY <1>4, <2>4, <2>6, <2>7
  <1> QED
    BY <1>1, <1>3, <1>4 DEF DoesExecute

\* The model calls sent are still counted after the wait for a persisted backoff.
LEMMA BudgetBackoff ==
  ASSUME Shape, Budget, Backoff \/ AfterBackoff PROVE Budget'
  <1>1. DoesBackoff \/ DoesAfterBackoff
    BY DoBackoff, DoAfterBackoff
  <1>2. SameStore /\ exec # None
    BY <1>1 DEF DoesBackoff, DoesAfterBackoff
  <1>3. Kept /\ snapshot' = snapshot /\ count' = count
    BY <1>2, KeptSame DEF SameStore, SameRest, SameStream
  <1>4. SnapBudget'
    BY <1>3, SnapBudgetSame DEF Budget
  <1>5. /\ exec'.models = exec.models /\ exec'.ck = exec.ck /\ exec.ck.phase = "scheduled_backoff"
        /\ exec'.pc \in {"resume", "enter"}
        /\ exec'.pc = "enter" => exec'.key[1] \in {"model_backoff", "tool_backoff"}
    BY <1>1 DEF DoesBackoff, DoesAfterBackoff, Changes
  <1>6. ~Of({"model"})
    BY <1>1 DEF DoesBackoff, DoesAfterBackoff, Of, Keyed, Inside
  <1>7. exec.models >= Used
    BY <1>2, <1>6, ModelsCounted DEF Budget
  <1>8. BackTo("model") => exec.ck.attempt > Used
    <2>1. CASE exec.pc = "top"
      BY <1>2, <2>1 DEF Budget, ExecBudget
    <2>2. CASE DoesAfterBackoff
      <3>1. BackTo("model") => Of({"model_backoff"})
        BY <2>2 DEF DoesAfterBackoff, Of, BackTo, Keyed, Shape, ExecShape
      <3> QED
        BY <1>2, <3>1 DEF Budget, ExecBudget
    <2> QED
      BY <1>1, <2>1, <2>2 DEF DoesBackoff
  <1>9. Links'
    BY <1>5 DEF Links, Of, Keyed, Inside
  <1>10. ExecBudget'
    BY <1>3, <1>5, <1>7, <1>8 DEF ExecBudget, Of, BackTo, Kept, ModelPhases, Keyed, Inside
  <1> QED
    BY <1>4, <1>9, <1>10 DEF Budget

\* The model calls sent are still counted after RetryResumed.
LEMMA BudgetRetryResumed ==
  ASSUME Shape, Budget, RetryResumed PROVE Budget'
  <1>1. DoesRetryResumed
    BY DoRetryResumed
  <1>2. exec # None /\ exec.ck.attempt \in Nat /\ exec.ck.emission \in EmissionKinds \cup {None} /\ Used \in Nat
    BY <1>1, ExecFields, BudgetNumbers DEF DoesRetryResumed
  <1>3. /\ exec'.ck \in Checkpoints /\ exec'.ck.phase = exec.ck.back /\ exec'.ck.attempt = exec.ck.attempt
        /\ exec.ck.back \in {"model", "tool"}
    BY <1>1, <1>2, CkptMade DEF DoesRetryResumed, CheckpointPhases
  <1>4. Kept
    BY <1>1, KeptSame DEF DoesRetryResumed, SameRest
  <1>5. exec.models >= Used
    BY <1>1, ModelsCounted DEF DoesRetryResumed, Budget, Of, Keyed, Inside
  <1>6. exec.ck.back = "model" => exec.ck.attempt > Used
    BY <1>1 DEF DoesRetryResumed, Budget, ExecBudget, BackTo
  <1>7. \A k : Need(k) <= Used + 1 /\ Need(k) \in Nat
    BY UsedMade
  <1>8. SnapBudget'
    <2>1. exec'.ck.phase \in ModelPhases =>
            exec'.ck.attempt >= Need(<<"model", count'.turns, exec'.ck.attempt>>)
      BY <1>2, <1>3, <1>6, <1>7 DEF ModelPhases
    <2>2. exec'.ck.phase \notin {"model_inflight", "scheduled_backoff"} /\ "RetryResumed" \in LoopEventTypes
      BY <1>3 DEF LoopEventTypes
    <2> QED
      BY <1>1, <1>3, <1>4, <2>1, <2>2, SnapBudgetAppend DEF DoesRetryResumed, Budget
  <1>9. exec'.pc = "top" /\ exec'.models = exec.models
    BY <1>1 DEF DoesRetryResumed, Changes
  <1>10. Links'
    BY <1>3, <1>9 DEF Links, Of, Keyed, Inside
  <1>11. ExecBudget'
    BY <1>2, <1>3, <1>4, <1>5, <1>6, <1>9 DEF ExecBudget, Of, BackTo, Kept, Need, Keyed, Inside,
       ModelPhases
  <1> QED
    BY <1>8, <1>10, <1>11 DEF Budget

\* The model calls sent are still counted after entering a turn.
LEMMA BudgetTurn ==
  ASSUME Shape, Budget, Turn PROVE Budget'
  <1>1. DoesTurn
    BY DoTurn
  <1>2. Kept /\ exec # None /\ exec.pc = "top"
    BY <1>1, KeptSame DEF DoesTurn, SameStore, SameRest
  <1>3. exec.models >= Used /\ exec.models \in Nat /\ Used \in Nat
    BY <1>2, ModelsCounted, BudgetNumbers DEF Budget, Of, Keyed, Inside
  <1>4. CASE /\ exec.ck.phase \in {"emission", "tool_request", "tool"} /\ SameStore
             /\ Changes({"pc"}) /\ exec'.pc = "emit"
    <2>1. snapshot' = snapshot /\ count' = count
      BY <1>4 DEF SameStore, SameStream
    <2> QED
      BY <1>2, <1>3, <1>4, <2>1, SnapBudgetSame, ExecBudgetPlain DEF Budget, Changes, Keyed, Inside
  <1>5. CASE exec.ck.phase \in ModelPhases /\ SameStore /\ Changes({"pc"}) /\ exec'.pc = "model"
    <2>1. snapshot' = snapshot /\ count' = count
      BY <1>5 DEF SameStore, SameStream
    <2>2. SnapBudget'
      BY <1>2, <2>1, SnapBudgetSame DEF Budget
    <2>3. Links'
      BY <1>2, <1>5, <2>1 DEF Budget, Links, Of, Changes, Keyed, Inside
    <2>4. ExecBudget'
      BY <1>2, <1>3, <1>5, <2>1 DEF Budget, ExecBudget, Of, BackTo, Changes, Kept, Need, MKey,
         Keyed, Inside, ModelPhases
    <2> QED
      BY <2>2, <2>3, <2>4 DEF Budget
  <1>6. CASE /\ exec.ck.phase \in {None, "turn"}
             /\ Appends("PlanningStarted", Ckpt("model", exec.models + 1, None))
             /\ Changes({"pc", "turns"}) /\ exec'.pc = "model"
    <2>1. exec.models + 1 \in Nat /\ "model" \in CheckpointPhases
      BY <1>3 DEF CheckpointPhases
    <2>2. PICK c \in Checkpoints : /\ c.phase = "model" /\ c.attempt = exec.models + 1
                                   /\ Appends("PlanningStarted", c)
      BY <1>6, <2>1, CkptMade
    <2>3. \A k : Need(k) <= Used + 1 /\ Need(k) \in Nat
      BY UsedMade
    <2>4. SnapBudget'
      <3>1. c.attempt >= Need(<<"model", count'.turns, c.attempt>>)
        BY <1>3, <2>2, <2>3
      <3>2. "PlanningStarted" \in LoopEventTypes
        BY DEF LoopEventTypes
      <3> QED
        BY <1>2, <2>2, <3>1, <3>2, SnapBudgetAppend DEF Budget
    <2> QED
      BY <1>2, <1>3, <1>6, <2>4, NoPhase, ExecBudgetPlain DEF Budget, Changes, Keyed, Inside,
         ModelPhases
  <1> QED
    BY <1>1, <1>4, <1>5, <1>6 DEF DoesTurn

\* The model calls sent are still counted after the step before a model call.
LEMMA BudgetModelStep ==
  ASSUME Shape, Budget, ModelStep PROVE Budget'
  <1>1. DoesModelStep
    BY DoModelStep
  <1>2. Kept /\ exec # None /\ exec.pc = "model"
    BY <1>1, KeptSame DEF DoesModelStep, SameStore, SameRest
  <1>3. exec.models >= Used /\ exec.models \in Nat /\ Used \in Nat /\ exec.ck.attempt \in Nat
    BY <1>2, ModelsCounted, BudgetNumbers DEF Budget, Of, Keyed, Inside
  <1>4. CASE exec' = None /\ Appends("RunSuspended", None)
    BY <1>2, <1>4, SnapBudgetNone, ExecBudgetPlain DEF Budget, LoopEventTypes
  <1>5. CASE SameStream /\ SameRest /\ exec' = exec
    <2>1. snapshot' = snapshot /\ count' = count /\ setup' = setup
      BY <1>5 DEF SameStream, SameRest
    <2>2. Links'
      BY <1>5, <2>1 DEF Budget, Links, Of
    <2>3. ExecBudget'
      BY <1>2, <1>5, <2>1 DEF Budget, ExecBudget, Of, BackTo, Kept, Need, MKey
    <2> QED
      BY <1>2, <2>1, <2>2, <2>3, SnapBudgetSame DEF Budget
  <1>6. /\ ModelKey[1] = "model" /\ ModelKey[2] = count.turns /\ ModelKey[3] = Attempt
        /\ ModelKey = MKey(Attempt)
        /\ exec.ck.phase \in ModelPhases => Attempt = exec.ck.attempt
        /\ exec.ck.phase \notin ModelPhases => Attempt = exec.models + 1
    BY <1>1, ModelKeyMade, ExecFields DEF DoesModelStep, ModelKey, MKey, step
  <1>7. \A k : Need(k) <= Used + 1 /\ Need(k) \in Nat /\ Need(k) >= Used
    BY UsedMade
  <1>8. Attempt >= Need(ModelKey) /\ Attempt \in Nat
    BY <1>2, <1>3, <1>6, <1>7 DEF Budget, ExecBudget
  <1>9. CASE /\ SameStore /\ Changes({"pc", "key", "inflight"}) /\ exec'.pc = "enter"
             /\ exec'.key = ModelKey /\ exec'.inflight = (exec.ck.phase = "model_inflight")
    <2>1. snapshot' = snapshot /\ count' = count /\ setup' = setup
      BY <1>9 DEF SameStore, SameStream, SameRest
    <2>2. exec.ck.phase = "model_inflight" =>
            /\ exec.models >= Need(ModelKey) /\ Attempt = exec.ck.attempt
            /\ snapshot # None /\ snapshot.phase = "model_inflight" /\ snapshot.attempt = Attempt
            /\ count.models >= Need(ModelKey)
      BY <1>2, <1>6 DEF Budget, ExecBudget, Links, SnapBudget, ModelPhases
    <2>3. exec.models + 1 >= Need(ModelKey)
      BY <1>3, <1>7
    <2>5. Links'
      BY <1>6, <1>9, <2>1, <2>2 DEF Links, Of
    <2>6. ExecBudget'
      <3>1. /\ exec'.pc = "enter" /\ exec'.key = ModelKey /\ exec'.models = exec.models
            /\ exec'.key[1] = "model" /\ exec'.key[3] = Attempt
        BY <1>6, <1>9 DEF Changes
      <3>2. PICK n \in Nat : n = Need(ModelKey)
        BY <1>7
      <3>3. n = Need(exec.key)'
        BY <1>2, <3>1, <3>2 DEF Need, Kept
      <3>4. CASE exec.ck.phase = "model_inflight"
        <4>1. exec'.inflight = TRUE
          BY <1>9, <3>4
        <4> QED
          BY <1>3, <1>8, <2>1, <2>2, <3>1, <3>2, <3>3, <3>4, <4>1 DEF ExecBudget, Of, BackTo,
             Keyed, Inside
      <3>5. CASE exec.ck.phase # "model_inflight"
        <4>1. exec'.inflight = FALSE
          BY <1>9, <3>5
        <4> QED
          BY <1>8, <2>1, <2>3, <3>1, <3>2, <3>3, <3>5, <4>1 DEF ExecBudget, Of, BackTo, Keyed,
             Inside
      <3> QED
        BY <3>4, <3>5
    <2> QED
      BY <1>2, <2>1, <2>5, <2>6, SnapBudgetSame DEF Budget
  <1>10. CASE /\ SameStore /\ Changes({"pc", "key", "outcome"}) /\ exec'.pc = "retry"
              /\ exec'.key = ModelKey
    <2>1. snapshot' = snapshot /\ count' = count /\ setup' = setup
      BY <1>10 DEF SameStore, SameStream, SameRest
    <2>2. Attempt >= Used /\ exec'.models = exec.models
      BY <1>3, <1>7, <1>8, <1>10 DEF Changes
    <2>3. Links'
      BY <1>6, <1>10, <2>1 DEF Links, Of
    <2>4. ExecBudget'
      BY <1>2, <1>3, <1>6, <1>10, <2>1, <2>2 DEF ExecBudget, Of, BackTo, Kept
    <2> QED
      BY <1>2, <2>1, <2>3, <2>4, SnapBudgetSame DEF Budget
  <1> QED
    BY <1>1, <1>4, <1>5, <1>9, <1>10 DEF DoesModelStep, SameStore

\* The model calls sent are still counted after the entry of #withActiveExecution.
LEMMA BudgetEnter ==
  ASSUME Shape, Budget, Enter PROVE Budget'
  <1>1. DoesEnter
    BY DoEnter
  <1>2. /\ Kept /\ SameStream /\ snapshot' = snapshot /\ count' = count /\ setup' = setup
        /\ exec # None /\ exec.pc = "enter"
    BY <1>1, KeptSame DEF DoesEnter, SameStream, SameRest
  <1>3. SnapBudget'
    BY <1>2, SnapBudgetSame DEF Budget
  <1>4. CASE exec' = None
    BY <1>2, <1>3, <1>4, ExecBudgetPlain DEF Budget
  <1>5. CASE (Changes({"pc"}) \/ Changes({"pc", "held"})) /\ exec'.pc = "call"
    <2>1. /\ exec'.key = exec.key /\ exec'.ck = exec.ck /\ exec'.models = exec.models
          /\ exec'.inflight = exec.inflight
      BY <1>5 DEF Changes
    <2> QED
      BY <1>2, <1>3, <1>5, <2>1, ExecBudgetInside DEF Budget, Keyed, Inside
  <1>6. CASE /\ exec.key[1] \in {"model", "tool"}
             /\ Changes({"pc", "outcome", "models"}) /\ exec'.pc = "retry"
             /\ exec'.models = IF exec.key[1] = "model" /\ exec.models < exec.key[3]
                               THEN exec.key[3] ELSE exec.models
    <2>1. exec'.key = exec.key /\ exec'.ck = exec.ck
      BY <1>6 DEF Changes
    <2>2. CASE exec.key[1] = "tool"
      <3>1. exec'.models >= Used
        BY <1>2, <1>6, <2>2, ModelsCounted DEF Budget, Of
      <3> QED
        BY <1>2, <1>3, <1>6, <2>1, <2>2, <3>1, ExecBudgetPlain DEF Budget, Keyed, Inside
    <2>3. CASE exec.key[1] = "model"
      <3>1. Of({"model"})
        BY <1>2, <2>3 DEF Of, Keyed, Inside
      <3>2. exec.key[3] >= Used /\ exec.key[3] \in Nat /\ exec.models \in Nat /\ Used \in Nat
        BY <1>2, <3>1, ModelsCounted, BudgetNumbers DEF Budget
      <3>3. exec'.models >= Used
        BY <1>6, <2>3, <3>2
      <3>4. Links'
        BY <1>2, <1>6, <2>1, <3>1 DEF Budget, Links, Of
      <3>5. ExecBudget'
        BY <1>2, <1>6, <2>1, <2>3, <3>2, <3>3 DEF ExecBudget, Of, BackTo, Kept
      <3> QED
        BY <1>3, <3>4, <3>5 DEF Budget
    <2> QED
      BY <1>6, <2>2, <2>3
  <1> QED
    BY <1>1, <1>4, <1>5, <1>6 DEF DoesEnter

\* The model calls sent are still counted after announcing a model call.
LEMMA BudgetModelStart ==
  ASSUME Shape, Budget, LocalModelStart \/ ProductionStart PROVE Budget'
  <1>1. DoesModelStart
    BY DoModelStart
  <1>2. Kept /\ exec # None /\ exec.pc = "call" /\ exec.key[1] = "model" /\ Of({"model"}) /\ setup' = setup
    BY <1>1, KeptSame DEF DoesModelStart, SameStore, SameRest, Of, Keyed, Inside
  <1>3. CASE SameStore /\ ((Changes({"pc"}) /\ exec.inflight) \/ Changes({"pc", "outcome"}))
             /\ exec'.pc \in {"send", "settle"} /\ (exec'.pc = "send" => exec.inflight)
    <2>1. /\ exec'.key = exec.key /\ exec'.ck = exec.ck /\ exec'.models = exec.models
          /\ exec'.inflight = exec.inflight
      BY <1>3 DEF Changes
    <2>2. SameStream /\ snapshot' = snapshot /\ count' = count
      BY <1>3 DEF SameStore, SameStream
    <2>3. SnapBudget'
      BY <1>2, <2>2, SnapBudgetSame DEF Budget
    <2> QED
      BY <1>2, <1>3, <2>1, <2>2, <2>3, ExecBudgetInside DEF Budget, Keyed, Inside
  <1>4. CASE /\ Appends("ModelCallStarted", Ckpt("model_inflight", exec.key[3], None))
             /\ Changes({"pc"}) /\ exec'.pc \in {"send", "dispatch"}
    <2>1. /\ exec.key[3] \in Nat /\ "model_inflight" \in CheckpointPhases /\ count.models \in Nat
          /\ exec.key = <<"model", exec.key[2], exec.key[3]>> /\ exec.models \in Nat /\ Used \in Nat
      BY <1>2, BudgetNumbers DEF CheckpointPhases
    <2>2. PICK c \in Checkpoints : /\ c.phase = "model_inflight" /\ c.attempt = exec.key[3]
                                   /\ Appends("ModelCallStarted", c) /\ c # None
      BY <1>4, <2>1, CkptMade
    <2>3. count'.turns = count.turns /\ count'.models = count.models + 1
      BY <2>2, Counted DEF LoopEventTypes
    <2>4. exec.key = <<"model", count'.turns, c.attempt>>
      BY <1>2, <2>1, <2>2, <2>3 DEF Budget, Links
    <2>5. /\ exec.key[3] >= Need(exec.key) /\ Need(exec.key) \in Nat
          /\ exec.models + (IF exec.inflight THEN 0 ELSE 1) >= Need(exec.key)
      BY <1>2, UsedMade DEF Budget, ExecBudget
    <2>6. count'.models >= Need(exec.key)
      <3>1. Need(exec.key) <= Used + 1 /\ Used <= count.models
        BY UsedMade DEF Budget, SnapBudget
      <3> QED
        BY <2>1, <2>3, <2>5, <3>1
    <2>7. SnapBudget'
      <3>1. "ModelCallStarted" \in LoopEventTypes
        BY DEF LoopEventTypes
      <3>2. c.attempt >= Need(<<"model", count'.turns, c.attempt>>) /\ count'.models >= Need(<<"model", count'.turns, c.attempt>>)
        BY <2>2, <2>4, <2>5, <2>6
      <3> QED
        BY <1>2, <2>2, <3>1, <3>2, SnapBudgetAppend DEF Budget
    <2>8. /\ exec'.key = exec.key /\ exec'.models = exec.models /\ exec'.inflight = exec.inflight
      BY <1>4 DEF Changes
    <2>9. setup.context => snapshot' = c
      BY <2>2 DEF Appends
    <2>10. Links'
      BY <1>2, <1>4, <2>2, <2>3, <2>8, <2>9 DEF Budget, Links, Of
    <2>11. PICK n \in Nat : n = Need(exec.key)
      BY <2>5
    <2>12. n = Need(exec.key)'
      BY <1>2, <2>8, <2>11 DEF Need, Kept
    <2>13. ExecBudget'
      BY <1>2, <1>4, <2>5, <2>6, <2>8, <2>11, <2>12 DEF ExecBudget, Of, BackTo, Keyed, Inside
    <2> QED
      BY <2>7, <2>10, <2>13 DEF Budget
  <1> QED
    BY <1>1, <1>3, <1>4 DEF DoesModelStart

\* The model calls sent are still counted after a call to the outside.
LEMMA BudgetSend ==
  ASSUME Shape, Budget, SendModel \/ (OtherCall /\ ~Asleep) PROVE Budget'
  <1>1. DoesSend
    BY DoSend
  <1>2. /\ exec # None /\ exec.key \in BoundaryKeys /\ SameStream /\ snapshot' = snapshot /\ count' = count
        /\ setup' = setup /\ sent' = [sent EXCEPT ![exec.key] = OnceMore(@)] /\ exec'.pc = "await"
        /\ exec'.key = exec.key /\ exec'.ck = exec.ck /\ exec'.models = exec.models
        /\ exec'.inflight = exec.inflight /\ exec.pc \in Keyed \ {"retry"}
    BY <1>1 DEF DoesSend, SameStream, Changes, Keyed, Inside
  <1>3. CASE exec.key[1] # "model"
    <2>1. Kept
      BY <1>2, <1>3, KeptOther
    <2> QED
      BY <1>2, <2>1, SnapBudgetSame, ExecBudgetInside DEF Budget, Keyed, Inside
  <1>4. CASE exec.key[1] = "model"
    <2>1. Of({"model"}) /\ exec.pc = "send"
      BY <1>1, <1>2, <1>4 DEF DoesSend, Of
    <2>2. PICK n \in Nat : n = Need(exec.key)
      BY UsedMade
    <2>3. Used' = n /\ SentModels' = SentModels \cup {exec.key}
      BY <1>2, <1>4, <2>2, UsedSent
    <2>4. Need(exec.key)' = n
      BY <1>2, <2>2, <2>3 DEF Need
    <2>5. /\ exec.models \in Nat /\ exec.key[3] \in Nat /\ count.models \in Nat /\ MaxModelCalls \in Nat
          /\ exec.key = <<"model", exec.key[2], exec.key[3]>>
      BY <1>2, <2>1, BudgetNumbers
    <2>6. /\ exec.models + (IF exec.inflight THEN 0 ELSE 1) >= n /\ exec.key[3] >= n /\ count.models >= n
      BY <1>2, <2>1, <2>2 DEF Budget, ExecBudget
    <2>7. exec.models < MaxModelCalls
      BY <1>2, <2>1 DEF Shape, ExecShape
    <2>8. n <= MaxModelCalls
      BY <2>5, <2>6, <2>7
    <2>9. SnapBudget'
      <3>1. CASE snapshot = None
        BY <1>2, <2>3, <2>6, <2>8, <3>1 DEF SnapBudget
      <3>2. CASE snapshot # None
        <4>1. setup.context
          BY <3>2 DEF Shape, SnapShape
        <4>2. snapshot.phase = "model_inflight" /\ snapshot.attempt = exec.key[3]
          BY <1>2, <2>1, <4>1 DEF Budget, Links
        <4>3. MKey(snapshot.attempt)' = exec.key
          BY <1>2, <2>1, <2>5, <4>2 DEF Budget, Links, MKey
        <4>4. Need(MKey(snapshot.attempt))' = n
          BY <1>2, <2>2, <2>3, <4>3 DEF Need
        <4> QED
          BY <1>2, <2>3, <2>6, <2>8, <4>2, <4>4 DEF SnapBudget
      <3> QED
        BY <3>1, <3>2
    <2>10. Links'
      BY <1>2, <2>1 DEF Budget, Links, Of
    <2>11. ExecBudget'
      BY <1>2, <1>4, <2>1, <2>3, <2>4, <2>6 DEF ExecBudget, Of, BackTo, Keyed, Inside
    <2> QED
      BY <2>9, <2>10, <2>11 DEF Budget
  <1> QED
    BY <1>3, <1>4

\* The model calls sent are still counted after the quiet steps around a call.
LEMMA BudgetCalls ==
  ASSUME Shape, Budget,
         \/ Dispatch \/ (OtherCall /\ Asleep) \/ ModelAnswers \/ OtherAnswers \/ RecordDoubt \/ Settle
  PROVE  Budget'
  <1>1. DoesDispatch \/ DoesQuietCall \/ DoesDoubt \/ DoesSettle
    BY DoDispatch, DoQuietCall, DoDoubt, DoSettle
  <1>2. SameStream /\ setup' = setup /\ sent' = sent
    BY <1>1 DEF DoesDispatch, DoesQuietCall, DoesDoubt, DoesSettle, Quiet, SameRest
  <1>3. Kept /\ snapshot' = snapshot /\ count' = count
    BY <1>2, KeptSame DEF SameStream
  <1>4. \/ exec' = None
        \/ /\ exec # None /\ exec.pc \in Keyed \ {"retry"} /\ exec'.pc \in Keyed \ {"retry", "enter", "call", "dispatch"}
           /\ exec'.key = exec.key /\ exec'.ck = exec.ck /\ exec'.models = exec.models
           /\ exec'.inflight = exec.inflight
           /\ exec'.pc = "send" => exec.pc = "dispatch"
    <2>1. CASE DoesDispatch
      BY <2>1 DEF DoesDispatch, Changes, Keyed, Inside
    <2>2. CASE DoesQuietCall
      BY <2>2 DEF DoesQuietCall, Changes, Keyed, Inside
    <2>3. CASE DoesDoubt
      BY <2>3 DEF DoesDoubt, Changes, Keyed, Inside
    <2>4. CASE DoesSettle
      BY <2>4 DEF DoesSettle, Changes, Keyed, Inside
    <2> QED
      BY <1>1, <2>1, <2>2, <2>3, <2>4
  <1>5. SnapBudget'
    BY <1>3, SnapBudgetSame DEF Budget
  <1>6. ExecBudget' /\ Links'
    BY <1>2, <1>3, <1>4, ExecBudgetInside DEF Budget
  <1> QED
    BY <1>5, <1>6 DEF Budget

\* The model calls sent are still counted after recording a production answer.
LEMMA BudgetRecord ==
  ASSUME Shape, Budget, RecordAnswer PROVE Budget'
  <1>1. DoesRecord
    BY DoRecord
  <1>2. Kept /\ exec # None /\ exec.pc = "record" /\ exec.key[1] = "model" /\ Of({"model"}) /\ setup' = setup
    BY <1>1, KeptSame DEF DoesRecord, Quiet, SameRest, Of, Keyed, Inside
  <1>3. /\ exec'.key = exec.key /\ exec'.ck = exec.ck /\ exec'.models = exec.models
        /\ exec'.inflight = exec.inflight /\ exec'.pc = "settle"
    BY <1>1 DEF DoesRecord, Changes
  <1>4. CASE Quiet
    <2>1. SameStream /\ snapshot' = snapshot /\ count' = count
      BY <1>4 DEF Quiet, SameStream
    <2> QED
      BY <1>2, <1>3, <2>1, SnapBudgetSame, ExecBudgetInside DEF Budget, Keyed, Inside
  <1>5. CASE \/ Appends("ModelCallCompleted", Ckpt("model", exec.key[3], None))
             \/ \E o \in EmissionKinds \cup {None} :
                  Appends("ModelCallCompleted", Ckpt("emission", exec.key[3], o))
    <2>1. exec.key[3] \in Nat /\ {"model", "emission"} \subseteq CheckpointPhases
          /\ exec.key = <<"model", exec.key[2], exec.key[3]>>
      BY <1>2, BudgetNumbers DEF CheckpointPhases
    <2>2. PICK c \in Checkpoints : /\ c.phase \in {"model", "emission"} /\ c.attempt = exec.key[3]
                                   /\ Appends("ModelCallCompleted", c)
      BY <1>5, <2>1, CkptMade
    <2>3. count'.turns = count.turns /\ count'.models = count.models
      BY <2>2, Counted DEF LoopEventTypes
    <2>4. exec.key = <<"model", count'.turns, c.attempt>>
      BY <1>2, <2>1, <2>2, <2>3 DEF Budget, Links
    <2>5. PICK n \in Nat : n = Need(exec.key)
      BY UsedMade
    <2>6. exec.key[3] >= n /\ exec.models + (IF exec.inflight THEN 0 ELSE 1) >= n
      BY <1>2, <2>5 DEF Budget, ExecBudget
    <2>7. SnapBudget'
      <3>1. c.attempt >= Need(<<"model", count'.turns, c.attempt>>) /\ "ModelCallCompleted" \in LoopEventTypes
        BY <2>2, <2>4, <2>5, <2>6 DEF LoopEventTypes
      <3> QED
        BY <1>2, <2>2, <3>1, SnapBudgetAppend DEF Budget
    <2>8. Links'
      BY <1>2, <1>3, <2>3 DEF Budget, Links, Of
    <2>9. n = Need(exec.key)'
      BY <1>2, <1>3, <2>5 DEF Need, Kept
    <2>10. ExecBudget'
      BY <1>2, <1>3, <2>6, <2>9 DEF ExecBudget, Of, BackTo, Keyed, Inside
    <2> QED
      BY <2>7, <2>8, <2>10 DEF Budget
  <1> QED
    BY <1>1, <1>4, <1>5 DEF DoesRecord

\* The model calls sent are still counted after what follows a model call.
LEMMA BudgetAfterModel ==
  ASSUME Shape, Budget, AfterModel PROVE Budget'
  <1>1. DoesAfterModel
    BY DoAfterModel
  <1>2. /\ Kept /\ exec # None /\ exec.pc = "after" /\ exec.key[1] = "model" /\ Of({"model"})
        /\ setup' = setup
    BY <1>1, KeptSame DEF DoesAfterModel, SameRest, Of, Keyed, Inside
  <1>3. exec.key[3] >= Used /\ ModelCount >= Used
    BY <1>2, ModelsCounted DEF Budget
  <1>4. CASE exec' = None /\ Appends("RunFailed", None)
    BY <1>2, <1>4, SnapBudgetNone, ExecBudgetPlain DEF Budget, LoopEventTypes
  <1>5. CASE SameStream /\ exec'.pc = "emit" /\ exec'.models = ModelCount
    <2>1. snapshot' = snapshot /\ count' = count
      BY <1>5 DEF SameStream
    <2> QED
      BY <1>2, <1>3, <1>5, <2>1, SnapBudgetSame, ExecBudgetPlain DEF Budget, Keyed, Inside
  <1>6. CASE /\ \E o \in EmissionKinds : Appends("ModelCallCompleted", Ckpt("emission", 0, o))
             /\ exec'.pc = "emit" /\ exec'.models = ModelCount
    <2>1. PICK c \in Checkpoints : c.phase = "emission" /\ Appends("ModelCallCompleted", c)
      BY <1>6, CkptMade DEF CheckpointPhases
    <2>2. SnapBudget'
      BY <1>2, <2>1, SnapBudgetAppend DEF Budget, LoopEventTypes, ModelPhases
    <2> QED
      BY <1>2, <1>3, <1>6, <2>2, ExecBudgetPlain DEF Budget, Keyed, Inside
  <1>7. CASE /\ SameStream /\ Changes({"pc", "models"}) /\ exec'.pc = "retry"
             /\ exec'.models = IF exec.models < exec.key[3] THEN exec.key[3] ELSE exec.models
    <2>1. snapshot' = snapshot /\ count' = count /\ exec'.key = exec.key
      BY <1>7 DEF SameStream, Changes
    <2>2. exec.models \in Nat /\ exec.key[3] \in Nat /\ Used \in Nat
      BY <1>2, BudgetNumbers
    <2>3. exec'.models >= Used
      BY <1>3, <1>7, <2>2
    <2>4. Links'
      BY <1>2, <1>7, <2>1 DEF Budget, Links, Of
    <2>5. ExecBudget'
      BY <1>2, <1>3, <1>7, <2>1, <2>3 DEF ExecBudget, Of, BackTo, Kept
    <2> QED
      BY <1>2, <2>1, <2>4, <2>5, SnapBudgetSame DEF Budget
  <1> QED
    BY <1>1, <1>4, <1>5, <1>6, <1>7 DEF DoesAfterModel

\* The model calls sent are still counted after #scheduleRetry.
LEMMA BudgetRetry ==
  ASSUME Shape, Budget, Retry PROVE Budget'
  <1>1. DoesRetry
    BY DoRetry
  <1>2. /\ Kept /\ exec # None /\ exec.pc = "retry" /\ exec.key[1] \in {"model", "tool"}
    BY <1>1, KeptSame DEF DoesRetry, SameRest
  <1>3. /\ exec' \in Executions /\ exec'.pc = "top" /\ exec'.models = exec.models
        /\ exec'.ck.phase = "scheduled_backoff" /\ exec'.ck.back = exec.key[1]
        /\ exec'.ck.attempt = exec.key[3] + 1 /\ Appends("RetryScheduled", exec'.ck)
    BY <1>1 DEF DoesRetry, Changes
  <1>4. exec'.ck \in Checkpoints
    BY <1>3 DEF Executions
  <1>5. exec.models >= Used
    BY <1>2, ModelsCounted DEF Budget
  <1>6. exec.key[1] = "model" => exec'.ck.attempt > Used
    <2>1. ASSUME exec.key[1] = "model" PROVE exec.key[3] >= Used /\ exec.key[3] \in Nat /\ Used \in Nat
      BY <1>2, <2>1, ModelsCounted, BudgetNumbers DEF Budget, Of, Keyed
    <2> QED
      BY <1>3, <2>1
  <1>7. SnapBudget'
    BY <1>2, <1>3, <1>4, <1>6, SnapBudgetAppend DEF Budget, LoopEventTypes, ModelPhases
  <1>8. Links'
    BY <1>3 DEF Links, Of, Keyed, Inside
  <1>9. ExecBudget'
    BY <1>2, <1>3, <1>5, <1>6 DEF ExecBudget, Of, BackTo, Kept, Keyed, Inside, ModelPhases
  <1> QED
    BY <1>7, <1>8, <1>9 DEF Budget

\* The steps that neither make nor resume a model call.
LEMMA BudgetPlain ==
  ASSUME Shape, Budget, sent' = sent, exec # None, ~Of({"model"}),
         exec' # None =>
           /\ exec'.models = exec.models
           /\ exec'.pc \in Keyed => exec'.key[1] \notin {"model", "model_backoff"}
           /\ exec'.pc \in {"top", "model", "resume"} =>
                exec'.ck.phase \notin ModelPhases \cup {"scheduled_backoff"},
         \/ SameStream
         \/ \E t \in LoopEventTypes, c \in Checkpoints :
              Appends(t, c) /\ c.phase \notin ModelPhases \cup {"scheduled_backoff"}
  PROVE  Budget'
  <1>1. Kept
    BY KeptSame
  <1>2. exec.models >= Used
    BY ModelsCounted DEF Budget
  <1>3. SnapBudget'
    <2>1. CASE SameStream
      BY <1>1, <2>1, SnapBudgetSame DEF SameStream, Budget
    <2>2. CASE \E t \in LoopEventTypes, c \in Checkpoints :
                 Appends(t, c) /\ c.phase \notin ModelPhases \cup {"scheduled_backoff"}
      <3>1. PICK t \in LoopEventTypes, c \in Checkpoints :
                 Appends(t, c) /\ c.phase \notin ModelPhases \cup {"scheduled_backoff"}
        BY <2>2
      <3>2. c.phase \notin ModelPhases /\ c.phase # "model_inflight" /\ c.phase # "scheduled_backoff"
        BY <3>1 DEF ModelPhases
      <3> QED
        BY <1>1, <3>1, <3>2, SnapBudgetAppend DEF Budget
    <2> QED
      BY <2>1, <2>2
  <1>4. ExecBudget' /\ Links'
    BY <1>1, <1>2, ExecBudgetPlain
  <1> QED
    BY <1>3, <1>4 DEF Budget

\* The model calls sent are still counted after an emission, its request and its policy decision.
LEMMA BudgetEmit ==
  ASSUME Shape, Budget, EmitInput \/ EmitFinal \/ EmitTool \/ RequestTool \/ Policy
  PROVE  Budget'
  <1>1. DoesEmitInput \/ DoesEmitFinal \/ DoesEmitTool \/ DoesRequestTool \/ DoesPolicy
    BY DoEmitInput, DoEmitFinal, DoEmitTool, DoRequestTool, DoPolicy
  <1>2. exec # None /\ sent' = sent /\ exec.pc \in {"emit", "request", "policy"}
    BY <1>1 DEF DoesEmitInput, DoesEmitFinal, DoesEmitTool, DoesRequestTool, DoesPolicy, SameRest
  <1>3. ~Of({"model"})
    BY <1>2 DEF Of, Keyed, Inside
  <1>4. exec' # None =>
           /\ exec'.models = exec.models
           /\ exec'.pc \in {"request", "policy", "finalize", "enter"}
           /\ exec'.pc = "enter" => exec'.key[1] = "tool"
    BY <1>1 DEF DoesEmitInput, DoesEmitFinal, DoesEmitTool, DoesRequestTool, DoesPolicy, Changes
  <1>5. exec.next \in EmissionKinds \cup {None}
    BY <1>2, ExecFields
  <1>6. \/ SameStream \/ Appends("ApprovalRequested", None)
        \/ \E t \in LoopEventTypes, c \in Checkpoints :
             Appends(t, c) /\ c.phase \notin ModelPhases \cup {"scheduled_backoff"}
    <2>1. /\ Ckpt("input", 0, None) \in Checkpoints /\ Ckpt("input", 0, None).phase = "input"
          /\ Ckpt("final", 0, "final") \in Checkpoints /\ Ckpt("final", 0, "final").phase = "final"
          /\ Ckpt("tool_request", 0, exec.next) \in Checkpoints
          /\ Ckpt("tool_request", 0, exec.next).phase = "tool_request"
          /\ Ckpt("tool", 1, exec.next) \in Checkpoints /\ Ckpt("tool", 1, exec.next).phase = "tool"
      BY <1>5, CkptMade DEF CheckpointPhases, EmissionKinds
    <2>2. CASE DoesEmitInput \/ DoesEmitFinal
      BY <2>1, <2>2 DEF DoesEmitInput, DoesEmitFinal, LoopEventTypes, ModelPhases
    <2>3. CASE DoesEmitTool \/ DoesRequestTool \/ DoesPolicy
      BY <2>1, <2>3 DEF DoesEmitTool, DoesRequestTool, DoesPolicy, LoopEventTypes, ModelPhases
    <2> QED
      BY <1>1, <2>2, <2>3
  <1>7. CASE exec' = None /\ Appends("ApprovalRequested", None)
    BY <1>2, <1>7, KeptSame, SnapBudgetNone, ExecBudgetPlain DEF Budget, LoopEventTypes
  <1>8. Appends("ApprovalRequested", None) => exec' = None \/ SameStream
    BY <1>1 DEF DoesEmitInput, DoesEmitFinal, DoesEmitTool, DoesRequestTool, DoesPolicy, Appends,
       StatusMove
  <1> QED
    BY <1>2, <1>3, <1>4, <1>6, <1>7, <1>8, BudgetPlain DEF Keyed, Inside

\* The model calls sent are still counted after the steps that end a turn or finalize.
LEMMA BudgetFinal ==
  ASSUME Shape, Budget, FinalOrVerification \/ AfterTool \/ AfterVerifier \/ Finalize
  PROVE  Budget'
  <1>1. CASE FinalOrVerification
    BY <1>1, DoFinal, BudgetPlain DEF DoesFinal, SameStore, SameRest, Changes, Of, Keyed, Inside
  <1>2. CASE AfterTool
    <2>1. DoesAfterTool
      BY <1>2, DoAfterTool
    <2>2. exec # None /\ sent' = sent /\ ~Of({"model"})
      BY <2>1 DEF DoesAfterTool, SameRest, Of
    <2>3. CASE SameStream /\ Changes({"pc"}) /\ exec'.pc = "retry"
      BY <2>1, <2>2, <2>3, BudgetPlain DEF DoesAfterTool, Changes, Keyed, Inside
    <2>4. CASE /\ Appends("ToolCallCompleted", Ckpt("turn", 0, None))
               /\ Changes({"pc", "ck", "next"}) /\ exec'.pc = "top" /\ exec'.ck = NoCkpt
      <3>1. PICK c \in Checkpoints : c.phase = "turn" /\ Appends("ToolCallCompleted", c)
        BY <2>4, CkptMade DEF CheckpointPhases
      <3>2. exec'.models = exec.models /\ exec'.pc \notin Keyed /\ exec'.ck.phase = None
        BY <2>4, NoCkptMade DEF Changes, Keyed, Inside
      <3>3. "ToolCallCompleted" \in LoopEventTypes /\ c.phase \notin ModelPhases \cup {"scheduled_backoff"}
        BY <3>1 DEF LoopEventTypes, ModelPhases
      <3> QED
        BY <2>2, <3>1, <3>2, <3>3, NoPhase, BudgetPlain DEF ModelPhases
    <2> QED
      BY <2>1, <2>3, <2>4 DEF DoesAfterTool
  <1>3. CASE AfterVerifier
    <2>1. DoesAfterVerifier
      BY <1>3, DoAfterVerifier
    <2>2. exec # None /\ sent' = sent /\ ~Of({"model"})
      BY <2>1 DEF DoesAfterVerifier, SameRest, Of
    <2>3. exec'.ck \in Checkpoints /\ exec'.ck.phase = "verification" /\ Appends("VerificationRecorded", exec'.ck)
      BY <2>1, VerificationMade DEF DoesAfterVerifier
    <2>4. exec'.models = exec.models /\ exec'.pc \in {"finalize", "fail"}
      BY <2>1 DEF DoesAfterVerifier, Changes
    <2>5. "VerificationRecorded" \in LoopEventTypes /\ exec'.ck.phase \notin ModelPhases \cup {"scheduled_backoff"}
      BY <2>3 DEF LoopEventTypes, ModelPhases
    <2> QED
      BY <2>2, <2>3, <2>4, <2>5, BudgetPlain DEF Keyed, Inside
  <1>4. CASE Finalize
    <2>1. DoesFinalize
      BY <1>4, DoFinalize
    <2>2. exec # None /\ sent' = sent /\ ~Of({"model"})
      BY <2>1 DEF DoesFinalize, SameRest, Of, Keyed, Inside
    <2>3. Verification({}) \in Checkpoints /\ Verification({}).phase \notin ModelPhases \cup {"scheduled_backoff"}
      BY VerificationMade DEF ModelPhases
    <2>4. run.required \ exec.ck.verified \in SUBSET Verifiers
      BY DEF Shape, LoopTypes, StoreTypes, Projections
    <2>5. VKey(run.required \ exec.ck.verified)[1] \in {"verifier", "evidence"}
      BY <2>4, VKeyMade
    <2>6. /\ exec'.models = exec.models /\ exec'.pc \in {"finalize", "enter"}
          /\ exec'.pc = "enter" => exec'.key[1] \in {"verifier", "evidence"}
      BY <2>1, <2>5 DEF DoesFinalize, Changes
    <2>7. \/ SameStream
          \/ \E t \in LoopEventTypes, c \in Checkpoints :
               Appends(t, c) /\ c.phase \notin ModelPhases \cup {"scheduled_backoff"}
      BY <2>1, <2>3 DEF DoesFinalize, LoopEventTypes
    <2> QED
      BY <2>2, <2>6, <2>7, BudgetPlain DEF Keyed, Inside
  <1> QED
    BY <1>1, <1>2, <1>3, <1>4

\* The execution and the stored checkpoint are as they were.
LEMMA BudgetSame ==
  ASSUME Budget, sent' = sent, exec' = exec, setup' = setup, snapshot' = snapshot,
         count'.turns = count.turns, count'.models = count.models
  PROVE  Budget'
  <1>1. Kept
    BY KeptSame
  <1>2. Links'
    BY DEF Budget, Links, Of
  <1>3. ExecBudget'
    BY <1>1 DEF Budget, ExecBudget, Of, BackTo, Kept, Need, MKey
  <1> QED
    BY <1>1, <1>2, <1>3, SnapBudgetSame DEF Budget

\* The model calls sent are still counted after the ends of an execution, the commands and the maintenance.
LEMMA BudgetOthers ==
  ASSUME Shape, Budget,
         \/ NoRetry \/ AfterEvidence \/ Exhausted \/ Ended
         \/ Start \/ SubmitInput \/ Approve \/ Cancel \/ Reconcile
  PROVE  Budget'
  <1>1. CASE NoRetry \/ AfterEvidence \/ Exhausted
    <2>1. DoesNoRetry \/ DoesAfterEvidence \/ DoesExhausted
      BY <1>1, DoNoRetry, DoAfterEvidence, DoExhausted
    <2>2. Kept /\ exec' = None
      BY <2>1, KeptSame DEF DoesNoRetry, DoesAfterEvidence, DoesExhausted, SameRest
    <2>3. PICK t \in {"RunFailed", "RunSuspended", "RunCompleted"} : Appends(t, None)
      BY <2>1 DEF DoesNoRetry, DoesAfterEvidence, DoesExhausted
    <2> QED
      BY <2>2, <2>3, SnapBudgetNone, ExecBudgetPlain DEF Budget, LoopEventTypes
  <1>2. CASE Ended
    <2>1. sent' = sent /\ exec' = None /\ snapshot' = snapshot /\ count' = count
      BY <1>2, DoEnded DEF DoesEnded, Quiet, SameStream
    <2> QED
      BY <2>1, KeptSame, SnapBudgetSame, ExecBudgetPlain DEF Budget
  <1>3. CASE Start \/ Reconcile
    <2>1. DoesStart \/ DoesReconcile
      BY <1>3, DoStart, DoReconcile
    <2> QED
      BY <2>1, BudgetSame DEF DoesStart, DoesReconcile, SameStream, SameRest
  <1>4. CASE SubmitInput \/ Approve \/ Cancel
    <2>1. DoesCommand
      BY <1>4, DoCommand
    <2>2. PICK t \in {"InputSubmitted", "ApprovalRecorded", "RunCancelled"} : Appends(t, None)
      BY <2>1 DEF DoesCommand
    <2>3. count'.turns = count.turns /\ count'.models = count.models
      BY <2>2, Counted DEF LoopEventTypes
    <2>4. snapshot' = snapshot
      BY <2>2 DEF Appends
    <2> QED
      BY <2>1, <2>3, <2>4, BudgetSame DEF DoesCommand
  <1> QED
    BY <1>1, <1>2, <1>3, <1>4

\* Every step keeps the counters ahead of the model calls sent.
LEMMA BudgetStep ==
  ASSUME Shape, Budget, [Next]_vars PROVE Budget'
  <1>1. CASE UNCHANGED vars
    BY <1>1, BudgetSame DEF vars, store
  <1>2. CASE Next
    BY <1>2, LoopSteps, BudgetExecute, BudgetBackoff, BudgetRetryResumed, BudgetTurn,
       BudgetModelStep,
       BudgetEnter, BudgetModelStart, BudgetSend, BudgetCalls, BudgetRecord, BudgetAfterModel,
       BudgetRetry, BudgetEmit, BudgetFinal, BudgetOthers
  <1> QED
    BY <1>1, <1>2

-----------------------------------------------------------------------------
(* At most one reservation of a model call, a verifier or the evidence is open. *)

\* What a step of the loop does to the stream.
ParkingTypes ==
  {"RunFailed", "RunSuspended", "RunCompleted", "RunCancelled", "InputSubmitted",
   "ApprovalRequested", "ApprovalRecorded"}

Streams ==
  \/ SameStream
  \/ DoesStart
  \/ \E t \in ParkingTypes :
       Appends(t, None) /\ (t = "ApprovalRecorded" => run.status = "waiting_for_approval")
  \/ \E t \in LoopEventTypes, c \in Checkpoints :
       Appends(t, c) /\ (c.phase = "verification" => c.verified = {} \/ run'.status = "verifying")

\* An append with a checkpoint of another phase.
LEMMA StreamsAppend ==
  ASSUME NEW t \in LoopEventTypes, NEW p \in CheckpointPhases \ {"verification"}, NEW a \in Nat,
         NEW e \in EmissionKinds \cup {None}, Appends(t, Ckpt(p, a, e))
  PROVE  Streams
  <1>1. Ckpt(p, a, e) \in Checkpoints /\ Ckpt(p, a, e).phase # "verification"
    BY CkptMade
  <1> QED
    BY <1>1 DEF Streams

\* Every step keeps the stream, parks the run, or appends with a checkpoint.
LEMMA StreamsStep ==
  ASSUME Shape, Next PROVE Streams
  <1>1. /\ {"model", "model_inflight", "emission", "input", "final", "tool_request", "tool", "turn"}
             \subseteq CheckpointPhases \ {"verification"}
        /\ None \in EmissionKinds \cup {None} /\ "final" \in EmissionKinds \cup {None}
    BY DEF CheckpointPhases, EmissionKinds
  <1>2. exec # None => /\ exec.next \in EmissionKinds \cup {None} /\ exec.models + 1 \in Nat
                       /\ exec.ck.attempt \in Nat /\ exec.ck.emission \in EmissionKinds \cup {None}
    BY ExecFields
  <1>3. exec # None /\ exec.pc \in Keyed /\ exec.key[1] = "model" => exec.key[3] \in Nat
    BY ExecKey DEF AttemptKinds
  <1>4. CASE Execute \/ ModelStep
    BY <1>4, DoExecute, DoModelStep DEF DoesExecute, DoesModelStep, SameStore, Streams, ParkingTypes
  <1>5. CASE Backoff \/ FinalOrVerification \/ AfterBackoff
    BY <1>5, DoBackoff, DoFinal, DoAfterBackoff DEF DoesBackoff, DoesFinal, DoesAfterBackoff,
       SameStore, Streams
  <1>6. CASE RetryResumed
    BY <1>1, <1>2, <1>6, DoRetryResumed, StreamsAppend DEF DoesRetryResumed, LoopEventTypes
  <1>7. CASE Turn
    BY <1>1, <1>2, <1>7, DoTurn, StreamsAppend DEF DoesTurn, LoopEventTypes, SameStore, Streams
  <1>8. CASE Enter \/ Settle \/ SendModel \/ (OtherCall /\ ~Asleep)
    BY <1>8, DoEnter, DoSettle, DoSend DEF DoesEnter, DoesSettle, DoesSend, Streams
  <1>9. CASE LocalModelStart \/ ProductionStart
    <2>1. DoesModelStart
      BY <1>9, DoModelStart
    <2>2. CASE Appends("ModelCallStarted", Ckpt("model_inflight", exec.key[3], None))
      BY <1>1, <2>1, <2>2, StreamsAppend DEF DoesModelStart, LoopEventTypes
    <2> QED
      BY <2>1, <2>2 DEF DoesModelStart, SameStore, Streams
  <1>10. CASE Dispatch \/ RecordDoubt \/ (OtherCall /\ Asleep) \/ ModelAnswers \/ OtherAnswers
    BY <1>10, DoDispatch, DoDoubt, DoQuietCall DEF DoesDispatch, DoesDoubt, DoesQuietCall, Quiet,
       Streams
  <1>11. CASE RecordAnswer
    <2>1. DoesRecord
      BY <1>11, DoRecord
    <2>2. exec.key[3] \in Nat
      BY <1>3, <2>1 DEF DoesRecord, Keyed, Inside
    <2>3. CASE Appends("ModelCallCompleted", Ckpt("model", exec.key[3], None))
      BY <1>1, <2>2, <2>3, StreamsAppend DEF LoopEventTypes
    <2>4. CASE \E o \in EmissionKinds \cup {None} :
                 Appends("ModelCallCompleted", Ckpt("emission", exec.key[3], o))
      BY <1>1, <2>2, <2>4, StreamsAppend DEF LoopEventTypes
    <2> QED
      BY <2>1, <2>3, <2>4 DEF DoesRecord, Quiet, Streams
  <1>12. CASE AfterModel
    <2>1. DoesAfterModel
      BY <1>12, DoAfterModel
    <2>2. CASE \E o \in EmissionKinds : Appends("ModelCallCompleted", Ckpt("emission", 0, o))
      BY <1>1, <2>2, StreamsAppend DEF LoopEventTypes
    <2> QED
      BY <2>1, <2>2 DEF DoesAfterModel, Streams, ParkingTypes
  <1>13. CASE AfterTool
    BY <1>1, <1>13, DoAfterTool, StreamsAppend DEF DoesAfterTool, LoopEventTypes, Streams
  <1>14. CASE AfterVerifier
    <2>1. DoesAfterVerifier
      BY <1>14, DoAfterVerifier
    <2>2. exec'.ck \in Checkpoints /\ Appends("VerificationRecorded", exec'.ck)
      BY <2>1, VerificationMade DEF DoesAfterVerifier
    <2>3. run'.status = "verifying"
      BY <2>2 DEF Appends, StatusMove
    <2> QED
      BY <2>2, <2>3 DEF Streams, LoopEventTypes
  <1>15. CASE Retry
    <2>1. DoesRetry
      BY <1>15, DoRetry
    <2>2. exec'.ck \in Checkpoints /\ exec'.ck.phase # "verification" /\ Appends("RetryScheduled", exec'.ck)
      BY <2>1 DEF DoesRetry, Changes, Executions
    <2> QED
      BY <2>2 DEF Streams, LoopEventTypes
  <1>16. CASE EmitInput \/ EmitFinal
    BY <1>1, <1>16, DoEmitInput, DoEmitFinal, StreamsAppend DEF DoesEmitInput, DoesEmitFinal,
       LoopEventTypes
  <1>17. CASE EmitTool \/ RequestTool
    BY <1>1, <1>2, <1>17, DoEmitTool, DoRequestTool, StreamsAppend DEF DoesEmitTool,
       DoesRequestTool, LoopEventTypes, Streams
  <1>18. CASE Policy
    BY <1>18, DoPolicy DEF DoesPolicy, Streams, ParkingTypes
  <1>19. CASE Finalize
    <2>1. DoesFinalize
      BY <1>19, DoFinalize
    <2>2. Verification({}) \in Checkpoints /\ Verification({}).verified = {}
      BY VerificationMade
    <2> QED
      BY <2>1, <2>2 DEF DoesFinalize, Streams, LoopEventTypes
  <1>20. CASE NoRetry \/ AfterEvidence \/ Exhausted \/ Ended
    BY <1>20, DoNoRetry, DoAfterEvidence, DoExhausted, DoEnded
       DEF DoesNoRetry, DoesAfterEvidence, DoesExhausted, DoesEnded, Quiet, Streams, ParkingTypes
  <1>21. CASE Start \/ Reconcile
    BY <1>21, DoStart, DoReconcile DEF DoesReconcile, Streams
  <1>22. CASE SubmitInput \/ Approve \/ Cancel
    BY <1>22, DoCommand DEF DoesCommand, Streams, ParkingTypes
  <1> QED
    BY LoopSteps, <1>4, <1>5, <1>6, <1>7, <1>8, <1>9, <1>10, <1>11, <1>12, <1>13, <1>14, <1>15,
       <1>16,
       <1>17, <1>18, <1>19, <1>20, <1>21, <1>22

\* The reservations at most one of which is open at a time.
Tracked(k) == k[1] \in {"model", "verifier", "evidence"}
Open(k) == Tracked(k) /\ slots[k] = "reserved"

\* No turn before the run is planning, and no reservation before that or without the service.
Early == run.status \in {"created", "accepted"} => count.turns = 0

Unopened ==
  ~setup.reserve \/ run.status \in {"created", "accepted"} =>
    \A k \in BoundaryKeys : slots[k] = NoReservation

\* The execution inside a tracked boundary made the reservation itself.
HeldInside ==
  exec # None /\ setup.reserve /\ exec.pc \in Inside /\ Tracked(exec.key) => exec.held = TRUE

\* Nothing is verified before verification starts.
Unverified ==
  snapshot # None /\ snapshot.phase = "verification" /\ run.status = "running" =>
    snapshot.verified = {}

OpenBase == Early /\ Unopened /\ HeldInside /\ Unverified

\* Which steps write reservations.
LEMMA SlotSteps ==
  ASSUME Shape, Next PROVE setup' = setup /\ (slots' = slots \/ Enter \/ Settle \/ Reconcile)
  <1>1. CASE Unsent
    BY <1>1 DEF Unsent
  <1>2. CASE Enter \/ Settle \/ Reconcile
    BY <1>2, DoEnter, DoSettle, DoReconcile DEF DoesEnter, DoesSettle, DoesReconcile, SameRest
  <1>3. CASE ModelStep \/ LocalModelStart \/ ProductionStart \/ Dispatch
    BY <1>3, DoModelStep, DoModelStart, DoDispatch DEF DoesModelStep, DoesModelStart,
       DoesDispatch, SameRest, SameStore, Quiet
  <1>4. CASE SendModel \/ (OtherCall /\ ~Asleep) \/ RecordAnswer \/ RecordDoubt
    BY <1>4, DoSend, DoRecord, DoDoubt DEF DoesSend, DoesRecord, DoesDoubt, SameRest, Quiet
  <1> QED
    BY <1>1, <1>2, <1>3, <1>4, LoopSteps, UnsentSteps

\* Which steps enter a boundary.
LEMMA InsideSteps ==
  ASSUME Shape, Next
  PROVE  \/ exec' = None \/ exec' = exec \/ exec'.pc \notin Inside \/ Enter
         \/ /\ exec # None /\ exec.pc \in Inside /\ exec'.key = exec.key /\ exec'.held = exec.held
  <1>1. CASE Execute \/ Backoff \/ RetryResumed \/ Turn \/ FinalOrVerification \/ ModelStep
    BY <1>1, DoExecute, DoBackoff, DoRetryResumed, DoTurn, DoFinal, DoModelStep
       DEF DoesExecute, DoesBackoff, DoesRetryResumed, DoesTurn, DoesFinal, DoesModelStep, Inside
  <1>2. CASE LocalModelStart \/ ProductionStart \/ Dispatch
    BY <1>2, DoModelStart, DoDispatch DEF DoesModelStart, DoesDispatch, Changes, Inside
  <1>3. CASE SendModel \/ (OtherCall /\ ~Asleep) \/ RecordAnswer \/ RecordDoubt
    BY <1>3, DoSend, DoRecord, DoDoubt DEF DoesSend, DoesRecord, DoesDoubt, Changes, Inside
  <1>4. CASE (OtherCall /\ Asleep) \/ ModelAnswers \/ OtherAnswers
    BY <1>4, DoQuietCall DEF DoesQuietCall, Changes, Inside
  <1>5. CASE Settle \/ AfterModel \/ AfterBackoff \/ AfterTool \/ AfterVerifier \/ Retry
    BY <1>5, DoSettle, DoAfterModel, DoAfterBackoff, DoAfterTool, DoAfterVerifier, DoRetry
       DEF DoesSettle, DoesAfterModel, DoesAfterBackoff, DoesAfterTool, DoesAfterVerifier, DoesRetry, Inside
  <1>6. CASE EmitInput \/ EmitFinal \/ EmitTool \/ RequestTool \/ Policy
    BY <1>6, DoEmitInput, DoEmitFinal, DoEmitTool, DoRequestTool, DoPolicy
       DEF DoesEmitInput, DoesEmitFinal, DoesEmitTool, DoesRequestTool, DoesPolicy, Inside
  <1>7. CASE Finalize
    BY <1>7, DoFinalize DEF DoesFinalize, Changes, Inside
  <1>8. CASE NoRetry \/ AfterEvidence \/ Exhausted \/ Ended
    BY <1>8, DoNoRetry, DoAfterEvidence, DoExhausted, DoEnded
       DEF DoesNoRetry, DoesAfterEvidence, DoesExhausted, DoesEnded
  <1>9. CASE Start \/ SubmitInput \/ Approve \/ Cancel \/ Reconcile
    BY <1>9, DoStart, DoCommand, DoReconcile DEF DoesStart, DoesCommand, DoesReconcile
  <1> QED
    BY LoopSteps, <1>1, <1>2, <1>3, <1>4, <1>5, <1>6, <1>7, <1>8, <1>9

\* Every step keeps what holds of reservations for production calls too.
LEMMA OpenBaseStep ==
  ASSUME Shape, Rest, OpenBase, Next PROVE OpenBase'
  <1>1. Streams
    BY StreamsStep
  <1>2. setup' = setup /\ (slots' = slots \/ Enter \/ Settle \/ Reconcile)
    BY SlotSteps
  <1>3. run'.status \in {"created", "accepted"} =>
          count' = count /\ run.status \in {"created", "accepted"}
    BY <1>1 DEF Streams, SameStream, DoesStart, Appends, StatusMove
  <1>4. Early'
    BY <1>3 DEF OpenBase, Early
  <1>5. Unopened'
    <2> SUFFICES ASSUME ~setup.reserve \/ run.status \in {"created", "accepted"},
                        NEW k \in BoundaryKeys
                 PROVE  slots'[k] = NoReservation
      BY <1>2, <1>3 DEF Unopened
    <2>1. \A j \in BoundaryKeys : slots[j] = NoReservation
      BY DEF OpenBase, Unopened
    <2>2. CASE slots' = slots
      BY <2>1, <2>2
    <2>3. CASE Enter
      <3>1. DoesEnter
        BY <2>3, DoEnter
      <3>2. exec # None /\ exec.pc = "enter" /\ slots[exec.key] = NoReservation
        BY <2>1, <3>1 DEF DoesEnter
      <3>3. count.turns >= 1
        BY <3>2 DEF Shape, ExecShape
      <3>4. ~setup.reserve
        BY <3>3 DEF OpenBase, Early
      <3> QED
        BY <2>1, <3>1, <3>2, <3>4 DEF DoesEnter
    <2>4. CASE Settle
      BY <2>1, <2>4, DoSettle DEF DoesSettle
    <2>5. CASE Reconcile
      BY <2>1, <2>5, DoReconcile DEF DoesReconcile, NoReservation
    <2> QED
      BY <1>2, <2>2, <2>3, <2>4, <2>5
  <1>6. HeldInside'
    <2>1. CASE Enter
      <3>1. DoesEnter
        BY <2>1, DoEnter
      <3>2. CASE slots[exec.key] # NoReservation
        BY <1>2, <3>1, <3>2 DEF DoesEnter, HeldInside, Tracked, Changes, Inside
      <3>3. CASE slots[exec.key] = NoReservation
        BY <1>2, <3>1, <3>3 DEF DoesEnter, HeldInside
      <3> QED
        BY <3>2, <3>3
    <2> QED
      BY <1>2, <2>1, InsideSteps DEF OpenBase, HeldInside, Tracked
  <1>7. Unverified'
    <2>1. CASE SameStream
      BY <2>1 DEF SameStream, OpenBase, Unverified
    <2>2. CASE DoesStart
      BY <2>2 DEF DoesStart, Unverified
    <2>3. CASE \E t \in ParkingTypes :
                 Appends(t, None) /\ (t = "ApprovalRecorded" => run.status = "waiting_for_approval")
      <3>1. PICK t \in ParkingTypes :
                 Appends(t, None) /\ (t = "ApprovalRecorded" => run.status = "waiting_for_approval")
        BY <2>3
      <3>2. snapshot' = snapshot
        BY <3>1 DEF Appends
      <3>3. run'.status = "running" => t = "ApprovalRecorded"
        BY <3>1 DEF Appends, StatusMove, ParkingTypes, TerminalStatuses
      <3>4. snapshot # None => setup.context
        BY DEF Shape, SnapShape
      <3>5. run'.status = "running" /\ snapshot # None => snapshot.phase = "tool"
        BY <3>1, <3>3, <3>4 DEF Rest, Fits
      <3> QED
        BY <3>2, <3>5 DEF Unverified
    <2>4. CASE \E t \in LoopEventTypes, c \in Checkpoints :
                 Appends(t, c) /\ (c.phase = "verification" => c.verified = {} \/ run'.status = "verifying")
      <3>1. PICK t \in LoopEventTypes, c \in Checkpoints :
                 Appends(t, c) /\ (c.phase = "verification" => c.verified = {} \/ run'.status = "verifying")
        BY <2>4
      <3>2. c # None /\ (~setup.context => snapshot = None)
        BY NoneIsNoData DEF Shape, SnapShape
      <3>3. snapshot' = c \/ snapshot' = None
        BY <3>1, <3>2 DEF Appends
      <3> QED
        BY <3>1, <3>3 DEF Unverified
    <2> QED
      BY <1>1, <2>1, <2>2, <2>3, <2>4 DEF Streams
  <1> QED
    BY <1>4, <1>5, <1>6, <1>7 DEF OpenBase

\* The boundary the stored checkpoint leads back to.
SnapKey(k) ==
  /\ snapshot # None
  /\ \/ snapshot.phase \in ModelPhases /\ k = MKey(snapshot.attempt)
     \/ snapshot.phase = "input" /\ k = MKey(count.models + 1)
     \/ /\ snapshot.phase = "verification" /\ run.status # "running"
        /\ k = VKey(run.required \ snapshot.verified)

\* The boundary the execution stands at or enters next.
Pending(k) ==
  \/ exec.pc \in Inside \cup {"enter"} /\ exec.key = k
  \/ exec.pc \in {"top", "model"} /\ exec.ck.phase \in ModelPhases /\ k = MKey(exec.ck.attempt)
  \/ /\ exec.pc \in {"top", "finalize"} /\ exec.ck.phase = "verification" /\ run.status # "running"
     /\ k = VKey(run.required \ exec.ck.verified)

\* An open reservation is one the next execution finds, and the one under way as well.
Found(k) == run.status \in TerminalStatuses \cup {"suspended"} \/ snapshot = None \/ SnapKey(k)

OpenAt ==
  \A k \in BoundaryKeys : Open(k) => Found(k) /\ (exec # None => Pending(k))

\* The execution enters the boundary its checkpoint leads back to.
Ahead ==
  setup.context /\ exec # None =>
    /\ exec.pc \in Inside \cup {"enter"} /\ Tracked(exec.key) => SnapKey(exec.key)
    /\ exec.pc = "model" \/ (exec.pc = "top" /\ exec.ck.phase \in ModelPhases) => SnapKey(ModelKey)
    /\ exec.pc \in {"top", "finalize"} /\ exec.ck.phase = "verification" =>
         snapshot # None /\ snapshot.phase = "verification" /\ snapshot.verified = exec.ck.verified

OneOpen == \A j, k \in BoundaryKeys : Open(j) /\ Open(k) => j = k

OpenNow == OpenAt /\ OneOpen /\ Ahead

\* Where nothing is pending nothing is open.
LEMMA NoneOpen ==
  ASSUME OpenAt, exec # None, exec.pc \notin Inside \cup {"enter"},
         exec.pc \in {"top", "model"} => exec.ck.phase \notin ModelPhases,
         exec.pc \in {"top", "finalize"} /\ exec.ck.phase = "verification" => run.status = "running"
  PROVE  \A k \in BoundaryKeys : ~Open(k)
  <1>1. \A k : ~Pending(k)
    BY DEF Pending
  <1> QED
    BY <1>1 DEF OpenAt

\* With nothing open, a step that leaves the reservations opens nothing.
LEMMA NoneOpenStep ==
  ASSUME \A k \in BoundaryKeys : ~Open(k), slots' = slots
  PROVE  OpenAt' /\ OneOpen'
  BY DEF Open, OpenAt, OneOpen

\* Reservations are closed at most, and what is open is found and pending after the step.
LEMMA OpenKept ==
  ASSUME OneOpen, NEW S \in SUBSET BoundaryKeys,
         \A k \in BoundaryKeys : slots'[k] = "reserved" => slots[k] = "reserved" /\ (Tracked(k) => k \in S),
         \A k \in S : Open(k) => Found(k)' /\ (exec' # None => Pending(k)')
  PROVE  OpenAt' /\ OneOpen'
  <1>1. \A k \in BoundaryKeys : Open(k)' => Open(k) /\ k \in S
    BY DEF Open, Tracked
  <1>2. OpenAt'
    BY <1>1 DEF OpenAt
  <1>3. OneOpen'
    BY <1>1 DEF OneOpen
  <1> QED
    BY <1>2, <1>3

\* The stream and the reservations are as they were.
LEMMA FoundSame ==
  ASSUME SameStream PROVE \A k : (Found(k) <=> Found(k)') /\ (SnapKey(k) <=> SnapKey(k)')
  BY DEF SameStream, Found, SnapKey, MKey

\* On the same stream, what is open stays found and pending.
LEMMA OpenSame ==
  ASSUME OpenAt, OneOpen, SameStream, slots' = slots,
         exec' # None => exec # None /\ \A k \in BoundaryKeys : Pending(k) => Pending(k)'
  PROVE  OpenAt' /\ OneOpen'
  <1>1. \A k \in BoundaryKeys : Open(k) => Found(k)'
    BY FoundSame DEF OpenAt
  <1>2. \A k \in BoundaryKeys : Open(k) /\ exec' # None => Pending(k)'
    BY DEF OpenAt
  <1>3. \A k \in BoundaryKeys : Open(k)' <=> Open(k)
    BY DEF Open
  <1> QED
    BY <1>1, <1>2, <1>3 DEF OpenAt, OneOpen

\* An execution with nothing ahead.
LEMMA AheadNone ==
  ASSUME exec' # None =>
           /\ exec'.pc # "model"
           /\ exec'.pc \in Inside \cup {"enter"} => ~Tracked(exec'.key)
           /\ exec'.pc \in {"top", "finalize"} => exec'.ck.phase \notin ModelPhases \cup {"verification"}
  PROVE  Ahead'
  BY DEF Ahead, Tracked

\* An execution that has ended finds its reservation again, or the run is parked.
LEMMA OpenEnded ==
  ASSUME OpenNow, slots' = slots, exec' = None,
         SameStream \/ run'.status \in TerminalStatuses \cup {"suspended"}
  PROVE  OpenNow'
  <1>1. Ahead'
    BY AheadNone
  <1>2. CASE SameStream
    BY <1>1, <1>2, OpenSame DEF OpenNow
  <1>3. CASE run'.status \in TerminalStatuses \cup {"suspended"}
    <2>1. \A k \in BoundaryKeys : Found(k)' /\ (Open(k)' <=> Open(k))
      BY <1>3 DEF Found, Open
    <2>2. OpenAt' /\ OneOpen'
      BY <2>1 DEF OpenNow, OpenAt, OneOpen
    <2> QED
      BY <1>1, <2>2 DEF OpenNow
  <1> QED
    BY <1>2, <1>3

\* A step outside every boundary.
LEMMA OpenPlain ==
  ASSUME OpenNow, slots' = slots, exec # None, exec.pc \notin Inside \cup {"enter"},
         exec.pc \in {"top", "model"} => exec.ck.phase \notin ModelPhases,
         exec.pc \in {"top", "finalize"} /\ exec.ck.phase = "verification" => run.status = "running",
         exec' # None =>
           /\ exec'.pc # "model"
           /\ exec'.pc \in Inside \cup {"enter"} => ~Tracked(exec'.key)
           /\ exec'.pc \in {"top", "finalize"} => exec'.ck.phase \notin ModelPhases \cup {"verification"}
  PROVE  OpenNow'
  BY NoneOpen, NoneOpenStep, AheadNone DEF OpenNow

\* At most the pending reservation is open after execute.
LEMMA OpenExecute ==
  ASSUME Shape, OpenBase, OpenNow, Execute PROVE OpenNow'
  <1>1. DoesExecute
    BY DoExecute
  <1>2. CASE exec' = None /\ Appends("RunSuspended", None) /\ slots' = slots
    <2>1. run'.status = "suspended"
      BY <1>2 DEF Appends, StatusMove
    <2> QED
      BY <1>2, <2>1, OpenEnded
  <1>3. CASE SameStore /\ exec'.pc = "top" /\ run.status = "accepted" /\ exec'.ck = NoCkpt
    <2>1. \A k \in BoundaryKeys : ~Open(k)
      BY <1>3 DEF OpenBase, Unopened, Open, NoReservation
    <2>2. exec'.ck.phase = None
      BY <1>3, NoCkptMade
    <2>3. Ahead'
      BY <1>3, <2>2, NoPhase, AheadNone DEF Inside, ModelPhases
    <2> QED
      BY <1>3, <2>1, <2>3, NoneOpenStep DEF OpenNow, SameStore
  <1>4. CASE /\ SameStore /\ exec = None /\ exec' \in Executions
             /\ exec'.pc = "top" /\ exec'.turns = count.turns /\ exec'.models = count.models
             /\ run.status \in Runnable \ {"accepted"} /\ snapshot # None
             /\ exec'.ck = IF snapshot.phase = "input" THEN Ckpt("model", count.models + 1, None)
                           ELSE snapshot
    <2>1. /\ SameStream /\ slots' = slots /\ setup' = setup /\ run' = run /\ count' = count
          /\ snapshot' = snapshot
      BY <1>4 DEF SameStore, SameStream, SameRest
    <2>2. count.models + 1 \in Nat /\ "model" \in CheckpointPhases
      BY BudgetNumbers DEF CheckpointPhases
    <2>3. /\ snapshot.phase = "input" => exec'.ck.phase = "model" /\ exec'.ck.attempt = count.models + 1
          /\ snapshot.phase # "input" => exec'.ck = snapshot
      BY <1>4, <2>2, CkptMade
    <2>4. \A k : SnapKey(k) => Pending(k)'
      BY <1>4, <2>1, <2>3 DEF SnapKey, Pending, MKey, ModelPhases
    <2>5. \A k : Found(k) => Found(k)' /\ SnapKey(k)
      BY <1>4, <2>1, FoundSame DEF Found, Runnable, TerminalStatuses
    <2>6. OpenAt' /\ OneOpen'
      <3>1. \A k \in BoundaryKeys : Open(k)' <=> Open(k)
        BY <2>1 DEF Open
      <3>2. \A k \in BoundaryKeys : Open(k) => Found(k)' /\ Pending(k)'
        BY <2>4, <2>5 DEF OpenNow, OpenAt
      <3> QED
        BY <3>1, <3>2 DEF OpenNow, OpenAt, OneOpen
    <2>7. Ahead'
      <3>1. exec'.pc \notin Inside \cup {"enter", "model"}
        BY <1>4 DEF Inside
      <3>2. snapshot.phase \in ModelPhases => snapshot.attempt >= 1 /\ snapshot.attempt \in Nat
        BY <1>4, BudgetNumbers DEF Shape, SnapShape, CkShape
      <3>3. exec'.ck.phase \in ModelPhases => SnapKey(ModelKey)'
        <4>1. CASE snapshot.phase = "input"
          <5>1. ModelKey' = <<"model", count.turns, count.models + 1>>
            BY <1>4, <2>2, <2>3, <4>1 DEF ModelKey, step, Attempt
          <5> QED
            BY <1>4, <2>1, <4>1, <5>1 DEF SnapKey, MKey
        <4>2. CASE snapshot.phase \in ModelPhases
          <5>1. snapshot.phase # "input"
            BY <4>2 DEF ModelPhases
          <5>2. ModelKey' = <<"model", count.turns, snapshot.attempt>>
            BY <1>4, <2>3, <3>2, <4>2, <5>1 DEF ModelKey, step, Attempt
          <5> QED
            BY <1>4, <2>1, <4>2, <5>2 DEF SnapKey, MKey
        <4> QED
          BY <2>3, <4>1, <4>2
      <3>4. exec'.ck.phase = "verification" => exec'.ck = snapshot
        BY <2>3
      <3> QED
        BY <1>4, <2>1, <3>1, <3>3, <3>4 DEF Ahead
    <2> QED
      BY <2>6, <2>7 DEF OpenNow
  <1> QED
    BY <1>1, <1>2, <1>3, <1>4 DEF DoesExecute

\* At most the pending reservation is open after the wait for a persisted backoff.
LEMMA OpenBackoff ==
  ASSUME Shape, OpenNow, Backoff \/ AfterBackoff PROVE OpenNow'
  <1>1. DoesBackoff \/ DoesAfterBackoff
    BY DoBackoff, DoAfterBackoff
  <1>2. /\ exec # None /\ exec.pc \in {"top", "after"} /\ exec.ck.phase = "scheduled_backoff"
        /\ slots' = slots
        /\ exec'.pc = "resume" \/ (exec'.pc = "enter" /\ exec'.key[1] \in {"model_backoff", "tool_backoff"})
    BY <1>1 DEF DoesBackoff, DoesAfterBackoff, SameStore
  <1> QED
    BY <1>2, OpenPlain DEF Inside, ModelPhases, Tracked

\* The checkpoint an execution stores and goes on from.
LEMMA AheadModel ==
  ASSUME NEW t, NEW c, c # None, Appends(t, c), c.phase \in ModelPhases, setup' = setup,
         exec'.pc \in {"top", "model"}, ModelKey' = <<"model", count'.turns, c.attempt>>,
         exec'.ck.phase # "verification"
  PROVE  Ahead'
  <1>1. exec'.pc \notin Inside \cup {"enter", "finalize"}
    BY DEF Inside
  <1>2. setup.context => SnapKey(ModelKey)'
    BY DEF SnapKey, Appends, MKey
  <1> QED
    BY <1>1, <1>2 DEF Ahead

\* At most the pending reservation is open after RetryResumed.
LEMMA OpenRetryResumed ==
  ASSUME Shape, OpenNow, RetryResumed PROVE OpenNow'
  <1>1. DoesRetryResumed
    BY DoRetryResumed
  <1>2. exec # None /\ exec.ck.attempt \in Nat /\ exec.ck.emission \in EmissionKinds \cup {None}
    BY <1>1, ExecFields DEF DoesRetryResumed
  <1>3. /\ exec'.ck # None /\ exec'.ck.phase = exec.ck.back /\ exec'.ck.attempt = exec.ck.attempt
        /\ exec.ck.back \in {"model", "tool"} /\ exec'.ck \in Checkpoints
    BY <1>1, <1>2, CkptMade DEF DoesRetryResumed, CheckpointPhases
  <1>4. /\ exec.pc = "resume" /\ exec'.pc = "top" /\ slots' = slots /\ setup' = setup
        /\ Appends("RetryResumed", exec'.ck) /\ exec'.turns = exec.turns
    BY <1>1 DEF DoesRetryResumed, Changes, SameRest
  <1>5. CASE exec.ck.back = "tool"
    BY <1>2, <1>3, <1>4, <1>5, OpenPlain DEF Inside, ModelPhases
  <1>6. CASE exec.ck.back = "model"
    <2>1. \A k \in BoundaryKeys : ~Open(k)
      BY <1>2, <1>4, NoneOpen DEF OpenNow, Inside
    <2>2. count'.turns = exec.turns
      BY <1>2, <1>3, <1>4, Counted, ExecFields DEF LoopEventTypes
    <2>3. exec.ck.attempt >= 1
      BY <1>1 DEF DoesRetryResumed, Shape, ExecShape, CkShape, Attempts
    <2>4. ModelKey' = <<"model", count'.turns, exec'.ck.attempt>>
      BY <1>2, <1>3, <1>4, <2>2, <2>3 DEF ModelKey, step, Attempt
    <2>5. Ahead'
      BY <1>3, <1>4, <1>6, <2>4, AheadModel DEF ModelPhases
    <2> QED
      BY <1>4, <2>1, <2>5, NoneOpenStep DEF OpenNow
  <1> QED
    BY <1>3, <1>5, <1>6

\* At most the pending reservation is open after entering a turn.
LEMMA OpenTurn ==
  ASSUME Shape, OpenNow, Turn PROVE OpenNow'
  <1>1. DoesTurn
    BY DoTurn
  <1>2. exec # None /\ exec.pc = "top"
    BY <1>1 DEF DoesTurn
  <1>3. CASE /\ exec.ck.phase \in {"emission", "tool_request", "tool"} /\ SameStore
             /\ Changes({"pc"}) /\ exec'.pc = "emit"
    BY <1>2, <1>3, OpenPlain DEF SameStore, Inside, ModelPhases
  <1>4. CASE exec.ck.phase \in ModelPhases /\ SameStore /\ Changes({"pc"}) /\ exec'.pc = "model"
    <2>1. /\ SameStream /\ slots' = slots /\ setup' = setup /\ count' = count /\ exec'.ck = exec.ck
          /\ exec'.turns = exec.turns /\ exec'.models = exec.models
      BY <1>4 DEF SameStore, SameStream, SameRest, Changes
    <2>2. exec.ck.phase # "verification"
      BY <1>4 DEF ModelPhases
    <2>3. \A k \in BoundaryKeys : Pending(k) => Pending(k)'
      BY <1>2, <1>4, <2>1, <2>2 DEF Pending, Inside, MKey
    <2>4. ModelKey' = ModelKey
      BY <2>1 DEF ModelKey, step, Attempt
    <2>5. setup.context => SnapKey(ModelKey)'
      <3>1. setup.context => SnapKey(ModelKey)
        BY <1>2, <1>4 DEF OpenNow, Ahead
      <3> QED
        BY <2>1, <2>4, <3>1 DEF SnapKey, SameStream, MKey
    <2>6. Ahead'
      BY <1>4, <2>1, <2>2, <2>5 DEF Ahead, Inside
    <2> QED
      BY <1>2, <2>1, <2>3, <2>6, OpenSame DEF OpenNow
  <1>5. CASE /\ exec.ck.phase \in {None, "turn"}
             /\ Appends("PlanningStarted", Ckpt("model", exec.models + 1, None))
             /\ SameRest /\ slots' = slots
             /\ Changes({"pc", "turns"}) /\ exec'.pc = "model" /\ exec'.turns = exec.turns + 1
    <2>1. exec.models + 1 \in Nat /\ "model" \in CheckpointPhases /\ exec.turns = count.turns
      BY <1>2, ExecFields DEF CheckpointPhases
    <2>2. PICK c \in Checkpoints : /\ c # None /\ c.phase = "model" /\ c.attempt = exec.models + 1
                                   /\ Appends("PlanningStarted", c)
      BY <1>5, <2>1, CkptMade
    <2>3. \A k \in BoundaryKeys : ~Open(k)
      BY <1>2, <1>5, NoPhase, NoneOpen DEF OpenNow, Inside, ModelPhases
    <2>4. count'.turns = count.turns + 1
      BY <2>2, Counted DEF LoopEventTypes
    <2>5. exec'.ck = exec.ck /\ exec'.models = exec.models /\ exec.ck.attempt = 0
      BY <1>2, <1>5 DEF Changes, Shape, ExecShape, CkShape
    <2>6. ModelKey' = <<"model", count'.turns, c.attempt>>
      BY <1>5, <2>1, <2>2, <2>4, <2>5 DEF ModelKey, step, Attempt
    <2>7. Ahead'
      BY <1>5, <2>2, <2>5, <2>6, NoPhase, AheadModel DEF ModelPhases, SameRest
    <2> QED
      BY <1>5, <2>3, <2>7, NoneOpenStep DEF OpenNow
  <1> QED
    BY <1>1, <1>3, <1>4, <1>5 DEF DoesTurn

\* At most the pending reservation is open after going to #finalize.
LEMMA OpenFinal ==
  ASSUME Shape, OpenNow, FinalOrVerification PROVE OpenNow'
  <1>1. DoesFinal
    BY DoFinal
  <1>2. /\ exec # None /\ exec.pc = "top" /\ exec'.pc = "finalize" /\ exec'.ck = exec.ck
        /\ exec.ck.phase \in {"final", "verification"} /\ SameStream /\ slots' = slots /\ setup' = setup
    BY <1>1 DEF DoesFinal, SameStore, SameRest, Changes
  <1>3. \A k \in BoundaryKeys : Pending(k) => Pending(k)'
    BY <1>2 DEF Pending, Inside, ModelPhases, SameStream
  <1>4. Ahead'
    BY <1>2 DEF OpenNow, Ahead, SameStream, Inside
  <1> QED
    BY <1>2, <1>3, <1>4, OpenSame DEF OpenNow

\* At most the pending reservation is open after the step before a model call.
LEMMA OpenModelStep ==
  ASSUME Shape, OpenNow, ModelStep, ~setup.production PROVE OpenNow'
  <1>1. DoesModelStep
    BY DoModelStep
  <1>2. exec # None /\ exec.pc = "model" /\ exec.models < MaxModelCalls
    BY <1>1 DEF DoesModelStep
  <1>3. CASE exec' = None /\ Appends("RunSuspended", None) /\ slots' = slots
    <2>1. run'.status = "suspended"
      BY <1>3 DEF Appends, StatusMove
    <2> QED
      BY <1>3, <2>1, OpenEnded
  <1>4. CASE exec' = exec /\ SameStream /\ SameRest /\ slots' = slots
    <2>1. \A k \in BoundaryKeys : Pending(k) => Pending(k)'
      BY <1>4 DEF Pending, SameStream, MKey
    <2>2. Ahead'
      BY <1>4 DEF OpenNow, Ahead, SameStream, SameRest, SnapKey, MKey, ModelKey, step, Attempt,
         Tracked
    <2> QED
      BY <1>2, <1>4, <2>1, <2>2, OpenSame DEF OpenNow
  <1>5. CASE SameStore /\ Changes({"pc", "key", "inflight"}) /\ exec'.pc = "enter" /\ exec'.key = ModelKey
    <2>1. SameStream /\ slots' = slots /\ setup' = setup
      BY <1>5 DEF SameStore, SameRest
    <2>2. /\ exec.ck.phase \in ModelPhases => ModelKey = MKey(exec.ck.attempt)
      BY <1>2, ModelKeyMade, ExecFields DEF ModelKey, MKey, step
    <2>3. \A k \in BoundaryKeys : Pending(k) => Pending(k)'
      BY <1>2, <1>5, <2>2 DEF Pending, Inside
    <2>4. setup.context => SnapKey(ModelKey)
      BY <1>2 DEF OpenNow, Ahead
    <2>5. setup.context => SnapKey(exec.key)'
      BY <1>5, <2>1, <2>4 DEF SnapKey, SameStream, MKey
    <2>6. Ahead'
      BY <1>5, <2>1, <2>5 DEF Ahead
    <2> QED
      BY <1>2, <2>1, <2>3, <2>6, OpenSame DEF OpenNow
  <1> QED
    BY <1>1, <1>3, <1>4, <1>5 DEF DoesModelStep

\* At most the pending reservation is open after the entry of #withActiveExecution.
LEMMA OpenEnter ==
  ASSUME Shape, OpenBase, OpenNow, Enter PROVE OpenNow'
  <1>1. DoesEnter
    BY DoEnter
  <1>2. /\ exec # None /\ exec.pc = "enter" /\ exec.key \in BoundaryKeys /\ SameStream /\ setup' = setup
        /\ slots \in [BoundaryKeys -> ActiveStates \cup {NoReservation}]
    BY <1>1, Tables DEF DoesEnter, SameRest
  <1>3. \A k \in BoundaryKeys : Open(k) => k = exec.key
    BY <1>2 DEF OpenNow, OpenAt, Pending
  <1>4. setup.context /\ Tracked(exec.key) => SnapKey(exec.key)
    BY <1>2 DEF OpenNow, Ahead
  <1>5. CASE slots' = slots /\ Changes({"pc"}) /\ exec'.pc = "call"
    <2>1. exec'.key = exec.key
      BY <1>5 DEF Changes
    <2>2. \A k \in BoundaryKeys : Pending(k) => Pending(k)'
      BY <1>2, <1>5, <2>1 DEF Pending, Inside
    <2>3. Ahead'
      BY <1>2, <1>4, <1>5, <2>1, FoundSame DEF Ahead, Tracked
    <2> QED
      BY <1>2, <1>5, <2>2, <2>3, OpenSame DEF OpenNow
  <1>6. CASE /\ slots[exec.key] = NoReservation
             /\ slots' = [slots EXCEPT ![exec.key] = "reserved"]
             /\ Changes({"pc", "held"}) /\ exec'.pc = "call"
    <2>1. exec'.key = exec.key
      BY <1>6 DEF Changes
    <2>2. \A k \in BoundaryKeys : Open(k)' => k = exec.key /\ Tracked(k)
      BY <1>2, <1>3, <1>6 DEF Open, Tracked
    <2>3. Pending(exec.key)'
      BY <1>6, <2>1 DEF Pending, Inside
    <2>4. Tracked(exec.key) => Found(exec.key)'
      <3>1. CASE setup.context
        BY <1>2, <1>4, <2>1, <3>1, FoundSame DEF Found
      <3>2. CASE ~setup.context
        BY <1>2, <3>2 DEF Shape, SnapShape, Found, SameStream
      <3> QED
        BY <3>1, <3>2
    <2>5. OpenAt' /\ OneOpen'
      BY <2>1, <2>2, <2>3, <2>4 DEF OpenAt, OneOpen
    <2>6. Ahead'
      BY <1>2, <1>4, <1>6, <2>1, FoundSame DEF Ahead, Tracked
    <2> QED
      BY <2>5, <2>6 DEF OpenNow
  <1>7. CASE /\ \E s \in ClosedStates : slots' = [slots EXCEPT ![exec.key] = s]
             /\ \/ /\ exec.key[1] \in {"model_backoff", "tool_backoff"}
                   /\ Changes({"pc"}) /\ exec'.pc = "call"
                \/ exec'.pc = "retry"
                \/ exec' = None
    <2>1. \A k \in BoundaryKeys : ~(Open(k)')
      BY <1>2, <1>3, <1>7 DEF Open, Tracked, ClosedStates
    <2>2. OpenAt' /\ OneOpen'
      BY <2>1 DEF OpenAt, OneOpen
    <2>3. Ahead'
      BY <1>7, AheadNone DEF Inside, Tracked, Changes
    <2> QED
      BY <2>2, <2>3 DEF OpenNow
  <1> QED
    BY <1>1, <1>5, <1>6, <1>7 DEF DoesEnter

\* A step inside one boundary on the same stream.
LEMMA OpenInside ==
  ASSUME OpenNow, SameStream, slots' = slots, setup' = setup,
         exec # None, exec.pc \in Inside \cup {"enter"}, exec'.pc \in Inside \cup {"enter"},
         exec'.key = exec.key
  PROVE  OpenNow'
  <1>1. \A k \in BoundaryKeys : Pending(k) => Pending(k)'
    BY DEF Pending, Inside
  <1>2. setup.context /\ Tracked(exec.key) => SnapKey(exec.key)
    BY DEF OpenNow, Ahead
  <1>3. Ahead'
    BY <1>2, FoundSame DEF Ahead, Tracked, Inside
  <1> QED
    BY <1>1, <1>3, OpenSame DEF OpenNow

\* At most the pending reservation is open after announcing a model call.
LEMMA OpenModelStart ==
  ASSUME Shape, Budget, OpenNow, LocalModelStart \/ ProductionStart PROVE OpenNow'
  <1>1. DoesModelStart
    BY DoModelStart
  <1>2. /\ exec # None /\ exec.pc = "call" /\ exec.key \in BoundaryKeys /\ exec.key[1] = "model"
        /\ slots' = slots /\ setup' = setup /\ exec'.key = exec.key
        /\ exec'.pc \in {"send", "dispatch", "settle"}
    BY <1>1 DEF DoesModelStart, SameStore, SameRest, Changes
  <1>3. CASE SameStream
    BY <1>2, <1>3, OpenInside DEF Inside
  <1>4. CASE Appends("ModelCallStarted", Ckpt("model_inflight", exec.key[3], None))
    <2>1. Of({"model"})
      BY <1>2 DEF Of, Keyed, Inside
    <2>2. exec.key[3] \in Nat /\ "model_inflight" \in CheckpointPhases /\ exec.key = <<"model", exec.key[2], exec.key[3]>>
      BY <1>2, <2>1, BudgetNumbers DEF CheckpointPhases
    <2>3. PICK c \in Checkpoints : /\ c # None /\ c.phase = "model_inflight" /\ c.attempt = exec.key[3]
                                   /\ Appends("ModelCallStarted", c)
      BY <1>4, <2>2, CkptMade
    <2>4. count'.turns = count.turns
      BY <2>3, Counted DEF LoopEventTypes
    <2>5. exec.key = <<"model", count'.turns, c.attempt>>
      BY <1>2, <2>1, <2>2, <2>3, <2>4 DEF Budget, Links
    <2>6. setup.context => SnapKey(exec.key)'
      BY <1>2, <2>3, <2>5 DEF Appends, SnapKey, MKey, ModelPhases
    <2>7. Found(exec.key)'
      <3>1. ~setup.context => snapshot' = None
        BY <2>3 DEF Shape, SnapShape, Appends
      <3> QED
        BY <2>6, <3>1 DEF Found
    <2>8. \A k \in BoundaryKeys : Open(k) => k = exec.key
      BY <1>2 DEF OpenNow, OpenAt, Pending, Inside
    <2>9. Pending(exec.key)'
      BY <1>2 DEF Pending, Inside
    <2>10. \A k \in BoundaryKeys : Open(k)' => k = exec.key
      BY <1>2, <2>8 DEF Open
    <2>11. OpenAt' /\ OneOpen'
      BY <1>2, <2>7, <2>9, <2>10 DEF OpenAt, OneOpen
    <2>12. Ahead'
      BY <1>2, <2>6 DEF Ahead, Inside
    <2> QED
      BY <2>11, <2>12 DEF OpenNow
  <1> QED
    BY <1>1, <1>3, <1>4 DEF DoesModelStart, SameStore

\* At most the pending reservation is open after the steps around a call.
LEMMA OpenCalls ==
  ASSUME Shape, OpenBase, OpenNow, ~setup.production,
         \/ SendModel \/ (OtherCall /\ ~Asleep) \/ (OtherCall /\ Asleep) \/ ModelAnswers \/ OtherAnswers
         \/ Dispatch \/ RecordAnswer \/ RecordDoubt \/ Settle
  PROVE  OpenNow'
  <1>1. CASE SendModel \/ (OtherCall /\ ~Asleep)
    BY <1>1, DoSend, OpenInside DEF DoesSend, Changes, Inside
  <1>2. CASE (OtherCall /\ Asleep) \/ ModelAnswers \/ OtherAnswers
    BY <1>2, DoQuietCall, OpenInside DEF DoesQuietCall, Quiet, Changes, Inside
  <1>3. CASE Dispatch
    BY <1>3, DoDispatch DEF DoesDispatch, Shape, ExecShape
  <1>4. CASE RecordAnswer \/ RecordDoubt
    BY <1>4, DoRecord, DoDoubt DEF DoesRecord, DoesDoubt
  <1>5. CASE Settle
    <2>1. DoesSettle
      BY <1>5, DoSettle
    <2>2. /\ exec # None /\ exec.pc = "settle" /\ exec.key \in BoundaryKeys /\ SameStream /\ setup' = setup
          /\ exec' = None \/ exec'.pc = "after"
          /\ slots \in [BoundaryKeys -> ActiveStates \cup {NoReservation}]
      BY <2>1, Tables DEF DoesSettle, SameRest
    <2>3. Ahead'
      BY <2>2, AheadNone DEF Inside
    <2>4. \A k \in BoundaryKeys : Open(k) => k = exec.key
      BY <2>2 DEF OpenNow, OpenAt, Pending, Inside
    <2>5. CASE slots' = slots /\ exec' = None
      BY <2>2, <2>5, OpenEnded
    <2>6. CASE slots' = slots /\ ~exec.held
      <3>1. setup.reserve => ~Tracked(exec.key)
        BY <2>2, <2>6 DEF OpenBase, HeldInside, Inside
      <3>2. ~setup.reserve => \A k \in BoundaryKeys : ~Open(k)
        BY DEF OpenBase, Unopened, Open, NoReservation
      <3>3. \A k \in BoundaryKeys : ~Open(k)
        BY <2>4, <3>1, <3>2 DEF Open
      <3> QED
        BY <2>3, <2>6, <3>3, NoneOpenStep DEF OpenNow
    <2>7. CASE slots' = [slots EXCEPT ![exec.key] = "settled"]
      <3>1. \A k \in BoundaryKeys : ~(Open(k)')
        BY <2>2, <2>4, <2>7 DEF Open, Tracked
      <3>2. OpenAt' /\ OneOpen'
        BY <3>1 DEF OpenAt, OneOpen
      <3> QED
        BY <2>3, <3>2 DEF OpenNow
    <2> QED
      BY <2>1, <2>5, <2>6, <2>7 DEF DoesSettle
  <1> QED
    BY <1>1, <1>2, <1>3, <1>4, <1>5

\* At most the pending reservation is open after what follows a call and its emission.
LEMMA OpenAfter ==
  ASSUME Shape, OpenNow,
         \/ AfterModel \/ AfterTool \/ AfterVerifier \/ Retry \/ EmitInput \/ EmitFinal \/ EmitTool
         \/ RequestTool \/ Policy
  PROVE  OpenNow'
  <1>1. CASE AfterModel \/ AfterTool \/ Retry
    <2>1. DoesAfterModel \/ DoesAfterTool \/ DoesRetry
      BY <1>1, DoAfterModel, DoAfterTool, DoRetry
    <2>2. /\ exec # None /\ exec.pc \in {"after", "retry"} /\ slots' = slots
          /\ exec' # None => exec'.pc \in {"emit", "retry", "top"}
          /\ exec' # None /\ exec'.pc = "top" => exec'.ck.phase \in {None, "scheduled_backoff"}
      BY <2>1, NoCkptMade DEF DoesAfterModel, DoesAfterTool, DoesRetry
    <2> QED
      BY <2>2, NoPhase, OpenPlain DEF Inside, ModelPhases
  <1>2. CASE EmitInput \/ EmitFinal \/ EmitTool \/ RequestTool \/ Policy
    <2>1. DoesEmitInput \/ DoesEmitFinal \/ DoesEmitTool \/ DoesRequestTool \/ DoesPolicy
      BY <1>2, DoEmitInput, DoEmitFinal, DoEmitTool, DoRequestTool, DoPolicy
    <2>2. Ckpt("final", 0, "final").phase = "final"
      BY CkptMade DEF CheckpointPhases, EmissionKinds
    <2>3. /\ exec # None /\ exec.pc \in {"emit", "request", "policy"} /\ slots' = slots
          /\ exec' # None => exec'.pc \in {"request", "policy", "finalize", "enter"}
          /\ exec' # None /\ exec'.pc = "enter" => exec'.key[1] = "tool"
          /\ exec' # None /\ exec'.pc = "finalize" => exec'.ck.phase = "final"
      BY <2>1, <2>2 DEF DoesEmitInput, DoesEmitFinal, DoesEmitTool, DoesRequestTool, DoesPolicy,
         SameRest
    <2> QED
      BY <2>3, OpenPlain DEF Inside, ModelPhases, Tracked
  <1>3. CASE AfterVerifier
    <2>1. DoesAfterVerifier
      BY <1>3, DoAfterVerifier
    <2>2. /\ exec # None /\ exec.pc = "after" /\ slots' = slots /\ setup' = setup
          /\ exec'.pc \in {"finalize", "fail"} /\ Appends("VerificationRecorded", exec'.ck)
      BY <2>1 DEF DoesAfterVerifier, SameRest
    <2>3. exec'.ck # None /\ exec'.ck.phase = "verification"
      BY <2>1, VerificationMade DEF DoesAfterVerifier
    <2>4. \A k \in BoundaryKeys : ~Open(k)
      BY <2>2, NoneOpen DEF OpenNow, Inside
    <2>5. setup.context => snapshot' = exec'.ck
      BY <2>2, <2>3 DEF Appends
    <2>6. Ahead'
      BY <2>2, <2>3, <2>5 DEF Ahead, Inside, ModelPhases
    <2> QED
      BY <2>2, <2>4, <2>6, NoneOpenStep DEF OpenNow
  <1> QED
    BY <1>1, <1>2, <1>3

\* At most the pending reservation is open after a step of #finalize.
LEMMA OpenFinalize ==
  ASSUME Shape, OpenBase, OpenNow, Finalize PROVE OpenNow'
  <1>1. DoesFinalize
    BY DoFinalize
  <1>2. exec # None /\ exec.pc = "finalize" /\ slots' = slots /\ setup' = setup
    BY <1>1 DEF DoesFinalize, SameRest
  <1>3. Verification({}) # None /\ Verification({}).phase = "verification" /\ Verification({}).verified = {}
    BY VerificationMade
  <1>4. CASE /\ exec.ck.phase = "final" /\ Appends("ArtifactProduced", Verification({}))
             /\ Changes({"ck"}) /\ exec'.ck = Verification({})
    <2>1. \A k \in BoundaryKeys : ~Open(k)
      BY <1>2, <1>4, NoneOpen DEF OpenNow, Inside
    <2>2. setup.context => snapshot' = exec'.ck
      BY <1>3, <1>4 DEF Appends
    <2>3. Ahead'
      BY <1>2, <1>3, <1>4, <2>2 DEF Ahead, Inside, Changes
    <2> QED
      BY <1>2, <2>1, <2>3, NoneOpenStep DEF OpenNow
  <1>5. CASE /\ exec.ck.phase = "verification" /\ run.status = "running" /\ exec' = exec
             /\ Appends("VerificationStarted", Verification({}))
    <2>1. \A k \in BoundaryKeys : ~Open(k)
      BY <1>2, <1>5, NoneOpen DEF OpenNow, Inside
    <2>2. setup.context => snapshot' = Verification({})
      BY <1>3, <1>5 DEF Appends
    <2>3. setup.context => exec.ck.verified = {}
      BY <1>2, <1>5 DEF OpenNow, Ahead, OpenBase, Unverified
    <2>4. Ahead'
      BY <1>2, <1>3, <1>5, <2>2, <2>3 DEF Ahead, Inside
    <2> QED
      BY <1>2, <2>1, <2>4, NoneOpenStep DEF OpenNow
  <1>6. CASE /\ exec.ck.phase = "verification" /\ run.status = "verifying" /\ SameStream
             /\ Changes({"pc", "key"}) /\ exec'.pc = "enter"
             /\ exec'.key = VKey(run.required \ exec.ck.verified)
    <2>1. \A k \in BoundaryKeys : Pending(k) => Pending(k)'
      BY <1>2, <1>6 DEF Pending, Inside
    <2>2. setup.context => SnapKey(exec.key)'
      <3>1. setup.context => snapshot # None /\ snapshot.phase = "verification" /\ snapshot.verified = exec.ck.verified
        BY <1>2, <1>6 DEF OpenNow, Ahead
      <3> QED
        BY <1>6, <3>1 DEF SnapKey, SameStream
    <2>3. Ahead'
      BY <1>2, <1>6, <2>2 DEF Ahead
    <2> QED
      BY <1>2, <1>6, <2>1, <2>3, OpenSame DEF OpenNow
  <1> QED
    BY <1>1, <1>4, <1>5, <1>6 DEF DoesFinalize

\* At most the pending reservation is open after the ends of an execution, the commands and the maintenance.
LEMMA OpenOthers ==
  ASSUME Shape, Rest, Sides, OpenBase, OpenNow,
         \/ NoRetry \/ AfterEvidence \/ Exhausted \/ Ended
         \/ Start \/ SubmitInput \/ Approve \/ Cancel \/ Reconcile
  PROVE  OpenNow'
  <1>1. CASE NoRetry \/ AfterEvidence \/ Exhausted
    <2>1. DoesNoRetry \/ DoesAfterEvidence \/ DoesExhausted
      BY <1>1, DoNoRetry, DoAfterEvidence, DoExhausted
    <2>2. PICK t \in {"RunFailed", "RunSuspended", "RunCompleted"} : Appends(t, None)
      BY <2>1 DEF DoesNoRetry, DoesAfterEvidence, DoesExhausted
    <2>3. run'.status \in TerminalStatuses \cup {"suspended"}
      BY <2>2 DEF Appends, StatusMove
    <2>4. slots' = slots /\ exec' = None
      BY <2>1 DEF DoesNoRetry, DoesAfterEvidence, DoesExhausted
    <2> QED
      BY <2>3, <2>4, OpenEnded
  <1>2. CASE Ended
    BY <1>2, DoEnded, OpenEnded DEF DoesEnded, Quiet
  <1>3. CASE Start
    <2>1. DoesStart
      BY <1>3, DoStart
    <2>2. exec' = None /\ slots' = slots
      BY <2>1 DEF DoesStart, Sides, Runnable, TerminalStatuses
    <2>3. \A k \in BoundaryKeys : ~Open(k)
      BY <2>1 DEF DoesStart, OpenBase, Unopened, Open, NoReservation
    <2> QED
      BY <2>2, <2>3, NoneOpenStep, AheadNone DEF OpenNow
  <1>4. CASE Reconcile
    <2>1. exec' = exec /\ SameStream /\ SameRest
      BY <1>4, DoReconcile DEF DoesReconcile
    <2>2. \A k \in BoundaryKeys : slots'[k] = "reserved" => slots[k] = "reserved"
      BY <1>4, DoReconcile, Tables DEF DoesReconcile
    <2>3. \A k \in BoundaryKeys : Open(k) => Found(k)' /\ (exec' # None => Pending(k)')
      <3>1. \A k \in BoundaryKeys : Open(k) => Found(k) /\ (exec # None => Pending(k))
        BY DEF OpenNow, OpenAt
      <3>2. \A k : Pending(k) => Pending(k)'
        BY <2>1 DEF Pending, SameStream, MKey
      <3>3. \A k : Found(k) => Found(k)'
        BY <2>1, FoundSame
      <3> QED
        BY <2>1, <3>1, <3>2, <3>3
    <2>4. OpenAt' /\ OneOpen'
      BY <2>2, <2>3, OpenKept DEF OpenNow
    <2>5. Ahead'
      BY <2>1 DEF OpenNow, Ahead, SnapKey, SameStream, SameRest, ModelKey, Attempt, step, Tracked,
         MKey
    <2> QED
      BY <2>4, <2>5 DEF OpenNow
  <1>5. CASE SubmitInput \/ Approve \/ Cancel
    <2>1. DoesCommand
      BY <1>5, DoCommand
    <2>2. exec' = exec /\ setup' = setup /\ slots' = slots
      BY <2>1 DEF DoesCommand
    <2>3. PICK t \in {"InputSubmitted", "ApprovalRecorded", "RunCancelled"} : Appends(t, None)
      BY <2>1 DEF DoesCommand
    <2>4. /\ count'.turns = count.turns /\ count'.models = count.models
          /\ snapshot' = snapshot /\ run'.required = run.required
      <3>1. t \in LoopEventTypes
        BY DEF LoopEventTypes
      <3>2. count'.turns = count.turns /\ count'.models = count.models
        BY <2>3, <3>1, Counted
      <3> QED
        BY <2>3, <3>2 DEF Appends
    <2>5. ASSUME run'.status # "running" PROVE \A k : SnapKey(k) => SnapKey(k)'
      BY <2>4, <2>5 DEF SnapKey, MKey
    <2>6. CASE Appends("RunCancelled", None)
      <3>1. run'.status \in TerminalStatuses /\ run'.status # "running"
        BY <2>6 DEF Appends, StatusMove, TerminalStatuses
      <3>2. \A k : Pending(k) => Pending(k)'
        BY <2>2, <2>4, <3>1 DEF Pending, MKey
      <3>3. \A k : Found(k)'
        BY <3>1 DEF Found
      <3>4. \A k \in BoundaryKeys : Open(k) => Found(k)' /\ (exec' # None => Pending(k)')
        BY <2>2, <3>2, <3>3 DEF OpenNow, OpenAt
      <3>5. OpenAt' /\ OneOpen'
        BY <2>2, <3>4, OpenKept DEF OpenNow
      <3>6. ModelKey' = ModelKey
        BY <2>2 DEF ModelKey, Attempt, step
      <3>7. Ahead'
        BY <2>2, <2>4, <2>5, <3>1, <3>6 DEF OpenNow, Ahead, Tracked
      <3> QED
        BY <3>5, <3>7 DEF OpenNow
    <2>7. CASE run.status = "waiting_for_input" /\ Appends("InputSubmitted", None) /\ approved' = approved
      <3>1. exec' = None
        BY <2>2, <2>7 DEF Sides, Runnable, TerminalStatuses
      <3>2. run'.status # "running"
        BY <2>7 DEF Appends, StatusMove
      <3>3. \A k \in BoundaryKeys : Open(k) => Found(k)'
        BY <2>4, <2>5, <2>7, <3>2 DEF OpenNow, OpenAt, Found, TerminalStatuses
      <3>4. OpenAt' /\ OneOpen'
        BY <2>2, <3>1, <3>3, OpenKept DEF OpenNow
      <3> QED
        BY <3>1, <3>4, AheadNone DEF OpenNow
    <2>8. CASE run.status = "waiting_for_approval" /\ Appends("ApprovalRecorded", None) /\ approved' = TRUE
      <3>1. exec' = None
        BY <2>2, <2>8 DEF Sides, Runnable, TerminalStatuses
      <3>2. snapshot # None => snapshot.phase = "tool"
        BY <2>8 DEF Shape, SnapShape, Rest, Fits
      <3>3. \A k : ~SnapKey(k)
        BY <3>2 DEF SnapKey, ModelPhases
      <3>4. \A k \in BoundaryKeys : Open(k) => Found(k)'
        BY <2>4, <2>8, <3>3 DEF OpenNow, OpenAt, Found, TerminalStatuses
      <3>5. OpenAt' /\ OneOpen'
        BY <2>2, <3>1, <3>4, OpenKept DEF OpenNow
      <3> QED
        BY <3>1, <3>5, AheadNone DEF OpenNow
    <2> QED
      BY <2>1, <2>6, <2>7, <2>8 DEF DoesCommand
  <1> QED
    BY <1>1, <1>2, <1>3, <1>4, <1>5

\* Every step with local model calls keeps at most the pending reservation open.
LEMMA OpenStep ==
  ASSUME Shape, Rest, Sides, Budget, OpenBase, ~setup.production, OpenNow, [Next]_vars
  PROVE  OpenNow'
  <1>1. CASE UNCHANGED vars
    <2>1. OpenAt' /\ OneOpen'
      BY <1>1 DEF vars, store, OpenNow, OpenAt, OneOpen, Open, Found, Pending, SnapKey, MKey,
         Tracked
    <2>2. Ahead'
      BY <1>1 DEF vars, store, OpenNow, Ahead, SnapKey, MKey, Tracked, ModelKey, Attempt, step
    <2> QED
      BY <2>1, <2>2 DEF OpenNow
  <1>2. CASE Next
    BY <1>2, LoopSteps, OpenExecute, OpenBackoff, OpenRetryResumed, OpenTurn, OpenFinal,
       OpenModelStep,
       OpenEnter, OpenModelStart, OpenCalls, OpenAfter, OpenFinalize, OpenOthers
  <1> QED
    BY <1>1, <1>2

-----------------------------------------------------------------------------
(* The theorems. *)

\* The inductive invariant of the agent loop.
LoopInv ==
  /\ Shape /\ Sends /\ Rest /\ Sides /\ Budget /\ OpenBase
  /\ ~setup.production => OpenNow

\* The inductive invariant holds initially.
LEMMA LoopInit ==
  ASSUME Init PROVE LoopInv
  <1>1. run \in Projections /\ run.status = "created"
    BY DEF Init, createRunProjection, Projections, Kinds, Statuses
  <1>2. setup \in [context : BOOLEAN, reserve : BOOLEAN, production : BOOLEAN,
                   emissions : SUBSET EmissionKinds]
    BY SetupAssumption DEF Init
  <1>3. Shape
    <2>1. count \in [turns : 0..MaxTurns, models : Nat, tools : 0..MaxToolCalls]
      BY BudgetAssumption DEF Init
    <2>2. slots \in [BoundaryKeys -> ActiveStates \cup {NoReservation}]
      BY DEF Init
    <2>3. calls \in [Steps \X Attempts -> ModelStates \cup {NoReservation}]
      BY DEF Init
    <2>4. sent \in [BoundaryKeys -> 0..2] /\ faults \in 0..MaxFaults
      BY BudgetAssumption DEF Init
    <2>5. suffix \in Seq(EventTypes)
      BY EmptySeq DEF Init
    <2>6. approved \in BOOLEAN
      BY DEF Init
    <2> QED
      BY <1>1, <2>1, <2>2, <2>3, <2>4, <2>5, <2>6 DEF Init, Shape, LoopTypes, StoreTypes,
         ExecShape, SnapShape
  <1>4. \A k \in BoundaryKeys : sent[k] = 0 /\ slots[k] = NoReservation
    BY DEF Init
  <1>5. Sends
    <2>1. SentOnce
      BY <1>4 DEF SentOnce
    <2>2. \A c \in Steps \X Attempts : <<"model", c[1], c[2]>> \in BoundaryKeys
      BY DEF BoundaryKeys
    <2>3. ChargedWhenSent
      BY <1>4, <2>2 DEF ChargedWhenSent
    <2> QED
      BY <1>4, <2>1, <2>3 DEF Sends, SentStore, Sending, Init
  <1>6. Rest /\ Sides
    <2>1. suffix # <<"ApprovalRequested", "ApprovalRecorded">>
      BY DEF Init
    <2> QED
      BY <1>1, <2>1 DEF Rest, Sides, Init, Active
  <1>7. Used = 0
    <2>1. SentModels = {}
      BY <1>4 DEF SentModels
    <2> QED
      BY <2>1, FS_EmptySet DEF Used
  <1>8. Budget
    BY <1>7, BudgetAssumption DEF Budget, SnapBudget, ExecBudget, Links, Init
  <1>9. OpenBase
    BY <1>4 DEF OpenBase, Early, Unopened, HeldInside, Unverified, Init
  <1>10. OpenNow
    BY <1>4 DEF OpenNow, OpenAt, OneOpen, Ahead, Open, NoReservation, Init
  <1> QED
    BY <1>3, <1>5, <1>6, <1>8, <1>9, <1>10 DEF LoopInv

\* Every step keeps the inductive invariant.
LEMMA LoopStep ==
  ASSUME LoopInv, [Next]_vars PROVE LoopInv'
  <1>1. /\ Shape /\ Sends /\ Rest /\ Sides /\ Budget /\ OpenBase
        /\ ~setup.production => OpenNow
    BY DEF LoopInv
  <1>2. Shape' /\ Sends' /\ Rest' /\ Sides' /\ Budget'
    BY <1>1, ShapeStep, SendsStep, RestStep, BudgetStep
  <1>3. setup' = setup
    BY <1>1, SlotSteps DEF vars
  <1>4. OpenBase'
    <2>1. CASE UNCHANGED vars
      BY <1>1, <2>1 DEF vars, store, OpenBase, Early, Unopened, HeldInside, Unverified, Tracked
    <2> QED
      BY <1>1, <2>1, OpenBaseStep
  <1>5. ~setup.production => OpenNow'
    BY <1>1, OpenStep
  <1> QED
    BY <1>2, <1>3, <1>4, <1>5 DEF LoopInv

\* The inductive invariant holds of every reachable state.
LEMMA LoopInvariant == Spec => []LoopInv
  BY LoopInit, LoopStep, PTL DEF Spec

\* Whatever the executions, interruptions and retries, a run never has more turns, model calls
\* sent to a provider or tool calls than its work order allows (AgentRuntime.#assertBoundary).
THEOREM LoopBudgetsHold == Spec => []BudgetsHold
  <1>1. ASSUME LoopInv PROVE BudgetsHold
    <2>1. Shape /\ Budget
      BY <1>1 DEF LoopInv
    <2>2. count.turns <= MaxTurns /\ count.tools <= MaxToolCalls
      BY <2>1, BudgetAssumption DEF Shape, LoopTypes, StoreTypes
    <2>3. Used <= MaxModelCalls
      BY <2>1 DEF Budget, SnapBudget
    <2>4. SentModels = {k \in BoundaryKeys : k[1] = "model" /\ sent[k] > 0}
      BY DEF SentModels
    <2> QED
      BY <2>2, <2>3, <2>4 DEF BudgetsHold, Used
  <1> QED
    BY <1>1, LoopInvariant, PTL

\* Wherever an execution is interrupted, no call is made twice under one boundary key, a model
\* call that was sent stays charged, at most one reservation of a model call, a verifier or the
\* evidence is open, and a runnable run has a checkpoint the next execution accepts.
THEOREM LoopInterruptionSafe == Spec => []InterruptionSafe
  <1>1. ASSUME LoopInv PROVE InterruptionSafe
    <2>1. Shape /\ Sends /\ Rest /\ (~setup.production => OpenNow)
      BY <1>1 DEF LoopInv
    <2>2. SentOnce /\ ChargedWhenSent
      BY <2>1 DEF Sends, SentStore
    <2>3. OneCallOpen
      BY <2>1 DEF OpenNow, OneOpen, Open, Tracked, OneCallOpen
    <2>4. Resumable
      BY <2>1 DEF Rest, Fits, Active, Resumable, Runnable
    <2>5. TypeOK
      <3>1. StoreTypes /\ exec \in Executions \cup {None}
        BY <2>1 DEF Shape, LoopTypes
      <3>2. \A k \in DOMAIN count : count[k] \in Nat
        BY <3>1, BudgetAssumption DEF StoreTypes
      <3>3. snapshot # None => snapshot.phase \in CheckpointPhases
        BY <2>1, <3>1 DEF StoreTypes, Checkpoints, Shape, SnapShape
      <3>4. exec # None =>
              /\ exec.ck.phase \in CheckpointPhases \cup {None}
              /\ exec.key \in BoundaryKeys \cup {None}
        BY <3>1 DEF Executions, Checkpoints
      <3> QED
        BY <3>1, <3>2, <3>3, <3>4 DEF TypeOK, StoreTypes
    <2> QED
      BY <2>2, <2>3, <2>4, <2>5 DEF InterruptionSafe
  <1> QED
    BY <1>1, LoopInvariant, PTL
=============================================================================
