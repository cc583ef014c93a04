------------------------------ MODULE AgentLoop -----------------------------
(***************************************************************************)
(* The agent loop of AgentRuntime.execute (runtime.ts): turns, model calls *)
(* (local and through the production boundary), R0-R1 read tools,          *)
(* approvals and inputs the run waits for, retries with a persisted        *)
(* backoff, and #finalize with its verifiers and its evidence, under the   *)
(* budgets of the work order.  Every call to the outside runs inside       *)
(* #withActiveExecution.                                                   *)
(*                                                                         *)
(* Each commit (#append and the two reservation transitions) and each call *)
(* to the outside is a step; between two of them the process may crash,    *)
(* lose its lease or meet a store error, and a later execute starts over   *)
(* from the event history and the latest context snapshot.  One execution  *)
(* at a time: module RunLease.  Write effects: module EffectExecution.     *)
(*                                                                         *)
(* Data: a model answer is the kind of its emission, a step is the number  *)
(* of its PlanningStarted, a digest or a byte limit is left out.  Deadline *)
(* and active-time checks are a choice of the environment; module          *)
(* Reservations computes the active-time charges.                          *)
(***************************************************************************)
EXTENDS RunReducer, ReservationRules, Sequences, FiniteSets

CONSTANTS
  MaxTurns, MaxModelCalls, MaxToolCalls,  \* the work order's budget
  MaximumAttempts,  \* retryPolicy.maximumAttempts; 0 stands for no retry policy
  Setups,           \* bound: the runtime configurations considered
  MaxFaults         \* bound: crashes and store errors

EmissionKinds == {"tool", "gated", "input", "final", "empty"}

ASSUME BudgetAssumption ==
  /\ {MaxTurns, MaxModelCalls, MaxToolCalls} \subseteq Nat \ {0}
  /\ {MaximumAttempts, MaxFaults} \subseteq Nat

\* context: checkpoints configured; reserve: activeExecutionServices configured;
\* production: productionModelServices configured; emissions: what the model may answer.
ASSUME SetupAssumption ==
  Setups \subseteq [context : BOOLEAN, reserve : BOOLEAN, production : BOOLEAN,
                   emissions : SUBSET EmissionKinds]

VARIABLES
  setup,      \* the configuration, fixed
  run,        \* the projection (stream and row agree: module RunStream)
  count,      \* events of the stream: PlanningStarted, ModelCallStarted, ToolCallRequested
  snapshot,   \* the latest context snapshot, or None
  suffix,     \* types of the events after the snapshot
  slots,      \* active-execution reservations by boundary key
  calls,      \* model-call reservations by <<step, attempt>>
  exec,       \* the execution under way, or None
  doubtful,   \* #uncertainLocalModelCalls of the process
  approved,   \* an approval of the pending call is recorded
  approvalUse,      \* what became of it: None, "claimed" or "expired" (claimApproval)
  rethrown,   \* the last execution ended with an error it rethrew
  sent,       \* external: invocations by boundary key; 2 stands for more than one
  faults

store == <<run, count, snapshot, suffix, slots, calls>>
vars == <<setup, store, exec, doubtful, approved, approvalUse, rethrown, sent, faults>>

Steps == 1..MaxTurns

\* A turn announces at most one attempt more than the budget, a retry none beyond its policy.
LastAttempt == IF MaxModelCalls < MaximumAttempts THEN MaximumAttempts ELSE MaxModelCalls + 1
Attempts == 1..LastAttempt

BoundaryKeys ==
  ({"model", "tool", "model_backoff", "tool_backoff"} \X Steps \X Attempts)
    \cup ({"verifier"} \X Verifiers) \cup {<<"evidence">>}

Runnable == {"accepted", "planning", "running", "verifying"}

CheckpointPhases ==
  {"model", "model_inflight", "emission", "tool_request", "tool", "turn", "input",
   "scheduled_backoff", "final", "verification"}

\* A checkpoint: "back" is the boundary a scheduled_backoff resumes.
Checkpoints ==
  [phase : CheckpointPhases \cup {None}, attempt : Nat, emission : EmissionKinds \cup {None},
   back : {None, "model", "tool"}, verified : SUBSET Verifiers]

ASSUME NoneIsNoData ==
  /\ None \notin CheckpointPhases \cup EmissionKinds \cup BoundaryKeys /\ None \notin Checkpoints
  /\ Ids # {}

Ckpt(phase, attempt, emission) ==
  [phase |-> phase, attempt |-> attempt, emission |-> emission, back |-> None, verified |-> {}]

NoCkpt == Ckpt(None, 0, None)

Init ==
  /\ setup \in Setups
  /\ run = createRunProjection("agent")
  /\ count = [turns |-> 0, models |-> 0, tools |-> 0]
  /\ snapshot = None /\ suffix = <<>>
  /\ slots = [k \in BoundaryKeys |-> NoReservation]
  /\ calls = [c \in Steps \X Attempts |-> NoReservation]
  /\ exec = None /\ doubtful = {} /\ approved = FALSE /\ approvalUse = None /\ rethrown = FALSE
  /\ sent = [k \in BoundaryKeys |-> 0]
  /\ faults = 0

\* ---------------------------------------------------------------- appending

\* #append: the event, the projection and the checkpoint (None for an event
\* without one) commit together.
Append1(e, ckpt) ==
  /\ Reducible(run, e, run.lastSequence + 1)
  /\ run' = Reduce(run, e)
  /\ count' = [turns  |-> count.turns + (IF e.type = "PlanningStarted" THEN 1 ELSE 0),
               models |-> count.models + (IF e.type = "ModelCallStarted" THEN 1 ELSE 0),
               tools  |-> count.tools + (IF e.type = "ToolCallRequested" THEN 1 ELSE 0)]
  /\ IF ckpt = None \/ ~setup.context
     THEN snapshot' = snapshot /\ suffix' = Append(suffix, e.type)
     ELSE snapshot' = ckpt /\ suffix' = <<>>

Leave == exec' = None

At(pc) == exec # None /\ exec.pc = pc

Go(pc) == exec' = [exec EXCEPT !.pc = pc]

\* #fail and #terminalizeExecutionFailure.
RunFailed ==
  /\ Append1(Ev("RunFailed"), None)
  /\ Leave
  /\ UNCHANGED <<setup, slots, calls, doubtful, approved, approvalUse, rethrown, sent, faults>>

Suspend(target) ==
  /\ Append1(EvSuspended(target, None), None)
  /\ Leave
  /\ UNCHANGED <<setup, slots, calls, doubtful, approved, approvalUse, rethrown, sent, faults>>

\* ------------------------------------------------------- starting an execution

\* #assertContextCheckpointSuffix: the snapshot is at the head of the stream, or only
\* an answer to what the run waited for came after it.
SafeSuffix ==
  \/ suffix = <<>>
  \/ /\ snapshot.phase = "tool" /\ run.status = "running"
     /\ suffix = <<"ApprovalRequested", "ApprovalRecorded">>
  \/ /\ snapshot.phase = "input" /\ run.status = "planning"
     /\ suffix = <<"InputSubmitted">>

\* Counters are recounted from the history; a submitted input becomes model input.
Loaded(ck) ==
  [pc |-> "top", turns |-> count.turns, models |-> count.models, tools |-> count.tools,
   ck |-> IF ck.phase = "input" THEN Ckpt("model", count.models + 1, None) ELSE ck,
   next |-> ck.emission, key |-> None, held |-> FALSE, outcome |-> None, inflight |-> FALSE]

Execute ==
  /\ exec = None
  /\ \/ /\ run.status = "accepted"
        /\ exec' = Loaded(NoCkpt) /\ rethrown' = FALSE
        /\ UNCHANGED <<setup, store, doubtful, approved, approvalUse, sent, faults>>
     \/ /\ run.status \in Runnable \ {"accepted"} /\ snapshot # None /\ SafeSuffix
        /\ exec' = Loaded(snapshot) /\ rethrown' = FALSE
        /\ UNCHANGED <<setup, store, doubtful, approved, approvalUse, sent, faults>>
     \/ /\ run.status \in Runnable \ {"accepted"} /\ snapshot = None
        /\ Suspend(run.status)

Local == UNCHANGED <<setup, store, doubtful, approved, approvalUse, rethrown, sent, faults>>
Appended == UNCHANGED <<setup, slots, calls, doubtful, approved, approvalUse, rethrown, sent,
                        faults>>

\* ------------------------------------------------------------------ the loop

step == exec.turns

InTurn == exec.ck.phase \notin {"scheduled_backoff", "final", "verification"}

BackoffKey ==
  <<IF exec.ck.back = "model" THEN "model_backoff" ELSE "tool_backoff", step, exec.ck.attempt>>

\* A persisted backoff is slept off, the rest of the delay only.
Backoff ==
  /\ At("top") /\ exec.ck.phase = "scheduled_backoff"
  /\ \/ exec' = [exec EXCEPT !.pc = "enter", !.key = BackoffKey]
     \/ Go("resume")
  /\ Local

RetryResumed ==
  /\ At("resume")
  /\ LET ck == Ckpt(exec.ck.back, exec.ck.attempt, exec.ck.emission)
     IN /\ Append1(Ev("RetryResumed"), ck)
        /\ exec' = [exec EXCEPT !.pc = "top", !.ck = ck, !.next = ck.emission]
  /\ Appended

\* #assertBoundary: the deadline or the active-time budget is over.
Overdue ==
  /\ exec # None
  /\ \/ exec.pc = "top" /\ InTurn
     \/ exec.pc \in {"model", "emit", "policy", "resume"}
  /\ RunFailed

\* #assertBoundary, dispatch "turn".
TurnOver == exec.turns >= MaxTurns

\* The check is made whenever the loop is entered, for a turn under way too.
TurnExhausted ==
  /\ At("top") /\ InTurn /\ TurnOver
  /\ RunFailed

Turn ==
  /\ At("top") /\ InTurn /\ ~TurnOver
  /\ \/ exec.ck.phase \in {"emission", "tool_request", "tool"} /\ Go("emit") /\ Local
     \/ exec.ck.phase \in {"model", "model_inflight"} /\ Go("model") /\ Local
     \/ /\ exec.ck.phase \in {None, "turn"}
        /\ Append1(Ev("PlanningStarted"), Ckpt("model", exec.models + 1, None))
        /\ exec' = [exec EXCEPT !.pc = "model", !.turns = @ + 1]
        /\ Appended

FinalOrVerification ==
  /\ At("top") /\ exec.ck.phase \in {"final", "verification"}
  /\ Go("finalize") /\ Local

\* --------------------------------------------------------------- model calls

Attempt == IF exec.ck.attempt = 0 THEN exec.models + 1 ELSE exec.ck.attempt

ModelKey == <<"model", step, Attempt>>

EnterModel ==
  exec' = [exec EXCEPT !.pc = "enter", !.key = ModelKey,
                       !.inflight = exec.ck.phase = "model_inflight"]

ModelExhausted ==
  /\ At("model") /\ exec.models >= MaxModelCalls
  /\ RunFailed

\* What an execution does about a call another one had started.
Dispatched == setup.production /\ calls[<<step, Attempt>>] = "dispatched"

Undecided == setup.production /\ calls[<<step, Attempt>>] = "uncertain"

ModelStep ==
  /\ At("model") /\ exec.models < MaxModelCalls
  /\ IF exec.ck.phase # "model_inflight" THEN EnterModel /\ Local
     ELSE \/ /\ Dispatched
             /\ calls' = [calls EXCEPT ![<<step, Attempt>>] = "uncertain"]
             /\ UNCHANGED <<setup, run, count, snapshot, suffix, slots, exec, doubtful,
                            approved, approvalUse, rethrown, sent, faults>>
          \/ /\ Undecided /\ ~Dispatched
             /\ exec' = [exec EXCEPT !.pc = "retry", !.key = ModelKey, !.outcome = "uncertain"]
             /\ Local
          \/ /\ ~Undecided /\ ~Dispatched
             /\ \/ setup.production /\ calls[<<step, Attempt>>] # "accepted"
                \/ ~setup.production /\ step \in doubtful
             /\ Suspend("planning")
          \/ /\ ~Undecided /\ ~Dispatched
             /\ \/ setup.production /\ calls[<<step, Attempt>>] = "accepted"
                \/ ~setup.production /\ step \notin doubtful
             /\ EnterModel /\ Local

\* ------------------------------------------------- #withActiveExecution: entry

Asleep == exec.key[1] \in {"model_backoff", "tool_backoff"}

MutRecovered == exec' = [exec EXCEPT !.pc = "call"]  \* mutant: the interrupted call is repeated

\* What a reservation found at entry means for the call: only a backoff is repeated.
Recovered ==
  CASE Asleep                         -> Go("call")
    [] exec.key[1] \in {"model", "tool"} ->
         exec' = [exec EXCEPT !.pc = "retry", !.outcome = "uncertain",
                              !.models = IF exec.key[1] = "model" /\ @ < exec.key[3]
                                         THEN exec.key[3] ELSE @]
    [] OTHER                          -> Leave

\* A reservation left by an interruption is closed with its full charge.
Closed(s) == IF s = "reserved" THEN "closed_uncertain" ELSE s

Enter ==
  /\ At("enter")
  /\ \/ ~setup.reserve /\ Go("call") /\ Local
     \/ /\ setup.reserve /\ slots[exec.key] = NoReservation
        /\ slots' = [slots EXCEPT ![exec.key] = "reserved"]
        /\ exec' = [exec EXCEPT !.pc = "call", !.held = TRUE]
        /\ UNCHANGED <<setup, run, count, snapshot, suffix, calls, doubtful, approved,
                       approvalUse, rethrown, sent, faults>>
     \/ /\ setup.reserve /\ slots[exec.key] # NoReservation
        /\ slots' = [slots EXCEPT ![exec.key] = Closed(@)]
        /\ Recovered
        /\ UNCHANGED <<setup, run, count, snapshot, suffix, calls, doubtful, approved,
                       approvalUse, rethrown, sent, faults>>

\* The store refuses a reservation beyond maxActiveExecutionMs.
ActiveTimeExhausted ==
  /\ At("enter") /\ setup.reserve /\ slots[exec.key] = NoReservation
  /\ RunFailed

\* ------------------------------------------------- the call inside the boundary

Ends(outcome) == exec' = [exec EXCEPT !.pc = "settle", !.outcome = outcome]

Call == <<exec.key[2], exec.key[3]>>

InModel == exec # None /\ exec.key # None /\ exec.key[1] = "model"

OnceMore(n) == IF n = 0 THEN 1 ELSE 2

Send ==
  /\ sent' = [sent EXCEPT ![exec.key] = OnceMore(@)]
  /\ Go("await")
  /\ UNCHANGED <<setup, store, doubtful, approved, approvalUse, rethrown, faults>>

\* #invokeModelCall without production services.
LocalModelStart ==
  /\ At("call") /\ InModel /\ ~setup.production
  /\ IF exec.inflight THEN Go("send") /\ Local
     ELSE /\ Append1(Ev("ModelCallStarted"), Ckpt("model_inflight", exec.key[3], None))
          /\ Go("send") /\ Appended

\* #invokeProductionModelCall: the event and the reservation commit together.  A repeated
\* reservation binds createdAt to the projection's last event, which the first
\* ModelCallStarted moved: it is the same only when the clock did not advance.
ProductionStart ==
  /\ At("call") /\ InModel /\ setup.production
  /\ \/ /\ calls[Call] \in {NoReservation, "accepted"}
        /\ Append1(Ev("ModelCallStarted"), Ckpt("model_inflight", exec.key[3], None))
        /\ calls' = [calls EXCEPT ![Call] = "accepted"]
        /\ Go("dispatch")
        /\ UNCHANGED <<setup, slots, doubtful, approved, approvalUse, rethrown, sent, faults>>
     \/ calls[Call] # NoReservation /\ Ends("throw") /\ Local

\* Credential issuance, then markDispatched; both may fail.
Dispatch ==
  /\ At("dispatch")
  /\ \/ /\ ModelPut(calls[Call], "dispatched")
        /\ calls' = [calls EXCEPT ![Call] = "dispatched"]
        /\ Go("send")
        /\ UNCHANGED <<setup, run, count, snapshot, suffix, slots, doubtful, approved,
                       approvalUse, rethrown, sent, faults>>
     \/ ~ModelPut(calls[Call], "dispatched") /\ Ends("throw") /\ Local
     \/ /\ faults < MaxFaults /\ faults' = faults + 1
        /\ Ends("throw")
        /\ UNCHANGED <<setup, store, doubtful, approved, approvalUse, rethrown, sent>>

Classifications == {"retryable", "uncertain", "non_retryable"}

\* The model answers, or its error is classified.
ModelAnswers ==
  /\ At("await") /\ InModel
  /\ \/ \E e \in setup.emissions :
          /\ exec' = [exec EXCEPT !.pc = IF setup.production THEN "record" ELSE "settle",
                                  !.outcome = e]
          /\ UNCHANGED doubtful
     \/ \E c \in Classifications :
          /\ exec' = [exec EXCEPT !.pc = IF setup.production THEN "doubt" ELSE "settle",
                                  !.outcome = c]
          /\ doubtful' = IF setup.production THEN doubtful ELSE doubtful \cup {step}
  /\ UNCHANGED <<setup, store, approved, approvalUse, rethrown, sent, faults>>

\* The answer of a production call and its settlement commit together.
RecordAnswer ==
  /\ At("record")
  /\ \/ /\ ModelPut(calls[Call], "settled")
        /\ Append1(Ev("ModelCallCompleted"),
                   IF exec.outcome = "empty" THEN Ckpt("model", exec.key[3], None)
                   ELSE Ckpt("emission", exec.key[3], exec.outcome))
        /\ calls' = [calls EXCEPT ![Call] = "settled"]
        /\ Go("settle")
        /\ UNCHANGED <<setup, slots, doubtful, approved, approvalUse, rethrown, sent, faults>>
     \/ ~ModelPut(calls[Call], "settled") /\ Ends("throw") /\ Local
     \/ /\ faults < MaxFaults /\ faults' = faults + 1  \* the usage exceeds what was reserved
        /\ Ends("throw")
        /\ UNCHANGED <<setup, store, doubtful, approved, approvalUse, rethrown, sent>>

RecordDoubt ==
  /\ At("doubt")
  /\ \/ /\ ModelPut(calls[Call], "uncertain")
        /\ calls' = [calls EXCEPT ![Call] = "uncertain"]
        /\ Go("settle")
        /\ UNCHANGED <<setup, run, count, snapshot, suffix, slots, doubtful, approved,
                       approvalUse, rethrown, sent, faults>>
     \/ ~ModelPut(calls[Call], "uncertain") /\ Ends("throw") /\ Local

\* A tool, a verifier, the evidence builder or the sleep of a backoff.
OtherCall ==
  /\ At("call") /\ ~InModel
  /\ IF Asleep THEN Ends("ok") /\ Local ELSE Send

SendModel == At("send") /\ Send

\* An error of a verifier or of the evidence builder is not classified.
OtherAnswers ==
  /\ At("await") /\ ~InModel
  /\ \/ \E o \in CASE exec.key[1] = "tool"     -> {"ok"} \cup Classifications
                   [] exec.key[1] = "verifier" -> {"pass", "fail"}
                   [] OTHER                    -> {"ok"} : Ends(o) /\ UNCHANGED faults
     \/ /\ exec.key[1] # "tool" /\ faults < MaxFaults /\ faults' = faults + 1
        /\ Ends("throw")
  /\ UNCHANGED <<setup, store, doubtful, approved, approvalUse, rethrown, sent>>

\* -------------------------------------------------- #withActiveExecution: exit

\* #settleActiveExecution; a reservation closed meanwhile refuses the settlement and
\* its conflict replaces the outcome of the call.
Settle ==
  /\ At("settle")
  /\ \/ /\ exec.held /\ ActivePut(slots[exec.key], "settled")
        /\ slots' = [slots EXCEPT ![exec.key] = "settled"]
        /\ exec' = IF exec.outcome = "throw" THEN None
                   ELSE [exec EXCEPT !.pc = "after", !.held = FALSE]
        /\ UNCHANGED <<setup, run, count, snapshot, suffix, calls, doubtful, approved,
                       approvalUse, rethrown, sent, faults>>
     \/ exec.held /\ ~ActivePut(slots[exec.key], "settled") /\ Leave /\ Local
     \/ ~exec.held /\ exec.outcome = "throw" /\ Leave /\ Local
     \/ ~exec.held /\ exec.outcome # "throw" /\ Go("after") /\ Local

\* ------------------------------------------------------ what the loop does next

ModelCount == exec.models + (IF exec.inflight THEN 0 ELSE 1)

AfterModel ==
  /\ At("after") /\ InModel
  /\ \/ /\ exec.outcome \in EmissionKinds \ {"empty"}
        /\ IF setup.production
           THEN Local
           ELSE /\ Append1(Ev("ModelCallCompleted"), Ckpt("emission", 0, exec.outcome))
                /\ Appended
        /\ exec' = [exec EXCEPT !.pc = "emit", !.next = exec.outcome, !.models = ModelCount]
     \/ exec.outcome = "empty" /\ RunFailed
     \/ /\ exec.outcome \in Classifications
        /\ exec' = [exec EXCEPT !.pc = "retry",
                                !.models = IF @ < exec.key[3] THEN exec.key[3] ELSE @]
        /\ Local

AfterBackoff == At("after") /\ Asleep /\ Go("resume") /\ Local

\* #scheduleRetry; "deadline" stands for a backoff that would end after the deadline.
Retry ==
  /\ At("retry") /\ exec.outcome # "non_retryable" /\ exec.key[3] < MaximumAttempts
  /\ LET ck == [Ckpt("scheduled_backoff", exec.key[3] + 1,
                     IF exec.key[1] = "tool" THEN exec.next ELSE None)
                  EXCEPT !.back = exec.key[1]]
     IN /\ Append1(Ev("RetryScheduled"), ck)
        /\ exec' = [exec EXCEPT !.pc = "top", !.ck = ck, !.inflight = FALSE]
  /\ Appended

MutNoRetry == At("retry") /\ Leave /\ Local  \* mutant: parked without an event

\* No retry is left or allowed: an uncertain call suspends the run, another one fails it.
NoRetry ==
  /\ At("retry")
  /\ IF exec.outcome = "uncertain"
     THEN Suspend(IF exec.key[1] = "model" THEN "planning" ELSE "running")
     ELSE RunFailed

\* An error of the boundary that is a KafError is kept as it is, and one whose code is not
\* terminal is rethrown: the execution ends and the run stays as it is.
Rethrow ==
  /\ At("retry") /\ exec.outcome # "uncertain"
  /\ rethrown' = TRUE /\ Leave
  /\ UNCHANGED <<setup, store, doubtful, approved, approvalUse, sent, faults>>

\* An emission of the model; a resumed request or call skips what was appended before.
EmitInput ==
  /\ At("emit") /\ exec.next = "input"
  /\ Append1(EvId("InputRequested", CHOOSE i \in Ids : TRUE), Ckpt("input", 0, None))
  /\ Leave /\ Appended

EmitFinal ==
  /\ At("emit") /\ exec.next = "final"
  /\ LET ck == Ckpt("final", 0, "final")
     IN Append1(Ev("ExecutionStarted"), ck) /\ exec' = [exec EXCEPT !.pc = "finalize", !.ck = ck]
  /\ Appended

IsTool == exec.next \in {"tool", "gated"}

MutToolOver == exec.tools > MaxToolCalls  \* mutant: one tool call more than the budget

\* #assertBoundary, dispatch "tool".
ToolOver == exec.tools >= MaxToolCalls

ToolExhausted ==
  /\ At("emit") /\ IsTool /\ exec.ck.phase \notin {"tool_request", "tool"} /\ ToolOver
  /\ RunFailed

EmitTool ==
  /\ At("emit") /\ IsTool
  /\ \/ /\ exec.ck.phase \notin {"tool_request", "tool"} /\ ~ToolOver
        /\ Append1(Ev("ExecutionStarted"), Ckpt("tool_request", 0, exec.next))
        /\ Go("request") /\ Appended
     \/ exec.ck.phase = "tool_request" /\ Go("request") /\ Local
     \/ exec.ck.phase = "tool" /\ Go("policy") /\ Local

\* The persisted checkpoint says attempt 1 whatever checkpoint the loop holds.
RequestTool ==
  /\ At("request")
  /\ Append1(Ev("ToolCallRequested"), Ckpt("tool", 1, exec.next))
  /\ exec' = [exec EXCEPT !.pc = "policy", !.tools = @ + 1]
  /\ approved' = FALSE /\ approvalUse' = None
  /\ UNCHANGED <<setup, slots, calls, doubtful, rethrown, sent, faults>>

ToolAttempt == IF exec.ck.attempt = 0 THEN 1 ELSE exec.ck.attempt

Policy ==
  /\ At("policy")
  /\ IF exec.next = "gated" /\ ~approved
     THEN /\ Append1(EvId("ApprovalRequested", CHOOSE i \in Ids : TRUE), None)
          /\ Leave /\ Appended
     ELSE /\ exec.next = "gated" => approvalUse # "expired"
          /\ exec' = [exec EXCEPT !.pc = "enter", !.key = <<"tool", step, ToolAttempt>>]
          /\ approvalUse' = IF exec.next = "gated" THEN "claimed" ELSE approvalUse
          /\ UNCHANGED <<setup, store, doubtful, approved, rethrown, sent, faults>>

\* #claimReadApproval finds the approval expired before its first claim and throws an error
\* that is not terminal: the execution ends and the run stays as it is.  A claim that was
\* made is found again whatever the time.
ApprovalExpired ==
  /\ At("policy") /\ exec.next = "gated" /\ approved /\ approvalUse # "claimed"
  /\ approvalUse' = "expired" /\ Leave
  /\ UNCHANGED <<setup, store, doubtful, approved, rethrown, sent, faults>>

PolicyDenies == At("policy") /\ RunFailed

AfterTool ==
  /\ At("after") /\ exec.key[1] = "tool"
  /\ \/ /\ exec.outcome = "ok"
        /\ Append1(Ev("ToolCallCompleted"), Ckpt("turn", 0, None))
        /\ exec' = [exec EXCEPT !.pc = "top", !.ck = NoCkpt, !.next = None]
        /\ Appended
     \/ exec.outcome # "ok" /\ Go("retry") /\ Local

\* ----------------------------------------------------------------- #finalize

Verification(verified) == [Ckpt("verification", 0, "final") EXCEPT !.verified = verified]

\* The verifiers run in the order of the work order: what is still open determines the next.
NextVerifier(open) == CHOOSE v \in open : TRUE

Finalize ==
  /\ At("finalize")
  /\ \/ /\ exec.ck.phase = "final"
        /\ Append1(Ev("ArtifactProduced"), Verification({}))
        /\ exec' = [exec EXCEPT !.ck = Verification({})]
        /\ Appended
     \/ /\ exec.ck.phase = "verification" /\ run.status = "running"
        /\ Append1(Ev("VerificationStarted"), Verification({}))
        /\ UNCHANGED exec /\ Appended
     \/ /\ exec.ck.phase = "verification" /\ run.status = "verifying"
        /\ LET open == run.required \ exec.ck.verified
           IN IF open = {}
              THEN exec' = [exec EXCEPT !.pc = "enter", !.key = <<"evidence">>]
              ELSE exec' = [exec EXCEPT !.pc = "enter",
                                        !.key = <<"verifier", NextVerifier(open)>>]
        /\ Local

AfterVerifier ==
  /\ At("after") /\ exec.key[1] = "verifier"
  /\ LET verified == exec.ck.verified \cup {exec.key[2]}
     IN /\ Append1(EvVerified(exec.key[2], exec.outcome), Verification(verified))
        /\ exec' = [exec EXCEPT !.pc = IF exec.outcome = "pass" THEN "finalize" ELSE "fail",
                                !.ck = Verification(verified)]
  /\ Appended

\* A verifier failed, or the host registered none under a required id.
VerificationFailed ==
  /\ \/ At("fail")
     \/ /\ At("finalize") /\ exec.ck.phase = "verification" /\ run.status = "verifying"
        /\ run.required \ exec.ck.verified # {}
  /\ RunFailed

AfterEvidence ==
  /\ At("after") /\ exec.key[1] = "evidence"
  /\ IF Satisfied(run)
     THEN Append1(Ev("RunCompleted"), None) /\ Leave /\ Appended
     ELSE RunFailed

\* ------------------------------------------------- commands, faults, maintenance

\* start: the run is accepted with the verifiers its work order requires.
Start ==
  /\ run.status = "created"
  /\ run' = Reduce(run, [Ev("RunAccepted") EXCEPT !.required = Verifiers])
  /\ UNCHANGED <<setup, count, snapshot, suffix, slots, calls, exec, doubtful, approved,
                 approvalUse, rethrown, sent, faults>>

\* submitInput and decide append without the lease of an execution.
SubmitInput ==
  /\ run.status = "waiting_for_input" /\ Append1(Ev("InputSubmitted"), None)
  /\ UNCHANGED exec /\ Appended

Approve ==
  /\ run.status = "waiting_for_approval"
  /\ Append1([Ev("ApprovalRecorded") EXCEPT !.target = "running"], None)
  /\ approved' = TRUE
  /\ UNCHANGED <<setup, slots, calls, exec, doubtful, approvalUse, rethrown, sent, faults>>

Cancel ==
  /\ run.status \notin TerminalStatuses
  /\ Append1(Ev("RunCancelled"), None)
  /\ UNCHANGED exec /\ Appended

\* The execution finds its run terminal: its next append conflicts, or its signal is aborted.
Notice == exec # None /\ run.status \in TerminalStatuses /\ Leave /\ Local

\* The process dies: its locals and #uncertainLocalModelCalls are gone.
Crash ==
  /\ exec # None /\ faults < MaxFaults
  /\ faults' = faults + 1 /\ Leave /\ doubtful' = {}
  /\ UNCHANGED <<setup, store, approved, approvalUse, rethrown, sent>>

\* A store error or a lost lease ends the execution, not the process.
Throw ==
  /\ exec # None /\ faults < MaxFaults
  /\ faults' = faults + 1 /\ Leave
  /\ UNCHANGED <<setup, store, doubtful, approved, approvalUse, rethrown, sent>>

\* reconcileExpired: what becomes of a model call whose reservation ran out.
Reconciled(s) == CASE s = "accepted" -> "expired" [] s = "dispatched" -> "uncertain" [] OTHER -> s

\* Host maintenance, at any time.
Reconcile ==
  /\ \/ /\ \E c \in DOMAIN calls :
            calls[c] # Reconciled(calls[c]) /\ calls' = [calls EXCEPT ![c] = Reconciled(@)]
        /\ UNCHANGED slots
     \/ /\ \E k \in BoundaryKeys :
            slots[k] = "reserved" /\ slots' = [slots EXCEPT ![k] = "closed_uncertain"]
        /\ UNCHANGED calls
  /\ UNCHANGED <<setup, run, count, snapshot, suffix, exec, doubtful, approved, approvalUse,
                 rethrown, sent, faults>>

\* ------------------------------------------------------------- specification

Advance ==
  \/ Backoff \/ RetryResumed \/ TurnExhausted \/ Turn \/ FinalOrVerification
  \/ ModelExhausted \/ ModelStep \/ Enter
  \/ LocalModelStart \/ ProductionStart \/ Dispatch \/ SendModel \/ ModelAnswers
  \/ RecordAnswer \/ RecordDoubt \/ OtherCall \/ OtherAnswers \/ Settle
  \/ AfterModel \/ AfterBackoff \/ AfterTool \/ AfterVerifier \/ AfterEvidence
  \/ Retry \/ NoRetry \/ Rethrow \/ ApprovalExpired
  \/ EmitInput \/ EmitFinal \/ ToolExhausted \/ EmitTool \/ RequestTool \/ Policy
  \/ Finalize \/ VerificationFailed \/ Notice

Next ==
  \/ Start \/ Execute \/ Advance
  \/ Overdue \/ ActiveTimeExhausted \/ PolicyDenies
  \/ SubmitInput \/ Approve \/ Cancel
  \/ Crash \/ Throw \/ Reconcile

\* The worker calls execute again while the run is runnable (module WorkerQueue), and a
\* running execution takes its next step; the two are never enabled together.
Spec == Init /\ [][Next]_vars /\ WF_vars(Execute \/ Advance)

\* ---------------------------------------------------------------- properties

\* Type invariant of the loop's state.
TypeOK ==
  /\ setup \in Setups /\ run \in Projections
  /\ \A k \in DOMAIN count : count[k] \in Nat
  /\ snapshot # None => snapshot.phase \in CheckpointPhases
  /\ \A k \in BoundaryKeys : slots[k] \in ActiveStates \cup {NoReservation}
  /\ \A c \in Steps \X Attempts : calls[c] \in ModelStates \cup {NoReservation}
  /\ exec # None =>
       /\ exec.ck.phase \in CheckpointPhases \cup {None}
       /\ exec.key \in BoundaryKeys \cup {None}
  /\ sent \in [BoundaryKeys -> 0..2] /\ faults \in 0..MaxFaults

\* The run never has more turns, model calls sent or tool calls than its work order
\* allows, although every execution recounts them and retries and resumptions skip some
\* checks.  (The stream may hold one ModelCallStarted more: a call interrupted between
\* its reservation and its dispatch announces itself again.)
BudgetsHold ==
  /\ count.turns <= MaxTurns
  /\ Cardinality({k \in BoundaryKeys : k[1] = "model" /\ sent[k] > 0}) <= MaxModelCalls
  /\ count.tools <= MaxToolCalls

\* Under a boundary key, the outside is called once however often the execution is
\* interrupted: active-execution reservations do this for every boundary, model-call
\* reservations for model calls.
SentOnce ==
  \A k \in BoundaryKeys :
    (setup.reserve \/ (setup.production /\ k[1] = "model")) => sent[k] <= 1

\* A model call that reached its provider stays charged: its reservation never ends
\* expired, which would free what it reserved.
ChargedWhenSent ==
  \A c \in Steps \X Attempts :
    setup.production /\ sent[<<"model", c[1], c[2]>>] > 0
      => calls[c] \in {"dispatched", "settled", "uncertain"}

\* Between executions, a runnable run has a checkpoint the next one accepts, and the
\* checkpoint's phase is one the run's status can continue from.
Resumable ==
  setup.context /\ exec = None /\ run.status \in Runnable \ {"accepted"} =>
    /\ snapshot # None /\ SafeSuffix
    /\ run.status = "planning" =>
         snapshot.phase \in {"model", "model_inflight", "emission", "input", "scheduled_backoff"}
    /\ run.status = "running" =>
         snapshot.phase \in {"tool_request", "tool", "turn", "scheduled_backoff", "final",
                             "verification"}
    /\ run.status = "verifying" => snapshot.phase = "verification"

\* With local model calls, no model, verifier or evidence call starts while the
\* reservation of an earlier, interrupted one is still open: #withActiveExecution closes
\* it first.  (A production call's may stay open once its answer is recorded, a tool's
\* when the attempt was renumbered, a backoff's when its delay has passed.)
OneCallOpen ==
  ~setup.production =>
    \A j, k \in {b \in BoundaryKeys : b[1] \in {"model", "verifier", "evidence"}} :
      slots[j] = "reserved" /\ slots[k] = "reserved" => j = k

\* Where no later execution gets the run on: a verifier or the evidence under a taken
\* reservation, a model call whose reservation is bound to an earlier projection, or an
\* approval that expired before it was claimed.
Stranded ==
  /\ exec = None /\ run.status \in Runnable
  /\ \/ /\ setup.reserve /\ run.status = "verifying"
        /\ \E k \in BoundaryKeys : k[1] \in {"verifier", "evidence"} /\ slots[k] # NoReservation
     \/ /\ setup.production /\ ~setup.reserve /\ snapshot # None
        /\ snapshot.phase \in {"model", "model_inflight"}
        /\ calls[<<count.turns, snapshot.attempt>>] # NoReservation
     \/ run.status = "running" /\ approvalUse = "expired"

\* Without active-execution reservations a read tool is called again by every execution, so
\* one that always throws a KafError that is not terminal ends every execution.
Rethrown ==
  /\ exec = None /\ run.status = "running" /\ rethrown
  /\ ~setup.reserve /\ snapshot # None /\ snapshot.phase = "tool"

\* A run that may be executed ends or parks, and where it does neither it is one of four cases:
\* the lost result of a verifier or of the evidence, a model reservation bound to an earlier
\* projection, an approval that expired before its claim (Stranded), or a read tool without
\* reservations that throws a non-terminal KafError each time (Rethrown).  No other sequence
\* of interruptions, retries and errors makes the executions spin (runtime.ts execute,
\* #withActiveExecution, #claimReadApproval, #terminalRunError).
LoopSettles ==
  (run.status \in Runnable) ~> (run.status \notin Runnable \/ Stranded \/ Rethrown)

\* What an interruption leaves behind, wherever it hits: no call is made twice, every call
\* that was sent stays charged, the reservations of interrupted calls are closed before the
\* next call, and the run has a checkpoint the next execution accepts.
InterruptionSafe == TypeOK /\ SentOnce /\ ChargedWhenSent /\ OneCallOpen /\ Resumable
===========================================================================
