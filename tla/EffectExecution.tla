--------------------------- MODULE EffectExecution --------------------------
(***************************************************************************)
(* One write effect of an agent run, from the committed ToolCallRequested  *)
(* to ToolCallCompleted, a parked run or a terminal one: AgentRuntime's    *)
(* execute, #executeWriteEffect, #parkEffectForReconciliation,             *)
(* #recoverInterruptedEffect, #loadContextCheckpoint, #append, the catch   *)
(* and finally of execute, cancel and reconcileEffect (runtime.ts), over   *)
(* the effect ledger (effect-ledger.ts) and the run reducer.               *)
(*                                                                         *)
(* Workers are the processes that call execute for the run.  Every await   *)
(* of the code that lets another process in is a step boundary: a worker   *)
(* reads the projection BEFORE it acquires the lease, renews the lease and *)
(* then commits in a separate transaction, and calls the external system   *)
(* with nothing locked.  A worker may crash at any of them, its lease may  *)
(* expire under it, a client may cancel and an operator may reconcile.     *)
(*                                                                         *)
(* The lease appears through its holder only; module RunLease models the   *)
(* lease store with its clock, fencing tokens and expiry.                  *)
(***************************************************************************)
EXTENDS RunReducer, Sequences, FiniteSets

CONSTANTS
  Workers,            \* processes that execute the run
  Registered,         \* the effect strategies a tool may be registered with
  Effect,             \* the effect id of the call (deterministic effectKey)
  FencedTransitions,  \* TRUE: transactTransition checks the fence (PostgreSQL)
  HeartbeatKeeps,     \* TRUE: a live holder never loses its lease
  MaxFaults           \* bound: crashes, aborts, lost answers, live expiries, lost results

ASSUME EffectAssumption == Effect \in Ids
ASSUME SwitchAssumption == FencedTransitions \in BOOLEAN /\ HeartbeatKeeps \in BOOLEAN
ASSUME MaxFaultsAssumption == MaxFaults \in Nat

VARIABLES
  strategy,     \* the registered strategy of the tool, fixed
  checkpoints,  \* whether context checkpoints are configured, fixed
  run,          \* the run's projection (stream and row agree: module RunStream)
  latest,       \* type of the last event of the stream
  attempts,     \* EffectDispatched events in the stream: highest attempt number
  record,       \* state of the effect record in the ledger, "absent" before it exists
  checkpoint,   \* sequence of the latest context snapshot (phase "tool")
  result,       \* the protected effect result is stored
  holder,       \* worker whose session holds the active lease, or None
  pc, view, rec, seen, tx, attempt, request, aborted,  \* a worker's execute call
  sends,        \* external: attempt number of every dispatch that left a worker
  wire,         \* external: dispatches (indices of sends) in flight
  applied,      \* external: dispatches the receiver has applied
  faults        \* how many of them so far

runVars    == <<run, latest, attempts, record, checkpoint, result>>
workerVars == <<pc, view, rec, seen, tx, attempt, request, aborted>>
extVars    == <<sends, wire, applied>>
config     == <<strategy, checkpoints>>
vars == <<config, runVars, holder, workerVars, extVars, faults>>

Strategies == {"none", "native", "reconcilable"}

ASSUME RegisteredAssumption == Registered \subseteq Strategies

EffectStates == {"absent", "prepared", "dispatched", "unknown", "needs_reconciliation",
                 "acknowledged", "abandoned"}

ASSUME NoneAssumption == None \notin Workers \cup EffectStates

Labels == {"idle", "started", "leased", "recover", "checkpoint", "boundary", "read", "decide",
           "lookup", "append", "commit", "send", "await", "acknowledge", "park", "complete",
           "throw", "throwTerminal", "release"}

\* EFFECT_TRANSITIONS, for strategies other than transactional.
EFFECT_TRANSITIONS(state) ==
  CASE state = "absent"               -> {"prepared"}
    [] state = "prepared"             -> {"dispatched"}
    [] state = "dispatched"           -> {"acknowledged", "unknown"}
    [] state = "unknown"              -> {"needs_reconciliation"}
    [] state = "needs_reconciliation" -> {"acknowledged", "abandoned"}
    [] OTHER                          -> {}

\* putEffectRecord accepts an identical record or an allowed transition.
putEffectRecord(state) == state = record \/ state \in EFFECT_TRANSITIONS(record)

(***************************************************************************)
(* A pending #append: the event, the ledger state its commit callback      *)
(* writes (None: none), whether it carries a checkpoint, and where the     *)
(* worker continues after a commit and after an error.                     *)
(***************************************************************************)
Tx(event, state, snapshot, then) ==
  [event |-> event, state |-> state, snapshot |-> snapshot, then |-> then, failed |-> "throw"]

\* An append made by the catch clause: whatever happens, the finally is next.
CatchTx(type) == [Tx(Ev(type), None, FALSE, "release") EXCEPT !.failed = "release"]

NoTx == CatchTx("RunFailed")

\* The stream before the effect: RunAccepted, PlanningStarted, two model events,
\* ExecutionStarted and ToolCallRequested.  Either the worker that wrote the last
\* one goes on with the call, or the approval round trip followed and the call
\* waits for an execute.
Init ==
  /\ strategy \in Registered
  /\ checkpoints \in BOOLEAN
  /\ holder \in Workers \cup {None}
  /\ latest = IF holder = None THEN "ApprovalRecorded" ELSE "ToolCallRequested"
  /\ run = [createRunProjection("agent") EXCEPT
              !.status = "running", !.lastSequence = IF holder = None THEN 8 ELSE 6]
  /\ checkpoint = 6
  /\ attempts = 0
  /\ record = "absent"
  /\ result = FALSE
  /\ pc = [w \in Workers |-> IF w = holder THEN "boundary" ELSE "idle"]
  /\ view = [w \in Workers |-> IF w = holder THEN run ELSE createRunProjection("agent")]
  /\ rec = [w \in Workers |-> "absent"]
  /\ seen = [w \in Workers |-> "RunAccepted"]
  /\ tx = [w \in Workers |-> NoTx]
  /\ attempt = [w \in Workers |-> 0]
  /\ request = [w \in Workers |-> 0]
  /\ aborted = [w \in Workers |-> FALSE]
  /\ sends = <<>> /\ wire = {} /\ applied = {}
  /\ faults = 0

\* The execute call is over, and its local variables with it.
EndCall(w) ==
  /\ pc' = [pc EXCEPT ![w] = "idle"]
  /\ view' = [view EXCEPT ![w] = createRunProjection("agent")]
  /\ rec' = [rec EXCEPT ![w] = "absent"]
  /\ seen' = [seen EXCEPT ![w] = "RunAccepted"]
  /\ tx' = [tx EXCEPT ![w] = NoTx]
  /\ attempt' = [attempt EXCEPT ![w] = 0]
  /\ request' = [request EXCEPT ![w] = 0]
  /\ aborted' = [aborted EXCEPT ![w] = FALSE]

Goto(w, label) == pc' = [pc EXCEPT ![w] = label]

\* The worker has an event to append: next, #append renews the lease.
Appending(w, pending) == Goto(w, "append") /\ tx' = [tx EXCEPT ![w] = pending]

Suspend(id) == Tx(EvSuspended("running", id), None, FALSE, "release")

\* mutant: native is taken as a proof that a repeated dispatch is safe
MutRedispatches(s) == s \in {"reconcilable", "native"}

\* A dispatched effect may be looked up and dispatched again.
Redispatches(s) == s = "reconcilable"

-----------------------------------------------------------------------------
(* execute: entry and recovery *)

\* getRun, before the lease is taken; a terminal run returns at once.
Execute(w) ==
  /\ pc[w] = "idle"
  /\ run.status \notin TerminalStatuses
  /\ latest # "ToolCallCompleted"  \* the next turn is outside this module
  /\ view' = [view EXCEPT ![w] = run]
  /\ Goto(w, "started")
  /\ UNCHANGED <<config, runVars, holder, rec, seen, tx, attempt, request, aborted, extVars, faults>>

\* mutant: the lease is taken over while its holder is alive
MutLeaseFree == TRUE

\* No active lease on the run.
LeaseFree == holder = None

\* leaseStore.acquire: undefined ends the call with a conflict.
AcquireLease(w) ==
  /\ pc[w] = "started"
  /\ IF LeaseFree
     THEN /\ holder' = w /\ Goto(w, "leased")
          /\ UNCHANGED <<view, rec, seen, tx, attempt, request, aborted>>
     ELSE EndCall(w) /\ UNCHANGED holder
  /\ UNCHANGED <<config, runVars, extVars, faults>>

\* #readEvents after the lease; a run the stale view calls suspended is parked.
ReadHistory(w) ==
  /\ pc[w] = "leased"
  /\ seen' = [seen EXCEPT ![w] = latest]
  /\ Goto(w, IF view[w].status = "suspended" THEN "release" ELSE "recover")
  /\ UNCHANGED <<config, runVars, holder, view, rec, tx, attempt, request, aborted, extVars, faults>>

\* #recoverInterruptedEffect.
recoverInterruptedEffect(w) ==
  /\ pc[w] = "recover"
  /\ rec' = [rec EXCEPT ![w] = record]
  /\ CASE seen[w] = "EffectAcknowledged" ->
            IF record = "acknowledged" /\ result
            THEN Goto(w, "checkpoint") /\ UNCHANGED tx
            ELSE Appending(w, Suspend(None))
       [] seen[w] \in {"EffectDispatched", "EffectUncertain"} ->
            /\ IF Redispatches(strategy) /\ record = "dispatched"
               THEN Goto(w, "checkpoint") ELSE Goto(w, "park")
            /\ UNCHANGED tx
       [] OTHER -> Goto(w, "checkpoint") /\ UNCHANGED tx
  /\ seen' = [seen EXCEPT ![w] = "RunAccepted"]  \* not looked at again
  /\ UNCHANGED <<config, runVars, holder, view, attempt, request, aborted, extVars, faults>>

\* #assertContextCheckpointSuffix: the snapshot is at the head of the stream, or
\* exactly the approval round trip follows it.
SafeSuffix(w) ==
  \/ checkpoint = view[w].lastSequence
  \/ latest = "ApprovalRecorded" /\ checkpoint + 2 = view[w].lastSequence

\* #loadContextCheckpoint: without checkpoints the run is suspended; a snapshot
\* that does not fit the projection throws a storage conflict.
loadContextCheckpoint(w) ==
  /\ pc[w] = "checkpoint"
  /\ IF ~checkpoints
     THEN Appending(w, Suspend(None))
     ELSE Goto(w, IF SafeSuffix(w) THEN "boundary" ELSE "throw") /\ UNCHANGED tx
  /\ UNCHANGED <<config, runVars, holder, view, rec, seen, attempt, request, aborted, extVars, faults>>

\* The checks before the call: a policy denial appends RunFailed (#fail), an
\* abort or a deadline, budget, preview or authorization error throws.
AssertBoundary(w) ==
  /\ pc[w] = "boundary"
  /\ \/ Appending(w, Tx(Ev("RunFailed"), None, FALSE, "release"))
     \/ /\ \E to \in {"throw", "throwTerminal", "read"} : Goto(w, to) /\ (aborted[w] => to = "throw")
        /\ UNCHANGED tx
  /\ UNCHANGED <<config, runVars, holder, view, rec, seen, attempt, request, aborted, extVars, faults>>

-----------------------------------------------------------------------------
(* #executeWriteEffect *)

\* store.getByEffectKey.
ReadRecord(w) ==
  /\ pc[w] = "read"
  /\ rec' = [rec EXCEPT ![w] = record]
  /\ Goto(w, "decide")
  /\ UNCHANGED <<config, runVars, holder, view, seen, tx, attempt, request, aborted, extVars, faults>>

Prepare(w) ==
  /\ rec[w] = "absent"
  /\ Appending(w, Tx(EvId("EffectPrepared", Effect), "prepared", FALSE, "decide"))
  /\ UNCHANGED attempt

\* The dispatch attempt is committed, with its checkpoint, before the call.
Dispatch(w) ==
  /\ rec[w] = "prepared"
  /\ Appending(w, Tx(Ev("EffectDispatched"), "dispatched", TRUE, "send"))
  /\ attempt' = [attempt EXCEPT ![w] = 1]

\* What the ledger record of the call makes the worker do.
Decide(w) ==
  /\ pc[w] = "decide"
  /\ \/ Prepare(w)
     \/ Dispatch(w)
     \/ /\ rec[w] = "dispatched"
        /\ Goto(w, IF Redispatches(strategy) THEN "lookup" ELSE "park")
        /\ UNCHANGED <<tx, attempt>>
     \/ /\ rec[w] \in {"unknown", "needs_reconciliation"}
        /\ Goto(w, "park") /\ UNCHANGED <<tx, attempt>>
     \/ /\ rec[w] = "abandoned"
        /\ Goto(w, "throwTerminal") /\ UNCHANGED <<tx, attempt>>
     \/ /\ rec[w] = "acknowledged"
        /\ IF result THEN Goto(w, "complete") /\ UNCHANGED tx ELSE Appending(w, Suspend(None))
        /\ UNCHANGED attempt
  /\ UNCHANGED <<config, runVars, holder, view, rec, seen, request, aborted, extVars, faults>>

MutNextAttempt(n) == n  \* mutant: a retry reuses the attempt number

\* The attempt after the highest EffectDispatched of the stream.
NextAttempt(n) == n + 1

\* strategy.lookup, under the heartbeat: a lost lease or a lookup error throws.
\* External contract: "applied" and "not_applied" are the truth (nothing of the
\* operation is in flight when the lookup says not_applied), "unknown" is free.
Lookup(w) ==
  /\ pc[w] = "lookup"
  /\ \/ Goto(w, "throw") /\ UNCHANGED <<tx, attempt>>
     \/ /\ holder = w
        /\ \/ Goto(w, "park") /\ UNCHANGED <<tx, attempt>>
           \/ applied # {} /\ Goto(w, "acknowledge") /\ UNCHANGED <<tx, attempt>>
           \/ /\ applied = {} /\ wire = {}
              /\ attempt' = [attempt EXCEPT ![w] = NextAttempt(attempts)]
              /\ Appending(w, Tx(Ev("EffectDispatched"), None, TRUE, "send"))
  /\ UNCHANGED <<config, runVars, holder, view, rec, seen, request, aborted, extVars, faults>>

\* strategy.dispatch leaves the process.
Send(w) ==
  /\ pc[w] = "send"
  /\ sends' = Append(sends, attempt[w])
  /\ wire' = wire \cup {Len(sends')}
  /\ request' = [request EXCEPT ![w] = Len(sends')]
  /\ attempt' = [attempt EXCEPT ![w] = 0]  \* not looked at again
  /\ Goto(w, "await")
  /\ UNCHANGED <<config, runVars, holder, view, rec, seen, tx, aborted, applied, faults>>

\* The dispatch returns a valid execution and the final renewal succeeds.
DispatchReturns(w) ==
  /\ pc[w] = "await"
  /\ request[w] \in applied /\ holder = w
  /\ Goto(w, "acknowledge")
  /\ UNCHANGED <<config, runVars, holder, view, rec, seen, tx, attempt, request, aborted, extVars,
                 faults>>

\* mutant: a failed dispatch is taken for a successful one
MutDispatchFails(w) ==
  /\ pc[w] \in {"send", "await"}
  /\ Goto(w, "acknowledge")
  /\ UNCHANGED <<config, runVars, holder, view, rec, seen, tx, attempt, request, aborted, extVars,
                 faults>>

\* The reservation, the dispatch, its result's validation or a renewal fails.
\* Nothing is known of the effect: parked, unless the caller aborted.
DispatchFails(w) ==
  /\ pc[w] \in {"send", "await"}
  /\ Goto(w, IF aborted[w] THEN "throw" ELSE "park")
  /\ UNCHANGED <<config, runVars, holder, view, rec, seen, tx, attempt, request, aborted, extVars,
                 faults>>

\* #acknowledgeEffect: protecting the result may throw (byte limit), else the
\* acknowledgement, the record and the result are one transaction.
acknowledgeEffect(w) ==
  /\ pc[w] = "acknowledge"
  /\ \/ Goto(w, "throwTerminal") /\ UNCHANGED tx
     \/ Appending(w, Tx(Ev("EffectAcknowledged"), "acknowledged", TRUE, "complete"))
  /\ UNCHANGED <<config, runVars, holder, view, rec, seen, attempt, request, aborted, extVars, faults>>

\* The result's context limit may throw, else ToolCallCompleted.
CompleteToolCall(w) ==
  /\ pc[w] = "complete"
  /\ \/ Goto(w, "throwTerminal") /\ UNCHANGED tx
     \/ Appending(w, Tx(Ev("ToolCallCompleted"), None, TRUE, "release"))
  /\ UNCHANGED <<config, runVars, holder, view, rec, seen, attempt, request, aborted, extVars, faults>>

\* #parkEffectForReconciliation: up to three transactions, one per pass.
parkEffectForReconciliation(w) ==
  /\ pc[w] = "park"
  /\ CASE rec[w] = "dispatched" ->
            Appending(w, Tx(Ev("EffectUncertain"), "unknown", FALSE, "park"))
       [] rec[w] # "dispatched" /\ view[w].status = "running" ->
            Appending(w, Tx(EvSuspended("running", Effect), None, FALSE, "park"))
       [] rec[w] = "unknown" /\ view[w].status # "running" ->
            Appending(w, Tx(Ev("EffectNeedsReconciliation"), "needs_reconciliation", FALSE, "park"))
       [] OTHER -> Goto(w, "release") /\ UNCHANGED tx
  /\ UNCHANGED <<config, runVars, holder, view, rec, seen, attempt, request, aborted, extVars, faults>>

-----------------------------------------------------------------------------
(* #append, the catch and the finally of execute *)

\* leaseStore.renew.
RenewLease(w) ==
  /\ pc[w] = "append"
  /\ Goto(w, IF holder = w THEN "commit" ELSE tx[w].failed)
  /\ UNCHANGED <<config, runVars, holder, view, rec, seen, tx, attempt, request, aborted, extVars,
                 faults>>

\* mutant: the event is stored wherever the stream has got to
MutCommits(w) ==
  /\ FencedTransitions => holder = w
  /\ Reducible(view[w], tx[w].event, view[w].lastSequence + 1)

\* What transactTransition asks for: the fence (PostgreSQL only), an event the
\* worker's own projection accepts at the head of the stream, and a ledger
\* write the ledger accepts.
Commits(w) ==
  /\ FencedTransitions => holder = w
  /\ Reducible(view[w], tx[w].event, view[w].lastSequence + 1)
  /\ view[w].lastSequence = run.lastSequence
  /\ tx[w].state # None => putEffectRecord(tx[w].state)

\* The commit.  A refused transaction leaves nothing; after a commit the answer
\* may be lost, and the worker sees an error.
transactTransition(w) ==
  /\ pc[w] = "commit"
  /\ IF Commits(w)
     THEN /\ run' = Reduce(view[w], tx[w].event)
          /\ view' = [view EXCEPT ![w] = run']
          /\ latest' = tx[w].event.type
          /\ attempts' = IF latest' = "EffectDispatched" THEN attempt[w] ELSE attempts
          /\ record' = IF tx[w].state = None THEN record ELSE tx[w].state
          /\ rec' = [rec EXCEPT ![w] = IF tx[w].state = None THEN @ ELSE tx[w].state]
          /\ checkpoint' = IF tx[w].snapshot THEN run'.lastSequence ELSE checkpoint
          /\ result' = (result \/ tx[w].state = "acknowledged")
          /\ \/ Goto(w, tx[w].then) /\ UNCHANGED faults
             \/ faults < MaxFaults /\ faults' = faults + 1 /\ Goto(w, tx[w].failed)
     ELSE /\ Goto(w, tx[w].failed)
          /\ UNCHANGED <<runVars, view, rec, faults>>
  /\ tx' = [tx EXCEPT ![w] = NoTx]
  /\ UNCHANGED <<config, holder, seen, attempt, request, aborted, extVars>>

\* The catch clause, on the latest projection: an aborted call cancels the run,
\* a terminal error fails it, anything else is rethrown.
Catch(w) ==
  /\ pc[w] \in {"throw", "throwTerminal"}
  /\ IF run.status \in TerminalStatuses \/ (pc[w] = "throw" /\ ~aborted[w])
     THEN Goto(w, "release") /\ UNCHANGED <<tx, view>>
     ELSE /\ view' = [view EXCEPT ![w] = run]
          /\ Appending(w, CatchTx(IF aborted[w] THEN "RunCancelled" ELSE "RunFailed"))
  /\ UNCHANGED <<config, runVars, holder, rec, seen, attempt, request, aborted, extVars, faults>>

\* The finally clause: leaseStore.release, which throws if the lease is lost.
ReleaseLease(w) ==
  /\ pc[w] = "release"
  /\ holder' = IF holder = w THEN None ELSE holder
  /\ EndCall(w)
  /\ UNCHANGED <<config, runVars, extVars, faults>>

-----------------------------------------------------------------------------
(* The environment *)

Running(w) == pc[w] \notin {"idle", "started"}

\* The host aborts a running execute call.
Abort(w) ==
  /\ Running(w) /\ ~aborted[w] /\ faults < MaxFaults
  /\ aborted' = [aborted EXCEPT ![w] = TRUE]
  /\ faults' = faults + 1
  /\ UNCHANGED <<config, runVars, holder, pc, view, rec, seen, tx, attempt, request, extVars>>

\* The process dies: its call is gone, its lease and its requests are not.
Crash(w) ==
  /\ pc[w] # "idle" /\ faults < MaxFaults
  /\ faults' = faults + 1
  /\ EndCall(w)
  /\ UNCHANGED <<config, runVars, holder, extVars>>

\* The lease of a dead holder runs out.
DeadLeaseExpires ==
  /\ holder # None /\ ~Running(holder)
  /\ holder' = None
  /\ UNCHANGED <<config, runVars, workerVars, extVars, faults>>

\* The lease runs out under a holder that is still running.
LiveLeaseExpires ==
  /\ ~HeartbeatKeeps /\ faults < MaxFaults
  /\ holder # None /\ Running(holder)
  /\ holder' = None /\ faults' = faults + 1
  /\ UNCHANGED <<config, runVars, workerVars, extVars>>

\* cancel: the command transaction needs no lease; a call running in the process
\* that served the command is aborted.
Cancel(process) ==
  /\ run.status \notin TerminalStatuses /\ latest # "ToolCallCompleted"
  /\ run' = Reduce(run, Ev("RunCancelled"))
  /\ latest' = "RunCancelled"
  /\ aborted' = [w \in Workers |-> aborted[w] \/ (w = process /\ Running(w))]
  /\ UNCHANGED <<config, attempts, record, checkpoint, result, holder, pc, view, rec, seen, tx, attempt,
                 request, extVars, faults>>

\* reconcileEffect's conditions, checked again inside its transaction.
Reconcilable ==
  /\ run.status = "suspended" /\ run.activeEffectId = Effect
  /\ record = "needs_reconciliation"

ReconcileWith(event, state) ==
  /\ Reconcilable
  /\ run' = Reduce(Reduce(run, Ev("EffectReconciliationRecorded")), event)
  /\ latest' = event.type
  /\ record' = state
  /\ UNCHANGED <<config, attempts, checkpoint, holder, workerVars, extVars, faults>>

\* recovered_acknowledgement: the registered lookup proves the application.
ReconcileRecovered ==
  /\ strategy = "reconcilable" /\ applied # {}
  /\ ReconcileWith(Ev("EffectAcknowledged"), "acknowledged")
  /\ result' = TRUE

\* abandon_uncertain: the operator gives the effect up and the run fails.
ReconcileAbandoned ==
  /\ ReconcileWith(Ev("RunFailed"), "abandoned")
  /\ UNCHANGED result

\* The stored result is gone: no code of the repository removes it, but
\* getAcknowledgedResult may answer undefined and execute is prepared for it.
LoseResult ==
  /\ result /\ result' = FALSE
  /\ faults < MaxFaults /\ faults' = faults + 1
  /\ UNCHANGED <<config, run, latest, attempts, record, checkpoint, holder, workerVars, extVars>>

\* The receiver applies a request, or the request is lost.
Deliver(n) ==
  /\ n \in wire
  /\ wire' = wire \ {n}
  /\ applied' = applied \cup {n}
  /\ UNCHANGED <<config, runVars, holder, workerVars, sends, faults>>

Lose(n) ==
  /\ n \in wire
  /\ wire' = wire \ {n}
  /\ UNCHANGED <<config, runVars, holder, workerVars, sends, applied, faults>>

WorkerStep(w) ==
  \/ Execute(w) \/ AcquireLease(w) \/ ReadHistory(w) \/ recoverInterruptedEffect(w)
  \/ loadContextCheckpoint(w) \/ AssertBoundary(w) \/ ReadRecord(w) \/ Decide(w) \/ Lookup(w)
  \/ Send(w) \/ DispatchReturns(w) \/ DispatchFails(w) \/ acknowledgeEffect(w)
  \/ CompleteToolCall(w) \/ parkEffectForReconciliation(w) \/ RenewLease(w)
  \/ transactTransition(w) \/ Catch(w) \/ ReleaseLease(w)

Next ==
  \/ \E w \in Workers : WorkerStep(w) \/ Abort(w) \/ Crash(w)
  \/ DeadLeaseExpires \/ LiveLeaseExpires
  \/ \E process \in Workers \cup {None} : Cancel(process)
  \/ ReconcileRecovered \/ ReconcileAbandoned \/ LoseResult
  \/ \E n \in wire : Deliver(n) \/ Lose(n)

Spec == Init /\ [][Next]_vars

\* A wake-up is redelivered until execute ends (a worker's next step always
\* comes: the awaited call returns, fails or times out), and the lease of a dead
\* holder runs out.
Fairness == (\A w \in Workers : WF_vars(WorkerStep(w))) /\ WF_vars(DeadLeaseExpires)

FairSpec == Spec /\ Fairness

-----------------------------------------------------------------------------
(* Properties *)

\* The events execute appends from here on.
AppendedEvents ==
  {Ev(type) : type \in {"EffectDispatched", "EffectAcknowledged", "EffectUncertain",
                       "EffectNeedsReconciliation", "ToolCallCompleted", "RunFailed",
                       "RunCancelled"}}
  \cup {EvId("EffectPrepared", Effect)}
  \cup {EvSuspended("running", id) : id \in {None, Effect}}

TxRecords ==
  [event : AppendedEvents, state : EffectStates \cup {None}, snapshot : BOOLEAN,
   then : Labels, failed : {"throw", "release"}]

TypeOK ==
  /\ strategy \in Strategies /\ checkpoints \in BOOLEAN
  /\ run \in Projections /\ latest \in EventTypes
  /\ attempts \in Nat /\ record \in EffectStates
  /\ checkpoint \in Nat /\ result \in BOOLEAN
  /\ holder \in Workers \cup {None}
  /\ pc \in [Workers -> Labels]
  /\ view \in [Workers -> Projections]
  /\ rec \in [Workers -> EffectStates]
  /\ seen \in [Workers -> EventTypes]
  /\ tx \in [Workers -> TxRecords]
  /\ attempt \in [Workers -> Nat] /\ request \in [Workers -> Nat]
  /\ aborted \in [Workers -> BOOLEAN]
  /\ sends \in Seq(Nat) /\ wire \subseteq Nat /\ applied \subseteq Nat
  /\ faults \in Nat

\* "A crash at the committed dispatch boundary cannot cause an unproved duplicate
\* external effect" (roast-remediation plan, phase 3): whatever crashes, lost
\* answers, lease losses and stale workers there are, a tool without a lookup is
\* dispatched at most once (#executeWriteEffect's prepared branch).
AtMostOneSend == strategy # "reconcilable" => Len(sends) <= 1

\* "Every actual dispatch attempt must be visible in run truth" (same plan): no
\* two dispatches carry one attempt number, and each number was committed as an
\* EffectDispatched before its dispatch left (#executeWriteEffect).
EachAttemptOnce ==
  \A i \in 1..Len(sends) :
    /\ sends[i] \in 1..attempts
    /\ \A j \in 1..Len(sends) : sends[i] = sends[j] => i = j

\* The effect is applied at most once, redispatches of a reconcilable tool
\* included, as long as live holders keep their lease (the lookup before a
\* redispatch in #executeWriteEffect).
AppliedOnce == Cardinality(applied) <= 1

\* The last event tells the ledger's state, which #recoverInterruptedEffect
\* relies on: each effect event and its record are one transaction, in every
\* order of workers, operators and failures.
LedgerMatchesRun ==
  /\ latest \in {"ToolCallRequested", "ApprovalRecorded"} => record = "absent"
  /\ latest = "EffectPrepared"   => record = "prepared"
  /\ latest = "EffectDispatched" => record = "dispatched"
  /\ latest = "EffectUncertain"  => record = "unknown"
  /\ latest \in {"EffectAcknowledged", "ToolCallCompleted"} => record = "acknowledged"

\* An acknowledgement rests on an application of the effect, never on a guess
\* (ADR-0005: "Uncertain remote outcomes move to reconciliation, not automatic
\* acknowledgement").
AcknowledgedWasApplied == record = "acknowledged" => applied # {}

\* An effect that waits for reconciliation belongs to a run reconcileEffect
\* accepts, suspended at exactly that effect, unless the run has ended.
ParkedReconcilable ==
  record = "needs_reconciliation" =>
    \/ run.status \in TerminalStatuses
    \/ run.status = "suspended" /\ run.activeEffectId = Effect

\* A run that has ended is frozen: no late worker, stale view or operator adds
\* an event, a ledger state or a checkpoint (reduceRunEvent's terminal check,
\* reached through every #append and command).
TerminalFrozen ==
  [][run.status \in TerminalStatuses => UNCHANGED <<run, latest, record, checkpoint>>]_vars

\* Every dispatch of a tool without a lookup is settled: acknowledged, marked
\* uncertain, or the run has ended ("existing native + dispatched and none +
\* dispatched records transition to uncertainty", same plan;
\* #recoverInterruptedEffect).
UnprovedDispatchSettles ==
  (record = "dispatched" /\ strategy # "reconcilable") ~>
    (record # "dispatched" \/ run.status \in TerminalStatuses)

\* README: "What happens after a crash? ... reconcile an uncertain external effect
\* through its registered strategy": an uncertain effect becomes reconcilable.
UncertainBecomesReconcilable ==
  (record = "unknown") ~> (record # "unknown" \/ run.status \in TerminalStatuses)

\* packages/runtime/README: "Interrupted boundaries without a durable
\* context/checkpoint are parked instead of being repeated": a run interrupted
\* after EffectPrepared goes on, is parked or ends.
PreparedMovesOn ==
  (record = "prepared" /\ run.status = "running") ~> (record # "prepared" \/ run.status # "running")
=============================================================================
