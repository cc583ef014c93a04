----------------------- MODULE EffectExecutionProofs ------------------------
(***************************************************************************)
(* For every set of workers, every registered strategy and any number of   *)
(* faults: the types of module EffectExecution, that a tool without a      *)
(* lookup is dispatched at most once, that ledger and run agree, what an   *)
(* acknowledged and a parked effect mean, that a terminal run is frozen,   *)
(* that no attempt is dispatched twice and, while heartbeats keep the      *)
(* lease, that nothing is applied twice.                                   *)
(***************************************************************************)
EXTENDS EffectExecution, FiniteSetTheorems, TLAPS

-----------------------------------------------------------------------------
(* The reducer on the events that execute appends *)

\* The events this module's transactions append.
WrittenEvents == AppendedEvents \cup {Ev("EffectReconciliationRecorded")}

\* What the reducer reads of them.
LEMMA AppendedTypes ==
  ASSUME NEW e \in WrittenEvents
  PROVE  /\ e.type \in EventTypes /\ e.id \in Ids \cup {None}
         /\ e.type = "RunSuspended" => e.target = "running"
         /\ nextStatusFor(e) \in Statuses \cup {None}
         /\ e.type \notin {"RunAccepted", "VerificationRecorded", "VerificationExceptionRecorded",
                           "InputRequested", "ApprovalRequested"}
  <1> DEFINE Goal == /\ e.type \in EventTypes /\ e.id \in Ids \cup {None}
                     /\ e.type = "RunSuspended" => e.target = "running"
                     /\ nextStatusFor(e) \in Statuses \cup {None}
                     /\ e.type \notin {"RunAccepted", "VerificationRecorded",
                                       "VerificationExceptionRecorded", "InputRequested",
                                       "ApprovalRequested"}
  <1> USE DEF Ev, EvId, EvSuspended, EventTypes, nextStatusFor, Statuses, TerminalStatuses
  <1>1. ASSUME NEW type \in {"EffectDispatched", "EffectAcknowledged", "EffectUncertain",
                             "EffectNeedsReconciliation", "ToolCallCompleted", "RunFailed",
                             "RunCancelled", "EffectReconciliationRecorded"}, e = Ev(type)
        PROVE  Goal
    BY <1>1
  <1>2. CASE e = EvId("EffectPrepared", Effect)
    BY <1>2, EffectAssumption
  <1>3. ASSUME NEW id \in {None, Effect}, e = EvSuspended("running", id) PROVE Goal
    BY <1>3, EffectAssumption
  <1> QED
    BY <1>1, <1>2, <1>3 DEF WrittenEvents, AppendedEvents

\* Reducing one of them keeps the type of a projection and takes one sequence number.
LEMMA ReduceType ==
  ASSUME NEW p \in Projections, NEW e \in WrittenEvents
  PROVE  Reduce(p, e) \in Projections /\ Reduce(p, e).lastSequence = p.lastSequence + 1
  <1> DEFINE a == IF nextStatusFor(e) = None THEN p.status ELSE nextStatusFor(e)
             c == IF e.type = "RunAccepted" THEN e.required ELSE p.required
             d == CASE e.type = "InputRequested" -> e.id
                    [] e.type = "InputSubmitted" -> None
                    [] OTHER -> p.waitingRequestId
             f == CASE e.type = "ApprovalRequested" -> e.id
                    [] e.type \in {"ApprovalRecorded", "ApprovalRejected"} -> None
                    [] OTHER -> p.waitingDecisionId
             g == CASE e.type = "RunSuspended" -> e.target
                    [] e.type \in {"PlanningStarted", "ExecutionStarted", "VerificationStarted"} -> None
                    [] OTHER -> p.resumeTarget
             h == CASE e.type \in {"RunSuspended", "EffectPrepared"} -> e.id
                    [] e.type \in {"EffectAcknowledged", "EffectAbandoned"} -> None
                    [] OTHER -> p.activeEffectId
             j == IF e.type = "VerificationExceptionRecorded"
                  THEN p.exceptions \cup {e.verifier} ELSE p.exceptions
             k == IF e.type = "RunFailed" THEN TRUE ELSE p.terminalError
  <1>1. a \in Statuses /\ c \in SUBSET Verifiers /\ j \in SUBSET Verifiers
        /\ Passed(p, e) \in SUBSET Verifiers
    BY AppendedTypes DEF Projections, Passed
  <1>2. d \in Ids \cup {None} /\ f \in Ids \cup {None} /\ h \in Ids \cup {None}
    BY AppendedTypes DEF Projections
  <1>3. g \in ResumeTargets \cup {None}
    BY AppendedTypes DEF Projections, ResumeTargets
  <1>4. p.lastSequence + 1 \in Nat /\ p.lastSequence \in Nat
    BY DEF Projections
  <1>5. k \in BOOLEAN /\ p.kind \in Kinds
    BY DEF Projections
  <1>6. Reduce(p, e) =
          [kind |-> p.kind, status |-> a, lastSequence |-> p.lastSequence + 1, required |-> c,
           waitingRequestId |-> d, waitingDecisionId |-> f, resumeTarget |-> g,
           activeEffectId |-> h, passed |-> Passed(p, e), exceptions |-> j,
           terminalError |-> k]
    BY DEF Reduce
  <1> HIDE DEF a, c, d, f, g, h, j, k
  <1> QED
    BY <1>1, <1>2, <1>3, <1>4, <1>5, <1>6 DEF Projections

\* What a reducible event says of the status before and after it.
LEMMA ReduceFacts ==
  ASSUME NEW p \in Projections, NEW e \in AppendedEvents, NEW n, Reducible(p, e, n)
  PROVE  /\ p.status \notin TerminalStatuses
         /\ e.type \in {"EffectPrepared", "EffectDispatched", "EffectUncertain",
                        "ToolCallCompleted"} =>
              p.status = "running" /\ Reduce(p, e).status = "running"
         /\ e.type = "EffectAcknowledged" => Reduce(p, e).status = p.status
         /\ e.type = "EffectNeedsReconciliation" =>
              /\ p.status = "suspended" /\ Reduce(p, e).status = "suspended"
              /\ Reduce(p, e).activeEffectId = p.activeEffectId
         /\ e.type = "RunSuspended" =>
              /\ p.status # "suspended" /\ Reduce(p, e).status = "suspended"
              /\ Reduce(p, e).activeEffectId = e.id
         /\ e.type \in {"RunFailed", "RunCancelled"} =>
              Reduce(p, e).status \in TerminalStatuses
  <1>1. /\ Reduce(p, e).status = IF nextStatusFor(e) = None THEN p.status ELSE nextStatusFor(e)
        /\ Reduce(p, e).activeEffectId =
             CASE e.type \in {"RunSuspended", "EffectPrepared"} -> e.id
               [] e.type \in {"EffectAcknowledged", "EffectAbandoned"} -> None
               [] OTHER -> p.activeEffectId
    BY DEF Reduce, Projections
  <1>2. p.status \notin TerminalStatuses /\ p.status \in Statuses
    BY DEF Reducible, Projections
  <1>3. CASE e.type \in {"EffectPrepared", "EffectDispatched", "EffectUncertain",
                         "ToolCallCompleted", "EffectAcknowledged", "EffectNeedsReconciliation"}
    <2>1. nextStatusFor(e) = None /\ e.type \in STATE_PRESERVING_EVENTS(p.status)
      BY <1>3 DEF nextStatusFor, Reducible
    <2> QED
      BY <1>1, <1>2, <1>3, <2>1 DEF STATE_PRESERVING_EVENTS
  <1>4. CASE e.type \in {"RunSuspended", "RunFailed", "RunCancelled"}
    <2>1. /\ nextStatusFor(e) # None /\ nextStatusFor(e) \in RUN_TRANSITIONS(p.status)
          /\ e.type = "RunSuspended" => nextStatusFor(e) = "suspended"
          /\ e.type = "RunFailed" => nextStatusFor(e) = "failed"
          /\ e.type = "RunCancelled" => nextStatusFor(e) = "cancelled"
      BY <1>4, NoneIsNoId DEF nextStatusFor, Reducible, Statuses, TerminalStatuses
    <2>2. e.type = "RunSuspended" => p.status # "suspended"
      BY <2>1 DEF RUN_TRANSITIONS
    <2> QED
      BY <1>1, <1>2, <1>4, <2>1, <2>2 DEF TerminalStatuses
  <1>5. e.type \in {"EffectPrepared", "EffectDispatched", "EffectUncertain", "ToolCallCompleted",
                    "EffectAcknowledged", "EffectNeedsReconciliation", "RunSuspended",
                    "RunFailed", "RunCancelled"}
    <2>1. ASSUME NEW type, e = Ev(type) PROVE e.type = type
      BY <2>1 DEF Ev
    <2>2. e = EvId("EffectPrepared", Effect) => e.type = "EffectPrepared"
      BY DEF EvId, Ev
    <2>3. ASSUME NEW id, e = EvSuspended("running", id) PROVE e.type = "RunSuspended"
      BY <2>3 DEF EvSuspended, Ev
    <2> QED
      BY <2>1, <2>2, <2>3 DEF AppendedEvents
  <1> QED
    BY <1>2, <1>3, <1>4, <1>5 DEF TerminalStatuses

-----------------------------------------------------------------------------
(* Types *)

\* The fresh projection, and the pending transactions the worker steps build.
LEMMA Constructed ==
  /\ createRunProjection("agent") \in Projections
  /\ NoTx \in TxRecords
  /\ \A type \in {"RunFailed", "RunCancelled"} : CatchTx(type) \in TxRecords
  /\ \A e \in AppendedEvents, s \in EffectStates \cup {None}, b \in BOOLEAN, l \in Labels :
       Tx(e, s, b, l) \in TxRecords
  <1>1. createRunProjection("agent") \in Projections
    BY DEF createRunProjection, Projections, Kinds, Statuses
  <1>2. \A e \in AppendedEvents, s \in EffectStates \cup {None}, b \in BOOLEAN, l \in Labels :
          Tx(e, s, b, l) \in TxRecords
    BY DEF Tx, TxRecords
  <1>3. \A type \in {"RunFailed", "RunCancelled"} : CatchTx(type) \in TxRecords
    BY DEF CatchTx, Tx, TxRecords, Labels, AppendedEvents
  <1> QED
    BY <1>1, <1>2, <1>3 DEF NoTx

\* The events are of the appended ones.
LEMMA Appended ==
  /\ \A type \in {"EffectDispatched", "EffectAcknowledged", "EffectUncertain",
                   "EffectNeedsReconciliation", "ToolCallCompleted", "RunFailed", "RunCancelled"} :
       Ev(type) \in AppendedEvents
  /\ EvId("EffectPrepared", Effect) \in AppendedEvents
  /\ EvSuspended("running", Effect) \in AppendedEvents
  /\ EvSuspended("running", None) \in AppendedEvents
  BY DEF AppendedEvents

(* A run that has been accepted and never executed has the types. *)
LEMMA InitType == Init => TypeOK
  <1> SUFFICES ASSUME Init PROVE TypeOK
    OBVIOUS
  <1> USE DEF Init
  <1>1. run \in Projections
    BY Constructed DEF createRunProjection, Projections, Statuses
  <1>2. view \in [Workers -> Projections]
    BY <1>1, Constructed
  <1>3. latest \in EventTypes /\ "RunAccepted" \in EventTypes
    BY DEF EventTypes
  <1>4. pc \in [Workers -> Labels] /\ record \in EffectStates /\ rec \in [Workers -> EffectStates]
    BY DEF Labels, EffectStates
  <1>5. tx \in [Workers -> TxRecords]
    BY Constructed
  <1>6. strategy \in Strategies
    BY RegisteredAssumption
  <1>7. seen \in [Workers -> EventTypes] /\ aborted \in [Workers -> BOOLEAN]
    BY <1>3
  <1>8. attempt \in [Workers -> Nat] /\ request \in [Workers -> Nat]
    OBVIOUS
  <1>9. sends \in Seq(Nat) /\ wire \subseteq Nat /\ applied \subseteq Nat /\ faults \in Nat
    OBVIOUS
  <1>10. checkpoints \in BOOLEAN /\ attempts \in Nat /\ checkpoint \in Nat /\ result \in BOOLEAN
         /\ holder \in Workers \cup {None}
    OBVIOUS
  <1> HIDE DEF Init
  <1> QED
    BY <1>1, <1>2, <1>3, <1>4, <1>5, <1>6, <1>7, <1>8, <1>9, <1>10 DEF TypeOK

\* The transactions the worker steps hand to #append are well-typed.
LEMMA PendingType ==
  /\ Suspend(None) \in TxRecords
  /\ Tx(Ev("RunFailed"), None, FALSE, "release") \in TxRecords
  /\ Tx(EvId("EffectPrepared", Effect), "prepared", FALSE, "decide") \in TxRecords
  /\ Tx(Ev("EffectDispatched"), "dispatched", TRUE, "send") \in TxRecords
  /\ Tx(Ev("EffectDispatched"), None, TRUE, "send") \in TxRecords
  /\ Tx(Ev("EffectAcknowledged"), "acknowledged", TRUE, "complete") \in TxRecords
  /\ Tx(Ev("ToolCallCompleted"), None, TRUE, "release") \in TxRecords
  /\ Tx(Ev("EffectUncertain"), "unknown", FALSE, "park") \in TxRecords
  /\ Tx(EvSuspended("running", Effect), None, FALSE, "park") \in TxRecords
  /\ Tx(Ev("EffectNeedsReconciliation"), "needs_reconciliation", FALSE, "park") \in TxRecords
  <1> USE Constructed, Appended DEF EffectStates, Labels
  <1>1. Suspend(None) \in TxRecords
    BY DEF Suspend
  <1> QED
    BY <1>1

\* Moving the program counter, pending an append, and ending the call.
LEMMA Moves ==
  ASSUME TypeOK, NEW w \in Workers
  PROVE  /\ \A l \in Labels : Goto(w, l) => pc' \in [Workers -> Labels]
         /\ \A t \in TxRecords :
              Appending(w, t) => pc' \in [Workers -> Labels] /\ tx' \in [Workers -> TxRecords]
         /\ EndCall(w) =>
              /\ pc' \in [Workers -> Labels] /\ view' \in [Workers -> Projections]
              /\ rec' \in [Workers -> EffectStates] /\ seen' \in [Workers -> EventTypes]
              /\ tx' \in [Workers -> TxRecords] /\ attempt' \in [Workers -> Nat]
              /\ request' \in [Workers -> Nat] /\ aborted' \in [Workers -> BOOLEAN]
  <1> USE Constructed DEF TypeOK
  <1>1. \A l \in Labels : Goto(w, l) => pc' \in [Workers -> Labels]
    BY DEF Goto
  <1>2. ASSUME NEW t \in TxRecords, Appending(w, t)
        PROVE  pc' \in [Workers -> Labels] /\ tx' \in [Workers -> TxRecords]
    BY <1>1, <1>2 DEF Appending, Labels
  <1>3. ASSUME EndCall(w)
        PROVE /\ pc' \in [Workers -> Labels] /\ view' \in [Workers -> Projections]
              /\ rec' \in [Workers -> EffectStates] /\ seen' \in [Workers -> EventTypes]
              /\ tx' \in [Workers -> TxRecords] /\ attempt' \in [Workers -> Nat]
              /\ request' \in [Workers -> Nat] /\ aborted' \in [Workers -> BOOLEAN]
    <2>1. pc' \in [Workers -> Labels]
      BY <1>3 DEF EndCall, Labels
    <2>2. rec' \in [Workers -> EffectStates]
      BY <1>3 DEF EndCall, EffectStates
    <2>3. seen' \in [Workers -> EventTypes]
      BY <1>3 DEF EndCall, EventTypes
    <2> QED
      BY <1>3, <2>1, <2>2, <2>3 DEF EndCall
  <1> QED
    BY <1>1, <1>2, <1>3

(* Every action of a worker, the clock and the operator keeps the types. *)
LEMMA TypeStep == TypeOK /\ [Next]_vars => TypeOK'
  <1> SUFFICES ASSUME TypeOK, [Next]_vars PROVE TypeOK'
    OBVIOUS
  <1> USE Constructed DEF TypeOK, config, runVars, workerVars, extVars
  <1>L. /\ {"idle", "started", "leased", "recover", "checkpoint", "boundary", "read", "decide",
             "lookup", "append", "commit", "send", "await", "acknowledge", "park", "complete",
             "throw", "throwTerminal", "release"} \subseteq Labels
        /\ "RunAccepted" \in EventTypes
    BY DEF Labels, EventTypes
  <1>1. ASSUME NEW w \in Workers, Execute(w) PROVE TypeOK'
    BY <1>1, <1>L, Moves DEF Execute
  <1>2. ASSUME NEW w \in Workers, AcquireLease(w) PROVE TypeOK'
    BY <1>2, <1>L, Moves DEF AcquireLease
  <1>3. ASSUME NEW w \in Workers, ReadHistory(w) PROVE TypeOK'
    BY <1>3, <1>L, Moves DEF ReadHistory
  <1>4. ASSUME NEW w \in Workers, recoverInterruptedEffect(w) PROVE TypeOK'
    <2>1. pc' \in [Workers -> Labels] /\ tx' \in [Workers -> TxRecords]
      <3>1. CASE seen[w] = "EffectAcknowledged"
        BY <1>4, <3>1, <1>L, Moves, PendingType DEF recoverInterruptedEffect
      <3>2. CASE seen[w] # "EffectAcknowledged"
        BY <1>4, <3>2, <1>L, Moves DEF recoverInterruptedEffect
      <3> QED
        BY <3>1, <3>2
    <2> QED
      BY <1>4, <1>L, <2>1 DEF recoverInterruptedEffect
  <1>5. ASSUME NEW w \in Workers, loadContextCheckpoint(w) PROVE TypeOK'
    BY <1>5, <1>L, Moves, PendingType DEF loadContextCheckpoint
  <1>6. ASSUME NEW w \in Workers, AssertBoundary(w) PROVE TypeOK'
    BY <1>6, <1>L, Moves, PendingType DEF AssertBoundary
  <1>7. ASSUME NEW w \in Workers, ReadRecord(w) PROVE TypeOK'
    BY <1>7, <1>L, Moves DEF ReadRecord
  <1>8. ASSUME NEW w \in Workers, Decide(w) PROVE TypeOK'
    <2>1. pc' \in [Workers -> Labels] /\ tx' \in [Workers -> TxRecords]
      <3>1. CASE Prepare(w) \/ Dispatch(w)
        BY <3>1, Moves, PendingType DEF Prepare, Dispatch
      <3>2. CASE ~(Prepare(w) \/ Dispatch(w))
        BY <1>8, <3>2, <1>L, Moves, PendingType DEF Decide
      <3> QED
        BY <3>1, <3>2
    <2>2. attempt' \in [Workers -> Nat]
      <3>1. attempt' = attempt \/ attempt' = [attempt EXCEPT ![w] = 1]
        BY <1>8, Zenon DEF Decide, Prepare, Dispatch
      <3>2. CASE attempt' = attempt
        BY <3>2
      <3>3. CASE attempt' = [attempt EXCEPT ![w] = 1]
        BY <3>3
      <3> QED
        BY <3>1, <3>2, <3>3
    <2> QED
      BY <1>8, <2>1, <2>2 DEF Decide
  <1>9. ASSUME NEW w \in Workers, Lookup(w) PROVE TypeOK'
    <2>1. pc' \in [Workers -> Labels] /\ tx' \in [Workers -> TxRecords]
      BY <1>9, <1>L, Moves, PendingType DEF Lookup
    <2>2. attempt' \in [Workers -> Nat]
      <3>1. attempt' = attempt \/ attempt' = [attempt EXCEPT ![w] = attempts + 1]
        BY <1>9, Zenon DEF Lookup, NextAttempt
      <3>2. CASE attempt' = attempt
        BY <3>2
      <3>3. CASE attempt' = [attempt EXCEPT ![w] = attempts + 1]
        BY <3>3
      <3> QED
        BY <3>1, <3>2, <3>3
    <2> QED
      BY <1>9, <2>1, <2>2 DEF Lookup
  <1>10. ASSUME NEW w \in Workers, Send(w) PROVE TypeOK'
    <2>1. sends' \in Seq(Nat) /\ Len(sends') \in Nat
      BY <1>10 DEF Send
    <2> QED
      BY <1>10, <1>L, <2>1, Moves DEF Send
  <1>11. ASSUME NEW w \in Workers, DispatchReturns(w) PROVE TypeOK'
    BY <1>11, <1>L, Moves DEF DispatchReturns
  <1>12. ASSUME NEW w \in Workers, DispatchFails(w) PROVE TypeOK'
    BY <1>12, <1>L, Moves DEF DispatchFails
  <1>13. ASSUME NEW w \in Workers, acknowledgeEffect(w) PROVE TypeOK'
    BY <1>13, <1>L, Moves, PendingType DEF acknowledgeEffect
  <1>14. ASSUME NEW w \in Workers, CompleteToolCall(w) PROVE TypeOK'
    BY <1>14, <1>L, Moves, PendingType DEF CompleteToolCall
  <1>15. ASSUME NEW w \in Workers, parkEffectForReconciliation(w) PROVE TypeOK'
    BY <1>15, <1>L, Moves, PendingType DEF parkEffectForReconciliation
  <1>16. ASSUME NEW w \in Workers, RenewLease(w) PROVE TypeOK'
    <2>1. tx[w].failed \in Labels
      BY <1>L DEF TxRecords
    <2> QED
      BY <1>16, <1>L, <2>1, Moves DEF RenewLease
  <1>17. ASSUME NEW w \in Workers, transactTransition(w) PROVE TypeOK'
    <2>1. tx[w] \in TxRecords /\ tx[w].event \in AppendedEvents
      BY DEF TxRecords
    <2>2. pc' \in [Workers -> Labels]
      <3>1. tx[w].then \in Labels /\ tx[w].failed \in Labels
        BY <2>1, <1>L DEF TxRecords
      <3> QED
        BY <1>17, <3>1, Moves DEF transactTransition
    <2>3. tx' \in [Workers -> TxRecords]
      BY <1>17 DEF transactTransition
    <2>4. CASE Commits(w)
      <3>1. run' \in Projections
        BY <1>17, <2>1, <2>4, ReduceType DEF transactTransition, WrittenEvents
      <3>2. view' \in [Workers -> Projections]
        BY <1>17, <2>4, <3>1, ZenonT(30) DEF transactTransition
      <3>3. latest' \in EventTypes
        BY <1>17, <2>1, <2>4, AppendedTypes DEF transactTransition, WrittenEvents
      <3>4. record' \in EffectStates /\ rec' \in [Workers -> EffectStates]
        <4>1. tx[w].state # None => tx[w].state \in EffectStates
          BY <2>1 DEF TxRecords
        <4> QED
          BY <1>17, <2>4, <4>1 DEF transactTransition
      <3>5. checkpoint' \in Nat
        BY <1>17, <2>4, <3>1 DEF transactTransition, Projections
      <3>6. result' \in BOOLEAN /\ attempts' \in Nat /\ faults' \in Nat
        BY <1>17, <2>4 DEF transactTransition
      <3> QED
        BY <1>17, <2>2, <2>3, <3>1, <3>2, <3>3, <3>4, <3>5, <3>6 DEF transactTransition
    <2>5. CASE ~Commits(w)
      BY <1>17, <2>2, <2>3, <2>5 DEF transactTransition
    <2> QED
      BY <2>4, <2>5
  <1>18. ASSUME NEW w \in Workers, Catch(w) PROVE TypeOK'
    BY <1>18, <1>L, Moves DEF Catch
  <1>19. ASSUME NEW w \in Workers, ReleaseLease(w) PROVE TypeOK'
    BY <1>19, <1>L, Moves DEF ReleaseLease
  <1>20. ASSUME NEW w \in Workers, Abort(w) PROVE TypeOK'
    BY <1>20, <1>L, Moves, SMTT(20) DEF Abort
  <1>21. ASSUME NEW w \in Workers, Crash(w) PROVE TypeOK'
    BY <1>21, <1>L, Moves, SMTT(20) DEF Crash
  <1>22. CASE DeadLeaseExpires
    BY <1>22 DEF DeadLeaseExpires
  <1>23. CASE LiveLeaseExpires
    BY <1>23 DEF LiveLeaseExpires
  <1>R. ASSUME NEW e \in AppendedEvents, NEW st \in EffectStates, ReconcileWith(e, st),
               result' \in BOOLEAN
        PROVE  TypeOK'
    <2>1. Reduce(run, Ev("EffectReconciliationRecorded")) \in Projections
      BY ReduceType DEF WrittenEvents
    <2>2. run' \in Projections /\ latest' \in EventTypes
      BY <1>R, <2>1, ReduceType, AppendedTypes DEF ReconcileWith, WrittenEvents
    <2> QED
      BY <1>R, <2>2 DEF ReconcileWith
  <1>24. CASE ReconcileRecovered
    BY <1>24, <1>R, Appended DEF ReconcileRecovered, EffectStates
  <1>25. CASE ReconcileAbandoned
    BY <1>25, <1>R, Appended DEF ReconcileAbandoned, EffectStates
  <1>26. CASE LoseResult
    <2>1. faults' \in Nat
      BY <1>26, SMT DEF LoseResult
    <2>2. result' \in BOOLEAN
      BY <1>26, Zenon DEF LoseResult
    <2> QED
      BY <1>26, <2>1, <2>2 DEF LoseResult
  <1>27. ASSUME NEW process \in Workers \cup {None}, Cancel(process) PROVE TypeOK'
    <2>1. run' \in Projections /\ latest' \in EventTypes
      BY <1>27, Appended, ReduceType DEF Cancel, WrittenEvents, EventTypes
    <2>2. aborted' \in [Workers -> BOOLEAN]
      BY <1>27 DEF Cancel
    <2> QED
      BY <1>27, <2>1, <2>2 DEF Cancel
  <1>28. ASSUME NEW n \in wire, Deliver(n) \/ Lose(n) PROVE TypeOK'
    BY <1>28 DEF Deliver, Lose
  <1>29. CASE UNCHANGED vars
    BY <1>29 DEF vars
  <1> QED
    BY <1>1, <1>2, <1>3, <1>4, <1>5, <1>6, <1>7, <1>8, <1>9, <1>10,
        <1>11, <1>12, <1>13, <1>14, <1>15, <1>16, <1>17, <1>18, <1>19, <1>20,
        <1>21, <1>22, <1>23, <1>24, <1>25, <1>26, <1>27, <1>28, <1>29
       DEF Next, WorkerStep

\* Types, for every number of workers and faults.
THEOREM EffectTypeCorrect == Spec => []TypeOK
  BY InitType, TypeStep, PTL DEF Spec

-----------------------------------------------------------------------------
(* The inductive invariant *)

\* From the ledger read to the end of its call a worker relies on rec[w].
Fresh(w) ==
  \/ pc[w] \in {"checkpoint", "boundary", "read", "decide", "lookup", "send", "await",
                "acknowledge", "park", "complete"}
  \/ pc[w] \in {"append", "commit"} /\ tx[w].failed = "throw"

\* The worker's projection is at the head of the stream.
Current(w) == view[w].lastSequence = run.lastSequence

\* The transactions a worker may be about to commit, and what it knows then.
PendingOK(w) ==
  \/ tx[w] = CatchTx("RunFailed") \/ tx[w] = CatchTx("RunCancelled")
  \/ tx[w] = Tx(Ev("RunFailed"), None, FALSE, "release")
  \/ tx[w] = Suspend(None)
  \/ tx[w] = Tx(EvId("EffectPrepared", Effect), "prepared", FALSE, "decide")
  \/ tx[w] = Tx(Ev("EffectDispatched"), "dispatched", TRUE, "send") /\ rec[w] = "prepared"
  \/ /\ tx[w] = Tx(Ev("EffectDispatched"), None, TRUE, "send")
     /\ rec[w] = "dispatched" /\ Redispatches(strategy)
  \/ tx[w] = Tx(Ev("EffectAcknowledged"), "acknowledged", TRUE, "complete") /\ applied # {}
  \/ tx[w] = Tx(Ev("ToolCallCompleted"), None, TRUE, "release") /\ rec[w] = "acknowledged"
  \/ tx[w] = Tx(Ev("EffectUncertain"), "unknown", FALSE, "park")
  \/ tx[w] = Tx(EvSuspended("running", Effect), None, FALSE, "park")
  \/ tx[w] = Tx(Ev("EffectNeedsReconciliation"), "needs_reconciliation", FALSE, "park")

\* A worker that goes on with a suspended run is parking it at the effect.
ParkingOK(w) ==
  Fresh(w) /\ view[w].status = "suspended" =>
    /\ view[w].activeEffectId = Effect
    /\ \/ pc[w] = "park"
       \/ /\ pc[w] \in {"append", "commit"}
          /\ \/ tx[w] = Tx(Ev("EffectUncertain"), "unknown", FALSE, "park")
             \/ tx[w] = Tx(Ev("EffectNeedsReconciliation"), "needs_reconciliation", FALSE, "park")

\* What a worker's own state says: its projection is never ahead, at the head it
\* is the run's and the worker knows the ledger, and each label its conditions.
WorkerInv(w) ==
  /\ view[w].lastSequence <= run.lastSequence
  /\ Current(w) => view[w] = run
  /\ Fresh(w) /\ Current(w) => rec[w] = record
  /\ pc[w] = "lookup" => Redispatches(strategy) /\ rec[w] = "dispatched"
  /\ pc[w] = "complete" => rec[w] = "acknowledged"
  /\ pc[w] = "acknowledge" => applied # {}
  /\ pc[w] = "recover" => view[w].status # "suspended"
  /\ pc[w] \in {"append", "commit"} => PendingOK(w)
  /\ ParkingOK(w)

\* Without a lookup, nothing is sent before the ledger says dispatched, and then
\* one worker is about to send what nobody has sent.
SendOK ==
  ~Redispatches(strategy) =>
    /\ record \in {"absent", "prepared"} => sends = <<>> /\ \A w \in Workers : pc[w] # "send"
    /\ Len(sends) <= 1
    /\ \A w \in Workers : pc[w] = "send" => sends = <<>>
    /\ \A v, w \in Workers : pc[v] = "send" /\ pc[w] = "send" => v = w

LedgerOK == LedgerMatchesRun /\ AcknowledgedWasApplied /\ ParkedReconcilable

\* The inductive invariant.
IInv ==
  /\ TypeOK /\ run.lastSequence > 0
  /\ \A w \in Workers : WorkerInv(w)
  /\ SendOK /\ LedgerOK

(* A run that has been accepted and never executed satisfies the invariant. *)
LEMMA InitIInv == Init => IInv
  <1> SUFFICES ASSUME Init PROVE IInv
    OBVIOUS
  <1>1. TypeOK
    BY InitType
  <1>2. run.lastSequence \in {6, 8} /\ run.status = "running"
    BY DEF Init, createRunProjection
  <1>3. ASSUME NEW w \in Workers PROVE WorkerInv(w)
    <2>1. CASE w = holder
      <3>1. pc[w] = "boundary" /\ view[w] = run /\ rec[w] = record
        BY <2>1 DEF Init
      <3> QED
        BY <1>1, <1>2, <3>1 DEF WorkerInv, Fresh, Current, ParkingOK, TypeOK, Projections
    <2>2. CASE w # holder
      <3>1. pc[w] = "idle" /\ view[w].lastSequence = 0
        BY <2>2 DEF Init, createRunProjection
      <3> QED
        BY <1>1, <1>2, <3>1 DEF WorkerInv, Fresh, Current, ParkingOK
    <2> QED
      BY <2>1, <2>2
  <1>4. SendOK
    BY DEF Init, SendOK
  <1>5. LedgerOK
    BY DEF Init, LedgerOK, LedgerMatchesRun, AcknowledgedWasApplied, ParkedReconcilable
  <1> QED
    BY <1>1, <1>2, <1>3, <1>4, <1>5 DEF IInv

\* A worker whose own state a step leaves alone keeps its part of the invariant,
\* when the run and the ledger stay or the run moves ahead.
LEMMA Bystander ==
  ASSUME IInv, TypeOK', NEW v \in Workers, strategy' = strategy, applied \subseteq applied',
         pc'[v] = pc[v], view'[v] = view[v], rec'[v] = rec[v], tx'[v] = tx[v],
         (run' = run /\ record' = record) \/ run'.lastSequence > run.lastSequence
  PROVE  WorkerInv(v)'
  <1>1. WorkerInv(v)
    BY DEF IInv
  <1>2. view[v].lastSequence \in Nat /\ run.lastSequence \in Nat /\ run'.lastSequence \in Nat
    BY DEF IInv, TypeOK, Projections
  <1>3. /\ view'[v].lastSequence <= run'.lastSequence
        /\ Current(v)' => Current(v) /\ run' = run /\ record' = record
    BY <1>1, <1>2 DEF WorkerInv, Current
  <1>4. Fresh(v)' <=> Fresh(v)
    BY DEF Fresh
  <1>5. ParkingOK(v)'
    BY <1>1, <1>4 DEF WorkerInv, ParkingOK
  <1>6. PendingOK(v) => PendingOK(v)'
    BY DEF PendingOK
  <1> QED
    BY <1>1, <1>3, <1>4, <1>5, <1>6 DEF WorkerInv

\* A step of worker w that commits nothing and does not make it send.
LEMMA LocalStep ==
  ASSUME IInv, TypeOK', NEW w \in Workers,
         UNCHANGED <<strategy, run, latest, record, sends, applied>>,
         \A v \in Workers \ {w} :
           pc'[v] = pc[v] /\ view'[v] = view[v] /\ rec'[v] = rec[v] /\ tx'[v] = tx[v],
         WorkerInv(w)', pc'[w] # "send"
  PROVE  IInv'
  <1>1. \A v \in Workers : WorkerInv(v)'
    BY Bystander
  <1>2. SendOK'
    BY DEF IInv, SendOK
  <1>3. LedgerOK'
    BY DEF IInv, LedgerOK, LedgerMatchesRun, AcknowledgedWasApplied, ParkedReconcilable
  <1> QED
    BY <1>1, <1>2, <1>3 DEF IInv

\* The steps of a worker that commit nothing.
LocalAction(w) ==
  \/ Execute(w) \/ AcquireLease(w) \/ ReadHistory(w) \/ recoverInterruptedEffect(w)
  \/ loadContextCheckpoint(w) \/ AssertBoundary(w) \/ ReadRecord(w) \/ Decide(w) \/ Lookup(w)
  \/ DispatchReturns(w) \/ DispatchFails(w) \/ acknowledgeEffect(w) \/ CompleteToolCall(w)
  \/ parkEffectForReconciliation(w) \/ RenewLease(w) \/ Catch(w) \/ ReleaseLease(w) \/ Crash(w)

\* They touch the worker's own state only.
LEMMA LocalFrame ==
  ASSUME TypeOK, NEW w \in Workers, LocalAction(w)
  PROVE  /\ UNCHANGED <<strategy, run, latest, record, sends, applied>>
         /\ \A v \in Workers \ {w} :
              pc'[v] = pc[v] /\ view'[v] = view[v] /\ rec'[v] = rec[v] /\ tx'[v] = tx[v]
         /\ pc'[w] # "send"
  <1> USE DEF TypeOK, config, runVars, workerVars, extVars
  <1>1. CASE Execute(w)
    BY <1>1 DEF Execute, Goto
  <1>2. CASE AcquireLease(w)
    <2>1. CASE LeaseFree
      BY <1>2, <2>1 DEF AcquireLease, Goto
    <2>2. CASE ~LeaseFree
      BY <1>2, <2>2 DEF AcquireLease, EndCall
    <2> QED
      BY <2>1, <2>2
  <1>3. CASE ReadHistory(w)
    BY <1>3 DEF ReadHistory, Goto
  <1>4. CASE recoverInterruptedEffect(w)
    BY <1>4 DEF recoverInterruptedEffect, Goto, Appending
  <1>5. CASE loadContextCheckpoint(w)
    BY <1>5 DEF loadContextCheckpoint, Goto, Appending
  <1>6. CASE AssertBoundary(w)
    BY <1>6 DEF AssertBoundary, Goto, Appending
  <1>7. CASE ReadRecord(w)
    BY <1>7 DEF ReadRecord, Goto
  <1>8. CASE Decide(w)
    BY <1>8 DEF Decide, Prepare, Dispatch, Goto, Appending
  <1>9. CASE Lookup(w)
    BY <1>9 DEF Lookup, Goto, Appending
  <1>10. CASE DispatchReturns(w)
    BY <1>10 DEF DispatchReturns, Goto
  <1>11. CASE DispatchFails(w)
    BY <1>11 DEF DispatchFails, Goto
  <1>12. CASE acknowledgeEffect(w)
    BY <1>12 DEF acknowledgeEffect, Goto, Appending
  <1>13. CASE CompleteToolCall(w)
    BY <1>13 DEF CompleteToolCall, Goto, Appending
  <1>14. CASE parkEffectForReconciliation(w)
    BY <1>14 DEF parkEffectForReconciliation, Goto, Appending
  <1>15. CASE RenewLease(w)
    BY <1>15 DEF RenewLease, Goto, TxRecords
  <1>16. CASE Catch(w)
    BY <1>16 DEF Catch, Goto, Appending
  <1>17. CASE ReleaseLease(w)
    BY <1>17 DEF ReleaseLease, EndCall
  <1>18. CASE Crash(w)
    BY <1>18 DEF Crash, EndCall
  <1> QED
    BY <1>1, <1>2, <1>3, <1>4, <1>5, <1>6, <1>7, <1>8, <1>9, <1>10, <1>11, <1>12, <1>13, <1>14, <1>15, <1>16, <1>17, <1>18
       DEF LocalAction

\* What they leave in it.
LEMMA LocalInv ==
  ASSUME IInv, TypeOK', NEW w \in Workers, LocalAction(w)
  PROVE  WorkerInv(w)'
  <1>W. WorkerInv(w) /\ UNCHANGED <<strategy, run, record, applied>>
    BY LocalFrame DEF IInv
  <1>T. /\ TypeOK /\ run.lastSequence \in Nat /\ run.lastSequence > 0
        /\ view[w].lastSequence \in Nat
        /\ pc \in [Workers -> Labels] /\ view \in [Workers -> Projections]
        /\ rec \in [Workers -> EffectStates] /\ tx \in [Workers -> TxRecords]
    BY DEF IInv, TypeOK, Projections
  <1>Z. ASSUME EndCall(w) PROVE WorkerInv(w)'
    <2>1. pc'[w] = "idle" /\ view'[w].lastSequence = 0
      BY <1>Z, <1>T DEF EndCall, createRunProjection
    <2> QED
      BY <2>1, <1>W, <1>T DEF WorkerInv, Current, Fresh, ParkingOK
  <1> USE <1>W, <1>T
  <1>1. CASE Execute(w)
    <2>1. pc'[w] = "started" /\ view'[w] = run
      BY <1>1 DEF Execute, Goto
    <2> QED
      BY <2>1 DEF WorkerInv, Current, Fresh, ParkingOK
  <1>2. CASE AcquireLease(w)
    <2>1. CASE EndCall(w)
      BY <2>1, <1>Z
    <2>2. CASE Goto(w, "leased") /\ UNCHANGED view
      <3>1. pc'[w] = "leased" /\ view'[w] = view[w]
        BY <2>2 DEF Goto
      <3> QED
        BY <3>1 DEF WorkerInv, Current, Fresh, ParkingOK
    <2> QED
      BY <1>2, <2>1, <2>2 DEF AcquireLease
  <1>3. CASE ReadHistory(w)
    <2>1. /\ pc'[w] \in {"release", "recover"} /\ view'[w] = view[w]
          /\ pc'[w] = "recover" => view[w].status # "suspended"
      BY <1>3 DEF ReadHistory, Goto
    <2> QED
      BY <2>1 DEF WorkerInv, Current, Fresh, ParkingOK
  <1>4. CASE recoverInterruptedEffect(w)
    <2>1. /\ view'[w] = view[w] /\ rec'[w] = record /\ pc[w] = "recover"
          /\ \/ pc'[w] \in {"checkpoint", "park"}
             \/ pc'[w] = "append" /\ tx'[w] = Suspend(None)
      BY <1>4 DEF recoverInterruptedEffect, Goto, Appending
    <2>2. PendingOK(w)' \/ pc'[w] \in {"checkpoint", "park"}
      BY <2>1 DEF PendingOK
    <2> QED
      BY <2>1, <2>2 DEF WorkerInv, Current, Fresh, ParkingOK
  <1>5. CASE loadContextCheckpoint(w)
    <2>1. /\ view'[w] = view[w] /\ rec'[w] = rec[w] /\ pc[w] = "checkpoint"
          /\ \/ pc'[w] \in {"boundary", "throw"}
             \/ pc'[w] = "append" /\ tx'[w] = Suspend(None)
      BY <1>5 DEF loadContextCheckpoint, Goto, Appending
    <2>2. PendingOK(w)' \/ pc'[w] \in {"boundary", "throw"}
      BY <2>1 DEF PendingOK
    <2> QED
      BY <2>1, <2>2 DEF WorkerInv, Current, Fresh, ParkingOK
  <1>6. CASE AssertBoundary(w)
    <2>1. /\ view'[w] = view[w] /\ rec'[w] = rec[w] /\ pc[w] = "boundary"
          /\ \/ pc'[w] \in {"throw", "throwTerminal", "read"}
             \/ pc'[w] = "append" /\ tx'[w] = Tx(Ev("RunFailed"), None, FALSE, "release")
      BY <1>6 DEF AssertBoundary, Goto, Appending
    <2>2. PendingOK(w)' \/ pc'[w] \in {"throw", "throwTerminal", "read"}
      BY <2>1 DEF PendingOK
    <2> QED
      BY <2>1, <2>2 DEF WorkerInv, Current, Fresh, ParkingOK
  <1>7. CASE ReadRecord(w)
    <2>1. view'[w] = view[w] /\ rec'[w] = record /\ pc[w] = "read" /\ pc'[w] = "decide"
      BY <1>7 DEF ReadRecord, Goto
    <2> QED
      BY <2>1 DEF WorkerInv, Current, Fresh, ParkingOK
  <1>8. CASE Decide(w)
    <2>1. /\ view'[w] = view[w] /\ rec'[w] = rec[w] /\ pc[w] = "decide"
          /\ \/ pc'[w] \in {"park", "throwTerminal"}
             \/ pc'[w] = "lookup" /\ Redispatches(strategy) /\ rec[w] = "dispatched"
             \/ pc'[w] = "complete" /\ rec[w] = "acknowledged"
             \/ pc'[w] = "append" /\ PendingOK(w)'
      BY <1>8 DEF Decide, Prepare, Dispatch, Goto, Appending, PendingOK
    <2> QED
      BY <2>1 DEF WorkerInv, Current, Fresh, ParkingOK
  <1>9. CASE Lookup(w)
    <2>1. rec[w] = "dispatched" /\ Redispatches(strategy) /\ pc[w] = "lookup"
      BY <1>9 DEF Lookup, WorkerInv
    <2>2. /\ view'[w] = view[w] /\ rec'[w] = rec[w]
          /\ \/ pc'[w] \in {"park", "throw"}
             \/ pc'[w] = "acknowledge" /\ applied # {}
             \/ pc'[w] = "append" /\ tx'[w] = Tx(Ev("EffectDispatched"), None, TRUE, "send")
      BY <1>9 DEF Lookup, Goto, Appending
    <2>3. PendingOK(w)' \/ pc'[w] # "append"
      BY <2>1, <2>2 DEF PendingOK
    <2> QED
      BY <2>1, <2>2, <2>3 DEF WorkerInv, Current, Fresh, ParkingOK
  <1>10. CASE DispatchReturns(w)
    <2>1. view'[w] = view[w] /\ rec'[w] = rec[w] /\ pc[w] = "await" /\ pc'[w] = "acknowledge"
          /\ applied # {}
      BY <1>10 DEF DispatchReturns, Goto
    <2> QED
      BY <2>1 DEF WorkerInv, Current, Fresh, ParkingOK
  <1>11. CASE DispatchFails(w)
    <2>1. /\ view'[w] = view[w] /\ rec'[w] = rec[w] /\ pc[w] \in {"send", "await"}
          /\ pc'[w] \in {"throw", "park"}
      BY <1>11 DEF DispatchFails, Goto
    <2> QED
      BY <2>1 DEF WorkerInv, Current, Fresh, ParkingOK
  <1>12. CASE acknowledgeEffect(w)
    <2>1. /\ view'[w] = view[w] /\ rec'[w] = rec[w] /\ pc[w] = "acknowledge"
          /\ \/ pc'[w] = "throwTerminal"
             \/ /\ pc'[w] = "append"
                /\ tx'[w] = Tx(Ev("EffectAcknowledged"), "acknowledged", TRUE, "complete")
      BY <1>12 DEF acknowledgeEffect, Goto, Appending
    <2>2. PendingOK(w)' \/ pc'[w] = "throwTerminal"
      BY <2>1 DEF PendingOK, WorkerInv
    <2> QED
      BY <2>1, <2>2 DEF WorkerInv, Current, Fresh, ParkingOK
  <1>13. CASE CompleteToolCall(w)
    <2>1. /\ view'[w] = view[w] /\ rec'[w] = rec[w] /\ pc[w] = "complete"
          /\ \/ pc'[w] = "throwTerminal"
             \/ pc'[w] = "append" /\ tx'[w] = Tx(Ev("ToolCallCompleted"), None, TRUE, "release")
      BY <1>13 DEF CompleteToolCall, Goto, Appending
    <2>2. PendingOK(w)' \/ pc'[w] = "throwTerminal"
      BY <2>1 DEF PendingOK, WorkerInv
    <2> QED
      BY <2>1, <2>2 DEF WorkerInv, Current, Fresh, ParkingOK
  <1>14. CASE parkEffectForReconciliation(w)
    <2>1. /\ view'[w] = view[w] /\ rec'[w] = rec[w] /\ pc[w] = "park"
          /\ \/ pc'[w] = "release"
             \/ /\ pc'[w] = "append"
                /\ \/ tx'[w] = Tx(Ev("EffectUncertain"), "unknown", FALSE, "park")
                   \/ /\ tx'[w] = Tx(EvSuspended("running", Effect), None, FALSE, "park")
                      /\ view[w].status = "running"
                   \/ tx'[w] = Tx(Ev("EffectNeedsReconciliation"), "needs_reconciliation", FALSE,
                                  "park")
      BY <1>14 DEF parkEffectForReconciliation, Goto, Appending
    <2>2. PendingOK(w)' \/ pc'[w] = "release"
      BY <2>1 DEF PendingOK
    <2> QED
      BY <2>1, <2>2 DEF WorkerInv, Current, Fresh, ParkingOK
  <1>15. CASE RenewLease(w)
    <2>1. /\ view'[w] = view[w] /\ rec'[w] = rec[w] /\ tx'[w] = tx[w] /\ pc[w] = "append"
          /\ pc'[w] \in {"commit", "throw", "release"}
      BY <1>15 DEF RenewLease, Goto, TxRecords
    <2>2. PendingOK(w)'
      BY <2>1 DEF PendingOK, WorkerInv
    <2> QED
      BY <2>1, <2>2 DEF WorkerInv, Current, Fresh, ParkingOK
  <1>16. CASE Catch(w)
    <2>1. \/ pc'[w] = "release" /\ view'[w] = view[w]
          \/ /\ pc'[w] = "append" /\ view'[w] = run
             /\ tx'[w] = CatchTx("RunCancelled") \/ tx'[w] = CatchTx("RunFailed")
      BY <1>16 DEF Catch, Goto, Appending
    <2>2. PendingOK(w)' \/ pc'[w] = "release"
      BY <2>1 DEF PendingOK
    <2>3. ~Fresh(w)'
      BY <2>1 DEF Fresh, CatchTx, Tx
    <2>4. view'[w].lastSequence <= run'.lastSequence /\ (Current(w)' => view'[w] = run')
      BY <2>1 DEF WorkerInv, Current
    <2>5. pc'[w] \in {"release", "append"}
      BY <2>1
    <2> QED
      BY <2>2, <2>3, <2>4, <2>5 DEF WorkerInv, ParkingOK
  <1>17. CASE ReleaseLease(w) \/ Crash(w)
    BY <1>17, <1>Z DEF ReleaseLease, Crash
  <1> QED
    BY <1>1, <1>2, <1>3, <1>4, <1>5, <1>6, <1>7, <1>8, <1>9, <1>10, <1>11, <1>12, <1>13, <1>14,
       <1>15, <1>16, <1>17 DEF LocalAction

\* A step that moves the run ahead without any worker's doing.
LEMMA Overtaken ==
  ASSUME IInv, TypeOK', UNCHANGED <<strategy, sends, applied, pc, view, rec, tx>>,
         run'.lastSequence > run.lastSequence,
         record' = record \/ record' \notin {"absent", "prepared"}, LedgerOK'
  PROVE  IInv'
  <1>1. \A v \in Workers : WorkerInv(v)'
    BY Bystander
  <1>2. SendOK'
    BY DEF IInv, SendOK
  <1>3. run.lastSequence \in Nat /\ run'.lastSequence \in Nat /\ run'.lastSequence > 0
    BY DEF IInv, TypeOK, Projections
  <1> QED
    BY <1>1, <1>2, <1>3 DEF IInv

\* A step that moves neither the run nor the ledger nor a worker.
LEMMA Unmoved ==
  ASSUME IInv, TypeOK',
         UNCHANGED <<strategy, run, latest, record, sends, pc, view, rec, tx>>,
         applied \subseteq applied'
  PROVE  IInv'
  <1>1. \A v \in Workers : WorkerInv(v)'
    BY Bystander
  <1>2. SendOK'
    BY DEF IInv, SendOK
  <1>3. LedgerOK'
    BY DEF IInv, LedgerOK, LedgerMatchesRun, AcknowledgedWasApplied, ParkedReconcilable
  <1> QED
    BY <1>1, <1>2, <1>3 DEF IInv

\* The dispatch leaves: without a lookup, it is the first and the last.
LEMMA SendStep ==
  ASSUME IInv, TypeOK', NEW w \in Workers, Send(w)
  PROVE  IInv'
  <1> USE DEF config, runVars, extVars
  <1>1. /\ UNCHANGED <<strategy, run, latest, record, applied, view, rec, tx>>
        /\ pc[w] = "send" /\ pc'[w] = "await"
        /\ \A v \in Workers \ {w} : pc'[v] = pc[v]
        /\ sends \in Seq(Nat) /\ Len(sends') = Len(sends) + 1
    BY DEF Send, Goto, IInv, TypeOK
  <1>2. WorkerInv(w)'
    BY <1>1 DEF IInv, WorkerInv, Current, Fresh, ParkingOK
  <1>3. \A v \in Workers : WorkerInv(v)'
    BY <1>1, <1>2, Bystander
  <1>4. SendOK'
    BY <1>1 DEF IInv, SendOK
  <1>5. LedgerOK'
    BY <1>1 DEF IInv, LedgerOK, LedgerMatchesRun, AcknowledgedWasApplied, ParkedReconcilable
  <1> QED
    BY <1>1, <1>3, <1>4, <1>5 DEF IInv

\* What a transaction that commits finds and leaves.
LEMMA CommitFacts ==
  ASSUME IInv, TypeOK', NEW w \in Workers, transactTransition(w), Commits(w)
  PROVE  /\ UNCHANGED <<strategy, sends, applied>>
         /\ view[w] = run /\ Reducible(run, tx[w].event, run.lastSequence + 1)
         /\ tx[w].event \in AppendedEvents
         /\ run' = Reduce(run, tx[w].event) /\ run'.lastSequence = run.lastSequence + 1
         /\ latest' = tx[w].event.type
         /\ record' = (IF tx[w].state = None THEN record ELSE tx[w].state)
         /\ tx[w].state # None => putEffectRecord(tx[w].state)
         /\ view'[w] = run'
         /\ pc'[w] \in {tx[w].then, tx[w].failed}
         /\ tx[w].failed = "throw" => rec[w] = record /\ rec'[w] = record'
         /\ \A v \in Workers \ {w} :
              pc'[v] = pc[v] /\ view'[v] = view[v] /\ rec'[v] = rec[v] /\ tx'[v] = tx[v]
  <1> USE DEF config, extVars
  <1>1. tx[w] \in TxRecords /\ tx[w].event \in AppendedEvents /\ view[w] \in Projections
    BY DEF IInv, TypeOK, TxRecords
  <1>2. pc[w] = "commit" /\ WorkerInv(w) /\ Current(w)
    BY DEF transactTransition, Commits, IInv, Current
  <1>3. view[w] = run
    BY <1>2 DEF WorkerInv
  <1>4. run' = Reduce(run, tx[w].event) /\ Reducible(run, tx[w].event, run.lastSequence + 1)
    BY <1>3 DEF transactTransition, Commits
  <1>5. run'.lastSequence = run.lastSequence + 1
    BY <1>1, <1>3, <1>4, ReduceType DEF WrittenEvents
  <1>6. /\ latest' = tx[w].event.type
        /\ record' = (IF tx[w].state = None THEN record ELSE tx[w].state)
        /\ tx[w].state # None => putEffectRecord(tx[w].state)
        /\ UNCHANGED <<strategy, sends, applied>>
    BY DEF transactTransition, Commits
  <1>7. /\ view'[w] = run' /\ pc'[w] \in {tx[w].then, tx[w].failed}
        /\ rec'[w] = (IF tx[w].state = None THEN rec[w] ELSE tx[w].state)
        /\ \A v \in Workers \ {w} :
              pc'[v] = pc[v] /\ view'[v] = view[v] /\ rec'[v] = rec[v] /\ tx'[v] = tx[v]
    BY DEF transactTransition, Goto, IInv, TypeOK
  <1>8. tx[w].failed = "throw" => rec[w] = record
    BY <1>2 DEF WorkerInv, Fresh
  <1> QED
    BY <1>1, <1>3, <1>4, <1>5, <1>6, <1>7, <1>8

\* The fields of the transactions a worker may commit.
LEMMA TxFields ==
  ASSUME NEW w \in Workers, PendingOK(w)
  PROVE  \/ /\ tx[w].event.type \in {"RunFailed", "RunCancelled"} /\ tx[w].state = None
            /\ tx[w].then = "release" /\ tx[w].failed \in {"release", "throw"}
         \/ /\ tx[w].event.type = "RunSuspended" /\ tx[w].state = None
            /\ tx[w].then = "release" /\ tx[w].failed = "throw"
         \/ /\ tx[w].event.type = "EffectPrepared" /\ tx[w].state = "prepared"
            /\ tx[w].then = "decide" /\ tx[w].failed = "throw"
         \/ /\ tx[w].event.type = "EffectDispatched" /\ tx[w].state = "dispatched"
            /\ tx[w].then = "send" /\ tx[w].failed = "throw" /\ rec[w] = "prepared"
         \/ /\ tx[w].event.type = "EffectDispatched" /\ tx[w].state = None
            /\ tx[w].then = "send" /\ tx[w].failed = "throw"
            /\ rec[w] = "dispatched" /\ Redispatches(strategy)
         \/ /\ tx[w].event.type = "EffectAcknowledged" /\ tx[w].state = "acknowledged"
            /\ tx[w].then = "complete" /\ tx[w].failed = "throw" /\ applied # {}
         \/ /\ tx[w].event.type = "ToolCallCompleted" /\ tx[w].state = None
            /\ tx[w].then = "release" /\ tx[w].failed = "throw" /\ rec[w] = "acknowledged"
         \/ /\ tx[w].event.type = "EffectUncertain" /\ tx[w].state = "unknown"
            /\ tx[w].then = "park" /\ tx[w].failed = "throw"
         \/ /\ tx[w].event.type = "RunSuspended" /\ tx[w].event.id = Effect /\ tx[w].state = None
            /\ tx[w].then = "park" /\ tx[w].failed = "throw"
         \/ /\ tx[w].event.type = "EffectNeedsReconciliation"
            /\ tx[w].state = "needs_reconciliation"
            /\ tx[w].then = "park" /\ tx[w].failed = "throw"
  <1> USE DEF CatchTx, Suspend, Tx, Ev, EvId, EvSuspended
  <1>1. CASE tx[w] = CatchTx("RunFailed") \/ tx[w] = CatchTx("RunCancelled")
             \/ tx[w] = Tx(Ev("RunFailed"), None, FALSE, "release")
    <2>1. \A type : Ev(type).type = type
      OBVIOUS
    <2>2. \A type : /\ CatchTx(type).event = Ev(type) /\ CatchTx(type).state = None
                    /\ CatchTx(type).then = "release" /\ CatchTx(type).failed = "release"
      OBVIOUS
    <2> HIDE DEF CatchTx, Tx, Ev
    <2>4. CASE tx[w] = CatchTx("RunFailed")
      BY <2>1, <2>2, <2>4
    <2>5. CASE tx[w] = CatchTx("RunCancelled")
      BY <2>1, <2>2, <2>5
    <2>6. CASE tx[w] = Tx(Ev("RunFailed"), None, FALSE, "release")
      <3>1. /\ tx[w].event = Ev("RunFailed") /\ tx[w].state = None
            /\ tx[w].then = "release" /\ tx[w].failed = "throw"
        BY <2>6 DEF Tx
      <3> QED
        BY <2>1, <3>1
    <2> QED
      BY <1>1, <2>4, <2>5, <2>6
  <1>2. CASE tx[w] = Suspend(None)
    <2>1. /\ EvSuspended("running", None).type = "RunSuspended"
          /\ Suspend(None).event = EvSuspended("running", None) /\ Suspend(None).state = None
          /\ Suspend(None).then = "release" /\ Suspend(None).failed = "throw"
      OBVIOUS
    <2> HIDE DEF Suspend, EvSuspended, Tx, Ev
    <2> QED
      BY <1>2, <2>1
  <1>3. CASE tx[w] = Tx(EvId("EffectPrepared", Effect), "prepared", FALSE, "decide")
    BY <1>3
  <1>4. CASE tx[w] = Tx(Ev("EffectDispatched"), "dispatched", TRUE, "send") /\ rec[w] = "prepared"
    BY <1>4
  <1>5. CASE /\ tx[w] = Tx(Ev("EffectDispatched"), None, TRUE, "send")
             /\ rec[w] = "dispatched" /\ Redispatches(strategy)
    BY <1>5
  <1>6. CASE tx[w] = Tx(Ev("EffectAcknowledged"), "acknowledged", TRUE, "complete") /\ applied # {}
    BY <1>6
  <1>7. CASE /\ tx[w] = Tx(Ev("ToolCallCompleted"), None, TRUE, "release")
             /\ rec[w] = "acknowledged"
    BY <1>7
  <1>8. CASE tx[w] = Tx(Ev("EffectUncertain"), "unknown", FALSE, "park")
    BY <1>8
  <1>9. CASE tx[w] = Tx(EvSuspended("running", Effect), None, FALSE, "park")
    <2>1. EvSuspended("running", Effect).type = "RunSuspended"
          /\ EvSuspended("running", Effect).id = Effect
      OBVIOUS
    <2>2. tx[w].event = EvSuspended("running", Effect) /\ tx[w].state = None
          /\ tx[w].then = "park" /\ tx[w].failed = "throw"
      BY <1>9
    <2> HIDE DEF Tx, Ev, EvSuspended
    <2> QED
      BY <2>1, <2>2
  <1>10. CASE tx[w] = Tx(Ev("EffectNeedsReconciliation"), "needs_reconciliation", FALSE, "park")
    BY <1>10
  <1> HIDE DEF CatchTx, Suspend, Tx, Ev, EvId, EvSuspended
  <1> QED
    BY <1>1, <1>2, <1>3, <1>4, <1>5, <1>6, <1>7, <1>8, <1>9, <1>10 DEF PendingOK

\* A commit of worker w, or its refusal.
LEMMA CommitStep ==
  ASSUME IInv, TypeOK', NEW w \in Workers, transactTransition(w)
  PROVE  IInv'
  <1> USE DEF config, runVars, extVars
  <1>0. pc[w] = "commit" /\ WorkerInv(w) /\ PendingOK(w) /\ tx[w] \in TxRecords
    BY DEF transactTransition, IInv, WorkerInv, TypeOK
  <1>1. CASE ~Commits(w)
    <2>1. /\ UNCHANGED <<strategy, run, latest, record, sends, applied>>
          /\ view'[w] = view[w] /\ pc'[w] \in {"throw", "release"}
          /\ \A v \in Workers \ {w} :
               pc'[v] = pc[v] /\ view'[v] = view[v] /\ rec'[v] = rec[v] /\ tx'[v] = tx[v]
      BY <1>0, <1>1 DEF transactTransition, Goto, IInv, TypeOK, TxRecords
    <2>2. WorkerInv(w)'
      BY <1>0, <2>1 DEF WorkerInv, Current, Fresh, ParkingOK
    <2> QED
      BY <2>1, <2>2, LocalStep
  <1>2. CASE Commits(w)
    <2> DEFINE e == tx[w].event
    <2>1. /\ UNCHANGED <<strategy, sends, applied>>
          /\ view[w] = run /\ Reducible(run, e, run.lastSequence + 1) /\ e \in AppendedEvents
          /\ run' = Reduce(run, e) /\ run'.lastSequence = run.lastSequence + 1
          /\ latest' = e.type
          /\ record' = (IF tx[w].state = None THEN record ELSE tx[w].state)
          /\ tx[w].state # None => putEffectRecord(tx[w].state)
          /\ view'[w] = run'
          /\ pc'[w] \in {tx[w].then, tx[w].failed}
          /\ tx[w].failed = "throw" => rec[w] = record /\ rec'[w] = record'
          /\ \A v \in Workers \ {w} :
               pc'[v] = pc[v] /\ view'[v] = view[v] /\ rec'[v] = rec[v] /\ tx'[v] = tx[v]
      BY <1>2, CommitFacts
    <2>2. /\ run \in Projections /\ run.lastSequence \in Nat /\ run.lastSequence > 0
          /\ run'.lastSequence \in Nat
      BY <2>1 DEF IInv, TypeOK, Projections
    <2>3. \A v \in Workers \ {w} : WorkerInv(v)'
      BY <2>1, <2>2, Bystander
    <2>4. None \notin EffectStates
      BY NoneAssumption
    <2>5. WorkerInv(w)'
      <3>1. pc'[w] \in {"throw", "release"} \/ (pc'[w] = tx[w].then /\ tx[w].then # "release")
        BY <1>0, <2>1, TxFields
      <3>2. pc'[w] \notin {"lookup", "acknowledge", "recover", "append", "commit"}
        BY <1>0, <2>1, TxFields
      <3>3. Fresh(w)' => rec'[w] = record' /\ pc'[w] = tx[w].then
        BY <1>0, <2>1, <3>1, TxFields DEF Fresh
      <3>4. pc'[w] = "complete" => rec'[w] = "acknowledged"
        BY <1>0, <2>1, <2>4, TxFields DEF EffectStates
      <3>5. ParkingOK(w)'
        <4> SUFFICES ASSUME Fresh(w)', run'.status = "suspended"
                     PROVE  run'.activeEffectId = Effect /\ pc'[w] = "park"
          BY <2>1 DEF ParkingOK
        <4>1. pc'[w] \in {"decide", "send", "complete", "park"} /\ pc'[w] = tx[w].then
          BY <1>0, <3>3, <3>2, TxFields DEF Fresh
        <4>2. e.type \notin {"EffectPrepared", "EffectDispatched", "EffectUncertain"}
          BY <2>1, <2>2, ReduceFacts
        <4>3. e.type # "EffectAcknowledged"
          <5>1. e.type = "EffectAcknowledged" => run.status = "suspended" /\ tx[w].failed = "throw"
            BY <1>0, <2>1, <2>2, ReduceFacts, TxFields
          <5>2. e.type = "EffectAcknowledged" =>
                  \/ tx[w] = Tx(Ev("EffectUncertain"), "unknown", FALSE, "park")
                  \/ tx[w] = Tx(Ev("EffectNeedsReconciliation"), "needs_reconciliation", FALSE,
                                "park")
            BY <1>0, <2>1, <5>1 DEF WorkerInv, ParkingOK, Fresh
          <5> QED
            BY <5>2 DEF Tx, Ev
        <4>4. CASE e.type = "RunSuspended" /\ e.id = Effect /\ tx[w].then = "park"
          BY <2>1, <2>2, <4>1, <4>4, ReduceFacts
        <4>5. CASE e.type = "EffectNeedsReconciliation" /\ tx[w].then = "park"
                   /\ tx[w].failed = "throw"
          <5>1. run.status = "suspended" /\ run'.activeEffectId = run.activeEffectId
            BY <2>1, <2>2, <4>5, ReduceFacts
          <5> QED
            BY <1>0, <2>1, <4>1, <4>5, <5>1 DEF WorkerInv, ParkingOK, Fresh
        <4> QED
          BY <1>0, <4>1, <4>2, <4>3, <4>4, <4>5, TxFields
      <3>6. view'[w].lastSequence <= run'.lastSequence
        BY <2>1, <2>2
      <3> QED
        BY <2>1, <3>2, <3>3, <3>4, <3>5, <3>6 DEF WorkerInv
    <2>6. SendOK'
      <3> SUFFICES ASSUME ~Redispatches(strategy) PROVE SendOK'
        BY <2>1 DEF SendOK
      <3>1. CASE pc'[w] = "send"
        <4>1. tx[w].state = "dispatched" /\ record = "prepared"
          BY <1>0, <2>1, <3>1, TxFields
        <4>2. record' = "dispatched"
          BY <2>1, <2>4, <4>1 DEF EffectStates
        <4>3. sends = <<>> /\ \A v \in Workers : pc[v] # "send"
          BY <4>1 DEF IInv, SendOK
        <4> QED
          BY <2>1, <4>2, <4>3 DEF SendOK
      <3>2. CASE pc'[w] # "send"
        <4>1. record' \in {"absent", "prepared"} => record \in {"absent", "prepared"}
          BY <1>0, <2>1, TxFields DEF putEffectRecord, EFFECT_TRANSITIONS
        <4> QED
          BY <2>1, <3>2, <4>1 DEF IInv, SendOK
      <3> QED
        BY <3>1, <3>2
    <2>7. LedgerOK'
      <3>1. LedgerMatchesRun'
        BY <1>0, <2>1, <2>4, TxFields DEF LedgerMatchesRun, EffectStates
      <3>2. AcknowledgedWasApplied'
        BY <1>0, <2>1, <2>4, TxFields DEF IInv, LedgerOK, AcknowledgedWasApplied
      <3>3. ParkedReconcilable'
        <4> SUFFICES ASSUME record' = "needs_reconciliation"
                     PROVE  \/ run'.status \in TerminalStatuses
                            \/ run'.status = "suspended" /\ run'.activeEffectId = Effect
          BY DEF ParkedReconcilable
        <4>1. CASE e.type = "EffectNeedsReconciliation"
          <5>1. /\ run.status = "suspended" /\ run'.status = "suspended"
                /\ run'.activeEffectId = run.activeEffectId
            BY <2>1, <2>2, <4>1, ReduceFacts
          <5>2. tx[w].failed = "throw"
            BY <1>0, <4>1, TxFields
          <5> QED
            BY <1>0, <2>1, <5>1, <5>2 DEF WorkerInv, ParkingOK, Fresh
        <4>2. CASE e.type # "EffectNeedsReconciliation"
          <5>1. tx[w].state = None /\ record = "needs_reconciliation"
            BY <1>0, <2>1, <2>4, <4>2, TxFields DEF EffectStates
          <5>2. run.status = "suspended" /\ run.activeEffectId = Effect
            <6>1. run.status \notin TerminalStatuses
              BY <2>1 DEF Reducible
            <6> QED
              BY <5>1, <6>1 DEF IInv, LedgerOK, ParkedReconcilable
          <5>3. e.type \in {"RunFailed", "RunCancelled"}
            <6>1. e.type \notin {"RunSuspended", "EffectDispatched", "ToolCallCompleted"}
              BY <2>1, <2>2, <5>2, ReduceFacts
            <6>2. tx[w].state \notin EffectStates
              BY <2>4, <5>1
            <6> QED
              BY <1>0, <6>1, <6>2, TxFields DEF EffectStates
          <5> QED
            BY <2>1, <2>2, <5>3, ReduceFacts
        <4> QED
          BY <4>1, <4>2
      <3> QED
        BY <3>1, <3>2, <3>3 DEF LedgerOK
    <2> QED
      BY <2>1, <2>2, <2>3, <2>5, <2>6, <2>7 DEF IInv
  <1> QED
    BY <1>1, <1>2

\* Cancelling a run, and reconciling a parked effect.
LEMMA CommandStep ==
  ASSUME IInv, TypeOK',
         ReconcileRecovered \/ ReconcileAbandoned \/ \E process \in Workers \cup {None} : Cancel(process)
  PROVE  IInv'
  <1> USE DEF config, runVars, workerVars, extVars
  <1>1. run \in Projections /\ run.lastSequence \in Nat
    BY DEF IInv, TypeOK, Projections
  <1>2. ASSUME NEW process \in Workers \cup {None}, Cancel(process) PROVE IInv'
    <2>1. /\ run'.lastSequence = run.lastSequence + 1 /\ latest' = "RunCancelled"
          /\ UNCHANGED <<strategy, record, sends, applied, pc, view, rec, tx>>
      BY <1>1, <1>2, Appended, ReduceType DEF Cancel, WrittenEvents
    <2>2. run'.status \in TerminalStatuses
      <3>1. nextStatusFor(Ev("RunCancelled")) = "cancelled" /\ None # "cancelled"
        BY NoneIsNoId DEF nextStatusFor, Ev, Statuses, TerminalStatuses
      <3> QED
        BY <1>1, <1>2, <3>1 DEF Cancel, Reduce, Projections, TerminalStatuses
    <2>3. LedgerOK'
      BY <2>1, <2>2 DEF IInv, LedgerOK, LedgerMatchesRun, AcknowledgedWasApplied, ParkedReconcilable
    <2> QED
      BY <1>1, <2>1, <2>3, Overtaken
  <1>3. ASSUME NEW e \in {Ev("EffectAcknowledged"), Ev("RunFailed")},
               NEW st \in {"acknowledged", "abandoned"}, ReconcileWith(e, st),
               st = "acknowledged" => applied # {},
               e = Ev("EffectAcknowledged") => st = "acknowledged"
        PROVE  IInv'
    <2>1. /\ run'.lastSequence = run.lastSequence + 2 /\ latest' = e.type /\ record' = st
          /\ UNCHANGED <<strategy, sends, applied, pc, view, rec, tx>>
      <3> DEFINE p == Reduce(run, Ev("EffectReconciliationRecorded"))
      <3>1. p \in Projections /\ p.lastSequence = run.lastSequence + 1
        BY <1>1, ReduceType DEF WrittenEvents
      <3>2. e \in WrittenEvents
        BY <1>3, Appended DEF WrittenEvents
      <3>3. Reduce(p, e).lastSequence = p.lastSequence + 1
        BY <3>1, <3>2, ReduceType
      <3> QED
        BY <1>1, <1>3, <3>1, <3>3 DEF ReconcileWith
    <2>2. latest' \in {"EffectAcknowledged", "RunFailed"}
          /\ (latest' = "EffectAcknowledged" => st = "acknowledged")
      BY <1>3, <2>1 DEF Ev
    <2>3. LedgerOK'
      BY <1>3, <2>1, <2>2 DEF LedgerOK, LedgerMatchesRun, AcknowledgedWasApplied, ParkedReconcilable
    <2> QED
      BY <1>1, <2>1, <2>3, Overtaken
  <1>4. CASE ReconcileRecovered
    BY <1>3, <1>4 DEF ReconcileRecovered
  <1>5. CASE ReconcileAbandoned
    <2>1. Ev("RunFailed") # Ev("EffectAcknowledged")
      BY DEF Ev
    <2> QED
      BY <1>3, <1>5, <2>1 DEF ReconcileAbandoned
  <1> QED
    BY <1>2, <1>4, <1>5

(* Every step keeps the invariant: local steps by their effect on one worker, commits by transaction. *)
LEMMA IInvStep == IInv /\ [Next]_vars => IInv'
  <1> SUFFICES ASSUME IInv, [Next]_vars PROVE IInv'
    OBVIOUS
  <1>T. TypeOK /\ TypeOK'
    BY TypeStep DEF IInv
  <1>1. ASSUME NEW w \in Workers, LocalAction(w) PROVE IInv'
    BY <1>1, <1>T, LocalFrame, LocalInv, LocalStep
  <1>2. ASSUME NEW w \in Workers, Send(w) PROVE IInv'
    BY <1>2, <1>T, SendStep
  <1>3. ASSUME NEW w \in Workers, transactTransition(w) PROVE IInv'
    BY <1>3, <1>T, CommitStep
  <1>4. CASE ReconcileRecovered \/ ReconcileAbandoned
             \/ \E process \in Workers \cup {None} : Cancel(process)
    BY <1>4, <1>T, CommandStep
  <1>5. CASE (\E w \in Workers : Abort(w)) \/ DeadLeaseExpires \/ LiveLeaseExpires \/ LoseResult
             \/ UNCHANGED vars
    BY <1>5, <1>T, Unmoved
       DEF Abort, DeadLeaseExpires, LiveLeaseExpires, LoseResult, vars, config, runVars,
           workerVars, extVars
  <1>6. ASSUME NEW n \in wire, Deliver(n) \/ Lose(n) PROVE IInv'
    BY <1>6, <1>T, Unmoved DEF Deliver, Lose, config, runVars, workerVars
  <1> QED
    BY <1>1, <1>2, <1>3, <1>4, <1>5, <1>6 DEF Next, WorkerStep, LocalAction

(* The inductive invariant holds in every reachable state. *)
LEMMA IInvariance == Spec => []IInv
  BY InitIInv, IInvStep, PTL DEF Spec

-----------------------------------------------------------------------------
(* The theorems *)

\* "A crash at the committed dispatch boundary cannot cause an unproved duplicate
\* external effect", for any number of workers, crashes, lost answers and lease
\* losses, with or without the fence: the stream's sequence number and the ledger
\* decide, not the lease (#executeWriteEffect, transactTransition).
THEOREM EffectAtMostOneSend == Spec => []AtMostOneSend
  <1>1. IInv => AtMostOneSend
    BY DEF IInv, SendOK, AtMostOneSend, Redispatches
  <1> QED
    BY <1>1, IInvariance, PTL

\* The last event of the stream tells the state of the ledger, which is what
\* #recoverInterruptedEffect decides by.
THEOREM EffectLedgerMatchesRun == Spec => []LedgerMatchesRun
  BY IInvariance, PTL DEF IInv, LedgerOK

\* An acknowledgement rests on an application of the effect.
THEOREM EffectAcknowledgedWasApplied == Spec => []AcknowledgedWasApplied
  BY IInvariance, PTL DEF IInv, LedgerOK

\* An effect that waits for reconciliation is one reconcileEffect accepts.
THEOREM EffectParkedReconcilable == Spec => []ParkedReconcilable
  BY IInvariance, PTL DEF IInv, LedgerOK

\* A run that has ended stays as it is: a late commit carries a projection that
\* is either behind, and refused for its sequence, or terminal, and refused by
\* the reducer.
THEOREM EffectTerminalFrozen == Spec => TerminalFrozen
  <1>1. IInv /\ [Next]_vars =>
          [run.status \in TerminalStatuses => UNCHANGED <<run, latest, record, checkpoint>>]_vars
    <2> SUFFICES ASSUME IInv, Next, run.status \in TerminalStatuses
                 PROVE  UNCHANGED <<run, latest, record, checkpoint>>
      OBVIOUS
    <2> USE DEF config, runVars, workerVars, extVars
    <2>1. ASSUME NEW w \in Workers, transactTransition(w)
          PROVE  UNCHANGED <<run, latest, record, checkpoint>>
      <3>1. ~Commits(w)
        <4>1. Commits(w) => view[w] = run /\ view[w].status \notin TerminalStatuses
          BY DEF IInv, WorkerInv, Current, Commits, Reducible
        <4> QED
          BY <4>1
      <3> QED
        BY <2>1, <3>1 DEF transactTransition
    <2>2. ASSUME NEW w \in Workers, LocalAction(w) \/ Send(w) \/ Abort(w)
          PROVE  UNCHANGED <<run, latest, record, checkpoint>>
      BY <2>2 DEF LocalAction, Execute, AcquireLease, ReadHistory, recoverInterruptedEffect,
                  loadContextCheckpoint, AssertBoundary, ReadRecord, Decide, Lookup, Send,
                  DispatchReturns, DispatchFails, acknowledgeEffect, CompleteToolCall,
                  parkEffectForReconciliation, RenewLease, Catch, ReleaseLease, Crash, Abort
    <2>3. ~ReconcileRecovered /\ ~ReconcileAbandoned
      BY DEF ReconcileRecovered, ReconcileAbandoned, ReconcileWith, Reconcilable, TerminalStatuses
    <2>4. \A process : ~Cancel(process)
      BY DEF Cancel
    <2>5. CASE DeadLeaseExpires \/ LiveLeaseExpires \/ LoseResult
      BY <2>5 DEF DeadLeaseExpires, LiveLeaseExpires, LoseResult
    <2>6. ASSUME NEW n \in wire, Deliver(n) \/ Lose(n)
          PROVE  UNCHANGED <<run, latest, record, checkpoint>>
      BY <2>6 DEF Deliver, Lose
    <2> QED
      BY <2>1, <2>2, <2>3, <2>4, <2>5, <2>6 DEF Next, WorkerStep, LocalAction
  <1> QED
    BY <1>1, IInvariance, PTL DEF Spec, TerminalFrozen

-----------------------------------------------------------------------------
(* Attempt numbers *)

\* The worker is about to commit a dispatch.
Dispatching(w) == pc[w] \in {"append", "commit"} /\ tx[w].event.type = "EffectDispatched"

\* A number that is committed and not yet sent belongs to one worker, and a worker that
\* commits at the head of the stream takes the next number.
AttemptInv ==
  /\ EachAttemptOnce
  /\ record \in {"absent", "prepared"} => attempts = 0
  /\ \A w \in Workers :
       /\ pc[w] = "send" =>
            /\ attempt[w] \in 1..attempts
            /\ \A i \in 1..Len(sends) : sends[i] # attempt[w]
            /\ \A v \in Workers \ {w} : pc[v] = "send" => attempt[v] # attempt[w]
       /\ Dispatching(w) /\ Current(w) => attempt[w] = attempts + 1

\* How a worker gets to be about to commit a dispatch.
GotDispatch(w) ==
  /\ view'[w] = view[w]
  /\ \/ pc[w] = "decide" /\ rec[w] = "prepared" /\ attempt'[w] = 1 /\ tx'[w].state = "dispatched"
     \/ /\ attempt'[w] = attempts + 1
        /\ pc[w] = "lookup" /\ wire = {} /\ applied = {} /\ tx'[w].state = None
     \/ Dispatching(w) /\ attempt'[w] = attempt[w] /\ tx'[w] = tx[w]

\* The steps of a worker that commit nothing leave the numbers, the wire and the other
\* workers' leases alone.
LocalSends(w) ==
  /\ UNCHANGED <<attempts, wire>>
  /\ \A v \in Workers \ {w} : attempt'[v] = attempt[v]
  /\ Running(w)' => holder' = w \/ (Running(w) /\ UNCHANGED holder)
  /\ UNCHANGED holder \/ holder \in {None, w}
  /\ Dispatching(w)' => GotDispatch(w)

\* The event types of the events a worker appends.
LEMMA QuietTypes ==
  /\ \A type : CatchTx(type).event.type = type /\ Ev(type).type = type
  /\ \A id : Suspend(id).event.type = "RunSuspended"
  /\ \A id : EvSuspended("running", id).type = "RunSuspended"
  /\ \A id : EvId("EffectPrepared", id).type = "EffectPrepared"
  BY DEF CatchTx, Suspend, Tx, Ev, EvId, EvSuspended

(* A local step sends nothing, and a worker starts to dispatch only as the holder, from its own start. *)
LEMMA LocalSending ==
  ASSUME IInv, TypeOK', NEW w \in Workers, LocalAction(w)
  PROVE  LocalSends(w)
  <1>T. TypeOK /\ None \notin Workers
    BY NoneAssumption DEF IInv
  <1>P. pc[w] \in {"append", "commit"} => PendingOK(w)
    BY DEF IInv, WorkerInv
  <1> USE DEF config, runVars, extVars
  <1>E. ASSUME EndCall(w) PROVE ~Running(w)' /\ ~Dispatching(w)'
          /\ \A v \in Workers \ {w} : attempt'[v] = attempt[v]
    BY <1>T, <1>E DEF EndCall, Running, Dispatching, TypeOK
  <1>1. CASE Execute(w)
    BY <1>T, <1>1 DEF Execute, Goto, LocalSends, Running, Dispatching, TypeOK
  <1>2. CASE AcquireLease(w)
    <2>1. CASE LeaseFree
      BY <1>T, <1>2, <2>1 DEF AcquireLease, LeaseFree, Goto, LocalSends, Running, Dispatching, TypeOK
    <2>2. CASE ~LeaseFree
      BY <1>E, <1>2, <2>2 DEF AcquireLease, LocalSends
    <2> QED
      BY <2>1, <2>2
  <1>3. CASE ReadHistory(w)
    <2>1. /\ UNCHANGED <<attempts, wire, holder, attempt>> /\ Running(w)
          /\ pc'[w] \notin {"append", "commit"}
      BY <1>T, <1>3 DEF ReadHistory, Running, Goto, TypeOK
    <2> QED
      BY <2>1 DEF LocalSends, Dispatching
  <1>4. CASE recoverInterruptedEffect(w)
    <2>1. /\ UNCHANGED <<attempts, wire, holder, attempt>> /\ Running(w)
          /\ \/ pc'[w] \notin {"append", "commit"}
             \/ tx'[w] = Suspend(None)
      BY <1>T, <1>4 DEF recoverInterruptedEffect, Running, Goto, Appending, TypeOK
    <2>2. ~Dispatching(w)'
      BY <2>1, QuietTypes DEF Dispatching, Tx
    <2> QED
      BY <2>1, <2>2 DEF LocalSends
  <1>5. CASE loadContextCheckpoint(w)
    <2>1. /\ UNCHANGED <<attempts, wire, holder, attempt>> /\ Running(w)
          /\ \/ pc'[w] \notin {"append", "commit"}
             \/ tx'[w] = Suspend(None)
      BY <1>T, <1>5 DEF loadContextCheckpoint, Running, Goto, Appending, TypeOK
    <2>2. ~Dispatching(w)'
      BY <2>1, QuietTypes DEF Dispatching, Tx
    <2> QED
      BY <2>1, <2>2 DEF LocalSends
  <1>6. CASE AssertBoundary(w)
    <2>1. /\ UNCHANGED <<attempts, wire, holder, attempt>> /\ Running(w)
          /\ \/ pc'[w] \notin {"append", "commit"}
             \/ tx'[w] = Tx(Ev("RunFailed"), None, FALSE, "release")
      BY <1>T, <1>6 DEF AssertBoundary, Running, Goto, Appending, TypeOK
    <2>2. ~Dispatching(w)'
      BY <2>1, QuietTypes DEF Dispatching, Tx
    <2> QED
      BY <2>1, <2>2 DEF LocalSends
  <1>7. CASE ReadRecord(w)
    <2>1. /\ UNCHANGED <<attempts, wire, holder, attempt>> /\ Running(w)
          /\ pc'[w] \notin {"append", "commit"}
      BY <1>T, <1>7 DEF ReadRecord, Running, Goto, TypeOK
    <2> QED
      BY <2>1 DEF LocalSends, Dispatching
  <1>8. CASE Decide(w)
    <2>1. /\ UNCHANGED <<attempts, wire, holder, view>> /\ Running(w) /\ pc[w] = "decide"
      BY <1>8 DEF Decide, Running
    <2>2. CASE Dispatch(w)
      <3>1. /\ tx'[w] = Tx(Ev("EffectDispatched"), "dispatched", TRUE, "send")
            /\ rec[w] = "prepared" /\ attempt'[w] = 1
            /\ \A v \in Workers \ {w} : attempt'[v] = attempt[v]
        BY <1>T, <2>2 DEF Dispatch, Appending, TypeOK
      <3>2. tx'[w].state = "dispatched"
        BY <3>1 DEF Tx
      <3> QED
        BY <2>1, <3>1, <3>2 DEF LocalSends, GotDispatch
    <2>3. CASE ~Dispatch(w)
      <3>1. /\ UNCHANGED attempt
            /\ \/ pc'[w] \notin {"append", "commit"}
               \/ tx'[w] = Tx(EvId("EffectPrepared", Effect), "prepared", FALSE, "decide")
               \/ tx'[w] = Suspend(None)
        BY <1>T, <1>8, <2>3 DEF Decide, Prepare, Appending, Goto, TypeOK
      <3>2. ~Dispatching(w)'
        BY <3>1, QuietTypes DEF Dispatching, Tx
      <3> QED
        BY <2>1, <3>1, <3>2 DEF LocalSends
    <2> QED
      BY <2>2, <2>3
  <1>9. CASE Lookup(w)
    <2>1. UNCHANGED <<attempts, wire, holder, view>> /\ Running(w) /\ pc[w] = "lookup"
      BY <1>9 DEF Lookup, Running
    <2>2. CASE pc'[w] \notin {"append", "commit"} /\ UNCHANGED attempt
      BY <2>1, <2>2 DEF LocalSends, Dispatching
    <2>3. CASE /\ applied = {} /\ wire = {}
               /\ attempt' = [attempt EXCEPT ![w] = NextAttempt(attempts)]
               /\ Appending(w, Tx(Ev("EffectDispatched"), None, TRUE, "send"))
      <3>1. /\ tx'[w] = Tx(Ev("EffectDispatched"), None, TRUE, "send")
            /\ attempt'[w] = attempts + 1
            /\ \A v \in Workers \ {w} : attempt'[v] = attempt[v]
        BY <1>T, <2>3 DEF NextAttempt, Appending, TypeOK
      <3>2. tx'[w].state = None
        BY <3>1 DEF Tx
      <3> QED
        BY <2>1, <2>3, <3>1, <3>2 DEF LocalSends, GotDispatch
    <2> QED
      BY <1>T, <1>9, <2>2, <2>3 DEF Lookup, Goto, TypeOK
  <1>10. CASE DispatchReturns(w)
    <2>1. /\ UNCHANGED <<attempts, wire, holder, attempt>> /\ Running(w)
          /\ pc'[w] \notin {"append", "commit"}
      BY <1>T, <1>10 DEF DispatchReturns, Running, Goto, TypeOK
    <2> QED
      BY <2>1 DEF LocalSends, Dispatching
  <1>11. CASE DispatchFails(w)
    <2>1. /\ UNCHANGED <<attempts, wire, holder, attempt>> /\ Running(w)
          /\ pc'[w] \notin {"append", "commit"}
      BY <1>T, <1>11 DEF DispatchFails, Running, Goto, TypeOK
    <2> QED
      BY <2>1 DEF LocalSends, Dispatching
  <1>12. CASE acknowledgeEffect(w)
    <2>1. /\ UNCHANGED <<attempts, wire, holder, attempt>> /\ Running(w)
          /\ \/ pc'[w] \notin {"append", "commit"}
             \/ tx'[w] = Tx(Ev("EffectAcknowledged"), "acknowledged", TRUE, "complete")
      BY <1>T, <1>12 DEF acknowledgeEffect, Running, Goto, Appending, TypeOK
    <2>2. ~Dispatching(w)'
      BY <2>1, QuietTypes DEF Dispatching, Tx
    <2> QED
      BY <2>1, <2>2 DEF LocalSends
  <1>13. CASE CompleteToolCall(w)
    <2>1. /\ UNCHANGED <<attempts, wire, holder, attempt>> /\ Running(w)
          /\ \/ pc'[w] \notin {"append", "commit"}
             \/ tx'[w] = Tx(Ev("ToolCallCompleted"), None, TRUE, "release")
      BY <1>T, <1>13 DEF CompleteToolCall, Running, Goto, Appending, TypeOK
    <2>2. ~Dispatching(w)'
      BY <2>1, QuietTypes DEF Dispatching, Tx
    <2> QED
      BY <2>1, <2>2 DEF LocalSends
  <1>14. CASE parkEffectForReconciliation(w)
    <2>1. /\ UNCHANGED <<attempts, wire, holder, attempt>> /\ Running(w)
          /\ \/ pc'[w] \notin {"append", "commit"}
             \/ tx'[w] = Tx(Ev("EffectUncertain"), "unknown", FALSE, "park")
             \/ tx'[w] = Tx(EvSuspended("running", Effect), None, FALSE, "park")
             \/ tx'[w] = Tx(Ev("EffectNeedsReconciliation"), "needs_reconciliation", FALSE, "park")
      BY <1>T, <1>14 DEF parkEffectForReconciliation, Running, Goto, Appending, TypeOK
    <2>2. ~Dispatching(w)'
      BY <2>1, QuietTypes DEF Dispatching, Tx
    <2> QED
      BY <2>1, <2>2 DEF LocalSends
  <1>15. CASE RenewLease(w)
    <2>1. /\ UNCHANGED <<attempts, wire, holder>> /\ Running(w)
          /\ \A v \in Workers \ {w} : attempt'[v] = attempt[v]
      BY <1>T, <1>15 DEF RenewLease, Running, TypeOK
    <2>2. Dispatching(w)' => GotDispatch(w)
      BY <1>T, <1>15 DEF RenewLease, Goto, Dispatching, GotDispatch, TypeOK
    <2> QED
      BY <2>1, <2>2 DEF LocalSends
  <1>16. CASE Catch(w)
    <2>1. /\ UNCHANGED <<attempts, wire, holder, attempt>> /\ Running(w)
          /\ \/ pc'[w] \notin {"append", "commit"}
             \/ tx'[w] = CatchTx("RunCancelled")
             \/ tx'[w] = CatchTx("RunFailed")
      BY <1>T, <1>16 DEF Catch, Running, Goto, Appending, TypeOK
    <2>2. ~Dispatching(w)'
      BY <2>1, QuietTypes DEF Dispatching, Tx
    <2> QED
      BY <2>1, <2>2 DEF LocalSends
  <1>17. CASE ReleaseLease(w)
    BY <1>E, <1>17 DEF ReleaseLease, LocalSends
  <1>18. CASE Crash(w)
    BY <1>E, <1>18 DEF Crash, LocalSends
  <1> QED
    BY <1>1, <1>2, <1>3, <1>4, <1>5, <1>6, <1>7, <1>8, <1>9, <1>10, <1>11, <1>12, <1>13, <1>14, <1>15, <1>16, <1>17, <1>18 DEF LocalAction

\* A step that moves neither the stream nor what the workers are about to send.
LEMMA AttemptSame ==
  ASSUME AttemptInv, UNCHANGED <<run, record, attempts, sends, pc, view, tx, attempt>>
  PROVE  AttemptInv'
  BY DEF AttemptInv, EachAttemptOnce, Dispatching, Current

\* A step by which the run moves ahead of every worker.
LEMMA AttemptOvertaken ==
  ASSUME IInv, AttemptInv, UNCHANGED <<attempts, sends, pc, view, tx, attempt>>,
         run.lastSequence \in Nat, run'.lastSequence \in Nat,
         run'.lastSequence > run.lastSequence,
         record' = record \/ record' \notin {"absent", "prepared"}
  PROVE  AttemptInv'
  <1>1. \A w \in Workers : ~Current(w)'
    BY DEF IInv, WorkerInv, Current, TypeOK, Projections
  <1> QED
    BY <1>1 DEF AttemptInv, EachAttemptOnce

(* A step that only moves one worker keeps the account of attempts. *)
LEMMA AttemptLocal ==
  ASSUME IInv, TypeOK', AttemptInv, NEW w \in Workers, LocalAction(w)
  PROVE  AttemptInv'
  <1>1. /\ UNCHANGED <<run, record, attempts, sends>> /\ pc'[w] # "send"
        /\ \A v \in Workers \ {w} : /\ pc'[v] = pc[v] /\ view'[v] = view[v] /\ tx'[v] = tx[v]
                                    /\ attempt'[v] = attempt[v]
        /\ Dispatching(w)' => GotDispatch(w)
    BY LocalFrame, LocalSending DEF IInv, LocalSends
  <1>2. Dispatching(w)' /\ Current(w)' => attempt'[w] = attempts + 1
    <2> SUFFICES ASSUME Dispatching(w)', Current(w)' PROVE attempt'[w] = attempts + 1
      OBVIOUS
    <2>1. Current(w) /\ GotDispatch(w) /\ WorkerInv(w)
      BY <1>1 DEF Current, GotDispatch, IInv
    <2>2. CASE pc[w] = "decide" /\ rec[w] = "prepared" /\ attempt'[w] = 1
      <3>1. record = "prepared"
        BY <2>1, <2>2 DEF WorkerInv, Fresh
      <3> QED
        BY <2>2, <3>1 DEF AttemptInv
    <2>3. CASE Dispatching(w) /\ attempt'[w] = attempt[w]
      BY <2>1, <2>3 DEF AttemptInv
    <2> QED
      BY <2>1, <2>2, <2>3 DEF GotDispatch
  <1>3. \A v \in Workers \ {w} : Dispatching(v)' /\ Current(v)' => attempt'[v] = attempts + 1
    BY <1>1 DEF AttemptInv, Dispatching, Current
  <1>4. ASSUME NEW v \in Workers, pc'[v] = "send"
        PROVE  /\ attempt'[v] \in 1..attempts
               /\ \A i \in 1..Len(sends) : sends[i] # attempt'[v]
               /\ \A u \in Workers \ {v} : pc'[u] = "send" => attempt'[u] # attempt'[v]
    <2>1. v # w
      BY <1>1, <1>4
    <2> QED
      BY <1>1, <1>4, <2>1 DEF AttemptInv
  <1>5. EachAttemptOnce'
    BY <1>1 DEF AttemptInv, EachAttemptOnce
  <1>6. record' \in {"absent", "prepared"} => attempts' = 0
    BY <1>1 DEF AttemptInv
  <1> QED
    BY <1>1, <1>2, <1>3, <1>4, <1>5, <1>6 DEF AttemptInv

(* A dispatch uses the attempt its own SideEffectStarted recorded, which nobody has used. *)
LEMMA AttemptSend ==
  ASSUME IInv, TypeOK', AttemptInv, NEW w \in Workers, Send(w)
  PROVE  AttemptInv'
  <1> USE DEF config, runVars, extVars
  <1>1. /\ UNCHANGED <<run, record, attempts, view, tx>>
        /\ pc[w] = "send" /\ pc'[w] = "await"
        /\ \A v \in Workers \ {w} : pc'[v] = pc[v] /\ attempt'[v] = attempt[v]
        /\ sends' = Append(sends, attempt[w])
        /\ sends \in Seq(Nat) /\ attempt[w] \in Nat
    BY DEF Send, Goto, IInv, TypeOK
  <1>2. /\ Len(sends') = Len(sends) + 1 /\ Len(sends) \in Nat
        /\ sends'[Len(sends) + 1] = attempt[w]
        /\ \A i \in 1..Len(sends) : sends'[i] = sends[i]
    BY <1>1
  <1>3. /\ attempt[w] \in 1..attempts
        /\ \A i \in 1..Len(sends) : sends[i] # attempt[w]
        /\ \A v \in Workers \ {w} : pc[v] = "send" => attempt[v] # attempt[w]
    BY <1>1 DEF AttemptInv
  <1>4. EachAttemptOnce'
    BY <1>1, <1>2, <1>3 DEF AttemptInv, EachAttemptOnce
  <1>5. ASSUME NEW v \in Workers, pc'[v] = "send"
        PROVE  /\ attempt'[v] \in 1..attempts'
               /\ \A i \in 1..Len(sends') : sends'[i] # attempt'[v]
               /\ \A u \in Workers \ {v} : pc'[u] = "send" => attempt'[u] # attempt'[v]
    <2>1. v # w /\ pc[v] = "send" /\ attempt'[v] = attempt[v]
      BY <1>1, <1>5
    <2>2. attempt[v] \in 1..attempts /\ \A i \in 1..Len(sends) : sends[i] # attempt[v]
      BY <2>1 DEF AttemptInv
    <2>3. \A i \in 1..Len(sends') : sends'[i] # attempt[v]
      BY <1>2, <1>3, <2>1, <2>2
    <2>4. \A u \in Workers \ {v} : pc'[u] = "send" => attempt'[u] # attempt'[v]
      BY <1>1, <2>1 DEF AttemptInv
    <2> QED
      BY <1>1, <2>1, <2>2, <2>3, <2>4
  <1>6. \A v \in Workers : Dispatching(v)' /\ Current(v)' => attempt'[v] = attempts' + 1
    BY <1>1 DEF AttemptInv, Dispatching, Current
  <1> QED
    BY <1>1, <1>4, <1>5, <1>6 DEF AttemptInv

(* A committed transaction keeps the account of attempts: only the start of an effect opens a new one. *)
LEMMA AttemptCommit ==
  ASSUME IInv, TypeOK', AttemptInv, NEW w \in Workers, transactTransition(w)
  PROVE  AttemptInv'
  <1> USE DEF config, runVars, extVars
  <1>0. pc[w] = "commit" /\ WorkerInv(w) /\ PendingOK(w) /\ tx[w] \in TxRecords /\ attempts \in Nat
        /\ UNCHANGED <<attempt, sends>>
    BY DEF transactTransition, IInv, WorkerInv, TypeOK
  <1>1. CASE ~Commits(w)
    <2>1. /\ UNCHANGED <<run, record, attempts, view>>
          /\ pc'[w] \in {"throw", "release"}
          /\ \A v \in Workers \ {w} : pc'[v] = pc[v] /\ tx'[v] = tx[v]
      BY <1>0, <1>1 DEF transactTransition, Goto, IInv, TypeOK, TxRecords
    <2>2. \A v \in Workers : Dispatching(v)' /\ Current(v)' => attempt'[v] = attempts' + 1
      BY <1>0, <2>1 DEF AttemptInv, Dispatching, Current
    <2>3. EachAttemptOnce'
      BY <1>0, <2>1 DEF AttemptInv, EachAttemptOnce
    <2> QED
      BY <1>0, <2>1, <2>2, <2>3 DEF AttemptInv
  <1>2. CASE Commits(w)
    <2>1. /\ run'.lastSequence = run.lastSequence + 1 /\ view[w] = run
          /\ latest' = tx[w].event.type
          /\ record' = (IF tx[w].state = None THEN record ELSE tx[w].state)
          /\ pc'[w] \in {tx[w].then, tx[w].failed}
          /\ tx[w].failed = "throw" => rec[w] = record
          /\ \A v \in Workers \ {w} : pc'[v] = pc[v] /\ view'[v] = view[v] /\ tx'[v] = tx[v]
      BY <1>2, CommitFacts
    <2>2. attempts' = IF latest' = "EffectDispatched" THEN attempt[w] ELSE attempts
      BY <1>2 DEF transactTransition
    <2>3. tx[w].event.type = "EffectDispatched" => attempt[w] = attempts + 1
      BY <1>0, <2>1 DEF AttemptInv, Dispatching, Current
    <2>4. attempts' = attempts \/ (attempts' = attempts + 1 /\ attempt[w] = attempts')
      BY <2>1, <2>2, <2>3
    <2>5. /\ pc'[w] \notin {"append", "commit"}
          /\ pc'[w] = "send" => tx[w].event.type = "EffectDispatched"
          /\ record' \in {"absent", "prepared"} =>
               record \in {"absent", "prepared"} /\ tx[w].event.type # "EffectDispatched"
      <3>1. None \notin EffectStates
        BY NoneAssumption
      <3>2. tx[w].state = "prepared" => record \in {"absent", "prepared"}
        BY <1>2, <3>1 DEF Commits, putEffectRecord, EFFECT_TRANSITIONS, EffectStates
      <3> QED
        BY <1>0, <2>1, <3>1, <3>2, TxFields DEF EffectStates
    <2>6. \A v \in Workers : Dispatching(v)' /\ Current(v)' => attempt'[v] = attempts' + 1
      <3>1. ASSUME NEW v \in Workers \ {w} PROVE ~Current(v)'
        BY <2>1, SMTT(20) DEF IInv, WorkerInv, Current, TypeOK, Projections
      <3> QED
        BY <2>5, <3>1 DEF Dispatching
    <2>7. EachAttemptOnce'
      BY <1>0, <2>4 DEF AttemptInv, EachAttemptOnce
    <2>8. ASSUME NEW v \in Workers, pc'[v] = "send"
          PROVE  /\ attempt'[v] \in 1..attempts'
                 /\ \A i \in 1..Len(sends') : sends'[i] # attempt'[v]
                 /\ \A u \in Workers \ {v} : pc'[u] = "send" => attempt'[u] # attempt'[v]
      <3>1. (attempts' = attempts + 1 /\ attempt[w] = attempts') \/ pc'[w] # "send"
        BY <2>1, <2>2, <2>3, <2>5
      <3>2. \A u \in Workers \ {w} : pc'[u] = "send" => attempt[u] \in 1..attempts
        BY <2>1 DEF AttemptInv
      <3>3. CASE v = w
        <4>1. attempts' = attempts + 1 /\ attempt[w] = attempts'
          BY <2>8, <3>1, <3>3
        <4>2. \A i \in 1..Len(sends) : sends[i] \in 1..attempts
          BY DEF AttemptInv, EachAttemptOnce
        <4> QED
          BY <1>0, <3>2, <3>3, <4>1, <4>2
      <3>4. CASE v # w
        <4>1. /\ attempt[v] \in 1..attempts /\ \A i \in 1..Len(sends) : sends[i] # attempt[v]
              /\ \A u \in Workers \ {v} : pc[u] = "send" => attempt[u] # attempt[v]
          BY <2>1, <2>8, <3>4 DEF AttemptInv
        <4>2. pc'[w] = "send" => attempt[w] # attempt[v]
          BY <1>0, <3>1, <4>1
        <4>3. \A u \in Workers \ {v} : pc'[u] = "send" => attempt[u] # attempt[v]
          BY <2>1, <4>1, <4>2
        <4> QED
          BY <1>0, <2>4, <4>1, <4>3
      <3> QED
        BY <3>3, <3>4
    <2>9. record' \in {"absent", "prepared"} => attempts' = 0
      BY <2>1, <2>2, <2>5 DEF AttemptInv
    <2> QED
      BY <2>6, <2>7, <2>8, <2>9 DEF AttemptInv
  <1> QED
    BY <1>1, <1>2

(* Every step keeps the account of attempts. *)
LEMMA AttemptStep == IInv /\ AttemptInv /\ [Next]_vars => AttemptInv'
  <1> SUFFICES ASSUME IInv, AttemptInv, [Next]_vars PROVE AttemptInv'
    OBVIOUS
  <1>T. TypeOK /\ TypeOK' /\ run.lastSequence \in Nat /\ run'.lastSequence \in Nat
    BY TypeStep DEF IInv, TypeOK, Projections
  <1>1. ASSUME NEW w \in Workers, LocalAction(w) PROVE AttemptInv'
    BY <1>1, <1>T, AttemptLocal
  <1>2. ASSUME NEW w \in Workers, Send(w) PROVE AttemptInv'
    BY <1>2, <1>T, AttemptSend
  <1>3. ASSUME NEW w \in Workers, transactTransition(w) PROVE AttemptInv'
    BY <1>3, <1>T, AttemptCommit
  <1>4. ASSUME NEW process \in Workers \cup {None}, Cancel(process) PROVE AttemptInv'
    <2>1. Ev("RunCancelled") \in WrittenEvents /\ run \in Projections
      BY <1>T, Appended DEF WrittenEvents, TypeOK
    <2>2. run'.lastSequence = run.lastSequence + 1
      BY <1>4, <2>1, ReduceType DEF Cancel
    <2> QED
      BY <1>4, <1>T, <2>2, AttemptOvertaken DEF Cancel, extVars
  <1>5. ASSUME NEW e \in {Ev("EffectAcknowledged"), Ev("RunFailed")},
               NEW st \in {"acknowledged", "abandoned"}, ReconcileWith(e, st)
        PROVE  AttemptInv'
    <2> DEFINE p == Reduce(run, Ev("EffectReconciliationRecorded"))
    <2>1. run \in Projections /\ e \in WrittenEvents
          /\ Ev("EffectReconciliationRecorded") \in WrittenEvents
      BY <1>T, <1>5, Appended DEF WrittenEvents, TypeOK
    <2>2. p \in Projections /\ p.lastSequence = run.lastSequence + 1
      BY <2>1, ReduceType
    <2>3. run'.lastSequence = p.lastSequence + 1
      BY <1>5, <2>1, <2>2, ReduceType DEF ReconcileWith
    <2> QED
      BY <1>5, <1>T, <2>2, <2>3, AttemptOvertaken DEF ReconcileWith, extVars, workerVars
  <1>6. CASE ReconcileRecovered \/ ReconcileAbandoned
    BY <1>5, <1>6 DEF ReconcileRecovered, ReconcileAbandoned
  <1>7. CASE (\E w \in Workers : Abort(w)) \/ DeadLeaseExpires \/ LiveLeaseExpires \/ LoseResult
             \/ UNCHANGED vars
    BY <1>7, AttemptSame
       DEF Abort, DeadLeaseExpires, LiveLeaseExpires, LoseResult, vars, config, runVars,
           workerVars, extVars
  <1>8. ASSUME NEW n \in wire, Deliver(n) \/ Lose(n) PROVE AttemptInv'
    BY <1>8, AttemptSame DEF Deliver, Lose, config, runVars, workerVars
  <1> QED
    BY <1>1, <1>2, <1>3, <1>4, <1>6, <1>7, <1>8 DEF Next, WorkerStep, LocalAction

\* "Every actual dispatch attempt must be visible in run truth": a dispatch carries a
\* number its own EffectDispatched committed before it left, and no other dispatch has
\* it, for any workers, faults and lease losses, with or without the fence.
THEOREM EffectEachAttemptOnce == Spec => []EachAttemptOnce
  <1>1. Init => AttemptInv
    <2> SUFFICES ASSUME Init PROVE AttemptInv
      OBVIOUS
    <2>1. attempts = 0 /\ Len(sends) = 0 /\ \A w \in Workers : pc[w] \in {"boundary", "idle"}
      BY DEF Init
    <2> QED
      BY <2>1 DEF AttemptInv, EachAttemptOnce, Dispatching
  <1>2. AttemptInv => EachAttemptOnce
    BY DEF AttemptInv
  <1> QED
    BY <1>1, <1>2, AttemptStep, IInvariance, PTL DEF Spec

-----------------------------------------------------------------------------
(* One application *)

\* While a live holder keeps its lease, the one running worker is its holder, so nobody
\* sends between a lookup that found nothing and the dispatch that follows.
AppliedInv ==
  /\ \A w \in Workers : Running(w) => holder = w
  /\ record \in {"absent", "prepared"} => wire = {} /\ applied = {} /\ \A w \in Workers : pc[w] # "send"
  /\ \A w \in Workers :
       pc[w] = "send" \/ (Dispatching(w) /\ tx[w].state = None) => wire = {} /\ applied = {}
  /\ \A m, n \in wire \cup applied : m = n

(* Before the first execution nothing has been applied. *)
LEMMA AppliedInit == Init => AppliedInv
  <1> SUFFICES ASSUME Init PROVE AppliedInv
    OBVIOUS
  <1>1. /\ wire = {} /\ applied = {}
        /\ \A w \in Workers : pc[w] = IF w = holder THEN "boundary" ELSE "idle"
    BY DEF Init
  <1> QED
    BY <1>1 DEF AppliedInv, Running

\* Of two running workers one would not hold the lease.
LEMMA OneRuns ==
  ASSUME AppliedInv, NEW w \in Workers, Running(w)
  PROVE  \A v \in Workers \ {w} : ~Running(v)
  BY DEF AppliedInv

(* A step that only moves one worker keeps the account of what the adapter applied. *)
LEMMA AppliedLocal ==
  ASSUME IInv, TypeOK', AppliedInv, NEW w \in Workers, LocalAction(w)
  PROVE  AppliedInv'
  <1>1. /\ UNCHANGED <<record, wire, applied>> /\ pc'[w] # "send"
        /\ \A v \in Workers \ {w} : pc'[v] = pc[v] /\ tx'[v] = tx[v]
        /\ Running(w)' => holder' = w \/ (Running(w) /\ UNCHANGED holder)
        /\ UNCHANGED holder \/ holder \in {None, w}
        /\ Dispatching(w)' => GotDispatch(w)
    BY LocalFrame, LocalSending DEF IInv, LocalSends
  <1>2. None \notin Workers
    BY NoneAssumption
  <1>3. \A v \in Workers : Running(v)' => holder' = v
    BY <1>1, <1>2 DEF AppliedInv, Running
  <1>4. ASSUME NEW v \in Workers, pc'[v] = "send" \/ (Dispatching(v)' /\ tx'[v].state = None)
        PROVE  wire = {} /\ applied = {}
    <2>1. CASE v # w
      BY <1>1, <1>4, <2>1 DEF AppliedInv, Dispatching
    <2>2. CASE v = w
      <3>1. GotDispatch(w) /\ tx'[w].state = None
        BY <1>1, <1>4, <2>2
      <3>2. "dispatched" # None
        BY NoneAssumption DEF EffectStates
      <3> QED
        BY <3>1, <3>2 DEF GotDispatch, AppliedInv
    <2> QED
      BY <2>1, <2>2
  <1> QED
    BY <1>1, <1>3, <1>4 DEF AppliedInv

(* A dispatch applies a write that was not applied before. *)
LEMMA AppliedSend ==
  ASSUME IInv, TypeOK', AppliedInv, NEW w \in Workers, Send(w)
  PROVE  AppliedInv'
  <1>1. /\ UNCHANGED <<record, applied, tx, holder>> /\ pc[w] = "send" /\ pc'[w] = "await"
        /\ \A v \in Workers \ {w} : pc'[v] = pc[v]
        /\ wire' = wire \cup {Len(sends')}
    BY DEF Send, Goto, IInv, TypeOK, runVars
  <1>2. wire = {} /\ applied = {} /\ record \notin {"absent", "prepared"} /\ Running(w)
    BY <1>1 DEF AppliedInv, Running
  <1>3. \A v \in Workers \ {w} : ~Running(v)
    BY <1>2, OneRuns
  <1>4. \A v \in Workers : ~(pc'[v] = "send" \/ Dispatching(v)')
    BY <1>1, <1>3 DEF Running, Dispatching
  <1>5. (\A v \in Workers : Running(v) => holder = v)'
    BY <1>1, <1>2 DEF AppliedInv, Running
  <1> QED
    BY <1>1, <1>2, <1>4, <1>5 DEF AppliedInv

(* A committed transaction keeps the account of what the adapter applied. *)
LEMMA AppliedCommit ==
  ASSUME IInv, TypeOK', AppliedInv, NEW w \in Workers, transactTransition(w)
  PROVE  AppliedInv'
  <1> USE DEF config, runVars, extVars
  <1>0. /\ pc[w] = "commit" /\ WorkerInv(w) /\ PendingOK(w) /\ tx[w] \in TxRecords /\ Running(w)
        /\ UNCHANGED <<holder, wire, applied>>
        /\ \A v \in Workers \ {w} : pc'[v] = pc[v] /\ tx'[v] = tx[v]
    BY DEF transactTransition, IInv, WorkerInv, TypeOK, Running, Goto
  <1>1. (\A v \in Workers : Running(v) => holder = v)'
    BY <1>0 DEF AppliedInv, Running
  <1>2. \A v \in Workers \ {w} : ~Running(v)'
    BY <1>0, OneRuns DEF Running
  <1>3. CASE ~Commits(w)
    <2>1. UNCHANGED record /\ pc'[w] \in {"throw", "release"}
      BY <1>0, <1>3 DEF transactTransition, Goto, IInv, TypeOK, TxRecords
    <2> QED
      BY <1>0, <1>1, <1>2, <2>1 DEF AppliedInv, Running, Dispatching
  <1>4. CASE Commits(w)
    <2>1. /\ record' = (IF tx[w].state = None THEN record ELSE tx[w].state)
          /\ pc'[w] \in {tx[w].then, tx[w].failed}
          /\ tx[w].failed = "throw" => rec[w] = record
      BY <1>4, CommitFacts
    <2>2. None \notin EffectStates
      BY NoneAssumption
    <2>3. tx[w].state = "prepared" => record \in {"absent", "prepared"}
      BY <1>4, <2>2 DEF Commits, putEffectRecord, EFFECT_TRANSITIONS, EffectStates
    <2>4. /\ pc'[w] \notin {"append", "commit"}
          /\ record' \in {"absent", "prepared"} => record \in {"absent", "prepared"} /\ pc'[w] # "send"
      BY <1>0, <2>1, <2>2, <2>3, TxFields DEF EffectStates
    <2>5. pc'[w] = "send" => wire = {} /\ applied = {}
      <3>1. pc'[w] = "send" =>
              /\ tx[w].event.type = "EffectDispatched"
              /\ rec[w] = record
              /\ tx[w].state = None \/ rec[w] = "prepared"
        BY <1>0, <2>1, TxFields
      <3> QED
        BY <1>0, <3>1 DEF AppliedInv, Dispatching
    <2>6. ASSUME NEW v \in Workers PROVE
            (pc[v] = "send" \/ (Dispatching(v) /\ tx[v].state = None) => wire = {} /\ applied = {})'
      BY <1>0, <1>2, <2>4, <2>5 DEF Running, Dispatching
    <2>7. record' \in {"absent", "prepared"} =>
            wire' = {} /\ applied' = {} /\ \A v \in Workers : pc'[v] # "send"
      BY <1>0, <1>2, <2>4 DEF AppliedInv, Running
    <2> QED
      BY <1>0, <1>1, <2>6, <2>7 DEF AppliedInv
  <1> QED
    BY <1>3, <1>4

(* While the heartbeat keeps the lease, every step keeps the account of what the adapter applied. *)
LEMMA AppliedStep ==
  ASSUME HeartbeatKeeps, IInv, AppliedInv, [Next]_vars
  PROVE  AppliedInv'
  <1>T. TypeOK /\ TypeOK' /\ None \notin Workers
    BY TypeStep, NoneAssumption DEF IInv
  <1> USE DEF config, runVars, workerVars, extVars
  <1>1. ASSUME NEW w \in Workers, LocalAction(w) PROVE AppliedInv'
    BY <1>1, <1>T, AppliedLocal
  <1>2. ASSUME NEW w \in Workers, Send(w) PROVE AppliedInv'
    BY <1>2, <1>T, AppliedSend
  <1>3. ASSUME NEW w \in Workers, transactTransition(w) PROVE AppliedInv'
    BY <1>3, <1>T, AppliedCommit
  <1>4. CASE (\E process \in Workers \cup {None} : Cancel(process)) \/ (\E w \in Workers : Abort(w))
             \/ LoseResult \/ UNCHANGED vars
    <2>1. UNCHANGED <<record, holder, pc, tx, wire, applied>>
      BY <1>4 DEF Cancel, Abort, LoseResult, vars
    <2> QED
      BY <2>1 DEF AppliedInv, Running, Dispatching
  <1>5. CASE ReconcileRecovered \/ ReconcileAbandoned
    <2>1. UNCHANGED <<holder, pc, tx, wire, applied>> /\ record' \in {"acknowledged", "abandoned"}
      BY <1>5 DEF ReconcileRecovered, ReconcileAbandoned, ReconcileWith
    <2> QED
      BY <2>1 DEF AppliedInv, Running, Dispatching
  <1>6. CASE DeadLeaseExpires
    <2>1. UNCHANGED <<record, pc, tx, wire, applied>> /\ holder # None /\ ~Running(holder)
      BY <1>6 DEF DeadLeaseExpires
    <2>2. \A w \in Workers : ~Running(w)
      BY <2>1 DEF AppliedInv
    <2> QED
      BY <2>1, <2>2 DEF AppliedInv, Running, Dispatching
  <1>7. ~LiveLeaseExpires
    BY DEF LiveLeaseExpires
  <1>8. ASSUME NEW n \in wire, Deliver(n) \/ Lose(n) PROVE AppliedInv'
    <2>1. UNCHANGED <<record, holder, pc, tx>> /\ wire' \cup applied' \subseteq wire \cup applied
      BY <1>8 DEF Deliver, Lose
    <2> QED
      BY <1>8, <2>1 DEF AppliedInv, Running, Dispatching
  <1> QED
    BY <1>1, <1>2, <1>3, <1>4, <1>5, <1>6, <1>7, <1>8 DEF Next, WorkerStep, LocalAction

\* As long as a live holder keeps its lease, the effect is applied at most once, the
\* redispatches of a reconcilable tool included: the lookup's not_applied still holds
\* when the dispatch that relies on it leaves.
THEOREM EffectAppliedOnce == ASSUME HeartbeatKeeps PROVE Spec => []AppliedOnce
  <1>1. AppliedInv => AppliedOnce
    <2> SUFFICES ASSUME AppliedInv PROVE Cardinality(applied) <= 1
      BY DEF AppliedOnce
    <2>1. CASE applied = {}
      BY <2>1, FS_EmptySet
    <2>2. CASE applied # {}
      <3>1. PICK n : applied = {n}
        BY <2>2 DEF AppliedInv
      <3> QED
        BY <3>1, FS_Singleton
    <2> QED
      BY <2>1, <2>2
  <1>2. IInv /\ AppliedInv /\ [Next]_vars => AppliedInv'
    BY AppliedStep
  <1> QED
    BY <1>1, <1>2, AppliedInit, IInvariance, PTL DEF Spec
=============================================================================
