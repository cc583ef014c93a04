-------------------------- MODULE AgentPartsProofs --------------------------
(***************************************************************************)
(* What a run consults and what stands in front of it, for every instance: *)
(* an effect is compensated at most once, the two policy evaluators decide *)
(* alike, grants, claims, refs and kill switch snapshots hold, an executor *)
(* call reaches the reviewed tool or nothing, the facade's tokens, grants  *)
(* and executions survive its awaits, an MCP connection releases what it   *)
(* opened, the HTTP handler acts behind its gates and its feed is in       *)
(* order, the project initializer destroys nothing, and a release has its  *)
(* dependencies out before a package.  One part of the module per          *)
(* component; the parts share nothing but the library.                     *)
(***************************************************************************)
EXTENDS Compensation, Policy, Authority, ExecutorGateway, LocalFacade, McpConnection,
  HttpGateway, Initializer, ReleasePublish, FiniteSetTheorems, SequenceTheorems,
  WellFoundedInduction, TLAPS

-----------------------------------------------------------------------------
(* Compensation *)

\* The events a compensation run is given.
CmpEvents ==
  {e \in EventRecords :
    /\ e.type = "RunSuspended" => e.target \in ResumeTargets
    /\ e.type \in {"VerificationRecorded", "VerificationExceptionRecorded"} =>
         e.verifier \in Verifiers}

\* A run's transitions lead to statuses, and none leads back to accepted once it started.
LEMMA CmpTransitions ==
  ASSUME NEW status
  PROVE  /\ RUN_TRANSITIONS(status) \subseteq Statuses
         /\ status # "created" => "accepted" \notin RUN_TRANSITIONS(status)
  BY DEF RUN_TRANSITIONS, Statuses, TerminalStatuses

\* A reducible event gives a projection, and no event makes a started run accepted again.
LEMMA CmpReduceType ==
  ASSUME NEW p \in Projections, NEW e \in CmpEvents, NEW q, Reducible(p, e, q)
  PROVE  /\ Reduce(p, e) \in Projections
         /\ Reduce(p, e).status = IF nextStatusFor(e) = None THEN p.status ELSE nextStatusFor(e)
         /\ p.status # "created" => Reduce(p, e).status # "created"
         /\ p.status \notin {"created", "accepted"} =>
              Reduce(p, e).status \notin {"created", "accepted"}
  <1>1. e \in EventRecords
    BY DEF CmpEvents
  <1>2. (IF nextStatusFor(e) = None THEN p.status ELSE nextStatusFor(e)) \in Statuses
    BY CmpTransitions DEF Reducible, Projections
  <1>3. e.type = "RunSuspended" => e.target \in ResumeTargets
    BY DEF CmpEvents
  <1>4. e.type \in {"VerificationRecorded", "VerificationExceptionRecorded"} =>
          e.verifier \in Verifiers
    BY DEF CmpEvents
  <1>5. Passed(p, e) \in SUBSET Verifiers
    BY <1>4 DEF Passed, Projections
  <1>6. /\ e.required \in SUBSET Verifiers /\ e.id \in Ids \cup {None}
    BY <1>1 DEF EventRecords
  <1> DEFINE f1 == IF nextStatusFor(e) = None THEN p.status ELSE nextStatusFor(e)
             f2 == IF e.type = "RunAccepted" THEN e.required ELSE p.required
             f3 == CASE e.type = "InputRequested" -> e.id
                     [] e.type = "InputSubmitted" -> None
                     [] OTHER -> p.waitingRequestId
             f4 == CASE e.type = "ApprovalRequested" -> e.id
                     [] e.type \in {"ApprovalRecorded", "ApprovalRejected"} -> None
                     [] OTHER -> p.waitingDecisionId
             f5 == CASE e.type = "RunSuspended" -> e.target
                     [] e.type \in {"PlanningStarted", "ExecutionStarted", "VerificationStarted"}
                          -> None
                     [] OTHER -> p.resumeTarget
             f6 == CASE e.type \in {"RunSuspended", "EffectPrepared"} -> e.id
                     [] e.type \in {"EffectAcknowledged", "EffectAbandoned"} -> None
                     [] OTHER -> p.activeEffectId
             f7 == IF e.type = "VerificationExceptionRecorded"
                   THEN p.exceptions \cup {e.verifier} ELSE p.exceptions
             f8 == IF e.type = "RunFailed" THEN TRUE ELSE p.terminalError
  <1>7. f1 \in Statuses
    BY <1>2
  <1>8. f2 \in SUBSET Verifiers /\ f7 \in SUBSET Verifiers
    BY <1>4, <1>6 DEF Projections
  <1>9. f3 \in Ids \cup {None} /\ f4 \in Ids \cup {None} /\ f6 \in Ids \cup {None}
    BY <1>6 DEF Projections
  <1>10. f5 \in ResumeTargets \cup {None}
    BY <1>3 DEF Projections
  <1>11. f8 \in BOOLEAN
    BY DEF Projections
  <1>12. p.lastSequence + 1 \in Nat
    BY DEF Projections
  <1>13. Reduce(p, e) =
           [kind |-> p.kind, status |-> f1, lastSequence |-> p.lastSequence + 1,
            resumeTarget |-> f5, waitingRequestId |-> f3, waitingDecisionId |-> f4,
            activeEffectId |-> f6, required |-> f2, passed |-> Passed(p, e),
            exceptions |-> f7, terminalError |-> f8]
    BY DEF Reduce
  <1>14. p.kind \in Kinds
    BY DEF Projections
  <1>15. Reduce(p, e).status = f1
    BY DEF Reduce
  <1>16. /\ p.status # "created" => f1 # "created"
         /\ p.status \notin {"created", "accepted"} => f1 \notin {"created", "accepted"}
    <2>1. "created" \notin RUN_TRANSITIONS(p.status)
      BY DEF RUN_TRANSITIONS
    <2> QED
      BY <2>1, CmpTransitions DEF Reducible
  <1>17. Reduce(p, e) \in Projections
    <2> HIDE DEF f1, f2, f3, f4, f5, f6, f7, f8
    <2> QED
      BY <1>5, <1>7, <1>8, <1>9, <1>10, <1>11, <1>12, <1>13, <1>14 DEF Projections
  <1> QED
    BY <1>15, <1>16, <1>17

\* Where the compensating call has not been made yet.
CmpBefore == {"start", "request", "resolve", "policy", "effect"}

\* The variables have their types.
CmpTypes ==
  /\ cmpIntent \in CmpRuns \cup {None}
  /\ cmpRuns \in [CmpRuns -> Projections \cup {None}]
  /\ cmpAnswered \in [CmpCommands -> CmpRuns \cup {None}]
  /\ cmpPc \in [CmpRuns -> CmpPlaces \cup {None}]
  /\ cmpSent \in [CmpRuns -> Nat]

\* A run is executed only when it exists, is past accepted once its execution has started,
\* and its compensating call is not made while the run is accepted or its execution stands
\* before the effect.
CmpRunOK(run, pc, sent) ==
  /\ pc # None => run # None
  /\ run # None => run.status # "created"
  /\ pc \notin {None, "start"} => run.status # "accepted"
  /\ run = None => sent = 0
  /\ run # None /\ run.status = "accepted" => sent = 0
  /\ pc \in CmpBefore => sent = 0
  /\ sent <= 1

\* The inductive invariant.
CmpInv ==
  /\ CmpTypes
  /\ CompensationBound
  /\ \A r \in CmpRuns : CmpRunOK(cmpRuns[r], cmpPc[r], cmpSent[r])

(* Before the first compensation request the log, the intents and the runs are empty. *)
LEMMA CmpInitInv == CmpInit => CmpInv
  BY CmpAssumption DEF CmpInit, CmpInv, CmpTypes, CompensationBound, CmpRunOK, CmpBefore

\* The events of the executions are events of a compensation run.
LEMMA CmpEventForms ==
  /\ \A t \in EventTypes \ {"RunSuspended", "VerificationRecorded", "VerificationExceptionRecorded"} :
       Ev(t) \in CmpEvents /\ Ev(t).type = t
  /\ EvSuspended("running", None) \in CmpEvents
  /\ EvSuspended("running", None).type = "RunSuspended"
  /\ \A v \in Verifiers :
       EvVerified(v, "pass") \in CmpEvents /\ EvVerified(v, "pass").type = "VerificationRecorded"
  BY DEF Ev, EvSuspended, EvVerified, CmpEvents, EventRecords, EventTypes, ResumeTargets

\* A step that changes one run, its execution and its calls only, and leaves them in order,
\* keeps the invariant.
LEMMA CmpOneRun ==
  ASSUME CmpInv, NEW r \in CmpRuns,
         NEW run \in Projections \cup {None}, NEW pc \in CmpPlaces \cup {None}, NEW sent \in Nat,
         cmpRuns' = [cmpRuns EXCEPT ![r] = run], cmpPc' = [cmpPc EXCEPT ![r] = pc],
         cmpSent' = [cmpSent EXCEPT ![r] = sent],
         UNCHANGED <<cmpOriginal, cmpIntent, cmpAnswered>>,
         CmpRunOK(run, pc, sent), run # None => cmpRuns[r] # None
  PROVE  CmpInv'
  <1>1. CmpTypes'
    BY DEF CmpInv, CmpTypes
  <1>2. ASSUME NEW q \in CmpRuns
        PROVE  /\ CmpRunOK(cmpRuns'[q], cmpPc'[q], cmpSent'[q])
               /\ cmpRuns'[q] # None => cmpRuns[q] # None
    <2>1. CASE q = r
      <3>1. cmpRuns'[q] = run /\ cmpPc'[q] = pc /\ cmpSent'[q] = sent
        BY <2>1 DEF CmpInv, CmpTypes
      <3> QED
        BY <2>1, <3>1
    <2>2. CASE q # r
      <3>1. cmpRuns'[q] = cmpRuns[q] /\ cmpPc'[q] = cmpPc[q] /\ cmpSent'[q] = cmpSent[q]
        BY <2>2 DEF CmpInv, CmpTypes
      <3>2. CmpRunOK(cmpRuns[q], cmpPc[q], cmpSent[q])
        BY DEF CmpInv
      <3> QED
        BY <3>1, <3>2
    <2> QED
      BY <2>1, <2>2
  <1>3. CompensationBound'
    BY <1>2 DEF CmpInv, CompensationBound
  <1> QED
    BY <1>1, <1>2, <1>3 DEF CmpInv

\* An event appended to an existing run leaves a run that is neither created nor, once it
\* was started, accepted.
LEMMA CmpAppends ==
  ASSUME CmpInv, NEW r \in CmpRuns, cmpRuns[r] # None, NEW e \in CmpEvents, CmpAppend(r, e)
  PROVE  /\ Reduce(cmpRuns[r], e) \in Projections
         /\ Reduce(cmpRuns[r], e) # None
         /\ cmpRuns' = [cmpRuns EXCEPT ![r] = Reduce(cmpRuns[r], e)]
         /\ Reduce(cmpRuns[r], e).status # "created"
         /\ cmpRuns[r].status # "accepted" => Reduce(cmpRuns[r], e).status # "accepted"
         /\ Reduce(cmpRuns[r], e).status = "accepted" => nextStatusFor(e) = None
         /\ Reduce(cmpRuns[r], e).status =
              IF nextStatusFor(e) = None THEN cmpRuns[r].status ELSE nextStatusFor(e)
  <1>1. cmpRuns[r] \in Projections /\ cmpRuns[r].status # "created"
    BY DEF CmpInv, CmpTypes, CmpRunOK
  <1>2. Reducible(cmpRuns[r], e, cmpRuns[r].lastSequence + 1)
        /\ cmpRuns' = [cmpRuns EXCEPT ![r] = Reduce(cmpRuns[r], e)]
    BY DEF CmpAppend
  <1>3. "accepted" \notin RUN_TRANSITIONS(cmpRuns[r].status)
    BY <1>1, CmpTransitions
  <1> QED
    BY <1>1, <1>2, <1>3, CmpReduceType, CmpAssumption, NoneIsNoId
    DEF Reducible, Statuses

\* A step of a run's execution, its cancellation or a crash keeps the invariant.
LEMMA CmpStepKeeps ==
  ASSUME CmpInv, NEW r \in CmpRuns, CmpStep(r) \/ CmpCrash(r)
  PROVE  CmpInv'
  <1> DEFINE run == cmpRuns[r]
             pc == cmpPc[r]
             sent == cmpSent[r]
  <1>1. /\ run \in Projections \cup {None} /\ pc \in CmpPlaces \cup {None} /\ sent \in Nat
        /\ CmpRunOK(run, pc, sent)
    BY DEF CmpInv, CmpTypes
  <1>2. /\ cmpRuns = [cmpRuns EXCEPT ![r] = run] /\ cmpPc = [cmpPc EXCEPT ![r] = pc]
        /\ cmpSent = [cmpSent EXCEPT ![r] = sent]
    BY DEF CmpInv, CmpTypes
  <1>3. ASSUME NEW e \in CmpEvents, CmpAppend(r, e), run # None, NEW to \in CmpPlaces \cup {None},
               cmpPc' = [cmpPc EXCEPT ![r] = to], CmpQuiet,
               to \notin {None, "start"} =>
                 run.status # "accepted" \/ nextStatusFor(e) \notin {None, "accepted"},
               run.status = "accepted" => sent = 0,
               to \in CmpBefore => sent = 0
        PROVE  CmpInv'
    <2> DEFINE new == Reduce(run, e)
    <2>1. /\ new \in Projections /\ new # None
          /\ cmpRuns' = [cmpRuns EXCEPT ![r] = new]
          /\ new.status # "created"
          /\ run.status # "accepted" => new.status # "accepted"
          /\ new.status = "accepted" => nextStatusFor(e) = None
      BY <1>3, CmpAppends
    <2>2. CmpRunOK(new, to, sent)
      <3> HIDE DEF new
      <3> QED
        BY <1>1, <1>3, <2>1 DEF CmpRunOK
    <2>3. cmpSent' = [cmpSent EXCEPT ![r] = sent]
      BY <1>2, <1>3 DEF CmpQuiet
    <2> HIDE DEF new
    <2> QED
      BY <1>1, <1>3, <2>1, <2>2, <2>3, CmpOneRun DEF CmpQuiet
  <1>4. ASSUME NEW to \in CmpPlaces \cup {None}, cmpPc' = [cmpPc EXCEPT ![r] = to],
               UNCHANGED <<cmpRuns, cmpSent, cmpOriginal, cmpIntent, cmpAnswered>>,
               CmpRunOK(run, to, sent)
        PROVE  CmpInv'
    BY <1>1, <1>2, <1>4, CmpOneRun
  <1>5. ASSUME CmpFail(r), CmpQuiet, run # None PROVE CmpInv'
    BY <1>1, <1>3, <1>5, CmpEventForms, CmpAssumption
    DEF CmpFail, CmpGo, CmpRunOK, EventTypes, CmpBefore, CmpPlaces
  <1>6. CASE CmpExecute(r)
    BY <1>1, <1>4, <1>6, CmpAssumption
    DEF CmpExecute, CmpGo, CmpQuiet, CmpRunOK, CmpBefore, CmpStartable, CmpPlaces
  <1>7. CASE CmpStart(r)
    <2>1. nextStatusFor(Ev("ExecutionStarted")) = "running"
      BY DEF Ev, nextStatusFor
    <2>2. "running" # None
      BY NoneIsNoId DEF Statuses
    <2> QED
      BY <1>1, <1>3, <1>7, <2>1, <2>2, CmpEventForms, CmpAssumption
      DEF CmpStart, CmpGo, CmpRunOK, EventTypes, CmpBefore, CmpPlaces
  <1>8. CASE CmpRequested(r)
    BY <1>1, <1>3, <1>8, CmpEventForms, CmpAssumption
    DEF CmpRequested, CmpGo, CmpRunOK, EventTypes, CmpBefore, CmpPlaces
  <1>9. CASE CmpResolve(r)
    BY <1>1, <1>3, <1>5, <1>9, CmpEventForms, CmpAssumption
    DEF CmpResolve, CmpGo, CmpRunOK, EventTypes, CmpBefore, CmpPlaces
  <1>10. CASE CmpPolicy(r)
    BY <1>1, <1>4, <1>5, <1>10, CmpAssumption
    DEF CmpPolicy, CmpGo, CmpQuiet, CmpRunOK, CmpBefore, CmpPlaces
  <1>11. CASE CmpEffect(r)
    <2>1. pc = "effect" /\ run # None /\ sent = 0 /\ run.status \notin {"created", "accepted"}
      BY <1>1, <1>11, CmpAssumption DEF CmpEffect, CmpRunOK, CmpBefore, CmpPlaces
    <2>2. CASE cmpSent' = [cmpSent EXCEPT ![r] = @ + 1] /\ CmpGo(r, "result") /\ UNCHANGED cmpRuns
      <3>1. cmpSent' = [cmpSent EXCEPT ![r] = 1]
        BY <2>1, <2>2 DEF CmpInv, CmpTypes
      <3>2. CmpRunOK(run, "result", 1)
        BY <2>1, CmpAssumption DEF CmpRunOK, CmpBefore, CmpPlaces
      <3> QED
        BY <1>1, <1>2, <1>11, <2>2, <3>1, <3>2, CmpOneRun DEF CmpEffect, CmpGo, CmpPlaces
    <2>3. CASE CmpFail(r) /\ UNCHANGED cmpSent
      BY <1>5, <1>11, <2>1, <2>3 DEF CmpEffect, CmpQuiet
    <2> QED
      BY <1>11, <2>2, <2>3 DEF CmpEffect
  <1>12. CASE CmpResult(r)
    BY <1>1, <1>3, <1>12, CmpEventForms, CmpAssumption
    DEF CmpResult, CmpGo, CmpRunOK, EventTypes, CmpBefore, CmpPlaces
  <1>13. CASE CmpArtifact(r)
    BY <1>1, <1>3, <1>13, CmpEventForms, CmpAssumption
    DEF CmpArtifact, CmpGo, CmpRunOK, EventTypes, CmpBefore, CmpPlaces
  <1>14. CASE CmpFinalize(r)
    <2>1. /\ pc = "finalize" /\ run # None /\ run.status # "accepted" /\ CmpQuiet
          /\ pc \notin CmpBefore /\ pc \in CmpPlaces
      BY <1>1, <1>14, CmpAssumption DEF CmpFinalize, CmpRunOK, CmpBefore, CmpPlaces
    <2>2. ASSUME NEW e \in CmpEvents, CmpAppend(r, e), UNCHANGED cmpPc PROVE CmpInv'
      BY <1>2, <1>3, <2>1, <2>2
    <2>3. ASSUME NEW e \in CmpEvents, CmpAppend(r, e), CmpGo(r, None) PROVE CmpInv'
      BY <1>3, <2>1, <2>3, CmpAssumption DEF CmpGo, CmpBefore, CmpPlaces
    <2>4. run.required \subseteq Verifiers
      BY <1>1, <2>1 DEF Projections
    <2>5. Ev("VerificationStarted") \in CmpEvents /\ Ev("RunCompleted") \in CmpEvents
      BY CmpEventForms DEF EventTypes
    <2> QED
      BY <1>5, <1>14, <2>1, <2>2, <2>3, <2>4, <2>5, CmpEventForms DEF CmpFinalize
  <1>15. CASE CmpCancel(r)
    <2>1. nextStatusFor(Ev("RunCancelled")) = "cancelled" /\ "cancelled" # None
      BY NoneIsNoId DEF Ev, nextStatusFor, Statuses, TerminalStatuses
    <2> QED
      BY <1>1, <1>2, <1>3, <1>15, <2>1, CmpEventForms DEF CmpCancel, CmpRunOK, EventTypes
  <1>16. CASE CmpAbort(r)
    <2>1. run # None /\ CmpQuiet /\ CmpGo(r, None)
      BY <1>1, <1>16 DEF CmpAbort, CmpRunOK
    <2>2. CASE run.status \in TerminalStatuses
      <3>1. CmpRunOK(run, None, sent)
        BY <1>1, CmpAssumption DEF CmpRunOK, CmpBefore, CmpPlaces
      <3> QED
        BY <1>4, <1>16, <2>1, <2>2, <3>1 DEF CmpAbort, CmpGo, CmpQuiet
    <2>3. CASE run.status \notin TerminalStatuses
      BY <1>1, <1>3, <1>16, <2>1, <2>3, CmpEventForms, CmpAssumption
      DEF CmpAbort, CmpGo, CmpRunOK, EventTypes, CmpBefore, CmpPlaces
    <2> QED
      BY <2>2, <2>3
  <1>17. CASE CmpCrash(r)
    <2>1. CmpRunOK(run, None, sent)
      BY <1>1, CmpAssumption DEF CmpRunOK, CmpBefore, CmpPlaces
    <2> QED
      BY <1>4, <1>17, <2>1 DEF CmpCrash, CmpGo
  <1> QED
    BY <1>6, <1>7, <1>8, <1>9, <1>10, <1>11, <1>12, <1>13, <1>14, <1>15, <1>16, <1>17 DEF CmpStep

\* A request that commits makes the run its intent names, and no other exists.
LEMMA CmpRequestKeeps ==
  ASSUME CmpInv, NEW c \in CmpCommands, NEW r \in CmpRuns, CmpRequest(c, r)
  PROVE  CmpInv'
  <1> DEFINE e == [Ev("RunAccepted") EXCEPT !.required = Verifiers]
             run == Reduce(createRunProjection("compensation"), e)
  <1>1. run.status = "accepted"
    BY NoneIsNoId DEF Reduce, nextStatusFor, Ev, Statuses
  <1>2. run \in Projections
    BY NoneIsNoId DEF Reduce, createRunProjection, nextStatusFor, Ev, Statuses, Projections, Kinds,
      Passed
  <1>3. run # None
    BY <1>2, CmpAssumption
  <1>4. cmpRuns' = [cmpRuns EXCEPT ![r] = run]
    BY DEF CmpRequest
  <1> HIDE DEF run, e
  <1>5. cmpRuns[r] = None /\ cmpSent[r] = 0 /\ cmpPc[r] = None
    BY DEF CmpInv, CmpTypes, CmpRequest, CmpRunOK
  <1>6. cmpIntent' = r /\ (cmpIntent = None \/ cmpIntent = r)
    BY DEF CmpRequest, CmpIntentHeld
  <1>7. CmpTypes'
    BY <1>2, <1>4, <1>6 DEF CmpInv, CmpTypes, CmpRequest
  <1>8. CompensationBound'
    <2>1. \A q \in CmpRuns : cmpRuns'[q] # None => cmpOriginal' = "acknowledged" /\ cmpIntent' = q
      BY <1>3, <1>4, <1>6, CmpAssumption DEF CmpInv, CmpTypes, CompensationBound, CmpRequest
    <2>2. \A d \in CmpCommands : cmpAnswered'[d] # None => cmpAnswered'[d] = cmpIntent'
      BY <1>6 DEF CmpInv, CmpTypes, CompensationBound, CmpRequest
    <2> QED
      BY <2>1, <2>2 DEF CompensationBound
  <1>9. ASSUME NEW q \in CmpRuns PROVE CmpRunOK(cmpRuns'[q], cmpPc'[q], cmpSent'[q])
    <2>1. cmpPc' = cmpPc /\ cmpSent' = cmpSent
      BY DEF CmpRequest
    <2>2. CASE q = r
      <3>1. cmpRuns'[q] = run /\ cmpPc'[q] = None /\ cmpSent'[q] = 0
        BY <1>4, <1>5, <2>1, <2>2 DEF CmpInv, CmpTypes
      <3> QED
        BY <1>1, <1>3, <3>1, CmpAssumption DEF CmpRunOK, CmpBefore, CmpPlaces
    <2>3. CASE q # r
      <3>1. cmpRuns'[q] = cmpRuns[q]
        BY <1>4, <2>3 DEF CmpInv, CmpTypes
      <3> QED
        BY <2>1, <3>1 DEF CmpInv
    <2> QED
      BY <2>2, <2>3
  <1> QED
    BY <1>7, <1>8, <1>9 DEF CmpInv

\* Every step keeps the invariant.
LEMMA CmpNextKeeps == CmpInv /\ [CmpNext]_cmpVars => CmpInv'
  <1> SUFFICES ASSUME CmpInv, [CmpNext]_cmpVars PROVE CmpInv'
    OBVIOUS
  <1>1. CASE CmpOriginalEnds
    BY <1>1 DEF CmpOriginalEnds, CmpInv, CmpTypes, CompensationBound
  <1>2. CASE CmpKill
    BY <1>2 DEF CmpKill, CmpInv, CmpTypes, CompensationBound
  <1>3. CASE UNCHANGED cmpVars
    BY <1>3 DEF cmpVars, CmpInv, CmpTypes, CompensationBound
  <1> QED
    BY <1>1, <1>2, <1>3, CmpStepKeeps, CmpRequestKeeps DEF CmpNext

\* Operators, retries and crashes together compensate an effect at most once, and only one
\* that was acknowledged, under its intent (requestCompensation, #executeCompensation).
THEOREM CompensationIsSafe == CmpSpec => []CompensationSafe
  <1>1. CmpInv => CompensationSafe
    <2> SUFFICES ASSUME CmpInv PROVE CompensationSafe
      OBVIOUS
    <2>1. \A r \in CmpRuns : cmpSent[r] \in Nat /\ cmpSent[r] <= 1
      BY DEF CmpInv, CmpTypes, CmpRunOK
    <2>2. \A r \in CmpRuns : cmpSent[r] > 0 => cmpIntent = r
      BY DEF CmpInv, CmpTypes, CmpRunOK, CompensationBound
    <2>3. CompensatedOnce
      BY <2>1, <2>2 DEF CompensatedOnce
    <2> QED
      BY <2>3 DEF CmpInv, CompensationSafe
  <1> QED
    BY <1>1, CmpInitInv, CmpNextKeeps, PTL DEF CmpSpec

-----------------------------------------------------------------------------
(* Policy *)

\* The inductive invariant: the two answers are absent, or those to the call as it is now.
PolInv ==
  /\ polCall \in PolCalls
  /\ polApproval \in [given : BOOLEAN, strength : PolStrengths, bound : BOOLEAN]
  /\ polAge \in Nat
  /\ \/ polDecision = "none" /\ polPreflight = "none"
     \/ /\ polDecision = PolDecision(polCall, polApproval, polAge)
        /\ polPreflight = PolPreflight(polCall)

\* Every step leaves no answer or the answers to the call it leaves.
LEMMA PolInvariant == PolSpec => []PolInv
  <1>1. PolInit => PolInv
    BY DEF PolInit, PolInv, PolStrengths
  <1>2. PolInv /\ [PolNext]_polVars => PolInv'
    <2> SUFFICES ASSUME PolInv, [PolNext]_polVars PROVE PolInv'
      OBVIOUS
    <2>1. CASE PolEvaluate
      BY <2>1 DEF PolInv, PolEvaluate
    <2>2. CASE PolApprove
      <3>1. polApproval' \in [given : BOOLEAN, strength : PolStrengths, bound : BOOLEAN]
        BY <2>2 DEF PolApprove
      <3> QED
        BY <2>2, <3>1 DEF PolInv, PolApprove
    <2>3. CASE PolTick
      BY <2>3 DEF PolInv, PolTick
    <2>4. CASE PolKill
      <3>1. polCall' \in PolCalls
        BY <2>4 DEF PolInv, PolKill, PolCalls, PolChecks
      <3> QED
        BY <2>4, <3>1 DEF PolInv, PolKill
    <2>5. CASE UNCHANGED polVars
      BY <2>5 DEF PolInv, polVars
    <2> QED
      BY <2>1, <2>2, <2>3, <2>4, <2>5 DEF PolNext
  <1> QED
    BY <1>1, <1>2, PTL DEF PolSpec

\* The complete evaluator against the preflight, for every call, approval and age.
LEMMA EvaluatorsCompared ==
  ASSUME NEW call \in PolCalls, NEW a, NEW age
  PROVE  /\ PolDecision(call, a, age) = "allow" /\ ~a.given =>
              PolPreflight(call) = "allow_with_grant"
         /\ PolDecision(call, a, age) = "require_approval" =>
              PolPreflight(call) = "require_approval" /\ ~PolDenied(call) /\ call.risk \in {4, 5}
         /\ PolPreflight(call) = "deny" => PolDecision(call, a, age) = "deny"
  <1>1. call.risk \in 0..5
    BY DEF PolCalls
  <1>2. ~PolDenied(call) => call.fails = "nothing"
    BY DEF PolDenied
  <1> QED
    BY <1>1, <1>2 DEF PolDecision, PolPreflight

\* What the strongest, bound and fresh approval does for a call the preflight asks about.
LEMMA StrongestApproval ==
  ASSUME NEW call \in PolCalls, PolPreflight(call) = "require_approval"
  PROVE  PolDecision(call, [given |-> TRUE, strength |-> 3, bound |-> TRUE], 0) = "allow" <=>
           /\ call.grant = "matching" /\ call.preview /\ call.write
           /\ call.risk = 5 => call.enableR5
  <1>1. call.fails = "nothing" /\ call.risk \in {4, 5}
    BY DEF PolPreflight
  <1>2. 0 < PolExpiresAt /\ 0 <= PolR5MaxAge
    BY PolAssumption
  <1>3. PolDecision(call, [given |-> TRUE, strength |-> 3, bound |-> TRUE], 0) = "allow" <=>
          ~PolDenied(call)
    BY <1>1, <1>2 DEF PolDecision, PolApprovalMatches, PolStrong
  <1>4. call.preview \in BOOLEAN /\ call.write \in BOOLEAN /\ call.enableR5 \in BOOLEAN
    BY DEF PolCalls
  <1> QED
    BY <1>1, <1>3, <1>4 DEF PolDenied

\* A call that is denied stays denied under every step.
LEMMA DenialStands ==
  ASSUME PolInv, [PolNext]_polVars
  PROVE  DeniedForGood
  <1> SUFFICES ASSUME PolDecision(polCall, polApproval, polAge) = "deny"
               PROVE  PolDecision(polCall', polApproval', polAge') = "deny"
    BY DEF DeniedForGood
  <1>1. polCall \in PolCalls /\ polAge \in Nat
    BY DEF PolInv
  <1>2. CASE PolEvaluate \/ UNCHANGED polVars
    BY <1>2 DEF PolEvaluate, polVars
  <1>3. CASE PolApprove
    <2>1. PolDenied(polCall)
      BY <1>3 DEF PolApprove, PolDecision
    <2> QED
      BY <1>3, <2>1 DEF PolApprove, PolDecision
  <1>4. CASE PolTick
    <2>1. CASE PolDenied(polCall)
      BY <1>4, <2>1 DEF PolTick, PolDecision
    <2>2. CASE ~PolDenied(polCall)
      <3>1. polApproval.given /\ ~(polCall.risk <= 3)
            /\ ~(PolApprovalMatches(polApproval, polAge) /\ PolStrong(polCall, polApproval, polAge))
        BY <2>2 DEF PolDecision
      <3>2. /\ PolApprovalMatches(polApproval, polAge + 1) => PolApprovalMatches(polApproval, polAge)
            /\ PolStrong(polCall, polApproval, polAge + 1) => PolStrong(polCall, polApproval, polAge)
        BY <1>1, PolAssumption DEF PolApprovalMatches, PolStrong
      <3> QED
        BY <1>4, <2>2, <3>1, <3>2 DEF PolTick, PolDecision
    <2> QED
      BY <2>1, <2>2
  <1>5. CASE PolKill
    <2>1. polCall'.fails = "killed"
      BY <1>1, <1>5 DEF PolKill, PolCalls
    <2> QED
      BY <2>1 DEF PolDecision, PolDenied
  <1> QED
    BY <1>2, <1>3, <1>4, <1>5 DEF PolNext

\* For every call and every order of approvals, time and kills: the runtime's engine is no
\* stricter than the complete evaluator and asks wherever that one asks, its approvals are in
\* vain for exactly the calls without grant, preview, write strategy or R5 switch, and what
\* is denied stays denied (policy.ts evaluatePolicyPreflight, evaluatePolicy).
THEOREM PolicyIsSound == PolSpec => PolicySound
  <1>1. PolInv => EvaluatorsAgree /\ ApprovalSuffices
    <2> SUFFICES ASSUME PolInv PROVE EvaluatorsAgree /\ ApprovalSuffices
      OBVIOUS
    <2>1. polCall \in PolCalls
      BY DEF PolInv
    <2>2. EvaluatorsAgree
      BY <2>1, EvaluatorsCompared DEF PolInv, EvaluatorsAgree
    <2>3. polPreflight = "require_approval" => PolPreflight(polCall) = "require_approval"
      BY DEF PolInv
    <2> QED
      BY <2>1, <2>2, <2>3, StrongestApproval DEF ApprovalSuffices
  <1>2. PolInv /\ PolInv' /\ [PolNext]_polVars =>
          [(EvaluatorsAgree /\ ApprovalSuffices)' /\ DeniedForGood]_polVars
    <2>1. PolInv' => (EvaluatorsAgree /\ ApprovalSuffices)'
      BY <1>1, PTL
    <2> QED
      BY <2>1, DenialStands
  <1> QED
    BY <1>2, PolInvariant, PTL DEF PolSpec, PolicySound

-----------------------------------------------------------------------------
(* Authority *)

\* The claims of a grant are finite in number, so that counting them means something.
ClaimsFinite == \A g \in AuthGrants : IsFiniteSet(authGrants[g].claims)

\* The recorded uses of a secret ref are finite in number.
UsesFinite == \A r \in AuthSecrets : IsFiniteSet(authUses[r])

\* A snapshot is no newer than the registry, and one of the registry's version holds the
\* registry's entries.
SnapshotsBehind ==
  \A s \in authSnaps :
    /\ s.version \in Nat /\ s.version <= authVersion
    /\ s.version = authVersion => s.entries = authKilled

\* The inductive invariant.
AuthInv ==
  /\ AuthTypeOK /\ GrantWithinLimit /\ AllOrNothing /\ VersionTellsEntries
  /\ ClaimsFinite /\ SnapshotsBehind
  /\ SecretWithinLimit /\ UsesFinite

\* The invariant holds at the start.
LEMMA AuthInitInv == AuthInit => AuthInv
  <1> SUFFICES ASSUME AuthInit PROVE AuthInv
    OBVIOUS
  <1>1. AuthTypeOK
    BY AuthAssumption DEF AuthInit, AuthTypeOK
  <1>2. \A g \in AuthGrants : authGrants[g].claims = {}
    BY DEF AuthInit
  <1>3. Cardinality({}) = 0 /\ IsFiniteSet({})
    BY FS_EmptySet
  <1>4. GrantWithinLimit /\ ClaimsFinite
    <2>1. \A g \in AuthGrants : IsFiniteSet(authGrants[g].claims)
                               /\ Cardinality(authGrants[g].claims) = 0
      BY <1>2, <1>3
    <2>2. 0 <= AuthMaximumUses
      BY AuthAssumption
    <2> QED
      BY <2>1, <2>2 DEF GrantWithinLimit, ClaimsFinite
  <1>7. SecretWithinLimit /\ UsesFinite
    <2>1. \A r \in AuthSecrets : authUses[r] = {}
      BY DEF AuthInit
    <2>2. 0 <= AuthMaximumUses
      BY AuthAssumption
    <2> QED
      BY <1>3, <2>1, <2>2 DEF SecretWithinLimit, UsesFinite
  <1>5. AllOrNothing
    <2>1. ASSUME NEW s \in AuthSubjects
          PROVE  authClaims[s] = {k \in AuthKeys : authRes[k].state # "none" /\ s \in authRes[k].subjects}
      BY DEF AuthInit
    <2> QED
      BY <2>1 DEF AllOrNothing
  <1>6. VersionTellsEntries /\ SnapshotsBehind
    BY DEF AuthInit, VersionTellsEntries, SnapshotsBehind
  <1> QED
    BY <1>1, <1>4, <1>5, <1>6, <1>7 DEF AuthInv

\* Grants: whoever resolved a grant while a use was left, its claims stay within the limit.
LEMMA AuthGrantKeeps ==
  ASSUME AuthInv, AuthGrantStep
  PROVE  AuthInv'
  <1>1. /\ AuthTypeOK /\ GrantWithinLimit /\ ClaimsFinite
    BY DEF AuthInv
  <1>2. UNCHANGED <<authNow, authRes, authClaims, authRefs, authReads, authUses, authKilled, authVersion,
                    authSnaps>>
    BY DEF AuthGrantStep, AuthIssue, AuthRevoke, AuthResolve, AuthReserveUse, AuthForget,
      AuthGrantOnly
  <1>3. /\ AllOrNothing' /\ VersionTellsEntries' /\ SnapshotsBehind'
        /\ SecretWithinLimit' /\ UsesFinite'
    BY <1>2 DEF AuthInv, AllOrNothing, VersionTellsEntries, SnapshotsBehind, SecretWithinLimit,
      UsesFinite
  <1> DEFINE Grants == [status : {"absent", "issued", "revoked"}, claims : SUBSET AuthKeys]
             Good(claims) == IsFiniteSet(claims) /\ Cardinality(claims) <= AuthMaximumUses
             Kept == /\ authGrants' \in [AuthGrants -> Grants]
                     /\ authCaller' \in [AuthKeys -> AuthGrants \cup {"idle"}]
                     /\ \A g \in AuthGrants : Good(authGrants'[g].claims)
  <1>4. Kept
    <2>1. /\ authGrants \in [AuthGrants -> Grants]
          /\ authCaller \in [AuthKeys -> AuthGrants \cup {"idle"}]
          /\ \A g \in AuthGrants : Good(authGrants[g].claims)
      BY <1>1 DEF AuthTypeOK, GrantWithinLimit, ClaimsFinite
    <2>2. ASSUME NEW g \in AuthGrants, AuthIssue(g) \/ AuthRevoke(g)
          PROVE  Kept
      <3>1. /\ authGrants' \in [AuthGrants -> Grants] /\ authCaller' = authCaller
            /\ \A h \in AuthGrants : authGrants'[h].claims = authGrants[h].claims
        BY <2>1, <2>2 DEF AuthIssue, AuthRevoke
      <3> HIDE DEF Good
      <3> QED
        BY <2>1, <3>1
    <2>3. ASSUME NEW g \in AuthGrants, NEW k \in AuthKeys, AuthResolve(k, g)
          PROVE  Kept
      <3>1. authGrants' = authGrants /\ authCaller' \in [AuthKeys -> AuthGrants \cup {"idle"}]
        BY <2>1, <2>3 DEF AuthResolve
      <3> HIDE DEF Good
      <3> QED
        BY <2>1, <3>1
    <2>4. ASSUME NEW k \in AuthKeys, AuthForget(k)
          PROVE  Kept
      <3>1. authGrants' = authGrants /\ authCaller' \in [AuthKeys -> AuthGrants \cup {"idle"}]
        BY <2>1, <2>4 DEF AuthForget
      <3> HIDE DEF Good
      <3> QED
        BY <2>1, <3>1
    <2>5. ASSUME NEW g \in AuthGrants, NEW k \in AuthKeys, AuthReserveUse(k, g)
          PROVE  Kept
      <3> DEFINE claims == authGrants[g].claims
      <3>1. /\ authGrants' \in [AuthGrants -> Grants] /\ authCaller' = authCaller
            /\ authGrants'[g].claims = claims \cup {k}
            /\ \A h \in AuthGrants : h # g => authGrants'[h].claims = authGrants[h].claims
        BY <2>1, <2>5 DEF AuthReserveUse
      <3>2. IsFiniteSet(claims) /\ Cardinality(claims) <= AuthMaximumUses
            /\ Cardinality(claims) \in Nat
        BY <2>1, FS_CardinalityType
      <3>3. k \in claims \/ Cardinality(claims) < AuthMaximumUses
        BY <2>5 DEF AuthReserveUse, AuthClaimable, AuthLeft
      <3>4. Good(claims \cup {k})
        <4>1. CASE k \in claims
          <5>1. claims \cup {k} = claims
            BY <4>1
          <5> QED
            BY <3>2, <5>1
        <4>2. CASE k \notin claims
          <5>1. IsFiniteSet(claims \cup {k}) /\ Cardinality(claims \cup {k}) = Cardinality(claims) + 1
            <6> HIDE DEF claims
            <6> QED
              BY <3>2, <4>2, FS_AddElement
          <5> HIDE DEF claims
          <5> QED
            BY <3>2, <3>3, <4>2, <5>1, AuthAssumption
        <4> QED
          BY <4>1, <4>2
      <3> HIDE DEF Good
      <3> QED
        BY <2>1, <3>1, <3>4
    <2> HIDE DEF Kept
    <2> QED
      BY <2>2, <2>3, <2>4, <2>5 DEF AuthGrantStep
  <1>5. AuthTypeOK'
    BY <1>1, <1>2, <1>4 DEF AuthTypeOK
  <1>6. GrantWithinLimit' /\ ClaimsFinite'
    BY <1>4 DEF GrantWithinLimit, ClaimsFinite
  <1> QED
    BY <1>3, <1>5, <1>6 DEF AuthInv

\* Reservations: a subject's claims are those of the reservations that name it.
LEMMA AuthReserveKeeps ==
  ASSUME AuthInv, AuthReserveStep
  PROVE  AuthInv'
  <1>1. AuthTypeOK /\ AllOrNothing
    BY DEF AuthInv
  <1>2. AuthResOnly
    BY DEF AuthReserveStep, AuthReserve, AuthConsume
  <1>3. /\ GrantWithinLimit' /\ ClaimsFinite' /\ VersionTellsEntries' /\ SnapshotsBehind'
        /\ SecretWithinLimit' /\ UsesFinite'
    BY <1>2 DEF AuthResOnly, AuthInv, GrantWithinLimit, ClaimsFinite, VersionTellsEntries,
      SnapshotsBehind, SecretWithinLimit, UsesFinite
  <1> DEFINE Kept == [state : {"reserved", "consumed"}, id : AuthIds, subjects : SUBSET AuthSubjects]
             Rows == {[state |-> "none"]} \cup Kept
  <1>4. authRes \in [AuthKeys -> Rows] /\ authClaims \in [AuthSubjects -> SUBSET AuthKeys]
    BY <1>1 DEF AuthTypeOK
  <1>5. ASSUME NEW k \in AuthKeys, NEW id \in AuthIds, NEW subjects \in SUBSET AuthSubjects,
               AuthReserve(k, id, subjects)
        PROVE  /\ authRes' \in [AuthKeys -> Rows] /\ authClaims' \in [AuthSubjects -> SUBSET AuthKeys]
               /\ AllOrNothing'
    <2> DEFINE row == [state |-> "reserved", id |-> id, subjects |-> subjects]
    <2>1. /\ authRes' = [authRes EXCEPT ![k] = row] /\ authRes[k].state = "none"
          /\ authClaims' = [s \in AuthSubjects |->
                              IF s \in subjects THEN authClaims[s] \cup {k} ELSE authClaims[s]]
      BY <1>5 DEF AuthReserve
    <2>2. row \in Kept /\ row.state = "reserved" /\ row.subjects = subjects
      OBVIOUS
    <2>3. authRes' \in [AuthKeys -> Rows] /\ authClaims' \in [AuthSubjects -> SUBSET AuthKeys]
      BY <1>4, <2>1, <2>2
    <2>4. authRes'[k] = row /\ \A q \in AuthKeys : q # k => authRes'[q] = authRes[q]
      BY <1>4, <2>1
    <2>5. ASSUME NEW s \in AuthSubjects
          PROVE  authClaims'[s] =
                   {q \in AuthKeys : authRes'[q].state # "none" /\ s \in authRes'[q].subjects}
      <3>1. authClaims[s] = {q \in AuthKeys : authRes[q].state # "none" /\ s \in authRes[q].subjects}
        BY <1>1 DEF AllOrNothing
      <3>2. authClaims'[s] = IF s \in subjects THEN authClaims[s] \cup {k} ELSE authClaims[s]
        BY <2>1
      <3> HIDE DEF row
      <3> QED
        BY <2>1, <2>2, <2>4, <3>1, <3>2
    <2> QED
      BY <2>3, <2>5 DEF AllOrNothing
  <1>6. ASSUME NEW k \in AuthKeys, AuthConsume(k)
        PROVE  /\ authRes' \in [AuthKeys -> Rows] /\ authClaims' \in [AuthSubjects -> SUBSET AuthKeys]
               /\ AllOrNothing'
    <2>1. /\ authRes' = [authRes EXCEPT ![k].state = "consumed"] /\ authRes[k].state = "reserved"
          /\ authClaims' = authClaims
      BY <1>6 DEF AuthConsume
    <2>2. authRes[k] \in Kept
      BY <1>4, <2>1
    <2>3. /\ authRes'[k] = [authRes[k] EXCEPT !.state = "consumed"]
          /\ \A q \in AuthKeys : q # k => authRes'[q] = authRes[q]
      BY <1>4, <2>1
    <2>4. /\ authRes'[k] \in Kept /\ authRes'[k].state = "consumed"
          /\ authRes'[k].subjects = authRes[k].subjects
      BY <2>2, <2>3
    <2>5. authRes' \in [AuthKeys -> Rows]
      BY <1>4, <2>1, <2>3, <2>4
    <2>6. ASSUME NEW s \in AuthSubjects
          PROVE  authClaims'[s] =
                   {q \in AuthKeys : authRes'[q].state # "none" /\ s \in authRes'[q].subjects}
      <3>1. authClaims[s] = {q \in AuthKeys : authRes[q].state # "none" /\ s \in authRes[q].subjects}
        BY <1>1 DEF AllOrNothing
      <3> QED
        BY <2>1, <2>3, <2>4, <3>1
    <2> QED
      BY <1>4, <2>1, <2>5, <2>6 DEF AllOrNothing
  <1>7. /\ authRes' \in [AuthKeys -> Rows] /\ authClaims' \in [AuthSubjects -> SUBSET AuthKeys]
        /\ AllOrNothing'
    <2>1. ASSUME NEW g \in AuthGrants, NEW a \in SUBSET AuthApprovals, NEW s \in SUBSET AuthSecrets
          PROVE  {g} \cup a \cup s \in SUBSET AuthSubjects
      BY DEF AuthSubjects
    <2> HIDE DEF Rows
    <2> QED
      BY <1>5, <1>6, <2>1 DEF AuthReserveStep
  <1>8. AuthTypeOK'
    BY <1>1, <1>2, <1>7 DEF AuthTypeOK, AuthResOnly
  <1> QED
    BY <1>3, <1>7, <1>8 DEF AuthInv

\* A resolution records its use only while fewer than maximumUses are recorded.
LEMMA AuthUsesKept ==
  ASSUME AuthInv, NEW r \in AuthSecrets, NEW id \in AuthIds, AuthResolveRef(r, id)
  PROVE  SecretWithinLimit' /\ UsesFinite'
  <1> DEFINE uses == authUses[r]
             Good(u) == IsFiniteSet(u) /\ Cardinality(u) <= AuthMaximumUses
  <1>1. authUses \in [AuthSecrets -> SUBSET AuthIds]
    BY DEF AuthInv, AuthTypeOK
  <1>2. /\ authUses'[r] = uses \cup {id}
        /\ \A q \in AuthSecrets : q # r => authUses'[q] = authUses[q]
    BY <1>1 DEF AuthResolveRef
  <1>3. \A q \in AuthSecrets : Good(authUses[q])
    BY DEF AuthInv, SecretWithinLimit, UsesFinite
  <1>4. IsFiniteSet(uses) /\ Cardinality(uses) <= AuthMaximumUses /\ Cardinality(uses) \in Nat
    BY <1>3, FS_CardinalityType
  <1>5. id \in uses \/ Cardinality(uses) < AuthMaximumUses
    BY DEF AuthResolveRef, AuthUseLeft
  <1>6. Good(uses \cup {id})
    <2>1. CASE id \in uses
      <3>1. uses \cup {id} = uses
        BY <2>1
      <3> QED
        BY <1>4, <3>1
    <2>2. CASE id \notin uses
      <3> HIDE DEF uses
      <3>1. IsFiniteSet(uses \cup {id}) /\ Cardinality(uses \cup {id}) = Cardinality(uses) + 1
        BY <1>4, <2>2, FS_AddElement
      <3> QED
        BY <1>4, <1>5, <2>2, <3>1, AuthAssumption
    <2> QED
      BY <2>1, <2>2
  <1>7. \A q \in AuthSecrets : Good(authUses'[q])
    <2> HIDE DEF Good, uses
    <2> QED
      BY <1>2, <1>3, <1>6
  <1> QED
    BY <1>7 DEF SecretWithinLimit, UsesFinite

\* Secret refs touch neither grants nor reservations nor the registry.
LEMMA AuthRefKeeps ==
  ASSUME AuthInv, AuthRefStep
  PROVE  AuthInv'
  <1>1. AuthRefOnly
    BY DEF AuthRefStep, AuthRefOf, AuthPutRef, AuthRevokeRef, AuthReadRef, AuthResolveRef, AuthDenyRef
  <1>2. AuthTypeOK
    BY DEF AuthInv
  <1>3. /\ authRefs' \in [AuthSecrets -> {"absent", "stored", "revoked"}]
        /\ authReads' \in [AuthSecrets -> SUBSET AuthIds]
        /\ authUses' \in [AuthSecrets -> SUBSET AuthIds]
    BY <1>2 DEF AuthTypeOK, AuthRefStep, AuthRefOf, AuthPutRef, AuthRevokeRef, AuthReadRef, AuthResolveRef,
      AuthDenyRef
  <1>4. AuthTypeOK'
    BY <1>1, <1>2, <1>3 DEF AuthTypeOK, AuthRefOnly
  <1>5. SecretWithinLimit' /\ UsesFinite'
    <2>1. CASE UNCHANGED authUses
      BY <2>1 DEF AuthInv, SecretWithinLimit, UsesFinite
    <2> QED
      BY <2>1, AuthUsesKept DEF AuthRefStep, AuthRefOf, AuthPutRef, AuthRevokeRef, AuthReadRef, AuthDenyRef
  <1> QED
    BY <1>1, <1>4, <1>5 DEF AuthRefOnly, AuthInv, GrantWithinLimit, ClaimsFinite, AllOrNothing,
      VersionTellsEntries, SnapshotsBehind

\* The registry: a change of the entries makes a version no snapshot has.
LEMMA AuthKillKeeps ==
  ASSUME AuthInv, AuthKillStep
  PROVE  AuthInv'
  <1>1. AuthKillOnly
    BY DEF AuthKillStep, AuthActivate, AuthDeactivate, AuthSnapshot
  <1>2. AuthTypeOK /\ VersionTellsEntries /\ SnapshotsBehind
    BY DEF AuthInv
  <1>3. /\ GrantWithinLimit' /\ ClaimsFinite' /\ AllOrNothing'
        /\ SecretWithinLimit' /\ UsesFinite'
    BY <1>1 DEF AuthKillOnly, AuthInv, GrantWithinLimit, ClaimsFinite, AllOrNothing,
      SecretWithinLimit, UsesFinite
  <1>4. authVersion \in 0..AuthMaxVersion /\ authKilled \in [AuthTargets -> 0..authVersion]
        /\ AuthMaxVersion \in Nat
    BY <1>2, AuthAssumption DEF AuthTypeOK
  <1>5. /\ authVersion' \in 0..AuthMaxVersion /\ authKilled' \in [AuthTargets -> 0..authVersion']
        /\ VersionTellsEntries' /\ SnapshotsBehind'
    <2>1. CASE \E t \in AuthTargets : AuthActivate(t)
      <3>1. PICK t \in AuthTargets : AuthActivate(t)
        BY <2>1
      <3>2. authVersion' \in 0..AuthMaxVersion /\ authKilled' \in [AuthTargets -> 0..authVersion']
            /\ authVersion' = authVersion + 1 /\ authSnaps' = authSnaps
        BY <1>4, <3>1 DEF AuthActivate
      <3> QED
        BY <1>2, <1>4, <3>2 DEF VersionTellsEntries, SnapshotsBehind
    <2>2. CASE \E t \in AuthTargets : AuthDeactivate(t)
      <3>1. PICK t \in AuthTargets : AuthDeactivate(t)
        BY <2>2
      <3>2. /\ authVersion' \in 0..AuthMaxVersion /\ authSnaps' = authSnaps
            /\ (authVersion' = authVersion + 1) \/ (authVersion' = authVersion /\ authKilled[t] = 0)
            /\ authKilled' = [authKilled EXCEPT ![t] = 0]
        BY <1>4, <3>1 DEF AuthDeactivate, AuthRemoved
      <3>3. authKilled' \in [AuthTargets -> 0..authVersion']
        BY <1>4, <3>2
      <3>4. CASE authVersion' = authVersion + 1
        BY <1>2, <1>4, <3>2, <3>3, <3>4 DEF VersionTellsEntries, SnapshotsBehind
      <3>5. CASE authVersion' = authVersion /\ authKilled[t] = 0
        <4>1. authKilled' = authKilled
          BY <1>4, <3>2, <3>5
        <4> QED
          BY <1>2, <1>4, <3>2, <3>3, <3>5, <4>1 DEF VersionTellsEntries, SnapshotsBehind
      <3> QED
        BY <3>2, <3>4, <3>5
    <2>3. CASE AuthSnapshot
      <3> DEFINE new == [version |-> authVersion, entries |-> authKilled]
      <3>1. /\ authSnaps' = authSnaps \cup {new} /\ authKilled' = authKilled
            /\ authVersion' = authVersion
        BY <2>3 DEF AuthSnapshot
      <3>2. new.version = authVersion /\ new.entries = authKilled
        OBVIOUS
      <3> HIDE DEF new
      <3>3. SnapshotsBehind'
        BY <1>2, <1>4, <3>1, <3>2 DEF SnapshotsBehind
      <3>4. VersionTellsEntries'
        BY <1>2, <1>4, <3>1, <3>2 DEF VersionTellsEntries, SnapshotsBehind
      <3> QED
        BY <1>4, <3>1, <3>3, <3>4
    <2> QED
      BY <2>1, <2>2, <2>3 DEF AuthKillStep
  <1>6. AuthTypeOK'
    BY <1>1, <1>2, <1>5 DEF AuthTypeOK, AuthKillOnly
  <1> QED
    BY <1>3, <1>5, <1>6 DEF AuthInv

\* Every step keeps the invariant, and no step takes back a revocation.
LEMMA AuthNextKeeps ==
  ASSUME AuthInv, [AuthNext]_authVars
  PROVE  AuthInv' /\ RevokedForGood
  <1>1. AuthTypeOK
    BY DEF AuthInv
  <1>2. AuthInv'
    <2>1. CASE AuthTick
      <3>1. AuthTypeOK'
        BY <1>1, <2>1, AuthAssumption DEF AuthTypeOK, AuthTick
      <3> QED
        BY <2>1, <3>1 DEF AuthTick, AuthInv, GrantWithinLimit, ClaimsFinite, AllOrNothing,
          VersionTellsEntries, SnapshotsBehind, SecretWithinLimit, UsesFinite
    <2>2. CASE UNCHANGED authVars
      BY <2>2 DEF authVars, AuthInv, AuthTypeOK, GrantWithinLimit, ClaimsFinite, AllOrNothing,
        VersionTellsEntries, SnapshotsBehind, SecretWithinLimit, UsesFinite
    <2> QED
      BY <2>1, <2>2, AuthGrantKeeps, AuthReserveKeeps, AuthRefKeeps, AuthKillKeeps DEF AuthNext
  <1>3. RevokedForGood
    <2>1. CASE AuthRefStep
      <3> SUFFICES ASSUME NEW r \in AuthSecrets, authRefs[r] = "revoked"
                   PROVE  /\ authRefs'[r] = "revoked"
                          /\ authReads'[r] \subseteq authReads[r]
                          /\ authUses'[r] \subseteq authUses[r] \cup authReads[r]
        BY DEF RevokedForGood
      <3>1. PICK q \in AuthSecrets :
              \/ AuthPutRef(q) \/ AuthRevokeRef(q)
              \/ \E id \in AuthIds : AuthReadRef(q, id) \/ AuthResolveRef(q, id) \/ AuthDenyRef(q, id)
        BY <2>1 DEF AuthRefStep, AuthRefOf
      <3>2. CASE AuthPutRef(q) \/ AuthRevokeRef(q)
        BY <1>1, <3>2 DEF AuthTypeOK, AuthPutRef, AuthRevokeRef
      <3>3. ASSUME NEW id \in AuthIds, AuthReadRef(q, id)
            PROVE  authRefs' = authRefs /\ authUses' = authUses /\ authReads'[r] = authReads[r]
        BY <1>1, <3>3 DEF AuthTypeOK, AuthReadRef
      <3>4. ASSUME NEW id \in AuthIds, AuthResolveRef(q, id) \/ AuthDenyRef(q, id)
            PROVE  /\ authRefs' = authRefs /\ authReads'[r] \subseteq authReads[r]
                   /\ authUses'[r] \subseteq authUses[r] \cup authReads[r]
        BY <1>1, <3>4 DEF AuthTypeOK, AuthResolveRef, AuthDenyRef
      <3> QED
        BY <3>1, <3>2, <3>3, <3>4
    <2>2. CASE UNCHANGED <<authRefs, authReads, authUses>>
      BY <2>2 DEF RevokedForGood
    <2> QED
      BY <2>1, <2>2
      DEF AuthNext, authVars, AuthTick, AuthGrantStep, AuthIssue, AuthRevoke, AuthResolve,
        AuthReserveUse, AuthForget, AuthGrantOnly, AuthReserveStep, AuthReserve, AuthConsume,
        AuthResOnly, AuthKillStep, AuthActivate, AuthDeactivate, AuthSnapshot, AuthKillOnly
  <1> QED
    BY <1>2, <1>3

\* No order of resolutions, claims, revocations and activations lets a call act on more than it
\* was given, a resolution that read a secret ref before its revocation excepted, however
\* many keys, grants, refs, ids and targets there are (grants.ts,
\* authorization-reservations.ts, secrets.ts, kill-switch.ts).
THEOREM AuthorityIsHeld == AuthSpec => AuthorityHeld
  <1>1. AuthInv /\ [AuthNext]_authVars => AuthInv'
    BY AuthNextKeeps
  <1>2. AuthInv /\ [AuthNext]_authVars =>
          [/\ RevokedForGood
           /\ (AuthTypeOK /\ GrantWithinLimit /\ SecretWithinLimit /\ AllOrNothing
                 /\ VersionTellsEntries)']_authVars
    <2> SUFFICES ASSUME AuthInv, [AuthNext]_authVars
                 PROVE  /\ RevokedForGood
                        /\ (AuthTypeOK /\ GrantWithinLimit /\ SecretWithinLimit /\ AllOrNothing
                              /\ VersionTellsEntries)'
      OBVIOUS
    <2> QED
      BY AuthNextKeeps DEF AuthInv
  <1> QED
    BY <1>1, <1>2, AuthInitInv, PTL DEF AuthSpec, AuthorityHeld

-----------------------------------------------------------------------------
(* Executor *)

ExeOutcomes == {"none", "aborted", "refused", "timeout", "failed", "result"}

\* A call; one whose connection answered holds the answer.
ExeCallRecords ==
  {call \in [phase : {"idle", "sent", "answered", "settled"}, pin : SUBSET ExePins,
             aborted : BOOLEAN, timed : BOOLEAN,
             answer : {"none", "completed", "unusable", "failed"}, outcome : ExeOutcomes,
             sent : Nat] :
    call.phase = "answered" => call.answer # "none"}

\* What was checked when the executor was created.
ExeBound(executor) ==
  /\ executor.made
  /\ executor.profile.binding = executor.profile.of
  /\ executor.receipt \in ExeReceipts /\ executor.profile.receipt = executor.receipt.id
  /\ exeConnection.artifact = executor.receipt.platform
  /\ executor.pins \subseteq ExePins
  /\ \A a, b \in executor.pins : a # b => a.address # b.address
  /\ \A pin \in executor.pins : pin.binding = executor.profile.binding

\* The inductive invariant: the executor is what was checked, and a call that was sent holds a
\* pin of the executor.
ExeInv ==
  /\ exeExecutor = ExeNone \/ ExeBound(exeExecutor)
  /\ exeCall \in [ExeCalls -> ExeCallRecords]
  /\ \A c \in ExeCalls : \A pin \in exeCall[c].pin : exeExecutor.made /\ pin \in exeExecutor.pins

\* The invariant holds at the start.
LEMMA ExeInitInv == ExeInit => ExeInv
  BY DEF ExeInit, ExeInv, ExeCallRecords, ExeOutcomes

\* The fields of every call after a step: what may be sent, and how a failure is classified.
LEMMA ExeCallStep ==
  ASSUME ExeInv, ExeNext
  PROVE  /\ exeCall' \in [ExeCalls -> ExeCallRecords]
         /\ \A c \in ExeCalls :
              /\ exeCall'[c].pin = exeCall[c].pin \/ \E pin \in exeExecutor.pins :
                                                       exeExecutor.made /\ exeCall'[c].pin = {pin}
              /\ exeCall[c].aborted => exeCall'[c].sent = exeCall[c].sent
              /\ exeCall'[c].outcome \in ExeRetryable /\ exeCall[c].outcome \notin ExeRetryable =>
                   ~exeCall'[c].aborted
  <1> DEFINE Fine(c) ==
        /\ exeCall'[c].pin = exeCall[c].pin \/ \E pin \in exeExecutor.pins :
                                                 exeExecutor.made /\ exeCall'[c].pin = {pin}
        /\ exeCall[c].aborted => exeCall'[c].sent = exeCall[c].sent
        /\ exeCall'[c].outcome \in ExeRetryable /\ exeCall[c].outcome \notin ExeRetryable =>
             ~exeCall'[c].aborted
  <1>1. exeCall \in [ExeCalls -> ExeCallRecords]
    BY DEF ExeInv
  <1>2. ASSUME NEW c \in ExeCalls, NEW call \in ExeCallRecords,
               exeCall' = [exeCall EXCEPT ![c] = call],
               call.pin = exeCall[c].pin \/ \E pin \in exeExecutor.pins :
                                              exeExecutor.made /\ call.pin = {pin},
               exeCall[c].aborted => call.sent = exeCall[c].sent,
               call.outcome \in ExeRetryable /\ exeCall[c].outcome \notin ExeRetryable => ~call.aborted
        PROVE  exeCall' \in [ExeCalls -> ExeCallRecords] /\ \A d \in ExeCalls : Fine(d)
    <2>1. exeCall' \in [ExeCalls -> ExeCallRecords]
      BY <1>1, <1>2
    <2>2. exeCall'[c] = call /\ \A d \in ExeCalls : d # c => exeCall'[d] = exeCall[d]
      BY <1>1, <1>2
    <2> QED
      BY <1>2, <2>1, <2>2
  <1>3. ASSUME UNCHANGED exeCall
        PROVE  exeCall' \in [ExeCalls -> ExeCallRecords] /\ \A d \in ExeCalls : Fine(d)
    BY <1>1, <1>3
  <1>4. ASSUME NEW c \in ExeCalls, NEW pin \in ExePins, ExeBegin(c, pin)
        PROVE  exeCall' \in [ExeCalls -> ExeCallRecords] /\ \A d \in ExeCalls : Fine(d)
    <2> HIDE DEF Fine
    <2>1. exeCall[c] \in ExeCallRecords
      BY <1>1
    <2>2. ASSUME NEW o \in {"aborted", "refused"}, ExeSettle(c, o)
          PROVE  exeCall' \in [ExeCalls -> ExeCallRecords] /\ \A d \in ExeCalls : Fine(d)
      <3> DEFINE call == [exeCall[c] EXCEPT !.phase = "settled", !.outcome = o]
      <3>1. exeCall' = [exeCall EXCEPT ![c] = call]
        BY <1>1, <2>2 DEF ExeSettle
      <3>2. call \in ExeCallRecords /\ call.pin = exeCall[c].pin /\ call.sent = exeCall[c].sent
            /\ call.outcome = o
        BY <2>1 DEF ExeCallRecords, ExeOutcomes
      <3> HIDE DEF call
      <3> QED
        BY <1>2, <3>1, <3>2 DEF ExeRetryable
    <2>3. ASSUME ~exeCall[c].aborted, pin \in exeExecutor.pins,
                 exeCall' = [exeCall EXCEPT ![c].phase = "sent", ![c].pin = {pin},
                                            ![c].timed = FALSE, ![c].answer = "none",
                                            ![c].sent = @ + 1]
          PROVE  exeCall' \in [ExeCalls -> ExeCallRecords] /\ \A d \in ExeCalls : Fine(d)
      <3> DEFINE call == [exeCall[c] EXCEPT !.phase = "sent", !.pin = {pin}, !.timed = FALSE,
                                            !.answer = "none", !.sent = @ + 1]
      <3>1. exeCall' = [exeCall EXCEPT ![c] = call]
        BY <1>1, <2>3
      <3>2. call \in ExeCallRecords /\ call.pin = {pin} /\ call.outcome = exeCall[c].outcome
        <4>1. exeCall[c].sent + 1 \in Nat /\ {pin} \in SUBSET ExePins
          BY <2>1 DEF ExeCallRecords
        <4> QED
          BY <2>1, <4>1 DEF ExeCallRecords
      <3>3. exeExecutor.made
        BY <1>4 DEF ExeBegin
      <3> HIDE DEF call
      <3> QED
        BY <1>2, <2>3, <3>1, <3>2, <3>3
    <2> QED
      BY <1>4, <2>2, <2>3 DEF ExeBegin, ExeEntryAborted
  <1>5. ASSUME NEW c \in ExeCalls, ExeAbort(c)
        PROVE  exeCall' \in [ExeCalls -> ExeCallRecords] /\ \A d \in ExeCalls : Fine(d)
    <2> HIDE DEF Fine
    <2> DEFINE old == [exeCall[c] EXCEPT !.aborted = TRUE]
               call == IF old.phase = "sent"
                       THEN [old EXCEPT !.phase = "settled", !.outcome = ExeFailure(old)] ELSE old
    <2>1. exeCall' = [exeCall EXCEPT ![c] = call]
      BY <1>5 DEF ExeAbort
    <2>2. /\ old \in ExeCallRecords /\ old.aborted = TRUE /\ old.pin = exeCall[c].pin
          /\ old.sent = exeCall[c].sent /\ old.outcome = exeCall[c].outcome
      BY <1>1 DEF ExeCallRecords
    <2> HIDE DEF old
    <2>3. ExeFailure(old) = "aborted"
      BY <2>2 DEF ExeFailure
    <2>4. /\ call \in ExeCallRecords /\ call.pin = exeCall[c].pin /\ call.sent = exeCall[c].sent
          /\ call.outcome = exeCall[c].outcome \/ call.outcome = "aborted"
      BY <2>2, <2>3 DEF ExeCallRecords, ExeOutcomes
    <2> HIDE DEF call
    <2> QED
      BY <1>2, <2>1, <2>4 DEF ExeRetryable
  <1>6. ASSUME NEW c \in ExeCalls, ExeTimeout(c)
        PROVE  exeCall' \in [ExeCalls -> ExeCallRecords] /\ \A d \in ExeCalls : Fine(d)
    <2> HIDE DEF Fine
    <2> DEFINE old == [exeCall[c] EXCEPT !.timed = TRUE]
               call == IF old.phase = "sent"
                       THEN [old EXCEPT !.phase = "settled", !.outcome = ExeFailure(old)] ELSE old
    <2>1. exeCall' = [exeCall EXCEPT ![c] = call]
      BY <1>6 DEF ExeTimeout
    <2>2. /\ old \in ExeCallRecords /\ old.aborted = exeCall[c].aborted /\ old.pin = exeCall[c].pin
          /\ old.sent = exeCall[c].sent /\ old.outcome = exeCall[c].outcome
      BY <1>1 DEF ExeCallRecords
    <2> HIDE DEF old
    <2>3. ExeFailure(old) \in ExeOutcomes /\ (old.aborted => ExeFailure(old) = "aborted")
      BY <2>2 DEF ExeFailure, ExeOutcomes
    <2>4. /\ call \in ExeCallRecords /\ call.pin = exeCall[c].pin /\ call.sent = exeCall[c].sent
          /\ call.aborted = old.aborted
          /\ call.outcome = exeCall[c].outcome \/ call.outcome = ExeFailure(old)
      BY <2>2, <2>3 DEF ExeCallRecords
    <2> HIDE DEF call
    <2> QED
      BY <1>2, <2>1, <2>3, <2>4 DEF ExeRetryable
  <1>7. ASSUME NEW c \in ExeCalls, ExeContinue(c)
        PROVE  exeCall' \in [ExeCalls -> ExeCallRecords] /\ \A d \in ExeCalls : Fine(d)
    <2> HIDE DEF Fine
    <2>1. exeCall[c] \in ExeCallRecords
      BY <1>1
    <2>2. PICK o : ExeSettle(c, o) /\ (o = "result" \/ o = "refused" \/ o = ExeFailure(exeCall[c]))
      <3>1. exeCall[c].answer \in {"completed", "unusable", "failed"}
        BY <1>7, <2>1 DEF ExeCallRecords, ExeContinue
      <3> QED
        BY <1>7, <3>1 DEF ExeContinue
    <2>3. /\ ExeFailure(exeCall[c]) \in ExeOutcomes
          /\ exeCall[c].aborted => ExeFailure(exeCall[c]) = "aborted"
      BY DEF ExeFailure, ExeOutcomes
    <2> DEFINE call == [exeCall[c] EXCEPT !.phase = "settled", !.outcome = o]
    <2>4. exeCall' = [exeCall EXCEPT ![c] = call]
      BY <1>1, <2>2 DEF ExeSettle
    <2>5. o \in ExeOutcomes
      BY <2>2, <2>3 DEF ExeOutcomes
    <2>6. call \in ExeCallRecords /\ call.pin = exeCall[c].pin /\ call.sent = exeCall[c].sent
          /\ call.outcome = o /\ call.aborted = exeCall[c].aborted
      BY <2>1, <2>5 DEF ExeCallRecords
    <2> HIDE DEF call
    <2> QED
      BY <1>2, <2>2, <2>3, <2>4, <2>6 DEF ExeRetryable
  <1>8. ASSUME NEW c \in ExeCalls, ExeRetry(c)
        PROVE  exeCall' \in [ExeCalls -> ExeCallRecords] /\ \A d \in ExeCalls : Fine(d)
    <2> HIDE DEF Fine
    <2> DEFINE call == [exeCall[c] EXCEPT !.phase = "idle", !.outcome = "none"]
    <2>1. exeCall' = [exeCall EXCEPT ![c] = call]
      BY <1>1, <1>8 DEF ExeRetry
    <2>2. call \in ExeCallRecords /\ call.pin = exeCall[c].pin /\ call.sent = exeCall[c].sent
          /\ call.outcome = "none"
      BY <1>1 DEF ExeCallRecords, ExeOutcomes
    <2> HIDE DEF call
    <2> QED
      BY <1>2, <2>1, <2>2 DEF ExeRetryable
  <1>9. ASSUME NEW c \in ExeCalls, NEW answer \in {"completed", "unusable", "failed"},
               ExeAnswer(c, answer)
        PROVE  exeCall' \in [ExeCalls -> ExeCallRecords] /\ \A d \in ExeCalls : Fine(d)
    <2> HIDE DEF Fine
    <2> DEFINE call == [exeCall[c] EXCEPT !.phase = "answered", !.answer = answer]
    <2>1. exeCall' = [exeCall EXCEPT ![c] = call]
      BY <1>1, <1>9 DEF ExeAnswer
    <2>2. call \in ExeCallRecords /\ call.pin = exeCall[c].pin /\ call.sent = exeCall[c].sent
          /\ call.outcome = exeCall[c].outcome
      BY <1>1 DEF ExeCallRecords
    <2> HIDE DEF call
    <2> QED
      BY <1>2, <2>1, <2>2
  <1>10. exeCall' \in [ExeCalls -> ExeCallRecords] /\ \A d \in ExeCalls : Fine(d)
    <2> HIDE DEF Fine
    <2> QED
      BY <1>3, <1>4, <1>5, <1>6, <1>7, <1>8, <1>9 DEF ExeNext, ExeTick, ExeCreate
  <1> QED
    BY <1>10

\* Every step keeps the invariant; the executor is created once and stays as it was checked.
LEMMA ExeNextKeeps ==
  ASSUME ExeInv, [ExeNext]_exeVars
  PROVE  ExeInv' /\ ExeQuietAfterAbort /\ ExeAbortWins
  <1>1. CASE UNCHANGED exeVars
    BY <1>1 DEF exeVars, ExeInv, ExeBound, ExeQuietAfterAbort, ExeAbortWins
  <1>2. CASE ExeNext
    <2>1. /\ exeConnection' = exeConnection
          /\ exeExecutor' = exeExecutor \/ (exeExecutor = ExeNone /\ ExeBound(exeExecutor)')
      <3>1. ASSUME NEW profile \in ExeProfiles, NEW receipt \in ExeReceipts,
                   NEW pins \in SUBSET ExePins, ExeCreate(profile, receipt, pins)
            PROVE  exeConnection' = exeConnection /\ exeExecutor = ExeNone /\ ExeBound(exeExecutor)'
        <4>1. exeExecutor = ExeNone /\ exeConnection' = exeConnection
          BY <3>1 DEF ExeCreate, ExeInv, ExeBound
        <4>2. exeExecutor' = [made |-> TRUE, profile |-> profile, receipt |-> receipt,
                              pins |-> pins, at |-> exeTime]
          BY <3>1 DEF ExeCreate
        <4>3. /\ exeExecutor'.made = TRUE /\ exeExecutor'.profile = profile
              /\ exeExecutor'.receipt = receipt /\ exeExecutor'.pins = pins
          BY <4>2
        <4> QED
          BY <3>1, <4>1, <4>3
          DEF ExeCreate, ExeBound, ExeDeployed, ExeBinds, ExeUnambiguous, ExePinBelongs
      <3> QED
        BY <1>2, <3>1
        DEF ExeNext, ExeTick, ExeBegin, ExeAbort, ExeTimeout, ExeContinue, ExeRetry, ExeAnswer
    <2>2. exeExecutor' = ExeNone \/ ExeBound(exeExecutor)'
      BY <2>1 DEF ExeInv, ExeBound
    <2>3. ASSUME NEW c \in ExeCalls, NEW pin \in exeCall'[c].pin
          PROVE  exeExecutor'.made /\ pin \in exeExecutor'.pins
      <3>1. exeExecutor.made /\ pin \in exeExecutor.pins
        BY <1>2, <2>3, ExeCallStep DEF ExeInv
      <3>2. exeExecutor # ExeNone
        BY <3>1 DEF ExeNone
      <3> QED
        BY <2>1, <3>1, <3>2
    <2>4. ExeInv'
      BY <1>2, <2>2, <2>3, ExeCallStep DEF ExeInv
    <2> QED
      BY <1>2, <2>4, ExeCallStep DEF ExeQuietAfterAbort, ExeAbortWins
  <1> QED
    BY <1>1, <1>2

\* What the checks at creation mean for a call that holds a pin of the executor.
LEMMA ExeReaches == ExeInv => ExeReachesReviewed
  <1> SUFFICES ASSUME ExeInv, NEW c \in ExeCalls, NEW pin \in exeCall[c].pin
               PROVE  /\ exeExecutor.made
                      /\ pin.binding = exeExecutor.profile.of
                      /\ \A receipt \in ExeReceipts : receipt.id = exeExecutor.profile.receipt =>
                           receipt = exeExecutor.receipt /\ receipt.platform = exeConnection.artifact
                      /\ Cardinality({p \in exeExecutor.pins : p.address = pin.address}) = 1
    BY DEF ExeReachesReviewed
  <1>1. exeExecutor.made /\ pin \in exeExecutor.pins
    BY DEF ExeInv
  <1>2. ExeBound(exeExecutor)
    BY <1>1 DEF ExeInv, ExeNone
  <1>3. {p \in exeExecutor.pins : p.address = pin.address} = {pin}
    BY <1>1, <1>2 DEF ExeBound
  <1>4. Cardinality({pin}) = 1
    BY FS_Singleton
  <1>5. Cardinality({p \in exeExecutor.pins : p.address = pin.address}) = 1
    BY <1>3, <1>4, Zenon
  <1> QED
    BY <1>1, <1>2, <1>5, ExeAssumption DEF ExeBound

\* For every set of profiles, receipts, pins, connections and calls: a call reaches the reviewed
\* tool or nothing, and an abort is final, whichever of abort, timeout and answer came first
\* (createExecutorToolExecutor).
THEOREM ExecutorIsSafe == ExeSpec => ExecutorSafe
  <1>1. ExeInv /\ [ExeNext]_exeVars => ExeInv'
    BY ExeNextKeeps
  <1>2. ExeInv' => ExeReachesReviewed'
    BY ExeReaches, PTL
  <1>3. ExeInv /\ [ExeNext]_exeVars =>
          [ExeQuietAfterAbort /\ ExeAbortWins /\ ExeReachesReviewed']_exeVars
    BY <1>2, ExeNextKeeps
  <1> QED
    BY <1>1, <1>3, ExeInitInv, PTL DEF ExeSpec, ExecutorSafe

-----------------------------------------------------------------------------
(* The facade *)

\* Decisions: what verify returned is an issued challenge that lived, and so is what an
\* approval was made from.
FacChallenges ==
  [time : Nat \ {0}, binding : FacBindings, proof : FacCommands, expires : Int]

FacDecisionsOK ==
  /\ facTime \in Nat \ {0}
  /\ facIssued \in [FacCommands -> FacChallenges \cup {FacNone}]
  /\ facVerified \in [FacCommands -> [time : Nat \ {0}, challenge : FacChallenges] \cup {FacNone}]
  /\ facApprovals \in
       [FacCommands -> [time : Nat \ {0}, verified : Nat, binding : FacBindings,
                        proof : FacCommands, expires : Int] \cup {FacNone}]
  /\ \A c \in FacCommands : facVerified[c] # FacNone =>
       /\ \E i \in FacCommands : facIssued[i] = facVerified[c].challenge
       /\ facVerified[c].time < facVerified[c].challenge.expires
  /\ ApprovalFromChallenge

\* Grants: the store holds the times the facade remembers.
FacGrantsOK ==
  /\ facTimings \in [FacBindings -> Nat]
  /\ facGrants = facTimings
  /\ facRefused = FALSE

\* The registry: what is found under a key is a definition its digest resolves to.
FacRegistryOK ==
  /\ facByKey \in [FacKeys -> FacDefinitions \cup {FacNone}]
  /\ facByDigest \in [FacDigests -> FacDefinitions \cup {FacNone}]
  /\ RegistryAgrees

\* Executions: while there is one, its promise stays in the map until it resolves or a wait
\* has raised its rejection.
FacRunsOK ==
  /\ facRuns \in Seq({"running", "resolved", "rejected"})
  /\ facWaiting \in 0..Len(facRuns)
  /\ facEntry \in 0..Len(facRuns)
  /\ Len(facRuns) = 1 /\ facRuns[1] = "running" => facEntry = 1
  /\ RejectionKept

\* What every step of the facade keeps, one part per machine.
FacInv == FacDecisionsOK /\ FacGrantsOK /\ FacRegistryOK /\ FacRunsOK

\* A new facade has issued, granted, registered and started nothing.
LEMMA FacInitInv == FacInit => FacInv
  <1> SUFFICES ASSUME FacInit PROVE FacInv
    OBVIOUS
  <1>1. FacDecisionsOK
    BY DEF FacInit, FacDecisionsOK, ApprovalFromChallenge
  <1>2. FacGrantsOK
    BY DEF FacInit, FacGrantsOK
  <1>3. FacRegistryOK
    BY DEF FacInit, FacRegistryOK, RegistryAgrees
  <1>4. FacRunsOK
    BY DEF FacInit, FacRunsOK, RejectionKept
  <1> QED
    BY <1>1, <1>2, <1>3, <1>4 DEF FacInv

\* A real record is not the empty one.
LEMMA FacNoneForms ==
  /\ FacNone.time = 0
  /\ \A x \in FacChallenges : x # FacNone
  BY DEF FacNone, FacChallenges

\* Issuing, verifying and approving.
LEMMA FacDecideKeeps ==
  ASSUME FacDecisionsOK, FacDecide
  PROVE  FacDecisionsOK'
  <1>1. ASSUME NEW c \in FacCommands, NEW b \in FacBindings, FacIssue(c, b) PROVE FacDecisionsOK'
    <2>1. PICK new : new = [time |-> facTime, binding |-> b, proof |-> c, expires |-> facTime + FacLifetime]
      OBVIOUS
    <2>2. new \in FacChallenges
      BY <2>1, FacAssumption DEF FacDecisionsOK, FacChallenges
    <2>3. /\ facIssued[c] = FacNone /\ facIssued' = [facIssued EXCEPT ![c] = new]
          /\ UNCHANGED <<facTime, facVerified, facApprovals>>
      BY <1>1, <2>1 DEF FacIssue
    <2>4. /\ facIssued' \in [FacCommands -> FacChallenges \cup {FacNone}]
          /\ \A i \in FacCommands : facIssued[i] # FacNone => facIssued'[i] = facIssued[i]
      BY <2>2, <2>3 DEF FacDecisionsOK
    <2>5. ASSUME NEW d \in FacCommands, facVerified[d] # FacNone
          PROVE  \E i \in FacCommands : facIssued'[i] = facVerified[d].challenge
      <3>1. PICK i \in FacCommands : facIssued[i] = facVerified[d].challenge
        BY <2>5 DEF FacDecisionsOK
      <3>2. facVerified[d].challenge \in FacChallenges
        BY <2>5 DEF FacDecisionsOK
      <3> QED
        BY <2>4, <3>1, <3>2, FacNoneForms
    <2>6. ApprovalFromChallenge'
      BY <2>3, <2>4 DEF FacDecisionsOK, ApprovalFromChallenge
    <2> QED
      BY <2>3, <2>4, <2>5, <2>6 DEF FacDecisionsOK
  <1>2. ASSUME NEW c \in FacCommands, NEW i \in FacCommands, NEW b \in FacBindings, FacVerify(c, i, b)
        PROVE  FacDecisionsOK'
    <2>1. PICK new : new = [time |-> facTime, challenge |-> facIssued[i]]
      OBVIOUS
    <2>2. facIssued[i] \in FacChallenges /\ facTime < facIssued[i].expires
      BY <1>2, FacNoneForms DEF FacVerify, FacValid, FacDecisionsOK
    <2>3. /\ new \in [time : Nat \ {0}, challenge : FacChallenges]
          /\ new.challenge = facIssued[i] /\ new.time < new.challenge.expires
      BY <2>1, <2>2 DEF FacDecisionsOK
    <2>4. /\ facVerified' = [facVerified EXCEPT ![c] = new]
          /\ UNCHANGED <<facTime, facIssued, facApprovals>>
      BY <1>2, <2>1 DEF FacVerify
    <2>5. facVerified' \in [FacCommands -> [time : Nat \ {0}, challenge : FacChallenges] \cup {FacNone}]
      BY <2>3, <2>4 DEF FacDecisionsOK
    <2>6. \A d \in FacCommands : facVerified'[d] # FacNone =>
            /\ \E j \in FacCommands : facIssued'[j] = facVerified'[d].challenge
            /\ facVerified'[d].time < facVerified'[d].challenge.expires
      BY <2>3, <2>4 DEF FacDecisionsOK
    <2>7. ApprovalFromChallenge'
      BY <2>4 DEF FacDecisionsOK, ApprovalFromChallenge
    <2> QED
      BY <2>4, <2>5, <2>6, <2>7 DEF FacDecisionsOK
  <1>3. ASSUME NEW c \in FacCommands, FacCreateApproval(c) PROVE FacDecisionsOK'
    <2>1. /\ facVerified[c] \in [time : Nat \ {0}, challenge : FacChallenges]
          /\ facVerified[c] # FacNone
      BY <1>3 DEF FacCreateApproval, FacDecisionsOK
    <2>2. PICK i \in FacCommands : facIssued[i] = facVerified[c].challenge
      BY <2>1 DEF FacDecisionsOK
    <2>3. facVerified[c].challenge \in FacChallenges /\ facIssued[i] # FacNone
      BY <2>1, <2>2, FacNoneForms
    <2>4. PICK new : new = [time |-> facTime, verified |-> facVerified[c].time,
                            binding |-> facVerified[c].challenge.binding,
                            proof |-> facVerified[c].challenge.proof,
                            expires |-> facVerified[c].challenge.expires]
      OBVIOUS
    <2>5. /\ new \in [time : Nat \ {0}, verified : Nat, binding : FacBindings,
                      proof : FacCommands, expires : Int]
          /\ new.proof = facIssued[i].proof /\ new.binding = facIssued[i].binding
          /\ new.verified < facIssued[i].expires /\ new.expires = facIssued[i].expires
      BY <2>1, <2>2, <2>3, <2>4 DEF FacDecisionsOK, FacChallenges
    <2>6. /\ facApprovals' = [facApprovals EXCEPT ![c] = new]
          /\ facVerified' = [facVerified EXCEPT ![c] = FacNone]
          /\ UNCHANGED <<facTime, facIssued>>
      BY <1>3, <2>4 DEF FacCreateApproval
    <2>7. /\ facApprovals' \in
               [FacCommands -> [time : Nat \ {0}, verified : Nat, binding : FacBindings,
                                proof : FacCommands, expires : Int] \cup {FacNone}]
          /\ facVerified' \in [FacCommands -> [time : Nat \ {0}, challenge : FacChallenges] \cup {FacNone}]
      BY <2>5, <2>6 DEF FacDecisionsOK
    <2>8. \A d \in FacCommands : facVerified'[d] # FacNone => facVerified'[d] = facVerified[d] /\ d # c
      BY <2>6 DEF FacDecisionsOK
    <2>9. ApprovalFromChallenge'
      BY <2>3, <2>5, <2>6 DEF FacDecisionsOK, ApprovalFromChallenge
    <2> QED
      BY <2>6, <2>7, <2>8, <2>9 DEF FacDecisionsOK
  <1> QED
    BY <1>1, <1>2, <1>3 DEF FacDecide

\* Resolving the authority of an effect again.
LEMMA FacGrantKeeps ==
  ASSUME FacGrantsOK, facTime \in Nat, FacGrant
  PROVE  FacGrantsOK'
  <1>1. PICK b \in FacBindings : FacResolve(b)
    BY DEF FacGrant
  <1>2. PICK t : t = FacTiming(b)
    OBVIOUS
  <1>3. t \in Nat /\ facGrants[b] \in {0, t}
    BY <1>2 DEF FacTiming, FacGrantsOK
  <1>4. /\ facTimings' = [facTimings EXCEPT ![b] = t]
        /\ facGrants' = [facGrants EXCEPT ![b] = t] /\ UNCHANGED facRefused
    BY <1>1, <1>2, <1>3 DEF FacResolve
  <1> QED
    BY <1>3, <1>4 DEF FacGrantsOK

\* Registering a definition whose key and digest are free.
LEMMA FacDefineKeeps ==
  ASSUME FacRegistryOK, FacDefine
  PROVE  FacRegistryOK'
  <1>1. PICK d \in FacDefinitions : FacRegister(d)
    BY DEF FacDefine
  <1>2. d.key \in FacKeys /\ d.digest \in FacDigests
    BY DEF FacKeys, FacDigests
  <1>3. /\ facByKey' = [facByKey EXCEPT ![d.key] = d]
        /\ facByDigest' = [facByDigest EXCEPT ![d.digest] = d]
        /\ facByDigest[d.digest] \in {FacNone, d}
    BY <1>1 DEF FacRegister, FacFree
  <1>4. /\ facByKey' \in [FacKeys -> FacDefinitions \cup {FacNone}]
        /\ facByDigest' \in [FacDigests -> FacDefinitions \cup {FacNone}]
    BY <1>2, <1>3 DEF FacRegistryOK
  <1>5. ASSUME NEW k \in FacKeys, facByKey'[k] # FacNone
        PROVE  facByDigest'[facByKey'[k].digest] = facByKey'[k]
    <2>1. CASE k = d.key
      BY <1>2, <1>3, <2>1 DEF FacRegistryOK
    <2>2. CASE k # d.key
      <3>1. PICK e : e = facByKey[k]
        OBVIOUS
      <3>2. facByKey'[k] = e /\ e # FacNone /\ e \in FacDefinitions /\ facByDigest[e.digest] = e
        BY <1>3, <1>5, <2>2, <3>1 DEF FacRegistryOK, RegistryAgrees
      <3>3. e.digest \in FacDigests
        BY <3>2 DEF FacDigests
      <3>4. CASE e.digest = d.digest
        <4>1. e = d
          BY <1>3, <3>2, <3>4
        <4> QED
          BY <1>2, <1>3, <3>2, <4>1 DEF FacRegistryOK
      <3>5. CASE e.digest # d.digest
        BY <1>3, <3>2, <3>3, <3>5 DEF FacRegistryOK
      <3> QED
        BY <3>4, <3>5
    <2> QED
      BY <2>1, <2>2
  <1> QED
    BY <1>4, <1>5 DEF FacRegistryOK, RegistryAgrees

\* Starting, settling and waiting for executions.
LEMMA FacExecuteKeeps ==
  ASSUME FacRunsOK, FacExecute
  PROVE  FacRunsOK'
  <1>1. /\ facRuns \in Seq({"running", "resolved", "rejected"}) /\ Len(facRuns) \in Nat
        /\ facWaiting \in 0..Len(facRuns) /\ facEntry \in 0..Len(facRuns)
    BY DEF FacRunsOK
  <1>2. CASE FacStart
    <2>1. /\ facRuns' \in Seq({"running", "resolved", "rejected"}) /\ Len(facRuns') = Len(facRuns) + 1
          /\ facRuns'[Len(facRuns) + 1] = "running" /\ facEntry' = Len(facRuns) + 1
          /\ UNCHANGED <<facWaiting, facRaised>>
      BY <1>1, <1>2 DEF FacStart
    <2> QED
      BY <1>1, <2>1 DEF FacRunsOK, RejectionKept
  <1>3. CASE FacWait
    BY <1>1, <1>3 DEF FacRunsOK, RejectionKept, FacWait
  <1>4. CASE FacWaited
    <2>1. /\ facWaiting # 0 /\ facRuns[facWaiting] # "running" /\ facEntry' = 0 /\ facWaiting' = 0
          /\ UNCHANGED facRuns
          /\ facRuns[facWaiting] = "rejected" => facWaiting \in facRaised'
      BY <1>4 DEF FacWaited
    <2>2. Len(facRuns) = 1 => facWaiting = 1
      BY <1>1, <2>1
    <2> QED
      BY <1>1, <2>1, <2>2 DEF FacRunsOK, RejectionKept
  <1>5. ASSUME NEW e \in DOMAIN facRuns, FacSettle(e) PROVE FacRunsOK'
    <2>1. PICK s \in {"resolved", "rejected"} :
            /\ facRuns' = [facRuns EXCEPT ![e] = s]
            /\ facEntry' = IF s = "resolved" THEN 0 ELSE facEntry
      BY <1>5 DEF FacSettle
    <2>2. facRuns[e] = "running" /\ UNCHANGED <<facWaiting, facRaised>> /\ e \in 1..Len(facRuns)
      BY <1>1, <1>5 DEF FacSettle
    <2>3. /\ facRuns' \in Seq({"running", "resolved", "rejected"}) /\ Len(facRuns') = Len(facRuns)
          /\ facRuns'[e] = s
      BY <1>1, <2>1, <2>2
    <2>4. Len(facRuns) = 1 => e = 1
      BY <2>2
    <2> QED
      BY <1>1, <2>1, <2>2, <2>3, <2>4 DEF FacRunsOK, RejectionKept
  <1> QED
    BY <1>2, <1>3, <1>4, <1>5 DEF FacExecute

\* Every step of the facade keeps the invariant.
LEMMA FacNextKeeps ==
  ASSUME FacInv, [FacNext]_facVars
  PROVE  FacInv'
  <1>1. FacDecisionsOK /\ FacGrantsOK /\ FacRegistryOK /\ FacRunsOK
    BY DEF FacInv
  <1>2. UNCHANGED facDecisionVars /\ facTime' \in Nat \ {0} => FacDecisionsOK'
    BY <1>1 DEF FacDecisionsOK, ApprovalFromChallenge, facDecisionVars
  <1>3. UNCHANGED facGrantVars => FacGrantsOK'
    BY <1>1 DEF FacGrantsOK, facGrantVars
  <1>4. UNCHANGED facRegistryVars => FacRegistryOK'
    BY <1>1 DEF FacRegistryOK, RegistryAgrees, facRegistryVars
  <1>5. UNCHANGED facRunVars => FacRunsOK'
    BY <1>1 DEF FacRunsOK, RejectionKept, facRunVars
  <1>6. facTime \in Nat \ {0}
    BY <1>1 DEF FacDecisionsOK
  <1>7. CASE UNCHANGED facVars
    BY <1>2, <1>3, <1>4, <1>5, <1>6, <1>7
       DEF FacInv, facVars, facDecisionVars, facGrantVars, facRegistryVars, facRunVars
  <1>8. CASE FacTick
    BY <1>2, <1>3, <1>4, <1>5, <1>6, <1>8 DEF FacInv, FacTick
  <1>9. CASE FacDecide
    <2>1. UNCHANGED <<facGrantVars, facRegistryVars, facRunVars>>
      BY <1>9 DEF FacDecide, FacIssue, FacVerify, FacCreateApproval
    <2> QED
      BY <1>1, <1>3, <1>4, <1>5, <1>9, <2>1, FacDecideKeeps DEF FacInv
  <1>10. CASE FacGrant
    <2>1. UNCHANGED <<facTime, facDecisionVars, facRegistryVars, facRunVars>>
      BY <1>10 DEF FacGrant, FacResolve
    <2> QED
      BY <1>1, <1>2, <1>4, <1>5, <1>6, <1>10, <2>1, FacGrantKeeps DEF FacInv
  <1>11. CASE FacDefine
    <2>1. UNCHANGED <<facTime, facDecisionVars, facGrantVars, facRunVars>>
      BY <1>11 DEF FacDefine, FacRegister
    <2> QED
      BY <1>1, <1>2, <1>3, <1>5, <1>6, <1>11, <2>1, FacDefineKeeps DEF FacInv
  <1>12. CASE FacExecute
    <2>1. UNCHANGED <<facTime, facDecisionVars, facGrantVars, facRegistryVars>>
      BY <1>12 DEF FacExecute, FacStart, FacWait, FacWaited, FacSettle
    <2> QED
      BY <1>1, <1>2, <1>3, <1>4, <1>6, <1>12, <2>1, FacExecuteKeeps DEF FacInv
  <1> QED
    BY <1>7, <1>8, <1>9, <1>10, <1>11, <1>12 DEF FacNext

\* For any commands, bindings, definitions and bounds: an approval comes from a challenge that
\* lived, a repeated resolution meets its own grant, the registry's indexes agree, and the
\* rejection of a background execution is kept (agent/src/runtime.ts).
THEOREM FacadeIsSafe == FacSpec => []FacadeSafe
  <1>1. FacInv /\ [FacNext]_facVars => FacInv'
    BY FacNextKeeps
  <1>2. FacInv => FacadeSafe
    BY DEF FacInv, FacDecisionsOK, FacGrantsOK, FacRegistryOK, FacRunsOK, FacadeSafe, ResolvesAgain
  <1> QED
    BY <1>1, <1>2, FacInitInv, PTL DEF FacSpec

-----------------------------------------------------------------------------
(* MCP connections *)

\* A child that has been spawned and has not exited.
McpLive == {"spawning", "running"}

\* The handle and the child: who still refers to each, and what closing has done so far.
McpHeldOK ==
  /\ mcpPhase \in {"new", "creating", "refused", "opening", "verifying", "hashing", "starting",
                   "stat"} =>
       mcpChild = "none" /\ mcpClosing = "no" /\ mcpRef = FALSE
  /\ mcpPhase \in {"new", "creating", "refused", "opening", "verifying"} =>
       mcpFile = "none" /\ mcpHeld = FALSE
  /\ mcpFile = "open" =>
       mcpHeld = TRUE \/ mcpPhase = "hashing" \/ (mcpPhase = "failed" /\ mcpResolved = {"open"})
  /\ mcpResolved = {"open"} <=> mcpPhase = "failed" /\ mcpFile = "open"
  /\ mcpResolved = {"open"} => mcpHeld = FALSE
  /\ mcpChild \in McpLive => mcpRef = TRUE \/ mcpClosing \in {"term", "kill"}
  /\ mcpClosing \in {"term", "kill", "closed"} => mcpHeld = FALSE
  /\ mcpClosing = "closed" => mcpChild \notin McpLive
  /\ mcpHeld \in BOOLEAN /\ mcpRef \in BOOLEAN
  /\ McpReleased

\* A call's record.
McpCallRecords ==
  [state : {"idle"}] \cup [state : {"asked", "refused"}, tool : McpTools]
    \cup [state : {"sent", "answered", "failed"}, tool : McpTools, grant : Nat]

\* Calls are made once the tools are exposed, and what is exposed stays.
McpCallsOK ==
  /\ mcpGrant \in [McpTools -> Nat] /\ mcpExposed \in [McpTools -> Nat]
  /\ mcpCall \in [McpCalls -> McpCallRecords]
  /\ mcpPhase \notin {"open", "closing", "closed"} => \A c \in McpCalls : mcpCall[c].state = "idle"
  /\ McpCallAuthorized

\* What is being opened or verified could be created, and what is built had its environment.
McpHostOK ==
  /\ mcpHost \in McpStdioHosts \cup McpHttpHosts
  /\ mcpPhase \in {"opening", "verifying", "hashing"} \/ McpBuilt => McpCreates(mcpHost)
  /\ McpBuilt /\ mcpHost.transport = "stdio" => mcpHost.environment # "unresolved"

\* What every step of a connection keeps.
McpInv ==
  /\ McpHostOK
  /\ McpHeldOK
  /\ McpCallsOK

\* The two readings of a configuration.
LEMMA McpReadings ==
  ASSUME McpHostOK
  PROVE  McpReadinessPredicts
  <1>1. CASE mcpHost \in McpStdioHosts
    BY <1>1 DEF McpHostOK, McpReadinessPredicts, McpStdioHosts, McpCreates, McpReady
  <1>2. CASE mcpHost \in McpHttpHosts
    BY <1>2 DEF McpHostOK, McpReadinessPredicts, McpHttpHosts, McpCreates, McpReady, McpEgress,
                McpEndpointAllowed, McpCredential
  <1> QED
    BY <1>1, <1>2 DEF McpHostOK

\* Every step keeps the account of the configuration: only McpVerify and McpHashed build.
LEMMA McpHostKeeps ==
  ASSUME McpInv, McpNext
  PROVE  McpHostOK'
  <1>1. McpHostOK
    BY DEF McpInv
  <1>2. mcpHost' = mcpHost
    BY DEF McpNext, McpConnect, McpCreate, McpVerify, McpOpen, McpHashed, McpStart, McpStat, McpSpawned,
       McpInitialize, McpOpened, McpPage, McpExpose, McpRegrant, McpClose, McpConnectionClosed,
       McpBadOutput, McpCloseFile, McpTerminate, McpSettled, McpAbort, McpExit, McpKill,
       McpCallTool, McpAuthorize, McpAnswer, McpSet, mcpSignals, mcpPlan
  <1>3. McpCreates(mcpHost)' <=> McpCreates(mcpHost)
    BY <1>2 DEF McpCreates, McpEgress, McpEndpointAllowed, McpCredential
  <1>4. CASE McpCreate
    BY <1>1, <1>2, <1>3, <1>4 DEF McpCreate, McpHostOK, McpBuilt
  <1>5. CASE McpVerify \/ McpHashed
    BY <1>1, <1>2, <1>3, <1>5 DEF McpVerify, McpHashed, McpHostOK, McpBuilt
  <1>6. CASE ~McpCreate /\ ~McpVerify /\ ~McpHashed
    <2>1. /\ McpBuilt' => McpBuilt
          /\ mcpPhase' \in {"opening", "verifying", "hashing"} =>
               mcpPhase \in {"opening", "verifying", "hashing"}
      BY <1>6 DEF McpNext, McpConnect, McpOpen, McpStart, McpStat, McpSpawned,
         McpInitialize, McpOpened, McpPage, McpExpose, McpRegrant, McpClose, McpConnectionClosed,
         McpBadOutput, McpCloseFile, McpTerminate, McpSettled, McpAbort, McpExit, McpKill,
         McpCallTool, McpAuthorize, McpAnswer, McpSet, McpBuilt
    <2> QED
      BY <1>1, <1>2, <1>3, <2>1 DEF McpHostOK
  <1> QED
    BY <1>4, <1>5, <1>6

\* A new connection holds nothing and has made no call.
LEMMA McpInitInv == McpInit => McpInv
  <1> SUFFICES ASSUME McpInit PROVE McpInv
    OBVIOUS
  <1>1. McpHeldOK
    BY DEF McpInit, McpHeldOK, McpReleased, McpLive
  <1>2. McpCallsOK
    BY DEF McpInit, McpCallsOK, McpCallRecords, McpCallAuthorized
  <1> QED
    BY <1>1, <1>2 DEF McpInv, McpInit, McpHostOK, McpBuilt

\* Every step keeps the account of the handle and the child.
LEMMA McpHeldKeeps ==
  ASSUME McpInv, McpNext
  PROVE  McpHeldOK'
  <1> USE DEF McpHeldOK, McpReleased, McpLive, mcpPlan
  <1>1. McpHeldOK
    BY DEF McpInv
  <1>2. CASE McpConnect
    BY <1>1, <1>2 DEF McpConnect, mcpTransport
  <1>3. CASE McpCreate
    BY <1>1, <1>3 DEF McpCreate, mcpTransport
  <1>4. CASE McpVerify \/ McpOpen
    BY <1>1, <1>4 DEF McpVerify, McpOpen, mcpTransport
  <1>5. CASE McpHashed
    BY <1>1, <1>5 DEF McpHashed, McpOwnsChild, McpOpensFile
  <1>6. CASE McpStart
    BY <1>1, <1>6 DEF McpStart, mcpTransport
  <1>7. CASE McpStat
    BY <1>1, <1>7 DEF McpStat
  <1>8. CASE McpSpawned
    BY <1>1, <1>8 DEF McpSpawned
  <1>9. CASE McpInitialize
    BY <1>1, <1>9 DEF McpInitialize, mcpTransport
  <1>10. CASE McpOpened
    BY <1>1, <1>10 DEF McpOpened, mcpTransport
  <1>11. ASSUME NEW tools, NEW s, NEW k, McpPage(tools, s, k) PROVE McpHeldOK'
    BY <1>1, <1>11 DEF McpPage, mcpTransport
  <1>12. ASSUME NEW t, McpExpose(t) \/ McpRegrant(t) PROVE McpHeldOK'
    BY <1>1, <1>12 DEF McpExpose, McpRegrant, mcpTransport
  <1>13. CASE McpClose
    BY <1>1, <1>13 DEF McpClose, McpBeginClose
  <1>14. CASE McpConnectionClosed
    BY <1>1, <1>14 DEF McpConnectionClosed, mcpTransport
  <1>15. CASE McpBadOutput
    BY <1>1, <1>15 DEF McpBadOutput, McpBeginClose
  <1>16. CASE McpCloseFile
    BY <1>1, <1>16 DEF McpCloseFile
  <1>17. CASE McpTerminate
    BY <1>1, <1>17 DEF McpTerminate
  <1>18. CASE McpSettled
    BY <1>1, <1>18 DEF McpSettled, mcpTransport
  <1>19. CASE McpAbort
    BY <1>1, <1>19 DEF McpAbort, McpBeginClose
  <1>20. CASE McpExit
    BY <1>1, <1>20 DEF McpExit
  <1>21. CASE McpKill
    BY <1>1, <1>21 DEF McpKill, mcpTransport
  <1>22. ASSUME NEW c, NEW value, McpSet(c, value) PROVE McpHeldOK'
    BY <1>1, <1>22 DEF McpSet, mcpTransport
  <1> QED
    BY <1>2, <1>3, <1>4, <1>5, <1>6, <1>7, <1>8, <1>9, <1>10, <1>11, <1>12, <1>13, <1>14, <1>15,
       <1>16, <1>17, <1>18, <1>19, <1>20, <1>21, <1>22
       DEF McpNext, McpCallTool, McpAuthorize, McpAnswer

\* A phase that is not past exposure stays so until the tools are exposed.
LEMMA McpCallsKeep ==
  ASSUME McpInv, McpNext
  PROVE  McpCallsOK'
  <1>1. McpCallsOK
    BY DEF McpInv
  <1>2. ASSUME UNCHANGED <<mcpGrant, mcpExposed, mcpCall>>,
               mcpPhase \in {"open", "closing", "closed"} => mcpPhase' \in {"open", "closing", "closed"}
        PROVE  McpCallsOK'
    BY <1>1, <1>2 DEF McpCallsOK, McpCallAuthorized
  <1>3. CASE \/ McpConnect \/ McpCreate \/ McpVerify \/ McpOpen \/ McpHashed \/ McpStart \/ McpStat \/ McpSpawned
             \/ McpInitialize \/ McpOpened \/ McpClose \/ McpConnectionClosed \/ McpBadOutput
             \/ McpCloseFile \/ McpTerminate \/ McpSettled \/ McpAbort \/ McpExit \/ McpKill
    <2>1. UNCHANGED <<mcpGrant, mcpExposed, mcpCall>>
      BY <1>3 DEF McpConnect, McpCreate, McpVerify, McpOpen, McpHashed, McpStart, McpStat, McpSpawned,
           McpInitialize, McpOpened, McpClose, McpConnectionClosed, McpBadOutput, McpCloseFile,
           McpTerminate, McpSettled, McpAbort, McpExit, McpKill, mcpServer
    <2>2. mcpPhase \in {"open", "closing", "closed"} => mcpPhase' \in {"open", "closing", "closed"}
      BY <1>3 DEF McpConnect, McpCreate, McpVerify, McpOpen, McpHashed, McpStart, McpStat, McpSpawned,
           McpInitialize, McpOpened, McpClose, McpConnectionClosed, McpBadOutput, McpCloseFile,
           McpTerminate, McpSettled, McpAbort, McpExit, McpKill
    <2> QED
      BY <1>2, <2>1, <2>2
  <1>4. ASSUME NEW tools, NEW s, NEW k, McpPage(tools, s, k) PROVE McpCallsOK'
    BY <1>2, <1>4 DEF McpPage
  <1>5. ASSUME NEW t \in McpTools, McpExpose(t) PROVE McpCallsOK'
    <2>1. /\ mcpPhase = "exposing" /\ mcpPhase' \in {"exposing", "failing"}
          /\ UNCHANGED <<mcpGrant, mcpCall>> /\ mcpExposed' \in [McpTools -> Nat]
      BY <1>1, <1>5 DEF McpExpose, McpCallsOK
    <2>2. \A c \in McpCalls : mcpCall'[c].state = "idle"
      BY <1>1, <2>1 DEF McpCallsOK
    <2> QED
      BY <1>1, <2>1, <2>2 DEF McpCallsOK, McpCallAuthorized
  <1>6. ASSUME NEW t \in McpTools, McpRegrant(t) PROVE McpCallsOK'
    <2>1. UNCHANGED <<mcpPhase, mcpCall, mcpExposed>> /\ mcpGrant' \in [McpTools -> Nat]
      BY <1>1, <1>6 DEF McpRegrant, McpCallsOK
    <2> QED
      BY <1>1, <2>1 DEF McpCallsOK, McpCallAuthorized
  <1>7. ASSUME NEW c \in McpCalls, NEW value \in McpCallRecords, McpSet(c, value),
               mcpPhase \in {"open", "closing", "closed"},
               value.state \in {"sent", "answered", "failed"} =>
                 value.grant = mcpExposed[value.tool] /\ value.grant # 0
        PROVE  McpCallsOK'
    <2>1. /\ UNCHANGED <<mcpPhase, mcpGrant, mcpExposed>>
          /\ mcpCall' = [mcpCall EXCEPT ![c] = value]
      BY <1>7 DEF McpSet
    <2>2. mcpCall' \in [McpCalls -> McpCallRecords]
      BY <1>1, <1>7, <2>1 DEF McpCallsOK
    <2>3. McpCallAuthorized'
      BY <1>1, <1>7, <2>1 DEF McpCallsOK, McpCallAuthorized
    <2> QED
      BY <1>1, <1>7, <2>1, <2>2, <2>3 DEF McpCallsOK
  <1>8. ASSUME NEW c \in McpCalls, NEW t \in McpTools, McpCallTool(c, t) PROVE McpCallsOK'
    <2>1. PICK value : value = [state |-> IF mcpPhase # "open" \/ mcpKilled \/ mcpExposed[t] = 0
                                          THEN "refused" ELSE "asked", tool |-> t]
      OBVIOUS
    <2>2. value \in McpCallRecords /\ value.state \in {"refused", "asked"}
      BY <2>1 DEF McpCallRecords
    <2> QED
      BY <1>7, <1>8, <2>1, <2>2 DEF McpCallTool
  <1>9. ASSUME NEW c \in McpCalls, McpAuthorize(c) PROVE McpCallsOK'
    <2>1. mcpCall[c].tool \in McpTools /\ mcpPhase \in {"open", "closing", "closed"}
      BY <1>1, <1>9 DEF McpAuthorize, McpCallsOK, McpCallRecords
    <2>2. PICK value : value =
            IF ~McpAuthorized(mcpCall[c].tool) \/ ~McpConnected
            THEN [state |-> "refused", tool |-> mcpCall[c].tool]
            ELSE [state |-> "sent", tool |-> mcpCall[c].tool, grant |-> mcpGrant[mcpCall[c].tool]]
      OBVIOUS
    <2>3. value \in McpCallRecords
      BY <1>1, <2>1, <2>2 DEF McpCallRecords, McpCallsOK
    <2>4. value.state \in {"sent", "answered", "failed"} =>
            value.grant = mcpExposed[value.tool] /\ value.grant # 0
      BY <2>2 DEF McpAuthorized
    <2> QED
      BY <1>7, <1>9, <2>1, <2>2, <2>3, <2>4 DEF McpAuthorize
  <1>10. ASSUME NEW c \in McpCalls, McpAnswer(c) PROVE McpCallsOK'
    <2>1. /\ mcpCall[c] \in [state : {"sent", "answered", "failed"}, tool : McpTools, grant : Nat]
          /\ mcpPhase \in {"open", "closing", "closed"}
          /\ mcpCall[c].grant = mcpExposed[mcpCall[c].tool] /\ mcpCall[c].grant # 0
      BY <1>1, <1>10 DEF McpAnswer, McpCallsOK, McpCallRecords, McpCallAuthorized
    <2>2. PICK s \in {"answered", "failed"} : McpSet(c, [mcpCall[c] EXCEPT !.state = s])
      BY <1>10 DEF McpAnswer
    <2>3. PICK value : value = [mcpCall[c] EXCEPT !.state = s]
      OBVIOUS
    <2>4. /\ value \in McpCallRecords /\ value.grant = mcpCall[c].grant
          /\ value.tool = mcpCall[c].tool
      BY <2>1, <2>3 DEF McpCallRecords
    <2> QED
      BY <1>7, <2>1, <2>2, <2>3, <2>4
  <1> QED
    BY <1>3, <1>4, <1>5, <1>6, <1>8, <1>9, <1>10 DEF McpNext

\* For any tools, calls, cursors and limits: however it ends, a connection leaves no child, and
\* no handle unless the working directory's stat rejected beside an open that resolved; what is
\* built was reported ready; and a call is made under the grant its tool was exposed with
\* (connectMCPServer, openVerifiedExecutableArtifact, the stdio transport, callTool).
THEOREM ConnectionIsSafe == McpSpec => []ConnectionSafe
  <1>1. ASSUME McpInv, [McpNext]_mcpVars PROVE McpInv'
    <2>1. CASE UNCHANGED mcpVars
      BY <1>1, <2>1 DEF McpInv, McpHeldOK, McpReleased, McpCallsOK, McpCallAuthorized, McpHostOK,
                        McpBuilt, McpCreates, McpEgress, McpEndpointAllowed, McpCredential, mcpVars
    <2>2. CASE McpNext
      BY <1>1, <2>2, McpHeldKeeps, McpCallsKeep, McpHostKeeps DEF McpInv
    <2> QED
      BY <1>1, <2>1, <2>2
  <1>2. McpInv => ConnectionSafe
    BY McpReadings DEF McpInv, McpHeldOK, McpCallsOK, ConnectionSafe
  <1> QED
    BY <1>1, <1>2, McpInitInv, PTL DEF McpSpec

-----------------------------------------------------------------------------
(* HTTP handler and event feed *)

GwRequestType == GwRequests \cup {GwBareRequest}

\* A delivery has passed the gates it is behind; a refused one has the answer of its gate; one
\* that has not ended has changed nothing, and a command answered with success is recorded.
GwDelivery(d) ==
  /\ gwRefusal[d] = "none" =>
       \A i \in DOMAIN GwOrder(gwCase.kind) :
         i < gwAt[d] => GwMayPass(d, GwOrder(gwCase.kind)[i])
  /\ gwRefusal[d] # "none" =>
       GwMayFail(d, gwRefusal[d]) /\ gwStatus[d] = GwFailure(gwCase.kind, gwRefusal[d])
  /\ gwAt[d] < Len(GwOrder(gwCase.kind)) + 2 =>
       gwRefusal[d] = "none" /\ gwStatus[d] = 0 /\ d \notin gwCommitted
  /\ d \in gwCommitted => gwRefusal[d] = "none"
  /\ gwCase.kind \in GwCommandKinds /\ gwStatus[d] \in {200, 202} => GwCommandFor(d) \in gwRecords

\* The records are the commands of the deliveries that committed, at most one for a key and a
\* resource.
GwRecordsOK ==
  /\ gwCommitted \subseteq GwDeliveries
  /\ gwRecords = {GwCommandFor(d) : d \in gwCommitted}
  /\ gwCommitted # {} => gwCase.kind \in GwCommandKinds
  /\ \A c, d \in gwCommitted :
       gwSent[c].key = gwSent[d].key /\ gwSent[c].scope = gwSent[d].scope => c = d

GwInv ==
  /\ gwCase \in GwCases /\ gwSent \in [GwDeliveries -> GwRequestType]
  /\ gwAt \in [GwDeliveries -> Nat] /\ gwStatus \in [GwDeliveries -> Nat]
  /\ gwRefusal \in [GwDeliveries -> GwGates \cup {"none"}]
  /\ \A d \in GwDeliveries : GwDelivery(d)
  /\ GwRecordsOK

\* A linked client has received the events up to the generator's cursor, each once.
FeedInv ==
  /\ feedGot \in Seq(Nat) /\ feedCursor \in Nat /\ feedLinked \in BOOLEAN
  /\ feedLinked => feedCursor = Len(feedGot)
  /\ FeedInOrder

\* Three checks stand in front of every list of gates.
LEMMA GwAfterFirst ==
  ASSUME NEW t \in Seq(GwGates)
  PROVE  LET s == <<"rate", "authentication", "boundary">> \o t IN
         /\ s \in Seq(GwGates) /\ Len(s) = 3 + Len(t)
         /\ s[1] = "rate" /\ s[2] = "authentication" /\ s[3] = "boundary"
         /\ \A i \in 1..Len(t) : s[3 + i] = t[i]
<1>0. "rate" \in GwGates /\ "authentication" \in GwGates /\ "boundary" \in GwGates BY DEF GwGates
<1> HIDE DEF GwGates
<1> DEFINE h == <<"rate", "authentication", "boundary">>
<1>1. h \in Seq(GwGates) BY <1>0
<1>2. Len(h) = 3 OBVIOUS
<1>3. h[1] = "rate" /\ h[2] = "authentication" /\ h[3] = "boundary" OBVIOUS
<1>4. Len(t) \in Nat OBVIOUS
<1> HIDE DEF h
<1>5. /\ h \o t \in Seq(GwGates) /\ Len(h \o t) = Len(h) + Len(t)
      /\ \A i \in 1..Len(h) + Len(t) : (h \o t)[i] = IF i <= Len(h) THEN h[i] ELSE t[i - Len(h)]
  BY <1>1, ConcatProperties
<1>6. Len(h \o t) = 3 + Len(t) BY <1>5, <1>2
<1>7. \A i \in 1..Len(t) : (h \o t)[3 + i] = t[i]
  <2> TAKE i \in 1..Len(t)
  <2>1. 3 + i \in 1..Len(h) + Len(t) /\ ~(3 + i <= Len(h)) /\ 3 + i - Len(h) = i
    BY <1>4, <1>2
  <2>2. (h \o t)[3 + i] = IF 3 + i <= Len(h) THEN h[3 + i] ELSE t[3 + i - Len(h)]
    BY <2>1, <1>5
  <2> QED BY <2>1, <2>2, Zenon
<1>8. (h \o t)[1] = h[1] /\ (h \o t)[2] = h[2] /\ (h \o t)[3] = h[3]
  <2>1. 1 \in 1..Len(h) + Len(t) /\ 2 \in 1..Len(h) + Len(t) /\ 3 \in 1..Len(h) + Len(t)
    BY <1>2, <1>4
  <2>2. 1 <= Len(h) /\ 2 <= Len(h) /\ 3 <= Len(h) BY <1>2
  <2> QED BY <2>1, <2>2, <1>5, Zenon
<1> QED BY <1>5, <1>3, <1>6, <1>7, <1>8, Zenon DEF h

\* The gates of a request form a sequence; those of a command hold the checks that protect the
\* runtime.
LEMMA GwOrderFacts ==
  ASSUME NEW kind
  PROVE  /\ GwOrder(kind) \in Seq(GwGates)
         /\ kind \in GwCommandKinds =>
              /\ \E i \in DOMAIN GwOrder(kind) : GwOrder(kind)[i] = "body"
              /\ \E i \in DOMAIN GwOrder(kind) : GwOrder(kind)[i] = "key"
              /\ kind # "input" => \E i \in DOMAIN GwOrder(kind) : GwOrder(kind)[i] = "payload"
<1> DEFINE first == <<"rate", "authentication", "boundary">>
           Forms(t) == /\ GwOrder(kind) \in Seq(GwGates) /\ Len(GwOrder(kind)) = 3 + Len(t)
                       /\ \A i \in 1..Len(t) : GwOrder(kind)[3 + i] = t[i]
<1>0. \A t \in Seq(GwGates) : GwOrder(kind) = first \o t => Forms(t)
  <2> TAKE t \in Seq(GwGates)
  <2> HAVE GwOrder(kind) = first \o t
  <2> QED BY GwAfterFirst
<1> HIDE DEF first, Forms
<1>1. CASE kind \in GwStarts
  <2> DEFINE t == <<"authority", "scheduler", "body", "payload", "agent", "key">>
  <2>1. GwOrder(kind) = first \o t BY <1>1 DEF GwOrder, GwStarts, GwBodies, first
  <2>2. t \in Seq(GwGates) BY DEF GwGates
  <2>3. Forms(t) BY <1>0, <2>1, <2>2
  <2>4. /\ GwOrder(kind) \in Seq(GwGates) /\ Len(GwOrder(kind)) = 9
        /\ GwOrder(kind)[6] = "body" /\ GwOrder(kind)[7] = "payload" /\ GwOrder(kind)[9] = "key"
    BY <2>3 DEF Forms
  <2>5. DOMAIN GwOrder(kind) = 1..9 BY <2>4
  <2> QED BY <2>4, <2>5
<1>2. CASE kind \in GwBodies \ {"input"}
  <2> DEFINE t == <<"body", "authority", "payload", "key">>
  <2>1. GwOrder(kind) = first \o t BY <1>2 DEF GwOrder, GwStarts, GwBodies, first
  <2>2. t \in Seq(GwGates) BY DEF GwGates
  <2>3. Forms(t) BY <1>0, <2>1, <2>2
  <2>4. /\ GwOrder(kind) \in Seq(GwGates) /\ Len(GwOrder(kind)) = 7
        /\ GwOrder(kind)[4] = "body" /\ GwOrder(kind)[6] = "payload" /\ GwOrder(kind)[7] = "key"
    BY <2>3 DEF Forms
  <2>5. DOMAIN GwOrder(kind) = 1..7 BY <2>4
  <2> QED BY <2>4, <2>5
<1>3. CASE kind = "input"
  <2> DEFINE t == <<"body", "authority", "key">>
  <2>1. GwOrder(kind) = first \o t BY <1>3 DEF GwOrder, GwStarts, first
  <2>2. t \in Seq(GwGates) BY DEF GwGates
  <2>3. Forms(t) BY <1>0, <2>1, <2>2
  <2>4. /\ GwOrder(kind) \in Seq(GwGates) /\ Len(GwOrder(kind)) = 6
        /\ GwOrder(kind)[4] = "body" /\ GwOrder(kind)[6] = "key"
    BY <2>3 DEF Forms
  <2>5. DOMAIN GwOrder(kind) = 1..6 BY <2>4
  <2> QED BY <1>3, <2>4, <2>5
<1>4. CASE kind \notin GwCommandKinds
  <2>0. kind \notin GwStarts /\ kind \notin GwBodies /\ kind # "input"
    BY <1>4 DEF GwCommandKinds, GwBodies
  <2>1. \/ GwOrder(kind) = first \o <<"authority", "missing">>
        \/ GwOrder(kind) = first \o <<"authority", "payload", "missing">>
        \/ GwOrder(kind) = first \o <<"authority", "missing", "integrity", "size">>
        \/ GwOrder(kind) = first \o <<"authority">>
    <3>1. CASE kind = "run" BY <2>0, <3>1 DEF GwOrder, first
    <3>2. CASE kind = "events" BY <2>0, <3>2 DEF GwOrder, first
    <3>3. CASE kind \in {"verification", "artifact", "evidence"} BY <2>0, <3>3 DEF GwOrder, first
    <3>4. CASE kind \notin {"run", "events", "verification", "artifact", "evidence"}
      BY <2>0, <3>4 DEF GwOrder, first
    <3> QED BY <3>1, <3>2, <3>3, <3>4
  <2>2. /\ <<"authority", "missing">> \in Seq(GwGates)
        /\ <<"authority", "payload", "missing">> \in Seq(GwGates)
        /\ <<"authority", "missing", "integrity", "size">> \in Seq(GwGates)
        /\ <<"authority">> \in Seq(GwGates)
    BY DEF GwGates
  <2>3. GwOrder(kind) \in Seq(GwGates) BY <2>1, <2>2, <1>0, Zenon DEF Forms
  <2> QED BY <1>4, <2>3
<1> QED BY <1>1, <1>2, <1>3, <1>4 DEF GwCommandKinds

\* A gate answers with a failure.
LEMMA GwFailureCodes ==
  ASSUME NEW kind, NEW gate
  PROVE  GwFailure(kind, gate) \in {400, 401, 403, 404, 413, 429, 500, 503}
<1>1. CASE gate \in {"rate", "authentication", "boundary"} BY <1>1 DEF GwFailure
<1>2. CASE gate \in {"authority", "scheduler"} BY <1>2 DEF GwFailure
<1>3. CASE gate \in {"agent", "missing", "integrity", "size"} BY <1>3 DEF GwFailure
<1>4. CASE gate \notin {"rate", "authentication", "boundary", "authority", "scheduler", "agent",
                        "missing", "integrity", "size"}
  BY <1>4 DEF GwFailure
<1> QED BY <1>1, <1>2, <1>3, <1>4

\* At first no delivery has arrived.
LEMMA GwInitInv == GwInit => GwInv
<1> SUFFICES ASSUME GwInit PROVE GwInv OBVIOUS
<1>1. GwOrder(gwCase.kind) \in Seq(GwGates) BY GwOrderFacts
<1>2. \A i \in DOMAIN GwOrder(gwCase.kind) : ~(i < 0) BY <1>1
<1>3. ASSUME NEW d \in GwDeliveries PROVE GwDelivery(d)
  <2>1. gwRefusal[d] = "none" /\ gwStatus[d] = 0 /\ gwAt[d] = 0 /\ d \notin gwCommitted
    BY DEF GwInit
  <2> QED BY <1>2, <2>1 DEF GwDelivery
<1>4. GwRecordsOK BY DEF GwInit, GwRecordsOK
<1>5. GwBareRequest \in GwRequestType BY DEF GwRequestType
<1> QED BY <1>3, <1>4, <1>5 DEF GwInit, GwInv

\* A delivery is as before when another one takes a step.
LEMMA GwOthers ==
  ASSUME NEW e \in GwDeliveries, GwDelivery(e), gwCase' = gwCase,
         gwAt'[e] = gwAt[e], gwSent'[e] = gwSent[e], gwRefusal'[e] = gwRefusal[e],
         gwStatus'[e] = gwStatus[e], e \in gwCommitted' <=> e \in gwCommitted,
         gwRecords \subseteq gwRecords'
  PROVE  GwDelivery(e)'
<1>1. \A g : GwMayPass(e, g)' <=> GwMayPass(e, g) BY DEF GwMayPass
<1>2. \A g : GwMayFail(e, g)' <=> GwMayFail(e, g) BY <1>1 DEF GwMayFail
<1>3. GwCommandFor(e)' = GwCommandFor(e) BY DEF GwCommandFor
<1> QED BY <1>1, <1>2, <1>3 DEF GwDelivery

\* A delivery that ends behind the gates has passed each of them.
LEMMA GwEndKeeps ==
  ASSUME NEW d \in GwDeliveries, NEW status \in {200, 202, 409, 500, 503}, GwInv, GwEnds(d, status),
         gwRecords \subseteq gwRecords',
         gwCase.kind \in GwCommandKinds /\ status \in {200, 202} => GwCommandFor(d) \in gwRecords',
         \A e \in GwDeliveries : e # d => (e \in gwCommitted' <=> e \in gwCommitted)
  PROVE  /\ gwCase' \in GwCases /\ gwSent' \in [GwDeliveries -> GwRequestType]
         /\ gwAt' \in [GwDeliveries -> Nat] /\ gwStatus' \in [GwDeliveries -> Nat]
         /\ gwRefusal' \in [GwDeliveries -> GwGates \cup {"none"}]
         /\ \A e \in GwDeliveries : GwDelivery(e)'
<1> DEFINE order == GwOrder(gwCase.kind)
<1>0. order \in Seq(GwGates) /\ Len(order) \in Nat /\ DOMAIN order = 1..Len(order)
  BY GwOrderFacts
<1>1. /\ gwCase' = gwCase /\ gwSent' = gwSent /\ gwRefusal' = gwRefusal
      /\ gwAt[d] = Len(order) + 1
      /\ gwAt' = [gwAt EXCEPT ![d] = @ + 1] /\ gwStatus' = [gwStatus EXCEPT ![d] = status]
  BY DEF GwEnds
<1> HIDE DEF order
<1>2. /\ gwAt' \in [GwDeliveries -> Nat] /\ gwStatus' \in [GwDeliveries -> Nat]
      /\ gwAt'[d] = Len(order) + 2 /\ gwStatus'[d] = status
      /\ \A e \in GwDeliveries : e # d => gwAt'[e] = gwAt[e] /\ gwStatus'[e] = gwStatus[e]
  BY <1>0, <1>1 DEF GwInv
<1>3. ASSUME NEW e \in GwDeliveries, e # d PROVE GwDelivery(e)'
  BY <1>1, <1>2, <1>3, GwOthers DEF GwInv
<1>4. GwDelivery(d)'
  <2>1. GwDelivery(d) BY DEF GwInv
  <2>2. gwRefusal[d] = "none" BY <1>0, <1>1, <2>1 DEF GwDelivery, order
  <2>3. \A i \in DOMAIN order : GwMayPass(d, order[i])
    <3>1. \A i \in DOMAIN order : i < gwAt[d] BY <1>0, <1>1
    <3> QED BY <2>1, <2>2, <3>1 DEF GwDelivery, order
  <2>4. \A g : GwMayPass(d, g)' <=> GwMayPass(d, g) BY <1>1 DEF GwMayPass
  <2>5. GwCommandFor(d)' = GwCommandFor(d) BY <1>1 DEF GwCommandFor
  <2>6. ~(gwAt'[d] < Len(order) + 2) BY <1>0, <1>2
  <2> QED BY <1>1, <1>2, <2>2, <2>3, <2>4, <2>5, <2>6 DEF GwDelivery, order
<1> QED BY <1>1, <1>2, <1>3, <1>4 DEF GwInv

\* Nothing committed, the records are as they were.
LEMMA GwRecordsKept ==
  ASSUME GwRecordsOK, gwCase' = gwCase, UNCHANGED <<gwRecords, gwCommitted>>,
         \A d \in gwCommitted : gwSent'[d] = gwSent[d]
  PROVE  GwRecordsOK'
<1>1. \A d \in gwCommitted : GwCommandFor(d)' = GwCommandFor(d) BY DEF GwCommandFor
<1>2. {GwCommandFor(d)' : d \in gwCommitted} = {GwCommandFor(d) : d \in gwCommitted} BY <1>1
<1> QED BY <1>2 DEF GwRecordsOK

\* The handler's steps keep its invariant.
LEMMA GwInvNext == GwInv /\ [GwNext]_gwVars => GwInv'
<1> SUFFICES ASSUME GwInv, [GwNext]_gwVars PROVE GwInv' OBVIOUS
<1> DEFINE order == GwOrder(gwCase.kind)
<1>0. order \in Seq(GwGates) /\ Len(order) \in Nat /\ DOMAIN order = 1..Len(order)
  BY GwOrderFacts
<1>1. CASE UNCHANGED gwVars
  <2>1. GwRecordsOK' BY <1>1, GwRecordsKept DEF gwVars, GwInv
  <2>2. ASSUME NEW e \in GwDeliveries PROVE GwDelivery(e)'
    BY <1>1, GwOthers DEF gwVars, GwInv
  <2> QED BY <1>1, <2>1, <2>2 DEF gwVars, GwInv
<1>2. ASSUME NEW d \in GwDeliveries, GwArrive(d) PROVE GwInv'
  <2>0. GwDelivery(d) BY DEF GwInv
  <2>1. PICK q \in GwRequests \cup {GwBareRequest} : gwSent' = [gwSent EXCEPT ![d] = q]
    BY <1>2 DEF GwArrive
  <2>2. q \in GwRequestType BY <2>1 DEF GwRequestType
  <2>3. /\ gwAt[d] = 0 /\ gwAt' = [gwAt EXCEPT ![d] = 1]
        /\ UNCHANGED <<gwCase, gwRefusal, gwStatus, gwRecords, gwCommitted>>
    BY <1>2 DEF GwArrive
  <2>4. gwRefusal[d] = "none" /\ gwStatus[d] = 0 /\ d \notin gwCommitted
    BY <1>0, <2>0, <2>3 DEF GwDelivery
  <2> HIDE DEF order
  <2>5. /\ gwAt' \in [GwDeliveries -> Nat] /\ gwAt'[d] = 1
        /\ gwSent' \in [GwDeliveries -> GwRequestType]
        /\ \A e \in GwDeliveries : e # d => gwAt'[e] = gwAt[e] /\ gwSent'[e] = gwSent[e]
    BY <2>1, <2>2, <2>3 DEF GwInv
  <2>6. ASSUME NEW e \in GwDeliveries, e # d PROVE GwDelivery(e)'
    BY <2>3, <2>5, <2>6, GwOthers DEF GwInv
  <2>7. \A i \in DOMAIN order : ~(i < 1) BY <1>0
  <2>8. GwDelivery(d)' BY <2>3, <2>4, <2>5, <2>7 DEF GwDelivery, order
  <2>9. \A e \in gwCommitted : gwSent'[e] = gwSent[e] BY <2>4, <2>5 DEF GwInv, GwRecordsOK
  <2>10. GwRecordsOK' BY <2>3, <2>9, GwRecordsKept DEF GwInv
  <2> QED BY <2>3, <2>5, <2>6, <2>8, <2>10 DEF GwInv
<1>3. ASSUME NEW d \in GwDeliveries, GwPass(d) PROVE GwInv'
  <2>0. GwDelivery(d) BY DEF GwInv
  <2>1. /\ gwAt[d] \in DOMAIN order /\ GwMayPass(d, order[gwAt[d]])
        /\ gwAt' = [gwAt EXCEPT ![d] = @ + 1]
        /\ UNCHANGED <<gwCase, gwSent, gwRefusal, gwStatus, gwRecords, gwCommitted>>
    BY <1>3 DEF GwPass
  <2>2. gwRefusal[d] = "none" /\ gwStatus[d] = 0 /\ d \notin gwCommitted
    BY <1>0, <2>0, <2>1 DEF GwDelivery
  <2>3. \A i \in DOMAIN order : i < gwAt[d] => GwMayPass(d, order[i])
    BY <2>0, <2>2 DEF GwDelivery
  <2> HIDE DEF order
  <2>4. /\ gwAt' \in [GwDeliveries -> Nat] /\ gwAt'[d] = gwAt[d] + 1 /\ gwAt[d] \in Nat
        /\ \A e \in GwDeliveries : e # d => gwAt'[e] = gwAt[e]
    BY <2>1 DEF GwInv
  <2>5. \A i \in DOMAIN order : i < gwAt'[d] => GwMayPass(d, order[i])
    <3>1. \A i \in DOMAIN order : i < gwAt[d] + 1 => i < gwAt[d] \/ i = gwAt[d] BY <1>0, <2>4
    <3> QED BY <2>1, <2>3, <2>4, <3>1
  <2>6. \A g : GwMayPass(d, g)' <=> GwMayPass(d, g) BY <2>1 DEF GwMayPass
  <2>7. GwDelivery(d)' BY <2>1, <2>2, <2>5, <2>6 DEF GwDelivery, order
  <2>8. ASSUME NEW e \in GwDeliveries, e # d PROVE GwDelivery(e)'
    BY <2>1, <2>4, <2>8, GwOthers DEF GwInv
  <2>9. GwRecordsOK' BY <2>1, GwRecordsKept DEF GwInv
  <2> QED BY <2>1, <2>4, <2>7, <2>8, <2>9 DEF GwInv
<1>4. ASSUME NEW d \in GwDeliveries, GwRefuse(d) PROVE GwInv'
  <2> DEFINE gate == order[gwAt[d]]
  <2>0. GwDelivery(d) BY DEF GwInv
  <2>1. /\ gwAt[d] \in DOMAIN order /\ GwMayFail(d, gate)
        /\ gwRefusal' = [gwRefusal EXCEPT ![d] = gate]
        /\ gwStatus' = [gwStatus EXCEPT ![d] = GwFailure(gwCase.kind, gate)]
        /\ gwAt' = [gwAt EXCEPT ![d] = Len(order) + 2]
        /\ UNCHANGED <<gwCase, gwSent, gwRecords, gwCommitted>>
    BY <1>4 DEF GwRefuse
  <2>2. d \notin gwCommitted BY <1>0, <2>0, <2>1 DEF GwDelivery
  <2>3. gate \in GwGates BY <1>0, <2>1
  <2>4. gate # "none" BY <2>3 DEF GwGates
  <2>5. GwFailure(gwCase.kind, gate) \in {400, 401, 403, 404, 413, 429, 500, 503} BY GwFailureCodes
  <2> HIDE DEF order, gate
  <2>6. /\ gwAt' \in [GwDeliveries -> Nat] /\ gwAt'[d] = Len(order) + 2
        /\ gwRefusal' \in [GwDeliveries -> GwGates \cup {"none"}] /\ gwRefusal'[d] = gate
        /\ gwStatus' \in [GwDeliveries -> Nat] /\ gwStatus'[d] = GwFailure(gwCase.kind, gate)
        /\ \A e \in GwDeliveries : e # d =>
             gwAt'[e] = gwAt[e] /\ gwRefusal'[e] = gwRefusal[e] /\ gwStatus'[e] = gwStatus[e]
    BY <1>0, <2>1, <2>3, <2>5 DEF GwInv
  <2>7. \A g : GwMayFail(d, g)' <=> GwMayFail(d, g) BY <2>1 DEF GwMayFail, GwMayPass
  <2>8. gwStatus'[d] \notin {200, 202} BY <2>5, <2>6
  <2>9. ~(gwAt'[d] < Len(order) + 2) BY <1>0, <2>6
  <2>10. GwDelivery(d)' BY <2>1, <2>2, <2>4, <2>6, <2>7, <2>8, <2>9 DEF GwDelivery, order
  <2>11. ASSUME NEW e \in GwDeliveries, e # d PROVE GwDelivery(e)'
    BY <2>1, <2>6, <2>11, GwOthers DEF GwInv
  <2>12. GwRecordsOK' BY <2>1, GwRecordsKept DEF GwInv
  <2> QED BY <2>1, <2>6, <2>10, <2>11, <2>12 DEF GwInv
<1>5. ASSUME NEW d \in GwDeliveries, NEW status \in {200, 202, 409, 500, 503}, GwEnds(d, status),
             UNCHANGED <<gwRecords, gwCommitted>>,
             gwCase.kind \in GwCommandKinds /\ status \in {200, 202} => GwCommandFor(d) \in gwRecords
      PROVE  GwInv'
  <2>1. gwCase' = gwCase /\ gwSent' = gwSent BY <1>5 DEF GwEnds
  <2>2. GwRecordsOK' BY <1>5, <2>1, GwRecordsKept DEF GwInv
  <2> QED BY <1>5, <2>2, GwEndKeeps DEF GwInv
<1>6. ASSUME NEW d \in GwDeliveries, GwCommit(d) PROVE GwInv'
  <2>1. PICK status \in {200, 202, 409, 500} : GwEnds(d, status)
    BY <1>6 DEF GwCommit, GwSuccess, GwThrown
  <2>2. /\ gwCase.kind \in GwCommandKinds /\ GwRecorded(d) = {}
        /\ gwRecords' = gwRecords \cup {GwCommandFor(d)} /\ gwCommitted' = gwCommitted \cup {d}
    BY <1>6 DEF GwCommit
  <2>3. gwCase' = gwCase /\ gwSent' = gwSent BY <2>1 DEF GwEnds
  <2>4. ASSUME NEW c \in gwCommitted
        PROVE  ~(gwSent[c].key = gwSent[d].key /\ gwSent[c].scope = gwSent[d].scope)
    <3>1. GwCommandFor(c) \in gwRecords /\ GwCommandFor(c) \notin GwRecorded(d)
      BY <2>2 DEF GwInv, GwRecordsOK
    <3> QED BY <3>1 DEF GwRecorded, GwCommandFor
  <2>5. GwRecordsOK'
    <3>1. gwCommitted \cup {d} \subseteq GwDeliveries BY DEF GwInv, GwRecordsOK
    <3>2. \A e : GwCommandFor(e)' = GwCommandFor(e) BY <2>3 DEF GwCommandFor
    <3>3. gwRecords \cup {GwCommandFor(d)} = {GwCommandFor(e) : e \in gwCommitted \cup {d}}
      BY DEF GwInv, GwRecordsOK
    <3>4. \A b, c \in gwCommitted \cup {d} :
            gwSent[b].key = gwSent[c].key /\ gwSent[b].scope = gwSent[c].scope => b = c
      BY <2>4 DEF GwInv, GwRecordsOK
    <3>5. gwRecords' = {GwCommandFor(e)' : e \in gwCommitted'} BY <2>2, <3>2, <3>3
    <3> QED BY <2>2, <2>3, <3>1, <3>4, <3>5 DEF GwRecordsOK
  <2>6. \A e \in GwDeliveries : e # d => (e \in gwCommitted' <=> e \in gwCommitted) BY <2>2
  <2> QED BY <2>1, <2>2, <2>5, <2>6, GwEndKeeps DEF GwInv
<1>7. ASSUME NEW d \in GwDeliveries, GwReplay(d) PROVE GwInv'
  <2>1. PICK status \in {200, 202, 409, 500} : GwEnds(d, status)
    BY <1>7 DEF GwReplay, GwSuccess, GwThrown
  <2>2. GwCommandFor(d) \in gwRecords /\ UNCHANGED <<gwRecords, gwCommitted>> BY <1>7 DEF GwReplay
  <2> QED BY <1>5, <2>1, <2>2
<1>8. ASSUME NEW d \in GwDeliveries, GwConflict(d) PROVE GwInv'
  <2>1. GwEnds(d, 409) /\ UNCHANGED <<gwRecords, gwCommitted>> BY <1>8 DEF GwConflict
  <2> QED BY <1>5, <2>1
<1>9. ASSUME NEW d \in GwDeliveries, GwThrow(d) PROVE GwInv'
  <2>1. PICK status \in {409, 500} : GwEnds(d, status) BY <1>9 DEF GwThrow, GwThrown
  <2>2. UNCHANGED <<gwRecords, gwCommitted>> BY <1>9 DEF GwThrow
  <2> QED BY <1>5, <2>1, <2>2
<1>10. ASSUME NEW d \in GwDeliveries, GwReply(d) PROVE GwInv'
  <2>1. PICK status \in {200, 202, 503} : GwEnds(d, status) BY <1>10 DEF GwReply, GwSuccess
  <2>2. gwCase.kind \notin GwCommandKinds /\ UNCHANGED <<gwRecords, gwCommitted>> BY <1>10 DEF GwReply
  <2> QED BY <1>5, <2>1, <2>2
<1> QED BY <1>1, <1>2, <1>3, <1>4, <1>6, <1>7, <1>8, <1>9, <1>10 DEF GwNext, GwStep, GwCall

\* The properties of the handler, from its invariant.
LEMMA GwReadings == GwInv => GwOnce /\ GwActsLast /\ GwIndistinguishable /\ GwReadyServes
<1> SUFFICES ASSUME GwInv PROVE GwOnce /\ GwActsLast /\ GwIndistinguishable /\ GwReadyServes
  OBVIOUS
<1>1. GwOnce
  <2>1. ASSUME NEW d \in GwDeliveries, gwCase.kind \in GwCommandKinds, gwStatus[d] \in {200, 202}
        PROVE  \E c \in gwCommitted : gwSent[c] = gwSent[d]
    <3>1. GwCommandFor(d) \in gwRecords BY <2>1 DEF GwInv, GwDelivery
    <3>2. PICK c \in gwCommitted : GwCommandFor(c) = GwCommandFor(d)
      BY <3>1 DEF GwInv, GwRecordsOK
    <3>3. gwSent[c] \in GwRequestType /\ gwSent[d] \in GwRequestType
      BY <3>2 DEF GwInv, GwRecordsOK
    <3>4. /\ gwSent[c].key = gwSent[d].key /\ gwSent[c].scope = gwSent[d].scope
          /\ gwSent[c].content = gwSent[d].content
      BY <3>2 DEF GwCommandFor
    <3>5. \A q \in GwRequestType : q = [key |-> q.key, scope |-> q.scope, content |-> q.content]
      BY GwRequestAssumption DEF GwRequestType, GwBareRequest
    <3> QED BY <3>3, <3>4, <3>5
  <2> QED BY <2>1 DEF GwOnce, GwInv, GwRecordsOK
<1>2. GwActsLast
  <2> SUFFICES ASSUME NEW d \in gwCommitted
               PROVE  /\ gwRefusal[d] = "none"
                      /\ gwSent[d].key # "malformed" /\ gwSent[d].content # "unreadable"
                      /\ gwSent[d].content = "invalid" => gwCase.kind = "input"
    BY DEF GwActsLast
  <2> DEFINE order == GwOrder(gwCase.kind)
  <2>0. order \in Seq(GwGates) /\ Len(order) \in Nat /\ DOMAIN order = 1..Len(order)
    BY GwOrderFacts
  <2>1. /\ d \in GwDeliveries /\ gwCase.kind \in GwCommandKinds /\ GwDelivery(d) /\ gwAt[d] \in Nat
    BY DEF GwInv, GwRecordsOK
  <2>2. gwRefusal[d] = "none" /\ ~(gwAt[d] < Len(order) + 2) BY <2>1 DEF GwDelivery
  <2>3. \A i \in DOMAIN order : i < gwAt[d] BY <2>0, <2>1, <2>2
  <2>4. \A i \in DOMAIN order : GwMayPass(d, order[i]) BY <2>1, <2>2, <2>3 DEF GwDelivery
  <2>5. /\ \E i \in DOMAIN order : order[i] = "body"
        /\ \E i \in DOMAIN order : order[i] = "key"
        /\ gwCase.kind # "input" => \E i \in DOMAIN order : order[i] = "payload"
    BY <2>1, GwOrderFacts
  <2> HIDE DEF order
  <2>6. /\ GwMayPass(d, "body") /\ GwMayPass(d, "key")
        /\ gwCase.kind # "input" => GwMayPass(d, "payload")
    BY <2>4, <2>5
  <2> QED BY <2>2, <2>6 DEF GwMayPass
<1>3. GwIndistinguishable
  <2> SUFFICES ASSUME NEW c \in GwDeliveries, NEW d \in GwDeliveries,
                      gwCase.kind \in {"verification", "artifact", "evidence"},
                      gwRefusal[c] = "authority", gwRefusal[d] = "missing"
               PROVE  gwStatus[c] = gwStatus[d]
    BY DEF GwIndistinguishable
  <2>1. /\ gwStatus[c] = GwFailure(gwCase.kind, "authority")
        /\ gwStatus[d] = GwFailure(gwCase.kind, "missing")
    BY DEF GwInv, GwDelivery
  <2> QED BY <2>1 DEF GwFailure, GwConceals
<1>4. GwReadyServes
  <2> SUFFICES ASSUME GwReady(gwCase.host), NEW d \in GwDeliveries, gwRefusal[d] = "scheduler",
                      {"background_wakeup", "atomic_command_and_wakeup"} \subseteq gwCase.host.required
               PROVE  FALSE
    BY DEF GwReadyServes
  <2>1. gwCase.host.wakeup /\ gwCase.host.atomic
    <3>1. /\ GwSatisfied(gwCase.host, "background_wakeup")
          /\ GwSatisfied(gwCase.host, "atomic_command_and_wakeup")
      BY DEF GwReady, GwRuntimeReady
    <3> QED BY <3>1 DEF GwSatisfied
  <2>2. ~GwSchedulerMissing(gwCase.kind, gwCase.host) BY <2>1 DEF GwSchedulerMissing
  <2>3. GwMayFail(d, "scheduler") BY DEF GwInv, GwDelivery
  <2> QED BY <2>2, <2>3 DEF GwMayFail, GwMayPass
<1> QED BY <1>1, <1>2, <1>3, <1>4

\* What a client holds is extended by the event after its last one, whichever connection
\* brings it.
LEMMA FeedInvNext == FeedInv /\ [FeedNext]_feedVars => FeedInv'
<1> SUFFICES ASSUME FeedInv, [FeedNext]_feedVars PROVE FeedInv' OBVIOUS
<1>1. CASE UNCHANGED <<feedCursor, feedGot, feedLinked>> BY <1>1 DEF FeedInv, FeedInOrder
<1>2. CASE FeedYield
  <2>1. CASE feedLinked
    <3>1. /\ feedGot' = Append(feedGot, feedCursor + 1) /\ feedCursor' = feedCursor + 1
          /\ feedLinked' = feedLinked
      BY <1>2, <2>1 DEF FeedYield
    <3>2. feedCursor = Len(feedGot) /\ Len(feedGot) \in Nat BY <2>1 DEF FeedInv
    <3>3. /\ feedGot' \in Seq(Nat) /\ Len(feedGot') = Len(feedGot) + 1
          /\ \A i \in 1..Len(feedGot) : feedGot'[i] = feedGot[i]
          /\ feedGot'[Len(feedGot) + 1] = Len(feedGot) + 1
      BY <3>1, <3>2 DEF FeedInv
    <3>4. \A i \in 1..Len(feedGot) : feedGot[i] = i BY DEF FeedInv, FeedInOrder
    <3>5. \A i \in 1..Len(feedGot') : feedGot'[i] = i
      <4> TAKE i \in 1..Len(feedGot')
      <4>1. i \in 1..Len(feedGot) \/ i = Len(feedGot) + 1 BY <3>2, <3>3
      <4> QED BY <4>1, <3>3, <3>4
    <3>6. feedGot' = [i \in 1..Len(feedGot') |-> i] BY <3>3, <3>5
    <3> QED BY <3>1, <3>2, <3>3, <3>6 DEF FeedInv, FeedInOrder
  <2>2. CASE ~feedLinked
    <3>1. feedCursor' = feedCursor + 1 /\ feedGot' = feedGot /\ feedLinked' = feedLinked
      BY <1>2, <2>2 DEF FeedYield
    <3>2. feedCursor + 1 \in Nat BY DEF FeedInv
    <3> QED BY <2>2, <3>1, <3>2 DEF FeedInv, FeedInOrder
  <2> QED BY <2>1, <2>2
<1>3. CASE FeedReconnect
  <2>1. feedCursor' = FeedAfter /\ feedGot' = feedGot /\ feedLinked' = TRUE BY <1>3 DEF FeedReconnect
  <2>2. FeedAfter = Len(feedGot)
    <3>1. CASE feedGot = <<>> BY <3>1 DEF FeedAfter
    <3>2. CASE feedGot # <<>>
      <4>1. Len(feedGot) \in Nat /\ Len(feedGot) # 0 BY <3>2 DEF FeedInv
      <4>2. \A i \in 1..Len(feedGot) : feedGot[i] = i BY DEF FeedInv, FeedInOrder
      <4>3. Len(feedGot) \in 1..Len(feedGot) BY <4>1
      <4>4. feedGot[Len(feedGot)] = Len(feedGot) BY <4>2, <4>3
      <4> QED BY <3>2, <4>4 DEF FeedAfter, Last
    <3> QED BY <3>1, <3>2
  <2>3. Len(feedGot) \in Nat BY DEF FeedInv
  <2> QED BY <2>1, <2>2, <2>3 DEF FeedInv, FeedInOrder
<1>4. CASE FeedDrop BY <1>4 DEF FeedDrop, FeedInv, FeedInOrder
<1> QED
  BY <1>1, <1>2, <1>3, <1>4
  DEF FeedNext, feedVars, FeedAppend, FeedRead, FeedPageEnd, FeedProjection, FeedWake

\* A new feed starts in front of the first event.
LEMMA FeedInitInv == FeedInit => FeedInv
BY DEF FeedInit, FeedInv, FeedInOrder

\* The handler and the feed: under its key a request takes effect at most once however often
\* it is delivered and whatever it is answered, none that a gate refused does, a concealed
\* resource answers like a missing one, and a client's events are the run's in order over any
\* number of connections.
THEOREM GatewayIsSafe == GwSpec => []GatewaySafe
<1>1. GwInit /\ FeedInit => GwInv /\ FeedInv BY GwInitInv, FeedInitInv
<1>2. GwInv /\ FeedInv /\ [\/ GwNext /\ UNCHANGED feedVars
                           \/ FeedNext /\ UNCHANGED gwVars]_<<gwVars, feedVars>>
        => (GwInv /\ FeedInv)'
  BY GwInvNext, FeedInvNext
<1>3. GwInv /\ FeedInv => GatewaySafe BY GwReadings DEF GatewaySafe, FeedInv
<1> QED BY <1>1, <1>2, <1>3, PTL DEF GwSpec

-----------------------------------------------------------------------------
(* The project initializer *)

\* A process: where it stands, what it found at first, its temporary directory, its outcome.
IniProcs ==
  [pc : {"idle", "write", "run", "validate", "recheck", "rmdir", "gone", "rename", "cleanup",
         "restore", "ended"},
   initial : {"none", "missing", "empty"}, temp : {"none", "partial", "complete", "changed"},
   outcome : {"none", "refused", "created", "failed", "unclean", "dead"}, orphan : BOOLEAN]

\* What a process has made fits where it stands.
IniProcOK(r) ==
  /\ r.pc \in {"recheck", "rmdir", "gone", "rename"} => r.temp = "complete"
  /\ r.pc \in {"rmdir", "gone", "restore"} => r.initial = "empty"
  /\ r.pc = "idle" => r.temp = "none"
  /\ r.pc = "restore" /\ r.temp # "none" => r.orphan
  /\ r.outcome = "unclean" => r.pc = "ended"
  /\ r.pc = "ended" /\ r.temp # "none" => r.outcome \in {"dead", "unclean"} \/ r.orphan
  /\ r.orphan => r.pc \in {"cleanup", "restore", "ended"}

\* Process r still has to put back the directory it removed, or a project in its place, or
\* could not.
IniOwes(r) ==
  \/ r.initial = "empty" /\ r.pc \in {"gone", "rename", "cleanup", "restore"}
  \/ r.outcome = "unclean"

\* What every step keeps: a missing target that some process found empty is owed by one,
\* as long as nobody died and no stranger removed anything.
IniInv ==
  /\ iniProc \in [IniProcesses -> IniProcs]
  /\ iniTarget.is \in {"missing", "empty", "stranger", "complete"}
  /\ iniCrashes \in Nat /\ iniRemovals \in Nat
  /\ \A p \in IniProcesses : IniProcOK(iniProc[p])
  /\ /\ iniCrashes = 0 /\ iniRemovals = 0 /\ iniTarget.is = "missing"
     /\ \E p \in IniProcesses : iniProc[p].initial = "empty"
     => \E p \in IniProcesses : IniOwes(iniProc[p])

\* A step of process p to record r, which leaves the target alone or has brought it to a
\* state in which r is not missed.
LEMMA IniMoves ==
  ASSUME IniInv, NEW p \in IniProcesses, NEW r \in IniProcs, IniProcOK(r),
         iniProc' = [iniProc EXCEPT ![p] = r],
         iniTarget'.is \in {"missing", "empty", "stranger", "complete"},
         iniCrashes' \in Nat, iniRemovals' = iniRemovals,
         iniCrashes' = 0 => iniCrashes = 0,
         iniCrashes' = 0 /\ iniTarget'.is = "missing" =>
            \/ IniOwes(r)
            \/ /\ iniTarget.is = "missing"
               /\ r.initial = "empty" => iniProc[p].initial = "empty"
               /\ ~IniOwes(iniProc[p])
  PROVE  IniInv'
<1>1. iniProc' \in [IniProcesses -> IniProcs] BY DEF IniInv
<1>2. /\ iniProc'[p] = r
      /\ \A q \in IniProcesses : q # p => iniProc'[q] = iniProc[q]
  BY DEF IniInv
<1>3. \A q \in IniProcesses : IniProcOK(iniProc'[q]) BY <1>2 DEF IniInv
<1>4. ASSUME iniCrashes' = 0, iniRemovals' = 0, iniTarget'.is = "missing",
             NEW q \in IniProcesses, iniProc'[q].initial = "empty"
      PROVE  \E o \in IniProcesses : IniOwes(iniProc'[o])
  <2>1. CASE IniOwes(r) BY <1>2, <2>1
  <2>2. CASE ~IniOwes(r)
    <3>1. /\ iniTarget.is = "missing" /\ ~IniOwes(iniProc[p])
          /\ r.initial = "empty" => iniProc[p].initial = "empty"
      BY <1>4, <2>2
    <3>2. iniProc[q].initial = "empty" BY <1>2, <1>4, <3>1
    <3>3. PICK o \in IniProcesses : IniOwes(iniProc[o]) BY <1>4, <3>1, <3>2 DEF IniInv
    <3>4. o # p BY <3>1, <3>3
    <3> QED BY <1>2, <3>3, <3>4
  <2> QED BY <2>1, <2>2
<1> QED BY <1>1, <1>3, <1>4 DEF IniInv

\* A process by its fields.
IniRec(pc, initial, temp, outcome, orphan) ==
  [pc |-> pc, initial |-> initial, temp |-> temp, outcome |-> outcome, orphan |-> orphan]

\* How the actions write a process: only its place, or its place and outcome.
LEMMA IniForms ==
  ASSUME IniInv, NEW p \in IniProcesses
  PROVE  /\ \A pc : IniGo(p, pc) =>
              iniProc' = [iniProc EXCEPT ![p] =
                IniRec(pc, iniProc[p].initial, iniProc[p].temp, iniProc[p].outcome,
                       iniProc[p].orphan)]
         /\ \A outcome : IniEnds(p, outcome) =>
              iniProc' = [iniProc EXCEPT ![p] =
                IniRec("ended", iniProc[p].initial, iniProc[p].temp, outcome, iniProc[p].orphan)]
<1>1. iniProc[p] \in IniProcs /\ iniProc \in [IniProcesses -> IniProcs] BY DEF IniInv
<1> QED BY <1>1 DEF IniGo, IniEnds, IniRec, IniProcs

\* Each step of a process.
LEMMA IniProcessKeeps ==
  ASSUME IniInv, NEW p \in IniProcesses,
         \/ IniStart(p) \/ IniWriteTemplate(p) \/ IniRunCommands(p) \/ IniValidate(p)
         \/ IniRecheck(p) \/ IniRmdir(p) \/ IniStillMissing(p) \/ IniRename(p)
         \/ IniCleanup(p) \/ IniRestore(p) \/ IniOrphanWrites(p) \/ IniCrash(p)
  PROVE  IniInv'
<1> DEFINE r == iniProc[p]
<1>0. /\ r \in IniProcs /\ iniProc \in [IniProcesses -> IniProcs] /\ IniProcOK(r)
      /\ iniTarget.is \in {"missing", "empty", "stranger", "complete"}
      /\ iniCrashes \in Nat
  BY DEF IniInv
<1>a. IniElsewhere => iniCrashes' = iniCrashes /\ iniRemovals' = iniRemovals BY DEF IniElsewhere
<1>b. ASSUME iniTarget' = iniTarget, IniElsewhere,
             NEW s \in IniProcs, IniProcOK(s), iniProc' = [iniProc EXCEPT ![p] = s],
             s.initial = r.initial, IniOwes(r) => IniOwes(s) \/ iniTarget.is # "missing"
      PROVE  IniInv'
  BY <1>0, <1>a, <1>b, IniMoves
<1>1. CASE IniStart(p)
  <2>0. iniTarget' = iniTarget /\ IniElsewhere /\ r.pc = "idle" BY <1>1 DEF IniStart, IniAt
  <2>1. CASE IniEnds(p, "refused")
    <3> DEFINE s == IniRec("ended", r.initial, r.temp, "refused", r.orphan)
    <3>1. iniProc' = [iniProc EXCEPT ![p] = s] BY <2>1, IniForms
    <3>2. s \in IniProcs /\ IniProcOK(s) /\ s.initial = r.initial /\ ~IniOwes(r)
      BY <1>0, <2>0 DEF IniRec, IniProcs, IniProcOK, IniOwes
    <3> HIDE DEF s
    <3> QED BY <1>b, <2>0, <3>1, <3>2
  <2>2. CASE ~IniEnds(p, "refused")
    <3> DEFINE s == IniRec("write", IniState, "partial", r.outcome, r.orphan)
    <3>1. IniState \in {"missing", "empty"} /\ IniState = iniTarget.is
      BY <1>1, <2>2 DEF IniStart, IniState
    <3>2. iniProc' = [iniProc EXCEPT ![p] = s]
      BY <1>0, <1>1, <2>2 DEF IniStart, IniRec, IniProcs
    <3>3. s \in IniProcs /\ IniProcOK(s) /\ ~IniOwes(r) /\ s.initial = iniTarget.is
      BY <1>0, <2>0, <3>1 DEF IniRec, IniProcs, IniProcOK, IniOwes
    <3> HIDE DEF s
    <3> QED BY <1>0, <1>a, <2>0, <3>2, <3>3, IniMoves
  <2> QED BY <2>1, <2>2
<1>2. CASE IniWriteTemplate(p)
  <2>0. iniTarget' = iniTarget /\ IniElsewhere /\ r.pc = "write" /\ ~IniOwes(r)
    BY <1>0, <1>2 DEF IniWriteTemplate, IniAt, IniOwes, IniProcOK
  <2>1. PICK s \in {IniRec("run", r.initial, "complete", r.outcome, r.orphan),
                    IniRec("cleanup", r.initial, r.temp, r.outcome, r.orphan)} :
          iniProc' = [iniProc EXCEPT ![p] = s]
    BY <1>0, <1>2, IniForms DEF IniWriteTemplate, IniRec, IniProcs
  <2>2. s \in IniProcs /\ IniProcOK(s) /\ s.initial = r.initial
    BY <1>0, <2>0 DEF IniRec, IniProcs, IniProcOK
  <2> QED BY <1>b, <2>0, <2>1, <2>2
<1>3. CASE IniRunCommands(p)
  <2>0. iniTarget' = iniTarget /\ IniElsewhere /\ r.pc = "run" /\ ~IniOwes(r)
    BY <1>0, <1>3 DEF IniRunCommands, IniAt, IniOwes, IniProcOK
  <2>1. CASE \E alive \in BOOLEAN :
               iniProc' = [iniProc EXCEPT ![p].pc = "cleanup", ![p].orphan = alive]
    <3>1. PICK alive \in BOOLEAN :
            iniProc' = [iniProc EXCEPT ![p].pc = "cleanup", ![p].orphan = alive]
      BY <2>1
    <3>2. PICK s : s = [r EXCEPT !.pc = "cleanup", !.orphan = alive] OBVIOUS
    <3>3. iniProc' = [iniProc EXCEPT ![p] = s] BY <1>0, <3>1, <3>2
    <3>4. /\ s \in IniProcs /\ s.pc = "cleanup" /\ s.initial = r.initial
          /\ s.outcome = r.outcome
      BY <1>0, <3>2 DEF IniProcs
    <3>5. IniProcOK(s) BY <1>0, <2>0, <3>4 DEF IniProcOK
    <3> QED BY <1>b, <2>0, <3>3, <3>4, <3>5
  <2>2. CASE ~\E alive \in BOOLEAN :
               iniProc' = [iniProc EXCEPT ![p].pc = "cleanup", ![p].orphan = alive]
    <3>1. PICK s \in {IniRec("validate", r.initial, r.temp, r.outcome, r.orphan),
                      IniRec("validate", r.initial, "changed", r.outcome, r.orphan)} :
            iniProc' = [iniProc EXCEPT ![p] = s]
      BY <1>0, <1>3, <2>2, IniForms DEF IniRunCommands, IniRec, IniProcs
    <3>2. s \in IniProcs /\ IniProcOK(s) /\ s.initial = r.initial
      BY <1>0, <2>0, <3>1 DEF IniRec, IniProcs, IniProcOK
    <3> QED BY <1>b, <2>0, <3>1, <3>2
  <2> QED BY <2>1, <2>2
<1>4. CASE IniValidate(p)
  <2>0. iniTarget' = iniTarget /\ IniElsewhere /\ r.pc = "validate" /\ ~IniOwes(r)
    BY <1>0, <1>4 DEF IniValidate, IniAt, IniOwes, IniProcOK
  <2>1. PICK s \in {IniRec("recheck", r.initial, r.temp, r.outcome, r.orphan),
                    IniRec("cleanup", r.initial, r.temp, r.outcome, r.orphan)} :
          iniProc' = [iniProc EXCEPT ![p] = s] /\ (s.pc = "recheck" => r.temp = "complete")
    BY <1>4, IniForms DEF IniValidate, IniValid, IniRec
  <2>2. s \in IniProcs /\ IniProcOK(s) /\ s.initial = r.initial
    BY <1>0, <2>0, <2>1 DEF IniRec, IniProcs, IniProcOK
  <2> QED BY <1>b, <2>0, <2>1, <2>2
<1>5. CASE IniRecheck(p)
  <2>0. iniTarget' = iniTarget /\ IniElsewhere /\ r.pc = "recheck" /\ ~IniOwes(r)
    BY <1>0, <1>5 DEF IniRecheck, IniAt, IniOwes, IniProcOK
  <2>1. PICK s \in {IniRec("rmdir", r.initial, r.temp, r.outcome, r.orphan),
                    IniRec("rename", r.initial, r.temp, r.outcome, r.orphan),
                    IniRec("cleanup", r.initial, r.temp, r.outcome, r.orphan)} :
          iniProc' = [iniProc EXCEPT ![p] = s] /\ (s.pc = "rmdir" => r.initial = "empty")
    BY <1>5, IniForms DEF IniRecheck, IniRec
  <2>2. s \in IniProcs /\ IniProcOK(s) /\ s.initial = r.initial
    BY <1>0, <2>0, <2>1 DEF IniRec, IniProcs, IniProcOK
  <2> QED BY <1>b, <2>0, <2>1, <2>2
<1>6. CASE IniRmdir(p)
  <2>0. IniElsewhere /\ r.pc = "rmdir" /\ r.initial = "empty" /\ r.temp = "complete"
    BY <1>0, <1>6 DEF IniRmdir, IniAt, IniProcOK
  <2>1. PICK s \in {IniRec("gone", r.initial, r.temp, r.outcome, r.orphan),
                    IniRec("cleanup", r.initial, r.temp, r.outcome, r.orphan)} :
          iniProc' = [iniProc EXCEPT ![p] = s]
    BY <1>6, IniForms DEF IniRmdir
  <2>2. s \in IniProcs /\ IniProcOK(s) /\ IniOwes(s)
    BY <1>0, <2>0 DEF IniRec, IniProcs, IniProcOK, IniOwes
  <2>3. iniTarget'.is \in {"missing", "empty", "stranger", "complete"}
    BY <1>0, <1>6 DEF IniRmdir, IniNone
  <2> QED BY <1>0, <1>a, <2>0, <2>1, <2>2, <2>3, IniMoves
<1>7. CASE IniStillMissing(p)
  <2>0. iniTarget' = iniTarget /\ IniElsewhere /\ r.pc = "gone"
    BY <1>7 DEF IniStillMissing, IniAt
  <2>1. PICK s \in {IniRec("rename", r.initial, r.temp, r.outcome, r.orphan),
                    IniRec("cleanup", r.initial, r.temp, r.outcome, r.orphan)} :
          iniProc' = [iniProc EXCEPT ![p] = s]
    BY <1>7, IniForms DEF IniStillMissing
  <2>2. s \in IniProcs /\ IniProcOK(s) /\ s.initial = r.initial /\ (IniOwes(r) => IniOwes(s))
    BY <1>0, <2>0 DEF IniRec, IniProcs, IniProcOK, IniOwes
  <2> QED BY <1>b, <2>0, <2>1, <2>2
<1>8. CASE IniRename(p)
  <2>0. IniElsewhere /\ r.pc = "rename" /\ r.temp = "complete"
    BY <1>0, <1>8 DEF IniRename, IniAt, IniProcOK
  <2>1. CASE IniGo(p, "cleanup") /\ UNCHANGED iniTarget
    <3> DEFINE s == IniRec("cleanup", r.initial, r.temp, r.outcome, r.orphan)
    <3>1. iniProc' = [iniProc EXCEPT ![p] = s] BY <2>1, IniForms
    <3>2. s \in IniProcs /\ IniProcOK(s) /\ s.initial = r.initial /\ (IniOwes(r) => IniOwes(s))
      BY <1>0, <2>0 DEF IniRec, IniProcs, IniProcOK, IniOwes
    <3> HIDE DEF s
    <3> QED BY <1>b, <2>0, <2>1, <3>1, <3>2
  <2>2. CASE ~(IniGo(p, "cleanup") /\ UNCHANGED iniTarget)
    <3>1. /\ iniTarget' = [is |-> r.temp, of |-> {p}]
          /\ iniProc' = [iniProc EXCEPT ![p].pc = "ended", ![p].temp = "none",
                                        ![p].outcome = "created"]
      BY <1>8, <2>2 DEF IniRename
    <3>2. PICK s : s = [r EXCEPT !.pc = "ended", !.temp = "none", !.outcome = "created"] OBVIOUS
    <3>3. iniProc' = [iniProc EXCEPT ![p] = s] BY <1>0, <3>1, <3>2
    <3>4. s \in IniProcs /\ s.pc = "ended" /\ s.temp = "none" BY <1>0, <3>2 DEF IniProcs
    <3>5. IniProcOK(s) BY <3>4 DEF IniProcOK
    <3>6. iniTarget'.is = "complete" BY <2>0, <3>1
    <3> QED BY <1>0, <1>a, <2>0, <3>3, <3>4, <3>5, <3>6, IniMoves
  <2> QED BY <2>1, <2>2
<1>9. CASE IniCleanup(p)
  <2>0. iniTarget' = iniTarget /\ IniElsewhere /\ r.pc = "cleanup"
    BY <1>9 DEF IniCleanup, IniAt
  <2>1. PICK pc : pc = IF IniRestores(p) THEN "restore" ELSE "ended" OBVIOUS
  <2>2. PICK s \in {IniRec(pc, r.initial, "none", "failed", r.orphan),
                    IniRec("ended", r.initial, "partial", "unclean", r.orphan)} :
          iniProc' = [iniProc EXCEPT ![p] = s]
    <3>1. \/ iniProc' = [iniProc EXCEPT ![p].temp = "none", ![p].pc = pc, ![p].outcome = "failed"]
          \/ iniProc' = [iniProc EXCEPT ![p].temp = "partial", ![p].pc = "ended",
                                        ![p].outcome = "unclean"]
      BY <1>9, <2>1 DEF IniCleanup
    <3> QED BY <1>0, <3>1 DEF IniRec, IniProcs
  <2>3. pc \in {"restore", "ended"} BY <2>1
  <2>4. s \in IniProcs /\ s.initial = r.initial /\ s.pc \in {pc, "ended"}
    BY <1>0, <2>2, <2>3 DEF IniProcs, IniRec
  <2>5. s.outcome = "unclean" \/ (s.outcome = "failed" /\ s.temp = "none" /\ s.pc = pc)
    BY <2>2 DEF IniRec
  <2>6. s.outcome = "unclean" => s.pc = "ended" BY <2>2 DEF IniRec
  <2>7. s.pc = "restore" => s.initial = "empty" BY <2>1, <2>4 DEF IniRestores
  <2>8. IniProcOK(s) BY <2>3, <2>4, <2>5, <2>6, <2>7 DEF IniProcOK
  <2>9. IniOwes(r) => IniOwes(s) \/ iniTarget.is # "missing"
    BY <1>0, <2>0, <2>1, <2>4, <2>5 DEF IniOwes, IniRestores, IniState, IniProcOK
  <2> QED BY <1>b, <2>0, <2>2, <2>4, <2>8, <2>9
<1>10. CASE IniRestore(p)
  <2>0. IniElsewhere /\ r.pc = "restore"
    BY <1>10 DEF IniRestore, IniAt
  <2>1. PICK s \in {IniRec("ended", r.initial, r.temp, "failed", r.orphan),
                    IniRec("ended", r.initial, r.temp, "unclean", r.orphan)} :
          /\ iniProc' = [iniProc EXCEPT ![p] = s]
          /\ s.outcome = "unclean" => iniTarget' = iniTarget
          /\ s.outcome # "unclean" => iniTarget'.is \in {"empty", "stranger", "complete"}
    BY <1>0, <1>10, IniForms DEF IniRestore, IniRec, IniState, IniNone
  <2>2. s \in IniProcs /\ IniProcOK(s) BY <1>0, <2>0, <2>1 DEF IniRec, IniProcs, IniProcOK
  <2>3. /\ iniTarget'.is \in {"missing", "empty", "stranger", "complete"}
        /\ iniTarget'.is = "missing" => IniOwes(s)
    BY <1>0, <2>1 DEF IniOwes
  <2> QED BY <1>0, <1>a, <2>0, <2>1, <2>2, <2>3, IniMoves
<1>12. CASE IniOrphanWrites(p)
  <2>0. iniTarget' = iniTarget /\ IniElsewhere /\ r.orphan /\ r.pc \in {"cleanup", "restore", "ended"}
    BY <1>12 DEF IniOrphanWrites
  <2> DEFINE s == IniRec(r.pc, r.initial, "partial", r.outcome, r.orphan)
  <2>1. iniProc' = [iniProc EXCEPT ![p] = s]
    <3>1. s = [r EXCEPT !.temp = "partial"] BY <1>0 DEF IniRec, IniProcs
    <3>2. iniProc' = [iniProc EXCEPT ![p].temp = "partial"] BY <1>12 DEF IniOrphanWrites
    <3> HIDE DEF s
    <3> QED BY <1>0, <3>1, <3>2
  <2>2. s \in IniProcs /\ IniProcOK(s) /\ s.initial = r.initial /\ (IniOwes(r) => IniOwes(s))
    BY <1>0, <2>0 DEF IniRec, IniProcs, IniProcOK, IniOwes
  <2> HIDE DEF s
  <2> QED BY <1>b, <2>0, <2>1, <2>2
<1>11. CASE IniCrash(p)
  <2>0. /\ iniTarget' = iniTarget /\ iniRemovals' = iniRemovals
        /\ iniCrashes' \in Nat /\ iniCrashes' # 0
    BY <1>0, <1>11 DEF IniCrash
  <2> DEFINE s == IniRec("ended", r.initial, r.temp, "dead", r.orphan)
  <2>1. iniProc' = [iniProc EXCEPT ![p] = s] BY <1>11, IniForms DEF IniCrash
  <2>2. s \in IniProcs /\ IniProcOK(s) BY <1>0 DEF IniRec, IniProcs, IniProcOK
  <2> HIDE DEF s
  <2> QED BY <1>0, <2>0, <2>1, <2>2, IniMoves
<1> QED BY <1>1, <1>2, <1>3, <1>4, <1>5, <1>6, <1>7, <1>8, <1>9, <1>10, <1>11, <1>12

\* What is at the target is replaced by nobody but a stranger who removes it, and the
\* invariant is kept.
LEMMA IniNextKeeps ==
  ASSUME IniInv, [IniNext]_iniVars
  PROVE  IniInv' /\ (IniContentKept \/ UNCHANGED iniVars)
<1>1. CASE UNCHANGED iniVars BY <1>1 DEF IniInv, iniVars
<1>2. CASE IniStranger
  <2>1. iniProc' = iniProc /\ iniCrashes' = iniCrashes BY <1>2 DEF IniStranger
  <2>2. iniRemovals \in Nat BY DEF IniInv
  <2>3. iniTarget'.is \in {"missing", "empty", "stranger", "complete"}
    BY <1>2 DEF IniStranger, IniNone
  <2>4. \/ iniRemovals' = iniRemovals /\ iniTarget'.is # "missing" /\ IniState # "occupied"
        \/ iniRemovals' = iniRemovals + 1
    BY <1>2 DEF IniStranger, IniNone, IniState
  <2>5. iniRemovals' \in Nat /\ (iniRemovals' = 0 => iniTarget'.is # "missing") BY <2>2, <2>4
  <2>6. IniContentKept BY <2>2, <2>4 DEF IniContentKept
  <2> QED BY <2>1, <2>3, <2>5, <2>6 DEF IniInv
<1>3. ASSUME NEW p \in IniProcesses,
             \/ IniStart(p) \/ IniWriteTemplate(p) \/ IniRunCommands(p) \/ IniValidate(p)
             \/ IniRecheck(p) \/ IniRmdir(p) \/ IniStillMissing(p) \/ IniRename(p)
             \/ IniCleanup(p) \/ IniRestore(p) \/ IniOrphanWrites(p) \/ IniCrash(p)
      PROVE  IniInv' /\ IniContentKept
  <2>1. IniInv' BY <1>3, IniProcessKeeps
  <2>2. IniState = "occupied" => iniTarget' = iniTarget
    BY <1>3 DEF IniState, IniStart, IniWriteTemplate, IniRunCommands, IniValidate, IniRecheck,
                IniRmdir, IniStillMissing, IniRename, IniRenames, IniCleanup, IniRestore, IniCrash,
                IniOrphanWrites
  <2> QED BY <2>1, <2>2 DEF IniContentKept
<1> QED BY <1>1, <1>2, <1>3 DEF IniNext

\* Nothing is owed by processes that have all ended.
LEMMA IniInvHolds == IniInv => IniCommitted /\ IniRestored
<1> SUFFICES ASSUME IniInv PROVE IniCommitted /\ IniRestored OBVIOUS
<1>1. IniCommitted BY DEF IniInv, IniCommitted
<1>2. \A p \in IniProcesses :
        iniProc[p].pc = "ended" /\ iniProc[p].temp # "none" =>
          iniProc[p].outcome \in {"dead", "unclean"} \/ iniProc[p].orphan
  BY DEF IniInv, IniProcOK
<1>3. ASSUME \A p \in IniProcesses :
               iniProc[p].pc \in {"idle", "ended"} /\ iniProc[p].outcome # "unclean",
             \E p \in IniProcesses : iniProc[p].initial = "empty",
             iniCrashes = 0, iniRemovals = 0
      PROVE  IniState # "missing"
  <2>1. \A p \in IniProcesses : ~IniOwes(iniProc[p]) BY <1>3 DEF IniOwes
  <2>2. iniTarget.is # "missing" BY <1>3, <2>1 DEF IniInv
  <2> QED BY <2>2 DEF IniState
<1> QED BY <1>1, <1>2, <1>3 DEF IniRestored

\* For any number of initializers, strangers and crashes: nobody's files are taken, a
\* project is shown whole or not at all, and initializers that fail undo what they did, unless
\* their rm or mkdir rejects or a command they aborted is still writing (createProject).
THEOREM InitializerIsSafe == IniSpec => InitializerSafe
<1>1. IniInit => IniInv
  <2> SUFFICES ASSUME IniInit PROVE IniInv OBVIOUS
  <2>1. /\ iniTarget.is \in {"missing", "empty", "stranger", "complete"}
        /\ iniCrashes \in Nat /\ iniRemovals \in Nat
    BY DEF IniInit, IniNone
  <2>2. /\ iniProc \in [IniProcesses -> IniProcs]
        /\ \A p \in IniProcesses : IniProcOK(iniProc[p]) /\ iniProc[p].initial # "empty"
    BY DEF IniInit, IniProcs, IniProcOK
  <2> QED BY <2>1, <2>2 DEF IniInv
<1>2. IniInv /\ [IniNext]_iniVars => IniInv' BY IniNextKeeps
<1>3. IniInv' => (IniCommitted /\ IniRestored)' BY IniInvHolds, PTL
<1>4. IniInv /\ [IniNext]_iniVars => [IniContentKept /\ (IniCommitted /\ IniRestored)']_iniVars
  BY <1>2, <1>3, IniNextKeeps
<1> QED BY <1>1, <1>2, <1>4, PTL DEF IniSpec, InitializerSafe

-----------------------------------------------------------------------------
(* The release: the order of the plan *)

\* A set of naturals that holds 0 and the successors of its members is Nat.
LEMMA RelNatInd ==
  ASSUME NEW T \in SUBSET Nat, 0 \in T, \A n \in T : n + 1 \in T
  PROVE  T = Nat
  <1> DEFINE Below == {p \in Nat \X Nat : p[1] < p[2]}
  <1>1. IsWellFoundedOn(Below, Nat)
    BY NatLessThanWellFounded DEF OpToRel
  <1> SUFFICES ASSUME Nat \ T # {} PROVE FALSE
    OBVIOUS
  <1>2. \E n \in Nat \ T : \A m \in Nat \ T : ~(<<m, n>> \in Below)
    <2> HIDE DEF Below
    <2> QED
      BY <1>1, WFMin
  <1>3. PICK n \in Nat \ T : \A m \in Nat \ T : ~(m < n)
    BY <1>2
  <1>4. n - 1 \in T
    BY <1>3
  <1> QED
    BY <1>3, <1>4

(* A set of naturals that is not empty has a least member. *)
LEMMA RelLeastIn ==
  ASSUME NEW S \in SUBSET Nat, S # {}
  PROVE  RelLeast(S) \in S /\ \A q \in S : RelLeast(S) <= q
  <1> DEFINE T == {n \in Nat : \A m \in S : n <= m}
  <1>1. PICK m \in S : \A q \in S : m <= q
    <2> SUFFICES ASSUME \A m \in S : \E q \in S : q < m PROVE FALSE
      OBVIOUS
    <2>1. 0 \in T
      OBVIOUS
    <2>2. ASSUME NEW n \in T PROVE n + 1 \in T
      OBVIOUS
    <2>3. T = Nat
      <3> HIDE DEF T
      <3>1. T \in SUBSET Nat
        BY DEF T
      <3> QED
        BY <2>1, <2>2, <3>1, RelNatInd
    <2>4. PICK k \in S : TRUE
      OBVIOUS
    <2> QED
      BY <2>3, <2>4
  <1> QED
    BY <1>1 DEF RelLeast

\* g holds the plans after 0, 1, ..., n calls and returns of visit().
RelIsPlan(g, deps, n) ==
  g = [i \in 0..n |-> IF i = 0 THEN RelNoPlan ELSE RelVisit(deps, g[i - 1])]

(* RelPlanAfter is the last value of that function. *)
LEMMA RelPlanChosen ==
  ASSUME NEW deps, NEW n
  PROVE  RelPlanAfter(deps, n) = (CHOOSE g : RelIsPlan(g, deps, n))[n]
  BY DEF RelPlanAfter, RelIsPlan

(* Such a function exists for every number of steps. *)
LEMMA RelPlanExists ==
  ASSUME NEW deps, NEW n \in Nat
  PROVE  \E g : RelIsPlan(g, deps, n)
  <1> DEFINE T == {m \in Nat : \E g : RelIsPlan(g, deps, m)}
  <1>1. 0 \in T
    <2> DEFINE g == [i \in 0..0 |-> RelNoPlan]
    <2>1. RelIsPlan(g, deps, 0)
      BY DEF RelIsPlan
    <2> QED
      BY <2>1
  <1>2. ASSUME NEW m \in T PROVE m + 1 \in T
    <2>1. PICK g : RelIsPlan(g, deps, m)
      OBVIOUS
    <2> DEFINE h == [i \in 0..(m + 1) |-> IF i <= m THEN g[i] ELSE RelVisit(deps, g[m])]
    <2>2. m \in Nat
      OBVIOUS
    <2>3. \A i \in 0..m : g[i] = IF i = 0 THEN RelNoPlan ELSE RelVisit(deps, g[i - 1])
      BY <2>1 DEF RelIsPlan
    <2>4. ASSUME NEW i \in 0..(m + 1)
          PROVE  h[i] = IF i = 0 THEN RelNoPlan ELSE RelVisit(deps, h[i - 1])
      <3>1. CASE i <= m
        <4>1. i \in 0..m /\ h[i] = g[i] /\ (i # 0 => h[i - 1] = g[i - 1])
          BY <2>2, <3>1
        <4> HIDE DEF h
        <4> QED
          BY <2>3, <4>1
      <3>2. CASE i = m + 1
        <4>1. i # 0 /\ h[i] = RelVisit(deps, g[m]) /\ h[i - 1] = g[m] /\ i - 1 = m
          BY <2>2, <3>2
        <4> HIDE DEF h
        <4> QED
          BY <3>2, <4>1
      <3> QED
        BY <2>2, <3>1, <3>2
    <2>5. RelIsPlan(h, deps, m + 1)
      BY <2>4 DEF RelIsPlan
    <2> HIDE DEF h
    <2> QED
      BY <2>2, <2>5
  <1> HIDE DEF T
  <1>3. T \in SUBSET Nat
    BY DEF T
  <1>4. T = Nat
    BY <1>1, <1>2, <1>3, RelNatInd
  <1> QED
    BY <1>4 DEF T

\* What a plan is at every moment: no package twice, everything a package
\* depends on before it, the open calls a path of dependencies, and an
\* exception only where the dependencies run in a circle.
RelCircle(deps) ==
  \E S \in SUBSET RelPackages : S # {} /\ \A p \in S : \E d \in deps[p] : d \in S

RelDistinct(s) == \A i, j \in 1..Len(s) : s[i] = s[j] => i = j

RelOrdered(deps, s) ==
  \A i \in 1..Len(s) : \A d \in deps[s[i]] : \E j \in 1..Len(s) : j < i /\ s[j] = d

RelPath(deps, s) == \A i \in 1..Len(s) : i < Len(s) => s[i + 1] \in deps[s[i]]

RelApart(s, t) == \A i \in 1..Len(s), j \in 1..Len(t) : s[i] # t[j]

RelPlans == [visiting : Seq(RelPackages), ordered : Seq(RelPackages), cycle : BOOLEAN]

RelPlanFits(deps, plan) ==
  /\ plan \in RelPlans
  /\ RelDistinct(plan.visiting) /\ RelDistinct(plan.ordered)
  /\ RelApart(plan.visiting, plan.ordered)
  /\ RelPath(deps, plan.visiting)
  /\ RelOrdered(deps, plan.ordered)
  /\ plan.cycle => RelCircle(deps)

RelLeft(plan) == RelPackages \ ToSet(plan.ordered)

\* One call or return per step, until nothing is left or visit() throws.
RelProgress(plan, n) ==
  plan.cycle \/ RelLeft(plan) = {} \/ Len(plan.visiting) + 2 * Len(plan.ordered) = n

(* The loop starts with nothing visited. *)
LEMMA RelNoPlanFits ==
  ASSUME NEW deps
  PROVE  RelPlanFits(deps, RelNoPlan) /\ RelProgress(RelNoPlan, 0)
  <1>1. <<>> \in Seq(RelPackages) /\ Len(<<>>) = 0
    BY EmptySeq
  <1>2. RelNoPlan \in RelPlans /\ RelNoPlan.visiting = <<>> /\ RelNoPlan.ordered = <<>> /\ RelNoPlan.cycle = FALSE
    BY <1>1 DEF RelNoPlan, RelPlans
  <1> QED
    BY <1>1, <1>2 DEF RelPlanFits, RelDistinct, RelApart, RelPath, RelOrdered, RelProgress

(* The members of a sequence. *)
LEMMA RelToSet ==
  ASSUME NEW s \in Seq(RelPackages)
  PROVE  /\ ToSet(s) \subseteq RelPackages
         /\ \A x : x \in ToSet(s) <=> \E i \in 1..Len(s) : s[i] = x
  BY DEF ToSet

(* A call: the package is new, or the open calls run in a circle. *)
LEMMA RelEnterFits ==
  ASSUME NEW deps, NEW plan, NEW n \in Nat, NEW name \in RelLeft(plan),
         RelPlanFits(deps, plan), ~plan.cycle, RelLeft(plan) # {}, RelProgress(plan, n),
         plan.visiting = <<>> \/ name \in deps[plan.visiting[Len(plan.visiting)]]
  PROVE  RelPlanFits(deps, RelEnter(plan, name)) /\ RelProgress(RelEnter(plan, name), n + 1)
  <1> DEFINE v == plan.visiting
             o == plan.ordered
  <1>1. plan \in RelPlans /\ v \in Seq(RelPackages) /\ o \in Seq(RelPackages) /\ name \in RelPackages
    BY DEF RelPlanFits, RelPlans, RelLeft
  <1>2. \A i \in 1..Len(o) : o[i] # name
    BY <1>1, RelToSet DEF RelLeft
  <1>3. Len(v) \in Nat /\ Len(o) \in Nat
    BY <1>1
  <1>4. CASE name \in ToSet(v)
    <2>1. PICK k \in 1..Len(v) : v[k] = name
      BY <1>1, <1>4, RelToSet
    <2> DEFINE S == {v[i] : i \in k..Len(v)}
    <2>2. S \in SUBSET RelPackages /\ name \in S
      BY <1>1, <1>3, <2>1
    <2>3. ASSUME NEW p \in S PROVE \E d \in deps[p] : d \in S
      <3>1. PICK i \in k..Len(v) : v[i] = p
        OBVIOUS
      <3>2. i \in 1..Len(v)
        BY <1>3, <2>1, <3>1
      <3>3. CASE i < Len(v)
        <4>1. i + 1 \in k..Len(v)
          BY <1>3, <2>1, <3>1, <3>3
        <4>2. v[i + 1] \in S
          BY <4>1
        <4>3. v[i + 1] \in deps[p]
          BY <3>1, <3>2, <3>3 DEF RelPlanFits, RelPath
        <4> QED
          BY <4>2, <4>3
      <3>4. CASE i = Len(v)
        <4>1. v # <<>>
          BY <1>3, <2>1, EmptySeq
        <4>2. name \in deps[p]
          BY <3>1, <3>4, <4>1
        <4> QED
          BY <2>2, <4>2
      <3> QED
        BY <1>3, <3>1, <3>3, <3>4
    <2>4. RelCircle(deps)
      <3> HIDE DEF S
      <3> QED
        BY <2>2, <2>3 DEF RelCircle
    <2>5. RelEnter(plan, name) = [plan EXCEPT !.cycle = TRUE]
      BY <1>4 DEF RelEnter
    <2>6. PICK q : q = RelEnter(plan, name)
      OBVIOUS
    <2>7. q \in RelPlans /\ q.visiting = v /\ q.ordered = o /\ q.cycle = TRUE
      BY <1>1, <2>5, <2>6 DEF RelPlans
    <2> HIDE DEF v, o
    <2>8. RelPlanFits(deps, q) /\ RelProgress(q, n + 1)
      BY <2>4, <2>7 DEF RelPlanFits, RelProgress, v, o
    <2> QED
      BY <2>6, <2>8
  <1>5. CASE name \notin ToSet(v)
    <2>1. RelEnter(plan, name) = [plan EXCEPT !.visiting = Append(v, name)]
      BY <1>5 DEF RelEnter
    <2>2. PICK q : q = RelEnter(plan, name)
      OBVIOUS
    <2>3. Append(v, name) \in Seq(RelPackages) /\ Len(Append(v, name)) = Len(v) + 1
          /\ (\A i \in 1..Len(v) : Append(v, name)[i] = v[i]) /\ Append(v, name)[Len(v) + 1] = name
      BY <1>1
    <2>4. q \in RelPlans /\ q.visiting = Append(v, name) /\ q.ordered = o /\ q.cycle = plan.cycle
      BY <1>1, <2>1, <2>2, <2>3 DEF RelPlans
    <2>5. PICK w : w = Append(v, name)
      OBVIOUS
    <2>6. w \in Seq(RelPackages) /\ Len(w) = Len(v) + 1
          /\ (\A i \in 1..Len(v) : w[i] = v[i]) /\ w[Len(v) + 1] = name
      BY <2>3, <2>5
    <2>7. \A i \in 1..Len(v) : v[i] # name
      BY <1>1, <1>5, RelToSet
    <2>8. RelDistinct(w)
      <3> SUFFICES ASSUME NEW i \in 1..Len(w), NEW j \in 1..Len(w), w[i] = w[j] PROVE i = j
        BY DEF RelDistinct
      <3>1. (i \in 1..Len(v) \/ i = Len(v) + 1) /\ (j \in 1..Len(v) \/ j = Len(v) + 1)
        BY <1>3, <2>6
      <3>2. \A a, b \in 1..Len(v) : v[a] = v[b] => a = b
        BY DEF RelPlanFits, RelDistinct
      <3> HIDE DEF v, o
      <3> QED
        BY <2>6, <2>7, <3>1, <3>2
    <2>9. RelApart(w, o)
      <3> SUFFICES ASSUME NEW i \in 1..Len(w), NEW j \in 1..Len(o) PROVE w[i] # o[j]
        BY DEF RelApart
      <3>1. i \in 1..Len(v) \/ i = Len(v) + 1
        BY <1>3, <2>6
      <3>2. \A a \in 1..Len(v), b \in 1..Len(o) : v[a] # o[b]
        BY DEF RelPlanFits, RelApart
      <3> HIDE DEF v, o
      <3> QED
        BY <1>2, <2>6, <3>1, <3>2
    <2>10. RelPath(deps, w)
      <3> SUFFICES ASSUME NEW i \in 1..Len(w), i < Len(w) PROVE w[i + 1] \in deps[w[i]]
        BY DEF RelPath
      <3>1. i \in 1..Len(v) /\ (i < Len(v) \/ i = Len(v))
        BY <1>3, <2>6
      <3>2. CASE i < Len(v)
        <4>1. i + 1 \in 1..Len(v)
          BY <1>3, <3>1, <3>2
        <4>2. v[i + 1] \in deps[v[i]]
          BY <3>1, <3>2 DEF RelPlanFits, RelPath
        <4> QED
          BY <2>6, <3>1, <4>1, <4>2
      <3>3. CASE i = Len(v)
        <4>1. v # <<>>
          BY <3>1, <1>3, EmptySeq
        <4> QED
          BY <2>6, <3>1, <3>3, <4>1
      <3> QED
        BY <3>1, <3>2, <3>3
    <2>11. RelPlanFits(deps, q)
      <3>1. RelDistinct(o) /\ RelOrdered(deps, o) /\ plan.cycle = FALSE
        BY <1>1 DEF RelPlanFits, RelPlans
      <3> HIDE DEF v, o
      <3> QED
        BY <2>4, <2>5, <2>8, <2>9, <2>10, <3>1 DEF RelPlanFits
    <2>12. RelProgress(q, n + 1)
      <3>1. Len(v) + 2 * Len(o) = n
        BY DEF RelProgress
      <3> HIDE DEF v, o
      <3>2. Len(w) + 2 * Len(o) = n + 1
        BY <1>3, <2>6, <3>1
      <3>3. Len(q.visiting) + 2 * Len(q.ordered) = n + 1
        BY <2>4, <2>5, <3>2
      <3> QED
        BY <3>3 DEF RelProgress
    <2> QED
      BY <2>2, <2>11, <2>12
  <1> QED
    BY <1>4, <1>5

(* A return: everything the package depends on was visited before it. *)
LEMMA RelReturnFits ==
  ASSUME NEW deps \in [RelPackages -> SUBSET RelPackages], NEW plan, NEW n \in Nat,
         RelPlanFits(deps, plan), ~plan.cycle, RelLeft(plan) # {}, RelProgress(plan, n),
         plan.visiting # <<>>, deps[Last(plan.visiting)] \ ToSet(plan.ordered) = {},
         NEW q, q = [plan EXCEPT !.visiting = Front(@), !.ordered = Append(@, Last(plan.visiting))]
  PROVE  RelPlanFits(deps, q) /\ RelProgress(q, n + 1)
  <1> DEFINE v == plan.visiting
             o == plan.ordered
             name == Last(v)
             f == Front(v)
             w == Append(o, name)
  <1>1. plan \in RelPlans /\ v \in Seq(RelPackages) /\ o \in Seq(RelPackages)
    BY DEF RelPlanFits, RelPlans
  <1>2. Len(v) \in Nat /\ Len(o) \in Nat /\ Len(v) # 0
    BY <1>1, EmptySeq
  <1>3. name \in RelPackages /\ name = v[Len(v)] /\ Len(v) \in 1..Len(v)
    BY <1>1, <1>2 DEF Last
  <1>4. f \in Seq(RelPackages) /\ Len(f) = Len(v) - 1 /\ (\A i \in 1..(Len(v) - 1) : f[i] = v[i])
    <2>1. Front(v) = SubSeq(v, 1, Len(v) - 1)
      BY DEF Front
    <2>2. \A i \in 1..(Len(v) - 1) : v[i] \in RelPackages
      BY <1>1, <1>2
    <2> QED
      BY <1>1, <1>2, <2>1, <2>2
  <1>5. w \in Seq(RelPackages) /\ Len(w) = Len(o) + 1 /\ (\A i \in 1..Len(o) : w[i] = o[i]) /\ w[Len(o) + 1] = name
    BY <1>1, <1>3
  <1>6. q \in RelPlans /\ q.visiting = f /\ q.ordered = w /\ q.cycle = plan.cycle
    <2> HIDE DEF name
    <2>1. q = [plan EXCEPT !.visiting = f, !.ordered = w]
      BY <1>1 DEF RelPlans, name
    <2> HIDE DEF f, w
    <2> QED
      BY <1>1, <1>4, <1>5, <2>1 DEF RelPlans
  <1>7. /\ \A a, b \in 1..Len(v) : v[a] = v[b] => a = b
        /\ \A a, b \in 1..Len(o) : o[a] = o[b] => a = b
        /\ \A a \in 1..Len(v), b \in 1..Len(o) : v[a] # o[b]
        /\ plan.cycle = FALSE /\ RelPath(deps, v) /\ RelOrdered(deps, o)
    BY <1>1 DEF RelPlanFits, RelDistinct, RelApart, RelPlans
  <1>8. \A d \in deps[name] : \E j \in 1..Len(o) : o[j] = d
    BY <1>1, RelToSet
  <1>9. Len(v) + 2 * Len(o) = n
    BY DEF RelProgress
  <1> HIDE DEF v, o, name, f, w
  <1>10. RelDistinct(f)
    <2> SUFFICES ASSUME NEW i \in 1..Len(f), NEW j \in 1..Len(f), f[i] = f[j] PROVE i = j
      BY DEF RelDistinct
    <2>1. i \in 1..(Len(v) - 1) /\ j \in 1..(Len(v) - 1) /\ i \in 1..Len(v) /\ j \in 1..Len(v)
      BY <1>2, <1>4
    <2> QED
      BY <1>4, <1>7, <2>1
  <1>11. RelDistinct(w)
    <2> SUFFICES ASSUME NEW i \in 1..Len(w), NEW j \in 1..Len(w), w[i] = w[j] PROVE i = j
      BY DEF RelDistinct
    <2>1. (i \in 1..Len(o) \/ i = Len(o) + 1) /\ (j \in 1..Len(o) \/ j = Len(o) + 1)
      BY <1>2, <1>5
    <2>2. \A b \in 1..Len(o) : o[b] # name
      BY <1>3, <1>7
    <2> QED
      BY <1>5, <1>7, <2>1, <2>2
  <1>12. RelApart(f, w)
    <2> SUFFICES ASSUME NEW i \in 1..Len(f), NEW j \in 1..Len(w) PROVE f[i] # w[j]
      BY DEF RelApart
    <2>1. i \in 1..(Len(v) - 1) /\ i \in 1..Len(v) /\ i # Len(v) /\ (j \in 1..Len(o) \/ j = Len(o) + 1)
      BY <1>2, <1>4, <1>5
    <2>2. f[i] = v[i] /\ v[i] # name
      BY <1>3, <1>4, <1>7, <2>1
    <2> QED
      BY <1>5, <1>7, <2>1, <2>2
  <1>13. RelPath(deps, f)
    <2> SUFFICES ASSUME NEW i \in 1..Len(f), i < Len(f) PROVE f[i + 1] \in deps[f[i]]
      BY DEF RelPath
    <2>1. i \in 1..(Len(v) - 1) /\ i + 1 \in 1..(Len(v) - 1) /\ i \in 1..Len(v) /\ i < Len(v)
      BY <1>2, <1>4
    <2>2. v[i + 1] \in deps[v[i]]
      BY <1>7, <2>1 DEF RelPath
    <2> QED
      BY <1>4, <2>1, <2>2
  <1>14. RelOrdered(deps, w)
    <2> SUFFICES ASSUME NEW i \in 1..Len(w), NEW d \in deps[w[i]]
                 PROVE  \E j \in 1..Len(w) : j < i /\ w[j] = d
      BY DEF RelOrdered
    <2>1. \A j \in 1..Len(o) : j \in 1..Len(w) /\ w[j] = o[j] /\ j < Len(o) + 1
      BY <1>2, <1>5
    <2>2. CASE i \in 1..Len(o)
      <3>1. d \in deps[o[i]]
        BY <2>1, <2>2
      <3>2. PICK j \in 1..Len(o) : j < i /\ o[j] = d
        BY <1>7, <2>2, <3>1 DEF RelOrdered
      <3> QED
        BY <2>1, <3>2
    <2>3. CASE i = Len(o) + 1
      <3>1. d \in deps[name]
        BY <1>5, <2>3
      <3>2. PICK j \in 1..Len(o) : o[j] = d
        BY <1>8, <3>1
      <3> QED
        BY <2>1, <2>3, <3>2
    <2> QED
      BY <1>2, <1>5, <2>2, <2>3
  <1>15. RelPlanFits(deps, q)
    BY <1>6, <1>7, <1>10, <1>11, <1>12, <1>13, <1>14 DEF RelPlanFits
  <1>16. RelProgress(q, n + 1)
    <2>1. Len(f) + 2 * Len(w) = n + 1
      BY <1>2, <1>4, <1>5, <1>9
    <2>2. Len(q.visiting) + 2 * Len(q.ordered) = n + 1
      BY <1>6, <2>1
    <2> QED
      BY <2>2 DEF RelProgress
  <1> QED
    BY <1>15, <1>16

(* Every call and every return keeps the plan. *)
LEMMA RelVisitFits ==
  ASSUME NEW deps \in [RelPackages -> SUBSET RelPackages], NEW plan, NEW n \in Nat,
         RelPlanFits(deps, plan), RelProgress(plan, n)
  PROVE  RelPlanFits(deps, RelVisit(deps, plan)) /\ RelProgress(RelVisit(deps, plan), n + 1)
  <1>1. CASE plan.cycle \/ RelLeft(plan) = {}
    <2>1. RelVisit(deps, plan) = plan
      BY <1>1 DEF RelVisit, RelLeft
    <2> QED
      BY <1>1, <2>1 DEF RelProgress
  <1>2. CASE ~plan.cycle /\ RelLeft(plan) # {} /\ plan.visiting = <<>>
    <2>1. RelVisit(deps, plan) = RelEnter(plan, RelRoot(RelLeft(plan)))
      BY <1>2 DEF RelVisit, RelLeft
    <2>2. RelRoot(RelLeft(plan)) \in RelLeft(plan)
      <3>1. CASE RelLeft(plan) \subseteq {RelCreate}
        BY <1>2, <3>1 DEF RelRoot
      <3>2. CASE ~(RelLeft(plan) \subseteq {RelCreate})
        <4>1. RelLeft(plan) \ {RelCreate} \in SUBSET Nat /\ RelLeft(plan) \ {RelCreate} # {}
          BY <3>2, RelAssumption DEF RelLeft
        <4> QED
          BY <3>2, <4>1, RelLeastIn DEF RelRoot
      <3> QED
        BY <3>1, <3>2
    <2> QED
      BY <1>2, <2>1, <2>2, RelEnterFits
  <1>3. CASE ~plan.cycle /\ RelLeft(plan) # {} /\ plan.visiting # <<>>
    <2> DEFINE missing == deps[Last(plan.visiting)] \ ToSet(plan.ordered)
    <2>1. plan.visiting \in Seq(RelPackages)
      BY DEF RelPlanFits, RelPlans
    <2>2. Last(plan.visiting) = plan.visiting[Len(plan.visiting)] /\ Last(plan.visiting) \in RelPackages
      BY <1>3, <2>1, EmptySeq DEF Last
    <2>3. missing \subseteq RelLeft(plan) /\ missing \subseteq Nat /\ missing \subseteq deps[Last(plan.visiting)]
      BY <2>2, RelAssumption DEF RelLeft
    <2>4. CASE missing # {}
      <3>1. RelVisit(deps, plan) = RelEnter(plan, RelLeast(missing))
        BY <1>3, <2>4 DEF RelVisit, RelLeft
      <3> HIDE DEF missing
      <3>2. RelLeast(missing) \in missing
        BY <2>3, <2>4, RelLeastIn
      <3>3. RelLeast(missing) \in RelLeft(plan)
            /\ RelLeast(missing) \in deps[plan.visiting[Len(plan.visiting)]]
        BY <2>2, <2>3, <3>2
      <3> QED
        BY <1>3, <3>1, <3>3, RelEnterFits
    <2>5. CASE missing = {}
      <3>1. RelVisit(deps, plan)
              = [plan EXCEPT !.visiting = Front(@), !.ordered = Append(@, Last(plan.visiting))]
        BY <1>3, <2>5 DEF RelVisit, RelLeft
      <3>2. PICK q : q = [plan EXCEPT !.visiting = Front(@), !.ordered = Append(@, Last(plan.visiting))]
        OBVIOUS
      <3>3. RelPlanFits(deps, q) /\ RelProgress(q, n + 1)
        BY <1>3, <2>5, <3>2, RelReturnFits
      <3> QED
        BY <3>1, <3>2, <3>3
    <2> QED
      BY <2>4, <2>5
  <1> QED
    BY <1>1, <1>2, <1>3

(* So does any number of them. *)
LEMMA RelPlanAfterFits ==
  ASSUME NEW deps \in [RelPackages -> SUBSET RelPackages], NEW n \in Nat
  PROVE  RelPlanFits(deps, RelPlanAfter(deps, n)) /\ RelProgress(RelPlanAfter(deps, n), n)
  <1>1. PICK g : g = CHOOSE u : RelIsPlan(u, deps, n)
    OBVIOUS
  <1>2. RelIsPlan(g, deps, n)
    BY <1>1, RelPlanExists
  <1>3. RelPlanAfter(deps, n) = g[n]
    BY <1>1, RelPlanChosen
  <1>4. \A i \in 0..n : g[i] = IF i = 0 THEN RelNoPlan ELSE RelVisit(deps, g[i - 1])
    BY <1>2 DEF RelIsPlan
  <1> DEFINE T == {i \in Nat : i <= n => RelPlanFits(deps, g[i]) /\ RelProgress(g[i], i)}
  <1>5. 0 \in T
    <2>1. g[0] = RelNoPlan
      BY <1>4
    <2> QED
      BY <2>1, RelNoPlanFits
  <1>6. ASSUME NEW i \in T PROVE i + 1 \in T
    <2>1. i \in Nat
      OBVIOUS
    <2> SUFFICES ASSUME i + 1 <= n PROVE RelPlanFits(deps, g[i + 1]) /\ RelProgress(g[i + 1], i + 1)
      BY <2>1
    <2>2. i <= n /\ i + 1 \in 0..n /\ i + 1 # 0 /\ (i + 1) - 1 = i
      BY <2>1
    <2>3. RelPlanFits(deps, g[i]) /\ RelProgress(g[i], i)
      BY <2>2
    <2>4. g[i + 1] = RelVisit(deps, g[i])
      BY <1>4, <2>2
    <2> QED
      BY <2>1, <2>3, <2>4, RelVisitFits
  <1> HIDE DEF T
  <1>7. T \in SUBSET Nat
    BY DEF T
  <1>8. T = Nat
    BY <1>5, <1>6, <1>7, RelNatInd
  <1>9. RelPlanFits(deps, g[n]) /\ RelProgress(g[n], n)
    BY <1>8 DEF T
  <1> QED
    BY <1>3, <1>9

(* A sequence without repetitions has as many members as its length. *)
LEMMA RelDistinctCard ==
  ASSUME NEW s \in Seq(RelPackages), RelDistinct(s)
  PROVE  IsFiniteSet(ToSet(s)) /\ Cardinality(ToSet(s)) = Len(s)
  <1>1. Len(s) \in Nat
    OBVIOUS
  <1>2. IsFiniteSet(1..Len(s)) /\ Cardinality(1..Len(s)) = Len(s)
    <2>1. 1 \in Int /\ Len(s) \in Int
      BY <1>1
    <2>2. IsFiniteSet(1..Len(s)) /\ Cardinality(1..Len(s)) = IF 1 > Len(s) THEN 0 ELSE Len(s) - 1 + 1
      BY <2>1, FS_Interval
    <2> QED
      BY <1>1, <2>2
  <1>3. s \in Bijection(1..Len(s), ToSet(s))
    <2>1. s \in [1..Len(s) -> ToSet(s)]
      BY DEF ToSet
    <2>2. \A a, b \in 1..Len(s) : s[a] = s[b] => a = b
      BY DEF RelDistinct
    <2>3. \A t \in ToSet(s) : \E a \in 1..Len(s) : s[a] = t
      BY RelToSet
    <2> QED
      BY <2>1, <2>2, <2>3 DEF Bijection, Injection, Surjection, IsInjective
  <1>4. ExistsBijection(1..Len(s), ToSet(s))
    BY <1>3 DEF ExistsBijection
  <1> QED
    BY <1>2, <1>4, FS_Bijection

(* Unless visit() throws, every package is in the plan, once and after everything it depends on. *)
LEMMA RelPlanComplete ==
  ASSUME NEW deps \in [RelPackages -> SUBSET RelPackages], ~RelCycle(deps)
  PROVE  /\ RelOrder(deps) \in Seq(RelPackages) /\ Len(RelOrder(deps)) = Cardinality(RelPackages)
         /\ RelDistinct(RelOrder(deps)) /\ RelOrdered(deps, RelOrder(deps))
         /\ \A p \in RelPackages : \E i \in 1..Cardinality(RelPackages) : RelOrder(deps)[i] = p
  <1> DEFINE N == Cardinality(RelPackages)
             plan == RelPlan(deps)
             v == plan.visiting
             o == plan.ordered
  <1>1. IsFiniteSet(RelPackages) /\ N \in Nat /\ 2 * N \in Nat
    BY RelAssumption, FS_CardinalityType
  <1>2. RelPlanFits(deps, plan) /\ RelProgress(plan, 2 * N)
    BY <1>1, RelPlanAfterFits DEF RelPlan
  <1>3. ~plan.cycle /\ o = RelOrder(deps)
    BY DEF RelCycle, RelOrder
  <1>4. v \in Seq(RelPackages) /\ o \in Seq(RelPackages) /\ RelDistinct(v) /\ RelDistinct(o) /\ RelApart(v, o)
        /\ RelOrdered(deps, o)
    BY <1>2 DEF RelPlanFits, RelPlans
  <1>5. RelLeft(plan) = {} \/ Len(v) + 2 * Len(o) = 2 * N
    BY <1>2, <1>3 DEF RelProgress
  <1>6. RelLeft(plan) = RelPackages \ ToSet(o)
    BY DEF RelLeft
  <1> HIDE DEF v, o, plan
  <1>7. IsFiniteSet(ToSet(v)) /\ Cardinality(ToSet(v)) = Len(v)
        /\ IsFiniteSet(ToSet(o)) /\ Cardinality(ToSet(o)) = Len(o)
        /\ ToSet(v) \subseteq RelPackages /\ ToSet(o) \subseteq RelPackages
        /\ Len(v) \in Nat /\ Len(o) \in Nat
    BY <1>4, RelDistinctCard, RelToSet
  <1>8. ToSet(o) = RelPackages
    <2>1. CASE RelLeft(plan) = {}
      BY <1>6, <1>7, <2>1
    <2>2. CASE Len(v) + 2 * Len(o) = 2 * N
      <3>1. ToSet(v) \cap ToSet(o) = {}
        BY <1>4, RelToSet DEF RelApart
      <3>2. Cardinality(ToSet(v) \cup ToSet(o))
              = Cardinality(ToSet(v)) + Cardinality(ToSet(o)) - Cardinality(ToSet(v) \cap ToSet(o))
        BY <1>7, FS_Union
      <3>3. Cardinality(ToSet(v) \cap ToSet(o)) = 0
        BY <3>1, FS_EmptySet
      <3>4. ToSet(v) \cup ToSet(o) \subseteq RelPackages
        BY <1>7
      <3>5. Cardinality(ToSet(v) \cup ToSet(o)) <= N
        BY <1>1, <3>4, FS_Subset
      <3>6. Cardinality(ToSet(v) \cup ToSet(o)) = Len(v) + Len(o)
        BY <1>7, <3>2, <3>3
      <3>7. Len(o) >= N
        BY <1>1, <1>7, <2>2, <3>5, <3>6
      <3>8. Cardinality(ToSet(o)) <= N /\ (Cardinality(ToSet(o)) = N => ToSet(o) = RelPackages)
        BY <1>1, <1>7, FS_Subset
      <3> QED
        BY <1>1, <1>7, <3>7, <3>8
    <2> QED
      BY <1>5, <2>1, <2>2
  <1>9. Len(o) = N
    BY <1>7, <1>8
  <1>10. \A p \in RelPackages : \E i \in 1..N : o[i] = p
    BY <1>4, <1>8, <1>9, RelToSet
  <1> QED
    BY <1>3, <1>4, <1>9, <1>10

(* preparePublishPlan refuses a manifest exactly when its internal dependencies run in a circle. *)
THEOREM RelCycleExact ==
  ASSUME NEW deps \in [RelPackages -> SUBSET RelPackages]
  PROVE  RelCycle(deps) <=> RelCircle(deps)
  <1>1. ASSUME RelCycle(deps) PROVE RelCircle(deps)
    <2>1. 2 * Cardinality(RelPackages) \in Nat
      BY RelAssumption, FS_CardinalityType
    <2>2. RelPlanFits(deps, RelPlan(deps))
      BY <2>1, RelPlanAfterFits DEF RelPlan
    <2> QED
      BY <1>1, <2>2 DEF RelCycle, RelPlanFits
  <1>2. ASSUME ~RelCycle(deps), RelCircle(deps) PROVE FALSE
    <2> DEFINE o == RelOrder(deps)
    <2>1. PICK S \in SUBSET RelPackages : S # {} /\ \A p \in S : \E d \in deps[p] : d \in S
      BY <1>2 DEF RelCircle
    <2>2. /\ o \in Seq(RelPackages) /\ RelOrdered(deps, o)
          /\ \A p \in RelPackages : \E i \in 1..Len(o) : o[i] = p
      BY <1>2, RelPlanComplete
    <2> HIDE DEF o
    <2> DEFINE I == {i \in 1..Len(o) : o[i] \in S}
    <2>3. I \in SUBSET Nat /\ I # {}
      <3>1. PICK p \in S : p \in RelPackages
        BY <2>1
      <3>2. PICK i \in 1..Len(o) : o[i] = p
        BY <2>2, <3>1
      <3>3. i \in I
        BY <3>1, <3>2
      <3>4. Len(o) \in Nat
        BY <2>2
      <3>5. I \subseteq Nat
        BY <3>4
      <3> HIDE DEF I
      <3> QED
        BY <3>3, <3>5
    <2>4. PICK m \in I : \A q \in I : m <= q
      <3> HIDE DEF I
      <3> QED
        BY <2>3, RelLeastIn
    <2>5. PICK d \in deps[o[m]] : d \in S
      BY <2>1, <2>4
    <2>6. PICK j \in 1..Len(o) : j < m /\ o[j] = d
      BY <2>2, <2>4, <2>5 DEF RelOrdered
    <2> QED
      BY <2>4, <2>5, <2>6
  <1> QED
    BY <1>1, <1>2

-----------------------------------------------------------------------------
(* The release: the runs of the publishers *)

\* What a run remembers.
RelRuns ==
  [pc : {"idle", "presence", "login", "preflight", "publish", "verify", "failed"}, mode : RelModes,
   authority : SUBSET RelPackages, seen : [RelPackages -> {"unseen", "absent", "ours"}],
   at : Nat, polls : Nat, found : {"none", "expected", "other"}, session : {"none", "expected", "other"},
   opened : BOOLEAN, runs : Nat,
   outcome : {"none", "refused", "executed", "uncertain", "unverified", "crashed", "login_failed", "logout_failed"}]

\* The registry and the runs have their types.
RelTypes ==
  /\ relDeps \in RelGraphs
  /\ relRegistry \in [RelPackages -> {"absent", "pending", "ours", "foreign"}]
  /\ relNames \in SUBSET RelPackages
  /\ relRun \in [RelPublishers -> RelRuns]

\* Only a plan without a circle is carried out.
RelPlanned(deps, run) == run.pc # "idle" \/ run.at # 1 => ~RelCycle(deps)

\* What a run saw served is served.
RelSawOurs(registry, run) == \A p \in RelPackages : run.seen[p] = "ours" => registry[p] = "ours"

\* Publishing starts when every package was inspected.
RelSawAll(run) ==
  run.pc \in {"publish", "verify", "failed"} => \A p \in RelPackages : run.seen[p] # "unseen"

\* Everything before the operation a run is at is served.
RelBehind(deps, registry, run) ==
  /\ run.at \in 1..(Cardinality(RelPackages) + 1)
  /\ run.pc \in {"verify", "failed"} => run.at # Cardinality(RelPackages) + 1
  /\ \A i \in 1..Cardinality(RelPackages) : i < run.at => registry[RelOrder(deps)[i]] = "ours"

\* "executed" is answered when everything is served.
RelAllServed(registry, run) == run.outcome = "executed" => \A p \in RelPackages : registry[p] = "ours"

\* A run that has not logged in has the session it found, and one that ended left none it opened.
RelSessionKept(run) ==
  /\ run.pc \in {"idle", "presence", "login"} => run.opened = FALSE
  /\ IF run.pc = "idle"
     THEN (run.found = "none" /\ run.outcome \notin {"crashed", "login_failed", "logout_failed"} /\ run.runs > 0)
            => run.session = "none"
     ELSE run.opened \/ run.session = run.found

RelRunFits(deps, registry, run) ==
  /\ RelPlanned(deps, run) /\ RelSawOurs(registry, run) /\ RelSawAll(run)
  /\ RelBehind(deps, registry, run) /\ RelAllServed(registry, run) /\ RelSessionKept(run)

(* The inductive invariant. *)
RelIInv ==
  /\ RelTypes /\ RelDependenciesFirst
  /\ \A x \in RelPublishers : RelRunFits(relDeps, relRegistry, relRun[x])

(* What is served stays served, so a run keeps what it relies on while others publish. *)
LEMMA RelFitsGrows ==
  ASSUME NEW deps \in RelGraphs, NEW old, NEW new, NEW run \in RelRuns,
         \A p \in RelPackages : old[p] = "ours" => new[p] = "ours",
         RelRunFits(deps, old, run)
  PROVE  RelRunFits(deps, new, run)
  <1>1. RelSawOurs(new, run) /\ RelAllServed(new, run)
    BY DEF RelRunFits, RelSawOurs, RelAllServed
  <1>2. RelBehind(deps, new, run)
    <2> SUFFICES ASSUME NEW i \in 1..Cardinality(RelPackages), i < run.at
                 PROVE  new[RelOrder(deps)[i]] = "ours"
      BY DEF RelRunFits, RelBehind
    <2>1. old[RelOrder(deps)[i]] = "ours"
      BY DEF RelRunFits, RelBehind
    <2>2. Cardinality(RelPackages) \in Nat /\ run.at # 1
      BY RelAssumption, FS_CardinalityType DEF RelRuns
    <2>3. ~RelCycle(deps)
      BY <2>2 DEF RelRunFits, RelPlanned
    <2>4. RelOrder(deps)[i] \in RelPackages
      BY <2>3, RelPlanComplete, RelAssumption
    <2> QED
      BY <2>1, <2>4
  <1> QED
    BY <1>1, <1>2 DEF RelRunFits

(* A step of one publisher that leaves the registry alone. *)
LEMMA RelMoves ==
  ASSUME RelIInv, NEW x \in RelPublishers, NEW run \in RelRuns, RelRunFits(relDeps, relRegistry, run),
         RelGo(x, run), UNCHANGED <<relDeps, relRegistry, relNames>>
  PROVE  RelIInv'
  <1>1. relRun' = [relRun EXCEPT ![x] = run]
    BY DEF RelGo
  <1>2. relRun' \in [RelPublishers -> RelRuns]
    BY <1>1 DEF RelIInv, RelTypes
  <1>3. \A y \in RelPublishers : relRun'[y] = IF y = x THEN run ELSE relRun[y]
    BY <1>1 DEF RelIInv, RelTypes
  <1>4. \A y \in RelPublishers : RelRunFits(relDeps', relRegistry', relRun'[y])
    BY <1>3 DEF RelIInv
  <1>5. RelTypes' /\ RelDependenciesFirst'
    BY <1>2 DEF RelIInv, RelTypes, RelDependenciesFirst
  <1> QED
    BY <1>4, <1>5 DEF RelIInv

(* What is known of a run. *)
LEMMA RelRunOf ==
  ASSUME RelIInv, NEW x \in RelPublishers
  PROVE  relRun[x] \in RelRuns /\ RelRunFits(relDeps, relRegistry, relRun[x])
  BY DEF RelIInv, RelTypes

(* Before the inspection no package is seen. *)
LEMMA RelUnseenType ==
  RelUnseen \in [RelPackages -> {"unseen", "absent", "ours"}] /\ \A p \in RelPackages : RelUnseen[p] = "unseen"
  BY DEF RelUnseen

(* The release has finitely many packages. *)
LEMMA RelCardType == Cardinality(RelPackages) \in Nat
  BY RelAssumption, FS_CardinalityType

(* A run that is over fits when its outcome is true and its session is the one it found, *)
(* unless the outcome says that it may not be.                                           *)
LEMMA RelOverFits ==
  ASSUME RelIInv, NEW x \in RelPublishers,
         NEW outcome \in {"refused", "executed", "uncertain", "unverified", "crashed", "login_failed", "logout_failed"},
         outcome = "executed" => \A p \in RelPackages : relRegistry[p] = "ours",
         NEW session \in {"none", "expected", "other"},
         session = "none" \/ session = relRun[x].found \/ outcome \in {"crashed", "login_failed", "logout_failed"},
         NEW run, run = [RelOver(x, outcome) EXCEPT !.session = session]
  PROVE  run \in RelRuns /\ RelRunFits(relDeps, relRegistry, run)
  <1>1. relRun[x] \in RelRuns
    BY RelRunOf
  <1>2. PICK over : over = RelOver(x, outcome)
    OBVIOUS
  <1>3. over \in RelRuns /\ over.pc = "idle" /\ over.outcome = outcome /\ over.seen = RelUnseen /\ over.at = 1
        /\ over.found = relRun[x].found /\ over.opened = FALSE
    BY <1>1, <1>2, RelUnseenType DEF RelOver, RelRuns
  <1>4. run \in RelRuns /\ run.pc = "idle" /\ run.outcome = outcome /\ run.seen = RelUnseen /\ run.at = 1
        /\ run.found = relRun[x].found /\ run.session = session /\ run.opened = FALSE
    BY <1>2, <1>3 DEF RelRuns
  <1>5. RelPlanned(relDeps, run) /\ RelSawOurs(relRegistry, run) /\ RelSawAll(run)
        /\ RelAllServed(relRegistry, run)
    BY <1>4, RelUnseenType DEF RelPlanned, RelSawOurs, RelSawAll, RelAllServed
  <1>6. RelBehind(relDeps, relRegistry, run)
    BY <1>4, RelCardType DEF RelBehind
  <1>7. RelSessionKept(run)
    BY <1>4 DEF RelSessionKept
  <1> QED
    BY <1>4, <1>5, <1>6, <1>7 DEF RelRunFits

(* However a run ends, the invariant holds: RelEnds logs out when the run logged in. *)
LEMMA RelEndsKeeps ==
  ASSUME RelIInv, NEW x \in RelPublishers, relRun[x].pc # "idle",
         NEW outcome \in {"refused", "executed", "uncertain", "unverified"},
         outcome = "executed" => \A p \in RelPackages : relRegistry[p] = "ours",
         RelEnds(x, outcome), UNCHANGED <<relDeps, relRegistry, relNames>>
  PROVE  RelIInv'
  <1>1. relRun[x] \in RelRuns /\ RelSessionKept(relRun[x])
    BY RelRunOf DEF RelRunFits
  <1>2. relRun[x].session \in {"none", "expected", "other"} /\ relRun[x].opened \in BOOLEAN
    BY <1>1 DEF RelRuns
  <1>3. ASSUME NEW o \in {"refused", "executed", "uncertain", "unverified", "crashed", "login_failed", "logout_failed"}
        PROVE  RelOver(x, o) = [RelOver(x, o) EXCEPT !.session = relRun[x].session]
    BY <1>1 DEF RelOver, RelRuns
  <1>4. CASE relRun[x].opened
    <2>1. CASE RelGo(x, [RelOver(x, outcome) EXCEPT !.session = "none"])
      <3>1. PICK run : run = [RelOver(x, outcome) EXCEPT !.session = "none"]
        OBVIOUS
      <3>2. run \in RelRuns /\ RelRunFits(relDeps, relRegistry, run)
        BY <3>1, RelOverFits
      <3> QED
        BY <2>1, <3>1, <3>2, RelMoves
    <2>2. CASE RelGo(x, RelOver(x, "logout_failed"))
      <3>1. PICK run : run = RelOver(x, "logout_failed")
        OBVIOUS
      <3>2. run = [RelOver(x, "logout_failed") EXCEPT !.session = relRun[x].session]
        BY <1>3, <3>1
      <3>3. run \in RelRuns /\ RelRunFits(relDeps, relRegistry, run)
        BY <1>2, <3>2, RelOverFits
      <3> QED
        BY <2>2, <3>1, <3>3, RelMoves
    <2> QED
      BY <1>4, <2>1, <2>2 DEF RelEnds
  <1>5. CASE ~relRun[x].opened
    <2>1. relRun[x].session = relRun[x].found
      BY <1>1, <1>5 DEF RelSessionKept
    <2>2. PICK run : run = RelOver(x, outcome)
      OBVIOUS
    <2>3. run = [RelOver(x, outcome) EXCEPT !.session = relRun[x].session]
      BY <1>3, <2>2
    <2>4. run \in RelRuns /\ RelRunFits(relDeps, relRegistry, run)
      BY <1>2, <2>1, <2>3, RelOverFits
    <2>5. RelGo(x, run)
      BY <1>5, <2>2 DEF RelEnds
    <2> QED
      BY <2>4, <2>5, RelMoves
  <1> QED
    BY <1>4, <1>5

(* A run starts with a plan and the session it found, or is refused and changes nothing. *)
LEMMA RelStartKeeps ==
  ASSUME RelIInv, NEW x \in RelPublishers, RelStart(x)
  PROVE  RelIInv'
  <1>1. relRun[x] \in RelRuns /\ RelRunFits(relDeps, relRegistry, relRun[x])
    BY RelRunOf
  <1>2. relRun[x].pc = "idle"
    BY DEF RelStart, RelAt
  <1>3. PICK mode \in RelModes, fails \in {"nothing", "some"} :
          LET refused == fails = "some" \/ ~RelTrusted(mode, relNames) \/ RelCycle(relDeps)
              started == [relRun[x] EXCEPT !.mode = mode, !.authority = relNames,
                                           !.found = relRun[x].session, !.runs = @ + 1]
          IN  RelGo(x, IF refused
                       THEN [started EXCEPT !.outcome = "refused"]
                       ELSE [started EXCEPT !.pc = IF mode = "oidc" THEN "preflight" ELSE "presence",
                                            !.outcome = "none"])
    BY DEF RelStart
  <1> DEFINE refused == fails = "some" \/ ~RelTrusted(mode, relNames) \/ RelCycle(relDeps)
  <1>4. PICK started : started = [relRun[x] EXCEPT !.mode = mode, !.authority = relNames,
                                                   !.found = relRun[x].session, !.runs = @ + 1]
    OBVIOUS
  <1>5. relNames \in SUBSET RelPackages /\ relRun[x].session \in {"none", "expected", "other"}
        /\ relRun[x].runs + 1 \in Nat
    BY <1>1 DEF RelIInv, RelTypes, RelRuns
  <1>6. started \in RelRuns
    BY <1>1, <1>4, <1>5 DEF RelRuns
  <1>7. started.pc = "idle" /\ started.seen = relRun[x].seen /\ started.at = relRun[x].at
        /\ started.found = started.session /\ started.opened = relRun[x].opened
    BY <1>1, <1>2, <1>4 DEF RelRuns
  <1>8. UNCHANGED <<relDeps, relRegistry, relNames>>
    BY DEF RelStart
  <1>9. CASE refused
    <2>1. PICK run : run = [started EXCEPT !.outcome = "refused"]
      OBVIOUS
    <2>2. RelGo(x, run)
      BY <1>3, <1>4, <1>9, <2>1
    <2> HIDE DEF refused
    <2>3. run \in RelRuns /\ run.pc = "idle" /\ run.seen = relRun[x].seen /\ run.at = relRun[x].at
          /\ run.found = run.session /\ run.outcome = "refused" /\ run.opened = relRun[x].opened
      BY <1>6, <1>7, <2>1 DEF RelRuns
    <2>4. RelRunFits(relDeps, relRegistry, run)
      BY <1>1, <1>2, <2>3
         DEF RelRunFits, RelPlanned, RelSawOurs, RelSawAll, RelBehind, RelAllServed, RelSessionKept
    <2> QED
      BY <1>8, <2>2, <2>3, <2>4, RelMoves
  <1>10. CASE ~refused
    <2>1. PICK pc : pc = IF mode = "oidc" THEN "preflight" ELSE "presence"
      OBVIOUS
    <2>2. PICK run : run = [started EXCEPT !.pc = pc, !.outcome = "none"]
      OBVIOUS
    <2>3. RelGo(x, run)
      BY <1>3, <1>4, <1>10, <2>1, <2>2
    <2>4. ~RelCycle(relDeps)
      BY <1>10
    <2> HIDE DEF refused
    <2>5. run \in RelRuns /\ run.pc \in {"preflight", "presence"} /\ run.seen = relRun[x].seen
          /\ run.at = relRun[x].at /\ run.found = run.session /\ run.outcome = "none"
          /\ run.opened = relRun[x].opened
      BY <1>6, <1>7, <2>1, <2>2 DEF RelRuns
    <2>6. RelRunFits(relDeps, relRegistry, run)
      BY <1>1, <1>2, <2>4, <2>5
         DEF RelRunFits, RelPlanned, RelSawOurs, RelSawAll, RelBehind, RelAllServed, RelSessionKept
    <2> QED
      BY <1>8, <2>3, <2>5, <2>6, RelMoves
  <1> QED
    BY <1>9, <1>10

(* What an inspection that is acceptable says is so, and a run may note it. *)
LEMMA RelSeeOurs ==
  ASSUME RelIInv, NEW x \in RelPublishers, NEW p \in RelToSee(x), NEW inspection \in RelInspections(p),
         RelAcceptable(inspection), NEW seen, seen = RelSee(x, p, inspection)
  PROVE  /\ seen \in [RelPackages -> {"unseen", "absent", "ours"}]
         /\ \A q \in RelPackages : seen[q] = "ours" => relRegistry[q] = "ours"
         /\ RelToSee(x) = {p} => \A q \in RelPackages : seen[q] # "unseen"
  <1>1. relRun[x] \in RelRuns /\ RelSawOurs(relRegistry, relRun[x])
    BY RelRunOf DEF RelRunFits
  <1>2. relRun[x].seen \in [RelPackages -> {"unseen", "absent", "ours"}] /\ p \in RelPackages
    BY <1>1 DEF RelRuns, RelToSee
  <1>3. inspection \in {"absent", "ours"}
    BY DEF RelAcceptable
  <1>4. inspection = "ours" => relRegistry[p] = "ours"
    BY DEF RelInspections, RelServed
  <1>5. seen = [relRun[x].seen EXCEPT ![p] = inspection]
    BY DEF RelSee
  <1>6. seen \in [RelPackages -> {"unseen", "absent", "ours"}]
        /\ \A q \in RelPackages : seen[q] = IF q = p THEN inspection ELSE relRun[x].seen[q]
    BY <1>2, <1>3, <1>5
  <1>7. \A q \in RelPackages : seen[q] = "ours" => relRegistry[q] = "ours"
    BY <1>1, <1>4, <1>6 DEF RelSawOurs
  <1>8. ASSUME RelToSee(x) = {p}, NEW q \in RelPackages PROVE seen[q] # "unseen"
    <2>1. q # p => relRun[x].seen[q] # "unseen"
      BY <1>8 DEF RelToSee
    <2> QED
      BY <1>3, <1>6, <2>1
  <1> QED
    BY <1>6, <1>7, <1>8

(* The bootstrap's first inspection: with nothing missing all is served. *)
LEMMA RelPresenceKeeps ==
  ASSUME RelIInv, NEW x \in RelPublishers, RelPresence(x)
  PROVE  RelIInv'
  <1>1. relRun[x] \in RelRuns /\ RelRunFits(relDeps, relRegistry, relRun[x])
    BY RelRunOf
  <1>2. relRun[x].pc = "presence" /\ UNCHANGED <<relDeps, relRegistry, relNames>>
    BY DEF RelPresence, RelAt
  <1>3. PICK p \in RelToSee(x) : \E presence \in RelPresences(p), inspection \in RelInspections(p) :
          LET fits == /\ presence = (IF p \in relRun[x].authority THEN "present" ELSE "absent")
                      /\ RelAcceptable(inspection)
              seen == RelSee(x, p, inspection)
          IN  IF ~fits
              THEN RelEnds(x, "refused")
              ELSE RelGo(x, IF RelToSee(x) # {p}
                            THEN [relRun[x] EXCEPT !.seen = seen]
                            ELSE IF RelNothingMissing(seen)
                            THEN [relRun[x] EXCEPT !.pc = "idle", !.outcome = "executed", !.seen = RelUnseen]
                            ELSE [relRun[x] EXCEPT !.pc = "login", !.seen = RelUnseen])
    BY DEF RelPresence
  <1>4. PICK presence \in RelPresences(p), inspection \in RelInspections(p) :
          LET fits == /\ presence = (IF p \in relRun[x].authority THEN "present" ELSE "absent")
                      /\ RelAcceptable(inspection)
              seen == RelSee(x, p, inspection)
          IN  IF ~fits
              THEN RelEnds(x, "refused")
              ELSE RelGo(x, IF RelToSee(x) # {p}
                            THEN [relRun[x] EXCEPT !.seen = seen]
                            ELSE IF RelNothingMissing(seen)
                            THEN [relRun[x] EXCEPT !.pc = "idle", !.outcome = "executed", !.seen = RelUnseen]
                            ELSE [relRun[x] EXCEPT !.pc = "login", !.seen = RelUnseen])
    BY <1>3
  <1> DEFINE fits == /\ presence = (IF p \in relRun[x].authority THEN "present" ELSE "absent")
                     /\ RelAcceptable(inspection)
  <1>5. PICK seen : seen = RelSee(x, p, inspection)
    OBVIOUS
  <1>6. CASE ~fits
    <2>1. RelEnds(x, "refused")
      BY <1>4, <1>6
    <2> QED
      BY <1>2, <2>1, RelEndsKeeps
  <1>7. CASE fits
    <2>1. /\ seen \in [RelPackages -> {"unseen", "absent", "ours"}]
          /\ \A q \in RelPackages : seen[q] = "ours" => relRegistry[q] = "ours"
          /\ RelToSee(x) = {p} => \A q \in RelPackages : seen[q] # "unseen"
      BY <1>5, <1>7, RelSeeOurs
    <2>2. CASE RelToSee(x) # {p}
      <3>1. PICK run : run = [relRun[x] EXCEPT !.seen = seen]
        OBVIOUS
      <3>2. RelGo(x, run)
        BY <1>4, <1>5, <1>7, <2>2, <3>1
      <3>3. run \in RelRuns /\ run.pc = "presence" /\ run.seen = seen /\ run.at = relRun[x].at
            /\ run.found = relRun[x].found /\ run.session = relRun[x].session
            /\ run.opened = relRun[x].opened /\ run.outcome = relRun[x].outcome
        BY <1>1, <1>2, <2>1, <3>1 DEF RelRuns
      <3>4. RelRunFits(relDeps, relRegistry, run)
        BY <1>1, <1>2, <2>1, <3>3
           DEF RelRunFits, RelPlanned, RelSawOurs, RelSawAll, RelBehind, RelAllServed, RelSessionKept
      <3> QED
        BY <1>2, <3>2, <3>3, <3>4, RelMoves
    <2>3. CASE RelToSee(x) = {p} /\ RelNothingMissing(seen)
      <3>1. PICK run : run = [relRun[x] EXCEPT !.pc = "idle", !.outcome = "executed", !.seen = RelUnseen]
        OBVIOUS
      <3>2. RelGo(x, run)
        BY <1>4, <1>5, <1>7, <2>3, <3>1
      <3>3. run \in RelRuns /\ run.pc = "idle" /\ run.seen = RelUnseen /\ run.at = relRun[x].at
            /\ run.found = relRun[x].found /\ run.session = relRun[x].session
            /\ run.opened = relRun[x].opened /\ run.outcome = "executed"
        BY <1>1, <1>2, RelUnseenType, <3>1 DEF RelRuns
      <3>4. \A q \in RelPackages : relRegistry[q] = "ours"
        BY <2>1, <2>3 DEF RelNothingMissing
      <3>5. run.session = run.found
        BY <1>1, <1>2, <3>3 DEF RelRunFits, RelSessionKept
      <3>6. RelRunFits(relDeps, relRegistry, run)
        BY <1>1, <1>2, <3>3, <3>4, <3>5, RelUnseenType
           DEF RelRunFits, RelPlanned, RelSawOurs, RelSawAll, RelBehind, RelAllServed, RelSessionKept
      <3> QED
        BY <1>2, <3>2, <3>3, <3>6, RelMoves
    <2>4. CASE RelToSee(x) = {p} /\ ~RelNothingMissing(seen)
      <3>1. PICK run : run = [relRun[x] EXCEPT !.pc = "login", !.seen = RelUnseen]
        OBVIOUS
      <3>2. RelGo(x, run)
        BY <1>4, <1>5, <1>7, <2>4, <3>1
      <3>3. run \in RelRuns /\ run.pc = "login" /\ run.seen = RelUnseen /\ run.at = relRun[x].at
            /\ run.found = relRun[x].found /\ run.session = relRun[x].session
            /\ run.opened = relRun[x].opened /\ run.outcome = relRun[x].outcome
        BY <1>1, <1>2, RelUnseenType, <3>1 DEF RelRuns
      <3>4. RelRunFits(relDeps, relRegistry, run)
        BY <1>1, <1>2, <3>3, RelUnseenType
           DEF RelRunFits, RelPlanned, RelSawOurs, RelSawAll, RelBehind, RelAllServed, RelSessionKept
      <3> QED
        BY <1>2, <3>2, <3>3, <3>4, RelMoves
    <2> QED
      BY <2>2, <2>3, <2>4
  <1> QED
    BY <1>6, <1>7

(* The login: a session the run opened is remembered as such. *)
LEMMA RelLoginKeeps ==
  ASSUME RelIInv, NEW x \in RelPublishers, RelLogin(x)
  PROVE  RelIInv'
  <1>1. relRun[x] \in RelRuns /\ RelRunFits(relDeps, relRegistry, relRun[x])
    BY RelRunOf
  <1>2. relRun[x].pc = "login" /\ UNCHANGED <<relDeps, relRegistry, relNames>>
    BY DEF RelLogin, RelAt
  <1>3. CASE RelEnds(x, "refused")
    BY <1>2, <1>3, RelEndsKeeps
  <1>4. ASSUME NEW session \in {"none", "expected", "other"},
               RelGo(x, [relRun[x] EXCEPT !.session = session, !.opened = TRUE, !.pc = "preflight"])
        PROVE  RelIInv'
    <2>1. PICK run : run = [relRun[x] EXCEPT !.session = session, !.opened = TRUE, !.pc = "preflight"]
      OBVIOUS
    <2>2. run \in RelRuns /\ run.pc = "preflight" /\ run.seen = relRun[x].seen /\ run.at = relRun[x].at
          /\ run.opened = TRUE /\ run.outcome = relRun[x].outcome
      BY <1>1, <2>1 DEF RelRuns
    <2>3. RelRunFits(relDeps, relRegistry, run)
      BY <1>1, <1>2, <2>2
         DEF RelRunFits, RelPlanned, RelSawOurs, RelSawAll, RelBehind, RelAllServed, RelSessionKept
    <2> QED
      BY <1>2, <1>4, <2>1, <2>2, <2>3, RelMoves
  <1>5. ASSUME NEW session \in {"none", "expected", "other"},
               NEW outcome \in {"refused", "login_failed", "logout_failed"},
               session = "none" \/ outcome # "refused", RelLoginEnds(x, session, outcome)
        PROVE  RelIInv'
    <2>1. PICK run : run = [relRun[x] EXCEPT !.session = session, !.pc = "idle", !.outcome = outcome]
      OBVIOUS
    <2>2. run \in RelRuns /\ run.pc = "idle" /\ run.seen = relRun[x].seen /\ run.at = relRun[x].at
          /\ run.outcome = outcome /\ run.opened = relRun[x].opened /\ run.session = session
      BY <1>1, <2>1 DEF RelRuns
    <2>3. RelRunFits(relDeps, relRegistry, run)
      BY <1>1, <1>2, <1>5, <2>2
         DEF RelRunFits, RelPlanned, RelSawOurs, RelSawAll, RelBehind, RelAllServed, RelSessionKept
    <2> QED
      BY <1>2, <1>5, <2>1, <2>2, <2>3, RelMoves DEF RelLoginEnds
  <1>6. CASE RelGo(x, [relRun[x] EXCEPT !.opened = TRUE, !.pc = "preflight"]) /\ relRun[x].session = "expected"
    <2>1. [relRun[x] EXCEPT !.opened = TRUE, !.pc = "preflight"]
            = [relRun[x] EXCEPT !.session = "expected", !.opened = TRUE, !.pc = "preflight"]
      BY <1>1, <1>6 DEF RelRuns
    <2> QED
      BY <1>4, <1>6, <2>1
  <1>7. CASE RelGo(x, [relRun[x] EXCEPT !.session = "expected", !.opened = TRUE, !.pc = "preflight"])
    BY <1>4, <1>7
  <1>8. CASE \E session \in {relRun[x].session, "expected", "other"} : RelLoginEnds(x, session, "login_failed")
    <2>1. relRun[x].session \in {"none", "expected", "other"}
      BY <1>1 DEF RelRuns
    <2> QED
      BY <1>5, <1>8, <2>1
  <1>9. CASE RelLoginEnds(x, "none", "refused")
    BY <1>5, <1>9
  <1>10. CASE \E session \in {"expected", "other"} : RelLoginEnds(x, session, "logout_failed")
    BY <1>5, <1>10
  <1> QED
    BY <1>3, <1>6, <1>7, <1>8, <1>9, <1>10 DEF RelLogin

(* The preflight: publishing starts with every package seen. *)
LEMMA RelPreflightKeeps ==
  ASSUME RelIInv, NEW x \in RelPublishers, RelPreflight(x)
  PROVE  RelIInv'
  <1>1. relRun[x] \in RelRuns /\ RelRunFits(relDeps, relRegistry, relRun[x])
    BY RelRunOf
  <1>2. relRun[x].pc = "preflight" /\ UNCHANGED <<relDeps, relRegistry, relNames>>
    BY DEF RelPreflight, RelAt
  <1>3. PICK p \in RelToSee(x) : \E inspection \in RelInspections(p) :
          IF ~RelAcceptable(inspection)
          THEN RelEnds(x, "refused")
          ELSE RelGo(x, [relRun[x] EXCEPT !.seen = RelSee(x, p, inspection),
                                          !.pc = IF RelToSee(x) = {p} THEN "publish" ELSE @])
    BY DEF RelPreflight
  <1>4. PICK inspection \in RelInspections(p) :
          IF ~RelAcceptable(inspection)
          THEN RelEnds(x, "refused")
          ELSE RelGo(x, [relRun[x] EXCEPT !.seen = RelSee(x, p, inspection),
                                          !.pc = IF RelToSee(x) = {p} THEN "publish" ELSE @])
    BY <1>3
  <1>5. CASE ~RelAcceptable(inspection)
    BY <1>2, <1>4, <1>5, RelEndsKeeps
  <1>6. CASE RelAcceptable(inspection)
    <2>1. PICK seen : seen = RelSee(x, p, inspection)
      OBVIOUS
    <2>2. /\ seen \in [RelPackages -> {"unseen", "absent", "ours"}]
          /\ \A q \in RelPackages : seen[q] = "ours" => relRegistry[q] = "ours"
          /\ RelToSee(x) = {p} => \A q \in RelPackages : seen[q] # "unseen"
      BY <1>6, <2>1, RelSeeOurs
    <2>3. PICK pc : pc = IF RelToSee(x) = {p} THEN "publish" ELSE relRun[x].pc
      OBVIOUS
    <2>4. PICK run : run = [relRun[x] EXCEPT !.seen = seen, !.pc = pc]
      OBVIOUS
    <2>5. RelGo(x, run)
      BY <1>1, <1>4, <1>6, <2>1, <2>3, <2>4 DEF RelRuns
    <2>6. run \in RelRuns /\ run.pc = pc /\ run.seen = seen /\ run.at = relRun[x].at
          /\ run.found = relRun[x].found /\ run.session = relRun[x].session
          /\ run.opened = relRun[x].opened /\ run.outcome = relRun[x].outcome
      BY <1>1, <1>2, <2>2, <2>3, <2>4 DEF RelRuns
    <2>7. pc \in {"publish", "preflight"} /\ (pc = "publish" => \A q \in RelPackages : seen[q] # "unseen")
      BY <1>2, <2>2, <2>3
    <2>8. RelRunFits(relDeps, relRegistry, run)
      BY <1>1, <1>2, <2>2, <2>6, <2>7
         DEF RelRunFits, RelPlanned, RelSawOurs, RelSawAll, RelBehind, RelAllServed, RelSessionKept
    <2> QED
      BY <1>2, <2>5, <2>6, <2>8, RelMoves
  <1> QED
    BY <1>5, <1>6

(* The operation a run is at, and what is known of the plan while the run is under way. *)
LEMMA RelOperation ==
  ASSUME RelIInv, NEW x \in RelPublishers, relRun[x].pc # "idle",
         NEW i \in 1..Cardinality(RelPackages)
  PROVE  /\ RelOrder(relDeps)[i] \in RelPackages
         /\ \A d \in relDeps[RelOrder(relDeps)[i]] :
              d \in RelPackages /\ \E j \in 1..Cardinality(RelPackages) : j < i /\ RelOrder(relDeps)[j] = d
  <1>1. ~RelCycle(relDeps)
    BY RelRunOf DEF RelRunFits, RelPlanned
  <1>2. relDeps \in [RelPackages -> SUBSET RelPackages]
    BY RelAssumption DEF RelIInv, RelTypes
  <1>3. /\ RelOrder(relDeps) \in Seq(RelPackages) /\ Len(RelOrder(relDeps)) = Cardinality(RelPackages)
        /\ RelOrdered(relDeps, RelOrder(relDeps))
    BY <1>1, <1>2, RelPlanComplete
  <1>4. RelOrder(relDeps)[i] \in RelPackages
    BY <1>3
  <1> QED
    BY <1>2, <1>3, <1>4 DEF RelOrdered

(* A run that goes on to the next operation leaves one behind that is served. *)
LEMMA RelAdvances ==
  ASSUME RelIInv, NEW x \in RelPublishers, relRun[x].pc \in {"publish", "verify"},
         relRun[x].at <= Cardinality(RelPackages),
         relRegistry[RelOrder(relDeps)[relRun[x].at]] = "ours",
         NEW run, run = [relRun[x] EXCEPT !.pc = "publish", !.at = @ + 1]
  PROVE  run \in RelRuns /\ RelRunFits(relDeps, relRegistry, run)
  <1>1. relRun[x] \in RelRuns /\ RelRunFits(relDeps, relRegistry, relRun[x])
    BY RelRunOf
  <1>2. PICK at : at = relRun[x].at + 1
    OBVIOUS
  <1>3. relRun[x].at \in Nat /\ at \in Nat
    BY <1>1, <1>2 DEF RelRuns
  <1>4. run = [relRun[x] EXCEPT !.pc = "publish", !.at = at]
    BY <1>1, <1>2 DEF RelRuns
  <1>5. run \in RelRuns /\ run.pc = "publish" /\ run.seen = relRun[x].seen /\ run.at = at
        /\ run.found = relRun[x].found /\ run.session = relRun[x].session
        /\ run.opened = relRun[x].opened /\ run.outcome = relRun[x].outcome
    BY <1>1, <1>3, <1>4 DEF RelRuns
  <1>6. RelBehind(relDeps, relRegistry, run)
    <2>1. /\ relRun[x].at \in 1..(Cardinality(RelPackages) + 1)
          /\ \A i \in 1..Cardinality(RelPackages) :
               i < relRun[x].at => relRegistry[RelOrder(relDeps)[i]] = "ours"
      BY <1>1 DEF RelRunFits, RelBehind
    <2>2. run.at \in 1..(Cardinality(RelPackages) + 1)
      BY <1>2, <1>3, <1>5, RelCardType
    <2>3. ASSUME NEW i \in 1..Cardinality(RelPackages), i < run.at
          PROVE  relRegistry[RelOrder(relDeps)[i]] = "ours"
      <3>1. i < relRun[x].at \/ i = relRun[x].at
        BY <1>2, <1>3, <1>5, <2>3, RelCardType
      <3> QED
        BY <2>1, <3>1
    <2> QED
      BY <1>5, <2>2, <2>3 DEF RelBehind
  <1>7. RelRunFits(relDeps, relRegistry, run)
    BY <1>1, <1>5, <1>6 DEF RelRunFits, RelPlanned, RelSawOurs, RelSawAll, RelAllServed, RelSessionKept
  <1> QED
    BY <1>5, <1>7

(* An operation the preflight found served is skipped. *)
LEMMA RelSkipKeeps ==
  ASSUME RelIInv, NEW x \in RelPublishers, RelSkip(x)
  PROVE  RelIInv'
  <1>1. relRun[x] \in RelRuns /\ RelRunFits(relDeps, relRegistry, relRun[x])
    BY RelRunOf
  <1>2. relRun[x].pc = "publish" /\ relRun[x].at <= Cardinality(RelPackages)
        /\ relRun[x].seen[RelOrder(relDeps)[relRun[x].at]] # "absent"
        /\ RelGo(x, [relRun[x] EXCEPT !.at = @ + 1]) /\ UNCHANGED <<relDeps, relRegistry, relNames>>
    BY DEF RelSkip, RelAt
  <1>3. relRun[x].at \in 1..Cardinality(RelPackages)
    BY <1>1, <1>2, RelCardType DEF RelRunFits, RelBehind
  <1>4. PICK p : p = RelOrder(relDeps)[relRun[x].at]
    OBVIOUS
  <1>5. p \in RelPackages
    BY <1>2, <1>3, <1>4, RelOperation
  <1>6. relRegistry[p] = "ours"
    <2>1. relRun[x].seen[p] \in {"unseen", "absent", "ours"}
      BY <1>1, <1>5 DEF RelRuns
    <2>2. relRun[x].seen[p] # "unseen"
      BY <1>1, <1>2, <1>5 DEF RelRunFits, RelSawAll
    <2> QED
      BY <1>1, <1>2, <1>4, <1>5, <2>1, <2>2 DEF RelRunFits, RelSawOurs
  <1>7. PICK run : run = [relRun[x] EXCEPT !.pc = "publish", !.at = @ + 1]
    OBVIOUS
  <1>8. run = [relRun[x] EXCEPT !.at = @ + 1]
    BY <1>1, <1>2, <1>7 DEF RelRuns
  <1>9. run \in RelRuns /\ RelRunFits(relDeps, relRegistry, run)
    BY <1>2, <1>4, <1>6, <1>7, RelAdvances
  <1> QED
    BY <1>2, <1>8, <1>9, RelMoves

(* A run at the end of its plan has everything behind it. *)
LEMMA RelFinishKeeps ==
  ASSUME RelIInv, NEW x \in RelPublishers, RelFinish(x)
  PROVE  RelIInv'
  <1>1. relRun[x] \in RelRuns /\ RelRunFits(relDeps, relRegistry, relRun[x])
    BY RelRunOf
  <1>2. relRun[x].pc = "publish" /\ relRun[x].at > Cardinality(RelPackages) /\ RelEnds(x, "executed")
        /\ UNCHANGED <<relDeps, relRegistry, relNames>>
    BY DEF RelFinish, RelAt
  <1>3. ASSUME NEW p \in RelPackages PROVE relRegistry[p] = "ours"
    <2>1. ~RelCycle(relDeps)
      BY <1>1, <1>2 DEF RelRunFits, RelPlanned
    <2>2. relDeps \in [RelPackages -> SUBSET RelPackages]
      BY RelAssumption DEF RelIInv, RelTypes
    <2>3. PICK i \in 1..Cardinality(RelPackages) : RelOrder(relDeps)[i] = p
      BY <2>1, <2>2, RelPlanComplete
    <2>4. relRun[x].at \in Nat
      BY <1>1 DEF RelRuns
    <2>5. i < relRun[x].at
      BY <1>2, <2>3, <2>4, RelCardType
    <2> QED
      BY <1>1, <2>3, <2>5 DEF RelRunFits, RelBehind
  <1> QED
    BY <1>2, <1>3, RelEndsKeeps

(* A step of a run within its operation. *)
LEMMA RelStays ==
  ASSUME RelIInv, NEW x \in RelPublishers, relRun[x].pc \in {"publish", "verify", "failed"},
         relRun[x].at <= Cardinality(RelPackages),
         NEW pc \in {"verify", "failed"}, NEW polls \in Nat,
         NEW run, run = [relRun[x] EXCEPT !.pc = pc, !.polls = polls]
  PROVE  run \in RelRuns /\ RelRunFits(relDeps, relRegistry, run)
  <1>1. relRun[x] \in RelRuns /\ RelRunFits(relDeps, relRegistry, relRun[x])
    BY RelRunOf
  <1>2. run \in RelRuns /\ run.pc = pc /\ run.seen = relRun[x].seen /\ run.at = relRun[x].at
        /\ run.found = relRun[x].found /\ run.session = relRun[x].session
        /\ run.opened = relRun[x].opened /\ run.outcome = relRun[x].outcome
    BY <1>1 DEF RelRuns
  <1>3. run.at # Cardinality(RelPackages) + 1
    BY <1>1, <1>2, RelCardType DEF RelRuns
  <1>4. RelRunFits(relDeps, relRegistry, run)
    BY <1>1, <1>2, <1>3
       DEF RelRunFits, RelPlanned, RelSawOurs, RelSawAll, RelBehind, RelAllServed, RelSessionKept
  <1> QED
    BY <1>2, <1>4

(* npm publish: what is handed to the registry depends on nothing that is not served. *)
LEMMA RelPublishKeeps ==
  ASSUME RelIInv, NEW x \in RelPublishers, RelPublish(x)
  PROVE  RelIInv'
  <1>1. relRun[x] \in RelRuns /\ RelRunFits(relDeps, relRegistry, relRun[x])
    BY RelRunOf
  <1>2. PICK p : p = RelOrder(relDeps)[relRun[x].at]
    OBVIOUS
  <1>3. relRun[x].pc = "publish" /\ relRun[x].at <= Cardinality(RelPackages) /\ UNCHANGED <<relDeps, relNames>>
    BY DEF RelPublish, RelAt
  <1>4. relRun[x].at \in 1..Cardinality(RelPackages) /\ relRun[x].polls \in Nat
    BY <1>1, <1>3, RelCardType DEF RelRunFits, RelBehind, RelRuns
  <1>5. p \in RelPackages
        /\ \A d \in relDeps[p] :
             d \in RelPackages /\ \E j \in 1..Cardinality(RelPackages) : j < relRun[x].at /\ RelOrder(relDeps)[j] = d
    BY <1>2, <1>3, <1>4, RelOperation
  <1>6. CASE relRegistry' = relRegistry /\ RelGo(x, [relRun[x] EXCEPT !.pc = "failed"])
    <2>1. PICK run : run = [relRun[x] EXCEPT !.pc = "failed", !.polls = relRun[x].polls]
      OBVIOUS
    <2>2. run = [relRun[x] EXCEPT !.pc = "failed"]
      BY <1>1, <2>1 DEF RelRuns
    <2>3. run \in RelRuns /\ RelRunFits(relDeps, relRegistry, run)
      BY <1>3, <1>4, <2>1, RelStays
    <2> QED
      BY <1>3, <1>6, <2>2, <2>3, RelMoves
  <1>7. ASSUME relRegistry[p] = "absent", relRegistry' = [relRegistry EXCEPT ![p] = "pending"],
               NEW pc \in {"verify", "failed"}, RelGo(x, [relRun[x] EXCEPT !.pc = pc, !.polls = 0])
        PROVE  RelIInv'
    <2>1. PICK run : run = [relRun[x] EXCEPT !.pc = pc, !.polls = 0]
      OBVIOUS
    <2>2. run \in RelRuns /\ RelRunFits(relDeps, relRegistry, run)
      BY <1>3, <1>4, <2>1, RelStays
    <2>3. relRegistry \in [RelPackages -> {"absent", "pending", "ours", "foreign"}] /\ relDeps \in RelGraphs
      BY DEF RelIInv, RelTypes
    <2>4. relRegistry' \in [RelPackages -> {"absent", "pending", "ours", "foreign"}]
          /\ \A q \in RelPackages : relRegistry'[q] = IF q = p THEN "pending" ELSE relRegistry[q]
      BY <1>5, <1>7, <2>3
    <2>5. \A q \in RelPackages : relRegistry[q] = "ours" => relRegistry'[q] = "ours"
      BY <1>7, <2>4
    <2>6. relRun' \in [RelPublishers -> RelRuns]
          /\ \A y \in RelPublishers : relRun'[y] = IF y = x THEN run ELSE relRun[y]
      BY <1>7, <2>1, <2>2 DEF RelGo, RelIInv, RelTypes
    <2>7. ASSUME NEW y \in RelPublishers PROVE RelRunFits(relDeps', relRegistry', relRun'[y])
      <3>1. relRun'[y] \in RelRuns /\ RelRunFits(relDeps, relRegistry, relRun'[y])
        BY <2>2, <2>6, RelRunOf
      <3>2. RelRunFits(relDeps, relRegistry', relRun'[y])
        BY <2>3, <2>5, <3>1, RelFitsGrows
      <3> QED
        BY <1>3, <3>2
    <2>8. RelDependenciesFirst'
      <3> SUFFICES ASSUME NEW q \in RelPackages, relRegistry'[q] \in {"pending", "ours"},
                          NEW d \in relDeps'[q]
                   PROVE  relRegistry'[d] = "ours"
        BY DEF RelDependenciesFirst
      <3>1. d \in relDeps[q] /\ d \in RelPackages
        BY <1>3, <2>3, RelAssumption
      <3>2. CASE q = p
        <4>1. PICK j \in 1..Cardinality(RelPackages) : j < relRun[x].at /\ RelOrder(relDeps)[j] = d
          BY <1>5, <3>1, <3>2
        <4>2. relRegistry[d] = "ours"
          BY <1>1, <4>1 DEF RelRunFits, RelBehind
        <4> QED
          BY <2>5, <3>1, <4>2
      <3>3. CASE q # p
        <4>1. relRegistry[q] \in {"pending", "ours"}
          BY <2>4, <3>3
        <4>2. relRegistry[d] = "ours"
          BY <3>1, <4>1 DEF RelIInv, RelDependenciesFirst
        <4> QED
          BY <2>5, <3>1, <4>2
      <3> QED
        BY <3>2, <3>3
    <2>9. RelTypes'
      BY <1>3, <2>3, <2>4, <2>6 DEF RelIInv, RelTypes
    <2> QED
      BY <2>7, <2>8, <2>9 DEF RelIInv
  <1> QED
    BY <1>2, <1>6, <1>7 DEF RelPublish

(* After a failed publication only the release's own bytes count as published. *)
LEMMA RelAfterFailureKeeps ==
  ASSUME RelIInv, NEW x \in RelPublishers, RelAfterFailure(x)
  PROVE  RelIInv'
  <1>1. relRun[x] \in RelRuns /\ RelRunFits(relDeps, relRegistry, relRun[x])
    BY RelRunOf
  <1>2. relRun[x].pc = "failed" /\ UNCHANGED <<relDeps, relRegistry, relNames>>
    BY DEF RelAfterFailure, RelAt
  <1>3. relRun[x].at <= Cardinality(RelPackages)
    BY <1>1, <1>2, RelCardType DEF RelRunFits, RelBehind
  <1>4. CASE RelGo(x, [relRun[x] EXCEPT !.pc = "verify", !.polls = 0])
    <2>1. PICK run : run = [relRun[x] EXCEPT !.pc = "verify", !.polls = 0]
      OBVIOUS
    <2>2. run \in RelRuns /\ RelRunFits(relDeps, relRegistry, run)
      BY <1>2, <1>3, <2>1, RelStays
    <2> QED
      BY <1>2, <1>4, <2>1, <2>2, RelMoves
  <1>5. CASE RelEnds(x, "uncertain")
    BY <1>2, <1>5, RelEndsKeeps
  <1> QED
    BY <1>4, <1>5 DEF RelAfterFailure

(* A run goes on only after it saw its own bytes served. *)
LEMMA RelVerifyKeeps ==
  ASSUME RelIInv, NEW x \in RelPublishers, RelVerify(x)
  PROVE  RelIInv'
  <1>1. relRun[x] \in RelRuns /\ RelRunFits(relDeps, relRegistry, relRun[x])
    BY RelRunOf
  <1>2. relRun[x].pc = "verify" /\ UNCHANGED <<relDeps, relRegistry, relNames>>
    BY DEF RelVerify, RelAt
  <1>3. relRun[x].at <= Cardinality(RelPackages) /\ relRun[x].polls \in Nat
    BY <1>1, <1>2, RelCardType DEF RelRunFits, RelBehind, RelRuns
  <1>4. PICK p : p = RelOrder(relDeps)[relRun[x].at]
    OBVIOUS
  <1>5. PICK inspection \in RelInspections(p) :
          \/ /\ RelVerified(inspection, relRun[x].polls) = "next"
             /\ RelGo(x, [relRun[x] EXCEPT !.pc = "publish", !.at = @ + 1])
          \/ /\ RelVerified(inspection, relRun[x].polls) = "again"
             /\ RelGo(x, [relRun[x] EXCEPT !.polls = @ + 1])
          \/ /\ RelVerified(inspection, relRun[x].polls) = "unverified"
             /\ RelEnds(x, "unverified")
    BY <1>4 DEF RelVerify
  <1>6. CASE /\ RelVerified(inspection, relRun[x].polls) = "next"
             /\ RelGo(x, [relRun[x] EXCEPT !.pc = "publish", !.at = @ + 1])
    <2>1. inspection = "ours"
      BY <1>6 DEF RelVerified
    <2>2. relRegistry[p] = "ours"
      BY <2>1 DEF RelInspections, RelServed
    <2>3. PICK run : run = [relRun[x] EXCEPT !.pc = "publish", !.at = @ + 1]
      OBVIOUS
    <2>4. run \in RelRuns /\ RelRunFits(relDeps, relRegistry, run)
      BY <1>2, <1>3, <1>4, <2>2, <2>3, RelAdvances
    <2> QED
      BY <1>2, <1>6, <2>3, <2>4, RelMoves
  <1>7. CASE RelGo(x, [relRun[x] EXCEPT !.polls = @ + 1])
    <2>1. PICK polls : polls = relRun[x].polls + 1
      OBVIOUS
    <2>2. PICK run : run = [relRun[x] EXCEPT !.pc = "verify", !.polls = polls]
      OBVIOUS
    <2>3. run = [relRun[x] EXCEPT !.polls = @ + 1]
      BY <1>1, <1>2, <2>1, <2>2 DEF RelRuns
    <2>4. run \in RelRuns /\ RelRunFits(relDeps, relRegistry, run)
      <3>1. polls \in Nat
        BY <1>3, <2>1
      <3> QED
        BY <1>2, <1>3, <2>2, <3>1, RelStays
    <2> QED
      BY <1>2, <1>7, <2>3, <2>4, RelMoves
  <1>8. CASE RelEnds(x, "unverified")
    BY <1>2, <1>8, RelEndsKeeps
  <1> QED
    BY <1>5, <1>6, <1>7, <1>8

(* The process dies: the session stays, and the outcome says so. *)
LEMMA RelCrashKeeps ==
  ASSUME RelIInv, NEW x \in RelPublishers, RelCrash(x)
  PROVE  RelIInv'
  <1>1. relRun[x] \in RelRuns
    BY RelRunOf
  <1>2. PICK run : run = [RelOver(x, "crashed") EXCEPT !.session = relRun[x].session]
    OBVIOUS
  <1>3. run = RelOver(x, "crashed") /\ relRun[x].session \in {"none", "expected", "other"}
    BY <1>1, <1>2 DEF RelOver, RelRuns
  <1>4. run \in RelRuns /\ RelRunFits(relDeps, relRegistry, run)
    BY <1>2, <1>3, RelOverFits
  <1>5. RelGo(x, run) /\ UNCHANGED <<relDeps, relRegistry, relNames>>
    BY <1>3 DEF RelCrash
  <1> QED
    BY <1>4, <1>5, RelMoves

(* The registry changes a version that nobody relies on: one that was not served. *)
LEMMA RelRegistryKeeps ==
  ASSUME RelIInv, NEW p \in RelPackages, NEW before, NEW after,
         (before = "pending" /\ after = "ours") \/ (before = "absent" /\ after = "foreign"),
         relRegistry[p] = before, relRegistry' = [relRegistry EXCEPT ![p] = after],
         relNames' = relNames \cup {p}, UNCHANGED <<relDeps, relRun>>
  PROVE  RelIInv'
  <1>1. relRegistry \in [RelPackages -> {"absent", "pending", "ours", "foreign"}] /\ relDeps \in RelGraphs
        /\ relNames \in SUBSET RelPackages
    BY DEF RelIInv, RelTypes
  <1>2. (before = "pending" /\ after = "ours") \/ (before = "absent" /\ after = "foreign")
    OBVIOUS
  <1>3. relRegistry' \in [RelPackages -> {"absent", "pending", "ours", "foreign"}]
        /\ \A q \in RelPackages : relRegistry'[q] = IF q = p THEN after ELSE relRegistry[q]
    BY <1>1, <1>2
  <1>4. \A q \in RelPackages : relRegistry[q] = "ours" => relRegistry'[q] = "ours"
    BY <1>2, <1>3
  <1>5. ASSUME NEW y \in RelPublishers PROVE RelRunFits(relDeps', relRegistry', relRun'[y])
    <2>1. relRun[y] \in RelRuns /\ RelRunFits(relDeps, relRegistry, relRun[y])
      BY RelRunOf
    <2>2. RelRunFits(relDeps, relRegistry', relRun[y])
      BY <1>1, <1>4, <2>1, RelFitsGrows
    <2> QED
      BY <2>2
  <1>6. RelDependenciesFirst'
    <2> SUFFICES ASSUME NEW q \in RelPackages, relRegistry'[q] \in {"pending", "ours"}, NEW d \in relDeps'[q]
                 PROVE  relRegistry'[d] = "ours"
      BY DEF RelDependenciesFirst
    <2>1. d \in relDeps[q] /\ d \in RelPackages
      BY <1>1, RelAssumption
    <2>2. relRegistry[q] \in {"pending", "ours"}
      BY <1>2, <1>3
    <2>3. relRegistry[d] = "ours"
      BY <2>1, <2>2 DEF RelIInv, RelDependenciesFirst
    <2> QED
      BY <1>4, <2>1, <2>3
  <1>7. RelTypes'
    BY <1>1, <1>3 DEF RelIInv, RelTypes
  <1> QED
    BY <1>5, <1>6, <1>7 DEF RelIInv

(* Every run starts idle, with nothing in the registry. *)
LEMMA RelInitHolds == RelInit => RelIInv
  <1> SUFFICES ASSUME RelInit PROVE RelIInv
    OBVIOUS
  <1>1. PICK before \in {"none", "expected", "other"} :
          relRun = [x \in RelPublishers |-> [RelIdle EXCEPT !.session = before]]
    BY DEF RelInit
  <1>2. PICK run : run = [RelIdle EXCEPT !.session = before]
    OBVIOUS
  <1>3. run \in RelRuns /\ run.pc = "idle" /\ run.seen = RelUnseen /\ run.at = 1 /\ run.outcome = "none"
        /\ run.opened = FALSE /\ run.runs = 0
    BY <1>2, RelUnseenType DEF RelIdle, RelRuns, RelModes
  <1>4. RelRunFits(relDeps, relRegistry, run)
    BY <1>3, RelUnseenType, RelCardType
       DEF RelRunFits, RelPlanned, RelSawOurs, RelSawAll, RelBehind, RelAllServed, RelSessionKept
  <1>5. relRun \in [RelPublishers -> RelRuns] /\ \A x \in RelPublishers : relRun[x] = run
    BY <1>1, <1>2, <1>3
  <1>6. RelTypes /\ RelDependenciesFirst
    BY <1>5 DEF RelInit, RelTypes, RelDependenciesFirst
  <1> QED
    BY <1>4, <1>5, <1>6 DEF RelIInv

(* Every step keeps the invariant. *)
LEMMA RelNextKeeps == RelIInv /\ [RelNext]_relVars => RelIInv'
  <1> SUFFICES ASSUME RelIInv, [RelNext]_relVars PROVE RelIInv'
    OBVIOUS
  <1>1. CASE UNCHANGED relVars
    BY <1>1 DEF relVars, RelIInv, RelTypes, RelDependenciesFirst
  <1>2. ASSUME NEW x \in RelPublishers,
               \/ RelStart(x) \/ RelPresence(x) \/ RelLogin(x) \/ RelPreflight(x) \/ RelSkip(x) \/ RelFinish(x)
               \/ RelPublish(x) \/ RelAfterFailure(x) \/ RelVerify(x) \/ RelCrash(x)
        PROVE  RelIInv'
    BY <1>2, RelStartKeeps, RelPresenceKeeps, RelLoginKeeps, RelPreflightKeeps, RelSkipKeeps, RelFinishKeeps,
       RelPublishKeeps, RelAfterFailureKeeps, RelVerifyKeeps, RelCrashKeeps
  <1>3. ASSUME NEW p \in RelPackages, RelServe(p) \/ RelForeign(p) PROVE RelIInv'
    <2>1. CASE RelServe(p)
      <3>1. relRegistry[p] = "pending" /\ relRegistry' = [relRegistry EXCEPT ![p] = "ours"]
            /\ relNames' = relNames \cup {p} /\ UNCHANGED <<relDeps, relRun>>
        BY <2>1 DEF RelServe
      <3> QED
        BY <3>1, RelRegistryKeeps
    <2>2. CASE RelForeign(p)
      <3>1. relRegistry[p] = "absent" /\ relRegistry' = [relRegistry EXCEPT ![p] = "foreign"]
            /\ relNames' = relNames \cup {p} /\ UNCHANGED <<relDeps, relRun>>
        BY <2>2 DEF RelForeign
      <3> QED
        BY <3>1, RelRegistryKeeps
    <2> QED
      BY <1>3, <2>1, <2>2
  <1> QED
    BY <1>1, <1>2, <1>3 DEF RelNext

(* For any packages, dependencies, publishers and bounds: at every moment, past crashes, foreign     *)
(* publications and a registry that lags, a package this release published has its dependencies       *)
(* served, "executed" means that everything is served, and a run closes the npm session it opened.    *)
THEOREM ReleaseHolds == RelSpec => []ReleaseSafe
  <1>1. RelIInv => ReleaseSafe
    <2> SUFFICES ASSUME RelIInv PROVE ReleaseSafe
      OBVIOUS
    <2>1. RelDependenciesFirst
      BY DEF RelIInv
    <2>2. RelExecutedServed
      BY DEF RelIInv, RelRunFits, RelAllServed, RelExecutedServed
    <2>3. RelSessionClosed
      BY DEF RelIInv, RelRunFits, RelSessionKept, RelSessionClosed
    <2> QED
      BY <2>1, <2>2, <2>3 DEF ReleaseSafe
  <1> QED
    BY <1>1, RelInitHolds, RelNextKeeps, PTL DEF RelSpec
=============================================================================
