---------------------------- MODULE Compensation ----------------------------
(***************************************************************************)
(* Compensating an acknowledged effect (runtime.ts requestCompensation and *)
(* #executeCompensation): operators ask for a compensation run, workers    *)
(* execute it.  The write effect inside is module EffectExecution's; here  *)
(* it is one dispatch with its three outcomes.                             *)
(*                                                                         *)
(* putIntentOnce is a port of the host: the first intent for an effect     *)
(* stays and is what every later call returns.                             *)
(***************************************************************************)
EXTENDS RunReducer, FiniteSets

CONSTANTS
  CmpCommands,   \* commands of operators, each of which may be sent again
  CmpRuns,       \* ids the generator can hand out: one per transaction
  CmpMaxFaults   \* bound: crashes

\* Where the execution of a run stands in #executeCompensation.
CmpPlaces == {"start", "request", "resolve", "policy", "effect", "result", "artifact", "finalize"}

ASSUME CmpAssumption == None \notin CmpRuns \cup CmpPlaces \cup Projections

VARIABLES
  cmpOriginal,   \* state of the original effect
  cmpKilled,     \* the definition's or the strategy's kill switch
  cmpIntent,     \* the intent of the effect: the run it names, or None
  cmpRuns,       \* projections of the compensation runs, None before RunAccepted
  cmpAnswered,   \* recorded response by command, or None
  cmpPc,         \* the execution of each run: None or where it stands
  cmpSent,       \* external: compensating calls made, by run
  cmpFaults

cmpVars == <<cmpOriginal, cmpKilled, cmpIntent, cmpRuns, cmpAnswered, cmpPc, cmpSent, cmpFaults>>

CmpInit ==
  /\ cmpOriginal = "dispatched" /\ cmpKilled = FALSE
  /\ cmpIntent = None
  /\ cmpRuns = [r \in CmpRuns |-> None]
  /\ cmpAnswered = [c \in CmpCommands |-> None]
  /\ cmpPc = [r \in CmpRuns |-> None]
  /\ cmpSent = [r \in CmpRuns |-> 0]
  /\ cmpFaults = 0

\* The original run's effect ends (module EffectExecution).
CmpOriginalEnds ==
  /\ cmpOriginal = "dispatched" /\ cmpOriginal' \in {"acknowledged", "uncertain"}
  /\ UNCHANGED <<cmpKilled, cmpIntent, cmpRuns, cmpAnswered, cmpPc, cmpSent, cmpFaults>>

CmpKill ==
  /\ ~cmpKilled /\ cmpKilled' = TRUE
  /\ UNCHANGED <<cmpOriginal, cmpIntent, cmpRuns, cmpAnswered, cmpPc, cmpSent, cmpFaults>>

\* #assertExactBinding: the intent the port holds is the one this transaction wrote.
CmpIntentHeld(r) == cmpIntent \in {None, r}

\* transactCommand: a command that committed before is answered with its response; else
\* the intent, the work order, RunAccepted, the projection and the response commit together.
CmpRequest(c, r) ==
  /\ cmpOriginal = "acknowledged" /\ ~cmpKilled
  /\ cmpAnswered[c] = None /\ cmpRuns[r] = None
  /\ CmpIntentHeld(r)
  /\ cmpIntent' = IF cmpIntent = None THEN r ELSE cmpIntent
  /\ cmpRuns' = [cmpRuns EXCEPT ![r] = Reduce(createRunProjection("compensation"),
                                             [Ev("RunAccepted") EXCEPT !.required = Verifiers])]
  /\ cmpAnswered' = [cmpAnswered EXCEPT ![c] = r]
  /\ UNCHANGED <<cmpOriginal, cmpKilled, cmpPc, cmpSent, cmpFaults>>

\* ------------------------------------------------------- #executeCompensation

CmpAppend(r, e) ==
  /\ Reducible(cmpRuns[r], e, cmpRuns[r].lastSequence + 1)
  /\ cmpRuns' = [cmpRuns EXCEPT ![r] = Reduce(@, e)]

CmpGo(r, pc) == cmpPc' = [cmpPc EXCEPT ![r] = pc]

CmpFail(r) == CmpAppend(r, Ev("RunFailed")) /\ CmpGo(r, None)

CmpQuiet == UNCHANGED <<cmpOriginal, cmpKilled, cmpIntent, cmpAnswered, cmpSent, cmpFaults>>

\* Only an accepted run is executed: a suspended one is reported parked, and an
\* interrupted one is refused at every later execute.
CmpStartable(r) == cmpRuns[r] # None /\ cmpRuns[r].status = "accepted"

CmpExecute(r) ==
  /\ cmpPc[r] = None /\ CmpStartable(r) /\ ~cmpKilled
  /\ CmpGo(r, "start") /\ CmpQuiet /\ UNCHANGED cmpRuns

CmpStart(r) ==
  /\ cmpPc[r] = "start"
  /\ CmpAppend(r, Ev("ExecutionStarted")) /\ CmpGo(r, "request") /\ CmpQuiet

CmpRequested(r) ==
  /\ cmpPc[r] = "request"
  /\ CmpAppend(r, Ev("CompensationRequested")) /\ CmpGo(r, "resolve") /\ CmpQuiet

CmpResolve(r) ==
  /\ cmpPc[r] = "resolve"
  /\ \/ CmpAppend(r, Ev("ToolCallRequested")) /\ CmpGo(r, "policy")
     \/ CmpFail(r)
  /\ CmpQuiet

\* A compensation is executed only when policy allows it outright; no gate is opened.
CmpPolicy(r) ==
  /\ cmpPc[r] = "policy"
  /\ \/ CmpGo(r, "effect") /\ UNCHANGED cmpRuns
     \/ CmpFail(r)
  /\ CmpQuiet

\* #executeWriteEffect: acknowledged, failed before dispatch or parked as uncertain.
CmpEffect(r) ==
  /\ cmpPc[r] = "effect"
  /\ \/ /\ cmpSent' = [cmpSent EXCEPT ![r] = @ + 1]
        /\ CmpGo(r, "result") /\ UNCHANGED cmpRuns
     \/ CmpFail(r) /\ UNCHANGED cmpSent
  /\ UNCHANGED <<cmpOriginal, cmpKilled, cmpIntent, cmpAnswered, cmpFaults>>

\* mutant: an uncertain outcome is dispatched again
MutCmpResult(r) ==
  /\ cmpPc[r] = "result"
  /\ \/ CmpAppend(r, Ev("ToolCallCompleted")) /\ CmpGo(r, "artifact")
     \/ UNCHANGED cmpRuns /\ CmpGo(r, "effect")
  /\ CmpQuiet

CmpResult(r) ==
  /\ cmpPc[r] = "result"
  /\ \/ CmpAppend(r, Ev("ToolCallCompleted")) /\ CmpGo(r, "artifact")
     \/ CmpAppend(r, EvSuspended("running", None)) /\ CmpGo(r, None)
  /\ CmpQuiet

\* #finalize without a checkpoint: artifact, verification, completion.
CmpArtifact(r) ==
  /\ cmpPc[r] = "artifact"
  /\ CmpAppend(r, Ev("ArtifactProduced")) /\ CmpGo(r, "finalize") /\ CmpQuiet

CmpFinalize(r) ==
  /\ cmpPc[r] = "finalize"
  /\ \/ /\ cmpRuns[r].status = "running"
        /\ CmpAppend(r, Ev("VerificationStarted")) /\ UNCHANGED cmpPc
     \/ /\ cmpRuns[r].status = "verifying"
        /\ \E v \in cmpRuns[r].required \ cmpRuns[r].passed :
             \/ CmpAppend(r, EvVerified(v, "pass")) /\ UNCHANGED cmpPc
             \/ CmpFail(r)
     \/ /\ cmpRuns[r].status = "verifying"
        /\ CmpAppend(r, Ev("RunCompleted")) /\ CmpGo(r, None)
  /\ CmpQuiet

\* cancel: the run ends at once, its execution finds out later.
CmpCancel(r) ==
  /\ cmpRuns[r] # None /\ cmpRuns[r].status \notin TerminalStatuses
  /\ CmpAppend(r, Ev("RunCancelled"))
  /\ CmpQuiet /\ UNCHANGED cmpPc

\* The execution's signal is aborted: a run that has not ended is cancelled.
CmpAbort(r) ==
  /\ cmpPc[r] # None
  /\ IF cmpRuns[r].status \in TerminalStatuses THEN UNCHANGED cmpRuns
     ELSE CmpAppend(r, Ev("RunCancelled"))
  /\ CmpGo(r, None) /\ CmpQuiet

CmpCrash(r) ==
  /\ cmpPc[r] # None /\ cmpFaults < CmpMaxFaults
  /\ CmpGo(r, None) /\ cmpFaults' = cmpFaults + 1
  /\ UNCHANGED <<cmpOriginal, cmpKilled, cmpIntent, cmpRuns, cmpAnswered, cmpSent>>

CmpStep(r) ==
  \/ CmpExecute(r) \/ CmpStart(r) \/ CmpRequested(r) \/ CmpResolve(r) \/ CmpPolicy(r)
  \/ CmpEffect(r) \/ CmpResult(r) \/ CmpArtifact(r) \/ CmpFinalize(r) \/ CmpCancel(r) \/ CmpAbort(r)

CmpNext ==
  \/ CmpOriginalEnds \/ CmpKill
  \/ \E c \in CmpCommands, r \in CmpRuns : CmpRequest(c, r)
  \/ \E r \in CmpRuns : CmpStep(r) \/ CmpCrash(r)

CmpSpec == CmpInit /\ [][CmpNext]_cmpVars

\* ---------------------------------------------------------------- properties

\* However many operators ask, however often their commands are sent again and wherever
\* executions crash, an effect is compensated by at most one call to the outside.
CompensatedOnce ==
  \A r, q \in CmpRuns :
    /\ cmpSent[r] <= 1
    /\ cmpSent[r] > 0 /\ cmpSent[q] > 0 => r = q

\* A compensation run exists only for an effect that was acknowledged, under the intent
\* that names it, and a command that was answered names that run.
CompensationBound ==
  /\ \A r \in CmpRuns : cmpRuns[r] # None => cmpOriginal = "acknowledged" /\ cmpIntent = r
  /\ \A c \in CmpCommands : cmpAnswered[c] # None => cmpAnswered[c] = cmpIntent

\* Operators, retries and crashes together compensate an effect at most once, and only one
\* that was acknowledged, under its intent.
CompensationSafe == CompensatedOnce /\ CompensationBound
=============================================================================
