------------------------------ MODULE Evidence ------------------------------
(***************************************************************************)
(* Evidence records: what buildEvidenceRecord demands of the verifications *)
(* and exceptions of a run, and the durable host's builder, which stores   *)
(* the record before the runtime completes the run under its lease.  A     *)
(* digest stands for what it is computed from.                             *)
(***************************************************************************)
EXTENDS Naturals, FiniteSets

CONSTANTS
  EviDefinitions,   \* verifier definitions [id, method, sufficient]
  EviArtifacts,     \* artifact digests; a record is given some of them
  EviWorkers,
  EviLastTime,      \* bound of the clock that stamps createdAt
  EviMaxResults,    \* bound: verifications of a record
  EviMaxExceptions  \* bound: exceptions of a record

ASSUME EviAssumption ==
  EviLastTime \in Nat /\ EviMaxResults \in Nat /\ EviMaxExceptions \in Nat

VARIABLES
  eviInput,         \* the input of buildEvidenceRecord, chosen once
  eviBuilt,         \* "unasked", "built", "invalid" or "required"
  eviTime,
  eviHolder,        \* the worker whose lease is current
  eviHeld,          \* by worker: createdAt of the record it has built, or 0
  eviPut,           \* by worker: TRUE once putImmutable has returned
  eviStored,        \* createdAt of the stored record of the run, or 0
  eviCompleted      \* createdAt of the record RunCompleted was appended for, or 0

eviVars == <<eviInput, eviBuilt, eviTime, eviHolder, eviHeld, eviPut, eviStored, eviCompleted>>

\* ------------------------------------------------------------------ a verification result

\* result: an error finding fails; a model's opinion alone needs review.
EviStatus(definition, errors) ==
  CASE errors -> "fail"
    [] ~errors /\ definition.method = "model" /\ ~definition.sufficient -> "needs_review"
    [] OTHER -> "pass"

EviResults ==
  {[verifier |-> d, artifact |-> a, status |-> EviStatus(d, e)] :
     d \in EviDefinitions, a \in EviArtifacts, e \in BOOLEAN}

\* An exception stands in for one verifier on one artifact; `current`: issued and
\* not expired at createdAt, and repeated in supports and doesNotProve.
EviExceptions == [verifier : EviDefinitions, artifact : EviArtifacts, current : BOOLEAN]

EviAtMost(n, S) == {s \in SUBSET S : Cardinality(s) <= n}

\* ------------------------------------------------------------------ buildEvidenceRecord

\* The results of a run carry the ids its events recorded; the references name
\* the verifiers the caller expects to have been used.
EviInputs ==
  [artifacts : SUBSET EviArtifacts, results : EviAtMost(EviMaxResults, EviResults),
   exceptions : EviAtMost(EviMaxExceptions, EviExceptions), references : SUBSET EviDefinitions,
   required : SUBSET {d.id : d \in EviDefinitions}, high : BOOLEAN, bound : BOOLEAN]

EviUsed(input) == {r.verifier : r \in input.results} \cup {x.verifier : x \in input.exceptions}

EviExcepts(input, x) ==
  /\ x.artifact \in input.artifacts
  /\ x.current
  /\ ~\E r \in input.results : r.artifact = x.artifact /\ r.verifier.id = x.verifier.id

MutEviBound(input) == input.bound /\ EviUsed(input) = input.references

\* Events, artifacts, approvals, results and exceptions belong to this run
\* (`bound` stands for the equalities on tenant, run, digests and events).
EviBound(input) ==
  /\ input.bound
  /\ \A r \in input.results : r.artifact \in input.artifacts
  /\ \A x \in input.exceptions : EviExcepts(input, x)
  /\ EviUsed(input) = input.references

EviHas(input, id, status) == \E r \in input.results : r.verifier.id = id /\ r.status = status
EviExcepted(input, id) == \E x \in input.exceptions : x.verifier.id = id

EviVerified(input) ==
  \A id \in input.required :
    ~EviHas(input, id, "fail") /\ (EviHas(input, id, "pass") \/ EviExcepted(input, id))

EviBacked(input) ==
  input.high => \E r \in input.results :
                  r.status = "pass" /\ r.verifier.method \in {"deterministic", "human"}

EviBuildsRecord(input) ==
  CASE ~EviBound(input) -> "invalid"
    [] EviBound(input) /\ ~(EviVerified(input) /\ EviBacked(input)) -> "required"
    [] OTHER -> "built"

EviAsk ==
  /\ eviBuilt = "unasked"
  /\ eviBuilt' = EviBuildsRecord(eviInput)
  /\ UNCHANGED <<eviInput, eviTime, eviHolder, eviHeld, eviPut, eviStored, eviCompleted>>

\* ------------------------------------------------------------------ the durable builder

\* evidenceBuilder.build: one record id per run, and createdAt from the clock.
EviBuild(w) ==
  /\ eviCompleted = 0 /\ eviHolder = w /\ eviHeld[w] = 0
  /\ eviHeld' = [eviHeld EXCEPT ![w] = eviTime]
  /\ UNCHANGED <<eviInput, eviBuilt, eviTime, eviHolder, eviPut, eviStored, eviCompleted>>

\* insertImmutable: what is stored under the id is this record, after the insert.
EviInserted(record) == eviStored \in {0, record}

\* putImmutable: INSERT ... ON CONFLICT DO NOTHING, then the stored digest is compared;
\* a conflict ends this execution.  A worker that lost its lease still gets here.
EviPutImmutable(w) ==
  /\ eviHeld[w] # 0 /\ ~eviPut[w]
  /\ eviStored' = IF eviStored = 0 THEN eviHeld[w] ELSE eviStored
  /\ \/ EviInserted(eviHeld[w]) /\ eviPut' = [eviPut EXCEPT ![w] = TRUE] /\ UNCHANGED eviHeld
     \/ ~EviInserted(eviHeld[w]) /\ eviHeld' = [eviHeld EXCEPT ![w] = 0] /\ UNCHANGED eviPut
  /\ UNCHANGED <<eviInput, eviBuilt, eviTime, eviHolder, eviCompleted>>

\* The runtime appends RunCompleted under the lease, or stops without it.
EviComplete(w) ==
  /\ eviPut[w]
  /\ eviCompleted' = IF eviHolder = w /\ eviCompleted = 0 THEN eviHeld[w] ELSE eviCompleted
  /\ eviHeld' = [eviHeld EXCEPT ![w] = 0]
  /\ eviPut' = [eviPut EXCEPT ![w] = FALSE]
  /\ UNCHANGED <<eviInput, eviBuilt, eviTime, eviHolder, eviStored>>

\* The process dies anywhere in between; what it put stays.
EviCrash(w) ==
  /\ eviHeld[w] # 0
  /\ eviHeld' = [eviHeld EXCEPT ![w] = 0]
  /\ eviPut' = [eviPut EXCEPT ![w] = FALSE]
  /\ UNCHANGED <<eviInput, eviBuilt, eviTime, eviHolder, eviStored, eviCompleted>>

\* The lease runs out and another worker takes the run.
EviTakeOver(w) ==
  /\ eviHolder # w
  /\ eviHolder' = w
  /\ UNCHANGED <<eviInput, eviBuilt, eviTime, eviHeld, eviPut, eviStored, eviCompleted>>

EviTick ==
  /\ eviTime < EviLastTime
  /\ eviTime' = eviTime + 1
  /\ UNCHANGED <<eviInput, eviBuilt, eviHolder, eviHeld, eviPut, eviStored, eviCompleted>>

EviDurableStep ==
  \/ EviTick
  \/ \E w \in EviWorkers :
       EviBuild(w) \/ EviPutImmutable(w) \/ EviComplete(w) \/ EviCrash(w) \/ EviTakeOver(w)

EviInitDurable ==
  /\ eviTime = 1
  /\ eviHolder \in EviWorkers
  /\ eviHeld = [w \in EviWorkers |-> 0]
  /\ eviPut = [w \in EviWorkers |-> FALSE]
  /\ eviStored = 0 /\ eviCompleted = 0

EviInit == eviInput \in EviInputs /\ eviBuilt = "unasked" /\ EviInitDurable

EviSpec == EviInit /\ [][EviAsk \/ EviDurableStep]_eviVars

\* ------------------------------------------------------------------ properties

\* The reducer's condition on RunCompleted for the events the results came from.
EviReducerSatisfied(input) ==
  \A id \in input.required : EviHas(input, id, "pass") \/ EviExcepted(input, id)

(* A record is built only for a run the reducer lets complete; no required     *)
(* verifier has failed on any artifact it names; and when it names a single    *)
(* artifact, as the runtime's do, every required verifier has passed that very *)
(* artifact or is excepted for it (records.ts, the checks of                   *)
(* buildEvidenceRecord taken together against the reducer's own).              *)
EviSupported ==
  eviBuilt = "built" =>
    /\ EviReducerSatisfied(eviInput)
    /\ \A r \in eviInput.results : r.status = "fail" => r.verifier.id \notin eviInput.required
    /\ \A a \in EviArtifacts : eviInput.artifacts = {a} =>
         \A id \in eviInput.required :
           \/ \E r \in eviInput.results :
                r.verifier.id = id /\ r.artifact = a /\ r.status = "pass"
           \/ \E x \in eviInput.exceptions : x.verifier.id = id /\ x.artifact = a

(* Whatever crashes, lease changes and repeated builds came before, the record *)
(* a completed run was completed for is the record stored under its id.        *)
EviNamesStored == eviCompleted # 0 => eviStored = eviCompleted

(* A run's evidence supports its completion: it is built only from verdicts    *)
(* that cover the artifact, and the completed run names the record that is     *)
(* stored.                                                                     *)
EvidenceSound == EviSupported /\ EviNamesStored
=============================================================================
