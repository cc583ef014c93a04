-------------------------- MODULE ProtectedRecords --------------------------
(***************************************************************************)
(* The protected record stores of store-memory and store-postgres: work    *)
(* orders, input submissions, context snapshots, artifacts, evidence       *)
(* records and acknowledged effect results, for one record id.  Writers    *)
(* put contents under the id concurrently; retention deletes it and tells  *)
(* the host.  A put reads, protects and writes in separate steps: what it  *)
(* read may be stale when it writes.                                       *)
(*                                                                         *)
(* Protection is AES-GCM: the registry hands out every nonce of a key at   *)
(* most once and counts the key's invocations against a ceiling.           *)
(***************************************************************************)
EXTENDS Naturals, Sequences, FiniteSets

CONSTANTS
  RecWriters,
  RecContents,
  RecLastKey,       \* bound: the host rotates through keys 1..RecLastKey
  RecNonces,        \* what the nonce generator may hand out
  RecCeilings,      \* invocation ceilings processes are configured with
  RecMaxAttempts,   \* maxNonceAttempts
  RecLastTime,      \* bound: the last clock reading
  RecMaxDeletions   \* bound: deletions of the record

ASSUME RecAssumption ==
  /\ {RecLastKey, RecMaxAttempts, RecLastTime, RecMaxDeletions} \cup RecCeilings \subseteq Nat \ {0}
  /\ "none" \notin RecContents

RecKeys == 1..RecLastKey

RecKinds == {"order", "artifact", "input", "context", "evidence", "result"}

VARIABLES
  recKind, recStore, recSensitive,  \* which store this is, fixed
  recExpiry,      \* when each content expires
  recCeiling,     \* the ceiling each writer's process is configured with
  recNow,
  recRow,         \* the stored content, or "none"
  recPut,         \* what each writer puts
  recPc,          \* the phases each writer's put has left
  recKey,         \* the key each writer's put protects with, 0 before it asked for one
  recTries,       \* nonce attempts of the put
  recAnswer,      \* "none", "ok", "conflict" or "rejected", by writer
  recAcked,       \* writers answered "ok" since the record was last deleted
  recCurrent,     \* the host's current key
  recRegistry,    \* the registry's row of each key: [ceiling, count, nonces]
  recCiphers,     \* ciphertexts made: [serial, key, nonce]
  recDeleted, recPending, recNotified  \* deletions, onDelete calls to make, made

recFixed == <<recKind, recStore, recSensitive, recExpiry, recCeiling>>
recKeyVars == <<recCurrent, recRegistry, recCiphers>>
recRetention == <<recDeleted, recPending, recNotified>>
recWriter == <<recPut, recPc, recKey, recTries, recAnswer, recAcked>>
recVars == <<recFixed, recNow, recRow, recWriter, recKeyVars, recRetention>>

RecNever == RecLastTime + 1

RecInit ==
  /\ recKind \in RecKinds /\ recStore \in {"memory", "postgres"} /\ recSensitive \in BOOLEAN
  /\ recExpiry \in {[c \in RecContents |-> 1], [c \in RecContents |-> RecNever]}
  /\ recCeiling \in [RecWriters -> RecCeilings]
  /\ recNow = 0 /\ recRow = "none"
  /\ recPut = [w \in RecWriters |-> "none"]
  /\ recPc = [w \in RecWriters |-> <<>>]
  /\ recKey = [w \in RecWriters |-> 0]
  /\ recTries = [w \in RecWriters |-> 0]
  /\ recAnswer = [w \in RecWriters |-> "none"]
  /\ recAcked = {}
  /\ recCurrent = 1
  /\ recRegistry = [k \in RecKeys |-> [ceiling |-> 0, count |-> 0, nonces |-> {}]]
  /\ recCiphers = {}
  /\ recDeleted = 0 /\ recPending = 0 /\ recNotified = 0

RecTick ==
  /\ recNow < RecLastTime /\ recNow' = recNow + 1
  /\ UNCHANGED <<recFixed, recRow, recWriter, recKeyVars, recRetention>>

RecExpired == recRow # "none" /\ recExpiry[recRow] <= recNow

\* ------------------------------------------------------------------------- put

\* The phases of a put.  Values of inputs, contexts and results arrive protected: their
\* caller protects first.  A memory store that need not protect reads and writes without
\* giving up control.
RecOrderPut == <<"check", "protect", "insert">>
RecArtifactPut == IF recSensitive THEN <<"check", "protect", "insert">> ELSE <<"check", "insert">>
RecInputPut == <<"protect", "insert">>
RecContextPut == <<"protect", "insert">>
RecEvidencePut == <<"insert">>
RecResultPut == <<"protect", "check", "insert">>

RecMemoryOrderPut == IF recSensitive THEN <<"check", "protect", "set">> ELSE <<"put">>
RecMemoryArtifactPut == IF recSensitive THEN <<"check", "protect", "set">> ELSE <<"put">>
RecMemoryInputPut == <<"protect", "put">>
RecMemoryContextPut == <<"protect", "put">>
RecMemoryEvidencePut == <<"put">>
RecMemoryResultPut == <<"protect", "put">>

RecPhases ==
  IF recStore = "postgres"
  THEN CASE recKind = "order"    -> RecOrderPut
         [] recKind = "artifact" -> RecArtifactPut
         [] recKind = "input"    -> RecInputPut
         [] recKind = "context"  -> RecContextPut
         [] recKind = "evidence" -> RecEvidencePut
         [] recKind = "result"   -> RecResultPut
  ELSE CASE recKind = "order"    -> RecMemoryOrderPut
         [] recKind = "artifact" -> RecMemoryArtifactPut
         [] recKind = "input"    -> RecMemoryInputPut
         [] recKind = "context"  -> RecMemoryContextPut
         [] recKind = "evidence" -> RecMemoryEvidencePut
         [] recKind = "result"   -> RecMemoryResultPut

RecBegin(w, c) ==
  /\ recAnswer[w] = "none" /\ recPc[w] = <<>>
  /\ recPut' = [recPut EXCEPT ![w] = c]
  /\ recPc' = [recPc EXCEPT ![w] = RecPhases]
  /\ recTries' = [recTries EXCEPT ![w] = 0]
  /\ UNCHANGED <<recFixed, recNow, recRow, recKey, recAnswer, recAcked, recKeyVars, recRetention>>

RecAt(w, phase) == recPc[w] # <<>> /\ Head(recPc[w]) = phase

RecAnswers(w, a) ==
  /\ recAnswer' = [recAnswer EXCEPT ![w] = a]
  /\ recPc' = [recPc EXCEPT ![w] = <<>>]
  /\ recAcked' = IF a = "ok" THEN recAcked \cup {w} ELSE recAcked

RecGoesOn(w) == recPc' = [recPc EXCEPT ![w] = Tail(@)] /\ UNCHANGED <<recAnswer, recAcked>>

RecSame(w) == recRow = recPut[w]

\* What a put finds: PostgreSQL's artifact store reads through get, which hides a record
\* that is expired; the others read the row.
RecSeen == IF recStore = "postgres" /\ recKind = "artifact" /\ RecExpired THEN "none" ELSE recRow

RecCheck(w) ==
  /\ RecAt(w, "check")
  /\ CASE RecSeen = "none" -> RecGoesOn(w)
       [] OTHER            -> RecAnswers(w, IF RecSame(w) THEN "ok" ELSE "conflict")
  /\ UNCHANGED <<recFixed, recNow, recRow, recPut, recKey, recTries, recKeyVars, recRetention>>

MutRecInsert(w) ==  \* mutant: ON CONFLICT DO UPDATE
  /\ RecAt(w, "insert")
  /\ recRow' = recPut[w] /\ RecAnswers(w, "ok")
  /\ UNCHANGED <<recFixed, recNow, recPut, recKey, recTries, recKeyVars, recRetention>>

\* INSERT ... ON CONFLICT DO NOTHING, and a look at the row when nothing was inserted.
\* The look is a statement of its own: it may find the row deleted.
RecInsert(w) ==
  /\ RecAt(w, "insert")
  /\ \/ recRow = "none" /\ recRow' = recPut[w] /\ RecAnswers(w, "ok")
     \/ /\ recRow # "none" /\ UNCHANGED recRow
        /\ recPc' = [recPc EXCEPT ![w] = <<"compare">>] /\ UNCHANGED <<recAnswer, recAcked>>
  /\ UNCHANGED <<recFixed, recNow, recPut, recKey, recTries, recKeyVars, recRetention>>

RecCompare(w) ==
  /\ RecAt(w, "compare")
  /\ RecAnswers(w, IF RecSeen = recPut[w] THEN "ok" ELSE "conflict")
  /\ UNCHANGED <<recFixed, recNow, recRow, recPut, recKey, recTries, recKeyVars, recRetention>>

\* A memory store puts in one step: the same content again is fine, another conflicts.
RecMemoryPut(w) ==
  /\ RecAt(w, "put")
  /\ recRow' = IF recRow = "none" THEN recPut[w] ELSE recRow
  /\ RecAnswers(w, IF recRow \in {"none", recPut[w]} THEN "ok" ELSE "conflict")
  /\ UNCHANGED <<recFixed, recNow, recPut, recKey, recTries, recKeyVars, recRetention>>

\* The memory stores of sensitive work orders and artifacts write what they protected,
\* whatever was written while they did.
RecSet(w) ==
  /\ RecAt(w, "set")
  /\ recRow' = recPut[w] /\ RecAnswers(w, "ok")
  /\ UNCHANGED <<recFixed, recNow, recPut, recKey, recTries, recKeyVars, recRetention>>

\* ------------------------------------------------------------------ protection

RecRotate ==
  /\ recCurrent < RecLastKey /\ recCurrent' = recCurrent + 1
  /\ UNCHANGED <<recFixed, recNow, recRow, recWriter, recRegistry, recCiphers, recRetention>>

RecCollides(row, n) == n \in row.nonces

\* The first process to use a key fixes its ceiling; one with another ceiling is refused.
RecRoom(row, w) == row.count < recCeiling[w]

RecFits(row, w) == row.ceiling \in {0, recCeiling[w]}

\* protect asks the host for its current key once: the attempts of a put keep that key,
\* also when the host rotates meanwhile.
RecChooseKey(w) ==
  /\ RecAt(w, "protect") /\ recKey[w] = 0
  /\ recKey' = [recKey EXCEPT ![w] = recCurrent]
  /\ UNCHANGED <<recFixed, recNow, recRow, recPut, recPc, recTries, recAnswer, recAcked,
                 recKeyVars, recRetention>>

\* reserve and, when the nonce is the writer's, encrypt.  A collision rolls the count back
\* and is tried again; every other refusal ends the put.
RecProtect(w, n) ==
  LET row == recRegistry[recKey[w]]
      Mine == RecFits(row, w) /\ RecRoom(row, w) /\ recTries[w] < RecMaxAttempts
  IN /\ RecAt(w, "protect") /\ recKey[w] # 0
     /\ \/ /\ ~Mine /\ RecAnswers(w, "rejected")
           /\ recKey' = [recKey EXCEPT ![w] = 0] /\ UNCHANGED <<recTries, recRegistry, recCiphers>>
        \/ /\ Mine /\ RecCollides(row, n)
           /\ recTries' = [recTries EXCEPT ![w] = @ + 1]
           /\ UNCHANGED <<recPc, recKey, recAnswer, recAcked, recRegistry, recCiphers>>
        \/ /\ Mine /\ ~RecCollides(row, n)
           /\ recRegistry' = [recRegistry EXCEPT ![recKey[w]] =
                [ceiling |-> recCeiling[w], count |-> @.count + 1, nonces |-> @.nonces \cup {n}]]
           /\ recCiphers' = recCiphers \cup {[serial |-> row.count, key |-> recKey[w], nonce |-> n]}
           /\ RecGoesOn(w)
           /\ recKey' = [recKey EXCEPT ![w] = 0] /\ UNCHANGED recTries
     /\ UNCHANGED <<recFixed, recNow, recRow, recPut, recCurrent, recRetention>>

\* The process dies with its put, and its caller asks again; what was reserved stays.
RecDies(w) ==
  /\ recPc[w] # <<>>
  /\ recPc' = [recPc EXCEPT ![w] = <<>>] /\ recKey' = [recKey EXCEPT ![w] = 0]
  /\ UNCHANGED <<recFixed, recNow, recRow, recPut, recTries, recAnswer, recAcked, recKeyVars,
                 recRetention>>

\* ------------------------------------------------------------------- retention

\* Evidence records and effect results have no delete and no expiry.
RecDeletable == recKind \notin {"evidence", "result"} /\ recDeleted < RecMaxDeletions

\* DELETE ... RETURNING gives the row to one deleter only.
RecGone == recRow # "none"

RecRemove ==
  /\ recRow' = "none" /\ recAcked' = {}
  /\ recDeleted' = IF recRow = "none" THEN recDeleted ELSE recDeleted + 1
  /\ recPending' = IF RecGone /\ recStore = "postgres" THEN recPending + 1 ELSE recPending
  /\ UNCHANGED <<recFixed, recNow, recPut, recPc, recKey, recTries, recAnswer, recKeyVars,
                 recNotified>>

RecDelete == RecDeletable /\ RecRemove

\* purgeExpiredForTenant of a store, and the operator's PostgresRetentionMaintenance.
RecPurge == RecDeletable /\ (recRow = "none" \/ RecExpired) /\ RecRemove

\* get of a memory store removes the record it finds expired.
RecGetExpired == recStore = "memory" /\ RecDeletable /\ RecExpired /\ RecRemove

RecNotify ==
  /\ recPending > 0
  /\ recPending' = recPending - 1 /\ recNotified' = recNotified + 1
  /\ UNCHANGED <<recFixed, recNow, recRow, recWriter, recKeyVars, recDeleted>>

\* A purger that dies, or whose onDelete throws, makes no more of its calls.
RecForget ==
  /\ recPending > 0 /\ recPending' = 0
  /\ UNCHANGED <<recFixed, recNow, recRow, recWriter, recKeyVars, recDeleted, recNotified>>

RecNext ==
  \/ RecTick \/ RecRotate \/ RecDelete \/ RecPurge \/ RecGetExpired \/ RecNotify \/ RecForget
  \/ \E w \in RecWriters :
       \/ \E c \in RecContents : RecBegin(w, c)
       \/ RecCheck(w) \/ RecInsert(w) \/ RecCompare(w) \/ RecMemoryPut(w) \/ RecSet(w)
       \/ RecDies(w) \/ RecChooseKey(w)
       \/ \E n \in RecNonces : RecProtect(w, n)

RecSpec == RecInit /\ [][RecNext]_recVars

\* ------------------------------------------------------------------ properties

\* The writers that were told their put is stored all put what is stored, until the record
\* is deleted: a put that raced another is answered by comparing with the row.  The memory
\* stores of sensitive work orders and artifacts are the exception: they check before the
\* protector is awaited and write after it (record-stores.ts put, putImmutable, putOnce).
WrittenOnce ==
  ~(recStore = "memory" /\ recKind \in {"order", "artifact"} /\ recSensitive) =>
    \A w \in recAcked : recPut[w] = recRow

\* No two ciphertexts share a key and a nonce, also when keys rotate while a put is tried
\* again and when a process died after its reservation (data-protector.ts protect, reserve).
NonceFresh ==
  \A a, b \in recCiphers : a.key = b.key /\ a.nonce = b.nonce => a.serial = b.serial

\* Processes configured with different ceilings keep a key within the ceiling it started
\* with (data-protector.ts PostgresProtectionNonceRegistry.reserve).
KeyWithinCeiling ==
  \A k \in RecKeys : recRegistry[k].count <= recRegistry[k].ceiling

\* Deleters and purgers that race tell the host of one deletion once; a purger that dies
\* tells of fewer (record-stores.ts purgeExpiredForTenant, retention-maintenance.ts).
ToldOnce == recPending + recNotified <= recDeleted

\* Racing puts, rotations, deletions and crashes: a record has one content, a nonce one
\* ciphertext, a key one ceiling, and a deletion is told of once.
RecordsSound == WrittenOnce /\ NonceFresh /\ KeyWithinCeiling /\ ToldOnce
=============================================================================
