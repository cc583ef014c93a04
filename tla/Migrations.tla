----------------------------- MODULE Migrations -----------------------------
(***************************************************************************)
(* PostgresMigrationManager of store-postgres: processes of different      *)
(* builds migrate one database while applications of older builds still    *)
(* write to it.  A migration is modelled by the tables it creates,         *)
(* replaces and puts under tenant isolation, and by what it refuses.  All  *)
(* the migrations of a call run in one transaction, under an advisory      *)
(* lock; the ledger of applied versions commits with them.                 *)
(***************************************************************************)
EXTENDS Naturals, FiniteSets

CONSTANTS
  MigProcesses,
  MigBuilds,      \* builds: [last, edited], the last version they ship and the ones changed
  MigTargets,     \* versions migrate is asked for
  MigMaxRuns,     \* bound: calls of migrate
  MigMaxRows      \* bound: rows applications write

ASSUME MigAssumption ==
  /\ \A b \in MigBuilds : b.last \in 1..12 /\ b.edited \subseteq 1..b.last
  /\ MigTargets \subseteq 0..12 /\ MigMaxRuns \in Nat /\ MigMaxRows \in Nat
  /\ "none" \notin MigProcesses

VARIABLES
  migLedger,      \* pactmark_schema_migrations: version -> digest; 0 where there is no row
  migTables,      \* the tables there are
  migIsolated,    \* tables with the tenant policy
  migRows,        \* tables that hold rows
  migUnseen,      \* the ones whose row came after the running migration had looked at them
  migLost,        \* tables dropped with a row the migration could have seen
  migLock,        \* the holder of the advisory lock, or "none"
  migProc,        \* by process: its call of migrate
  migRuns, migWritten

migDatabase == <<migLedger, migTables, migIsolated, migRows, migLost>>
migVars == <<migDatabase, migUnseen, migLock, migProc, migRuns, migWritten>>

\* ------------------------------------------------------------- the migrations

MigSkeletons ==
  {"circuit_breakers", "quota_windows", "model_call_reservations", "admission_reservations",
   "active_execution_reservations"}

MigInitialTables ==
  {"run_events", "run_projections", "work_orders", "input_submissions", "context_snapshots",
   "artifacts", "run_leases", "wakeups", "decision_challenges", "decisions", "approvals",
   "capability_grants", "secret_refs", "authorization_reservations",
   "authorization_use_claims", "effects", "commands"} \cup MigSkeletons

MigCommandTables == {"run_transitions"}
MigProtectionTables == {"protection_key_counters", "protection_nonces"}
MigEffectTables == {}
MigDecisionTables == {"capability_grant_use_claims", "decision_gates", "approval_use_claims"}
MigWorkerTables == {"run_work_orders"}
MigEvidenceTables == {"evidence_records", "verification_records", "pattern_records"}
MigResultTables == {"acknowledged_effect_results"}

\* The tables a version creates; 006 creates anew what 001 had created.
MigCreates(v) ==
  CASE v = 1 -> MigInitialTables
    [] v = 2 -> MigCommandTables
    [] v = 3 -> MigProtectionTables
    [] v = 4 -> MigEffectTables
    [] v = 5 -> MigDecisionTables
    [] v = 6 -> MigSkeletons
    [] v = 7 -> MigWorkerTables
    [] v = 8 -> MigEvidenceTables
    [] v = 9 -> MigResultTables
    [] OTHER -> {}

MigDrops(v) == IF v = 6 THEN MigSkeletons ELSE {}

\* The two protection tables have no tenant column.
MigTenantTables(tables) == tables \ MigProtectionTables

\* 011 loops over the tables that have a tenant column when it runs.
MigIsolates(v, tables) == IF v = 11 THEN MigTenantTables(tables) ELSE {}

\* 006 and 007 look at the tables they rebuild first.
MigRefuses(v, rows) ==
  \/ v = 6 /\ rows \cap MigSkeletons # {}
  \/ v = 7 /\ "wakeups" \in rows

MigDigest(build, v) == IF v \in build.edited THEN 2 ELSE 1

\* --------------------------------------------------------------------- migrate

\* A call of migrate: "done" are the versions its transaction applied so far.
MigIdle == [pc |-> "idle", build |-> [last |-> 0, edited |-> {}], target |-> 0, next |-> 0,
            done |-> {}]

MigInit ==
  /\ migLedger = [v \in 1..12 |-> 0]
  /\ migTables = {} /\ migIsolated = {} /\ migRows = {} /\ migUnseen = {} /\ migLost = {}
  /\ migLock = "none"
  /\ migProc = [p \in MigProcesses |-> MigIdle]
  /\ migRuns = 0 /\ migWritten = 0

MigAt(p, pc) == migProc[p].pc = pc

\* ROLLBACK or COMMIT and release: the lock goes with the transaction, and what it had looked at
\* no longer matters.
MigEnds(p) ==
  /\ migProc' = [migProc EXCEPT ![p] = MigIdle]
  /\ migLock' = IF migLock = p THEN "none" ELSE migLock
  /\ migUnseen' = IF migLock = p THEN {} ELSE migUnseen

\* A target the build does not ship is refused before the database is touched.
MigStart(p, build, target) ==
  /\ MigAt(p, "idle") /\ migRuns < MigMaxRuns /\ target <= build.last
  /\ migProc' = [migProc EXCEPT ![p] = [MigIdle EXCEPT !.pc = "bootstrap", !.build = build,
                                                       !.target = target]]
  /\ migRuns' = migRuns + 1
  /\ UNCHANGED <<migDatabase, migUnseen, migLock, migWritten>>

\* CREATE TABLE IF NOT EXISTS runs before the lock: two first migrations may collide on it.
MigBootstrap(p) ==
  /\ MigAt(p, "bootstrap")
  /\ \/ migProc' = [migProc EXCEPT ![p].pc = "lock"] /\ UNCHANGED <<migLock, migUnseen>>
     \/ /\ migTables = {} /\ \E q \in MigProcesses \ {p} : ~MigAt(q, "idle")
        /\ MigEnds(p)
  /\ UNCHANGED <<migDatabase, migRuns, migWritten>>

MigAvailable == migLock = "none"

\* validateAppliedMigrations.
MigValid(build) ==
  \A v \in 1..12 : migLedger[v] # 0 => v <= build.last /\ migLedger[v] = MigDigest(build, v)

\* The lock, the checks on the ledger as it is then; no downgrade.
MigTakeLock(p) ==
  /\ MigAt(p, "lock") /\ MigAvailable
  /\ LET proc == migProc[p]
     IN IF MigValid(proc.build) /\ \A v \in 1..12 : migLedger[v] # 0 => v <= proc.target
        THEN /\ migLock' = p /\ UNCHANGED migUnseen
             /\ migProc' = [migProc EXCEPT ![p].pc = "apply", ![p].next = 1]
        ELSE MigEnds(p)
  /\ UNCHANGED <<migDatabase, migRuns, migWritten>>

\* The preflight of a migration, then its statements: a step each, in the transaction.
MigPreflight(p) ==
  /\ MigAt(p, "apply") /\ migProc[p].next <= migProc[p].target
  /\ LET v == migProc[p].next
     IN IF migLedger[v] # 0
        THEN migProc' = [migProc EXCEPT ![p].next = v + 1] /\ UNCHANGED <<migLock, migUnseen>>
        ELSE IF MigRefuses(v, migRows) THEN MigEnds(p)
        ELSE migProc' = [migProc EXCEPT ![p].pc = "statements"] /\ UNCHANGED <<migLock, migUnseen>>
  /\ UNCHANGED <<migDatabase, migRuns, migWritten>>

\* mutant: the ledger row is written outside the transaction
MutMigRecorded(p) ==
  LET v == migProc[p].next
  IN /\ migProc' = [migProc EXCEPT ![p].pc = "apply", ![p].next = v + 1, ![p].done = @ \cup {v}]
     /\ migLedger' = [migLedger EXCEPT ![v] = MigDigest(migProc[p].build, v)]

\* The ledger row of the migration, in the transaction.
MigRecorded(p) ==
  /\ migProc' = [migProc EXCEPT ![p].pc = "apply", ![p].next = @ + 1,
                                ![p].done = @ \cup {migProc[p].next}]
  /\ UNCHANGED migLedger

\* Any statement may fail; the rows an ALTER TABLE finds make 007 fail like its preflight.
MigStatements(p) ==
  /\ MigAt(p, "statements")
  /\ \/ /\ migProc[p].next = 7 => "wakeups" \notin migRows
        /\ MigRecorded(p) /\ UNCHANGED <<migLock, migUnseen>>
     \/ MigEnds(p) /\ UNCHANGED migLedger
  /\ UNCHANGED <<migTables, migIsolated, migRows, migLost, migRuns, migWritten>>

\* COMMIT: everything shows at once.  Its answer may be lost: the caller then migrates again.
MigCommit(p) ==
  /\ MigAt(p, "apply") /\ migProc[p].next > migProc[p].target
  /\ LET done == migProc[p].done
         dropped == UNION {MigDrops(v) : v \in done}
         created(w) == UNION {MigCreates(v) : v \in {u \in done : u <= w}}
     IN /\ migLedger' = [v \in 1..12 |-> IF v \in done THEN MigDigest(migProc[p].build, v)
                                         ELSE migLedger[v]]
        /\ migTables' = (migTables \ dropped) \cup created(12)
        /\ migIsolated' = migIsolated \cup
             UNION {MigIsolates(v, migTables \cup created(v)) : v \in done}
        /\ migRows' = migRows \ dropped
        /\ migLost' = migLost \cup ((migRows \ migUnseen) \cap dropped)
  /\ MigEnds(p)
  /\ UNCHANGED <<migRuns, migWritten>>

MigCrash(p) ==
  /\ ~MigAt(p, "idle") /\ MigEnds(p)
  /\ UNCHANGED <<migDatabase, migRuns, migWritten>>

\* A running migration has looked at the table and is about to drop it.
MigLooked(t) ==
  \E p \in MigProcesses : MigAt(p, "statements") /\ t \in MigDrops(migProc[p].next)

\* An application writes to a table.  DROP TABLE holds its lock from the statement on, so
\* the row comes before it or waits for the new table.
MigWrite(t) ==
  /\ t \in migTables /\ t \notin migRows /\ migWritten < MigMaxRows
  /\ \A p \in MigProcesses, v \in 1..12 : v \in migProc[p].done => t \notin MigDrops(v)
  /\ migRows' = migRows \cup {t} /\ migWritten' = migWritten + 1
  /\ migUnseen' = IF MigLooked(t) THEN migUnseen \cup {t} ELSE migUnseen
  /\ UNCHANGED <<migLedger, migTables, migIsolated, migLost, migLock, migProc, migRuns>>

MigNext ==
  \/ \E p \in MigProcesses :
       \/ \E build \in MigBuilds, target \in MigTargets : MigStart(p, build, target)
       \/ MigBootstrap(p) \/ MigTakeLock(p) \/ MigPreflight(p) \/ MigStatements(p)
       \/ MigCommit(p) \/ MigCrash(p)
  \/ \E t \in {"wakeups", "quota_windows"} : MigWrite(t)

MigSpec == MigInit /\ [][MigNext]_migVars

\* ------------------------------------------------------------------ properties

\* The tables are those of the versions in the ledger, and these follow one another from
\* 001 on: whoever migrates, fails or dies (migrations.ts migrate, applyMigration).
MigSchemaRecorded ==
  LET applied == {v \in 1..12 : migLedger[v] # 0}
  IN /\ applied = 1..Cardinality(applied)
     /\ migTables = UNION {MigCreates(v) : v \in applied}

\* An applied version stays applied as it was: processes of different builds, some with an
\* edited migration, neither record it again nor take it back (validateAppliedMigrations).
MigLedgerGrows ==
  \A v \in 1..12 : migLedger[v] # 0 => migLedger'[v] = migLedger[v]

\* A row that is there when migration 006 looks at the skeleton tables makes it stop: none is
\* dropped with its table, whoever wrote it, during an earlier failed migration or this one.
\* The look takes no lock, so a row committed between it and the DROP TABLE of the same
\* migration (migUnseen) is dropped with the table; that is left out here.
MigRowsKept == migLost = {}

\* Once 011 is in the ledger every table with a tenant column has the tenant policy,
\* whatever versions came in the same transaction or before it.
MigTenantsIsolated == migLedger[11] # 0 => MigTenantTables(migTables) \subseteq migIsolated

\* Whatever builds migrate at once, fail or die, and whoever writes meanwhile: ledger, tables
\* and tenant policies agree, the ledger only grows, and no row is dropped that was there when
\* the migration looked.
MigrationsSafe ==
  [][MigLedgerGrows /\ (MigSchemaRecorded /\ MigRowsKept /\ MigTenantsIsolated)']_migVars
=============================================================================
