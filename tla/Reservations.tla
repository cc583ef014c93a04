---------------------------- MODULE Reservations ----------------------------
(***************************************************************************)
(* The resource stores of store-memory and store-postgres                  *)
(* (resource-reservations.ts): admission quotas, the active-execution      *)
(* charges of a run and the model-call reservations of a tenant, with a    *)
(* clock, their expiry and the host's reconcileExpired.  One tenant, one   *)
(* quota resource, one run, one model profile.                             *)
(*                                                                         *)
(* An operation is one transaction: PostgreSQL takes an advisory lock on   *)
(* the quota, the run or the profile first, the memory stores run inside   *)
(* one exclusive section.  The exception is the PostgreSQL sweep of active *)
(* executions, which selects its rows without a lock.                      *)
(***************************************************************************)
EXTENDS ReservationRules, FiniteSets, Functions

CONSTANTS
  ResCommands,     \* admission commands
  ResPrincipals,   \* principals that issue them
  ResAmounts,      \* bound: amounts requested
  ResQuota,        \* limit.maximum of the admission quota
  ResBoundaries,   \* boundaries of the run
  ResMaxCharge,    \* maxChargeMs of a boundary
  ResRunMaximum,   \* runMaximumActiveExecutionMs
  ResCalls,        \* model calls of the tenant
  ResCallMaximum,  \* what a call reserves
  ResModelLimit,   \* limit.maximum of the model metric
  ResLastTime      \* bound: the last clock reading

ASSUME ResAssumption ==
  /\ {ResQuota, ResMaxCharge, ResRunMaximum, ResCallMaximum, ResModelLimit, ResLastTime}
       \subseteq Nat \ {0}
  /\ ResAmounts \subseteq Nat \ {0}
  /\ IsFiniteSet(ResCommands) /\ IsFiniteSet(ResBoundaries) /\ IsFiniteSet(ResCalls)

VARIABLES
  resStore,   \* "memory", "postgres" or "controller" (the policy package's own), fixed
  resScope,   \* scope of the quota limit: "tenant" or "principal", fixed
  resNow,
  resRows,    \* admission reservations by command
  resActive,  \* active-execution reservations by boundary
  resCalls,   \* model-call reservations by call
  resSweep    \* boundaries selected by a PostgreSQL sweep under way, or {}

resVars == <<resStore, resScope, resNow, resRows, resActive, resCalls, resSweep>>

ResNoRow == [state |-> NoReservation]

ResInit ==
  /\ resStore \in {"memory", "postgres", "controller"} /\ resScope \in {"tenant", "principal"}
  /\ resStore = "controller" => resScope = "principal"
  /\ resNow = 0
  /\ resRows = [c \in ResCommands |-> ResNoRow]
  /\ resActive = [b \in ResBoundaries |-> [state |-> NoReservation, started |-> 0, charge |-> 0]]
  /\ resCalls = [c \in ResCalls |-> [state |-> NoReservation, expires |-> 0, charge |-> 0]]
  /\ resSweep = {}

ResTick ==
  /\ resNow < ResLastTime /\ resNow' = resNow + 1
  /\ UNCHANGED <<resStore, resScope, resRows, resActive, resCalls, resSweep>>

\* ------------------------------------------------------------ admission quota

ResHeld(rows) == {c \in ResCommands : rows[c].state = "reserved"}

\* The rows of the given commands whose lease is over become expired.
ResExpired(rows, commands) ==
  [c \in ResCommands |->
    IF c \in commands \cap ResHeld(rows) /\ rows[c].expires <= resNow
    THEN [rows[c] EXCEPT !.state = "expired"] ELSE rows[c]]

ResOf(rows, p) == {c \in ResHeld(rows) : rows[c].principal = p}

\* The amounts of the given commands' rows, by command.
ResAmountsOf(rows, commands) == [c \in commands |-> rows[c].amount]

ResUsed(rows, p) ==
  SumFunction(ResAmountsOf(rows, IF resScope = "tenant" THEN ResHeld(rows) ELSE ResOf(rows, p)))

\* The command was admitted before: its reservation is returned, whatever its state.
ResReplayed(rows, c) == rows[c].state # NoReservation

\* MemoryQuotaStore expires everything, then looks for a replay.
ResMemoryReserve == ResExpired(resRows, ResCommands)

\* PostgreSQL looks for a replay first and then expires the rows of the requesting
\* principal only.
ResPostgresReserve(c, p) ==
  IF ResReplayed(resRows, c) THEN resRows ELSE ResExpired(resRows, ResOf(resRows, p))

\* createMemoryAdmissionController leaves the rows alone and does not count the overdue
\* ones, which is what expiring them for the sum alone says.
ResControllerReserve(c) ==
  IF ResReplayed(resRows, c) THEN resRows ELSE ResExpired(resRows, ResCommands)

ResReserve(c, p, a) ==
  LET swept == CASE resStore = "memory"   -> ResMemoryReserve
                 [] resStore = "postgres" -> ResPostgresReserve(c, p)
                 [] OTHER                 -> ResControllerReserve(c)
      admits == ~ResReplayed(swept, c) /\ ResUsed(swept, p) + a <= ResQuota
      kept == IF resStore = "controller" THEN resRows ELSE swept
      row == [state |-> "reserved", principal |-> p, amount |-> a, expires |-> resNow + 1]
  IN /\ resRows' \in
          IF admits
          THEN {[kept EXCEPT ![c] = row]}
          ELSE {kept, resRows}  \* kept by QuotaStore.reserve, rolled back with a command
     /\ UNCHANGED <<resStore, resScope, resNow, resActive, resCalls, resSweep>>

ResRelease(c) ==
  /\ resRows[c].state = "reserved"
  /\ resRows' = [resRows EXCEPT ![c].state = "released"]
  /\ UNCHANGED <<resStore, resScope, resNow, resActive, resCalls, resSweep>>

ResReconcileQuota ==
  /\ resRows' = ResExpired(resRows, ResCommands)
  /\ UNCHANGED <<resStore, resScope, resNow, resActive, resCalls, resSweep>>

\* ------------------------------------------------------ active-execution charges

MutResCharge(a) == IF a.state = NoReservation THEN 0 ELSE a.charge  \* mutant: open ones are free

\* What a reservation counts for: an open or an uncertain one its maximum.
ResCharge(a) ==
  CASE a.state = NoReservation -> 0
    [] a.state = "settled"     -> a.charge
    [] OTHER                   -> ResMaxCharge

ResConsumed(active) == SumFunction([b \in ResBoundaries |-> ResCharge(active[b])])

ResOpenActive(b) ==
  /\ resActive[b].state = NoReservation
  /\ ResConsumed(resActive) + ResMaxCharge <= ResRunMaximum
  /\ resActive' = [resActive EXCEPT ![b] = [state |-> "reserved", started |-> resNow, charge |-> 0]]
  /\ UNCHANGED <<resStore, resScope, resNow, resRows, resCalls, resSweep>>

\* A settlement charges the store's own elapsed time, never more than was reserved.
ResElapsed(b) ==
  IF resNow - resActive[b].started > ResMaxCharge THEN ResMaxCharge
  ELSE resNow - resActive[b].started

ResSettleActive(b) ==
  /\ resActive[b].state = "reserved" /\ ActivePut(resActive[b].state, "settled")
  /\ resActive' = [resActive EXCEPT ![b].state = "settled", ![b].charge = ResElapsed(b)]
  /\ UNCHANGED <<resStore, resScope, resNow, resRows, resCalls, resSweep>>

ResCloseAll(bs) ==
  [b \in ResBoundaries |->
    IF b \in bs /\ resActive[b].state = "reserved"
    THEN [resActive[b] EXCEPT !.state = "closed_uncertain", !.charge = ResMaxCharge]
    ELSE resActive[b]]

\* #withActiveExecution closes what an interruption left.
ResCloseActive(b) ==
  /\ resActive[b].state = "reserved"
  /\ resActive' = ResCloseAll({b})
  /\ UNCHANGED <<resStore, resScope, resNow, resRows, resCalls, resSweep>>

ResOverdue == {b \in ResBoundaries : /\ resActive[b].state = "reserved"
                                     /\ resActive[b].started + ResMaxCharge <= resNow}

ResReconcileMemory ==
  /\ resStore = "memory"
  /\ resActive' = ResCloseAll(ResOverdue)
  /\ UNCHANGED <<resStore, resScope, resNow, resRows, resCalls, resSweep>>

\* PostgresActiveExecutionReservationStore.reconcileExpired: SELECT, then one put per row.
ResSweepSelect ==
  /\ resStore = "postgres" /\ resSweep = {} /\ ResOverdue # {}
  /\ resSweep' = ResOverdue
  /\ UNCHANGED <<resStore, resScope, resNow, resRows, resActive, resCalls>>

\* mutant: the rows are written as they were selected
MutResSweepPuts ==
  resActive' = [b \in ResBoundaries |->
    IF b \in resSweep
    THEN [resActive[b] EXCEPT !.state = "closed_uncertain", !.charge = ResMaxCharge]
    ELSE resActive[b]]

\* A row settled since makes its put conflict, and with it the whole sweep.
ResSweepPuts ==
  resActive' = IF \A b \in resSweep : ActivePut(resActive[b].state, "closed_uncertain")
               THEN ResCloseAll(resSweep) ELSE resActive

ResSweepCommit ==
  /\ resSweep # {} /\ ResSweepPuts
  /\ resSweep' = {}
  /\ UNCHANGED <<resStore, resScope, resNow, resRows, resCalls>>

\* ---------------------------------------------------------- model-call reservations

ResCallCharge(r) ==
  CASE r.state = "settled"                                  -> r.charge
    [] r.state \in {"accepted", "dispatched", "uncertain"} -> ResCallMaximum
    [] OTHER                                                -> 0

ResModelUsed(cs) == SumFunction([c \in ResCalls |-> ResCallCharge(cs[c])])

ResAccept(c) ==
  /\ ModelPut(resCalls[c].state, "accepted") /\ resCalls[c].state = NoReservation
  /\ ResModelUsed(resCalls) + ResCallMaximum <= ResModelLimit
  /\ resCalls' = [resCalls EXCEPT ![c].state = "accepted", ![c].expires = resNow + 1]
  /\ UNCHANGED <<resStore, resScope, resNow, resRows, resActive, resSweep>>

\* Settlements beyond the reserved maximum conflict: charge \in 0..ResCallMaximum.
ResPut(c, state, charge) ==
  /\ resCalls[c].state # state /\ resCalls[c].state # NoReservation
  /\ ModelPut(resCalls[c].state, state)
  /\ resCalls' = [resCalls EXCEPT ![c].state = state, ![c].charge = charge]
  /\ UNCHANGED <<resStore, resScope, resNow, resRows, resActive, resSweep>>

ResCallStep(c) ==
  \/ ResPut(c, "dispatched", 0)
  \/ \E charge \in 0..ResCallMaximum : ResPut(c, "settled", charge)
  \/ ResPut(c, "uncertain", 0)

ResReconcileCalls ==
  /\ resStore = "postgres"
  /\ resCalls' = [c \in ResCalls |->
       IF resCalls[c].expires > resNow THEN resCalls[c]
       ELSE [resCalls[c] EXCEPT !.state = CASE @ = "accepted"   -> "expired"
                                            [] @ = "dispatched" -> "uncertain"
                                            [] OTHER            -> @]]
  /\ UNCHANGED <<resStore, resScope, resNow, resRows, resActive, resSweep>>

\* ------------------------------------------------------------- specification

ResQuotaStep ==
  \/ \E c \in ResCommands, p \in ResPrincipals, a \in ResAmounts : ResReserve(c, p, a)
  \/ \E c \in ResCommands : ResRelease(c)
  \/ ResReconcileQuota

ResActiveStep ==
  \/ \E b \in ResBoundaries : ResOpenActive(b) \/ ResSettleActive(b) \/ ResCloseActive(b)
  \/ ResReconcileMemory \/ ResSweepSelect \/ ResSweepCommit

ResModelStep ==
  \/ \E c \in ResCalls : ResAccept(c) \/ ResCallStep(c)
  \/ ResReconcileCalls

\* The three stores share the clock only.
ResNext == ResTick \/ ResQuotaStep \/ ResActiveStep \/ ResModelStep

ResSpec == ResInit /\ [][ResNext]_resVars

\* ---------------------------------------------------------------- properties

\* Type invariant of the resource stores.
ResTypeOK ==
  /\ resStore \in {"memory", "postgres", "controller"} /\ resScope \in {"tenant", "principal"}
  /\ resRows \in [ResCommands ->
       {ResNoRow} \cup [state : {"reserved", "released", "expired"}, principal : ResPrincipals,
                       amount : ResAmounts, expires : Nat]]
  /\ resActive \in [ResBoundaries ->
       [state : ActiveStates \cup {NoReservation}, started : Nat, charge : 0..ResMaxCharge]]
  /\ resCalls \in [ResCalls ->
       [state : ModelStates \cup {NoReservation}, expires : Nat, charge : 0..ResCallMaximum]]
  /\ resSweep \subseteq ResBoundaries /\ resNow \in 0..ResLastTime

\* What is reserved and not overdue never exceeds the quota of the limit's scope, in any
\* order of reservations, replays, releases and expiries of several principals.
QuotaHeld ==
  LET open == {c \in ResHeld(resRows) : resRows[c].expires > resNow}
  IN \A p \in ResPrincipals :
       SumFunction(ResAmountsOf(resRows, IF resScope = "tenant" THEN open
                                         ELSE {c \in open : resRows[c].principal = p})) <= ResQuota

\* A command is admitted once: a row that was released or ran out is never reserved anew
\* by a replay of its command.
AdmittedOnce ==
  \A c \in ResCommands :
    resRows[c].state \in {"released", "expired"} => resRows'[c] = resRows[c]

\* Whatever is open, interrupted, settled or swept, a run is never charged more than
\* maxActiveExecutionMs.
ActiveBudgetHeld ==
  SumFunction([b \in ResBoundaries |->
                 CASE resActive[b].state = NoReservation -> 0
                   [] resActive[b].state = "settled" -> resActive[b].charge
                   [] OTHER -> ResMaxCharge]) <= ResRunMaximum

\* A charge once settled or closed is final, although a sweep works from rows it selected
\* before: no settled refund is taken back, no uncertain charge is refunded.
ChargeFinal ==
  \A b \in ResBoundaries :
    resActive[b].state \in {"settled", "closed_uncertain"} => resActive'[b] = resActive[b]

\* What model calls were charged, or may still be, stays within the tenant's limit.
ModelLimitHeld ==
  SumFunction([c \in ResCalls |->
                 CASE resCalls[c].state \in {NoReservation, "expired"} -> 0
                   [] resCalls[c].state = "settled" -> resCalls[c].charge
                   [] OTHER -> ResCallMaximum]) <= ResModelLimit

\* No limit is exceeded, whatever is reserved, replayed, settled, swept or overdue: the
\* quota of the scope, the active time of the run, the model limit of the tenant.
LimitsHeld == ResTypeOK /\ QuotaHeld /\ ActiveBudgetHeld /\ ModelLimitHeld

\* What was given back or charged is final: neither a replayed admission nor a sweep that
\* works from rows it selected before opens it again.
ReservationsFinal == [][AdmittedOnce /\ ChargeFinal]_resVars
=============================================================================
