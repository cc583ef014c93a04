---------------------------- MODULE EffectLedger ----------------------------
(***************************************************************************)
(* The effect ledger and the units of work that write it: authorization    *)
(* reservations and effect records put inside a transaction, on PostgreSQL *)
(* by concurrent transactions with row locks and unique keys, in memory by *)
(* one transaction at a time that is undone from a snapshot.  A digest     *)
(* stands for the identity it is computed from.                            *)
(***************************************************************************)
EXTENDS Naturals, FiniteSets

CONSTANTS
  LedClients,
  LedReservations,  \* records [id, key, run, effectKey, state]
  LedIdentities,    \* records [id, run, effectKey, operation, reservation]
  LedMaxBegun,      \* bound: transactions begun
  LedLastTime       \* bound of updatedAt

ASSUME LedAssumption == LedMaxBegun \in Nat /\ LedLastTime \in Nat

VARIABLES
  ledStore,         \* "memory" or "postgres"
  ledReserved,      \* the stored reservations
  ledEffects,       \* the stored effects, [identity, state, updated]
  ledTx,            \* by client: its transaction
  ledBegun,
  ledAcknowledged   \* what clients were told is stored

ledVars == <<ledStore, ledReserved, ledEffects, ledTx, ledBegun, ledAcknowledged>>

LedTransitions ==
  [prepared |-> {"dispatched"}, dispatched |-> {"acknowledged", "unknown"},
   unknown |-> {"needs_reconciliation"}, needs_reconciliation |-> {"acknowledged", "abandoned"},
   acknowledged |-> {"compensated"}, abandoned |-> {}, compensated |-> {}]
LedStates == DOMAIN LedTransitions

LedWork == [identity : LedIdentities, state : LedStates, updated : 1..LedLastTime]

LedIdle == [pc |-> "idle", puts |-> {}, work |-> {}, reservations |-> {}, effects |-> {},
            locks |-> {}, snapshot |-> [reserved |-> {}, effects |-> {}]]

LedInit ==
  /\ ledStore \in {"memory", "postgres"}
  /\ ledReserved = {} /\ ledEffects = {}
  /\ ledTx = [c \in LedClients |-> LedIdle]
  /\ ledBegun = 0
  /\ ledAcknowledged = {}

\* ------------------------------------------------------------------ what a put is answered

LedSameKey(a, b) == a.id = b.id \/ a.key = b.key

\* putAuthorizationReservation: stored once, and never changed.
LedReserves(reserved, reservation) ==
  LET prior == {r \in reserved : LedSameKey(r, reservation)} IN
    IF prior = {} THEN "insert" ELSE IF prior = {reservation} THEN "same" ELSE "conflict"

LedRow(effect) == <<effect.identity.run, effect.identity.id>>

LedSameEffect(a, b) ==
  \/ a.identity.run = b.identity.run /\ (\/ a.identity.id = b.identity.id
                                         \/ a.identity.effectKey = b.identity.effectKey)
  \/ a.identity.operation = b.identity.operation

\* assertEffectAuthorizationBinding.
LedAuthorized(reserved, effect) ==
  \E r \in reserved :
    /\ r.id = effect.identity.reservation /\ r.state \in {"reserved", "consumed"}
    /\ r.run = effect.identity.run /\ r.effectKey = effect.identity.effectKey

\* isEffectTransitionAllowed, for the strategies that dispatch.
LedAllowed(from, to) == to \in LedTransitions[from]

\* putEffectRecord.
LedPuts(reserved, effects, effect) ==
  LET prior == {e \in effects : LedSameEffect(e, effect)} IN
    CASE ~LedAuthorized(reserved, effect) -> "conflict"
      [] LedAuthorized(reserved, effect) /\ prior = {} -> "insert"
      [] LedAuthorized(reserved, effect) /\ prior = {effect} -> "same"
      [] OTHER ->
           IF \E e \in prior :
                /\ prior = {e} /\ e.identity = effect.identity
                /\ LedAllowed(e.state, effect.state) /\ effect.updated >= e.updated
           THEN "update" ELSE "conflict"

LedApplied(effects, effect) == {e \in effects : LedRow(e) # LedRow(effect)} \cup {effect}

\* ------------------------------------------------------------------ transactions

LedAt(c, pc) == ledTx[c].pc = pc
LedGo(c, pc) == ledTx' = [ledTx EXCEPT ![c].pc = pc]

MutLedMayBegin == TRUE  \* mutant: memory transactions overlap

\* #exclusive.
LedMayBegin == ledStore = "memory" => \A c \in LedClients : LedAt(c, "idle")

\* A transition prepares an effect, with its reservation, or moves one on that the client has
\* read before.
LedBegin(c, effect, puts) ==
  /\ LedAt(c, "idle") /\ LedMayBegin /\ ledBegun < LedMaxBegun
  /\ IF puts = {}
     THEN \E e \in ledEffects : e.identity = effect.identity /\ LedAllowed(e.state, effect.state)
     ELSE effect.state = "prepared"
  /\ ledBegun' = ledBegun + 1
  /\ ledTx' = [ledTx EXCEPT ![c] =
       [LedIdle EXCEPT !.pc = IF puts = {} THEN "effect" ELSE "reservation",
                       !.puts = puts, !.work = {effect},
                       !.snapshot = [reserved |-> ledReserved, effects |-> ledEffects]]]
  /\ UNCHANGED <<ledStore, ledReserved, ledEffects, ledAcknowledged>>

\* A put that fails ends the transaction: what it did is undone.
LedUndo(c) ==
  /\ ledTx' = [ledTx EXCEPT ![c] = LedIdle]
  /\ IF ledStore = "memory"
     THEN /\ ledReserved' = ledTx[c].snapshot.reserved
          /\ ledEffects' = ledTx[c].snapshot.effects
     ELSE UNCHANGED <<ledReserved, ledEffects>>
  /\ UNCHANGED <<ledStore, ledBegun, ledAcknowledged>>

\* In memory a put checks and writes in one step.
LedMemoryReserve(c, reservation) ==
  /\ ledStore = "memory" /\ LedAt(c, "reservation") /\ reservation \in ledTx[c].puts
  /\ \/ /\ LedReserves(ledReserved, reservation) # "conflict"
        /\ ledReserved' = ledReserved \cup {reservation}
        /\ LedGo(c, "effect")
        /\ UNCHANGED <<ledStore, ledEffects, ledBegun, ledAcknowledged>>
     \/ LedReserves(ledReserved, reservation) = "conflict" /\ LedUndo(c)

LedMemoryPut(c, effect) ==
  /\ ledStore = "memory" /\ LedAt(c, "effect") /\ effect \in ledTx[c].work
  /\ \/ /\ LedPuts(ledReserved, ledEffects, effect) # "conflict"
        /\ ledEffects' = LedApplied(ledEffects, effect)
        /\ LedGo(c, "commit")
        /\ UNCHANGED <<ledStore, ledReserved, ledBegun, ledAcknowledged>>
     \/ LedPuts(ledReserved, ledEffects, effect) = "conflict" /\ LedUndo(c)

\* FOR UPDATE waits for the rows other transactions have locked.
LedFree(c, rows) == \A d \in LedClients \ {c} : ledTx[d].locks \cap rows = {}

LedHolds(c, rows, pc) ==
  ledTx' = [ledTx EXCEPT ![c].pc = pc, ![c].locks = @ \cup rows]

LedPriorRows(effect) == {LedRow(e) : e \in {e \in ledEffects : LedSameEffect(e, effect)}}

\* The SELECT of putAuthorizationReservation, and its INSERT.
LedReadReservation(c, reservation) ==
  /\ ledStore = "postgres" /\ LedAt(c, "reservation") /\ reservation \in ledTx[c].puts
  /\ LET rows == {<<r.id>> : r \in {r \in ledReserved : LedSameKey(r, reservation)}} IN
       /\ LedFree(c, rows)
       /\ CASE LedReserves(ledReserved, reservation) = "insert" -> LedHolds(c, rows, "reserve")
            [] LedReserves(ledReserved, reservation) = "same" -> LedHolds(c, rows, "effect")
            [] LedReserves(ledReserved, reservation) = "conflict" -> LedGo(c, "fail")
  /\ UNCHANGED <<ledStore, ledReserved, ledEffects, ledBegun, ledAcknowledged>>

\* A unique key waits for the transaction that has inserted it, and fails when that committed.
LedInsertReservation(c, reservation) ==
  /\ ledStore = "postgres" /\ LedAt(c, "reserve") /\ reservation \in ledTx[c].puts
  /\ \A d \in LedClients \ {c} : \A r \in ledTx[d].reservations : ~LedSameKey(r, reservation)
  /\ IF \E r \in ledReserved : LedSameKey(r, reservation) THEN LedGo(c, "fail")
     ELSE ledTx' = [ledTx EXCEPT ![c].pc = "effect", ![c].reservations = {reservation},
                                 ![c].locks = @ \cup {<<reservation.id>>}]
  /\ UNCHANGED <<ledStore, ledReserved, ledEffects, ledBegun, ledAcknowledged>>

\* The two SELECTs of putEffectRecord.
LedReadEffect(c, effect) ==
  /\ ledStore = "postgres" /\ LedAt(c, "effect") /\ effect \in ledTx[c].work
  /\ LET seen == ledReserved \cup ledTx[c].reservations
         rows == {<<r.id>> : r \in {r \in seen : r.id = effect.identity.reservation}}
                   \cup LedPriorRows(effect) IN
       /\ LedFree(c, rows)
       /\ CASE LedPuts(seen, ledEffects, effect) = "insert" -> LedHolds(c, rows, "insert")
            [] LedPuts(seen, ledEffects, effect) = "update" -> LedHolds(c, rows, "update")
            [] LedPuts(seen, ledEffects, effect) = "same" -> LedHolds(c, rows, "commit")
            [] LedPuts(seen, ledEffects, effect) = "conflict" -> LedGo(c, "fail")
  /\ UNCHANGED <<ledStore, ledReserved, ledEffects, ledBegun, ledAcknowledged>>

\* The primary key, the index of effect keys and the one of operation keys.
LedCollides(effects, effect) == \E e \in effects : LedSameEffect(e, effect)

LedInsertEffect(c, effect) ==
  /\ ledStore = "postgres" /\ LedAt(c, "insert") /\ effect \in ledTx[c].work
  /\ \A d \in LedClients \ {c} : ~LedCollides(ledTx[d].effects, effect)
  /\ IF LedCollides(ledEffects, effect) THEN LedGo(c, "fail")
     ELSE ledTx' = [ledTx EXCEPT ![c].pc = "commit", ![c].effects = {effect}]
  /\ UNCHANGED <<ledStore, ledReserved, ledEffects, ledBegun, ledAcknowledged>>

LedUpdateEffect(c, effect) ==
  /\ ledStore = "postgres" /\ LedAt(c, "update") /\ effect \in ledTx[c].work
  /\ ledTx' = [ledTx EXCEPT ![c].pc = "commit", ![c].effects = {effect}]
  /\ UNCHANGED <<ledStore, ledReserved, ledEffects, ledBegun, ledAcknowledged>>

LedCommit(c, effect) ==
  /\ LedAt(c, "commit") /\ effect \in ledTx[c].work
  /\ ledReserved' = ledReserved \cup ledTx[c].reservations
  /\ ledEffects' = IF ledTx[c].effects = {} THEN ledEffects ELSE LedApplied(ledEffects, effect)
  /\ ledAcknowledged' = ledAcknowledged \cup {effect}
  /\ ledTx' = [ledTx EXCEPT ![c] = LedIdle]
  /\ UNCHANGED <<ledStore, ledBegun>>

\* Something else in the transaction fails, the database ends a deadlock, the client dies.
LedFail(c) == ~LedAt(c, "idle") /\ LedUndo(c)

LedNext ==
  \E c \in LedClients :
    \/ LedFail(c)
    \/ \E effect \in LedWork :
         \/ LedBegin(c, effect, {})
         \/ \E reservation \in LedReservations : LedBegin(c, effect, {reservation})
    \/ \E reservation \in ledTx[c].puts :
         \/ LedMemoryReserve(c, reservation)
         \/ LedReadReservation(c, reservation) \/ LedInsertReservation(c, reservation)
    \/ \E effect \in ledTx[c].work :
         \/ LedMemoryPut(c, effect) \/ LedCommit(c, effect)
         \/ LedReadEffect(c, effect) \/ LedInsertEffect(c, effect) \/ LedUpdateEffect(c, effect)

LedSpec == LedInit /\ [][LedNext]_ledVars

\* ------------------------------------------------------------------ properties

\* Two stored effects never share an identity, an effect key of one run or an operation key,
\* and each rests on a stored reservation made for it, whichever transactions raced.
LedKeysUnique ==
  /\ \A e, f \in ledEffects : LedSameEffect(e, f) => e = f
  /\ \A r, s \in ledReserved : LedSameKey(r, s) => r = s
  /\ \A e \in ledEffects : LedAuthorized(ledReserved, e)

\* A committed effect only moves along EFFECT_TRANSITIONS, with its identity, and never back
\* in time: of two workers that move it from the same state one is refused.
LedMovesOn ==
  ledStore = "postgres" =>
    \A e \in ledEffects : \E f \in ledEffects' :
      /\ f.identity = e.identity
      /\ f = e \/ (LedAllowed(e.state, f.state) /\ f.updated >= e.updated)

\* What a client was told is stored is still there, or has moved on, whatever other
\* transactions were undone meanwhile (#restore puts back whole stores).
LedKept ==
  \A told \in ledAcknowledged : \E e \in ledEffects :
    e.identity = told.identity /\ e.updated >= told.updated

\* The ledger under racing and undone transactions: one row per effect and per key, moved
\* only forwards, and never taken back once a client was told of it.
LedgerSound == [][LedMovesOn /\ (LedKeysUnique /\ LedKept)']_ledVars
=============================================================================
