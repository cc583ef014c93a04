------------------------------ MODULE RunLease ------------------------------
(***************************************************************************)
(* The lease of one run: MemoryRunLeaseStore and PostgresRunLeaseStore     *)
(* (acquire, renew, release, assertActive), and the writes they fence:     *)
(* appendFenced of the memory event store, one synchronous step, and the   *)
(* PostgreSQL transactions that check the lease row FOR UPDATE and commit  *)
(* later (appendInternal, #assertTransitionFence).                         *)
(*                                                                         *)
(* Time is what is left of the lease: expires_at > clock_timestamp() is    *)
(* ttl > 0, and Tick lets it run down.  A lease id is unique per fencing   *)
(* token, so the token stands for both.                                    *)
(***************************************************************************)
EXTENDS Integers, Sequences

CONSTANTS
  Workers,    \* execute calls that want the run
  Nobody,
  TTL,        \* lifetime of a lease, in ticks
  MaxToken,   \* bound: leases granted
  MaxWrites   \* bound: fenced writes

ASSUME NobodyIsNoWorker == Nobody \notin Workers
ASSUME LeaseBounds == TTL \in Nat \ {0} /\ MaxToken \in Nat /\ MaxWrites \in Nat

VARIABLES
  backend,  \* "memory" or "postgres", fixed
  row,      \* the stored lease
  session,  \* session[w]: token of the lease worker w believes it holds, 0 without one
  lock,     \* postgres: the worker whose open transaction holds the row lock, or Nobody
  writes    \* tokens of the fenced writes, in commit order

leaseVars == <<backend, row, session, lock, writes>>

LeaseStates == {"none", "active", "released", "expired"}

LeaseInit ==
  /\ backend \in {"memory", "postgres"}
  /\ row = [token |-> 0, holder |-> Nobody, ttl |-> 0, state |-> "none"]
  /\ session = [w \in Workers |-> 0]
  /\ lock = Nobody
  /\ writes = <<>>

Active == row.state = "active" /\ row.ttl > 0

sameLease(w) == session[w] # 0 /\ session[w] = row.token

assertActive(w) == sameLease(w) /\ Active

Drop(w) == session' = [session EXCEPT ![w] = 0]

\* mutant: a lease past half its life is taken over
MutAvailable == row.state # "active" \/ row.ttl < TTL

\* A lease may be granted: none is stored, or it ended, or it ran out.
Available == ~Active

\* mutant: another transaction's lock on the lease row is not waited for
MutUnlocked == TRUE

\* An UPDATE of the lease row waits for the transaction that locked it.
Unlocked == lock = Nobody

\* mutant: the token restarts once a lease was released
MutNextToken == IF row.state = "released" THEN 1 ELSE row.token + 1

NextToken == row.token + 1

\* The answer may be lost: the lease is taken and nobody knows.
acquire(w) ==
  /\ session[w] = 0 /\ Unlocked /\ Available /\ row.token < MaxToken
  /\ row' = [token |-> NextToken, holder |-> w, ttl |-> TTL, state |-> "active"]
  /\ session' \in {session, [session EXCEPT ![w] = NextToken]}
  /\ UNCHANGED <<backend, lock, writes>>

Renewed == [row EXCEPT !.ttl = TTL]

\* A renewal that fails ends the call; the memory store marks what it finds expired.
renew(w) ==
  /\ session[w] # 0 /\ Unlocked
  /\ IF assertActive(w)
     THEN row' = Renewed /\ UNCHANGED session
     ELSE /\ row' = IF backend = "memory" /\ sameLease(w) /\ row.state = "active"
                    THEN [row EXCEPT !.state = "expired"] ELSE row
          /\ Drop(w)
  /\ UNCHANGED <<backend, lock, writes>>

\* The memory store releases a lease that ran out unnoticed, PostgreSQL refuses.
release(w) ==
  /\ session[w] # 0 /\ Unlocked
  /\ row' = IF sameLease(w) /\ row.state = "active" /\ (backend = "memory" \/ row.ttl > 0)
            THEN [row EXCEPT !.state = "released"] ELSE row
  /\ Drop(w)
  /\ UNCHANGED <<backend, lock, writes>>

\* MemoryEventStore.appendFenced.
appendFenced(w) ==
  /\ backend = "memory" /\ session[w] # 0 /\ Len(writes) < MaxWrites
  /\ IF assertActive(w)
     THEN writes' = Append(writes, session[w]) /\ UNCHANGED session
     ELSE Drop(w) /\ UNCHANGED writes
  /\ UNCHANGED <<backend, row, lock>>

\* PostgreSQL: the fence is checked and the lease row stays locked.
assertTransitionFence(w) ==
  /\ backend = "postgres" /\ session[w] # 0 /\ Unlocked
  /\ IF assertActive(w)
     THEN lock' = w /\ UNCHANGED session
     ELSE Drop(w) /\ UNCHANGED lock
  /\ UNCHANGED <<backend, row, writes>>

\* The transaction commits, however long it took.
Commit(w) ==
  /\ lock = w /\ Len(writes) < MaxWrites
  /\ writes' = Append(writes, session[w])
  /\ lock' = Nobody
  /\ UNCHANGED <<backend, row, session>>

\* The process dies or loses its connection: an open transaction rolls back.
Crash(w) ==
  /\ session[w] # 0
  /\ Drop(w)
  /\ lock' = IF lock = w THEN Nobody ELSE lock
  /\ UNCHANGED <<backend, row, writes>>

Tick ==
  /\ row.ttl > 0
  /\ row' = [row EXCEPT !.ttl = @ - 1]
  /\ UNCHANGED <<backend, session, lock, writes>>

LeaseNext ==
  \/ \E w \in Workers :
       acquire(w) \/ renew(w) \/ release(w) \/ appendFenced(w) \/ assertTransitionFence(w)
       \/ Commit(w) \/ Crash(w)
  \/ Tick

LeaseSpec == LeaseInit /\ [][LeaseNext]_leaseVars

-----------------------------------------------------------------------------
(* Properties *)

LeaseTypeOK ==
  /\ backend \in {"memory", "postgres"}
  /\ row \in [token : Nat, holder : Workers \cup {Nobody}, ttl : 0..TTL, state : LeaseStates]
  /\ session \in [Workers -> Nat]
  /\ lock \in Workers \cup {Nobody}
  /\ writes \in Seq(Nat)

\* At most one call holds the lease the store calls active, whatever tokens the
\* others still carry (sameLease compares them).
OneSession == \A v, w \in Workers : assertActive(v) /\ assertActive(w) => v = w

\* Fencing: once a write of a later lease is in, no write of an earlier one
\* follows, however long the earlier transaction was open (appendFenced,
\* appendInternal, #assertTransitionFence).
FencedWritesOrdered ==
  \A i, j \in 1..Len(writes) : i <= j => writes[i] <= writes[j]

\* The lease is held by one caller, and the order of leases is the order of their writes.
LeaseSafe == LeaseTypeOK /\ OneSession /\ FencedWritesOrdered

\* A fenced write lands before a newer lease is granted (store-memory README: "a
\* transition that must prove a currently active memory lease"): the row lock
\* keeps the lease from changing hands between the check and the commit.
WrittenUnderLatestLease ==
  [][writes' # writes => writes'[Len(writes')] = row.token]_leaseVars

\* The holder the lock abstraction sees.
Owner == IF Active THEN row.holder ELSE Nobody

Lock == INSTANCE RunLock WITH owner <- Owner, Holders <- Workers

\* The lease store implements the lock: no takeover of an active lease.
ImplementsLock == Lock!Spec
=============================================================================
