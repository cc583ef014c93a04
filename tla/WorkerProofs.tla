---------------------------- MODULE WorkerProofs ----------------------------
(***************************************************************************)
(* The lease of a run and the durable worker that takes it, for every set  *)
(* of workers and wake-ups, every lifetime, delay and bound.               *)
(*                                                                         *)
(* RunLease: the lease store is a lock without takeovers, tokens identify  *)
(* sessions, and fenced writes land under the latest lease, in token       *)
(* order.  The inductive invariant adds to the types that no session is    *)
(* ahead of the stored token, that two sessions never carry one token,     *)
(* that an open transaction's session carries the stored token (its row    *)
(* lock keeps the row from being granted again), and that no write is      *)
(* ahead of the token.                                                     *)
(*                                                                         *)
(* WorkerQueue: a claim that has not lapsed is backed by the run's lease,  *)
(* and a wake-up is completed under its last claim only.  A lease id names *)
(* its wake-up, so one lease row cannot back two of them; that, and what a *)
(* worker between two transactions remembers, make the invariant           *)
(* inductive.                                                              *)
(***************************************************************************)
EXTENDS RunLease, WorkerQueue, TLAPS

-----------------------------------------------------------------------------
(* RunLease *)

\* No session's token is ahead of the stored one, and tokens tell sessions apart.
SessionsBehind ==
  /\ \A w \in Workers : session[w] <= row.token
  /\ \A v, w \in Workers : session[v] = session[w] /\ session[v] # 0 => v = w

\* An open transaction, which only PostgreSQL has, belongs to the stored lease.
LockHolderCurrent == lock # Nobody => backend = "postgres" /\ session[lock] = row.token

WritesBehind == \A i \in 1..Len(writes) : writes[i] <= row.token

\* An active lease has a holder.
ActiveHeld == row.state = "active" => row.holder \in Workers

Inv ==
  /\ LeaseTypeOK /\ SessionsBehind /\ LockHolderCurrent /\ WritesBehind /\ ActiveHeld
  /\ FencedWritesOrdered

(* A lease row nobody has acquired satisfies the invariant. *)
LEMMA InitInv == LeaseInit => Inv
  BY NobodyIsNoWorker, LeaseBounds
     DEF LeaseInit, Inv, LeaseTypeOK, SessionsBehind, LockHolderCurrent, WritesBehind, ActiveHeld,
         FencedWritesOrdered, LeaseStates

\* Every step keeps the types.
LEMMA TypeStep == LeaseTypeOK /\ [LeaseNext]_leaseVars => LeaseTypeOK'
  <1> SUFFICES ASSUME LeaseTypeOK, [LeaseNext]_leaseVars PROVE LeaseTypeOK'
    OBVIOUS
  <1> USE NobodyIsNoWorker, LeaseBounds DEF LeaseTypeOK, LeaseStates
  <1>1. ASSUME NEW w \in Workers, acquire(w) PROVE LeaseTypeOK'
    BY <1>1, SMTT(20) DEF acquire, NextToken
  <1>2. ASSUME NEW w \in Workers, renew(w) PROVE LeaseTypeOK'
    <2>1. row'.ttl \in 0..TTL /\ row'.state \in LeaseStates
          /\ row' \in [token : Nat, holder : Workers \cup {Nobody}, ttl : 0..TTL, state : LeaseStates]
      <3>1. row' = row \/ row' = [row EXCEPT !.ttl = TTL] \/ row' = [row EXCEPT !.state = "expired"]
        BY <1>2 DEF renew, Renewed
      <3> QED
        BY <3>1, SMTT(20)
    <2>2. session' \in [Workers -> Nat]
      BY <1>2 DEF renew, Renewed, Drop
    <2> QED
      BY <1>2, <2>1, <2>2 DEF renew, Renewed
  <1>3. ASSUME NEW w \in Workers, release(w) PROVE LeaseTypeOK'
    BY <1>3 DEF release, Drop
  <1>4. ASSUME NEW w \in Workers, appendFenced(w) PROVE LeaseTypeOK'
    <2>1. session[w] \in Nat
      OBVIOUS
    <2>2. writes' \in Seq(Nat)
      <3>1. CASE writes' = writes
        BY <3>1
      <3>2. CASE writes' = Append(writes, session[w])
        BY <2>1, <3>2
      <3> QED
        BY <1>4, <3>1, <3>2 DEF appendFenced
    <2>3. session' \in [Workers -> Nat]
      BY <1>4 DEF appendFenced, Drop
    <2> QED
      BY <1>4, <2>2, <2>3 DEF appendFenced
  <1>5. ASSUME NEW w \in Workers, assertTransitionFence(w) PROVE LeaseTypeOK'
    BY <1>5 DEF assertTransitionFence, Drop
  <1>6. ASSUME NEW w \in Workers, Commit(w) PROVE LeaseTypeOK'
    BY <1>6 DEF Commit
  <1>7. ASSUME NEW w \in Workers, Crash(w) PROVE LeaseTypeOK'
    BY <1>7 DEF Crash, Drop
  <1>8. CASE Tick
    BY <1>8, SMTT(20) DEF Tick
  <1>9. CASE UNCHANGED leaseVars
    BY <1>9 DEF leaseVars
  <1> QED
    BY <1>1, <1>2, <1>3, <1>4, <1>5, <1>6, <1>7, <1>8, <1>9 DEF LeaseNext

\* A step that leaves the writes alone and does not lower the token keeps them
\* behind it and in order.
LEMMA SameWrites ==
  ASSUME Inv, LeaseTypeOK', writes' = writes, row'.token >= row.token
  PROVE  WritesBehind' /\ FencedWritesOrdered'
  BY SMTT(20) DEF Inv, LeaseTypeOK, WritesBehind, FencedWritesOrdered

\* A write under the stored token goes to the end of an ordered sequence.
LEMMA WriteAtToken ==
  ASSUME Inv, LeaseTypeOK', row' = row, writes' = Append(writes, row.token)
  PROVE  WritesBehind' /\ FencedWritesOrdered'
  <1>1. /\ writes \in Seq(Nat) /\ row.token \in Nat
        /\ Len(writes') = Len(writes) + 1
        /\ \A i \in 1..Len(writes) : writes'[i] = writes[i] /\ writes[i] <= row.token
        /\ writes'[Len(writes')] = row.token
    BY DEF Inv, LeaseTypeOK, WritesBehind
  <1>2. \A i \in 1..Len(writes') : i \in 1..Len(writes) \/ i = Len(writes')
    BY <1>1
  <1>3. WritesBehind'
    BY <1>1, <1>2 DEF WritesBehind
  <1>4. ASSUME NEW i \in 1..Len(writes'), NEW j \in 1..Len(writes'), i <= j
        PROVE  writes'[i] <= writes'[j]
    <2>1. CASE j = Len(writes')
      BY <2>1, <1>1, <1>2
    <2>2. CASE j # Len(writes')
      <3>1. i \in 1..Len(writes) /\ j \in 1..Len(writes)
        BY <2>2, <1>1, <1>2, <1>4
      <3> QED
        BY <3>1, <1>1, <1>4 DEF Inv, FencedWritesOrdered
    <2> QED
      BY <2>1, <2>2
  <1> QED
    BY <1>3, <1>4 DEF FencedWritesOrdered

\* A step that keeps the token and at most drops sessions keeps them behind it.
LEMMA SessionsShrink ==
  ASSUME LeaseTypeOK, LeaseTypeOK', SessionsBehind, row'.token = row.token,
         \A v \in Workers : session'[v] = session[v] \/ session'[v] = 0
  PROVE  SessionsBehind'
  <1>1. \A v \in Workers : session[v] \in Nat /\ session'[v] \in Nat
    BY DEF LeaseTypeOK
  <1>2. row.token \in Nat
    BY DEF LeaseTypeOK
  <1>3. \A v \in Workers : session'[v] <= row'.token
    BY <1>1, <1>2 DEF SessionsBehind
  <1>4. ASSUME NEW u \in Workers, NEW v \in Workers, session'[u] = session'[v], session'[u] # 0
        PROVE  u = v
    BY <1>1, <1>4 DEF SessionsBehind
  <1> QED
    BY <1>3, <1>4 DEF SessionsBehind

(* Every step of a session, the clock and the store keeps the invariant. *)
LEMMA InvStep == Inv /\ [LeaseNext]_leaseVars => Inv'
  <1> SUFFICES ASSUME Inv, [LeaseNext]_leaseVars PROVE Inv'
    OBVIOUS
  <1>T. LeaseTypeOK /\ LeaseTypeOK'
    BY TypeStep DEF Inv
  <1> USE <1>T, NobodyIsNoWorker DEF LeaseTypeOK
  <1>1. ASSUME NEW w \in Workers, acquire(w) PROVE Inv'
    <2>1. WritesBehind' /\ FencedWritesOrdered'
      BY <1>1, SameWrites DEF acquire, NextToken
    <2>2. SessionsBehind'
      BY <1>1 DEF acquire, NextToken, Inv, SessionsBehind
    <2>3. LockHolderCurrent' /\ ActiveHeld'
      BY <1>1 DEF acquire, Unlocked, LockHolderCurrent, ActiveHeld
    <2> QED
      BY <2>1, <2>2, <2>3 DEF Inv
  <1>2. ASSUME NEW w \in Workers, renew(w) PROVE Inv'
    <2>1. WritesBehind' /\ FencedWritesOrdered'
      BY <1>2, SameWrites DEF renew, Renewed
    <2>2. /\ row'.token = row.token /\ row'.holder = row.holder
          /\ row'.state = "active" => row.state = "active"
          /\ lock = Nobody /\ lock' = lock
      BY <1>2 DEF renew, Renewed, Unlocked
    <2>3. \A v \in Workers : session'[v] = session[v] \/ session'[v] = 0
      BY <1>2 DEF renew, Renewed, Drop
    <2>4. SessionsBehind'
      BY <2>2, <2>3, SessionsShrink DEF Inv
    <2> QED
      BY <2>1, <2>2, <2>4 DEF Inv, LockHolderCurrent, ActiveHeld
  <1>3. ASSUME NEW w \in Workers, release(w) PROVE Inv'
    <2>1. WritesBehind' /\ FencedWritesOrdered'
      BY <1>3, SameWrites DEF release
    <2> QED
      BY <1>3, <2>1 DEF release, Drop, Unlocked, Inv, SessionsBehind, LockHolderCurrent, ActiveHeld
  <1>4. ASSUME NEW w \in Workers, appendFenced(w) PROVE Inv'
    <2>1. SessionsBehind' /\ LockHolderCurrent' /\ ActiveHeld'
      <3>1. LockHolderCurrent'
        BY <1>4 DEF appendFenced, Inv, LockHolderCurrent
      <3>2. (\A v \in Workers : session'[v] = session[v] \/ session'[v] = 0) /\ row' = row
        BY <1>4 DEF appendFenced, Drop
      <3>3. SessionsBehind'
        BY <3>2, SessionsShrink DEF Inv
      <3> QED
        BY <3>1, <3>2, <3>3 DEF Inv, ActiveHeld
    <2>2. WritesBehind' /\ FencedWritesOrdered'
      <3>1. CASE assertActive(w)
        BY <1>4, <3>1, WriteAtToken DEF appendFenced, assertActive, sameLease
      <3>2. CASE ~assertActive(w)
        BY <1>4, <3>2, SameWrites DEF appendFenced
      <3> QED
        BY <3>1, <3>2
    <2> QED
      BY <2>1, <2>2 DEF Inv
  <1>5. ASSUME NEW w \in Workers, assertTransitionFence(w) PROVE Inv'
    <2>1. WritesBehind' /\ FencedWritesOrdered'
      BY <1>5, SameWrites DEF assertTransitionFence
    <2>2. (\A v \in Workers : session'[v] = session[v] \/ session'[v] = 0) /\ row' = row
      BY <1>5 DEF assertTransitionFence, Drop
    <2>3. SessionsBehind' /\ ActiveHeld'
      BY <2>2, SessionsShrink DEF Inv, ActiveHeld
    <2>4. LockHolderCurrent'
      BY <1>5 DEF assertTransitionFence, assertActive, sameLease, Unlocked, Inv, LockHolderCurrent
    <2> QED
      BY <2>1, <2>3, <2>4 DEF Inv
  <1>6. ASSUME NEW w \in Workers, Commit(w) PROVE Inv'
    <2>1. session[w] = row.token
      BY <1>6 DEF Commit, Inv, LockHolderCurrent
    <2>2. WritesBehind' /\ FencedWritesOrdered'
      BY <1>6, <2>1, WriteAtToken DEF Commit
    <2> QED
      BY <1>6, <2>2 DEF Commit, Inv, SessionsBehind, LockHolderCurrent, ActiveHeld
  <1>7. ASSUME NEW w \in Workers, Crash(w) PROVE Inv'
    <2>1. WritesBehind' /\ FencedWritesOrdered'
      BY <1>7, SameWrites DEF Crash
    <2> QED
      BY <1>7, <2>1 DEF Crash, Drop, Inv, SessionsBehind, LockHolderCurrent, ActiveHeld
  <1>8. CASE Tick
    <2>1. WritesBehind' /\ FencedWritesOrdered'
      BY <1>8, SameWrites DEF Tick
    <2> QED
      BY <1>8, <2>1 DEF Tick, Inv, SessionsBehind, LockHolderCurrent, ActiveHeld
  <1>9. CASE UNCHANGED leaseVars
    BY <1>9 DEF leaseVars, Inv, SessionsBehind, LockHolderCurrent, WritesBehind, ActiveHeld,
                FencedWritesOrdered
  <1> QED
    BY <1>1, <1>2, <1>3, <1>4, <1>5, <1>6, <1>7, <1>8, <1>9 DEF LeaseNext

\* The inductive invariant holds throughout.
LEMMA Invariance == LeaseSpec => []Inv
  BY InitInv, InvStep, PTL DEF LeaseSpec

\* Types, for every number of workers and every lifetime.
THEOREM LeaseTypeCorrect == LeaseSpec => []LeaseTypeOK
  BY Invariance, PTL DEF Inv

\* At most one execute call passes the fence of the lease stores.
THEOREM LeaseOneSession == LeaseSpec => []OneSession
  <1>1. Inv => OneSession
    BY DEF Inv, LeaseTypeOK, SessionsBehind, OneSession, assertActive, sameLease
  <1> QED
    BY <1>1, Invariance, PTL

\* Fenced writes are in token order, however long transactions stay open.
THEOREM LeaseFencing == LeaseSpec => []FencedWritesOrdered
  BY Invariance, PTL DEF Inv

\* The three together: types, one active session, and writes in the order of the leases.
THEOREM LeaseSafety == LeaseSpec => []LeaseSafe
  <1>1. LeaseTypeOK /\ OneSession /\ FencedWritesOrdered => LeaseSafe
    BY DEF LeaseSafe
  <1> QED
    BY <1>1, LeaseTypeCorrect, LeaseOneSession, LeaseFencing, PTL

\* A fenced write lands before the next lease is granted.
THEOREM LeaseWriteIsCurrent == LeaseSpec => WrittenUnderLatestLease
  <1>1. Inv /\ [LeaseNext]_leaseVars => [writes' # writes => writes'[Len(writes')] = row.token]_leaseVars
    <2> SUFFICES ASSUME Inv, LeaseNext, writes' # writes PROVE writes'[Len(writes')] = row.token
      BY DEF leaseVars
    <2> USE DEF Inv, LeaseTypeOK
    <2>1. ASSUME NEW w \in Workers, appendFenced(w) PROVE writes'[Len(writes')] = row.token
      BY <2>1 DEF appendFenced, assertActive, sameLease
    <2>2. ASSUME NEW w \in Workers, Commit(w) PROVE writes'[Len(writes')] = row.token
      BY <2>2, NobodyIsNoWorker DEF Commit, LockHolderCurrent
    <2>3. ASSUME NEW w \in Workers,
                 acquire(w) \/ renew(w) \/ release(w) \/ assertTransitionFence(w) \/ Crash(w)
          PROVE  writes' = writes
      BY <2>3 DEF acquire, renew, Renewed, release, assertTransitionFence, Crash
    <2>4. Tick => writes' = writes
      BY DEF Tick
    <2> QED
      BY <2>1, <2>2, <2>3, <2>4 DEF LeaseNext
  <1> QED
    BY <1>1, Invariance, PTL DEF LeaseSpec, WrittenUnderLatestLease

\* The lease stores implement the lock: an active lease is never taken over.
THEOREM LeaseImplementsLock == LeaseSpec => ImplementsLock
  <1>1. LeaseInit => Lock!Init
    BY DEF LeaseInit, Lock!Init, Owner, Active
  <1>2. Inv /\ [LeaseNext]_leaseVars => [Lock!Next]_Owner
    <2> SUFFICES ASSUME Inv, [LeaseNext]_leaseVars, Owner' # Owner PROVE Lock!Next
      OBVIOUS
    <2> USE NobodyIsNoWorker DEF Inv, LeaseTypeOK, Owner, Active, Lock!Next, Lock!Acquire, Lock!Leave
    <2>1. ASSUME NEW w \in Workers, acquire(w) PROVE Lock!Next
      BY <2>1 DEF acquire, Available
    <2>2. ASSUME NEW w \in Workers, renew(w) PROVE Lock!Next
      BY <2>2, LeaseBounds DEF renew, Renewed, assertActive, sameLease
    <2>3. ASSUME NEW w \in Workers, release(w) PROVE Lock!Next
      BY <2>3, LeaseBounds DEF release, ActiveHeld
    <2>4. ASSUME NEW w \in Workers,
                 appendFenced(w) \/ assertTransitionFence(w) \/ Commit(w) \/ Crash(w)
          PROVE  FALSE
      BY <2>4 DEF appendFenced, assertTransitionFence, Commit, Crash
    <2>5. CASE Tick
      BY <2>5 DEF Tick, ActiveHeld
    <2>6. CASE UNCHANGED leaseVars
      BY <2>6 DEF leaseVars
    <2> QED
      BY <2>1, <2>2, <2>3, <2>4, <2>5, <2>6 DEF LeaseNext
  <1> QED
    BY <1>1, <1>2, Invariance, PTL DEF LeaseSpec, ImplementsLock, Lock!Spec

-----------------------------------------------------------------------------
(* WorkerQueue *)

ClaimType == [wakeup : Wakeups, lease : LeaseIds, token : Nat, ttl : 0..QueueTTL]

WakeType == [state : {"absent", "pending", "claimed", "completed"}, delay : 0..RetryDelay,
             by : QueueWorkers \cup {NoClaim}, until : 0..QueueTTL,
             lease : LeaseIds \cup {NoClaim}, token : Nat]

LeaseType == [id : LeaseIds \cup {NoClaim}, token : Nat, holder : QueueWorkers \cup {NoClaim},
              ttl : 0..QueueTTL, state : {"active", "released", "expired"}]

\* The lease a claimed row names was acquired for that row.
LeaseNamesWakeup ==
  \A k \in Wakeups : wake[k].state = "claimed" => \E n \in Nat : wake[k].lease = <<k, n>>

\* A worker between claim and settlement remembers its claim, and one about to complete
\* has executed under it.
WorkerRemembers ==
  \A w \in QueueWorkers :
    /\ queuePc[w] \in {"claimed", "executing", "completing", "releasing"} => claim[w] \in ClaimType
    /\ queuePc[w] = "completing" => <<claim[w].wakeup, claim[w].token>> \in finished

QueueInv ==
  QueueTypeOK /\ LeaseNamesWakeup /\ WorkerRemembers /\ ClaimBacked /\ CompletedByLastClaim

(* A queue with wake-ups nobody has claimed satisfies the invariant. *)
LEMMA QueueInitInv == QueueInit => QueueInv
  BY QueueAssumption
     DEF QueueInit, QueueInv, QueueTypeOK, LeaseNamesWakeup, WorkerRemembers, ClaimBacked,
         CompletedByLastClaim, Labels

\* One lease row backs one claim.
LEMMA OneBacked ==
  ASSUME LeaseNamesWakeup, NEW k \in Wakeups, NEW j \in Wakeups,
         wake[k].state = "claimed", wake[j].state = "claimed",
         lease.id = wake[k].lease, lease.id = wake[j].lease
  PROVE  k = j
  <1>1. PICK n \in Nat : wake[k].lease = <<k, n>>
    BY DEF LeaseNamesWakeup
  <1>2. PICK m \in Nat : wake[j].lease = <<j, m>>
    BY DEF LeaseNamesWakeup
  <1>3. <<k, n>> = <<j, m>>
    BY <1>1, <1>2
  <1> QED
    BY <1>3

-----------------------------------------------------------------------------
(* Types *)

(* Every step of a worker, the clock and the queue keeps the types. *)
LEMMA QueueTypeStep ==
  ASSUME QueueTypeOK, WorkerRemembers, [QueueNext]_queueVars
  PROVE  QueueTypeOK'
  <1> USE QueueAssumption DEF ClaimType, WakeType, LeaseType
  <1>a. 0 \in 0..QueueTTL /\ QueueTTL \in 0..QueueTTL /\ 0 \in 0..RetryDelay
    OBVIOUS
  <1>b. \A r \in LeaseType, t \in 0..QueueTTL, st \in {"active", "released", "expired"} :
          [[r EXCEPT !.state = st] EXCEPT !.ttl = t] \in LeaseType
    OBVIOUS
  <1>c. \A r \in WakeType, t \in 0..QueueTTL : [r EXCEPT !.until = t] \in WakeType
    OBVIOUS
  <1>d. \A r \in WakeType : [r EXCEPT !.state = "completed"] \in WakeType
    OBVIOUS
  <1>e. \A c \in ClaimType, t \in 0..QueueTTL : [c EXCEPT !.ttl = t] \in ClaimType
    OBVIOUS
  <1>0. /\ lease \in LeaseType /\ wake \in [Wakeups -> WakeType]
        /\ claim \in [QueueWorkers -> ClaimType \cup {NoClaim}]
        /\ queuePc \in [QueueWorkers -> Labels]
    BY DEF QueueTypeOK
  <1>1. SUFFICES /\ lease' \in LeaseType /\ wake' \in [Wakeups -> WakeType]
                 /\ claim' \in [QueueWorkers -> ClaimType \cup {NoClaim}]
                 /\ queuePc' \in [QueueWorkers -> Labels] /\ lost' \in [QueueWorkers -> BOOLEAN]
                 /\ stopping' \in [QueueWorkers -> BOOLEAN]
                 /\ invalid' \in [QueueWorkers -> SUBSET Wakeups]
                 /\ observed' \in [QueueWorkers -> Nat]
                 /\ finished' \subseteq Wakeups \X Nat /\ queueFaults' \in 0..QueueMaxFaults
    BY DEF QueueTypeOK
  <1> DEFINE G == /\ lease' \in LeaseType /\ wake' \in [Wakeups -> WakeType]
                  /\ claim' \in [QueueWorkers -> ClaimType \cup {NoClaim}]
                  /\ queuePc' \in [QueueWorkers -> Labels] /\ lost' \in [QueueWorkers -> BOOLEAN]
                  /\ stopping' \in [QueueWorkers -> BOOLEAN]
                  /\ invalid' \in [QueueWorkers -> SUBSET Wakeups]
                  /\ observed' \in [QueueWorkers -> Nat]
                  /\ finished' \subseteq Wakeups \X Nat /\ queueFaults' \in 0..QueueMaxFaults
  <1>2. ASSUME NEW k \in Wakeups, enqueueWakeup(k) PROVE G
    BY <1>0, <1>2 DEF enqueueWakeup, QueueTypeOK
  <1>3. ASSUME NEW r \in WakeType, NEW d \in 0..RetryDelay PROVE Unclaimed(r, d) \in WakeType
    BY <1>a DEF Unclaimed
  <1>4. ASSUME NEW w \in QueueWorkers, recoverStale(w) PROVE G
    <2>1. lease' \in LeaseType
      <3>1. [lease EXCEPT !.state = "expired", !.ttl = 0] \in LeaseType
        BY <1>0, <1>a, <1>b
      <3> QED
        BY <1>0, <1>4, <3>1 DEF recoverStale
    <2>2. wake' \in [Wakeups -> WakeType]
      BY <1>0, <1>3, <1>4, <1>a DEF recoverStale
    <2> QED
      BY <1>4, <2>1, <2>2 DEF recoverStale, Goto, Labels, QueueTypeOK
  <1>5. ASSUME NEW w \in QueueWorkers, Claim(w) PROVE G
    <2>1. CASE Candidates = {}
      BY <1>5, <2>1 DEF Claim, Goto, Labels, QueueTypeOK
    <2>2. CASE Candidates # {}
      <3>1. PICK k \in Candidates :
              LET id == <<k, wake[k].token + 1>>
              IN /\ lease' = [id |-> id, token |-> NextFence(k), holder |-> w, ttl |-> QueueTTL,
                              state |-> "active"]
                 /\ wake' = [wake EXCEPT ![k] =
                               [state |-> "claimed", delay |-> 0, by |-> w, until |-> QueueTTL,
                                lease |-> id, token |-> NextFence(k)]]
                 /\ claim' = [claim EXCEPT ![w] =
                                [wakeup |-> k, lease |-> id, token |-> NextFence(k),
                                 ttl |-> QueueTTL]]
                 /\ lost' = [lost EXCEPT ![w] = FALSE]
                 /\ Goto(w, "claimed")
        BY <1>5, <2>2 DEF Claim
      <3>2. k \in Wakeups
        BY DEF Candidates
      <3>3. <<k, wake[k].token + 1>> \in LeaseIds /\ NextFence(k) \in Nat
        BY <1>0, <3>2 DEF LeaseIds, NextFence
      <3>4. lease' \in LeaseType
        BY <3>1, <3>3
      <3>5. wake' \in [Wakeups -> WakeType]
        BY <1>0, <3>1, <3>2, <3>3
      <3>6. claim' \in [QueueWorkers -> ClaimType \cup {NoClaim}]
        BY <1>0, <3>1, <3>2, <3>3
      <3> QED
        BY <1>5, <3>1, <3>4, <3>5, <3>6 DEF Claim, Goto, Labels, QueueTypeOK
    <2> QED
      BY <2>1, <2>2
  <1>6. ASSUME NEW w \in QueueWorkers, renewClaim(w) PROVE G
    <2>1. claim[w] \in ClaimType
      BY <1>6 DEF renewClaim, WorkerRemembers
    <2>2. lease' \in LeaseType
      BY <1>0, <1>6 DEF renewClaim
    <2>3. wake' \in [Wakeups -> WakeType]
      BY <1>0, <1>6, <2>1 DEF renewClaim
    <2>4. claim' \in [QueueWorkers -> ClaimType \cup {NoClaim}]
      BY <1>0, <1>6, <2>1 DEF renewClaim
    <2> QED
      BY <1>6, <2>2, <2>3, <2>4 DEF renewClaim, QueueTypeOK
  <1>7. Ended \in LeaseType
    BY <1>0, <1>a, <1>b DEF Ended
  <1>8. ASSUME NEW w \in QueueWorkers, completeClaim(w) PROVE G
    <2>1. claim[w] \in ClaimType
      BY <1>8 DEF completeClaim, WorkerRemembers
    <2>2. wake' \in [Wakeups -> WakeType]
      BY <1>0, <1>8, <2>1 DEF completeClaim
    <2> QED
      <3>1. /\ lease' \in LeaseType /\ claim' \in [QueueWorkers -> ClaimType \cup {NoClaim}]
            /\ invalid' \in [QueueWorkers -> SUBSET Wakeups]
        BY <1>0, <1>7, <1>8, <2>1 DEF completeClaim, QueueTypeOK
      <3>2. queuePc' \in [QueueWorkers -> Labels]
        BY <1>0, <1>8 DEF completeClaim, Goto, Labels
      <3> QED
        BY <1>8, <2>2, <3>1, <3>2 DEF completeClaim, QueueTypeOK
  <1>9. ASSUME NEW w \in QueueWorkers, releaseClaim(w) PROVE G
    <2>1. claim[w] \in ClaimType
      BY <1>9 DEF releaseClaim, WorkerRemembers
    <2>2. wake' \in [Wakeups -> WakeType]
      <3>1. RetryDelay \in 0..RetryDelay
        OBVIOUS
      <3>2. Unclaimed(wake[claim[w].wakeup], RetryDelay) \in WakeType
        BY <1>0, <1>3, <2>1, <3>1
      <3> QED
        BY <1>0, <1>9, <3>2 DEF releaseClaim
    <2> QED
      <3>1. /\ lease' \in LeaseType /\ claim' \in [QueueWorkers -> ClaimType \cup {NoClaim}]
            /\ invalid' \in [QueueWorkers -> SUBSET Wakeups]
        BY <1>0, <1>7, <1>9, <2>1 DEF releaseClaim, QueueTypeOK
      <3>2. queuePc' \in [QueueWorkers -> Labels]
        BY <1>0, <1>9 DEF releaseClaim, Goto, Labels
      <3> QED
        BY <1>9, <2>2, <3>1, <3>2 DEF releaseClaim, QueueTypeOK
  <1>10. ASSUME NEW w \in QueueWorkers, dispatch(w) PROVE G
    <2>1. claim[w] \in ClaimType
      BY <1>10 DEF dispatch, WorkerRemembers
    <2> QED
      BY <1>0, <1>10, <2>1, SMTT(20) DEF dispatch, Goto, Labels, QueueTypeOK
  <1>11. ASSUME NEW w \in QueueWorkers, ExecutionReturns(w) PROVE G
    <2>1. claim[w] \in ClaimType
      BY <1>11 DEF ExecutionReturns, WorkerRemembers
    <2> QED
      BY <1>0, <1>11, <2>1 DEF ExecutionReturns, Goto, Labels, QueueTypeOK
  <1>12. ASSUME NEW w \in QueueWorkers, ExecutionThrows(w) \/ stop(w) \/ LoopEnds(w)
                                        \/ QueueCrash(w) \/ Restart(w)
         PROVE  G
    <2>1. CASE ExecutionThrows(w)
      BY <1>0, <2>1 DEF ExecutionThrows, Goto, Labels, QueueTypeOK
    <2>2. CASE stop(w)
      BY <1>0, <2>2 DEF stop, QueueTypeOK
    <2>3. CASE LoopEnds(w)
      BY <1>0, <2>3 DEF LoopEnds, Goto, Labels, QueueTypeOK
    <2>4. CASE QueueCrash(w)
      BY <1>0, <2>4 DEF QueueCrash, Goto, Labels, QueueTypeOK
    <2>5. CASE Restart(w)
      BY <1>0, <2>5 DEF Restart, Goto, Labels, QueueTypeOK
    <2> QED
      BY <1>12, <2>1, <2>2, <2>3, <2>4, <2>5
  <1>13. CASE QueueTick
    <2>1. \A t \in Nat : \A n \in 0..t : Less(n) \in 0..t
      BY DEF Less
    <2>2. lease' \in LeaseType
      BY <1>0, <1>13, <2>1 DEF QueueTick
    <2>3. wake' \in [Wakeups -> WakeType]
      <3>1. ASSUME NEW r \in WakeType
            PROVE  [r EXCEPT !.until = Less(@), !.delay = Less(@)] \in WakeType
        <4>1. Less(r.until) \in 0..QueueTTL /\ Less(r.delay) \in 0..RetryDelay
          BY <2>1
        <4> QED
          BY <4>1
      <3> QED
        BY <1>0, <1>13, <3>1 DEF QueueTick
    <2>4. claim' \in [QueueWorkers -> ClaimType \cup {NoClaim}]
      <3>1. ASSUME NEW c \in ClaimType
            PROVE  [c EXCEPT !.ttl = Less(@)] \in ClaimType
        <4>1. Less(c.ttl) \in 0..QueueTTL
          BY <2>1
        <4> QED
          BY <4>1
      <3> QED
        BY <1>0, <1>13, <3>1 DEF QueueTick
    <2> QED
      <3>1. queueFaults' \in 0..QueueMaxFaults
        <4>1. \/ queueFaults' = queueFaults
              \/ queueFaults < QueueMaxFaults /\ queueFaults' = queueFaults + 1
          BY <1>13, Zenon DEF QueueTick
        <4>2. queueFaults \in 0..QueueMaxFaults
          BY DEF QueueTypeOK
        <4> QED
          BY <4>1, <4>2
      <3> QED
        BY <1>13, <2>2, <2>3, <2>4, <3>1 DEF QueueTick, QueueTypeOK
  <1>14. CASE UNCHANGED queueVars
    BY <1>14 DEF queueVars, QueueTypeOK
  <1> QED
    BY <1>2, <1>4, <1>5, <1>6, <1>8, <1>9, <1>10, <1>11, <1>12, <1>13, <1>14
       DEF QueueNext, WorkerStep, LoopStep

-----------------------------------------------------------------------------
(* Claims *)

\* A lease id goes on naming the wake-up it was made for.
LEMMA LeaseNamesStep ==
  ASSUME QueueInv, [QueueNext]_queueVars
  PROVE  LeaseNamesWakeup'
  <1> SUFFICES ASSUME NEW k \in Wakeups, wake'[k].state = "claimed"
               PROVE  \E n \in Nat : wake'[k].lease = <<k, n>>
    BY DEF LeaseNamesWakeup
  <1>1. wake \in [Wakeups -> WakeType]
    BY DEF QueueInv, QueueTypeOK, WakeType
  <1>2. \/ wake[k].state = "claimed" /\ wake'[k].lease = wake[k].lease
        \/ wake'[k].lease = <<k, wake[k].token + 1>>
    <2>1. ASSUME NEW w \in QueueWorkers, WorkerStep(w) \/ stop(w) \/ QueueCrash(w) \/ Restart(w)
          PROVE  \/ wake[k].state = "claimed" /\ wake'[k].lease = wake[k].lease
                 \/ wake'[k].lease = <<k, wake[k].token + 1>>
      <3>1. CASE recoverStale(w)
        BY <1>1, <3>1 DEF recoverStale, Unclaimed
      <3>2. CASE Claim(w)
        BY <1>1, <3>2 DEF Claim, Candidates
      <3>3. CASE renewClaim(w)
        BY <1>1, <3>3 DEF renewClaim, WakeType
      <3>4. CASE completeClaim(w)
        BY <1>1, <3>4 DEF completeClaim, WakeType
      <3>5. CASE releaseClaim(w)
        BY <1>1, <3>5 DEF releaseClaim, Unclaimed, WakeType
      <3>6. CASE wake' = wake
        BY <3>6
      <3> QED
        BY <2>1, <3>1, <3>2, <3>3, <3>4, <3>5, <3>6
           DEF WorkerStep, LoopStep, dispatch, ExecutionReturns, ExecutionThrows, LoopEnds, stop,
               QueueCrash, Restart
    <2>2. ASSUME NEW j \in Wakeups, enqueueWakeup(j)
          PROVE  wake[k].state = "claimed" /\ wake'[k].lease = wake[k].lease
      BY <1>1, <2>2 DEF enqueueWakeup, WakeType
    <2>3. CASE QueueTick
      BY <1>1, <2>3 DEF QueueTick, WakeType
    <2>4. CASE UNCHANGED queueVars
      BY <2>4 DEF queueVars
    <2> QED
      BY <2>1, <2>2, <2>3, <2>4 DEF QueueNext
  <1>3. wake[k].token + 1 \in Nat
    BY <1>1 DEF WakeType
  <1> QED
    BY <1>2, <1>3 DEF QueueInv, LeaseNamesWakeup

(* A worker goes on remembering the lease it claimed. *)
LEMMA RemembersStep ==
  ASSUME QueueInv, [QueueNext]_queueVars
  PROVE  WorkerRemembers'
  <1> SUFFICES ASSUME NEW x \in QueueWorkers
               PROVE  /\ queuePc'[x] \in {"claimed", "executing", "completing", "releasing"}
                           => claim'[x] \in ClaimType
                      /\ queuePc'[x] = "completing"
                           => <<claim'[x].wakeup, claim'[x].token>> \in finished'
    BY DEF WorkerRemembers
  <1> DEFINE G == /\ queuePc'[x] \in {"claimed", "executing", "completing", "releasing"}
                       => claim'[x] \in ClaimType
                  /\ queuePc'[x] = "completing"
                       => <<claim'[x].wakeup, claim'[x].token>> \in finished'
  <1>1. /\ wake \in [Wakeups -> WakeType] /\ claim \in [QueueWorkers -> ClaimType \cup {NoClaim}]
        /\ queuePc \in [QueueWorkers -> Labels] /\ lease \in LeaseType
    BY DEF QueueInv, QueueTypeOK, WakeType, ClaimType, LeaseType
  <1>2. /\ queuePc[x] \in {"claimed", "executing", "completing", "releasing"} => claim[x] \in ClaimType
        /\ queuePc[x] = "completing" => <<claim[x].wakeup, claim[x].token>> \in finished
    BY DEF QueueInv, WorkerRemembers
  <1>3. ASSUME claim'[x] = claim[x], finished \subseteq finished',
               \/ queuePc'[x] = queuePc[x]
               \/ queuePc'[x] \in {"idle", "claiming", "stopped"}
               \/ /\ queuePc[x] \in {"claimed", "executing", "completing", "releasing"}
                  /\ queuePc'[x] # "completing"
        PROVE  G
    BY <1>2, <1>3
  <1>4. ASSUME NEW w \in QueueWorkers, WorkerStep(w) \/ stop(w) \/ QueueCrash(w) \/ Restart(w)
        PROVE  G
    <2>1. CASE recoverStale(w) \/ LoopEnds(w) \/ stop(w) \/ Restart(w)
      BY <1>1, <1>3, <2>1 DEF recoverStale, LoopEnds, stop, Restart, Goto
    <2>2. CASE Claim(w)
      <3>1. CASE x # w
        BY <1>1, <1>3, <2>2, <3>1 DEF Claim, Goto
      <3>2. CASE x = w /\ Candidates = {}
        BY <1>1, <1>3, <2>2, <3>2 DEF Claim, Goto
      <3>3. CASE x = w /\ Candidates # {}
        <4>1. PICK k \in Candidates :
                /\ claim' = [claim EXCEPT ![w] =
                               [wakeup |-> k, lease |-> <<k, wake[k].token + 1>>,
                                token |-> NextFence(k), ttl |-> QueueTTL]]
                /\ Goto(w, "claimed")
          BY <2>2, <3>3 DEF Claim
        <4>2. k \in Wakeups
          BY DEF Candidates
        <4>3. <<k, wake[k].token + 1>> \in LeaseIds /\ NextFence(k) \in Nat
          BY <1>1, <4>2 DEF WakeType, LeaseType, LeaseIds, NextFence
        <4>4. claim'[x] \in ClaimType
          BY <1>1, <3>3, <4>1, <4>2, <4>3, QueueAssumption DEF ClaimType
        <4>5. queuePc'[x] = "claimed"
          BY <1>1, <3>3, <4>1 DEF Goto
        <4> QED
          BY <4>4, <4>5
      <3> QED
        BY <3>1, <3>2, <3>3
    <2>3. CASE renewClaim(w)
      <3>1. queuePc' = queuePc /\ finished' = finished /\ queuePc[w] = "executing"
        BY <2>3 DEF renewClaim
      <3>2. CASE claim' = claim
        BY <1>3, <3>1, <3>2
      <3>3. CASE claim' = [claim EXCEPT ![w].ttl = QueueTTL]
        <4>1. CASE x = w
          <5>1. claim[w] \in ClaimType
            BY <1>2, <3>1, <4>1
          <5>2. claim'[w] \in ClaimType
            BY <1>1, <3>3, <5>1, QueueAssumption DEF ClaimType
          <5> QED
            BY <3>1, <4>1, <5>2
        <4>2. CASE x # w
          BY <1>1, <1>3, <3>1, <3>3, <4>2
        <4> QED
          BY <4>1, <4>2
      <3> QED
        BY <2>3, <3>2, <3>3 DEF renewClaim
    <2>4. CASE completeClaim(w)
      BY <1>1, <1>3, <2>4 DEF completeClaim, Goto
    <2>5. CASE releaseClaim(w) \/ QueueCrash(w)
      <3>1. CASE x = w
        <4>1. queuePc'[x] \in {"idle", "stopped"}
          BY <1>1, <2>5, <3>1 DEF releaseClaim, QueueCrash, Goto
        <4> QED
          BY <4>1
      <3>2. CASE x # w
        BY <1>1, <1>3, <2>5, <3>2 DEF releaseClaim, QueueCrash, Goto
      <3> QED
        BY <3>1, <3>2
    <2>6. CASE dispatch(w) \/ ExecutionThrows(w)
      BY <1>1, <1>3, <2>6 DEF dispatch, ExecutionThrows, Goto
    <2>7. CASE ExecutionReturns(w)
      <3>1. CASE x = w
        BY <1>1, <1>2, <2>7, <3>1 DEF ExecutionReturns, Goto
      <3>2. CASE x # w
        BY <1>1, <1>3, <2>7, <3>2 DEF ExecutionReturns, Goto
      <3> QED
        BY <3>1, <3>2
    <2> QED
      BY <1>4, <2>1, <2>2, <2>3, <2>4, <2>5, <2>6, <2>7 DEF WorkerStep, LoopStep
  <1>5. ASSUME NEW k \in Wakeups, enqueueWakeup(k) PROVE G
    BY <1>3, <1>5 DEF enqueueWakeup
  <1>6. CASE QueueTick
    <2>1. queuePc' = queuePc /\ finished' = finished
      BY <1>6 DEF QueueTick
    <2>2. claim[x] \in ClaimType =>
            /\ claim'[x] \in ClaimType
            /\ claim'[x].wakeup = claim[x].wakeup /\ claim'[x].token = claim[x].token
      <3> SUFFICES ASSUME claim[x] \in ClaimType
                   PROVE  /\ claim'[x] \in ClaimType
                          /\ claim'[x].wakeup = claim[x].wakeup /\ claim'[x].token = claim[x].token
        OBVIOUS
      <3>1. Less(claim[x].ttl) \in 0..QueueTTL
        BY QueueAssumption DEF Less, ClaimType
      <3>2. claim'[x] = claim[x] \/ claim'[x] = [claim[x] EXCEPT !.ttl = Less(@)]
        BY <1>6 DEF QueueTick
      <3> QED
        BY <3>1, <3>2 DEF ClaimType
    <2> QED
      BY <1>2, <2>1, <2>2
  <1>7. CASE UNCHANGED queueVars
    BY <1>3, <1>7 DEF queueVars
  <1> QED
    BY <1>4, <1>5, <1>6, <1>7 DEF QueueNext

\* A row whose claim lives after a step lived before it, or was claimed by the step.
LEMMA BackedStep ==
  ASSUME QueueInv, [QueueNext]_queueVars
  PROVE  ClaimBacked'
  <1> DEFINE Live(k) == wake[k].state = "claimed" /\ wake[k].until > 0
  <1>1. /\ wake \in [Wakeups -> WakeType] /\ lease \in LeaseType
    BY DEF QueueInv, QueueTypeOK, WakeType, LeaseType
  <1>2. \A k \in Wakeups : wake[k].until \in Nat /\ (wake[k].until > 0 \/ wake[k].until = 0)
    BY <1>1, QueueAssumption DEF WakeType
  <1>3. \A k \in Wakeups : Live(k) =>
          LeaseOf(k) /\ lease.state = "active" /\ lease.ttl = wake[k].until
    BY DEF QueueInv, ClaimBacked
  <1>4. ASSUME NEW k \in Wakeups, NEW j \in Wakeups, wake[k].state = "claimed", Live(j),
               lease.id = wake[k].lease
        PROVE  k = j
    BY <1>3, <1>4, OneBacked DEF QueueInv, LeaseOf
  <1>5. ASSUME NEW k \in Wakeups, lease' = lease, wake'[k] = wake[k],
               wake'[k].state = "claimed", wake'[k].until > 0
        PROVE  LeaseOf(k)' /\ lease'.state = "active" /\ lease'.ttl = wake'[k].until
    BY <1>3, <1>5 DEF LeaseOf
  <1>6. ASSUME NEW w \in QueueWorkers, recoverStale(w) PROVE ClaimBacked'
    <2>1. CASE lease' = lease /\ wake' = wake
      BY <1>5, <2>1 DEF ClaimBacked
    <2>2. CASE /\ \A k \in Stale : LeaseOf(k)
               /\ lease' = IF Stale = {} THEN lease
                           ELSE [lease EXCEPT !.state = "expired", !.ttl = 0]
               /\ wake' = [k \in Wakeups |-> IF k \in Stale THEN Unclaimed(wake[k], 0) ELSE wake[k]]
      <3>1. ASSUME NEW k \in Wakeups, wake'[k].state = "claimed", wake'[k].until > 0
            PROVE  wake'[k] = wake[k] /\ Stale = {}
        <4>1. wake'[k] = wake[k]
          BY <2>2, <3>1 DEF Unclaimed
        <4>2. ASSUME NEW j \in Stale PROVE FALSE
          <5>1. j \in Wakeups /\ wake[j].state = "claimed" /\ wake[j].until = 0 /\ LeaseOf(j)
            BY <2>2 DEF Stale
          <5>2. j = k
            BY <1>4, <3>1, <4>1, <5>1 DEF LeaseOf
          <5> QED
            BY <1>2, <3>1, <4>1, <5>1, <5>2
        <4> QED
          BY <4>1, <4>2
      <3> QED
        BY <1>5, <2>2, <3>1 DEF ClaimBacked
    <2> QED
      BY <1>6, <2>1, <2>2 DEF recoverStale
  <1>7. ASSUME NEW w \in QueueWorkers, Claim(w) PROVE ClaimBacked'
    <2>1. CASE lease' = lease /\ wake' = wake
      BY <1>5, <2>1 DEF ClaimBacked
    <2>2. ASSUME NEW k \in Candidates,
                 lease' = [id |-> <<k, wake[k].token + 1>>, token |-> NextFence(k), holder |-> w,
                           ttl |-> QueueTTL, state |-> "active"],
                 wake' = [wake EXCEPT ![k] =
                            [state |-> "claimed", delay |-> 0, by |-> w, until |-> QueueTTL,
                             lease |-> <<k, wake[k].token + 1>>, token |-> NextFence(k)]]
          PROVE  ClaimBacked'
      <3>1. k \in Wakeups /\ LeaseOver
        BY DEF Candidates
      <3>2. \A j \in Wakeups : ~Live(j)
        BY <1>1, <1>2, <1>3, <3>1 DEF LeaseOver
      <3>3. ASSUME NEW j \in Wakeups, wake'[j].state = "claimed", wake'[j].until > 0
            PROVE  j = k
        BY <1>1, <2>2, <3>2, <3>3
      <3>4. LeaseOf(k)' /\ lease'.state = "active" /\ lease'.ttl = wake'[k].until
        BY <1>1, <2>2, <3>1 DEF LeaseOf
      <3> QED
        BY <3>3, <3>4 DEF ClaimBacked
    <2> QED
      BY <1>7, <2>1, <2>2 DEF Claim
  <1>8. ASSUME NEW w \in QueueWorkers, renewClaim(w) PROVE ClaimBacked'
    <2>1. CASE lease' = lease /\ wake' = wake
      BY <1>5, <2>1 DEF ClaimBacked
    <2>2. CASE /\ HoldsWakeup(w) /\ HoldsLease(w)
               /\ lease' = [lease EXCEPT !.ttl = QueueTTL]
               /\ wake' = [wake EXCEPT ![claim[w].wakeup].until = QueueTTL]
      <3>0. PICK k \in Wakeups : k = claim[w].wakeup
        BY <1>8 DEF renewClaim, QueueInv, WorkerRemembers, ClaimType
      <3>1. wake[k].state = "claimed" /\ LeaseOf(k) /\ lease.state = "active"
        BY <2>2, <3>0 DEF HoldsWakeup, HoldsLease, LeaseOf
      <3>2. ASSUME NEW j \in Wakeups, wake'[j].state = "claimed", wake'[j].until > 0
            PROVE  j = k
        <4>1. CASE j # k
          <5>1. wake'[j] = wake[j]
            BY <1>1, <2>2, <3>0, <4>1
          <5> QED
            BY <1>4, <3>0, <3>1, <3>2, <5>1 DEF LeaseOf
        <4> QED
          BY <4>1
      <3>3. LeaseOf(k)' /\ lease'.state = "active" /\ lease'.ttl = wake'[k].until
        BY <1>1, <2>2, <3>0, <3>1 DEF LeaseOf, LeaseType, WakeType
      <3> QED
        BY <3>2, <3>3 DEF ClaimBacked
    <2> QED
      BY <1>8, <2>1, <2>2 DEF renewClaim
  <1>9. ASSUME NEW w \in QueueWorkers, completeClaim(w) \/ releaseClaim(w) PROVE ClaimBacked'
    <2>1. CASE lease' = lease /\ wake' = wake
      BY <1>5, <2>1 DEF ClaimBacked
    <2>2. CASE /\ HoldsWakeup(w) /\ HoldsLease(w) /\ lease' = Ended
               /\ \/ wake' = [wake EXCEPT ![claim[w].wakeup].state = "completed"]
                  \/ wake' = [wake EXCEPT ![claim[w].wakeup] = Unclaimed(@, RetryDelay)]
      <3> DEFINE k == claim[w].wakeup
      <3>0. k \in Wakeups
        BY <1>9 DEF completeClaim, releaseClaim, QueueInv, WorkerRemembers, ClaimType
      <3>1. wake[k].state = "claimed" /\ LeaseOf(k) /\ lease.state = "active"
        BY <2>2 DEF HoldsWakeup, HoldsLease, LeaseOf
      <3> HIDE DEF k
      <3>2. ASSUME NEW j \in Wakeups, wake'[j].state = "claimed", wake'[j].until > 0
            PROVE  FALSE
        <4>1. CASE j # k
          <5>1. wake'[j] = wake[j]
            BY <1>1, <2>2, <4>1 DEF k
          <5> QED
            BY <1>4, <3>0, <3>1, <3>2, <4>1, <5>1 DEF LeaseOf
        <4>2. CASE j = k
          BY <1>1, <2>2, <3>0, <3>2, <4>2 DEF Unclaimed, WakeType, k
        <4> QED
          BY <4>1, <4>2
      <3> QED
        BY <3>2 DEF ClaimBacked
    <2> QED
      BY <1>9, <2>1, <2>2 DEF completeClaim, releaseClaim
  <1>10. ASSUME NEW k \in Wakeups, enqueueWakeup(k) PROVE ClaimBacked'
    <2>1. ASSUME NEW j \in Wakeups, wake'[j].state = "claimed" PROVE wake'[j] = wake[j]
      BY <1>1, <1>10, <2>1 DEF enqueueWakeup, WakeType
    <2> QED
      BY <1>5, <1>10, <2>1 DEF enqueueWakeup, ClaimBacked
  <1>11. CASE QueueTick
    <2>1. lease' = [lease EXCEPT !.ttl = Less(@)]
      BY <1>11 DEF QueueTick
    <2>2. wake' = [k \in Wakeups |-> [wake[k] EXCEPT !.until = Less(@), !.delay = Less(@)]]
      BY <1>11 DEF QueueTick
    <2>3. ASSUME NEW k \in Wakeups, wake'[k].state = "claimed", wake'[k].until > 0
          PROVE  LeaseOf(k)' /\ lease'.state = "active" /\ lease'.ttl = wake'[k].until
      <3>1. /\ wake'[k].state = wake[k].state /\ wake'[k].lease = wake[k].lease
            /\ wake'[k].token = wake[k].token /\ wake'[k].by = wake[k].by
            /\ wake'[k].until = Less(wake[k].until)
        BY <1>1, <2>2 DEF WakeType
      <3>2. /\ lease'.id = lease.id /\ lease'.token = lease.token /\ lease'.holder = lease.holder
            /\ lease'.state = lease.state /\ lease'.ttl = Less(lease.ttl)
        BY <1>1, <2>1 DEF LeaseType
      <3>3. Live(k)
        BY <1>2, <2>3, <3>1 DEF Less
      <3> QED
        BY <1>3, <3>1, <3>2, <3>3 DEF LeaseOf
    <2> QED
      BY <2>3 DEF ClaimBacked
  <1>12. CASE lease' = lease /\ wake' = wake
    BY <1>5, <1>12 DEF ClaimBacked
  <1> QED
    BY <1>6, <1>7, <1>8, <1>9, <1>10, <1>11, <1>12
       DEF QueueNext, WorkerStep, LoopStep, dispatch, ExecutionReturns, ExecutionThrows, LoopEnds,
           stop, QueueCrash, Restart, queueVars

(* A wake-up goes on being completed only by the last claim of it. *)
LEMMA CompletedStep ==
  ASSUME QueueInv, [QueueNext]_queueVars
  PROVE  CompletedByLastClaim'
  <1>1. wake \in [Wakeups -> WakeType]
    BY DEF QueueInv, QueueTypeOK, WakeType
  <1>2. finished \subseteq finished'
    BY DEF QueueNext, WorkerStep, LoopStep, recoverStale, Claim, dispatch, ExecutionReturns,
           completeClaim, releaseClaim, LoopEnds, renewClaim, ExecutionThrows, stop, QueueCrash,
           Restart, enqueueWakeup, QueueTick, queueVars
  <1>3. ASSUME \A k \in Wakeups : wake'[k].state = "completed" =>
                 wake[k].state = "completed" /\ wake'[k].token = wake[k].token
        PROVE  CompletedByLastClaim'
    BY <1>2, <1>3 DEF QueueInv, CompletedByLastClaim
  <1>4. ASSUME NEW w \in QueueWorkers, WorkerStep(w) \/ stop(w) \/ QueueCrash(w) \/ Restart(w)
        PROVE  CompletedByLastClaim'
    <2>1. CASE recoverStale(w)
      BY <1>1, <1>3, <2>1 DEF recoverStale, Unclaimed
    <2>2. CASE Claim(w)
      BY <1>1, <1>3, <2>2 DEF Claim, Candidates
    <2>3. CASE renewClaim(w)
      BY <1>1, <1>3, <2>3 DEF renewClaim, WakeType
    <2>4. CASE completeClaim(w)
      <3>1. CASE wake' = wake
        BY <1>3, <3>1
      <3>2. CASE HoldsWakeup(w) /\ wake' = [wake EXCEPT ![claim[w].wakeup].state = "completed"]
        <4>1. <<claim[w].wakeup, claim[w].token>> \in finished
          BY <2>4 DEF completeClaim, QueueInv, WorkerRemembers
        <4>2. wake[claim[w].wakeup].token = claim[w].token
          BY <3>2 DEF HoldsWakeup
        <4>3. ASSUME NEW k \in Wakeups, wake'[k].state = "completed"
              PROVE  <<k, wake'[k].token>> \in finished'
          <5>1. CASE k = claim[w].wakeup
            <6>1. wake'[k].token = wake[k].token
              BY <1>1, <3>2, <5>1 DEF WakeType
            <6> QED
              BY <1>2, <4>1, <4>2, <5>1, <6>1
          <5>2. CASE k # claim[w].wakeup
            <6>1. wake'[k] = wake[k]
              BY <1>1, <3>2, <5>2
            <6> QED
              BY <1>2, <4>3, <6>1 DEF QueueInv, CompletedByLastClaim
          <5> QED
            BY <5>1, <5>2
        <4> QED
          BY <4>3 DEF CompletedByLastClaim
      <3> QED
        BY <2>4, <3>1, <3>2 DEF completeClaim
    <2>5. CASE releaseClaim(w)
      BY <1>1, <1>3, <2>5 DEF releaseClaim, Unclaimed
    <2>6. CASE wake' = wake
      BY <1>3, <2>6
    <2> QED
      BY <1>4, <2>1, <2>2, <2>3, <2>4, <2>5, <2>6
         DEF WorkerStep, LoopStep, dispatch, ExecutionReturns, ExecutionThrows, LoopEnds, stop,
             QueueCrash, Restart
  <1>5. ASSUME NEW k \in Wakeups, enqueueWakeup(k) PROVE CompletedByLastClaim'
    BY <1>1, <1>3, <1>5 DEF enqueueWakeup, WakeType
  <1>6. CASE QueueTick
    BY <1>1, <1>3, <1>6 DEF QueueTick, WakeType
  <1>7. CASE UNCHANGED queueVars
    BY <1>3, <1>7 DEF queueVars
  <1> QED
    BY <1>4, <1>5, <1>6, <1>7 DEF QueueNext

-----------------------------------------------------------------------------
(* Theorem *)

\* A claim that has not lapsed is backed by the run's active lease, so two wake-ups of a run
\* are never worked on at once, and a worker whose claim was recovered completes nothing,
\* however late it comes: for any number of workers, wake-ups, crashes, stops, failures and
\* lapses (claim, renew, complete, release and recoverStale of DurablePostgresWorkerQueue).
THEOREM QueueClaimsCurrent == QueueSpec => []ClaimsCurrent
  <1>1. QueueInv /\ [QueueNext]_queueVars => QueueInv'
    <2> SUFFICES ASSUME QueueInv, [QueueNext]_queueVars PROVE QueueInv'
      OBVIOUS
    <2>1. QueueTypeOK'
      BY QueueTypeStep DEF QueueInv
    <2> QED
      BY <2>1, LeaseNamesStep, RemembersStep, BackedStep, CompletedStep DEF QueueInv
  <1>2. QueueInv => ClaimsCurrent
    BY DEF QueueInv, ClaimsCurrent
  <1> QED
    BY <1>1, <1>2, QueueInitInv, PTL DEF QueueSpec
=============================================================================
