---------------------------- MODULE WorkerQueue -----------------------------
(***************************************************************************)
(* The durable worker: PostgresRunWorker's polling loop (start, runOnce,   *)
(* #dispatch, #renewLease, #release), its delegating authority issuer, and *)
(* DurablePostgresWorkerQueue (recoverStale, claim, renew, complete,       *)
(* release) over pactmark_wakeups and the run's row of pactmark_run_leases.*)
(*                                                                         *)
(* One run with several wake-ups (start, submitted input, approval and     *)
(* resume each enqueue one).  Every queue method is one transaction and    *)
(* one step; between two of them other workers move.  A lease is good for  *)
(* QueueTTL ticks; remaining times count down together.  A worker handles  *)
(* one claim of the run at a time: claim never takes two of one run.       *)
(* claimed_until equals the claim's own copy whenever lease id and token   *)
(* do, since only renew moves it, so renew's comparison is left out.       *)
(***************************************************************************)
EXTENDS Integers, FiniteSets

CONSTANTS
  QueueWorkers,    \* worker processes
  Wakeups,         \* wake-ups of the run
  NoClaim,
  QueueTTL,        \* leaseTtlMs in ticks
  RetryDelay,      \* retryDelayMs in ticks
  DriverMayFail,   \* TRUE: the driver's execute may throw
  QueueHeartbeatKeeps,  \* TRUE: a live worker renews in time
  QueueMaxFaults,       \* bound: crashes, stops, driver failures, lapses under a live worker
  QueueMaxToken         \* bound: leases granted

ASSUME QueueAssumption ==
  /\ NoClaim \notin QueueWorkers \cup Wakeups
  /\ QueueTTL \in Nat \ {0} /\ RetryDelay \in Nat
  /\ DriverMayFail \in BOOLEAN /\ QueueHeartbeatKeeps \in BOOLEAN
  /\ QueueMaxFaults \in Nat /\ QueueMaxToken \in Nat

VARIABLES
  lease,     \* the run's lease row
  wake,      \* wake[k]: the row of wake-up k
  queuePc,   \* where each worker is in its loop
  claim,     \* claim[w]: the claim worker w holds, or None
  lost,      \* lost[w]: the renewal loop of the dispatch failed
  stopping,  \* stopping[w]: the stop signal is set
  invalid,   \* invalid[w]: receipts the worker's issuer has invalidated
  observed,  \* observed[w]: fencing token the issuer last observed
  finished,  \* history: claims (wake-up and token) whose execution returned
  queueFaults

queueVars == <<lease, wake, queuePc, claim, lost, stopping, invalid, observed, finished, queueFaults>>

Labels == {"idle", "claiming", "claimed", "executing", "completing", "releasing", "stopped"}

\* A lease id is derived from the wake-up and its next attempt number.
LeaseIds == Wakeups \X Nat

QueueInit ==
  /\ lease = [id |-> NoClaim, token |-> 0, holder |-> NoClaim, ttl |-> 0, state |-> "released"]
  /\ wake = [k \in Wakeups |->
               [state |-> "absent", delay |-> 0, by |-> NoClaim, until |-> 0,
                lease |-> NoClaim, token |-> 0]]
  /\ queuePc = [w \in QueueWorkers |-> "idle"]
  /\ claim = [w \in QueueWorkers |-> NoClaim]
  /\ lost = [w \in QueueWorkers |-> FALSE]
  /\ stopping = [w \in QueueWorkers |-> FALSE]
  /\ invalid = [w \in QueueWorkers |-> {}]
  /\ observed = [w \in QueueWorkers |-> 0]
  /\ finished = {}
  /\ queueFaults = 0

Goto(w, label) == queuePc' = [queuePc EXCEPT ![w] = label]

-----------------------------------------------------------------------------
(* The queue's transactions *)

\* enqueueWakeup of a command's transaction (start, input, decision, resume): a
\* repeated one finds the row of its deduplication key and leaves it.
enqueueWakeup(k) ==
  /\ wake[k].state = "absent"
  /\ wake' = [wake EXCEPT ![k].state = "pending"]
  /\ UNCHANGED <<lease, queuePc, claim, lost, stopping, invalid, observed, finished, queueFaults>>

\* mutant: a stale claim is looked for by its lease's state, not by the time
MutStale == {k \in Wakeups : wake[k].state = "claimed" /\ lease.state = "expired"}

Stale == {k \in Wakeups : wake[k].state = "claimed" /\ wake[k].until = 0}

\* The lease row still carries the wake-up's claim.
LeaseOf(k) ==
  /\ lease.id = wake[k].lease /\ lease.token = wake[k].token
  /\ lease.holder = wake[k].by

Unclaimed(r, delay) ==
  [state |-> "pending", delay |-> delay, by |-> NoClaim, until |-> 0, lease |-> NoClaim,
   token |-> r.token]

\* recoverStale: all stale claims or none; a lease row that has moved on is a
\* conflict, which rejects runOnce and ends the loop.
recoverStale(w) ==
  /\ queuePc[w] = "idle" /\ ~stopping[w]
  /\ IF \A k \in Stale : LeaseOf(k) /\ lease.state \in {"active", "expired"}
     THEN /\ lease' = IF Stale = {} THEN lease ELSE [lease EXCEPT !.state = "expired", !.ttl = 0]
          /\ wake' = [k \in Wakeups |-> IF k \in Stale THEN Unclaimed(wake[k], 0) ELSE wake[k]]
          /\ Goto(w, "claiming")
     ELSE Goto(w, "stopped") /\ UNCHANGED <<lease, wake>>
  /\ UNCHANGED <<stopping, claim, lost, invalid, observed, finished, queueFaults>>

LeaseOver == lease.state # "active" \/ lease.ttl = 0

Candidates == {k \in Wakeups : wake[k].state = "pending" /\ wake[k].delay = 0 /\ LeaseOver}

\* The fencing token of the lease a claim of k acquires.
NextFence(k) == lease.token + 1

\* claim: a due wake-up and the run lease, in one transaction.
Claim(w) ==
  /\ queuePc[w] = "claiming"
  /\ IF Candidates = {}
     THEN Goto(w, "idle") /\ UNCHANGED <<lease, wake, claim, lost>>
     ELSE \E k \in Candidates :
            LET id == <<k, wake[k].token + 1>>
            IN /\ lease.token < QueueMaxToken
               /\ lease' = [id |-> id, token |-> NextFence(k), holder |-> w, ttl |-> QueueTTL,
                            state |-> "active"]
               /\ wake' = [wake EXCEPT ![k] =
                             [state |-> "claimed", delay |-> 0, by |-> w, until |-> QueueTTL,
                              lease |-> id, token |-> NextFence(k)]]
               /\ claim' = [claim EXCEPT ![w] =
                              [wakeup |-> k, lease |-> id, token |-> NextFence(k), ttl |-> QueueTTL]]
               /\ lost' = [lost EXCEPT ![w] = FALSE]
               /\ Goto(w, "claimed")
  /\ UNCHANGED <<stopping, invalid, observed, finished, queueFaults>>

\* The wake-up row still carries exactly this worker's claim.
HoldsWakeup(w) ==
  LET r == wake[claim[w].wakeup]
  IN r.state = "claimed" /\ r.by = w /\ r.lease = claim[w].lease /\ r.token = claim[w].token

\* The lease row still is the claim's, active (though it may have run out).
HoldsLease(w) ==
  /\ lease.id = claim[w].lease /\ lease.holder = w /\ lease.token = claim[w].token
  /\ lease.state = "active"

Ended == [lease EXCEPT !.state = "released", !.ttl = 0]

\* renew, by the renewal loop beside the execution.
renewClaim(w) ==
  /\ queuePc[w] = "executing" /\ ~lost[w]
  /\ IF HoldsWakeup(w) /\ HoldsLease(w) /\ lease.ttl > 0
     THEN /\ lease' = [lease EXCEPT !.ttl = QueueTTL]
          /\ wake' = [wake EXCEPT ![claim[w].wakeup].until = QueueTTL]
          /\ claim' = [claim EXCEPT ![w].ttl = QueueTTL]
          /\ UNCHANGED lost
     ELSE lost' = [lost EXCEPT ![w] = TRUE] /\ UNCHANGED <<lease, wake, claim>>
  /\ UNCHANGED <<stopping, queuePc, invalid, observed, finished, queueFaults>>

\* mutant: the wake-up is completed whoever holds it by now
MutCompleteClaim(w) ==
  /\ queuePc[w] = "completing"
  /\ wake' = [wake EXCEPT ![claim[w].wakeup].state = "completed"]
  /\ lease' = Ended
  /\ invalid' = [invalid EXCEPT ![w] = @ \cup {claim[w].wakeup}]
  /\ claim' = [claim EXCEPT ![w] = NoClaim]
  /\ Goto(w, "idle")
  /\ UNCHANGED <<stopping, lost, observed, finished, queueFaults>>

\* complete; a refusal is caught by #dispatch and becomes a release.
completeClaim(w) ==
  /\ queuePc[w] = "completing"
  /\ IF HoldsWakeup(w) /\ HoldsLease(w)
     THEN /\ wake' = [wake EXCEPT ![claim[w].wakeup].state = "completed"]
          /\ lease' = Ended
          /\ invalid' = [invalid EXCEPT ![w] = @ \cup {claim[w].wakeup}]
          /\ claim' = [claim EXCEPT ![w] = NoClaim]
          /\ Goto(w, "idle")
     ELSE Goto(w, "releasing") /\ UNCHANGED <<wake, lease, invalid, claim>>
  /\ UNCHANGED <<stopping, lost, observed, finished, queueFaults>>

\* #release: the receipt is invalidated first; a refusal rejects runOnce.
releaseClaim(w) ==
  /\ queuePc[w] = "releasing"
  /\ invalid' = [invalid EXCEPT ![w] = @ \cup {claim[w].wakeup}]
  /\ claim' = [claim EXCEPT ![w] = NoClaim]
  /\ IF HoldsWakeup(w) /\ HoldsLease(w)
     THEN /\ wake' = [wake EXCEPT ![claim[w].wakeup] = Unclaimed(@, RetryDelay)]
          /\ lease' = Ended
          /\ Goto(w, "idle")
     ELSE Goto(w, "stopped") /\ UNCHANGED <<wake, lease>>
  /\ UNCHANGED <<stopping, lost, observed, finished, queueFaults>>

-----------------------------------------------------------------------------
(* The worker *)

\* observeLease and issueDelegated: the fence is not older than the one observed
\* and the receipt has not been invalidated.
Delegable(w) == claim[w].token >= observed[w] /\ claim[w].wakeup \notin invalid[w]

\* #dispatch up to driver.execute: an expired claim is given back, an authority
\* is issued and verified, a stopping worker gives the claim back.
dispatch(w) ==
  /\ queuePc[w] = "claimed"
  /\ IF claim[w].ttl > 0 /\ claim[w].token >= observed[w]
     THEN observed' = [observed EXCEPT ![w] = claim[w].token]
     ELSE UNCHANGED observed
  /\ Goto(w, IF claim[w].ttl > 0 /\ Delegable(w) /\ ~stopping[w]
             THEN "executing" ELSE "releasing")
  /\ UNCHANGED <<stopping, lease, wake, claim, lost, invalid, finished, queueFaults>>

\* driver.execute returns or, aborted (a lost lease, a stop) or on its own, throws.
ExecutionReturns(w) ==
  /\ queuePc[w] = "executing"
  /\ finished' = finished \cup {<<claim[w].wakeup, claim[w].token>>}
  /\ Goto(w, IF lost[w] \/ stopping[w] THEN "releasing" ELSE "completing")
  /\ UNCHANGED <<stopping, lease, wake, claim, lost, invalid, observed, queueFaults>>

ExecutionThrows(w) ==
  /\ queuePc[w] = "executing"
  /\ \/ (lost[w] \/ stopping[w]) /\ UNCHANGED queueFaults
     \/ DriverMayFail /\ queueFaults < QueueMaxFaults /\ queueFaults' = queueFaults + 1
  /\ Goto(w, "releasing")
  /\ UNCHANGED <<stopping, lease, wake, claim, lost, invalid, observed, finished>>

\* stop: the signal is seen at the boundaries of #dispatch and by the driver;
\* the loop ends once the claim is settled.
stop(w) ==
  /\ queuePc[w] # "stopped" /\ ~stopping[w] /\ queueFaults < QueueMaxFaults
  /\ queueFaults' = queueFaults + 1
  /\ stopping' = [stopping EXCEPT ![w] = TRUE]
  /\ UNCHANGED <<lease, wake, queuePc, claim, lost, invalid, observed, finished>>

LoopEnds(w) ==
  /\ queuePc[w] = "idle" /\ stopping[w]
  /\ Goto(w, "stopped")
  /\ UNCHANGED <<lease, wake, claim, lost, stopping, invalid, observed, finished, queueFaults>>

QueueCrash(w) ==
  /\ queuePc[w] # "stopped" /\ queueFaults < QueueMaxFaults
  /\ queueFaults' = queueFaults + 1
  /\ Goto(w, "stopped")
  /\ claim' = [claim EXCEPT ![w] = NoClaim]
  /\ UNCHANGED <<stopping, lease, wake, lost, invalid, observed, finished>>

\* The host starts the process again: the issuer's memory is new.
Restart(w) ==
  /\ queuePc[w] = "stopped"
  /\ Goto(w, "idle")
  /\ stopping' = [stopping EXCEPT ![w] = FALSE]
  /\ invalid' = [invalid EXCEPT ![w] = {}]
  /\ observed' = [observed EXCEPT ![w] = 0]
  /\ UNCHANGED <<lease, wake, claim, lost, finished, queueFaults>>

Less(n) == IF n = 0 THEN 0 ELSE n - 1

\* The claim of a live worker is about to run out.
Lapses == lease.state = "active" /\ lease.ttl = 1 /\ \E w \in QueueWorkers : claim[w] # NoClaim /\ HoldsLease(w)

\* Time passes for every row and for the workers' copies.
QueueTick ==
  /\ lease.ttl > 0 \/ \E k \in Wakeups : wake[k].delay > 0
  /\ IF Lapses
     THEN ~QueueHeartbeatKeeps /\ queueFaults < QueueMaxFaults /\ queueFaults' = queueFaults + 1
     ELSE UNCHANGED queueFaults
  /\ lease' = [lease EXCEPT !.ttl = Less(@)]
  /\ wake' = [k \in Wakeups |-> [wake[k] EXCEPT !.until = Less(@), !.delay = Less(@)]]
  /\ claim' = [w \in QueueWorkers |->
                 IF claim[w] = NoClaim THEN NoClaim ELSE [claim[w] EXCEPT !.ttl = Less(@)]]
  /\ UNCHANGED <<stopping, queuePc, lost, invalid, observed, finished>>

LoopStep(w) ==
  \/ recoverStale(w) \/ Claim(w) \/ dispatch(w) \/ ExecutionReturns(w)
  \/ completeClaim(w) \/ releaseClaim(w) \/ LoopEnds(w)

WorkerStep(w) == LoopStep(w) \/ renewClaim(w) \/ ExecutionThrows(w)

QueueNext ==
  \/ \E w \in QueueWorkers : WorkerStep(w) \/ stop(w) \/ QueueCrash(w) \/ Restart(w)
  \/ \E k \in Wakeups : enqueueWakeup(k)
  \/ QueueTick

QueueSpec == QueueInit /\ [][QueueNext]_queueVars

\* The loop's next step always comes (renewals beside it are no progress of the
\* loop), the host restarts a stopped worker, time passes.
QueueFairness ==
  /\ \A w \in QueueWorkers :
       /\ WF_queueVars(LoopStep(w))
       /\ WF_queueVars(Restart(w))
  /\ WF_queueVars(QueueTick)

QueueFairSpec == QueueSpec /\ QueueFairness

-----------------------------------------------------------------------------
(* Properties *)

QueueTypeOK ==
  /\ lease \in [id : LeaseIds \cup {NoClaim}, token : Nat, holder : QueueWorkers \cup {NoClaim},
                ttl : 0..QueueTTL, state : {"active", "released", "expired"}]
  /\ wake \in [Wakeups -> [state : {"absent", "pending", "claimed", "completed"}, delay : 0..RetryDelay,
                           by : QueueWorkers \cup {NoClaim}, until : 0..QueueTTL,
                           lease : LeaseIds \cup {NoClaim}, token : Nat]]
  /\ queuePc \in [QueueWorkers -> Labels]
  /\ claim \in [QueueWorkers -> [wakeup : Wakeups, lease : LeaseIds, token : Nat,
                                ttl : 0..QueueTTL] \cup {NoClaim}]
  /\ lost \in [QueueWorkers -> BOOLEAN]
  /\ stopping \in [QueueWorkers -> BOOLEAN]
  /\ invalid \in [QueueWorkers -> SUBSET Wakeups]
  /\ observed \in [QueueWorkers -> Nat]
  /\ finished \subseteq Wakeups \X Nat
  /\ queueFaults \in 0..QueueMaxFaults

\* A claim that has not lapsed is backed by the run's active lease, with its
\* token and its remaining time: claim and renew move both rows together, so two
\* wake-ups of one run are never being worked on at once.
ClaimBacked ==
  \A k \in Wakeups :
    wake[k].state = "claimed" /\ wake[k].until > 0 =>
      LeaseOf(k) /\ lease.state = "active" /\ lease.ttl = wake[k].until

\* A wake-up is completed by an execution that returned under its LAST claim: a
\* worker whose claim was recovered and granted again completes nothing ("rejects
\* the stale completion after a fenced retry", postgres-queue.test.ts).
CompletedByLastClaim ==
  \A k \in Wakeups : wake[k].state = "completed" => <<k, wake[k].token>> \in finished

\* Two wake-ups of a run are never worked on at once, and a worker whose claim was recovered
\* completes nothing, however late it comes (claim, renew, complete, recoverStale).
ClaimsCurrent == QueueTypeOK /\ ClaimBacked /\ CompletedByLastClaim

\* The lease row of a lapsed claim was granted to another wake-up: recoverStale rejects with
\* a conflict, on every worker and every time, and ends the polling loop that called it.
StaleConflict == \E k \in Stale : ~(LeaseOf(k) /\ lease.state \in {"active", "expired"})

\* Every wake-up that was enqueued is completed although workers crash, stop and start again
\* and others work on the same run, unless a stale claim is in conflict (what
\* LapsedClaimRecovered is about).  Assumed: the driver does not throw (after a release the
\* worker's issuer refuses the wake-up: ClaimIsDelegable) and a live worker renews in time
\* (postgres-queue.ts claim, complete, release, recoverStale; index.ts runOnce).
EveryWakeupCompletes ==
  \A k \in Wakeups :
    (wake[k].state = "pending") ~> (wake[k].state = "completed" \/ StaleConflict)

\* Package README: "runOnce() recovers stale claims": a claim that lapsed is
\* completed or made pending again.
LapsedClaimRecovered ==
  \A k \in Wakeups :
    (wake[k].state = "claimed" /\ wake[k].until = 0) ~>
      (wake[k].state # "claimed" \/ wake[k].until > 0)

\* Package README: runOnce "issues a run-scoped delegated authority ... and records
\* completion or a bounded retry": an unexpired claim gets its authority, the
\* claim of a retry too.
ClaimIsDelegable ==
  \A w \in QueueWorkers : queuePc[w] = "claimed" /\ claim[w].ttl > 0 => Delegable(w)
=============================================================================
