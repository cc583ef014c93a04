---------------------------- MODULE MCRunStream -----------------------------
(***************************************************************************)
(* The durable core of one run: its event stream, its lease and its        *)
(* wake-ups.  They are independent machines (none names another's state):  *)
(* a behaviour picks one part and takes its steps only.                    *)
(***************************************************************************)
EXTENDS RunStream, RunLease, WorkerQueue, TLC

VARIABLE part

MCAlphabet == {"RunAccepted", "ExecutionStarted", "VerificationStarted", "VerificationRecorded",
               "VerificationExceptionRecorded", "RunCompleted"}

MCInit ==
  /\ part \in {"stream", "lease", "queue"}
  /\ part # "lease" => backend = "memory"
  /\ Init /\ LeaseInit /\ QueueInit

MCNext ==
  /\ UNCHANGED part
  /\ IF part = "stream" THEN Next ELSE UNCHANGED vars
  /\ IF part = "lease" THEN LeaseNext ELSE UNCHANGED leaseVars
  /\ IF part = "queue" THEN QueueNext ELSE UNCHANGED queueVars

MCSpec == MCInit /\ [][MCNext]_<<part, vars, leaseVars, queueVars>>

Symmetry == Permutations(Writers)
=============================================================================
