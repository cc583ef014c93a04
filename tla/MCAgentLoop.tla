---------------------------- MODULE MCAgentLoop -----------------------------
(***************************************************************************)
(* The agent loop, the queue that calls it, and what it consults: budgets, *)
(* policy and authority, compensation, executors.  They are independent    *)
(* machines (none names another's state): a behaviour picks one part and   *)
(* takes its steps only, so one run checks every part.                     *)
(***************************************************************************)
EXTENDS AgentLoop, WorkerQueue, Reservations, Compensation, Authority, Policy,
        ExecutorGateway

VARIABLE part

\* ------------------------------------------------------------------ instances

\* With reservations a tool call needs an approval only where model calls are
\* reserved too, and there the model calls that tool or gives its final answer.
MCSetups ==
  LET Setup(c, r, p, e) == [context |-> c, reserve |-> r, production |-> p, emissions |-> e]
  IN {Setup(FALSE, FALSE, FALSE, EmissionKinds),
      Setup(TRUE, FALSE, FALSE, EmissionKinds),
      Setup(TRUE, FALSE, TRUE, EmissionKinds),
      Setup(TRUE, TRUE, FALSE, EmissionKinds \ {"gated"}),
      Setup(TRUE, TRUE, TRUE, {"gated", "final"})}

MCReceipts ==
  {[id |-> "r1", platform |-> "amd64", intact |-> TRUE, observed |-> 0, expires |-> 1],
   [id |-> "r2", platform |-> "amd64", intact |-> TRUE, observed |-> 1, expires |-> 2],
   [id |-> "r3", platform |-> "arm64", intact |-> TRUE, observed |-> 0, expires |-> 2]}

MCProfiles ==
  {[receipt |-> "r1", platform |-> "amd64", origin |-> "https", of |-> "t1", binding |-> "t1",
    intact |-> TRUE],
   [receipt |-> "r3", platform |-> "arm64", origin |-> "https", of |-> "t1", binding |-> "t1",
    intact |-> TRUE],
   [receipt |-> "r1", platform |-> "amd64", origin |-> "https", of |-> "t2", binding |-> "t1",
    intact |-> TRUE]}

MCPins ==
  {[id |-> "n1", address |-> "a", server |-> "s", binding |-> "t1", risk |-> "R0", intact |-> TRUE],
   [id |-> "n2", address |-> "a", server |-> "s", binding |-> "t1", risk |-> "R1", intact |-> TRUE],
   [id |-> "n3", address |-> "b", server |-> "s", binding |-> "t2", risk |-> "R1", intact |-> TRUE],
   [id |-> "n4", address |-> "b", server |-> "s", binding |-> "t1", risk |-> "R0", intact |-> TRUE]}

MCConnections ==
  {[server |-> "s", artifact |-> a, exposes |-> "execute"] : a \in {"amd64", "arm64"}}

\* --------------------------------------------------------------------- parts

Parts ==
  {"loop", "queue", "quota", "active", "calls", "compensation", "grants", "claims", "references", "kill", "policy", "executor"}

AnySetup == CHOOSE s \in Setups : TRUE
AnySecret == CHOOSE r \in AuthSecrets : TRUE
AnyCall == CHOOSE c \in PolCalls : TRUE
AnyConnection == CHOOSE c \in ExeConnections : TRUE

\* Only the chosen part's inputs range over their sets.
Pinned ==
  /\ part # "loop" => setup = AnySetup
  /\ part # "quota" => resScope = "tenant"
  /\ part \in {"active", "calls"} => resStore \in {"memory", "postgres"}
  /\ part \notin {"quota", "active", "calls"} => resStore = "memory"
  /\ part # "policy" => polCall = AnyCall
  /\ part # "executor" => exeConnection = AnyConnection

MCInit ==
  /\ part \in Parts /\ Pinned
  /\ Init /\ QueueInit /\ ResInit /\ CmpInit /\ AuthInit /\ PolInit /\ ExeInit

\* A step of the chosen part; the others stand still.
MCNext ==
  /\ UNCHANGED part
  /\ IF part = "loop" THEN Next ELSE UNCHANGED vars
  /\ IF part = "queue" THEN QueueNext ELSE UNCHANGED queueVars
  /\ CASE part = "quota"  -> ResTick \/ ResQuotaStep
       [] part = "active" -> ResTick \/ ResActiveStep
       [] part = "calls"  -> ResTick \/ ResModelStep
       [] OTHER           -> UNCHANGED resVars
  /\ IF part = "compensation" THEN CmpNext ELSE UNCHANGED cmpVars
  /\ CASE part = "grants"     -> AuthTick \/ AuthGrantStep
       [] part = "claims"     -> AuthTick \/ AuthReserveStep
       [] part = "references" -> AuthTick \/ AuthRefOf(AnySecret)
       [] part = "kill"       -> AuthKillStep
       [] OTHER               -> UNCHANGED authVars
  /\ IF part = "policy" THEN PolNext ELSE UNCHANGED polVars
  /\ IF part = "executor" THEN ExeNext ELSE UNCHANGED exeVars

allVars == <<part, vars, queueVars, resVars, cmpVars, authVars, polVars, exeVars>>

\* The fairness of AgentLoop!Spec and of QueueFairSpec, each in its part.
MCFairness ==
  /\ WF_vars(part = "loop" /\ (Execute \/ Advance))
  /\ \A w \in QueueWorkers :
       /\ WF_queueVars(part = "queue" /\ LoopStep(w))
       /\ WF_queueVars(part = "queue" /\ Restart(w))
  /\ WF_queueVars(part = "queue" /\ QueueTick)

MCSpec == MCInit /\ [][MCNext]_allVars /\ MCFairness
=============================================================================
