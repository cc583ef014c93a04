----------------------------- MODULE RunCommands ----------------------------
(***************************************************************************)
(* Client commands on one run that waits for people: submitInput,          *)
(* issueDecisionChallenge, approve, reject, cancel and resume of           *)
(* runtime.ts, over the command unit of work (transactCommand), the        *)
(* decision store, the process-local challenge issuer and the wake-ups a   *)
(* command commits.  Clients repeat, interleave and abandon calls; an      *)
(* executor picks the run up again after each answer.                      *)
(*                                                                         *)
(* "backend" is the unit of work, fixed in a behaviour.  In memory a       *)
(* callback runs exclusively: one step.  On PostgreSQL it reads the run    *)
(* and the challenge outside its transaction (Read), holds only the        *)
(* advisory lock of its command scope, and is decided by the rows it finds *)
(* when it writes (Commit); its wake-up is part of the transaction.        *)
(*                                                                         *)
(* One run, one input request, one decision, one principal.  An issuer     *)
(* makes one challenge and one approval per command id, so the id names    *)
(* them; the proof of a challenge is known once its command committed.     *)
(***************************************************************************)
EXTENDS RunReducer, Sequences, FiniteSets

CONSTANTS
  Clients,      \* callers, each with one call under way
  CommandIds,   \* command identifiers, reusable across operations
  Values,       \* input values
  Request,      \* the input request the run makes
  Decision,     \* the decision the run asks for
  Start,        \* the command id of the start that accepted the run
  Backends,     \* bound: which units of work a run considers
  TTL,          \* decisionChallengeTtlMs, in ticks
  MaxTime,      \* bound: the clock stops there
  MaxCalls      \* bound: calls clients make

\* The records of the input submission and of the decision store.
Inputs == [value : Values, by : CommandIds]
Challenges == [expires : Nat, by : CommandIds \cup {None}]
Approvals == [challenge : CommandIds, by : CommandIds, expires : Nat]
Rejections == [challenge : CommandIds, by : CommandIds]

ASSUME CommandAssumption ==
  /\ {Request, Decision} \subseteq Ids /\ Start \notin CommandIds
  /\ None \notin CommandIds \cup {Start} \cup Values \cup Nat
  /\ None # "refused" /\ None \notin Inputs \cup Challenges \cup Approvals \cup Rejections
  /\ Backends \subseteq {"memory", "postgres"}
  /\ TTL \in Nat \ {0} /\ {MaxTime, MaxCalls} \subseteq Nat

VARIABLES
  backend,
  run,         \* the stored projection; the stream's tail is run.lastSequence
  log,         \* history: [type, by] of each event from RunAccepted on
  commands,    \* pactmark_commands: committed scopes with digest and response
  input,       \* the submission record of Request, or None
  issued,      \* issuer: the expiry the challenge of a command id was issued with
  drafted,     \* issuer: the challenge the approval of a command id was made for
  challenges,  \* decision store: challenge of a command id, or None
  active,      \* the decision's active challenge, or None
  approval,    \* the stored approval, or None
  rejection,   \* the stored rejection, or None
  claimed,     \* when the approval was claimed for the tool call, or None
  wakeups,     \* wake-up (PostgreSQL) or call of execute (memory) per command id
  client,      \* the call of each client
  exec,        \* the execution under way: [pc, wake, view]
  now, calls

stores == <<run, log, commands, input, challenges, active, approval, rejection>>
vars == <<backend, stores, issued, drafted, claimed, wakeups, client, exec, now, calls>>

Ops == {"submit_input", "issue_challenge", "approve", "reject", "cancel", "resume"}

\* The request digest stands for the payload: a value, a proof, or nothing.
Args(op) ==
  CASE op = "submit_input" -> Values
    [] op \in {"approve", "reject"} -> {id \in CommandIds : challenges[id] # None}
    [] OTHER -> {None}

Idle == [pc |-> "idle", op |-> None, id |-> None, arg |-> None, expires |-> 0,
         answer |-> None, view |-> None]

Resting == [pc |-> "rest", wake |-> None, view |-> None]

\* The run was accepted by start, which committed a wake-up or scheduled an execute.
Init ==
  /\ backend \in Backends
  /\ run = Reduce(createRunProjection("agent"), Ev("RunAccepted"))
  /\ log = <<[type |-> "RunAccepted", by |-> Start]>>
  /\ commands = {}
  /\ input = None
  /\ issued = [id \in CommandIds |-> None]
  /\ drafted = [id \in CommandIds |-> None]
  /\ challenges = [id \in CommandIds |-> None]
  /\ active = None /\ approval = None /\ rejection = None /\ claimed = None
  /\ wakeups = [id \in CommandIds \cup {Start} |-> IF id = Start THEN "pending" ELSE "none"]
  /\ client = [c \in Clients |-> Idle]
  /\ exec = Resting
  /\ now = 0 /\ calls = 0

\* --------------------------------------------------------------- commands

SameScope(r, call) == r.op = call.op /\ r.id = call.id

Prior(call) == {r \in commands : SameScope(r, call)}

Waiting(p, call) ==
  CASE call.op = "submit_input" ->
         p.status = "waiting_for_input" /\ p.waitingRequestId = Request
    [] OTHER ->
         p.status = "waiting_for_approval" /\ p.waitingDecisionId = Decision

\* A call ends with an answer; the client keeps it until its next call.
Answer(c, a) ==
  client' = [client EXCEPT ![c] = [Idle EXCEPT !.answer = a]]

Refuse(c) == Answer(c, "refused") /\ UNCHANGED <<stores, wakeups>>

\* A client calls an operation with a command id of its choice.  The expiry of a
\* challenge is computed from the clock of this call.
Call(c) ==
  /\ client[c].pc = "idle" /\ calls < MaxCalls
  /\ calls' = calls + 1
  /\ \E op \in Ops, id \in CommandIds : \E arg \in Args(op) :
       client' = [client EXCEPT ![c] =
         [pc |-> IF op = "issue_challenge" THEN "issue" ELSE "begin",
          op |-> op, id |-> id, arg |-> arg,
          expires |-> IF op = "issue_challenge" THEN now + TTL ELSE 0,
          answer |-> None, view |-> None]]
  /\ UNCHANGED <<backend, stores, issued, drafted, claimed, wakeups, exec, now>>

\* The issuer returns a command's challenge again only for an equal request, and the
\* request carries the expiry.
Reproduces(call) == issued[call.id] \in {None, call.expires}

\* issueDecisionChallenge before its transaction: the run must wait for the
\* decision, and the issuer must make or reproduce the challenge.
issue(c) ==
  /\ client[c].pc = "issue"
  /\ LET call == client[c] IN
     IF Waiting(run, call) /\ Reproduces(call)
     THEN /\ issued' = [issued EXCEPT ![call.id] = call.expires]
          /\ client' = [client EXCEPT ![c].pc = "begin"]
          /\ UNCHANGED <<stores, wakeups>>
     ELSE Refuse(c) /\ UNCHANGED issued
  /\ UNCHANGED <<backend, drafted, claimed, exec, now, calls>>

\* What a callback reads: getRun, the active challenge, the input record, the clock.
Snapshot == [run |-> run, active |-> active, input |-> input, at |-> now]

Decides(call) == call.op \in {"approve", "reject"}

\* The issuer makes one approval per command: a repeated command must name the same
\* challenge, also if its transaction was rolled back.
createApproval(call) == drafted[call.id] \in {None, call.arg}

\* #decisionContext: the proof is of the active challenge, unused and unexpired.
decisionContext(call, v) ==
  /\ Waiting(v.run, call)
  /\ v.active = call.arg
  /\ challenges[call.arg].by = None
  /\ v.at < challenges[call.arg].expires

\* The callback does not throw on what it read.
Accepts(call, v) ==
  CASE call.op = "submit_input" ->
         IF v.input # None THEN v.input.value = call.arg ELSE Waiting(v.run, call)
    [] call.op = "issue_challenge" -> Waiting(v.run, call)
    [] Decides(call) ->
         decisionContext(call, v) /\ (call.op = "approve" => createApproval(call))
    [] OTHER -> TRUE

\* The event a callback appends: none or one.
EventsOf(call, v) ==
  CASE call.op = "submit_input" /\ v.input = None -> {Ev("InputSubmitted")}
    [] call.op = "approve" -> {[Ev("ApprovalRecorded") EXCEPT !.target = "running"]}
    [] call.op = "reject" -> {[Ev("ApprovalRejected") EXCEPT !.target = "failed"]}
    [] call.op = "cancel" /\ v.run.status \notin TerminalStatuses -> {Ev("RunCancelled")}
    [] OTHER -> {}

\* What resume answers: the run is neither ended nor waiting for a person.
Runnable(p) ==
  p.status \notin TerminalStatuses \cup {"waiting_for_input", "waiting_for_approval"}

\* mutant: an approval leaves the run for someone to resume
MutEnqueues(call, v) ==
  /\ backend = "postgres"
  /\ \/ EventsOf(call, v) # {} /\ call.op \in {"submit_input", "reject"}
     \/ call.op = "resume" /\ Runnable(v.run)

\* The command commits a wake-up: #canCommitAutomaticWakeup holds on PostgreSQL only.
Enqueues(call, v) ==
  /\ backend = "postgres"
  /\ \/ EventsOf(call, v) # {} /\ (call.op = "submit_input" \/ Decides(call))
     \/ call.op = "resume" /\ Runnable(v.run)

\* consumeDecisionChallenge on the row as it is now.  Only the memory store asks
\* whether the challenge is still the active one.
consumable(call, v) ==
  /\ backend = "memory" => active = call.arg
  /\ challenges[call.arg].by \in {None, call.id}
  /\ v.at < challenges[call.arg].expires

\* mutant: the transaction trusts what the callback read of run and challenge
MutStorable(call, v) ==
  /\ EventsOf(call, v) # {} /\ call.op = "submit_input" => input = None
  /\ Enqueues(call, v) => wakeups[call.id] = "none"

\* The transaction finds the rows it needs: the stream still ends where the run was
\* read, the record is new, the wake-up's deduplication key is free.
Storable(call, v) ==
  /\ EventsOf(call, v) # {} => run.lastSequence = v.run.lastSequence
  /\ EventsOf(call, v) # {} /\ call.op = "submit_input" => input = None
  /\ Decides(call) => consumable(call, v)
  /\ Enqueues(call, v) => wakeups[call.id] = "none"

Stamp(call) == [op |-> call.op, id |-> call.id]

\* The records of each operation after its command.
submitInput(call, v) ==
  IF call.op = "submit_input" /\ v.input = None
  THEN [value |-> call.arg, by |-> call.id] ELSE input

putDecisionChallenge(call) ==
  CASE call.op = "issue_challenge" ->
         [challenges EXCEPT ![call.id] = [expires |-> call.expires, by |-> None]]
    [] Decides(call) -> [challenges EXCEPT ![call.arg].by = call.id]
    [] OTHER -> challenges

\* An approval is valid as long as its challenge was.
decideApprove(call) ==
  IF call.op = "approve"
  THEN [challenge |-> call.arg, by |-> call.id, expires |-> challenges[call.arg].expires]
  ELSE approval

decideReject(call) ==
  IF call.op = "reject" /\ rejection = None
  THEN [challenge |-> call.arg, by |-> call.id] ELSE rejection

recordCommand(call, v) ==
  [op |-> call.op, id |-> call.id, arg |-> call.arg,
   execute |-> call.op = "resume" /\ Runnable(v.run)]

\* The writes of a committed command.
Write(call, v) ==
  /\ \/ EventsOf(call, v) = {} /\ UNCHANGED <<run, log>>
     \/ \E e \in EventsOf(call, v) :
          /\ run' = Reduce(v.run, e)
          /\ log' = Append(log, [type |-> e.type, by |-> Stamp(call)])
  /\ commands' = commands \cup {recordCommand(call, v)}
  /\ input' = submitInput(call, v)
  /\ challenges' = putDecisionChallenge(call)
  /\ active' = IF call.op = "issue_challenge" THEN call.id ELSE active
  /\ approval' = decideApprove(call)
  /\ rejection' = decideReject(call)

\* resume without a background scheduler executes the run itself, on a replay too.
Executes(call, execute) ==
  IF backend = "memory" /\ execute /\ wakeups[call.id] # "claimed"
  THEN [wakeups EXCEPT ![call.id] = "pending"] ELSE wakeups

Finish(c, v) ==
  IF Storable(client[c], v)
  THEN /\ Write(client[c], v)
       /\ wakeups' = IF Enqueues(client[c], v)
                     THEN [wakeups EXCEPT ![client[c].id] = "pending"]
                     ELSE Executes(client[c], recordCommand(client[c], v).execute)
       /\ Answer(c, "done")
  ELSE Refuse(c)

\* mutant: no advisory lock on the command scope
MutLocked(c) == FALSE

\* Another transaction of the same scope holds the advisory lock.
Locked(c) ==
  \E d \in Clients \ {c} : client[d].pc = "commit" /\ SameScope(client[d], client[c])

\* transactCommand: a committed scope is replayed or refused by its digest; else the
\* callback runs, up to its end in memory, up to its writes on PostgreSQL.
transactCommand(c) ==
  /\ client[c].pc = "begin"
  /\ ~Locked(c)
  /\ LET call == client[c] IN
     \/ \E r \in Prior(call) :
          /\ IF r.arg = call.arg
             THEN /\ Answer(c, "done")
                  /\ wakeups' = Executes(call, r.execute)
                  /\ UNCHANGED stores
             ELSE Refuse(c)
          /\ UNCHANGED drafted
     \/ /\ Prior(call) = {}
        /\ drafted' = IF call.op = "approve" /\ Accepts(call, Snapshot)
                      THEN [drafted EXCEPT ![call.id] = call.arg] ELSE drafted
        /\ IF ~Accepts(call, Snapshot) THEN Refuse(c)
           ELSE IF backend = "memory" THEN Finish(c, Snapshot)
           ELSE /\ client' = [client EXCEPT ![c] =
                                [[call EXCEPT !.pc = "commit"] EXCEPT !.view = Snapshot]]
                /\ UNCHANGED <<stores, wakeups>>
  /\ UNCHANGED <<backend, issued, claimed, exec, now, calls>>

\* The writes and the end of a PostgreSQL transaction.
Commit(c) ==
  /\ client[c].pc = "commit"
  /\ Finish(c, client[c].view)
  /\ UNCHANGED <<backend, issued, drafted, claimed, exec, now, calls>>

\* The caller's process dies on PostgreSQL: an open transaction is rolled back.
CallerDies(c) ==
  /\ backend = "postgres" /\ client[c].pc # "idle"
  /\ client' = [client EXCEPT ![c] = Idle]
  /\ UNCHANGED <<backend, stores, issued, drafted, claimed, wakeups, exec, now, calls>>

\* -------------------------------------------------------------- execution

\* A worker claims a wake-up, or the process runs a pending execute; the run lease
\* lets one execution at a time in.  It reads the run.
Execute ==
  /\ exec.pc = "rest"
  /\ \E k \in DOMAIN wakeups :
       /\ wakeups[k] = "pending"
       /\ wakeups' = [wakeups EXCEPT ![k] = "claimed"]
       /\ exec' = [pc |-> "run", wake |-> k, view |-> run]
  /\ UNCHANGED <<backend, stores, issued, drafted, claimed, client, now, calls>>

\* execute returns (parked or ended): the wake-up is completed.
Returns ==
  /\ exec.pc = "run" /\ ~Runnable(exec.view)
  /\ wakeups' = [wakeups EXCEPT ![exec.wake] = "completed"]
  /\ exec' = Resting
  /\ UNCHANGED <<backend, stores, issued, drafted, claimed, client, now, calls>>

\* execute throws: the worker releases the wake-up for another try.
Throws ==
  /\ wakeups' = [wakeups EXCEPT ![exec.wake] =
                   IF backend = "postgres" THEN "pending" ELSE "completed"]
  /\ exec' = Resting

\* While planning, the model may ask for the input, once.
InputRequests == IF input = None THEN {EvId("InputRequested", Request)} ELSE {}

\* #approvedToolCall: the tool call finds the approval its stream records.
approvedToolCall == approval # None

\* The tool call needs the approval: it asks for it, and goes on once it has claimed it.
ApprovalRequests ==
  IF ~approvedToolCall THEN {EvId("ApprovalRequested", Decision)}
  ELSE IF claimed # None THEN {Ev("VerificationStarted")} ELSE {}

\* The next event of an execution, by what it last knew of the run.
NextEvents(p) ==
  CASE p.status = "accepted"  -> {Ev("PlanningStarted")}
    [] p.status = "planning"  -> {Ev("ExecutionStarted")} \cup InputRequests
    [] p.status = "running"   -> ApprovalRequests
    [] p.status = "verifying" -> {Ev("RunCompleted")}
    [] OTHER -> {}

\* #append: the event is written if the stream still ends where the execution
\* believes; otherwise the execution throws.
append ==
  /\ exec.pc = "run"
  /\ \E e \in NextEvents(exec.view) :
       IF run.lastSequence = exec.view.lastSequence
       THEN /\ run' = Reduce(run, e)
            /\ log' = Append(log, [type |-> e.type, by |-> None])
            /\ exec' = [exec EXCEPT !.view = run']
            /\ UNCHANGED wakeups
       ELSE Throws /\ UNCHANGED <<run, log>>
  /\ UNCHANGED <<commands, input, challenges, active, approval, rejection>>
  /\ UNCHANGED <<backend, issued, drafted, claimed, client, now, calls>>

\* mutant: an expired approval still authorizes the call
MutUnexpired == TRUE

\* claimApproval's check of the recorded approval.
Unexpired == now < approval.expires

\* The tool call claims the recorded approval; an approval that expired before it was
\* claimed makes the execution throw, and the run stays as it is.
claimApproval ==
  /\ exec.pc = "run" /\ exec.view.status = "running"
  /\ approvedToolCall /\ claimed = None
  /\ IF Unexpired
     THEN claimed' = now /\ UNCHANGED <<wakeups, exec>>
     ELSE Throws /\ UNCHANGED claimed
  /\ UNCHANGED <<backend, stores, issued, drafted, client, now, calls>>

\* The executing process dies on PostgreSQL; its claim lapses and is recovered.
ExecutorDies ==
  /\ backend = "postgres" /\ exec.pc = "run"
  /\ Throws
  /\ UNCHANGED <<backend, stores, issued, drafted, claimed, client, now, calls>>

Tick ==
  /\ now < MaxTime
  /\ now' = now + 1
  /\ UNCHANGED <<backend, stores, issued, drafted, claimed, wakeups, client, exec, calls>>

Next ==
  \/ \E c \in Clients :
       Call(c) \/ issue(c) \/ transactCommand(c) \/ Commit(c) \/ CallerDies(c)
  \/ Execute \/ Returns \/ append \/ claimApproval \/ ExecutorDies \/ Tick

Spec == Init /\ [][Next]_vars

\* ------------------------------------------------------------- properties

Calls ==
  [pc : {"idle", "issue", "begin", "commit"}, op : Ops \cup {None},
   id : CommandIds \cup {None}, arg : Values \cup CommandIds \cup {None},
   expires : Nat, answer : {None, "done", "refused"},
   view : {None} \cup [run : Projections, active : CommandIds \cup {None},
                       input : Inputs \cup {None}, at : Nat]]

\* Every variable has its type, and the wake-up being worked on is the execution's.
TypeOK ==
  /\ backend \in Backends /\ run \in Projections
  /\ log \in Seq([type : EventTypes,
                  by : {None, Start} \cup [op : Ops, id : CommandIds]])
  /\ commands \subseteq [op : Ops, id : CommandIds,
                        arg : Values \cup CommandIds \cup {None}, execute : BOOLEAN]
  /\ input \in Inputs \cup {None}
  /\ issued \in [CommandIds -> Nat \cup {None}]
  /\ drafted \in [CommandIds -> CommandIds \cup {None}]
  /\ challenges \in [CommandIds -> Challenges \cup {None}]
  /\ active \in CommandIds \cup {None}
  /\ approval \in Approvals \cup {None}
  /\ rejection \in Rejections \cup {None}
  /\ claimed \in Nat \cup {None}
  /\ wakeups \in [CommandIds \cup {Start} -> {"none", "pending", "claimed", "completed"}]
  /\ client \in [Clients -> Calls]
  /\ exec \in [pc : {"rest", "run"}, wake : CommandIds \cup {Start, None},
              view : Projections \cup {None}]
  /\ \A k \in DOMAIN wakeups : (wakeups[k] = "claimed") = (exec.wake = k)
  /\ now \in 0..MaxTime /\ calls \in 0..MaxCalls

Positions(types) == {i \in 1..Len(log) : log[i].type \in types}

\* Two deciders, each with a proof that was valid when it was read: the decision has
\* one outcome, the stream, the approval, the rejection and the consumed challenge
\* tell of the same command, and no other challenge was used up.
DecidedOnce ==
  LET at == Positions({"ApprovalRecorded", "ApprovalRejected"})
      used == {id \in CommandIds : challenges[id] # None /\ challenges[id].by # None}
  IN /\ Cardinality(at) <= 1
     /\ (approval # None) = (Positions({"ApprovalRecorded"}) # {})
     /\ (rejection # None) = (Positions({"ApprovalRejected"}) # {})
     /\ used = {r.challenge : r \in {approval, rejection} \ {None}}
     /\ \A i \in at, r \in {approval, rejection} \ {None} :
          log[i].by.id = r.by /\ challenges[r.challenge].by = r.by

\* The input is submitted once, whoever raced for it, and every submit that was
\* answered, replays and late ones included, named the value that is stored.
InputAgrees ==
  /\ (input # None) = (Positions({"InputSubmitted"}) # {})
  /\ Cardinality(Positions({"InputSubmitted"})) <= 1
  /\ \A i \in Positions({"InputSubmitted"}) : log[i].by.id = input.by
  /\ \A r \in commands : r.op = "submit_input" => r.arg = input.value

\* What people answered counts once: the decision has one outcome and the input one value,
\* in the stream, in the records and in every answer that was given.
AnsweredOnce == TypeOK /\ DecidedOnce /\ InputAgrees

\* A run that can go on is never forgotten: on PostgreSQL some wake-up for it is
\* waiting or being worked on, however the answer that made it runnable raced with
\* the execution that was just parking.
WakeupNotLost ==
  backend = "postgres" /\ Runnable(run) =>
    \E k \in DOMAIN wakeups : wakeups[k] \in {"pending", "claimed"}

\* The run goes past the decision only under an approval recorded in its stream and
\* claimed while it was valid.
ActsUnderApproval ==
  \A i \in Positions({"VerificationStarted"}) :
    /\ \E j \in Positions({"ApprovalRecorded"}) : j < i
    /\ claimed # None /\ claimed < approval.expires

\* c's call of an operation in ops ends with a refusal although its command is
\* committed with the same digest.
RefusesCommitted(c, ops) ==
  /\ client[c].pc # "idle" /\ client[c].op \in ops
  /\ client'[c].pc = "idle" /\ client'[c].answer = "refused"
  /\ \E r \in Prior(client[c]) : r.arg = client[c].arg

\* Repeating a command that committed is answered with the stored response, also when
\* both calls are under way at once: the scope's lock makes the second one wait.
RepeatedCommandReplays ==
  [][\A c \in Clients : ~RefusesCommitted(c, Ops \ {"issue_challenge"})]_vars

\* runtime.test.ts repeats an issueDecisionChallenge command and expects the same
\* challenge; the issuer calls itself command-idempotent.
RepeatedIssueReplays ==
  [][\A c \in Clients : ~RefusesCommitted(c, {"issue_challenge"})]_vars
=============================================================================
