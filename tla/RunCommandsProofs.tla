------------------------- MODULE RunCommandsProofs --------------------------
(***************************************************************************)
(* What RunCommands promises, for any clients, command ids, values and     *)
(* bounds: what people answer counts once (AnsweredOnce), a run that can   *)
(* go on keeps a wake-up (WakeupNotLost), it goes past the decision only   *)
(* under a valid approval (ActsUnderApproval), and a repeated command is   *)
(* answered with its stored response (RepeatedCommandReplays).             *)
(*                                                                         *)
(* The argument.  A callback and an execution work on a copy of the run    *)
(* that may be old; a copy with the stream's last sequence is the run      *)
(* itself (ViewsCurrent), so whoever may append appends to what it read.   *)
(* The scope lock and the command table make a command commit once         *)
(* (ScopesOnce).  The run's status tells which answers are recorded        *)
(* (StatusTells), and from that the rest follows.                          *)
(***************************************************************************)
EXTENDS RunCommands, FiniteSetTheorems, TLAPS

----------------------------------------------------------------------------
\* The inductive invariant.

\* A copy of the run: it is the run, or the stream has moved on since.
CopyOf(p) ==
  /\ p \in Projections
  /\ p.lastSequence <= run.lastSequence
  /\ p.lastSequence = run.lastSequence => p = run

\* A callback's snapshot; an input record it saw is still the stored one.
Seen(v) ==
  /\ v \in [run : Projections, active : CommandIds \cup {None},
            input : Inputs \cup {None}, at : Nat]
  /\ CopyOf(v.run)
  /\ v.input # None => v.input = input

\* What the callback of a call established on its snapshot.
Justified(call, v) ==
  /\ call.op = "submit_input" =>
       IF v.input = None THEN v.run.status = "waiting_for_input"
                         ELSE v.input.value = call.arg
  /\ Decides(call) => v.run.status = "waiting_for_approval"

\* A call under way names an operation, a command and its payload: a value, or for a
\* decision a challenge that exists.
CallFormed(call) ==
  /\ call.pc # "idle" => call.op \in Ops /\ call.id \in CommandIds
  /\ call.pc = "issue" => call.op = "issue_challenge"
  /\ call.pc # "idle" /\ call.op = "submit_input" => call.arg \in Values
  /\ call.pc # "idle" /\ Decides(call) =>
       call.arg \in CommandIds /\ challenges[call.arg] # None

\* Whoever works on a copy of the run has a faithful one.
ViewsCurrent ==
  /\ exec.pc = "rest" => exec = Resting
  /\ exec.pc = "run" => CopyOf(exec.view) /\ exec.wake \in DOMAIN wakeups
  /\ \A c \in Clients :
       /\ CallFormed(client[c])
       /\ client[c].pc = "commit" =>
            Seen(client[c].view) /\ Justified(client[c], client[c].view)

\* A scope is committed once: only one transaction of it is open, and none once it
\* has committed.
ScopesOnce ==
  /\ \A r, s \in commands : SameScope(r, s) => r = s
  /\ \A c \in Clients : client[c].pc = "commit" =>
       /\ backend = "postgres"
       /\ Prior(client[c]) = {}
       /\ \A d \in Clients \ {c} :
            client[d].pc = "commit" => ~SameScope(client[d], client[c])
  /\ \A id \in CommandIds : challenges[id] # None =>
       \E r \in commands : r.op = "issue_challenge" /\ r.id = id

\* What the status of the run tells about the answers recorded.
StatusTells ==
  /\ run.status = "waiting_for_approval" => approval = None
  /\ approval # None => run.status \in {"running", "verifying", "completed", "cancelled"}
  /\ rejection # None => approval = None /\ run.status = "failed"

\* Stream s has an event of a type.
Logged(s, type) == \E i \in 1..Len(s) : s[i].type = type

\* It has one at most, and then it is the one the record's command appended.
LoggedOnce(s, type, record) ==
  \A i \in 1..Len(s) : s[i].type = type =>
    /\ record # None
    /\ s[i].by.id = record.by
    /\ \A j \in 1..Len(s) : s[j].type = type => i = j

\* The challenge of a decision is used by its command.
UsedBy(record) ==
  record # None =>
    /\ challenges[record.challenge] # None
    /\ challenges[record.challenge].by = record.by

\* Each stored answer has its one event, and each used challenge, input command and
\* event belongs to the answer stored.
AnswersRecorded ==
  /\ approval # None => Logged(log, "ApprovalRecorded")
  /\ LoggedOnce(log, "ApprovalRecorded", approval)
  /\ rejection # None => Logged(log, "ApprovalRejected")
  /\ LoggedOnce(log, "ApprovalRejected", rejection)
  /\ input # None => Logged(log, "InputSubmitted")
  /\ LoggedOnce(log, "InputSubmitted", input)
  /\ UsedBy(approval) /\ UsedBy(rejection)
  /\ \A id \in CommandIds : challenges[id] # None /\ challenges[id].by # None =>
       \/ approval # None /\ approval.challenge = id
       \/ rejection # None /\ rejection.challenge = id
  /\ \A r \in commands : r.op = "submit_input" => input # None /\ r.arg = input.value

\* A stale execution has a wake-up behind it that will run what it missed.
WakeupsKept ==
  /\ WakeupNotLost
  /\ backend = "postgres" /\ Runnable(run) /\ exec.pc = "run" /\ exec.view # run =>
       \E k \in DOMAIN wakeups : wakeups[k] = "pending"

\* An approval was claimed before it ran out, and the run acts under it.
ClaimsValid ==
  /\ claimed # None => approval # None /\ claimed < approval.expires
  /\ ActsUnderApproval

\* The inductive invariant: types, copies, scopes, status, answers, wake-ups, claims.
CommandInv ==
  /\ TypeOK
  /\ ViewsCurrent
  /\ ScopesOnce
  /\ StatusTells
  /\ AnswersRecorded
  /\ WakeupsKept
  /\ ClaimsValid

----------------------------------------------------------------------------
\* What a step does to the run and its stream.

\* The events the run's actors write.
RunEvents ==
  {Ev(t) : t \in {"RunAccepted", "PlanningStarted", "ExecutionStarted", "InputSubmitted",
                  "VerificationStarted", "RunCompleted", "RunCancelled"}}
  \cup {EvId("InputRequested", Request), EvId("ApprovalRequested", Decision)}
  \cup {[Ev("ApprovalRecorded") EXCEPT !.target = "running"],
        [Ev("ApprovalRejected") EXCEPT !.target = "failed"]}

\* The payload of such an event has its type, and the event moves the run.
LEMMA RunEventForms ==
  ASSUME NEW e \in RunEvents
  PROVE  /\ e.type \in EventTypes /\ e.required = {}
         /\ nextStatusFor(e) \in Statuses /\ nextStatusFor(e) # None
         /\ e.type \in {"InputRequested", "ApprovalRequested"} => e.id \in Ids
         /\ e.type \in {"RunAccepted", "PlanningStarted", "ExecutionStarted", "InputSubmitted",
                        "VerificationStarted", "RunCompleted", "RunCancelled",
                        "InputRequested", "ApprovalRequested", "ApprovalRecorded",
                        "ApprovalRejected"}
  BY CommandAssumption, NoneIsNoId
  DEF RunEvents, Ev, EvId, nextStatusFor, Statuses, TerminalStatuses, EventTypes

\* Reducing such an event gives a projection one event further, in the event's status.
LEMMA ReduceMoves ==
  ASSUME NEW p \in Projections, NEW e \in RunEvents
  PROVE  /\ Reduce(p, e) \in Projections
         /\ Reduce(p, e).lastSequence = p.lastSequence + 1
         /\ Reduce(p, e).status = nextStatusFor(e)
  <1> DEFINE a == IF nextStatusFor(e) = None THEN p.status ELSE nextStatusFor(e)
             b == IF e.type = "RunAccepted" THEN e.required ELSE p.required
             d == CASE e.type = "InputRequested" -> e.id
                    [] e.type = "InputSubmitted" -> None
                    [] OTHER -> p.waitingRequestId
             f == CASE e.type = "ApprovalRequested" -> e.id
                    [] e.type \in {"ApprovalRecorded", "ApprovalRejected"} -> None
                    [] OTHER -> p.waitingDecisionId
             g == CASE e.type = "RunSuspended" -> e.target
                    [] e.type \in {"PlanningStarted", "ExecutionStarted", "VerificationStarted"} -> None
                    [] OTHER -> p.resumeTarget
             h == CASE e.type \in {"RunSuspended", "EffectPrepared"} -> e.id
                    [] e.type \in {"EffectAcknowledged", "EffectAbandoned"} -> None
                    [] OTHER -> p.activeEffectId
             j == IF e.type = "VerificationExceptionRecorded"
                  THEN p.exceptions \cup {e.verifier} ELSE p.exceptions
             k == IF e.type = "RunFailed" THEN TRUE ELSE p.terminalError
  <1>1. a = nextStatusFor(e) /\ a \in Statuses /\ b \in SUBSET Verifiers
        /\ j \in SUBSET Verifiers /\ Passed(p, e) \in SUBSET Verifiers
    BY RunEventForms DEF Projections, Passed
  <1>2. d \in Ids \cup {None} /\ f \in Ids \cup {None} /\ h \in Ids \cup {None}
    BY RunEventForms DEF Projections
  <1>3. g \in ResumeTargets \cup {None}
    BY RunEventForms DEF Projections
  <1>4. k \in BOOLEAN
    BY DEF Projections
  <1>5. Reduce(p, e) = [kind |-> p.kind, status |-> a, lastSequence |-> p.lastSequence + 1,
          required |-> b, waitingRequestId |-> d, waitingDecisionId |-> f, resumeTarget |-> g,
          activeEffectId |-> h, passed |-> Passed(p, e), exceptions |-> j, terminalError |-> k]
    BY DEF Reduce
  <1>6. p.kind \in Kinds /\ p.lastSequence + 1 \in Nat
    BY DEF Projections
  <1> HIDE DEF a, b, d, f, g, h, j, k
  <1> QED
    BY <1>1, <1>2, <1>3, <1>4, <1>5, <1>6 DEF Projections

\* One event of the given type and author is appended, and moves the run to a status.
Appended(type, status, by) ==
  /\ run' \in Projections
  /\ run'.lastSequence = run.lastSequence + 1
  /\ run'.status = status
  /\ log' = Append(log, [type |-> type, by |-> by])

\* A stream with one more event.
LEMMA LogGrows ==
  ASSUME TypeOK, NEW type, NEW by, log' = Append(log, [type |-> type, by |-> by])
  PROVE  /\ Len(log') = Len(log) + 1 /\ Len(log) \in Nat
         /\ \A i \in 1..Len(log) : log'[i] = log[i]
         /\ log'[Len(log) + 1] = [type |-> type, by |-> by]
  BY DEF TypeOK

\* The call c makes commits what its callback decided on v.
Committing(c, v) ==
  /\ client[c].pc \in {"begin", "commit"}
  /\ Seen(v) /\ Justified(client[c], v)
  /\ Prior(client[c]) = {} /\ ~Locked(c)
  /\ Storable(client[c], v)
  /\ Write(client[c], v)

\* The five things a committed command writes besides itself.
WritesInput(call) ==
  /\ call.op = "submit_input" /\ input = None /\ run.status = "waiting_for_input"
  /\ Appended("InputSubmitted", "planning", Stamp(call))
  /\ input' = [value |-> call.arg, by |-> call.id]
  /\ UNCHANGED <<challenges, active, approval, rejection>>

WritesChallenge(call) ==
  /\ call.op = "issue_challenge"
  /\ challenges' = [challenges EXCEPT ![call.id] = [expires |-> call.expires, by |-> None]]
  /\ active' = call.id
  /\ UNCHANGED <<run, log, input, approval, rejection>>

WritesApproval(call) ==
  /\ call.op = "approve" /\ run.status = "waiting_for_approval"
  /\ Appended("ApprovalRecorded", "running", Stamp(call))
  /\ approval' = [challenge |-> call.arg, by |-> call.id,
                  expires |-> challenges[call.arg].expires]
  /\ challenges' = [challenges EXCEPT ![call.arg].by = call.id]
  /\ UNCHANGED <<input, active, rejection>>

WritesRejection(call) ==
  /\ call.op = "reject" /\ run.status = "waiting_for_approval"
  /\ Appended("ApprovalRejected", "failed", Stamp(call))
  /\ rejection' = [challenge |-> call.arg, by |-> call.id]
  /\ challenges' = [challenges EXCEPT ![call.arg].by = call.id]
  /\ UNCHANGED <<input, active, approval>>

WritesCancel(call) ==
  /\ call.op = "cancel" /\ run.status \notin TerminalStatuses
  /\ Appended("RunCancelled", "cancelled", Stamp(call))
  /\ UNCHANGED <<input, challenges, active, approval, rejection>>

WritesNothing(call) ==
  /\ call.op \in {"submit_input", "cancel", "resume"}
  /\ call.op = "submit_input" => input # None /\ call.arg = input.value
  /\ UNCHANGED <<run, log, input, challenges, active, approval, rejection>>

\* A committed command does one of them.
LEMMA CommitCases ==
  ASSUME CommandInv, NEW c \in Clients, NEW v, Committing(c, v)
  PROVE  \/ WritesInput(client[c]) \/ WritesChallenge(client[c])
         \/ WritesApproval(client[c]) \/ WritesRejection(client[c])
         \/ WritesCancel(client[c]) \/ WritesNothing(client[c])
  <1> DEFINE call == client[c]
  <1>1. call.op \in Ops /\ call.id \in CommandIds
    BY DEF CommandInv, ViewsCurrent, CallFormed, Committing
  <1>2. /\ Write(call, v) /\ Storable(call, v) /\ Seen(v) /\ Justified(call, v)
        /\ run \in Projections /\ v.run \in Projections
    BY DEF Committing, CommandInv, TypeOK, Seen, CopyOf
  <1>3. ASSUME NEW e \in RunEvents, EventsOf(call, v) = {e}
        PROVE  v.run = run /\ Appended(e.type, nextStatusFor(e), Stamp(call))
    <2>1. v.run = run
      BY <1>2, <1>3 DEF Storable, Seen, CopyOf
    <2>2. run' = Reduce(run, e) /\ log' = Append(log, [type |-> e.type, by |-> Stamp(call)])
      BY <1>2, <1>3, <2>1 DEF Write
    <2> QED
      BY <1>2, <2>1, <2>2, ReduceMoves DEF Appended
  <1>4. EventsOf(call, v) = {} => UNCHANGED <<run, log>>
    BY <1>2 DEF Write
  <1> HIDE DEF call
  <1>5. CASE call.op = "submit_input" /\ v.input = None
    <2> DEFINE e == Ev("InputSubmitted")
    <2>1. e \in RunEvents /\ e.type = "InputSubmitted" /\ nextStatusFor(e) = "planning"
      BY DEF RunEvents, Ev, nextStatusFor
    <2>2. EventsOf(call, v) = {e}
      BY <1>5 DEF EventsOf
    <2> HIDE DEF e
    <2>3. v.run = run /\ Appended("InputSubmitted", "planning", Stamp(call))
      BY <1>3, <2>1, <2>2
    <2>4. input = None /\ run.status = "waiting_for_input"
      BY <1>2, <1>5, <2>2, <2>3 DEF Storable, Justified
    <2>5. /\ input' = [value |-> call.arg, by |-> call.id]
          /\ UNCHANGED <<challenges, active, approval, rejection>>
      BY <1>2, <1>5 DEF Write, submitInput, putDecisionChallenge, decideApprove, decideReject,
                        Decides
    <2> QED
      BY <1>5, <2>3, <2>4, <2>5 DEF WritesInput, call
  <1>6. CASE call.op = "submit_input" /\ v.input # None
    <2>1. EventsOf(call, v) = {}
      BY <1>6 DEF EventsOf
    <2>2. UNCHANGED <<input, challenges, active, approval, rejection>>
      BY <1>2, <1>6 DEF Write, submitInput, putDecisionChallenge, decideApprove, decideReject,
                        Decides
    <2>3. input # None /\ call.arg = input.value
      BY <1>2, <1>6 DEF Seen, Justified
    <2> QED
      BY <1>4, <1>6, <2>1, <2>2, <2>3 DEF WritesNothing, call
  <1>7. CASE call.op = "issue_challenge"
    <2>1. EventsOf(call, v) = {}
      BY <1>7 DEF EventsOf
    <2>2. /\ challenges' = [challenges EXCEPT ![call.id] = [expires |-> call.expires, by |-> None]]
          /\ active' = call.id
          /\ UNCHANGED <<input, approval, rejection>>
      BY <1>2, <1>7 DEF Write, submitInput, putDecisionChallenge, decideApprove, decideReject,
                        Decides
    <2> QED
      BY <1>4, <1>7, <2>1, <2>2 DEF WritesChallenge, call
  <1>8. CASE call.op = "approve"
    <2> DEFINE e == [Ev("ApprovalRecorded") EXCEPT !.target = "running"]
    <2>1. e \in RunEvents /\ e.type = "ApprovalRecorded" /\ nextStatusFor(e) = "running"
      BY DEF RunEvents, Ev, nextStatusFor
    <2>2. EventsOf(call, v) = {e}
      BY <1>8 DEF EventsOf
    <2> HIDE DEF e
    <2>3. v.run = run /\ Appended("ApprovalRecorded", "running", Stamp(call))
      BY <1>3, <2>1, <2>2
    <2>4. run.status = "waiting_for_approval"
      BY <1>2, <1>8, <2>3 DEF Justified, Decides
    <2>5. /\ approval' = [challenge |-> call.arg, by |-> call.id,
                          expires |-> challenges[call.arg].expires]
          /\ challenges' = [challenges EXCEPT ![call.arg].by = call.id]
          /\ UNCHANGED <<input, active, rejection>>
      BY <1>2, <1>8 DEF Write, submitInput, putDecisionChallenge, decideApprove, decideReject,
                        Decides
    <2> QED
      BY <1>8, <2>3, <2>4, <2>5 DEF WritesApproval, call
  <1>9. CASE call.op = "reject"
    <2> DEFINE e == [Ev("ApprovalRejected") EXCEPT !.target = "failed"]
    <2>1. e \in RunEvents /\ e.type = "ApprovalRejected" /\ nextStatusFor(e) = "failed"
      BY DEF RunEvents, Ev, nextStatusFor
    <2>2. EventsOf(call, v) = {e}
      BY <1>9 DEF EventsOf
    <2> HIDE DEF e
    <2>3. v.run = run /\ Appended("ApprovalRejected", "failed", Stamp(call))
      BY <1>3, <2>1, <2>2
    <2>4. run.status = "waiting_for_approval"
      BY <1>2, <1>9, <2>3 DEF Justified, Decides
    <2>5. rejection = None
      BY <2>4 DEF CommandInv, StatusTells
    <2>6. /\ rejection' = [challenge |-> call.arg, by |-> call.id]
          /\ challenges' = [challenges EXCEPT ![call.arg].by = call.id]
          /\ UNCHANGED <<input, active, approval>>
      BY <1>2, <1>9, <2>5 DEF Write, submitInput, putDecisionChallenge, decideApprove,
                              decideReject, Decides
    <2> QED
      BY <1>9, <2>3, <2>4, <2>6 DEF WritesRejection, call
  <1>10. CASE call.op = "cancel" /\ v.run.status \notin TerminalStatuses
    <2> DEFINE e == Ev("RunCancelled")
    <2>1. e \in RunEvents /\ e.type = "RunCancelled" /\ nextStatusFor(e) = "cancelled"
      BY DEF RunEvents, Ev, nextStatusFor
    <2>2. EventsOf(call, v) = {e}
      BY <1>10 DEF EventsOf
    <2> HIDE DEF e
    <2>3. v.run = run /\ Appended("RunCancelled", "cancelled", Stamp(call))
      BY <1>3, <2>1, <2>2
    <2>4. UNCHANGED <<input, challenges, active, approval, rejection>>
      BY <1>2, <1>10 DEF Write, submitInput, putDecisionChallenge, decideApprove, decideReject,
                         Decides
    <2> QED
      BY <1>10, <2>3, <2>4 DEF WritesCancel, call
  <1>11. CASE call.op = "resume" \/ (call.op = "cancel" /\ v.run.status \in TerminalStatuses)
    <2>1. EventsOf(call, v) = {}
      BY <1>11 DEF EventsOf
    <2>2. UNCHANGED <<input, challenges, active, approval, rejection>>
      BY <1>2, <1>11 DEF Write, submitInput, putDecisionChallenge, decideApprove, decideReject,
                         Decides
    <2> QED
      BY <1>4, <1>11, <2>1, <2>2 DEF WritesNothing, call
  <1> QED
    BY <1>1, <1>5, <1>6, <1>7, <1>8, <1>9, <1>10, <1>11 DEF Ops, call

----------------------------------------------------------------------------
\* A committed command keeps the invariant.

\* A call that ends leaves its client idle and the other clients alone.
LEMMA AnswerEnds ==
  ASSUME TypeOK, NEW c \in Clients, NEW a \in {"done", "refused"}, Answer(c, a)
  PROVE  /\ client' \in [Clients -> Calls]
         /\ client'[c].pc = "idle" /\ client'[c].answer = a
         /\ \A d \in Clients \ {c} : client'[d] = client[d]
  <1>1. [Idle EXCEPT !.answer = a] \in Calls
    BY DEF Idle, Calls
  <1>2. [Idle EXCEPT !.answer = a].pc = "idle" /\ [Idle EXCEPT !.answer = a].answer = a
    BY DEF Idle
  <1> QED
    BY <1>1, <1>2 DEF Answer, TypeOK

\* The whole step of a committed command.
CommitStep(c, v) ==
  /\ Committing(c, v)
  /\ wakeups' = IF Enqueues(client[c], v)
                THEN [wakeups EXCEPT ![client[c].id] = "pending"]
                ELSE Executes(client[c], recordCommand(client[c], v).execute)
  /\ Answer(c, "done")
  /\ drafted' \in [CommandIds -> CommandIds \cup {None}]
  /\ UNCHANGED <<backend, issued, claimed, exec, now, calls>>

\* The caller's identifiers, and the challenge a decision is about.
LEMMA CommitCall ==
  ASSUME CommandInv, NEW c \in Clients, NEW v, Committing(c, v)
  PROVE  /\ client[c].op \in Ops /\ client[c].id \in CommandIds /\ client[c].expires \in Nat
         /\ client[c].arg \in Values \cup CommandIds \cup {None}
         /\ Decides(client[c]) =>
              client[c].arg \in CommandIds /\ challenges[client[c].arg] \in Challenges
         /\ commands' = commands \cup {recordCommand(client[c], v)}
         /\ client[c].op = "submit_input" => client[c].arg \in Values
  <1>1. client[c] \in Calls /\ CallFormed(client[c]) /\ client[c].pc # "idle"
    BY DEF CommandInv, TypeOK, ViewsCurrent, Committing
  <1>2. Decides(client[c]) =>
          client[c].arg \in CommandIds /\ challenges[client[c].arg] \in Challenges
    BY <1>1 DEF CallFormed, CommandInv, TypeOK
  <1> QED
    BY <1>1, <1>2 DEF CallFormed, Calls, Committing, Write

\* A wake-up a command touches was not being worked on.
LEMMA CommitWakeups ==
  ASSUME CommandInv, NEW c \in Clients, NEW v, CommitStep(c, v)
  PROVE  /\ wakeups' \in [CommandIds \cup {Start} -> {"none", "pending", "claimed", "completed"}]
         /\ \A k \in CommandIds \cup {Start} :
              \/ wakeups'[k] = wakeups[k]
              \/ wakeups'[k] = "pending" /\ wakeups[k] # "claimed"
  <1>1. client[c].id \in CommandIds
    BY CommitCall DEF CommitStep
  <1>2. CASE Enqueues(client[c], v)
    <2>1. wakeups[client[c].id] = "none"
      BY <1>2 DEF CommitStep, Committing, Storable
    <2> QED
      BY <1>1, <1>2, <2>1 DEF CommitStep, CommandInv, TypeOK
  <1>3. CASE ~Enqueues(client[c], v)
    BY <1>1, <1>3 DEF CommitStep, Executes, CommandInv, TypeOK
  <1> QED
    BY <1>2, <1>3

\* The rows a command writes have their types.
LEMMA CommitRows ==
  ASSUME CommandInv, NEW c \in Clients, NEW v, Committing(c, v)
  PROVE  /\ run' \in Projections
         /\ log' \in Seq([type : EventTypes,
                          by : {None, Start} \cup [op : Ops, id : CommandIds]])
         /\ commands' \subseteq [op : Ops, id : CommandIds,
                                 arg : Values \cup CommandIds \cup {None}, execute : BOOLEAN]
         /\ input' \in Inputs \cup {None}
         /\ challenges' \in [CommandIds -> Challenges \cup {None}]
         /\ active' \in CommandIds \cup {None}
         /\ approval' \in Approvals \cup {None}
         /\ rejection' \in Rejections \cup {None}
  <1> DEFINE call == client[c]
             Entries == [type : EventTypes, by : {None, Start} \cup [op : Ops, id : CommandIds]]
  <1>1. TypeOK
    BY DEF CommandInv
  <1>2. /\ call.op \in Ops /\ call.id \in CommandIds /\ call.expires \in Nat
        /\ call.arg \in Values \cup CommandIds \cup {None}
        /\ Decides(call) => call.arg \in CommandIds /\ challenges[call.arg] \in Challenges
        /\ commands' = commands \cup {recordCommand(call, v)}
        /\ call.op = "submit_input" => call.arg \in Values
    BY CommitCall
  <1>3. commands' \subseteq [op : Ops, id : CommandIds,
                             arg : Values \cup CommandIds \cup {None}, execute : BOOLEAN]
    <2>1. recordCommand(call, v) \in [op : Ops, id : CommandIds,
                             arg : Values \cup CommandIds \cup {None}, execute : BOOLEAN]
      BY <1>2 DEF recordCommand
    <2> QED
      BY <1>1, <1>2, <2>1 DEF TypeOK
  <1>4. Stamp(call) \in [op : Ops, id : CommandIds]
    BY <1>2 DEF Stamp
  <1>5. log \in Seq(Entries) /\ run \in Projections /\ input \in Inputs \cup {None}
        /\ challenges \in [CommandIds -> Challenges \cup {None}]
        /\ active \in CommandIds \cup {None} /\ approval \in Approvals \cup {None}
        /\ rejection \in Rejections \cup {None}
    BY <1>1 DEF TypeOK
  <1>6. ASSUME NEW type \in EventTypes, NEW status, Appended(type, status, Stamp(call))
        PROVE  run' \in Projections /\ log' \in Seq(Entries)
    <2>1. [type |-> type, by |-> Stamp(call)] \in Entries
      BY <1>4
    <2> HIDE DEF Entries
    <2> QED
      BY <1>5, <1>6, <2>1 DEF Appended
  <1>7. {"InputSubmitted", "ApprovalRecorded", "ApprovalRejected", "RunCancelled"}
        \subseteq EventTypes
    BY DEF EventTypes
  <1>8. Decides(call) =>
          /\ [challenges EXCEPT ![call.arg].by = call.id] \in [CommandIds -> Challenges \cup {None}]
          /\ challenges[call.arg].expires \in Nat
    BY <1>2, <1>5 DEF Challenges
  <1>9. CASE WritesInput(call)
    <2>1. run' \in Projections /\ log' \in Seq(Entries)
      BY <1>6, <1>7, <1>9 DEF WritesInput
    <2> QED
      BY <1>2, <1>3, <1>5, <1>9, <2>1 DEF WritesInput, Inputs
  <1>10. CASE WritesChallenge(call)
    <2>1. [expires |-> call.expires, by |-> None] \in Challenges
      BY <1>2 DEF Challenges
    <2> QED
      BY <1>2, <1>3, <1>5, <1>10, <2>1 DEF WritesChallenge
  <1>11. CASE WritesApproval(call)
    <2>1. run' \in Projections /\ log' \in Seq(Entries)
      BY <1>6, <1>7, <1>11 DEF WritesApproval
    <2> QED
      BY <1>2, <1>3, <1>5, <1>8, <1>11, <2>1 DEF WritesApproval, Decides, Approvals
  <1>12. CASE WritesRejection(call)
    <2>1. run' \in Projections /\ log' \in Seq(Entries)
      BY <1>6, <1>7, <1>12 DEF WritesRejection
    <2> QED
      BY <1>2, <1>3, <1>5, <1>8, <1>12, <2>1 DEF WritesRejection, Decides, Rejections
  <1>13. CASE WritesCancel(call)
    <2>1. run' \in Projections /\ log' \in Seq(Entries)
      BY <1>6, <1>7, <1>13 DEF WritesCancel
    <2> QED
      BY <1>3, <1>5, <1>13, <2>1 DEF WritesCancel
  <1>14. CASE WritesNothing(call)
    BY <1>3, <1>5, <1>14 DEF WritesNothing
  <1> QED
    BY <1>9, <1>10, <1>11, <1>12, <1>13, <1>14, CommitCases

(* A commit keeps the types. *)
LEMMA CommitTypes ==
  ASSUME CommandInv, NEW c \in Clients, NEW v, CommitStep(c, v)
  PROVE  TypeOK'
  <1>1. Committing(c, v) /\ Answer(c, "done") /\ TypeOK
    BY DEF CommitStep, CommandInv
  <1>2. client' \in [Clients -> Calls]
    BY <1>1, AnswerEnds
  <1>3. /\ wakeups' \in [CommandIds \cup {Start} -> {"none", "pending", "claimed", "completed"}]
        /\ \A k \in DOMAIN wakeups' : (wakeups'[k] = "claimed") = (exec'.wake = k)
    BY <1>1, CommitWakeups DEF CommitStep, TypeOK
  <1> QED
    BY <1>1, <1>2, <1>3, CommitRows DEF CommitStep, TypeOK

\* The stream grew by one event, or is as it was; a challenge stays, and so does the
\* input record.
LEMMA CommitGrows ==
  ASSUME CommandInv, NEW c \in Clients, NEW v, Committing(c, v)
  PROVE  /\ \/ UNCHANGED run
            \/ run' \in Projections /\ run'.lastSequence = run.lastSequence + 1
         /\ input # None => input' = input
         /\ \A id \in CommandIds : challenges[id] # None => challenges'[id] # None
  <1> DEFINE call == client[c]
  <1>1. challenges \in [CommandIds -> Challenges \cup {None}]
    BY DEF CommandInv, TypeOK
  <1>2. Decides(call) => call.arg \in CommandIds /\ challenges[call.arg] \in Challenges
    BY CommitCall
  <1>3. call.id \in CommandIds /\ call.expires \in Nat
    BY CommitCall
  <1>4. /\ \/ UNCHANGED run
           \/ run' \in Projections /\ run'.lastSequence = run.lastSequence + 1
        /\ input # None => input' = input
    BY CommitCases DEF WritesInput, WritesChallenge, WritesApproval, WritesRejection,
         WritesCancel, WritesNothing, Appended
  <1>5. None \notin Challenges
    BY CommandAssumption
  <1>6. CASE WritesChallenge(call)
    <2>1. [expires |-> call.expires, by |-> None] \in Challenges
      BY <1>3 DEF Challenges
    <2> QED
      BY <1>1, <1>3, <1>4, <1>5, <1>6, <2>1 DEF WritesChallenge
  <1>7. CASE WritesApproval(call) \/ WritesRejection(call)
    <2>1. challenges' = [challenges EXCEPT ![call.arg].by = call.id] /\ Decides(call)
      BY <1>7 DEF WritesApproval, WritesRejection, Decides
    <2>2. [challenges[call.arg] EXCEPT !.by = call.id] \in Challenges
      BY <1>2, <1>3, <2>1 DEF Challenges
    <2> QED
      BY <1>1, <1>2, <1>4, <1>5, <2>1, <2>2
  <1>8. CASE UNCHANGED challenges
    BY <1>4, <1>8
  <1> QED
    BY <1>6, <1>7, <1>8, CommitCases DEF WritesInput, WritesCancel, WritesNothing

(* After a commit the other callers' snapshots are still of an earlier or of the current state. *)
LEMMA CommitViews ==
  ASSUME CommandInv, NEW c \in Clients, NEW v, CommitStep(c, v)
  PROVE  ViewsCurrent'
  <1>1. /\ Committing(c, v) /\ Answer(c, "done") /\ TypeOK /\ ViewsCurrent
        /\ UNCHANGED exec /\ DOMAIN wakeups' = DOMAIN wakeups
    BY CommitWakeups DEF CommitStep, CommandInv, TypeOK
  <1>2. client'[c].pc = "idle" /\ \A d \in Clients \ {c} : client'[d] = client[d]
    BY <1>1, AnswerEnds
  <1>3. ASSUME NEW p, CopyOf(p)
        PROVE  p \in Projections /\ p.lastSequence <= run'.lastSequence
               /\ (p.lastSequence = run'.lastSequence => p = run')
    BY <1>1, <1>3, CommitGrows DEF CopyOf, Projections, TypeOK
  <1>4. (exec.pc = "run" => CopyOf(exec.view) /\ exec.wake \in DOMAIN wakeups)'
    BY <1>1, <1>3 DEF ViewsCurrent, CopyOf
  <1>5. ASSUME NEW d \in Clients
        PROVE  (/\ CallFormed(client[d])
                /\ client[d].pc = "commit" =>
                     Seen(client[d].view) /\ Justified(client[d], client[d].view))'
    <2>1. CASE d = c
      BY <1>2, <2>1 DEF CallFormed
    <2>2. CASE d # c
      <3>1. client'[d] = client[d] /\ CallFormed(client[d])
        BY <1>1, <1>2, <2>2 DEF ViewsCurrent
      <3>2. CallFormed(client[d])'
        BY <3>1, <1>1, CommitGrows DEF CallFormed, Decides
      <3>3. ASSUME client[d].pc = "commit"
            PROVE  (Seen(client[d].view) /\ Justified(client[d], client[d].view))'
        <4>1. Seen(client[d].view) /\ Justified(client[d], client[d].view)
          BY <1>1, <3>3 DEF ViewsCurrent
        <4>2. Justified(client[d], client[d].view)'
          BY <4>1, <3>1 DEF Justified, Decides
        <4>3. /\ CopyOf(client[d].view.run)
              /\ client[d].view.input # None => client[d].view.input = input'
          BY <1>1, <4>1, CommitGrows DEF Seen
        <4>4. Seen(client[d].view)'
          BY <1>3, <4>1, <4>3, <3>1 DEF Seen, CopyOf
        <4> QED
          BY <4>2, <4>4
      <3> QED
        BY <3>1, <3>2, <3>3
    <2> QED
      BY <2>1, <2>2
  <1>6. (exec.pc = "rest" => exec = Resting)'
    BY <1>1 DEF ViewsCurrent, Resting
  <1> QED
    BY <1>4, <1>5, <1>6 DEF ViewsCurrent

(* After a commit each command scope still has one row. *)
LEMMA CommitScopes ==
  ASSUME CommandInv, NEW c \in Clients, NEW v, CommitStep(c, v)
  PROVE  ScopesOnce'
  <1> DEFINE call == client[c]
             r == recordCommand(call, v)
  <1>1. /\ Committing(c, v) /\ Answer(c, "done") /\ TypeOK /\ ScopesOnce /\ UNCHANGED backend
        /\ Prior(call) = {} /\ ~Locked(c)
    BY DEF CommitStep, CommandInv, Committing
  <1>2. client'[c].pc = "idle" /\ \A d \in Clients \ {c} : client'[d] = client[d]
    BY <1>1, AnswerEnds
  <1>3. commands' = commands \cup {r} /\ call.id \in CommandIds
    BY <1>1, CommitCall
  <1>4. r.op = call.op /\ r.id = call.id
    BY DEF recordCommand
  <1> HIDE DEF r
  <1>5. (\A q, s \in commands : SameScope(q, s) => q = s)'
    BY <1>1, <1>3, <1>4 DEF ScopesOnce, SameScope, Prior
  <1>6. ASSUME NEW d \in Clients, client'[d].pc = "commit"
        PROVE  (/\ backend = "postgres"
                /\ Prior(client[d]) = {}
                /\ \A b \in Clients \ {d} :
                     client[b].pc = "commit" => ~SameScope(client[b], client[d]))'
    <2>1. d # c /\ client'[d] = client[d] /\ client[d].pc = "commit"
      BY <1>2, <1>6
    <2>2. /\ backend = "postgres" /\ Prior(client[d]) = {}
          /\ \A b \in Clients \ {d} :
               client[b].pc = "commit" => ~SameScope(client[b], client[d])
      BY <1>1, <2>1 DEF ScopesOnce
    <2>3. ~SameScope(r, client[d])
      BY <1>1, <1>4, <2>1 DEF Locked, SameScope
    <2>4. Prior(client[d])' = {}
      BY <1>3, <2>1, <2>2, <2>3 DEF Prior, SameScope
    <2> QED
      BY <1>1, <1>2, <2>1, <2>2, <2>4 DEF SameScope
  <1>7. ASSUME NEW id \in CommandIds, challenges'[id] # None
        PROVE  \E q \in commands' : q.op = "issue_challenge" /\ q.id = id
    <2>1. CASE challenges[id] # None
      BY <1>1, <1>3, <2>1 DEF ScopesOnce
    <2>2. CASE challenges[id] = None
      <3>1. challenges \in [CommandIds -> Challenges \cup {None}]
        BY <1>1 DEF TypeOK
      <3>2. Decides(call) => call.arg \in CommandIds /\ challenges[call.arg] \in Challenges
        BY <1>1, CommitCall
      <3>3. WritesChallenge(call) /\ id = call.id
        BY <1>1, <1>7, <2>2, <3>1, <3>2, CommitCases, CommandAssumption
        DEF WritesInput, WritesChallenge, WritesApproval, WritesRejection, WritesCancel,
            WritesNothing, Decides
      <3> QED
        BY <1>3, <1>4, <3>3 DEF WritesChallenge
    <2> QED
      BY <2>1, <2>2
  <1> QED
    BY <1>5, <1>6, <1>7 DEF ScopesOnce

\* An event of another type changes nothing about the events of a type.
LEMMA LoggedOther ==
  ASSUME NEW S, NEW s \in Seq(S), NEW e, e \in S, NEW type, e.type # type
  PROVE  /\ Logged(s, type) => Logged(Append(s, e), type)
         /\ \A record : LoggedOnce(s, type, record) => LoggedOnce(Append(s, e), type, record)
  <1>1. /\ Len(Append(s, e)) = Len(s) + 1 /\ Len(s) \in Nat
        /\ \A i \in 1..Len(s) : Append(s, e)[i] = s[i]
        /\ Append(s, e)[Len(s) + 1] = e
    OBVIOUS
  <1> QED
    BY <1>1 DEF Logged, LoggedOnce

\* The first event of a type, appended with its record.
LEMMA LoggedFirst ==
  ASSUME NEW S, NEW s \in Seq(S), NEW e \in S, NEW record, LoggedOnce(s, e.type, None),
         record # None, e.by.id = record.by
  PROVE  Logged(Append(s, e), e.type) /\ LoggedOnce(Append(s, e), e.type, record)
  <1>1. /\ Len(Append(s, e)) = Len(s) + 1 /\ Len(s) \in Nat
        /\ \A i \in 1..Len(s) : Append(s, e)[i] = s[i]
        /\ Append(s, e)[Len(s) + 1] = e
    OBVIOUS
  <1> QED
    BY <1>1 DEF Logged, LoggedOnce

Entries == [type : EventTypes, by : {None, Start} \cup [op : Ops, id : CommandIds]]

(* After a commit the run's status still tells whether it was approved or rejected. *)
LEMMA CommitStatus ==
  ASSUME CommandInv, NEW c \in Clients, NEW v, Committing(c, v)
  PROVE  StatusTells'
  <1>1. StatusTells
    BY DEF CommandInv
  <1>2. CASE WritesInput(client[c])
    BY <1>1, <1>2 DEF StatusTells, WritesInput, Appended
  <1>3. CASE WritesChallenge(client[c])
    BY <1>1, <1>3 DEF StatusTells, WritesChallenge
  <1>4. CASE WritesApproval(client[c])
    BY <1>1, <1>4 DEF StatusTells, WritesApproval, Appended
  <1>5. CASE WritesRejection(client[c])
    BY <1>1, <1>5 DEF StatusTells, WritesRejection, Appended
  <1>6. CASE WritesCancel(client[c])
    BY <1>1, <1>6 DEF StatusTells, WritesCancel, Appended, TerminalStatuses
  <1>7. CASE WritesNothing(client[c])
    BY <1>1, <1>7 DEF StatusTells, WritesNothing
  <1> QED
    BY <1>2, <1>3, <1>4, <1>5, <1>6, <1>7, CommitCases

\* The stream's part of AnswersRecorded.
AnswersLogged ==
  /\ approval # None => Logged(log, "ApprovalRecorded")
  /\ LoggedOnce(log, "ApprovalRecorded", approval)
  /\ rejection # None => Logged(log, "ApprovalRejected")
  /\ LoggedOnce(log, "ApprovalRejected", rejection)
  /\ input # None => Logged(log, "InputSubmitted")
  /\ LoggedOnce(log, "InputSubmitted", input)

(* After a commit every answer in the log is the one the tables hold. *)
LEMMA CommitLogged ==
  ASSUME CommandInv, NEW c \in Clients, NEW v, Committing(c, v)
  PROVE  AnswersLogged'
  <1> DEFINE call == client[c]
  <1>1. AnswersLogged /\ log \in Seq(Entries) /\ StatusTells
    BY DEF CommandInv, TypeOK, AnswersRecorded, AnswersLogged, Entries
  <1>2. /\ call.op \in Ops /\ call.id \in CommandIds
        /\ Decides(call) => call.arg \in CommandIds /\ challenges[call.arg] \in Challenges
        /\ call.op = "submit_input" => call.arg \in Values
    BY CommitCall
  <1>3. \A t \in EventTypes : [type |-> t, by |-> Stamp(call)] \in Entries
    BY <1>2 DEF Stamp, Entries
  <1>4. Stamp(call).id = call.id
    BY DEF Stamp
  <1>5. {"InputSubmitted", "ApprovalRecorded", "ApprovalRejected", "RunCancelled"}
        \subseteq EventTypes
    BY DEF EventTypes
  <1>6. CASE WritesInput(call)
    <2> DEFINE e == [type |-> "InputSubmitted", by |-> Stamp(call)]
               rec == [value |-> call.arg, by |-> call.id]
    <2>1. e \in Entries /\ e.type = "InputSubmitted" /\ e.by.id = rec.by
      BY <1>3, <1>4, <1>5
    <2>2. rec \in Inputs /\ rec # None
      BY <1>2, <1>6, CommandAssumption DEF Inputs, WritesInput
    <2>3. log' = Append(log, e) /\ input' = rec /\ input = None /\ UNCHANGED <<approval, rejection>>
      BY <1>6 DEF WritesInput, Appended
    <2> HIDE DEF e, rec
    <2>4. Logged(log', "InputSubmitted") /\ LoggedOnce(log', "InputSubmitted", rec)
      BY <1>1, <2>1, <2>2, <2>3, LoggedFirst DEF AnswersLogged
    <2> QED
      BY <1>1, <2>1, <2>3, <2>4, LoggedOther DEF AnswersLogged
  <1>7. CASE WritesApproval(call)
    <2> DEFINE e == [type |-> "ApprovalRecorded", by |-> Stamp(call)]
               rec == [challenge |-> call.arg, by |-> call.id,
                       expires |-> challenges[call.arg].expires]
    <2>1. e \in Entries /\ e.type = "ApprovalRecorded" /\ e.by.id = rec.by
      BY <1>3, <1>4, <1>5
    <2>2. rec \in Approvals /\ rec # None
      BY <1>2, <1>7, CommandAssumption DEF Approvals, WritesApproval, Decides, Challenges
    <2>3. log' = Append(log, e) /\ approval' = rec /\ approval = None /\ UNCHANGED <<input, rejection>>
      BY <1>1, <1>7 DEF WritesApproval, Appended, StatusTells
    <2> HIDE DEF e, rec
    <2>4. Logged(log', "ApprovalRecorded") /\ LoggedOnce(log', "ApprovalRecorded", rec)
      BY <1>1, <2>1, <2>2, <2>3, LoggedFirst DEF AnswersLogged
    <2> QED
      BY <1>1, <2>1, <2>3, <2>4, LoggedOther DEF AnswersLogged
  <1>8. CASE WritesRejection(call)
    <2> DEFINE e == [type |-> "ApprovalRejected", by |-> Stamp(call)]
               rec == [challenge |-> call.arg, by |-> call.id]
    <2>1. e \in Entries /\ e.type = "ApprovalRejected" /\ e.by.id = rec.by
      BY <1>3, <1>4, <1>5
    <2>2. rec \in Rejections /\ rec # None
      BY <1>2, <1>8, CommandAssumption DEF Rejections, WritesRejection, Decides
    <2>3. log' = Append(log, e) /\ rejection' = rec /\ rejection = None /\ UNCHANGED <<input, approval>>
      BY <1>1, <1>8 DEF WritesRejection, Appended, StatusTells
    <2> HIDE DEF e, rec
    <2>4. Logged(log', "ApprovalRejected") /\ LoggedOnce(log', "ApprovalRejected", rec)
      BY <1>1, <2>1, <2>2, <2>3, LoggedFirst DEF AnswersLogged
    <2> QED
      BY <1>1, <2>1, <2>3, <2>4, LoggedOther DEF AnswersLogged
  <1>9. CASE WritesCancel(call)
    <2> DEFINE e == [type |-> "RunCancelled", by |-> Stamp(call)]
    <2>1. e \in Entries /\ e.type = "RunCancelled"
      BY <1>3, <1>5
    <2>2. log' = Append(log, e) /\ UNCHANGED <<input, approval, rejection>>
      BY <1>9 DEF WritesCancel, Appended
    <2> HIDE DEF e
    <2> QED
      BY <1>1, <2>1, <2>2, LoggedOther DEF AnswersLogged
  <1>10. CASE WritesChallenge(call) \/ WritesNothing(call)
    BY <1>1, <1>10 DEF WritesChallenge, WritesNothing, AnswersLogged
  <1> QED
    BY <1>6, <1>7, <1>8, <1>9, <1>10, CommitCases

(* After a commit every stored answer belongs to what was asked. *)
LEMMA CommitAnswers ==
  ASSUME CommandInv, NEW c \in Clients, NEW v, Committing(c, v)
  PROVE  AnswersRecorded'
  <1> DEFINE call == client[c]
             Used(id) == challenges[id] # None /\ challenges[id].by # None =>
                           \/ approval # None /\ approval.challenge = id
                           \/ rejection # None /\ rejection.challenge = id
  <1>1. /\ AnswersRecorded /\ StatusTells /\ ScopesOnce
        /\ challenges \in [CommandIds -> Challenges \cup {None}]
        /\ approval \in Approvals \cup {None} /\ rejection \in Rejections \cup {None}
    BY DEF CommandInv, TypeOK
  <1>2. /\ call.op \in Ops /\ call.id \in CommandIds /\ call.expires \in Nat
        /\ Decides(call) => call.arg \in CommandIds /\ challenges[call.arg] \in Challenges
        /\ call.op = "submit_input" => call.arg \in Values
        /\ commands' = commands \cup {recordCommand(call, v)}
    BY CommitCall
  <1>3. AnswersLogged'
    BY CommitLogged
  <1>4. recordCommand(call, v).op = call.op /\ recordCommand(call, v).arg = call.arg
    BY DEF recordCommand
  <1>5. None \notin Challenges /\ None \notin CommandIds /\ None \notin Inputs
        /\ None \notin Approvals /\ None \notin Rejections
    BY CommandAssumption
  <1>6. (\A r \in commands : r.op = "submit_input" => input # None /\ r.arg = input.value)'
    <2>1. \A r \in commands : r.op = "submit_input" => input # None /\ r.arg = input.value
      BY <1>1 DEF AnswersRecorded
    <2>2. CASE WritesInput(call)
      <3> DEFINE rec == [value |-> call.arg, by |-> call.id]
      <3>1. input = None /\ input' = rec /\ rec.value = call.arg /\ rec \in Inputs
        BY <1>2, <2>2 DEF WritesInput, Inputs
      <3> QED
        BY <1>2, <1>4, <1>5, <2>1, <3>1
    <2>3. CASE ~WritesInput(call)
      <3>1. UNCHANGED input /\ (call.op = "submit_input" => input # None /\ call.arg = input.value)
        BY <2>3, CommitCases DEF WritesChallenge, WritesApproval, WritesRejection, WritesCancel,
             WritesNothing
      <3> QED
        BY <1>2, <1>4, <2>1, <3>1
    <2> QED
      BY <2>2, <2>3
  <1>7. UsedBy(approval)' /\ UsedBy(rejection)' /\ (\A id \in CommandIds : Used(id))'
    <2>1. UsedBy(approval) /\ UsedBy(rejection) /\ \A id \in CommandIds : Used(id)
      BY <1>1 DEF AnswersRecorded
    <2>2. CASE WritesApproval(call)
      <3>1. approval = None /\ rejection = None /\ UNCHANGED rejection
        BY <1>1, <2>2 DEF WritesApproval, StatusTells
      <3>2. call.arg \in CommandIds /\ challenges[call.arg] \in Challenges
        BY <1>2, <2>2 DEF WritesApproval, Decides
      <3>3. challenges' = [challenges EXCEPT ![call.arg] = [challenges[call.arg] EXCEPT !.by = call.id]]
        BY <2>2 DEF WritesApproval
      <3>4. /\ [challenges[call.arg] EXCEPT !.by = call.id] \in Challenges
            /\ [challenges[call.arg] EXCEPT !.by = call.id].by = call.id
        BY <1>2, <3>2 DEF Challenges
      <3>5. approval'.challenge = call.arg /\ approval'.by = call.id /\ approval' \in Approvals
        BY <1>2, <2>2, <3>2 DEF WritesApproval, Approvals, Challenges
      <3> QED
        BY <1>1, <1>5, <2>1, <3>1, <3>2, <3>3, <3>4, <3>5 DEF UsedBy
    <2>3. CASE WritesRejection(call)
      <3>1. approval = None /\ rejection = None /\ UNCHANGED approval
        BY <1>1, <2>3 DEF WritesRejection, StatusTells
      <3>2. call.arg \in CommandIds /\ challenges[call.arg] \in Challenges
        BY <1>2, <2>3 DEF WritesRejection, Decides
      <3>3. challenges' = [challenges EXCEPT ![call.arg] = [challenges[call.arg] EXCEPT !.by = call.id]]
        BY <2>3 DEF WritesRejection
      <3>4. /\ [challenges[call.arg] EXCEPT !.by = call.id] \in Challenges
            /\ [challenges[call.arg] EXCEPT !.by = call.id].by = call.id
        BY <1>2, <3>2 DEF Challenges
      <3>5. rejection'.challenge = call.arg /\ rejection'.by = call.id /\ rejection' \in Rejections
        BY <1>2, <2>3, <3>2 DEF WritesRejection, Rejections
      <3> QED
        BY <1>1, <1>5, <2>1, <3>1, <3>2, <3>3, <3>4, <3>5 DEF UsedBy
    <2>4. CASE WritesChallenge(call)
      <3>1. UNCHANGED <<approval, rejection>>
        BY <2>4 DEF WritesChallenge
      <3>2. challenges[call.id] = None
        BY <1>1, <1>2, <2>4 DEF ScopesOnce, WritesChallenge, Committing, Prior, SameScope
      <3>3. challenges' = [challenges EXCEPT ![call.id] = [expires |-> call.expires, by |-> None]]
        BY <2>4 DEF WritesChallenge
      <3>4. \A id \in CommandIds :
              \/ challenges'[id] = challenges[id]
              \/ id = call.id /\ challenges'[id].by = None
        BY <1>1, <1>2, <3>3
      <3>5. /\ approval # None => approval.challenge \in CommandIds
            /\ rejection # None => rejection.challenge \in CommandIds
        BY <1>1 DEF Approvals, Rejections
      <3>6. UsedBy(approval)' /\ UsedBy(rejection)'
        BY <2>1, <3>1, <3>2, <3>4, <3>5 DEF UsedBy
      <3>7. (\A id \in CommandIds : Used(id))'
        BY <2>1, <3>1, <3>4
      <3> QED
        BY <3>6, <3>7
    <2>5. CASE UNCHANGED <<challenges, approval, rejection>>
      BY <2>1, <2>5 DEF UsedBy
    <2> QED
      BY <2>2, <2>3, <2>4, <2>5, CommitCases DEF WritesInput, WritesCancel, WritesNothing
  <1> QED
    BY <1>3, <1>6, <1>7 DEF AnswersRecorded, AnswersLogged

(* A commit takes nothing from an approval that was claimed. *)
LEMMA CommitClaims ==
  ASSUME CommandInv, NEW c \in Clients, NEW v, Committing(c, v), UNCHANGED claimed
  PROVE  ClaimsValid'
  <1>1. ClaimsValid /\ StatusTells /\ TypeOK
    BY DEF CommandInv
  <1>2. approval # None => UNCHANGED approval
    BY <1>1, CommitCases DEF WritesInput, WritesChallenge, WritesApproval, WritesRejection,
         WritesCancel, WritesNothing, StatusTells
  <1>3. (claimed # None => approval # None /\ claimed < approval.expires)'
    BY <1>1, <1>2 DEF ClaimsValid
  <1>4. \/ UNCHANGED log
        \/ \E t \in EventTypes \ {"VerificationStarted"} :
             log' = Append(log, [type |-> t, by |-> Stamp(client[c])])
    <2>1. {"InputSubmitted", "ApprovalRecorded", "ApprovalRejected", "RunCancelled"}
          \subseteq EventTypes \ {"VerificationStarted"}
      BY DEF EventTypes
    <2> QED
      BY <2>1, CommitCases DEF WritesInput, WritesChallenge, WritesApproval, WritesRejection,
         WritesCancel, WritesNothing, Appended
  <1>5. /\ Len(log) \in Nat /\ Len(log') \in Nat /\ Len(log') >= Len(log)
        /\ \A i \in 1..Len(log) : log'[i] = log[i]
        /\ \A i \in 1..Len(log') : log'[i].type = "VerificationStarted" => i \in 1..Len(log)
    <2>1. CASE UNCHANGED log
      BY <1>1, <2>1 DEF TypeOK
    <2>2. CASE ~UNCHANGED log
      <3>1. PICK t \in EventTypes \ {"VerificationStarted"} :
              log' = Append(log, [type |-> t, by |-> Stamp(client[c])])
        BY <1>4, <2>2
      <3> QED
        BY <1>1, <3>1, LogGrows
    <2> QED
      BY <2>1, <2>2
  <1>6. ActsUnderApproval'
    BY <1>1, <1>3, <1>5, SMTT(20) DEF ClaimsValid, ActsUnderApproval, Positions
  <1> QED
    BY <1>3, <1>6 DEF ClaimsValid

(* A commit that leaves the run runnable leaves a wake-up, or an executor that will see it. *)
LEMMA CommitWakes ==
  ASSUME CommandInv, NEW c \in Clients, NEW v, CommitStep(c, v)
  PROVE  WakeupsKept'
  <1> DEFINE call == client[c]
  <1>1. /\ Committing(c, v) /\ WakeupsKept /\ UNCHANGED <<backend, exec>>
        /\ wakeups \in [CommandIds \cup {Start} -> {"none", "pending", "claimed", "completed"}]
        /\ wakeups' \in [CommandIds \cup {Start} -> {"none", "pending", "claimed", "completed"}]
    BY CommitWakeups DEF CommitStep, CommandInv, TypeOK
  <1>2. CASE run' = run
    <2>1. \A k \in CommandIds \cup {Start} : wakeups'[k] = wakeups[k] \/ wakeups'[k] = "pending"
      BY CommitWakeups
    <2>2. WakeupNotLost'
      BY <1>1, <1>2, <2>1 DEF WakeupsKept, WakeupNotLost, Runnable
    <2> QED
      BY <1>1, <1>2, <2>1, <2>2 DEF WakeupsKept, Runnable
  <1>3. CASE run' # run
    <2> SUFFICES ASSUME backend = "postgres", Runnable(run')
                 PROVE  \E k \in CommandIds \cup {Start} : wakeups'[k] = "pending"
      <3>1. (\E k \in CommandIds \cup {Start} : wakeups'[k] = "pending") => WakeupNotLost'
        BY <1>1 DEF WakeupNotLost
      <3> QED
        BY <1>1, <3>1 DEF WakeupsKept, WakeupNotLost, Runnable
    <2>1. EventsOf(call, v) # {}
      BY <1>1, <1>3 DEF Committing, Write
    <2>2. WritesInput(call) \/ WritesApproval(call)
      BY <1>1, <1>3, CommitCases DEF WritesChallenge, WritesRejection, WritesCancel,
           WritesNothing, Appended, Runnable, TerminalStatuses
    <2>3. Enqueues(call, v)
      BY <2>1, <2>2 DEF Enqueues, Decides, WritesInput, WritesApproval
    <2>4. call.id \in CommandIds
      BY <1>1, CommitCall
    <2>5. wakeups'[call.id] = "pending"
      BY <1>1, <2>3, <2>4 DEF CommitStep
    <2> QED
      BY <2>4, <2>5
  <1> QED
    BY <1>2, <1>3

(* A commit keeps the whole invariant. *)
LEMMA CommitKeeps ==
  ASSUME CommandInv, NEW c \in Clients, NEW v, CommitStep(c, v)
  PROVE  CommandInv'
  <1>1. Committing(c, v) /\ UNCHANGED claimed
    BY DEF CommitStep
  <1> QED
    BY <1>1, CommitTypes, CommitViews, CommitScopes, CommitStatus, CommitAnswers, CommitWakes,
       CommitClaims DEF CommandInv

----------------------------------------------------------------------------
\* Calls that commit nothing.

\* Wake-ups change only to pending, and never the one being worked on.
WakeupsGrow ==
  /\ wakeups' \in [CommandIds \cup {Start} -> {"none", "pending", "claimed", "completed"}]
  /\ \A k \in CommandIds \cup {Start} :
       \/ wakeups'[k] = wakeups[k]
       \/ wakeups'[k] = "pending" /\ wakeups[k] # "claimed"

\* The step of client c that leaves the stores alone; c's call is well formed after it.
ClientMoved(c) ==
  /\ client' \in [Clients -> Calls]
  /\ \A d \in Clients \ {c} : client'[d] = client[d]
  /\ CallFormed(client'[c])
  /\ client'[c].pc = "commit" =>
       /\ Seen(client'[c].view) /\ Justified(client'[c], client'[c].view)
       /\ backend = "postgres" /\ Prior(client'[c]) = {}
       /\ \A d \in Clients \ {c} :
            client[d].pc = "commit" => ~SameScope(client[d], client'[c])
  /\ WakeupsGrow
  /\ issued' \in [CommandIds -> Nat \cup {None}]
  /\ drafted' \in [CommandIds -> CommandIds \cup {None}]
  /\ calls' \in 0..MaxCalls
  /\ UNCHANGED <<backend, run, log, commands, input, challenges, active, approval, rejection,
                 claimed, exec, now>>

\* Steps that leave the stores alone keep what the invariant says of the stores.
LEMMA StoresKeep ==
  ASSUME CommandInv,
         UNCHANGED <<run, log, commands, input, challenges, active, approval, rejection>>
  PROVE  /\ StatusTells' /\ AnswersRecorded'
         /\ UNCHANGED claimed => ClaimsValid'
  <1>1. StatusTells'
    BY DEF CommandInv, StatusTells
  <1>2. AnswersRecorded'
    BY DEF CommandInv, AnswersRecorded, UsedBy, Logged, LoggedOnce
  <1>3. UNCHANGED claimed => ClaimsValid'
    BY DEF CommandInv, ClaimsValid, ActsUnderApproval, Positions
  <1> QED
    BY <1>1, <1>2, <1>3

(* A step that only moves a caller between its labels keeps the invariant. *)
LEMMA ClientKeeps ==
  ASSUME CommandInv, NEW c \in Clients, ClientMoved(c)
  PROVE  CommandInv'
  <1>1. /\ TypeOK /\ ViewsCurrent /\ ScopesOnce /\ WakeupsKept
        /\ UNCHANGED <<backend, run, log, commands, input, challenges, active, approval, rejection,
                       claimed, exec, now>>
    BY DEF CommandInv, ClientMoved
  <1>2. StatusTells' /\ AnswersRecorded' /\ ClaimsValid'
    BY <1>1, StoresKeep
  <1>3. TypeOK'
    <2>1. \A k \in DOMAIN wakeups' : (wakeups'[k] = "claimed") = (exec'.wake = k)
      BY <1>1 DEF ClientMoved, WakeupsGrow, TypeOK
    <2> QED
      BY <1>1, <2>1 DEF ClientMoved, WakeupsGrow, TypeOK
  <1>4. ViewsCurrent'
    <2>1. (exec.pc = "rest" => exec = Resting)'
      BY <1>1 DEF ViewsCurrent, Resting
    <2>2. (exec.pc = "run" => CopyOf(exec.view) /\ exec.wake \in DOMAIN wakeups)'
      BY <1>1 DEF ViewsCurrent, CopyOf, ClientMoved, WakeupsGrow, TypeOK
    <2>3. ASSUME NEW d \in Clients
          PROVE  (/\ CallFormed(client[d])
                  /\ client[d].pc = "commit" =>
                       Seen(client[d].view) /\ Justified(client[d], client[d].view))'
      <3>1. /\ CallFormed(client'[d])
            /\ client'[d].pc = "commit" =>
                 Seen(client'[d].view) /\ Justified(client'[d], client'[d].view)
        BY <1>1 DEF ClientMoved, ViewsCurrent
      <3>2. CallFormed(client[d])'
        BY <1>1, <3>1 DEF CallFormed, Decides
      <3>3. client'[d].pc = "commit" => Seen(client[d].view)' /\ Justified(client[d], client[d].view)'
        BY <1>1, <3>1 DEF Seen, CopyOf, Justified, Decides
      <3> QED
        BY <3>2, <3>3
    <2> QED
      BY <2>1, <2>2, <2>3 DEF ViewsCurrent
  <1>5. ScopesOnce'
    <2>1. ASSUME NEW d \in Clients, client'[d].pc = "commit"
          PROVE  (/\ backend = "postgres"
                  /\ Prior(client[d]) = {}
                  /\ \A b \in Clients \ {d} :
                       client[b].pc = "commit" => ~SameScope(client[b], client[d]))'
      <3>1. backend = "postgres" /\ Prior(client'[d]) = {}
        BY <1>1, <2>1 DEF ClientMoved, ScopesOnce
      <3>2. ASSUME NEW b \in Clients \ {d}, client'[b].pc = "commit"
            PROVE  ~SameScope(client'[b], client'[d])
        <4>1. CASE d = c
          BY <2>1, <3>2, <4>1 DEF ClientMoved
        <4>2. CASE d # c /\ b = c
          BY <2>1, <3>2, <4>2 DEF ClientMoved, SameScope
        <4>3. CASE d # c /\ b # c
          BY <1>1, <2>1, <3>2, <4>3 DEF ClientMoved, ScopesOnce
        <4> QED
          BY <4>1, <4>2, <4>3
      <3>3. Prior(client[d])' = {}
        BY <1>1, <3>1 DEF Prior, SameScope
      <3>4. (\A b \in Clients \ {d} : client[b].pc = "commit" => ~SameScope(client[b], client[d]))'
        BY <3>2 DEF SameScope
      <3> QED
        BY <1>1, <3>1, <3>3, <3>4
    <2>2. (\A r, s \in commands : SameScope(r, s) => r = s)'
      BY <1>1 DEF ScopesOnce, SameScope
    <2>3. (\A id \in CommandIds : challenges[id] # None =>
             \E r \in commands : r.op = "issue_challenge" /\ r.id = id)'
      BY <1>1 DEF ScopesOnce
    <2> QED
      BY <2>1, <2>2, <2>3 DEF ScopesOnce
  <1>6. WakeupsKept'
    <2>1. /\ wakeups \in [CommandIds \cup {Start} -> {"none", "pending", "claimed", "completed"}]
          /\ WakeupsGrow
      BY <1>1 DEF TypeOK, ClientMoved
    <2>2. WakeupNotLost'
      BY <1>1, <2>1 DEF WakeupsKept, WakeupNotLost, Runnable, WakeupsGrow
    <2> QED
      BY <1>1, <2>1, <2>2 DEF WakeupsKept, Runnable, WakeupsGrow
  <1> QED
    BY <1>2, <1>3, <1>4, <1>5, <1>6 DEF CommandInv

\* A call that ends without a commit, answered or refused.
LEMMA EndKeeps ==
  ASSUME CommandInv, NEW c \in Clients, NEW a \in {"done", "refused"}, Answer(c, a), WakeupsGrow,
         issued' \in [CommandIds -> Nat \cup {None}],
         drafted' \in [CommandIds -> CommandIds \cup {None}],
         UNCHANGED <<backend, run, log, commands, input, challenges, active, approval, rejection,
                     claimed, exec, now, calls>>
  PROVE  CommandInv'
  <1>1. TypeOK
    BY DEF CommandInv
  <1>2. /\ client' \in [Clients -> Calls] /\ client'[c].pc = "idle"
        /\ \A d \in Clients \ {c} : client'[d] = client[d]
    BY <1>1, AnswerEnds
  <1>3. CallFormed(client'[c])
    BY <1>2 DEF CallFormed
  <1>4. calls' \in 0..MaxCalls
    BY <1>1 DEF TypeOK
  <1>5. ClientMoved(c)
    BY <1>2, <1>3, <1>4 DEF ClientMoved
  <1> QED
    BY <1>5, ClientKeeps

\* Unchanged wake-ups are a case of growing ones.
LEMMA WakeupsSame ==
  ASSUME TypeOK, UNCHANGED wakeups
  PROVE  WakeupsGrow
  BY DEF TypeOK, WakeupsGrow

(* A new call keeps the invariant. *)
LEMMA CallKeeps ==
  ASSUME CommandInv, NEW c \in Clients, Call(c)
  PROVE  CommandInv'
  <1>1. TypeOK /\ UNCHANGED wakeups
    BY DEF CommandInv, Call
  <1>2. PICK op \in Ops, id \in CommandIds : \E arg \in Args(op) :
          client' = [client EXCEPT ![c] =
            [pc |-> IF op = "issue_challenge" THEN "issue" ELSE "begin",
             op |-> op, id |-> id, arg |-> arg,
             expires |-> IF op = "issue_challenge" THEN now + TTL ELSE 0,
             answer |-> None, view |-> None]]
    BY DEF Call
  <1>3. PICK arg \in Args(op) :
          client' = [client EXCEPT ![c] =
            [pc |-> IF op = "issue_challenge" THEN "issue" ELSE "begin",
             op |-> op, id |-> id, arg |-> arg,
             expires |-> IF op = "issue_challenge" THEN now + TTL ELSE 0,
             answer |-> None, view |-> None]]
    BY <1>2
  <1> DEFINE call == [pc |-> IF op = "issue_challenge" THEN "issue" ELSE "begin",
             op |-> op, id |-> id, arg |-> arg,
             expires |-> IF op = "issue_challenge" THEN now + TTL ELSE 0,
             answer |-> None, view |-> None]
  <1>4. arg \in Values \cup CommandIds \cup {None}
    BY DEF Args
  <1>5. (IF op = "issue_challenge" THEN now + TTL ELSE 0) \in Nat
    BY <1>1, CommandAssumption DEF TypeOK
  <1>6. call \in Calls
    BY <1>4, <1>5 DEF Calls
  <1>7. CallFormed(call)
    BY DEF CallFormed, Args, Decides
  <1>8. call.pc # "commit"
    OBVIOUS
  <1>9. client' = [client EXCEPT ![c] = call]
    BY <1>3
  <1> HIDE DEF call
  <1>10. client' \in [Clients -> Calls] /\ client'[c] = call
         /\ \A d \in Clients \ {c} : client'[d] = client[d]
    BY <1>1, <1>6, <1>9 DEF TypeOK
  <1>11. calls' \in 0..MaxCalls
    BY <1>1, CommandAssumption DEF Call, TypeOK
  <1>12. ClientMoved(c)
    BY <1>1, <1>7, <1>8, <1>10, <1>11, WakeupsSame DEF ClientMoved, Call, stores, TypeOK
  <1> QED
    BY <1>12, ClientKeeps

(* Drafting a challenge keeps the invariant. *)
LEMMA IssueKeeps ==
  ASSUME CommandInv, NEW c \in Clients, issue(c)
  PROVE  CommandInv'
  <1>1. TypeOK /\ ViewsCurrent /\ WakeupsGrow
    BY WakeupsSame DEF CommandInv, issue, Refuse
  <1>2. client[c] \in Calls /\ client[c].pc = "issue" /\ CallFormed(client[c])
    BY <1>1 DEF TypeOK, ViewsCurrent, issue
  <1>3. UNCHANGED <<backend, run, log, commands, input, challenges, active, approval, rejection,
                    claimed, exec, now, calls, drafted>>
    BY DEF issue, stores, Refuse
  <1>4. CASE client' = [client EXCEPT ![c].pc = "begin"]
             /\ issued' = [issued EXCEPT ![client[c].id] = client[c].expires]
    <2>1. [client[c] EXCEPT !.pc = "begin"] \in Calls
      BY <1>2 DEF Calls
    <2>2. CallFormed([client[c] EXCEPT !.pc = "begin"])
          /\ [client[c] EXCEPT !.pc = "begin"].pc = "begin"
      BY <1>2 DEF CallFormed, Calls, Decides
    <2>3. /\ client' \in [Clients -> Calls] /\ client'[c] = [client[c] EXCEPT !.pc = "begin"]
          /\ \A d \in Clients \ {c} : client'[d] = client[d]
      BY <1>1, <1>4, <2>1 DEF TypeOK
    <2>4. issued' \in [CommandIds -> Nat \cup {None}]
      BY <1>1, <1>2, <1>4 DEF TypeOK, Calls
    <2>5. drafted' \in [CommandIds -> CommandIds \cup {None}] /\ calls' \in 0..MaxCalls
      BY <1>1, <1>3 DEF TypeOK
    <2>6. ClientMoved(c)
      BY <1>1, <1>3, <2>2, <2>3, <2>4, <2>5 DEF ClientMoved
    <2> QED
      BY <2>6, ClientKeeps
  <1>5. CASE Answer(c, "refused") /\ UNCHANGED issued
    BY <1>1, <1>3, <1>5, EndKeeps DEF TypeOK
  <1> QED
    BY <1>4, <1>5 DEF issue, Refuse

(* A caller that dies keeps the invariant. *)
LEMMA DiesKeeps ==
  ASSUME CommandInv, NEW c \in Clients, CallerDies(c)
  PROVE  CommandInv'
  <1>1. TypeOK /\ WakeupsGrow
    BY WakeupsSame DEF CommandInv, CallerDies
  <1>2. Idle \in Calls /\ Idle.pc = "idle"
    BY DEF Idle, Calls
  <1>3. client' \in [Clients -> Calls] /\ client'[c] = Idle
        /\ \A d \in Clients \ {c} : client'[d] = client[d]
    BY <1>1, <1>2 DEF TypeOK, CallerDies
  <1>4. CallFormed(client'[c])
    BY <1>2, <1>3 DEF CallFormed
  <1>5. ClientMoved(c)
    BY <1>1, <1>2, <1>3, <1>4 DEF ClientMoved, CallerDies, stores, TypeOK
  <1> QED
    BY <1>5, ClientKeeps

\* What a callback reads is a snapshot, and what it accepts justifies its writes.
LEMMA SnapshotSeen ==
  ASSUME CommandInv
  PROVE  Seen(Snapshot)
  <1>1. now \in Nat
    BY CommandAssumption DEF CommandInv, TypeOK
  <1> QED
    BY <1>1 DEF CommandInv, TypeOK, Seen, Snapshot, CopyOf, Projections

(* A command the runtime accepts for a snapshot is one the snapshot justifies. *)
LEMMA AcceptsJustifies ==
  ASSUME NEW call, Accepts(call, Snapshot)
  PROVE  Justified(call, Snapshot)
  BY DEF Accepts, Justified, Decides, decisionContext, Waiting

\* Finish commits, or refuses and changes nothing.
LEMMA FinishKeeps ==
  ASSUME CommandInv, NEW c \in Clients, NEW v, Finish(c, v),
         client[c].pc \in {"begin", "commit"}, Seen(v), Justified(client[c], v),
         Prior(client[c]) = {}, ~Locked(c),
         drafted' \in [CommandIds -> CommandIds \cup {None}],
         UNCHANGED <<backend, issued, claimed, exec, now, calls>>
  PROVE  CommandInv'
  <1>1. CASE Storable(client[c], v)
    <2>1. CommitStep(c, v)
      BY <1>1 DEF Finish, CommitStep, Committing
    <2> QED
      BY <2>1, CommitKeeps
  <1>2. CASE ~Storable(client[c], v)
    <2>1. Refuse(c) /\ TypeOK
      BY <1>2 DEF Finish, CommandInv
    <2>2. WakeupsGrow /\ Answer(c, "refused") /\ issued' \in [CommandIds -> Nat \cup {None}]
      BY <2>1, WakeupsSame DEF Refuse, TypeOK
    <2> QED
      BY <2>1, <2>2, EndKeeps DEF Refuse, stores
  <1> QED
    BY <1>1, <1>2

(* Reading the snapshot and validating a command keeps the invariant. *)
LEMMA TransactKeeps ==
  ASSUME CommandInv, NEW c \in Clients, transactCommand(c)
  PROVE  CommandInv'
  <1> DEFINE call == client[c]
  <1>1. /\ TypeOK /\ ViewsCurrent /\ call.pc = "begin" /\ ~Locked(c) /\ call \in Calls
        /\ CallFormed(call) /\ UNCHANGED <<backend, issued, claimed, exec, now, calls>>
    BY DEF CommandInv, transactCommand, TypeOK, ViewsCurrent
  <1>2. issued' \in [CommandIds -> Nat \cup {None}]
    BY <1>1 DEF TypeOK
  <1>3. call.id \in CommandIds /\ call.op \in Ops
    BY <1>1 DEF CallFormed
  <1>4. ASSUME NEW r \in Prior(call), UNCHANGED drafted,
               IF r.arg = call.arg
               THEN /\ Answer(c, "done")
                    /\ wakeups' = Executes(call, r.execute)
                    /\ UNCHANGED stores
               ELSE Refuse(c)
        PROVE  CommandInv'
    <2>1. drafted' \in [CommandIds -> CommandIds \cup {None}]
      BY <1>1, <1>4 DEF TypeOK
    <2>2. CASE r.arg = call.arg
      <3>1. WakeupsGrow
        BY <1>1, <1>3, <1>4, <2>2 DEF Executes, WakeupsGrow, TypeOK
      <3> QED
        BY <1>1, <1>2, <1>4, <2>1, <2>2, <3>1, EndKeeps DEF stores
    <2>3. CASE r.arg # call.arg
      <3>1. WakeupsGrow
        BY <1>1, <1>4, <2>3, WakeupsSame DEF Refuse
      <3> QED
        BY <1>1, <1>2, <1>4, <2>1, <2>3, <3>1, EndKeeps DEF stores, Refuse
    <2> QED
      BY <2>2, <2>3
  <1>5. CASE /\ Prior(call) = {}
             /\ drafted' = IF call.op = "approve" /\ Accepts(call, Snapshot)
                           THEN [drafted EXCEPT ![call.id] = call.arg] ELSE drafted
    <2>1. drafted' \in [CommandIds -> CommandIds \cup {None}]
      BY <1>1, <1>3, <1>5 DEF TypeOK, CallFormed, Decides
    <2>2. CASE ~Accepts(call, Snapshot) /\ Refuse(c)
      <3>1. WakeupsGrow
        BY <1>1, <2>2, WakeupsSame DEF Refuse
      <3> QED
        BY <1>1, <1>2, <2>1, <2>2, <3>1, EndKeeps DEF stores, Refuse
    <2>3. CASE Accepts(call, Snapshot) /\ backend = "memory" /\ Finish(c, Snapshot)
      BY <1>1, <1>5, <2>1, <2>3, SnapshotSeen, AcceptsJustifies, FinishKeeps
    <2>4. CASE /\ Accepts(call, Snapshot) /\ backend # "memory"
               /\ client' = [client EXCEPT ![c] =
                               [[call EXCEPT !.pc = "commit"] EXCEPT !.view = Snapshot]]
               /\ UNCHANGED <<stores, wakeups>>
      <3> DEFINE next == [[call EXCEPT !.pc = "commit"] EXCEPT !.view = Snapshot]
      <3>1. Seen(Snapshot) /\ Justified(call, Snapshot)
        BY <2>4, SnapshotSeen, AcceptsJustifies
      <3>2. backend = "postgres"
        BY <1>1, <2>4, CommandAssumption DEF TypeOK
      <3>3. \A s \in [run : Projections, active : CommandIds \cup {None},
                      input : Inputs \cup {None}, at : Nat] :
              /\ [[call EXCEPT !.pc = "commit"] EXCEPT !.view = s] \in Calls
              /\ [[call EXCEPT !.pc = "commit"] EXCEPT !.view = s].pc = "commit"
              /\ [[call EXCEPT !.pc = "commit"] EXCEPT !.view = s].view = s
              /\ [[call EXCEPT !.pc = "commit"] EXCEPT !.view = s].op = call.op
              /\ [[call EXCEPT !.pc = "commit"] EXCEPT !.view = s].id = call.id
              /\ [[call EXCEPT !.pc = "commit"] EXCEPT !.view = s].arg = call.arg
        BY <1>1 DEF Calls
      <3>4. /\ next \in Calls /\ next.pc = "commit" /\ next.view = Snapshot
            /\ next.op = call.op /\ next.id = call.id /\ next.arg = call.arg
        BY <3>1, <3>3 DEF Seen
      <3>5. client' = [client EXCEPT ![c] = next]
        BY <2>4
      <3> HIDE DEF next
      <3>6. /\ client' \in [Clients -> Calls] /\ client'[c] = next
            /\ \A d \in Clients \ {c} : client'[d] = client[d]
        BY <1>1, <3>4, <3>5 DEF TypeOK
      <3>7. CallFormed(next)
        BY <1>1, <3>4 DEF CallFormed, Decides
      <3>8. Justified(next, next.view) /\ Seen(next.view)
        BY <3>1, <3>4 DEF Justified, Decides
      <3>9. Prior(next) = {}
        BY <1>5, <3>4 DEF Prior, SameScope
      <3>10. \A d \in Clients \ {c} : client[d].pc = "commit" => ~SameScope(client[d], next)
        BY <1>1, <3>4 DEF Locked, SameScope
      <3>11. WakeupsGrow /\ calls' \in 0..MaxCalls
        BY <1>1, <2>4, WakeupsSame DEF TypeOK
      <3>12. ClientMoved(c)
        BY <1>1, <1>2, <2>1, <2>4, <3>2, <3>6, <3>7, <3>8, <3>9, <3>10, <3>11
        DEF ClientMoved, stores
      <3> QED
        BY <3>12, ClientKeeps
    <2>5. \/ ~Accepts(call, Snapshot) /\ Refuse(c)
          \/ Accepts(call, Snapshot) /\ backend = "memory" /\ Finish(c, Snapshot)
          \/ /\ Accepts(call, Snapshot) /\ backend # "memory"
             /\ client' = [client EXCEPT ![c] =
                             [[call EXCEPT !.pc = "commit"] EXCEPT !.view = Snapshot]]
             /\ UNCHANGED <<stores, wakeups>>
      BY <1>5 DEF transactCommand
    <2> QED
      BY <2>2, <2>3, <2>4, <2>5
  <1> QED
    BY <1>4, <1>5 DEF transactCommand

(* The commit action, with its replay, conflict and refusal branches, keeps the invariant. *)
LEMMA CommitActionKeeps ==
  ASSUME CommandInv, NEW c \in Clients, Commit(c)
  PROVE  CommandInv'
  <1>1. /\ client[c].pc = "commit" /\ Seen(client[c].view)
        /\ Justified(client[c], client[c].view) /\ Prior(client[c]) = {}
    BY DEF Commit, CommandInv, ViewsCurrent, ScopesOnce
  <1>2. ~Locked(c)
    BY <1>1 DEF CommandInv, ScopesOnce, Locked
  <1>3. drafted' \in [CommandIds -> CommandIds \cup {None}]
    BY DEF Commit, CommandInv, TypeOK
  <1> QED
    BY <1>1, <1>2, <1>3, FinishKeeps DEF Commit

----------------------------------------------------------------------------
\* The execution.

\* What the clients hold stays good while the run stays, or moves on by one event.
LEMMA ClientsKeep ==
  ASSUME CommandInv, UNCHANGED <<backend, client, commands, input, challenges>>,
         \/ UNCHANGED run
         \/ run' \in Projections /\ run'.lastSequence = run.lastSequence + 1
  PROVE  /\ ScopesOnce'
         /\ (\A c \in Clients :
               /\ CallFormed(client[c])
               /\ client[c].pc = "commit" =>
                    Seen(client[c].view) /\ Justified(client[c], client[c].view))'
  <1>1. TypeOK /\ ViewsCurrent /\ ScopesOnce
    BY DEF CommandInv
  <1>2. ScopesOnce'
    BY <1>1 DEF ScopesOnce, SameScope, Prior
  <1>3. ASSUME NEW p, CopyOf(p)
        PROVE  p \in Projections /\ p.lastSequence <= run'.lastSequence
               /\ (p.lastSequence = run'.lastSequence => p = run')
    BY <1>1, <1>3 DEF CopyOf, Projections, TypeOK
  <1>4. ASSUME NEW c \in Clients
        PROVE  (/\ CallFormed(client[c])
                /\ client[c].pc = "commit" =>
                     Seen(client[c].view) /\ Justified(client[c], client[c].view))'
    <2>1. CallFormed(client[c])'
      BY <1>1 DEF ViewsCurrent, CallFormed, Decides
    <2>2. ASSUME client[c].pc = "commit"
          PROVE  Seen(client[c].view)' /\ Justified(client[c], client[c].view)'
      <3>1. Seen(client[c].view) /\ Justified(client[c], client[c].view)
        BY <1>1, <2>2 DEF ViewsCurrent
      <3>2. CopyOf(client[c].view.run)
        BY <3>1 DEF Seen
      <3>3. Justified(client[c], client[c].view)'
        BY <3>1 DEF Justified, Decides
      <3>4. Seen(client[c].view)'
        BY <1>3, <3>1, <3>2 DEF Seen, CopyOf
      <3> QED
        BY <3>3, <3>4
    <2> QED
      BY <2>1, <2>2
  <1> QED
    BY <1>2, <1>4

\* The execution's wake-up and its claim belong together.
LEMMA ExecHolds ==
  ASSUME CommandInv
  PROVE  /\ exec.pc \in {"rest", "run"}
         /\ exec.pc = "rest" => \A k \in CommandIds \cup {Start} : wakeups[k] # "claimed"
         /\ exec.pc = "run" =>
              /\ exec.wake \in CommandIds \cup {Start} /\ wakeups[exec.wake] = "claimed"
              /\ \A k \in CommandIds \cup {Start} : k # exec.wake => wakeups[k] # "claimed"
  <1>1. TypeOK /\ ViewsCurrent /\ None \notin CommandIds \cup {Start}
    BY CommandAssumption DEF CommandInv
  <1>2. exec.pc = "rest" => exec.wake = None
    BY <1>1 DEF ViewsCurrent, Resting
  <1> QED
    BY <1>1, <1>2 DEF TypeOK, ViewsCurrent

\* A step of the execution that leaves the stores alone keeps the invariant if it keeps
\* the wake-ups' bookkeeping.
LEMMA ExecKeeps ==
  ASSUME CommandInv,
         UNCHANGED <<backend, run, log, commands, input, challenges, active, approval, rejection,
                     issued, drafted, client, now, calls>>,
         claimed' \in Nat \cup {None}, ClaimsValid',
         wakeups' \in [CommandIds \cup {Start} -> {"none", "pending", "claimed", "completed"}],
         exec' \in [pc : {"rest", "run"}, wake : CommandIds \cup {Start, None},
                    view : Projections \cup {None}],
         \A k \in CommandIds \cup {Start} : (wakeups'[k] = "claimed") = (exec'.wake = k),
         exec'.pc = "rest" => exec' = Resting,
         exec'.pc = "run" => CopyOf(exec'.view) /\ exec'.wake \in CommandIds \cup {Start},
         WakeupsKept'
  PROVE  CommandInv'
  <1>1. TypeOK'
    BY DEF CommandInv, TypeOK
  <1>2. StatusTells' /\ AnswersRecorded'
    BY StoresKeep
  <1>3. /\ ScopesOnce'
        /\ (\A c \in Clients :
               /\ CallFormed(client[c])
               /\ client[c].pc = "commit" =>
                    Seen(client[c].view) /\ Justified(client[c], client[c].view))'
    BY ClientsKeep
  <1>4. (exec.pc = "rest" => exec = Resting)'
    BY DEF Resting
  <1>5. (exec.pc = "run" => CopyOf(exec.view) /\ exec.wake \in DOMAIN wakeups)'
    BY DEF CopyOf
  <1>6. ViewsCurrent'
    BY <1>3, <1>4, <1>5 DEF ViewsCurrent
  <1> QED
    BY <1>1, <1>2, <1>3, <1>6 DEF CommandInv

(* An execution that starts keeps the invariant. *)
LEMMA ExecuteKeeps ==
  ASSUME CommandInv, Execute
  PROVE  CommandInv'
  <1>1. /\ TypeOK /\ exec.pc = "rest"
        /\ UNCHANGED <<backend, run, log, commands, input, challenges, active, approval,
                       rejection, issued, drafted, client, now, calls, claimed>>
    BY DEF CommandInv, Execute, stores
  <1>2. PICK k \in CommandIds \cup {Start} :
          /\ wakeups[k] = "pending"
          /\ wakeups' = [wakeups EXCEPT ![k] = "claimed"]
          /\ exec' = [pc |-> "run", wake |-> k, view |-> run]
    BY <1>1 DEF Execute, TypeOK
  <1>3. /\ wakeups' \in [CommandIds \cup {Start} -> {"none", "pending", "claimed", "completed"}]
        /\ \A j \in CommandIds \cup {Start} : (wakeups'[j] = "claimed") = (exec'.wake = j)
    BY <1>1, <1>2, ExecHolds DEF TypeOK
  <1>4. /\ exec' \in [pc : {"rest", "run"}, wake : CommandIds \cup {Start, None},
                      view : Projections \cup {None}]
        /\ CopyOf(exec'.view) /\ exec'.pc = "run" /\ exec'.wake \in CommandIds \cup {Start}
        /\ exec'.view = run'
    BY <1>1, <1>2 DEF TypeOK, CopyOf, Projections
  <1>5. WakeupsKept'
    <2>1. wakeups'[k] = "claimed" /\ k \in DOMAIN wakeups'
      BY <1>1, <1>2 DEF TypeOK
    <2> QED
      BY <1>4, <2>1 DEF WakeupsKept, WakeupNotLost
  <1>6. claimed' \in Nat \cup {None} /\ ClaimsValid'
    BY <1>1, StoresKeep DEF TypeOK
  <1> QED
    BY <1>1, <1>3, <1>4, <1>5, <1>6, ExecKeeps

\* The execution ends with the wake-up in state s, pending if the run may need it.
LEMMA RestKeeps ==
  ASSUME CommandInv, exec.pc = "run", exec' = Resting, NEW s \in {"pending", "completed"},
         wakeups' = [wakeups EXCEPT ![exec.wake] = s],
         s = "completed" => backend # "postgres" \/ ~Runnable(exec.view),
         UNCHANGED <<backend, run, log, commands, input, challenges, active, approval, rejection,
                     issued, drafted, client, now, calls, claimed>>
  PROVE  CommandInv'
  <1>1. TypeOK /\ WakeupsKept /\ None \notin CommandIds \cup {Start}
    BY CommandAssumption DEF CommandInv
  <1>2. /\ exec.wake \in CommandIds \cup {Start} /\ wakeups[exec.wake] = "claimed"
        /\ \A k \in CommandIds \cup {Start} : k # exec.wake => wakeups[k] # "claimed"
    BY ExecHolds
  <1>3. Resting.pc = "rest" /\ Resting.wake = None
        /\ Resting \in [pc : {"rest", "run"}, wake : CommandIds \cup {Start, None},
                        view : Projections \cup {None}]
    BY DEF Resting
  <1>4. /\ wakeups' \in [CommandIds \cup {Start} -> {"none", "pending", "claimed", "completed"}]
        /\ \A k \in CommandIds \cup {Start} : (wakeups'[k] = "claimed") = (exec'.wake = k)
    BY <1>1, <1>2, <1>3 DEF TypeOK
  <1>5. WakeupsKept'
    <2> SUFFICES ASSUME backend = "postgres", Runnable(run)
                 PROVE  \E k \in CommandIds \cup {Start} : wakeups'[k] = "pending"
      <3>1. (\E k \in CommandIds \cup {Start} : wakeups'[k] = "pending") => WakeupNotLost'
        BY <1>4 DEF WakeupNotLost
      <3> QED
        BY <1>3, <3>1 DEF WakeupsKept, WakeupNotLost, Runnable
    <2>1. CASE s = "pending"
      BY <1>1, <1>2, <2>1 DEF TypeOK
    <2>2. CASE s = "completed"
      <3>1. exec.view # run
        BY <2>2
      <3>2. PICK k \in CommandIds \cup {Start} : wakeups[k] = "pending"
        BY <1>1, <3>1 DEF WakeupsKept, TypeOK
      <3> QED
        BY <1>1, <1>2, <3>2 DEF TypeOK
    <2> QED
      BY <2>1, <2>2
  <1>6. claimed' \in Nat \cup {None} /\ ClaimsValid'
    BY <1>1, StoresKeep DEF TypeOK
  <1> QED
    BY <1>3, <1>4, <1>5, <1>6, ExecKeeps

(* An execution that throws keeps the invariant: the queue keeps its wake-up. *)
LEMMA ThrowsKeeps ==
  ASSUME CommandInv, exec.pc = "run", Throws,
         UNCHANGED <<backend, run, log, commands, input, challenges, active, approval, rejection,
                     issued, drafted, client, now, calls, claimed>>
  PROVE  CommandInv'
  <1> DEFINE s == IF backend = "postgres" THEN "pending" ELSE "completed"
  <1>1. s \in {"pending", "completed"} /\ (s = "completed" => backend # "postgres")
    OBVIOUS
  <1>2. exec' = Resting /\ wakeups' = [wakeups EXCEPT ![exec.wake] = s]
    BY DEF Throws
  <1> HIDE DEF s
  <1> QED
    BY <1>1, <1>2, RestKeeps

(* An execution that returns keeps the invariant. *)
LEMMA ReturnsKeeps ==
  ASSUME CommandInv, Returns
  PROVE  CommandInv'
  BY RestKeeps DEF Returns, stores

(* An executor that dies keeps the invariant: its wake-up is delivered again. *)
LEMMA ExecutorDiesKeeps ==
  ASSUME CommandInv, ExecutorDies
  PROVE  CommandInv'
  BY ThrowsKeeps DEF ExecutorDies, stores

(* Claiming the recorded approval keeps the invariant. *)
LEMMA ClaimKeeps ==
  ASSUME CommandInv, claimApproval
  PROVE  CommandInv'
  <1>1. /\ UNCHANGED <<backend, run, log, commands, input, challenges, active, approval,
                       rejection, issued, drafted, client, now, calls>>
        /\ TypeOK /\ ViewsCurrent /\ WakeupsKept /\ ClaimsValid /\ exec.pc = "run"
        /\ approval # None /\ claimed = None
    BY DEF claimApproval, stores, CommandInv, approvedToolCall
  <1>2. CASE Unexpired
    <2>1. claimed' = now /\ UNCHANGED <<wakeups, exec>> /\ now \in Nat /\ now < approval.expires
      BY <1>1, <1>2 DEF claimApproval, Unexpired, TypeOK
    <2>2. ClaimsValid'
      <3>1. (claimed # None => approval # None /\ claimed < approval.expires)'
        BY <1>1, <2>1
      <3>2. ActsUnderApproval'
        BY <1>1, <2>1 DEF ClaimsValid, ActsUnderApproval, Positions
      <3> QED
        BY <3>1, <3>2 DEF ClaimsValid
    <2>3. WakeupsKept'
      BY <1>1, <2>1 DEF WakeupsKept, WakeupNotLost, Runnable
    <2>4. /\ \A k \in CommandIds \cup {Start} : (wakeups'[k] = "claimed") = (exec'.wake = k)
          /\ wakeups' \in [CommandIds \cup {Start} -> {"none", "pending", "claimed", "completed"}]
          /\ exec' \in [pc : {"rest", "run"}, wake : CommandIds \cup {Start, None},
                        view : Projections \cup {None}]
          /\ CopyOf(exec'.view) /\ exec'.wake \in CommandIds \cup {Start} /\ exec'.pc = "run"
      BY <1>1, <2>1 DEF TypeOK, ViewsCurrent
    <2> QED
      BY <1>1, <2>1, <2>2, <2>3, <2>4, ExecKeeps
  <1>3. CASE ~Unexpired
    BY <1>1, <1>3, ThrowsKeeps DEF claimApproval
  <1> QED
    BY <1>2, <1>3

(* The passing of time keeps the invariant. *)
LEMMA TickKeeps ==
  ASSUME CommandInv, Tick
  PROVE  CommandInv'
  <1>1. /\ UNCHANGED <<backend, run, log, commands, input, challenges, active, approval,
                       rejection, issued, drafted, client, calls, claimed, wakeups, exec>>
        /\ TypeOK /\ ViewsCurrent /\ WakeupsKept /\ now' \in 0..MaxTime
    BY CommandAssumption DEF Tick, stores, CommandInv, TypeOK
  <1>2. TypeOK'
    BY <1>1 DEF TypeOK
  <1>3. StatusTells' /\ AnswersRecorded' /\ ClaimsValid'
    BY <1>1, StoresKeep
  <1>4. WakeupsKept'
    BY <1>1 DEF WakeupsKept, WakeupNotLost, Runnable
  <1>5. ViewsCurrent' /\ ScopesOnce'
    BY <1>1, ClientsKeep DEF ViewsCurrent, CopyOf, Resting
  <1> QED
    BY <1>2, <1>3, <1>4, <1>5 DEF CommandInv

\* An execution's next event, by the status of the run it moves on.
LEMMA NextEventForms ==
  ASSUME NEW p, NEW e \in NextEvents(p)
  PROVE  /\ e \in RunEvents
         /\ \/ e.type = "PlanningStarted" /\ nextStatusFor(e) = "planning" /\ p.status = "accepted"
            \/ e.type = "ExecutionStarted" /\ nextStatusFor(e) = "running" /\ p.status = "planning"
            \/ /\ e.type = "InputRequested" /\ nextStatusFor(e) = "waiting_for_input"
               /\ p.status = "planning"
            \/ /\ e.type = "ApprovalRequested" /\ nextStatusFor(e) = "waiting_for_approval"
               /\ p.status = "running" /\ approval = None
            \/ /\ e.type = "VerificationStarted" /\ nextStatusFor(e) = "verifying"
               /\ p.status = "running" /\ approval # None /\ claimed # None
            \/ e.type = "RunCompleted" /\ nextStatusFor(e) = "completed" /\ p.status = "verifying"
  BY DEF NextEvents, InputRequests, ApprovalRequests, approvedToolCall, RunEvents, Ev, EvId,
         nextStatusFor

(* The executor's own transitions keep the invariant. *)
LEMMA AppendKeeps ==
  ASSUME CommandInv, append
  PROVE  CommandInv'
  <1>1. /\ UNCHANGED <<backend, commands, input, challenges, active, approval, rejection, issued,
                       drafted, claimed, client, now, calls>>
        /\ exec.pc = "run" /\ TypeOK /\ CopyOf(exec.view) /\ StatusTells /\ AnswersRecorded
        /\ ClaimsValid
    BY DEF append, CommandInv, ViewsCurrent
  <1>2. PICK e \in NextEvents(exec.view) :
          IF run.lastSequence = exec.view.lastSequence
          THEN /\ run' = Reduce(run, e)
               /\ log' = Append(log, [type |-> e.type, by |-> None])
               /\ exec' = [exec EXCEPT !.view = run']
               /\ UNCHANGED wakeups
          ELSE Throws /\ UNCHANGED <<run, log>>
    BY DEF append
  <1>3. CASE run.lastSequence # exec.view.lastSequence
    BY <1>1, <1>2, <1>3, ThrowsKeeps
  <1>4. CASE run.lastSequence = exec.view.lastSequence
    <2>1. exec.view = run /\ UNCHANGED wakeups /\ exec' = [exec EXCEPT !.view = run']
      BY <1>1, <1>2, <1>4 DEF CopyOf
    <2>2. e \in RunEvents /\ run \in Projections
      BY <1>1, NextEventForms DEF TypeOK
    <2>3. Appended(e.type, nextStatusFor(e), None) /\ e.type \in EventTypes
      BY <1>2, <1>4, <2>2, ReduceMoves, RunEventForms DEF Appended
    <2>4. \/ e.type = "PlanningStarted" /\ nextStatusFor(e) = "planning" /\ run.status = "accepted"
          \/ e.type = "ExecutionStarted" /\ nextStatusFor(e) = "running" /\ run.status = "planning"
          \/ /\ e.type = "InputRequested" /\ nextStatusFor(e) = "waiting_for_input"
             /\ run.status = "planning"
          \/ /\ e.type = "ApprovalRequested" /\ nextStatusFor(e) = "waiting_for_approval"
             /\ run.status = "running" /\ approval = None
          \/ /\ e.type = "VerificationStarted" /\ nextStatusFor(e) = "verifying"
             /\ run.status = "running" /\ approval # None /\ claimed # None
          \/ e.type = "RunCompleted" /\ nextStatusFor(e) = "completed" /\ run.status = "verifying"
      BY <2>1, NextEventForms
    <2>5. log \in Seq(Entries) /\ [type |-> e.type, by |-> None] \in Entries
      BY <1>1, <2>3 DEF TypeOK, Entries
    <2>6. /\ run' \in Projections /\ run'.lastSequence = run.lastSequence + 1
          /\ run'.status = nextStatusFor(e)
          /\ log' = Append(log, [type |-> e.type, by |-> None])
      BY <2>3 DEF Appended
    <2>7. /\ exec' \in [pc : {"rest", "run"}, wake : CommandIds \cup {Start, None},
                        view : Projections \cup {None}]
          /\ exec'.pc = "run" /\ exec'.view = run' /\ exec'.wake = exec.wake
      BY <1>1, <2>1, <2>6 DEF TypeOK
    <2>8. TypeOK'
      <3>1. log' \in Seq(Entries)
        BY <2>5, <2>6
      <3> QED
        BY <1>1, <2>1, <2>6, <2>7, <3>1 DEF TypeOK, Entries
    <2>9. ViewsCurrent' /\ ScopesOnce'
      <3>1. /\ ScopesOnce'
            /\ (\A c \in Clients :
                  /\ CallFormed(client[c])
                  /\ client[c].pc = "commit" =>
                       Seen(client[c].view) /\ Justified(client[c], client[c].view))'
        BY <1>1, <2>6, ClientsKeep
      <3>2. (exec.pc = "run" => CopyOf(exec.view) /\ exec.wake \in DOMAIN wakeups)'
        <4>1. exec.wake \in DOMAIN wakeups
          BY <1>1, ExecHolds DEF TypeOK
        <4> QED
          BY <2>1, <2>6, <2>7, <4>1 DEF CopyOf, Projections
      <3> QED
        BY <2>7, <3>1, <3>2 DEF ViewsCurrent
    <2>10. StatusTells'
      BY <1>1, <2>4, <2>6 DEF StatusTells
    <2>11. AnswersRecorded'
      <3> DEFINE x == [type |-> e.type, by |-> None]
      <3>1. x.type = e.type /\ x.type \notin {"ApprovalRecorded", "ApprovalRejected", "InputSubmitted"}
        BY <2>4
      <3>2. log' = Append(log, x) /\ x \in Entries
        BY <2>5, <2>6
      <3> HIDE DEF x
      <3>3. AnswersLogged
        BY <1>1 DEF AnswersRecorded, AnswersLogged
      <3>4. AnswersLogged'
        BY <1>1, <2>5, <3>1, <3>2, <3>3, LoggedOther DEF AnswersLogged
      <3>5. UsedBy(approval)' /\ UsedBy(rejection)'
        BY <1>1 DEF AnswersRecorded, UsedBy
      <3> QED
        BY <1>1, <3>4, <3>5 DEF AnswersRecorded, AnswersLogged
    <2>12. WakeupsKept'
      <3>1. exec.wake \in DOMAIN wakeups' /\ wakeups'[exec.wake] = "claimed"
        BY <1>1, <2>1, ExecHolds DEF TypeOK
      <3> QED
        BY <2>7, <3>1 DEF WakeupsKept, WakeupNotLost
    <2>13. ClaimsValid'
      <3>1. (claimed # None => approval # None /\ claimed < approval.expires)'
        BY <1>1 DEF ClaimsValid
      <3>2. /\ Len(log') = Len(log) + 1 /\ Len(log) \in Nat
            /\ \A i \in 1..Len(log) : log'[i] = log[i]
            /\ log'[Len(log) + 1] = [type |-> e.type, by |-> None]
        BY <1>1, <2>6, LogGrows
      <3>3. ASSUME NEW i \in 1..Len(log'), log'[i].type = "VerificationStarted"
            PROVE  /\ \E j \in 1..Len(log') : log'[j].type = "ApprovalRecorded" /\ j < i
                   /\ claimed # None
        <4>1. CASE i \in 1..Len(log)
          <5>1. log[i].type = "VerificationStarted"
            BY <3>2, <3>3, <4>1
          <5>2. PICK j \in 1..Len(log) : log[j].type = "ApprovalRecorded" /\ j < i /\ claimed # None
            BY <1>1, <4>1, <5>1 DEF ClaimsValid, ActsUnderApproval, Positions
          <5> QED
            BY <3>2, <5>2
        <4>2. CASE i \notin 1..Len(log)
          <5>1. i = Len(log) + 1
            BY <3>2, <4>2
          <5>2. e.type = "VerificationStarted"
            BY <3>2, <3>3, <5>1
          <5>3. approval # None /\ claimed # None
            BY <2>4, <5>2
          <5>4. PICK j \in 1..Len(log) : log[j].type = "ApprovalRecorded"
            BY <1>1, <5>3 DEF AnswersRecorded, Logged
          <5> QED
            BY <3>2, <5>1, <5>3, <5>4
        <4> QED
          BY <4>1, <4>2
      <3>4. ActsUnderApproval'
        BY <1>1, <3>1, <3>3 DEF ActsUnderApproval, Positions
      <3> QED
        BY <3>1, <3>4 DEF ClaimsValid
    <2> QED
      BY <2>8, <2>9, <2>10, <2>11, <2>12, <2>13 DEF CommandInv
  <1> QED
    BY <1>3, <1>4

----------------------------------------------------------------------------
\* The theorems.

(* A run that has just been accepted satisfies the invariant. *)
LEMMA InitHolds ==
  ASSUME Init
  PROVE  CommandInv
  <1> DEFINE p == createRunProjection("agent")
  <1>1. p \in Projections
    BY DEF createRunProjection, Projections, Kinds, Statuses
  <1>2. Ev("RunAccepted") \in RunEvents /\ nextStatusFor(Ev("RunAccepted")) = "accepted"
    BY DEF RunEvents, Ev, nextStatusFor
  <1>3. run \in Projections /\ run.status = "accepted"
    BY <1>1, <1>2, ReduceMoves DEF Init
  <1>4. Idle \in Calls /\ Idle.pc = "idle"
    BY DEF Idle, Calls
  <1>5. Len(log) = 1 /\ log[1].type = "RunAccepted" /\ log \in Seq(Entries)
    <2>1. [type |-> "RunAccepted", by |-> Start] \in Entries
      BY DEF Entries, EventTypes
    <2> QED
      BY <2>1 DEF Init
  <1>6. Resting.pc = "rest" /\ Resting.wake = None
        /\ Resting \in [pc : {"rest", "run"}, wake : CommandIds \cup {Start, None},
                        view : Projections \cup {None}]
    BY DEF Resting
  <1>7. None \notin CommandIds \cup {Start} /\ Start \notin CommandIds
    BY CommandAssumption
  <1>8. TypeOK
    BY <1>3, <1>4, <1>5, <1>6, <1>7, CommandAssumption DEF Init, TypeOK, Entries
  <1>9. ViewsCurrent
    BY <1>4, <1>6 DEF Init, ViewsCurrent, CallFormed
  <1>10. ScopesOnce
    BY <1>4 DEF Init, ScopesOnce
  <1>11. StatusTells
    BY <1>3 DEF Init, StatusTells
  <1>12. AnswersRecorded
    BY <1>5 DEF Init, AnswersRecorded, LoggedOnce, UsedBy
  <1>13. WakeupsKept
    <2>1. Start \in DOMAIN wakeups /\ wakeups[Start] = "pending"
      BY DEF Init
    <2> QED
      BY <1>6, <2>1 DEF Init, WakeupsKept, WakeupNotLost
  <1>14. ClaimsValid
    BY <1>5 DEF Init, ClaimsValid, ActsUnderApproval, Positions
  <1> QED
    BY <1>8, <1>9, <1>10, <1>11, <1>12, <1>13, <1>14 DEF CommandInv

(* Every step keeps the invariant. *)
LEMMA NextKeeps ==
  ASSUME CommandInv, [Next]_vars
  PROVE  CommandInv'
  <1>1. ASSUME NEW c \in Clients,
               Call(c) \/ issue(c) \/ transactCommand(c) \/ Commit(c) \/ CallerDies(c)
        PROVE  CommandInv'
    BY <1>1, CallKeeps, IssueKeeps, TransactKeeps, CommitActionKeeps, DiesKeeps
  <1>2. CASE Execute \/ Returns \/ append \/ claimApproval \/ ExecutorDies \/ Tick
    BY <1>2, ExecuteKeeps, ReturnsKeeps, AppendKeeps, ClaimKeeps, ExecutorDiesKeeps, TickKeeps
  <1>3. CASE UNCHANGED vars
    <2>1. UNCHANGED <<backend, run, log, commands, input, challenges, active, approval,
                      rejection, issued, drafted, client, calls, claimed, wakeups, exec, now>>
      BY <1>3 DEF vars, stores
    <2>2. TypeOK'
      BY <2>1 DEF CommandInv, TypeOK
    <2>3. StatusTells' /\ AnswersRecorded' /\ ClaimsValid'
      BY <2>1, StoresKeep
    <2>4. WakeupsKept'
      BY <2>1 DEF CommandInv, WakeupsKept, WakeupNotLost, Runnable
    <2>5. ViewsCurrent' /\ ScopesOnce'
      BY <2>1, ClientsKeep DEF CommandInv, ViewsCurrent, CopyOf, Resting
    <2> QED
      BY <2>2, <2>3, <2>4, <2>5 DEF CommandInv
  <1> QED
    BY <1>1, <1>2, <1>3 DEF Next

(* The inductive invariant holds in every reachable state. *)
LEMMA CommandInvariant == Spec => []CommandInv
  BY InitHolds, NextKeeps, PTL DEF Spec

\* A set of positions with at most one member has cardinality one at most.
LEMMA AtMostOne ==
  ASSUME NEW S, \A x, y \in S : x = y
  PROVE  Cardinality(S) <= 1
  <1>1. CASE S = {}
    BY <1>1, FS_EmptySet
  <1>2. CASE S # {}
    <2>1. PICK x : S = {x}
      BY <1>2
    <2> QED
      BY <2>1, FS_Singleton
  <1> QED
    BY <1>1, <1>2

(* The invariant says that nothing is answered twice. *)
LEMMA InvAnswered ==
  ASSUME CommandInv
  PROVE  AnsweredOnce
  <1>1. TypeOK /\ AnswersRecorded /\ StatusTells
    BY DEF CommandInv
  <1>2. approval # None => rejection = None
    BY <1>1 DEF StatusTells
  <1>3. /\ (approval # None) = (Positions({"ApprovalRecorded"}) # {})
        /\ (rejection # None) = (Positions({"ApprovalRejected"}) # {})
        /\ (input # None) = (Positions({"InputSubmitted"}) # {})
    BY <1>1 DEF AnswersRecorded, Positions, Logged, LoggedOnce
  <1> DEFINE at == Positions({"ApprovalRecorded", "ApprovalRejected"})
             used == {id \in CommandIds : challenges[id] # None /\ challenges[id].by # None}
  <1>4. \A i, j \in at : i = j
    BY <1>1, <1>2 DEF AnswersRecorded, Positions, LoggedOnce
  <1>5. \A i, j \in Positions({"InputSubmitted"}) : i = j
    BY <1>1 DEF AnswersRecorded, Positions, LoggedOnce
  <1>6. \A i \in Positions({"InputSubmitted"}) : log[i].by.id = input.by
    BY <1>1 DEF AnswersRecorded, Positions, LoggedOnce
  <1>7. \A r \in commands : r.op = "submit_input" => r.arg = input.value
    BY <1>1 DEF AnswersRecorded
  <1>8. used = {r.challenge : r \in {approval, rejection} \ {None}}
    <2>1. \A id \in used : \E r \in {approval, rejection} \ {None} : r.challenge = id
      BY <1>1 DEF AnswersRecorded
    <2>2. ASSUME NEW r \in {approval, rejection} \ {None}
          PROVE  r.challenge \in used
      <3>1. r.challenge \in CommandIds /\ r.by \in CommandIds
        BY <1>1, <2>2 DEF TypeOK, Approvals, Rejections
      <3> QED
        BY <1>1, <2>2, <3>1, CommandAssumption DEF AnswersRecorded, UsedBy
    <2> HIDE DEF used
    <2> QED
      BY <2>1, <2>2
  <1>9. \A i \in at, r \in {approval, rejection} \ {None} :
          log[i].by.id = r.by /\ challenges[r.challenge].by = r.by
    BY <1>1, <1>2 DEF AnswersRecorded, Positions, LoggedOnce, UsedBy
  <1>10. DecidedOnce
    <2> HIDE DEF at, used
    <2>1. Cardinality(at) <= 1
      BY <1>4, AtMostOne
    <2> QED
      BY <1>3, <1>8, <1>9, <2>1 DEF DecidedOnce, at, used
  <1>11. InputAgrees
    BY <1>3, <1>5, <1>6, <1>7, AtMostOne DEF InputAgrees
  <1> QED
    BY <1>1, <1>10, <1>11 DEF AnsweredOnce

\* What people answered counts once: however approvals, rejections, submissions and
\* their repetitions race, decideApprove, decideReject and submitInput leave one outcome
\* and one value, and stream, records, challenges and responses agree on it.
THEOREM CommandsAnsweredOnce == Spec => []AnsweredOnce
  BY CommandInvariant, InvAnswered, PTL

\* A run that can go on has a wake-up that waits or is being worked on, on PostgreSQL,
\* however the answer raced with the execution that was parking.
THEOREM CommandsKeepWakeup == Spec => []WakeupNotLost
  <1>1. CommandInv => WakeupNotLost
    BY DEF CommandInv, WakeupsKept
  <1> QED
    BY <1>1, CommandInvariant, PTL

\* The tool call behind a decision is passed only after its approval is in the stream
\* and was claimed before it expired.
THEOREM CommandsActUnderApproval == Spec => []ActsUnderApproval
  <1>1. CommandInv => ActsUnderApproval
    BY DEF CommandInv, ClaimsValid
  <1> QED
    BY <1>1, CommandInvariant, PTL

(* Under the invariant no step refuses a command whose row is committed. *)
LEMMA StepReplays ==
  ASSUME CommandInv, [Next]_vars
  PROVE  [\A c \in Clients : ~RefusesCommitted(c, Ops \ {"issue_challenge"})]_vars
  <1> SUFFICES ASSUME NEW c \in Clients, RefusesCommitted(c, Ops \ {"issue_challenge"})
               PROVE  FALSE
    OBVIOUS
  <1>1. /\ client[c].pc # "idle" /\ client'[c].pc = "idle" /\ client'[c].answer = "refused"
        /\ client[c].op # "issue_challenge"
    BY DEF RefusesCommitted
  <1>2. PICK r \in commands : SameScope(r, client[c]) /\ r.arg = client[c].arg
    BY DEF RefusesCommitted, Prior
  <1>3. TypeOK /\ ViewsCurrent /\ ScopesOnce
    BY DEF CommandInv
  <1>4. client' # client
    BY <1>1
  <1>5. PICK d \in Clients :
          Call(d) \/ issue(d) \/ transactCommand(d) \/ Commit(d) \/ CallerDies(d)
    BY <1>4 DEF Next, vars, stores, Execute, Returns, append, claimApproval, ExecutorDies, Tick
  <1>6. d = c
    <2>1. \E x : client' = [client EXCEPT ![d] = x]
      BY <1>5 DEF Call, issue, transactCommand, Commit, CallerDies, Finish, Refuse, Answer
    <2> QED
      BY <1>1, <1>3, <2>1 DEF TypeOK
  <1>7. CASE Call(c)
    BY <1>1, <1>7 DEF Call
  <1>8. CASE issue(c)
    BY <1>1, <1>3, <1>8 DEF issue, ViewsCurrent, CallFormed
  <1>9. CASE CallerDies(c)
    <2>1. client'[c] = Idle
      BY <1>3, <1>9 DEF CallerDies, TypeOK
    <2>2. Idle.answer = None
      BY DEF Idle
    <2> QED
      BY <1>1, <2>1, <2>2, CommandAssumption
  <1>10. CASE Commit(c)
    BY <1>2, <1>3, <1>10 DEF Commit, ScopesOnce, Prior
  <1>11. CASE transactCommand(c)
    <2>1. Prior(client[c]) # {}
      BY <1>2 DEF Prior
    <2>2. PICK q \in Prior(client[c]) :
            IF q.arg = client[c].arg THEN Answer(c, "done") ELSE Refuse(c)
      BY <1>11, <2>1 DEF transactCommand
    <2>3. q = r
      BY <1>2, <1>3, <2>2 DEF Prior, ScopesOnce, SameScope
    <2>4. Answer(c, "done")
      BY <1>2, <2>2, <2>3
    <2>5. client'[c].answer = "done"
      BY <1>3, <2>4, AnswerEnds
    <2> QED
      BY <1>1, <2>5
  <1> QED
    BY <1>5, <1>6, <1>7, <1>8, <1>9, <1>10, <1>11

\* A command that committed is never refused when it is repeated with the same payload:
\* transactCommand finds the one response of its scope.
THEOREM CommandsReplay == Spec => RepeatedCommandReplays
  BY CommandInvariant, StepReplays, PTL DEF Spec, RepeatedCommandReplays
=============================================================================
