---------------------------- MODULE HttpGateway ----------------------------
(***************************************************************************)
(* The fetch handler (http/src/handler.ts) in front of a runtime: the      *)
(* gates a request passes and in which order, the readiness report, the    *)
(* delivery and redelivery of a command, and the event feed that the       *)
(* handler streams from the runtime's events generator while the run       *)
(* still appends.                                                          *)
(***************************************************************************)
EXTENDS Integers, Sequences, FiniteSets, SequencesExt

CONSTANTS
  GwDeliveries,  \* deliveries of requests to one route: the client may send one again
  GwRequests,    \* what a delivery may carry: its key, the resources of its path, its body
  FeedLast,      \* bound: events of the run
  FeedMaxDrops   \* bound: connections the client loses

ASSUME GwRequestAssumption ==
  \A q \in GwRequests : q = [key |-> q.key, scope |-> q.scope, content |-> q.content]

VARIABLES
  gwCase,        \* the route and the host it meets
  gwSent,        \* request of each delivery
  gwAt,          \* next gate of each delivery, 0 before it arrives
  gwRefusal,     \* the gate that refused a delivery, "none" while none has
  gwStatus,      \* response of each delivery, 0 before it has one
  gwRecords,     \* external: commands the runtime has committed
  gwCommitted,   \* deliveries whose call committed a command
  feedLog, feedTerminal,  \* external: events appended, and the projection's status
  feedPc,        \* where the events generator stands
  feedUpto,      \* last event of the page being read
  feedSeen,      \* the page held an event
  feedCursor,
  feedGot,       \* sequence numbers the client has received
  feedLinked,    \* the client still reads the response
  feedDrops

gwVars == <<gwCase, gwSent, gwAt, gwRefusal, gwStatus, gwRecords, gwCommitted>>
feedVars == <<feedLog, feedTerminal, feedPc, feedUpto, feedSeen, feedCursor, feedGot, feedLinked, feedDrops>>

-----------------------------------------------------------------------------
(* Requests and hosts.                                                     *)

GwReads == {"run", "verification", "artifact", "evidence", "events"}
GwBodies == {"resume", "input", "challenge", "decide", "effect", "cancel"}
GwStarts == {"start", "start_async"}
GwCommandKinds == GwBodies \cup GwStarts

GwGates == {"rate", "authentication", "boundary", "authority", "scheduler", "body", "payload",
            "agent", "key", "missing", "integrity", "size"}

\* Capabilities of a runtime as productionCapabilities and LOCAL_CAPABILITIES report them, and
\* the host's declarations to the handler.
GwHosts ==
  [profile : {"ephemeral", "resumable", "durable"}, protectedStores : BOOLEAN, wakeup : BOOLEAN,
   atomic : BOOLEAN, admission : {"configured", "absent"},
   active : {"configured", "absent"}, anonymous : BOOLEAN, policy : BOOLEAN,
   required : SUBSET {"background_wakeup", "atomic_command_and_wakeup"}]

\* createAgentFetchHandler refuses anonymous access to any but an ephemeral runtime.
GwHostAllowed(h) == h.anonymous => h.profile = "ephemeral"

GwPlainHost ==
  [profile |-> "durable", protectedStores |-> TRUE, wakeup |-> TRUE, atomic |-> TRUE,
   admission |-> "configured", active |-> "configured", anonymous |-> FALSE, policy |-> TRUE,
   required |-> {}]

GwCases ==
  [kind : GwReads \cup GwCommandKinds \cup {"openapi"}, host : {GwPlainHost}]
  \cup [kind : {"ready", "start", "start_async"}, host : {h \in GwHosts : GwHostAllowed(h)}]

\* A read carries neither a key nor a body.
GwBareRequest == [key |-> "none", scope |-> "none", content |-> "none"]

\* capabilitySatisfied of the requirements modelled here.
GwSatisfied(h, requirement) ==
  \/ requirement = "background_wakeup" /\ h.wakeup
  \/ requirement = "atomic_command_and_wakeup" /\ h.atomic

\* evaluateRuntimeReadiness for the production profile.
GwRuntimeReady(h) ==
  /\ h.profile = "durable" /\ h.protectedStores
  /\ h.admission # "absent" /\ h.active # "absent"
  /\ \A r \in h.required : GwSatisfied(h, r)

\* GET /readyz: the runtime's report, the host's authentication and its policy declaration.
GwReady(h) == GwRuntimeReady(h) /\ ~h.anonymous /\ h.policy

\* POST /v1/runs asks for an atomic scheduler unless an ephemeral run is streamed.
GwSchedulerMissing(kind, h) ==
  ~(h.wakeup /\ h.atomic) /\ (kind = "start_async" \/ h.profile # "ephemeral")

-----------------------------------------------------------------------------
(* The gates.                                                              *)

\* The checks of handle in the order it makes them.  The body of submitInput is any JSON.
GwOrder(kind) ==
  <<"rate", "authentication", "boundary">> \o
  CASE kind \in GwStarts -> <<"authority", "scheduler", "body", "payload", "agent", "key">>
    [] kind = "input" -> <<"body", "authority", "key">>
    [] kind \in GwBodies \ {"input"} -> <<"body", "authority", "payload", "key">>
    [] kind \in {"run"} -> <<"authority", "missing">>
    [] kind \in {"verification", "artifact", "evidence"} -> <<"authority", "missing", "integrity", "size">>
    [] kind = "events" -> <<"authority", "payload", "missing">>
    [] OTHER -> <<"authority">>

\* concealResource of authorize.
GwConceals(kind) == kind \in {"verification", "artifact", "evidence"}

\* The HttpFailure of each gate.
GwFailure(kind, gate) ==
  CASE gate = "rate" -> 429
    [] gate = "authentication" -> 401
    [] gate = "boundary" -> 403
    [] gate = "authority" -> IF GwConceals(kind) THEN 404 ELSE 403
    [] gate = "scheduler" -> 503
    [] gate \in {"agent", "missing"} -> 404
    [] gate = "integrity" -> 500
    [] gate = "size" -> 413
    [] OTHER -> 400

\* The checks the request and the host decide.
GwMayPass(d, gate) ==
  /\ gate = "scheduler" => ~GwSchedulerMissing(gwCase.kind, gwCase.host)
  /\ gate = "body" => gwSent[d].content # "unreadable"
  /\ gate = "payload" => gwSent[d].content # "invalid"
  /\ gate = "key" => gwSent[d].key # "malformed"

\* The rate limiter, the authentication, the authority, the registry and the stores are asked
\* anew by every delivery and may answer each one differently.
GwMayFail(d, gate) == gate \in {"scheduler", "body", "payload", "key"} => ~GwMayPass(d, gate)

GwInit ==
  /\ gwCase \in GwCases
  /\ gwSent = [d \in GwDeliveries |-> GwBareRequest]
  /\ gwAt = [d \in GwDeliveries |-> 0]
  /\ gwRefusal = [d \in GwDeliveries |-> "none"]
  /\ gwStatus = [d \in GwDeliveries |-> 0]
  /\ gwRecords = {} /\ gwCommitted = {}

\* A delivery arrives: a new request, or one the client sends again.
GwArrive(d) ==
  /\ gwAt[d] = 0 /\ gwAt' = [gwAt EXCEPT ![d] = 1]
  /\ \E q \in IF gwCase.kind \in GwCommandKinds \cup {"events"} THEN GwRequests ELSE {GwBareRequest} :
       gwSent' = [gwSent EXCEPT ![d] = q]
  /\ UNCHANGED <<gwCase, gwRefusal, gwStatus, gwRecords, gwCommitted>>

\* The gate lets the delivery go on.
GwPass(d) ==
  /\ gwAt[d] \in DOMAIN GwOrder(gwCase.kind)
  /\ GwMayPass(d, GwOrder(gwCase.kind)[gwAt[d]])
  /\ gwAt' = [gwAt EXCEPT ![d] = @ + 1]
  /\ UNCHANGED <<gwCase, gwSent, gwRefusal, gwStatus, gwRecords, gwCommitted>>

\* The gate throws an HttpFailure, of which problem makes the response.
GwRefuse(d) ==
  /\ gwAt[d] \in DOMAIN GwOrder(gwCase.kind)
  /\ LET gate == GwOrder(gwCase.kind)[gwAt[d]] IN
     /\ GwMayFail(d, gate)
     /\ gwRefusal' = [gwRefusal EXCEPT ![d] = gate]
     /\ gwStatus' = [gwStatus EXCEPT ![d] = GwFailure(gwCase.kind, gate)]
  /\ gwAt' = [gwAt EXCEPT ![d] = Len(GwOrder(gwCase.kind)) + 2]
  /\ UNCHANGED <<gwCase, gwSent, gwRecords, gwCommitted>>

MutGwCommandFor(d) == \* mutant: the id of the delivery in place of its idempotency-key
  [scope |-> gwSent[d].scope, id |-> d, digest |-> gwSent[d].content]

\* commandFor: the idempotency-key, the resources of the route and the digest of the body.
GwCommandFor(d) ==
  [scope |-> gwSent[d].scope, id |-> gwSent[d].key, digest |-> gwSent[d].content]

\* external: the command the runtime has recorded under the scope and id of this one.
GwRecorded(d) ==
  {r \in gwRecords : r.scope = GwCommandFor(d).scope /\ r.id = GwCommandFor(d).id}

\* Past every gate the delivery calls the runtime and ends with this status.
GwEnds(d, status) ==
  /\ gwAt[d] = Len(GwOrder(gwCase.kind)) + 1
  /\ gwAt' = [gwAt EXCEPT ![d] = @ + 1]
  /\ gwStatus' = [gwStatus EXCEPT ![d] = status]
  /\ UNCHANGED <<gwCase, gwSent, gwRefusal>>

GwSuccess == IF gwCase.kind = "start_async" THEN 202 ELSE 200

\* external: httpStatus of the errors of a runtime call.
GwThrown == {409, 500}

\* The runtime commits the command.  resume goes on to execute the run and start to schedule
\* it, so that the call may still throw: the answer is a failure of a command that is done.
GwCommit(d) ==
  /\ gwCase.kind \in GwCommandKinds /\ GwRecorded(d) = {}
  /\ \E status \in {GwSuccess} \cup GwThrown : GwEnds(d, status)
  /\ gwRecords' = gwRecords \cup {GwCommandFor(d)} /\ gwCommitted' = gwCommitted \cup {d}

\* The command is recorded: transactCommand returns its value, and what follows may throw; a
\* repeated challenge is refused (RepeatedIssueReplays in module RunCommands).
GwReplay(d) ==
  /\ gwCase.kind \in GwCommandKinds /\ GwCommandFor(d) \in gwRecords
  /\ \E status \in {GwSuccess} \cup GwThrown : GwEnds(d, status)
  /\ UNCHANGED <<gwRecords, gwCommitted>>

\* Another request is recorded under the key: KAF_HTTP_IDEMPOTENCY_CONFLICT.
GwConflict(d) ==
  /\ gwCase.kind \in GwCommandKinds /\ GwRecorded(d) # {} /\ GwCommandFor(d) \notin gwRecords
  /\ GwEnds(d, 409) /\ UNCHANGED <<gwRecords, gwCommitted>>

\* The runtime throws before it has committed anything.
GwThrow(d) ==
  /\ \E status \in GwThrown : GwEnds(d, status)
  /\ UNCHANGED <<gwRecords, gwCommitted>>

\* A read returns, or the readiness report is made.
GwReply(d) ==
  /\ gwCase.kind \notin GwCommandKinds
  /\ GwEnds(d, IF gwCase.kind = "ready" /\ ~GwReady(gwCase.host) THEN 503 ELSE GwSuccess)
  /\ UNCHANGED <<gwRecords, gwCommitted>>

GwCall(d) == GwCommit(d) \/ GwReplay(d) \/ GwConflict(d) \/ GwThrow(d) \/ GwReply(d)

GwStep(d) == GwArrive(d) \/ GwPass(d) \/ GwRefuse(d) \/ GwCall(d)

GwNext == \E d \in GwDeliveries : GwStep(d)

-----------------------------------------------------------------------------
(* The event feed.                                                         *)

FeedInit ==
  /\ feedLog = 1 /\ feedTerminal = FALSE
  /\ feedPc = "read" /\ feedUpto = 0 /\ feedSeen = FALSE /\ feedCursor = 0
  /\ feedGot = <<>> /\ feedLinked = TRUE /\ feedDrops = 0

\* external: the run appends an event, its last one with a terminal status, in one transaction
\* with the projection.
FeedAppend ==
  /\ feedLog < FeedLast /\ ~feedTerminal
  /\ feedLog' = feedLog + 1 /\ feedTerminal' \in BOOLEAN
  /\ UNCHANGED <<feedPc, feedUpto, feedSeen, feedCursor, feedGot, feedLinked, feedDrops>>

\* eventStore.read after the cursor: the page is what the store holds now.
FeedRead ==
  /\ feedPc = "read" /\ feedUpto' = feedLog /\ feedSeen' = FALSE /\ feedPc' = "yield"
  /\ UNCHANGED <<feedLog, feedTerminal, feedCursor, feedGot, feedLinked, feedDrops>>

\* One event is yielded and enqueued by sseResponse; the first one after the client has gone
\* ends the generator (signal.aborted).
FeedYield ==
  /\ feedPc = "yield" /\ feedCursor < feedUpto
  /\ feedCursor' = feedCursor + 1 /\ feedSeen' = TRUE
  /\ IF feedLinked
     THEN feedGot' = Append(feedGot, feedCursor + 1) /\ UNCHANGED feedPc
     ELSE feedPc' = "ended" /\ UNCHANGED feedGot
  /\ UNCHANGED <<feedLog, feedTerminal, feedUpto, feedLinked, feedDrops>>

FeedPageEnd ==
  /\ feedPc = "yield" /\ feedCursor = feedUpto /\ feedPc' = "projection"
  /\ UNCHANGED <<feedLog, feedTerminal, feedUpto, feedSeen, feedCursor, feedGot, feedLinked, feedDrops>>

\* getProjection: a terminal run ends the feed, an empty page waits for the poll interval.
FeedProjection ==
  /\ feedPc = "projection"
  /\ feedPc' = IF feedTerminal THEN "ended" ELSE IF feedSeen THEN "read" ELSE "sleep"
  /\ UNCHANGED <<feedLog, feedTerminal, feedUpto, feedSeen, feedCursor, feedGot, feedLinked, feedDrops>>

FeedWake ==
  /\ feedPc = "sleep" /\ feedPc' = "read"
  /\ UNCHANGED <<feedLog, feedTerminal, feedUpto, feedSeen, feedCursor, feedGot, feedLinked, feedDrops>>

\* The client loses its connection.  The handler passes no signal to events, so a generator
\* that has nothing to yield goes on polling.
FeedDrop ==
  /\ feedLinked /\ feedPc # "ended" /\ feedDrops < FeedMaxDrops
  /\ feedLinked' = FALSE /\ feedDrops' = feedDrops + 1
  /\ UNCHANGED <<feedLog, feedTerminal, feedPc, feedUpto, feedSeen, feedCursor, feedGot>>

\* parseAfter: the Last-Event-ID of the client, 0 when it has none.
FeedAfter == IF feedGot = <<>> THEN 0 ELSE Last(feedGot)

\* GET /v1/runs/:id/events again, after a lost connection or an end without a terminal event.
FeedReconnect ==
  /\ ~feedLinked \/ feedPc = "ended"
  /\ feedPc' = "read" /\ feedCursor' = FeedAfter /\ feedLinked' = TRUE
  /\ UNCHANGED <<feedLog, feedTerminal, feedUpto, feedSeen, feedGot, feedDrops>>

FeedNext ==
  \/ FeedAppend \/ FeedRead \/ FeedYield \/ FeedPageEnd \/ FeedProjection \/ FeedWake
  \/ FeedDrop \/ FeedReconnect

\* The handler's requests and the feed's connections, which share nothing.
GwSpec ==
  /\ GwInit /\ FeedInit
  /\ [][\/ GwNext /\ UNCHANGED feedVars
        \/ FeedNext /\ UNCHANGED gwVars]_<<gwVars, feedVars>>

-----------------------------------------------------------------------------
(* Properties.                                                             *)

\* A client may send a request again under its key, at once or after an answer it lost or that
\* told of a failure: of all deliveries with one key and one resource at most one has an effect,
\* and a success is only reported of the request that had it.  A failure of the runtime may be
\* reported of a request that was committed, so only the refusal of a gate means that this
\* delivery changed nothing.
GwOnce ==
  /\ \A c, d \in gwCommitted : gwSent[c].key = gwSent[d].key /\ gwSent[c].scope = gwSent[d].scope => c = d
  /\ \A d \in GwDeliveries :
       gwCase.kind \in GwCommandKinds /\ gwStatus[d] \in {200, 202} =>
         \E c \in gwCommitted : gwSent[c] = gwSent[d]

\* What the runtime was made to commit had a well-formed key and a body that handle had read
\* and, but for an input, parsed; and no gate had refused that delivery.
GwActsLast ==
  \A d \in gwCommitted :
    /\ gwRefusal[d] = "none"
    /\ gwSent[d].key # "malformed" /\ gwSent[d].content # "unreadable"
    /\ gwSent[d].content = "invalid" => gwCase.kind = "input"

\* Artifacts and evidence: a caller who may not see a resource gets the answer of one who asks
\* for a resource that does not exist (authorize with concealResource).
GwIndistinguishable ==
  \A c, d \in GwDeliveries :
    gwCase.kind \in {"verification", "artifact", "evidence"}
      /\ gwRefusal[c] = "authority" /\ gwRefusal[d] = "missing" => gwStatus[c] = gwStatus[d]

\* A host that reports ready and declared the scheduler as required serves POST /v1/runs.
\* Without that declaration it may report ready and refuse every start: readiness does not
\* look at the scheduler by itself.
GwReadyServes ==
  GwReady(gwCase.host) /\ {"background_wakeup", "atomic_command_and_wakeup"} \subseteq gwCase.host.required =>
    \A d \in GwDeliveries : gwRefusal[d] # "scheduler"

\* Whatever connections it loses and makes again with its Last-Event-ID, the client receives
\* the events of the run in order, none twice and none skipped (events, sseResponse, parseAfter).
FeedInOrder == feedGot = [i \in 1..Len(feedGot) |-> i]

\* agent.test.ts follows a running run and expects the last event to be RunCompleted: a feed
\* that ends by itself has delivered the run's last event.
FeedComplete == feedPc = "ended" /\ feedLinked => feedCursor = feedLog

\* The handler in front of a runtime: a request takes effect at most once under its key however
\* often it is delivered and whatever it is answered, a refused one not at all; a concealed
\* resource looks like a missing one, a ready host serves what it declared, and the feed
\* delivers the events in order over any number of connections.
GatewaySafe == GwOnce /\ GwActsLast /\ GwIndistinguishable /\ GwReadyServes /\ FeedInOrder
=============================================================================
