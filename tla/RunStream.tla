----------------------------- MODULE RunStream ------------------------------
(***************************************************************************)
(* One run's event stream and its stored projection: MemoryEventStore and  *)
(* PostgresEventStore (append, getProjection, dropProjection,              *)
(* rebuildProjection) and the event half of the PostgreSQL unit of work    *)
(* (#flushRunState).  Writers are runtime processes, command handlers and  *)
(* workers alike: each reads the projection, reduces its next event on its *)
(* own copy and sends the append, so its copy may be stale by the time the *)
(* store looks at it, and the answer may be lost and the append repeated.  *)
(*                                                                         *)
(* A store transaction is one step: PostgreSQL holds the run's advisory    *)
(* lock or the (run, sequence) primary key decides, the memory store runs  *)
(* without awaiting.                                                       *)
(***************************************************************************)
EXTENDS RunReducer, Sequences, FiniteSets

CONSTANTS
  Writers,    \* the processes that append to the run
  Kind,       \* "agent" or "compensation"
  Alphabet,   \* bound: the event types the writers use
  MaxEvents   \* bound: length of the stream

ASSUME KindAssumption == Kind \in Kinds
ASSUME BoundsAssumption == MaxEvents \in Nat /\ Alphabet \subseteq EventTypes

VARIABLES
  log,      \* pactmark_run_events of the run, in sequence order
  stored,   \* the row of pactmark_run_projections, or None
  view,     \* view[w]: the projection writer w last read or produced, or None
  pending,  \* pending[w]: the stamped event w has sent and not heard about, or None
  acked     \* history: events some writer was told are stored

vars == <<log, stored, view, pending, acked>>

\* An event as sent.  occurredAt differs between two writers' events, so the
\* writer stands for it; the event id is derived from sequence and type.
Stamped(w, seq, e) == [sequence |-> seq, event |-> e, writer |-> w]

eventId(s) == <<s.sequence, s.event.type>>

\* rebuildRunProjection over the first n events of the stream s.
RebuildTo(s, n) ==
  LET f[i \in 0..n] ==
        IF i = 0 THEN createRunProjection(Kind) ELSE Reduce(f[i - 1], s[i].event)
  IN f[n]

rebuildRunProjection(s) == RebuildTo(s, Len(s))

Init ==
  /\ log = <<>>
  /\ stored = None
  /\ view = [w \in Writers |-> None]
  /\ pending = [w \in Writers |-> None]
  /\ acked = {}

\* A writer reads the projection.  With no row and no events it starts a run
\* on a fresh projection.
getProjection(w) ==
  /\ pending[w] = None
  /\ \/ stored # None /\ view' = [view EXCEPT ![w] = stored]
     \/ stored = None /\ log = <<>> /\ view' = [view EXCEPT ![w] = createRunProjection(Kind)]
  /\ UNCHANGED <<log, stored, pending, acked>>

\* The events the writers write.
Composed == {e : e \in {x \in Events : x.type \in Alphabet}}

\* The writer builds its next event and reduces it on its own copy.  Only start
\* and requestCompensation work on a fresh projection, and they write RunAccepted.
Compose(w, e) ==
  /\ pending[w] = None /\ view[w] # None
  /\ view[w].lastSequence < MaxEvents
  /\ view[w].lastSequence = 0 => e.type = "RunAccepted"
  /\ Reducible(view[w], e, view[w].lastSequence + 1)
  /\ pending' = [pending EXCEPT ![w] = Stamped(w, view[w].lastSequence + 1, e)]
  /\ UNCHANGED <<log, stored, view, acked>>

\* The writer hears that its append is stored, or the answer is lost and it
\* will send the same event again.
Answered(w, replayed) ==
  \/ /\ pending' = [pending EXCEPT ![w] = None]
     /\ view' = [view EXCEPT ![w] = IF replayed THEN None ELSE Reduce(@, pending[w].event)]
     /\ acked' = acked \cup {pending[w]}
  \/ UNCHANGED <<pending, view, acked>>

\* The store refuses: the writer drops its event and must read again.
Refused(w) ==
  /\ pending' = [pending EXCEPT ![w] = None]
  /\ view' = [view EXCEPT ![w] = None]
  /\ UNCHANGED <<log, stored, acked>>

SameId(s) == {i \in 1..Len(log) : eventId(log[i]) = eventId(s)}

MutExpectedTail(s) == Len(log) >= s.sequence - 1  \* mutant: gaps refused, stale tails not

\* Optimistic concurrency: the stream ends exactly before the event.
ExpectedTail(s) == Len(log) = s.sequence - 1

\* EventStore.append: a known event id is replayed or refused; otherwise the
\* expected sequence must hold, the projection must be there (or the stream
\* empty and the event a RunAccepted), and the STORED projection is reduced.
append(w) ==
  /\ pending[w] # None
  /\ LET s == pending[w]
         previous == IF stored = None THEN createRunProjection(Kind) ELSE stored
     IN IF SameId(s) # {}
        THEN IF \E i \in SameId(s) : log[i] = s
             THEN Answered(w, TRUE) /\ UNCHANGED <<log, stored>>
             ELSE Refused(w)
        ELSE IF /\ ExpectedTail(s)
                /\ stored = None => log = <<>> /\ s.event.type = "RunAccepted"
                /\ Reducible(previous, s.event, s.sequence)
             THEN /\ log' = Append(log, s)
                  /\ stored' = Reduce(previous, s.event)
                  /\ Answered(w, FALSE)
             ELSE Refused(w)

\* mutant: a sequence conflict is swallowed (ON CONFLICT DO NOTHING)
MutflushRunState(w) ==
  /\ pending[w] # None
  /\ IF ExpectedTail(pending[w])
     THEN /\ log' = Append(log, pending[w])
          /\ stored' = Reduce(view[w], pending[w].event)
          /\ Answered(w, FALSE)
     ELSE Answered(w, FALSE) /\ UNCHANGED <<log, stored>>

\* #flushRunState of the PostgreSQL unit of work: the tail check and the event
\* id's uniqueness guard the insert, the WRITER's projection is stored as it is,
\* refused only if the stored one is not older.
flushRunState(w) ==
  /\ pending[w] # None
  /\ LET s == pending[w]
         next == Reduce(view[w], s.event)
     IN IF /\ ExpectedTail(s) /\ SameId(s) = {}
           /\ stored # None => stored.lastSequence < next.lastSequence
        THEN /\ log' = Append(log, s)
             /\ stored' = next
             /\ Answered(w, FALSE)
        ELSE Refused(w)

\* The operator drops the projection row.
dropProjection ==
  /\ stored # None
  /\ stored' = None
  /\ UNCHANGED <<log, view, pending, acked>>

\* rebuildProjection: replays the whole stream and stores the result.
rebuildProjection ==
  /\ log # <<>>
  /\ log[1].event.type = "RunAccepted"
  /\ stored' = rebuildRunProjection(log)
  /\ UNCHANGED <<log, view, pending, acked>>

Next ==
  \/ \E w \in Writers :
       \/ getProjection(w)
       \/ \E e \in Composed : Compose(w, e)
       \/ append(w)
       \/ flushRunState(w)
  \/ dropProjection
  \/ rebuildProjection

Spec == Init /\ [][Next]_vars

-----------------------------------------------------------------------------
(* Properties *)

TypeOK ==
  /\ log \in Seq([sequence : Nat, event : Events, writer : Writers])
  /\ stored \in Projections \cup {None}
  /\ view \in [Writers -> Projections \cup {None}]
  /\ pending \in [Writers -> [sequence : Nat, event : Events, writer : Writers] \cup {None}]
  /\ acked \subseteq [sequence : Nat, event : Events, writer : Writers]

\* The stored projection is the reduction of the stream, whoever wrote it and
\* however stale the copies the writers reduced on (ADR-0003: projections are
\* "rebuildable reductions of the event history"; event-store.ts append and
\* #flushRunState keep the row, rebuildProjection recomputes it).
ProjectionIsReplay == stored # None => stored = rebuildRunProjection(log)

\* Every event is accepted by the reducer at its own place in the stream, so a
\* replay never throws half way (rebuildProjection calls reduceRunEvent on each).
StreamReplays ==
  \A i \in 1..Len(log) : Reducible(RebuildTo(log, i - 1), log[i].event, log[i].sequence)

\* An append a writer was told about is in the stream once and stays there,
\* repeated deliveries included (the duplicate branch of append).
AckedOnce ==
  \A s \in acked : Cardinality({i \in 1..Len(log) : eventId(log[i]) = eventId(s)}) = 1
                   /\ \E i \in 1..Len(log) : log[i] = s

\* A completed run has, in its stream, a pass or an exception for every
\* verifier the accepted work order required (reduceRunEvent's RunCompleted
\* check, against the stream rather than the writer's copy).
CompletionVerified ==
  (\E i \in 1..Len(log) : log[i].event.type = "RunCompleted") =>
    \A v \in log[1].event.required :
      \E i \in 1..Len(log) :
        /\ log[i].event.verifier = v
        /\ log[i].event.type = "VerificationExceptionRecorded" \/ log[i].event.target = "pass"

\* Stream and row agree: the stream replays from its start, and the stored projection is
\* what it replays to, whoever wrote it last and on however stale a copy.
StreamSound == TypeOK /\ StreamReplays /\ ProjectionIsReplay
=============================================================================
