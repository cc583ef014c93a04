--------------------------- MODULE RunStreamProofs --------------------------
(***************************************************************************)
(* For every number of writers, every event alphabet, both kinds of run    *)
(* and every bound: the stream replays, the stored projection is what it   *)
(* replays to, an acknowledged event is in the stream once, and a run that *)
(* completed was verified.                                                 *)
(*                                                                         *)
(* The first part is about the replay itself: RebuildTo reduces one event  *)
(* after the other, depends on the events it replays only, and what it     *)
(* collects is in the stream.  The second part is the inductive invariant: *)
(* a writer's copy is always the replay of a prefix of the stream.         *)
(***************************************************************************)
EXTENDS RunStream, FiniteSetTheorems, WellFoundedInduction, TLAPS

-----------------------------------------------------------------------------
(* Replay *)

\* A set of naturals that holds 0 and the successors of its members is Nat.
LEMMA NatInd ==
  ASSUME NEW T \in SUBSET Nat, 0 \in T, \A n \in T : n + 1 \in T
  PROVE  T = Nat
  <1> DEFINE Below == {p \in Nat \X Nat : p[1] < p[2]}
  <1>1. IsWellFoundedOn(Below, Nat)
    BY NatLessThanWellFounded DEF OpToRel
  <1> SUFFICES ASSUME Nat \ T # {} PROVE FALSE
    OBVIOUS
  <1>2. \E n \in Nat \ T : \A m \in Nat \ T : ~(<<m, n>> \in Below)
    <2> HIDE DEF Below
    <2> QED
      BY <1>1, WFMin
  <1>3. PICK n \in Nat \ T : \A m \in Nat \ T : ~(m < n)
    BY <1>2
  <1>4. n - 1 \in T
    BY <1>3
  <1> QED
    BY <1>3, <1>4

\* g holds the replays of the first 0, 1, ..., n events of s.
IsReplay(g, s, n) ==
  g = [i \in 0..n |-> IF i = 0 THEN createRunProjection(Kind) ELSE Reduce(g[i - 1], s[i].event)]

(* RebuildTo is the last value of the function that reduces one event after another. *)
LEMMA RebuildIsChosen ==
  ASSUME NEW s, NEW n
  PROVE  RebuildTo(s, n) = (CHOOSE g : IsReplay(g, s, n))[n]
  BY DEF RebuildTo, IsReplay

(* Such a function exists for every stream and every length. *)
LEMMA ReplayExists ==
  ASSUME NEW s, NEW n \in Nat
  PROVE  \E g : IsReplay(g, s, n)
  <1> DEFINE T == {m \in Nat : \E g : IsReplay(g, s, m)}
  <1>1. 0 \in T
    <2> DEFINE g == [i \in 0..0 |-> createRunProjection(Kind)]
    <2>1. IsReplay(g, s, 0)
      BY DEF IsReplay
    <2> QED
      BY <2>1
  <1>2. ASSUME NEW m \in T PROVE m + 1 \in T
    <2>1. PICK g : IsReplay(g, s, m)
      OBVIOUS
    <2> DEFINE h == [i \in 0..(m + 1) |-> IF i <= m THEN g[i] ELSE Reduce(g[m], s[m + 1].event)]
    <2>2. m \in Nat
      OBVIOUS
    <2>3. \A i \in 0..m : g[i] = IF i = 0 THEN createRunProjection(Kind)
                                 ELSE Reduce(g[i - 1], s[i].event)
      BY <2>1 DEF IsReplay
    <2>4. ASSUME NEW i \in 0..(m + 1)
          PROVE  h[i] = IF i = 0 THEN createRunProjection(Kind) ELSE Reduce(h[i - 1], s[i].event)
      <3>1. CASE i <= m
        <4>1. i \in 0..m /\ h[i] = g[i] /\ (i # 0 => h[i - 1] = g[i - 1])
          BY <2>2, <3>1
        <4> HIDE DEF h
        <4> QED
          BY <2>3, <4>1
      <3>2. CASE i = m + 1
        <4>1. i # 0 /\ h[i] = Reduce(g[m], s[m + 1].event) /\ h[i - 1] = g[m] /\ i - 1 = m
          BY <2>2, <3>2
        <4> HIDE DEF h
        <4> QED
          BY <3>2, <4>1
      <3> QED
        BY <2>2, <3>1, <3>2
    <2>5. IsReplay(h, s, m + 1)
      BY <2>4 DEF IsReplay
    <2> HIDE DEF h
    <2> QED
      BY <2>2, <2>5
  <1> HIDE DEF T
  <1>3. T \in SUBSET Nat
    BY DEF T
  <1>4. T = Nat
    BY <1>1, <1>2, <1>3, NatInd
  <1> QED
    BY <1>4 DEF T

SameEvents(s, t, n) == \A i \in 1..n : s[i].event = t[i].event

\* Replays of two streams that agree up to n agree up to n.
LEMMA ReplayAgrees ==
  ASSUME NEW s, NEW t, NEW n \in Nat, NEW m \in Nat, NEW k \in Nat, k <= n, k <= m,
         NEW g, IsReplay(g, s, n), NEW h, IsReplay(h, t, m),
         SameEvents(s, t, k)
  PROVE  g[k] = h[k]
  <1> DEFINE T == {i \in Nat : i <= k => g[i] = h[i]}
  <1>1. \A i \in 0..n : g[i] = IF i = 0 THEN createRunProjection(Kind)
                               ELSE Reduce(g[i - 1], s[i].event)
    BY DEF IsReplay
  <1>2. \A i \in 0..m : h[i] = IF i = 0 THEN createRunProjection(Kind)
                               ELSE Reduce(h[i - 1], t[i].event)
    BY DEF IsReplay
  <1>3. 0 \in T
    BY <1>1, <1>2
  <1>4. ASSUME NEW i \in T PROVE i + 1 \in T
    <2> SUFFICES ASSUME i + 1 <= k PROVE g[i + 1] = h[i + 1]
      OBVIOUS
    <2>1. i + 1 \in 0..n /\ i + 1 \in 0..m /\ i + 1 \in 1..k /\ i + 1 # 0 /\ (i + 1) - 1 = i
      OBVIOUS
    <2>2. g[i] = h[i]
      OBVIOUS
    <2>3. g[i + 1] = Reduce(g[i], s[i + 1].event)
      BY <1>1, <2>1
    <2>4. h[i + 1] = Reduce(h[i], t[i + 1].event)
      BY <1>2, <2>1
    <2>5. s[i + 1].event = t[i + 1].event
      BY <2>1 DEF SameEvents
    <2> QED
      BY <2>2, <2>3, <2>4, <2>5
  <1> HIDE DEF T
  <1>5. T \in SUBSET Nat
    BY DEF T
  <1>6. T = Nat
    BY <1>3, <1>4, <1>5, NatInd
  <1> QED
    BY <1>6 DEF T

\* rebuildRunProjection is a left fold of reduceRunEvent over the stream.
LEMMA RebuildZero == ASSUME NEW s PROVE RebuildTo(s, 0) = createRunProjection(Kind)
  <1> DEFINE g == CHOOSE u : IsReplay(u, s, 0)
  <1>1. IsReplay(g, s, 0)
    BY ReplayExists
  <1>2. RebuildTo(s, 0) = g[0]
    BY RebuildIsChosen
  <1> HIDE DEF g
  <1> QED
    BY <1>1, <1>2 DEF IsReplay

(* Replaying one event more reduces it into what the events before it gave. *)
LEMMA RebuildStep ==
  ASSUME NEW s, NEW n \in Nat
  PROVE  RebuildTo(s, n + 1) = Reduce(RebuildTo(s, n), s[n + 1].event)
  <1> DEFINE g == CHOOSE u : IsReplay(u, s, n)
             h == CHOOSE u : IsReplay(u, s, n + 1)
  <1>1. IsReplay(g, s, n) /\ IsReplay(h, s, n + 1)
    BY ReplayExists
  <1>2. RebuildTo(s, n) = g[n] /\ RebuildTo(s, n + 1) = h[n + 1]
    BY RebuildIsChosen
  <1> HIDE DEF g, h
  <1>3. h[n + 1] = Reduce(h[n], s[n + 1].event)
    <2>1. n + 1 \in 0..(n + 1) /\ n + 1 # 0 /\ (n + 1) - 1 = n
      OBVIOUS
    <2> QED
      BY <1>1, <2>1 DEF IsReplay
  <1>4. g[n] = h[n]
    <2>1. SameEvents(s, s, n)
      BY DEF SameEvents
    <2> QED
      BY <1>1, <2>1, ReplayAgrees
  <1> QED
    BY <1>2, <1>3, <1>4

\* Two streams that agree up to n replay to the same projection.
LEMMA RebuildAgrees ==
  ASSUME NEW s, NEW t, NEW n \in Nat, SameEvents(s, t, n)
  PROVE  RebuildTo(s, n) = RebuildTo(t, n)
  <1> DEFINE g == CHOOSE u : IsReplay(u, s, n)
             h == CHOOSE u : IsReplay(u, t, n)
  <1>1. IsReplay(g, s, n) /\ IsReplay(h, t, n)
    BY ReplayExists
  <1>2. RebuildTo(s, n) = g[n] /\ RebuildTo(t, n) = h[n]
    BY RebuildIsChosen
  <1> HIDE DEF g, h
  <1>3. g[n] = h[n]
    <2>1. n <= n
      OBVIOUS
    <2> QED
      BY <1>1, <2>1, ReplayAgrees
  <1> QED
    BY <1>2, <1>3

-----------------------------------------------------------------------------
(* The reducer *)

(* A new projection has the types, no events and no verification. *)
LEMMA CreateType ==
  /\ createRunProjection(Kind) \in Projections
  /\ createRunProjection(Kind).lastSequence = 0 /\ createRunProjection(Kind).passed = {}
  /\ createRunProjection(Kind).exceptions = {}
  BY KindAssumption DEF createRunProjection, Projections, Kinds, Statuses

\* What reduceRunEvent writes, field by field, for the fields the proofs use.
LEMMA ReduceFields ==
  ASSUME NEW p, NEW e
  PROVE  /\ Reduce(p, e).lastSequence = p.lastSequence + 1
         /\ Reduce(p, e).status = IF nextStatusFor(e) = None THEN p.status ELSE nextStatusFor(e)
         /\ Reduce(p, e).required = IF e.type = "RunAccepted" THEN e.required ELSE p.required
         /\ Reduce(p, e).passed = Passed(p, e)
         /\ Reduce(p, e).exceptions = IF e.type = "VerificationExceptionRecorded"
                                      THEN p.exceptions \cup {e.verifier} ELSE p.exceptions
  BY DEF Reduce

(* No status leads back to created. *)
LEMMA TransitionsAreStatuses ==
  ASSUME NEW status
  PROVE  RUN_TRANSITIONS(status) \subseteq Statuses \ {"created"}
  BY DEF RUN_TRANSITIONS, Statuses, TerminalStatuses

\* A reducible event of the schema gives a projection.
LEMMA ReduceType ==
  ASSUME NEW p \in Projections, NEW e \in Events, NEW q, Reducible(p, e, q)
  PROVE  Reduce(p, e) \in Projections
  <1>1. e \in EventRecords
    BY DEF Events
  <1>2. (IF nextStatusFor(e) = None THEN p.status ELSE nextStatusFor(e)) \in Statuses
    BY TransitionsAreStatuses DEF Reducible, Projections
  <1>3. e.type = "RunSuspended" => e.target \in ResumeTargets
    BY DEF Events
  <1>4. e.type \in {"VerificationRecorded", "VerificationExceptionRecorded"} =>
          e.verifier \in Verifiers
    BY <1>1 DEF Events, EventRecords
  <1>5. Passed(p, e) \in SUBSET Verifiers
    BY <1>4 DEF Passed, Projections
  <1>6. /\ e.required \in SUBSET Verifiers /\ e.id \in Ids \cup {None}
    BY <1>1 DEF EventRecords
  <1> DEFINE f1 == IF nextStatusFor(e) = None THEN p.status ELSE nextStatusFor(e)
             f2 == IF e.type = "RunAccepted" THEN e.required ELSE p.required
             f3 == CASE e.type = "InputRequested" -> e.id
                     [] e.type = "InputSubmitted" -> None
                     [] OTHER -> p.waitingRequestId
             f4 == CASE e.type = "ApprovalRequested" -> e.id
                     [] e.type \in {"ApprovalRecorded", "ApprovalRejected"} -> None
                     [] OTHER -> p.waitingDecisionId
             f5 == CASE e.type = "RunSuspended" -> e.target
                     [] e.type \in {"PlanningStarted", "ExecutionStarted", "VerificationStarted"}
                          -> None
                     [] OTHER -> p.resumeTarget
             f6 == CASE e.type \in {"RunSuspended", "EffectPrepared"} -> e.id
                     [] e.type \in {"EffectAcknowledged", "EffectAbandoned"} -> None
                     [] OTHER -> p.activeEffectId
             f7 == IF e.type = "VerificationExceptionRecorded"
                   THEN p.exceptions \cup {e.verifier} ELSE p.exceptions
             f8 == IF e.type = "RunFailed" THEN TRUE ELSE p.terminalError
  <1>7. f1 \in Statuses
    BY <1>2
  <1>8. f2 \in SUBSET Verifiers /\ f7 \in SUBSET Verifiers
    BY <1>4, <1>6 DEF Projections
  <1>9. f3 \in Ids \cup {None} /\ f4 \in Ids \cup {None} /\ f6 \in Ids \cup {None}
    BY <1>6 DEF Projections
  <1>10. f5 \in ResumeTargets \cup {None}
    BY <1>3 DEF Projections
  <1>11. f8 \in BOOLEAN
    BY DEF Projections
  <1>12. p.lastSequence + 1 \in Nat
    BY DEF Projections
  <1>13. Reduce(p, e) =
           [kind |-> p.kind, status |-> f1, lastSequence |-> p.lastSequence + 1,
            resumeTarget |-> f5, waitingRequestId |-> f3, waitingDecisionId |-> f4,
            activeEffectId |-> f6, required |-> f2, passed |-> Passed(p, e),
            exceptions |-> f7, terminalError |-> f8]
    BY DEF Reduce
  <1>14. p.kind \in Kinds
    BY DEF Projections
  <1> HIDE DEF f1, f2, f3, f4, f5, f6, f7, f8
  <1> QED
    BY <1>5, <1>7, <1>8, <1>9, <1>10, <1>11, <1>12, <1>13, <1>14 DEF Projections

-----------------------------------------------------------------------------
(* What a replay holds *)

StampedEvents == [sequence : Nat, event : Events, writer : Writers]

\* The first n events of s are accepted one after the other.
Replays(s, n) ==
  \A i \in 1..n : Reducible(RebuildTo(s, i - 1), s[i].event, s[i].sequence)

\* A replay is a projection and counts the events.
LEMMA RebuildType ==
  ASSUME NEW s \in Seq(StampedEvents), Replays(s, Len(s)), NEW n \in 0..Len(s)
  PROVE  RebuildTo(s, n) \in Projections /\ RebuildTo(s, n).lastSequence = n
  <1> DEFINE T == {m \in Nat : m <= Len(s) =>
                     RebuildTo(s, m) \in Projections /\ RebuildTo(s, m).lastSequence = m}
  <1>1. 0 \in T
    BY RebuildZero, CreateType
  <1>2. ASSUME NEW m \in T PROVE m + 1 \in T
    <2> SUFFICES ASSUME m + 1 <= Len(s)
                 PROVE  /\ RebuildTo(s, m + 1) \in Projections
                        /\ RebuildTo(s, m + 1).lastSequence = m + 1
      OBVIOUS
    <2>1. m \in Nat /\ m + 1 \in 1..Len(s) /\ (m + 1) - 1 = m
      OBVIOUS
    <2>2. RebuildTo(s, m) \in Projections /\ RebuildTo(s, m).lastSequence = m
      BY <2>1
    <2>3. s[m + 1].event \in Events
      <3>1. s[m + 1] \in StampedEvents
        BY <2>1
      <3> QED
        BY <3>1 DEF StampedEvents
    <2>4. Reducible(RebuildTo(s, m), s[m + 1].event, s[m + 1].sequence)
      BY <2>1 DEF Replays
    <2>5. RebuildTo(s, m + 1) = Reduce(RebuildTo(s, m), s[m + 1].event)
      BY <2>1, RebuildStep
    <2> HIDE DEF T
    <2>6. RebuildTo(s, m + 1) \in Projections
      BY <2>2, <2>3, <2>4, <2>5, ReduceType
    <2>7. RebuildTo(s, m + 1).lastSequence = RebuildTo(s, m).lastSequence + 1
      BY <2>5, ReduceFields, ZenonT(30)
    <2> QED
      BY <2>1, <2>2, <2>6, <2>7
  <1> HIDE DEF T
  <1>3. T \in SUBSET Nat
    BY DEF T
  <1>4. T = Nat
    BY <1>1, <1>2, <1>3, NatInd
  <1>5. n \in T /\ n <= Len(s)
    BY <1>4
  <1> QED
    BY <1>5 DEF T

\* Verifier v passed, or was excepted, within the first n events of s.
VerifiedBy(s, n, v) ==
  \E i \in 1..n :
    /\ s[i].event.verifier = v
    /\ s[i].event.type = "VerificationExceptionRecorded" \/ s[i].event.target = "pass"

\* The verifiers a replay counts are in the stream, what it requires is what the first
\* event required, and a run that has begun never becomes new again.
LEMMA RebuildHolds ==
  ASSUME NEW s \in Seq(StampedEvents), Replays(s, Len(s)), NEW n \in 0..Len(s),
         Len(s) > 0 => s[1].event.type = "RunAccepted"
  PROVE  /\ \A v \in RebuildTo(s, n).passed \cup RebuildTo(s, n).exceptions : VerifiedBy(s, n, v)
         /\ n > 0 => /\ RebuildTo(s, n).required = s[1].event.required
                     /\ RebuildTo(s, n).status # "created"
  <1> DEFINE P(m) == /\ \A v \in RebuildTo(s, m).passed \cup RebuildTo(s, m).exceptions :
                          VerifiedBy(s, m, v)
                     /\ m > 0 => /\ RebuildTo(s, m).required = s[1].event.required
                                 /\ RebuildTo(s, m).status # "created"
             T == {m \in Nat : m <= Len(s) => P(m)}
  <1>1. 0 \in T
    <2>1. P(0)
      BY RebuildZero, CreateType
    <2> HIDE DEF P
    <2> QED
      BY <2>1
  <1>2. ASSUME NEW m \in T PROVE m + 1 \in T
    <2> SUFFICES ASSUME m + 1 <= Len(s) PROVE P(m + 1)
      OBVIOUS
    <2>1. m \in Nat /\ m + 1 \in 1..Len(s) /\ (m + 1) - 1 = m /\ m \in 0..Len(s) /\ m <= Len(s)
      OBVIOUS
    <2>2. P(m)
      BY <2>1
    <2> DEFINE p == RebuildTo(s, m)
               e == s[m + 1].event
    <2>3. Reducible(p, e, s[m + 1].sequence)
      BY <2>1 DEF Replays
    <2>4. RebuildTo(s, m + 1) = Reduce(p, e)
      BY <2>1, RebuildStep
    <2>5. p \in Projections
      BY <2>1, RebuildType
    <2>6. ASSUME NEW v, VerifiedBy(s, m, v) PROVE VerifiedBy(s, m + 1, v)
      BY <2>1, <2>6 DEF VerifiedBy
    <2>7. ASSUME NEW v \in Reduce(p, e).passed \cup Reduce(p, e).exceptions
          PROVE  VerifiedBy(s, m + 1, v)
      <3>1. \/ v \in p.passed \cup p.exceptions
            \/ e.verifier = v /\ (e.type = "VerificationExceptionRecorded" \/ e.target = "pass")
        <4> HIDE DEF p, e
        <4>1. /\ Reduce(p, e).passed = Passed(p, e)
              /\ Reduce(p, e).exceptions = IF e.type = "VerificationExceptionRecorded"
                                           THEN p.exceptions \cup {e.verifier} ELSE p.exceptions
          BY ReduceFields
        <4> QED
          BY <2>7, <4>1 DEF Passed
      <3>2. CASE v \in p.passed \cup p.exceptions
        BY <2>2, <2>6, <3>2
      <3>3. CASE e.verifier = v /\ (e.type = "VerificationExceptionRecorded" \/ e.target = "pass")
        <4>1. m + 1 \in 1..(m + 1)
          BY <2>1
        <4> QED
          BY <3>3, <4>1 DEF VerifiedBy
      <3> QED
        BY <3>1, <3>2, <3>3
    <2>8. Reduce(p, e).status # "created"
      <3>1. m > 0 => p.status # "created"
        BY <2>2
      <3>2. m = 0 => e.type = "RunAccepted"
        BY <2>1
      <3> HIDE DEF p, e
      <3>3. e.type = "RunAccepted" => nextStatusFor(e) = "accepted"
        BY DEF nextStatusFor
      <3>4. "accepted" # None
        BY NoneIsNoId DEF Statuses
      <3> QED
        <4>1. nextStatusFor(e) # None => nextStatusFor(e) # "created"
          <5>1. RUN_TRANSITIONS(p.status) \subseteq Statuses \ {"created"}
            BY TransitionsAreStatuses
          <5>2. nextStatusFor(e) # None => nextStatusFor(e) \in RUN_TRANSITIONS(p.status)
            BY <2>3 DEF Reducible
          <5> QED
            BY <5>1, <5>2
        <4>2. Reduce(p, e).status = IF nextStatusFor(e) = None THEN p.status ELSE nextStatusFor(e)
          BY DEF Reduce
        <4>3. m > 0 \/ m = 0
          BY <2>1
        <4> QED
          BY <3>1, <3>2, <3>3, <3>4, <4>1, <4>2, <4>3
    <2>9. Reduce(p, e).required = s[1].event.required
      <3>1. m > 0 => p.status # "created" /\ p.required = s[1].event.required
        BY <2>2
      <3>2. m = 0 => e = s[1].event /\ e.type = "RunAccepted"
        BY <2>1
      <3> HIDE DEF p, e
      <3>3. e.type = "RunAccepted" => nextStatusFor(e) = "accepted"
        BY DEF nextStatusFor
      <3>4. "accepted" # None
        BY NoneIsNoId DEF Statuses
      <3>5. m > 0 => e.type # "RunAccepted"
        <4>1. \A status : "accepted" \in RUN_TRANSITIONS(status) => status = "created"
          BY DEF RUN_TRANSITIONS
        <4> QED
          BY <2>3, <3>1, <3>3, <3>4, <4>1 DEF Reducible
      <3> QED
        <4>1. Reduce(p, e).required = IF e.type = "RunAccepted" THEN e.required ELSE p.required
          BY ReduceFields
        <4>2. m > 0 \/ m = 0
          BY <2>1
        <4> QED
          BY <3>1, <3>2, <3>5, <4>1, <4>2
    <2> HIDE DEF p, e
    <2> QED
      BY <2>4, <2>7, <2>8, <2>9
  <1> HIDE DEF T
  <1>3. T \in SUBSET Nat
    BY DEF T
  <1>4. T = Nat
    BY <1>1, <1>2, <1>3, NatInd
  <1>5. n \in T /\ n <= Len(s)
    BY <1>4
  <1> QED
    BY <1>5 DEF T

-----------------------------------------------------------------------------
(* The invariant *)

\* The sequence number of an event is its place, and a run begins with RunAccepted.
SequenceIsPlace ==
  /\ \A i \in 1..Len(log) : log[i].sequence = i
  /\ Len(log) > 0 => log[1].event.type = "RunAccepted"

\* A writer's copy is the replay of a prefix of the stream, however long ago it was read.
ViewIsPrefix ==
  \A w \in Writers : view[w] # None =>
    /\ view[w].lastSequence <= Len(log)
    /\ view[w] = RebuildTo(log, view[w].lastSequence)

\* The event a writer has sent fits its copy.
PendingFits ==
  \A w \in Writers : pending[w] # None =>
    /\ view[w] # None /\ pending[w].sequence = view[w].lastSequence + 1
    /\ Reducible(view[w], pending[w].event, pending[w].sequence)
    /\ pending[w].sequence = 1 => pending[w].event.type = "RunAccepted"

AckedStored == \A s \in acked : \E i \in 1..Len(log) : log[i] = s

StreamInv ==
  TypeOK /\ SequenceIsPlace /\ StreamReplays /\ ProjectionIsReplay /\ ViewIsPrefix
  /\ PendingFits /\ AckedStored

(* The empty stream satisfies the invariant. *)
LEMMA StreamInit == Init => StreamInv
  BY DEF Init, StreamInv, TypeOK, SequenceIsPlace, StreamReplays, ProjectionIsReplay,
         ViewIsPrefix, PendingFits, AckedStored

\* What the invariant says of the stream and of a copy.
LEMMA StreamFacts ==
  ASSUME StreamInv
  PROVE  /\ log \in Seq(StampedEvents) /\ Len(log) \in Nat /\ Replays(log, Len(log))
         /\ \A n \in 0..Len(log) : /\ RebuildTo(log, n) \in Projections
                                   /\ RebuildTo(log, n).lastSequence = n
         /\ stored # None => stored \in Projections /\ stored.lastSequence = Len(log)
  <1>1. log \in Seq(StampedEvents) /\ Len(log) \in Nat
    BY DEF StreamInv, TypeOK, StampedEvents
  <1>2. Replays(log, Len(log))
    BY DEF StreamInv, StreamReplays, Replays
  <1>3. \A n \in 0..Len(log) : RebuildTo(log, n) \in Projections /\ RebuildTo(log, n).lastSequence = n
    BY <1>1, <1>2, RebuildType
  <1>4. Len(log) \in 0..Len(log)
    BY <1>1
  <1> QED
    BY <1>1, <1>2, <1>3, <1>4 DEF StreamInv, ProjectionIsReplay, rebuildRunProjection

\* An event that fits the end of the stream extends it; every earlier replay stays.
LEMMA Extends ==
  ASSUME StreamInv, NEW s \in StampedEvents, s.sequence = Len(log) + 1,
         Reducible(RebuildTo(log, Len(log)), s.event, s.sequence),
         s.sequence = 1 => s.event.type = "RunAccepted",
         log' = Append(log, s)
  PROVE  /\ log' \in Seq(StampedEvents) /\ Len(log') = Len(log) + 1
         /\ \A n \in 0..Len(log) : RebuildTo(log', n) = RebuildTo(log, n)
         /\ RebuildTo(log', Len(log) + 1) = Reduce(RebuildTo(log, Len(log)), s.event)
         /\ Reduce(RebuildTo(log, Len(log)), s.event) \in Projections
         /\ Reduce(RebuildTo(log, Len(log)), s.event).lastSequence = Len(log) + 1
         /\ SequenceIsPlace' /\ StreamReplays'
         /\ \A i \in 1..Len(log) : log'[i] = log[i]
         /\ log'[Len(log) + 1] = s
  <1>1. log \in Seq(StampedEvents) /\ Len(log) \in Nat
    BY StreamFacts
  <1>2. /\ log' \in Seq(StampedEvents) /\ Len(log') = Len(log) + 1
        /\ \A i \in 1..Len(log) : log'[i] = log[i]
        /\ log'[Len(log) + 1] = s
    BY <1>1
  <1>3. ASSUME NEW n \in 0..Len(log) PROVE RebuildTo(log', n) = RebuildTo(log, n)
    <2>1. SameEvents(log', log, n)
      BY <1>1, <1>2 DEF SameEvents
    <2> QED
      BY <1>1, <2>1, RebuildAgrees
  <1>4. Len(log) \in 0..Len(log)
    BY <1>1
  <1>5. RebuildTo(log', Len(log) + 1) = Reduce(RebuildTo(log, Len(log)), s.event)
    <2>1. RebuildTo(log', Len(log) + 1) = Reduce(RebuildTo(log', Len(log)), log'[Len(log) + 1].event)
      BY <1>1, RebuildStep
    <2> QED
      BY <1>2, <1>3, <1>4, <2>1
  <1>6. /\ Reduce(RebuildTo(log, Len(log)), s.event) \in Projections
        /\ Reduce(RebuildTo(log, Len(log)), s.event).lastSequence = Len(log) + 1
    <2>1. /\ RebuildTo(log, Len(log)) \in Projections
          /\ RebuildTo(log, Len(log)).lastSequence = Len(log)
      BY <1>4, StreamFacts
    <2>2. s.event \in Events
      BY DEF StampedEvents
    <2> QED
      <3>1. Reduce(RebuildTo(log, Len(log)), s.event) \in Projections
        BY <2>1, <2>2, ReduceType
      <3>2. Reduce(RebuildTo(log, Len(log)), s.event).lastSequence
              = RebuildTo(log, Len(log)).lastSequence + 1
        BY ReduceFields
      <3> QED
        BY <2>1, <3>1, <3>2
  <1>7. SequenceIsPlace'
    BY <1>1, <1>2 DEF StreamInv, SequenceIsPlace
  <1>8. ASSUME NEW i \in 1..Len(log')
        PROVE  Reducible(RebuildTo(log', i - 1), log'[i].event, log'[i].sequence)
    <2>1. i - 1 \in 0..Len(log) /\ (i \in 1..Len(log) \/ i = Len(log) + 1)
      BY <1>1, <1>2
    <2>2. RebuildTo(log', i - 1) = RebuildTo(log, i - 1)
      BY <1>3, <2>1
    <2>3. CASE i \in 1..Len(log)
      BY <1>2, <2>2, <2>3 DEF StreamInv, StreamReplays
    <2>4. CASE i = Len(log) + 1
      <3>1. i - 1 = Len(log)
        BY <1>1, <2>4
      <3> QED
        BY <1>2, <2>2, <2>4, <3>1
    <2> QED
      BY <2>1, <2>3, <2>4
  <1>9. StreamReplays'
    BY <1>8 DEF StreamReplays
  <1> QED
    BY <1>2, <1>3, <1>5, <1>6, <1>7, <1>9

\* A step that leaves the stream alone and only forgets copies and sent events.
Forgets ==
  /\ UNCHANGED <<log, acked>>
  /\ \E w \in Writers :
       /\ pending' = [pending EXCEPT ![w] = None]
       /\ view' = [view EXCEPT ![w] = None]
  /\ UNCHANGED stored

(* A writer that forgets what it read keeps the invariant. *)
LEMMA ForgetsStep ==
  ASSUME StreamInv, Forgets
  PROVE  StreamInv'
  <1>1. TypeOK'
    BY DEF StreamInv, TypeOK, Forgets
  <1>2. ViewIsPrefix'
    BY DEF StreamInv, TypeOK, Forgets, ViewIsPrefix
  <1>3. PendingFits'
    BY DEF StreamInv, TypeOK, Forgets, PendingFits
  <1>4. (SequenceIsPlace /\ StreamReplays /\ ProjectionIsReplay /\ AckedStored)'
    BY DEF StreamInv, Forgets, SequenceIsPlace, StreamReplays, ProjectionIsReplay, AckedStored
  <1> QED
    BY <1>1, <1>2, <1>3, <1>4 DEF StreamInv

\* An event stored at the end of the stream, with the projection it reduces to, answered or not.
LEMMA StoresStep ==
  ASSUME StreamInv, NEW w \in Writers, pending[w] # None,
         pending[w].sequence = Len(log) + 1,
         Reducible(RebuildTo(log, Len(log)), pending[w].event, pending[w].sequence),
         log' = Append(log, pending[w]),
         stored' = Reduce(RebuildTo(log, Len(log)), pending[w].event),
         Answered(w, FALSE)
  PROVE  StreamInv'
  <1> DEFINE s == pending[w]
             tail == RebuildTo(log, Len(log))
  <1>1. log \in Seq(StampedEvents) /\ Len(log) \in Nat
    BY StreamFacts
  <1>2. s \in StampedEvents
    BY DEF StreamInv, TypeOK, StampedEvents
  <1>3. s.sequence = 1 => s.event.type = "RunAccepted"
    BY DEF StreamInv, PendingFits
  <1>4. /\ log' \in Seq(StampedEvents) /\ Len(log') = Len(log) + 1
        /\ \A n \in 0..Len(log) : RebuildTo(log', n) = RebuildTo(log, n)
        /\ RebuildTo(log', Len(log) + 1) = Reduce(tail, s.event)
        /\ Reduce(tail, s.event) \in Projections
        /\ Reduce(tail, s.event).lastSequence = Len(log) + 1
        /\ SequenceIsPlace' /\ StreamReplays'
        /\ \A i \in 1..Len(log) : log'[i] = log[i]
        /\ log'[Len(log) + 1] = s
    BY <1>2, <1>3, Extends
  <1>5. view[w] # None /\ view[w] = tail
    <2>1. view[w] # None /\ s.sequence = view[w].lastSequence + 1
      BY DEF StreamInv, PendingFits
    <2>2. view[w] \in Projections
      BY <2>1 DEF StreamInv, TypeOK
    <2>3. view[w].lastSequence = Len(log)
      BY <1>1, <2>1, <2>2 DEF Projections
    <2> QED
      BY <2>1, <2>3 DEF StreamInv, ViewIsPrefix
  <1> HIDE DEF tail
  <1>6. \/ /\ pending' = [pending EXCEPT ![w] = None]
           /\ view' = [view EXCEPT ![w] = Reduce(tail, s.event)]
           /\ acked' = acked \cup {s}
        \/ UNCHANGED <<pending, view, acked>>
    BY <1>5 DEF Answered
  <1> HIDE DEF s
  <1>7. TypeOK'
    BY <1>2, <1>4, <1>6 DEF StreamInv, TypeOK, StampedEvents, tail, s
  <1>8. ProjectionIsReplay'
    BY <1>4 DEF ProjectionIsReplay, rebuildRunProjection, tail, s
  <1>9. ViewIsPrefix'
    <2>1. ASSUME NEW x \in Writers, view'[x] # None
          PROVE  /\ view'[x].lastSequence <= Len(log')
                 /\ view'[x] = RebuildTo(log', view'[x].lastSequence)
      <3>1. CASE view'[x] = view[x]
        <4>1. /\ view[x].lastSequence <= Len(log) /\ view[x] \in Projections
              /\ view[x] = RebuildTo(log, view[x].lastSequence)
          BY <2>1, <3>1 DEF StreamInv, ViewIsPrefix, TypeOK
        <4>2. view[x].lastSequence \in 0..Len(log)
          BY <1>1, <4>1 DEF Projections
        <4> QED
          BY <1>1, <1>4, <3>1, <4>1, <4>2
      <3>2. CASE view'[x] # view[x]
        <4>1. view'[x] = Reduce(tail, s.event)
          BY <1>6, <3>2 DEF StreamInv, TypeOK
        <4> QED
          BY <1>1, <1>4, <4>1
      <3> QED
        BY <3>1, <3>2
    <2> QED
      BY <2>1 DEF ViewIsPrefix
  <1>10. PendingFits'
    <2>1. ASSUME NEW x \in Writers, pending'[x] # None
          PROVE  pending'[x] = pending[x] /\ view'[x] = view[x]
      BY <1>6, <2>1 DEF StreamInv, TypeOK
    <2> QED
      BY <2>1 DEF StreamInv, PendingFits
  <1>11. AckedStored'
    <2>1. ASSUME NEW t \in acked' PROVE \E i \in 1..Len(log') : log'[i] = t
      <3>1. t \in acked \/ t = s
        BY <1>6
      <3>2. CASE t \in acked
        BY <1>1, <1>4, <3>2 DEF StreamInv, AckedStored
      <3>3. CASE t = s
        <4>1. Len(log) + 1 \in 1..Len(log')
          BY <1>1, <1>4
        <4> QED
          BY <1>4, <3>3, <4>1
      <3> QED
        BY <3>1, <3>2, <3>3
    <2> QED
      BY <2>1 DEF AckedStored
  <1> QED
    BY <1>4, <1>7, <1>8, <1>9, <1>10, <1>11 DEF StreamInv

\* A repeated delivery of an event that is in the stream.
LEMMA ReplayedStep ==
  ASSUME StreamInv, NEW w \in Writers, pending[w] # None,
         \E i \in 1..Len(log) : log[i] = pending[w],
         Answered(w, TRUE), UNCHANGED <<log, stored>>
  PROVE  StreamInv'
  <1>1. \/ /\ pending' = [pending EXCEPT ![w] = None] /\ view' = [view EXCEPT ![w] = None]
           /\ acked' = acked \cup {pending[w]}
        \/ UNCHANGED <<pending, view, acked>>
    BY DEF Answered
  <1>2. TypeOK'
    BY <1>1 DEF StreamInv, TypeOK
  <1>3. ViewIsPrefix'
    BY <1>1 DEF StreamInv, TypeOK, ViewIsPrefix
  <1>4. PendingFits'
    BY <1>1 DEF StreamInv, TypeOK, PendingFits
  <1>5. AckedStored'
    BY <1>1 DEF StreamInv, AckedStored
  <1>6. (SequenceIsPlace /\ StreamReplays /\ ProjectionIsReplay)'
    BY DEF StreamInv, SequenceIsPlace, StreamReplays, ProjectionIsReplay
  <1> QED
    BY <1>2, <1>3, <1>4, <1>5, <1>6 DEF StreamInv

\* Every step keeps the invariant.
LEMMA StreamStep == StreamInv /\ [Next]_vars => StreamInv'
  <1> SUFFICES ASSUME StreamInv, [Next]_vars PROVE StreamInv'
    OBVIOUS
  <1>1. log \in Seq(StampedEvents) /\ Len(log) \in Nat
    BY StreamFacts
  <1>2. ASSUME NEW w \in Writers, getProjection(w) PROVE StreamInv'
    <2> DEFINE p == view'[w]
    <2>1. UNCHANGED <<log, stored, pending, acked>> /\ pending[w] = None
      BY <1>2 DEF getProjection
    <2>2. \E n \in 0..Len(log) : /\ view' = [view EXCEPT ![w] = RebuildTo(log, n)]
                                 /\ RebuildTo(log, n) \in Projections
                                 /\ RebuildTo(log, n).lastSequence = n
      <3>1. CASE stored # None
        <4>1. view' = [view EXCEPT ![w] = RebuildTo(log, Len(log))]
          BY <1>2, <3>1 DEF getProjection, StreamInv, ProjectionIsReplay, rebuildRunProjection
        <4>2. Len(log) \in 0..Len(log)
          BY <1>1
        <4> QED
          BY <4>1, <4>2, StreamFacts
      <3>2. CASE stored = None
        <4>1. view' = [view EXCEPT ![w] = RebuildTo(log, 0)]
          BY <1>2, <3>2, RebuildZero DEF getProjection
        <4>2. 0 \in 0..Len(log)
          BY <1>1
        <4> QED
          BY <4>1, <4>2, StreamFacts
      <3> QED
        BY <3>1, <3>2
    <2>3. PICK n \in 0..Len(log) : /\ view' = [view EXCEPT ![w] = RebuildTo(log, n)]
                                   /\ RebuildTo(log, n) \in Projections
                                   /\ RebuildTo(log, n).lastSequence = n
      BY <2>2
    <2>4. TypeOK'
      BY <2>1, <2>3 DEF StreamInv, TypeOK
    <2>5. ViewIsPrefix'
      BY <1>1, <2>1, <2>3 DEF StreamInv, TypeOK, ViewIsPrefix
    <2>6. PendingFits'
      <3>1. ASSUME NEW x \in Writers, pending[x] # None PROVE view'[x] = view[x]
        BY <2>1, <2>3, <3>1 DEF StreamInv, TypeOK
      <3> QED
        BY <2>1, <3>1 DEF StreamInv, PendingFits
    <2>7. (SequenceIsPlace /\ StreamReplays /\ ProjectionIsReplay /\ AckedStored)'
      BY <2>1 DEF StreamInv, SequenceIsPlace, StreamReplays, ProjectionIsReplay, AckedStored
    <2> QED
      BY <2>4, <2>5, <2>6, <2>7 DEF StreamInv
  <1>3. ASSUME NEW w \in Writers, NEW e \in Composed, Compose(w, e) PROVE StreamInv'
    <2> DEFINE s == Stamped(w, view[w].lastSequence + 1, e)
    <2>1. /\ UNCHANGED <<log, stored, view, acked>> /\ view[w] # None
          /\ pending' = [pending EXCEPT ![w] = s]
          /\ Reducible(view[w], e, view[w].lastSequence + 1)
          /\ view[w].lastSequence = 0 => e.type = "RunAccepted"
      BY <1>3 DEF Compose
    <2>2. view[w] \in Projections
      BY <2>1 DEF StreamInv, TypeOK
    <2>3. view[w].lastSequence \in Nat
      BY <2>2 DEF Projections
    <2>4. s \in StampedEvents
      BY <2>3 DEF Stamped, StampedEvents, Composed
    <2>5. s.sequence = view[w].lastSequence + 1 /\ s.event = e
      BY DEF Stamped
    <2> HIDE DEF s
    <2>6. TypeOK'
      BY <2>1, <2>4 DEF StreamInv, TypeOK, StampedEvents
    <2>7. PendingFits'
      <3>1. ASSUME NEW x \in Writers, pending'[x] # None
            PROVE  /\ view'[x] # None /\ pending'[x].sequence = view'[x].lastSequence + 1
                   /\ Reducible(view'[x], pending'[x].event, pending'[x].sequence)
                   /\ pending'[x].sequence = 1 => pending'[x].event.type = "RunAccepted"
        <4>1. CASE x = w
          <5>1. pending'[x] = s
            BY <2>1, <4>1 DEF StreamInv, TypeOK
          <5> QED
            BY <2>1, <2>3, <2>5, <4>1, <5>1
        <4>2. CASE x # w
          BY <2>1, <3>1, <4>2 DEF StreamInv, TypeOK, PendingFits
        <4> QED
          BY <4>1, <4>2
      <3> QED
        BY <3>1 DEF PendingFits
    <2>8. (SequenceIsPlace /\ StreamReplays /\ ProjectionIsReplay /\ ViewIsPrefix /\ AckedStored)'
      BY <2>1 DEF StreamInv, SequenceIsPlace, StreamReplays, ProjectionIsReplay, ViewIsPrefix,
                  AckedStored
    <2> QED
      BY <2>6, <2>7, <2>8 DEF StreamInv
  <1>4. ASSUME NEW w \in Writers, Refused(w) PROVE StreamInv'
    BY <1>4, ForgetsStep DEF Refused, Forgets
  <1>5. ASSUME NEW w \in Writers, append(w) PROVE StreamInv'
    <2> DEFINE s == pending[w]
               previous == IF stored = None THEN createRunProjection(Kind) ELSE stored
    <2>1. pending[w] # None
      BY <1>5 DEF append
    <2>2. CASE SameId(s) # {} /\ \E i \in SameId(s) : log[i] = s
      <3>1. Answered(w, TRUE) /\ UNCHANGED <<log, stored>>
        BY <1>5, <2>2 DEF append
      <3>2. \E i \in 1..Len(log) : log[i] = pending[w]
        BY <2>2 DEF SameId
      <3> QED
        BY <2>1, <3>1, <3>2, ReplayedStep
    <2>3. CASE Refused(w)
      BY <1>4, <2>3
    <2>4. CASE /\ ExpectedTail(s)
               /\ stored = None => log = <<>>
               /\ Reducible(previous, s.event, s.sequence)
               /\ log' = Append(log, s) /\ stored' = Reduce(previous, s.event)
               /\ Answered(w, FALSE)
      <3>1. previous = RebuildTo(log, Len(log))
        <4>1. CASE stored = None
          <5>1. Len(log) = 0
            BY <2>4, <4>1
          <5> QED
            BY <4>1, <5>1, RebuildZero
        <4>2. CASE stored # None
          BY <4>2 DEF StreamInv, ProjectionIsReplay, rebuildRunProjection
        <4> QED
          BY <4>1, <4>2
      <3>2. pending[w].sequence = Len(log) + 1
        <4>1. pending[w].sequence \in Nat
          BY <2>1 DEF StreamInv, TypeOK
        <4> QED
          BY <1>1, <2>4, <4>1 DEF ExpectedTail
      <3> HIDE DEF previous
      <3> QED
        BY <2>1, <2>4, <3>1, <3>2, StoresStep
    <2> QED
      BY <1>5, <2>2, <2>3, <2>4 DEF append
  <1>6. ASSUME NEW w \in Writers, flushRunState(w) PROVE StreamInv'
    <2>1. pending[w] # None
      BY <1>6 DEF flushRunState
    <2>2. CASE Refused(w)
      BY <1>4, <2>2
    <2>3. CASE /\ ExpectedTail(pending[w]) /\ log' = Append(log, pending[w])
               /\ stored' = Reduce(view[w], pending[w].event) /\ Answered(w, FALSE)
      <3>1. pending[w].sequence \in Nat
        BY <2>1 DEF StreamInv, TypeOK
      <3>2. pending[w].sequence = Len(log) + 1
        BY <1>1, <2>3, <3>1 DEF ExpectedTail
      <3>3. /\ view[w] # None /\ pending[w].sequence = view[w].lastSequence + 1
            /\ Reducible(view[w], pending[w].event, pending[w].sequence)
        BY <2>1 DEF StreamInv, PendingFits
      <3>4. view[w] \in Projections
        BY <3>3 DEF StreamInv, TypeOK
      <3>5. view[w].lastSequence = Len(log)
        BY <1>1, <3>2, <3>3, <3>4 DEF Projections
      <3>6. view[w] = RebuildTo(log, Len(log))
        BY <3>3, <3>5 DEF StreamInv, ViewIsPrefix
      <3> QED
        BY <2>1, <2>3, <3>2, <3>3, <3>6, StoresStep
    <2> QED
      BY <1>6, <2>2, <2>3 DEF flushRunState
  <1>7. CASE dropProjection
    BY <1>7 DEF dropProjection, StreamInv, TypeOK, SequenceIsPlace, StreamReplays,
                ProjectionIsReplay, ViewIsPrefix, PendingFits, AckedStored
  <1>8. CASE rebuildProjection
    <2>1. Len(log) \in 0..Len(log)
      BY <1>1
    <2>2. rebuildRunProjection(log) \in Projections
      BY <2>1, StreamFacts DEF rebuildRunProjection
    <2>3. UNCHANGED <<log, view, pending, acked>> /\ stored' = rebuildRunProjection(log)
      BY <1>8 DEF rebuildProjection
    <2>4. TypeOK'
      BY <2>2, <2>3 DEF StreamInv, TypeOK
    <2>5. ProjectionIsReplay'
      BY <2>3 DEF ProjectionIsReplay
    <2> QED
      BY <2>3, <2>4, <2>5 DEF StreamInv, SequenceIsPlace, StreamReplays, ViewIsPrefix,
                              PendingFits, AckedStored
  <1>9. CASE UNCHANGED vars
    BY <1>9 DEF vars, StreamInv, TypeOK, SequenceIsPlace, StreamReplays,
                ProjectionIsReplay, ViewIsPrefix, PendingFits, AckedStored
  <1> QED
    BY <1>2, <1>3, <1>5, <1>6, <1>7, <1>8, <1>9 DEF Next

\* The invariant holds in every reachable state.
LEMMA StreamInvariant == Spec => []StreamInv
  BY StreamInit, StreamStep, PTL DEF Spec

-----------------------------------------------------------------------------
(* Theorems *)

\* The stream replays from its start and the stored projection is what it replays to, for
\* any number of writers with copies of any age, lost answers and repeated appends, through
\* append and through the unit of work alike (event-store.ts, #flushRunState).
THEOREM StreamIsSound == Spec => []StreamSound
  <1>1. StreamInv => StreamSound
    BY DEF StreamInv, StreamSound
  <1> QED
    BY <1>1, StreamInvariant, PTL

\* An append a writer was told about is in the stream exactly once and stays there.
THEOREM StreamAckedOnce == Spec => []AckedOnce
  <1>1. ASSUME StreamInv PROVE AckedOnce
    <2> SUFFICES ASSUME NEW s \in acked
                 PROVE  /\ Cardinality({i \in 1..Len(log) : eventId(log[i]) = eventId(s)}) = 1
                        /\ \E i \in 1..Len(log) : log[i] = s
      BY DEF AckedOnce
    <2>1. PICK i \in 1..Len(log) : log[i] = s
      BY <1>1 DEF StreamInv, AckedStored
    <2>2. ASSUME NEW j \in 1..Len(log), eventId(log[j]) = eventId(s) PROVE j = i
      <3>1. log[j].sequence = log[i].sequence
        BY <2>1, <2>2 DEF eventId
      <3> QED
        BY <1>1, <3>1 DEF StreamInv, SequenceIsPlace
    <2>3. {j \in 1..Len(log) : eventId(log[j]) = eventId(s)} = {i}
      BY <2>1, <2>2
    <2>4. Cardinality({i}) = 1
      BY FS_Singleton
    <2> QED
      BY <2>1, <2>3, <2>4
  <1> QED
    BY <1>1, StreamInvariant, PTL

\* A run that completed has, in its stream, a pass or an exception for every verifier the
\* accepted work order required, although completion is checked on a writer's copy.
THEOREM StreamCompletionVerified == Spec => []CompletionVerified
  <1>1. ASSUME StreamInv PROVE CompletionVerified
    <2> SUFFICES ASSUME NEW k \in 1..Len(log), log[k].event.type = "RunCompleted",
                        NEW v \in log[1].event.required
                 PROVE  VerifiedBy(log, Len(log), v)
      BY DEF CompletionVerified, VerifiedBy
    <2>1. log \in Seq(StampedEvents) /\ Len(log) \in Nat /\ Replays(log, Len(log))
      BY <1>1, StreamFacts
    <2>2. Len(log) > 0 => log[1].event.type = "RunAccepted"
      BY <1>1 DEF StreamInv, SequenceIsPlace
    <2>3. k - 1 \in 0..Len(log) /\ k - 1 > 0
      BY <2>1, <2>2
    <2>4. Satisfied(RebuildTo(log, k - 1))
      BY <2>1 DEF Replays, Reducible
    <2>5. /\ \A u \in RebuildTo(log, k - 1).passed \cup RebuildTo(log, k - 1).exceptions :
               VerifiedBy(log, k - 1, u)
          /\ RebuildTo(log, k - 1).required = log[1].event.required
      BY <2>1, <2>2, <2>3, RebuildHolds
    <2>6. VerifiedBy(log, k - 1, v)
      BY <2>4, <2>5 DEF Satisfied
    <2> QED
      BY <2>1, <2>6 DEF VerifiedBy
  <1> QED
    BY <1>1, StreamInvariant, PTL
=============================================================================
