-------------------------- MODULE DecisionRecords --------------------------
(***************************************************************************)
(* The stored side of decisions: gates, challenges, approvals, rejections  *)
(* and the claims of approvals, written inside transactions.  In memory    *)
(* the transactions follow one another (EffectLedger has their undo); on   *)
(* PostgreSQL they run side by side, lock the rows they find and leave the *)
(* rows they do not find to the unique keys.  A proof and a binding are    *)
(* those of the challenge they were issued with.                           *)
(***************************************************************************)
EXTENDS Naturals, FiniteSets

CONSTANTS
  DecClients,
  DecDecision,      \* by challenge id: the decision it is issued for
  DecGates,         \* contents a gate may be put with
  DecCommands,      \* command ids; an approval has the id of its command
  DecKeys,          \* authorization keys of the effects that claim approvals
  DecLifetime,      \* of challenges and approvals
  DecLastTime,      \* bound of the clock
  DecMaxBegun       \* bound: transactions begun

ASSUME DecAssumption ==
  /\ DecLifetime \in Nat /\ DecLastTime \in Nat /\ DecMaxBegun \in Nat
  /\ "none" \notin DOMAIN DecDecision

DecChallenges == DOMAIN DecDecision
DecDecisions == {DecDecision[h] : h \in DecChallenges}

VARIABLES
  decStore,         \* "memory" or "postgres"
  decTime,
  decGates,         \* by decision: the stored gate, or "none"
  decChallenges,    \* by challenge id: [is, expires, by]
  decActive,        \* memory's activeChallenges, by decision
  decApprovals,     \* stored approvals [id, challenge, expires]
  decRejections,    \* by decision: the challenge of the stored rejection, or "none"
  decClaims,        \* stored claims [approval, key]
  decRecorded,      \* external: commands the ledger holds a result of
  decTx,            \* by client: its PostgreSQL transaction
  decBegun

decRows == <<decGates, decChallenges, decActive, decApprovals, decRejections, decClaims, decRecorded>>
decVars == <<decStore, decTime, decRows, decTx, decBegun>>

DecWork ==
  [kind : {"gate"}, decision : DecDecisions, gate : DecGates]
    \cup [kind : {"issue"}, challenge : DecChallenges]
    \cup [kind : {"approve", "reject"}, challenge : DecChallenges, command : DecCommands]
    \cup [kind : {"claim"}, approval : DecCommands, key : DecKeys]

DecAbsent == [is |-> "absent", expires |-> 0, by |-> "none"]
DecIdle == [pc |-> "idle", work |-> [kind |-> "none"], locks |-> {}]

DecInit ==
  /\ decStore \in {"memory", "postgres"}
  /\ decTime = 0
  /\ decGates = [d \in DecDecisions |-> "none"]
  /\ decChallenges = [h \in DecChallenges |-> DecAbsent]
  /\ decActive = [d \in DecDecisions |-> "none"]
  /\ decApprovals = {} /\ decClaims = {} /\ decRecorded = {}
  /\ decRejections = [d \in DecDecisions |-> "none"]
  /\ decTx = [c \in DecClients |-> DecIdle]
  /\ decBegun = 0

\* ------------------------------------------------------------------ what each call demands

MutDecConsumable(h, command) == decChallenges[h].is # "absent"

\* putGateOnce: a stored gate is only ever put again as it is.
DecGateFits(decision, gate) == decGates[decision] \in {"none", gate}

\* putChallenge: a stored challenge differs once it is spent or was issued at another time.
DecChallengeFits(h) ==
  decChallenges[h] \in {DecAbsent, [is |-> "open", expires |-> decTime + DecLifetime, by |-> "none"]}

\* consumeChallenge; only the memory store asks whether a newer challenge is active.
DecConsumable(h, command) ==
  /\ decChallenges[h].is # "absent"
  /\ decStore = "memory" => decActive[DecDecision[h]] = h
  /\ decChallenges[h].is = "spent" => decChallenges[h].by = command
  /\ decChallenges[h].is = "open" => decTime < decChallenges[h].expires

DecStoredApproval(id) == {a \in decApprovals : a.id = id}

\* claimApproval: an earlier claim of the approval was for this key ...
DecPrior(work) == \A x \in decClaims : x.approval = work.approval => x.key = work.key

\* ... and otherwise the approval is there and has not expired.
DecClaimable(id) == \E a \in DecStoredApproval(id) : decTime < a.expires

\* The unique keys of the claims, which memory keeps as a second index.
DecClaimFits(work) ==
  \A x \in decClaims : x.approval = work.approval <=> x.key = work.key

\* putApproval's own comparison, and on PostgreSQL one approval per decision and
\* one challenge per consuming command.
DecApprovalFits(work) ==
  /\ \A a \in DecStoredApproval(work.command) : a.challenge = work.challenge
  /\ decStore = "postgres" =>
       /\ \A a \in decApprovals : DecDecision[a.challenge] = DecDecision[work.challenge] => a.id = work.command
       /\ \A h \in DecChallenges \ {work.challenge} : decChallenges[h].by # work.command

\* putRejection refuses another rejection of the decision; PostgreSQL keeps the first.
DecRejectionFits(work) ==
  /\ decStore = "memory" => decRejections[DecDecision[work.challenge]] \in {"none", work.challenge}
  /\ decStore = "postgres" =>
       \A h \in DecChallenges \ {work.challenge} : decChallenges[h].by # work.command

\* ------------------------------------------------------------------ what each call writes

DecPutGate(work) ==
  /\ decGates' = [decGates EXCEPT ![work.decision] = work.gate]
  /\ UNCHANGED <<decChallenges, decActive, decApprovals, decRejections, decClaims, decRecorded>>

\* Memory makes the challenge the active one, also when it stored the same before.
DecPutChallenge(work) ==
  /\ decChallenges' = [decChallenges EXCEPT ![work.challenge] =
                         [is |-> "open", expires |-> decTime + DecLifetime, by |-> "none"]]
  /\ decActive' = IF decStore = "memory"
                  THEN [decActive EXCEPT ![DecDecision[work.challenge]] = work.challenge]
                  ELSE decActive
  /\ UNCHANGED <<decGates, decApprovals, decRejections, decClaims, decRecorded>>

DecConsume(work) ==
  /\ decChallenges' = [decChallenges EXCEPT ![work.challenge].is = "spent",
                                            ![work.challenge].by = work.command]
  /\ decRecorded' = decRecorded \cup {work.command}

DecPutApproval(work) ==
  /\ DecConsume(work)
  /\ decApprovals' = decApprovals \cup
       {[id |-> work.command, challenge |-> work.challenge, expires |-> decTime + DecLifetime]}
  /\ UNCHANGED <<decGates, decActive, decRejections, decClaims>>

DecPutRejection(work) ==
  /\ DecConsume(work)
  /\ decRejections' = IF decRejections[DecDecision[work.challenge]] = "none"
                      THEN [decRejections EXCEPT ![DecDecision[work.challenge]] = work.challenge]
                      ELSE decRejections
  /\ UNCHANGED <<decGates, decActive, decApprovals, decClaims>>

DecPutClaim(work) ==
  /\ decClaims' = decClaims \cup {[approval |-> work.approval, key |-> work.key]}
  /\ UNCHANGED <<decGates, decChallenges, decActive, decApprovals, decRejections, decRecorded>>

DecWrites(work) ==
  \/ work.kind = "gate" /\ DecPutGate(work)
  \/ work.kind = "issue" /\ DecPutChallenge(work)
  \/ work.kind = "approve" /\ DecPutApproval(work)
  \/ work.kind = "reject" /\ DecPutRejection(work)
  \/ work.kind = "claim" /\ DecPutClaim(work)

\* What the reads of a call establish ...
DecReads(work) ==
  /\ work.kind = "gate" => DecGateFits(work.decision, work.gate)
  /\ work.kind = "issue" => DecChallengeFits(work.challenge)
  /\ work.kind \in {"approve", "reject"} =>
       DecConsumable(work.challenge, work.command) /\ work.command \notin decRecorded
  /\ work.kind = "claim" => DecClaimable(work.approval)

\* ... and what the keys still hold at its writes, whatever was read.
DecKeysHold(work) ==
  /\ work.kind = "gate" => DecGateFits(work.decision, work.gate)
  /\ work.kind = "issue" => decChallenges[work.challenge] = DecAbsent
  /\ work.kind \in {"approve", "reject"} => work.command \notin decRecorded
  /\ work.kind = "approve" => DecApprovalFits(work)
  /\ work.kind = "reject" => DecRejectionFits(work)
  /\ work.kind = "claim" => DecClaimFits(work)

\* ------------------------------------------------------------------ memory

\* One transaction at a time, whose calls have no one between them.
DecMemory(work) ==
  /\ decStore = "memory" /\ decBegun < DecMaxBegun
  /\ DecReads(work)
  /\ work.kind = "approve" => DecApprovalFits(work)
  /\ work.kind = "reject" => DecRejectionFits(work)
  /\ work.kind = "claim" => DecPrior(work) /\ DecClaimFits(work)
  /\ DecWrites(work)
  /\ decBegun' = decBegun + 1
  /\ UNCHANGED <<decStore, decTime, decTx>>

\* ------------------------------------------------------------------ PostgreSQL

\* The row a call finds and locks: a challenge to decide by, an approval to claim,
\* a gate that is there already.
DecRow(work) ==
  CASE work.kind \in {"approve", "reject"} -> {<<"challenge", work.challenge>>}
    [] work.kind = "claim" -> {<<"approval", work.approval>>}
    [] work.kind = "gate" /\ decGates[work.decision] # "none" -> {<<"gate", work.decision>>}
    [] OTHER -> {}

\* claimApproval looks for a claim first, and finds no row to lock.
DecBegin(c, work) ==
  /\ decStore = "postgres" /\ decBegun < DecMaxBegun /\ decTx[c] = DecIdle
  /\ work.kind = "claim" => DecPrior(work)
  /\ decTx' = [decTx EXCEPT ![c] = [pc |-> "begun", work |-> work, locks |-> {}]]
  /\ decBegun' = decBegun + 1
  /\ UNCHANGED <<decStore, decTime, decRows>>

DecEnds(c) == decTx' = [decTx EXCEPT ![c] = DecIdle]

\* SELECT ... FOR UPDATE waits for the row; a failed condition rolls back.
DecRead(c) ==
  LET work == decTx[c].work IN
  /\ decTx[c].pc = "begun"
  /\ \A o \in DecClients \ {c} : decTx[o].locks \cap DecRow(work) = {}
  /\ \/ DecReads(work) /\ decTx' = [decTx EXCEPT ![c].pc = "read", ![c].locks = DecRow(work)]
     \/ ~DecReads(work) /\ DecEnds(c)
  /\ UNCHANGED <<decStore, decTime, decRows, decBegun>>

\* The writes and COMMIT, or ROLLBACK when a unique key objects.
DecCommit(c) ==
  /\ decTx[c].pc = "read"
  /\ DecEnds(c)
  /\ \/ DecKeysHold(decTx[c].work) /\ DecWrites(decTx[c].work)
     \/ ~DecKeysHold(decTx[c].work) /\ UNCHANGED decRows
  /\ UNCHANGED <<decStore, decTime, decBegun>>

DecTick ==
  /\ decTime < DecLastTime
  /\ decTime' = decTime + 1
  /\ UNCHANGED <<decStore, decRows, decTx, decBegun>>

DecNext ==
  \/ DecTick
  \/ \E work \in DecWork : DecMemory(work)
  \/ \E c \in DecClients :
       DecRead(c) \/ DecCommit(c) \/ \E work \in DecWork : DecBegin(c, work)

DecSpec == DecInit /\ [][DecNext]_decVars

\* ------------------------------------------------------------------ properties

DecOutcomes(h) ==
  {a.id : a \in {a \in decApprovals : a.challenge = h}}
    \cup {"rejection" : d \in {d \in DecDecisions : decRejections[d] = h}}

(* A challenge is spent for one outcome: no two approvals, and no approval and *)
(* rejection, rest on the same challenge, and each outcome's challenge is      *)
(* spent (consumeChallenge, putApproval and putRejection together, under       *)
(* concurrent transactions and repeated commands).                             *)
DecSpentOnce ==
  \A h \in DecChallenges :
    /\ Cardinality(DecOutcomes(h)) <= 1
    /\ DecOutcomes(h) # {} => decChallenges[h].is = "spent"

(* An approval is claimed for one authorization key and a key claims one       *)
(* approval, although claimApproval looks for a claim before it locks the      *)
(* approval.                                                                   *)
DecClaimedOnce ==
  \A x, y \in decClaims : x.approval = y.approval <=> x.key = y.key

(* What decisions rest on is not rewritten: a stored gate stays, a spent       *)
(* challenge stays spent by the command that spent it, and the first rejection *)
(* of a decision stays.                                                        *)
DecKept ==
  /\ \A d \in DecDecisions :
       /\ decGates[d] # "none" => decGates'[d] = decGates[d]
       /\ decRejections[d] # "none" => decRejections'[d] = decRejections[d]
  /\ \A h \in DecChallenges :
       decChallenges[h].is = "spent" => decChallenges'[h] = decChallenges[h]

(* Concurrent and repeated decisions: a challenge and an approval are each     *)
(* used once, and nothing a decision rests on is rewritten afterwards.         *)
DecisionsSound == [][DecKept /\ (DecSpentOnce /\ DecClaimedOnce)']_decVars
=============================================================================
