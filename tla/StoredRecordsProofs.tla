------------------------ MODULE StoredRecordsProofs -------------------------
(***************************************************************************)
(* The stores under concurrent transactions, for every number of clients,  *)
(* rows and transactions: decisions (a challenge is spent for one outcome, *)
(* an approval claimed for one key), the effect ledger (one row per effect *)
(* and key, moved only forwards, never taken back), protected records      *)
(* (written once, no nonce used twice, told of once), evidence (a record's *)
(* verdicts are about its artifact, a completed run has one) and the       *)
(* migrations (versions in order, rows kept).  One part per store, and one *)
(* for the strict JSON parser that reads what is stored and digested: it   *)
(* reads the language of JSON exactly, and a text is of one value.         *)
(***************************************************************************)
EXTENDS DecisionRecords, EffectLedger, ProtectedRecords, Evidence, Migrations, StrictJsonParser,
  FiniteSetTheorems, SequenceTheorems, WellFoundedInduction, TLAPS

-----------------------------------------------------------------------------
(* Decisions *)

\* The rows have their types.
DecTypes ==
  /\ decStore \in {"memory", "postgres"}
  /\ decGates \in [DecDecisions -> DecGates \cup {"none"}]
  /\ decChallenges \in [DecChallenges -> [is : {"absent", "open", "spent"}, expires : Nat,
                                          by : DecCommands \cup {"none"}]]
  /\ decApprovals \subseteq [id : DecCommands, challenge : DecChallenges, expires : Nat]
  /\ decRejections \in [DecDecisions -> DecChallenges \cup {"none"}]
  /\ decClaims \subseteq [approval : DecCommands, key : DecKeys]
  /\ decTime \in Nat

\* A challenge is spent by a command that the ledger holds.
SpentRecorded ==
  \A h \in DecChallenges : decChallenges[h].is = "spent" => decChallenges[h].by \in decRecorded

\* An outcome rests on a spent challenge.
OutcomeSpent ==
  /\ \A a \in decApprovals : decChallenges[a.challenge].is = "spent"
  /\ \A d \in DecDecisions :
       decRejections[d] # "none" => decChallenges[decRejections[d]].is = "spent"

\* What a challenge has as outcomes, as a function of the rows.
OutcomesOf(approvals, rejections, h) ==
  {a.id : a \in {a \in approvals : a.challenge = h}}
    \cup {"rejection" : d \in {d \in DecDecisions : rejections[d] = h}}

\* Approvals and rejections of a challenge: at most one approval, and not both.
OneOutcome(approvals, rejections, h) ==
  /\ \A a, b \in approvals : a.challenge = h /\ b.challenge = h => a.id = b.id
  /\ \A a \in approvals : a.challenge = h => \A d \in DecDecisions : rejections[d] # h

\* One outcome, counted.
LEMMA OneIsCounted ==
  ASSUME NEW approvals, NEW rejections, NEW h, OneOutcome(approvals, rejections, h)
  PROVE  Cardinality(OutcomesOf(approvals, rejections, h)) <= 1
  <1> DEFINE S == OutcomesOf(approvals, rejections, h)
  <1>1. CASE \E a \in approvals : a.challenge = h
    <2>1. PICK a \in approvals : a.challenge = h
      BY <1>1
    <2>2. S = {a.id}
      BY <2>1 DEF OutcomesOf, OneOutcome
    <2>3. Cardinality({a.id}) = 1
      BY FS_Singleton
    <2>4. Cardinality(S) = 1
      BY <2>2, <2>3, Zenon
    <2> QED
      BY <2>4
  <1>2. CASE ~\E a \in approvals : a.challenge = h
    <2>1. CASE \E d \in DecDecisions : rejections[d] = h
      <3>1. S = {"rejection"}
        BY <1>2, <2>1 DEF OutcomesOf
      <3>2. Cardinality({"rejection"}) = 1
        BY FS_Singleton
      <3>3. Cardinality(S) = 1
        BY <3>1, <3>2, Zenon
      <3> QED
        BY <3>3
    <2>2. CASE ~\E d \in DecDecisions : rejections[d] = h
      <3>1. S = {}
        BY <1>2, <2>2 DEF OutcomesOf
      <3>2. Cardinality({}) = 0
        BY FS_EmptySet
      <3>3. Cardinality(S) = 0
        BY <3>1, <3>2, Zenon
      <3> QED
        BY <3>3
    <2> QED
      BY <2>1, <2>2
  <1> QED
    BY <1>1, <1>2

\* The invariant of the rows.
DecRowsInv ==
  /\ DecTypes /\ SpentRecorded /\ OutcomeSpent /\ DecClaimedOnce
  /\ \A h \in DecChallenges : OneOutcome(decApprovals, decRejections, h)

\* The rows' invariant gives the property.
LEMMA DecRowsSpent == DecRowsInv => DecSpentOnce
  <1> SUFFICES ASSUME DecRowsInv, NEW h \in DecChallenges
               PROVE  /\ Cardinality(DecOutcomes(h)) <= 1
                      /\ DecOutcomes(h) # {} => decChallenges[h].is = "spent"
    BY DEF DecSpentOnce
  <1>1. DecOutcomes(h) = OutcomesOf(decApprovals, decRejections, h)
    BY DEF DecOutcomes, OutcomesOf
  <1>2. Cardinality(OutcomesOf(decApprovals, decRejections, h)) <= 1
    BY OneIsCounted DEF DecRowsInv
  <1>3. ASSUME DecOutcomes(h) # {} PROVE decChallenges[h].is = "spent"
    <2>1. (\E a \in decApprovals : a.challenge = h) \/ (\E d \in DecDecisions : decRejections[d] = h)
      BY <1>3 DEF DecOutcomes
    <2>2. h # "none"
      BY DecAssumption DEF DecChallenges
    <2> QED
      BY <2>1, <2>2 DEF DecRowsInv, OutcomeSpent
  <1> QED
    BY <1>1, <1>2, <1>3

\* What a call that is about to write found: its gate fits, its challenge is not spent,
\* the challenge it decides by is open, its claim fits.
DecReady(work) ==
  /\ work.kind = "gate" => DecGateFits(work.decision, work.gate)
  /\ work.kind = "issue" => decChallenges[work.challenge].is # "spent"
  /\ work.kind \in {"approve", "reject"} => decChallenges[work.challenge].is = "open"
  /\ work.kind = "claim" => DecClaimFits(work)

\* The fields of a call.
LEMMA DecWorkForms ==
  ASSUME NEW work \in DecWork
  PROVE  /\ work.kind = "gate" => work.decision \in DecDecisions /\ work.gate \in DecGates
         /\ work.kind = "issue" => work.challenge \in DecChallenges
         /\ work.kind \in {"approve", "reject"} =>
              work.challenge \in DecChallenges /\ work.command \in DecCommands
         /\ work.kind = "claim" => work.approval \in DecCommands /\ work.key \in DecKeys
         /\ work.kind \in {"gate", "issue", "approve", "reject", "claim"}
  BY DEF DecWork

\* The decision of a challenge is a decision.
LEMMA DecDecided ==
  ASSUME NEW h \in DecChallenges
  PROVE  DecDecision[h] \in DecDecisions /\ h # "none"
  BY DecAssumption DEF DecDecisions, DecChallenges

\* Writes that spend an open challenge: only this challenge changes.
LEMMA DecConsumes ==
  ASSUME DecRowsInv, NEW work, work.challenge \in DecChallenges, work.command \in DecCommands,
         decChallenges[work.challenge].is = "open", DecConsume(work)
  PROVE  /\ decChallenges' \in [DecChallenges -> [is : {"absent", "open", "spent"}, expires : Nat,
                                                 by : DecCommands \cup {"none"}]]
         /\ decChallenges'[work.challenge].is = "spent"
         /\ decChallenges'[work.challenge].by = work.command
         /\ \A h \in DecChallenges : h # work.challenge => decChallenges'[h] = decChallenges[h]
         /\ decRecorded' = decRecorded \cup {work.command}
         /\ SpentRecorded'
         /\ \A h \in DecChallenges : decChallenges[h].is = "spent" => decChallenges'[h] = decChallenges[h]
  <1>1. /\ decChallenges' \in [DecChallenges -> [is : {"absent", "open", "spent"}, expires : Nat,
                                                 by : DecCommands \cup {"none"}]]
        /\ decChallenges'[work.challenge].is = "spent"
        /\ decChallenges'[work.challenge].by = work.command
        /\ \A h \in DecChallenges : h # work.challenge => decChallenges'[h] = decChallenges[h]
        /\ decRecorded' = decRecorded \cup {work.command}
    BY DEF DecRowsInv, DecTypes, DecConsume
  <1>2. SpentRecorded'
    BY <1>1 DEF DecRowsInv, SpentRecorded
  <1> QED
    BY <1>1, <1>2

\* The writes of a call that found what it asks for keep the rows' invariant and rewrite
\* nothing a decision rests on; only the challenge that is decided by stops being open.
LEMMA DecWritesKeep ==
  ASSUME DecRowsInv, NEW work \in DecWork, DecReady(work), DecWrites(work),
         UNCHANGED <<decStore, decTime>>
  PROVE  /\ DecRowsInv' /\ DecKept
         /\ \A h \in DecChallenges :
              decChallenges[h].is = "open" =>
                \/ decChallenges'[h].is = "open"
                \/ work.kind \in {"approve", "reject"} /\ work.challenge = h
  <1>1. CASE work.kind = "gate"
    <2>1. /\ decGates' = [decGates EXCEPT ![work.decision] = work.gate]
          /\ UNCHANGED <<decChallenges, decApprovals, decRejections, decClaims, decRecorded>>
          /\ decGates[work.decision] \in {"none", work.gate}
      BY <1>1 DEF DecWrites, DecPutGate, DecReady, DecGateFits
    <2>2. DecTypes' /\ \A d \in DecDecisions : decGates[d] # "none" => decGates'[d] = decGates[d]
      BY <1>1, <2>1, DecWorkForms DEF DecRowsInv, DecTypes
    <2>3. DecRowsInv'
      BY <2>1, <2>2 DEF DecRowsInv, SpentRecorded, OutcomeSpent, DecClaimedOnce
    <2> QED
      BY <2>1, <2>2, <2>3 DEF DecKept
  <1>2. CASE work.kind = "issue"
    <2> DEFINE new == [is |-> "open", expires |-> decTime + DecLifetime, by |-> "none"]
    <2>1. /\ decChallenges' = [decChallenges EXCEPT ![work.challenge] = new]
          /\ UNCHANGED <<decGates, decApprovals, decRejections, decClaims, decRecorded>>
          /\ decChallenges[work.challenge].is # "spent" /\ work.challenge \in DecChallenges
      BY <1>2, DecWorkForms DEF DecWrites, DecPutChallenge, DecReady
    <2>2. /\ new \in [is : {"absent", "open", "spent"}, expires : Nat, by : DecCommands \cup {"none"}]
          /\ new.is = "open"
      BY DecAssumption DEF DecRowsInv, DecTypes
    <2> HIDE DEF new
    <2>3. /\ DecTypes' /\ decChallenges'[work.challenge] = new
          /\ \A h \in DecChallenges : h # work.challenge => decChallenges'[h] = decChallenges[h]
      BY <2>1, <2>2 DEF DecRowsInv, DecTypes
    <2>4. \A h \in DecChallenges : decChallenges[h].is = "spent" => decChallenges'[h] = decChallenges[h]
      BY <2>1, <2>3
    <2>5. SpentRecorded'
      BY <2>1, <2>2, <2>3 DEF DecRowsInv, SpentRecorded
    <2>6. OutcomeSpent'
      <3>1. \A a \in decApprovals : a.challenge \in DecChallenges
        BY DEF DecRowsInv, DecTypes
      <3>2. \A d \in DecDecisions : decRejections[d] # "none" => decRejections[d] \in DecChallenges
        BY DEF DecRowsInv, DecTypes
      <3> QED
        BY <2>1, <2>4, <3>1, <3>2 DEF DecRowsInv, OutcomeSpent
    <2>7. DecRowsInv'
      BY <2>1, <2>3, <2>5, <2>6 DEF DecRowsInv, DecClaimedOnce
    <2> QED
      BY <2>1, <2>2, <2>3, <2>4, <2>7 DEF DecKept
  <1>3. CASE work.kind = "approve"
    <2> DEFINE h == work.challenge
               new == [id |-> work.command, challenge |-> h, expires |-> decTime + DecLifetime]
    <2>1. /\ h \in DecChallenges /\ work.command \in DecCommands /\ decChallenges[h].is = "open"
          /\ DecConsume(work) /\ decApprovals' = decApprovals \cup {new}
          /\ UNCHANGED <<decGates, decRejections, decClaims>>
      BY <1>3, DecWorkForms DEF DecWrites, DecPutApproval, DecReady
    <2>2. /\ new \in [id : DecCommands, challenge : DecChallenges, expires : Nat]
          /\ new.challenge = h /\ new.id = work.command
      BY <2>1, DecAssumption DEF DecRowsInv, DecTypes
    <2>3. \A a \in decApprovals : a.challenge # h /\ a.challenge \in DecChallenges
      BY <2>1 DEF DecRowsInv, OutcomeSpent, DecTypes
    <2>4. \A d \in DecDecisions : decRejections[d] # h
      BY <2>1, DecDecided DEF DecRowsInv, OutcomeSpent
    <2> HIDE DEF new
    <2>5. DecTypes'
      BY <2>1, <2>2, DecConsumes DEF DecRowsInv, DecTypes
    <2>6. OutcomeSpent'
      <3>1. \A a \in decApprovals' : decChallenges'[a.challenge].is = "spent"
        BY <2>1, <2>2, <2>3, DecConsumes DEF DecRowsInv, OutcomeSpent
      <3>2. \A d \in DecDecisions :
              decRejections'[d] # "none" => decChallenges'[decRejections'[d]].is = "spent"
        <4>1. \A d \in DecDecisions : decRejections[d] # "none" =>
                decRejections[d] \in DecChallenges /\ decChallenges[decRejections[d]].is = "spent"
          BY DEF DecRowsInv, OutcomeSpent, DecTypes
        <4> QED
          BY <2>1, <4>1, DecConsumes
      <3> QED
        BY <3>1, <3>2 DEF OutcomeSpent
    <2>7. ASSUME NEW g \in DecChallenges PROVE OneOutcome(decApprovals', decRejections', g)
      <3>1. OneOutcome(decApprovals, decRejections, g)
        BY DEF DecRowsInv
      <3> QED
        BY <2>1, <2>2, <2>3, <2>4, <3>1 DEF OneOutcome
    <2>8. DecRowsInv'
      <3>1. DecClaimedOnce' /\ SpentRecorded'
        BY <2>1, DecConsumes DEF DecRowsInv, DecClaimedOnce
      <3> QED
        BY <2>5, <2>6, <2>7, <3>1 DEF DecRowsInv
    <2>9. DecKept
      BY <2>1, DecConsumes DEF DecKept
    <2>10. \A g \in DecChallenges : g # h => decChallenges'[g] = decChallenges[g]
      BY <2>1, DecConsumes
    <2> QED
      BY <1>3, <2>8, <2>9, <2>10
  <1>4. CASE work.kind = "reject"
    <2> DEFINE h == work.challenge
               d0 == DecDecision[h]
    <2>1. /\ h \in DecChallenges /\ work.command \in DecCommands /\ decChallenges[h].is = "open"
          /\ DecConsume(work)
          /\ decRejections' = IF decRejections[d0] = "none"
                              THEN [decRejections EXCEPT ![d0] = h] ELSE decRejections
          /\ UNCHANGED <<decGates, decApprovals, decClaims>>
      BY <1>4, DecWorkForms DEF DecWrites, DecPutRejection, DecReady
    <2>2. d0 \in DecDecisions /\ h # "none"
      BY <2>1, DecDecided
    <2>3. \A a \in decApprovals : a.challenge # h /\ a.challenge \in DecChallenges
      BY <2>1 DEF DecRowsInv, OutcomeSpent, DecTypes
    <2>4. /\ decRejections' \in [DecDecisions -> DecChallenges \cup {"none"}]
          /\ \A d \in DecDecisions : \/ decRejections'[d] = decRejections[d]
                                     \/ decRejections[d] = "none" /\ decRejections'[d] = h
      BY <2>1, <2>2 DEF DecRowsInv, DecTypes
    <2> HIDE DEF d0, h
    <2>5. DecTypes'
      BY <2>1, <2>4, DecConsumes DEF DecRowsInv, DecTypes, h
    <2>6. OutcomeSpent'
      <3>1. \A a \in decApprovals' : decChallenges'[a.challenge].is = "spent"
        BY <2>1, <2>3, DecConsumes DEF DecRowsInv, OutcomeSpent, h
      <3>2. \A d \in DecDecisions :
              decRejections'[d] # "none" => decChallenges'[decRejections'[d]].is = "spent"
        <4>1. \A d \in DecDecisions : decRejections[d] # "none" =>
                decRejections[d] \in DecChallenges /\ decChallenges[decRejections[d]].is = "spent"
          BY DEF DecRowsInv, OutcomeSpent, DecTypes
        <4> QED
          BY <2>1, <2>4, <4>1, DecConsumes DEF h
      <3> QED
        BY <3>1, <3>2 DEF OutcomeSpent
    <2>7. ASSUME NEW g \in DecChallenges PROVE OneOutcome(decApprovals', decRejections', g)
      <3>1. OneOutcome(decApprovals, decRejections, g)
        BY DEF DecRowsInv
      <3> QED
        BY <2>1, <2>3, <2>4, <3>1 DEF OneOutcome
    <2>8. DecRowsInv'
      <3>1. DecClaimedOnce' /\ SpentRecorded'
        BY <2>1, DecConsumes DEF DecRowsInv, DecClaimedOnce, h
      <3> QED
        BY <2>5, <2>6, <2>7, <3>1 DEF DecRowsInv
    <2>9. DecKept
      BY <2>1, <2>4, DecConsumes DEF DecKept, h
    <2>10. \A g \in DecChallenges : g # h => decChallenges'[g] = decChallenges[g]
      BY <2>1, DecConsumes DEF h
    <2> QED
      BY <1>4, <2>8, <2>9, <2>10 DEF h
  <1>5. CASE work.kind = "claim"
    <2> DEFINE new == [approval |-> work.approval, key |-> work.key]
    <2>1. /\ decClaims' = decClaims \cup {new}
          /\ UNCHANGED <<decGates, decChallenges, decApprovals, decRejections, decRecorded>>
          /\ \A x \in decClaims : x.approval = work.approval <=> x.key = work.key
      BY <1>5 DEF DecWrites, DecPutClaim, DecReady, DecClaimFits
    <2>2. /\ new \in [approval : DecCommands, key : DecKeys]
          /\ new.approval = work.approval /\ new.key = work.key
      BY <1>5, DecWorkForms
    <2> HIDE DEF new
    <2>3. DecClaimedOnce'
      BY <2>1, <2>2 DEF DecRowsInv, DecClaimedOnce
    <2>4. DecTypes'
      BY <2>1, <2>2 DEF DecRowsInv, DecTypes
    <2>5. DecRowsInv'
      BY <2>1, <2>3, <2>4 DEF DecRowsInv, SpentRecorded, OutcomeSpent
    <2> QED
      BY <2>1, <2>5 DEF DecKept
  <1> QED
    BY <1>1, <1>2, <1>3, <1>4, <1>5, DecWorkForms

\* A transaction of a PostgreSQL client.
DecTxs ==
  [pc : {"idle", "begun", "read"}, work : DecWork \cup {[kind |-> "none"]},
   locks : SUBSET ({"challenge", "approval", "gate"} \X (DecChallenges \cup DecCommands \cup DecDecisions))]

\* A call that decides by a challenge.
Decides(work) == work.kind \in {"approve", "reject"}

\* A transaction that has read: it decides by an open challenge it has locked.
DecHolds(tx) ==
  /\ tx.pc \in {"begun", "read"} => tx.work \in DecWork
  /\ tx.pc = "read" /\ Decides(tx.work) =>
       <<"challenge", tx.work.challenge>> \in tx.locks /\ decChallenges[tx.work.challenge].is = "open"

\* The inductive invariant: the rows, and what the transactions under way have found and locked.
DecInv ==
  /\ DecRowsInv
  /\ decTx \in [DecClients -> DecTxs]
  /\ \A c \in DecClients : DecHolds(decTx[c])
  /\ \A c, o \in DecClients : c # o => decTx[c].locks \cap decTx[o].locks = {}
  /\ decStore = "memory" => \A c \in DecClients : decTx[c].pc = "idle"

\* An idle transaction.
LEMMA DecIdleForm ==
  DecIdle \in DecTxs /\ DecIdle.pc = "idle" /\ DecIdle.locks = {} /\ DecHolds(DecIdle)
  BY DEF DecIdle, DecTxs, DecHolds

\* The invariant holds at the start.
LEMMA DecInitInv == DecInit => DecInv
  <1> SUFFICES ASSUME DecInit PROVE DecInv
    OBVIOUS
  <1>1. DecTypes
    <2>1. DecAbsent \in [is : {"absent", "open", "spent"}, expires : Nat, by : DecCommands \cup {"none"}]
      BY DEF DecAbsent
    <2> QED
      BY <2>1 DEF DecInit, DecTypes
  <1>2. \A h \in DecChallenges : decChallenges[h].is = "absent"
    BY DEF DecInit, DecAbsent
  <1>3. DecRowsInv
    BY <1>1, <1>2 DEF DecInit, DecRowsInv, SpentRecorded, OutcomeSpent, DecClaimedOnce, OneOutcome
  <1>4. \A c \in DecClients : decTx[c] = DecIdle
    BY DEF DecInit
  <1>5. decTx \in [DecClients -> DecTxs]
    BY DecIdleForm DEF DecInit
  <1>6. \A c \in DecClients : DecHolds(decTx[c]) /\ decTx[c].locks = {} /\ decTx[c].pc = "idle"
    BY <1>4, DecIdleForm
  <1> QED
    BY <1>3, <1>5, <1>6 DEF DecInv

\* A call whose reads succeed finds its challenge open: one that was spent was spent by a
\* command the ledger holds.
LEMMA DecReadsOpen ==
  ASSUME DecRowsInv, NEW work \in DecWork, DecReads(work)
  PROVE  /\ Decides(work) => decChallenges[work.challenge].is = "open"
         /\ work.kind = "issue" => decChallenges[work.challenge].is # "spent"
         /\ work.kind = "gate" => DecGateFits(work.decision, work.gate)
  <1>1. ASSUME Decides(work) PROVE decChallenges[work.challenge].is = "open"
    <2>1. /\ work.challenge \in DecChallenges /\ work.command \notin decRecorded
          /\ decChallenges[work.challenge].is # "absent"
          /\ decChallenges[work.challenge].is = "spent" =>
               decChallenges[work.challenge].by = work.command
      BY <1>1, DecWorkForms DEF Decides, DecReads, DecConsumable
    <2> QED
      BY <2>1 DEF DecRowsInv, DecTypes, SpentRecorded
  <1>2. ASSUME work.kind = "issue" PROVE decChallenges[work.challenge].is # "spent"
    BY <1>2 DEF DecReads, DecChallengeFits, DecAbsent
  <1> QED
    BY <1>1, <1>2 DEF DecReads

\* Every step keeps the invariant and rewrites nothing a decision rests on.
LEMMA DecNextKeeps ==
  ASSUME DecInv, [DecNext]_decVars
  PROVE  DecInv' /\ DecKept
  <1> USE DEF decRows
  <1>1. /\ DecRowsInv /\ decTx \in [DecClients -> DecTxs]
        /\ \A c \in DecClients : DecHolds(decTx[c])
        /\ \A c, o \in DecClients : c # o => decTx[c].locks \cap decTx[o].locks = {}
        /\ decStore = "memory" => \A c \in DecClients : decTx[c].pc = "idle"
    BY DEF DecInv
  <1>2. ASSUME UNCHANGED <<decStore, decGates, decChallenges, decApprovals, decRejections, decClaims,
                           decRecorded>>, decTime' \in Nat
        PROVE  DecRowsInv' /\ DecKept
    BY <1>1, <1>2 DEF DecRowsInv, DecTypes, SpentRecorded, OutcomeSpent, DecClaimedOnce, DecKept
  <1>3. ASSUME NEW c \in DecClients, NEW tx \in DecTxs, decTx' = [decTx EXCEPT ![c] = tx],
               decStore' = decStore, decStore = "postgres", DecRowsInv',
               DecHolds(tx)',
               \A o \in DecClients : o # c => DecHolds(decTx[o])',
               \A o \in DecClients : o # c => tx.locks \cap decTx[o].locks = {}
        PROVE  DecInv'
    <2>1. decTx' \in [DecClients -> DecTxs]
      BY <1>1, <1>3
    <2>2. decTx'[c] = tx /\ \A o \in DecClients : o # c => decTx'[o] = decTx[o]
      BY <1>1, <1>3
    <2>3. ASSUME NEW o \in DecClients PROVE DecHolds(decTx[o])'
      BY <1>3, <2>2 DEF DecHolds
    <2>4. \A a, b \in DecClients : a # b => decTx'[a].locks \cap decTx'[b].locks = {}
      BY <1>1, <1>3, <2>2
    <2> QED
      BY <1>3, <2>1, <2>3, <2>4 DEF DecInv
  <1>4. decTime \in Nat
    BY <1>1 DEF DecRowsInv, DecTypes
  <1>5. CASE UNCHANGED decVars \/ DecTick
    <2>1. /\ decTime' \in Nat /\ UNCHANGED <<decStore, decTx, decGates, decChallenges, decApprovals,
                                            decRejections, decClaims, decRecorded>>
      BY <1>4, <1>5 DEF decVars, DecTick
    <2>2. DecRowsInv' /\ DecKept
      BY <1>2, <2>1
    <2>3. ASSUME NEW c \in DecClients PROVE DecHolds(decTx[c])'
      BY <1>1, <2>1 DEF DecHolds
    <2> QED
      BY <1>1, <2>1, <2>2, <2>3 DEF DecInv
  <1>6. ASSUME NEW work \in DecWork, DecMemory(work) PROVE DecInv' /\ DecKept
    <2>1. DecReady(work)
      BY <1>1, <1>6, DecReadsOpen DEF DecMemory, DecReady, Decides
    <2>2. DecRowsInv' /\ DecKept
      BY <1>1, <1>6, <2>1, DecWritesKeep DEF DecMemory
    <2>3. decTx' = decTx /\ decStore' = decStore /\ \A c \in DecClients : decTx[c].pc = "idle"
      BY <1>1, <1>6 DEF DecMemory
    <2>4. ASSUME NEW c \in DecClients PROVE DecHolds(decTx[c])'
      BY <2>3 DEF DecHolds
    <2> QED
      BY <1>1, <2>2, <2>3, <2>4 DEF DecInv
  <1>7. ASSUME NEW c \in DecClients, NEW work \in DecWork, DecBegin(c, work) PROVE DecInv' /\ DecKept
    <2> DEFINE tx == [pc |-> "begun", work |-> work, locks |-> {}]
    <2>1. /\ decTx' = [decTx EXCEPT ![c] = tx] /\ decStore = "postgres"
          /\ UNCHANGED <<decStore, decTime, decGates, decChallenges, decApprovals, decRejections,
                         decClaims, decRecorded>>
      BY <1>7 DEF DecBegin
    <2>2. tx \in DecTxs /\ tx.pc = "begun" /\ tx.work = work /\ tx.locks = {}
      BY DEF DecTxs
    <2> HIDE DEF tx
    <2>3. DecHolds(tx)'
      BY <2>2 DEF DecHolds
    <2>4. \A o \in DecClients : o # c => DecHolds(decTx[o])'
      <3> SUFFICES ASSUME NEW o \in DecClients, o # c PROVE DecHolds(decTx[o])'
        OBVIOUS
      <3>1. decTx'[o] = decTx[o]
        BY <1>1, <2>1
      <3> QED
        BY <1>1, <2>1, <3>1 DEF DecHolds
    <2>5. DecRowsInv' /\ DecKept
      BY <1>2, <1>4, <2>1
    <2> QED
      BY <1>3, <2>1, <2>2, <2>3, <2>4, <2>5
  <1>8. ASSUME NEW c \in DecClients, NEW tx \in DecTxs, decTx' = [decTx EXCEPT ![c] = tx],
               decStore = "postgres", DecHolds(tx),
               UNCHANGED <<decStore, decTime, decGates, decChallenges, decApprovals, decRejections,
                           decClaims, decRecorded>>,
               \A o \in DecClients : o # c => tx.locks \cap decTx[o].locks = {}
        PROVE  DecInv' /\ DecKept
    <2>1. DecRowsInv' /\ DecKept
      BY <1>2, <1>4, <1>8
    <2>2. DecHolds(tx)'
      BY <1>8 DEF DecHolds
    <2>3. \A o \in DecClients : o # c => DecHolds(decTx[o])'
      <3> SUFFICES ASSUME NEW o \in DecClients, o # c PROVE DecHolds(decTx[o])'
        OBVIOUS
      <3>1. decTx'[o] = decTx[o]
        BY <1>1, <1>8
      <3> QED
        BY <1>1, <1>8, <3>1 DEF DecHolds
    <2> QED
      BY <1>3, <1>8, <2>1, <2>2, <2>3
  <1>9. ASSUME NEW c \in DecClients, DecRead(c) PROVE DecInv' /\ DecKept
    <2>1. /\ decTx[c].pc = "begun" /\ decTx[c].work \in DecWork /\ decTx[c] \in DecTxs
          /\ decStore = "postgres"
          /\ UNCHANGED <<decStore, decTime, decGates, decChallenges, decApprovals, decRejections,
                         decClaims, decRecorded>>
      BY <1>1, <1>9 DEF DecRead, DecHolds, DecRowsInv, DecTypes
    <2>2. PICK work \in DecWork : work = decTx[c].work
      BY <2>1
    <2>3. PICK row : row = DecRow(work)
      OBVIOUS
    <2>4. /\ row \in SUBSET ({"challenge", "approval", "gate"} \X
                             (DecChallenges \cup DecCommands \cup DecDecisions))
          /\ Decides(work) => <<"challenge", work.challenge>> \in row
      BY <2>3, DecWorkForms DEF DecRow, Decides
    <2>5. \A o \in DecClients : o # c => decTx[o].locks \cap row = {}
      BY <1>9, <2>2, <2>3 DEF DecRead
    <2>6. CASE DecReads(work) /\ decTx' = [decTx EXCEPT ![c].pc = "read", ![c].locks = row]
      <3>1. PICK tx : tx = [decTx[c] EXCEPT !.pc = "read", !.locks = row]
        OBVIOUS
      <3>2. tx \in DecTxs /\ tx.pc = "read" /\ tx.work = work /\ tx.locks = row
        BY <2>1, <2>2, <2>4, <3>1 DEF DecTxs
      <3>3. decTx' = [decTx EXCEPT ![c] = tx]
        BY <1>1, <2>6, <3>1
      <3>4. DecHolds(tx)
        BY <1>1, <2>4, <2>6, <3>2, DecReadsOpen DEF DecHolds
      <3>5. \A o \in DecClients : o # c => tx.locks \cap decTx[o].locks = {}
        BY <2>5, <3>2
      <3> QED
        BY <1>8, <2>1, <3>2, <3>3, <3>4, <3>5
    <2>7. CASE DecEnds(c)
      <3>1. PICK tx : tx = DecIdle
        OBVIOUS
      <3> QED
        BY <1>8, <2>1, <2>7, <3>1, DecIdleForm DEF DecEnds
    <2> QED
      BY <1>9, <2>2, <2>3, <2>6, <2>7 DEF DecRead
  <1>10. ASSUME NEW c \in DecClients, DecCommit(c) PROVE DecInv' /\ DecKept
    <2>1. /\ decTx[c].pc = "read" /\ decTx[c].work \in DecWork
          /\ decStore = "postgres" /\ UNCHANGED <<decStore, decTime>> /\ DecEnds(c)
      BY <1>1, <1>10 DEF DecCommit, DecHolds, DecRowsInv, DecTypes
    <2>2. PICK work \in DecWork : work = decTx[c].work
      BY <2>1
    <2>3. PICK tx : tx = DecIdle
      OBVIOUS
    <2>4. CASE UNCHANGED decRows
      BY <1>8, <2>1, <2>3, <2>4, DecIdleForm DEF DecEnds
    <2>5. CASE DecKeysHold(work) /\ DecWrites(work)
      <3>1. DecReady(work)
        <4>1. Decides(work) => decChallenges[work.challenge].is = "open"
          BY <1>1, <2>1, <2>2 DEF DecHolds
        <4>2. work.kind = "issue" => decChallenges[work.challenge].is # "spent"
          BY <2>5 DEF DecKeysHold, DecAbsent
        <4> QED
          BY <2>5, <4>1, <4>2 DEF DecReady, DecKeysHold, Decides
      <3>2. /\ DecRowsInv' /\ DecKept
            /\ \A h \in DecChallenges :
                 decChallenges[h].is = "open" =>
                   \/ decChallenges'[h].is = "open"
                   \/ Decides(work) /\ work.challenge = h
        BY <1>1, <2>1, <2>5, <3>1, DecWritesKeep DEF Decides
      <3>3. ASSUME NEW o \in DecClients, o # c PROVE DecHolds(decTx[o])'
        <4>1. decTx'[o] = decTx[o]
          BY <1>1, <2>1, <3>3 DEF DecEnds
        <4>2. decTx[o].pc \in {"begun", "read"} => decTx[o].work \in DecWork
          BY <1>1 DEF DecHolds
        <4>3. ASSUME decTx[o].pc = "read", Decides(decTx[o].work)
              PROVE  decChallenges'[decTx[o].work.challenge].is = "open"
                     /\ <<"challenge", decTx[o].work.challenge>> \in decTx[o].locks
          <5>1. PICK h : h = decTx[o].work.challenge
            OBVIOUS
          <5>2. /\ <<"challenge", h>> \in decTx[o].locks /\ decChallenges[h].is = "open"
                /\ h \in DecChallenges
            BY <1>1, <4>2, <4>3, <5>1, DecWorkForms DEF DecHolds, Decides
          <5>3. ~(Decides(work) /\ work.challenge = h)
            <6> SUFFICES ASSUME Decides(work), work.challenge = h PROVE FALSE
              OBVIOUS
            <6>1. <<"challenge", h>> \in decTx[c].locks
              BY <1>1, <2>1, <2>2 DEF DecHolds
            <6> QED
              BY <1>1, <3>3, <5>2, <6>1
          <5> QED
            BY <3>2, <5>1, <5>2, <5>3
        <4> QED
          BY <4>1, <4>2, <4>3 DEF DecHolds
      <3>4. /\ decTx' = [decTx EXCEPT ![c] = tx] /\ tx \in DecTxs /\ tx.locks = {}
        BY <2>1, <2>3, DecIdleForm DEF DecEnds
      <3>5. DecHolds(tx)'
        BY <2>3, DecIdleForm DEF DecHolds
      <3> QED
        BY <1>3, <2>1, <3>2, <3>3, <3>4, <3>5
    <2> QED
      BY <1>10, <2>2, <2>4, <2>5 DEF DecCommit
  <1> QED
    BY <1>5, <1>6, <1>7, <1>9, <1>10 DEF DecNext

\* Concurrent and repeated decisions, on either store and for any number of clients: a challenge
\* and an approval are each used once, and nothing a decision rests on is rewritten afterwards
\* (consumeChallenge, putApproval, putRejection, claimApproval).
THEOREM DecisionsAreSound == DecSpec => DecisionsSound
  <1>1. DecInv /\ [DecNext]_decVars => DecInv'
    BY DecNextKeeps
  <1>2. DecInv => DecSpentOnce /\ DecClaimedOnce
    BY DecRowsSpent DEF DecInv, DecRowsInv
  <1>3. DecInv' => (DecSpentOnce /\ DecClaimedOnce)'
    BY <1>2, PTL
  <1>4. DecInv /\ [DecNext]_decVars => [DecKept /\ (DecSpentOnce /\ DecClaimedOnce)']_decVars
    BY <1>3, DecNextKeeps
  <1> QED
    BY <1>1, <1>4, DecInitInv, PTL DEF DecSpec, DecisionsSound

-----------------------------------------------------------------------------
(* The effect ledger *)

\* What transactions lock: rows of reservations and of effects.
LedLocks == {<<r.id>> : r \in LedReservations} \cup {LedRow(e) : e \in LedWork}

\* A transaction: where it stands, what it was asked to put, what it has put and locked, and
\* the rows it goes back to.
LedTxs ==
  [pc : {"idle", "reservation", "reserve", "effect", "insert", "update", "commit", "fail"},
   puts : SUBSET LedReservations, work : SUBSET LedWork,
   reservations : SUBSET LedReservations, effects : SUBSET LedWork, locks : SUBSET LedLocks,
   snapshot : [reserved : SUBSET LedReservations, effects : SUBSET LedWork]]

\* The rows and transactions have their types.
LedTypes ==
  /\ ledStore \in {"memory", "postgres"}
  /\ ledReserved \in SUBSET LedReservations
  /\ ledEffects \in SUBSET LedWork
  /\ ledTx \in [LedClients -> LedTxs]
  /\ ledAcknowledged \in SUBSET LedWork

\* Rows that may be committed: keys are unique, effects authorized, and what was told is kept.
LedGood(reserved, effects, told) ==
  /\ \A e, f \in effects : LedSameEffect(e, f) => e = f
  /\ \A r, s \in reserved : LedSameKey(r, s) => r = s
  /\ \A e \in effects : LedAuthorized(reserved, e)
  /\ \A t \in told : \E e \in effects : e.identity = t.identity /\ e.updated >= t.updated

\* Row e is the only one x has a key with, and x may take its place.
LedReplaces(effects, e, x) ==
  /\ \A f \in effects : LedSameEffect(f, x) => f = e
  /\ e.identity = x.identity
  /\ e = x \/ (LedAllowed(e.state, x.state) /\ x.updated >= e.updated)

\* A transaction that has read and locked the row x takes the place of.
LedMayReplace(effects, tx, x) ==
  /\ LedRow(x) \in tx.locks
  /\ \E e \in effects : LedReplaces(effects, e, x)

\* A transaction and the committed rows: what it has read and locked is still so, what it has
\* inserted has no key in common with them, and in memory it can go back to good rows.
LedTxOK(store, reserved, effects, told, tx) ==
  /\ \A x, y \in tx.work : x = y
  /\ \A r, s \in tx.puts : r = s
  /\ tx.reservations \subseteq tx.puts
  /\ tx.effects \subseteq tx.work
  /\ tx.effects # {} => tx.pc = "commit"
  /\ tx.pc \in {"insert", "update", "commit"} =>
       \A x \in tx.work : LedAuthorized(reserved \cup tx.reservations, x)
  /\ tx.pc = "update" => \A x \in tx.work : LedMayReplace(effects, tx, x)
  /\ tx.pc = "commit" /\ tx.effects = {} =>
       \A x \in tx.work : x \in effects /\ (store = "postgres" => LedRow(x) \in tx.locks)
  /\ \A x \in tx.effects :
       LedMayReplace(effects, tx, x) \/ (\A e \in effects : ~LedSameEffect(e, x))
  /\ \A r \in tx.reservations : \A s \in reserved : ~LedSameKey(s, r)
  /\ store = "memory" => tx.reservations = {} /\ tx.effects = {}
  /\ store = "memory" /\ tx.pc # "idle" =>
       LedGood(tx.snapshot.reserved, tx.snapshot.effects, told)

\* Two transactions: one at a time in memory, else no common key and no common row lock.
LedApart(store, s, t) ==
  /\ store = "memory" => s.pc = "idle" \/ t.pc = "idle"
  /\ \A q \in s.reservations, r \in t.reservations : ~LedSameKey(q, r)
  /\ \A x \in s.effects, y \in t.effects : ~LedSameEffect(x, y)
  /\ \A x \in LedWork : ~(LedRow(x) \in s.locks /\ LedRow(x) \in t.locks)

\* What every statement of a transaction keeps.
LedInv ==
  /\ LedTypes
  /\ LedGood(ledReserved, ledEffects, ledAcknowledged)
  /\ \A c \in LedClients :
       LedTxOK(ledStore, ledReserved, ledEffects, ledAcknowledged, ledTx[c])
  /\ \A c, d \in LedClients : c # d => LedApart(ledStore, ledTx[c], ledTx[d])

\* Keys are shared both ways, and an effect shares what its identity shares.
LEMMA LedSameForms ==
  /\ \A a, b : LedSameEffect(a, b) => LedSameEffect(b, a)
  /\ \A a, b : LedSameKey(a, b) => LedSameKey(b, a)
  /\ \A a, b, x : a.identity = b.identity /\ LedSameEffect(a, x) => LedSameEffect(b, x)
  /\ \A a, b, x : a.identity = b.identity /\ LedSameEffect(x, a) => LedSameEffect(x, b)
  /\ \A a, b : a.identity = b.identity => LedRow(a) = LedRow(b) /\ LedSameEffect(a, b)
  /\ \A a, b : LedRow(a) = LedRow(b) => LedSameEffect(a, b)
  BY DEF LedSameEffect, LedSameKey, LedRow

\* Apart is symmetric.
LEMMA LedApartForms ==
  ASSUME NEW store, NEW s, NEW t, LedApart(store, s, t)
  PROVE  LedApart(store, t, s)
  BY LedSameForms DEF LedApart

\* A time is a natural.
LEMMA LedTimes == \A x \in LedWork : x.updated \in Nat
  BY LedAssumption DEF LedWork

\* What each answer of putEffectRecord establishes.
LEMMA LedPutForms ==
  ASSUME NEW reserved, NEW effects, NEW x, LedPuts(reserved, effects, x) # "conflict"
  PROVE  /\ LedAuthorized(reserved, x)
         /\ \/ /\ LedPuts(reserved, effects, x) = "insert"
               /\ \A e \in effects : ~LedSameEffect(e, x)
            \/ /\ LedPuts(reserved, effects, x) = "same"
               /\ x \in effects /\ LedReplaces(effects, x, x)
            \/ /\ LedPuts(reserved, effects, x) = "update"
               /\ \E e \in effects : LedReplaces(effects, e, x)
  <1> DEFINE prior == {e \in effects : LedSameEffect(e, x)}
  <1>1. LedAuthorized(reserved, x)
    BY DEF LedPuts
  <1>2. CASE prior = {}
    BY <1>1, <1>2 DEF LedPuts
  <1>3. CASE prior = {x}
    <2>1. LedPuts(reserved, effects, x) = "same"
      BY <1>1, <1>3 DEF LedPuts
    <2>2. x \in effects /\ \A f \in effects : LedSameEffect(f, x) => f = x
      BY <1>3
    <2> QED
      BY <1>1, <2>1, <2>2 DEF LedReplaces
  <1>4. CASE prior # {} /\ prior # {x}
    <2>1. PICK e \in prior :
            /\ prior = {e} /\ e.identity = x.identity
            /\ LedAllowed(e.state, x.state) /\ x.updated >= e.updated
      BY <1>1, <1>4 DEF LedPuts
    <2>2. LedPuts(reserved, effects, x) = "update"
      BY <1>1, <1>4, <2>1 DEF LedPuts
    <2>3. e \in effects /\ LedReplaces(effects, e, x)
      BY <2>1 DEF LedReplaces
    <2> QED
      BY <1>1, <2>2, <2>3
  <1> QED
    BY <1>2, <1>3, <1>4

\* Putting an authorized effect that replaces its row, or has none, keeps the rows good, moves
\* each row on, and keeps what was told and the new effect.
LEMMA LedApplies ==
  ASSUME NEW reserved, NEW effects \in SUBSET LedWork, NEW told \in SUBSET LedWork,
         NEW x \in LedWork, LedGood(reserved, effects, told), LedAuthorized(reserved, x),
         \/ \A e \in effects : ~LedSameEffect(e, x)
         \/ \E e \in effects : LedReplaces(effects, e, x)
  PROVE  /\ LedApplied(effects, x) \in SUBSET LedWork
         /\ x \in LedApplied(effects, x)
         /\ LedGood(reserved, LedApplied(effects, x), told \cup {x})
         /\ \A e \in effects : \E f \in LedApplied(effects, x) :
              /\ f.identity = e.identity
              /\ f = e \/ (LedAllowed(e.state, f.state) /\ f.updated >= e.updated)
  <1> DEFINE after == LedApplied(effects, x)
  <1>1. \A e \in after : e = x \/ (e \in effects /\ LedRow(e) # LedRow(x))
    BY DEF LedApplied
  <1>2. x \in after /\ \A e \in effects : LedRow(e) # LedRow(x) => e \in after
    BY DEF LedApplied
  <1>3. \A e \in effects : LedRow(e) # LedRow(x) => ~LedSameEffect(e, x) /\ ~LedSameEffect(x, e)
    BY LedSameForms DEF LedReplaces
  <1>4. \A e \in effects : LedRow(e) = LedRow(x) => LedReplaces(effects, e, x)
    BY LedSameForms DEF LedReplaces
  <1> HIDE DEF after
  <1>5. \A e, f \in after : LedSameEffect(e, f) => e = f
    BY <1>1, <1>3 DEF LedGood
  <1>6. \A e \in after : LedAuthorized(reserved, e)
    BY <1>1 DEF LedGood
  <1>7. \A e \in effects : \E f \in after :
          /\ f.identity = e.identity
          /\ f = e \/ (LedAllowed(e.state, f.state) /\ f.updated >= e.updated)
    BY <1>2, <1>4 DEF LedReplaces
  <1>8. \A t \in told \cup {x} : \E e \in after : e.identity = t.identity /\ e.updated >= t.updated
    <2> SUFFICES ASSUME NEW t \in told \cup {x}
                 PROVE  \E e \in after : e.identity = t.identity /\ e.updated >= t.updated
      OBVIOUS
    <2>1. CASE t = x
      BY <1>2, <2>1, LedTimes
    <2>2. CASE t \in told
      <3>1. PICK e \in effects : e.identity = t.identity /\ e.updated >= t.updated
        BY <2>2 DEF LedGood
      <3>2. PICK f \in after :
              /\ f.identity = e.identity
              /\ f = e \/ (LedAllowed(e.state, f.state) /\ f.updated >= e.updated)
        BY <1>7, <3>1
      <3>3. f.updated \in Nat /\ e.updated \in Nat /\ t.updated \in Nat
        BY <1>1, <2>2, <3>1, <3>2, LedTimes
      <3> QED
        BY <3>1, <3>2, <3>3
    <2> QED
      BY <2>1, <2>2
  <1>9. after \in SUBSET LedWork
    BY <1>1
  <1> QED
    BY <1>2, <1>5, <1>6, <1>7, <1>8, <1>9 DEF LedGood, after

\* A resting transaction holds nothing.
LEMMA LedIdleForm ==
  /\ LedIdle \in LedTxs
  /\ LedIdle.pc = "idle" /\ LedIdle.work = {} /\ LedIdle.puts = {} /\ LedIdle.reservations = {}
  /\ LedIdle.effects = {} /\ LedIdle.locks = {}
  BY DEF LedIdle, LedTxs

\* An idle transaction fits any rows and any other transaction.
LEMMA LedIdleOK ==
  /\ \A store, reserved, effects, told : LedTxOK(store, reserved, effects, told, LedIdle)
  /\ \A store, tx : LedApart(store, LedIdle, tx)
  BY LedIdleForm DEF LedTxOK, LedApart

\* The empty ledger satisfies the invariant.
LEMMA LedInitInv == LedInit => LedInv
  <1> SUFFICES ASSUME LedInit PROVE LedInv
    OBVIOUS
  <1>1. LedTypes
    BY LedIdleForm DEF LedInit, LedTypes
  <1>2. LedGood(ledReserved, ledEffects, ledAcknowledged)
    BY DEF LedInit, LedGood
  <1>3. \A c \in LedClients : ledTx[c] = LedIdle
    BY DEF LedInit
  <1> QED
    BY <1>1, <1>2, <1>3, LedIdleOK DEF LedInv

\* A step that only changes one transaction keeps the invariant when the new transaction fits
\* the committed rows and the other transactions.
LEMMA LedMoves ==
  ASSUME LedInv, NEW c \in LedClients, NEW tx \in LedTxs,
         ledTx' = [ledTx EXCEPT ![c] = tx],
         UNCHANGED <<ledStore, ledReserved, ledEffects, ledAcknowledged>>,
         LedTxOK(ledStore, ledReserved, ledEffects, ledAcknowledged, tx),
         \A d \in LedClients \ {c} : LedApart(ledStore, tx, ledTx[d])
  PROVE  LedInv'
  <1>1. LedTypes'
    BY DEF LedInv, LedTypes
  <1>2. ledTx'[c] = tx /\ \A d \in LedClients \ {c} : ledTx'[d] = ledTx[d]
    BY DEF LedInv, LedTypes
  <1>3. \A d \in LedClients : LedTxOK(ledStore, ledReserved, ledEffects, ledAcknowledged, ledTx'[d])
    BY <1>2 DEF LedInv
  <1>4. \A d, e \in LedClients : d # e => LedApart(ledStore, ledTx'[d], ledTx'[e])
    BY <1>2, LedApartForms DEF LedInv
  <1>5. LedGood(ledReserved, ledEffects, ledAcknowledged)'
    BY DEF LedInv
  <1> QED
    BY <1>1, <1>3, <1>4, <1>5 DEF LedInv

\* A transition that begins has read rows that are good now; in memory it is alone.
LEMMA LedBeginKeeps ==
  ASSUME LedInv, NEW c \in LedClients, NEW x \in LedWork, NEW puts \in SUBSET LedReservations,
         \A r, s \in puts : r = s, LedBegin(c, x, puts)
  PROVE  LedInv'
  <1> DEFINE new == [LedIdle EXCEPT !.pc = IF puts = {} THEN "effect" ELSE "reservation",
                       !.puts = puts, !.work = {x},
                       !.snapshot = [reserved |-> ledReserved, effects |-> ledEffects]]
  <1>1. PICK tx : tx = new
    OBVIOUS
  <1>2. /\ tx \in LedTxs /\ tx.pc \in {"effect", "reservation"} /\ tx.puts = puts /\ tx.work = {x}
        /\ tx.reservations = {} /\ tx.effects = {} /\ tx.locks = {}
        /\ tx.snapshot.reserved = ledReserved /\ tx.snapshot.effects = ledEffects
    BY <1>1 DEF LedIdle, LedTxs, LedInv, LedTypes
  <1>3. ledTx' = [ledTx EXCEPT ![c] = tx]
    BY <1>1 DEF LedBegin
  <1> HIDE DEF new
  <1>4. LedTxOK(ledStore, ledReserved, ledEffects, ledAcknowledged, tx)
    BY <1>2 DEF LedTxOK, LedInv
  <1>5. \A d \in LedClients \ {c} : LedApart(ledStore, tx, ledTx[d])
    BY <1>2 DEF LedApart, LedBegin, LedMayBegin, LedAt
  <1> QED
    BY <1>2, <1>3, <1>4, <1>5, LedMoves DEF LedBegin

\* Going back to the snapshot, in memory, and dropping what is not committed, on PostgreSQL.
LEMMA LedUndoKeeps ==
  ASSUME LedInv, NEW c \in LedClients, ~LedAt(c, "idle"), LedUndo(c)
  PROVE  LedInv'
  <1>1. CASE ledStore = "postgres"
    BY <1>1, LedMoves, LedIdleForm, LedIdleOK DEF LedUndo
  <1>2. CASE ledStore = "memory"
    <2>1. \A d \in LedClients \ {c} : ledTx[d].pc = "idle"
      BY <1>2 DEF LedInv, LedApart, LedAt
    <2>2. /\ ledTx'[c] = LedIdle /\ \A d \in LedClients \ {c} : ledTx'[d] = ledTx[d]
          /\ ledTx' \in [LedClients -> LedTxs]
      BY LedIdleForm DEF LedUndo, LedInv, LedTypes
    <2>3. LedGood(ledReserved', ledEffects', ledAcknowledged')
      <3>1. LedTxOK(ledStore, ledReserved, ledEffects, ledAcknowledged, ledTx[c])
        BY DEF LedInv
      <3>2. LedGood(ledTx[c].snapshot.reserved, ledTx[c].snapshot.effects, ledAcknowledged)
        BY <1>2, <3>1 DEF LedTxOK, LedAt
      <3>3. /\ ledReserved' = ledTx[c].snapshot.reserved /\ ledEffects' = ledTx[c].snapshot.effects
            /\ ledAcknowledged' = ledAcknowledged
        BY <1>2 DEF LedUndo
      <3> QED
        BY <3>2, <3>3
    <2>4. LedTypes'
      BY <1>2, <2>2 DEF LedUndo, LedInv, LedTypes, LedTxs
    <2>5. \A d \in LedClients : ledTx'[d].pc = "idle"
      BY <2>1, <2>2, LedIdleForm
    <2>6. \A d \in LedClients : LedTxOK(ledStore', ledReserved', ledEffects', ledAcknowledged', ledTx'[d])
      <3> SUFFICES ASSUME NEW d \in LedClients
                   PROVE LedTxOK(ledStore', ledReserved', ledEffects', ledAcknowledged', ledTx'[d])
        OBVIOUS
      <3>1. CASE d = c
        BY <2>2, <3>1, LedIdleOK
      <3>2. CASE d # c
        <4>1. ledTx'[d] = ledTx[d] /\ ledTx[d].pc = "idle"
          BY <2>1, <2>2, <3>2
        <4>2. ledStore' = ledStore
          BY DEF LedUndo
        <4> QED
          <5>1. LedTxOK(ledStore, ledReserved, ledEffects, ledAcknowledged, ledTx[d])
            BY DEF LedInv
          <5>2. ledTx[d].reservations = {} /\ ledTx[d].effects = {}
            BY <1>2, <5>1 DEF LedTxOK
          <5> QED
            BY <4>1, <5>1, <5>2 DEF LedTxOK
      <3> QED
        BY <3>1, <3>2
    <2>7. \A d, e \in LedClients : d # e => LedApart(ledStore', ledTx'[d], ledTx'[e])
      BY <2>2, LedIdleOK, LedApartForms DEF LedInv, LedUndo
    <2> QED
      BY <2>3, <2>4, <2>6, <2>7 DEF LedInv
  <1> QED
    BY <1>1, <1>2 DEF LedInv, LedTypes

\* In memory a put changes the rows while nobody else is in a transaction.
LEMMA LedMemoryKeeps ==
  ASSUME LedInv, NEW c \in LedClients, ledStore = "memory", ~LedAt(c, "idle"),
         NEW pc \in {"effect", "commit"}, LedGo(c, pc),
         ledReserved' \in SUBSET LedReservations, ledEffects' \in SUBSET LedWork,
         UNCHANGED <<ledStore, ledAcknowledged>>,
         LedGood(ledReserved', ledEffects', ledAcknowledged),
         pc = "commit" => \A x \in ledTx[c].work : x \in ledEffects' /\ LedAuthorized(ledReserved', x)
  PROVE  LedInv'
  <1>1. PICK tx : tx = [ledTx[c] EXCEPT !.pc = pc]
    OBVIOUS
  <1>2. ledTx[c] \in LedTxs
    BY DEF LedInv, LedTypes
  <1>3. /\ tx \in LedTxs /\ tx.pc = pc /\ tx.puts = ledTx[c].puts /\ tx.work = ledTx[c].work
        /\ tx.reservations = ledTx[c].reservations /\ tx.effects = ledTx[c].effects
        /\ tx.snapshot = ledTx[c].snapshot /\ tx.locks = ledTx[c].locks
    BY <1>1, <1>2 DEF LedTxs
  <1>4. /\ ledTx'[c] = tx /\ \A d \in LedClients \ {c} : ledTx'[d] = ledTx[d]
        /\ ledTx' \in [LedClients -> LedTxs]
    BY <1>1, <1>3 DEF LedGo, LedInv, LedTypes
  <1>5. \A d \in LedClients \ {c} : ledTx[d].pc = "idle"
    BY DEF LedInv, LedApart, LedAt
  <1>6. LedTypes'
    BY <1>4 DEF LedInv, LedTypes
  <1>7. \A d \in LedClients :
          LedTxOK(ledStore, ledReserved', ledEffects', ledAcknowledged, ledTx'[d])
    <2> SUFFICES ASSUME NEW d \in LedClients
                 PROVE LedTxOK(ledStore, ledReserved', ledEffects', ledAcknowledged, ledTx'[d])
      OBVIOUS
    <2>1. LedTxOK(ledStore, ledReserved, ledEffects, ledAcknowledged, ledTx[d])
      BY DEF LedInv
    <2>2. ledTx[d].reservations = {} /\ ledTx[d].effects = {}
      BY <2>1 DEF LedTxOK
    <2>3. CASE d = c
      <3>1. tx.reservations = {} /\ tx.effects = {}
        BY <1>3, <2>2, <2>3
      <3>2. LedGood(tx.snapshot.reserved, tx.snapshot.effects, ledAcknowledged)
        BY <1>3, <2>1, <2>3 DEF LedTxOK, LedAt
      <3>3. /\ \A x, y \in tx.work : x = y
            /\ \A r, s \in tx.puts : r = s
        BY <1>3, <2>1, <2>3 DEF LedTxOK
      <3>4. tx.pc = "commit" => \A x \in tx.work : x \in ledEffects' /\ LedAuthorized(ledReserved', x)
        BY <1>3
      <3>5. ledReserved' \cup tx.reservations = ledReserved'
        BY <3>1
      <3>6. tx.pc \in {"insert", "update", "commit"} => tx.pc = "commit"
        BY <1>3
      <3>7. LedTxOK(ledStore, ledReserved', ledEffects', ledAcknowledged, tx)
        BY <3>1, <3>2, <3>3, <3>4, <3>5, <3>6 DEF LedTxOK
      <3> QED
        BY <1>4, <2>3, <3>7
    <2>4. CASE d # c
      <3>1. ledTx'[d] = ledTx[d] /\ ledTx[d].pc = "idle"
        BY <1>4, <1>5, <2>4
      <3> QED
        BY <2>1, <2>2, <3>1 DEF LedTxOK
    <2> QED
      BY <2>3, <2>4
  <1>8. \A d, e \in LedClients : d # e => LedApart(ledStore, ledTx'[d], ledTx'[e])
    BY <1>3, <1>4, <1>5 DEF LedInv, LedApart
  <1> QED
    BY <1>6, <1>7, <1>8 DEF LedInv

\* Storing a reservation that is new, or stored already, in memory.
LEMMA LedMemoryReserveKeeps ==
  ASSUME LedInv, NEW c \in LedClients, NEW r \in ledTx[c].puts, LedMemoryReserve(c, r)
  PROVE  LedInv'
  <1>1. ~LedAt(c, "idle")
    BY DEF LedMemoryReserve, LedAt
  <1>2. CASE LedUndo(c)
    BY <1>1, <1>2, LedUndoKeeps
  <1>3. CASE /\ LedReserves(ledReserved, r) # "conflict"
             /\ ledReserved' = ledReserved \cup {r}
             /\ LedGo(c, "effect")
             /\ UNCHANGED <<ledStore, ledEffects, ledBegun, ledAcknowledged>>
    <2>1. r \in LedReservations
      BY DEF LedInv, LedTypes, LedTxs
    <2>2. \A s \in ledReserved : LedSameKey(s, r) => s = r
      BY <1>3 DEF LedReserves
    <2>3. \A s, t \in ledReserved' : LedSameKey(s, t) => s = t
      BY <1>3, <2>2, LedSameForms DEF LedInv, LedGood
    <2>4. \A e \in ledEffects : LedAuthorized(ledReserved', e)
      BY <1>3 DEF LedInv, LedGood, LedAuthorized
    <2>5. LedGood(ledReserved', ledEffects', ledAcknowledged)
      BY <1>3, <2>3, <2>4 DEF LedInv, LedGood
    <2>6. ledReserved' \in SUBSET LedReservations /\ ledEffects' \in SUBSET LedWork
      BY <1>3, <2>1 DEF LedInv, LedTypes
    <2> QED
      BY <1>1, <1>3, <2>5, <2>6, LedMemoryKeeps DEF LedMemoryReserve
  <1> QED
    BY <1>2, <1>3 DEF LedMemoryReserve

\* Storing an effect in memory.
LEMMA LedMemoryPutKeeps ==
  ASSUME LedInv, NEW c \in LedClients, NEW x \in ledTx[c].work, LedMemoryPut(c, x)
  PROVE  LedInv'
  <1>1. ~LedAt(c, "idle")
    BY DEF LedMemoryPut, LedAt
  <1>2. CASE LedUndo(c)
    BY <1>1, <1>2, LedUndoKeeps
  <1>3. CASE /\ LedPuts(ledReserved, ledEffects, x) # "conflict"
             /\ ledEffects' = LedApplied(ledEffects, x)
             /\ LedGo(c, "commit")
             /\ UNCHANGED <<ledStore, ledReserved, ledBegun, ledAcknowledged>>
    <2>1. x \in LedWork /\ \A y \in ledTx[c].work : y = x
      <3>1. ledTx[c] \in LedTxs
        BY DEF LedInv, LedTypes
      <3>2. LedTxOK(ledStore, ledReserved, ledEffects, ledAcknowledged, ledTx[c])
        BY DEF LedInv
      <3> QED
        BY <3>1, <3>2 DEF LedTxs, LedTxOK
    <2>2. /\ LedAuthorized(ledReserved, x)
          /\ \/ \A e \in ledEffects : ~LedSameEffect(e, x)
             \/ \E e \in ledEffects : LedReplaces(ledEffects, e, x)
      BY <1>3, LedPutForms
    <2>3. /\ ledEffects \in SUBSET LedWork /\ ledAcknowledged \in SUBSET LedWork
          /\ LedGood(ledReserved, ledEffects, ledAcknowledged)
      BY DEF LedInv, LedTypes
    <2>4. /\ LedApplied(ledEffects, x) \in SUBSET LedWork /\ x \in LedApplied(ledEffects, x)
          /\ LedGood(ledReserved, LedApplied(ledEffects, x), ledAcknowledged \cup {x})
      BY <2>1, <2>2, <2>3, LedApplies
    <2>5. LedGood(ledReserved', ledEffects', ledAcknowledged)
      BY <1>3, <2>4 DEF LedGood
    <2>6. ledReserved' \in SUBSET LedReservations /\ ledEffects' \in SUBSET LedWork
      BY <1>3, <2>4 DEF LedInv, LedTypes
    <2>7. \A y \in ledTx[c].work : y \in ledEffects' /\ LedAuthorized(ledReserved', y)
      BY <1>3, <2>1, <2>2, <2>4
    <2> QED
      BY <1>1, <1>3, <2>5, <2>6, <2>7, LedMemoryKeeps DEF LedMemoryPut
  <1> QED
    BY <1>2, <1>3 DEF LedMemoryPut

\* Rows of reservations are not rows of effects.
LEMMA LedRowsDiffer == \A r, x : <<r.id>> # LedRow(x)
  BY DEF LedRow

\* tx is transaction c gone on to pc with more rows locked.
LedGoesOn(c, tx, pc, rows) ==
  /\ tx \in LedTxs /\ tx.pc = pc /\ tx.locks = ledTx[c].locks \cup rows
  /\ tx.puts = ledTx[c].puts /\ tx.work = ledTx[c].work
  /\ tx.reservations = ledTx[c].reservations /\ tx.effects = ledTx[c].effects
  /\ tx.snapshot = ledTx[c].snapshot
  /\ ledTx' = [ledTx EXCEPT ![c] = tx]

\* A statement that only moves on, or moves on and locks, leaves the rest of the transaction.
LEMMA LedGoForms ==
  ASSUME LedInv, NEW c \in LedClients,
         NEW pc \in {"reserve", "effect", "insert", "update", "commit", "fail"},
         NEW rows \in SUBSET LedLocks
  PROVE  /\ LedGo(c, pc) => \E tx : LedGoesOn(c, tx, pc, {})
         /\ LedHolds(c, rows, pc) => \E tx : LedGoesOn(c, tx, pc, rows)
  <1>1. ledTx[c] \in LedTxs /\ ledTx \in [LedClients -> LedTxs]
    BY DEF LedInv, LedTypes
  <1>2. ASSUME LedGo(c, pc) PROVE \E tx : LedGoesOn(c, tx, pc, {})
    <2>1. PICK tx : tx = [ledTx[c] EXCEPT !.pc = pc]
      OBVIOUS
    <2>2. /\ tx \in LedTxs /\ tx.pc = pc /\ tx.locks = ledTx[c].locks \cup {}
          /\ tx.puts = ledTx[c].puts /\ tx.work = ledTx[c].work
          /\ tx.reservations = ledTx[c].reservations /\ tx.effects = ledTx[c].effects
          /\ tx.snapshot = ledTx[c].snapshot
      BY <1>1, <2>1 DEF LedTxs
    <2>3. ledTx' = [ledTx EXCEPT ![c] = tx]
      BY <1>1, <1>2, <2>1 DEF LedGo
    <2> QED
      BY <2>2, <2>3 DEF LedGoesOn
  <1>3. ASSUME LedHolds(c, rows, pc) PROVE \E tx : LedGoesOn(c, tx, pc, rows)
    <2>1. PICK tx : tx = [ledTx[c] EXCEPT !.pc = pc, !.locks = ledTx[c].locks \cup rows]
      OBVIOUS
    <2>2. /\ tx \in LedTxs /\ tx.pc = pc /\ tx.locks = ledTx[c].locks \cup rows
          /\ tx.puts = ledTx[c].puts /\ tx.work = ledTx[c].work
          /\ tx.reservations = ledTx[c].reservations /\ tx.effects = ledTx[c].effects
          /\ tx.snapshot = ledTx[c].snapshot
      BY <1>1, <2>1 DEF LedTxs
    <2>3. ledTx' = [ledTx EXCEPT ![c] = tx]
      BY <1>1, <1>3, <2>1 DEF LedHolds
    <2> QED
      BY <2>2, <2>3 DEF LedGoesOn
  <1> QED
    BY <1>2, <1>3

\* Going on with more rows locked, when what the next step relies on was read under the locks.
LEMMA LedGoesOnKeeps ==
  ASSUME LedInv, ledStore = "postgres", NEW c \in LedClients, NEW tx, NEW pc, NEW rows,
         LedGoesOn(c, tx, pc, rows), LedFree(c, rows), ledTx[c].effects = {},
         UNCHANGED <<ledStore, ledReserved, ledEffects, ledAcknowledged>>,
         pc \in {"insert", "update", "commit"} =>
           \A x \in ledTx[c].work : LedAuthorized(ledReserved \cup ledTx[c].reservations, x),
         pc = "update" => \A x \in ledTx[c].work :
           LedRow(x) \in rows /\ \E e \in ledEffects : LedReplaces(ledEffects, e, x),
         pc = "commit" => \A x \in ledTx[c].work : LedRow(x) \in rows /\ x \in ledEffects
  PROVE  LedInv'
  <1>1. LedTxOK(ledStore, ledReserved, ledEffects, ledAcknowledged, ledTx[c])
    BY DEF LedInv
  <1>2. LedTxOK(ledStore, ledReserved, ledEffects, ledAcknowledged, tx)
    BY <1>1 DEF LedTxOK, LedGoesOn, LedMayReplace
  <1>3. ASSUME NEW d \in LedClients \ {c} PROVE LedApart(ledStore, tx, ledTx[d])
    <2>1. LedApart(ledStore, ledTx[c], ledTx[d])
      BY <1>3 DEF LedInv
    <2> QED
      BY <1>3, <2>1 DEF LedApart, LedGoesOn, LedFree
  <1> QED
    BY <1>2, <1>3, LedMoves DEF LedGoesOn

\* The SELECT of putAuthorizationReservation.
LEMMA LedReadReservationKeeps ==
  ASSUME LedInv, NEW c \in LedClients, NEW r \in ledTx[c].puts, LedReadReservation(c, r)
  PROVE  LedInv'
  <1> DEFINE rows == {<<s.id>> : s \in {s \in ledReserved : LedSameKey(s, r)}}
  <1>1. rows \in SUBSET LedLocks
    BY DEF LedInv, LedTypes, LedLocks
  <1>2. /\ LedFree(c, rows) /\ LedFree(c, {}) /\ ledTx[c].effects = {} /\ ledStore = "postgres"
        /\ UNCHANGED <<ledStore, ledReserved, ledEffects, ledAcknowledged>>
    <2>1. LedTxOK(ledStore, ledReserved, ledEffects, ledAcknowledged, ledTx[c])
      BY DEF LedInv
    <2>2. ledTx[c].effects = {}
      BY <2>1 DEF LedTxOK, LedReadReservation, LedAt
    <2> QED
      BY <2>2 DEF LedReadReservation, LedFree
  <1>3. LedReserves(ledReserved, r) \in {"insert", "same", "conflict"}
    BY DEF LedReserves
  <1>4. \E pc \in {"reserve", "effect", "fail"} : LedHolds(c, rows, pc) \/ LedGo(c, pc)
    BY <1>3 DEF LedReadReservation
  <1> HIDE DEF rows
  <1>5. PICK pc \in {"reserve", "effect", "fail"} :
          \E tx, locked : locked \in {{}, rows} /\ LedGoesOn(c, tx, pc, locked)
    BY <1>1, <1>4, LedGoForms
  <1>6. PICK tx, locked : locked \in {{}, rows} /\ LedGoesOn(c, tx, pc, locked)
    BY <1>5
  <1>7. LedFree(c, locked)
    BY <1>2, <1>6
  <1> QED
    BY <1>2, <1>5, <1>6, <1>7, LedGoesOnKeeps

\* The INSERT of putAuthorizationReservation.
LEMMA LedInsertReservationKeeps ==
  ASSUME LedInv, NEW c \in LedClients, NEW r \in ledTx[c].puts, LedInsertReservation(c, r)
  PROVE  LedInv'
  <1>1. LedTxOK(ledStore, ledReserved, ledEffects, ledAcknowledged, ledTx[c])
    BY DEF LedInv
  <1>2. /\ ledTx[c].effects = {} /\ ledStore = "postgres"
        /\ UNCHANGED <<ledStore, ledReserved, ledEffects, ledAcknowledged>>
    BY <1>1 DEF LedInsertReservation, LedTxOK, LedAt
  <1>3. CASE LedGo(c, "fail")
    <2>1. PICK tx : LedGoesOn(c, tx, "fail", {})
      BY <1>3, LedGoForms
    <2>2. LedFree(c, {})
      BY DEF LedFree
    <2> QED
      BY <1>2, <2>1, <2>2, LedGoesOnKeeps
  <1>4. CASE /\ \A s \in ledReserved : ~LedSameKey(s, r)
             /\ ledTx' = [ledTx EXCEPT ![c].pc = "effect", ![c].reservations = {r},
                                       ![c].locks = @ \cup {<<r.id>>}]
    <2>1. ledTx[c] \in LedTxs /\ ledTx \in [LedClients -> LedTxs]
      BY DEF LedInv, LedTypes
    <2>2. PICK tx : tx = [ledTx[c] EXCEPT !.pc = "effect", !.reservations = {r},
                                          !.locks = ledTx[c].locks \cup {<<r.id>>}]
      OBVIOUS
    <2>3. r \in LedReservations /\ <<r.id>> \in LedLocks
      BY <2>1 DEF LedTxs, LedLocks
    <2>4. /\ tx \in LedTxs /\ tx.pc = "effect" /\ tx.locks = ledTx[c].locks \cup {<<r.id>>}
          /\ tx.puts = ledTx[c].puts /\ tx.work = ledTx[c].work /\ tx.reservations = {r}
          /\ tx.effects = ledTx[c].effects
      BY <2>1, <2>2, <2>3 DEF LedTxs
    <2>5. ledTx' = [ledTx EXCEPT ![c] = tx]
      BY <1>4, <2>1, <2>2
    <2>6. LedTxOK(ledStore, ledReserved, ledEffects, ledAcknowledged, tx)
      BY <1>1, <1>2, <1>4, <2>4 DEF LedTxOK
    <2>7. ASSUME NEW d \in LedClients \ {c} PROVE LedApart(ledStore, tx, ledTx[d])
      <3>1. LedApart(ledStore, ledTx[c], ledTx[d])
        BY <2>7 DEF LedInv
      <3>2. \A s \in ledTx[d].reservations : ~LedSameKey(r, s)
        BY <2>7, LedSameForms DEF LedInsertReservation
      <3> QED
        BY <1>2, <2>4, <3>1, <3>2, LedRowsDiffer DEF LedApart
    <2> QED
      BY <1>2, <2>4, <2>5, <2>6, <2>7, LedMoves
  <1> QED
    BY <1>3, <1>4 DEF LedInsertReservation

\* The two SELECTs of putEffectRecord: what is read is locked until the transaction ends.
LEMMA LedReadEffectKeeps ==
  ASSUME LedInv, NEW c \in LedClients, NEW x \in ledTx[c].work, LedReadEffect(c, x)
  PROVE  LedInv'
  <1> DEFINE seen == ledReserved \cup ledTx[c].reservations
             rows == {<<r.id>> : r \in {r \in seen : r.id = x.identity.reservation}}
                       \cup LedPriorRows(x)
             answer == LedPuts(seen, ledEffects, x)
  <1>1. LedTxOK(ledStore, ledReserved, ledEffects, ledAcknowledged, ledTx[c])
    BY DEF LedInv
  <1>2. ledTx[c] \in LedTxs /\ ledReserved \in SUBSET LedReservations /\ ledEffects \in SUBSET LedWork
    BY DEF LedInv, LedTypes
  <1>3. rows \in SUBSET LedLocks
    <2>1. seen \subseteq LedReservations
      BY <1>2 DEF LedTxs
    <2>2. LedPriorRows(x) \subseteq LedLocks
      BY <1>2 DEF LedPriorRows, LedLocks
    <2> QED
      BY <2>1, <2>2 DEF LedLocks
  <1>4. /\ LedFree(c, rows) /\ LedFree(c, {}) /\ ledTx[c].effects = {} /\ ledStore = "postgres"
        /\ UNCHANGED <<ledStore, ledReserved, ledEffects, ledAcknowledged>>
    <2>1. ledTx[c].effects = {}
      BY <1>1 DEF LedTxOK, LedReadEffect, LedAt
    <2> QED
      BY <2>1 DEF LedReadEffect, LedFree
  <1>5. \A y \in ledTx[c].work : y = x
    BY <1>1 DEF LedTxOK
  <1>6. \A e \in ledEffects : LedReplaces(ledEffects, e, x) => LedRow(x) \in rows
    BY LedSameForms DEF LedReplaces, LedPriorRows
  <1>7. CASE answer = "conflict"
    <2>1. LedGo(c, "fail")
      BY <1>7 DEF LedReadEffect
    <2>2. PICK tx : LedGoesOn(c, tx, "fail", {})
      BY <2>1, LedGoForms
    <2> QED
      BY <1>4, <2>2, LedGoesOnKeeps
  <1>8. CASE answer # "conflict"
    <2>1. /\ LedAuthorized(seen, x)
          /\ \/ answer = "insert" /\ \A e \in ledEffects : ~LedSameEffect(e, x)
             \/ answer = "same" /\ x \in ledEffects /\ LedReplaces(ledEffects, x, x)
             \/ answer = "update" /\ \E e \in ledEffects : LedReplaces(ledEffects, e, x)
      BY <1>8, LedPutForms
    <2>2. /\ answer = "insert" => LedHolds(c, rows, "insert")
          /\ answer = "same" => LedHolds(c, rows, "commit")
          /\ answer = "update" => LedHolds(c, rows, "update")
      BY DEF LedReadEffect
    <2> HIDE DEF answer, rows
    <2>3. CASE answer = "insert"
      <3>1. PICK tx : LedGoesOn(c, tx, "insert", rows)
        BY <1>3, <2>2, <2>3, LedGoForms
      <3> QED
        BY <1>4, <1>5, <2>1, <3>1, LedGoesOnKeeps
    <2>4. CASE answer = "same"
      <3>1. PICK tx : LedGoesOn(c, tx, "commit", rows)
        BY <1>3, <2>2, <2>4, LedGoForms
      <3>2. x \in ledEffects /\ LedRow(x) \in rows
        BY <1>6, <2>1, <2>4
      <3> QED
        BY <1>4, <1>5, <2>1, <3>1, <3>2, LedGoesOnKeeps
    <2>5. CASE answer = "update"
      <3>1. PICK tx : LedGoesOn(c, tx, "update", rows)
        BY <1>3, <2>2, <2>5, LedGoForms
      <3>2. LedRow(x) \in rows /\ \E e \in ledEffects : LedReplaces(ledEffects, e, x)
        BY <1>6, <2>1, <2>5
      <3> QED
        BY <1>4, <1>5, <2>1, <3>1, <3>2, LedGoesOnKeeps
    <2> QED
      BY <2>1, <2>3, <2>4, <2>5
  <1> QED
    BY <1>7, <1>8

\* An effect written and not yet committed: it replaces a row of its transaction, or has a key
\* in common with no row and no other transaction's effect.
LEMMA LedWritesKeep ==
  ASSUME LedInv, ledStore = "postgres", NEW c \in LedClients, NEW x \in ledTx[c].work,
         ledTx' = [ledTx EXCEPT ![c].pc = "commit", ![c].effects = {x}],
         UNCHANGED <<ledStore, ledReserved, ledEffects, ledAcknowledged>>,
         LedAuthorized(ledReserved \cup ledTx[c].reservations, x),
         LedMayReplace(ledEffects, ledTx[c], x) \/ (\A e \in ledEffects : ~LedSameEffect(e, x)),
         \A d \in LedClients \ {c} : \A y \in ledTx[d].effects : ~LedSameEffect(x, y)
  PROVE  LedInv'
  <1>1. ledTx[c] \in LedTxs /\ ledTx \in [LedClients -> LedTxs]
    BY DEF LedInv, LedTypes
  <1>2. PICK tx : tx = [ledTx[c] EXCEPT !.pc = "commit", !.effects = {x}]
    OBVIOUS
  <1>3. x \in LedWork
    BY <1>1 DEF LedTxs
  <1>4. /\ tx \in LedTxs /\ tx.pc = "commit" /\ tx.locks = ledTx[c].locks /\ tx.effects = {x}
        /\ tx.puts = ledTx[c].puts /\ tx.work = ledTx[c].work
        /\ tx.reservations = ledTx[c].reservations
    BY <1>1, <1>2, <1>3 DEF LedTxs
  <1>5. ledTx' = [ledTx EXCEPT ![c] = tx]
    BY <1>1, <1>2
  <1>6. LedTxOK(ledStore, ledReserved, ledEffects, ledAcknowledged, ledTx[c])
    BY DEF LedInv
  <1>7. LedTxOK(ledStore, ledReserved, ledEffects, ledAcknowledged, tx)
    BY <1>4, <1>6 DEF LedTxOK, LedMayReplace
  <1>8. ASSUME NEW d \in LedClients \ {c} PROVE LedApart(ledStore, tx, ledTx[d])
    <2>1. LedApart(ledStore, ledTx[c], ledTx[d])
      BY <1>8 DEF LedInv
    <2> QED
      BY <1>4, <1>8, <2>1 DEF LedApart
  <1> QED
    BY <1>4, <1>5, <1>7, <1>8, LedMoves

\* The INSERT of putEffectRecord, against the unique keys.
LEMMA LedInsertEffectKeeps ==
  ASSUME LedInv, NEW c \in LedClients, NEW x \in ledTx[c].work, LedInsertEffect(c, x)
  PROVE  LedInv'
  <1>1. LedTxOK(ledStore, ledReserved, ledEffects, ledAcknowledged, ledTx[c])
    BY DEF LedInv
  <1>2. /\ ledTx[c].effects = {} /\ ledStore = "postgres"
        /\ UNCHANGED <<ledStore, ledReserved, ledEffects, ledAcknowledged>>
    BY <1>1 DEF LedInsertEffect, LedTxOK, LedAt
  <1>3. CASE LedGo(c, "fail")
    <2>1. PICK tx : LedGoesOn(c, tx, "fail", {})
      BY <1>3, LedGoForms
    <2>2. LedFree(c, {})
      BY DEF LedFree
    <2> QED
      BY <1>2, <2>1, <2>2, LedGoesOnKeeps
  <1>4. CASE /\ ~LedCollides(ledEffects, x)
             /\ ledTx' = [ledTx EXCEPT ![c].pc = "commit", ![c].effects = {x}]
    <2>1. LedAuthorized(ledReserved \cup ledTx[c].reservations, x)
      BY <1>1 DEF LedTxOK, LedInsertEffect, LedAt
    <2>2. \A e \in ledEffects : ~LedSameEffect(e, x)
      BY <1>4 DEF LedCollides
    <2>3. \A d \in LedClients \ {c} : \A y \in ledTx[d].effects : ~LedSameEffect(x, y)
      BY LedSameForms DEF LedInsertEffect, LedCollides
    <2> QED
      BY <1>2, <1>4, <2>1, <2>2, <2>3, LedWritesKeep
  <1> QED
    BY <1>3, <1>4 DEF LedInsertEffect

\* The UPDATE of putEffectRecord, of a row that has stayed locked since it was read.
LEMMA LedUpdateEffectKeeps ==
  ASSUME LedInv, NEW c \in LedClients, NEW x \in ledTx[c].work, LedUpdateEffect(c, x)
  PROVE  LedInv'
  <1>1. LedTxOK(ledStore, ledReserved, ledEffects, ledAcknowledged, ledTx[c])
    BY DEF LedInv
  <1>2. /\ LedAuthorized(ledReserved \cup ledTx[c].reservations, x)
        /\ LedMayReplace(ledEffects, ledTx[c], x)
    BY <1>1 DEF LedTxOK, LedUpdateEffect, LedAt
  <1>3. PICK e \in ledEffects : LedReplaces(ledEffects, e, x)
    BY <1>2 DEF LedMayReplace
  <1>4. ASSUME NEW d \in LedClients \ {c}, NEW y \in ledTx[d].effects, LedSameEffect(x, y)
        PROVE  FALSE
    <2>1. /\ LedApart(ledStore, ledTx[c], ledTx[d])
          /\ LedTxOK(ledStore, ledReserved, ledEffects, ledAcknowledged, ledTx[d])
      BY <1>4 DEF LedInv
    <2>2. LedSameEffect(e, y)
      BY <1>3, <1>4, LedSameForms DEF LedReplaces
    <2>3. LedMayReplace(ledEffects, ledTx[d], y)
      BY <1>4, <2>1, <2>2 DEF LedTxOK
    <2>4. PICK f \in ledEffects : LedReplaces(ledEffects, f, y)
      BY <2>3 DEF LedMayReplace
    <2>5. e = f
      BY <2>2, <2>4 DEF LedReplaces
    <2>6. LedRow(x) = LedRow(y)
      BY <1>3, <2>4, <2>5, LedSameForms DEF LedReplaces
    <2>7. LedRow(x) \in ledTx[c].locks /\ LedRow(x) \in ledTx[d].locks
      BY <1>2, <2>3, <2>6 DEF LedMayReplace
    <2>8. x \in LedWork
      BY DEF LedInv, LedTypes, LedTxs
    <2> QED
      BY <2>1, <2>7, <2>8 DEF LedApart
  <1> QED
    BY <1>2, <1>4, LedWritesKeep DEF LedUpdateEffect

\* A commit leaves the rows other transactions have locked, and adds no key of theirs.
LEMMA LedOthersKeep ==
  ASSUME LedInv, NEW c \in LedClients, NEW x \in ledTx[c].work, LedCommit(c, x),
         NEW d \in LedClients \ {c}
  PROVE  LedTxOK(ledStore, ledReserved', ledEffects', ledAcknowledged', ledTx[d])
  <1>1. /\ LedTxOK(ledStore, ledReserved, ledEffects, ledAcknowledged, ledTx[c])
        /\ LedTxOK(ledStore, ledReserved, ledEffects, ledAcknowledged, ledTx[d])
        /\ LedApart(ledStore, ledTx[c], ledTx[d])
        /\ ledTx[c] \in LedTxs /\ ledTx[d] \in LedTxs /\ ledStore \in {"memory", "postgres"}
    BY DEF LedInv, LedTypes
  <1>2. CASE ledStore = "memory"
    <2>1. ledTx[d].pc = "idle" /\ ledTx[d].reservations = {} /\ ledTx[d].effects = {}
      BY <1>1, <1>2 DEF LedApart, LedTxOK, LedCommit, LedAt
    <2> QED
      BY <1>1, <2>1 DEF LedTxOK
  <1>3. CASE ledStore = "postgres"
    <2>1. x \in LedWork /\ ledEffects \in SUBSET LedWork
      BY <1>1 DEF LedTxs, LedInv, LedTypes
    <2>2. ledTx[c].effects # {} =>
            /\ x \in ledTx[c].effects
            /\ ledEffects' = LedApplied(ledEffects, x)
            /\ \/ LedMayReplace(ledEffects, ledTx[c], x)
               \/ \A e \in ledEffects : ~LedSameEffect(e, x)
      BY <1>1 DEF LedTxOK, LedCommit
    <2>3. ledTx[c].effects = {} => ledEffects' = ledEffects
      BY DEF LedCommit
    <2>4. ASSUME NEW e \in ledEffects, LedRow(e) \in ledTx[d].locks, ledTx[c].effects # {}
          PROVE  e \in ledEffects' /\ ~LedSameEffect(e, x)
      <3>1. CASE LedMayReplace(ledEffects, ledTx[c], x)
        <4>1. LedRow(e) # LedRow(x)
          BY <1>1, <2>1, <2>4, <3>1 DEF LedApart, LedMayReplace
        <4>2. PICK g \in ledEffects : LedReplaces(ledEffects, g, x)
          BY <3>1 DEF LedMayReplace
        <4>3. ~LedSameEffect(e, x)
          BY <2>4, <4>1, <4>2, LedSameForms DEF LedReplaces
        <4> QED
          BY <2>2, <2>4, <4>1, <4>3 DEF LedApplied
      <3>2. CASE \A f \in ledEffects : ~LedSameEffect(f, x)
        <4>1. LedRow(e) # LedRow(x)
          BY <2>4, <3>2, LedSameForms
        <4> QED
          BY <2>2, <2>4, <3>2, <4>1 DEF LedApplied
      <3> QED
        BY <2>2, <2>4, <3>1, <3>2
    <2>5. \A f \in ledEffects' : f \in ledEffects \/ (ledTx[c].effects # {} /\ f = x)
      BY <2>2, <2>3 DEF LedApplied
    <2>6. ASSUME NEW y, LedMayReplace(ledEffects, ledTx[d], y)
          PROVE  LedMayReplace(ledEffects', ledTx[d], y)
      <3>1. PICK e \in ledEffects : LedReplaces(ledEffects, e, y)
        BY <2>6 DEF LedMayReplace
      <3>2. LedRow(e) \in ledTx[d].locks
        BY <2>6, <3>1, LedSameForms DEF LedMayReplace, LedReplaces
      <3>3. e \in ledEffects'
        BY <2>3, <2>4, <3>1, <3>2
      <3>4. \A f \in ledEffects' : LedSameEffect(f, y) => f = e
        <4> SUFFICES ASSUME NEW f \in ledEffects', LedSameEffect(f, y) PROVE f = e
          OBVIOUS
        <4>1. CASE f \in ledEffects
          BY <3>1, <4>1 DEF LedReplaces
        <4>2. CASE ledTx[c].effects # {} /\ f = x
          <5>1. LedSameEffect(e, x)
            BY <3>1, <4>2, LedSameForms DEF LedReplaces
          <5> QED
            BY <2>4, <3>1, <3>2, <4>2, <5>1
        <4> QED
          BY <2>5, <4>1, <4>2
      <3>5. LedReplaces(ledEffects', e, y)
        BY <3>1, <3>4 DEF LedReplaces
      <3> QED
        BY <2>6, <3>3, <3>5 DEF LedMayReplace
    <2>7. ASSUME NEW y \in ledEffects, LedRow(y) \in ledTx[d].locks PROVE y \in ledEffects'
      BY <2>3, <2>4, <2>7
    <2>8. ASSUME NEW y \in ledTx[d].effects, \A e \in ledEffects : ~LedSameEffect(e, y)
          PROVE  \A e \in ledEffects' : ~LedSameEffect(e, y)
      BY <1>1, <2>2, <2>5, <2>8 DEF LedApart
    <2>9. \A r \in ledTx[d].reservations : \A s \in ledReserved' : ~LedSameKey(s, r)
      BY <1>1 DEF LedApart, LedTxOK, LedCommit
    <2>10. \A y : LedAuthorized(ledReserved \cup ledTx[d].reservations, y) =>
                    LedAuthorized(ledReserved' \cup ledTx[d].reservations, y)
      BY DEF LedAuthorized, LedCommit
    <2>11. /\ ledTx[d].pc = "update" => \A y \in ledTx[d].work : LedMayReplace(ledEffects', ledTx[d], y)
           /\ ledTx[d].pc = "commit" /\ ledTx[d].effects = {} =>
                \A y \in ledTx[d].work : y \in ledEffects' /\ LedRow(y) \in ledTx[d].locks
           /\ \A y \in ledTx[d].effects :
                \/ LedMayReplace(ledEffects', ledTx[d], y)
                \/ \A e \in ledEffects' : ~LedSameEffect(e, y)
      BY <1>1, <1>3, <2>6, <2>7, <2>8 DEF LedTxOK
    <2> QED
      BY <1>1, <1>3, <2>9, <2>10, <2>11 DEF LedTxOK
  <1> QED
    BY <1>1, <1>2, <1>3

\* A commit moves its effect on, keeps the others, and keeps the invariant.
LEMMA LedCommitKeeps ==
  ASSUME LedInv, NEW c \in LedClients, NEW x \in ledTx[c].work, LedCommit(c, x)
  PROVE  LedInv' /\ LedMovesOn
  <1>1. /\ LedTxOK(ledStore, ledReserved, ledEffects, ledAcknowledged, ledTx[c])
        /\ LedGood(ledReserved, ledEffects, ledAcknowledged)
        /\ ledTx[c] \in LedTxs
        /\ ledReserved \in SUBSET LedReservations /\ ledEffects \in SUBSET LedWork
        /\ ledAcknowledged \in SUBSET LedWork
    BY DEF LedInv, LedTypes
  <1>2. x \in LedWork /\ ledReserved' \in SUBSET LedReservations
    BY <1>1 DEF LedTxs, LedCommit
  <1>3. LedAuthorized(ledReserved', x)
    BY <1>1 DEF LedTxOK, LedCommit, LedAt
  <1>4. LedGood(ledReserved', ledEffects, ledAcknowledged)
    <2>1. \A r, s \in ledReserved' : LedSameKey(r, s) => r = s
      BY <1>1, LedSameForms DEF LedTxOK, LedGood, LedCommit
    <2>2. \A e \in ledEffects : LedAuthorized(ledReserved', e)
      BY <1>1 DEF LedGood, LedAuthorized, LedCommit
    <2> QED
      BY <1>1, <2>1, <2>2 DEF LedGood
  <1>5. /\ LedGood(ledReserved', ledEffects', ledAcknowledged')
        /\ ledEffects' \in SUBSET LedWork
        /\ LedMovesOn
    <2>1. CASE ledTx[c].effects = {}
      <3>1. ledEffects' = ledEffects /\ x \in ledEffects /\ ledAcknowledged' = ledAcknowledged \cup {x}
        BY <1>1, <2>1 DEF LedTxOK, LedCommit, LedAt
      <3>2. x.updated \in Nat
        BY <1>2, LedTimes
      <3>3. LedGood(ledReserved', ledEffects', ledAcknowledged')
        BY <1>4, <3>1, <3>2 DEF LedGood
      <3> QED
        BY <1>1, <3>1, <3>3 DEF LedMovesOn
    <2>2. CASE ledTx[c].effects # {}
      <3>1. /\ ledEffects' = LedApplied(ledEffects, x)
            /\ ledAcknowledged' = ledAcknowledged \cup {x}
        BY <2>2 DEF LedCommit
      <3>2. x \in ledTx[c].effects
        BY <1>1, <2>2 DEF LedTxOK
      <3>3. \/ \A e \in ledEffects : ~LedSameEffect(e, x)
            \/ \E e \in ledEffects : LedReplaces(ledEffects, e, x)
        BY <1>1, <3>2 DEF LedTxOK, LedMayReplace
      <3>4. /\ LedApplied(ledEffects, x) \in SUBSET LedWork
            /\ LedGood(ledReserved', LedApplied(ledEffects, x), ledAcknowledged \cup {x})
            /\ \A e \in ledEffects : \E f \in LedApplied(ledEffects, x) :
                 /\ f.identity = e.identity
                 /\ f = e \/ (LedAllowed(e.state, f.state) /\ f.updated >= e.updated)
        BY <1>1, <1>2, <1>3, <1>4, <3>3, LedApplies
      <3> QED
        BY <3>1, <3>4 DEF LedMovesOn
    <2> QED
      BY <2>1, <2>2
  <1>6. /\ ledTx'[c] = LedIdle /\ \A d \in LedClients \ {c} : ledTx'[d] = ledTx[d]
        /\ ledTx' \in [LedClients -> LedTxs] /\ ledStore' = ledStore
    BY LedIdleForm DEF LedCommit, LedInv, LedTypes
  <1>7. LedTypes'
    BY <1>1, <1>2, <1>5, <1>6 DEF LedTypes, LedInv, LedCommit
  <1>8. \A d \in LedClients :
          LedTxOK(ledStore', ledReserved', ledEffects', ledAcknowledged', ledTx'[d])
    BY <1>6, LedIdleOK, LedOthersKeep
  <1>9. \A d, e \in LedClients : d # e => LedApart(ledStore', ledTx'[d], ledTx'[e])
    BY <1>6, LedIdleOK, LedApartForms DEF LedInv
  <1> QED
    BY <1>5, <1>7, <1>8, <1>9 DEF LedInv

\* Every step keeps the invariant, and moves the stored effects only on.
LEMMA LedNextKeeps ==
  ASSUME LedInv, [LedNext]_ledVars
  PROVE  LedInv' /\ LedMovesOn
  <1>1. ledStore = "memory" \/ ledEffects' = ledEffects => LedMovesOn
    BY DEF LedMovesOn
  <1>2. CASE UNCHANGED ledVars
    <2>1. UNCHANGED <<ledStore, ledReserved, ledEffects, ledTx, ledAcknowledged>>
      BY <1>2 DEF ledVars
    <2> QED
      BY <1>1, <2>1 DEF LedInv, LedTypes
  <1>3. ASSUME NEW c \in LedClients, LedFail(c) PROVE LedInv' /\ LedMovesOn
    BY <1>1, <1>3, LedUndoKeeps DEF LedFail, LedUndo, LedInv, LedTypes
  <1>4. ASSUME NEW c \in LedClients, NEW x \in LedWork, LedBegin(c, x, {})
        PROVE  LedInv' /\ LedMovesOn
    <2>1. {} \in SUBSET LedReservations /\ \A a, b \in {} : a = b
      BY <1>4
    <2>2. LedInv'
      BY <1>4, <2>1, LedBeginKeeps
    <2>3. ledEffects' = ledEffects
      BY <1>4 DEF LedBegin
    <2> QED
      BY <1>1, <2>2, <2>3
  <1>5. ASSUME NEW c \in LedClients, NEW x \in LedWork, NEW r \in LedReservations,
               LedBegin(c, x, {r})
        PROVE  LedInv' /\ LedMovesOn
    <2>1. {r} \in SUBSET LedReservations /\ \A a, b \in {r} : a = b
      BY <1>5
    <2>2. LedInv'
      BY <1>5, <2>1, LedBeginKeeps
    <2>3. ledEffects' = ledEffects
      BY <1>5 DEF LedBegin
    <2> QED
      BY <1>1, <2>2, <2>3
  <1>6. ASSUME NEW c \in LedClients, NEW r \in ledTx[c].puts, LedMemoryReserve(c, r)
        PROVE  LedInv' /\ LedMovesOn
    BY <1>1, <1>6, LedMemoryReserveKeeps DEF LedMemoryReserve
  <1>7. ASSUME NEW c \in LedClients, NEW r \in ledTx[c].puts, LedReadReservation(c, r)
        PROVE  LedInv' /\ LedMovesOn
    BY <1>1, <1>7, LedReadReservationKeeps DEF LedReadReservation
  <1>8. ASSUME NEW c \in LedClients, NEW r \in ledTx[c].puts, LedInsertReservation(c, r)
        PROVE  LedInv' /\ LedMovesOn
    BY <1>1, <1>8, LedInsertReservationKeeps DEF LedInsertReservation
  <1>9. ASSUME NEW c \in LedClients, NEW x \in ledTx[c].work, LedMemoryPut(c, x)
        PROVE  LedInv' /\ LedMovesOn
    BY <1>1, <1>9, LedMemoryPutKeeps DEF LedMemoryPut
  <1>10. ASSUME NEW c \in LedClients, NEW x \in ledTx[c].work, LedCommit(c, x)
         PROVE  LedInv' /\ LedMovesOn
    BY <1>10, LedCommitKeeps
  <1>11. ASSUME NEW c \in LedClients, NEW x \in ledTx[c].work, LedReadEffect(c, x)
         PROVE  LedInv' /\ LedMovesOn
    BY <1>1, <1>11, LedReadEffectKeeps DEF LedReadEffect
  <1>12. ASSUME NEW c \in LedClients, NEW x \in ledTx[c].work, LedInsertEffect(c, x)
         PROVE  LedInv' /\ LedMovesOn
    BY <1>1, <1>12, LedInsertEffectKeeps DEF LedInsertEffect
  <1>13. ASSUME NEW c \in LedClients, NEW x \in ledTx[c].work, LedUpdateEffect(c, x)
         PROVE  LedInv' /\ LedMovesOn
    BY <1>1, <1>13, LedUpdateEffectKeeps DEF LedUpdateEffect
  <1> QED
    BY <1>2, <1>3, <1>4, <1>5, <1>6, <1>7, <1>8, <1>9, <1>10, <1>11, <1>12, <1>13 DEF LedNext

\* The ledger, for any clients, reservations, identities and bounds: under racing and undone
\* transactions one row per effect and key, moved only along the transitions, and never taken
\* back once a client was told of it (putAuthorizationReservation, putEffectRecord, #restore).
THEOREM LedgerIsSound == LedSpec => LedgerSound
  <1>1. LedInv /\ [LedNext]_ledVars => LedInv'
    BY LedNextKeeps
  <1>2. LedInv => LedKeysUnique /\ LedKept
    BY DEF LedInv, LedGood, LedKeysUnique, LedKept
  <1>3. LedInv' => (LedKeysUnique /\ LedKept)'
    BY <1>2, PTL
  <1>4. LedInv /\ [LedNext]_ledVars => [LedMovesOn /\ (LedKeysUnique /\ LedKept)']_ledVars
    BY <1>3, LedNextKeeps
  <1> QED
    BY <1>1, <1>4, LedInitInv, PTL DEF LedSpec, LedgerSound

-----------------------------------------------------------------------------
(* Evidence *)

\* The builder's answer fits the input, and what a worker has put and a run was completed for
\* is what is stored.
EviInv ==
  /\ eviInput \in EviInputs
  /\ eviBuilt \in {"unasked", EviBuildsRecord(eviInput)}
  /\ eviHeld \in [EviWorkers -> Nat] /\ eviPut \in [EviWorkers -> BOOLEAN]
  /\ eviTime \in Nat /\ eviTime > 0
  /\ \A w \in EviWorkers : eviPut[w] => eviHeld[w] # 0 /\ eviStored = eviHeld[w]
  /\ EviNamesStored

\* What buildEvidenceRecord's checks say together.
LEMMA EviBuiltSupported ==
  ASSUME NEW input \in EviInputs, EviBuildsRecord(input) = "built"
  PROVE  /\ EviReducerSatisfied(input)
         /\ \A r \in input.results : r.status = "fail" => r.verifier.id \notin input.required
         /\ \A a \in EviArtifacts : input.artifacts = {a} =>
              \A id \in input.required :
                \/ \E r \in input.results :
                     r.verifier.id = id /\ r.artifact = a /\ r.status = "pass"
                \/ \E x \in input.exceptions : x.verifier.id = id /\ x.artifact = a
  <1>1. EviBound(input) /\ EviVerified(input)
    BY DEF EviBuildsRecord
  <1>2. EviReducerSatisfied(input)
    BY <1>1 DEF EviVerified, EviReducerSatisfied
  <1>3. \A r \in input.results : r.status = "fail" => r.verifier.id \notin input.required
    BY <1>1 DEF EviVerified, EviHas
  <1>4. /\ \A r \in input.results : r.artifact \in input.artifacts
        /\ \A x \in input.exceptions : x.artifact \in input.artifacts
    BY <1>1 DEF EviBound, EviExcepts
  <1>5. ASSUME NEW a \in EviArtifacts, input.artifacts = {a}, NEW id \in input.required
        PROVE  \/ \E r \in input.results :
                    r.verifier.id = id /\ r.artifact = a /\ r.status = "pass"
               \/ \E x \in input.exceptions : x.verifier.id = id /\ x.artifact = a
    <2>1. EviHas(input, id, "pass") \/ EviExcepted(input, id)
      BY <1>1, <1>5 DEF EviVerified
    <2> QED
      BY <1>4, <1>5, <2>1 DEF EviHas, EviExcepted
  <1> QED
    BY <1>2, <1>3, <1>5

\* The invariant says what the property does.
LEMMA EviInvSound == EviInv => EvidenceSound
  BY EviBuiltSupported DEF EviInv, EvidenceSound, EviSupported

\* Every step keeps the invariant: a record is stored once, before the run is completed for it.
LEMMA EviNextKeeps ==
  ASSUME EviInv, [EviAsk \/ EviDurableStep]_eviVars
  PROVE  EviInv'
  <1>1. CASE UNCHANGED eviVars
    BY <1>1 DEF EviInv, EviNamesStored, eviVars
  <1>2. CASE EviAsk
    BY <1>2 DEF EviInv, EviNamesStored, EviAsk
  <1>3. CASE EviTick
    BY <1>3 DEF EviInv, EviNamesStored, EviTick
  <1>4. ASSUME NEW w \in EviWorkers, EviBuild(w) PROVE EviInv'
    BY <1>4 DEF EviInv, EviNamesStored, EviBuild
  <1>5. ASSUME NEW w \in EviWorkers, EviPutImmutable(w) PROVE EviInv'
    <2>1. /\ eviHeld[w] # 0 /\ eviStored' = IF eviStored = 0 THEN eviHeld[w] ELSE eviStored
          /\ UNCHANGED <<eviInput, eviBuilt, eviTime, eviHolder, eviCompleted>>
      BY <1>5 DEF EviPutImmutable
    <2>2. EviNamesStored'
      BY <2>1 DEF EviInv, EviNamesStored
    <2>3. CASE /\ eviStored \in {0, eviHeld[w]}
               /\ eviPut' = [eviPut EXCEPT ![w] = TRUE] /\ UNCHANGED eviHeld
      <3>1. \A v \in EviWorkers : eviPut'[v] => eviHeld'[v] # 0 /\ eviStored' = eviHeld'[v]
        BY <2>1, <2>3 DEF EviInv
      <3>2. eviPut' \in [EviWorkers -> BOOLEAN]
        BY <2>3 DEF EviInv
      <3> QED
        BY <2>1, <2>2, <2>3, <3>1, <3>2 DEF EviInv
    <2>4. CASE /\ eviStored \notin {0, eviHeld[w]}
               /\ eviHeld' = [eviHeld EXCEPT ![w] = 0] /\ UNCHANGED eviPut
      <3>1. \A v \in EviWorkers : eviPut'[v] => eviHeld'[v] # 0 /\ eviStored' = eviHeld'[v]
        BY <2>1, <2>4 DEF EviInv
      <3> QED
        BY <2>1, <2>2, <2>4, <3>1 DEF EviInv
    <2> QED
      BY <1>5, <2>3, <2>4 DEF EviPutImmutable, EviInserted
  <1>6. ASSUME NEW w \in EviWorkers, EviComplete(w) PROVE EviInv'
    BY <1>6 DEF EviInv, EviNamesStored, EviComplete
  <1>7. ASSUME NEW w \in EviWorkers, EviCrash(w) PROVE EviInv'
    BY <1>7 DEF EviInv, EviNamesStored, EviCrash
  <1>8. ASSUME NEW w \in EviWorkers, EviTakeOver(w) PROVE EviInv'
    BY <1>8 DEF EviInv, EviNamesStored, EviTakeOver
  <1> QED
    BY <1>1, <1>2, <1>3, <1>4, <1>5, <1>6, <1>7, <1>8 DEF EviDurableStep

\* For any verifiers, artifacts, workers and bounds: a record is built only from verdicts that
\* cover the artifact, and a completed run names the record that is stored
\* (buildEvidenceRecord, the durable host's build and putImmutable).
THEOREM EvidenceIsSound == EviSpec => []EvidenceSound
  <1>1. EviInit => EviInv
    BY DEF EviInit, EviInitDurable, EviInv, EviNamesStored
  <1>2. EviInv /\ [EviAsk \/ EviDurableStep]_eviVars => EviInv'
    BY EviNextKeeps
  <1> QED
    BY <1>1, <1>2, EviInvSound, PTL DEF EviSpec

-----------------------------------------------------------------------------
(* Protected records *)

\* What is left of a put: of one that writes against the row, and of one that sets it.
RecComparing ==
  {<<>>, <<"check", "protect", "insert">>, <<"protect", "insert">>, <<"check", "insert">>,
   <<"insert">>, <<"protect", "check", "insert">>, <<"put">>, <<"protect", "put">>, <<"compare">>}

RecSetting == {<<"check", "protect", "set">>, <<"protect", "set">>, <<"set">>}

\* The stores whose put sets the row.
RecSets == recStore = "memory" /\ recKind \in {"order", "artifact"} /\ recSensitive

\* The record, its writers, the keys and retention have their types.
RecTypes ==
  /\ recKind \in RecKinds /\ recStore \in {"memory", "postgres"} /\ recSensitive \in BOOLEAN
  /\ recCeiling \in [RecWriters -> Nat]
  /\ recRow \in RecContents \cup {"none"}
  /\ recPut \in [RecWriters -> RecContents \cup {"none"}]
  /\ recPc \in [RecWriters -> RecComparing \cup RecSetting]
  /\ recKey \in [RecWriters -> RecKeys \cup {0}]
  /\ recAnswer \in [RecWriters -> {"none", "ok", "conflict", "rejected"}]
  /\ recAcked \in SUBSET RecWriters
  /\ recCurrent \in RecKeys
  /\ recRegistry \in [RecKeys -> [ceiling : Nat, count : Nat, nonces : SUBSET RecNonces]]
  /\ recCiphers \in SUBSET [serial : Nat, key : RecKeys, nonce : RecNonces]
  /\ recDeleted \in Nat /\ recPending \in Nat /\ recNotified \in Nat

\* A put under way has a content and no answer; only the stores that set the row set it.
RecPutting(w) ==
  /\ recPc[w] # <<>> => recPut[w] \in RecContents /\ recAnswer[w] = "none"
  /\ recPc[w] \in RecSetting => RecSets
  /\ w \in recAcked => recPut[w] \in RecContents /\ recAnswer[w] = "ok"

\* A ciphertext's nonce is registered under its key.
RecRegistered == \A a \in recCiphers : a.nonce \in recRegistry[a.key].nonces

\* What every step keeps.
RecInv ==
  /\ RecTypes
  /\ \A w \in RecWriters : RecPutting(w)
  /\ RecRegistered
  /\ RecordsSound

\* The phases left after one that goes on.
LEMMA RecPhaseForms ==
  /\ <<>> \in RecComparing /\ <<"compare">> \in RecComparing
  /\ \A p \in RecComparing : p # <<>> /\ Head(p) \in {"check", "protect"} => Tail(p) \in RecComparing
  /\ \A p \in RecSetting : p # <<>> /\ Head(p) \in {"check", "protect"} => Tail(p) \in RecSetting
  /\ \A p \in RecComparing : p = <<>> \/ Head(p) # "set"
  /\ \A p \in RecComparing : p \notin RecSetting
  <1>1. \A a, b, c : /\ Tail(<<a, b, c>>) = <<b, c>> /\ Head(<<a, b, c>>) = a
                     /\ Tail(<<a, b>>) = <<b>> /\ Head(<<a, b>>) = a
                     /\ Tail(<<a>>) = <<>> /\ Head(<<a>>) = a
    OBVIOUS
  <1>2. \A p \in RecComparing : p # <<>> /\ Head(p) \in {"check", "protect"} => Tail(p) \in RecComparing
    <2> SUFFICES ASSUME NEW p \in RecComparing, p # <<>>, Head(p) \in {"check", "protect"}
                 PROVE  Tail(p) \in RecComparing
      OBVIOUS
    <2>1. CASE p = <<"check", "protect", "insert">>
      BY <1>1, <2>1 DEF RecComparing
    <2>2. CASE p = <<"protect", "check", "insert">>
      BY <1>1, <2>2 DEF RecComparing
    <2>3. CASE p \in {<<"protect", "insert">>, <<"check", "insert">>}
      <3>1. Tail(p) = <<"insert">>
        BY <1>1, <2>3
      <3> QED
        BY <3>1 DEF RecComparing
    <2>4. CASE p = <<"protect", "put">>
      BY <1>1, <2>4 DEF RecComparing
    <2>5. CASE p \in {<<"insert">>, <<"put">>, <<"compare">>}
      BY <1>1, <2>5
    <2> QED
      BY <2>1, <2>2, <2>3, <2>4, <2>5 DEF RecComparing
  <1>3. \A p \in RecSetting : p # <<>> /\ Head(p) \in {"check", "protect"} => Tail(p) \in RecSetting
    <2> SUFFICES ASSUME NEW p \in RecSetting, Head(p) \in {"check", "protect"}
                 PROVE  Tail(p) \in RecSetting
      OBVIOUS
    <2>1. CASE p = <<"check", "protect", "set">>
      BY <1>1, <2>1 DEF RecSetting
    <2>2. CASE p = <<"protect", "set">>
      BY <1>1, <2>2 DEF RecSetting
    <2>3. CASE p = <<"set">>
      BY <1>1, <2>3
    <2> QED
      BY <2>1, <2>2, <2>3 DEF RecSetting
  <1>4. \A p \in RecComparing : p = <<>> \/ Head(p) # "set"
    <2>1. \A p \in RecComparing : p = <<>> \/ Head(p) \in {"check", "protect", "insert", "put", "compare"}
      BY <1>1 DEF RecComparing
    <2> QED
      BY <2>1
  <1>5. \A p \in RecComparing : p \notin RecSetting
    <2>1. \A a, b, c : /\ Len(<<a, b, c>>) = 3 /\ <<a, b, c>>[3] = c
                       /\ Len(<<a, b>>) = 2 /\ <<a, b>>[2] = b
                       /\ Len(<<a>>) = 1 /\ <<a>>[1] = a /\ Len(<<>>) = 0
      OBVIOUS
    <2>2. \A p \in RecSetting : Len(p) # 0 /\ p[Len(p)] = "set"
      BY <2>1, SMTT(20) DEF RecSetting
    <2>3. \A p \in RecComparing : Len(p) = 0 \/ p[Len(p)] \in {"insert", "put", "compare"}
      BY <2>1 DEF RecComparing
    <2> QED
      BY <2>2, <2>3
  <1> QED
    BY <1>2, <1>3, <1>4, <1>5 DEF RecComparing

\* A put starts with phases of its store.
LEMMA RecPhasesForm ==
  ASSUME RecTypes
  PROVE  RecPhases \in RecComparing \/ (RecSets /\ RecPhases \in RecSetting)
  <1>1. CASE recStore = "postgres"
    BY <1>1 DEF RecTypes, RecKinds, RecPhases, RecOrderPut, RecArtifactPut, RecInputPut,
                RecContextPut, RecEvidencePut, RecResultPut, RecComparing
  <1>2. CASE recStore = "memory"
    BY <1>2 DEF RecTypes, RecKinds, RecPhases, RecMemoryOrderPut, RecMemoryArtifactPut,
                RecMemoryInputPut, RecMemoryContextPut, RecMemoryEvidencePut,
                RecMemoryResultPut, RecComparing, RecSetting, RecSets
  <1> QED
    BY <1>1, <1>2 DEF RecTypes

\* The keys and their ciphertexts, and retention, apart from the record.
RecKeysOK ==
  /\ recCurrent \in RecKeys
  /\ recRegistry \in [RecKeys -> [ceiling : Nat, count : Nat, nonces : SUBSET RecNonces]]
  /\ recCiphers \in SUBSET [serial : Nat, key : RecKeys, nonce : RecNonces]
  /\ RecRegistered /\ NonceFresh /\ KeyWithinCeiling

\* Retention.
RecRetained ==
  /\ recDeleted \in Nat /\ recPending \in Nat /\ recNotified \in Nat
  /\ ToldOnce

\* The record and its writers.
RecWritersOK ==
  /\ recKind \in RecKinds /\ recStore \in {"memory", "postgres"} /\ recSensitive \in BOOLEAN
  /\ recCeiling \in [RecWriters -> Nat]
  /\ recRow \in RecContents \cup {"none"}
  /\ recPut \in [RecWriters -> RecContents \cup {"none"}]
  /\ recPc \in [RecWriters -> RecComparing \cup RecSetting]
  /\ recKey \in [RecWriters -> RecKeys \cup {0}]
  /\ recAnswer \in [RecWriters -> {"none", "ok", "conflict", "rejected"}]
  /\ recAcked \in SUBSET RecWriters
  /\ \A w \in RecWriters : RecPutting(w)
  /\ RecSets \/ \A w \in recAcked : recPut[w] = recRow

\* The invariant is these three, now and after a step.
LEMMA RecInvParts == RecInv <=> RecKeysOK /\ RecRetained /\ RecWritersOK
  BY DEF RecInv, RecTypes, RecordsSound, WrittenOnce, RecSets, RecKeysOK, RecRetained, RecWritersOK

\* The same after a step.
LEMMA RecInvPartsNext == RecInv' <=> RecKeysOK' /\ RecRetained' /\ RecWritersOK'
  BY RecInvParts, PTL

\* The answer to a put: it says ok only when the row is what was put.
LEMMA RecAnswersKeep ==
  ASSUME RecWritersOK, UNCHANGED <<recFixed, recPut>>, NEW w \in RecWriters,
         NEW a \in {"ok", "conflict", "rejected"}, RecAnswers(w, a), recPc[w] # <<>>,
         recRow' \in RecContents \cup {"none"},
         a = "ok" => RecSets \/ recRow' = recPut[w],
         recRow' = recRow \/ recRow = "none" \/ RecSets,
         recKey' \in [RecWriters -> RecKeys \cup {0}]
  PROVE  RecWritersOK'
  <1>1. /\ UNCHANGED <<recKind, recStore, recSensitive, recExpiry, recCeiling, recPut>>
        /\ RecSets' = RecSets
    BY DEF recFixed, RecSets
  <1>2. /\ recPc' \in [RecWriters -> RecComparing \cup RecSetting]
        /\ recAnswer' \in [RecWriters -> {"none", "ok", "conflict", "rejected"}]
        /\ recAcked' \in SUBSET RecWriters
    BY RecPhaseForms DEF RecWritersOK, RecAnswers
  <1>3. \A v \in RecWriters : RecPutting(v)'
    <2> SUFFICES ASSUME NEW v \in RecWriters PROVE RecPutting(v)'
      OBVIOUS
    <2>1. RecPutting(v) /\ RecPutting(w)
      BY DEF RecWritersOK
    <2>2. CASE v = w
      BY <1>1, <2>1, <2>2, RecPhaseForms DEF RecPutting, RecAnswers, RecWritersOK
    <2>3. CASE v # w
      BY <1>1, <2>1, <2>3 DEF RecPutting, RecAnswers, RecWritersOK
    <2> QED
      BY <2>2, <2>3
  <1>4. RecSets' \/ \A v \in recAcked' : recPut'[v] = recRow'
    <2>1. CASE RecSets
      BY <1>1, <2>1
    <2>2. CASE ~RecSets
      <3>1. \A v \in recAcked : recPut[v] = recRow /\ recPut[v] \in RecContents
        BY <2>2 DEF RecWritersOK, RecPutting
      <3>2. recRow = "none" => recAcked = {}
        BY <3>1, RecAssumption
      <3>3. \A v \in recAcked : recPut[v] = recRow'
        BY <2>2, <3>1, <3>2
      <3> QED
        BY <1>1, <2>2, <3>3 DEF RecAnswers
    <2> QED
      BY <2>1, <2>2
  <1> QED
    BY <1>1, <1>2, <1>3, <1>4 DEF RecWritersOK

\* A put that goes on to its next phase.
LEMMA RecGoesOnKeeps ==
  ASSUME RecWritersOK, UNCHANGED <<recFixed, recPut, recRow>>, NEW w \in RecWriters, RecGoesOn(w),
         RecAt(w, "check") \/ RecAt(w, "protect"),
         recKey' \in [RecWriters -> RecKeys \cup {0}]
  PROVE  RecWritersOK'
  <1>1. /\ UNCHANGED <<recKind, recStore, recSensitive, recExpiry, recCeiling, recPut, recRow>>
        /\ RecSets' = RecSets
    BY DEF recFixed, RecSets
  <1>2. /\ recPc[w] # <<>> /\ Head(recPc[w]) \in {"check", "protect"}
        /\ recPc[w] \in RecComparing \cup RecSetting
    BY DEF RecAt, RecWritersOK
  <1>3. PICK rest : rest = Tail(recPc[w])
    OBVIOUS
  <1>4. /\ recPc[w] \in RecComparing => rest \in RecComparing
        /\ recPc[w] \in RecSetting => rest \in RecSetting
    BY <1>2, <1>3, RecPhaseForms
  <1>5. recPc' = [recPc EXCEPT ![w] = rest] /\ UNCHANGED <<recAnswer, recAcked>>
    BY <1>3 DEF RecGoesOn
  <1>6. recPc' \in [RecWriters -> RecComparing \cup RecSetting]
    BY <1>2, <1>4, <1>5 DEF RecWritersOK
  <1>7. \A v \in RecWriters : RecPutting(v)'
    <2> SUFFICES ASSUME NEW v \in RecWriters PROVE RecPutting(v)'
      OBVIOUS
    <2>1. RecPutting(v) /\ recPc'[v] = IF v = w THEN rest ELSE recPc[v]
      BY <1>5 DEF RecWritersOK
    <2>2. recPc'[v] \in RecSetting => recPc[v] \in RecSetting
      BY <1>2, <1>4, <2>1, RecPhaseForms
    <2>3. recPc'[v] # <<>> => recPc[v] # <<>>
      BY <1>2, <2>1
    <2> QED
      BY <1>1, <1>5, <2>1, <2>2, <2>3 DEF RecPutting
  <1> QED
    BY <1>1, <1>5, <1>6, <1>7 DEF RecWritersOK

\* A put that begins, dies or goes on to compare.
LEMMA RecMovesKeep ==
  ASSUME RecWritersOK, UNCHANGED <<recFixed, recRow, recAnswer, recAcked>>,
         NEW w \in RecWriters, NEW p, recPc' = [recPc EXCEPT ![w] = p],
         p \in RecComparing \/ (p \in RecSetting /\ RecSets),
         \/ UNCHANGED recPut /\ (recPc[w] # <<>> \/ p = <<>>)
         \/ \E c \in RecContents : recPut' = [recPut EXCEPT ![w] = c] /\ recAnswer[w] = "none",
         recKey' \in [RecWriters -> RecKeys \cup {0}]
  PROVE  RecWritersOK'
  <1>1. /\ UNCHANGED <<recKind, recStore, recSensitive, recExpiry, recCeiling, recRow>>
        /\ RecSets' = RecSets
    BY DEF recFixed, RecSets
  <1>2. /\ recPc' \in [RecWriters -> RecComparing \cup RecSetting]
        /\ recPut' \in [RecWriters -> RecContents \cup {"none"}]
        /\ recPc'[w] = p /\ \A v \in RecWriters \ {w} : recPc'[v] = recPc[v] /\ recPut'[v] = recPut[v]
    BY DEF RecWritersOK
  <1>3. w \in recAcked => recPut'[w] = recPut[w]
    BY DEF RecWritersOK, RecPutting
  <1>4. \A v \in RecWriters : RecPutting(v)'
    <2> SUFFICES ASSUME NEW v \in RecWriters PROVE RecPutting(v)'
      OBVIOUS
    <2>1. RecPutting(v)
      BY DEF RecWritersOK
    <2>2. CASE v # w
      BY <1>1, <1>2, <2>1, <2>2 DEF RecPutting
    <2>3. CASE v = w
      <3>1. p # <<>> => recPut'[w] \in RecContents /\ recAnswer'[w] = "none"
        BY <2>1, <2>3 DEF RecPutting, RecWritersOK
      <3>2. p \in RecSetting => RecSets
        BY RecPhaseForms
      <3>3. w \in recAcked' => recPut'[w] \in RecContents /\ recAnswer'[w] = "ok"
        BY <1>3, <2>1, <2>3 DEF RecPutting
      <3> QED
        BY <1>1, <1>2, <2>3, <3>1, <3>2, <3>3 DEF RecPutting
    <2> QED
      BY <2>2, <2>3
  <1>5. RecSets' \/ \A v \in recAcked' : recPut'[v] = recRow'
    BY <1>1, <1>2, <1>3 DEF RecWritersOK
  <1> QED
    BY <1>1, <1>2, <1>4, <1>5 DEF RecWritersOK

\* The steps of a put against the row.
LEMMA RecPutsKeep ==
  ASSUME RecWritersOK, NEW w \in RecWriters,
         \/ RecCheck(w) \/ RecInsert(w) \/ RecCompare(w) \/ RecMemoryPut(w) \/ RecSet(w)
         \/ RecDies(w)
  PROVE  RecWritersOK'
  <1>1. recPc[w] # <<>> => recPut[w] \in RecContents
    BY DEF RecWritersOK, RecPutting
  <1>8. recKey' \in [RecWriters -> RecKeys \cup {0}]
    BY DEF RecWritersOK, RecCheck, RecInsert, RecCompare, RecMemoryPut, RecSet, RecDies
  <1>2. CASE RecCheck(w)
    <2>1. /\ recPc[w] # <<>> /\ UNCHANGED <<recFixed, recPut, recRow>>
          /\ recRow' \in RecContents \cup {"none"}
      BY <1>2 DEF RecCheck, RecAt, RecWritersOK
    <2>2. CASE RecGoesOn(w)
      BY <1>8, <1>2, <2>1, <2>2, RecGoesOnKeeps DEF RecCheck
    <2>3. CASE RecAnswers(w, IF RecSame(w) THEN "ok" ELSE "conflict")
      <3>1. PICK a : a = IF RecSame(w) THEN "ok" ELSE "conflict"
        OBVIOUS
      <3>2. a \in {"ok", "conflict"} /\ (a = "ok" => recRow' = recPut[w])
        BY <2>1, <3>1 DEF RecSame
      <3> QED
        BY <1>8, <2>1, <2>3, <3>1, <3>2, RecAnswersKeep
    <2> QED
      BY <1>2, <2>2, <2>3 DEF RecCheck
  <1>3. CASE RecInsert(w)
    <2>1. /\ recPc[w] # <<>> /\ UNCHANGED <<recFixed, recPut>>
      BY <1>3 DEF RecInsert, RecAt
    <2>2. CASE recRow = "none" /\ recRow' = recPut[w] /\ RecAnswers(w, "ok")
      BY <1>8, <1>1, <2>1, <2>2, RecAnswersKeep
    <2>3. CASE /\ recRow # "none" /\ UNCHANGED recRow
               /\ recPc' = [recPc EXCEPT ![w] = <<"compare">>] /\ UNCHANGED <<recAnswer, recAcked>>
      BY <1>8, <2>1, <2>3, RecMovesKeep, RecPhaseForms
    <2> QED
      BY <1>3, <2>2, <2>3 DEF RecInsert
  <1>4. CASE RecCompare(w)
    <2>1. /\ recPc[w] # <<>> /\ UNCHANGED <<recFixed, recPut, recRow>>
          /\ recRow' \in RecContents \cup {"none"}
      BY <1>4 DEF RecCompare, RecAt, RecWritersOK
    <2>2. PICK a : a = IF RecSeen = recPut[w] THEN "ok" ELSE "conflict"
      OBVIOUS
    <2>3. a \in {"ok", "conflict"} /\ (a = "ok" => recRow' = recPut[w])
      BY <1>1, <2>1, <2>2, RecAssumption DEF RecSeen
    <2> QED
      BY <1>8, <1>4, <2>1, <2>2, <2>3, RecAnswersKeep DEF RecCompare
  <1>5. CASE RecMemoryPut(w)
    <2>1. /\ recPc[w] # <<>> /\ UNCHANGED <<recFixed, recPut>>
          /\ recRow' = IF recRow = "none" THEN recPut[w] ELSE recRow
      BY <1>5 DEF RecMemoryPut, RecAt
    <2>2. PICK a : a = IF recRow \in {"none", recPut[w]} THEN "ok" ELSE "conflict"
      OBVIOUS
    <2>3. /\ a \in {"ok", "conflict"} /\ (a = "ok" => recRow' = recPut[w])
          /\ recRow' \in RecContents \cup {"none"} /\ (recRow' = recRow \/ recRow = "none")
      BY <1>1, <2>1, <2>2 DEF RecWritersOK
    <2> QED
      BY <1>8, <1>5, <2>1, <2>2, <2>3, RecAnswersKeep DEF RecMemoryPut
  <1>6. CASE RecSet(w)
    <2>1. recPc[w] # <<>> /\ UNCHANGED <<recFixed, recPut>> /\ recRow' = recPut[w] /\ RecAnswers(w, "ok")
      BY <1>6 DEF RecSet, RecAt
    <2>2. recPc[w] \in RecSetting
      BY <1>6, RecPhaseForms DEF RecSet, RecAt, RecWritersOK
    <2>3. RecSets
      BY <2>2 DEF RecWritersOK, RecPutting
    <2> QED
      BY <1>8, <1>1, <2>1, <2>3, RecAnswersKeep
  <1>7. CASE RecDies(w)
    BY <1>8, <1>7, RecMovesKeep, RecPhaseForms DEF RecDies
  <1> QED
    BY <1>2, <1>3, <1>4, <1>5, <1>6, <1>7

\* A nonce of a key is handed out once, and its use is counted against the ceiling.
LEMMA RecProtectKeeps ==
  ASSUME RecInv, NEW w \in RecWriters, NEW n \in RecNonces, RecProtect(w, n)
  PROVE  RecInv'
  <1>1. RecKeysOK /\ RecRetained /\ RecWritersOK
    BY RecInvParts
  <1>2. /\ UNCHANGED <<recFixed, recRow, recPut, recCurrent, recRetention>> /\ recPc[w] # <<>>
        /\ recRow' \in RecContents \cup {"none"}
    BY <1>1 DEF RecProtect, RecAt, RecWritersOK
  <1>8. PICK key : key = recKey[w]
    OBVIOUS
  <1>9. key \in RecKeys /\ recKey' \in [RecWriters -> RecKeys \cup {0}]
    BY <1>1, <1>8 DEF RecProtect, RecWritersOK
  <1>3. RecRetained'
    BY <1>1, <1>2 DEF RecRetained, ToldOnce, recRetention
  <1>4. UNCHANGED <<recCurrent, recRegistry, recCiphers>> => RecKeysOK'
    BY <1>1 DEF RecKeysOK, RecRegistered, NonceFresh, KeyWithinCeiling
  <1>5. CASE RecAnswers(w, "rejected") /\ UNCHANGED <<recTries, recRegistry, recCiphers>>
    <2>1. RecWritersOK'
      BY <1>1, <1>2, <1>5, <1>9, RecAnswersKeep
    <2> QED
      BY <1>2, <1>3, <1>4, <1>5, <2>1, RecInvPartsNext
  <1>6. CASE UNCHANGED <<recPc, recAnswer, recAcked, recRegistry, recCiphers>>
    <2>1. RecWritersOK'
      BY <1>1, <1>2, <1>6, <1>9 DEF RecWritersOK, RecPutting, RecSets, recFixed
    <2> QED
      BY <1>2, <1>3, <1>4, <1>6, <2>1, RecInvPartsNext
  <1>7. CASE /\ RecFits(recRegistry[key], w) /\ RecRoom(recRegistry[key], w)
             /\ ~RecCollides(recRegistry[key], n)
             /\ recRegistry' = [recRegistry EXCEPT ![key] =
                  [ceiling |-> recCeiling[w], count |-> @.count + 1, nonces |-> @.nonces \cup {n}]]
             /\ recCiphers' = recCiphers \cup
                  {[serial |-> recRegistry[key].count, key |-> key, nonce |-> n]}
             /\ RecGoesOn(w)
    <2>1. RecWritersOK'
      BY <1>1, <1>2, <1>7, <1>9, RecGoesOnKeeps DEF RecProtect
    <2>2. /\ key \in RecKeys /\ recCeiling[w] \in Nat
          /\ recRegistry[key] \in [ceiling : Nat, count : Nat, nonces : SUBSET RecNonces]
      BY <1>1, <1>9 DEF RecKeysOK, RecWritersOK
    <2>3. PICK row : row = [ceiling |-> recCeiling[w], count |-> recRegistry[key].count + 1,
                            nonces |-> recRegistry[key].nonces \cup {n}]
      OBVIOUS
    <2>4. /\ row \in [ceiling : Nat, count : Nat, nonces : SUBSET RecNonces]
          /\ row.count <= row.ceiling /\ n \in row.nonces
          /\ recRegistry[key].nonces \subseteq row.nonces
      BY <1>7, <2>2, <2>3 DEF RecRoom
    <2>5. /\ recRegistry' \in [RecKeys -> [ceiling : Nat, count : Nat, nonces : SUBSET RecNonces]]
          /\ recRegistry'[key] = row
          /\ \A k \in RecKeys \ {key} : recRegistry'[k] = recRegistry[k]
      BY <1>1, <1>7, <2>2, <2>3, <2>4 DEF RecKeysOK
    <2>6. PICK new : new = [serial |-> recRegistry[key].count, key |-> key, nonce |-> n]
      OBVIOUS
    <2>7. /\ new \in [serial : Nat, key : RecKeys, nonce : RecNonces]
          /\ new.key = key /\ new.nonce = n /\ recCiphers' = recCiphers \cup {new}
      BY <1>7, <2>2, <2>6
    <2>8. \A a \in recCiphers : ~(a.key = key /\ a.nonce = n)
      BY <1>1, <1>7 DEF RecKeysOK, RecRegistered, RecCollides
    <2>9. recCiphers' \in SUBSET [serial : Nat, key : RecKeys, nonce : RecNonces]
      BY <1>1, <2>7 DEF RecKeysOK
    <2>10. RecRegistered'
      BY <1>1, <2>4, <2>5, <2>7 DEF RecKeysOK, RecRegistered
    <2>11. NonceFresh'
      BY <1>1, <2>7, <2>8 DEF RecKeysOK, NonceFresh
    <2>12. KeyWithinCeiling'
      BY <1>1, <2>4, <2>5 DEF RecKeysOK, KeyWithinCeiling
    <2>13. RecKeysOK'
      BY <1>1, <1>2, <2>2, <2>5, <2>9, <2>10, <2>11, <2>12 DEF RecKeysOK
    <2> QED
      BY <1>3, <2>1, <2>13, RecInvPartsNext
  <1> QED
    BY <1>5, <1>6, <1>7, <1>8 DEF RecProtect

\* A record that is removed has been told of at most once, and no put was told of what is gone.
LEMMA RecRemoveKeeps ==
  ASSUME RecInv, RecRemove
  PROVE  RecInv'
  <1>1. RecKeysOK /\ RecRetained /\ RecWritersOK
    BY RecInvParts
  <1>2. RecKeysOK'
    BY <1>1 DEF RecRemove, RecKeysOK, RecRegistered, NonceFresh, KeyWithinCeiling, recKeyVars
  <1>3. RecRetained'
    BY <1>1 DEF RecRemove, RecRetained, ToldOnce, RecGone
  <1>4. RecWritersOK'
    BY <1>1 DEF RecRemove, RecWritersOK, RecPutting, RecSets, recFixed
  <1> QED
    BY <1>2, <1>3, <1>4, RecInvPartsNext

\* Every step keeps the invariant.
LEMMA RecNextKeeps ==
  ASSUME RecInv, [RecNext]_recVars
  PROVE  RecInv'
  <1>1. RecKeysOK /\ RecRetained /\ RecWritersOK
    BY RecInvParts
  <1>2. UNCHANGED recKeyVars => RecKeysOK'
    BY <1>1 DEF RecKeysOK, RecRegistered, NonceFresh, KeyWithinCeiling, recKeyVars
  <1>3. UNCHANGED recRetention => RecRetained'
    BY <1>1 DEF RecRetained, ToldOnce, recRetention
  <1>4. UNCHANGED <<recFixed, recRow, recWriter>> => RecWritersOK'
    BY <1>1 DEF RecWritersOK, RecPutting, RecSets, recFixed, recWriter
  <1>5. CASE UNCHANGED recVars
    BY <1>2, <1>3, <1>4, <1>5, RecInvPartsNext DEF recVars
  <1>6. CASE RecTick
    BY <1>2, <1>3, <1>4, <1>6, RecInvPartsNext DEF RecTick
  <1>7. CASE RecRotate
    <2>1. recCurrent' \in RecKeys
      BY <1>1, <1>7, RecAssumption DEF RecRotate, RecKeysOK, RecKeys
    <2>2. RecKeysOK'
      BY <1>1, <1>7, <2>1 DEF RecRotate, RecKeysOK, RecRegistered, NonceFresh, KeyWithinCeiling
    <2> QED
      BY <1>3, <1>4, <1>7, <2>2, RecInvPartsNext DEF RecRotate
  <1>8. CASE RecDelete \/ RecPurge \/ RecGetExpired
    BY <1>8, RecRemoveKeeps DEF RecDelete, RecPurge, RecGetExpired
  <1>9. CASE RecNotify \/ RecForget
    <2>1. RecRetained'
      BY <1>1, <1>9 DEF RecNotify, RecForget, RecRetained, ToldOnce
    <2> QED
      BY <1>2, <1>4, <1>9, <2>1, RecInvPartsNext DEF RecNotify, RecForget
  <1>10. ASSUME NEW w \in RecWriters, NEW c \in RecContents, RecBegin(w, c) PROVE RecInv'
    <2>1. RecPhases \in RecComparing \/ (RecPhases \in RecSetting /\ RecSets)
      BY RecPhasesForm DEF RecInv
    <2>2. PICK p : p = RecPhases
      OBVIOUS
    <2>3. /\ recPc' = [recPc EXCEPT ![w] = p] /\ recPut' = [recPut EXCEPT ![w] = c]
          /\ recAnswer[w] = "none" /\ UNCHANGED <<recFixed, recRow, recAnswer, recAcked>>
          /\ UNCHANGED <<recKey, recKeyVars, recRetention>>
      BY <1>10, <2>2 DEF RecBegin
    <2>4. RecWritersOK'
      <3>1. recKey' \in [RecWriters -> RecKeys \cup {0}]
        BY <1>1, <2>3 DEF RecWritersOK
      <3> QED
        BY <1>1, <2>1, <2>2, <2>3, <3>1, RecMovesKeep
    <2> QED
      BY <1>2, <1>3, <2>3, <2>4, RecInvPartsNext
  <1>11. ASSUME NEW w \in RecWriters,
                \/ RecCheck(w) \/ RecInsert(w) \/ RecCompare(w) \/ RecMemoryPut(w) \/ RecSet(w)
                \/ RecDies(w)
         PROVE  RecInv'
    <2>1. RecWritersOK'
      BY <1>1, <1>11, RecPutsKeep
    <2>2. UNCHANGED <<recKeyVars, recRetention>>
      BY <1>11 DEF RecCheck, RecInsert, RecCompare, RecMemoryPut, RecSet, RecDies
    <2> QED
      BY <1>2, <1>3, <2>1, <2>2, RecInvPartsNext
  <1>12. ASSUME NEW w \in RecWriters, NEW n \in RecNonces, RecProtect(w, n) PROVE RecInv'
    BY <1>12, RecProtectKeeps
  <1>13. ASSUME NEW w \in RecWriters, RecChooseKey(w) PROVE RecInv'
    <2>1. recKey' \in [RecWriters -> RecKeys \cup {0}]
      BY <1>1, <1>13 DEF RecChooseKey, RecWritersOK, RecKeysOK
    <2>2. RecWritersOK'
      BY <1>1, <1>13, <2>1 DEF RecChooseKey, RecWritersOK, RecPutting, RecSets, recFixed
    <2> QED
      BY <1>2, <1>3, <1>13, <2>2, RecInvPartsNext DEF RecChooseKey
  <1> QED
    BY <1>5, <1>6, <1>7, <1>8, <1>9, <1>10, <1>11, <1>12, <1>13 DEF RecNext

\* A store without the record satisfies the invariant.
LEMMA RecInitInv == RecInit => RecInv
  <1> SUFFICES ASSUME RecInit PROVE RecInv
    OBVIOUS
  <1>1. RecKeysOK
    <2>1. recCurrent \in RecKeys
      <3>1. recCurrent = 1
        BY DEF RecInit
      <3>2. RecLastKey \in Nat \ {0}
        BY RecAssumption
      <3> QED
        BY <3>1, <3>2 DEF RecKeys
    <2>2. [ceiling |-> 0, count |-> 0, nonces |-> {}] \in [ceiling : Nat, count : Nat, nonces : SUBSET RecNonces]
      OBVIOUS
    <2>3. recRegistry \in [RecKeys -> [ceiling : Nat, count : Nat, nonces : SUBSET RecNonces]]
      BY <2>2 DEF RecInit
    <2>4. KeyWithinCeiling
      BY DEF RecInit, KeyWithinCeiling
    <2> QED
      BY <2>1, <2>3, <2>4 DEF RecInit, RecKeysOK, RecRegistered, NonceFresh
  <1>2. RecRetained
    BY DEF RecInit, RecRetained, ToldOnce
  <1>3. recCeiling \in [RecWriters -> Nat]
    BY RecAssumption DEF RecInit
  <1>4. RecWritersOK
    BY <1>3, RecPhaseForms DEF RecInit, RecWritersOK, RecPutting, RecSets
  <1> QED
    BY <1>1, <1>2, <1>4, RecInvParts

\* For any writers, contents, keys, nonces, ceilings and bounds: a record has one content, a
\* nonce one ciphertext, a key one ceiling, and a deletion is told of once (record-stores.ts,
\* data-protector.ts, retention-maintenance.ts).
THEOREM RecordsAreSound == RecSpec => []RecordsSound
  <1>1. RecInv /\ [RecNext]_recVars => RecInv'
    BY RecNextKeeps
  <1>2. RecInv => RecordsSound
    BY DEF RecInv
  <1> QED
    BY <1>1, <1>2, RecInitInv, PTL DEF RecSpec

-----------------------------------------------------------------------------
(* Migrations *)

\* A call of migrate.
MigProcs ==
  [pc : {"idle", "bootstrap", "lock", "apply", "statements"},
   build : MigBuilds \cup {[last |-> 0, edited |-> {}]}, target : 0..12, next : 0..13,
   done : SUBSET (1..12)]

\* The versions up to n are applied, and the tables are theirs.
MigSchema(ledger, tables, n) ==
  /\ \A v \in 1..12 : ledger[v] # 0 <=> v <= n
  /\ tables = UNION {MigCreates(v) : v \in 1..n}

\* A call that holds the lock has gone through the versions below its next one, done those the
\* ledger does not have, and found the tables it replaces without a row that came before it.
MigCallOK(ledger, rows, late, lock, p, r) ==
  /\ r.pc \notin {"apply", "statements"} => r.done = {}
  /\ r.pc \in {"apply", "statements"} =>
       /\ lock = p
       /\ r.next \in 1..r.target + 1
       /\ \A v \in 1..12 : ledger[v] # 0 => v <= r.target
       /\ \A v \in 1..12 : v \in r.done <=> v < r.next /\ ledger[v] = 0
       /\ r.pc = "statements" => r.next <= r.target /\ ledger[r.next] = 0
       /\ 6 \in r.done \/ (r.pc = "statements" /\ r.next = 6) =>
            (rows \ late) \cap MigSkeletons = {}

\* What every step keeps.
MigInv ==
  /\ migLedger \in [1..12 -> 0..2]
  /\ migProc \in [MigProcesses -> MigProcs]
  /\ \E n \in 0..12 : MigSchema(migLedger, migTables, n)
  /\ MigTenantsIsolated /\ MigRowsKept
  /\ \A p \in MigProcesses : MigCallOK(migLedger, migRows, migUnseen, migLock, p, migProc[p])

\* A step of one call that leaves the database and the other calls alone: the lock goes from
\* nobody to it, from it to nobody, or stays.
LEMMA MigMoves ==
  ASSUME MigInv, NEW p \in MigProcesses, NEW r \in MigProcs,
         migProc' = [migProc EXCEPT ![p] = r], UNCHANGED migDatabase,
         migLock' = migLock \/ migLock \in {"none", p},
         MigCallOK(migLedger, migRows, migUnseen', migLock', p, r),
         migUnseen' = migUnseen \/ migLock = p
  PROVE  MigInv'
<1>1. migProc' \in [MigProcesses -> MigProcs] BY DEF MigInv
<1>2. /\ migProc'[p] = r
      /\ \A q \in MigProcesses : q # p => migProc'[q] = migProc[q]
  BY DEF MigInv
<1>3. /\ migLedger' = migLedger /\ migTables' = migTables /\ migIsolated' = migIsolated
      /\ migRows' = migRows /\ migLost' = migLost
  BY DEF migDatabase
<1>4. ASSUME NEW q \in MigProcesses
      PROVE  MigCallOK(migLedger', migRows', migUnseen', migLock', q, migProc'[q])
  <2>1. CASE q = p BY <1>2, <1>3, <2>1
  <2>2. CASE q # p
    <3>1. MigCallOK(migLedger, migRows, migUnseen, migLock, q, migProc[q]) BY DEF MigInv
    <3>2. migProc[q].pc \in {"apply", "statements"} =>
            migLock' = migLock /\ migUnseen' = migUnseen
      BY <2>2, <3>1, MigAssumption DEF MigCallOK
    <3> QED BY <1>2, <1>3, <2>2, <3>1, <3>2 DEF MigCallOK
  <2> QED BY <2>1, <2>2
<1> QED BY <1>1, <1>3, <1>4 DEF MigInv, MigTenantsIsolated, MigRowsKept

\* A call that ends leaves nothing.
LEMMA MigEndsKeeps ==
  ASSUME MigInv, NEW p \in MigProcesses, MigEnds(p), UNCHANGED migDatabase
  PROVE  MigInv'
<1>1. /\ migProc' = [migProc EXCEPT ![p] = MigIdle] /\ (migLock' = migLock \/ migLock = p)
      /\ migUnseen' = migUnseen \/ migLock = p
  BY DEF MigEnds
<1>2. MigIdle \in MigProcs BY DEF MigIdle, MigProcs
<1>3. MigCallOK(migLedger, migRows, migUnseen', migLock', p, MigIdle) BY DEF MigCallOK, MigIdle
<1> QED BY <1>1, <1>2, <1>3, MigMoves

\* The tables of a set of versions; 006 creates again what it drops, and 012 creates nothing.
LEMMA MigCreatesForms ==
  /\ MigCreates(6) = MigSkeletons /\ MigCreates(12) = {}
  /\ \A v \in 1..12 : v # 6 => MigDrops(v) = {}
  /\ MigDrops(6) = MigSkeletons
  /\ \A v \in 1..12 : v # 11 => \A tables : MigIsolates(v, tables) = {}
  /\ \A tables : MigIsolates(11, tables) = MigTenantTables(tables)
BY DEF MigCreates, MigDrops, MigIsolates

\* COMMIT applies the versions its ledger did not have, up to the target.
LEMMA MigCommitKeeps ==
  ASSUME MigInv, NEW p \in MigProcesses, MigCommit(p)
  PROVE  MigInv' /\ MigLedgerGrows
<1> DEFINE r == migProc[p]
           done == r.done
           dropped == UNION {MigDrops(v) : v \in done}
           created(w) == UNION {MigCreates(v) : v \in {u \in done : u <= w}}
<1>0. r \in MigProcs /\ MigCallOK(migLedger, migRows, migUnseen, migLock, p, r)
  BY DEF MigInv
<1>1. /\ r.pc = "apply" /\ r.next > r.target
      /\ migLedger' = [v \in 1..12 |-> IF v \in done THEN MigDigest(r.build, v) ELSE migLedger[v]]
      /\ migTables' = (migTables \ dropped) \cup created(12)
      /\ migIsolated' = migIsolated \cup UNION {MigIsolates(v, migTables \cup created(v)) : v \in done}
      /\ migRows' = migRows \ dropped
      /\ migLost' = migLost \cup ((migRows \ migUnseen) \cap dropped)
      /\ MigEnds(p)
  BY DEF MigCommit, MigAt
<1>2. /\ r.target \in 0..12 /\ r.next = r.target + 1 /\ done \subseteq 1..12
      /\ \A v \in 1..12 : v \in done <=> v <= r.target /\ migLedger[v] = 0
      /\ \A v \in 1..12 : migLedger[v] # 0 => v <= r.target
  BY <1>0, <1>1 DEF MigProcs, MigCallOK
<1>3. PICK n \in 0..12 : MigSchema(migLedger, migTables, n) BY DEF MigInv
<1>4. n <= r.target
  <2>1. n = 0 \/ n \in 1..12 OBVIOUS
  <2> QED BY <1>2, <1>3, <2>1 DEF MigSchema
<1>5. \A v \in 1..12 : v \in done <=> n < v /\ v <= r.target
  BY <1>2, <1>3 DEF MigSchema
<1> HIDE DEF done
<1>6. \A v \in 1..12 : MigDigest(r.build, v) \in 1..2 BY DEF MigDigest
<1>7. /\ migLedger' \in [1..12 -> 0..2]
      /\ \A v \in 1..12 : migLedger'[v] # 0 <=> v <= r.target
      /\ \A v \in 1..12 : migLedger[v] # 0 => migLedger'[v] = migLedger[v]
  <2>1. migLedger \in [1..12 -> 0..2] BY DEF MigInv
  <2>2. \A v \in 1..12 : migLedger[v] # 0 <=> v <= n BY <1>3 DEF MigSchema
  <2>3. \A v \in 1..12 : migLedger'[v] = IF v \in done THEN MigDigest(r.build, v) ELSE migLedger[v]
    BY <1>1
  <2>4. migLedger' \in [1..12 -> 0..2] BY <1>1, <1>6, <2>1
  <2>5. ASSUME NEW v \in 1..12 PROVE migLedger'[v] # 0 <=> v <= r.target
    <3>1. CASE v \in done
      <4>1. migLedger'[v] \in 1..2 BY <1>6, <2>3, <3>1
      <4> QED BY <1>5, <3>1, <4>1
    <3>2. CASE v \notin done
      <4>1. migLedger'[v] = migLedger[v] BY <2>3, <3>2
      <4>2. ~(n < v /\ v <= r.target) BY <1>5, <3>2
      <4>3. v <= n <=> v <= r.target BY <1>2, <1>4, <4>2
      <4> QED BY <2>2, <4>1, <4>3
    <3> QED BY <3>1, <3>2
  <2> QED BY <1>5, <2>2, <2>3, <2>4, <2>5
<1>8. dropped = (IF 6 \in done THEN MigSkeletons ELSE {})
  BY <1>2, MigCreatesForms DEF done
<1>9. \A t : t \in created(12) <=> \E v \in done : t \in MigCreates(v)
  BY <1>2 DEF done
<1>10. migTables' = UNION {MigCreates(v) : v \in 1..r.target}
  <2>1. migTables = UNION {MigCreates(v) : v \in 1..n} BY <1>3 DEF MigSchema
  <2>2. \A v : v \in 1..r.target <=> v \in 1..n \/ v \in done
    <3>1. r.target \in 0..12 /\ n \in 0..12 /\ n <= r.target /\ done \subseteq 1..12
      BY <1>2, <1>4 DEF done
    <3> HIDE DEF r
    <3> TAKE v
    <3>2. CASE v \in 1..12 BY <1>5, <3>1, <3>2
    <3>3. CASE v \notin 1..12
      <4>1. 1..r.target \subseteq 1..12 /\ 1..n \subseteq 1..12 BY <3>1
      <4> QED BY <3>1, <3>3, <4>1, Zenon
    <3> QED BY <3>2, <3>3
  <2>3. 6 \in done => MigSkeletons \subseteq created(12) BY <1>9, MigCreatesForms
  <2>4. migTables' = migTables \cup created(12)
    <3> HIDE DEF dropped, created
    <3>1. dropped \subseteq created(12) BY <1>8, <2>3
    <3> QED BY <1>1, <3>1
  <2>5. \A t : t \in migTables' <=> \E v \in 1..r.target : t \in MigCreates(v)
    <3> HIDE DEF dropped, created
    <3>1. \A t : t \in migTables <=> \E v \in 1..n : t \in MigCreates(v) BY <2>1
    <3>2. \A t : t \in migTables' <=> t \in migTables \/ t \in created(12) BY <2>4
    <3> QED BY <1>9, <2>2, <3>1, <3>2, Zenon
  <2> QED BY <2>5
<1>11. MigTenantsIsolated'
  <2> SUFFICES ASSUME migLedger'[11] # 0
               PROVE  MigTenantTables(migTables') \subseteq migIsolated'
    BY DEF MigTenantsIsolated
  <2>0. 11 <= r.target BY <1>7
  <2>1. CASE 11 \in done
    <3>1. MigTenantTables(migTables \cup created(11)) \subseteq migIsolated'
      <4>1. MigIsolates(11, migTables \cup created(11)) \subseteq migIsolated' BY <1>1, <2>1
      <4> QED BY <4>1, MigCreatesForms
    <3>2. migTables' \subseteq migTables \cup created(11)
      <4>1. ASSUME NEW t, t \in created(12) PROVE t \in created(11)
        <5>1. PICK v \in done : t \in MigCreates(v) BY <4>1, <1>9
        <5>2. v \in 1..12 /\ v # 12 BY <1>2, <5>1, MigCreatesForms DEF done
        <5>3. v <= 11 BY <5>2
        <5> QED BY <5>1, <5>3
      <4> HIDE DEF created, dropped
      <4> QED BY <1>1, <4>1
    <3> HIDE DEF created, dropped
    <3> QED BY <3>1, <3>2 DEF MigTenantTables
  <2>2. CASE 11 \notin done
    <3>1. 11 <= n BY <1>5, <2>0, <2>2
    <3>2. \A v \in done : v = 12 BY <1>2, <1>5, <3>1 DEF done
    <3>3. \A t : t \notin created(12) BY <1>9, <3>2, MigCreatesForms
    <3> HIDE DEF created, dropped
    <3>4. migTables' \subseteq migTables BY <1>1, <3>3
    <3>5. migLedger[11] # 0 BY <1>3, <3>1 DEF MigSchema
    <3>6. MigTenantTables(migTables) \subseteq migIsolated BY <3>5 DEF MigInv, MigTenantsIsolated
    <3> QED BY <1>1, <3>4, <3>6 DEF MigTenantTables
  <2> QED BY <2>1, <2>2
<1>12. MigRowsKept'
  <2>1. (migRows \ migUnseen) \cap dropped = {}
    <3>1. CASE 6 \in done
      <4>1. (migRows \ migUnseen) \cap MigSkeletons = {}
        BY <1>0, <1>1, <3>1 DEF MigCallOK, done
      <4> HIDE DEF dropped
      <4> QED BY <1>8, <3>1, <4>1
    <3>2. CASE 6 \notin done
      <4> HIDE DEF dropped
      <4> QED BY <1>8, <3>2
    <3> QED BY <3>1, <3>2
  <2>2. migLost = {} BY DEF MigInv, MigRowsKept
  <2> HIDE DEF dropped
  <2> QED BY <1>1, <2>1, <2>2 DEF MigRowsKept
<1>13. migProc' \in [MigProcesses -> MigProcs] /\ migProc'[p] = MigIdle
       /\ \A q \in MigProcesses : q # p => migProc'[q] = migProc[q]
  <2>1. MigIdle \in MigProcs BY DEF MigIdle, MigProcs
  <2>2. migProc' = [migProc EXCEPT ![p] = MigIdle] BY <1>1 DEF MigEnds
  <2> QED BY <2>1, <2>2 DEF MigInv
<1>14. ASSUME NEW q \in MigProcesses
       PROVE  MigCallOK(migLedger', migRows', migUnseen', migLock', q, migProc'[q])
  <2>1. CASE q = p BY <1>13, <2>1 DEF MigCallOK, MigIdle
  <2>2. CASE q # p
    <3>1. MigCallOK(migLedger, migRows, migUnseen, migLock, q, migProc[q]) BY DEF MigInv
    <3>2. migLock = p BY <1>0, <1>1 DEF MigCallOK
    <3>3. migProc[q].pc \notin {"apply", "statements"} BY <2>2, <3>1, <3>2 DEF MigCallOK
    <3> QED BY <1>13, <2>2, <3>1, <3>3 DEF MigCallOK
  <2> QED BY <2>1, <2>2
<1>15. MigSchema(migLedger', migTables', r.target) BY <1>7, <1>10 DEF MigSchema
<1> QED BY <1>2, <1>7, <1>11, <1>12, <1>13, <1>14, <1>15 DEF MigInv, MigLedgerGrows

\* Every other step of a call, and an application's write.
LEMMA MigNextKeeps ==
  ASSUME MigInv, [MigNext]_migVars
  PROVE  MigInv' /\ MigLedgerGrows
<1>a. UNCHANGED migDatabase => MigLedgerGrows BY DEF migDatabase, MigLedgerGrows
<1>1. CASE UNCHANGED migVars
  BY <1>1 DEF migVars, migDatabase, MigInv, MigLedgerGrows, MigTenantsIsolated, MigRowsKept
<1>2. ASSUME NEW p \in MigProcesses, NEW build \in MigBuilds, NEW target \in MigTargets,
             MigStart(p, build, target)
      PROVE  MigInv' /\ MigLedgerGrows
  <2>1. PICK r : r = [MigIdle EXCEPT !.pc = "bootstrap", !.build = build, !.target = target] OBVIOUS
  <2>2. r \in MigProcs /\ r.pc = "bootstrap" /\ r.done = {}
    <3>1. target \in 0..12 BY MigAssumption
    <3>2. r = [pc |-> "bootstrap", build |-> build, target |-> target, next |-> 0, done |-> {}]
      BY <2>1 DEF MigIdle
    <3>3. 0 \in 0..13 /\ {} \in SUBSET (1..12) OBVIOUS
    <3> QED BY <3>1, <3>2, <3>3 DEF MigProcs
  <2>3. migProc' = [migProc EXCEPT ![p] = r] /\ UNCHANGED migDatabase /\ migLock' = migLock
        /\ migUnseen' = migUnseen
    BY <1>2, <2>1 DEF MigStart
  <2>4. MigCallOK(migLedger, migRows, migUnseen', migLock', p, r) BY <2>2 DEF MigCallOK
  <2> QED BY <1>a, <2>2, <2>3, <2>4, MigMoves
<1>3. ASSUME NEW p \in MigProcesses,
             MigBootstrap(p) \/ MigTakeLock(p) \/ MigPreflight(p) \/ MigStatements(p) \/ MigCrash(p)
      PROVE  MigInv' /\ MigLedgerGrows
  <2>0. UNCHANGED migDatabase
    BY <1>3 DEF MigBootstrap, MigTakeLock, MigPreflight, MigStatements, MigCrash, MigRecorded,
                migDatabase
  <2>1. CASE MigEnds(p) BY <1>a, <2>0, <2>1, MigEndsKeeps
  <2>2. ASSUME ~MigEnds(p) PROVE MigInv'
    <3>0. /\ migProc[p] \in MigProcs /\ migProc \in [MigProcesses -> MigProcs]
          /\ MigCallOK(migLedger, migRows, migUnseen, migLock, p, migProc[p])
          /\ migLedger \in [1..12 -> 0..2]
      BY DEF MigInv
    <3>1. CASE MigBootstrap(p)
      <4>1. /\ migProc[p].pc = "bootstrap" /\ migLock' = migLock
            /\ migProc' = [migProc EXCEPT ![p].pc = "lock"] /\ migUnseen' = migUnseen
        BY <2>2, <3>1 DEF MigBootstrap, MigAt
      <4>2. PICK r : r = [migProc[p] EXCEPT !.pc = "lock"] OBVIOUS
      <4>3. r \in MigProcs /\ r.pc = "lock" /\ r.done = migProc[p].done BY <3>0, <4>2 DEF MigProcs
      <4>4. migProc' = [migProc EXCEPT ![p] = r] BY <3>0, <4>1, <4>2
      <4>5. MigCallOK(migLedger, migRows, migUnseen', migLock', p, r)
        BY <3>0, <4>1, <4>3 DEF MigCallOK
      <4> QED BY <2>0, <4>1, <4>3, <4>4, <4>5, MigMoves
    <3>2. CASE MigTakeLock(p)
      <4>1. /\ migProc[p].pc = "lock" /\ migLock = "none" /\ migLock' = p
            /\ \A v \in 1..12 : migLedger[v] # 0 => v <= migProc[p].target
            /\ migProc' = [migProc EXCEPT ![p].pc = "apply", ![p].next = 1] /\ migUnseen' = migUnseen
        BY <2>2, <3>2 DEF MigTakeLock, MigAt, MigAvailable
      <4>2. PICK r : r = [migProc[p] EXCEPT !.pc = "apply", !.next = 1] OBVIOUS
      <4>3. /\ r \in MigProcs /\ r.pc = "apply" /\ r.next = 1 /\ r.done = migProc[p].done
            /\ r.target = migProc[p].target /\ r.target \in 0..12
        <5>1. 1 \in 0..13 OBVIOUS
        <5>2. r \in MigProcs BY <3>0, <4>2, <5>1 DEF MigProcs
        <5>3. r.pc = "apply" /\ r.next = 1 /\ r.done = migProc[p].done /\ r.target = migProc[p].target
          BY <3>0, <4>2 DEF MigProcs
        <5>4. r.target \in 0..12 BY <5>2 DEF MigProcs
        <5> QED BY <5>2, <5>3, <5>4
      <4>4. migProc' = [migProc EXCEPT ![p] = r] BY <3>0, <4>1, <4>2
      <4>5. r.done = {} BY <3>0, <4>1, <4>3 DEF MigCallOK
      <4>6. MigCallOK(migLedger, migRows, migUnseen', migLock', p, r)
        BY <4>1, <4>3, <4>5 DEF MigCallOK
      <4> QED BY <2>0, <4>1, <4>3, <4>4, <4>6, MigMoves
    <3>3. CASE MigPreflight(p)
      <4> DEFINE v == migProc[p].next
      <4>1. /\ migProc[p].pc = "apply" /\ v <= migProc[p].target /\ migLock' = migLock
            /\ migUnseen' = migUnseen
            /\ \/ migLedger[v] # 0 /\ migProc' = [migProc EXCEPT ![p].next = v + 1]
               \/ /\ migLedger[v] = 0 /\ ~MigRefuses(v, migRows)
                  /\ migProc' = [migProc EXCEPT ![p].pc = "statements"]
        BY <2>2, <3>3 DEF MigPreflight, MigAt
      <4>2. /\ v \in 1..12 /\ migProc[p].target \in 0..12 /\ v + 1 \in 1..migProc[p].target + 1
            /\ v + 1 \in 0..13
        BY <3>0, <4>1 DEF MigProcs, MigCallOK
      <4>3. CASE migLedger[v] # 0
        <5>1. PICK r : r = [migProc[p] EXCEPT !.next = v + 1] OBVIOUS
        <5>2. /\ r \in MigProcs /\ r.pc = "apply" /\ r.next = v + 1 /\ r.done = migProc[p].done
              /\ r.target = migProc[p].target
          BY <3>0, <4>1, <4>2, <5>1 DEF MigProcs
        <5>3. migProc' = [migProc EXCEPT ![p] = r] BY <3>0, <4>1, <4>3, <5>1
        <5>4. \A w \in 1..12 : w \in r.done <=> w < r.next /\ migLedger[w] = 0
          <6> TAKE w \in 1..12
          <6>1. w \in migProc[p].done <=> w < v /\ migLedger[w] = 0 BY <3>0, <4>1 DEF MigCallOK
          <6>2. w < v + 1 <=> w < v \/ w = v BY <4>2
          <6> QED BY <4>3, <5>2, <6>1, <6>2
        <5>5. MigCallOK(migLedger, migRows, migUnseen', migLock', p, r)
          BY <3>0, <4>1, <4>2, <5>2, <5>4 DEF MigCallOK
        <5> QED BY <2>0, <4>1, <5>2, <5>3, <5>5, MigMoves
      <4>4. CASE migLedger[v] = 0
        <5>1. PICK r : r = [migProc[p] EXCEPT !.pc = "statements"] OBVIOUS
        <5>2. /\ r \in MigProcs /\ r.pc = "statements" /\ r.next = v /\ r.done = migProc[p].done
              /\ r.target = migProc[p].target
          BY <3>0, <5>1 DEF MigProcs
        <5>3. migProc' = [migProc EXCEPT ![p] = r] BY <3>0, <4>1, <4>4, <5>1
        <5>4. v = 6 => (migRows \ migUnseen) \cap MigSkeletons = {}
          <6>1. v = 6 => migRows \cap MigSkeletons = {} BY <4>1, <4>4 DEF MigRefuses
          <6> QED BY <6>1
        <5>5. MigCallOK(migLedger, migRows, migUnseen', migLock', p, r)
          BY <3>0, <4>1, <4>4, <5>2, <5>4 DEF MigCallOK
        <5> QED BY <2>0, <4>1, <5>2, <5>3, <5>5, MigMoves
      <4> QED BY <4>3, <4>4
    <3>4. CASE MigStatements(p)
      <4> DEFINE v == migProc[p].next
      <4>1. /\ migProc[p].pc = "statements" /\ migLock' = migLock
            /\ migUnseen' = migUnseen
            /\ migProc' = [migProc EXCEPT ![p].pc = "apply", ![p].next = @ + 1,
                                          ![p].done = @ \cup {v}]
        BY <2>2, <3>4 DEF MigStatements, MigAt, MigRecorded
      <4>2. /\ v \in 1..12 /\ v <= migProc[p].target /\ migProc[p].target \in 0..12
            /\ v + 1 \in 1..migProc[p].target + 1 /\ v + 1 \in 0..13 /\ migLedger[v] = 0
        BY <3>0, <4>1 DEF MigProcs, MigCallOK
      <4>3. PICK r : r = [migProc[p] EXCEPT !.pc = "apply", !.next = v + 1,
                                            !.done = migProc[p].done \cup {v}]
        OBVIOUS
      <4>4. /\ r \in MigProcs /\ r.pc = "apply" /\ r.next = v + 1
            /\ r.done = migProc[p].done \cup {v} /\ r.target = migProc[p].target
        BY <3>0, <4>2, <4>3 DEF MigProcs
      <4>5. migProc' = [migProc EXCEPT ![p] = r] BY <3>0, <4>1, <4>3
      <4>6. \A w \in 1..12 : w \in r.done <=> w < r.next /\ migLedger[w] = 0
        <5> TAKE w \in 1..12
        <5>1. w \in migProc[p].done <=> w < v /\ migLedger[w] = 0 BY <3>0, <4>1 DEF MigCallOK
        <5>2. w < v + 1 <=> w < v \/ w = v BY <4>2
        <5> QED BY <4>2, <4>4, <5>1, <5>2
      <4>7. 6 \in r.done => (migRows \ migUnseen) \cap MigSkeletons = {}
        BY <3>0, <4>1, <4>4 DEF MigCallOK
      <4>8. MigCallOK(migLedger, migRows, migUnseen', migLock', p, r)
        BY <3>0, <4>1, <4>2, <4>4, <4>6, <4>7 DEF MigCallOK
      <4> QED BY <2>0, <4>1, <4>4, <4>5, <4>8, MigMoves
    <3>5. CASE MigCrash(p) BY <2>2, <3>5 DEF MigCrash
    <3> QED BY <1>3, <3>1, <3>2, <3>3, <3>4, <3>5
  <2> QED BY <1>a, <2>0, <2>1, <2>2
<1>4. ASSUME NEW p \in MigProcesses, MigCommit(p) PROVE MigInv' /\ MigLedgerGrows
  BY <1>4, MigCommitKeeps
<1>5. ASSUME NEW t, MigWrite(t) PROVE MigInv' /\ MigLedgerGrows
  <2>1. /\ migRows' = migRows \cup {t}
        /\ migUnseen' = (IF MigLooked(t) THEN migUnseen \cup {t} ELSE migUnseen)
        /\ \A p \in MigProcesses, v \in 1..12 : v \in migProc[p].done => t \notin MigDrops(v)
        /\ migLedger' = migLedger /\ migTables' = migTables /\ migIsolated' = migIsolated
        /\ migLost' = migLost /\ migLock' = migLock /\ migProc' = migProc
    BY <1>5 DEF MigWrite
  <2>2. ASSUME NEW p \in MigProcesses
        PROVE  MigCallOK(migLedger', migRows', migUnseen', migLock', p, migProc'[p])
    <3>1. MigCallOK(migLedger, migRows, migUnseen, migLock, p, migProc[p]) BY DEF MigInv
    <3>2. ASSUME 6 \in migProc[p].done \/ (migProc[p].pc = "statements" /\ migProc[p].next = 6),
                 (migRows \ migUnseen) \cap MigSkeletons = {}
          PROVE  (migRows' \ migUnseen') \cap MigSkeletons = {}
      <4>1. CASE t \notin MigSkeletons BY <2>1, <3>2, <4>1
      <4>2. CASE t \in MigSkeletons
        <5>1. 6 \notin migProc[p].done BY <2>1, <4>2, MigCreatesForms
        <5>2. MigLooked(t) BY <3>2, <4>2, <5>1, MigCreatesForms DEF MigLooked, MigAt
        <5> QED BY <2>1, <3>2, <5>2
      <4> QED BY <4>1, <4>2
    <3> QED BY <2>1, <3>1, <3>2 DEF MigCallOK
  <2> QED BY <2>1, <2>2 DEF MigInv, MigTenantsIsolated, MigRowsKept, MigLedgerGrows
<1> QED BY <1>1, <1>2, <1>3, <1>4, <1>5 DEF MigNext

\* The versions in the ledger are the first ones.
LEMMA MigInvRecorded == MigInv => MigSchemaRecorded
<1> SUFFICES ASSUME MigInv PROVE MigSchemaRecorded OBVIOUS
<1>1. PICK n \in 0..12 : MigSchema(migLedger, migTables, n) BY DEF MigInv
<1>2. {v \in 1..12 : migLedger[v] # 0} = 1..n BY <1>1 DEF MigSchema
<1>3. Cardinality(1..n) = n
  <2>1. 1 <= n \/ n = 0 OBVIOUS
  <2>2. CASE 1 <= n BY <2>2, FS_Interval
  <2>3. CASE n = 0
    <3>1. 1..n = {} BY <2>3
    <3> QED BY <2>3, <3>1, FS_EmptySet
  <2> QED BY <2>1, <2>2, <2>3
<1> QED BY <1>1, <1>2, <1>3, Zenon DEF MigSchemaRecorded, MigSchema

\* For any processes, builds and targets, however they fail, die and race applications'
\* writes: the tables are those of the ledger's versions, which follow one another and stay
\* as they were applied, tenant tables are isolated from 011 on, and no row that was there
\* when migration 006 looked at the tables it replaces is dropped; a row that comes after the
\* look is (PostgresMigrationManager.migrate).
THEOREM MigrationsAreSafe == MigSpec => MigrationsSafe
<1>1. MigInit => MigInv
  <2> SUFFICES ASSUME MigInit PROVE MigInv OBVIOUS
  <2>1. MigSchema(migLedger, migTables, 0)
    <3>1. 1..0 = {} OBVIOUS
    <3>2. UNION {MigCreates(v) : v \in 1..0} = {} BY <3>1
    <3> QED BY <3>2 DEF MigSchema, MigInit
  <2>2. MigIdle \in MigProcs BY DEF MigIdle, MigProcs
  <2>3. MigIdle.pc = "idle" /\ MigIdle.done = {} BY DEF MigIdle
  <2>4. /\ migProc \in [MigProcesses -> MigProcs]
        /\ \A p \in MigProcesses : MigCallOK(migLedger, migRows, migUnseen, migLock, p, migProc[p])
    BY <2>2, <2>3 DEF MigInit, MigCallOK
  <2>5. migLedger \in [1..12 -> 0..2] /\ migLedger[11] = 0 BY DEF MigInit
  <2>6. MigTenantsIsolated /\ MigRowsKept BY <2>5 DEF MigInit, MigTenantsIsolated, MigRowsKept
  <2> QED BY <2>1, <2>4, <2>5, <2>6 DEF MigInv
<1>2. MigInv /\ [MigNext]_migVars => MigInv' BY MigNextKeeps
<1>3. MigInv' => (MigSchemaRecorded /\ MigRowsKept /\ MigTenantsIsolated)'
  <2>1. MigInv => MigSchemaRecorded /\ MigRowsKept /\ MigTenantsIsolated
    BY MigInvRecorded DEF MigInv
  <2> QED BY <2>1, PTL
<1>4. MigInv /\ [MigNext]_migVars =>
        [MigLedgerGrows /\ (MigSchemaRecorded /\ MigRowsKept /\ MigTenantsIsolated)']_migVars
  BY <1>2, <1>3, MigNextKeeps
<1> QED BY <1>1, <1>2, <1>4, PTL DEF MigSpec, MigrationsSafe

-----------------------------------------------------------------------------
(* The strict JSON parser: the judgments of the grammar *)

\* A set of naturals that holds 0 and the successors of its members is Nat.
LEMMA CanNatInd ==
  ASSUME NEW T \in SUBSET Nat, 0 \in T, \A n \in T : n + 1 \in T
  PROVE  T = Nat
  <1> DEFINE Below == {p \in Nat \X Nat : p[1] < p[2]}
  <1>1. IsWellFoundedOn(Below, Nat)
    BY NatLessThanWellFounded DEF OpToRel
  <1> SUFFICES ASSUME Nat \ T # {} PROVE FALSE
    OBVIOUS
  <1>2. \E n \in Nat \ T : \A m \in Nat \ T : ~(<<m, n>> \in Below)
    <2> HIDE DEF Below
    <2> QED
      BY <1>1, WFMin
  <1>3. PICK n \in Nat \ T : \A m \in Nat \ T : ~(m < n)
    BY <1>2
  <1>4. n - 1 \in T
    BY <1>3
  <1> QED
    BY <1>3, <1>4

\* g holds the judgments of heights 0, 1, ..., n.
CanIsDerived(g, n) == g = [i \in 0..n |-> IF i = 0 THEN {} ELSE g[i - 1] \cup CanJudge(g[i - 1])]

(* CanJudgments is the last value of that function. *)
LEMMA CanDerivedChosen ==
  ASSUME NEW n
  PROVE  CanJudgments(n) = (CHOOSE g : CanIsDerived(g, n))[n]
  BY DEF CanJudgments, CanIsDerived

(* Such a function exists for every height. *)
LEMMA CanDerivedExists ==
  ASSUME NEW n \in Nat
  PROVE  \E g : CanIsDerived(g, n)
  <1> DEFINE T == {m \in Nat : \E g : CanIsDerived(g, m)}
  <1>1. 0 \in T
    <2> DEFINE g == [i \in 0..0 |-> {}]
    <2>1. CanIsDerived(g, 0)
      BY DEF CanIsDerived
    <2> QED
      BY <2>1
  <1>2. ASSUME NEW m \in T PROVE m + 1 \in T
    <2>1. PICK g : CanIsDerived(g, m)
      OBVIOUS
    <2> DEFINE last == g[m] \cup CanJudge(g[m])
    <2> DEFINE h == [i \in 0..(m + 1) |-> IF i <= m THEN g[i] ELSE last]
    <2>2. m \in Nat
      OBVIOUS
    <2>3. \A i \in 0..m : g[i] = IF i = 0 THEN {} ELSE g[i - 1] \cup CanJudge(g[i - 1])
      BY <2>1 DEF CanIsDerived
    <2>4. ASSUME NEW i \in 0..(m + 1)
          PROVE  h[i] = IF i = 0 THEN {} ELSE h[i - 1] \cup CanJudge(h[i - 1])
      <3>1. CASE i <= m
        <4>1. i \in 0..m /\ h[i] = g[i] /\ (i # 0 => h[i - 1] = g[i - 1])
          BY <2>2, <3>1
        <4> HIDE DEF h
        <4> QED
          BY <2>3, <4>1
      <3>2. CASE i = m + 1
        <4>1. i # 0 /\ h[i] = last /\ h[i - 1] = g[m]
          BY <2>2, <3>2
        <4> HIDE DEF h
        <4> QED
          BY <4>1
      <3> QED
        BY <2>2, <3>1, <3>2
    <2>5. CanIsDerived(h, m + 1)
      BY <2>4 DEF CanIsDerived
    <2> HIDE DEF h
    <2> QED
      BY <2>2, <2>5
  <1> HIDE DEF T
  <1>3. T \in SUBSET Nat
    BY DEF T
  <1>4. T = Nat
    BY <1>1, <1>2, <1>3, CanNatInd
  <1> QED
    BY <1>4 DEF T

(* Two of them agree where both are defined. *)
LEMMA CanDerivedAgree ==
  ASSUME NEW n \in Nat, NEW g, NEW h, CanIsDerived(g, n), CanIsDerived(h, n + 1)
  PROVE  \A i \in 0..n : g[i] = h[i]
  <1> DEFINE T == {m \in Nat : m <= n => g[m] = h[m]}
  <1>1. \A i \in 0..n : g[i] = IF i = 0 THEN {} ELSE g[i - 1] \cup CanJudge(g[i - 1])
    BY DEF CanIsDerived
  <1>2. \A i \in 0..(n + 1) : h[i] = IF i = 0 THEN {} ELSE h[i - 1] \cup CanJudge(h[i - 1])
    BY DEF CanIsDerived
  <1>3. 0 \in T
    <2>1. 0 \in 0..n /\ 0 \in 0..(n + 1)
      OBVIOUS
    <2>2. g[0] = {} /\ h[0] = {}
      BY <2>1, <1>1, <1>2
    <2> QED
      BY <2>2
  <1>4. ASSUME NEW m \in T PROVE m + 1 \in T
    <2>1. CASE m + 1 <= n
      <3>1. g[m + 1] = g[m] \cup CanJudge(g[m]) /\ h[m + 1] = h[m] \cup CanJudge(h[m])
        <4>1. m + 1 \in 0..n /\ m + 1 # 0 /\ m + 1 \in 0..(n + 1) /\ (m + 1) - 1 = m
          BY <2>1
        <4>2. g[m + 1] = g[m] \cup CanJudge(g[m])
          BY <4>1, <1>1
        <4>3. h[m + 1] = h[m] \cup CanJudge(h[m])
          BY <4>1, <1>2
        <4> QED
          BY <4>2, <4>3
      <3>2. g[m] = h[m] /\ m + 1 \in Nat
        BY <2>1
      <3>3. g[m + 1] = h[m + 1]
        BY <3>1, <3>2
      <3> QED
        BY <3>2, <3>3
    <2> QED
      BY <2>1
  <1> HIDE DEF T
  <1>5. T \in SUBSET Nat
    BY DEF T
  <1>6. T = Nat
    BY <1>3, <1>4, <1>5, CanNatInd
  <1> QED
    BY <1>6 DEF T

(* The recursion of CanJudgments: nothing has height 0, and one rule is one  *)
(* level.                                                                    *)
LEMMA CanJudgmentsStep ==
  ASSUME NEW n \in Nat
  PROVE  CanJudgments(0) = {} /\ CanJudgments(n + 1) = CanJudgments(n) \cup CanJudge(CanJudgments(n))
  <1> DEFINE g == CHOOSE f : CanIsDerived(f, n)
             h == CHOOSE f : CanIsDerived(f, n + 1)
             z == CHOOSE f : CanIsDerived(f, 0)
  <1>1. CanIsDerived(g, n) /\ CanIsDerived(h, n + 1) /\ CanIsDerived(z, 0)
    BY CanDerivedExists, n + 1 \in Nat
  <1>2. CanJudgments(n) = g[n] /\ CanJudgments(n + 1) = h[n + 1] /\ CanJudgments(0) = z[0]
    BY CanDerivedChosen
  <1> HIDE DEF g, h, z
  <1>3. z[0] = {}
    BY <1>1 DEF CanIsDerived
  <1>4. h[n + 1] = h[n] \cup CanJudge(h[n])
    <2>1. \A i \in 0..(n + 1) : h[i] = IF i = 0 THEN {} ELSE h[i - 1] \cup CanJudge(h[i - 1])
      BY <1>1 DEF CanIsDerived
    <2>2. n + 1 \in 0..(n + 1) /\ n + 1 # 0 /\ (n + 1) - 1 = n
      OBVIOUS
    <2> QED
      BY <2>1, <2>2
  <1>5. g[n] = h[n]
    BY <1>1, CanDerivedAgree
  <1> QED
    BY <1>2, <1>3, <1>4, <1>5

(* A judgment keeps its derivation in every greater height. *)
LEMMA CanJudgmentsGrow ==
  ASSUME NEW n \in Nat, NEW m \in Nat
  PROVE  CanJudgments(n) \subseteq CanJudgments(n + m)
  <1> DEFINE T == {k \in Nat : CanJudgments(n) \subseteq CanJudgments(n + k)}
  <1>1. 0 \in T
    BY n + 0 = n
  <1>2. ASSUME NEW k \in T PROVE k + 1 \in T
    <2>1. k \in Nat /\ n + k \in Nat /\ n + (k + 1) = (n + k) + 1 /\ k + 1 \in Nat
      OBVIOUS
    <2>2. CanJudgments((n + k) + 1) = CanJudgments(n + k) \cup CanJudge(CanJudgments(n + k))
      BY <2>1, CanJudgmentsStep
    <2>3. CanJudgments(n) \subseteq CanJudgments(n + (k + 1))
      BY <2>1, <2>2
    <2> QED
      BY <2>1, <2>3
  <1> HIDE DEF T
  <1>3. T \in SUBSET Nat
    BY DEF T
  <1>4. T = Nat
    BY <1>1, <1>2, <1>3, CanNatInd
  <1> QED
    BY <1>4 DEF T

(* Two derivations fit under one height. *)
LEMMA CanHeights ==
  ASSUME NEW i, NEW j, NEW a \in Nat, NEW b \in Nat, i \in CanJudgments(a), j \in CanJudgments(b)
  PROVE  \E n \in Nat : i \in CanJudgments(n) /\ j \in CanJudgments(n)
  <1>1. CanJudgments(a) \subseteq CanJudgments(a + b) /\ CanJudgments(b) \subseteq CanJudgments(b + a)
    BY CanJudgmentsGrow
  <1>2. a + b = b + a /\ a + b \in Nat
    OBVIOUS
  <1> QED
    BY <1>1, <1>2

(* A rule of the grammar applied to judgments that are derived gives one that is. *)
LEMMA CanRuleDerives ==
  ASSUME NEW n \in Nat, NEW is, NEW of, NEW text,
         CanJudgment(is, of, text) \in CanJudge(CanJudgments(n))
  PROVE  CanDerives(is, of, text)
  <1>1. CanJudgment(is, of, text) \in CanJudgments(n + 1) /\ n + 1 \in Nat
    BY CanJudgmentsStep
  <1> QED
    BY <1>1 DEF CanDerives

(* The fields of a judgment. *)
LEMMA CanJudgmentFields ==
  ASSUME NEW is, NEW of, NEW text
  PROVE  /\ CanJudgment(is, of, text).is = is
         /\ CanJudgment(is, of, text).of = of
         /\ CanJudgment(is, of, text).text = text
  BY DEF CanJudgment

(* A judgment is found among those of its kind. *)
LEMMA CanOfHas ==
  ASSUME NEW J, NEW is, NEW of, NEW text, CanJudgment(is, of, text) \in J
  PROVE  CanJudgment(is, of, text) \in CanOf(J, is)
  BY CanJudgmentFields DEF CanOf

\* Texts put together: opaque names for concatenation and for a token by itself.
CanSource == Seq(CanTokens)
CanCat(a, b) == a \o b
CanOne(token) == <<token>>

(* A text put after a text is a text. *)
LEMMA CanCatType ==
  ASSUME NEW a \in CanSource, NEW b \in CanSource
  PROVE  CanCat(a, b) \in CanSource
  BY ConcatProperties DEF CanSource, CanCat

(* A token is a text. *)
LEMMA CanOneType ==
  ASSUME NEW t \in CanTokens
  PROVE  CanOne(t) \in CanSource
  BY DEF CanSource, CanOne

(* Texts are put together in any order. *)
LEMMA CanCatAssoc ==
  ASSUME NEW a \in CanSource, NEW b \in CanSource, NEW c \in CanSource
  PROVE  CanCat(CanCat(a, b), c) = CanCat(a, CanCat(b, c))
  BY ConcatAssociative DEF CanSource, CanCat

(* The empty text adds nothing. *)
LEMMA CanCatNil ==
  ASSUME NEW a \in CanSource
  PROVE  CanCat(a, <<>>) = a /\ CanCat(<<>>, a) = a
  BY ConcatEmptySeq DEF CanSource, CanCat

(* The first token of a text. *)
LEMMA CanFirst ==
  ASSUME NEW t \in CanTokens, NEW a \in CanSource
  PROVE  Len(CanCat(CanOne(t), a)) > 0 /\ CanCat(CanOne(t), a)[1] = t
  <1>1. <<t>> \in Seq(CanTokens) /\ Len(<<t>>) = 1 /\ <<t>>[1] = t
    OBVIOUS
  <1>2. Len(a) \in Nat
    BY LenProperties DEF CanSource
  <1> QED
    BY <1>1, <1>2, ConcatProperties DEF CanSource, CanCat, CanOne

(* A text is its first token and the rest. *)
LEMMA CanCutFirst ==
  ASSUME NEW t \in CanTokens, NEW u \in CanTokens, NEW a \in CanSource, NEW b \in CanSource,
         CanCat(CanOne(t), a) = CanCat(CanOne(u), b)
  PROVE  t = u /\ a = b
  <1>1. t = u
    BY CanFirst
  <1>2. <<t>> \in Seq(CanTokens)
    OBVIOUS
  <1> QED
    BY <1>1, <1>2, ConcatSimplifications DEF CanSource, CanCat, CanOne

(* A token followed by a text is not the empty text. *)
LEMMA CanCatNotNil ==
  ASSUME NEW t \in CanTokens, NEW a \in CanSource
  PROVE  CanCat(CanOne(t), a) # <<>>
  BY CanFirst

(* The tokens of the grammar are tokens. *)
LEMMA CanTokensAre ==
  /\ "[" \in CanTokens /\ "]" \in CanTokens /\ "{" \in CanTokens
  /\ "}" \in CanTokens /\ "," \in CanTokens /\ ":" \in CanTokens
  /\ \A t \in CanScalars \cup CanKeys : t \in CanTokens
  BY DEF CanTokens, CanMarks

(* No mark of the grammar starts a scalar or is a key. *)
LEMMA CanMarksApart ==
  ASSUME NEW t \in CanScalars \cup CanKeys
  PROVE  t # "[" /\ t # "]" /\ t # "{" /\ t # "}" /\ t # "," /\ t # ":"
  BY CanTokenAssumption DEF CanMarks

(* Two tokens side by side. *)
LEMMA CanTwo ==
  ASSUME NEW t \in CanTokens, NEW u \in CanTokens
  PROVE  <<t, u>> = CanCat(CanOne(t), CanOne(u)) /\ <<t, u>> \in CanSource
  <1>1. <<t>> \in Seq(CanTokens) /\ <<u>> \in Seq(CanTokens) /\ <<t, u>> \in Seq(CanTokens)
    OBVIOUS
  <1>2. Len(<<t>>) = 1 /\ Len(<<u>>) = 1 /\ Len(<<t, u>>) = 2
    OBVIOUS
  <1>3. /\ <<t>> \o <<u>> \in Seq(CanTokens) /\ Len(<<t>> \o <<u>>) = 2
        /\ (<<t>> \o <<u>>)[1] = t /\ (<<t>> \o <<u>>)[2] = u
    BY <1>1, <1>2, ConcatProperties
  <1>4. \A i \in 1..2 : <<t, u>>[i] = (<<t>> \o <<u>>)[i]
    BY <1>3
  <1> QED
    BY <1>1, <1>2, <1>3, <1>4, SeqEqual DEF CanSource, CanCat, CanOne

(* Three tokens side by side. *)
LEMMA CanThree ==
  ASSUME NEW t \in CanTokens, NEW u \in CanTokens, NEW v \in CanTokens
  PROVE  /\ <<t, u, v>> = CanCat(CanOne(t), CanCat(CanOne(u), CanOne(v)))
         /\ <<t, u, v>> \in CanSource
  <1>1. <<t>> \in Seq(CanTokens) /\ <<u, v>> \in Seq(CanTokens) /\ <<t, u, v>> \in Seq(CanTokens)
    OBVIOUS
  <1>2. Len(<<t>>) = 1 /\ Len(<<u, v>>) = 2 /\ Len(<<t, u, v>>) = 3
    OBVIOUS
  <1>3. /\ <<t>> \o <<u, v>> \in Seq(CanTokens) /\ Len(<<t>> \o <<u, v>>) = 3
        /\ (<<t>> \o <<u, v>>)[1] = t /\ (<<t>> \o <<u, v>>)[2] = u /\ (<<t>> \o <<u, v>>)[3] = v
    BY <1>1, <1>2, ConcatProperties
  <1>4. \A i \in 1..3 : <<t, u, v>>[i] = (<<t>> \o <<u, v>>)[i]
    BY <1>3
  <1>5. <<t, u, v>> = <<t>> \o <<u, v>>
    BY <1>1, <1>2, <1>3, <1>4, SeqEqual
  <1> QED
    BY <1>1, <1>5, CanTwo DEF CanSource, CanCat, CanOne

\* The texts that the rules of the grammar build.
CanBrackets(e) == CanCat(CanOne("["), CanCat(e, CanOne("]")))
CanBraces(m) == CanCat(CanOne("{"), CanCat(m, CanOne("}")))
CanThen(e, s) == CanCat(e, CanCat(CanOne(","), s))
CanPair(k, s) == CanCat(CanOne(k), CanCat(CanOne(":"), s))

(* They are texts. *)
LEMMA CanBuilt ==
  ASSUME NEW e \in CanSource, NEW s \in CanSource
  PROVE  /\ CanBrackets(e) \in CanSource /\ CanBraces(e) \in CanSource
         /\ CanThen(e, s) \in CanSource /\ \A k \in CanKeys : CanPair(k, s) \in CanSource
  BY CanTokensAre, CanOneType, CanCatType DEF CanBrackets, CanBraces, CanThen, CanPair

(* The grammar's texts are these texts. *)
LEMMA CanBuiltAs ==
  ASSUME NEW e \in CanSource, NEW s \in CanSource
  PROVE  /\ <<"[">> \o e \o <<"]">> = CanBrackets(e)
         /\ <<"{">> \o e \o <<"}">> = CanBraces(e)
         /\ e \o <<",">> \o s = CanThen(e, s)
  <1>1. "[" \in CanTokens /\ "]" \in CanTokens /\ "{" \in CanTokens /\ "}" \in CanTokens
    BY CanTokensAre
  <1>2. "," \in CanTokens
    BY CanTokensAre
  <1>3. <<"[">> \o e \o <<"]">> = CanBrackets(e)
    <2>1. <<"[">> \o e \o <<"]">> = CanCat(CanCat(CanOne("["), e), CanOne("]"))
      BY DEF CanCat, CanOne
    <2>2. CanOne("[") \in CanSource /\ CanOne("]") \in CanSource
      BY <1>1, CanOneType
    <2>3. CanCat(CanCat(CanOne("["), e), CanOne("]")) = CanBrackets(e)
      BY <2>2, CanCatAssoc DEF CanBrackets
    <2> QED
      BY <2>1, <2>3
  <1>4. <<"{">> \o e \o <<"}">> = CanBraces(e)
    <2>1. <<"{">> \o e \o <<"}">> = CanCat(CanCat(CanOne("{"), e), CanOne("}"))
      BY DEF CanCat, CanOne
    <2>2. CanOne("{") \in CanSource /\ CanOne("}") \in CanSource
      BY <1>1, CanOneType
    <2>3. CanCat(CanCat(CanOne("{"), e), CanOne("}")) = CanBraces(e)
      BY <2>2, CanCatAssoc DEF CanBraces
    <2> QED
      BY <2>1, <2>3
  <1>5. e \o <<",">> \o s = CanThen(e, s)
    <2>1. e \o <<",">> \o s = CanCat(CanCat(e, CanOne(",")), s)
      BY DEF CanCat, CanOne
    <2>2. CanOne(",") \in CanSource
      BY <1>2, CanOneType
    <2>3. CanCat(CanCat(e, CanOne(",")), s) = CanCat(e, CanCat(CanOne(","), s))
      BY <2>2, CanCatAssoc
    <2> QED
      BY <2>1, <2>3 DEF CanThen
  <1> QED
    BY <1>3, <1>4, <1>5

(* So are those with a key. *)
LEMMA CanPairAs ==
  ASSUME NEW e \in CanSource, NEW s \in CanSource, NEW k \in CanKeys
  PROVE  /\ <<k, ":">> \o s = CanPair(k, s)
         /\ e \o <<",", k, ":">> \o s = CanThen(e, CanPair(k, s))
  <1>2. "," \in CanTokens /\ ":" \in CanTokens /\ k \in CanTokens
    BY CanTokensAre
  <1>6. <<k, ":">> \o s = CanPair(k, s)
    <2>1. <<k, ":">> \o s = CanCat(CanCat(CanOne(k), CanOne(":")), s)
      BY <1>2, CanTwo DEF CanCat
    <2> QED
      BY <1>2, <2>1, CanOneType, CanCatAssoc DEF CanPair
  <1>7. e \o <<",", k, ":">> \o s = CanThen(e, CanPair(k, s))
    <2>1. <<",", k, ":">> = CanCat(CanOne(","), CanCat(CanOne(k), CanOne(":")))
      BY <1>2, CanThree
    <2>2. e \o <<",", k, ":">> \o s = CanCat(CanCat(e, CanCat(CanOne(","), CanCat(CanOne(k), CanOne(":")))), s)
      BY <2>1 DEF CanCat
    <2>3. CanOne(",") \in CanSource /\ CanOne(k) \in CanSource /\ CanOne(":") \in CanSource
      BY <1>2, CanOneType
    <2>4. CanCat(CanOne(k), CanOne(":")) \in CanSource
      BY <2>3, CanCatType
    <2>5. CanCat(CanOne(","), CanCat(CanOne(k), CanOne(":"))) \in CanSource
      BY <2>3, <2>4, CanCatType
    <2>6. e \o <<",", k, ":">> \o s = CanCat(e, CanCat(CanCat(CanOne(","), CanCat(CanOne(k), CanOne(":"))), s))
      BY <2>2, <2>5, CanCatAssoc
    <2>7. CanCat(CanCat(CanOne(","), CanCat(CanOne(k), CanOne(":"))), s)
            = CanCat(CanOne(","), CanCat(CanCat(CanOne(k), CanOne(":")), s))
      <3>1. PICK a \in CanSource : a = CanOne(",")
        BY <2>3
      <3>2. PICK c \in CanSource : c = CanCat(CanOne(k), CanOne(":"))
        BY <2>4
      <3>3. CanCat(CanCat(a, c), s) = CanCat(a, CanCat(c, s))
        BY CanCatAssoc
      <3> QED
        BY <3>1, <3>2, <3>3
    <2>8. CanCat(CanCat(CanOne(k), CanOne(":")), s) = CanPair(k, s)
      BY <2>3, CanCatAssoc DEF CanPair
    <2>9. CanThen(e, CanPair(k, s)) = CanCat(e, CanCat(CanCat(CanOne(","), CanCat(CanOne(k), CanOne(":"))), s))
      <3>1. CanThen(e, CanPair(k, s)) = CanCat(e, CanCat(CanOne(","), CanPair(k, s)))
        BY DEF CanThen
      <3> QED
        BY <2>7, <2>8, <3>1
    <2> QED
      BY <2>6, <2>9, Zenon
  <1> QED
    BY <1>6, <1>7

-----------------------------------------------------------------------------
(* The strict JSON parser: the rules of the grammar, one by one *)

\* The last rule of a derivation, by what it derives.
CanValueRule(J, j) ==
  \/ \E t \in CanScalars \cup CanKeys : j = CanJudgment("value", CanScalar(t), <<t>>)
  \/ j = CanJudgment("value", CanArray(<<>>), <<"[", "]">>)
  \/ j = CanJudgment("value", CanObject(<<>>), <<"{", "}">>)
  \/ \E e \in CanOf(J, "elements") :
       j = CanJudgment("value", CanArray(e.of), <<"[">> \o e.text \o <<"]">>)
  \/ \E m \in CanOf(J, "members") :
       j = CanJudgment("value", CanObject(m.of), <<"{">> \o m.text \o <<"}">>)

CanElementsRule(J, j) ==
  \/ \E v \in CanOf(J, "value") : j = CanJudgment("elements", <<v.of>>, v.text)
  \/ \E e \in CanOf(J, "elements") : \E v \in CanOf(J, "value") :
       j = CanJudgment("elements", Append(e.of, v.of), e.text \o <<",">> \o v.text)

CanMembersRule(J, j) ==
  \/ \E k \in CanKeys : \E v \in CanOf(J, "value") :
       j = CanJudgment("members", <<CanEntry(k, v.of)>>, <<k, ":">> \o v.text)
  \/ \E m \in CanOf(J, "members") : \E k \in CanKeys : \E v \in CanOf(J, "value") :
       /\ CanFresh(m.of, k)
       /\ j = CanJudgment("members", Append(m.of, CanEntry(k, v.of)), m.text \o <<",", k, ":">> \o v.text)

CanLastRule(J, j) == CanValueRule(J, j) \/ CanElementsRule(J, j) \/ CanMembersRule(J, j)

(* A judgment follows from others exactly by one of the rules. *)
LEMMA CanJudgeCases ==
  ASSUME NEW J, NEW j
  PROVE  j \in CanJudge(J) <=> CanLastRule(J, j)
  <1> DEFINE scalars == {CanJudgment("value", CanScalar(t), <<t>>) : t \in CanScalars \cup CanKeys}
             empties == {CanJudgment("value", CanArray(<<>>), <<"[", "]">>),
                         CanJudgment("value", CanObject(<<>>), <<"{", "}">>)}
             arrays == {CanJudgment("value", CanArray(e.of), <<"[">> \o e.text \o <<"]">>) :
                          e \in CanOf(J, "elements")}
             objects == {CanJudgment("value", CanObject(m.of), <<"{">> \o m.text \o <<"}">>) :
                           m \in CanOf(J, "members")}
             firsts == {CanJudgment("elements", <<v.of>>, v.text) : v \in CanOf(J, "value")}
             nexts == {CanJudgment("elements", Append(e.of, v.of), e.text \o <<",">> \o v.text) :
                         e \in CanOf(J, "elements"), v \in CanOf(J, "value")}
             keyed == {CanJudgment("members", <<CanEntry(k, v.of)>>, <<k, ":">> \o v.text) :
                         k \in CanKeys, v \in CanOf(J, "value")}
             added(m) == {CanJudgment("members", Append(m.of, CanEntry(k, v.of)),
                                      m.text \o <<",", k, ":">> \o v.text) :
                            v \in CanOf(J, "value"), k \in {key \in CanKeys : CanFresh(m.of, key)}}
             more == UNION {added(m) : m \in CanOf(J, "members")}
  <1>1. CanJudge(J) = scalars \cup empties \cup arrays \cup objects \cup firsts \cup nexts
                        \cup keyed \cup more
    BY DEF CanJudge
  <1>2. j \in scalars <=> \E t \in CanScalars \cup CanKeys : j = CanJudgment("value", CanScalar(t), <<t>>)
    OBVIOUS
  <1>3. j \in empties <=> \/ j = CanJudgment("value", CanArray(<<>>), <<"[", "]">>)
                          \/ j = CanJudgment("value", CanObject(<<>>), <<"{", "}">>)
    OBVIOUS
  <1>4. j \in arrays <=> \E e \in CanOf(J, "elements") :
          j = CanJudgment("value", CanArray(e.of), <<"[">> \o e.text \o <<"]">>)
    OBVIOUS
  <1>5. j \in objects <=> \E m \in CanOf(J, "members") :
          j = CanJudgment("value", CanObject(m.of), <<"{">> \o m.text \o <<"}">>)
    OBVIOUS
  <1>6. j \in firsts <=> \E v \in CanOf(J, "value") : j = CanJudgment("elements", <<v.of>>, v.text)
    OBVIOUS
  <1>7. j \in nexts <=> \E e \in CanOf(J, "elements") : \E v \in CanOf(J, "value") :
          j = CanJudgment("elements", Append(e.of, v.of), e.text \o <<",">> \o v.text)
    OBVIOUS
  <1>8. j \in keyed <=> \E k \in CanKeys : \E v \in CanOf(J, "value") :
          j = CanJudgment("members", <<CanEntry(k, v.of)>>, <<k, ":">> \o v.text)
    OBVIOUS
  <1>9. ASSUME NEW m
        PROVE  j \in added(m) <=> \E k \in CanKeys : \E v \in CanOf(J, "value") :
          /\ CanFresh(m.of, k)
          /\ j = CanJudgment("members", Append(m.of, CanEntry(k, v.of)), m.text \o <<",", k, ":">> \o v.text)
    <2> DEFINE fresh == {key \in CanKeys : CanFresh(m.of, key)}
               made(k, v) == CanJudgment("members", Append(m.of, CanEntry(k, v.of)),
                                         m.text \o <<",", k, ":">> \o v.text)
    <2>1. added(m) = {made(k, v) : v \in CanOf(J, "value"), k \in fresh}
      OBVIOUS
    <2>2. \A k : k \in fresh <=> k \in CanKeys /\ CanFresh(m.of, k)
      OBVIOUS
    <2> HIDE DEF fresh, made, added
    <2>3. j \in added(m) <=> \E v \in CanOf(J, "value") : \E k \in fresh : j = made(k, v)
      BY <2>1
    <2>4. j \in added(m) <=> \E k \in CanKeys : \E v \in CanOf(J, "value") :
            CanFresh(m.of, k) /\ j = made(k, v)
      BY <2>2, <2>3, Zenon
    <2> QED
      BY <2>4 DEF made
  <1> HIDE DEF added
  <1>10. j \in more <=> \E m \in CanOf(J, "members") : j \in added(m)
    OBVIOUS
  <1>11. j \in more <=> \E m \in CanOf(J, "members") : \E k \in CanKeys : \E v \in CanOf(J, "value") :
          /\ CanFresh(m.of, k)
          /\ j = CanJudgment("members", Append(m.of, CanEntry(k, v.of)), m.text \o <<",", k, ":">> \o v.text)
    BY <1>9, <1>10, Zenon
  <1> HIDE DEF scalars, empties, arrays, objects, firsts, nexts, keyed, more
  <1>12. j \in CanJudge(J) <=> \/ j \in scalars \/ j \in empties \/ j \in arrays \/ j \in objects
                               \/ j \in firsts \/ j \in nexts \/ j \in keyed \/ j \in more
    BY <1>1
  <1> QED
    BY <1>2, <1>3, <1>4, <1>5, <1>6, <1>7, <1>8, <1>11, <1>12, Zenon DEF CanLastRule, CanValueRule, CanElementsRule, CanMembersRule

\* Judgments as the rules need them: a text, and for an object a sequence.
CanIsSeq(s) == \E S : s \in Seq(S)
CanSound(j) ==
  /\ j = CanJudgment(j.is, j.of, j.text)
  /\ j.text \in CanSource
  /\ j.is = "members" => CanIsSeq(j.of)

(* A sequence grows by an entry. *)
LEMMA CanSeqGrows ==
  ASSUME NEW s, NEW x, CanIsSeq(s)
  PROVE  /\ CanIsSeq(Append(s, x)) /\ Len(s) \in Nat /\ DOMAIN s = 1..Len(s)
         /\ DOMAIN Append(s, x) = 1..(Len(s) + 1)
         /\ \A i \in 1..Len(s) : Append(s, x)[i] = s[i]
         /\ Append(s, x)[Len(s) + 1] = x
  <1>1. PICK S : s \in Seq(S)
    BY DEF CanIsSeq
  <1>2. S \subseteq S \cup {x} /\ x \in S \cup {x}
    OBVIOUS
  <1>3. s \in Seq(S \cup {x})
    BY <1>1, <1>2, SeqMonotonic
  <1> DEFINE U == S \cup {x}
  <1>4. s \in Seq(U) /\ x \in U
    BY <1>3
  <1> HIDE DEF U
  <1>5. /\ Append(s, x) \in Seq(U) /\ Len(Append(s, x)) = Len(s) + 1
        /\ \A i \in 1..Len(s) : Append(s, x)[i] = s[i]
        /\ Append(s, x)[Len(s) + 1] = x
    BY <1>4, AppendProperties
  <1>6. Len(s) \in Nat /\ DOMAIN s = 1..Len(s)
    BY <1>4, LenProperties
  <1>7. DOMAIN Append(s, x) = 1..(Len(s) + 1)
    BY <1>5, LenProperties
  <1>8. CanIsSeq(Append(s, x))
    BY <1>5 DEF CanIsSeq
  <1> QED
    BY <1>5, <1>6, <1>7, <1>8

(* One entry is a sequence. *)
LEMMA CanSeqOne ==
  ASSUME NEW x
  PROVE  CanIsSeq(<<x>>) /\ CanIsSeq(<<>>) /\ Append(<<>>, x) = <<x>>
  <1>1. <<x>> \in Seq({x}) /\ <<>> \in Seq({x})
    BY EmptySeq
  <1>2. Append(<<>>, x) = <<x>>
    OBVIOUS
  <1> QED
    BY <1>1, <1>2 DEF CanIsSeq

(* The judgments of a kind, when all are as they should be. *)
LEMMA CanOfSound ==
  ASSUME NEW J, \A i \in J : CanSound(i), NEW is, NEW i \in CanOf(J, is)
  PROVE  /\ i = CanJudgment(is, i.of, i.text) /\ i \in J
         /\ i.text \in CanSource /\ (is = "members" => CanIsSeq(i.of))
  BY DEF CanOf, CanSound

(* A rule keeps judgments as they should be. *)
LEMMA CanRuleSound ==
  ASSUME NEW J, \A i \in J : CanSound(i), NEW j \in CanJudge(J)
  PROVE  CanSound(j)
  <1>0. CanLastRule(J, j)
    BY CanJudgeCases
  <1>a. ASSUME NEW of, NEW text \in CanSource, \/ j = CanJudgment("value", of, text)
                                                \/ j = CanJudgment("elements", of, text)
        PROVE  CanSound(j)
    <2>1. (j.is = "value" \/ j.is = "elements") /\ j.of = of /\ j.text = text
      BY <1>a, CanJudgmentFields
    <2>2. j.is # "members"
      BY <2>1
    <2>3. j = CanJudgment(j.is, j.of, j.text)
      BY <1>a, CanJudgmentFields
    <2> QED
      BY <2>1, <2>2, <2>3 DEF CanSound
  <1>b. ASSUME NEW of, NEW text \in CanSource, j = CanJudgment("members", of, text), CanIsSeq(of)
        PROVE  CanSound(j)
    <2>1. j.is = "members" /\ j.of = of /\ j.text = text
      BY <1>b, CanJudgmentFields
    <2> QED
      BY <1>b, <2>1 DEF CanSound
  <1>1. CASE \E t \in CanScalars \cup CanKeys : j = CanJudgment("value", CanScalar(t), <<t>>)
    <2>1. PICK t \in CanScalars \cup CanKeys : j = CanJudgment("value", CanScalar(t), <<t>>)
      BY <1>1
    <2>2. <<t>> \in CanSource
      BY CanTokensAre, CanOneType DEF CanOne
    <2> QED
      BY <1>a, <2>1, <2>2
  <1>2. CASE \/ j = CanJudgment("value", CanArray(<<>>), <<"[", "]">>)
             \/ j = CanJudgment("value", CanObject(<<>>), <<"{", "}">>)
    <2>1. <<"[", "]">> \in CanSource /\ <<"{", "}">> \in CanSource
      BY CanTokensAre, CanTwo
    <2> QED
      BY <1>a, <1>2, <2>1
  <1>3. CASE \E e \in CanOf(J, "elements") :
               j = CanJudgment("value", CanArray(e.of), <<"[">> \o e.text \o <<"]">>)
    <2>1. PICK e \in CanOf(J, "elements") :
               j = CanJudgment("value", CanArray(e.of), <<"[">> \o e.text \o <<"]">>)
      BY <1>3
    <2>2. e.text \in CanSource
      BY CanOfSound
    <2>3. <<"[">> \o e.text \o <<"]">> \in CanSource
      <3>1. <<"[">> \in CanSource /\ <<"]">> \in CanSource
        BY CanTokensAre, CanOneType DEF CanOne
      <3> QED
        BY <2>2, <3>1, CanCatType DEF CanCat
    <2> QED
      BY <1>a, <2>1, <2>3
  <1>4. CASE \E m \in CanOf(J, "members") :
               j = CanJudgment("value", CanObject(m.of), <<"{">> \o m.text \o <<"}">>)
    <2>1. PICK m \in CanOf(J, "members") :
               j = CanJudgment("value", CanObject(m.of), <<"{">> \o m.text \o <<"}">>)
      BY <1>4
    <2>2. m.text \in CanSource
      BY CanOfSound
    <2>3. <<"{">> \o m.text \o <<"}">> \in CanSource
      <3>1. <<"{">> \in CanSource /\ <<"}">> \in CanSource
        BY CanTokensAre, CanOneType DEF CanOne
      <3> QED
        BY <2>2, <3>1, CanCatType DEF CanCat
    <2> QED
      BY <1>a, <2>1, <2>3
  <1>5. CASE \E v \in CanOf(J, "value") : j = CanJudgment("elements", <<v.of>>, v.text)
    <2>1. PICK v \in CanOf(J, "value") : j = CanJudgment("elements", <<v.of>>, v.text)
      BY <1>5
    <2>2. v.text \in CanSource
      BY CanOfSound
    <2> QED
      BY <1>a, <2>1, <2>2
  <1>6. CASE \E e \in CanOf(J, "elements") : \E v \in CanOf(J, "value") :
               j = CanJudgment("elements", Append(e.of, v.of), e.text \o <<",">> \o v.text)
    <2>1. PICK e \in CanOf(J, "elements") : \E v \in CanOf(J, "value") :
               j = CanJudgment("elements", Append(e.of, v.of), e.text \o <<",">> \o v.text)
      BY <1>6
    <2>2. PICK v \in CanOf(J, "value") :
               j = CanJudgment("elements", Append(e.of, v.of), e.text \o <<",">> \o v.text)
      BY <2>1
    <2>3. e.text \in CanSource /\ v.text \in CanSource
      BY CanOfSound
    <2>4. e.text \o <<",">> \o v.text \in CanSource
      <3>1. <<",">> \in CanSource
        BY CanTokensAre, CanOneType DEF CanOne
      <3> QED
        BY <2>3, <3>1, CanCatType DEF CanCat
    <2> QED
      BY <1>a, <2>2, <2>4
  <1>7. CASE \E k \in CanKeys : \E v \in CanOf(J, "value") :
               j = CanJudgment("members", <<CanEntry(k, v.of)>>, <<k, ":">> \o v.text)
    <2>1. PICK k \in CanKeys : \E v \in CanOf(J, "value") :
               j = CanJudgment("members", <<CanEntry(k, v.of)>>, <<k, ":">> \o v.text)
      BY <1>7
    <2>2. PICK v \in CanOf(J, "value") :
               j = CanJudgment("members", <<CanEntry(k, v.of)>>, <<k, ":">> \o v.text)
      BY <2>1
    <2>3. v.text \in CanSource
      BY CanOfSound
    <2>4. <<k, ":">> \o v.text \in CanSource
      <3>1. <<k, ":">> \in CanSource
        BY CanTokensAre, CanTwo
      <3> QED
        BY <2>3, <3>1, CanCatType DEF CanCat
    <2>5. CanIsSeq(<<CanEntry(k, v.of)>>)
      BY CanSeqOne
    <2> QED
      BY <1>b, <2>2, <2>4, <2>5
  <1>8. CASE \E m \in CanOf(J, "members") : \E k \in CanKeys : \E v \in CanOf(J, "value") :
               /\ CanFresh(m.of, k)
               /\ j = CanJudgment("members", Append(m.of, CanEntry(k, v.of)), m.text \o <<",", k, ":">> \o v.text)
    <2>1. PICK m \in CanOf(J, "members") : \E k \in CanKeys : \E v \in CanOf(J, "value") :
               j = CanJudgment("members", Append(m.of, CanEntry(k, v.of)), m.text \o <<",", k, ":">> \o v.text)
      BY <1>8
    <2>2. PICK k \in CanKeys : \E v \in CanOf(J, "value") :
               j = CanJudgment("members", Append(m.of, CanEntry(k, v.of)), m.text \o <<",", k, ":">> \o v.text)
      BY <2>1
    <2>3. PICK v \in CanOf(J, "value") :
               j = CanJudgment("members", Append(m.of, CanEntry(k, v.of)), m.text \o <<",", k, ":">> \o v.text)
      BY <2>2
    <2>4. m.text \in CanSource /\ v.text \in CanSource /\ CanIsSeq(m.of)
      BY CanOfSound
    <2>5. m.text \o <<",", k, ":">> \o v.text \in CanSource
      <3>1. <<",", k, ":">> \in CanSource
        BY CanTokensAre, CanThree
      <3> QED
        BY <2>4, <3>1, CanCatType DEF CanCat
    <2>6. CanIsSeq(Append(m.of, CanEntry(k, v.of)))
      BY <2>4, CanSeqGrows
    <2> QED
      BY <1>b, <2>3, <2>5, <2>6
  <1> QED
    BY <1>0, <1>1, <1>2, <1>3, <1>4, <1>5, <1>6, <1>7, <1>8 DEF CanLastRule, CanValueRule, CanElementsRule, CanMembersRule

(* What is derived is as it should be. *)
LEMMA CanJudgmentsSound ==
  ASSUME NEW n \in Nat
  PROVE  \A j \in CanJudgments(n) : CanSound(j)
  <1> DEFINE T == {k \in Nat : \A j \in CanJudgments(k) : CanSound(j)}
  <1>1. 0 \in T
    BY CanJudgmentsStep
  <1>2. ASSUME NEW k \in T PROVE k + 1 \in T
    <2>1. k \in Nat /\ k + 1 \in Nat /\ \A j \in CanJudgments(k) : CanSound(j)
      OBVIOUS
    <2>2. CanJudgments(k + 1) = CanJudgments(k) \cup CanJudge(CanJudgments(k))
      BY <2>1, CanJudgmentsStep
    <2>3. \A j \in CanJudgments(k + 1) : CanSound(j)
      BY <2>1, <2>2, CanRuleSound
    <2> QED
      BY <2>1, <2>3
  <1> HIDE DEF T
  <1>3. T \in SUBSET Nat
    BY DEF T
  <1>4. T = Nat
    BY <1>1, <1>2, <1>3, CanNatInd
  <1> QED
    BY <1>4 DEF T

(* What is derived is about a text, and an object's entries are a sequence. *)
LEMMA CanDerivesText ==
  ASSUME NEW is, NEW of, NEW text, CanDerives(is, of, text)
  PROVE  text \in CanSource /\ (is = "members" => CanIsSeq(of))
  <1>1. PICK n \in Nat : CanJudgment(is, of, text) \in CanJudgments(n)
    BY DEF CanDerives
  <1>2. CanSound(CanJudgment(is, of, text))
    BY <1>1, CanJudgmentsSound
  <1> QED
    BY <1>2, CanJudgmentFields DEF CanSound

(* A scalar is a value. *)
LEMMA CanRuleScalar ==
  ASSUME NEW t \in CanScalars \cup CanKeys
  PROVE  CanDerives("value", CanScalar(t), CanOne(t))
  <1> DEFINE j == CanJudgment("value", CanScalar(t), <<t>>)
  <1>1. CanLastRule(CanJudgments(0), j)
    BY DEF CanLastRule, CanValueRule, CanElementsRule, CanMembersRule
  <1>2. j \in CanJudge(CanJudgments(0))
    <2> HIDE DEF j
    <2> QED
      BY <1>1, CanJudgeCases
  <1>3. CanDerives("value", CanScalar(t), <<t>>)
    BY <1>2, CanRuleDerives
  <1> QED
    BY <1>3 DEF CanOne

(* An empty container is a value. *)
LEMMA CanRuleEmpty ==
  /\ CanDerives("value", CanArray(<<>>), CanCat(CanOne("["), CanOne("]")))
  /\ CanDerives("value", CanObject(<<>>), CanCat(CanOne("{"), CanOne("}")))
  <1> DEFINE a == CanJudgment("value", CanArray(<<>>), <<"[", "]">>)
             o == CanJudgment("value", CanObject(<<>>), <<"{", "}">>)
  <1>1. CanLastRule(CanJudgments(0), a) /\ CanLastRule(CanJudgments(0), o)
    BY DEF CanLastRule, CanValueRule, CanElementsRule, CanMembersRule
  <1>2. a \in CanJudge(CanJudgments(0)) /\ o \in CanJudge(CanJudgments(0))
    <2> HIDE DEF a, o
    <2> QED
      BY <1>1, CanJudgeCases
  <1>3. CanDerives("value", CanArray(<<>>), <<"[", "]">>)
    BY <1>2, CanRuleDerives
  <1>4. CanDerives("value", CanObject(<<>>), <<"{", "}">>)
    BY <1>2, CanRuleDerives
  <1>5. <<"[", "]">> = CanCat(CanOne("["), CanOne("]")) /\ <<"{", "}">> = CanCat(CanOne("{"), CanOne("}"))
    BY CanTokensAre, CanTwo
  <1> QED
    BY <1>3, <1>4, <1>5

(* Elements in brackets are an array, members in braces an object. *)
LEMMA CanRuleArray ==
  ASSUME NEW of, NEW e, CanDerives("elements", of, e)
  PROVE  CanDerives("value", CanArray(of), CanBrackets(e))
  <1>1. PICK n \in Nat : CanJudgment("elements", of, e) \in CanJudgments(n)
    BY DEF CanDerives
  <1> DEFINE i == CanJudgment("elements", of, e)
             j == CanJudgment("value", CanArray(i.of), <<"[">> \o i.text \o <<"]">>)
  <1>2. i \in CanOf(CanJudgments(n), "elements")
    BY <1>1, CanOfHas
  <1>3. CanLastRule(CanJudgments(n), j)
    <2> HIDE DEF i
    <2> QED
      BY <1>2 DEF CanLastRule, CanValueRule, CanElementsRule, CanMembersRule
  <1>4. j \in CanJudge(CanJudgments(n))
    <2> HIDE DEF j
    <2> QED
      BY <1>3, CanJudgeCases
  <1>5. CanDerives("value", CanArray(i.of), <<"[">> \o i.text \o <<"]">>)
    <2> HIDE DEF i
    <2> QED
      BY <1>4, CanRuleDerives
  <1>6. i.of = of /\ i.text = e
    BY CanJudgmentFields
  <1>7. e \in CanSource
    BY CanDerivesText
  <1>8. <<"[">> \o e \o <<"]">> = CanBrackets(e)
    BY <1>7, CanBuiltAs
  <1> HIDE DEF i
  <1> QED
    BY <1>5, <1>6, <1>8

(* Members in braces are an object. *)
LEMMA CanRuleObject ==
  ASSUME NEW of, NEW e, CanDerives("members", of, e)
  PROVE  CanDerives("value", CanObject(of), CanBraces(e))
  <1>1. PICK n \in Nat : CanJudgment("members", of, e) \in CanJudgments(n)
    BY DEF CanDerives
  <1> DEFINE i == CanJudgment("members", of, e)
             j == CanJudgment("value", CanObject(i.of), <<"{">> \o i.text \o <<"}">>)
  <1>2. i \in CanOf(CanJudgments(n), "members")
    BY <1>1, CanOfHas
  <1>3. CanLastRule(CanJudgments(n), j)
    <2> HIDE DEF i
    <2> QED
      BY <1>2 DEF CanLastRule, CanValueRule, CanElementsRule, CanMembersRule
  <1>4. j \in CanJudge(CanJudgments(n))
    <2> HIDE DEF j
    <2> QED
      BY <1>3, CanJudgeCases
  <1>5. CanDerives("value", CanObject(i.of), <<"{">> \o i.text \o <<"}">>)
    <2> HIDE DEF i
    <2> QED
      BY <1>4, CanRuleDerives
  <1>6. i.of = of /\ i.text = e
    BY CanJudgmentFields
  <1>7. e \in CanSource
    BY CanDerivesText
  <1>8. <<"{">> \o e \o <<"}">> = CanBraces(e)
    BY <1>7, CanBuiltAs
  <1> HIDE DEF i
  <1> QED
    BY <1>5, <1>6, <1>8

(* A value is the one element of an array. *)
LEMMA CanRuleElement ==
  ASSUME NEW v, NEW s, CanDerives("value", v, s)
  PROVE  CanDerives("elements", <<v>>, s)
  <1>1. PICK n \in Nat : CanJudgment("value", v, s) \in CanJudgments(n)
    BY DEF CanDerives
  <1> DEFINE i == CanJudgment("value", v, s)
             j == CanJudgment("elements", <<i.of>>, i.text)
  <1>2. i \in CanOf(CanJudgments(n), "value")
    BY <1>1, CanOfHas
  <1>3. CanLastRule(CanJudgments(n), j)
    <2> HIDE DEF i
    <2> QED
      BY <1>2 DEF CanLastRule, CanValueRule, CanElementsRule, CanMembersRule
  <1>4. j \in CanJudge(CanJudgments(n))
    <2> HIDE DEF j
    <2> QED
      BY <1>3, CanJudgeCases
  <1>5. CanDerives("elements", <<i.of>>, i.text)
    <2> HIDE DEF i
    <2> QED
      BY <1>4, CanRuleDerives
  <1>6. i.of = v /\ i.text = s
    BY CanJudgmentFields
  <1> HIDE DEF i
  <1> QED
    BY <1>5, <1>6

(* Elements, a comma and a value are elements. *)
LEMMA CanRuleElements ==
  ASSUME NEW of, NEW e, CanDerives("elements", of, e), NEW v, NEW s, CanDerives("value", v, s)
  PROVE  CanDerives("elements", Append(of, v), CanThen(e, s))
  <1> DEFINE i == CanJudgment("elements", of, e)
             d == CanJudgment("value", v, s)
             j == CanJudgment("elements", Append(i.of, d.of), i.text \o <<",">> \o d.text)
  <1>0. (\E a \in Nat : i \in CanJudgments(a)) /\ (\E b \in Nat : d \in CanJudgments(b))
    BY DEF CanDerives
  <1>1. PICK n \in Nat : i \in CanJudgments(n) /\ d \in CanJudgments(n)
    <2> HIDE DEF i, d
    <2> QED
      BY <1>0, CanHeights
  <1>2. i \in CanOf(CanJudgments(n), "elements")
    BY <1>1, CanOfHas
  <1>3. d \in CanOf(CanJudgments(n), "value")
    BY <1>1, CanOfHas
  <1>4. CanLastRule(CanJudgments(n), j)
    <2> HIDE DEF i, d
    <2> QED
      BY <1>2, <1>3 DEF CanLastRule, CanValueRule, CanElementsRule, CanMembersRule
  <1>5. j \in CanJudge(CanJudgments(n))
    <2> HIDE DEF j
    <2> QED
      BY <1>4, CanJudgeCases
  <1>6. CanDerives("elements", Append(i.of, d.of), i.text \o <<",">> \o d.text)
    <2> HIDE DEF i, d
    <2> QED
      BY <1>5, CanRuleDerives
  <1>7. i.of = of /\ i.text = e /\ d.of = v /\ d.text = s
    BY CanJudgmentFields
  <1>8. e \in CanSource /\ s \in CanSource
    BY CanDerivesText
  <1>9. e \o <<",">> \o s = CanThen(e, s)
    BY <1>8, CanBuiltAs
  <1> HIDE DEF i, d
  <1> QED
    BY <1>6, <1>7, <1>9

(* A key, a colon and a value are the one member of an object. *)
LEMMA CanRuleMember ==
  ASSUME NEW k \in CanKeys, NEW v, NEW s, CanDerives("value", v, s)
  PROVE  CanDerives("members", <<CanEntry(k, v)>>, CanPair(k, s))
  <1>1. PICK n \in Nat : CanJudgment("value", v, s) \in CanJudgments(n)
    BY DEF CanDerives
  <1> DEFINE i == CanJudgment("value", v, s)
             j == CanJudgment("members", <<CanEntry(k, i.of)>>, <<k, ":">> \o i.text)
  <1>2. i \in CanOf(CanJudgments(n), "value")
    BY <1>1, CanOfHas
  <1>3. CanLastRule(CanJudgments(n), j)
    <2> HIDE DEF i
    <2> QED
      BY <1>2 DEF CanLastRule, CanValueRule, CanElementsRule, CanMembersRule
  <1>4. j \in CanJudge(CanJudgments(n))
    <2> HIDE DEF j
    <2> QED
      BY <1>3, CanJudgeCases
  <1>5. CanDerives("members", <<CanEntry(k, i.of)>>, <<k, ":">> \o i.text)
    <2> HIDE DEF i
    <2> QED
      BY <1>4, CanRuleDerives
  <1>6. i.of = v /\ i.text = s
    BY CanJudgmentFields
  <1>7. s \in CanSource
    BY CanDerivesText
  <1>8. <<k, ":">> \o s = CanPair(k, s)
    BY <1>7, CanPairAs
  <1> HIDE DEF i
  <1> QED
    BY <1>5, <1>6, <1>8

(* Members, a comma, a key none of them has, a colon and a value are members. *)
LEMMA CanRuleMembers ==
  ASSUME NEW of, NEW e, CanDerives("members", of, e), NEW k \in CanKeys, CanFresh(of, k),
         NEW v, NEW s, CanDerives("value", v, s)
  PROVE  CanDerives("members", Append(of, CanEntry(k, v)), CanThen(e, CanPair(k, s)))
  <1> DEFINE i == CanJudgment("members", of, e)
             d == CanJudgment("value", v, s)
             j == CanJudgment("members", Append(i.of, CanEntry(k, d.of)), i.text \o <<",", k, ":">> \o d.text)
  <1>0. (\E a \in Nat : i \in CanJudgments(a)) /\ (\E b \in Nat : d \in CanJudgments(b))
    BY DEF CanDerives
  <1>1. PICK n \in Nat : i \in CanJudgments(n) /\ d \in CanJudgments(n)
    <2> HIDE DEF i, d
    <2> QED
      BY <1>0, CanHeights
  <1>2. i \in CanOf(CanJudgments(n), "members")
    BY <1>1, CanOfHas
  <1>3. d \in CanOf(CanJudgments(n), "value")
    BY <1>1, CanOfHas
  <1>7. i.of = of /\ i.text = e /\ d.of = v /\ d.text = s
    BY CanJudgmentFields
  <1>4. CanLastRule(CanJudgments(n), j)
    <2> HIDE DEF i, d
    <2> QED
      BY <1>2, <1>3, <1>7 DEF CanLastRule, CanValueRule, CanElementsRule, CanMembersRule
  <1>5. j \in CanJudge(CanJudgments(n))
    <2> HIDE DEF j
    <2> QED
      BY <1>4, CanJudgeCases
  <1>6. CanDerives("members", Append(i.of, CanEntry(k, d.of)), i.text \o <<",", k, ":">> \o d.text)
    <2> HIDE DEF i, d
    <2> QED
      BY <1>5, CanRuleDerives
  <1>8. e \in CanSource /\ s \in CanSource
    BY CanDerivesText
  <1>9. e \o <<",", k, ":">> \o s = CanThen(e, CanPair(k, s))
    BY <1>8, CanPairAs
  <1> HIDE DEF i, d
  <1> QED
    BY <1>6, <1>7, <1>9

(* What a rule derives says which rule it is. *)
LEMMA CanRuleOf ==
  ASSUME NEW J, NEW j \in CanJudge(J)
  PROVE  /\ j.is = "value" => CanValueRule(J, j)
         /\ j.is = "elements" => CanElementsRule(J, j)
         /\ j.is = "members" => CanMembersRule(J, j)
  <1>1. CanValueRule(J, j) => j.is = "value"
    <2>1. CanValueRule(J, j) => \E of, text : j = CanJudgment("value", of, text)
      BY Zenon DEF CanValueRule
    <2> QED
      BY <2>1, CanJudgmentFields
  <1>2. CanElementsRule(J, j) => j.is = "elements"
    <2>1. CanElementsRule(J, j) => \E of, text : j = CanJudgment("elements", of, text)
      BY Zenon DEF CanElementsRule
    <2> QED
      BY <2>1, CanJudgmentFields
  <1>3. CanMembersRule(J, j) => j.is = "members"
    <2>1. CanMembersRule(J, j) => \E of, text : j = CanJudgment("members", of, text)
      BY Zenon DEF CanMembersRule
    <2> QED
      BY <2>1, CanJudgmentFields
  <1>4. CanLastRule(J, j)
    BY CanJudgeCases
  <1> QED
    BY <1>1, <1>2, <1>3, <1>4 DEF CanLastRule

(* What is derived of a kind is a judgment of that kind. *)
LEMMA CanOfDerived ==
  ASSUME NEW n \in Nat, NEW is, NEW i \in CanOf(CanJudgments(n), is)
  PROVE  /\ CanJudgment(is, i.of, i.text) \in CanJudgments(n)
         /\ CanDerives(is, i.of, i.text) /\ i.text \in CanSource
  <1>1. i = CanJudgment(is, i.of, i.text) /\ i \in CanJudgments(n) /\ i.text \in CanSource
    BY CanJudgmentsSound, CanOfSound
  <1> QED
    BY <1>1 DEF CanDerives

\* The texts of values, of elements and of members whose keys are K.
CanIsValue(s) == \E v : CanDerives("value", v, s)
CanAreElements(e) == \E of : CanDerives("elements", of, e)
CanKeysOf(of) == {of[i].key : i \in DOMAIN of}
CanAreMembers(K, m) == \E of : CanDerives("members", of, m) /\ CanKeysOf(of) = K

\* A value starts with a scalar or a mark that opens a container.
CanValueShape(s) ==
  \/ \E t \in CanScalars \cup CanKeys : s = CanOne(t)
  \/ s = CanCat(CanOne("["), CanOne("]"))
  \/ s = CanCat(CanOne("{"), CanOne("}"))
  \/ \E e : CanAreElements(e) /\ s = CanBrackets(e)
  \/ \E K, m : CanAreMembers(K, m) /\ s = CanBraces(m)

(* The shape of what the rules for values derive. *)
LEMMA CanValueRuleShape ==
  ASSUME NEW n \in Nat, NEW v, NEW s, CanJudgment("value", v, s) \in CanJudge(CanJudgments(n))
  PROVE  CanValueShape(s)
  <1> DEFINE j == CanJudgment("value", v, s)
  <1>0. j.is = "value" /\ j.of = v /\ j.text = s
    BY CanJudgmentFields
  <1>r. j \in CanJudge(CanJudgments(n))
    OBVIOUS
  <1> HIDE DEF j
  <1>1. CanValueRule(CanJudgments(n), j)
    BY <1>0, <1>r, CanRuleOf
  <1>2. CASE \E t \in CanScalars \cup CanKeys : j = CanJudgment("value", CanScalar(t), <<t>>)
    <2>1. PICK t \in CanScalars \cup CanKeys : j = CanJudgment("value", CanScalar(t), <<t>>)
      BY <1>2
    <2>2. s = CanOne(t)
      BY <1>0, <2>1, CanJudgmentFields DEF CanOne
    <2> QED
      BY <2>2 DEF CanValueShape
  <1>3. CASE j = CanJudgment("value", CanArray(<<>>), <<"[", "]">>)
    <2>1. s = <<"[", "]">>
      BY <1>0, <1>3 DEF CanJudgment
    <2>2. s = CanCat(CanOne("["), CanOne("]"))
      BY <2>1, CanTokensAre, CanTwo
    <2> QED
      BY <2>2 DEF CanValueShape
  <1>4. CASE j = CanJudgment("value", CanObject(<<>>), <<"{", "}">>)
    <2>1. s = <<"{", "}">>
      BY <1>0, <1>4 DEF CanJudgment
    <2>2. s = CanCat(CanOne("{"), CanOne("}"))
      BY <2>1, CanTokensAre, CanTwo
    <2> QED
      BY <2>2 DEF CanValueShape
  <1>5. CASE \E e \in CanOf(CanJudgments(n), "elements") :
               j = CanJudgment("value", CanArray(e.of), <<"[">> \o e.text \o <<"]">>)
    <2>1. PICK e \in CanOf(CanJudgments(n), "elements") :
               j = CanJudgment("value", CanArray(e.of), <<"[">> \o e.text \o <<"]">>)
      BY <1>5
    <2>2. CanDerives("elements", e.of, e.text) /\ e.text \in CanSource
      BY CanOfDerived
    <2>3. s = <<"[">> \o e.text \o <<"]">>
      BY <1>0, <2>1 DEF CanJudgment
    <2>4. s = CanBrackets(e.text)
      BY <2>2, <2>3, CanBuiltAs
    <2>5. CanAreElements(e.text)
      BY <2>2 DEF CanAreElements
    <2> QED
      BY <2>4, <2>5 DEF CanValueShape
  <1>6. CASE \E m \in CanOf(CanJudgments(n), "members") :
               j = CanJudgment("value", CanObject(m.of), <<"{">> \o m.text \o <<"}">>)
    <2>1. PICK m \in CanOf(CanJudgments(n), "members") :
               j = CanJudgment("value", CanObject(m.of), <<"{">> \o m.text \o <<"}">>)
      BY <1>6
    <2>2. CanDerives("members", m.of, m.text) /\ m.text \in CanSource
      BY CanOfDerived
    <2>3. s = <<"{">> \o m.text \o <<"}">>
      BY <1>0, <2>1 DEF CanJudgment
    <2>4. s = CanBraces(m.text)
      BY <2>2, <2>3, CanBuiltAs
    <2>5. CanAreMembers(CanKeysOf(m.of), m.text)
      BY <2>2 DEF CanAreMembers
    <2> QED
      BY <2>4, <2>5 DEF CanValueShape
  <1> QED
    BY <1>1, <1>2, <1>3, <1>4, <1>5, <1>6 DEF CanValueRule

(* Every value has one of the shapes. *)
LEMMA CanValueShapes ==
  ASSUME NEW s, CanIsValue(s)
  PROVE  CanValueShape(s)
  <1>1. PICK v : CanDerives("value", v, s)
    BY DEF CanIsValue
  <1>2. PICK n \in Nat : CanJudgment("value", v, s) \in CanJudgments(n)
    BY <1>1 DEF CanDerives
  <1> DEFINE j == CanJudgment("value", v, s)
             T == {k \in Nat : j \in CanJudgments(k) => CanValueShape(s)}
  <1>3. 0 \in T
    BY CanJudgmentsStep
  <1>4. ASSUME NEW k \in T PROVE k + 1 \in T
    <2>1. k \in Nat /\ k + 1 \in Nat /\ (j \in CanJudgments(k) => CanValueShape(s))
      OBVIOUS
    <2>2. CanJudgments(k + 1) = CanJudgments(k) \cup CanJudge(CanJudgments(k))
      BY <2>1, CanJudgmentsStep
    <2>3. j \in CanJudge(CanJudgments(k)) => CanValueShape(s)
      BY <2>1, CanValueRuleShape
    <2> HIDE DEF j
    <2> QED
      BY <2>1, <2>2, <2>3
  <1> HIDE DEF T
  <1>5. T \in SUBSET Nat
    BY DEF T
  <1>6. T = Nat
    BY <1>3, <1>4, <1>5, CanNatInd
  <1> QED
    BY <1>2, <1>6 DEF T

(* The keys of a sequence of entries. *)
LEMMA CanKeysGrow ==
  ASSUME NEW of, CanIsSeq(of), NEW k, NEW v
  PROVE  /\ CanKeysOf(Append(of, CanEntry(k, v))) = CanKeysOf(of) \cup {k}
         /\ CanFresh(of, k) <=> k \notin CanKeysOf(of)
  <1> DEFINE x == CanEntry(k, v)
  <1>0. x.key = k
    BY DEF CanEntry
  <1> HIDE DEF x
  <1>1. /\ Len(of) \in Nat /\ DOMAIN of = 1..Len(of)
        /\ DOMAIN Append(of, x) = 1..(Len(of) + 1)
        /\ \A i \in 1..Len(of) : Append(of, x)[i] = of[i]
        /\ Append(of, x)[Len(of) + 1] = x
    BY CanSeqGrows
  <1>2. ASSUME NEW y \in CanKeysOf(Append(of, x)) PROVE y \in CanKeysOf(of) \cup {k}
    <2>1. PICK i \in 1..(Len(of) + 1) : y = Append(of, x)[i].key
      BY <1>1 DEF CanKeysOf
    <2>2. CASE i \in 1..Len(of)
      BY <1>1, <2>1, <2>2 DEF CanKeysOf
    <2>3. CASE i = Len(of) + 1
      BY <1>0, <1>1, <2>1, <2>3
    <2> QED
      BY <1>1, <2>1, <2>2, <2>3
  <1>3. ASSUME NEW y \in CanKeysOf(of) PROVE y \in CanKeysOf(Append(of, x))
    <2>1. PICK i \in 1..Len(of) : y = of[i].key
      BY <1>1 DEF CanKeysOf
    <2>2. i \in 1..(Len(of) + 1) /\ y = Append(of, x)[i].key
      BY <1>1, <2>1
    <2> QED
      BY <1>1, <2>2 DEF CanKeysOf
  <1>4. k \in CanKeysOf(Append(of, x))
    <2>1. Len(of) + 1 \in 1..(Len(of) + 1)
      BY <1>1
    <2> QED
      BY <1>0, <1>1, <2>1 DEF CanKeysOf
  <1>5. CanKeysOf(Append(of, x)) = CanKeysOf(of) \cup {k}
    BY <1>2, <1>3, <1>4
  <1>6. CanFresh(of, k) <=> k \notin CanKeysOf(of)
    BY DEF CanFresh, CanKeysOf
  <1> QED
    BY <1>5, <1>6 DEF x

(* The keys of one entry, and of none. *)
LEMMA CanKeysOne ==
  ASSUME NEW k, NEW v
  PROVE  CanKeysOf(<<CanEntry(k, v)>>) = {k} /\ CanKeysOf(<<>>) = {}
  <1>1. CanIsSeq(<<>>) /\ Append(<<>>, CanEntry(k, v)) = <<CanEntry(k, v)>>
    BY CanSeqOne
  <1>2. CanKeysOf(<<>>) = {}
    BY DEF CanKeysOf
  <1>3. CanKeysOf(Append(<<>>, CanEntry(k, v))) = CanKeysOf(<<>>) \cup {k}
    BY <1>1, CanKeysGrow
  <1> QED
    BY <1>1, <1>2, <1>3

(* What is derived are texts. *)
LEMMA CanAreTexts ==
  /\ \A s : CanIsValue(s) => s \in CanSource
  /\ \A s : CanAreElements(s) => s \in CanSource
  /\ \A K, s : CanAreMembers(K, s) => s \in CanSource
  BY CanDerivesText DEF CanIsValue, CanAreElements, CanAreMembers

(* Elements and members grow at their end. *)
LEMMA CanElementsGrow ==
  ASSUME NEW e, NEW s, CanAreElements(e), CanIsValue(s)
  PROVE  CanAreElements(CanThen(e, s))
  BY CanRuleElements DEF CanAreElements, CanIsValue

(* A value is elements. *)
LEMMA CanElementsStart ==
  ASSUME NEW s, CanIsValue(s)
  PROVE  CanAreElements(s)
  BY CanRuleElement DEF CanAreElements, CanIsValue

(* A key with its value is members. *)
LEMMA CanMembersStart ==
  ASSUME NEW k \in CanKeys, NEW s, CanIsValue(s)
  PROVE  CanAreMembers({k}, CanPair(k, s))
  <1>1. PICK v : CanDerives("value", v, s)
    BY DEF CanIsValue
  <1>2. CanDerives("members", <<CanEntry(k, v)>>, CanPair(k, s))
    BY <1>1, CanRuleMember
  <1>3. CanKeysOf(<<CanEntry(k, v)>>) = {k}
    BY CanKeysOne
  <1> QED
    BY <1>2, <1>3 DEF CanAreMembers

(* Members grow by a key that none of them has. *)
LEMMA CanMembersGrow ==
  ASSUME NEW K, NEW m, CanAreMembers(K, m), NEW k \in CanKeys, k \notin K, NEW s, CanIsValue(s)
  PROVE  CanAreMembers(K \cup {k}, CanThen(m, CanPair(k, s)))
  <1>1. PICK v : CanDerives("value", v, s)
    BY DEF CanIsValue
  <1>2. PICK of : CanDerives("members", of, m) /\ CanKeysOf(of) = K
    BY DEF CanAreMembers
  <1>3. CanIsSeq(of)
    BY <1>2, CanDerivesText
  <1>4. CanFresh(of, k) /\ CanKeysOf(Append(of, CanEntry(k, v))) = K \cup {k}
    BY <1>2, <1>3, CanKeysGrow
  <1>5. CanDerives("members", Append(of, CanEntry(k, v)), CanThen(m, CanPair(k, s)))
    BY <1>1, <1>2, <1>4, CanRuleMembers
  <1> QED
    BY <1>4, <1>5 DEF CanAreMembers

(* Commas associate. *)
LEMMA CanThenAssoc ==
  ASSUME NEW a \in CanSource, NEW b \in CanSource, NEW c \in CanSource
  PROVE  CanThen(CanThen(a, b), c) = CanThen(a, CanThen(b, c))
  <1>1. PICK p \in CanSource : p = CanOne(",")
    BY CanTokensAre, CanOneType
  <1>2. CanThen(CanThen(a, b), c) = CanCat(CanCat(a, CanCat(p, b)), CanCat(p, c))
    BY <1>1 DEF CanThen
  <1>3. PICK d \in CanSource : d = CanCat(p, b)
    BY CanCatType
  <1>4. PICK f \in CanSource : f = CanCat(p, c)
    BY CanCatType
  <1>5. CanCat(CanCat(a, d), f) = CanCat(a, CanCat(d, f))
    BY CanCatAssoc
  <1>6. CanCat(CanCat(p, b), f) = CanCat(p, CanCat(b, f))
    BY CanCatAssoc
  <1>7. CanThen(a, CanThen(b, c)) = CanCat(a, CanCat(p, CanCat(b, f)))
    BY <1>1, <1>4 DEF CanThen
  <1> QED
    BY <1>2, <1>3, <1>4, <1>5, <1>6, <1>7

\* Elements and members seen from their first.
CanElementsShape(e) ==
  CanIsValue(e) \/ \E s, d : CanIsValue(s) /\ CanAreElements(d) /\ e = CanThen(s, d)
CanMembersShape(K, m) ==
  \E k, s :
    /\ k \in CanKeys /\ CanIsValue(s)
    /\ \/ K = {k} /\ m = CanPair(k, s)
       \/ \E L, d : CanAreMembers(L, d) /\ k \notin L /\ K = L \cup {k} /\ m = CanThen(CanPair(k, s), d)

(* Elements that grow at their end keep their first. *)
LEMMA CanElementsShapeGrows ==
  ASSUME NEW e, CanElementsShape(e), NEW s, CanIsValue(s)
  PROVE  CanElementsShape(CanThen(e, s))
  <1>0. s \in CanSource
    BY CanAreTexts
  <1>1. CASE CanIsValue(e)
    <2>1. CanAreElements(s)
      BY CanElementsStart
    <2> QED
      BY <1>1, <2>1 DEF CanElementsShape
  <1>2. CASE \E a, d : CanIsValue(a) /\ CanAreElements(d) /\ e = CanThen(a, d)
    <2>1. PICK a, d : CanIsValue(a) /\ CanAreElements(d) /\ e = CanThen(a, d)
      BY <1>2
    <2>2. a \in CanSource /\ d \in CanSource
      BY <2>1, CanAreTexts
    <2>3. CanThen(e, s) = CanThen(a, CanThen(d, s))
      BY <1>0, <2>1, <2>2, CanThenAssoc
    <2>4. CanAreElements(CanThen(d, s))
      BY <2>1, CanElementsGrow
    <2> QED
      BY <2>1, <2>3, <2>4 DEF CanElementsShape
  <1> QED
    BY <1>1, <1>2 DEF CanElementsShape

(* Members that grow at their end keep their first. *)
LEMMA CanMembersShapeGrows ==
  ASSUME NEW K, NEW m, CanMembersShape(K, m), NEW k \in CanKeys, k \notin K, NEW s, CanIsValue(s)
  PROVE  CanMembersShape(K \cup {k}, CanThen(m, CanPair(k, s)))
  <1>0. s \in CanSource
    BY CanAreTexts
  <1>1. CanPair(k, s) \in CanSource
    BY <1>0, CanBuilt
  <1>2. PICK h, a : /\ h \in CanKeys /\ CanIsValue(a)
                    /\ \/ K = {h} /\ m = CanPair(h, a)
                       \/ \E L, d : CanAreMembers(L, d) /\ h \notin L /\ K = L \cup {h} /\ m = CanThen(CanPair(h, a), d)
    BY DEF CanMembersShape
  <1>3. a \in CanSource
    BY <1>2, CanAreTexts
  <1>4. CanPair(h, a) \in CanSource
    BY <1>2, <1>3, CanBuilt
  <1>5. CASE K = {h} /\ m = CanPair(h, a)
    <2>1. CanAreMembers({k}, CanPair(k, s))
      BY CanMembersStart
    <2>2. h \notin {k} /\ K \cup {k} = {k} \cup {h}
      BY <1>5
    <2>3. CanThen(m, CanPair(k, s)) = CanThen(CanPair(h, a), CanPair(k, s))
      BY <1>5
    <2> QED
      BY <1>2, <2>1, <2>2, <2>3 DEF CanMembersShape
  <1>6. CASE \E L, d : CanAreMembers(L, d) /\ h \notin L /\ K = L \cup {h} /\ m = CanThen(CanPair(h, a), d)
    <2>1. PICK L, d : CanAreMembers(L, d) /\ h \notin L /\ K = L \cup {h} /\ m = CanThen(CanPair(h, a), d)
      BY <1>6
    <2>2. d \in CanSource
      BY <2>1, CanAreTexts
    <2>3. CanThen(m, CanPair(k, s)) = CanThen(CanPair(h, a), CanThen(d, CanPair(k, s)))
      BY <1>1, <1>4, <2>1, <2>2, CanThenAssoc
    <2>4. k \notin L /\ h \notin L \cup {k} /\ K \cup {k} = (L \cup {k}) \cup {h}
      BY <2>1
    <2>5. CanAreMembers(L \cup {k}, CanThen(d, CanPair(k, s)))
      BY <2>1, <2>4, CanMembersGrow
    <2> QED
      BY <1>2, <2>3, <2>4, <2>5 DEF CanMembersShape
  <1> QED
    BY <1>2, <1>5, <1>6

(* The shape of what the rules for elements derive. *)
LEMMA CanElementsRuleShape ==
  ASSUME NEW n \in Nat, NEW of, NEW e,
         \A g, d : CanJudgment("elements", g, d) \in CanJudgments(n) => CanElementsShape(d),
         CanJudgment("elements", of, e) \in CanJudge(CanJudgments(n))
  PROVE  CanElementsShape(e)
  <1> DEFINE j == CanJudgment("elements", of, e)
  <1>0. j.is = "elements" /\ j.of = of /\ j.text = e
    BY CanJudgmentFields
  <1>r. j \in CanJudge(CanJudgments(n))
    OBVIOUS
  <1> HIDE DEF j
  <1>1. CanElementsRule(CanJudgments(n), j)
    BY <1>0, <1>r, CanRuleOf
  <1>2. CASE \E v \in CanOf(CanJudgments(n), "value") : j = CanJudgment("elements", <<v.of>>, v.text)
    <2>1. PICK v \in CanOf(CanJudgments(n), "value") : j = CanJudgment("elements", <<v.of>>, v.text)
      BY <1>2
    <2>2. CanDerives("value", v.of, v.text)
      BY CanOfDerived
    <2>3. e = v.text
      BY <1>0, <2>1 DEF CanJudgment
    <2>4. CanIsValue(e)
      BY <2>2, <2>3 DEF CanIsValue
    <2> QED
      BY <2>4 DEF CanElementsShape
  <1>3. CASE \E d \in CanOf(CanJudgments(n), "elements") : \E v \in CanOf(CanJudgments(n), "value") :
               j = CanJudgment("elements", Append(d.of, v.of), d.text \o <<",">> \o v.text)
    <2>1. PICK d \in CanOf(CanJudgments(n), "elements") : \E v \in CanOf(CanJudgments(n), "value") :
               j = CanJudgment("elements", Append(d.of, v.of), d.text \o <<",">> \o v.text)
      BY <1>3
    <2>2. PICK v \in CanOf(CanJudgments(n), "value") :
               j = CanJudgment("elements", Append(d.of, v.of), d.text \o <<",">> \o v.text)
      BY <2>1
    <2>3. CanJudgment("elements", d.of, d.text) \in CanJudgments(n) /\ d.text \in CanSource
      BY CanOfDerived
    <2>4. CanDerives("value", v.of, v.text) /\ v.text \in CanSource
      BY CanOfDerived
    <2>5. CanElementsShape(d.text)
      BY <2>3
    <2>6. CanIsValue(v.text)
      BY <2>4 DEF CanIsValue
    <2>7. e = d.text \o <<",">> \o v.text
      BY <1>0, <2>2 DEF CanJudgment
    <2>8. e = CanThen(d.text, v.text)
      BY <2>3, <2>4, <2>7, CanBuiltAs
    <2> QED
      BY <2>5, <2>6, <2>8, CanElementsShapeGrows
  <1> QED
    BY <1>1, <1>2, <1>3 DEF CanElementsRule

(* The shape of what the rules for members derive. *)
LEMMA CanMembersRuleShape ==
  ASSUME NEW n \in Nat, NEW of, NEW m,
         \A g, d : CanJudgment("members", g, d) \in CanJudgments(n) => CanMembersShape(CanKeysOf(g), d),
         CanJudgment("members", of, m) \in CanJudge(CanJudgments(n))
  PROVE  CanMembersShape(CanKeysOf(of), m)
  <1> DEFINE j == CanJudgment("members", of, m)
  <1>0. j.is = "members" /\ j.of = of /\ j.text = m
    BY CanJudgmentFields
  <1>r. j \in CanJudge(CanJudgments(n))
    OBVIOUS
  <1> HIDE DEF j
  <1>1. CanMembersRule(CanJudgments(n), j)
    BY <1>0, <1>r, CanRuleOf
  <1>2. CASE \E k \in CanKeys : \E v \in CanOf(CanJudgments(n), "value") :
               j = CanJudgment("members", <<CanEntry(k, v.of)>>, <<k, ":">> \o v.text)
    <2>1. PICK k \in CanKeys : \E v \in CanOf(CanJudgments(n), "value") :
               j = CanJudgment("members", <<CanEntry(k, v.of)>>, <<k, ":">> \o v.text)
      BY <1>2
    <2>2. PICK v \in CanOf(CanJudgments(n), "value") :
               j = CanJudgment("members", <<CanEntry(k, v.of)>>, <<k, ":">> \o v.text)
      BY <2>1
    <2>3. CanDerives("value", v.of, v.text) /\ v.text \in CanSource
      BY CanOfDerived
    <2>4. of = <<CanEntry(k, v.of)>> /\ m = <<k, ":">> \o v.text
      BY <1>0, <2>2 DEF CanJudgment
    <2>5. m = CanPair(k, v.text)
      BY <2>3, <2>4, CanPairAs
    <2>6. CanKeysOf(of) = {k}
      BY <2>4, CanKeysOne
    <2>7. CanIsValue(v.text)
      BY <2>3 DEF CanIsValue
    <2> QED
      BY <2>5, <2>6, <2>7 DEF CanMembersShape
  <1>3. CASE \E d \in CanOf(CanJudgments(n), "members") : \E k \in CanKeys :
               \E v \in CanOf(CanJudgments(n), "value") :
                 /\ CanFresh(d.of, k)
                 /\ j = CanJudgment("members", Append(d.of, CanEntry(k, v.of)), d.text \o <<",", k, ":">> \o v.text)
    <2>1. PICK d \in CanOf(CanJudgments(n), "members") : \E k \in CanKeys :
               \E v \in CanOf(CanJudgments(n), "value") :
                 /\ CanFresh(d.of, k)
                 /\ j = CanJudgment("members", Append(d.of, CanEntry(k, v.of)), d.text \o <<",", k, ":">> \o v.text)
      BY <1>3
    <2>2. PICK k \in CanKeys : \E v \in CanOf(CanJudgments(n), "value") :
                 /\ CanFresh(d.of, k)
                 /\ j = CanJudgment("members", Append(d.of, CanEntry(k, v.of)), d.text \o <<",", k, ":">> \o v.text)
      BY <2>1
    <2>3. PICK v \in CanOf(CanJudgments(n), "value") :
                 /\ CanFresh(d.of, k)
                 /\ j = CanJudgment("members", Append(d.of, CanEntry(k, v.of)), d.text \o <<",", k, ":">> \o v.text)
      BY <2>2
    <2>4. /\ CanJudgment("members", d.of, d.text) \in CanJudgments(n) /\ d.text \in CanSource
          /\ CanDerives("members", d.of, d.text)
      BY CanOfDerived
    <2>5. CanDerives("value", v.of, v.text) /\ v.text \in CanSource
      BY CanOfDerived
    <2>6. CanMembersShape(CanKeysOf(d.of), d.text)
      BY <2>4
    <2>7. CanIsValue(v.text)
      BY <2>5 DEF CanIsValue
    <2>8. of = Append(d.of, CanEntry(k, v.of)) /\ m = d.text \o <<",", k, ":">> \o v.text
      BY <1>0, <2>3 DEF CanJudgment
    <2>9. m = CanThen(d.text, CanPair(k, v.text))
      BY <2>4, <2>5, <2>8, CanPairAs
    <2>10. CanIsSeq(d.of)
      BY <2>4, CanDerivesText
    <2>11. CanKeysOf(of) = CanKeysOf(d.of) \cup {k} /\ k \notin CanKeysOf(d.of)
      BY <2>3, <2>8, <2>10, CanKeysGrow
    <2> QED
      BY <2>6, <2>7, <2>9, <2>11, CanMembersShapeGrows
  <1> QED
    BY <1>1, <1>2, <1>3 DEF CanMembersRule

(* Elements and members are seen from their first. *)
LEMMA CanShapesAt ==
  ASSUME NEW n \in Nat
  PROVE  /\ \A of, e : CanJudgment("elements", of, e) \in CanJudgments(n) => CanElementsShape(e)
         /\ \A of, m : CanJudgment("members", of, m) \in CanJudgments(n) => CanMembersShape(CanKeysOf(of), m)
  <1> DEFINE E(k) == \A of, e : CanJudgment("elements", of, e) \in CanJudgments(k) => CanElementsShape(e)
             M(k) == \A of, m : CanJudgment("members", of, m) \in CanJudgments(k) => CanMembersShape(CanKeysOf(of), m)
             T == {k \in Nat : E(k) /\ M(k)}
  <1>1. 0 \in T
    BY CanJudgmentsStep
  <1>2. ASSUME NEW k \in T PROVE k + 1 \in T
    <2>1. k \in Nat /\ k + 1 \in Nat /\ E(k) /\ M(k)
      OBVIOUS
    <2>2. CanJudgments(k + 1) = CanJudgments(k) \cup CanJudge(CanJudgments(k))
      BY <2>1, CanJudgmentsStep
    <2>3. ASSUME NEW of, NEW e, CanJudgment("elements", of, e) \in CanJudgments(k + 1)
          PROVE  CanElementsShape(e)
      <3>1. CASE CanJudgment("elements", of, e) \in CanJudgments(k)
        BY <2>1, <3>1
      <3>2. CASE CanJudgment("elements", of, e) \in CanJudge(CanJudgments(k))
        BY <2>1, <3>2, CanElementsRuleShape
      <3> QED
        BY <2>2, <2>3, <3>1, <3>2
    <2>4. ASSUME NEW of, NEW m, CanJudgment("members", of, m) \in CanJudgments(k + 1)
          PROVE  CanMembersShape(CanKeysOf(of), m)
      <3>1. CASE CanJudgment("members", of, m) \in CanJudgments(k)
        BY <2>1, <3>1
      <3>2. CASE CanJudgment("members", of, m) \in CanJudge(CanJudgments(k))
        BY <2>1, <3>2, CanMembersRuleShape
      <3> QED
        BY <2>2, <2>4, <3>1, <3>2
    <2>5. E(k + 1) /\ M(k + 1)
      BY <2>3, <2>4
    <2> HIDE DEF E, M
    <2> QED
      BY <2>1, <2>5
  <1> HIDE DEF T
  <1>3. T \in SUBSET Nat
    BY DEF T
  <1>4. T = Nat
    BY <1>1, <1>2, <1>3, CanNatInd
  <1> QED
    BY <1>4 DEF T

(* The same for what is derived at any height. *)
LEMMA CanShapes ==
  /\ \A e : CanAreElements(e) => CanElementsShape(e)
  /\ \A K, m : CanAreMembers(K, m) => CanMembersShape(K, m)
  BY CanShapesAt DEF CanAreElements, CanAreMembers, CanDerives

-----------------------------------------------------------------------------
(* The strict JSON parser: the stack of open containers *)

(* A stack that is not empty: its top and what is below. *)
LEMMA CanStackTop ==
  ASSUME NEW st, CanIsSeq(st), st # <<>>
  PROVE  /\ Len(st) \in Nat /\ Len(st) >= 1 /\ DOMAIN st = 1..Len(st)
         /\ CanIsSeq(Front(st)) /\ Len(Front(st)) = Len(st) - 1
         /\ \A i \in 1..(Len(st) - 1) : Front(st)[i] = st[i]
         /\ Last(st) = st[Len(st)]
  <1>1. PICK S : st \in Seq(S)
    BY DEF CanIsSeq
  <1>2. Len(st) \in Nat /\ Len(st) >= 1 /\ DOMAIN st = 1..Len(st)
    BY <1>1, LenProperties, EmptySeq
  <1>3. Front(st) = SubSeq(st, 1, Len(st) - 1) /\ Last(st) = st[Len(st)]
    BY DEF Front, Last
  <1>4. \A i \in 1..(Len(st) - 1) : st[i] \in S
    BY <1>1, <1>2, ElementOfSeq
  <1>5. Len(st) - 1 \in Int /\ 1 \in Int
    BY <1>2
  <1> DEFINE n == Len(st) - 1
  <1>6. n \in Int /\ \A i \in 1..n : st[i] \in S
    BY <1>4, <1>5
  <1>7. /\ SubSeq(st, 1, n) \in Seq(S)
        /\ Len(SubSeq(st, 1, n)) = IF 1 <= n THEN n - 1 + 1 ELSE 0
        /\ \A i \in 1..(n - 1 + 1) : SubSeq(st, 1, n)[i] = st[1 + i - 1]
    <2> HIDE DEF n
    <2> QED
      BY <1>5, <1>6, SubSeqProperties
  <1>8. CanIsSeq(Front(st))
    BY <1>3, <1>7 DEF CanIsSeq
  <1>9. Len(Front(st)) = Len(st) - 1
    BY <1>2, <1>3, <1>7
  <1>10. \A i \in 1..(Len(st) - 1) : Front(st)[i] = st[i]
    BY <1>2, <1>3, <1>7
  <1> QED
    BY <1>2, <1>3, <1>8, <1>9, <1>10

(* Two stacks are the same frame by frame. *)
LEMMA CanStackEqual ==
  ASSUME NEW a, NEW b, CanIsSeq(a), CanIsSeq(b), Len(a) = Len(b),
         \A i \in 1..Len(a) : a[i] = b[i]
  PROVE  a = b
  <1>1. PICK S : a \in Seq(S)
    BY DEF CanIsSeq
  <1>2. PICK R : b \in Seq(R)
    BY DEF CanIsSeq
  <1>3. S \subseteq S \cup R /\ R \subseteq S \cup R
    OBVIOUS
  <1>4. a \in Seq(S \cup R) /\ b \in Seq(S \cup R)
    BY <1>1, <1>2, <1>3, SeqMonotonic
  <1> QED
    BY <1>4, SeqEqual

(* A frame pushed is the top, and what was there is below. *)
LEMMA CanStackPush ==
  ASSUME NEW st, CanIsSeq(st), NEW f
  PROVE  /\ CanIsSeq(Append(st, f)) /\ Append(st, f) # <<>>
         /\ Len(st) \in Nat /\ Len(Append(st, f)) = Len(st) + 1
         /\ \A i \in 1..Len(st) : Append(st, f)[i] = st[i]
         /\ Last(Append(st, f)) = f /\ Front(Append(st, f)) = st
  <1>1. PICK S : st \in Seq(S)
    BY DEF CanIsSeq
  <1> DEFINE U == S \cup {f}
  <1>2. st \in Seq(U) /\ f \in U
    BY <1>1, SeqMonotonic, S \subseteq U
  <1> HIDE DEF U
  <1>3. /\ Append(st, f) \in Seq(U) /\ Append(st, f) # <<>> /\ Len(Append(st, f)) = Len(st) + 1
        /\ \A i \in 1..Len(st) : Append(st, f)[i] = st[i]
        /\ Append(st, f)[Len(st) + 1] = f
    BY <1>2, AppendProperties
  <1>4. CanIsSeq(Append(st, f)) /\ Len(st) \in Nat
    BY <1>2, <1>3, LenProperties DEF CanIsSeq
  <1> DEFINE g == Append(st, f)
  <1>5. CanIsSeq(g) /\ g # <<>> /\ Len(g) = Len(st) + 1 /\ \A i \in 1..Len(st) : g[i] = st[i]
    BY <1>3, <1>4
  <1>6. g[Len(g)] = f
    BY <1>3
  <1> HIDE DEF g
  <1>7. /\ CanIsSeq(Front(g)) /\ Len(Front(g)) = Len(g) - 1
        /\ \A i \in 1..(Len(g) - 1) : Front(g)[i] = g[i]
        /\ Last(g) = g[Len(g)]
    BY <1>5, CanStackTop
  <1>8. Len(Front(g)) = Len(st) /\ \A i \in 1..Len(st) : Front(g)[i] = st[i]
    BY <1>4, <1>5, <1>7
  <1>9. Front(g) = st
    BY <1>7, <1>8, CanStackEqual
  <1> QED
    BY <1>3, <1>4, <1>6, <1>7, <1>9 DEF g
\* What an open container has read: its mark and the items or entries before the
\* one it is at, or all of them and no comma, or a key and its colon too.
CanOpener(f) == IF f.is = "array" THEN "[" ELSE "{"
CanCloser(f) == IF f.is = "array" THEN "]" ELSE "}"
CanKind(f) == IF f.is = "array" THEN "elements" ELSE "members"
CanBegun(f, s) ==
  \/ f.of = <<>> /\ s = CanOne(CanOpener(f))
  \/ \E m : CanDerives(CanKind(f), f.of, m) /\ s = CanCat(CanOne(CanOpener(f)), CanCat(m, CanOne(",")))
CanHeld(f, s) == \E m : CanDerives(CanKind(f), f.of, m) /\ s = CanCat(CanOne(CanOpener(f)), m)
CanKeyed(f, s) ==
  \E b \in CanSource : CanBegun(f, b) /\ f.key \in CanKeys /\ CanFresh(f.of, f.key) /\ s = CanCat(b, CanOne(f.key))
CanPart(f, s) ==
  /\ f.wants \in {"first item", "first key"} => f.of = <<>> /\ s = CanOne(CanOpener(f))
  /\ f.wants \in {"item", "key"} => CanBegun(f, s)
  /\ f.wants = "colon" => CanKeyed(f, s)
  /\ f.wants = "value" => \E b \in CanSource : CanKeyed(f, b) /\ s = CanCat(b, CanOne(":"))
  /\ f.wants = "separator" => CanHeld(f, s)

\* What an open container still needs once the value it asked for is read: its
\* end, or a comma, more of the same and its end.
CanArrayTail(s) ==
  s = CanOne("]") \/ \E e : CanAreElements(e) /\ s = CanCat(CanOne(","), CanCat(e, CanOne("]")))
CanObjectTail(K, s) ==
  \/ s = CanOne("}")
  \/ \E L, m : CanAreMembers(L, m) /\ L \cap K = {} /\ s = CanCat(CanOne(","), CanCat(m, CanOne("}")))
CanAfter(f, s) ==
  IF f.is = "array" THEN CanArrayTail(s) ELSE CanObjectTail(CanKeysOf(f.of) \cup {f.key}, s)

\* A container's share of the text: read after what is below it on the stack,
\* needed before what is below it needs its own.
CanLayer(way, f, a, s, b) ==
  IF way = "read" THEN b = CanCat(a, s) /\ CanPart(f, s) ELSE b = CanCat(s, a) /\ CanAfter(f, s)
CanLayers(way, st, whole) ==
  \E P \in [0..Len(st) -> CanSource] :
    /\ P[0] = <<>> /\ P[Len(st)] = whole
    /\ \A i \in 1..Len(st) : \E s \in CanSource : CanLayer(way, st[i], P[i - 1], s, P[i])

(* Nothing is read or needed by no container. *)
LEMMA CanLayersEmpty ==
  ASSUME NEW way
  PROVE  /\ CanLayers(way, <<>>, <<>>)
         /\ \A b : CanLayers(way, <<>>, b) => b = <<>>
  <1>1. Len(<<>>) = 0 /\ <<>> \in CanSource
    BY EmptySeq DEF CanSource
  <1> DEFINE P == [i \in 0..0 |-> <<>>]
  <1>2. P \in [0..0 -> CanSource] /\ P[0] = <<>>
    BY <1>1
  <1> HIDE DEF P
  <1>3. CanLayers(way, <<>>, <<>>)
    BY <1>1, <1>2 DEF CanLayers
  <1>4. ASSUME NEW b, CanLayers(way, <<>>, b) PROVE b = <<>>
    BY <1>1, <1>4 DEF CanLayers
  <1> QED
    BY <1>3, <1>4

(* A container opens on top of the others. *)
LEMMA CanLayersPush ==
  ASSUME NEW way, NEW st, CanIsSeq(st), NEW a, CanLayers(way, st, a),
         NEW f, NEW s \in CanSource, NEW b \in CanSource, CanLayer(way, f, a, s, b)
  PROVE  CanLayers(way, Append(st, f), b)
  <1>1. PICK P \in [0..Len(st) -> CanSource] :
          /\ P[0] = <<>> /\ P[Len(st)] = a
          /\ \A i \in 1..Len(st) : \E x \in CanSource : CanLayer(way, st[i], P[i - 1], x, P[i])
    BY DEF CanLayers
  <1> DEFINE n == Len(st)
             g == Append(st, f)
             Q == [i \in 0..(n + 1) |-> IF i <= n THEN P[i] ELSE b]
  <1>2. n \in Nat /\ Len(g) = n + 1 /\ (\A i \in 1..n : g[i] = st[i]) /\ Last(g) = f
    BY CanStackPush
  <1>3. g[n + 1] = f
    BY <1>2 DEF Last
  <1>4. Q \in [0..(n + 1) -> CanSource]
    BY <1>1, <1>2
  <1>5. Q[0] = <<>> /\ Q[n + 1] = b /\ Q[n] = a /\ \A i \in 1..n : Q[i] = P[i] /\ Q[i - 1] = P[i - 1]
    BY <1>1, <1>2
  <1> HIDE DEF Q, n, g
  <1>6. ASSUME NEW i \in 1..(n + 1)
        PROVE  \E x \in CanSource : CanLayer(way, g[i], Q[i - 1], x, Q[i])
    <2>1. CASE i \in 1..n
      BY <1>1, <1>2, <1>5, <2>1 DEF n
    <2>2. CASE i = n + 1
      <3>1. i - 1 = n
        BY <1>2, <2>2
      <3> QED
        BY <1>3, <1>5, <2>2, <3>1
    <2> QED
      BY <1>2, <2>1, <2>2
  <1>7. CanLayers(way, g, b)
    BY <1>2, <1>4, <1>5, <1>6 DEF CanLayers
  <1> QED
    BY <1>7 DEF g

(* The top container's share can be taken off. *)
LEMMA CanLayersPop ==
  ASSUME NEW way, NEW st, CanIsSeq(st), st # <<>>, NEW b, CanLayers(way, st, b)
  PROVE  \E a \in CanSource, s \in CanSource :
           CanLayers(way, Front(st), a) /\ CanLayer(way, Last(st), a, s, b)
  <1>1. PICK P \in [0..Len(st) -> CanSource] :
          /\ P[0] = <<>> /\ P[Len(st)] = b
          /\ \A i \in 1..Len(st) : \E x \in CanSource : CanLayer(way, st[i], P[i - 1], x, P[i])
    BY DEF CanLayers
  <1> DEFINE n == Len(st)
             g == Front(st)
             Q == [i \in 0..(n - 1) |-> P[i]]
  <1>2. n \in Nat /\ n >= 1 /\ Len(g) = n - 1 /\ (\A i \in 1..(n - 1) : g[i] = st[i]) /\ Last(st) = st[n]
    BY CanStackTop
  <1>3. PICK s \in CanSource : CanLayer(way, st[n], P[n - 1], s, P[n])
    BY <1>1, <1>2
  <1>4. P[n - 1] \in CanSource /\ Q \in [0..(n - 1) -> CanSource]
    BY <1>1, <1>2
  <1>5. Q[0] = <<>> /\ Q[n - 1] = P[n - 1] /\ \A i \in 1..(n - 1) : Q[i] = P[i] /\ Q[i - 1] = P[i - 1]
    BY <1>1, <1>2
  <1> HIDE DEF Q, g
  <1>6. \A i \in 1..(n - 1) : \E x \in CanSource : CanLayer(way, g[i], Q[i - 1], x, Q[i])
    <2>1. \A i \in 1..(n - 1) : i \in 1..n
      BY <1>2
    <2> HIDE DEF n
    <2>2. \A i \in 1..n : \E x \in CanSource : CanLayer(way, st[i], P[i - 1], x, P[i])
      BY <1>1 DEF n
    <2> QED
      BY <1>2, <1>5, <2>1, <2>2
  <1>7. CanLayers(way, g, P[n - 1])
    <2> HIDE DEF n
    <2> QED
      BY <1>2, <1>4, <1>5, <1>6 DEF CanLayers
  <1> QED
    BY <1>1, <1>2, <1>3, <1>4, <1>7 DEF g

-----------------------------------------------------------------------------
(* The strict JSON parser: what it accepts *)

\* A frame the parser can have on its stack.
CanIsFrame(f) ==
  /\ CanIsSeq(f.of)
  /\ \/ f.is = "array" /\ f.wants \in {"first item", "item", "separator"}
     \/ f.is = "object" /\ f.wants \in {"first key", "key", "colon", "value", "separator"}

(* The marks of a container are tokens. *)
LEMMA CanMarksOf ==
  ASSUME NEW f
  PROVE  CanOpener(f) \in CanTokens /\ CanCloser(f) \in CanTokens
         /\ CanOne(CanOpener(f)) \in CanSource /\ CanOne(CanCloser(f)) \in CanSource
  <1>1. CanOpener(f) \in CanTokens /\ CanCloser(f) \in CanTokens
    BY CanTokensAre DEF CanOpener, CanCloser
  <1> QED
    BY <1>1, CanOneType

(* Frames of the same container have begun the same. *)
LEMMA CanBegunSame ==
  ASSUME NEW f, NEW g, g.is = f.is, g.of = f.of, NEW s
  PROVE  CanBegun(g, s) <=> CanBegun(f, s)
  BY DEF CanBegun, CanOpener, CanKind

\* A key is asked for.
CanAtKey(f) == f.wants \in {"first key", "key"}

(* readObject: a key is read. *)
LEMMA CanPartKey ==
  ASSUME NEW f, CanAtKey(f), NEW s \in CanSource, CanPart(f, s),
         NEW k \in CanKeys, CanFresh(f.of, k),
         NEW g, g.is = f.is, g.wants = "colon", g.of = f.of, g.key = k
  PROVE  CanPart(g, CanCat(s, CanOne(k)))
  <1>1. CanBegun(f, s)
    BY DEF CanAtKey, CanPart, CanBegun
  <1>2. CanBegun(g, s)
    BY <1>1, CanBegunSame
  <1>3. CanKeyed(g, CanCat(s, CanOne(k)))
    BY <1>2 DEF CanKeyed
  <1> QED
    BY <1>3 DEF CanPart

(* readObject: a colon is read. *)
LEMMA CanPartColon ==
  ASSUME NEW f, f.wants = "colon", NEW s \in CanSource, CanPart(f, s),
         NEW g, g.is = f.is, g.wants = "value", g.of = f.of, g.key = f.key
  PROVE  CanPart(g, CanCat(s, CanOne(":")))
  <1>1. CanKeyed(f, s)
    BY DEF CanPart
  <1>2. CanKeyed(g, s)
    BY <1>1, CanBegunSame DEF CanKeyed
  <1> QED
    BY <1>2 DEF CanPart

(* readObject, readArray: a comma is read. *)
LEMMA CanPartComma ==
  ASSUME NEW f, f.wants = "separator", NEW s \in CanSource, CanPart(f, s),
         NEW g, g.is = f.is, g.wants \in {"item", "key"}, g.of = f.of
  PROVE  CanPart(g, CanCat(s, CanOne(",")))
  <1>1. PICK m : CanDerives(CanKind(f), f.of, m) /\ s = CanCat(CanOne(CanOpener(f)), m)
    BY DEF CanPart, CanHeld
  <1>2. m \in CanSource
    BY <1>1, CanDerivesText
  <1>3. PICK c \in CanSource : c = CanOne(",")
    BY CanTokensAre, CanOneType
  <1>4. PICK o \in CanSource : o = CanOne(CanOpener(f))
    BY CanMarksOf
  <1>5. CanCat(CanCat(o, m), c) = CanCat(o, CanCat(m, c))
    BY <1>2, CanCatAssoc
  <1>6. CanCat(s, CanOne(",")) = CanCat(CanOne(CanOpener(f)), CanCat(m, CanOne(",")))
    BY <1>1, <1>3, <1>4, <1>5
  <1>7. CanBegun(f, CanCat(s, CanOne(",")))
    BY <1>1, <1>6 DEF CanBegun
  <1>8. CanBegun(g, CanCat(s, CanOne(",")))
    BY <1>7, CanBegunSame
  <1> QED
    BY <1>8 DEF CanPart

(* A container that closes is a value. *)
LEMMA CanPartClose ==
  ASSUME NEW f, NEW s \in CanSource, CanPart(f, s),
         \/ f.is = "array" /\ f.wants \in {"first item", "separator"}
         \/ f.is = "object" /\ f.wants \in {"first key", "separator"}
  PROVE  CanDerives("value", IF f.is = "array" THEN CanArray(f.of) ELSE CanObject(f.of),
                    CanCat(s, CanOne(CanCloser(f))))
  <1>1. CASE f.wants \in {"first item", "first key"}
    <2>1. f.of = <<>> /\ s = CanOne(CanOpener(f))
      BY <1>1 DEF CanPart
    <2>2. CASE f.is = "array"
      <3>1. CanOpener(f) = "[" /\ CanCloser(f) = "]"
        BY <2>2 DEF CanOpener, CanCloser
      <3> QED
        BY <2>1, <2>2, <3>1, CanRuleEmpty
    <2>3. CASE f.is = "object"
      <3>1. CanOpener(f) = "{" /\ CanCloser(f) = "}" /\ f.is # "array"
        BY <2>3 DEF CanOpener, CanCloser
      <3> QED
        BY <2>1, <3>1, CanRuleEmpty
    <2> QED
      BY <2>2, <2>3
  <1>2. CASE f.wants = "separator"
    <2>1. PICK m : CanDerives(CanKind(f), f.of, m) /\ s = CanCat(CanOne(CanOpener(f)), m)
      BY <1>2 DEF CanPart, CanHeld
    <2>2. m \in CanSource
      BY <2>1, CanDerivesText
    <2>3. PICK c \in CanSource : c = CanOne(CanCloser(f))
      BY CanMarksOf
    <2>4. PICK o \in CanSource : o = CanOne(CanOpener(f))
      BY CanMarksOf
    <2>5. CanCat(CanCat(o, m), c) = CanCat(o, CanCat(m, c))
      BY <2>2, CanCatAssoc
    <2>6. CanCat(s, CanOne(CanCloser(f))) = CanCat(CanOne(CanOpener(f)), CanCat(m, CanOne(CanCloser(f))))
      BY <2>1, <2>3, <2>4, <2>5
    <2>7. CASE f.is = "array"
      <3>1. CanOpener(f) = "[" /\ CanCloser(f) = "]" /\ CanKind(f) = "elements"
        BY <2>7 DEF CanOpener, CanCloser, CanKind
      <3>2. CanDerives("value", CanArray(f.of), CanBrackets(m))
        BY <2>1, <3>1, CanRuleArray
      <3>3. CanCat(s, CanOne(CanCloser(f))) = CanBrackets(m)
        BY <2>6, <3>1 DEF CanBrackets
      <3> QED
        BY <2>7, <3>2, <3>3
    <2>8. CASE f.is = "object"
      <3>1. CanOpener(f) = "{" /\ CanCloser(f) = "}" /\ CanKind(f) = "members" /\ f.is # "array"
        BY <2>8 DEF CanOpener, CanCloser, CanKind
      <3>2. CanDerives("value", CanObject(f.of), CanBraces(m))
        BY <2>1, <3>1, CanRuleObject
      <3>3. CanCat(s, CanOne(CanCloser(f))) = CanBraces(m)
        BY <2>6, <3>1 DEF CanBraces
      <3> QED
        BY <3>1, <3>2, <3>3
    <2> QED
      BY <2>7, <2>8
  <1> QED
    BY <1>1, <1>2

(* What has begun and then an item. *)
LEMMA CanBegunThen ==
  ASSUME NEW f, NEW m \in CanSource, NEW x \in CanSource
  PROVE  CanCat(CanCat(CanOne(CanOpener(f)), CanCat(m, CanOne(","))), x)
           = CanCat(CanOne(CanOpener(f)), CanThen(m, x))
  <1>1. PICK c \in CanSource : c = CanOne(",")
    BY CanTokensAre, CanOneType
  <1>2. PICK o \in CanSource : o = CanOne(CanOpener(f))
    BY CanMarksOf
  <1>3. PICK d \in CanSource : d = CanCat(m, c)
    BY CanCatType
  <1>4. CanCat(CanCat(o, d), x) = CanCat(o, CanCat(d, x))
    BY CanCatAssoc
  <1>5. CanCat(CanCat(m, c), x) = CanCat(m, CanCat(c, x))
    BY CanCatAssoc
  <1> QED
    BY <1>1, <1>2, <1>3, <1>4, <1>5 DEF CanThen

(* readArray: an item is read. *)
LEMMA CanBegunItem ==
  ASSUME NEW f, f.is = "array", NEW b, CanBegun(f, b), NEW v, NEW x, CanDerives("value", v, x),
         NEW g, g.is = "array", NEW of, of = Append(f.of, v), g.of = of
  PROVE  CanHeld(g, CanCat(b, x))
  <1>0. CanOpener(f) = "[" /\ CanKind(f) = "elements" /\ x \in CanSource
    BY CanDerivesText DEF CanOpener, CanKind
  <1>g. CanKind(g) = "elements" /\ CanOpener(g) = "["
    BY DEF CanKind, CanOpener
  <1>1. CASE f.of = <<>> /\ b = CanOne(CanOpener(f))
    <2>1. CanDerives("elements", <<v>>, x)
      BY CanRuleElement
    <2>2. of = <<v>>
      BY <1>1, CanSeqOne
    <2>3. CanDerives("elements", of, x)
      BY <2>1, <2>2
    <2> QED
      BY <1>0, <1>1, <1>g, <2>3 DEF CanHeld
  <1>2. CASE \E m : CanDerives(CanKind(f), f.of, m) /\ b = CanCat(CanOne(CanOpener(f)), CanCat(m, CanOne(",")))
    <2>1. PICK m : CanDerives(CanKind(f), f.of, m) /\ b = CanCat(CanOne(CanOpener(f)), CanCat(m, CanOne(",")))
      BY <1>2
    <2>2. m \in CanSource
      BY <2>1, CanDerivesText
    <2>3. CanCat(b, x) = CanCat(CanOne(CanOpener(f)), CanThen(m, x))
      BY <1>0, <2>1, <2>2, CanBegunThen
    <2>4. CanDerives("elements", Append(f.of, v), CanThen(m, x))
      BY <1>0, <2>1, CanRuleElements
    <2>5. CanDerives("elements", of, CanThen(m, x))
      BY <2>4
    <2> QED
      BY <1>0, <1>g, <2>3, <2>5 DEF CanHeld
  <1> QED
    BY <1>1, <1>2 DEF CanBegun

(* readArray: readValue returns an item. *)
LEMMA CanPartItem ==
  ASSUME NEW f, f.is = "array", f.wants \in {"first item", "item"}, NEW s, CanPart(f, s),
         NEW v, NEW x, CanDerives("value", v, x),
         NEW g, g.is = "array", g.wants = "separator", g.of = Append(f.of, v)
  PROVE  CanPart(g, CanCat(s, x))
  <1>1. CanBegun(f, s)
    BY DEF CanPart, CanBegun
  <1>2. CanHeld(g, CanCat(s, x))
    BY <1>1, CanBegunItem
  <1> QED
    BY <1>2 DEF CanPart

(* readObject: an entry is read. *)
LEMMA CanBegunEntry ==
  ASSUME NEW f, f.is = "object", NEW b, CanBegun(f, b), NEW k \in CanKeys, CanFresh(f.of, k),
         NEW v, NEW x, CanDerives("value", v, x),
         NEW g, g.is = "object", NEW of, of = Append(f.of, CanEntry(k, v)), g.of = of
  PROVE  CanHeld(g, CanCat(b, CanPair(k, x)))
  <1>0. CanOpener(f) = "{" /\ CanKind(f) = "members" /\ x \in CanSource
    BY CanDerivesText DEF CanOpener, CanKind
  <1>g. CanKind(g) = "members" /\ CanOpener(g) = "{"
    BY DEF CanKind, CanOpener
  <1>a. CanPair(k, x) \in CanSource
    BY <1>0, CanBuilt
  <1>1. CASE f.of = <<>> /\ b = CanOne(CanOpener(f))
    <2>1. CanDerives("members", <<CanEntry(k, v)>>, CanPair(k, x))
      BY CanRuleMember
    <2>2. of = <<CanEntry(k, v)>>
      BY <1>1, CanSeqOne
    <2>3. CanDerives("members", of, CanPair(k, x))
      BY <2>1, <2>2
    <2> QED
      BY <1>0, <1>1, <1>g, <2>3 DEF CanHeld
  <1>2. CASE \E m : CanDerives(CanKind(f), f.of, m) /\ b = CanCat(CanOne(CanOpener(f)), CanCat(m, CanOne(",")))
    <2>1. PICK m : CanDerives(CanKind(f), f.of, m) /\ b = CanCat(CanOne(CanOpener(f)), CanCat(m, CanOne(",")))
      BY <1>2
    <2>2. m \in CanSource
      BY <2>1, CanDerivesText
    <2>3. CanCat(b, CanPair(k, x)) = CanCat(CanOne(CanOpener(f)), CanThen(m, CanPair(k, x)))
      BY <1>a, <2>1, <2>2, CanBegunThen
    <2>4. CanDerives("members", Append(f.of, CanEntry(k, v)), CanThen(m, CanPair(k, x)))
      BY <1>0, <2>1, CanRuleMembers
    <2>5. CanDerives("members", of, CanThen(m, CanPair(k, x)))
      BY <2>4
    <2> QED
      BY <1>0, <1>g, <2>3, <2>5 DEF CanHeld
  <1> QED
    BY <1>1, <1>2 DEF CanBegun

(* A key and a colon and then a value. *)
LEMMA CanKeyThen ==
  ASSUME NEW b \in CanSource, NEW k \in CanKeys, NEW x \in CanSource
  PROVE  CanCat(CanCat(CanCat(b, CanOne(k)), CanOne(":")), x) = CanCat(b, CanPair(k, x))
  <1>1. PICK h \in CanSource : h = CanOne(k)
    BY CanTokensAre, CanOneType
  <1>2. PICK o \in CanSource : o = CanOne(":")
    BY CanTokensAre, CanOneType
  <1>3. PICK c \in CanSource : c = CanCat(b, h)
    BY CanCatType
  <1>4. CanCat(CanCat(c, o), x) = CanCat(c, CanCat(o, x))
    BY CanCatAssoc
  <1>5. PICK y \in CanSource : y = CanCat(o, x)
    BY CanCatType
  <1>6. CanCat(CanCat(b, h), y) = CanCat(b, CanCat(h, y))
    BY CanCatAssoc
  <1> QED
    BY <1>1, <1>2, <1>3, <1>4, <1>5, <1>6 DEF CanPair

(* readObject: readValue returns the value of an entry. *)
LEMMA CanPartEntry ==
  ASSUME NEW f, f.is = "object", f.wants = "value", NEW s, CanPart(f, s),
         NEW v, NEW x, CanDerives("value", v, x),
         NEW g, g.is = "object", g.wants = "separator", g.of = Append(f.of, CanEntry(f.key, v))
  PROVE  CanPart(g, CanCat(s, x))
  <1>1. PICK c \in CanSource : CanKeyed(f, c) /\ s = CanCat(c, CanOne(":"))
    BY DEF CanPart
  <1>2. PICK b \in CanSource : /\ CanBegun(f, b) /\ f.key \in CanKeys /\ CanFresh(f.of, f.key)
                               /\ c = CanCat(b, CanOne(f.key))
    BY <1>1 DEF CanKeyed
  <1>3. PICK k \in CanKeys : k = f.key
    BY <1>2
  <1>4. CanHeld(g, CanCat(b, CanPair(k, x)))
    BY <1>2, <1>3, CanBegunEntry
  <1>5. x \in CanSource
    BY CanDerivesText
  <1>6. CanCat(s, x) = CanCat(b, CanPair(k, x))
    BY <1>1, <1>2, <1>3, <1>5, CanKeyThen
  <1> QED
    BY <1>4, <1>6 DEF CanPart

-----------------------------------------------------------------------------
(* The strict JSON parser: where it is in the text *)

\* The tokens read and the tokens to read.
CanReadText == SubSeq(canText, 1, canOffset)
CanRestText == SubSeq(canText, canOffset + 1, Len(canText))

(* One more token is read. *)
LEMMA CanTokenRead ==
  ASSUME NEW t \in CanSource, NEW o \in Nat, o < Len(t)
  PROVE  /\ t[o + 1] \in CanTokens
         /\ SubSeq(t, 1, o) \in CanSource /\ SubSeq(t, 1, o + 1) \in CanSource
         /\ SubSeq(t, o + 1, Len(t)) \in CanSource /\ SubSeq(t, (o + 1) + 1, Len(t)) \in CanSource
         /\ SubSeq(t, 1, o + 1) = CanCat(SubSeq(t, 1, o), CanOne(t[o + 1]))
         /\ SubSeq(t, o + 1, Len(t)) = CanCat(CanOne(t[o + 1]), SubSeq(t, (o + 1) + 1, Len(t)))
  <1>1. t \in Seq(CanTokens) /\ Len(t) \in Nat
    BY LenProperties DEF CanSource
  <1>2. o + 1 \in 1..Len(t) /\ 1 \in 1..Len(t) /\ o + 1 \in 1..Len(t) /\ Len(t) \in (o + 1)..Len(t)
    BY <1>1
  <1>3. t[o + 1] \in CanTokens
    BY <1>1, <1>2, ElementOfSeq
  <1>4. \A a, b \in Nat : a >= 1 /\ b <= Len(t) => SubSeq(t, a, b) \in Seq(CanTokens)
    <2> TAKE a, b \in Nat
    <2> HAVE a >= 1 /\ b <= Len(t)
    <2>1. \A i \in a..b : t[i] \in CanTokens
      BY <1>1, ElementOfSeq
    <2>2. a \in Int /\ b \in Int
      OBVIOUS
    <2> QED
      BY <2>1, <2>2, SubSeqProperties
  <1>5. /\ SubSeq(t, 1, o) \in CanSource /\ SubSeq(t, 1, o + 1) \in CanSource
        /\ SubSeq(t, o + 1, Len(t)) \in CanSource /\ SubSeq(t, (o + 1) + 1, Len(t)) \in CanSource
    BY <1>1, <1>4 DEF CanSource
  <1>6. SubSeq(t, 1, o + 1) = SubSeq(t, 1, (o + 1) - 1) \o <<t[o + 1]>>
    BY <1>1, <1>2, SubSeqRecursiveSecond
  <1>7. SubSeq(t, o + 1, Len(t)) = <<t[o + 1]>> \o SubSeq(t, (o + 1) + 1, Len(t))
    BY <1>1, <1>2, SubSeqRecursiveFirst
  <1>8. (o + 1) - 1 = o
    OBVIOUS
  <1> QED
    BY <1>3, <1>5, <1>6, <1>7, <1>8 DEF CanCat, CanOne

(* Where reading starts and ends. *)
LEMMA CanTextEnds ==
  ASSUME NEW t \in CanSource
  PROVE  /\ Len(t) \in Nat
         /\ SubSeq(t, 1, 0) = <<>> /\ SubSeq(t, 0 + 1, Len(t)) = t
         /\ SubSeq(t, 1, Len(t)) = t /\ SubSeq(t, Len(t) + 1, Len(t)) = <<>>
  <1>1. t \in Seq(CanTokens) /\ Len(t) \in Nat
    BY LenProperties DEF CanSource
  <1>2. SubSeq(t, 1, Len(t)) = t
    BY <1>1, SubSeqFull
  <1>3. SubSeq(t, 1, 0) = <<>>
    BY SubSeqEmpty, 0 < 1
  <1>4. Len(t) + 1 \in Int /\ Len(t) \in Int /\ Len(t) < Len(t) + 1
    BY <1>1
  <1>5. SubSeq(t, Len(t) + 1, Len(t)) = <<>>
    BY <1>4, SubSeqEmpty
  <1> QED
    BY <1>1, <1>2, <1>3, <1>5

-----------------------------------------------------------------------------
(* The strict JSON parser: the stack and what was read *)

\* Frames that wait for a value, and a stack all of whose lower frames do.
CanAsks(f) == CanIsFrame(f) /\ f.wants \in {"first item", "item", "value"}
CanAsking(st) == CanIsSeq(st) /\ \A i \in 1..Len(st) : CanAsks(st[i])
CanStackFits(st) == CanIsSeq(st) /\ (st # <<>> => CanIsFrame(Last(st)) /\ CanAsking(Front(st)))

(* The stack is its top on what is below. *)
LEMMA CanStackWhole ==
  ASSUME NEW st, CanIsSeq(st), st # <<>>
  PROVE  Append(Front(st), Last(st)) = st
  <1> DEFINE n == Len(st)
             g == Front(st)
  <1>1. /\ n \in Nat /\ n >= 1 /\ CanIsSeq(g) /\ Len(g) = n - 1
        /\ (\A i \in 1..(n - 1) : g[i] = st[i]) /\ Last(st) = st[n]
    BY CanStackTop
  <1> HIDE DEF n, g
  <1>2. /\ CanIsSeq(Append(g, st[n])) /\ Len(Append(g, st[n])) = Len(g) + 1
        /\ \A i \in 1..Len(g) : Append(g, st[n])[i] = g[i]
        /\ Last(Append(g, st[n])) = st[n]
    BY <1>1, CanStackPush
  <1>3. Len(Append(g, st[n])) = n /\ Append(g, st[n])[n] = st[n]
    BY <1>1, <1>2 DEF Last
  <1>4. \A i \in 1..n : Append(g, st[n])[i] = st[i]
    <2> TAKE i \in 1..n
    <2>1. CASE i \in 1..(n - 1)
      BY <1>1, <1>2, <2>1
    <2>2. CASE i = n
      BY <1>3, <2>2
    <2> QED
      BY <1>1, <2>1, <2>2
  <1>5. Append(g, st[n]) = st
    BY <1>2, <1>3, <1>4, CanStackEqual DEF n
  <1> QED
    BY <1>1, <1>5 DEF g

(* The frames of a stack that waits for a value. *)
LEMMA CanAskingTop ==
  ASSUME NEW st, CanAsking(st), st # <<>>
  PROVE  CanAsks(Last(st)) /\ CanAsking(Front(st)) /\ CanIsSeq(st)
  <1> DEFINE n == Len(st)
  <1>0. CanIsSeq(st) /\ \A i \in 1..n : CanAsks(st[i])
    BY DEF CanAsking
  <1>1. /\ n \in Nat /\ n >= 1 /\ CanIsSeq(Front(st)) /\ Len(Front(st)) = n - 1
        /\ (\A i \in 1..(n - 1) : Front(st)[i] = st[i]) /\ Last(st) = st[n]
    BY <1>0, CanStackTop
  <1> HIDE DEF n
  <1>2. n \in 1..n /\ \A i \in 1..(n - 1) : i \in 1..n
    BY <1>1
  <1> QED
    BY <1>0, <1>1, <1>2 DEF CanAsking

(* A frame that waits for a value joins others that do. *)
LEMMA CanAskingPush ==
  ASSUME NEW st, CanAsking(st), NEW f, CanAsks(f)
  PROVE  CanAsking(Append(st, f))
  <1> DEFINE n == Len(st)
             g == Append(st, f)
  <1>0. CanIsSeq(st) /\ \A i \in 1..n : CanAsks(st[i])
    BY DEF CanAsking
  <1>1. /\ CanIsSeq(g) /\ n \in Nat /\ Len(g) = n + 1
        /\ (\A i \in 1..n : g[i] = st[i]) /\ Last(g) = f
    BY <1>0, CanStackPush
  <1> HIDE DEF n, g
  <1>2. g[n + 1] = f
    BY <1>1 DEF Last
  <1>3. \A i \in 1..(n + 1) : CanAsks(g[i])
    <2> TAKE i \in 1..(n + 1)
    <2>1. CASE i \in 1..n
      BY <1>0, <1>1, <2>1
    <2>2. CASE i = n + 1
      BY <1>2, <2>2
    <2> QED
      BY <1>1, <2>1, <2>2
  <1>4. CanAsking(g)
    BY <1>1, <1>3 DEF CanAsking
  <1> QED
    BY <1>4 DEF g

(* A stack whose top waits for a value waits for a value. *)
LEMMA CanAskingWhole ==
  ASSUME NEW st, CanStackFits(st), st = <<>> \/ Last(st).wants \in {"first item", "item", "value"}
  PROVE  CanAsking(st)
  <1>1. CASE st = <<>>
    <2>1. Len(st) = 0
      BY <1>1
    <2> QED
      BY <2>1 DEF CanAsking, CanStackFits
  <1>2. CASE st # <<>>
    <2>1. CanIsSeq(st) /\ CanAsks(Last(st)) /\ CanAsking(Front(st))
      BY <1>2 DEF CanStackFits, CanAsks
    <2>2. CanAsking(Append(Front(st), Last(st)))
      BY <2>1, CanAskingPush
    <2> QED
      BY <1>2, <2>1, <2>2, CanStackWhole
  <1> QED
    BY <1>1, <1>2

(* Any frame fits on a stack that waits for a value. *)
LEMMA CanStackFitsPush ==
  ASSUME NEW st, CanAsking(st), NEW f, CanIsFrame(f)
  PROVE  CanStackFits(Append(st, f)) /\ Append(st, f) # <<>>
  <1>1. CanIsSeq(st)
    BY DEF CanAsking
  <1>2. /\ CanIsSeq(Append(st, f)) /\ Append(st, f) # <<>>
        /\ Last(Append(st, f)) = f /\ Front(Append(st, f)) = st
    BY <1>1, CanStackPush
  <1> QED
    BY <1>2 DEF CanStackFits

\* What readValue leaves when it returns v to the stack.
CanReturnRead(f, v) == IF f.is = "array" THEN v ELSE CanEntry(f.key, v)
CanReturnFrame(f, v) == CanFrame(f.is, "separator", Append(f.of, CanReturnRead(f, v)), f.key)
CanReturnStack(st, v) == IF st = <<>> THEN <<>> ELSE Append(Front(st), CanReturnFrame(Last(st), v))
CanReturnRoot(st, v) == IF st = <<>> THEN v ELSE CanNothing

(* Its fields. *)
LEMMA CanReturnFields ==
  ASSUME NEW f, NEW v
  PROVE  /\ CanReturnFrame(f, v).is = f.is /\ CanReturnFrame(f, v).wants = "separator"
         /\ CanReturnFrame(f, v).of = Append(f.of, CanReturnRead(f, v))
  BY DEF CanReturnFrame, CanFrame

(* It is a frame. *)
LEMMA CanReturnFrameIs ==
  ASSUME NEW f, CanIsFrame(f), NEW v
  PROVE  CanIsFrame(CanReturnFrame(f, v))
  <1> DEFINE g == CanReturnFrame(f, v)
             r == CanReturnRead(f, v)
  <1>1. g.is = f.is /\ g.wants = "separator" /\ g.of = Append(f.of, r)
    BY CanReturnFields
  <1> HIDE DEF g, r
  <1>2. CanIsSeq(Append(f.of, r))
    BY CanSeqGrows DEF CanIsFrame
  <1>3. f.is = "array" \/ f.is = "object"
    BY DEF CanIsFrame
  <1>4. CanIsFrame(g)
    BY <1>1, <1>2, <1>3 DEF CanIsFrame
  <1> QED
    BY <1>4 DEF g

\* What was read is the root's text, or shared out among the open containers.
CanReads(st, root, text) ==
  \/ root = CanNothing /\ CanLayers("read", st, text)
  \/ st = <<>> /\ root # CanNothing /\ CanDerives("value", root, text)

(* The top container reads on. *)
LEMMA CanReadsTop ==
  ASSUME NEW st, CanIsSeq(st), st # <<>>, NEW a \in CanSource, CanLayers("read", st, a),
         NEW x \in CanSource, NEW g,
         \A s \in CanSource : CanPart(Last(st), s) => CanPart(g, CanCat(s, x))
  PROVE  CanLayers("read", Append(Front(st), g), CanCat(a, x))
  <1>1. PICK b \in CanSource, s \in CanSource :
          CanLayers("read", Front(st), b) /\ CanLayer("read", Last(st), b, s, a)
    BY CanLayersPop
  <1>2. a = CanCat(b, s) /\ CanPart(Last(st), s)
    BY <1>1 DEF CanLayer
  <1>3. CanPart(g, CanCat(s, x))
    BY <1>2
  <1>4. CanCat(s, x) \in CanSource /\ CanCat(a, x) \in CanSource
    BY CanCatType
  <1>5. CanCat(a, x) = CanCat(b, CanCat(s, x))
    BY <1>2, CanCatAssoc
  <1>6. CanLayer("read", g, b, CanCat(s, x), CanCat(a, x))
    BY <1>3, <1>5 DEF CanLayer
  <1>7. CanIsSeq(Front(st))
    BY CanStackTop
  <1> QED
    BY <1>1, <1>4, <1>6, <1>7, CanLayersPush

(* readValue returns. *)
LEMMA CanReadsReturn ==
  ASSUME NEW st, CanAsking(st), NEW a \in CanSource, CanLayers("read", st, a),
         NEW v, v # CanNothing, NEW x, CanDerives("value", v, x)
  PROVE  CanReads(CanReturnStack(st, v), CanReturnRoot(st, v), CanCat(a, x))
  <1>0. x \in CanSource
    BY CanDerivesText
  <1>1. CASE st = <<>>
    <2>1. a = <<>>
      BY <1>1, CanLayersEmpty
    <2>2. CanCat(a, x) = x
      BY <1>0, <2>1, CanCatNil
    <2>3. CanReturnStack(st, v) = <<>> /\ CanReturnRoot(st, v) = v
      BY <1>1 DEF CanReturnStack, CanReturnRoot
    <2> QED
      BY <2>2, <2>3 DEF CanReads
  <1>2. CASE st # <<>>
    <2> DEFINE f == Last(st)
               g == CanReturnFrame(f, v)
    <2>1. CanAsks(f) /\ CanIsSeq(st)
      BY <1>2, CanAskingTop
    <2>2. g.is = f.is /\ g.wants = "separator" /\ g.of = Append(f.of, CanReturnRead(f, v))
      BY CanReturnFields
    <2>r. CanReturnStack(st, v) = Append(Front(st), g) /\ CanReturnRoot(st, v) = CanNothing
      BY <1>2 DEF CanReturnStack, CanReturnRoot
    <2> HIDE DEF f, g
    <2>3. ASSUME NEW s \in CanSource, CanPart(f, s) PROVE CanPart(g, CanCat(s, x))
      <3>1. CASE f.is = "array"
        <4>1. f.wants \in {"first item", "item"} /\ g.of = Append(f.of, v) /\ g.is = "array" /\ g.wants = "separator"
          BY <2>1, <2>2, <3>1 DEF CanAsks, CanIsFrame, CanReturnRead
        <4> QED
          BY <2>3, <3>1, <4>1, CanPartItem
      <3>2. CASE f.is = "object"
        <4>1. f.wants = "value" /\ g.of = Append(f.of, CanEntry(f.key, v)) /\ g.is = "object" /\ g.wants = "separator"
          BY <2>1, <2>2, <3>2 DEF CanAsks, CanIsFrame, CanReturnRead
        <4> QED
          BY <2>3, <3>2, <4>1, CanPartEntry
      <3> QED
        BY <2>1, <3>1, <3>2 DEF CanAsks, CanIsFrame
    <2>4. CanLayers("read", Append(Front(st), g), CanCat(a, x))
      BY <1>0, <1>2, <2>1, <2>3, CanReadsTop DEF f
    <2> QED
      BY <2>4, <2>r DEF CanReads
  <1> QED
    BY <1>1, <1>2

-----------------------------------------------------------------------------
(* The strict JSON parser: what it needs to read *)

\* What an open container needs from where it is.
CanItems(s) == \E e : CanAreElements(e) /\ s = CanCat(e, CanOne("]"))
CanEntries(K, s) == \E L, m : CanAreMembers(L, m) /\ L \cap K = {} /\ s = CanCat(m, CanOne("}"))
CanValued(K, s) == \E x, y : CanIsValue(x) /\ CanObjectTail(K, y) /\ s = CanCat(x, y)
CanNeedsArray(wants, s) ==
  /\ wants = "first item" => s = CanOne("]") \/ CanItems(s)
  /\ wants = "item" => CanItems(s)
  /\ wants = "separator" => CanArrayTail(s)
CanNeedsObject(wants, K, key, s) ==
  /\ wants = "first key" => s = CanOne("}") \/ CanEntries(K, s)
  /\ wants = "key" => CanEntries(K, s)
  /\ wants = "colon" => \E y : CanValued(K \cup {key}, y) /\ s = CanCat(CanOne(":"), y)
  /\ wants = "value" => CanValued(K \cup {key}, s)
  /\ wants = "separator" => CanObjectTail(K, s)
CanNeeds(f, s) ==
  IF f.is = "array" THEN CanNeedsArray(f.wants, s)
  ELSE CanNeedsObject(f.wants, CanKeysOf(f.of), f.key, s)

(* What a container still needs is a text. *)
LEMMA CanTailText ==
  /\ \A s : CanArrayTail(s) => s \in CanSource
  /\ \A K, s : CanObjectTail(K, s) => s \in CanSource
  <1>1. CanOne(",") \in CanSource /\ CanOne("]") \in CanSource /\ CanOne("}") \in CanSource
    BY CanTokensAre, CanOneType
  <1>2. ASSUME NEW s, CanArrayTail(s) PROVE s \in CanSource
    BY <1>1, <1>2, CanAreTexts, CanCatType DEF CanArrayTail
  <1>3. ASSUME NEW K, NEW s, CanObjectTail(K, s) PROVE s \in CanSource
    BY <1>1, <1>3, CanAreTexts, CanCatType DEF CanObjectTail
  <1> QED
    BY <1>2, <1>3

(* Items are a value and what an array needs after it. *)
LEMMA CanItemsFirst ==
  ASSUME NEW s, CanItems(s)
  PROVE  \E x \in CanSource, y \in CanSource : CanIsValue(x) /\ CanArrayTail(y) /\ s = CanCat(x, y)
  <1>1. PICK e : CanAreElements(e) /\ s = CanCat(e, CanOne("]"))
    BY DEF CanItems
  <1>2. PICK c \in CanSource : c = CanOne("]")
    BY CanTokensAre, CanOneType
  <1>3. CanElementsShape(e)
    BY <1>1, CanShapes
  <1>4. CASE CanIsValue(e)
    <2>1. CanArrayTail(c) /\ e \in CanSource
      BY <1>2, <1>4, CanAreTexts DEF CanArrayTail
    <2> QED
      BY <1>1, <1>2, <1>4, <2>1
  <1>5. CASE \E x, d : CanIsValue(x) /\ CanAreElements(d) /\ e = CanThen(x, d)
    <2>1. PICK x, d : CanIsValue(x) /\ CanAreElements(d) /\ e = CanThen(x, d)
      BY <1>5
    <2>2. x \in CanSource /\ d \in CanSource
      BY <2>1, CanAreTexts
    <2>3. PICK p \in CanSource : p = CanOne(",")
      BY CanTokensAre, CanOneType
    <2>4. PICK q \in CanSource : q = CanCat(p, d)
      BY <2>2, CanCatType
    <2>5. CanCat(CanCat(x, q), c) = CanCat(x, CanCat(q, c))
      BY <2>2, CanCatAssoc
    <2>6. CanCat(CanCat(p, d), c) = CanCat(p, CanCat(d, c))
      BY <2>2, CanCatAssoc
    <2>7. PICK y : y = CanCat(p, CanCat(d, c))
      OBVIOUS
    <2>8. CanArrayTail(y)
      BY <1>2, <2>1, <2>3, <2>7 DEF CanArrayTail
    <2>9. y \in CanSource
      BY <2>8, CanTailText
    <2>10. s = CanCat(x, y)
      BY <1>1, <1>2, <2>1, <2>3, <2>4, <2>5, <2>6, <2>7 DEF CanThen
    <2> QED
      BY <2>1, <2>2, <2>8, <2>9, <2>10
  <1> QED
    BY <1>3, <1>4, <1>5 DEF CanElementsShape

(* A value and what follows, put after a key. *)
LEMMA CanPairThen ==
  ASSUME NEW k \in CanKeys, NEW x \in CanSource, NEW y \in CanSource
  PROVE  CanCat(CanPair(k, x), y) = CanCat(CanOne(k), CanCat(CanOne(":"), CanCat(x, y)))
  <1>1. PICK h \in CanSource : h = CanOne(k)
    BY CanTokensAre, CanOneType
  <1>2. PICK o \in CanSource : o = CanOne(":")
    BY CanTokensAre, CanOneType
  <1>3. PICK c \in CanSource : c = CanCat(o, x)
    BY CanCatType
  <1>4. CanCat(CanCat(h, c), y) = CanCat(h, CanCat(c, y))
    BY CanCatAssoc
  <1>5. CanCat(CanCat(o, x), y) = CanCat(o, CanCat(x, y))
    BY CanCatAssoc
  <1> QED
    BY <1>1, <1>2, <1>3, <1>4, <1>5 DEF CanPair

(* Entries are a key none of the others has, a colon, a value and what an   *)
(* object needs after it.                                                    *)
LEMMA CanEntriesFirst ==
  ASSUME NEW K, NEW s, CanEntries(K, s)
  PROVE  \E k \in CanKeys, y \in CanSource :
           k \notin K /\ CanValued(K \cup {k}, y) /\ s = CanCat(CanOne(k), CanCat(CanOne(":"), y))
  <1>1. PICK L, m : CanAreMembers(L, m) /\ L \cap K = {} /\ s = CanCat(m, CanOne("}"))
    BY DEF CanEntries
  <1>2. PICK c \in CanSource : c = CanOne("}")
    BY CanTokensAre, CanOneType
  <1>3. CanMembersShape(L, m)
    BY <1>1, CanShapes
  <1>4. PICK k, x : /\ k \in CanKeys /\ CanIsValue(x)
                    /\ \/ L = {k} /\ m = CanPair(k, x)
                       \/ \E G, d : CanAreMembers(G, d) /\ k \notin G /\ L = G \cup {k} /\ m = CanThen(CanPair(k, x), d)
    BY <1>3 DEF CanMembersShape
  <1>5. x \in CanSource /\ k \notin K
    BY <1>1, <1>4, CanAreTexts
  <1>6. ASSUME NEW t \in CanSource, CanObjectTail(K \cup {k}, t), s = CanCat(CanPair(k, x), t)
        PROVE  \E y \in CanSource : CanValued(K \cup {k}, y) /\ s = CanCat(CanOne(k), CanCat(CanOne(":"), y))
    <2>1. PICK y \in CanSource : y = CanCat(x, t)
      BY <1>5, CanCatType
    <2>2. CanValued(K \cup {k}, y)
      BY <1>4, <1>6, <2>1 DEF CanValued
    <2>3. s = CanCat(CanOne(k), CanCat(CanOne(":"), y))
      BY <1>4, <1>5, <1>6, <2>1, CanPairThen
    <2> QED
      BY <2>2, <2>3
  <1>7. CASE L = {k} /\ m = CanPair(k, x)
    <2>1. CanObjectTail(K \cup {k}, c)
      BY <1>2 DEF CanObjectTail
    <2>2. s = CanCat(CanPair(k, x), c)
      BY <1>1, <1>2, <1>7
    <2> QED
      BY <1>4, <1>5, <1>6, <2>1, <2>2
  <1>8. CASE \E G, d : CanAreMembers(G, d) /\ k \notin G /\ L = G \cup {k} /\ m = CanThen(CanPair(k, x), d)
    <2>1. PICK G, d : CanAreMembers(G, d) /\ k \notin G /\ L = G \cup {k} /\ m = CanThen(CanPair(k, x), d)
      BY <1>8
    <2>2. d \in CanSource
      BY <2>1, CanAreTexts
    <2>3. PICK p \in CanSource : p = CanOne(",")
      BY CanTokensAre, CanOneType
    <2>4. PICK a \in CanSource : a = CanPair(k, x)
      BY <1>4, <1>5, CanBuilt
    <2>5. PICK q \in CanSource : q = CanCat(p, d)
      BY <2>2, CanCatType
    <2>6. CanCat(CanCat(a, q), c) = CanCat(a, CanCat(q, c))
      BY CanCatAssoc
    <2>7. CanCat(CanCat(p, d), c) = CanCat(p, CanCat(d, c))
      BY <2>2, CanCatAssoc
    <2>8. PICK t : t = CanCat(p, CanCat(d, c))
      OBVIOUS
    <2>9. G \cap (K \cup {k}) = {}
      BY <1>1, <2>1
    <2>10. CanObjectTail(K \cup {k}, t)
      BY <1>2, <2>1, <2>3, <2>8, <2>9 DEF CanObjectTail
    <2>11. t \in CanSource
      BY <2>10, CanTailText
    <2>12. s = CanCat(CanPair(k, x), t)
      BY <1>1, <1>2, <2>1, <2>3, <2>4, <2>5, <2>6, <2>7, <2>8 DEF CanThen
    <2> QED
      BY <1>4, <1>5, <1>6, <2>10, <2>11, <2>12
  <1> QED
    BY <1>4, <1>7, <1>8

(* A value is a scalar, or a mark that opens a container and what it needs. *)
LEMMA CanValueOpens ==
  ASSUME NEW x, CanIsValue(x)
  PROVE  \/ \E t \in CanScalars \cup CanKeys : x = CanOne(t)
         \/ \E y \in CanSource : x = CanCat(CanOne("["), y) /\ (y = CanOne("]") \/ CanItems(y))
         \/ \E y \in CanSource : x = CanCat(CanOne("{"), y) /\ (y = CanOne("}") \/ CanEntries({}, y))
  <1>0. CanOne("]") \in CanSource /\ CanOne("}") \in CanSource
    BY CanTokensAre, CanOneType
  <1>1. CanValueShape(x)
    BY CanValueShapes
  <1>2. CASE \E e : CanAreElements(e) /\ x = CanBrackets(e)
    <2>1. PICK e : CanAreElements(e) /\ x = CanBrackets(e)
      BY <1>2
    <2>2. e \in CanSource
      BY <2>1, CanAreTexts
    <2>3. PICK y \in CanSource : y = CanCat(e, CanOne("]"))
      BY <1>0, <2>2, CanCatType
    <2>4. CanItems(y)
      BY <2>1, <2>3 DEF CanItems
    <2>5. x = CanCat(CanOne("["), y)
      BY <2>1, <2>3 DEF CanBrackets
    <2> QED
      BY <2>4, <2>5
  <1>3. CASE \E K, m : CanAreMembers(K, m) /\ x = CanBraces(m)
    <2>1. PICK K, m : CanAreMembers(K, m) /\ x = CanBraces(m)
      BY <1>3
    <2>2. m \in CanSource
      BY <2>1, CanAreTexts
    <2>3. PICK y \in CanSource : y = CanCat(m, CanOne("}"))
      BY <1>0, <2>2, CanCatType
    <2>4. K \cap {} = {}
      OBVIOUS
    <2>5. CanEntries({}, y)
      BY <2>1, <2>3, <2>4 DEF CanEntries
    <2>6. x = CanCat(CanOne("{"), y)
      BY <2>1, <2>3 DEF CanBraces
    <2> QED
      BY <2>5, <2>6
  <1> QED
    BY <1>0, <1>1, <1>2, <1>3 DEF CanValueShape

\* What comes next in what a container needs.
CanComesClose(f, s) == s = CanOne(CanCloser(f)) /\ f.wants \in {"first item", "first key", "separator"}
CanComesValue(f, s) ==
  CanAsks(f) /\ \E x \in CanSource, y \in CanSource : CanIsValue(x) /\ CanAfter(f, y) /\ s = CanCat(x, y)
CanComesKey(f, s) ==
  /\ f.is = "object" /\ f.wants \in {"first key", "key"}
  /\ \E k \in CanKeys, y \in CanSource :
       /\ k \notin CanKeysOf(f.of) /\ CanValued(CanKeysOf(f.of) \cup {k}, y)
       /\ s = CanCat(CanOne(k), CanCat(CanOne(":"), y))
CanComesColon(f, s) ==
  /\ f.is = "object" /\ f.wants = "colon"
  /\ \E y \in CanSource : CanValued(CanKeysOf(f.of) \cup {f.key}, y) /\ s = CanCat(CanOne(":"), y)
CanComesComma(f, s) ==
  /\ f.wants = "separator"
  /\ \E y \in CanSource :
       /\ f.is = "array" => CanItems(y)
       /\ f.is = "object" => CanEntries(CanKeysOf(f.of), y)
       /\ s = CanCat(CanOne(","), y)

(* A value, what a container needs after it, is a text. *)
LEMMA CanValuedText ==
  ASSUME NEW K, NEW s, CanValued(K, s)
  PROVE  s \in CanSource
  BY CanAreTexts, CanTailText, CanCatType DEF CanValued

(* Items and entries are texts. *)
LEMMA CanItemsText ==
  /\ \A s : CanItems(s) => s \in CanSource
  /\ \A K, s : CanEntries(K, s) => s \in CanSource
  <1>1. CanOne("]") \in CanSource /\ CanOne("}") \in CanSource
    BY CanTokensAre, CanOneType
  <1> QED
    BY <1>1, CanAreTexts, CanCatType DEF CanItems, CanEntries

(* An array needs its end, an item or a comma. *)
LEMMA CanArrayComes ==
  ASSUME NEW f, CanIsFrame(f), f.is = "array", NEW s, CanNeeds(f, s)
  PROVE  CanComesClose(f, s) \/ CanComesValue(f, s) \/ CanComesComma(f, s)
  <1>0. CanCloser(f) = "]" /\ CanNeedsArray(f.wants, s) /\ f.wants \in {"first item", "item", "separator"}
    BY DEF CanCloser, CanNeeds, CanIsFrame
  <1>1. CASE f.wants \in {"first item", "item"}
    <2>1. (f.wants = "first item" /\ s = CanOne("]")) \/ CanItems(s)
      BY <1>0, <1>1 DEF CanNeedsArray
    <2>2. CASE f.wants = "first item" /\ s = CanOne("]")
      BY <1>0, <2>2 DEF CanComesClose
    <2>3. CASE CanItems(s)
      <3>1. PICK x \in CanSource, y \in CanSource : CanIsValue(x) /\ CanArrayTail(y) /\ s = CanCat(x, y)
        BY <2>3, CanItemsFirst
      <3>2. CanAfter(f, y) /\ CanAsks(f)
        BY <1>1, <3>1 DEF CanAfter, CanAsks
      <3>3. CanComesValue(f, s)
        BY <3>1, <3>2 DEF CanComesValue
      <3> QED
        BY <3>3
    <2> QED
      BY <2>1, <2>2, <2>3
  <1>2. CASE f.wants = "separator"
    <2>1. CanArrayTail(s)
      BY <1>0, <1>2 DEF CanNeedsArray
    <2>2. CASE s = CanOne("]")
      BY <1>0, <1>2, <2>2 DEF CanComesClose
    <2>3. CASE \E e : CanAreElements(e) /\ s = CanCat(CanOne(","), CanCat(e, CanOne("]")))
      <3>1. PICK e : CanAreElements(e) /\ s = CanCat(CanOne(","), CanCat(e, CanOne("]")))
        BY <2>3
      <3>2. PICK y : y = CanCat(e, CanOne("]"))
        OBVIOUS
      <3>3. CanItems(y) /\ s = CanCat(CanOne(","), y)
        BY <3>1, <3>2 DEF CanItems
      <3>4. y \in CanSource
        BY <3>3, CanItemsText
      <3>5. CanComesComma(f, s)
        BY <1>2, <3>3, <3>4 DEF CanComesComma
      <3> QED
        BY <3>5
    <2> QED
      BY <2>1, <2>2, <2>3 DEF CanArrayTail
  <1> QED
    BY <1>0, <1>1, <1>2

(* An object needs its end, a key, a colon, a value or a comma. *)
LEMMA CanObjectComes ==
  ASSUME NEW f, CanIsFrame(f), f.is = "object", NEW s, CanNeeds(f, s)
  PROVE  \/ CanComesClose(f, s) \/ CanComesValue(f, s) \/ CanComesKey(f, s)
         \/ CanComesColon(f, s) \/ CanComesComma(f, s)
  <1> DEFINE K == CanKeysOf(f.of)
  <1>0. /\ CanCloser(f) = "}" /\ CanNeedsObject(f.wants, K, f.key, s)
        /\ f.wants \in {"first key", "key", "colon", "value", "separator"}
    BY DEF CanCloser, CanNeeds, CanIsFrame
  <1> HIDE DEF K
  <1>1. CASE f.wants \in {"first key", "key"}
    <2>1. (f.wants = "first key" /\ s = CanOne("}")) \/ CanEntries(K, s)
      BY <1>0, <1>1 DEF CanNeedsObject
    <2>2. CASE f.wants = "first key" /\ s = CanOne("}")
      BY <1>0, <2>2 DEF CanComesClose
    <2>3. CASE CanEntries(K, s)
      <3>1. PICK k \in CanKeys, y \in CanSource :
              k \notin K /\ CanValued(K \cup {k}, y) /\ s = CanCat(CanOne(k), CanCat(CanOne(":"), y))
        BY <2>3, CanEntriesFirst
      <3>2. CanComesKey(f, s)
        BY <1>1, <3>1 DEF CanComesKey, K
      <3> QED
        BY <3>2
    <2> QED
      BY <2>1, <2>2, <2>3
  <1>2. CASE f.wants = "colon"
    <2>1. PICK y : CanValued(K \cup {f.key}, y) /\ s = CanCat(CanOne(":"), y)
      BY <1>0, <1>2 DEF CanNeedsObject
    <2>2. y \in CanSource
      BY <2>1, CanValuedText
    <2>3. CanComesColon(f, s)
      BY <1>2, <2>1, <2>2 DEF CanComesColon, K
    <2> QED
      BY <2>3
  <1>3. CASE f.wants = "value"
    <2>1. CanValued(K \cup {f.key}, s)
      BY <1>0, <1>3 DEF CanNeedsObject
    <2>2. PICK x, y : CanIsValue(x) /\ CanObjectTail(K \cup {f.key}, y) /\ s = CanCat(x, y)
      BY <2>1 DEF CanValued
    <2>3. x \in CanSource /\ y \in CanSource
      BY <2>2, CanAreTexts, CanTailText
    <2>4. CanAfter(f, y) /\ CanAsks(f)
      BY <1>3, <2>2 DEF CanAfter, CanAsks, K
    <2>5. CanComesValue(f, s)
      BY <2>2, <2>3, <2>4 DEF CanComesValue
    <2> QED
      BY <2>5
  <1>4. CASE f.wants = "separator"
    <2>1. CanObjectTail(K, s)
      BY <1>0, <1>4 DEF CanNeedsObject
    <2>2. CASE s = CanOne("}")
      BY <1>0, <1>4, <2>2 DEF CanComesClose
    <2>3. CASE \E L, m : CanAreMembers(L, m) /\ L \cap K = {} /\ s = CanCat(CanOne(","), CanCat(m, CanOne("}")))
      <3>1. PICK L, m : CanAreMembers(L, m) /\ L \cap K = {} /\ s = CanCat(CanOne(","), CanCat(m, CanOne("}")))
        BY <2>3
      <3>2. PICK y : y = CanCat(m, CanOne("}"))
        OBVIOUS
      <3>3. CanEntries(K, y) /\ s = CanCat(CanOne(","), y)
        BY <3>1, <3>2 DEF CanEntries
      <3>4. y \in CanSource
        BY <3>3, CanItemsText
      <3>5. CanComesComma(f, s)
        BY <1>4, <3>3, <3>4 DEF CanComesComma, K
      <3> QED
        BY <3>5
    <2> QED
      BY <2>1, <2>2, <2>3 DEF CanObjectTail
  <1> QED
    BY <1>0, <1>1, <1>2, <1>3, <1>4

(* After readValue returns, a container needs what it needed after the value. *)
LEMMA CanNeedsReturn ==
  ASSUME NEW f, CanIsFrame(f), NEW y, CanAfter(f, y), NEW v
  PROVE  CanNeeds(CanReturnFrame(f, v), y)
  <1> DEFINE g == CanReturnFrame(f, v)
  <1>1. g.is = f.is /\ g.wants = "separator" /\ g.of = Append(f.of, CanReturnRead(f, v))
    BY CanReturnFields
  <1> HIDE DEF g
  <1>2. CASE f.is = "array"
    <2>1. CanArrayTail(y)
      BY <1>2 DEF CanAfter
    <2>2. CanNeeds(g, y)
      BY <1>1, <1>2, <2>1 DEF CanNeeds, CanNeedsArray
    <2> QED
      BY <2>2 DEF g
  <1>3. CASE f.is = "object"
    <2>1. CanObjectTail(CanKeysOf(f.of) \cup {f.key}, y)
      BY <1>3 DEF CanAfter
    <2>2. g.of = Append(f.of, CanEntry(f.key, v)) /\ CanIsSeq(f.of)
      BY <1>1, <1>3 DEF CanReturnRead, CanIsFrame
    <2>3. CanKeysOf(g.of) = CanKeysOf(f.of) \cup {f.key}
      BY <2>2, CanKeysGrow
    <2>4. CanNeeds(g, y)
      BY <1>1, <1>3, <2>1, <2>3 DEF CanNeeds, CanNeedsObject
    <2> QED
      BY <2>4 DEF g
  <1> QED
    BY <1>2, <1>3 DEF CanIsFrame
\* What is still to be read, when the text is one of a value.
CanRests(st, root, text) ==
  \/ st = <<>> /\ root = CanNothing /\ CanIsValue(text)
  \/ st = <<>> /\ root # CanNothing /\ text = <<>>
  \/ /\ st # <<>> /\ root = CanNothing
     /\ \E s \in CanSource, r \in CanSource :
          text = CanCat(s, r) /\ CanNeeds(Last(st), s) /\ CanLayers("rest", Front(st), r)

(* readValue returns and reading goes on. *)
LEMMA CanRestsReturn ==
  ASSUME NEW st, CanAsking(st), NEW r \in CanSource, CanLayers("rest", st, r), NEW v, v # CanNothing
  PROVE  CanRests(CanReturnStack(st, v), CanReturnRoot(st, v), r)
  <1>1. CASE st = <<>>
    <2>1. r = <<>>
      BY <1>1, CanLayersEmpty
    <2>2. CanReturnStack(st, v) = <<>> /\ CanReturnRoot(st, v) = v
      BY <1>1 DEF CanReturnStack, CanReturnRoot
    <2> QED
      BY <2>1, <2>2 DEF CanRests
  <1>2. CASE st # <<>>
    <2>1. CanAsks(Last(st)) /\ CanAsking(Front(st)) /\ CanIsSeq(st)
      BY <1>2, CanAskingTop
    <2>2. PICK a \in CanSource, y \in CanSource :
            CanLayers("rest", Front(st), a) /\ CanLayer("rest", Last(st), a, y, r)
      BY <1>2, <2>1, CanLayersPop
    <2>3. r = CanCat(y, a) /\ CanAfter(Last(st), y)
      BY <2>2 DEF CanLayer
    <2> DEFINE g == CanReturnFrame(Last(st), v)
    <2>4. CanNeeds(g, y)
      BY <2>1, <2>3, CanNeedsReturn DEF CanAsks
    <2>5. CanReturnStack(st, v) = Append(Front(st), g) /\ CanReturnRoot(st, v) = CanNothing
      BY <1>2 DEF CanReturnStack, CanReturnRoot
    <2> HIDE DEF g
    <2>6. /\ Append(Front(st), g) # <<>> /\ Last(Append(Front(st), g)) = g
          /\ Front(Append(Front(st), g)) = Front(st)
      BY <2>1, CanStackPush DEF CanAsking
    <2> QED
      BY <2>2, <2>3, <2>4, <2>5, <2>6 DEF CanRests
  <1> QED
    BY <1>1, <1>2

(* The top container goes on. *)
LEMMA CanRestsTop ==
  ASSUME NEW st, CanIsSeq(st), NEW g, NEW y \in CanSource, CanNeeds(g, y),
         NEW r \in CanSource, CanLayers("rest", st, r)
  PROVE  CanRests(Append(st, g), CanNothing, CanCat(y, r))
  <1>1. Append(st, g) # <<>> /\ Last(Append(st, g)) = g /\ Front(Append(st, g)) = st
    BY CanStackPush
  <1> QED
    BY <1>1 DEF CanRests

(* A value comes to a container: it comes to the whole stack. *)
LEMMA CanRestsValue ==
  ASSUME NEW st, CanStackFits(st), st # <<>>, NEW s \in CanSource, NEW r \in CanSource,
         CanComesValue(Last(st), s), CanLayers("rest", Front(st), r)
  PROVE  /\ CanAsking(st)
         /\ \E x \in CanSource, q \in CanSource :
              CanIsValue(x) /\ CanCat(s, r) = CanCat(x, q) /\ CanLayers("rest", st, q)
  <1>1. CanIsSeq(st) /\ CanAsking(Front(st))
    BY DEF CanStackFits
  <1>2. CanAsks(Last(st))
    BY DEF CanComesValue
  <1>3. CanAsking(st)
    BY <1>2, CanAskingWhole DEF CanAsks
  <1>4. PICK x \in CanSource, y \in CanSource : CanIsValue(x) /\ CanAfter(Last(st), y) /\ s = CanCat(x, y)
    BY DEF CanComesValue
  <1>5. PICK q \in CanSource : q = CanCat(y, r)
    BY CanCatType
  <1>6. CanCat(s, r) = CanCat(x, q)
    BY <1>4, <1>5, CanCatAssoc
  <1>7. CanLayer("rest", Last(st), r, y, q)
    BY <1>4, <1>5 DEF CanLayer
  <1>8. CanIsSeq(Front(st))
    BY <1>1 DEF CanAsking
  <1>9. CanLayers("rest", Append(Front(st), Last(st)), q)
    BY <1>7, <1>8, CanLayersPush
  <1>10. CanLayers("rest", st, q)
    BY <1>1, <1>9, CanStackWhole
  <1> QED
    BY <1>3, <1>4, <1>6, <1>10

\* A value starts with t, and p is left of it and of q after it.
CanStartsWith(t, p, q) ==
  \/ t \in CanScalars \cup CanKeys /\ p = q
  \/ t = "[" /\ \E y \in CanSource : p = CanCat(y, q) /\ (y = CanOne("]") \/ CanItems(y))
  \/ t = "{" /\ \E y \in CanSource : p = CanCat(y, q) /\ (y = CanOne("}") \/ CanEntries({}, y))

(* The first token of a value says which it is. *)
LEMMA CanValueStarts ==
  ASSUME NEW x \in CanSource, CanIsValue(x), NEW q \in CanSource, NEW t \in CanTokens, NEW p \in CanSource,
         CanCat(x, q) = CanCat(CanOne(t), p)
  PROVE  CanStartsWith(t, p, q)
  <1>0. "[" \in CanTokens /\ "{" \in CanTokens /\ CanOne("[") \in CanSource /\ CanOne("{") \in CanSource
    BY CanTokensAre, CanOneType
  <1>1. CASE \E u \in CanScalars \cup CanKeys : x = CanOne(u)
    <2>1. PICK u \in CanScalars \cup CanKeys : x = CanOne(u)
      BY <1>1
    <2>2. u \in CanTokens /\ CanCat(CanOne(u), q) = CanCat(CanOne(t), p)
      BY <2>1, CanTokensAre
    <2>3. u = t /\ p = q
      BY <2>2, CanCutFirst
    <2> QED
      BY <2>1, <2>3 DEF CanStartsWith
  <1>2. CASE \E y \in CanSource : x = CanCat(CanOne("["), y) /\ (y = CanOne("]") \/ CanItems(y))
    <2>1. PICK y \in CanSource : x = CanCat(CanOne("["), y) /\ (y = CanOne("]") \/ CanItems(y))
      BY <1>2
    <2>2. PICK o \in CanSource : o = CanOne("[")
      BY <1>0
    <2>3. PICK z \in CanSource : z = CanCat(y, q)
      BY CanCatType
    <2>a. CanCat(CanCat(o, y), q) = CanCat(o, CanCat(y, q))
      BY CanCatAssoc
    <2>b. CanCat(CanOne("["), z) = CanCat(CanOne(t), p)
      BY <2>1, <2>2, <2>3, <2>a
    <2>4. t = "[" /\ p = CanCat(y, q)
      <3>1. "[" \in CanTokens
        BY <1>0
      <3>2. t = "[" /\ p = z
        BY <2>b, <3>1, CanCutFirst
      <3> QED
        BY <2>3, <3>2
    <2> QED
      BY <2>1, <2>4 DEF CanStartsWith
  <1>3. CASE \E y \in CanSource : x = CanCat(CanOne("{"), y) /\ (y = CanOne("}") \/ CanEntries({}, y))
    <2>1. PICK y \in CanSource : x = CanCat(CanOne("{"), y) /\ (y = CanOne("}") \/ CanEntries({}, y))
      BY <1>3
    <2>2. PICK o \in CanSource : o = CanOne("{")
      BY <1>0
    <2>3. PICK z \in CanSource : z = CanCat(y, q)
      BY CanCatType
    <2>a. CanCat(CanCat(o, y), q) = CanCat(o, CanCat(y, q))
      BY CanCatAssoc
    <2>b. CanCat(CanOne("{"), z) = CanCat(CanOne(t), p)
      BY <2>1, <2>2, <2>3, <2>a
    <2>4. t = "{" /\ p = CanCat(y, q)
      <3>1. "{" \in CanTokens
        BY <1>0
      <3>2. t = "{" /\ p = z
        BY <2>b, <3>1, CanCutFirst
      <3> QED
        BY <2>3, <3>2
    <2> QED
      BY <2>1, <2>4 DEF CanStartsWith
  <1> QED
    BY <1>1, <1>2, <1>3, CanValueOpens
\* What the next token t is, when p comes after it.
CanNowCloses(st, t, p) ==
  /\ t = CanCloser(Last(st)) /\ Last(st).wants \in {"first item", "first key", "separator"}
  /\ CanLayers("rest", Front(st), p)
CanNowValue(st, t, p) ==
  /\ CanAsking(st)
  /\ \E x \in CanSource, q \in CanSource :
       CanIsValue(x) /\ CanCat(x, q) = CanCat(CanOne(t), p) /\ CanLayers("rest", st, q)
CanNowKey(st, t, p) ==
  /\ Last(st).is = "object" /\ Last(st).wants \in {"first key", "key"}
  /\ t \in CanKeys /\ t \notin CanKeysOf(Last(st).of)
  /\ \E y \in CanSource, r \in CanSource :
       /\ CanValued(CanKeysOf(Last(st).of) \cup {t}, y) /\ CanLayers("rest", Front(st), r)
       /\ p = CanCat(CanCat(CanOne(":"), y), r)
CanNowColon(st, t, p) ==
  /\ Last(st).is = "object" /\ Last(st).wants = "colon" /\ t = ":"
  /\ \E y \in CanSource, r \in CanSource :
       /\ CanValued(CanKeysOf(Last(st).of) \cup {Last(st).key}, y) /\ CanLayers("rest", Front(st), r)
       /\ p = CanCat(y, r)
CanNowComma(st, t, p) ==
  /\ Last(st).wants = "separator" /\ t = ","
  /\ \E y \in CanSource, r \in CanSource :
       /\ Last(st).is = "array" => CanItems(y)
       /\ Last(st).is = "object" => CanEntries(CanKeysOf(Last(st).of), y)
       /\ CanLayers("rest", Front(st), r) /\ p = CanCat(y, r)

(* A text that starts with a token, and what is left of it. *)
LEMMA CanCutToken ==
  ASSUME NEW t \in CanTokens, NEW p \in CanSource, NEW u \in CanTokens, NEW y \in CanSource, NEW r \in CanSource,
         NEW s, s = CanCat(CanOne(u), y), CanCat(s, r) = CanCat(CanOne(t), p)
  PROVE  t = u /\ p = CanCat(y, r)
  <1>1. PICK o \in CanSource : o = CanOne(u)
    BY CanOneType
  <1>2. CanCat(CanCat(o, y), r) = CanCat(o, CanCat(y, r))
    BY CanCatAssoc
  <1>3. PICK z \in CanSource : z = CanCat(y, r)
    BY CanCatType
  <1>4. CanCat(CanOne(u), z) = CanCat(CanOne(t), p)
    BY <1>1, <1>2, <1>3
  <1>5. t = u /\ p = z
    BY <1>4, CanCutFirst
  <1> QED
    BY <1>3, <1>5

(* One of the five comes. *)
LEMMA CanNowOne ==
  ASSUME NEW st, CanStackFits(st), st # <<>>, NEW root, NEW t \in CanTokens, NEW p \in CanSource,
         CanRests(st, root, CanCat(CanOne(t), p))
  PROVE  \/ CanNowCloses(st, t, p) \/ CanNowValue(st, t, p) \/ CanNowKey(st, t, p)
         \/ CanNowColon(st, t, p) \/ CanNowComma(st, t, p)
  <1>1. PICK s \in CanSource, r \in CanSource :
          CanCat(CanOne(t), p) = CanCat(s, r) /\ CanNeeds(Last(st), s) /\ CanLayers("rest", Front(st), r)
    BY DEF CanRests
  <1>2. PICK f : f = Last(st)
    OBVIOUS
  <1>3. CanIsFrame(f) /\ CanNeeds(f, s) /\ (f.is = "array" \/ f.is = "object")
    BY <1>1, <1>2 DEF CanStackFits, CanIsFrame
  <1>4. \/ CanComesClose(f, s) \/ CanComesValue(f, s) \/ CanComesKey(f, s)
        \/ CanComesColon(f, s) \/ CanComesComma(f, s)
    <2>1. CASE f.is = "array"
      BY <1>3, <2>1, CanArrayComes
    <2>2. CASE f.is = "object"
      BY <1>3, <2>2, CanObjectComes
    <2> QED
      BY <1>3, <2>1, <2>2
  <1>5. CASE CanComesClose(f, s)
    <2>1. s = CanOne(CanCloser(f)) /\ f.wants \in {"first item", "first key", "separator"}
      BY <1>5 DEF CanComesClose
    <2>2. CanCloser(f) \in CanTokens
      BY CanMarksOf
    <2>3. CanCat(CanOne(CanCloser(f)), r) = CanCat(CanOne(t), p)
      BY <1>1, <2>1
    <2>4. t = CanCloser(f) /\ p = r
      BY <2>2, <2>3, CanCutFirst
    <2>5. CanNowCloses(st, t, p)
      BY <1>1, <1>2, <2>1, <2>4 DEF CanNowCloses
    <2> QED
      BY <2>5
  <1>6. CASE CanComesValue(f, s)
    <2>1. CanComesValue(Last(st), s)
      BY <1>2, <1>6
    <2>2. CanAsking(st)
      BY <1>1, <2>1, CanRestsValue
    <2>3. PICK x \in CanSource, q \in CanSource :
            CanIsValue(x) /\ CanCat(s, r) = CanCat(x, q) /\ CanLayers("rest", st, q)
      BY <1>1, <2>1, CanRestsValue
    <2>4. CanNowValue(st, t, p)
      BY <1>1, <2>2, <2>3 DEF CanNowValue
    <2> QED
      BY <2>4
  <1>7. CASE CanComesKey(f, s)
    <2>1. PICK k \in CanKeys, y \in CanSource :
            /\ k \notin CanKeysOf(f.of) /\ CanValued(CanKeysOf(f.of) \cup {k}, y)
            /\ s = CanCat(CanOne(k), CanCat(CanOne(":"), y))
      BY <1>7 DEF CanComesKey
    <2>2. k \in CanTokens /\ CanOne(":") \in CanSource
      BY CanTokensAre, CanOneType
    <2>3. PICK z \in CanSource : z = CanCat(CanOne(":"), y)
      BY <2>2, CanCatType
    <2>a. s = CanCat(CanOne(k), z)
      BY <2>1, <2>3
    <2>b. CanCat(s, r) = CanCat(CanOne(t), p)
      BY <1>1
    <2>4. t = k /\ p = CanCat(z, r)
      BY <2>a, <2>b, <2>2, CanCutToken
    <2>5. f.is = "object" /\ f.wants \in {"first key", "key"}
      BY <1>7 DEF CanComesKey
    <2>6. CanNowKey(st, t, p)
      BY <1>1, <1>2, <2>1, <2>3, <2>4, <2>5 DEF CanNowKey
    <2> QED
      BY <2>6
  <1>8. CASE CanComesColon(f, s)
    <2>1. PICK y \in CanSource : CanValued(CanKeysOf(f.of) \cup {f.key}, y) /\ s = CanCat(CanOne(":"), y)
      BY <1>8 DEF CanComesColon
    <2>2. ":" \in CanTokens
      BY CanTokensAre
    <2>u. PICK u \in CanTokens : u = ":"
      BY <2>2
    <2>a. s = CanCat(CanOne(u), y)
      BY <2>1, <2>u
    <2>b. CanCat(s, r) = CanCat(CanOne(t), p)
      BY <1>1
    <2>c. t = u /\ p = CanCat(y, r)
      BY <2>a, <2>b, CanCutToken
    <2>3. t = ":" /\ p = CanCat(y, r)
      BY <2>c, <2>u
    <2>4. f.is = "object" /\ f.wants = "colon"
      BY <1>8 DEF CanComesColon
    <2>5. CanNowColon(st, t, p)
      BY <1>1, <1>2, <2>1, <2>3, <2>4 DEF CanNowColon
    <2> QED
      BY <2>5
  <1>9. CASE CanComesComma(f, s)
    <2>1. PICK y \in CanSource : /\ f.is = "array" => CanItems(y)
                                 /\ f.is = "object" => CanEntries(CanKeysOf(f.of), y)
                                 /\ s = CanCat(CanOne(","), y)
      BY <1>9 DEF CanComesComma
    <2>2. "," \in CanTokens
      BY CanTokensAre
    <2>u. PICK u \in CanTokens : u = ","
      BY <2>2
    <2>a. s = CanCat(CanOne(u), y)
      BY <2>1, <2>u
    <2>b. CanCat(s, r) = CanCat(CanOne(t), p)
      BY <1>1
    <2>c. t = u /\ p = CanCat(y, r)
      BY <2>a, <2>b, CanCutToken
    <2>3. t = "," /\ p = CanCat(y, r)
      BY <2>c, <2>u
    <2>4. f.wants = "separator"
      BY <1>9 DEF CanComesComma
    <2>5. /\ Last(st).wants = "separator" /\ (Last(st).is = "array" => CanItems(y))
          /\ (Last(st).is = "object" => CanEntries(CanKeysOf(Last(st).of), y))
      BY <1>2, <2>1, <2>4
    <2>6. CanNowComma(st, t, p)
      BY <1>1, <2>3, <2>5, Zenon DEF CanNowComma
    <2> QED
      BY <2>6
  <1> QED
    BY <1>4, <1>5, <1>6, <1>7, <1>8, <1>9

(* A value comes with a scalar or a mark that opens a container. *)
LEMMA CanNowValueToken ==
  ASSUME NEW st, NEW t \in CanTokens, NEW p \in CanSource, CanNowValue(st, t, p)
  PROVE  /\ t \in CanScalars \cup CanKeys \cup {"[", "{"}
         /\ t # "]" /\ t # "}" /\ t # "," /\ t # ":"
  <1>1. PICK x \in CanSource, q \in CanSource :
          CanIsValue(x) /\ CanCat(x, q) = CanCat(CanOne(t), p) /\ CanLayers("rest", st, q)
    BY DEF CanNowValue
  <1>2. t \in CanScalars \cup CanKeys \/ t = "[" \/ t = "{"
    <2>1. CanStartsWith(t, p, q)
      BY <1>1, CanValueStarts
    <2> QED
      BY <2>1 DEF CanStartsWith
  <1>3. CASE t \in CanScalars \cup CanKeys
    BY <1>3, CanMarksApart
  <1>4. CASE t = "[" \/ t = "{"
    BY <1>4
  <1> QED
    BY <1>2, <1>3, <1>4

\* The frame that opens with a mark.
CanOpenFrame(t) ==
  IF t = "[" THEN CanFrame("array", "first item", <<>>, "none") ELSE CanFrame("object", "first key", <<>>, "none")

(* It is a frame, with nothing in it. *)
LEMMA CanOpenFrameIs ==
  ASSUME NEW t, t = "[" \/ t = "{"
  PROVE  /\ CanIsFrame(CanOpenFrame(t)) /\ CanOpenFrame(t).of = <<>> /\ CanOpener(CanOpenFrame(t)) = t
         /\ CanOpenFrame(t).wants \in {"first item", "first key"}
         /\ t = "[" => CanOpenFrame(t).is = "array" /\ CanOpenFrame(t).wants = "first item"
         /\ t = "{" => CanOpenFrame(t).is = "object" /\ CanOpenFrame(t).wants = "first key"
  <1>0. CanIsSeq(<<>>)
    BY CanSeqOne
  <1> DEFINE f == CanOpenFrame(t)
  <1>1. CASE t = "["
    <2>1. f = CanFrame("array", "first item", <<>>, "none")
      BY <1>1 DEF CanOpenFrame
    <2> HIDE DEF f
    <2>2. f.is = "array" /\ f.wants = "first item" /\ f.of = <<>>
      BY <2>1 DEF CanFrame
    <2>3. CanIsFrame(f) /\ CanOpener(f) = t
      BY <1>0, <1>1, <2>2 DEF CanIsFrame, CanOpener
    <2> QED
      BY <1>1, <2>2, <2>3 DEF f
  <1>2. CASE t = "{"
    <2>1. f = CanFrame("object", "first key", <<>>, "none")
      BY <1>2 DEF CanOpenFrame
    <2> HIDE DEF f
    <2>2. f.is = "object" /\ f.wants = "first key" /\ f.of = <<>>
      BY <2>1 DEF CanFrame
    <2>3. CanIsFrame(f) /\ CanOpener(f) = t
      BY <1>0, <1>2, <2>2 DEF CanIsFrame, CanOpener
    <2> QED
      BY <1>2, <2>2, <2>3 DEF f
  <1> QED
    BY <1>1, <1>2

\* A value may start: at the root, as an item, or after a colon.
CanExpects(st, root) ==
  IF st = <<>> THEN root = CanNothing ELSE Last(st).wants \in {"first item", "item", "value"}

(* Where a value may start and no array ends, a value comes. *)
LEMMA CanNowExpected ==
  ASSUME NEW st, CanStackFits(st), NEW root, CanExpects(st, root), NEW t \in CanTokens, t # "]",
         NEW p \in CanSource, CanRests(st, root, CanCat(CanOne(t), p))
  PROVE  CanNowValue(st, t, p)
  <1>1. CASE st = <<>>
    <2>1. root = CanNothing
      BY <1>1 DEF CanExpects
    <2>2. CanIsValue(CanCat(CanOne(t), p))
      BY <1>1, <2>1 DEF CanRests
    <2>3. PICK x \in CanSource : x = CanCat(CanOne(t), p)
      BY <2>2, CanAreTexts
    <2>4. <<>> \in CanSource /\ CanCat(x, <<>>) = x
      BY CanCatNil, EmptySeq DEF CanSource
    <2>5. CanLayers("rest", st, <<>>)
      BY <1>1, CanLayersEmpty
    <2>6. CanAsking(st)
      BY <1>1, CanAskingWhole
    <2> QED
      BY <2>2, <2>3, <2>4, <2>5, <2>6 DEF CanNowValue
  <1>2. CASE st # <<>>
    <2>1. Last(st).wants \in {"first item", "item", "value"}
      BY <1>2 DEF CanExpects
    <2>2. CanIsFrame(Last(st))
      BY <1>2 DEF CanStackFits
    <2>3. ~CanNowCloses(st, t, p)
      <3>1. ASSUME CanNowCloses(st, t, p) PROVE FALSE
        <4>1. t = CanCloser(Last(st)) /\ Last(st).wants = "first item"
          BY <2>1, <3>1 DEF CanNowCloses
        <4>2. Last(st).is = "array"
          BY <2>2, <4>1 DEF CanIsFrame
        <4> QED
          BY <4>1, <4>2 DEF CanCloser
      <3> QED
        BY <3>1
    <2>4. ~CanNowKey(st, t, p) /\ ~CanNowColon(st, t, p) /\ ~CanNowComma(st, t, p)
      BY <2>1 DEF CanNowKey, CanNowColon, CanNowComma
    <2> QED
      BY <1>2, <2>3, <2>4, CanNowOne
  <1> QED
    BY <1>1, <1>2

(* A scalar is read. *)
LEMMA CanRestsScalar ==
  ASSUME NEW st, CanStackFits(st), NEW root, CanExpects(st, root), NEW t \in CanScalars \cup CanKeys,
         NEW p \in CanSource, CanRests(st, root, CanCat(CanOne(t), p)), NEW v, v # CanNothing
  PROVE  CanRests(CanReturnStack(st, v), CanReturnRoot(st, v), p)
  <1>0. t \in CanTokens /\ t # "]" /\ t # "[" /\ t # "{"
    BY CanTokensAre, CanMarksApart
  <1>1. CanNowValue(st, t, p)
    BY <1>0, CanNowExpected
  <1>2. PICK x \in CanSource, q \in CanSource :
          CanIsValue(x) /\ CanCat(x, q) = CanCat(CanOne(t), p) /\ CanLayers("rest", st, q)
    BY <1>1 DEF CanNowValue
  <1>3. CanStartsWith(t, p, q)
    BY <1>0, <1>2, CanValueStarts
  <1>4. p = q
    BY <1>0, <1>3 DEF CanStartsWith
  <1>5. CanAsking(st)
    BY <1>1 DEF CanNowValue
  <1> QED
    BY <1>2, <1>4, <1>5, CanRestsReturn

(* A container is opened. *)
LEMMA CanRestsOpen ==
  ASSUME NEW st, CanStackFits(st), NEW root, CanExpects(st, root), NEW t, t = "[" \/ t = "{",
         NEW p \in CanSource, CanRests(st, root, CanCat(CanOne(t), p))
  PROVE  CanRests(Append(st, CanOpenFrame(t)), CanNothing, p)
  <1>0. t \in CanTokens /\ t # "]" /\ t \notin CanScalars \cup CanKeys
    BY CanTokensAre, CanMarksApart
  <1>1. CanNowValue(st, t, p)
    BY <1>0, CanNowExpected
  <1>2. PICK x \in CanSource, q \in CanSource :
          CanIsValue(x) /\ CanCat(x, q) = CanCat(CanOne(t), p) /\ CanLayers("rest", st, q)
    BY <1>1 DEF CanNowValue
  <1>3. CanStartsWith(t, p, q)
    BY <1>0, <1>2, CanValueStarts
  <1>4. CanIsSeq(st)
    BY DEF CanStackFits
  <1> DEFINE f == CanOpenFrame(t)
  <1>f. /\ f.of = <<>> /\ (t = "[" => f.is = "array" /\ f.wants = "first item")
        /\ (t = "{" => f.is = "object" /\ f.wants = "first key")
    BY CanOpenFrameIs
  <1> HIDE DEF f
  <1>5. PICK y \in CanSource : CanNeeds(f, y) /\ p = CanCat(y, q)
    <2>1. CASE t = "["
      <3>1. PICK y \in CanSource : p = CanCat(y, q) /\ (y = CanOne("]") \/ CanItems(y))
        BY <1>0, <1>3, <2>1 DEF CanStartsWith
      <3>2. CanNeeds(f, y)
        BY <1>f, <2>1, <3>1 DEF CanNeeds, CanNeedsArray
      <3> QED
        BY <3>1, <3>2
    <2>2. CASE t = "{"
      <3>1. PICK y \in CanSource : p = CanCat(y, q) /\ (y = CanOne("}") \/ CanEntries({}, y))
        BY <1>0, <1>3, <2>2 DEF CanStartsWith
      <3>2. CanKeysOf(f.of) = {}
        BY <1>f, CanKeysOne
      <3>3. CanNeeds(f, y)
        BY <1>f, <2>2, <3>1, <3>2 DEF CanNeeds, CanNeedsObject
      <3> QED
        BY <3>1, <3>3
    <2> QED
      BY <2>1, <2>2
  <1>6. CanRests(Append(st, f), CanNothing, CanCat(y, q))
    BY <1>2, <1>4, <1>5, CanRestsTop
  <1> QED
    BY <1>5, <1>6 DEF f

(* A key is read. *)
LEMMA CanRestsKey ==
  ASSUME NEW st, CanStackFits(st), st # <<>>, NEW root, CanAtKey(Last(st)),
         NEW t \in CanKeys, NEW p \in CanSource, CanRests(st, root, CanCat(CanOne(t), p)),
         NEW g, g.is = Last(st).is, g.wants = "colon", g.of = Last(st).of, g.key = t
  PROVE  CanRests(Append(Front(st), g), CanNothing, p)
  <1>0. t \in CanTokens /\ t # "}" /\ t # "]"
    BY CanTokensAre, CanMarksApart
  <1>1. ~CanNowCloses(st, t, p)
    BY <1>0 DEF CanNowCloses, CanCloser
  <1>2. ~CanNowValue(st, t, p)
    <2>1. ASSUME CanNowValue(st, t, p) PROVE FALSE
      <3>1. CanAsks(Last(st))
        BY <2>1, CanAskingTop DEF CanNowValue
      <3> QED
        BY <3>1 DEF CanAsks, CanAtKey
    <2> QED
      BY <2>1
  <1>3. ~CanNowColon(st, t, p) /\ ~CanNowComma(st, t, p)
    BY DEF CanNowColon, CanNowComma, CanAtKey
  <1>4. CanNowKey(st, t, p)
    BY <1>0, <1>1, <1>2, <1>3, CanNowOne
  <1>5. PICK y \in CanSource, r \in CanSource :
          /\ CanValued(CanKeysOf(Last(st).of) \cup {t}, y) /\ CanLayers("rest", Front(st), r)
          /\ p = CanCat(CanCat(CanOne(":"), y), r)
    BY <1>4 DEF CanNowKey
  <1>6. CanOne(":") \in CanSource
    BY CanTokensAre, CanOneType
  <1>7. PICK z \in CanSource : z = CanCat(CanOne(":"), y)
    BY <1>6, CanCatType
  <1>8. Last(st).is = "object"
    BY <1>4 DEF CanNowKey
  <1>9. CanNeeds(g, z)
    BY <1>5, <1>7, <1>8 DEF CanNeeds, CanNeedsObject
  <1>10. CanIsSeq(Front(st))
    BY CanStackTop DEF CanStackFits
  <1>11. CanRests(Append(Front(st), g), CanNothing, CanCat(z, r))
    BY <1>5, <1>9, <1>10, CanRestsTop
  <1> QED
    BY <1>5, <1>7, <1>11

(* A colon is read. *)
LEMMA CanRestsColon ==
  ASSUME NEW st, CanStackFits(st), st # <<>>, NEW root, Last(st).wants = "colon",
         NEW t, t = ":", NEW p \in CanSource, CanRests(st, root, CanCat(CanOne(t), p)),
         NEW g, g.is = Last(st).is, g.wants = "value", g.of = Last(st).of, g.key = Last(st).key
  PROVE  CanRests(Append(Front(st), g), CanNothing, p)
  <1>0. t \in CanTokens
    BY CanTokensAre
  <1>1. ~CanNowCloses(st, t, p)
    BY DEF CanNowCloses
  <1>2. ~CanNowValue(st, t, p)
    BY <1>0, CanNowValueToken
  <1>3. ~CanNowKey(st, t, p) /\ ~CanNowComma(st, t, p)
    BY DEF CanNowKey, CanNowComma
  <1>4. CanNowColon(st, t, p)
    BY <1>0, <1>1, <1>2, <1>3, CanNowOne
  <1>5. PICK y \in CanSource, r \in CanSource :
          /\ CanValued(CanKeysOf(Last(st).of) \cup {Last(st).key}, y) /\ CanLayers("rest", Front(st), r)
          /\ p = CanCat(y, r)
    BY <1>4 DEF CanNowColon
  <1>6. Last(st).is = "object"
    BY <1>4 DEF CanNowColon
  <1>7. CanNeeds(g, y)
    BY <1>5, <1>6 DEF CanNeeds, CanNeedsObject
  <1>8. CanIsSeq(Front(st))
    BY CanStackTop DEF CanStackFits
  <1>9. CanRests(Append(Front(st), g), CanNothing, CanCat(y, r))
    BY <1>5, <1>7, <1>8, CanRestsTop
  <1> QED
    BY <1>5, <1>9

(* A comma is read. *)
LEMMA CanRestsComma ==
  ASSUME NEW st, CanStackFits(st), st # <<>>, NEW root, Last(st).wants = "separator",
         NEW t, t = ",", NEW p \in CanSource, CanRests(st, root, CanCat(CanOne(t), p)),
         NEW g, g.is = Last(st).is, g.of = Last(st).of,
         Last(st).is = "array" => g.wants = "item", Last(st).is = "object" => g.wants = "key"
  PROVE  CanRests(Append(Front(st), g), CanNothing, p)
  <1>0. t \in CanTokens /\ t # "]" /\ t # "}"
    BY CanTokensAre
  <1>1. ~CanNowCloses(st, t, p)
    BY <1>0 DEF CanNowCloses, CanCloser
  <1>2. ~CanNowValue(st, t, p)
    BY <1>0, CanNowValueToken
  <1>3. ~CanNowKey(st, t, p) /\ ~CanNowColon(st, t, p)
    BY DEF CanNowKey, CanNowColon
  <1>4. CanNowComma(st, t, p)
    BY <1>0, <1>1, <1>2, <1>3, CanNowOne
  <1>5. PICK y \in CanSource, r \in CanSource :
          /\ Last(st).is = "array" => CanItems(y)
          /\ Last(st).is = "object" => CanEntries(CanKeysOf(Last(st).of), y)
          /\ CanLayers("rest", Front(st), r) /\ p = CanCat(y, r)
    BY <1>4 DEF CanNowComma
  <1>6. Last(st).is = "array" \/ Last(st).is = "object"
    BY DEF CanStackFits, CanIsFrame
  <1>7. CanNeeds(g, y)
    <2>1. CASE Last(st).is = "array"
      <3>1. g.is = "array" /\ g.wants = "item" /\ CanItems(y)
        BY <1>5, <2>1
      <3> QED
        BY <3>1 DEF CanNeeds, CanNeedsArray
    <2>2. CASE Last(st).is = "object"
      <3>1. g.is = "object" /\ g.wants = "key" /\ CanEntries(CanKeysOf(g.of), y)
        BY <1>5, <2>2
      <3> QED
        BY <3>1 DEF CanNeeds, CanNeedsObject
    <2> QED
      BY <1>6, <2>1, <2>2
  <1>8. CanIsSeq(Front(st))
    BY CanStackTop DEF CanStackFits
  <1>9. CanRests(Append(Front(st), g), CanNothing, CanCat(y, r))
    BY <1>5, <1>7, <1>8, CanRestsTop
  <1> QED
    BY <1>5, <1>9

(* A container closes. *)
LEMMA CanRestsClose ==
  ASSUME NEW st, CanStackFits(st), st # <<>>, NEW root, NEW t, t = CanCloser(Last(st)),
         NEW p \in CanSource, CanRests(st, root, CanCat(CanOne(t), p)), NEW v, v # CanNothing
  PROVE  CanRests(CanReturnStack(Front(st), v), CanReturnRoot(Front(st), v), p)
  <1>0. t \in CanTokens /\ (t = "]" \/ t = "}")
    BY CanMarksOf DEF CanCloser
  <1>1. ~CanNowValue(st, t, p)
    BY <1>0, CanNowValueToken
  <1>2. ~CanNowKey(st, t, p)
    <2>1. t \notin CanKeys
      BY <1>0, CanMarksApart
    <2> QED
      BY <2>1 DEF CanNowKey
  <1>3. ~CanNowColon(st, t, p) /\ ~CanNowComma(st, t, p)
    BY <1>0 DEF CanNowColon, CanNowComma
  <1>4. CanNowCloses(st, t, p)
    BY <1>0, <1>1, <1>2, <1>3, CanNowOne
  <1>5. CanLayers("rest", Front(st), p) /\ CanAsking(Front(st))
    BY <1>4 DEF CanNowCloses, CanStackFits
  <1> QED
    BY <1>5, CanRestsReturn

\* The next token can be taken: the tests of readValue, readObject and readArray.
CanTakes(st, root, t) ==
  \/ CanExpects(st, root) /\ t \in {"[", "{"}
  \/ CanExpects(st, root) /\ t \in CanScalars \cup CanKeys
  \/ st # <<>> /\ Last(st).wants \in {"first key", "key"} /\ t \in CanKeys /\ CanFresh(Last(st).of, t)
  \/ st # <<>> /\ Last(st).wants = "colon" /\ t = ":"
  \/ st # <<>> /\ Last(st).wants = "separator" /\ t = ","
  \/ st # <<>> /\ Last(st).is = "array" /\ Last(st).wants \in {"first item", "separator"} /\ t = "]"
  \/ st # <<>> /\ Last(st).is = "object" /\ Last(st).wants \in {"first key", "separator"} /\ t = "}"

(* A text of a value is never refused at a token. *)
LEMMA CanRestsTaken ==
  ASSUME NEW st, CanStackFits(st), NEW root, NEW t \in CanTokens, NEW p \in CanSource,
         CanRests(st, root, CanCat(CanOne(t), p))
  PROVE  CanTakes(st, root, t)
  <1>1. CASE st = <<>>
    <2>1. root = CanNothing
      <3>1. CanCat(CanOne(t), p) # <<>>
        BY CanCatNotNil
      <3> QED
        BY <1>1, <3>1 DEF CanRests
    <2>2. CanExpects(st, root)
      BY <1>1, <2>1 DEF CanExpects
    <2>3. CASE t = "]"
      <3>1. CanIsValue(CanCat(CanOne(t), p))
        BY <1>1, <2>1 DEF CanRests
      <3>2. PICK x \in CanSource : x = CanCat(CanOne(t), p)
        BY <3>1, CanAreTexts
      <3>3. <<>> \in CanSource /\ CanCat(x, <<>>) = x
        BY CanCatNil, EmptySeq DEF CanSource
      <3>4. PICK q \in CanSource : q = <<>> /\ CanCat(x, q) = CanCat(CanOne(t), p)
        BY <3>2, <3>3
      <3>5. CanStartsWith(t, p, q)
        BY <3>1, <3>2, <3>4, CanValueStarts
      <3>6. t \notin CanScalars \cup CanKeys
        BY <2>3, CanMarksApart
      <3> QED
        BY <2>3, <3>5, <3>6 DEF CanStartsWith
    <2>4. CASE t # "]"
      <3>1. CanNowValue(st, t, p)
        BY <2>2, <2>4, CanNowExpected
      <3>2. t \in CanScalars \cup CanKeys \cup {"[", "{"}
        BY <3>1, CanNowValueToken
      <3> QED
        BY <2>2, <3>2 DEF CanTakes
    <2> QED
      BY <2>3, <2>4
  <1>2. CASE st # <<>>
    <2>0. CanIsFrame(Last(st))
      BY <1>2 DEF CanStackFits
    <2>1. CASE CanNowCloses(st, t, p)
      <3>1. t = CanCloser(Last(st)) /\ Last(st).wants \in {"first item", "first key", "separator"}
        BY <2>1 DEF CanNowCloses
      <3>2. \/ Last(st).is = "array" /\ Last(st).wants \in {"first item", "separator"} /\ t = "]"
            \/ Last(st).is = "object" /\ Last(st).wants \in {"first key", "separator"} /\ t = "}"
        BY <2>0, <3>1 DEF CanIsFrame, CanCloser
      <3> QED
        BY <1>2, <3>2 DEF CanTakes
    <2>2. CASE CanNowValue(st, t, p)
      <3>1. CanAsks(Last(st))
        BY <1>2, <2>2, CanAskingTop DEF CanNowValue
      <3>2. CanExpects(st, root)
        BY <1>2, <3>1 DEF CanAsks, CanExpects
      <3>3. t \in CanScalars \cup CanKeys \cup {"[", "{"}
        BY <2>2, CanNowValueToken
      <3> QED
        BY <3>2, <3>3 DEF CanTakes
    <2>3. CASE CanNowKey(st, t, p)
      <3>1. Last(st).wants \in {"first key", "key"} /\ t \in CanKeys /\ t \notin CanKeysOf(Last(st).of)
        BY <2>3 DEF CanNowKey
      <3>2. CanIsSeq(Last(st).of)
        BY <2>0 DEF CanIsFrame
      <3>3. CanFresh(Last(st).of, t)
        BY <3>1, <3>2, CanKeysGrow
      <3> QED
        BY <1>2, <3>1, <3>3 DEF CanTakes
    <2>4. CASE CanNowColon(st, t, p)
      BY <1>2, <2>4 DEF CanNowColon, CanTakes
    <2>5. CASE CanNowComma(st, t, p)
      BY <1>2, <2>5 DEF CanNowComma, CanTakes
    <2> QED
      BY <1>2, <2>1, <2>2, <2>3, <2>4, <2>5, CanNowOne
  <1> QED
    BY <1>1, <1>2

(* What has a part that is not empty is not empty. *)
LEMMA CanCatHolds ==
  ASSUME NEW a \in CanSource, NEW b \in CanSource, a # <<>> \/ b # <<>>
  PROVE  CanCat(a, b) # <<>>
  <1>1. a \in Seq(CanTokens) /\ b \in Seq(CanTokens)
    BY DEF CanSource
  <1>2. Len(a) \in Nat /\ Len(b) \in Nat /\ (a # <<>> => Len(a) # 0) /\ (b # <<>> => Len(b) # 0)
    BY <1>1, EmptySeq, LenProperties
  <1>3. Len(CanCat(a, b)) = Len(a) + Len(b)
    BY <1>1, ConcatProperties DEF CanCat
  <1>4. Len(CanCat(a, b)) # 0
    BY <1>2, <1>3
  <1>5. Len(<<>>) = 0
    OBVIOUS
  <1> QED
    BY <1>4, <1>5

(* A token is not the empty text. *)
LEMMA CanOneHolds ==
  ASSUME NEW t \in CanTokens
  PROVE  CanOne(t) # <<>> /\ CanOne(t) \in CanSource
  BY CanOneType DEF CanOne

(* Neither is a value. *)
LEMMA CanValueHolds ==
  ASSUME NEW x, CanIsValue(x)
  PROVE  x # <<>>
  <1>1. CASE \E t \in CanScalars \cup CanKeys : x = CanOne(t)
    BY <1>1, CanTokensAre, CanOneHolds
  <1>2. CASE \E y \in CanSource : x = CanCat(CanOne("["), y) /\ (y = CanOne("]") \/ CanItems(y))
    <2>1. PICK t \in CanTokens : t = "["
      BY CanTokensAre
    <2> QED
      BY <1>2, <2>1, CanCatNotNil
  <1>3. CASE \E y \in CanSource : x = CanCat(CanOne("{"), y) /\ (y = CanOne("}") \/ CanEntries({}, y))
    <2>1. PICK t \in CanTokens : t = "{"
      BY CanTokensAre
    <2> QED
      BY <1>3, <2>1, CanCatNotNil
  <1> QED
    BY <1>1, <1>2, <1>3, CanValueOpens

(* Neither is what an open container needs. *)
LEMMA CanNeedsHolds ==
  ASSUME NEW f, CanIsFrame(f), NEW s \in CanSource, CanNeeds(f, s)
  PROVE  s # <<>>
  <1>1. CASE CanComesClose(f, s)
    BY <1>1, CanMarksOf, CanOneHolds DEF CanComesClose
  <1>2. CASE CanComesValue(f, s)
    BY <1>2, CanValueHolds, CanCatHolds DEF CanComesValue
  <1>3. CASE CanComesKey(f, s)
    <2>1. PICK k \in CanKeys, y \in CanSource : s = CanCat(CanOne(k), CanCat(CanOne(":"), y))
      BY <1>3 DEF CanComesKey
    <2>2. k \in CanTokens /\ CanOne(":") \in CanSource
      BY CanTokensAre, CanOneType
    <2>3. CanCat(CanOne(":"), y) \in CanSource
      BY <2>2, CanCatType
    <2> QED
      BY <2>1, <2>2, <2>3, CanCatNotNil
  <1>4. CASE CanComesColon(f, s)
    <2>1. PICK t \in CanTokens : t = ":"
      BY CanTokensAre
    <2> QED
      BY <1>4, <2>1, CanCatNotNil DEF CanComesColon
  <1>5. CASE CanComesComma(f, s)
    <2>1. PICK t \in CanTokens : t = ","
      BY CanTokensAre
    <2> QED
      BY <1>5, <2>1, CanCatNotNil DEF CanComesComma
  <1>6. CASE f.is = "array"
    BY <1>1, <1>2, <1>5, <1>6, CanArrayComes
  <1>7. CASE f.is = "object"
    BY <1>1, <1>2, <1>3, <1>4, <1>5, <1>7, CanObjectComes
  <1> QED
    BY <1>6, <1>7 DEF CanIsFrame

(* Where nothing is left to read, the value is complete. *)
LEMMA CanRestsNil ==
  ASSUME NEW st, CanStackFits(st), NEW root, CanRests(st, root, <<>>)
  PROVE  st = <<>> /\ root # CanNothing
  <1>1. ASSUME CanIsValue(<<>>) PROVE FALSE
    BY <1>1, CanValueHolds
  <1>2. ASSUME st # <<>> PROVE FALSE
    <2>1. PICK s \in CanSource, r \in CanSource : <<>> = CanCat(s, r) /\ CanNeeds(Last(st), s)
      BY <1>2 DEF CanRests
    <2>2. s # <<>>
      BY <1>2, <2>1, CanNeedsHolds DEF CanStackFits
    <2> QED
      BY <2>1, <2>2, CanCatHolds
  <1> QED
    BY <1>1, <1>2 DEF CanRests

-----------------------------------------------------------------------------
(* The strict JSON parser: its steps *)

\* A stack and a root that fit the text w, of which a is read and b is not.
CanConfig(st, root, w, a, b) ==
  /\ CanStackFits(st) /\ (st # <<>> => root = CanNothing)
  /\ CanReads(st, root, a) /\ (CanIsValue(w) => CanRests(st, root, b))

(* While a container is open or a value may start there is no value yet. *)
LEMMA CanConfigOngoing ==
  ASSUME NEW st, NEW root, NEW w, NEW a, NEW b, CanConfig(st, root, w, a, b),
         st # <<>> \/ CanExpects(st, root)
  PROVE  root = CanNothing /\ CanLayers("read", st, a) /\ CanStackFits(st)
  <1>1. root = CanNothing
    BY DEF CanConfig, CanExpects
  <1> QED
    BY <1>1 DEF CanConfig, CanReads

(* The values the parser makes are values. *)
LEMMA CanSomething ==
  ASSUME NEW x
  PROVE  CanScalar(x) # CanNothing /\ CanArray(x) # CanNothing /\ CanObject(x) # CanNothing
  <1>1. CanNothing.is = "nothing"
    BY DEF CanNothing
  <1>2. CanScalar(x).is = "scalar" /\ CanArray(x).is = "array" /\ CanObject(x).is = "object"
    BY DEF CanScalar, CanArray, CanObject
  <1> QED
    BY <1>1, <1>2

(* What readValue returns to fits. *)
LEMMA CanReturnFits ==
  ASSUME NEW st, CanAsking(st), NEW v
  PROVE  /\ CanStackFits(CanReturnStack(st, v))
         /\ CanReturnStack(st, v) # <<>> => CanReturnRoot(st, v) = CanNothing
  <1>1. CASE st = <<>>
    <2>1. CanReturnStack(st, v) = <<>> /\ CanIsSeq(<<>>)
      BY <1>1, CanSeqOne DEF CanReturnStack
    <2> QED
      BY <2>1 DEF CanStackFits
  <1>2. CASE st # <<>>
    <2>1. CanAsks(Last(st)) /\ CanAsking(Front(st))
      BY <1>2, CanAskingTop
    <2>2. CanIsFrame(CanReturnFrame(Last(st), v))
      BY <2>1, CanReturnFrameIs DEF CanAsks
    <2>3. CanStackFits(Append(Front(st), CanReturnFrame(Last(st), v)))
      BY <2>1, <2>2, CanStackFitsPush
    <2> QED
      BY <1>2, <2>3 DEF CanReturnStack, CanReturnRoot
  <1> QED
    BY <1>1, <1>2

(* readValue opens a container. *)
LEMMA CanConfigOpen ==
  ASSUME NEW st, NEW root, NEW w, NEW a \in CanSource, NEW b \in CanSource, NEW t, t = "[" \/ t = "{",
         CanConfig(st, root, w, a, CanCat(CanOne(t), b)), CanExpects(st, root)
  PROVE  CanConfig(Append(st, CanOpenFrame(t)), root, w, CanCat(a, CanOne(t)), b)
  <1>1. root = CanNothing /\ CanLayers("read", st, a) /\ CanStackFits(st)
    BY CanConfigOngoing
  <1>2. CanAsking(st)
    BY <1>1, CanAskingWhole DEF CanExpects
  <1> DEFINE f == CanOpenFrame(t)
  <1>3. CanIsFrame(f) /\ f.of = <<>> /\ CanOpener(f) = t /\ f.wants \in {"first item", "first key"}
    BY CanOpenFrameIs
  <1> HIDE DEF f
  <1>4. CanStackFits(Append(st, f))
    BY <1>2, <1>3, CanStackFitsPush
  <1>5. CanPart(f, CanOne(t))
    <2>1. CanPart(f, CanOne(CanOpener(f)))
      BY <1>3 DEF CanPart
    <2> QED
      BY <1>3, <2>1
  <1>6. CanOne(t) \in CanSource /\ CanCat(a, CanOne(t)) \in CanSource
    BY CanTokensAre, CanOneType, CanCatType
  <1>7. CanLayer("read", f, a, CanOne(t), CanCat(a, CanOne(t)))
    BY <1>5 DEF CanLayer
  <1>8. CanIsSeq(st)
    BY <1>1 DEF CanStackFits
  <1>9. CanLayers("read", Append(st, f), CanCat(a, CanOne(t)))
    BY <1>1, <1>6, <1>7, <1>8, CanLayersPush
  <1>10. CanReads(Append(st, f), root, CanCat(a, CanOne(t)))
    BY <1>1, <1>9 DEF CanReads
  <1>11. ASSUME CanIsValue(w) PROVE CanRests(Append(st, f), root, b)
    <2>1. CanRests(st, root, CanCat(CanOne(t), b))
      BY <1>11 DEF CanConfig
    <2>2. CanRests(Append(st, CanOpenFrame(t)), CanNothing, b)
      BY <1>1, <2>1, CanRestsOpen
    <2> QED
      BY <1>1, <2>2 DEF f
  <1>12. CanConfig(Append(st, f), root, w, CanCat(a, CanOne(t)), b)
    BY <1>1, <1>4, <1>10, <1>11 DEF CanConfig
  <1> QED
    BY <1>12 DEF f

(* readValue reads a scalar. *)
LEMMA CanConfigScalar ==
  ASSUME NEW st, NEW root, NEW w, NEW a \in CanSource, NEW b \in CanSource, NEW t \in CanScalars \cup CanKeys,
         CanConfig(st, root, w, a, CanCat(CanOne(t), b)), CanExpects(st, root), NEW v, v = CanScalar(t)
  PROVE  CanConfig(CanReturnStack(st, v), CanReturnRoot(st, v), w, CanCat(a, CanOne(t)), b)
  <1>1. root = CanNothing /\ CanLayers("read", st, a) /\ CanStackFits(st)
    BY CanConfigOngoing
  <1>2. CanAsking(st)
    BY <1>1, CanAskingWhole DEF CanExpects
  <1>3. v # CanNothing
    BY CanSomething
  <1>4. CanDerives("value", v, CanOne(t))
    BY CanRuleScalar
  <1>5. CanReads(CanReturnStack(st, v), CanReturnRoot(st, v), CanCat(a, CanOne(t)))
    BY <1>1, <1>2, <1>3, <1>4, CanReadsReturn
  <1>6. ASSUME CanIsValue(w) PROVE CanRests(CanReturnStack(st, v), CanReturnRoot(st, v), b)
    <2>1. CanRests(st, root, CanCat(CanOne(t), b))
      BY <1>6 DEF CanConfig
    <2> QED
      BY <1>1, <1>3, <2>1, CanRestsScalar
  <1>7. /\ CanStackFits(CanReturnStack(st, v))
        /\ CanReturnStack(st, v) # <<>> => CanReturnRoot(st, v) = CanNothing
    BY <1>2, CanReturnFits
  <1> QED
    BY <1>5, <1>6, <1>7 DEF CanConfig

(* The top container goes on. *)
LEMMA CanConfigTop ==
  ASSUME NEW st, NEW root, NEW w, NEW a \in CanSource, NEW b \in CanSource, NEW t \in CanTokens, st # <<>>,
         CanConfig(st, root, w, a, CanCat(CanOne(t), b)), NEW g, CanIsFrame(g),
         \A s \in CanSource : CanPart(Last(st), s) => CanPart(g, CanCat(s, CanOne(t))),
         CanRests(st, root, CanCat(CanOne(t), b)) => CanRests(Append(Front(st), g), CanNothing, b)
  PROVE  CanConfig(Append(Front(st), g), root, w, CanCat(a, CanOne(t)), b)
  <1>1. root = CanNothing /\ CanLayers("read", st, a) /\ CanStackFits(st)
    BY CanConfigOngoing
  <1>2. CanIsSeq(st) /\ CanAsking(Front(st))
    BY <1>1 DEF CanStackFits
  <1>3. CanOne(t) \in CanSource
    BY CanOneType
  <1>4. CanLayers("read", Append(Front(st), g), CanCat(a, CanOne(t)))
    BY <1>1, <1>2, <1>3, CanReadsTop
  <1>5. CanReads(Append(Front(st), g), root, CanCat(a, CanOne(t)))
    BY <1>1, <1>4 DEF CanReads
  <1>6. CanStackFits(Append(Front(st), g))
    BY <1>2, CanStackFitsPush
  <1>7. CanIsValue(w) => CanRests(Append(Front(st), g), root, b)
    BY <1>1 DEF CanConfig
  <1> QED
    BY <1>1, <1>5, <1>6, <1>7 DEF CanConfig

(* readObject reads a key. *)
LEMMA CanConfigKey ==
  ASSUME NEW st, NEW root, NEW w, NEW a \in CanSource, NEW b \in CanSource, NEW t \in CanKeys, st # <<>>,
         CanConfig(st, root, w, a, CanCat(CanOne(t), b)),
         CanAtKey(Last(st)), CanFresh(Last(st).of, t),
         NEW g, g = CanFrame(Last(st).is, "colon", Last(st).of, t)
  PROVE  CanConfig(Append(Front(st), g), root, w, CanCat(a, CanOne(t)), b)
  <1>0. t \in CanTokens
    BY CanTokensAre
  <1>1. CanStackFits(st) /\ CanIsFrame(Last(st))
    BY DEF CanConfig, CanStackFits
  <1>2. g.is = Last(st).is /\ g.wants = "colon" /\ g.of = Last(st).of /\ g.key = t
    BY DEF CanFrame
  <1>3. CanIsFrame(g)
    BY <1>1, <1>2 DEF CanIsFrame, CanAtKey
  <1>4. \A s \in CanSource : CanPart(Last(st), s) => CanPart(g, CanCat(s, CanOne(t)))
    BY <1>2, CanPartKey
  <1>5. CanRests(st, root, CanCat(CanOne(t), b)) => CanRests(Append(Front(st), g), CanNothing, b)
    BY <1>1, <1>2, CanRestsKey
  <1> QED
    BY <1>0, <1>3, <1>4, <1>5, CanConfigTop

(* readObject reads a colon. *)
LEMMA CanConfigColon ==
  ASSUME NEW st, NEW root, NEW w, NEW a \in CanSource, NEW b \in CanSource, NEW t, t = ":", st # <<>>,
         CanConfig(st, root, w, a, CanCat(CanOne(t), b)), Last(st).wants = "colon",
         NEW g, g = CanFrame(Last(st).is, "value", Last(st).of, Last(st).key)
  PROVE  CanConfig(Append(Front(st), g), root, w, CanCat(a, CanOne(t)), b)
  <1>0. t \in CanTokens
    BY CanTokensAre
  <1>1. CanStackFits(st) /\ CanIsFrame(Last(st))
    BY DEF CanConfig, CanStackFits
  <1>2. g.is = Last(st).is /\ g.wants = "value" /\ g.of = Last(st).of /\ g.key = Last(st).key
    BY DEF CanFrame
  <1>3. CanIsFrame(g)
    BY <1>1, <1>2 DEF CanIsFrame
  <1>4. \A s \in CanSource : CanPart(Last(st), s) => CanPart(g, CanCat(s, CanOne(t)))
    BY <1>2, CanPartColon
  <1>5. CanRests(st, root, CanCat(CanOne(t), b)) => CanRests(Append(Front(st), g), CanNothing, b)
    BY <1>1, <1>2, CanRestsColon
  <1> QED
    BY <1>0, <1>3, <1>4, <1>5, CanConfigTop

(* readObject, readArray read a comma. *)
LEMMA CanConfigComma ==
  ASSUME NEW st, NEW root, NEW w, NEW a \in CanSource, NEW b \in CanSource, NEW t, t = ",", st # <<>>,
         CanConfig(st, root, w, a, CanCat(CanOne(t), b)), Last(st).wants = "separator",
         NEW wants, wants = IF Last(st).is = "array" THEN "item" ELSE "key",
         NEW g, g = CanFrame(Last(st).is, wants, Last(st).of, Last(st).key)
  PROVE  CanConfig(Append(Front(st), g), root, w, CanCat(a, CanOne(t)), b)
  <1>0. t \in CanTokens
    BY CanTokensAre
  <1>1. CanStackFits(st) /\ CanIsFrame(Last(st))
    BY DEF CanConfig, CanStackFits
  <1>2. g.is = Last(st).is /\ g.wants = wants /\ g.of = Last(st).of
    BY DEF CanFrame
  <1>3. /\ g.wants \in {"item", "key"} /\ (Last(st).is = "array" => g.wants = "item")
        /\ (Last(st).is = "object" => g.wants = "key")
    BY <1>2
  <1>4. CanIsFrame(g)
    BY <1>1, <1>2, <1>3 DEF CanIsFrame
  <1>5. \A s \in CanSource : CanPart(Last(st), s) => CanPart(g, CanCat(s, CanOne(t)))
    BY <1>2, <1>3, CanPartComma
  <1>6. CanRests(st, root, CanCat(CanOne(t), b)) => CanRests(Append(Front(st), g), CanNothing, b)
    BY <1>1, <1>2, <1>3, CanRestsComma
  <1> QED
    BY <1>0, <1>4, <1>5, <1>6, CanConfigTop

\* The value of a container that closes.
CanClosed(f) == IF f.is = "array" THEN CanArray(f.of) ELSE CanObject(f.of)

(* readObject, readArray close a container. *)
LEMMA CanConfigClose ==
  ASSUME NEW st, NEW root, NEW w, NEW a \in CanSource, NEW b \in CanSource, NEW t, st # <<>>,
         CanConfig(st, root, w, a, CanCat(CanOne(t), b)),
         \/ Last(st).is = "array" /\ Last(st).wants \in {"first item", "separator"} /\ t = "]"
         \/ Last(st).is = "object" /\ Last(st).wants \in {"first key", "separator"} /\ t = "}",
         NEW v, v = CanClosed(Last(st))
  PROVE  CanConfig(CanReturnStack(Front(st), v), CanReturnRoot(Front(st), v), w, CanCat(a, CanOne(t)), b)
  <1>1. root = CanNothing /\ CanLayers("read", st, a) /\ CanStackFits(st)
    BY CanConfigOngoing
  <1>2. CanIsSeq(st) /\ CanAsking(Front(st))
    BY <1>1 DEF CanStackFits
  <1>3. t = CanCloser(Last(st))
    BY DEF CanCloser
  <1>4. v # CanNothing
    BY CanSomething DEF CanClosed
  <1>5. CanOne(t) \in CanSource
    BY <1>3, CanMarksOf
  <1>6. PICK c \in CanSource, s \in CanSource :
          CanLayers("read", Front(st), c) /\ CanLayer("read", Last(st), c, s, a)
    BY <1>1, <1>2, CanLayersPop
  <1>7. a = CanCat(c, s) /\ CanPart(Last(st), s)
    BY <1>6 DEF CanLayer
  <1>8. CanDerives("value", v, CanCat(s, CanOne(t)))
    <2>1. \/ Last(st).is = "array" /\ Last(st).wants \in {"first item", "separator"}
          \/ Last(st).is = "object" /\ Last(st).wants \in {"first key", "separator"}
      OBVIOUS
    <2>2. CanDerives("value", IF Last(st).is = "array" THEN CanArray(Last(st).of) ELSE CanObject(Last(st).of),
                     CanCat(s, CanOne(CanCloser(Last(st)))))
      BY <1>7, <2>1, CanPartClose
    <2> QED
      BY <1>3, <2>2 DEF CanClosed
  <1>9. PICK o \in CanSource : o = CanOne(t)
    BY <1>5
  <1>10. CanCat(CanCat(c, s), o) = CanCat(c, CanCat(s, o))
    BY CanCatAssoc, ZenonT(30)
  <1>11. PICK x \in CanSource : x = CanCat(s, o)
    BY CanCatType
  <1>12. CanReads(CanReturnStack(Front(st), v), CanReturnRoot(Front(st), v), CanCat(c, x))
    <2>1. CanDerives("value", v, x)
      BY <1>8, <1>9, <1>11
    <2> QED
      BY <1>2, <1>4, <1>6, <2>1, CanReadsReturn
  <1>13. CanCat(a, CanOne(t)) = CanCat(c, x)
    BY <1>7, <1>9, <1>10, <1>11
  <1>14. ASSUME CanIsValue(w) PROVE CanRests(CanReturnStack(Front(st), v), CanReturnRoot(Front(st), v), b)
    <2>1. CanRests(st, root, CanCat(CanOne(t), b))
      BY <1>14 DEF CanConfig
    <2> QED
      BY <1>1, <1>3, <1>4, <2>1, CanRestsClose
  <1>15. /\ CanStackFits(CanReturnStack(Front(st), v))
         /\ CanReturnStack(Front(st), v) # <<>> => CanReturnRoot(Front(st), v) = CanNothing
    BY <1>2, CanReturnFits
  <1> QED
    BY <1>12, <1>13, <1>14, <1>15 DEF CanConfig

-----------------------------------------------------------------------------
(* The strict JSON parser: the theorem *)

\* The inductive invariant.  What was read is shared out among the open
\* containers; when the text is one of a value, so is what is still to be read.
CanIInv ==
  /\ canText \in CanSource /\ canOffset \in 0..Len(canText)
  /\ canState \in {"reading", "accepted", "refused"}
  /\ CanConfig(canStack, canRoot, canText, CanReadText, CanRestText)
  /\ canState = "accepted" => canStack = <<>> /\ canRoot # CanNothing /\ canOffset = Len(canText)
  /\ canState = "refused" => ~CanIsValue(canText)

(* Before the first token nothing is read and everything is to be read. *)
LEMMA CanInitHolds ==
  ASSUME CanParserInit
  PROVE  CanIInv
  <1>1. /\ canText \in CanSource /\ canOffset = 0 /\ canStack = <<>> /\ canRoot = CanNothing
        /\ canState = "reading"
    BY DEF CanParserInit, CanStart, CanSource
  <1>2. Len(canText) \in Nat /\ CanReadText = <<>> /\ CanRestText = canText
    BY <1>1, CanTextEnds DEF CanReadText, CanRestText
  <1>3. CanLayers("read", <<>>, <<>>) /\ CanIsSeq(<<>>)
    BY CanLayersEmpty, CanSeqOne
  <1>4. CanReads(<<>>, CanNothing, <<>>) /\ CanStackFits(<<>>)
    BY <1>3 DEF CanReads, CanStackFits
  <1>5. CanIsValue(canText) => CanRests(<<>>, CanNothing, canText)
    BY DEF CanRests
  <1>6. CanConfig(canStack, canRoot, canText, CanReadText, CanRestText)
    BY <1>1, <1>2, <1>4, <1>5 DEF CanConfig
  <1> QED
    BY <1>1, <1>2, <1>6 DEF CanIInv

(* A step of the parser that reads a token keeps the invariant. *)
LEMMA CanTokenHolds ==
  ASSUME CanIInv, CanReading, canText' = canText, canOffset' = canOffset + 1, canState' = canState,
         \A a \in CanSource, b \in CanSource :
           CanConfig(canStack, canRoot, canText, a, CanCat(CanOne(CanToken), b))
             => CanConfig(canStack', canRoot', canText, CanCat(a, CanOne(CanToken)), b)
  PROVE  CanIInv'
  <1>1. /\ canText \in CanSource /\ canOffset \in Nat /\ canOffset < Len(canText) /\ canState = "reading"
        /\ Len(canText) \in Nat
    BY CanTextEnds DEF CanIInv, CanReading
  <1> DEFINE a == SubSeq(canText, 1, canOffset)
             b == SubSeq(canText, (canOffset + 1) + 1, Len(canText))
             c == SubSeq(canText, 1, canOffset + 1)
             d == SubSeq(canText, canOffset + 1, Len(canText))
  <1>2. /\ a \in CanSource /\ b \in CanSource /\ c = CanCat(a, CanOne(CanToken))
        /\ d = CanCat(CanOne(CanToken), b)
    BY <1>1, CanTokenRead DEF CanToken
  <1>3. CanReadText = a /\ CanRestText = d /\ CanReadText' = c /\ CanRestText' = b
    BY DEF CanReadText, CanRestText
  <1> HIDE DEF a, b, c, d
  <1>4. CanConfig(canStack, canRoot, canText, a, d)
    BY <1>3 DEF CanIInv
  <1>5. CanConfig(canStack', canRoot', canText, c, b)
    BY <1>2, <1>4
  <1>6. CanConfig(canStack, canRoot, canText, CanReadText, CanRestText)'
    <2>1. CanConfig(canStack', canRoot', canText', CanReadText', CanRestText')
      BY <1>3, <1>5
    <2> QED
      BY <2>1 DEF CanConfig
  <1>7. canOffset' \in 0..Len(canText') /\ canText' \in CanSource /\ canState' = "reading"
    BY <1>1
  <1> QED
    BY <1>6, <1>7 DEF CanIInv

\* Where readValue's return leaves the stack and the root.
CanReturns(st, v) == canStack' = CanReturnStack(st, v) /\ canRoot' = CanReturnRoot(st, v)

(* readValue's return. *)
LEMMA CanReturnIs ==
  ASSUME NEW st, NEW v, CanReturn(st, v), st # <<>> => canRoot = CanNothing
  PROVE  /\ CanReturns(st, v)
         /\ canText' = canText /\ canOffset' = canOffset + 1 /\ canState' = canState
  <1>1. CASE st = <<>>
    <2>1. CanGo(st, v)
      BY <1>1 DEF CanReturn
    <2> QED
      BY <1>1, <2>1 DEF CanGo, CanReturns, CanReturnStack, CanReturnRoot
  <1>2. CASE st # <<>>
    <2>1. CanGo(Append(Front(st), CanReturnFrame(Last(st), v)), canRoot)
      BY <1>2 DEF CanReturn, CanSetTop, CanReturnFrame, CanReturnRead
    <2>2. /\ canStack' = Append(Front(st), CanReturnFrame(Last(st), v)) /\ canRoot' = canRoot
          /\ canText' = canText /\ canOffset' = canOffset + 1 /\ canState' = canState
      BY <2>1 DEF CanGo
    <2> QED
      BY <1>2, <2>2 DEF CanReturns, CanReturnStack, CanReturnRoot
  <1> QED
    BY <1>1, <1>2

(* A value may start where the parser expects one. *)
LEMMA CanExpectsIs ==
  CanExpectsValue <=> CanExpects(canStack, canRoot)
  BY DEF CanExpectsValue, CanExpects, CanTop

(* readValue opens a container. *)
LEMMA CanOpenHolds ==
  ASSUME CanIInv, CanOpen
  PROVE  CanIInv'
  <1>1. CanReading /\ CanExpects(canStack, canRoot) /\ (CanToken = "[" \/ CanToken = "{")
    BY CanExpectsIs DEF CanOpen, CanOpens
  <1>2. CanGo(Append(canStack, CanOpenFrame(CanToken)), canRoot)
    BY DEF CanOpen, CanOpenFrame
  <1>3. /\ canStack' = Append(canStack, CanOpenFrame(CanToken)) /\ canRoot' = canRoot
        /\ canText' = canText /\ canOffset' = canOffset + 1 /\ canState' = canState
    BY <1>2 DEF CanGo
  <1>4. ASSUME NEW a \in CanSource, NEW b \in CanSource,
               CanConfig(canStack, canRoot, canText, a, CanCat(CanOne(CanToken), b))
        PROVE  CanConfig(canStack', canRoot', canText, CanCat(a, CanOne(CanToken)), b)
    BY <1>1, <1>3, <1>4, CanConfigOpen
  <1> QED
    BY <1>1, <1>3, <1>4, CanTokenHolds

(* readValue reads a scalar. *)
LEMMA CanScalarHolds ==
  ASSUME CanIInv, CanReadScalar
  PROVE  CanIInv'
  <1>1. CanReading /\ CanExpects(canStack, canRoot) /\ CanToken \in CanScalars \cup CanKeys
    BY CanExpectsIs DEF CanReadScalar, CanIsScalar
  <1>2. canStack # <<>> => canRoot = CanNothing
    BY DEF CanIInv, CanConfig
  <1>3. PICK v : v = CanScalar(CanToken)
    OBVIOUS
  <1>4. CanReturn(canStack, v)
    BY <1>3 DEF CanReadScalar
  <1>5. /\ CanReturns(canStack, v)
        /\ canText' = canText /\ canOffset' = canOffset + 1 /\ canState' = canState
    BY <1>2, <1>4, CanReturnIs
  <1>6. canStack' = CanReturnStack(canStack, v) /\ canRoot' = CanReturnRoot(canStack, v)
    BY <1>5 DEF CanReturns
  <1>7. ASSUME NEW a \in CanSource, NEW b \in CanSource,
               CanConfig(canStack, canRoot, canText, a, CanCat(CanOne(CanToken), b))
        PROVE  CanConfig(canStack', canRoot', canText, CanCat(a, CanOne(CanToken)), b)
    BY <1>1, <1>3, <1>6, <1>7, CanConfigScalar
  <1> QED
    BY <1>1, <1>5, <1>7, CanTokenHolds

(* readObject reads a key. *)
LEMMA CanKeyHolds ==
  ASSUME CanIInv, CanReadKey
  PROVE  CanIInv'
  <1>1. /\ CanReading /\ canStack # <<>> /\ CanAtKey(Last(canStack)) /\ CanToken \in CanKeys
        /\ CanFresh(Last(canStack).of, CanToken)
    BY DEF CanReadKey, CanIsKey, CanTop, CanAtKey
  <1>2. PICK g : g = CanFrame(Last(canStack).is, "colon", Last(canStack).of, CanToken)
    OBVIOUS
  <1>3. /\ canStack' = Append(Front(canStack), g) /\ canRoot' = canRoot
        /\ canText' = canText /\ canOffset' = canOffset + 1 /\ canState' = canState
    BY <1>2 DEF CanReadKey, CanSetTop, CanGo, CanTop
  <1>4. ASSUME NEW a \in CanSource, NEW b \in CanSource,
               CanConfig(canStack, canRoot, canText, a, CanCat(CanOne(CanToken), b))
        PROVE  CanConfig(canStack', canRoot', canText, CanCat(a, CanOne(CanToken)), b)
    BY <1>1, <1>2, <1>3, <1>4, CanConfigKey
  <1> QED
    BY <1>1, <1>3, <1>4, CanTokenHolds

(* readObject reads a colon. *)
LEMMA CanColonHolds ==
  ASSUME CanIInv, CanReadColon
  PROVE  CanIInv'
  <1>1. CanReading /\ canStack # <<>> /\ Last(canStack).wants = "colon" /\ CanToken = ":"
    BY DEF CanReadColon, CanIsColon, CanTop
  <1>2. PICK g : g = CanFrame(Last(canStack).is, "value", Last(canStack).of, Last(canStack).key)
    OBVIOUS
  <1>3. /\ canStack' = Append(Front(canStack), g) /\ canRoot' = canRoot
        /\ canText' = canText /\ canOffset' = canOffset + 1 /\ canState' = canState
    BY <1>2 DEF CanReadColon, CanSetTop, CanGo, CanTop
  <1>4. ASSUME NEW a \in CanSource, NEW b \in CanSource,
               CanConfig(canStack, canRoot, canText, a, CanCat(CanOne(CanToken), b))
        PROVE  CanConfig(canStack', canRoot', canText, CanCat(a, CanOne(CanToken)), b)
    BY <1>1, <1>2, <1>3, <1>4, CanConfigColon
  <1> QED
    BY <1>1, <1>3, <1>4, CanTokenHolds

(* readObject, readArray read a comma. *)
LEMMA CanCommaHolds ==
  ASSUME CanIInv, CanReadComma
  PROVE  CanIInv'
  <1>1. CanReading /\ canStack # <<>> /\ Last(canStack).wants = "separator" /\ CanToken = ","
    BY DEF CanReadComma, CanIsComma, CanTop
  <1>2. PICK wants : wants = IF Last(canStack).is = "array" THEN "item" ELSE "key"
    OBVIOUS
  <1>3. PICK g : g = CanFrame(Last(canStack).is, wants, Last(canStack).of, Last(canStack).key)
    OBVIOUS
  <1>4. /\ canStack' = Append(Front(canStack), g) /\ canRoot' = canRoot
        /\ canText' = canText /\ canOffset' = canOffset + 1 /\ canState' = canState
    BY <1>2, <1>3 DEF CanReadComma, CanSetTop, CanGo, CanTop
  <1>5. ASSUME NEW a \in CanSource, NEW b \in CanSource,
               CanConfig(canStack, canRoot, canText, a, CanCat(CanOne(CanToken), b))
        PROVE  CanConfig(canStack', canRoot', canText, CanCat(a, CanOne(CanToken)), b)
    BY <1>1, <1>2, <1>3, <1>4, <1>5, CanConfigComma
  <1> QED
    BY <1>1, <1>4, <1>5, CanTokenHolds

(* readObject, readArray close a container. *)
LEMMA CanCloseHolds ==
  ASSUME CanIInv, CanClose
  PROVE  CanIInv'
  <1>1. /\ CanReading /\ canStack # <<>>
        /\ \/ /\ Last(canStack).is = "array" /\ Last(canStack).wants \in {"first item", "separator"}
              /\ CanToken = "]"
           \/ /\ Last(canStack).is = "object" /\ Last(canStack).wants \in {"first key", "separator"}
              /\ CanToken = "}"
    BY DEF CanClose, CanCloses, CanTop
  <1>2. canRoot = CanNothing
    BY <1>1 DEF CanIInv, CanConfig
  <1>3. PICK v : v = CanClosed(Last(canStack))
    OBVIOUS
  <1>4. CanReturn(Front(canStack), v)
    BY <1>3 DEF CanClose, CanClosed, CanTop
  <1>5. /\ CanReturns(Front(canStack), v)
        /\ canText' = canText /\ canOffset' = canOffset + 1 /\ canState' = canState
    BY <1>2, <1>4, CanReturnIs
  <1>6. canStack' = CanReturnStack(Front(canStack), v) /\ canRoot' = CanReturnRoot(Front(canStack), v)
    BY <1>5 DEF CanReturns
  <1>7. ASSUME NEW a \in CanSource, NEW b \in CanSource,
               CanConfig(canStack, canRoot, canText, a, CanCat(CanOne(CanToken), b))
        PROVE  CanConfig(canStack', canRoot', canText, CanCat(a, CanOne(CanToken)), b)
    BY <1>1, <1>3, <1>6, <1>7, CanConfigClose
  <1> QED
    BY <1>1, <1>5, <1>7, CanTokenHolds

(* fail: no text of a value has such a token here. *)
LEMMA CanFailHolds ==
  ASSUME CanIInv, CanFail
  PROVE  CanIInv'
  <1>1. /\ canText \in CanSource /\ canOffset \in Nat /\ canOffset < Len(canText) /\ canState' = "refused"
        /\ UNCHANGED <<canText, canOffset, canStack, canRoot>>
    BY CanTextEnds DEF CanIInv, CanFail, CanReading
  <1>2. ASSUME CanIsValue(canText) PROVE FALSE
    <2>1. CanStackFits(canStack) /\ CanRests(canStack, canRoot, CanRestText)
      BY <1>2 DEF CanIInv, CanConfig
    <2>2. PICK t : t = CanToken
      OBVIOUS
    <2>3. PICK b : b = SubSeq(canText, (canOffset + 1) + 1, Len(canText))
      OBVIOUS
    <2>4. t \in CanTokens /\ b \in CanSource /\ CanRestText = CanCat(CanOne(t), b)
      BY <1>1, <2>2, <2>3, CanTokenRead DEF CanToken, CanRestText
    <2>5. CanTakes(canStack, canRoot, t)
      BY <2>1, <2>4, CanRestsTaken
    <2>6. ~(CanOpens \/ CanIsScalar \/ CanIsKey \/ CanIsColon \/ CanIsComma \/ CanCloses)
      BY DEF CanFail
    <2> QED
      BY <2>2, <2>5, <2>6, CanExpectsIs
      DEF CanTakes, CanOpens, CanIsScalar, CanIsKey, CanIsColon, CanIsComma, CanCloses, CanTop
  <1>3. CanReadText' = CanReadText /\ CanRestText' = CanRestText
    BY <1>1 DEF CanReadText, CanRestText
  <1>4. CanConfig(canStack, canRoot, canText, CanReadText, CanRestText)'
    BY <1>1, <1>3 DEF CanIInv
  <1>5. canOffset' \in 0..Len(canText') /\ canText' \in CanSource
    BY <1>1 DEF CanIInv
  <1>6. ~CanIsValue(canText')
    BY <1>1, <1>2
  <1> QED
    BY <1>1, <1>4, <1>5, <1>6 DEF CanIInv

(* parse: at the end of a text of a value the value is complete. *)
LEMMA CanEndHolds ==
  ASSUME CanIInv, CanEnd
  PROVE  CanIInv'
  <1>1. /\ canText \in CanSource /\ canOffset = Len(canText)
        /\ canState' = (IF canStack = <<>> /\ canRoot # CanNothing THEN "accepted" ELSE "refused")
        /\ UNCHANGED <<canText, canOffset, canStack, canRoot>>
    BY DEF CanIInv, CanEnd
  <1>2. ASSUME CanIsValue(canText) PROVE canStack = <<>> /\ canRoot # CanNothing
    <2>1. CanStackFits(canStack) /\ CanRests(canStack, canRoot, CanRestText)
      BY <1>2 DEF CanIInv, CanConfig
    <2>2. CanRestText = <<>>
      BY <1>1, CanTextEnds DEF CanRestText
    <2> QED
      BY <2>1, <2>2, CanRestsNil
  <1>3. CanReadText' = CanReadText /\ CanRestText' = CanRestText
    BY <1>1 DEF CanReadText, CanRestText
  <1>4. CanConfig(canStack, canRoot, canText, CanReadText, CanRestText)'
    BY <1>1, <1>3 DEF CanIInv
  <1>5. canOffset' \in 0..Len(canText') /\ canText' \in CanSource
    BY <1>1 DEF CanIInv
  <1> QED
    BY <1>1, <1>2, <1>4, <1>5 DEF CanIInv

(* The invariant says what the parser promises. *)
LEMMA CanIInvExact ==
  ASSUME CanIInv
  PROVE  CanReadsExactly
  <1>1. ASSUME canState = "accepted" PROVE CanDerives("value", canRoot, canText)
    <2>1. CanReadText = canText
      BY <1>1, CanTextEnds DEF CanIInv, CanReadText
    <2>2. CanReads(canStack, canRoot, canText) /\ canRoot # CanNothing
      BY <1>1, <2>1 DEF CanIInv, CanConfig
    <2> QED
      BY <2>2 DEF CanReads
  <1>2. canState = "refused" => \A v : ~CanDerives("value", v, canText)
    BY DEF CanIInv, CanIsValue
  <1> QED
    BY <1>1, <1>2 DEF CanReadsExactly

(* The strict JSON parser reads the language of JSON without repeated keys *)
(* exactly, whatever the tokens and however deep the containers nest: it   *)
(* accepts a text only as a text of the value it returns, derived by the   *)
(* grammar token by token, and it refuses only a text of no value.         *)
THEOREM ParserReadsExactly ==
  CanParserSpec => []CanReadsExactly
  <1>1. CanParserInit => CanIInv
    BY CanInitHolds
  <1>2. CanIInv /\ [CanParserNext]_canParserVars => CanIInv'
    <2> SUFFICES ASSUME CanIInv, [CanParserNext]_canParserVars PROVE CanIInv'
      OBVIOUS
    <2>1. CASE CanParserNext
      BY <2>1, CanOpenHolds, CanScalarHolds, CanKeyHolds, CanColonHolds, CanCommaHolds, CanCloseHolds,
         CanFailHolds, CanEndHolds DEF CanParserNext
    <2>2. CASE UNCHANGED canParserVars
      <3>1. canText' = canText /\ canOffset' = canOffset /\ canStack' = canStack /\ canRoot' = canRoot
            /\ canState' = canState
        BY <2>2 DEF canParserVars
      <3>2. CanReadText' = CanReadText /\ CanRestText' = CanRestText
        BY <3>1 DEF CanReadText, CanRestText
      <3>3. CanConfig(canStack, canRoot, canText, CanReadText, CanRestText)'
        BY <3>1, <3>2 DEF CanIInv
      <3> QED
        BY <3>1, <3>3 DEF CanIInv
    <2> QED
      BY <2>1, <2>2
  <1>3. CanIInv => CanReadsExactly
    BY CanIInvExact
  <1> QED
    BY <1>1, <1>2, <1>3, PTL DEF CanParserSpec
-----------------------------------------------------------------------------
(* The strict JSON parser: a text is of one value *)

\* Everything that is derived.
CanAll == UNION {CanJudgments(n) : n \in Nat}

\* Arrays and objects by what they hold.
CanHolding == {"elements", "members"}
CanLeft(kind) == IF kind = "elements" THEN "[" ELSE "{"
CanRight(kind) == IF kind = "elements" THEN "]" ELSE "}"
CanContainer(kind, of) == IF kind = "elements" THEN CanArray(of) ELSE CanObject(of)
CanInside(J, kind, of, e) == (of = <<>> /\ e = <<>>) \/ CanJudgment(kind, of, e) \in J

\* Values and what containers hold, seen from their end.
CanScalarEnd(v, x) == \E t \in CanScalars \cup CanKeys : v = CanScalar(t) /\ x = CanOne(t)
CanWholeEnd(J, v, x) ==
  \E kind \in CanHolding, e \in CanSource :
    /\ x = CanCat(CanCat(CanOne(CanLeft(kind)), e), CanOne(CanRight(kind)))
    /\ \E of : CanInside(J, kind, of, e) /\ v = CanContainer(kind, of)
CanValueEnd(J, v, x) == CanScalarEnd(v, x) \/ CanWholeEnd(J, v, x)
CanStem(J, kind, b, g) ==
  (b = <<>> /\ g = <<>>) \/ \E e \in CanSource : CanJudgment(kind, b, e) \in J /\ g = CanCat(e, CanOne(","))
CanNamed(kind, x, v, h) ==
  \/ kind = "elements" /\ x = v /\ h = <<>>
  \/ kind = "members" /\ \E k \in CanKeys : x = CanEntry(k, v) /\ h = CanCat(CanOne(k), CanOne(":"))
CanListEnd(J, kind, a, e) ==
  \E g \in CanSource, h \in CanSource, s \in CanSource :
    /\ e = CanCat(CanCat(g, h), s)
    /\ \E b, x, v :
         /\ CanStem(J, kind, b, g) /\ CanNamed(kind, x, v, h) /\ CanJudgment("value", v, s) \in J
         /\ a = Append(b, x)

(* The marks are tokens, and no two of a kind are the same. *)
LEMMA CanKindMarks ==
  ASSUME NEW kind \in CanHolding
  PROVE  /\ CanLeft(kind) \in CanTokens /\ CanRight(kind) \in CanTokens
         /\ CanOne(CanLeft(kind)) \in CanSource /\ CanOne(CanRight(kind)) \in CanSource
         /\ (CanLeft(kind) = "[" \/ CanLeft(kind) = "{") /\ (CanRight(kind) = "]" \/ CanRight(kind) = "}")
         /\ \A other \in CanHolding : CanRight(other) = CanRight(kind) => other = kind
  <1>1. /\ (CanLeft(kind) = "[" \/ CanLeft(kind) = "{") /\ (CanRight(kind) = "]" \/ CanRight(kind) = "}")
        /\ \A other \in CanHolding : CanRight(other) = CanRight(kind) => other = kind
    BY DEF CanHolding, CanLeft, CanRight
  <1>2. CanLeft(kind) \in CanTokens /\ CanRight(kind) \in CanTokens
    BY <1>1, CanTokensAre
  <1> QED
    BY <1>1, <1>2, CanOneType

(* A text is its last token and what is before it. *)
LEMMA CanCutLast ==
  ASSUME NEW t \in CanTokens, NEW u \in CanTokens, NEW a \in CanSource, NEW b \in CanSource,
         CanCat(a, CanOne(t)) = CanCat(b, CanOne(u))
  PROVE  t = u /\ a = b
  <1>1. a \in Seq(CanTokens) /\ b \in Seq(CanTokens) /\ <<t>> \in Seq(CanTokens) /\ <<u>> \in Seq(CanTokens)
    BY DEF CanSource
  <1>2. Len(a) \in Nat /\ Len(b) \in Nat /\ Len(<<t>>) = 1 /\ Len(<<u>>) = 1
    BY <1>1, LenProperties
  <1>3. /\ Len(CanCat(a, CanOne(t))) = Len(a) + 1
        /\ CanCat(a, CanOne(t))[Len(a) + 1] = t
    BY <1>1, <1>2, ConcatProperties DEF CanCat, CanOne
  <1>4. /\ Len(CanCat(b, CanOne(u))) = Len(b) + 1
        /\ CanCat(b, CanOne(u))[Len(b) + 1] = u
    BY <1>1, <1>2, ConcatProperties DEF CanCat, CanOne
  <1>5. Len(a) = Len(b)
    BY <1>2, <1>3, <1>4
  <1>6. t = u
    BY <1>3, <1>4, <1>5
  <1>7. a = b
    BY <1>1, <1>6, ConcatSimplifications DEF CanCat, CanOne
  <1> QED
    BY <1>6, <1>7

(* Everything that is derived, in two ways. *)
LEMMA CanAllDerived ==
  ASSUME NEW is, NEW of, NEW text
  PROVE  /\ CanDerives(is, of, text) <=> CanJudgment(is, of, text) \in CanAll
         /\ \A n \in Nat : CanJudgments(n) \subseteq CanAll
  BY DEF CanDerives, CanAll

(* The last rule of a value. *)
LEMMA CanValueRuleEnd ==
  ASSUME NEW n \in Nat, NEW v, NEW s, CanJudgment("value", v, s) \in CanJudge(CanJudgments(n))
  PROVE  CanValueEnd(CanJudgments(n), v, s)
  <1> DEFINE j == CanJudgment("value", v, s)
             J == CanJudgments(n)
  <1>0. j.is = "value" /\ j.of = v /\ j.text = s
    BY CanJudgmentFields
  <1>r. j \in CanJudge(J)
    OBVIOUS
  <1> HIDE DEF j
  <1>1. CanValueRule(J, j)
    BY <1>0, <1>r, CanRuleOf
  <1>2. CASE \E t \in CanScalars \cup CanKeys : j = CanJudgment("value", CanScalar(t), <<t>>)
    <2>1. PICK t \in CanScalars \cup CanKeys : j = CanJudgment("value", CanScalar(t), <<t>>)
      BY <1>2
    <2>2. s = CanOne(t) /\ v = CanScalar(t)
      BY <1>0, <2>1, CanJudgmentFields DEF CanOne
    <2> QED
      BY <2>2 DEF CanValueEnd, CanScalarEnd
  <1>k. /\ "elements" \in CanHolding /\ "members" \in CanHolding /\ CanLeft("elements") = "["
        /\ CanRight("elements") = "]" /\ CanLeft("members") = "{" /\ CanRight("members") = "}"
        /\ \A of : CanContainer("elements", of) = CanArray(of) /\ CanContainer("members", of) = CanObject(of)
    BY DEF CanHolding, CanLeft, CanRight, CanContainer
  <1>e. <<>> \in CanSource /\ \A a \in CanSource : CanCat(a, <<>>) = a
    BY CanCatNil, EmptySeq DEF CanSource
  <1>t. CanOne("[") \in CanSource /\ CanOne("]") \in CanSource /\ CanOne("{") \in CanSource /\ CanOne("}") \in CanSource
    BY CanTokensAre, CanOneType
  <1>w. ASSUME NEW kind \in CanHolding, NEW of, NEW e \in CanSource,
               CanInside(J, kind, of, e), v = CanContainer(kind, of),
               s = CanCat(CanCat(CanOne(CanLeft(kind)), e), CanOne(CanRight(kind)))
        PROVE  CanValueEnd(J, v, s)
    BY <1>w DEF CanValueEnd, CanWholeEnd
  <1>3. CASE j = CanJudgment("value", CanArray(<<>>), <<"[", "]">>)
    <2>1. s = <<"[", "]">> /\ v = CanArray(<<>>)
      BY <1>0, <1>3 DEF CanJudgment
    <2>2. s = CanCat(CanOne("["), CanOne("]"))
      BY <2>1, CanTokensAre, CanTwo
    <2>3. s = CanCat(CanCat(CanOne("["), <<>>), CanOne("]"))
      BY <1>e, <1>t, <2>2
    <2>4. CanInside(J, "elements", <<>>, <<>>)
      BY DEF CanInside
    <2> QED
      BY <1>k, <1>e, <1>w, <2>1, <2>3, <2>4
  <1>4. CASE j = CanJudgment("value", CanObject(<<>>), <<"{", "}">>)
    <2>1. s = <<"{", "}">> /\ v = CanObject(<<>>)
      BY <1>0, <1>4 DEF CanJudgment
    <2>2. s = CanCat(CanOne("{"), CanOne("}"))
      BY <2>1, CanTokensAre, CanTwo
    <2>3. s = CanCat(CanCat(CanOne("{"), <<>>), CanOne("}"))
      BY <1>e, <1>t, <2>2
    <2>4. CanInside(J, "members", <<>>, <<>>)
      BY DEF CanInside
    <2> QED
      BY <1>k, <1>e, <1>w, <2>1, <2>3, <2>4
  <1>5. CASE \E e \in CanOf(J, "elements") :
               j = CanJudgment("value", CanArray(e.of), <<"[">> \o e.text \o <<"]">>)
    <2>1. PICK e \in CanOf(J, "elements") :
               j = CanJudgment("value", CanArray(e.of), <<"[">> \o e.text \o <<"]">>)
      BY <1>5
    <2>2. CanJudgment("elements", e.of, e.text) \in J /\ e.text \in CanSource
      BY CanOfDerived
    <2>3. s = <<"[">> \o e.text \o <<"]">> /\ v = CanArray(e.of)
      BY <1>0, <2>1 DEF CanJudgment
    <2>4. s = CanCat(CanCat(CanOne("["), e.text), CanOne("]"))
      BY <2>3 DEF CanCat, CanOne
    <2>5. CanInside(J, "elements", e.of, e.text)
      BY <2>2 DEF CanInside
    <2> QED
      BY <1>k, <1>w, <2>2, <2>3, <2>4, <2>5
  <1>6. CASE \E m \in CanOf(J, "members") :
               j = CanJudgment("value", CanObject(m.of), <<"{">> \o m.text \o <<"}">>)
    <2>1. PICK m \in CanOf(J, "members") :
               j = CanJudgment("value", CanObject(m.of), <<"{">> \o m.text \o <<"}">>)
      BY <1>6
    <2>2. CanJudgment("members", m.of, m.text) \in J /\ m.text \in CanSource
      BY CanOfDerived
    <2>3. s = <<"{">> \o m.text \o <<"}">> /\ v = CanObject(m.of)
      BY <1>0, <2>1 DEF CanJudgment
    <2>4. s = CanCat(CanCat(CanOne("{"), m.text), CanOne("}"))
      BY <2>3 DEF CanCat, CanOne
    <2>5. CanInside(J, "members", m.of, m.text)
      BY <2>2 DEF CanInside
    <2> QED
      BY <1>k, <1>w, <2>2, <2>3, <2>4, <2>5
  <1> QED
    BY <1>1, <1>2, <1>3, <1>4, <1>5, <1>6 DEF CanValueRule

(* The last rule of elements. *)
LEMMA CanElementsRuleEnd ==
  ASSUME NEW n \in Nat, NEW a, NEW e, CanJudgment("elements", a, e) \in CanJudge(CanJudgments(n))
  PROVE  CanListEnd(CanJudgments(n), "elements", a, e)
  <1> DEFINE j == CanJudgment("elements", a, e)
             J == CanJudgments(n)
  <1>0. j.is = "elements" /\ j.of = a /\ j.text = e
    BY CanJudgmentFields
  <1>r. j \in CanJudge(J)
    OBVIOUS
  <1> HIDE DEF j
  <1>1. CanElementsRule(J, j)
    BY <1>0, <1>r, CanRuleOf
  <1>e. <<>> \in CanSource /\ \A x \in CanSource : CanCat(x, <<>>) = x /\ CanCat(<<>>, x) = x
    BY CanCatNil, EmptySeq DEF CanSource
  <1>n. \A x : CanNamed("elements", x, x, <<>>)
    BY DEF CanNamed
  <1>2. CASE \E v \in CanOf(J, "value") : j = CanJudgment("elements", <<v.of>>, v.text)
    <2>1. PICK v \in CanOf(J, "value") : j = CanJudgment("elements", <<v.of>>, v.text)
      BY <1>2
    <2>2. CanJudgment("value", v.of, v.text) \in J /\ v.text \in CanSource
      BY CanOfDerived
    <2>3. e = v.text /\ a = <<v.of>>
      BY <1>0, <2>1 DEF CanJudgment
    <2>4. a = Append(<<>>, v.of)
      BY <2>3, CanSeqOne
    <2>5. CanStem(J, "elements", <<>>, <<>>)
      BY DEF CanStem
    <2>6. e = CanCat(CanCat(<<>>, <<>>), v.text)
      BY <1>e, <2>2, <2>3
    <2> QED
      BY <1>e, <1>n, <2>2, <2>4, <2>5, <2>6 DEF CanListEnd
  <1>3. CASE \E d \in CanOf(J, "elements") : \E v \in CanOf(J, "value") :
               j = CanJudgment("elements", Append(d.of, v.of), d.text \o <<",">> \o v.text)
    <2>1. PICK d \in CanOf(J, "elements") : \E v \in CanOf(J, "value") :
               j = CanJudgment("elements", Append(d.of, v.of), d.text \o <<",">> \o v.text)
      BY <1>3
    <2>2. PICK v \in CanOf(J, "value") :
               j = CanJudgment("elements", Append(d.of, v.of), d.text \o <<",">> \o v.text)
      BY <2>1
    <2>3. CanJudgment("elements", d.of, d.text) \in J /\ d.text \in CanSource
      BY CanOfDerived
    <2>4. CanJudgment("value", v.of, v.text) \in J /\ v.text \in CanSource
      BY CanOfDerived
    <2>5. e = d.text \o <<",">> \o v.text /\ a = Append(d.of, v.of)
      BY <1>0, <2>2 DEF CanJudgment
    <2>6. e = CanCat(CanCat(d.text, CanOne(",")), v.text)
      BY <2>5 DEF CanCat, CanOne
    <2>7. PICK g \in CanSource : g = CanCat(d.text, CanOne(","))
      BY <2>3, CanTokensAre, CanOneType, CanCatType
    <2>8. CanStem(J, "elements", d.of, g)
      BY <2>3, <2>7 DEF CanStem
    <2>9. e = CanCat(CanCat(g, <<>>), v.text)
      BY <1>e, <2>6, <2>7
    <2> QED
      BY <1>e, <1>n, <2>4, <2>5, <2>8, <2>9 DEF CanListEnd
  <1> QED
    BY <1>1, <1>2, <1>3 DEF CanElementsRule

(* The last rule of members. *)
LEMMA CanMembersRuleEnd ==
  ASSUME NEW n \in Nat, NEW a, NEW e, CanJudgment("members", a, e) \in CanJudge(CanJudgments(n))
  PROVE  CanListEnd(CanJudgments(n), "members", a, e)
  <1> DEFINE j == CanJudgment("members", a, e)
             J == CanJudgments(n)
  <1>0. j.is = "members" /\ j.of = a /\ j.text = e
    BY CanJudgmentFields
  <1>r. j \in CanJudge(J)
    OBVIOUS
  <1> HIDE DEF j
  <1>1. CanMembersRule(J, j)
    BY <1>0, <1>r, CanRuleOf
  <1>e. <<>> \in CanSource /\ \A x \in CanSource : CanCat(x, <<>>) = x /\ CanCat(<<>>, x) = x
    BY CanCatNil, EmptySeq DEF CanSource
  <1>n. \A k \in CanKeys : \A v : CanNamed("members", CanEntry(k, v), v, CanCat(CanOne(k), CanOne(":")))
    BY DEF CanNamed
  <1>2. CASE \E k \in CanKeys : \E v \in CanOf(J, "value") :
               j = CanJudgment("members", <<CanEntry(k, v.of)>>, <<k, ":">> \o v.text)
    <2>1. PICK k \in CanKeys : \E v \in CanOf(J, "value") :
               j = CanJudgment("members", <<CanEntry(k, v.of)>>, <<k, ":">> \o v.text)
      BY <1>2
    <2>2. PICK v \in CanOf(J, "value") :
               j = CanJudgment("members", <<CanEntry(k, v.of)>>, <<k, ":">> \o v.text)
      BY <2>1
    <2>3. CanJudgment("value", v.of, v.text) \in J /\ v.text \in CanSource
      BY CanOfDerived
    <2>4. a = <<CanEntry(k, v.of)>> /\ e = <<k, ":">> \o v.text
      BY <1>0, <2>2 DEF CanJudgment
    <2>5. <<k, ":">> = CanCat(CanOne(k), CanOne(":")) /\ <<k, ":">> \in CanSource
      BY CanTokensAre, CanTwo
    <2>6. PICK h \in CanSource : h = CanCat(CanOne(k), CanOne(":"))
      BY <2>5
    <2>7. e = CanCat(CanCat(<<>>, h), v.text)
      BY <1>e, <2>4, <2>5, <2>6 DEF CanCat
    <2>8. a = Append(<<>>, CanEntry(k, v.of)) /\ CanStem(J, "members", <<>>, <<>>)
      BY <2>4, CanSeqOne DEF CanStem
    <2>9. CanNamed("members", CanEntry(k, v.of), v.of, h)
      BY <1>n, <2>6
    <2> QED
      BY <1>e, <2>3, <2>7, <2>8, <2>9 DEF CanListEnd
  <1>3. CASE \E d \in CanOf(J, "members") : \E k \in CanKeys :
               \E v \in CanOf(J, "value") :
                 /\ CanFresh(d.of, k)
                 /\ j = CanJudgment("members", Append(d.of, CanEntry(k, v.of)), d.text \o <<",", k, ":">> \o v.text)
    <2>1. PICK d \in CanOf(J, "members") : \E k \in CanKeys :
               \E v \in CanOf(J, "value") :
                 /\ CanFresh(d.of, k)
                 /\ j = CanJudgment("members", Append(d.of, CanEntry(k, v.of)), d.text \o <<",", k, ":">> \o v.text)
      BY <1>3
    <2>2. PICK k \in CanKeys : \E v \in CanOf(J, "value") :
                 /\ CanFresh(d.of, k)
                 /\ j = CanJudgment("members", Append(d.of, CanEntry(k, v.of)), d.text \o <<",", k, ":">> \o v.text)
      BY <2>1
    <2>3. PICK v \in CanOf(J, "value") :
                 /\ CanFresh(d.of, k)
                 /\ j = CanJudgment("members", Append(d.of, CanEntry(k, v.of)), d.text \o <<",", k, ":">> \o v.text)
      BY <2>2
    <2>4. CanJudgment("members", d.of, d.text) \in J /\ d.text \in CanSource
      BY CanOfDerived
    <2>5. CanJudgment("value", v.of, v.text) \in J /\ v.text \in CanSource
      BY CanOfDerived
    <2>6. a = Append(d.of, CanEntry(k, v.of)) /\ e = d.text \o <<",", k, ":">> \o v.text
      BY <1>0, <2>3 DEF CanJudgment
    <2>7. /\ <<",", k, ":">> = CanCat(CanOne(","), CanCat(CanOne(k), CanOne(":")))
          /\ <<k, ":">> = CanCat(CanOne(k), CanOne(":")) /\ <<k, ":">> \in CanSource
      <3>1. PICK t \in CanTokens : t = ","
        BY CanTokensAre
      <3>2. PICK u \in CanTokens : u = ":"
        BY CanTokensAre
      <3>3. k \in CanTokens
        BY CanTokensAre
      <3>4. <<t, k, u>> = CanCat(CanOne(t), CanCat(CanOne(k), CanOne(u)))
        BY <3>3, CanThree
      <3>5. <<k, u>> = CanCat(CanOne(k), CanOne(u)) /\ <<k, u>> \in CanSource
        BY <3>3, CanTwo
      <3> QED
        BY <3>1, <3>2, <3>4, <3>5
    <2>8. PICK h \in CanSource : h = CanCat(CanOne(k), CanOne(":"))
      BY <2>7
    <2>9. PICK c \in CanSource : c = CanOne(",")
      BY CanTokensAre, CanOneType
    <2>10. PICK g \in CanSource : g = CanCat(d.text, c)
      BY <2>4, CanCatType
    <2>11. CanCat(CanCat(d.text, c), h) = CanCat(d.text, CanCat(c, h))
      BY <2>4, CanCatAssoc
    <2>12. e = CanCat(CanCat(d.text, CanCat(c, h)), v.text)
      BY <2>6, <2>7, <2>8, <2>9 DEF CanCat
    <2>13. e = CanCat(CanCat(g, h), v.text)
      BY <2>10, <2>11, <2>12
    <2>14. CanStem(J, "members", d.of, g)
      BY <2>4, <2>9, <2>10 DEF CanStem
    <2>15. CanNamed("members", CanEntry(k, v.of), v.of, h)
      BY <1>n, <2>8
    <2> QED
      BY <2>5, <2>6, <2>13, <2>14, <2>15 DEF CanListEnd
  <1> QED
    BY <1>1, <1>2, <1>3 DEF CanMembersRule

(* Whatever is derived has a last rule. *)
LEMMA CanLastStep ==
  ASSUME NEW j, NEW n \in Nat, j \in CanJudgments(n)
  PROVE  \E k \in Nat : j \in CanJudge(CanJudgments(k))
  <1> DEFINE T == {m \in Nat : j \in CanJudgments(m) => \E k \in Nat : j \in CanJudge(CanJudgments(k))}
  <1>1. 0 \in T
    BY CanJudgmentsStep
  <1>2. ASSUME NEW m \in T PROVE m + 1 \in T
    <2>1. m \in Nat /\ m + 1 \in Nat
      OBVIOUS
    <2>2. CanJudgments(m + 1) = CanJudgments(m) \cup CanJudge(CanJudgments(m))
      BY <2>1, CanJudgmentsStep
    <2> QED
      BY <2>1, <2>2
  <1> HIDE DEF T
  <1>3. T \in SUBSET Nat
    BY DEF T
  <1>4. T = Nat
    BY <1>1, <1>2, <1>3, CanNatInd
  <1> QED
    BY <1>4 DEF T

(* What a rule needs of some judgments it finds among more of them. *)
LEMMA CanEndGrows ==
  ASSUME NEW J, NEW K, J \subseteq K
  PROVE  /\ \A v, x : CanValueEnd(J, v, x) => CanValueEnd(K, v, x)
         /\ \A kind, a, e : CanListEnd(J, kind, a, e) => CanListEnd(K, kind, a, e)
  <1>1. \A kind, of, e : CanInside(J, kind, of, e) => CanInside(K, kind, of, e)
    BY DEF CanInside
  <1>2. \A kind, b, g : CanStem(J, kind, b, g) => CanStem(K, kind, b, g)
    BY DEF CanStem
  <1>3. \A v, x : CanValueEnd(J, v, x) => CanValueEnd(K, v, x)
    BY <1>1 DEF CanValueEnd, CanWholeEnd
  <1>4. ASSUME NEW kind, NEW a, NEW e, CanListEnd(J, kind, a, e) PROVE CanListEnd(K, kind, a, e)
    <2>1. PICK g \in CanSource, h \in CanSource, s \in CanSource :
            /\ e = CanCat(CanCat(g, h), s)
            /\ \E b, x, v :
                 /\ CanStem(J, kind, b, g) /\ CanNamed(kind, x, v, h) /\ CanJudgment("value", v, s) \in J
                 /\ a = Append(b, x)
      BY <1>4 DEF CanListEnd
    <2>2. PICK b, x, v :
            /\ CanStem(J, kind, b, g) /\ CanNamed(kind, x, v, h) /\ CanJudgment("value", v, s) \in J
            /\ a = Append(b, x)
      BY <2>1
    <2>3. CanStem(K, kind, b, g) /\ CanJudgment("value", v, s) \in K
      BY <1>2, <2>2
    <2> QED
      BY <2>1, <2>2, <2>3 DEF CanListEnd
  <1> QED
    BY <1>3, <1>4

(* The last rule of what is derived. *)
LEMMA CanAllEnds ==
  /\ \A v, x : CanJudgment("value", v, x) \in CanAll => CanValueEnd(CanAll, v, x)
  /\ \A kind \in CanHolding : \A a, e : CanJudgment(kind, a, e) \in CanAll => CanListEnd(CanAll, kind, a, e)
  <1>1. ASSUME NEW v, NEW x, CanJudgment("value", v, x) \in CanAll PROVE CanValueEnd(CanAll, v, x)
    <2>1. PICK n \in Nat : CanJudgment("value", v, x) \in CanJudgments(n)
      BY <1>1 DEF CanAll
    <2>2. PICK k \in Nat : CanJudgment("value", v, x) \in CanJudge(CanJudgments(k))
      BY <2>1, CanLastStep
    <2>3. CanValueEnd(CanJudgments(k), v, x)
      BY <2>2, CanValueRuleEnd
    <2>4. CanJudgments(k) \subseteq CanAll
      BY DEF CanAll
    <2> QED
      BY <2>3, <2>4, CanEndGrows
  <1>2. ASSUME NEW kind \in CanHolding, NEW a, NEW e, CanJudgment(kind, a, e) \in CanAll
        PROVE  CanListEnd(CanAll, kind, a, e)
    <2>1. PICK n \in Nat : CanJudgment(kind, a, e) \in CanJudgments(n)
      BY <1>2 DEF CanAll
    <2>2. PICK k \in Nat : CanJudgment(kind, a, e) \in CanJudge(CanJudgments(k))
      BY <2>1, CanLastStep
    <2>3. CanListEnd(CanJudgments(k), kind, a, e)
      BY <2>2, CanElementsRuleEnd, CanMembersRuleEnd DEF CanHolding
    <2>4. CanJudgments(k) \subseteq CanAll
      BY DEF CanAll
    <2> QED
      BY <2>3, <2>4, CanEndGrows
  <1> QED
    BY <1>1, <1>2

\* A text whose last token is neither a comma, nor a colon, nor opens a container.
CanFinal(x) ==
  \E z \in CanSource, t \in CanTokens : x = CanCat(z, CanOne(t)) /\ t # "[" /\ t # "{" /\ t # "," /\ t # ":"

(* A value ends like that. *)
LEMMA CanValueFinal ==
  ASSUME NEW J, NEW v, NEW x, CanValueEnd(J, v, x)
  PROVE  CanFinal(x) /\ x \in CanSource
  <1>e. <<>> \in CanSource /\ \A a \in CanSource : CanCat(<<>>, a) = a
    BY CanCatNil, EmptySeq DEF CanSource
  <1>1. CASE CanScalarEnd(v, x)
    <2>1. PICK t \in CanScalars \cup CanKeys : x = CanOne(t)
      BY <1>1 DEF CanScalarEnd
    <2>2. t \in CanTokens /\ t # "[" /\ t # "{" /\ t # "," /\ t # ":"
      BY CanTokensAre, CanMarksApart
    <2>3. CanOne(t) \in CanSource
      BY <2>2, CanOneType
    <2>4. x = CanCat(<<>>, CanOne(t))
      BY <1>e, <2>1, <2>3
    <2> QED
      BY <1>e, <2>1, <2>2, <2>3, <2>4 DEF CanFinal
  <1>2. CASE CanWholeEnd(J, v, x)
    <2>1. PICK kind \in CanHolding, e \in CanSource :
            x = CanCat(CanCat(CanOne(CanLeft(kind)), e), CanOne(CanRight(kind)))
      BY <1>2 DEF CanWholeEnd
    <2>2. /\ CanRight(kind) \in CanTokens /\ (CanRight(kind) = "]" \/ CanRight(kind) = "}")
          /\ CanOne(CanLeft(kind)) \in CanSource /\ CanOne(CanRight(kind)) \in CanSource
      BY CanKindMarks
    <2>3. PICK z \in CanSource : z = CanCat(CanOne(CanLeft(kind)), e)
      BY <2>2, CanCatType
    <2>4. x = CanCat(z, CanOne(CanRight(kind))) /\ x \in CanSource
      BY <2>1, <2>2, <2>3, CanCatType
    <2> QED
      BY <2>2, <2>4 DEF CanFinal
  <1> QED
    BY <1>1, <1>2 DEF CanValueEnd

(* What ends like that ends like that after any other text. *)
LEMMA CanFinalAfter ==
  ASSUME NEW a \in CanSource, NEW x, CanFinal(x)
  PROVE  CanFinal(CanCat(a, x))
  <1>1. PICK z \in CanSource, t \in CanTokens :
          x = CanCat(z, CanOne(t)) /\ t # "[" /\ t # "{" /\ t # "," /\ t # ":"
    BY DEF CanFinal
  <1>2. PICK o \in CanSource : o = CanOne(t)
    BY CanOneType
  <1>3. CanCat(CanCat(a, z), o) = CanCat(a, CanCat(z, o))
    BY CanCatAssoc
  <1>4. PICK y \in CanSource : y = CanCat(a, z)
    BY CanCatType
  <1>5. CanCat(a, x) = CanCat(y, CanOne(t))
    BY <1>1, <1>2, <1>3, <1>4
  <1> QED
    BY <1>1, <1>5 DEF CanFinal

(* So does what an open container holds. *)
LEMMA CanListFinal ==
  ASSUME NEW kind \in CanHolding, NEW a, NEW e, CanJudgment(kind, a, e) \in CanAll
  PROVE  CanFinal(e)
  <1>1. CanListEnd(CanAll, kind, a, e)
    BY CanAllEnds
  <1>2. PICK g \in CanSource, h \in CanSource, s \in CanSource :
          /\ e = CanCat(CanCat(g, h), s)
          /\ \E b, x, v :
               /\ CanStem(CanAll, kind, b, g) /\ CanNamed(kind, x, v, h) /\ CanJudgment("value", v, s) \in CanAll
               /\ a = Append(b, x)
    BY <1>1 DEF CanListEnd
  <1>3. PICK v : CanJudgment("value", v, s) \in CanAll
    BY <1>2
  <1>4. CanFinal(s)
    BY <1>3, CanAllEnds, CanValueFinal
  <1>5. CanCat(g, h) \in CanSource
    BY CanCatType
  <1> QED
    BY <1>2, <1>4, <1>5, CanFinalAfter

(* A text that ends like that does not end with a comma or an opening mark. *)
LEMMA CanFinalNot ==
  ASSUME NEW x, CanFinal(x), NEW y \in CanSource, NEW t, t = "[" \/ t = "{" \/ t = ",", x = CanCat(y, CanOne(t))
  PROVE  FALSE
  <1>1. PICK z \in CanSource, u \in CanTokens : x = CanCat(z, CanOne(u)) /\ u # "[" /\ u # "{" /\ u # ","
    BY DEF CanFinal
  <1>2. t \in CanTokens
    BY CanTokensAre
  <1>3. u = t
    BY <1>1, <1>2, CanCutLast
  <1> QED
    BY <1>1, <1>3

\* A value, and what a container holds up to its mark, can be told from what is
\* before: from the end, two readings of a text agree.
CanAlone(J) ==
  \A v, w, x, y, q, r :
    /\ x \in CanSource /\ y \in CanSource /\ q \in CanSource /\ r \in CanSource
    /\ CanJudgment("value", v, x) \in J /\ CanJudgment("value", w, y) \in CanAll
    /\ CanCat(q, x) = CanCat(r, y)
    => v = w /\ x = y /\ q = r
CanAloneIn(J) ==
  \A kind \in CanHolding : \A a, b, e, f, q, r :
    /\ e \in CanSource /\ f \in CanSource /\ q \in CanSource /\ r \in CanSource
    /\ CanInside(J, kind, a, e) /\ CanInside(CanAll, kind, b, f)
    /\ CanCat(CanCat(q, CanOne(CanLeft(kind))), e) = CanCat(CanCat(r, CanOne(CanLeft(kind))), f)
    => a = b /\ e = f /\ q = r

(* Two readings agree on their last value. *)
LEMMA CanValueAlone ==
  ASSUME NEW J, CanAloneIn(J), NEW v, NEW w, NEW x, NEW y, NEW q \in CanSource, NEW r \in CanSource,
         CanValueEnd(J, v, x), CanValueEnd(CanAll, w, y), CanCat(q, x) = CanCat(r, y)
  PROVE  v = w /\ x = y /\ q = r
  <1>w. ASSUME NEW K, NEW u, NEW z, NEW p \in CanSource, CanWholeEnd(K, u, z)
        PROVE  \E kind \in CanHolding, e \in CanSource, s \in CanSource :
                 /\ s = CanCat(CanCat(p, CanOne(CanLeft(kind))), e)
                 /\ CanCat(p, z) = CanCat(s, CanOne(CanRight(kind)))
                 /\ z = CanCat(CanCat(CanOne(CanLeft(kind)), e), CanOne(CanRight(kind)))
                 /\ \E of : CanInside(K, kind, of, e) /\ u = CanContainer(kind, of)
    <2>1. PICK kind \in CanHolding, e \in CanSource :
            /\ z = CanCat(CanCat(CanOne(CanLeft(kind)), e), CanOne(CanRight(kind)))
            /\ \E of : CanInside(K, kind, of, e) /\ u = CanContainer(kind, of)
      BY <1>w DEF CanWholeEnd
    <2>2. PICK o \in CanSource : o = CanOne(CanLeft(kind))
      BY CanKindMarks
    <2>3. PICK c \in CanSource : c = CanOne(CanRight(kind))
      BY CanKindMarks
    <2>4. PICK i \in CanSource : i = CanCat(o, e)
      BY CanCatType
    <2>5. PICK s \in CanSource : s = CanCat(p, i)
      BY CanCatType
    <2>6. CanCat(CanCat(p, i), c) = CanCat(p, CanCat(i, c))
      BY CanCatAssoc
    <2>7. CanCat(CanCat(p, o), e) = CanCat(p, CanCat(o, e))
      BY CanCatAssoc
    <2>8. s = CanCat(CanCat(p, CanOne(CanLeft(kind))), e)
      BY <2>2, <2>4, <2>5, <2>7
    <2>9. CanCat(p, z) = CanCat(s, CanOne(CanRight(kind)))
      BY <2>1, <2>2, <2>3, <2>4, <2>5, <2>6
    <2> QED
      BY <2>1, <2>8, <2>9
  <1>1. CASE CanScalarEnd(v, x) /\ CanScalarEnd(w, y)
    <2>1. PICK t \in CanScalars \cup CanKeys : v = CanScalar(t) /\ x = CanOne(t)
      BY <1>1 DEF CanScalarEnd
    <2>2. PICK u \in CanScalars \cup CanKeys : w = CanScalar(u) /\ y = CanOne(u)
      BY <1>1 DEF CanScalarEnd
    <2>3. t \in CanTokens /\ u \in CanTokens
      BY CanTokensAre
    <2>4. t = u /\ q = r
      BY <2>1, <2>2, <2>3, CanCutLast
    <2> QED
      BY <2>1, <2>2, <2>4
  <1>2. CASE CanScalarEnd(v, x) /\ CanWholeEnd(CanAll, w, y)
    <2>1. PICK t \in CanScalars \cup CanKeys : x = CanOne(t)
      BY <1>2 DEF CanScalarEnd
    <2>2. PICK kind \in CanHolding, s \in CanSource : CanCat(r, y) = CanCat(s, CanOne(CanRight(kind)))
      BY <1>2, <1>w
    <2>3. /\ t \in CanTokens /\ t # "]" /\ t # "}" /\ CanRight(kind) \in CanTokens
          /\ (CanRight(kind) = "]" \/ CanRight(kind) = "}")
      BY CanTokensAre, CanMarksApart, CanKindMarks
    <2>q. CanCat(q, CanOne(t)) = CanCat(s, CanOne(CanRight(kind)))
      BY <2>1, <2>2
    <2>4. t = CanRight(kind)
      BY <2>q, <2>3, CanCutLast
    <2> QED
      BY <2>3, <2>4
  <1>3. CASE CanWholeEnd(J, v, x) /\ CanScalarEnd(w, y)
    <2>1. PICK t \in CanScalars \cup CanKeys : y = CanOne(t)
      BY <1>3 DEF CanScalarEnd
    <2>2. PICK kind \in CanHolding, s \in CanSource : CanCat(q, x) = CanCat(s, CanOne(CanRight(kind)))
      BY <1>3, <1>w
    <2>3. /\ t \in CanTokens /\ t # "]" /\ t # "}" /\ CanRight(kind) \in CanTokens
          /\ (CanRight(kind) = "]" \/ CanRight(kind) = "}")
      BY CanTokensAre, CanMarksApart, CanKindMarks
    <2>q. CanCat(r, CanOne(t)) = CanCat(s, CanOne(CanRight(kind)))
      BY <2>1, <2>2
    <2>4. t = CanRight(kind)
      BY <2>q, <2>3, CanCutLast
    <2> QED
      BY <2>3, <2>4
  <1>4. CASE CanWholeEnd(J, v, x) /\ CanWholeEnd(CanAll, w, y)
    <2>1. PICK kind \in CanHolding, e \in CanSource, s \in CanSource :
            /\ s = CanCat(CanCat(q, CanOne(CanLeft(kind))), e)
            /\ CanCat(q, x) = CanCat(s, CanOne(CanRight(kind)))
            /\ x = CanCat(CanCat(CanOne(CanLeft(kind)), e), CanOne(CanRight(kind)))
            /\ \E of : CanInside(J, kind, of, e) /\ v = CanContainer(kind, of)
      BY <1>4, <1>w
    <2>2. PICK also \in CanHolding, f \in CanSource, z \in CanSource :
            /\ z = CanCat(CanCat(r, CanOne(CanLeft(also))), f)
            /\ CanCat(r, y) = CanCat(z, CanOne(CanRight(also)))
            /\ y = CanCat(CanCat(CanOne(CanLeft(also)), f), CanOne(CanRight(also)))
            /\ \E of : CanInside(CanAll, also, of, f) /\ w = CanContainer(also, of)
      BY <1>4, <1>w
    <2>3. CanCat(s, CanOne(CanRight(kind))) = CanCat(z, CanOne(CanRight(also)))
      BY <2>1, <2>2
    <2>4. CanRight(kind) \in CanTokens /\ CanRight(also) \in CanTokens
      BY CanKindMarks
    <2>5. CanRight(kind) = CanRight(also) /\ s = z
      BY <2>3, <2>4, CanCutLast
    <2>6. kind = also
      BY <2>5, CanKindMarks
    <2>7. PICK a : CanInside(J, kind, a, e) /\ v = CanContainer(kind, a)
      BY <2>1
    <2>8. PICK b : CanInside(CanAll, kind, b, f) /\ w = CanContainer(kind, b)
      BY <2>2, <2>6
    <2>9. CanCat(CanCat(q, CanOne(CanLeft(kind))), e) = CanCat(CanCat(r, CanOne(CanLeft(kind))), f)
      BY <2>1, <2>2, <2>5, <2>6
    <2>10. a = b /\ e = f /\ q = r
      BY <2>7, <2>8, <2>9 DEF CanAloneIn
    <2> QED
      BY <2>1, <2>2, <2>6, <2>7, <2>8, <2>10
  <1> QED
    BY <1>1, <1>2, <1>3, <1>4 DEF CanValueEnd

(* On the key before it. *)
LEMMA CanNamedAlone ==
  ASSUME NEW kind, NEW x, NEW y, NEW v, NEW h, NEW i, NEW q \in CanSource, NEW r \in CanSource,
         CanNamed(kind, x, v, h), CanNamed(kind, y, v, i), CanCat(q, h) = CanCat(r, i)
  PROVE  x = y /\ h = i /\ q = r
  <1>1. CASE kind = "elements"
    <2>1. x = v /\ y = v /\ h = <<>> /\ i = <<>>
      BY <1>1 DEF CanNamed
    <2>2. CanCat(q, <<>>) = q /\ CanCat(r, <<>>) = r
      BY CanCatNil
    <2> QED
      BY <2>1, <2>2
  <1>2. CASE kind = "members"
    <2>1. PICK k \in CanKeys : x = CanEntry(k, v) /\ h = CanCat(CanOne(k), CanOne(":"))
      BY <1>2 DEF CanNamed
    <2>2. PICK m \in CanKeys : y = CanEntry(m, v) /\ i = CanCat(CanOne(m), CanOne(":"))
      BY <1>2 DEF CanNamed
    <2>3. PICK u \in CanTokens : u = ":"
      BY CanTokensAre
    <2>4. k \in CanTokens /\ m \in CanTokens
      BY CanTokensAre
    <2>5. PICK c \in CanSource : c = CanOne(u)
      BY CanOneType
    <2>6. PICK kk \in CanSource : kk = CanOne(k)
      BY <2>4, CanOneType
    <2>7. PICK mm \in CanSource : mm = CanOne(m)
      BY <2>4, CanOneType
    <2>8. CanCat(CanCat(q, kk), c) = CanCat(q, CanCat(kk, c)) /\ CanCat(CanCat(r, mm), c) = CanCat(r, CanCat(mm, c))
      BY CanCatAssoc
    <2>9. PICK a \in CanSource : a = CanCat(q, kk)
      BY CanCatType
    <2>10. PICK b \in CanSource : b = CanCat(r, mm)
      BY CanCatType
    <2>11. CanCat(a, CanOne(u)) = CanCat(b, CanOne(u))
      BY <2>1, <2>2, <2>3, <2>5, <2>6, <2>7, <2>8, <2>9, <2>10
    <2>12. a = b
      BY <2>11, CanCutLast
    <2>13. CanCat(q, CanOne(k)) = CanCat(r, CanOne(m))
      BY <2>6, <2>7, <2>9, <2>10, <2>12
    <2>14. k = m /\ q = r
      BY <2>4, <2>13, CanCutLast
    <2> QED
      BY <2>1, <2>2, <2>14
  <1> QED
    BY <1>1, <1>2 DEF CanNamed

(* And on what is before that. *)
LEMMA CanStemAlone ==
  ASSUME NEW J, J \subseteq CanAll, CanAloneIn(J), NEW kind \in CanHolding, NEW a, NEW b,
         NEW g \in CanSource, NEW i \in CanSource, NEW q \in CanSource, NEW r \in CanSource,
         CanStem(J, kind, a, g), CanStem(CanAll, kind, b, i),
         CanCat(CanCat(q, CanOne(CanLeft(kind))), g) = CanCat(CanCat(r, CanOne(CanLeft(kind))), i)
  PROVE  a = b /\ g = i /\ q = r
  <1>o. /\ CanLeft(kind) \in CanTokens /\ CanLeft(kind) # "," /\ CanOne(CanLeft(kind)) \in CanSource
    BY CanKindMarks
  <1>c. PICK c \in CanTokens : c = ","
    BY CanTokensAre
  <1>d. PICK d \in CanSource : d = CanOne(c)
    BY CanOneType
  <1>p. PICK p \in CanSource : p = CanCat(q, CanOne(CanLeft(kind)))
    BY <1>o, CanCatType
  <1>s. PICK s \in CanSource : s = CanCat(r, CanOne(CanLeft(kind)))
    BY <1>o, CanCatType
  <1>n. CanCat(p, <<>>) = p /\ CanCat(s, <<>>) = s
    BY CanCatNil
  <1>1. CASE g = <<>> /\ a = <<>> /\ i = <<>> /\ b = <<>>
    <2>1. CanCat(q, CanOne(CanLeft(kind))) = CanCat(r, CanOne(CanLeft(kind)))
      BY <1>1, <1>n, <1>p, <1>s
    <2> QED
      BY <1>1, <1>o, <2>1, CanCutLast
  <1>m. ASSUME NEW e \in CanSource, NEW z \in CanSource
        PROVE  CanCat(z, CanCat(e, CanOne(","))) = CanCat(CanCat(z, e), CanOne(c)) /\ CanCat(z, e) \in CanSource
    <2>1. CanCat(CanCat(z, e), d) = CanCat(z, CanCat(e, d))
      BY CanCatAssoc
    <2> QED
      BY <1>c, <1>d, <2>1, CanCatType
  <1>2. CASE /\ g = <<>> /\ a = <<>>
             /\ \E f \in CanSource : CanJudgment(kind, b, f) \in CanAll /\ i = CanCat(f, CanOne(","))
    <2>1. PICK f \in CanSource : i = CanCat(f, CanOne(","))
      BY <1>2
    <2>2. CanCat(q, CanOne(CanLeft(kind))) = CanCat(CanCat(s, f), CanOne(c)) /\ CanCat(s, f) \in CanSource
      BY <1>2, <1>m, <1>n, <1>p, <1>s, <2>1
    <2>3. CanLeft(kind) = c
      BY <1>o, <2>2, CanCutLast
    <2> QED
      BY <1>c, <1>o, <2>3
  <1>3. CASE /\ i = <<>> /\ b = <<>>
             /\ \E e \in CanSource : CanJudgment(kind, a, e) \in J /\ g = CanCat(e, CanOne(","))
    <2>1. PICK e \in CanSource : g = CanCat(e, CanOne(","))
      BY <1>3
    <2>2. CanCat(r, CanOne(CanLeft(kind))) = CanCat(CanCat(p, e), CanOne(c)) /\ CanCat(p, e) \in CanSource
      BY <1>3, <1>m, <1>n, <1>p, <1>s, <2>1
    <2>3. CanLeft(kind) = c
      BY <1>o, <2>2, CanCutLast
    <2> QED
      BY <1>c, <1>o, <2>3
  <1>4. CASE /\ \E e \in CanSource : CanJudgment(kind, a, e) \in J /\ g = CanCat(e, CanOne(","))
             /\ \E f \in CanSource : CanJudgment(kind, b, f) \in CanAll /\ i = CanCat(f, CanOne(","))
    <2>1. PICK e \in CanSource : CanJudgment(kind, a, e) \in J /\ g = CanCat(e, CanOne(","))
      BY <1>4
    <2>2. PICK f \in CanSource : CanJudgment(kind, b, f) \in CanAll /\ i = CanCat(f, CanOne(","))
      BY <1>4
    <2>3. /\ CanCat(CanCat(p, e), CanOne(c)) = CanCat(CanCat(s, f), CanOne(c))
          /\ CanCat(p, e) \in CanSource /\ CanCat(s, f) \in CanSource
      BY <1>m, <1>p, <1>s, <2>1, <2>2
    <2>4. CanCat(p, e) = CanCat(s, f)
      BY <2>3, CanCutLast
    <2>5. CanInside(J, kind, a, e) /\ CanInside(CanAll, kind, b, f)
      BY <2>1, <2>2 DEF CanInside
    <2>6. CanCat(CanCat(q, CanOne(CanLeft(kind))), e) = CanCat(CanCat(r, CanOne(CanLeft(kind))), f)
      BY <1>p, <1>s, <2>4
    <2>7. a = b /\ e = f /\ q = r
      BY <2>5, <2>6 DEF CanAloneIn
    <2> QED
      BY <2>1, <2>2, <2>7
  <1> QED
    BY <1>1, <1>2, <1>3, <1>4 DEF CanStem

(* A list after other text, its last value last. *)
LEMMA CanRegroup ==
  ASSUME NEW p \in CanSource, NEW g \in CanSource, NEW h \in CanSource, NEW s \in CanSource
  PROVE  /\ CanCat(p, CanCat(CanCat(g, h), s)) = CanCat(CanCat(CanCat(p, g), h), s)
         /\ CanCat(p, g) \in CanSource /\ CanCat(CanCat(p, g), h) \in CanSource
  <1>1. PICK i \in CanSource : i = CanCat(g, h)
    BY CanCatType
  <1>2. PICK j \in CanSource : j = CanCat(p, g)
    BY CanCatType
  <1>3. CanCat(CanCat(p, i), s) = CanCat(p, CanCat(i, s))
    BY CanCatAssoc
  <1>4. CanCat(CanCat(p, g), h) = CanCat(p, CanCat(g, h))
    BY CanCatAssoc
  <1>5. CanCat(j, h) \in CanSource
    BY CanCatType
  <1> QED
    BY <1>1, <1>2, <1>3, <1>4, <1>5

(* Two readings agree on what an open container holds. *)
LEMMA CanListAlone ==
  ASSUME NEW J, J \subseteq CanAll, CanAlone(J), CanAloneIn(J), NEW kind \in CanHolding, NEW a, NEW c,
         NEW e, NEW f, NEW q \in CanSource, NEW r \in CanSource,
         CanListEnd(J, kind, a, e), CanListEnd(CanAll, kind, c, f),
         CanCat(CanCat(q, CanOne(CanLeft(kind))), e) = CanCat(CanCat(r, CanOne(CanLeft(kind))), f)
  PROVE  a = c /\ e = f /\ q = r
  <1>1. PICK g \in CanSource, h \in CanSource, s \in CanSource :
          /\ e = CanCat(CanCat(g, h), s)
          /\ \E b, x, v :
               /\ CanStem(J, kind, b, g) /\ CanNamed(kind, x, v, h) /\ CanJudgment("value", v, s) \in J
               /\ a = Append(b, x)
    BY DEF CanListEnd
  <1>2. PICK b, x, v :
          /\ CanStem(J, kind, b, g) /\ CanNamed(kind, x, v, h) /\ CanJudgment("value", v, s) \in J
          /\ a = Append(b, x)
    BY <1>1
  <1>3. PICK i \in CanSource, k \in CanSource, u \in CanSource :
          /\ f = CanCat(CanCat(i, k), u)
          /\ \E d, y, w :
               /\ CanStem(CanAll, kind, d, i) /\ CanNamed(kind, y, w, k) /\ CanJudgment("value", w, u) \in CanAll
               /\ c = Append(d, y)
    BY DEF CanListEnd
  <1>4. PICK d, y, w :
          /\ CanStem(CanAll, kind, d, i) /\ CanNamed(kind, y, w, k) /\ CanJudgment("value", w, u) \in CanAll
          /\ c = Append(d, y)
    BY <1>3
  <1>o. CanOne(CanLeft(kind)) \in CanSource
    BY CanKindMarks
  <1>5. PICK p \in CanSource : p = CanCat(q, CanOne(CanLeft(kind)))
    BY <1>o, CanCatType
  <1>6. PICK m \in CanSource : m = CanCat(r, CanOne(CanLeft(kind)))
    BY <1>o, CanCatType
  <1>7. /\ CanCat(p, CanCat(CanCat(g, h), s)) = CanCat(CanCat(CanCat(p, g), h), s)
        /\ CanCat(p, g) \in CanSource /\ CanCat(CanCat(p, g), h) \in CanSource
    BY CanRegroup
  <1>8. /\ CanCat(m, CanCat(CanCat(i, k), u)) = CanCat(CanCat(CanCat(m, i), k), u)
        /\ CanCat(m, i) \in CanSource /\ CanCat(CanCat(m, i), k) \in CanSource
    BY CanRegroup
  <1>9. CanCat(CanCat(CanCat(p, g), h), s) = CanCat(CanCat(CanCat(m, i), k), u)
    BY <1>1, <1>3, <1>5, <1>6, <1>7, <1>8
  <1>10. v = w /\ s = u /\ CanCat(CanCat(p, g), h) = CanCat(CanCat(m, i), k)
    BY <1>2, <1>4, <1>7, <1>8, <1>9 DEF CanAlone
  <1>11. x = y /\ h = k /\ CanCat(p, g) = CanCat(m, i)
    BY <1>2, <1>4, <1>7, <1>8, <1>10, CanNamedAlone
  <1>12. b = d /\ g = i /\ q = r
    <2>1. CanCat(CanCat(q, CanOne(CanLeft(kind))), g) = CanCat(CanCat(r, CanOne(CanLeft(kind))), i)
      BY <1>5, <1>6, <1>11
    <2>2. CanStem(J, kind, b, g) /\ CanStem(CanAll, kind, d, i)
      BY <1>2, <1>4
    <2> QED
      BY <2>1, <2>2, CanStemAlone
  <1> QED
    BY <1>1, <1>2, <1>3, <1>4, <1>10, <1>11, <1>12

(* Nothing cannot be read where a list is. *)
LEMMA CanEmptyAlone ==
  ASSUME NEW kind \in CanHolding, NEW b, NEW f \in CanSource, CanJudgment(kind, b, f) \in CanAll,
         NEW q \in CanSource, NEW r \in CanSource,
         CanCat(q, CanOne(CanLeft(kind))) = CanCat(CanCat(r, CanOne(CanLeft(kind))), f)
  PROVE  FALSE
  <1>o. /\ CanOne(CanLeft(kind)) \in CanSource /\ (CanLeft(kind) = "[" \/ CanLeft(kind) = "{")
    BY CanKindMarks
  <1>1. PICK m \in CanSource : m = CanCat(r, CanOne(CanLeft(kind)))
    BY <1>o, CanCatType
  <1>2. CanFinal(f)
    BY CanListFinal
  <1>3. CanFinal(CanCat(m, f))
    BY <1>2, CanFinalAfter
  <1>4. CanCat(m, f) = CanCat(q, CanOne(CanLeft(kind)))
    BY <1>1
  <1> QED
    BY <1>o, <1>3, <1>4, CanFinalNot

(* A rule of the grammar keeps two readings of a text together. *)
LEMMA CanRuleAlone ==
  ASSUME NEW n \in Nat, CanAlone(CanJudgments(n)), CanAloneIn(CanJudgments(n))
  PROVE  CanAlone(CanJudgments(n + 1)) /\ CanAloneIn(CanJudgments(n + 1))
  <1> DEFINE J == CanJudgments(n)
             K == CanJudgments(n + 1)
  <1>1. K = J \cup CanJudge(J)
    BY CanJudgmentsStep
  <1>2. J \subseteq CanAll
    BY DEF CanAll
  <1>3. CanAlone(J) /\ CanAloneIn(J)
    OBVIOUS
  <1>4. \A v, x : CanJudgment("value", v, x) \in CanJudge(J) => CanValueEnd(J, v, x)
    BY CanValueRuleEnd
  <1>5. \A kind \in CanHolding : \A a, e :
          CanJudgment(kind, a, e) \in CanJudge(J) => CanListEnd(J, kind, a, e)
    BY CanElementsRuleEnd, CanMembersRuleEnd DEF CanHolding
  <1> HIDE DEF J, K
  <1>6. CanAlone(K)
    <2>1. SUFFICES ASSUME NEW v, NEW w, NEW x \in CanSource, NEW y \in CanSource,
                          NEW q \in CanSource, NEW r \in CanSource,
                          CanJudgment("value", v, x) \in K, CanJudgment("value", w, y) \in CanAll,
                          CanCat(q, x) = CanCat(r, y)
                   PROVE  v = w /\ x = y /\ q = r
      BY DEF CanAlone
    <2>2. CASE CanJudgment("value", v, x) \in J
      BY <1>3, <2>1, <2>2 DEF CanAlone
    <2>3. CASE CanJudgment("value", v, x) \in CanJudge(J)
      <3>1. CanValueEnd(J, v, x)
        BY <1>4, <2>3
      <3>2. CanValueEnd(CanAll, w, y)
        BY <2>1, CanAllEnds
      <3> QED
        BY <1>3, <2>1, <3>1, <3>2, CanValueAlone
    <2> QED
      BY <1>1, <2>1, <2>2, <2>3
  <1>7. CanAloneIn(K)
    <2>1. SUFFICES ASSUME NEW kind \in CanHolding, NEW a, NEW b, NEW e \in CanSource, NEW f \in CanSource,
                          NEW q \in CanSource, NEW r \in CanSource,
                          CanInside(K, kind, a, e), CanInside(CanAll, kind, b, f),
                          CanCat(CanCat(q, CanOne(CanLeft(kind))), e) = CanCat(CanCat(r, CanOne(CanLeft(kind))), f)
                   PROVE  a = b /\ e = f /\ q = r
      BY DEF CanAloneIn
    <2>o. CanLeft(kind) \in CanTokens /\ CanOne(CanLeft(kind)) \in CanSource
      BY CanKindMarks
    <2>p. /\ CanCat(CanCat(q, CanOne(CanLeft(kind))), <<>>) = CanCat(q, CanOne(CanLeft(kind)))
          /\ CanCat(CanCat(r, CanOne(CanLeft(kind))), <<>>) = CanCat(r, CanOne(CanLeft(kind)))
      BY <2>o, CanCatType, CanCatNil
    <2>q. K \subseteq CanAll
      BY n + 1 \in Nat DEF CanAll, K
    <2>2. CASE (a = <<>> /\ e = <<>>) /\ (b = <<>> /\ f = <<>>)
      <3>1. CanCat(q, CanOne(CanLeft(kind))) = CanCat(r, CanOne(CanLeft(kind)))
        BY <2>1, <2>2, <2>p
      <3>2. q = r
        BY <2>o, <3>1, CanCutLast
      <3> QED
        BY <2>2, <3>2
    <2>3. CASE (a = <<>> /\ e = <<>>) /\ CanJudgment(kind, b, f) \in CanAll
      <3>1. CanCat(q, CanOne(CanLeft(kind))) = CanCat(CanCat(r, CanOne(CanLeft(kind))), f)
        BY <2>1, <2>3, <2>p
      <3> QED
        BY <2>3, <3>1, CanEmptyAlone
    <2>4. CASE CanJudgment(kind, a, e) \in K /\ (b = <<>> /\ f = <<>>)
      <3>1. CanCat(r, CanOne(CanLeft(kind))) = CanCat(CanCat(q, CanOne(CanLeft(kind))), e)
        BY <2>1, <2>4, <2>p
      <3>2. CanJudgment(kind, a, e) \in CanAll
        BY <2>4, <2>q
      <3> QED
        BY <3>1, <3>2, CanEmptyAlone
    <2>5. CASE CanJudgment(kind, a, e) \in K /\ CanJudgment(kind, b, f) \in CanAll
      <3>1. CASE CanJudgment(kind, a, e) \in J
        <4>1. CanInside(J, kind, a, e)
          BY <3>1 DEF CanInside
        <4> QED
          BY <1>3, <2>1, <4>1 DEF CanAloneIn
      <3>2. CASE CanJudgment(kind, a, e) \in CanJudge(J)
        <4>1. CanListEnd(J, kind, a, e)
          BY <1>5, <3>2
        <4>2. CanListEnd(CanAll, kind, b, f)
          BY <2>5, CanAllEnds
        <4> QED
          BY <1>2, <1>3, <2>1, <4>1, <4>2, CanListAlone
      <3> QED
        BY <1>1, <2>5, <3>1, <3>2
    <2> QED
      BY <2>1, <2>2, <2>3, <2>4, <2>5 DEF CanInside
  <1> QED
    BY <1>6, <1>7 DEF K

(* At every height of derivation. *)
LEMMA CanAllAlone ==
  ASSUME NEW n \in Nat
  PROVE  CanAlone(CanJudgments(n)) /\ CanAloneIn(CanJudgments(n))
  <1> DEFINE T == {k \in Nat : CanAlone(CanJudgments(k)) /\ CanAloneIn(CanJudgments(k))}
  <1>1. 0 \in T
    <2>1. CanJudgments(0) = {}
      BY CanJudgmentsStep
    <2>2. CanAlone(CanJudgments(0))
      BY <2>1 DEF CanAlone
    <2>3. CanAloneIn(CanJudgments(0))
      <3>1. SUFFICES ASSUME NEW kind \in CanHolding, NEW a, NEW b, NEW e \in CanSource, NEW f \in CanSource,
                            NEW q \in CanSource, NEW r \in CanSource,
                            CanInside({}, kind, a, e), CanInside(CanAll, kind, b, f),
                            CanCat(CanCat(q, CanOne(CanLeft(kind))), e) = CanCat(CanCat(r, CanOne(CanLeft(kind))), f)
                     PROVE  a = b /\ e = f /\ q = r
        BY <2>1 DEF CanAloneIn
      <3>2. a = <<>> /\ e = <<>>
        BY <3>1 DEF CanInside
      <3>o. CanLeft(kind) \in CanTokens /\ CanOne(CanLeft(kind)) \in CanSource
        BY CanKindMarks
      <3>p. /\ CanCat(CanCat(q, CanOne(CanLeft(kind))), <<>>) = CanCat(q, CanOne(CanLeft(kind)))
            /\ CanCat(CanCat(r, CanOne(CanLeft(kind))), <<>>) = CanCat(r, CanOne(CanLeft(kind)))
        BY <3>o, CanCatType, CanCatNil
      <3>q. CanCat(q, CanOne(CanLeft(kind))) = CanCat(CanCat(r, CanOne(CanLeft(kind))), f)
        BY <3>1, <3>2, <3>p
      <3>3. CASE b = <<>> /\ f = <<>>
        <4>1. CanCat(q, CanOne(CanLeft(kind))) = CanCat(r, CanOne(CanLeft(kind)))
          BY <3>3, <3>p, <3>q
        <4>2. q = r
          BY <3>o, <4>1, CanCutLast
        <4> QED
          BY <3>2, <3>3, <4>2
      <3>4. CASE CanJudgment(kind, b, f) \in CanAll
        BY <3>4, <3>q, CanEmptyAlone
      <3> QED
        BY <3>1, <3>3, <3>4 DEF CanInside
    <2> QED
      BY <2>2, <2>3
  <1>2. ASSUME NEW k \in T PROVE k + 1 \in T
    <2>1. k \in Nat /\ k + 1 \in Nat /\ CanAlone(CanJudgments(k)) /\ CanAloneIn(CanJudgments(k))
      OBVIOUS
    <2>2. CanAlone(CanJudgments(k + 1)) /\ CanAloneIn(CanJudgments(k + 1))
      BY <2>1, CanRuleAlone
    <2> QED
      BY <2>1, <2>2
  <1> HIDE DEF T
  <1>3. T \in SUBSET Nat
    BY DEF T
  <1>4. T = Nat
    BY <1>1, <1>2, <1>3, CanNatInd
  <1> QED
    BY <1>4 DEF T

(* A text is of one value: the grammar the parser is measured by is            *)
(* unambiguous, so two values never share a text (class StrictJsonParser).     *)
LEMMA TextOfOneValue ==
  \A text, v, w : CanDerives("value", v, text) /\ CanDerives("value", w, text) => v = w
  <1> SUFFICES ASSUME NEW text, NEW v, NEW w, CanDerives("value", v, text), CanDerives("value", w, text)
               PROVE  v = w
    OBVIOUS
  <1>1. PICK n \in Nat : CanJudgment("value", v, text) \in CanJudgments(n)
    BY DEF CanDerives
  <1>2. CanJudgment("value", w, text) \in CanAll
    BY DEF CanDerives, CanAll
  <1>3. text \in CanSource
    BY CanDerivesText
  <1>4. <<>> \in CanSource
    BY EmptySeq DEF CanSource
  <1>5. CanAlone(CanJudgments(n))
    BY CanAllAlone
  <1> QED
    BY <1>1, <1>2, <1>3, <1>4, <1>5 DEF CanAlone

\* What was accepted is of the value returned, and of no other.
CanReadsTheValue == canState = "accepted" => \A v : CanDerives("value", v, canText) <=> v = canRoot

(* An accepted text stands for the value the parser returns and for no other:  *)
(* the reading of a request, an event or a stored record is not a choice of    *)
(* the parser's (class StrictJsonParser, parse), whatever the text.            *)
THEOREM ParserReadsTheValue ==
  CanParserSpec => []CanReadsTheValue
  <1>1. CanReadsExactly => CanReadsTheValue
    BY TextOfOneValue DEF CanReadsExactly, CanReadsTheValue
  <1>2. CanParserSpec => []CanReadsExactly
    BY ParserReadsExactly
  <1> QED
    BY <1>1, <1>2, PTL
=============================================================================
