---------------------------- MODULE LocalFacade ----------------------------
(***************************************************************************)
(* The process-local parts of the agent facade (agent/src/runtime.ts):     *)
(* the decision challenge issuer, the development authority for write      *)
(* effects, the agent registry, and the background executions that start   *)
(* leaves behind and wait observes.                                        *)
(***************************************************************************)
EXTENDS Integers, Sequences, FiniteSets

CONSTANTS
  FacCommands,     \* command ids of the deciders
  FacBindings,     \* proposed effects to decide on
  FacLifetime,     \* a challenge expires this long after it was issued
  FacLastTime,     \* bound of the clock
  FacDefinitions,  \* compiled agents: records of key, digest and object identity
  FacStarts        \* bound: calls of start for the run

ASSUME FacAssumption == FacLifetime \in Nat

VARIABLES
  facTime,
  facIssued,       \* issuedByCommand: None or the challenge
  facVerified,     \* challenges verify has returned, by command, until the approval is created
  facApprovals,    \* approvalsByCommand
  facTimings,      \* issuedTimings by effect: None or the time of issue
  facGrants,       \* external: the grant store, None or the time of issue it holds
  facRefused,      \* external: the store refused an issue of the same grant
  facByKey, facByDigest,  \* indexes of the registry
  facRuns,         \* executions started, in order: running, resolved or rejected
  facEntry,        \* executions map: 0 or the index of the promise it holds
  facWaiting,      \* the promise a wait is awaiting, 0 when none
  facRaised        \* indexes of the rejected promises some wait has raised

facVars == <<facTime, facIssued, facVerified, facApprovals, facTimings, facGrants, facRefused,
             facByKey, facByDigest, facRuns, facEntry, facWaiting, facRaised>>
facDecisionVars == <<facIssued, facVerified, facApprovals>>
facGrantVars == <<facTimings, facGrants, facRefused>>
facRegistryVars == <<facByKey, facByDigest>>
facRunVars == <<facRuns, facEntry, facWaiting, facRaised>>

FacNone == [time |-> 0]
FacKeys == {d.key : d \in FacDefinitions}
FacDigests == {d.digest : d \in FacDefinitions}

FacInit ==
  /\ facTime = 1
  /\ facIssued = [c \in FacCommands |-> FacNone]
  /\ facVerified = [c \in FacCommands |-> FacNone]
  /\ facApprovals = [c \in FacCommands |-> FacNone]
  /\ facTimings = [b \in FacBindings |-> 0] /\ facGrants = [b \in FacBindings |-> 0]
  /\ facRefused = FALSE
  /\ facByKey = [k \in FacKeys |-> FacNone] /\ facByDigest = [k \in FacDigests |-> FacNone]
  /\ facRuns = <<>> /\ facEntry = 0 /\ facWaiting = 0 /\ facRaised = {}

FacTick ==
  /\ facTime < FacLastTime /\ facTime' = facTime + 1
  /\ UNCHANGED <<facDecisionVars, facGrantVars, facRegistryVars, facRunVars>>

-----------------------------------------------------------------------------
(* Decisions.                                                              *)

\* issue: a repeated command returns its challenge (another request conflicts); each
\* challenge has a fresh proof, so the command and the binding identify it.
FacIssue(c, b) ==
  /\ facIssued[c] = FacNone
  /\ facIssued' = [facIssued EXCEPT ![c] =
       [time |-> facTime, binding |-> b, proof |-> c, expires |-> facTime + FacLifetime]]
  /\ UNCHANGED <<facTime, facVerified, facApprovals, facGrantVars, facRegistryVars, facRunVars>>

MutFacValid(challenge, b) == challenge.time # 0 /\ challenge.binding = b  \* mutant: expiry unchecked

\* verify: the proof's challenge exists, is for this binding and has not expired.
FacValid(challenge, b) ==
  /\ challenge.time # 0 => challenge.binding = b
  /\ challenge.time # 0 /\ facTime < challenge.expires

\* approve: verify, an await, and createApproval; a repeated command returns its approval.
FacVerify(c, issuedBy, b) ==
  /\ facApprovals[c] = FacNone /\ facVerified[c] = FacNone
  /\ FacValid(facIssued[issuedBy], b)
  /\ facVerified' = [facVerified EXCEPT ![c] = [time |-> facTime, challenge |-> facIssued[issuedBy]]]
  /\ UNCHANGED <<facTime, facIssued, facApprovals, facGrantVars, facRegistryVars, facRunVars>>

FacCreateApproval(c) ==
  /\ facVerified[c] # FacNone /\ facApprovals[c] = FacNone
  /\ facApprovals' = [facApprovals EXCEPT ![c] =
       [time |-> facTime, verified |-> facVerified[c].time,
        binding |-> facVerified[c].challenge.binding,
        proof |-> facVerified[c].challenge.proof, expires |-> facVerified[c].challenge.expires]]
  /\ facVerified' = [facVerified EXCEPT ![c] = FacNone]
  /\ UNCHANGED <<facTime, facIssued, facGrantVars, facRegistryVars, facRunVars>>

FacDecide ==
  \E c \in FacCommands :
    \/ FacCreateApproval(c)
    \/ \E b \in FacBindings : FacIssue(c, b) \/ \E i \in FacCommands : FacVerify(c, i, b)

-----------------------------------------------------------------------------
(* Authority for write effects.                                            *)

\* issuedTimings: the first resolution of an effect fixes its times.
FacTiming(b) == IF facTimings[b] # 0 THEN facTimings[b] ELSE facTime

\* resolve of createLocalEffectAuthorization: the grant is issued on every resolution, and the
\* store takes a second issue only when the grant is the same (module Authority).
FacResolve(b) ==
  /\ facTimings' = [facTimings EXCEPT ![b] = FacTiming(b)]
  /\ IF facGrants[b] \in {0, FacTiming(b)}
     THEN facGrants' = [facGrants EXCEPT ![b] = FacTiming(b)] /\ UNCHANGED facRefused
     ELSE facRefused' = TRUE /\ UNCHANGED facGrants
  /\ UNCHANGED <<facTime, facDecisionVars, facRegistryVars, facRunVars>>

-----------------------------------------------------------------------------
(* The registry.                                                           *)

\* Neither the id and version nor the digest belongs to another definition object.
FacFree(d) == facByKey[d.key] \in {FacNone, d} /\ facByDigest[d.digest] \in {FacNone, d}

FacRegister(d) ==
  /\ FacFree(d)
  /\ facByKey' = [facByKey EXCEPT ![d.key] = d]
  /\ facByDigest' = [facByDigest EXCEPT ![d.digest] = d]
  /\ UNCHANGED <<facTime, facDecisionVars, facGrantVars, facRunVars>>

-----------------------------------------------------------------------------
(* Background executions.                                                  *)

\* start (first or replayed by its command id): kernel.execute in the background.
FacStart ==
  /\ Len(facRuns) < FacStarts
  /\ facRuns' = Append(facRuns, "running") /\ facEntry' = Len(facRuns) + 1
  /\ UNCHANGED <<facTime, facDecisionVars, facGrantVars, facRegistryVars, facWaiting, facRaised>>

\* The execution settles: only a resolved one removes the run's entry, whichever promise the
\* entry holds by then.
FacSettle(e) ==
  /\ facRuns[e] = "running"
  /\ \E s \in {"resolved", "rejected"} :
       /\ facRuns' = [facRuns EXCEPT ![e] = s]
       /\ facEntry' = IF s = "resolved" THEN 0 ELSE facEntry
  /\ UNCHANGED <<facTime, facDecisionVars, facGrantVars, facRegistryVars, facWaiting, facRaised>>

\* wait: it takes the promise of the map, if there is one, and awaits it ...
FacWait ==
  /\ facWaiting = 0 /\ facEntry # 0 /\ facWaiting' = facEntry
  /\ UNCHANGED <<facTime, facDecisionVars, facGrantVars, facRegistryVars, facRuns, facEntry, facRaised>>

\* ... and removes the entry when it settles, raising a rejection.
FacWaited ==
  /\ facWaiting # 0 /\ facRuns[facWaiting] # "running"
  /\ facEntry' = 0 /\ facWaiting' = 0
  /\ facRaised' = IF facRuns[facWaiting] = "rejected" THEN facRaised \cup {facWaiting} ELSE facRaised
  /\ UNCHANGED <<facTime, facDecisionVars, facGrantVars, facRegistryVars, facRuns>>

FacExecute == FacStart \/ FacWait \/ FacWaited \/ \E e \in DOMAIN facRuns : FacSettle(e)
FacGrant == \E b \in FacBindings : FacResolve(b)
FacDefine == \E d \in FacDefinitions : FacRegister(d)

FacNext == FacTick \/ FacDecide \/ FacGrant \/ FacDefine \/ FacExecute

FacSpec == FacInit /\ [][FacNext]_facVars

-----------------------------------------------------------------------------
(* Properties.                                                             *)

\* An approval is for the effect its challenge was issued for, and it was verified while that
\* challenge lived; issued after an await, it expires with the challenge and not later.
ApprovalFromChallenge ==
  \A c \in FacCommands : facApprovals[c] # FacNone =>
    \E i \in FacCommands :
      /\ facIssued[i] # FacNone /\ facIssued[i].proof = facApprovals[c].proof
      /\ facIssued[i].binding = facApprovals[c].binding
      /\ facApprovals[c].verified < facIssued[i].expires
      /\ facApprovals[c].expires = facIssued[i].expires

\* Resolving the authority of one effect again (a retried or resumed write) never conflicts
\* with the grant of the first resolution, however late it comes.
ResolvesAgain == ~facRefused

\* The indexes of FacadeAgentRegistry agree: a definition found under its id and version is
\* the one its digest resolves to, after any sequence of registrations, refused ones included.
RegistryAgrees ==
  \A k \in FacKeys : facByKey[k] # FacNone => facByDigest[facByKey[k].digest] = facByKey[k]

\* The rejection of a background execution is kept until a wait raises it.  (A run started
\* again by its command id is excepted: its first execution removes the second one's entry.)
RejectionKept ==
  Len(facRuns) = 1 /\ facRuns[1] = "rejected" /\ 1 \notin facRaised => facEntry = 1

\* What the facade keeps in the process stays consistent over awaits, retries and refused
\* calls: approvals and their challenges, grants, the registry, the rejection of a run.
FacadeSafe == ApprovalFromChallenge /\ ResolvesAgain /\ RegistryAgrees /\ RejectionKept
=============================================================================
