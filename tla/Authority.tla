----------------------------- MODULE Authority -----------------------------
(***************************************************************************)
(* What a tool call needs before it may act (packages/policy and the       *)
(* authority stores): capability grants with a limited number of uses, the *)
(* authorization reservation that claims a grant, an approval and the      *)
(* secret refs of a call together, secret refs and their resolver, and the *)
(* kill switch registry whose versioned snapshots hosts distribute.        *)
(*                                                                         *)
(* A caller is an authorization key.  It resolves its grant, which is a    *)
(* read, and claims a use later: other callers, a revocation and the clock *)
(* come in between.  Every store operation is one step.                    *)
(***************************************************************************)
EXTENDS Naturals, FiniteSets

CONSTANTS
  AuthKeys,         \* authorization keys
  AuthGrants,
  AuthApprovals,
  AuthSecrets,      \* secret refs
  AuthIds,          \* authorization reservation ids
  AuthTargets,      \* kill switch targets
  AuthMaximumUses,  \* of every grant, approval and secret ref
  AuthExpiresAt,    \* when grants, refs and reservations expire
  AuthLastTime,     \* bound: the last clock reading
  AuthMaxVersion    \* bound: kill switch changes

ASSUME AuthAssumption ==
  {AuthMaximumUses, AuthExpiresAt, AuthLastTime, AuthMaxVersion} \subseteq Nat \ {0}

AuthSubjects == AuthGrants \cup AuthApprovals \cup AuthSecrets

VARIABLES
  authNow,
  authGrants,   \* stored grants: [status, claims], a claim per authorization key
  authCaller,   \* the grant each caller resolved, or "idle"
  authRes,      \* reservations by authorization key: [state, id, subjects]
  authClaims,   \* grantClaims, approvalClaims, secretClaims: keys by subject
  authRefs,     \* secret refs: "absent", "stored" or "revoked"
  authReads,    \* resolutions under way: ids whose resolver read the ref unrevoked
  authUses,     \* reservation ids under which a ref was resolved
  authKilled,   \* active entries: registryVersion by target, 0 for none
  authVersion,
  authSnaps     \* snapshots handed to hosts

authVars == <<authNow, authGrants, authCaller, authRes, authClaims, authRefs, authReads, authUses,
              authKilled, authVersion, authSnaps>>

AuthInit ==
  /\ authNow = 0
  /\ authGrants = [g \in AuthGrants |-> [status |-> "absent", claims |-> {}]]
  /\ authCaller = [k \in AuthKeys |-> "idle"]
  /\ authRes = [k \in AuthKeys |-> [state |-> "none"]]
  /\ authClaims = [s \in AuthSubjects |-> {}]
  /\ authRefs = [r \in AuthSecrets |-> "absent"]
  /\ authReads = [r \in AuthSecrets |-> {}]
  /\ authUses = [r \in AuthSecrets |-> {}]
  /\ authKilled = [t \in AuthTargets |-> 0]
  /\ authVersion = 0
  /\ authSnaps = {}

AuthTick ==
  /\ authNow < AuthLastTime /\ authNow' = authNow + 1
  /\ UNCHANGED <<authGrants, authCaller, authRes, authClaims, authRefs, authReads, authUses,
                 authKilled, authVersion, authSnaps>>

AuthExpired == authNow >= AuthExpiresAt

\* ----------------------------------------------------------- capability grants

AuthGrantOnly == UNCHANGED <<authNow, authRes, authClaims, authRefs, authReads, authUses,
                             authKilled, authVersion, authSnaps>>

\* The issuer refuses a request that is expired already; storing the same grant again
\* changes nothing.
AuthIssue(g) ==
  /\ ~AuthExpired
  /\ authGrants[g].status = "absent"
  /\ authGrants' = [authGrants EXCEPT ![g].status = "issued"]
  /\ AuthGrantOnly /\ UNCHANGED authCaller

AuthRevoke(g) ==
  /\ authGrants[g].status # "absent"
  /\ authGrants' = [authGrants EXCEPT ![g].status = "revoked"]
  /\ AuthGrantOnly /\ UNCHANGED authCaller

AuthUsable(g) == authGrants[g].status = "issued" /\ ~AuthExpired

AuthLeft(g) == Cardinality(authGrants[g].claims) < AuthMaximumUses

\* resolve answers "active" and how many uses remain; it claims nothing.
AuthResolve(k, g) ==
  /\ authCaller[k] = "idle"
  /\ AuthUsable(g) /\ AuthLeft(g)
  /\ authCaller' = [authCaller EXCEPT ![k] = g]
  /\ AuthGrantOnly /\ UNCHANGED authGrants

MutAuthClaimable(k, g) == AuthUsable(g)  \* mutant: resolve saw a use left

\* reserveUse: a claim of the same key is returned before anything is checked; every
\* check of resolve is made again.
AuthClaimable(k, g) == k \in authGrants[g].claims \/ (AuthUsable(g) /\ AuthLeft(g))

AuthReserveUse(k, g) ==
  /\ authCaller[k] = g
  /\ AuthClaimable(k, g)
  /\ authGrants' = [authGrants EXCEPT ![g].claims = @ \cup {k}]
  /\ AuthGrantOnly /\ UNCHANGED authCaller

\* The caller goes away and may come back for the same call.
AuthForget(k) ==
  /\ authCaller[k] # "idle"
  /\ authCaller' = [authCaller EXCEPT ![k] = "idle"]
  /\ AuthGrantOnly /\ UNCHANGED authGrants

\* --------------------------------------------------- authorization reservations

AuthResOnly == UNCHANGED <<authNow, authGrants, authCaller, authRefs, authReads, authUses,
                           authKilled, authVersion, authSnaps>>

\* assertClaimAvailable
AuthAvailable(s, k) == k \in authClaims[s] \/ Cardinality(authClaims[s]) < AuthMaximumUses

\* A replay of the same reservation returns it; another reservation under the key, and an
\* id that another key holds, are refused.  All claims are asserted, then all are written.
AuthReserve(k, id, subjects) ==
  /\ ~AuthExpired /\ authRes[k].state = "none"
  /\ \A other \in AuthKeys : authRes[other].state # "none" => authRes[other].id # id
  /\ \A s \in subjects : AuthAvailable(s, k)
  /\ authClaims' = [s \in AuthSubjects |->
                      IF s \in subjects THEN authClaims[s] \cup {k} ELSE authClaims[s]]
  /\ authRes' = [authRes EXCEPT ![k] = [state |-> "reserved", id |-> id, subjects |-> subjects]]
  /\ AuthResOnly

AuthConsume(k) ==
  /\ authRes[k].state = "reserved" /\ ~AuthExpired
  /\ authRes' = [authRes EXCEPT ![k].state = "consumed"]
  /\ AuthResOnly /\ UNCHANGED authClaims

\* ------------------------------------------------------------------ secret refs

AuthRefOnly == UNCHANGED <<authNow, authGrants, authCaller, authRes, authClaims,
                           authKilled, authVersion, authSnaps>>

\* putImmutable: the ref as it was issued conflicts with the revoked one.
AuthPutRef(r) ==
  /\ authRefs[r] # "revoked"
  /\ authRefs' = [authRefs EXCEPT ![r] = "stored"]
  /\ AuthRefOnly /\ UNCHANGED <<authReads, authUses>>

AuthRevokeRef(r) ==
  /\ authRefs[r] # "absent"
  /\ authRefs' = [authRefs EXCEPT ![r] = "revoked"]
  /\ AuthRefOnly /\ UNCHANGED <<authReads, authUses>>

\* The resolver reads the ref and awaits: what it read is judged later.  A ref that is absent
\* or revoked by then throws and changes nothing.
AuthReadRef(r, id) ==
  /\ authRefs[r] = "stored"
  /\ authReads' = [authReads EXCEPT ![r] = @ \cup {id}]
  /\ AuthRefOnly /\ UNCHANGED <<authRefs, authUses>>

\* A use under the same reservation is not counted again.
AuthUseLeft(r, id) == id \in authUses[r] \/ Cardinality(authUses[r]) < AuthMaximumUses

\* After the await: the ref as it was read is unrevoked, the clock and the recorded uses are
\* read now, and the use is recorded with nothing in between.
AuthResolveRef(r, id) ==
  /\ id \in authReads[r] /\ ~AuthExpired /\ AuthUseLeft(r, id)
  /\ authUses' = [authUses EXCEPT ![r] = @ \cup {id}]
  /\ authReads' = [authReads EXCEPT ![r] = @ \ {id}]
  /\ AuthRefOnly /\ UNCHANGED authRefs

\* The ref expired during the await, or its uses are exhausted.
AuthDenyRef(r, id) ==
  /\ id \in authReads[r] /\ (AuthExpired \/ ~AuthUseLeft(r, id))
  /\ authReads' = [authReads EXCEPT ![r] = @ \ {id}]
  /\ AuthRefOnly /\ UNCHANGED <<authRefs, authUses>>

\* ------------------------------------------------------------------ kill switch

AuthKillOnly == UNCHANGED <<authNow, authGrants, authCaller, authRes, authClaims,
                            authRefs, authReads, authUses>>

AuthActivate(t) ==
  /\ authVersion < AuthMaxVersion
  /\ authKilled' = [authKilled EXCEPT ![t] = authVersion + 1]
  /\ authVersion' = authVersion + 1
  /\ AuthKillOnly /\ UNCHANGED authSnaps

\* deactivate counts a version when it removed an entry.
AuthRemoved(t) == IF authKilled[t] # 0 THEN authVersion + 1 ELSE authVersion

AuthDeactivate(t) ==
  /\ authVersion < AuthMaxVersion
  /\ authKilled' = [authKilled EXCEPT ![t] = 0]
  /\ authVersion' = AuthRemoved(t)
  /\ AuthKillOnly /\ UNCHANGED authSnaps

AuthSnapshot ==
  /\ authSnaps' = authSnaps \cup {[version |-> authVersion, entries |-> authKilled]}
  /\ AuthKillOnly /\ UNCHANGED <<authKilled, authVersion>>

\* ------------------------------------------------------------------------ steps

AuthGrantStep ==
  \/ \E g \in AuthGrants :
       \/ AuthIssue(g)
       \/ AuthRevoke(g)
       \/ \E k \in AuthKeys : AuthResolve(k, g) \/ AuthReserveUse(k, g)
  \/ \E k \in AuthKeys : AuthForget(k)

AuthReserveStep ==
  \E k \in AuthKeys :
    \/ \E id \in AuthIds, g \in AuthGrants, a \in SUBSET AuthApprovals, s \in SUBSET AuthSecrets :
         Cardinality(a) <= 1 /\ AuthReserve(k, id, {g} \cup a \cup s)
    \/ AuthConsume(k)

AuthRefOf(r) ==
  \/ AuthPutRef(r)
  \/ AuthRevokeRef(r)
  \/ \E id \in AuthIds : AuthReadRef(r, id) \/ AuthResolveRef(r, id) \/ AuthDenyRef(r, id)

AuthRefStep == \E r \in AuthSecrets : AuthRefOf(r)

AuthKillStep ==
  \/ \E t \in AuthTargets : AuthActivate(t) \/ AuthDeactivate(t)
  \/ AuthSnapshot

AuthNext == AuthTick \/ AuthGrantStep \/ AuthReserveStep \/ AuthRefStep \/ AuthKillStep

AuthSpec == AuthInit /\ [][AuthNext]_authVars

\* ------------------------------------------------------------------- properties

\* Every stored value has its type (grants.ts StoredGrant, AuthorizationReservation,
\* SecretRef, KillSwitchSnapshot).
AuthTypeOK ==
  /\ authNow \in 0..AuthLastTime
  /\ authGrants \in [AuthGrants -> [status : {"absent", "issued", "revoked"},
                                    claims : SUBSET AuthKeys]]
  /\ authCaller \in [AuthKeys -> AuthGrants \cup {"idle"}]
  /\ authRes \in [AuthKeys -> {[state |-> "none"]} \cup
                    [state : {"reserved", "consumed"}, id : AuthIds, subjects : SUBSET AuthSubjects]]
  /\ authClaims \in [AuthSubjects -> SUBSET AuthKeys]
  /\ authRefs \in [AuthSecrets -> {"absent", "stored", "revoked"}]
  /\ authReads \in [AuthSecrets -> SUBSET AuthIds]
  /\ authUses \in [AuthSecrets -> SUBSET AuthIds]
  /\ authVersion \in 0..AuthMaxVersion
  /\ authKilled \in [AuthTargets -> 0..authVersion]

\* Callers that all saw a use left, and callers that come back, use a grant no more often
\* than maximumUses together (grants.ts reserveUse).
GrantWithinLimit == \A g \in AuthGrants : Cardinality(authGrants[g].claims) <= AuthMaximumUses

\* A subject is claimed by exactly the keys whose reservation names it: a reservation that
\* fails on its last claim leaves none behind (authorization-reservations.ts reserve).
AllOrNothing ==
  \A s \in AuthSubjects :
    authClaims[s] = {k \in AuthKeys : authRes[k].state # "none" /\ s \in authRes[k].subjects}

\* Resolutions that overlap use a secret ref no more often than maximumUses together: the
\* count is read after the await and recorded before another resolution runs (secrets.ts
\* resolve).
SecretWithinLimit == \A r \in AuthSecrets : Cardinality(authUses[r]) <= AuthMaximumUses

\* No resolution that begins after a ref was revoked succeeds, also when its issuer stores the
\* ref again.  One that had read the ref before may still record its use afterwards: the
\* resolver judges revokedAt on the copy it read before its await (secrets.ts 134-156).
RevokedForGood ==
  \A r \in AuthSecrets :
    authRefs[r] = "revoked" =>
      /\ authRefs'[r] = "revoked"
      /\ authReads'[r] \subseteq authReads[r]
      /\ authUses'[r] \subseteq authUses[r] \cup authReads[r]

\* Snapshots with the same version hold the same entries: a host that compares versions
\* misses no activation and no deactivation (kill-switch.ts createKillSwitchRegistry).
VersionTellsEntries ==
  \A s, t \in authSnaps : s.version = t.version => s.entries = t.entries

\* No order of resolutions, claims, revocations and activations lets a call act on more than
\* it was given: grants and refs keep their limit, a reservation claims all of its subjects
\* or none, only a resolution that had read a ref before its revocation uses it after, a
\* version of the kill switch names one set of entries.
AuthorityHeld ==
  [][/\ RevokedForGood
     /\ (AuthTypeOK /\ GrantWithinLimit /\ SecretWithinLimit /\ AllOrNothing
           /\ VersionTellsEntries)']_authVars
=============================================================================
