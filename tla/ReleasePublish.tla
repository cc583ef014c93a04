--------------------------- MODULE ReleasePublish ---------------------------
(***************************************************************************)
(* The release publisher (tooling/release-publish.mts): a plan of npm      *)
(* packages is put in dependency order, the registry is inspected, and     *)
(* every missing package is published, waited for and compared with the    *)
(* local bytes before the next one.  Two publishers (a bootstrap at a      *)
(* terminal, an OIDC job) may run at once, each may crash and be started   *)
(* again, a third party may publish a name, and the registry shows a       *)
(* publication only some time after it accepted it.                        *)
(*                                                                         *)
(* The registry, the npm client and its login session are external: they   *)
(* are modelled by the answers the publisher distinguishes.                *)
(***************************************************************************)
EXTENDS Naturals, Sequences, FiniteSets, SequencesExt

CONSTANTS
    RelPackages,    \* the release's packages: numbers, in the order of their names
    RelCreate,      \* create-pactmark, visited after the others
    RelGraphs,      \* the dependency graphs considered: [RelPackages -> SUBSET RelPackages]
    RelPublishers,  \* processes that may run the publisher
    RelMaxPolls,    \* POST_PUBLISH_VISIBILITY_ATTEMPTS
    RelMaxRuns,     \* bound: runs started by one publisher
    RelMaxForeign   \* bound: versions published by a third party

ASSUME RelAssumption ==
    /\ RelPackages \subseteq Nat /\ IsFiniteSet(RelPackages)
    /\ RelGraphs \subseteq [RelPackages -> SUBSET RelPackages]
    /\ RelMaxPolls \in Nat \ {0} /\ RelMaxRuns \in Nat /\ RelMaxForeign \in Nat

VARIABLES
    relDeps,      \* the manifest's internal dependencies
    relRegistry,  \* per package the release's version: absent, pending (accepted, not yet
                  \* served), ours (served, our bytes) or foreign (served, other bytes)
    relNames,     \* packages with some version in the registry
    relRun        \* per publisher the run in progress

relVars == <<relDeps, relRegistry, relNames, relRun>>

RelModes == {"interactive", "oidc"}

\* A trusted publisher exists only for a package the registry already has.
RelTrusted(mode, authority) == mode = "oidc" => authority = RelPackages

(***************************************************************************)
(* preparePublishPlan: the operations in dependency order.  visit() calls  *)
(* itself for a package's dependencies in the order of their names; one    *)
(* that was visited returns at once, so the call that does something is    *)
(* for the least dependency not yet visited.  The plan after some calls    *)
(* and returns of visit(): the calls open, innermost last (`visiting`),    *)
(* what returned, in that order (`visited` and `ordered`), and whether one *)
(* met a package it is still visiting and threw.                           *)
(***************************************************************************)
RelLeast(S) == CHOOSE p \in S : \A q \in S : p <= q

\* The loop over the names, create-pactmark last.
RelRoot(left) ==
    IF left \subseteq {RelCreate} THEN RelCreate ELSE RelLeast(left \ {RelCreate})

RelEnter(plan, name) ==
    IF name \in ToSet(plan.visiting)
    THEN [plan EXCEPT !.cycle = TRUE]
    ELSE [plan EXCEPT !.visiting = Append(@, name)]

\* One call of visit(), or one return.
RelVisit(deps, plan) ==
    LET left == RelPackages \ ToSet(plan.ordered)
        name == Last(plan.visiting)
        missing == deps[name] \ ToSet(plan.ordered)
    IN  IF plan.cycle \/ left = {} THEN plan
        ELSE IF plan.visiting = <<>> THEN RelEnter(plan, RelRoot(left))
        ELSE IF missing # {} THEN RelEnter(plan, RelLeast(missing))
        ELSE [plan EXCEPT !.visiting = Front(@), !.ordered = Append(@, name)]

RelNoPlan == [visiting |-> <<>>, ordered |-> <<>>, cycle |-> FALSE]

\* Every package is called for once and returns once, unless visit() throws.
RelPlanAfter(deps, steps) ==
    LET Plan[n \in 0 .. steps] == IF n = 0 THEN RelNoPlan ELSE RelVisit(deps, Plan[n - 1])
    IN  Plan[steps]

RelPlan(deps) == RelPlanAfter(deps, 2 * Cardinality(RelPackages))

RelCycle(deps) == RelPlan(deps).cycle

\* The loop without the recursion.
MutRelOrder(deps) == RelPlan([p \in RelPackages |-> {}]).ordered

RelOrder(deps) == RelPlan(deps).ordered

(***************************************************************************)
(* Inspecting the registry.                                                *)
(***************************************************************************)
RelServed(p) == relRegistry[p] \in {"ours", "foreign"}

\* inspectPublicRegistry: the served bytes, 404, or anything else.
RelInspections(p) == {"uncertain", IF RelServed(p) THEN relRegistry[p] ELSE "absent"}

\* inspectPackagePresence: does the name exist in any version?
RelPresences(p) == {"uncertain", IF p \in relNames THEN "present" ELSE "absent"}

(***************************************************************************)
(* A run of the publisher.                                                 *)
(***************************************************************************)
RelUnseen == [p \in RelPackages |-> "unseen"]

RelIdle == [pc |-> "idle", mode |-> "oidc", authority |-> {}, seen |-> RelUnseen, at |-> 1, polls |-> 0,
            found |-> "none", session |-> "none", opened |-> FALSE, outcome |-> "none", runs |-> 0]

RelInit ==
    /\ relDeps \in RelGraphs
    /\ \E names \in {{}, RelPackages} : relNames = names
    /\ relRegistry = [p \in RelPackages |-> "absent"]
    /\ \E before \in {"none", "expected", "other"} :
           relRun = [x \in RelPublishers |-> [RelIdle EXCEPT !.session = before]]

RelAt(x, pc) == relRun[x].pc = pc

RelGo(x, run) == relRun' = [relRun EXCEPT ![x] = run]

RelOver(x, outcome) ==
    [relRun[x] EXCEPT !.pc = "idle", !.outcome = outcome, !.opened = FALSE,
                      !.seen = RelUnseen, !.at = 1, !.polls = 0]

\* Ending while logged in runs logoutBootstrap on success and on failure
\* alike; a logout that fails leaves the session and becomes the outcome.
RelEnds(x, outcome) ==
    IF relRun[x].opened
    THEN \/ RelGo(x, [RelOver(x, outcome) EXCEPT !.session = "none"])
         \/ RelGo(x, RelOver(x, "logout_failed"))
    ELSE RelGo(x, RelOver(x, outcome))

\* runReleasePublisher up to the plan: the authority entries were inspected
\* by the operator when the configuration was written, for this run.
RelStart(x) ==
    /\ RelAt(x, "idle") /\ relRun[x].runs < RelMaxRuns
    /\ \E mode \in RelModes, fails \in {"nothing", "some"} :
         LET refused == fails = "some" \/ ~RelTrusted(mode, relNames) \/ RelCycle(relDeps)
             started == [relRun[x] EXCEPT !.mode = mode, !.authority = relNames,
                                          !.found = relRun[x].session, !.runs = @ + 1]
         IN  RelGo(x, IF refused
                      THEN [started EXCEPT !.outcome = "refused"]
                      ELSE [started EXCEPT !.pc = IF mode = "oidc" THEN "preflight" ELSE "presence",
                                           !.outcome = "none"])
    /\ UNCHANGED <<relDeps, relRegistry, relNames>>

\* A package that is not there yet, or there with the plan's bytes.
RelAcceptable(inspection) == inspection \in {"absent", "ours"}

RelNothingMissing(seen) == \A q \in RelPackages : seen[q] # "absent"

RelToSee(x) == {p \in RelPackages : relRun[x].seen[p] = "unseen"}

RelSee(x, p, inspection) == [relRun[x].seen EXCEPT ![p] = inspection]

\* The first inspection of the bootstrap, package by package: a name that
\* came or went since the authority was inspected stops the run.
RelPresence(x) ==
    /\ RelAt(x, "presence")
    /\ \E p \in RelToSee(x) :
         \E presence \in RelPresences(p), inspection \in RelInspections(p) :
           LET fits == /\ presence = (IF p \in relRun[x].authority THEN "present" ELSE "absent")
                       /\ RelAcceptable(inspection)
               seen == RelSee(x, p, inspection)
           IN  IF ~fits
               THEN RelEnds(x, "refused")
               ELSE RelGo(x, IF RelToSee(x) # {p}
                             THEN [relRun[x] EXCEPT !.seen = seen]
                             ELSE IF RelNothingMissing(seen)
                             THEN [relRun[x] EXCEPT !.pc = "idle", !.outcome = "executed", !.seen = RelUnseen]
                             ELSE [relRun[x] EXCEPT !.pc = "login", !.seen = RelUnseen])
    /\ UNCHANGED <<relDeps, relRegistry, relNames>>

\* A login that leads to no publication: the session it leaves.
RelLoginEnds(x, session, outcome) ==
    RelGo(x, [relRun[x] EXCEPT !.session = session, !.pc = "idle", !.outcome = outcome])

\* loginForBootstrap: whoami, a login when it names nobody, whoami again.  whoami may fail
\* beside any session, also another user's, which the login then replaces; a login that fails
\* may have left a session, which nobody logs out; after one that succeeds, a second whoami
\* that fails or names another user logs out, and that may fail as well.
RelLogin(x) ==
    /\ RelAt(x, "login")
    /\ \E said \in {"none", relRun[x].session} :
         \/ said = "other" /\ RelEnds(x, "refused")
         \/ said = "expected" /\ RelEnds(x, "refused")
         \/ /\ said = "expected"
            /\ RelGo(x, [relRun[x] EXCEPT !.opened = TRUE, !.pc = "preflight"])
         \/ /\ said = "none"
            /\ \E session \in {relRun[x].session, "expected", "other"} :
                 RelLoginEnds(x, session, "login_failed")
         \/ /\ said = "none"
            /\ RelGo(x, [relRun[x] EXCEPT !.session = "expected", !.opened = TRUE, !.pc = "preflight"])
         \/ said = "none" /\ RelLoginEnds(x, "none", "refused")
         \/ /\ said = "none"
            /\ \E session \in {"expected", "other"} : RelLoginEnds(x, session, "logout_failed")
    /\ UNCHANGED <<relDeps, relRegistry, relNames>>

\* executePublishPlanAsync inspects every package before it publishes one.
RelPreflight(x) ==
    /\ RelAt(x, "preflight")
    /\ \E p \in RelToSee(x) : \E inspection \in RelInspections(p) :
         IF ~RelAcceptable(inspection)
         THEN RelEnds(x, "refused")
         ELSE RelGo(x, [relRun[x] EXCEPT !.seen = RelSee(x, p, inspection),
                                         !.pc = IF RelToSee(x) = {p} THEN "publish" ELSE @])
    /\ UNCHANGED <<relDeps, relRegistry, relNames>>

\* The next operation the preflight found missing.
RelSkip(x) ==
    /\ RelAt(x, "publish")
    /\ relRun[x].at <= Cardinality(RelPackages)
    /\ relRun[x].seen[RelOrder(relDeps)[relRun[x].at]] # "absent"
    /\ RelGo(x, [relRun[x] EXCEPT !.at = @ + 1])
    /\ UNCHANGED <<relDeps, relRegistry, relNames>>

RelFinish(x) ==
    /\ RelAt(x, "publish")
    /\ relRun[x].at > Cardinality(RelPackages)
    /\ RelEnds(x, "executed")
    /\ UNCHANGED <<relDeps, relRegistry, relNames>>

\* npm publish: the registry takes a version once; the client may fail before
\* the registry accepted it, or time out afterwards.
RelPublish(x) ==
    /\ RelAt(x, "publish")
    /\ relRun[x].at <= Cardinality(RelPackages)
    /\ LET p == RelOrder(relDeps)[relRun[x].at]
       IN  /\ relRun[x].seen[p] = "absent"
           /\ \/ /\ relRegistry[p] = "absent"
                 /\ relRegistry' = [relRegistry EXCEPT ![p] = "pending"]
                 /\ \E pc \in {"verify", "failed"} : RelGo(x, [relRun[x] EXCEPT !.pc = pc, !.polls = 0])
              \/ /\ UNCHANGED relRegistry
                 /\ RelGo(x, [relRun[x] EXCEPT !.pc = "failed"])
    /\ UNCHANGED <<relDeps, relNames>>

\* After a failed npm publish only the exact bytes in the registry count.
RelAfterFailure(x) ==
    /\ RelAt(x, "failed")
    /\ \E inspection \in RelInspections(RelOrder(relDeps)[relRun[x].at]) :
         IF inspection = "ours"
         THEN RelGo(x, [relRun[x] EXCEPT !.pc = "verify", !.polls = 0])
         ELSE RelEnds(x, "uncertain")
    /\ UNCHANGED <<relDeps, relRegistry, relNames>>

\* Polling until the version is served, then comparing the bytes.
RelVerified(inspection, polls) ==
    CASE inspection = "ours" -> "next"
      [] inspection = "foreign" -> "unverified"
      [] inspection \notin {"ours", "foreign"} /\ polls + 1 < RelMaxPolls -> "again"
      [] OTHER -> "unverified"

RelVerify(x) ==
    /\ RelAt(x, "verify")
    /\ \E inspection \in RelInspections(RelOrder(relDeps)[relRun[x].at]) :
         LET answer == RelVerified(inspection, relRun[x].polls)
         IN  \/ /\ answer = "next"
                /\ RelGo(x, [relRun[x] EXCEPT !.pc = "publish", !.at = @ + 1])
             \/ /\ answer = "again"
                /\ RelGo(x, [relRun[x] EXCEPT !.polls = @ + 1])
             \/ /\ answer = "unverified"
                /\ RelEnds(x, "unverified")
    /\ UNCHANGED <<relDeps, relRegistry, relNames>>

RelCrash(x) ==
    /\ ~RelAt(x, "idle")
    /\ RelGo(x, RelOver(x, "crashed"))
    /\ UNCHANGED <<relDeps, relRegistry, relNames>>

\* The registry serves what it accepted.
RelServe(p) ==
    /\ relRegistry[p] = "pending"
    /\ relRegistry' = [relRegistry EXCEPT ![p] = "ours"]
    /\ relNames' = relNames \cup {p}
    /\ UNCHANGED <<relDeps, relRun>>

RelForeign(p) ==
    /\ relRegistry[p] = "absent"
    /\ Cardinality({q \in RelPackages : relRegistry[q] = "foreign"}) < RelMaxForeign
    /\ relRegistry' = [relRegistry EXCEPT ![p] = "foreign"]
    /\ relNames' = relNames \cup {p}
    /\ UNCHANGED <<relDeps, relRun>>

RelNext ==
    \/ \E x \in RelPublishers :
         \/ RelStart(x) \/ RelPresence(x) \/ RelLogin(x) \/ RelPreflight(x) \/ RelSkip(x) \/ RelFinish(x)
         \/ RelPublish(x) \/ RelAfterFailure(x) \/ RelVerify(x) \/ RelCrash(x)
    \/ \E p \in RelPackages : RelServe(p) \/ RelForeign(p)

RelSpec == RelInit /\ [][RelNext]_relVars

-----------------------------------------------------------------------------

(***************************************************************************)
(* At every moment, however many publishers run, crash and run again,      *)
(* whoever installs a package this release published finds all its         *)
(* internal dependencies served with the release's own bytes: nothing is   *)
(* handed to the registry before everything it depends on is served        *)
(* (executePublishPlanAsync publishes in plan order and waits).            *)
(***************************************************************************)
RelDependenciesFirst ==
    \A p \in RelPackages :
        relRegistry[p] \in {"pending", "ours"} =>
            \A d \in relDeps[p] : relRegistry[d] = "ours"

(***************************************************************************)
(* A run answers "executed" only when every package of the plan is served  *)
(* with the plan's bytes, whatever the registry answered on the way.       *)
(***************************************************************************)
RelExecutedServed ==
    \A x \in RelPublishers :
        relRun[x].outcome = "executed" => \A p \in RelPackages : relRegistry[p] = "ours"

(***************************************************************************)
(* A run that found no npm session leaves none: whether the publication    *)
(* succeeded, was refused or failed half way, unless the process died, the *)
(* logout itself failed, or the npm login failed after it had stored a     *)
(* session (executeInteractiveBootstrap, loginForBootstrap).               *)
(***************************************************************************)
RelSessionClosed ==
    \A x \in RelPublishers :
        (/\ relRun[x].pc = "idle" /\ relRun[x].found = "none"
         /\ relRun[x].outcome \notin {"crashed", "login_failed", "logout_failed"} /\ relRun[x].runs > 0)
            => relRun[x].session = "none"

(***************************************************************************)
(* A release in any number of runs, by several publishers, past crashes:   *)
(* what is out can be installed, "executed" means all of it is out, and a  *)
(* run closes the session it opened.                                       *)
(***************************************************************************)
ReleaseSafe == RelDependenciesFirst /\ RelExecutedServed /\ RelSessionClosed
=============================================================================
