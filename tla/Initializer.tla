---------------------------- MODULE Initializer ----------------------------
(***************************************************************************)
(* createProject of create-pactmark: initializers prepare a project in a   *)
(* temporary directory beside the target and rename it into place, while   *)
(* other processes, other initializers among them, use the same target.    *)
(* The file system is external: rmdir and rename behave as POSIX says.     *)
(***************************************************************************)
EXTENDS Naturals

CONSTANTS
  IniProcesses,
  IniMaxStrangers,   \* bound: what strangers do at the target
  IniMaxCrashes

ASSUME IniAssumption == IniMaxStrangers \in Nat /\ IniMaxCrashes \in Nat

VARIABLES
  iniTarget,     \* [is, of]: nothing there, an empty directory, a stranger's files, or
                 \* the project of an initializer with the files it had
  iniProc,       \* by process: [pc, initial, temp, outcome, orphan]; orphan: a command it
                 \* aborted was still running when the abort was reported
  iniStrangers,  \* steps strangers took
  iniRemovals,   \* the ones that removed something
  iniCrashes

iniVars == <<iniTarget, iniProc, iniStrangers, iniRemovals, iniCrashes>>

IniNone(is) == [is |-> is, of |-> {}]

IniInit ==
  /\ iniTarget \in {IniNone("missing"), IniNone("empty"), IniNone("stranger")}
  /\ iniProc = [p \in IniProcesses |->
       [pc |-> "idle", initial |-> "none", temp |-> "none", outcome |-> "none",
        orphan |-> FALSE]]
  /\ iniStrangers = 0 /\ iniRemovals = 0 /\ iniCrashes = 0

\* targetState: what is neither missing nor an empty directory is occupied.
IniState == IF iniTarget.is \in {"missing", "empty"} THEN iniTarget.is ELSE "occupied"

IniAt(p, pc) == iniProc[p].pc = pc
IniGo(p, pc) == iniProc' = [iniProc EXCEPT ![p].pc = pc]
IniEnds(p, outcome) == iniProc' = [iniProc EXCEPT ![p].pc = "ended", ![p].outcome = outcome]
IniElsewhere == UNCHANGED <<iniStrangers, iniRemovals, iniCrashes>>

\* The plan is valid, the parent is safe, and the target is free.
IniStart(p) ==
  /\ IniAt(p, "idle")
  /\ \/ /\ IniState # "occupied"
        /\ iniProc' = [iniProc EXCEPT ![p].pc = "write", ![p].initial = IniState,
                                      ![p].temp = "partial"]
     \/ IniEnds(p, "refused")
  /\ UNCHANGED iniTarget /\ IniElsewhere

\* Each of these fails, or finds the signal aborted, and then cleans up.
IniWriteTemplate(p) ==
  /\ IniAt(p, "write")
  /\ \/ iniProc' = [iniProc EXCEPT ![p].pc = "run", ![p].temp = "complete"]
     \/ IniGo(p, "cleanup")
  /\ UNCHANGED iniTarget /\ IniElsewhere

\* The package manager and git run in the temporary directory and may change its files.  An
\* abort is the child's "error" event, which does not wait for the child to exit.
IniRunCommands(p) ==
  /\ IniAt(p, "run")
  /\ \/ IniGo(p, "validate")
     \/ iniProc' = [iniProc EXCEPT ![p].pc = "validate", ![p].temp = "changed"]
     \/ \E alive \in BOOLEAN : iniProc' = [iniProc EXCEPT ![p].pc = "cleanup", ![p].orphan = alive]
  /\ UNCHANGED iniTarget /\ IniElsewhere

MutIniValid(p) == TRUE  \* mutant: what the commands left is taken as it is

\* Every template file still has its digest.
IniValid(p) == iniProc[p].temp = "complete"

IniValidate(p) ==
  /\ IniAt(p, "validate")
  /\ \/ IniValid(p) /\ IniGo(p, "recheck")
     \/ IniGo(p, "cleanup")
  /\ UNCHANGED iniTarget /\ IniElsewhere

IniRecheck(p) ==
  /\ IniAt(p, "recheck")
  /\ \/ /\ IniState = iniProc[p].initial
        /\ IniGo(p, IF iniProc[p].initial = "empty" THEN "rmdir" ELSE "rename")
     \/ IniGo(p, "cleanup")
  /\ UNCHANGED iniTarget /\ IniElsewhere

IniRmdir(p) ==
  /\ IniAt(p, "rmdir")
  /\ IF iniTarget.is = "empty" THEN iniTarget' = IniNone("missing") /\ IniGo(p, "gone")
     ELSE IniGo(p, "cleanup") /\ UNCHANGED iniTarget
  /\ IniElsewhere

IniStillMissing(p) ==
  /\ IniAt(p, "gone")
  /\ IniGo(p, IF IniState = "missing" THEN "rename" ELSE "cleanup")
  /\ UNCHANGED iniTarget /\ IniElsewhere

\* rename replaces nothing but an empty directory; it may fail for other reasons too.
IniRenames == IniState # "occupied"

IniRename(p) ==
  /\ IniAt(p, "rename")
  /\ \/ /\ IniRenames
        /\ iniTarget' = [is |-> iniProc[p].temp, of |-> {p}]
        /\ iniProc' = [iniProc EXCEPT ![p].pc = "ended", ![p].temp = "none",
                                      ![p].outcome = "created"]
     \/ IniGo(p, "cleanup") /\ UNCHANGED iniTarget
  /\ IniElsewhere

IniRestores(p) == iniProc[p].initial = "empty" /\ IniState = "missing"

\* rm removes the temporary directory, or rejects (an entry it cannot remove, a directory the
\* orphan fills meanwhile); its rejection takes the place of the error, and nothing is restored.
IniCleanup(p) ==
  /\ IniAt(p, "cleanup")
  /\ \/ iniProc' = [iniProc EXCEPT ![p].temp = "none",
                                   ![p].pc = IF IniRestores(p) THEN "restore" ELSE "ended",
                                   ![p].outcome = "failed"]
     \/ iniProc' = [iniProc EXCEPT ![p].temp = "partial", ![p].pc = "ended",
                                   ![p].outcome = "unclean"]
  /\ UNCHANGED iniTarget /\ IniElsewhere

\* mkdir: a target that exists again is left alone, any other rejection is thrown.
IniRestore(p) ==
  /\ IniAt(p, "restore")
  /\ \/ /\ iniTarget' = IF IniState = "missing" THEN IniNone("empty") ELSE iniTarget
        /\ IniEnds(p, "failed")
     \/ IniState = "missing" /\ IniEnds(p, "unclean") /\ UNCHANGED iniTarget
  /\ IniElsewhere

\* The orphan writes below the temporary directory, also when that was removed before.
IniOrphanWrites(p) ==
  /\ iniProc[p].orphan /\ iniProc[p].pc \in {"cleanup", "restore", "ended"}
  /\ iniProc' = [iniProc EXCEPT ![p].temp = "partial"]
  /\ UNCHANGED iniTarget /\ IniElsewhere

\* The process dies: what it made so far stays.
IniCrash(p) ==
  /\ iniProc[p].pc \notin {"idle", "ended"} /\ iniCrashes < IniMaxCrashes
  /\ iniCrashes' = iniCrashes + 1 /\ IniEnds(p, "dead")
  /\ UNCHANGED <<iniTarget, iniStrangers, iniRemovals>>

\* Somebody else creates the directory, puts files there or removes it.
IniStranger ==
  /\ iniStrangers < IniMaxStrangers /\ iniStrangers' = iniStrangers + 1
  /\ \/ IniState = "missing" /\ iniTarget' = IniNone("empty") /\ UNCHANGED iniRemovals
     \/ IniState # "occupied" /\ iniTarget' = IniNone("stranger") /\ UNCHANGED iniRemovals
     \/ /\ IniState # "missing" /\ iniTarget' = IniNone("missing")
        /\ iniRemovals' = iniRemovals + 1
  /\ UNCHANGED <<iniProc, iniCrashes>>

IniNext ==
  \/ IniStranger
  \/ \E p \in IniProcesses :
       \/ IniStart(p) \/ IniWriteTemplate(p) \/ IniRunCommands(p) \/ IniValidate(p)
       \/ IniRecheck(p) \/ IniRmdir(p) \/ IniStillMissing(p) \/ IniRename(p)
       \/ IniCleanup(p) \/ IniRestore(p) \/ IniOrphanWrites(p)
       \/ IniCrash(p)

IniSpec == IniInit /\ [][IniNext]_iniVars

\* ------------------------------------------------------------------ properties

\* What is at the target, a stranger's files or the project of another initializer, stays
\* until a stranger removes it, whatever was checked before (createProject).
IniContentKept ==
  IniState = "occupied" /\ iniTarget' # iniTarget => iniRemovals' > iniRemovals

\* The target never shows a project that is incomplete or that differs from its plan, also
\* when the initializer dies (writeTemplate, validateMaterializedTemplate, rename).
IniCommitted == iniTarget.is \notin {"partial", "changed"}

\* What a failed initializer leaves.  Its temporary directory stays only if it died, if its rm
\* rejected, or if a command it aborted outlived the abort; and an empty directory initializers
\* started from is there again or holds a project once all have ended, whatever they did to
\* each other, unless one died, had its rm or mkdir rejected, or a stranger removed it.
IniRestored ==
  /\ \A p \in IniProcesses :
       iniProc[p].pc = "ended" /\ iniProc[p].temp # "none" =>
         iniProc[p].outcome \in {"dead", "unclean"} \/ iniProc[p].orphan
  /\ /\ \A p \in IniProcesses :
          iniProc[p].pc \in {"idle", "ended"} /\ iniProc[p].outcome # "unclean"
     /\ \E p \in IniProcesses : iniProc[p].initial = "empty"
     /\ iniCrashes = 0 /\ iniRemovals = 0
     => IniState # "missing"

\* createProject beside others: it takes nobody's files, shows a whole project or none, and
\* undoes what it did when it fails, as far as rm, mkdir and the commands it aborts let it.
InitializerSafe == [][IniContentKept /\ (IniCommitted /\ IniRestored)']_iniVars
=============================================================================
