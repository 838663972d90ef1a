----------------------------- MODULE TesterLock -----------------------------
(***************************************************************************)
(* The per-project lock of scripts/tester.sh: a directory made with mkdir,  *)
(* and in it an owner file with the PID and start time of the process that  *)
(* made it.  Every command that touches Docker runs under it, and a lock    *)
(* whose owner is gone is recovered by the next invocation.                 *)
(*                                                                          *)
(* One action is one file-system call (or one ps).  A Process is one         *)
(* invocation of the script and stands for its PID and start time, so two    *)
(* processes never share an identity.  Writing the record (open and write)   *)
(* is one step: a reader refuses an empty record as it refuses none.         *)
(***************************************************************************)
EXTENDS FiniteSets

CONSTANTS Process, Absent

ASSUME TesterLockAssumption ==
    /\ IsFiniteSet(Process)
    /\ Absent \notin Process

VARIABLES
    lockDir,    \* the lock directory exists
    owner,      \* whose record the owner file in it holds, or Absent
    pc,
    seen,       \* the record a contender has read
    strayClaim  \* history: a recovery has removed a record it had not judged

vars == <<lockDir, owner, pc, seen, strayClaim>>

Acquiring == {"mkdir", "record", "seal", "sealDir", "undo", "undoDir",
              "validate", "read", "judge", "claim", "clear", "restore", "recheck"}
Releasing == {"release", "drop", "dropDir", "putBack"}
Ended == {"done", "refused", "crashed"}

Init ==
    /\ lockDir = FALSE
    /\ owner = Absent
    /\ pc = [p \in Process |-> "idle"]
    /\ seen = [p \in Process |-> Absent]
    /\ strayClaim = FALSE

GoTo(p, from, to) ==
    /\ pc[p] = from
    /\ pc' = [pc EXCEPT ![p] = to]

\* rm owner_file: succeeds when there is a record, whoever wrote it.
RemoveRecord(p, from, removed, missing) ==
    /\ GoTo(p, from, IF owner # Absent THEN removed ELSE missing)
    /\ owner' = Absent
    /\ UNCHANGED lockDir

\* rmdir lock_dir: succeeds when the directory is there and empty.
RemoveDirectory(p, from, removed, failed) ==
    LET empty == lockDir /\ owner = Absent IN
    /\ GoTo(p, from, IF empty THEN removed ELSE failed)
    /\ lockDir' = (lockDir /\ ~empty)
    /\ UNCHANGED owner

\* write_project_lock_owner under noclobber, || true.
RestoreRecord(p, from, to, record) ==
    /\ GoTo(p, from, to)
    /\ owner' = IF lockDir /\ owner = Absent THEN record ELSE owner
    /\ UNCHANGED lockDir

-----------------------------------------------------------------------------
(* acquire_project_lock *)

Invoke(p) ==
    /\ GoTo(p, "idle", "mkdir")
    /\ UNCHANGED <<lockDir, owner, seen, strayClaim>>

MakeDirectory(p) ==
    /\ GoTo(p, "mkdir", IF lockDir THEN "validate" ELSE "record")
    /\ lockDir' = TRUE
    /\ UNCHANGED <<owner, seen, strayClaim>>

WriteRecord(p) ==
    /\ GoTo(p, "record", IF lockDir THEN "seal" ELSE "undo")
    /\ owner' = IF lockDir THEN p ELSE owner
    /\ UNCHANGED <<lockDir, seen, strayClaim>>

\* chmod 600 owner_file, then chmod 700 lock_dir; each fails when its path is
\* gone.
SealRecord(p) ==
    /\ GoTo(p, "seal", IF owner # Absent THEN "sealDir" ELSE "undo")
    /\ UNCHANGED <<lockDir, owner, seen, strayClaim>>

SealDirectory(p) ==
    /\ GoTo(p, "sealDir", IF lockDir THEN "critical" ELSE "undo")
    /\ UNCHANGED <<lockDir, owner, seen, strayClaim>>

UndoRecord(p) ==
    /\ RemoveRecord(p, "undo", "undoDir", "undoDir")
    /\ UNCHANGED <<seen, strayClaim>>

UndoDirectory(p) ==
    /\ RemoveDirectory(p, "undoDir", "refused", "refused")
    /\ UNCHANGED <<seen, strayClaim>>

\* validate_private_directory: the directory mkdir ran into may be gone.
ValidateDirectory(p) ==
    /\ GoTo(p, "validate", IF lockDir THEN "read" ELSE "refused")
    /\ UNCHANGED <<lockDir, owner, seen, strayClaim>>

\* Mutant: a lock without a valid record is tried again.
ReadRecord_Retries(p) ==
    /\ GoTo(p, "read", IF owner # Absent THEN "judge" ELSE "mkdir")
    /\ seen' = [seen EXCEPT ![p] = owner]
    /\ UNCHANGED <<lockDir, owner, strayClaim>>

\* No valid record: refuse recovery.
ReadRecord(p) ==
    /\ GoTo(p, "read", IF owner # Absent THEN "judge" ELSE "refused")
    /\ seen' = [seen EXCEPT ![p] = owner]
    /\ UNCHANGED <<lockDir, owner, strayClaim>>

\* process_identity_matches
Alive(p) == pc[p] \notin Ended \cup {"idle"}

\* Mutant: the identity of a recorded owner is not looked up.
JudgeOwner_PresumedGone(p) ==
    /\ GoTo(p, "judge", "claim")
    /\ UNCHANGED <<lockDir, owner, seen, strayClaim>>

JudgeOwner(p) ==
    /\ GoTo(p, "judge", IF Alive(seen[p]) THEN "refused" ELSE "claim")
    /\ UNCHANGED <<lockDir, owner, seen, strayClaim>>

ClaimRecord(p) ==
    /\ RemoveRecord(p, "claim", "clear", "recheck")
    /\ strayClaim' = (strayClaim \/ owner \notin {seen[p], Absent})
    /\ UNCHANGED seen

ClearDirectory(p) ==
    /\ RemoveDirectory(p, "clear", "mkdir", "restore")
    /\ UNCHANGED <<seen, strayClaim>>

RestoreStaleRecord(p) ==
    /\ RestoreRecord(p, "restore", "refused", seen[p])
    /\ UNCHANGED <<seen, strayClaim>>

\* The record was gone: die if the directory is there, retry if it is not.
RecheckDirectory(p) ==
    /\ GoTo(p, "recheck", IF lockDir THEN "refused" ELSE "mkdir")
    /\ UNCHANGED <<lockDir, owner, seen, strayClaim>>

-----------------------------------------------------------------------------
(* release_project_lock, from the EXIT trap *)

Finish(p) ==
    /\ GoTo(p, "critical", "release")
    /\ UNCHANGED <<lockDir, owner, seen, strayClaim>>

CheckOwnRecord(p) ==
    /\ GoTo(p, "release", IF owner = p THEN "drop" ELSE "done")
    /\ UNCHANGED <<lockDir, owner, seen, strayClaim>>

\* Mutant: only the record is removed on release.
DropRecord_LeavesDirectory(p) ==
    /\ RemoveRecord(p, "drop", "done", "done")
    /\ UNCHANGED <<seen, strayClaim>>

DropRecord(p) ==
    /\ RemoveRecord(p, "drop", "dropDir", "done")
    /\ UNCHANGED <<seen, strayClaim>>

DropDirectory(p) ==
    /\ RemoveDirectory(p, "dropDir", "done", "putBack")
    /\ UNCHANGED <<seen, strayClaim>>

PutBackRecord(p) ==
    /\ RestoreRecord(p, "putBack", "done", p)
    /\ UNCHANGED <<seen, strayClaim>>

\* SIGKILL anywhere; also any exit while acquiring, because the trap releases
\* nothing before PROJECT_LOCK_DIR is set.
Crash(p) ==
    /\ Alive(p)
    /\ pc' = [pc EXCEPT ![p] = "crashed"]
    /\ UNCHANGED <<lockDir, owner, seen, strayClaim>>

Acquire(p) ==
    \/ MakeDirectory(p)
    \/ WriteRecord(p)
    \/ SealRecord(p)
    \/ SealDirectory(p)
    \/ UndoRecord(p)
    \/ UndoDirectory(p)
    \/ ValidateDirectory(p)
    \/ ReadRecord(p)
    \/ JudgeOwner(p)
    \/ ClaimRecord(p)
    \/ ClearDirectory(p)
    \/ RestoreStaleRecord(p)
    \/ RecheckDirectory(p)

Release(p) ==
    \/ CheckOwnRecord(p)
    \/ DropRecord(p)
    \/ DropDirectory(p)
    \/ PutBackRecord(p)

Next == \E p \in Process : Invoke(p) \/ Acquire(p) \/ Finish(p) \/ Release(p) \/ Crash(p)

Spec == Init /\ [][Next]_vars

\* A started process keeps running, and every command it runs comes to an end.
FairSpec == Spec /\ \A p \in Process : WF_vars(Acquire(p) \/ Finish(p) \/ Release(p))

-----------------------------------------------------------------------------
(* Properties *)

TypeOK ==
    /\ lockDir \in BOOLEAN
    /\ owner \in Process \cup {Absent}
    /\ pc \in [Process -> {"idle", "critical"} \cup Acquiring \cup Releasing \cup Ended]
    /\ seen \in [Process -> Process \cup {Absent}]
    /\ strayClaim \in BOOLEAN
    /\ owner # Absent => lockDir

Holders == {p \in Process : pc[p] = "critical"}

\* One process at a time runs Docker commands for the project, and the record
\* is its own, through contention, refusals, releases, crashes and recoveries,
\* as long as no recovery removes a record other than the one it judged stale.
ExclusiveWithoutStrayClaim ==
    ~strayClaim => \A p \in Holders : owner = p

\* When no invocation was killed the lock is not wedged at rest: it is free, or
\* (after recoveries that raced) holds the record of a process that is gone,
\* which the next invocation recovers.
NotWedgedAtRest ==
    (\A p \in Process : pc[p] \in {"idle", "done", "refused"}) =>
        (lockDir => owner # Absent)

\* acquire_project_lock's loop ends: every invocation gets the lock and
\* releases it, or dies, whatever the others do and wherever they are killed.
\* The specification treats all processes alike: any one stands for every one.
InvocationEnds ==
    LET p == CHOOSE p \in Process : TRUE IN pc[p] = "mkdir" ~> pc[p] \in Ended

\* What the comment in acquire_project_lock says: the recovery that goes on to
\* remove the directory has removed "that exact stale-owner record".
RecoveryClaimsExactRecord ==
    [][\A p \in Process :
        pc[p] = "claim" /\ pc'[p] = "clear" => owner = seen[p]]_vars
============================================================================
