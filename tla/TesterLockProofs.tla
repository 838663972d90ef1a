-------------------------- MODULE TesterLockProofs --------------------------
(***************************************************************************)
(* Proof, for every set of invocations, that the project lock of tester.sh  *)
(* is exclusive as long as no recovery removes a record it did not judge.   *)
(***************************************************************************)
EXTENDS TesterLock, TLAPS

\* Made or emptied the directory, and will write, or remove it, next.
HoldsEmpty == {"record", "dropDir", "clear"}
\* Wrote the record and has not removed it.
HoldsRecord == {"seal", "sealDir", "critical", "release", "drop"}
\* Only reached after a stray claim.
Astray == {"undo", "undoDir", "restore", "putBack"}

\* A record names a process that was started, and a contender that claims one
\* has seen that process ended.
RecordsInv ==
    /\ owner # Absent => pc[owner] # "idle"
    /\ \A p \in Process :
        /\ pc[p] \in {"judge", "claim"} => seen[p] \in Process
        /\ seen[p] # Absent => pc[seen[p]] # "idle"
        /\ pc[p] = "claim" => pc[seen[p]] \in Ended

\* The directory is in the hands of one process: the one whose live record is
\* in it, or, while it is empty, the one that is about to fill or remove it.
LockInv ==
    /\ \A p \in Process :
        /\ pc[p] \notin Astray
        /\ pc[p] \in HoldsRecord => owner = p
        /\ pc[p] \in HoldsEmpty => lockDir /\ owner = Absent
    /\ \A p, q \in Process : pc[p] \in HoldsEmpty /\ pc[q] \in HoldsEmpty => p = q

IInv == TypeOK /\ RecordsInv /\ (~strayClaim => LockInv)

USE TesterLockAssumption DEF TesterLockAssumption

\* Before the first invocation there is no directory and nobody claims it.
LEMMA InitIInv == Init => IInv
<1> SUFFICES ASSUME Init PROVE IInv
    OBVIOUS
<1>1. lockDir \in BOOLEAN /\ strayClaim \in BOOLEAN
    BY Zenon DEF Init
<1>2. TypeOK
    BY <1>1 DEF Init, TypeOK
<1>3. RecordsInv
    BY DEF Init, RecordsInv
<1>4. LockInv
    BY DEF Init, LockInv, Astray, HoldsRecord, HoldsEmpty
<1> QED
    BY <1>2, <1>3, <1>4 DEF IInv

\* Every step writes a process's pc to a step of the script, the record to a
\* process's own or to one it has seen, and the directory under it.
LEMMA NextTypeOK ==
    ASSUME TypeOK, NEW p \in Process,
           Invoke(p) \/ Acquire(p) \/ Finish(p) \/ Release(p) \/ Crash(p)
    PROVE  TypeOK'
<1>1. pc' \in [Process -> {"idle", "critical"} \cup Acquiring \cup Releasing \cup Ended]
    BY DEF TypeOK, Invoke, Acquire, Finish, Release, Crash, MakeDirectory, WriteRecord,
           SealRecord, SealDirectory, UndoRecord, UndoDirectory, ValidateDirectory,
           ReadRecord, JudgeOwner, ClaimRecord, ClearDirectory, RestoreStaleRecord,
           RecheckDirectory, CheckOwnRecord, DropRecord, DropDirectory, PutBackRecord,
           GoTo, RemoveRecord, RemoveDirectory, RestoreRecord, Acquiring, Releasing,
           Ended
<1>2. seen' \in [Process -> Process \cup {Absent}]
    BY DEF TypeOK, Invoke, Acquire, Finish, Release, Crash, MakeDirectory, WriteRecord,
           SealRecord, SealDirectory, UndoRecord, UndoDirectory, ValidateDirectory,
           ReadRecord, JudgeOwner, ClaimRecord, ClearDirectory, RestoreStaleRecord,
           RecheckDirectory, CheckOwnRecord, DropRecord, DropDirectory, PutBackRecord
<1>3. lockDir' \in BOOLEAN /\ strayClaim' \in BOOLEAN
    BY DEF TypeOK, Invoke, Acquire, Finish, Release, Crash, MakeDirectory, WriteRecord,
           SealRecord, SealDirectory, UndoRecord, UndoDirectory, ValidateDirectory,
           ReadRecord, JudgeOwner, ClaimRecord, ClearDirectory, RestoreStaleRecord,
           RecheckDirectory, CheckOwnRecord, DropRecord, DropDirectory, PutBackRecord,
           RemoveRecord, RemoveDirectory, RestoreRecord
<1>4. owner' \in Process \cup {Absent} /\ (owner' # Absent => lockDir')
    BY DEF TypeOK, Invoke, Acquire, Finish, Release, Crash, MakeDirectory, WriteRecord,
           SealRecord, SealDirectory, UndoRecord, UndoDirectory, ValidateDirectory,
           ReadRecord, JudgeOwner, ClaimRecord, ClearDirectory, RestoreStaleRecord,
           RecheckDirectory, CheckOwnRecord, DropRecord, DropDirectory, PutBackRecord,
           RemoveRecord, RemoveDirectory, RestoreRecord
<1> QED
    BY <1>1, <1>2, <1>3, <1>4 DEF TypeOK

\* A process never returns to "idle", one that has ended stays ended, and a
\* recovery claims only after it has found the recorded process ended.
LEMMA NextRecordsInv ==
    ASSUME TypeOK, RecordsInv, NEW p \in Process,
           Invoke(p) \/ Acquire(p) \/ Finish(p) \/ Release(p) \/ Crash(p)
    PROVE  RecordsInv'
<1> USE DEF TypeOK, RecordsInv, GoTo, Ended
<1>1. CASE Invoke(p)
    BY <1>1 DEF Invoke
<1>2. CASE MakeDirectory(p)
    BY <1>2 DEF MakeDirectory
<1>3. CASE WriteRecord(p)
    BY <1>3 DEF WriteRecord
<1>4. CASE SealRecord(p)
    BY <1>4 DEF SealRecord
<1>5. CASE SealDirectory(p)
    BY <1>5 DEF SealDirectory
<1>6. CASE UndoRecord(p)
    BY <1>6 DEF UndoRecord, RemoveRecord
<1>7. CASE UndoDirectory(p)
    BY <1>7 DEF UndoDirectory, RemoveDirectory
<1>8. CASE ValidateDirectory(p)
    BY <1>8 DEF ValidateDirectory
<1>9. CASE ReadRecord(p)
    BY <1>9 DEF ReadRecord
<1>10. CASE JudgeOwner(p)
    BY <1>10 DEF JudgeOwner, Alive
<1>11. CASE ClaimRecord(p)
    BY <1>11 DEF ClaimRecord, RemoveRecord
<1>12. CASE ClearDirectory(p)
    BY <1>12 DEF ClearDirectory, RemoveDirectory
<1>13. CASE RestoreStaleRecord(p)
    BY <1>13 DEF RestoreStaleRecord, RestoreRecord
<1>14. CASE RecheckDirectory(p)
    BY <1>14 DEF RecheckDirectory
<1>15. CASE Finish(p)
    BY <1>15 DEF Finish
<1>16. CASE CheckOwnRecord(p)
    BY <1>16 DEF CheckOwnRecord
<1>17. CASE DropRecord(p)
    BY <1>17 DEF DropRecord, RemoveRecord
<1>18. CASE DropDirectory(p)
    BY <1>18 DEF DropDirectory, RemoveDirectory
<1>19. CASE PutBackRecord(p)
    BY <1>19 DEF PutBackRecord, RestoreRecord
<1>20. CASE Crash(p)
    BY <1>20 DEF Crash, Alive
<1> QED
    BY <1>1, <1>2, <1>3, <1>4, <1>5, <1>6, <1>7, <1>8, <1>9, <1>10, <1>11, <1>12, <1>13, <1>14, <1>15, <1>16, <1>17, <1>18, <1>19, <1>20 DEF Acquire, Release

\* As long as no claim goes astray the lock stays in the hands of one process.
LEMMA NextLockInv ==
    ASSUME TypeOK, RecordsInv, LockInv, ~strayClaim', NEW p \in Process,
           Invoke(p) \/ Acquire(p) \/ Finish(p) \/ Release(p) \/ Crash(p)
    PROVE  LockInv'
<1> USE DEF TypeOK, LockInv, GoTo, HoldsEmpty, HoldsRecord, Astray
<1>1. CASE Invoke(p)
    BY <1>1 DEF Invoke
<1>2. CASE MakeDirectory(p)
    BY <1>2 DEF MakeDirectory
<1>3. CASE WriteRecord(p)
    BY <1>3 DEF WriteRecord
<1>4. CASE SealRecord(p)
    BY <1>4 DEF SealRecord
<1>5. CASE SealDirectory(p)
    BY <1>5 DEF SealDirectory
<1>6. CASE UndoRecord(p)
    BY <1>6 DEF UndoRecord, RemoveRecord
<1>7. CASE UndoDirectory(p)
    BY <1>7 DEF UndoDirectory, RemoveDirectory
<1>8. CASE ValidateDirectory(p)
    BY <1>8 DEF ValidateDirectory
<1>9. CASE ReadRecord(p)
    BY <1>9 DEF ReadRecord
<1>10. CASE JudgeOwner(p)
    BY <1>10 DEF JudgeOwner, Alive
<1>11. CASE ClaimRecord(p)
    BY <1>11 DEF ClaimRecord, RemoveRecord, RecordsInv, Ended
<1>12. CASE ClearDirectory(p)
    BY <1>12 DEF ClearDirectory, RemoveDirectory
<1>13. CASE RestoreStaleRecord(p)
    BY <1>13 DEF RestoreStaleRecord, RestoreRecord
<1>14. CASE RecheckDirectory(p)
    BY <1>14 DEF RecheckDirectory
<1>15. CASE Finish(p)
    BY <1>15 DEF Finish
<1>16. CASE CheckOwnRecord(p)
    BY <1>16 DEF CheckOwnRecord
<1>17. CASE DropRecord(p)
    BY <1>17 DEF DropRecord, RemoveRecord
<1>18. CASE DropDirectory(p)
    BY <1>18 DEF DropDirectory, RemoveDirectory
<1>19. CASE PutBackRecord(p)
    BY <1>19 DEF PutBackRecord, RestoreRecord
<1>20. CASE Crash(p)
    BY <1>20 DEF Crash, Alive
<1> QED
    BY <1>1, <1>2, <1>3, <1>4, <1>5, <1>6, <1>7, <1>8, <1>9, <1>10, <1>11, <1>12, <1>13, <1>14, <1>15, <1>16, <1>17, <1>18, <1>19, <1>20 DEF Acquire, Release

\* Every step of an invocation, and its death, keeps the invariant.
LEMMA NextIInv == IInv /\ [Next]_vars => IInv'
<1> SUFFICES ASSUME IInv, [Next]_vars PROVE IInv'
    OBVIOUS
<1>1. CASE UNCHANGED vars
    BY <1>1 DEF vars, IInv, TypeOK, RecordsInv, LockInv
<1>2. ASSUME NEW p \in Process,
             Invoke(p) \/ Acquire(p) \/ Finish(p) \/ Release(p) \/ Crash(p)
      PROVE  IInv'
    <2>1. TypeOK'
        BY <1>2, NextTypeOK DEF IInv
    <2>2. RecordsInv'
        BY <1>2, NextRecordsInv DEF IInv
    <2>3. ~strayClaim' => ~strayClaim
        BY <1>2 DEF Invoke, Acquire, Finish, Release, Crash, MakeDirectory, WriteRecord,
           SealRecord, SealDirectory, UndoRecord, UndoDirectory, ValidateDirectory,
           ReadRecord, JudgeOwner, ClaimRecord, ClearDirectory, RestoreStaleRecord,
           RecheckDirectory, CheckOwnRecord, DropRecord, DropDirectory, PutBackRecord
    <2>4. ~strayClaim' => LockInv'
        BY <1>2, <2>3, NextLockInv DEF IInv
    <2> QED
        BY <2>1, <2>2, <2>4 DEF IInv
<1> QED
    BY <1>1, <1>2 DEF Next

\* Along every behaviour the directory is in the hands IInv names.
THEOREM InvariantHolds == Spec => []IInv
BY InitIInv, NextIInv, PTL DEF Spec

\* The types of the lock's state; a record lies in an existing directory.
THEOREM TypeCorrect == Spec => []TypeOK
<1>1. IInv => TypeOK
    BY DEF IInv
<1> QED
    BY <1>1, InvariantHolds, PTL

\* tester.sh: the project lock has one holder, however many invocations contend
\* for it and wherever they are killed, until a claim removes a live record.
THEOREM LockExclusive == Spec => []ExclusiveWithoutStrayClaim
<1>1. IInv => ExclusiveWithoutStrayClaim
    BY DEF IInv, LockInv, HoldsRecord, ExclusiveWithoutStrayClaim, Holders
<1> QED
    BY <1>1, InvariantHolds, PTL

-----------------------------------------------------------------------------
(* A lock is not wedged at rest *)

\* Made the directory, or took its record away, and will do the rest.
Responsible == {"record", "undoDir", "clear", "dropDir"}

\* When nobody was killed an empty directory is in somebody's hands, though
\* claims may have gone astray and directories change hands.
EmptyInv ==
    (\A p \in Process : pc[p] # "crashed") =>
        (lockDir /\ owner = Absent => \E p \in Process : pc[p] \in Responsible)

\* Who leaves a step that is responsible leaves a record or no directory; who
\* empties a directory becomes responsible.
LEMMA NextEmptyInv ==
    ASSUME TypeOK, EmptyInv, NEW p \in Process,
           Invoke(p) \/ Acquire(p) \/ Finish(p) \/ Release(p) \/ Crash(p)
    PROVE  EmptyInv'
<1> SUFFICES ASSUME \A q \in Process : pc'[q] # "crashed",
                    lockDir', owner' = Absent
             PROVE  \E q \in Process : pc'[q] \in Responsible
    BY DEF EmptyInv
<1>1. /\ pc[p] # "crashed"
      /\ \A q \in Process \ {p} : pc'[q] = pc[q]
    BY DEF TypeOK, Invoke, Acquire, Finish, Release, Crash, Alive, Ended,
           MakeDirectory, WriteRecord, SealRecord, SealDirectory, UndoRecord,
           UndoDirectory, ValidateDirectory, ReadRecord, JudgeOwner, ClaimRecord,
           ClearDirectory, RestoreStaleRecord, RecheckDirectory, CheckOwnRecord,
           DropRecord, DropDirectory, PutBackRecord, GoTo, RemoveRecord,
           RemoveDirectory, RestoreRecord
<1>2. lockDir /\ owner = Absent => \E q \in Process : pc[q] \in Responsible
    BY <1>1 DEF EmptyInv
<1>3. ASSUME lockDir, owner = Absent, pc[p] \notin Responsible
      PROVE  \E q \in Process : pc'[q] \in Responsible
    BY <1>1, <1>2, <1>3
<1> USE DEF TypeOK, GoTo, Responsible
<1>4. CASE Invoke(p)
    BY <1>1, <1>3, <1>4 DEF Invoke
<1>5. CASE MakeDirectory(p)
    BY <1>1, <1>3, <1>5 DEF MakeDirectory
<1>6. CASE WriteRecord(p)
    BY <1>1, <1>3, <1>6 DEF WriteRecord
<1>7. CASE SealRecord(p)
    BY <1>1, <1>3, <1>7 DEF SealRecord
<1>8. CASE SealDirectory(p)
    BY <1>1, <1>3, <1>8 DEF SealDirectory
<1>9. CASE UndoRecord(p)
    BY <1>1, <1>3, <1>9 DEF UndoRecord, RemoveRecord
<1>10. CASE UndoDirectory(p)
    BY <1>1, <1>3, <1>10 DEF UndoDirectory, RemoveDirectory
<1>11. CASE ValidateDirectory(p)
    BY <1>1, <1>3, <1>11 DEF ValidateDirectory
<1>12. CASE ReadRecord(p)
    BY <1>1, <1>3, <1>12 DEF ReadRecord
<1>13. CASE JudgeOwner(p)
    BY <1>1, <1>3, <1>13 DEF JudgeOwner
<1>14. CASE ClaimRecord(p)
    BY <1>1, <1>3, <1>14 DEF ClaimRecord, RemoveRecord
<1>15. CASE ClearDirectory(p)
    BY <1>1, <1>3, <1>15 DEF ClearDirectory, RemoveDirectory
<1>16. CASE RestoreStaleRecord(p)
    BY <1>1, <1>3, <1>16 DEF RestoreStaleRecord, RestoreRecord
<1>17. CASE RecheckDirectory(p)
    BY <1>1, <1>3, <1>17 DEF RecheckDirectory
<1>18. CASE Finish(p)
    BY <1>1, <1>3, <1>18 DEF Finish
<1>19. CASE CheckOwnRecord(p)
    BY <1>1, <1>3, <1>19 DEF CheckOwnRecord
<1>20. CASE DropRecord(p)
    BY <1>1, <1>3, <1>20 DEF DropRecord, RemoveRecord
<1>21. CASE DropDirectory(p)
    BY <1>1, <1>3, <1>21 DEF DropDirectory, RemoveDirectory
<1>22. CASE PutBackRecord(p)
    BY <1>1, <1>3, <1>22 DEF PutBackRecord, RestoreRecord
<1>23. CASE Crash(p)
    BY <1>23 DEF Crash
<1> QED
    BY <1>4, <1>5, <1>6, <1>7, <1>8, <1>9, <1>10, <1>11, <1>12, <1>13,
       <1>14, <1>15, <1>16, <1>17, <1>18, <1>19, <1>20, <1>21, <1>22, <1>23
    DEF Acquire, Release

\* tester.sh: without a kill, however many invocations contend for the lock and
\* however their recoveries race, nobody leaves an empty lock directory behind.
THEOREM NeverWedged == Spec => []NotWedgedAtRest
<1>1. Init => EmptyInv
    BY DEF Init, EmptyInv
<1>2. TypeOK /\ EmptyInv /\ [Next]_vars => EmptyInv'
    <2> SUFFICES ASSUME TypeOK, EmptyInv, [Next]_vars PROVE EmptyInv'
        OBVIOUS
    <2>1. CASE UNCHANGED vars
        BY <2>1 DEF vars, EmptyInv
    <2>2. CASE Next
        BY <2>2, NextEmptyInv DEF Next
    <2> QED
        BY <2>1, <2>2
<1>3. EmptyInv => NotWedgedAtRest
    BY DEF EmptyInv, Responsible, NotWedgedAtRest
<1> QED
    BY <1>1, <1>2, <1>3, TypeCorrect, PTL DEF Spec
=============================================================================
