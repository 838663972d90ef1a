------------------------ MODULE BackupRestoreProofs ------------------------
(***************************************************************************)
(* Proofs, for every host, every retention and any number of writes and     *)
(* runs, of what backup.sh and restore.sh promise together: the state of    *)
(* both scripts is well formed, a restore that exits with 0 has restored    *)
(* what a whole archive held, and neither script destroys the last copy of  *)
(* anything.                                                                *)
(***************************************************************************)
EXTENDS BackupRestore, TLAPS

-----------------------------------------------------------------------------
(* The inductive invariant *)

\* The states of the two scripts.
BackupStates ==
    [pc : {"idle", "bgsave", "checkpoint", "aof", "tar", "write", "upload", "list", "rotate",
           "ended"},
     runs : 0 .. MaxRuns, gzip : BOOLEAN, stage : Files, code : 0 .. 2, failed : BOOLEAN]

RestoreStates ==
    [pc : {"idle", "verify", "extract", "stop", "aside", "clear", "checkpoint", "aof", "pitr",
           "start", "ended"},
     runs : 0 .. MaxRuns, local : BOOLEAN, pitr : BOOLEAN,
     archive : Archive \union {NoArchive}, stage : Files, code : 0 .. 1, result : Files]

ScriptTypes == backup \in BackupStates /\ restore \in RestoreStates

\* An archive is of an earlier run than the one that has not begun its own yet.
Earlier(archive) ==
    /\ archive.id <= backup.runs
    /\ backup.pc \in {"bgsave", "checkpoint", "aof", "tar"} => archive.id < backup.runs

\* What a backup relies on: the archives, wherever they are, are of runs that
\* have begun them, its own is the first one of BACKUP_DEST, and a rotation
\* leaves that one alone.
BackupInv ==
    /\ backup.pc # "idle" => backup.runs >= 1
    /\ \A i \in DOMAIN archives : Earlier(archives[i])
    /\ \A archive \in remote : Earlier(archive)
    /\ Earlier(restore.archive)
    /\ backup.pc \in {"write", "upload", "list", "rotate"} => archives # <<>>
    /\ backup.pc = "rotate" => Retention > 0

\* While the archive is verified and extracted: a .tar.gz that gzip -t has
\* found whole stays so, and no other archive takes its place.
Verified ==
    restore.pc = "extract" => \A archive \in Sources : archive.gzip => archive.whole

\* What was extracted is what the archive holds.
Extracted ==
    restore.pc \in {"stop", "aside", "clear", "checkpoint", "aof", "pitr", "start"} =>
        /\ restore.archive.gzip =>
               restore.archive.whole /\ restore.stage = restore.archive.files
        /\ \A file \in File : restore.stage[file] # Absent =>
               restore.stage[file] = restore.archive.files[file]

\* A server that the restore has stopped stays down until the restore starts it.
StaysDown ==
    restore.pc \in {"aside", "clear", "checkpoint", "aof", "pitr", "start"} =>
        (Stopped => ~server.up)

\* What is in the data directory of a server that is down, at each point of the
\* replacement of its files.
Replaced ==
    ~server.up =>
        /\ restore.pc = "clear" => \A file \in File : data[file] # Absent =>
                                       \E copy \in aside : copy[file] = data[file]
        /\ restore.pc = "checkpoint" => data = Empty
        /\ restore.pc = "aof" => /\ data["checkpoint"] = restore.stage["checkpoint"]
                                 /\ data["aof"] = Absent
        /\ restore.pc = "pitr" => data = restore.stage
        /\ restore.pc = "start" =>
               /\ data["checkpoint"] = restore.stage["checkpoint"]
               /\ \/ data["aof"] = restore.stage["aof"]
                  \/ restore.pitr /\ data["aof"] \in 1 .. restore.stage["aof"]

IInv ==
    /\ TypeOK /\ ScriptTypes /\ BackupInv
    /\ Verified /\ Extracted /\ StaysDown /\ Replaced /\ SuccessMeansRestored

-----------------------------------------------------------------------------
(* Data directories and sequences of archives *)

\* A server that starts loads a version that one of its files has.
LEMMA NewestIsAVersion ==
    ASSUME NEW files \in Files
    PROVE  Newest(files) \in Version
<1>1. files["checkpoint"] \in Nat /\ files["aof"] \in Nat
    BY BackupRestoreAssumption DEF Files, File, Version
<1>2. PICK v \in {files[f] : f \in File} : \A f \in File : files[f] <= v
    BY <1>1 DEF File
<1>3. Newest(files) \in {files[f] : f \in File}
    BY <1>2 DEF Newest
<1> QED
    BY <1>3 DEF Files

\* A write, a checkpoint, a cp, a rm or a truncation changes one file of a data
\* directory.
LEMMA OneFileChanged ==
    ASSUME NEW files \in Files, NEW file \in File, NEW version \in Version
    PROVE  [files EXCEPT ![file] = version] \in Files
    BY DEF Files

\* An empty data directory, and the states in which no script runs.
LEMMA IdleTypes ==
    /\ Empty \in Files
    /\ \A f \in File : Empty[f] = Absent
    /\ 0 \in Version /\ 1 \in Version
    BY BackupRestoreAssumption DEF Empty, Files, Version, Absent

\* Init: no archive, no copy, and the first write in the data directory or not.
LEMMA InitHolds == Init => IInv
<1> SUFFICES ASSUME Init PROVE IInv
    OBVIOUS
<1> USE DEF Init
<1>1. data \in Files /\ host \in Options
    BY BackupRestoreAssumption DEF Files, Version
<1>2. server \in [up : BOOLEAN, attached : BOOLEAN, memory : Version]
    <2>1. Newest(data) \in Version
        BY <1>1, NewestIsAVersion
    <2>2. Started \in [up : BOOLEAN, attached : BOOLEAN, memory : Version]
        BY <2>1 DEF Started
    <2>3. Down \in [up : BOOLEAN, attached : BOOLEAN, memory : Version]
        BY IdleTypes DEF Down, Absent
    <2> QED
        BY <2>2, <2>3
<1>3. TypeOK
    BY <1>1, <1>2, IdleTypes, BackupRestoreAssumption
    DEF TypeOK, Started, Down, BackupIdle, RestoreIdle, NoArchive
<1>4. ScriptTypes
    BY IdleTypes, BackupRestoreAssumption
    DEF ScriptTypes, BackupStates, RestoreStates, BackupIdle, RestoreIdle
<1>5. BackupInv
    BY DEF BackupInv, BackupIdle, RestoreIdle, NoArchive, Earlier
<1>6. Verified /\ Extracted /\ StaysDown /\ Replaced /\ SuccessMeansRestored
    BY DEF Verified, Extracted, StaysDown, Replaced, SuccessMeansRestored, RestoreIdle
<1> QED
    BY <1>3, <1>4, <1>5, <1>6 DEF IInv

-----------------------------------------------------------------------------
(* Steps of the server *)

\* While a restore replaces the files of a server that is down, no step of the
\* server changes them; and no step of it is one of the scripts'.
LEMMA ServerKeeps == IInv /\ ServerStep => IInv'
<1> SUFFICES ASSUME IInv, ServerStep PROVE IInv'
    OBVIOUS
<1>1. TypeOK /\ ScriptTypes /\ BackupInv
    BY DEF IInv
<1>2. /\ UNCHANGED <<host, archives, remote, aside, backup, restore>>
      /\ data' \in Files /\ writes' \in Version
      /\ server' \in [up : BOOLEAN, attached : BOOLEAN, memory : Version]
      /\ server'.attached => server'.up
      /\ ~server.up => data' = data /\ restore.pc = "idle"
      /\ server.up => server'.up
    <2>1. CASE Write
        <3>1. writes + 1 \in Version
            BY <1>1, <2>1, BackupRestoreAssumption DEF TypeOK, Version, Write
        <3>2. [data EXCEPT !["aof"] = writes + 1] \in Files
            BY <1>1, <3>1, OneFileChanged DEF TypeOK, File
        <3> QED
            BY <1>1, <2>1, <3>1, <3>2 DEF TypeOK, Write, world
    <2>2. CASE SaveCheckpoint
        <3>1. [data EXCEPT !["checkpoint"] = server.memory] \in Files
            BY <1>1, OneFileChanged DEF TypeOK, File
        <3> QED
            BY <1>1, <2>2, <3>1 DEF TypeOK, SaveCheckpoint, world
    <2>3. CASE StartByHand
        <3>1. Newest(data) \in Version
            BY <1>1, NewestIsAVersion DEF TypeOK
        <3> QED
            BY <1>1, <2>3, <3>1 DEF TypeOK, StartByHand, Started, world
    <2> QED
        BY <2>1, <2>2, <2>3 DEF ServerStep
<1>3. TypeOK'
    BY <1>1, <1>2 DEF TypeOK
<1>4. ScriptTypes' /\ BackupInv'
    BY <1>1, <1>2 DEF ScriptTypes, BackupStates, RestoreStates, BackupInv, Earlier
<1>5. Verified' /\ Extracted'
    BY <1>2 DEF IInv, Verified, Extracted, Sources
<1>6. StaysDown'
    BY <1>2 DEF IInv, StaysDown, Stopped
<1>7. Replaced'
    BY <1>2 DEF IInv, Replaced
<1>8. SuccessMeansRestored'
    BY <1>2 DEF IInv, SuccessMeansRestored, Stopped
<1> QED
    BY <1>3, <1>4, <1>5, <1>6, <1>7, <1>8 DEF IInv

-----------------------------------------------------------------------------
(* Steps of backup.sh *)

\* What every step of a backup leaves alone.
LEMMA BackupFrame ==
    BackupStep => UNCHANGED <<host, data, server, writes, aside, restore>>
    BY 
    DEF BackupStep, BackupBegin, BackupFails, TriggerCheckpoint, CopyCheckpoint, CopyAof,
           CopyToStage, BeginArchive, FinishArchive, Upload, ListArchives, RotateOne,
           RotationEnds, BackupLeaves, BackupGoes, world

\* A backup that changes no archive: what it relies on is kept by every step
\* that goes on within its run, from one place of the script to the next.
LEMMA BackupGoesOn ==
    ASSUME IInv, BackupStep, UNCHANGED <<archives, remote>>,
           backup' \in BackupStates,
           backup'.pc # "idle" => backup'.runs >= 1,
           \/ backup'.runs > backup.runs
           \/ /\ backup'.runs = backup.runs
              /\ backup'.pc \in {"bgsave", "checkpoint", "aof", "tar"} =>
                     backup.pc \in {"bgsave", "checkpoint", "aof", "tar"},
           backup'.pc \in {"write", "upload", "list", "rotate"} =>
               backup.pc \in {"write", "upload", "list", "rotate"},
           backup'.pc \in {"upload", "list", "rotate"} =>
               backup.pc \in {"upload", "list", "rotate"},
           backup'.pc = "rotate" => Retention > 0
    PROVE  IInv'
<1>1. TypeOK /\ ScriptTypes /\ BackupInv
    BY DEF IInv
<1>2. UNCHANGED <<host, data, server, writes, archives, remote, aside, restore>>
    BY BackupFrame
<1>3. TypeOK'
    BY <1>1, <1>2 DEF TypeOK, BackupStates
<1>4. ScriptTypes'
    BY <1>1, <1>2 DEF ScriptTypes, BackupStates, RestoreStates
<1>5. ASSUME NEW archive \in Archive \union {NoArchive}, Earlier(archive)
      PROVE  Earlier(archive)'
    <2>1. archive.id \in Nat
        BY <1>5 DEF Archive, NoArchive
    <2> QED
        BY <1>1, <1>5, <2>1 DEF Earlier, ScriptTypes, BackupStates, RestoreStates
<1>6. BackupInv'
    <2>1. \A i \in DOMAIN archives : archives[i] \in Archive /\ Earlier(archives[i])
        BY <1>1 DEF TypeOK, BackupInv
    <2>2. \A i \in DOMAIN archives' : Earlier(archives[i])'
        BY <1>2, <1>5, <2>1 DEF Earlier
    <2>3. \A archive \in remote' : Earlier(archive)'
        BY <1>1, <1>2, <1>5 DEF TypeOK, BackupInv, Earlier
    <2>4. Earlier(restore.archive)'
        BY <1>1, <1>2, <1>5
        DEF ScriptTypes, BackupStates, RestoreStates, BackupInv, Earlier
    <2> QED
        BY <1>1, <1>2, <2>2, <2>3, <2>4 DEF BackupInv
<1>7. Verified' /\ Extracted' /\ StaysDown' /\ Replaced' /\ SuccessMeansRestored'
    BY <1>2 DEF IInv, Verified, Sources, Extracted, StaysDown, Replaced, Stopped,
                SuccessMeansRestored
<1> QED
    BY <1>3, <1>4, <1>6, <1>7 DEF IInv

\* The steps of a backup that change no archive.
LEMMA BackupKeepsScript ==
    ASSUME IInv,
           \/ BackupFails \/ BackupBegin \/ TriggerCheckpoint \/ CopyCheckpoint \/ CopyAof
           \/ ListArchives \/ RotationEnds \/ BackupLeaves
    PROVE  IInv'
<1>1. TypeOK /\ ScriptTypes /\ BackupInv /\ BackupStep
    BY DEF IInv, BackupStep
<1>2. Empty \in Files /\ backup.runs \in 0 .. MaxRuns /\ restore.runs \in 0 .. MaxRuns
    BY <1>1, IdleTypes DEF ScriptTypes, BackupStates, RestoreStates
<1>3. CASE BackupFails
    <2>1. /\ UNCHANGED <<archives, remote>>
          /\ backup' = [pc |-> "ended", runs |-> backup.runs, gzip |-> FALSE,
                        stage |-> Empty, code |-> 1, failed |-> TRUE]
          /\ backup.pc # "idle"
        BY <1>3 DEF BackupFails, BackupIdle, world
    <2> QED
        BY <1>1, <1>2, <2>1, BackupGoesOn DEF BackupInv, BackupStates
<1>4. CASE BackupBegin
    <2>1. PICK gzip \in BOOLEAN :
              backup' = [pc |-> "bgsave", runs |-> backup.runs + 1, gzip |-> gzip,
                         stage |-> Empty, code |-> 0, failed |-> FALSE]
        BY <1>4 DEF BackupBegin, BackupIdle
    <2>2. UNCHANGED <<archives, remote>> /\ backup.runs + 1 \in 0 .. MaxRuns
        <3>1. UNCHANGED <<archives, remote>> /\ backup.runs + restore.runs < MaxRuns
            BY <1>4 DEF BackupBegin, world
        <3> QED
            BY <1>2, <3>1, BackupRestoreAssumption
    <2> QED
        BY <1>1, <1>2, <2>1, <2>2, BackupGoesOn DEF BackupStates
<1>5. CASE TriggerCheckpoint
    <2>1. UNCHANGED <<archives, remote>> /\ backup' = [backup EXCEPT !.pc = "checkpoint"]
          /\ backup.pc = "bgsave"
        BY <1>5 DEF TriggerCheckpoint, BackupGoes
    <2> QED
        BY <1>1, <2>1, BackupGoesOn
        DEF ScriptTypes, BackupStates, RestoreStates, BackupInv
<1>6. ASSUME NEW file \in File, NEW from \in {"checkpoint", "aof"},
             NEW to \in {"aof", "tar"}, CopyToStage(file, from, to)
      PROVE  IInv'
    <2>1. [backup.stage EXCEPT ![file] = data[file]] \in Files
        BY <1>1, <1>6, OneFileChanged
        DEF TypeOK, ScriptTypes, BackupStates, RestoreStates, Files
    <2> DEFINE stage == [backup.stage EXCEPT ![file] = data[file]]
    <2>2. /\ UNCHANGED <<archives, remote>> /\ backup.pc = from
          /\ backup' = [backup EXCEPT !.pc = to, !.stage = stage]
        BY <1>6 DEF CopyToStage, world
    <2> HIDE DEF stage
    <2>3. stage \in Files
        BY <2>1 DEF stage
    <2> QED
        BY <1>1, <2>2, <2>3, BackupGoesOn
        DEF ScriptTypes, BackupStates, RestoreStates, BackupInv
<1>7. CASE CopyCheckpoint \/ CopyAof
    BY <1>6, <1>7 DEF CopyCheckpoint, CopyAof, File
<1>8. CASE ListArchives
    <2>1. UNCHANGED <<archives, remote>> /\ backup.pc = "list"
        BY <1>8 DEF ListArchives, world
    <2>2. CASE backup' = [backup EXCEPT !.pc = "ended"]
        BY <1>1, <2>1, <2>2, BackupGoesOn
        DEF ScriptTypes, BackupStates, RestoreStates, BackupInv
    <2>3. ASSUME NEW code \in 0 .. 2, Retention # 0,
                 backup' = [backup EXCEPT !.pc = "rotate", !.code = code]
          PROVE  IInv'
        <3>1. Retention > 0
            BY <2>3, BackupRestoreAssumption
        <3> QED
            BY <1>1, <2>1, <2>3, <3>1, BackupGoesOn
            DEF ScriptTypes, BackupStates, RestoreStates, BackupInv
    <2>4. backup.code \in 0 .. 2 /\ 2 \in 0 .. 2
        BY <1>1 DEF ScriptTypes, BackupStates, RestoreStates
    <2> QED
        BY <1>8, <2>2, <2>3, <2>4 DEF ListArchives
<1>9. CASE RotationEnds
    <2>1. UNCHANGED <<archives, remote>> /\ backup' = [backup EXCEPT !.pc = "ended"]
          /\ backup.pc = "rotate"
        BY <1>9 DEF RotationEnds, BackupGoes
    <2> QED
        BY <1>1, <2>1, BackupGoesOn
        DEF ScriptTypes, BackupStates, RestoreStates, BackupInv
<1>10. CASE BackupLeaves
    <2>1. /\ UNCHANGED <<archives, remote>>
          /\ backup' = [pc |-> "idle", runs |-> backup.runs, gzip |-> FALSE,
                        stage |-> Empty, code |-> 0, failed |-> FALSE]
        BY <1>10 DEF BackupLeaves, BackupIdle, world
    <2> QED
        BY <1>1, <1>2, <2>1, BackupGoesOn DEF BackupStates
<1> QED
    BY <1>3, <1>4, <1>5, <1>7, <1>8, <1>9, <1>10

\* BeginArchive: the archive that tar opens is of a run that no archive is of.
LEMMA BeginArchiveKeeps ==
    ASSUME IInv, BeginArchive
    PROVE  IInv'
<1>1. TypeOK /\ ScriptTypes /\ BackupInv
    BY DEF IInv
<1> DEFINE own == [id |-> backup.runs, gzip |-> backup.gzip, whole |-> FALSE,
                   files |-> backup.stage]
<1>2. /\ UNCHANGED <<host, data, server, writes, remote, aside, restore>>
      /\ backup.pc = "tar" /\ backup' = [backup EXCEPT !.pc = "write"]
      /\ archives' = <<own>> \o archives
    BY DEF BeginArchive, BackupGoes
<1>3. own \in Archive /\ own.id = backup.runs /\ ~own.whole
    <2>1. backup.runs \in 1 .. MaxRuns
        BY <1>1, <1>2, BackupRestoreAssumption
        DEF ScriptTypes, BackupStates, RestoreStates, BackupInv
    <2> QED
        BY <1>1, <2>1 DEF ScriptTypes, BackupStates, RestoreStates, Archive
<1> HIDE DEF own
<1>4. archives \in Seq(Archive)
    BY <1>1 DEF TypeOK
<1>5. /\ archives' \in Seq(Archive) /\ archives' # <<>>
      /\ DOMAIN archives' = 1 .. Len(archives) + 1
      /\ archives'[1] = own
      /\ \A i \in DOMAIN archives' : i # 1 =>
             i - 1 \in DOMAIN archives /\ archives'[i] = archives[i - 1]
    BY <1>2, <1>3, <1>4
<1>6. \A i \in DOMAIN archives :
          /\ archives[i] \in Archive /\ archives[i].id \in Nat
          /\ archives[i].id < backup.runs
    <2>1. \A i \in DOMAIN archives : archives[i] \in Archive
        BY <1>4
    <2>2. \A archive \in Archive : archive.id \in Nat
        BY BackupRestoreAssumption DEF Archive
    <2>3. \A i \in DOMAIN archives : archives[i].id < backup.runs
        BY <1>1, <1>2 DEF BackupInv, Earlier
    <2> QED
        BY <2>1, <2>2, <2>3
<1>7. \A i, j \in DOMAIN archives' : i < j => archives'[i].id > archives'[j].id
    <2> SUFFICES ASSUME NEW i \in DOMAIN archives', NEW j \in DOMAIN archives', i < j
                 PROVE  archives'[i].id > archives'[j].id
        OBVIOUS
    <2>1. archives'[j] = archives[j - 1] /\ j - 1 \in DOMAIN archives
        BY <1>5
    <2>2. CASE i = 1
        BY <1>1, <1>3, <1>5, <1>6, <2>1, <2>2 DEF ScriptTypes, BackupStates, RestoreStates
    <2>3. CASE i # 1
        <3>1. archives'[i] = archives[i - 1] /\ i - 1 \in DOMAIN archives /\ i - 1 < j - 1
            BY <1>5, <2>3
        <3> QED
            BY <1>1, <2>1, <3>1 DEF TypeOK
    <2> QED
        BY <2>2, <2>3
<1>8. TypeOK'
    BY <1>1, <1>2, <1>5, <1>7 DEF TypeOK, ScriptTypes, BackupStates, RestoreStates
<1>9. ScriptTypes'
    BY <1>1, <1>2 DEF ScriptTypes, BackupStates, RestoreStates
<1>10. BackupInv'
    <2>1. \A i \in DOMAIN archives' : Earlier(archives[i])'
        BY <1>1, <1>2, <1>3, <1>5, <1>6
        DEF Earlier, ScriptTypes, BackupStates, RestoreStates
    <2>2. \A archive \in remote' : Earlier(archive)'
        BY <1>1, <1>2 DEF BackupInv, Earlier, ScriptTypes, BackupStates, RestoreStates
    <2>3. Earlier(restore.archive)'
        BY <1>1, <1>2 DEF BackupInv, Earlier, ScriptTypes, BackupStates, RestoreStates
    <2> QED
        BY <1>1, <1>2, <1>5, <2>1, <2>2, <2>3
        DEF BackupInv, ScriptTypes, BackupStates, RestoreStates
<1>11. Verified'
    <2> SUFFICES ASSUME restore.pc = "extract", NEW archive \in Sources', archive.gzip
                 PROVE  archive.whole
        BY <1>2 DEF Verified
    <2>1. restore.archive.id < backup.runs
        BY <1>1, <1>2 DEF BackupInv, Earlier
    <2>2. archive \in Sources
        <3>1. CASE restore.local = FALSE
            BY <1>2, <3>1 DEF Sources
        <3>2. CASE restore.local = TRUE
            <4>1. PICK i \in DOMAIN archives' : archives'[i] = archive
                BY <1>2, <3>2 DEF Sources, ToSet
            <4>2. archive.id = restore.archive.id
                BY <1>2, <3>2 DEF Sources
            <4>3. i # 1
                BY <1>1, <1>3, <1>5, <2>1, <4>1, <4>2
                DEF ScriptTypes, BackupStates, RestoreStates
            <4>4. i - 1 \in DOMAIN archives /\ archives[i - 1] = archive
                BY <1>5, <4>1, <4>3
            <4> QED
                BY <3>2, <4>2, <4>4 DEF Sources, ToSet
        <3> QED
            BY <1>1, <3>1, <3>2 DEF ScriptTypes, BackupStates, RestoreStates
    <2> QED
        BY <2>2 DEF IInv, Verified
<1>12. Extracted' /\ StaysDown' /\ Replaced' /\ SuccessMeansRestored'
    BY <1>2 DEF IInv, Extracted, StaysDown, Replaced, Stopped, SuccessMeansRestored
<1> QED
    BY <1>8, <1>9, <1>10, <1>11, <1>12 DEF IInv

\* FinishArchive: the first archive, the one that tar was writing, gets whole.
LEMMA FinishArchiveKeeps ==
    ASSUME IInv, FinishArchive
    PROVE  IInv'
<1>1. TypeOK /\ ScriptTypes /\ BackupInv
    BY DEF IInv
<1>2. /\ UNCHANGED <<host, data, server, writes, remote, aside, restore>>
      /\ backup.pc = "write" /\ backup' = [backup EXCEPT !.pc = "upload", !.stage = Empty]
      /\ archives' = [archives EXCEPT ![1].whole = TRUE]
    BY DEF FinishArchive, world
<1>3. archives \in Seq(Archive) /\ archives # <<>> /\ archives[1] \in Archive
    BY <1>1, <1>2 DEF TypeOK, BackupInv
<1> DEFINE done == [archives[1] EXCEPT !.whole = TRUE]
<1>4. done \in Archive /\ done.id = archives[1].id /\ done.whole
    BY <1>3 DEF Archive
<1>5. /\ archives' \in Seq(Archive) /\ archives' # <<>>
      /\ DOMAIN archives' = DOMAIN archives /\ archives'[1] = done
      /\ \A i \in DOMAIN archives : i # 1 => archives'[i] = archives[i]
    <2>1. archives' = [archives EXCEPT ![1] = done]
        BY <1>2
    <2> HIDE DEF done
    <2>2. 1 \in DOMAIN archives
        BY <1>3
    <2>3. archives' \in Seq(Archive) /\ DOMAIN archives' = DOMAIN archives
        BY <1>3, <1>4, <2>1
    <2>4. archives'[1] = done
        BY <2>1, <2>2
    <2>5. \A i \in DOMAIN archives : i # 1 => archives'[i] = archives[i]
        BY <2>1
    <2> QED
        BY <2>2, <2>3, <2>4, <2>5
<1> HIDE DEF done
<1>6. \A i \in DOMAIN archives : archives'[i].id = archives[i].id
    BY <1>4, <1>5
<1>7. TypeOK'
    BY <1>1, <1>2, <1>4, <1>5, <1>6, IdleTypes DEF TypeOK
<1>8. ScriptTypes'
    BY <1>1, <1>2, IdleTypes DEF ScriptTypes, BackupStates, RestoreStates
<1>9. BackupInv'
    BY <1>1, <1>2, <1>5, <1>6
    DEF BackupInv, Earlier, ScriptTypes, BackupStates, RestoreStates
<1>10. Verified'
    <2> SUFFICES ASSUME restore.pc = "extract", NEW archive \in Sources', archive.gzip
                 PROVE  archive.whole
        BY <1>2 DEF Verified
    <2>1. archive \in Sources \/ archive = done
        BY <1>2, <1>5 DEF Sources, ToSet
    <2> QED
        BY <1>4, <2>1 DEF IInv, Verified
<1>11. Extracted' /\ StaysDown' /\ Replaced' /\ SuccessMeansRestored'
    BY <1>2 DEF IInv, Extracted, StaysDown, Replaced, Stopped, SuccessMeansRestored
<1> QED
    BY <1>7, <1>8, <1>9, <1>10, <1>11 DEF IInv

\* Upload: S3 has the archive that is the first one now.
LEMMA UploadKeeps ==
    ASSUME IInv, Upload
    PROVE  IInv'
<1>1. TypeOK /\ ScriptTypes /\ BackupInv
    BY DEF IInv
<1>2. /\ UNCHANGED <<host, data, server, writes, archives, aside, restore>>
      /\ backup.pc = "upload"
      /\ remote' \subseteq remote \union {archives[1]}
    BY DEF Upload
<1> DEFINE failed == host.s3 /\ ~host.aws
           code == IF failed THEN 1 ELSE 0
<1>3. failed \in BOOLEAN /\ code \in 0 .. 2
    OBVIOUS
<1>4. backup' = [backup EXCEPT !.pc = "list", !.code = code, !.failed = failed]
    BY DEF Upload
<1> HIDE DEF failed, code
<1>5. archives # <<>> /\ archives[1] \in Archive /\ 1 \in DOMAIN archives
    BY <1>1, <1>2 DEF TypeOK, BackupInv
<1>6. TypeOK'
    BY <1>1, <1>2, <1>3, <1>4, <1>5 DEF TypeOK, ScriptTypes, BackupStates, RestoreStates
<1>7. ScriptTypes'
    BY <1>1, <1>2, <1>3, <1>4 DEF ScriptTypes, BackupStates, RestoreStates
<1>8. BackupInv'
    <2>1. backup'.runs = backup.runs /\ backup'.pc = "list"
        BY <1>1, <1>4 DEF ScriptTypes, BackupStates, RestoreStates
    <2> QED
        BY <1>1, <1>2, <1>5, <2>1 DEF BackupInv, Earlier
<1>9. Verified' /\ Extracted' /\ StaysDown' /\ Replaced' /\ SuccessMeansRestored'
    BY <1>2 DEF IInv, Verified, Sources, Extracted, StaysDown, Replaced, Stopped,
                SuccessMeansRestored
<1> QED
    BY <1>6, <1>7, <1>8, <1>9 DEF IInv

\* RemoveAt, which stands for the rm of one archive: the others keep their
\* order, and those before it their places.
LEMMA Removed ==
    ASSUME NEW S, NEW s \in Seq(S), NEW place \in DOMAIN s
    PROVE  /\ RemoveAt(s, place) \in Seq(S)
           /\ DOMAIN RemoveAt(s, place) = 1 .. Len(s) - 1
           /\ \A i \in 1 .. Len(s) - 1 :
                  RemoveAt(s, place)[i] = IF i < place THEN s[i] ELSE s[i + 1]
<1> DEFINE before == SubSeq(s, 1, place - 1)
           after == SubSeq(s, place + 1, Len(s))
<1>1. place \in 1 .. Len(s) /\ Len(s) \in Nat
    OBVIOUS
<1>2. /\ before \in Seq(S) /\ Len(before) = place - 1
      /\ \A i \in 1 .. place - 1 : before[i] = s[i]
    BY <1>1
<1>3. /\ after \in Seq(S) /\ Len(after) = Len(s) - place
      /\ \A i \in 1 .. Len(s) - place : after[i] = s[place + i]
    BY <1>1
<1>4. RemoveAt(s, place) = before \o after
    BY DEF RemoveAt
<1> HIDE DEF before, after
<1>5. /\ before \o after \in Seq(S) /\ Len(before \o after) = Len(s) - 1
      /\ \A i \in 1 .. place - 1 : (before \o after)[i] = before[i]
      /\ \A i \in place .. Len(s) - 1 : (before \o after)[i] = after[i - place + 1]
    BY <1>1, <1>2, <1>3
<1>6. \A i \in place .. Len(s) - 1 : after[i - place + 1] = s[i + 1]
    BY <1>1, <1>3
<1> QED
    BY <1>1, <1>2, <1>4, <1>5, <1>6

\* RotateOne: an archive that is not the first one is removed.
LEMMA RotateOneKeeps ==
    ASSUME IInv, RotateOne
    PROVE  IInv'
<1>1. TypeOK /\ ScriptTypes /\ BackupInv
    BY DEF IInv
<1>2. /\ UNCHANGED <<host, data, server, writes, remote, aside, restore>>
      /\ backup.pc = "rotate" /\ Len(archives) > Retention
      /\ archives' = RemoveAt(archives, Retention + 1)
    BY DEF RotateOne, BackupGoes
<1>3. backup' = backup
    BY <1>1, <1>2 DEF RotateOne, BackupGoes, ScriptTypes, BackupStates, RestoreStates
<1>4. archives \in Seq(Archive) /\ Retention + 1 \in DOMAIN archives /\ Retention >= 1
    BY <1>1, <1>2, BackupRestoreAssumption DEF TypeOK, BackupInv
<1>5. /\ archives' \in Seq(Archive) /\ archives' # <<>>
      /\ DOMAIN archives' = 1 .. Len(archives) - 1
      /\ \A i \in DOMAIN archives' :
             archives'[i] = IF i < Retention + 1 THEN archives[i] ELSE archives[i + 1]
    <2>1. /\ archives' \in Seq(Archive) /\ DOMAIN archives' = 1 .. Len(archives) - 1
          /\ \A i \in DOMAIN archives' :
                 archives'[i] = IF i < Retention + 1 THEN archives[i] ELSE archives[i + 1]
        BY <1>2, <1>4, Removed
    <2>2. 1 \in DOMAIN archives'
        BY <1>2, <1>4, <2>1, BackupRestoreAssumption
    <2> QED
        BY <2>1, <2>2
<1>6. archives'[1] = archives[1]
    <2>1. 1 \in DOMAIN archives' /\ 1 < Retention + 1
        BY <1>2, <1>4, <1>5, BackupRestoreAssumption
    <2> QED
        BY <1>5, <2>1
\* The place that an archive had before.
<1> DEFINE was(i) == IF i < Retention + 1 THEN i ELSE i + 1
<1>7. \A i \in DOMAIN archives' : was(i) \in DOMAIN archives /\ archives'[i] = archives[was(i)]
    BY <1>4, <1>5
<1>8. \A i, j \in DOMAIN archives' : i < j => was(i) < was(j)
    BY <1>4, <1>5
<1> HIDE DEF was
<1>9. TypeOK'
    <2>1. \A i, j \in DOMAIN archives' : i < j => archives'[i].id > archives'[j].id
        BY <1>1, <1>7, <1>8 DEF TypeOK
    <2> QED
        BY <1>1, <1>2, <1>3, <1>5, <1>6, <2>1 DEF TypeOK
<1>10. ScriptTypes'
    BY <1>1, <1>2, <1>3 DEF ScriptTypes, BackupStates, RestoreStates
<1>11. BackupInv'
    BY <1>1, <1>2, <1>3, <1>5, <1>7 DEF BackupInv, Earlier
<1>12. Verified'
    <2>1. ToSet(archives') \subseteq ToSet(archives)
        BY <1>7 DEF ToSet
    <2>2. Sources' \subseteq Sources
        BY <1>2, <2>1 DEF Sources
    <2> QED
        BY <1>2, <2>2 DEF IInv, Verified
<1>13. Extracted' /\ StaysDown' /\ Replaced' /\ SuccessMeansRestored'
    BY <1>2 DEF IInv, Extracted, StaysDown, Replaced, Stopped, SuccessMeansRestored
<1> QED
    BY <1>9, <1>10, <1>11, <1>12, <1>13 DEF IInv

\* What restores rely on is kept whatever backups do meanwhile.
LEMMA BackupKeeps == IInv /\ BackupStep => IInv'
    BY BackupKeepsScript, BeginArchiveKeeps, FinishArchiveKeeps, UploadKeeps,
       RotateOneKeeps
    DEF BackupStep

-----------------------------------------------------------------------------
(* Steps of restore.sh *)

\* What a restore leaves alone, and what its steps may do to the server.
LEMMA RestoreFrame ==
    ASSUME TypeOK, RestoreStep
    PROVE  /\ UNCHANGED <<host, writes, archives, remote, backup>>
           /\ restore.pc \notin {"aside", "clear", "checkpoint", "aof", "pitr", "start"}
                  => UNCHANGED <<data, aside>>
<1> USE DEF RestoreGoes, world
<1>1. CASE RestoreBegin \/ RestoreFails \/ Extract \/ RestoreLeaves
    BY <1>1 DEF RestoreBegin, RestoreFails, Extract, RestoreLeaves
<1>2. CASE Verify \/ StopServer \/ SafetyCopy \/ ClearingEnds
    BY <1>2 DEF Verify, StopServer, SafetyCopy, ClearingEnds
<1>3. CASE (\E file \in File : ClearFile(file)) \/ RestoreCheckpoint \/ RestoreAof
    BY <1>3 DEF ClearFile, RestoreCheckpoint, RestoreAof, RestoreFile
<1>4. CASE Truncate \/ StartServer
    BY <1>4 DEF Truncate, StartServer
<1> QED
    BY <1>1, <1>2, <1>3, <1>4 DEF RestoreStep

\* A step of a restore keeps the types, if it leaves the state of the restore,
\* the data directory, the server and the copies well formed.
LEMMA RestoreTypes ==
    ASSUME IInv, UNCHANGED <<host, writes, archives, remote, backup>>,
           data' \in Files,
           server' \in [up : BOOLEAN, attached : BOOLEAN, memory : Version],
           server'.attached => server'.up,
           aside' \subseteq Files,
           restore' \in RestoreStates,
           restore'.archive \in {restore.archive, NoArchive}
               \/ restore'.archive \in remote \union ToSet(archives)
    PROVE  TypeOK' /\ ScriptTypes' /\ BackupInv'
<1>1. TypeOK /\ ScriptTypes /\ BackupInv
    BY DEF IInv
<1>2. TypeOK'
    BY <1>1 DEF TypeOK, RestoreStates
<1>3. ScriptTypes'
    BY <1>1 DEF ScriptTypes, BackupStates, RestoreStates
<1>4. Earlier(restore.archive)'
    <2>1. CASE restore'.archive = restore.archive
        BY <1>1, <2>1 DEF BackupInv, Earlier
    <2>2. CASE restore'.archive = NoArchive
        BY <1>1, <2>2
        DEF BackupInv, Earlier, NoArchive, ScriptTypes, BackupStates, RestoreStates
    <2>3. CASE restore'.archive \in remote
        BY <1>1, <2>3 DEF BackupInv, Earlier
    <2>4. CASE restore'.archive \in ToSet(archives)
        <3>1. PICK i \in DOMAIN archives : restore'.archive = archives[i]
            BY <2>4 DEF ToSet
        <3> QED
            BY <1>1, <3>1 DEF BackupInv, Earlier
    <2> QED
        BY <2>1, <2>2, <2>3, <2>4
<1>5. BackupInv'
    BY <1>1, <1>4 DEF BackupInv, Earlier
<1> QED
    BY <1>2, <1>3, <1>5

\* RestoreGoes: the script gets to its next step and keeps its variables.
LEMMA RestoreGoesFields ==
    ASSUME IInv, NEW from,
           NEW to \in {"extract", "aside", "clear", "checkpoint", "aof", "pitr", "start"},
           RestoreGoes(from, to)
    PROVE  /\ restore.pc = from /\ restore'.pc = to
           /\ restore'.local = restore.local /\ restore'.pitr = restore.pitr
           /\ restore'.archive = restore.archive /\ restore'.stage = restore.stage
           /\ restore' \in RestoreStates
           /\ UNCHANGED <<host, writes, archives, remote, backup>>
    BY DEF IInv, ScriptTypes, BackupStates, RestoreStates, RestoreGoes

\* A restore begins with an archive that is there, and ends without one.
LEMMA RestoreBoundsKeep ==
    ASSUME IInv, RestoreBegin \/ RestoreFails \/ RestoreLeaves
    PROVE  IInv'
<1>1. TypeOK /\ ScriptTypes /\ RestoreStep
    BY DEF IInv, RestoreStep
<1>2. UNCHANGED <<host, data, server, writes, archives, remote, aside, backup>>
    BY DEF RestoreBegin, RestoreFails, RestoreLeaves, world
<1>3. Empty \in Files /\ restore.runs \in 0 .. MaxRuns /\ NoArchive.id = 0
    BY <1>1, IdleTypes DEF ScriptTypes, BackupStates, RestoreStates, NoArchive
<1>4. CASE RestoreBegin
    <2>1. PICK local \in BOOLEAN, pitr \in BOOLEAN, archive \in remote \union ToSet(archives) :
              restore' = [pc |-> "verify", runs |-> restore.runs + 1, local |-> local,
                          pitr |-> pitr, archive |-> archive, stage |-> Empty, code |-> 0,
                          result |-> Empty]
        <3>1. PICK local \in BOOLEAN, pitr \in BOOLEAN :
                  \E archive \in IF local THEN ToSet(archives) ELSE remote :
                      restore' = [RestoreIdle EXCEPT !.pc = "verify", !.runs = restore.runs + 1,
                                     !.local = local, !.pitr = pitr, !.archive = archive]
            BY <1>4 DEF RestoreBegin
        <3>2. PICK archive \in remote \union ToSet(archives) :
                  restore' = [RestoreIdle EXCEPT !.pc = "verify", !.runs = restore.runs + 1,
                                 !.local = local, !.pitr = pitr, !.archive = archive]
            BY <3>1
        <3>3. restore' = [pc |-> "verify", runs |-> restore.runs + 1, local |-> local,
                          pitr |-> pitr, archive |-> archive, stage |-> Empty, code |-> 0,
                          result |-> Empty]
            BY <3>2 DEF RestoreIdle
        <3> QED
            BY <3>3
    <2>2. restore.runs + 1 \in 0 .. MaxRuns
        <3>1. backup.runs + restore.runs < MaxRuns /\ backup.runs \in 0 .. MaxRuns
            BY <1>1, <1>4 DEF RestoreBegin, ScriptTypes, BackupStates, RestoreStates
        <3> QED
            BY <1>3, <3>1, BackupRestoreAssumption
    <2>3. archive \in Archive
        BY <1>1 DEF TypeOK, ToSet
    <2>4. TypeOK' /\ ScriptTypes' /\ BackupInv'
        BY <1>1, <1>2, <1>3, <2>1, <2>2, <2>3, RestoreTypes DEF TypeOK, RestoreStates
    <2>5. Verified' /\ Extracted' /\ StaysDown' /\ Replaced' /\ SuccessMeansRestored'
        BY <2>1 DEF Verified, Extracted, StaysDown, Replaced, SuccessMeansRestored
    <2> QED
        BY <2>4, <2>5 DEF IInv
<1>5. ASSUME NEW pc \in {"idle", "ended"}, NEW code \in 0 .. 1, pc = "ended" => code = 1,
             restore' = [pc |-> pc, runs |-> restore.runs, local |-> TRUE, pitr |-> FALSE,
                         archive |-> NoArchive, stage |-> Empty, code |-> code,
                         result |-> Empty]
      PROVE  IInv'
    <2>1. TypeOK' /\ ScriptTypes' /\ BackupInv'
        BY <1>1, <1>2, <1>3, <1>5, RestoreTypes DEF TypeOK, RestoreStates
    <2>2. Verified' /\ Extracted' /\ StaysDown' /\ Replaced' /\ SuccessMeansRestored'
        BY <1>5 DEF Verified, Extracted, StaysDown, Replaced, SuccessMeansRestored
    <2> QED
        BY <2>1, <2>2 DEF IInv
<1>6. CASE RestoreFails
    <2>1. restore' = [pc |-> "ended", runs |-> restore.runs, local |-> TRUE, pitr |-> FALSE,
                      archive |-> NoArchive, stage |-> Empty, code |-> 1, result |-> Empty]
        BY <1>6 DEF RestoreFails, RestoreIdle
    <2> QED
        BY <1>5, <2>1
<1>7. CASE RestoreLeaves
    <2>1. restore' = [pc |-> "idle", runs |-> restore.runs, local |-> TRUE, pitr |-> FALSE,
                      archive |-> NoArchive, stage |-> Empty, code |-> 0, result |-> Empty]
        BY <1>7 DEF RestoreLeaves, RestoreIdle
    <2> QED
        BY <1>5, <2>1
<1> QED
    BY <1>4, <1>6, <1>7

\* Two archives of one run in BACKUP_DEST are the same archive.
LEMMA OneArchivePerRun ==
    ASSUME TypeOK, NEW a \in ToSet(archives), NEW b \in ToSet(archives), a.id = b.id
    PROVE  a = b
<1>1. PICK i \in DOMAIN archives, j \in DOMAIN archives : a = archives[i] /\ b = archives[j]
    BY DEF ToSet
<1>2. archives \in Seq(Archive) /\ i \in Nat /\ j \in Nat
    BY DEF TypeOK
<1>3. archives[i] \in Archive
    BY <1>2
<1>4. a.id \in Nat
    BY <1>1, <1>3, BackupRestoreAssumption DEF Archive
<1>5. ~(i < j) /\ ~(j < i)
    BY <1>1, <1>4 DEF TypeOK
<1> QED
    BY <1>1, <1>2, <1>5

\* gzip -t and tar: what is extracted from a .tar.gz is what the archive holds,
\* whatever a backup does between the two.
LEMMA VerifyKeeps ==
    ASSUME IInv, Verify
    PROVE  IInv'
<1>1. TypeOK /\ ScriptTypes
    BY DEF IInv
<1>2. RestoreGoes("verify", "extract") /\ UNCHANGED <<data, server, aside>>
    BY DEF Verify
<1>3. /\ restore'.pc = "extract" /\ restore'.local = restore.local
      /\ restore'.archive = restore.archive
      /\ TypeOK' /\ ScriptTypes' /\ BackupInv'
    BY <1>1, <1>2, RestoreGoesFields, RestoreTypes DEF TypeOK
<1>4. PICK archive \in Sources : archive.gzip => archive.whole
    BY DEF Verify
<1>5. \A other \in Sources : other = archive
    BY <1>1, OneArchivePerRun DEF Sources
<1>6. Sources' = Sources
    BY <1>2, <1>3 DEF Sources, RestoreGoes
<1>7. Verified'
    BY <1>4, <1>5, <1>6 DEF Verified
<1>8. Extracted' /\ StaysDown' /\ Replaced' /\ SuccessMeansRestored'
    BY <1>3 DEF Extracted, StaysDown, Replaced, SuccessMeansRestored
<1> QED
    BY <1>3, <1>7, <1>8 DEF IInv

\* tar, and the search for files in what it extracted: a whole archive is staged
\* as it is, and of another one nothing that it does not hold.
LEMMA ExtractKeeps ==
    ASSUME IInv, Extract
    PROVE  IInv'
<1>1. TypeOK /\ ScriptTypes /\ Verified
    BY DEF IInv
<1>2. /\ UNCHANGED <<host, data, server, writes, archives, remote, aside, backup>>
      /\ restore.pc = "extract"
    BY DEF Extract, world
<1>3. PICK archive \in Sources, found \in SUBSET File :
          /\ archive.whole => found = File
          /\ restore' = [restore EXCEPT !.pc = "stop", !.archive = archive,
                !.stage = [f \in File |-> IF f \in found THEN archive.files[f] ELSE Absent]]
    BY DEF Extract
<1> DEFINE stage == [f \in File |-> IF f \in found THEN archive.files[f] ELSE Absent]
<1>4. /\ archive \in Archive \union {NoArchive}
      /\ archive = restore.archive \/ archive \in remote \union ToSet(archives)
    BY <1>1 DEF Sources, TypeOK, ToSet
<1>5. archive.files \in Files
    BY <1>4, IdleTypes DEF Archive, NoArchive
<1>6. stage \in Files
    BY <1>5, IdleTypes DEF Files, Absent
<1>7. /\ archive.whole => stage = archive.files
      /\ \A f \in File : stage[f] # Absent => stage[f] = archive.files[f]
    BY <1>3, <1>5 DEF Files
<1>8. restore' = [restore EXCEPT !.pc = "stop", !.archive = archive, !.stage = stage]
    BY <1>3
<1> HIDE DEF stage
<1>9. restore'.pc = "stop" /\ restore'.archive = archive /\ restore'.stage = stage
    BY <1>1, <1>8 DEF ScriptTypes, BackupStates, RestoreStates
<1>10. restore' \in RestoreStates
    BY <1>1, <1>4, <1>6, <1>8 DEF ScriptTypes, BackupStates, RestoreStates
<1>11. TypeOK' /\ ScriptTypes' /\ BackupInv'
    BY <1>1, <1>2, <1>4, <1>9, <1>10, RestoreTypes DEF TypeOK
<1>12. Extracted'
    BY <1>1, <1>2, <1>3, <1>7, <1>9 DEF Extracted, Verified
<1>13. Verified' /\ StaysDown' /\ Replaced' /\ SuccessMeansRestored'
    BY <1>9 DEF Verified, StaysDown, Replaced, SuccessMeansRestored
<1> QED
    BY <1>11, <1>12, <1>13 DEF IInv

\* SHUTDOWN NOSAVE and the PING that must not be answered: a restore that asks
\* for them goes on only once the server is down.
LEMMA StopServerKeeps ==
    ASSUME IInv, StopServer
    PROVE  IInv'
<1>1. TypeOK /\ ScriptTypes /\ Extracted
    BY DEF IInv
<1>2. /\ RestoreGoes("stop", "aside") /\ UNCHANGED <<data, aside>>
      /\ server' = IF host.cli /\ ~host.skipStop THEN Down ELSE server
    BY DEF StopServer
<1>3. /\ restore.pc = "stop" /\ restore'.pc = "aside"
      /\ restore'.archive = restore.archive /\ restore'.stage = restore.stage
      /\ UNCHANGED <<host, writes, archives, remote, backup>>
    BY <1>2, RestoreGoesFields
<1>4. /\ server' \in [up : BOOLEAN, attached : BOOLEAN, memory : Version]
      /\ server'.attached => server'.up
      /\ Stopped => ~server'.up
    <2>1. Down \in [up : BOOLEAN, attached : BOOLEAN, memory : Version]
          /\ ~Down.attached /\ ~Down.up
        BY IdleTypes DEF Down, Absent
    <2> QED
        BY <1>1, <1>2, <2>1 DEF TypeOK, Stopped
<1>5. TypeOK' /\ ScriptTypes' /\ BackupInv'
    BY <1>1, <1>2, <1>3, <1>4, RestoreGoesFields, RestoreTypes DEF TypeOK
<1>6. Extracted'
    BY <1>1, <1>3 DEF Extracted
<1>7. StaysDown'
    BY <1>3, <1>4 DEF StaysDown, Stopped
<1>8. Verified' /\ Replaced' /\ SuccessMeansRestored'
    BY <1>3 DEF Verified, Replaced, SuccessMeansRestored
<1> QED
    BY <1>5, <1>6, <1>7, <1>8 DEF IInv

\* cp -r of the data directory: what rm is about to remove has a copy, made while
\* the server that owns it was already down.
LEMMA SafetyCopyKeeps ==
    ASSUME IInv, SafetyCopy
    PROVE  IInv'
<1>1. TypeOK /\ ScriptTypes /\ Extracted /\ StaysDown
    BY DEF IInv
<1>2. /\ RestoreGoes("aside", "clear") /\ UNCHANGED <<data, server>>
      /\ aside' = IF data = Empty THEN aside ELSE aside \union {data}
    BY DEF SafetyCopy
<1>3. /\ restore.pc = "aside" /\ restore'.pc = "clear"
      /\ restore'.archive = restore.archive /\ restore'.stage = restore.stage
      /\ UNCHANGED <<host, writes, archives, remote, backup>>
    BY <1>2, RestoreGoesFields
<1>4. aside' \subseteq Files
    BY <1>1, <1>2 DEF TypeOK
<1>5. TypeOK' /\ ScriptTypes' /\ BackupInv'
    BY <1>1, <1>2, <1>3, <1>4, RestoreGoesFields, RestoreTypes DEF TypeOK
<1>6. Extracted' /\ StaysDown'
    BY <1>1, <1>2, <1>3 DEF Extracted, StaysDown, Stopped
<1>7. \A file \in File : data[file] # Absent => \E copy \in aside' : copy[file] = data[file]
    BY <1>2, IdleTypes
<1>8. Replaced'
    BY <1>2, <1>3, <1>7 DEF Replaced
<1>9. Verified' /\ SuccessMeansRestored'
    BY <1>3 DEF Verified, SuccessMeansRestored
<1> QED
    BY <1>5, <1>6, <1>8, <1>9 DEF IInv

\* rm of one file: the others stay what was copied, and a server that is up and
\* loses its append-only file is not down for that.
LEMMA ClearFileKeeps ==
    ASSUME IInv, NEW file \in File, ClearFile(file)
    PROVE  IInv'
<1>1. TypeOK /\ ScriptTypes /\ Extracted /\ StaysDown /\ Replaced
    BY DEF IInv
<1> DEFINE attached == server.attached /\ file # "aof"
<1>2. /\ RestoreGoes("clear", "clear") /\ aside' = aside
      /\ data' = [data EXCEPT ![file] = Absent]
      /\ server' = [server EXCEPT !.attached = attached]
    BY DEF ClearFile
<1>3. attached \in BOOLEAN /\ (attached => server.up)
    BY <1>1 DEF TypeOK
<1> HIDE DEF attached
<1>4. /\ restore.pc = "clear" /\ restore'.pc = "clear"
      /\ restore'.archive = restore.archive /\ restore'.stage = restore.stage
      /\ UNCHANGED <<host, writes, archives, remote, backup>>
    BY <1>2, RestoreGoesFields
<1>5. /\ server' \in [up : BOOLEAN, attached : BOOLEAN, memory : Version]
      /\ server'.up = server.up /\ (server'.attached => server'.up)
    BY <1>1, <1>2, <1>3 DEF TypeOK
<1>6. data' \in Files
    BY <1>1, <1>2, IdleTypes, OneFileChanged DEF TypeOK, Absent
<1>7. TypeOK' /\ ScriptTypes' /\ BackupInv'
    BY <1>1, <1>2, <1>4, <1>5, <1>6, RestoreGoesFields, RestoreTypes DEF TypeOK
<1>8. Extracted' /\ StaysDown'
    BY <1>1, <1>4, <1>5 DEF Extracted, StaysDown, Stopped
<1>9. \A other \in File : data'[other] # Absent => data'[other] = data[other]
    BY <1>1, <1>2 DEF TypeOK, Files
<1>10. Replaced'
    BY <1>1, <1>2, <1>4, <1>5, <1>9 DEF Replaced
<1>11. Verified' /\ SuccessMeansRestored'
    BY <1>4 DEF Verified, SuccessMeansRestored
<1> QED
    BY <1>7, <1>8, <1>10, <1>11 DEF IInv

\* The data directory is empty when the first file is copied into it.
LEMMA ClearingEndsKeeps ==
    ASSUME IInv, ClearingEnds
    PROVE  IInv'
<1>1. TypeOK /\ ScriptTypes /\ Extracted /\ StaysDown
    BY DEF IInv
<1>2. /\ RestoreGoes("clear", "checkpoint") /\ UNCHANGED <<data, server, aside>>
      /\ data = Empty
    BY DEF ClearingEnds
<1>3. /\ restore.pc = "clear" /\ restore'.pc = "checkpoint"
      /\ restore'.archive = restore.archive /\ restore'.stage = restore.stage
      /\ UNCHANGED <<host, writes, archives, remote, backup>>
    BY <1>2, RestoreGoesFields
<1>4. TypeOK' /\ ScriptTypes' /\ BackupInv'
    BY <1>1, <1>2, <1>3, RestoreGoesFields, RestoreTypes DEF TypeOK
<1>5. Extracted' /\ StaysDown'
    BY <1>1, <1>2, <1>3 DEF Extracted, StaysDown, Stopped
<1>6. Replaced' /\ Verified' /\ SuccessMeansRestored'
    BY <1>2, <1>3 DEF Replaced, Verified, SuccessMeansRestored
<1> QED
    BY <1>4, <1>5, <1>6 DEF IInv

\* cp: one file of the data directory gets what is staged, if anything is.
LEMMA FileRestored ==
    ASSUME IInv, NEW file \in File, NEW from, NEW to \in {"aof", "pitr"},
           RestoreFile(file, from, to)
    PROVE  /\ data' \in Files
           /\ data[file] = Absent => data'[file] = restore.stage[file]
           /\ \A other \in File \ {file} : data'[other] = data[other]
<1>1. data \in Files /\ restore.stage \in Files
    BY DEF IInv, TypeOK
<1>2. restore.stage[file] \in Version
    BY <1>1 DEF Files
<1>3. data' = IF restore.stage[file] = Absent THEN data
              ELSE [data EXCEPT ![file] = restore.stage[file]]
    BY DEF RestoreFile
<1>4. CASE restore.stage[file] = Absent
    BY <1>1, <1>3, <1>4
<1>5. CASE restore.stage[file] # Absent
    BY <1>1, <1>2, <1>3, <1>5, OneFileChanged DEF Files
<1> QED
    BY <1>4, <1>5

\* cp of the checkpoint, then of the append-only file: at the end the data
\* directory is what was staged, a file that the archive lacks missing.
LEMMA RestoreFileKeeps ==
    ASSUME IInv, RestoreCheckpoint \/ RestoreAof
    PROVE  IInv'
<1>1. TypeOK /\ ScriptTypes /\ Extracted /\ StaysDown /\ Replaced
    BY DEF IInv
<1>2. PICK file \in File, from \in {"checkpoint", "aof"}, to \in {"aof", "pitr"} :
          /\ RestoreFile(file, from, to)
          /\ \/ file = "checkpoint" /\ from = "checkpoint" /\ to = "aof"
             \/ file = "aof" /\ from = "aof" /\ to = "pitr"
    BY DEF RestoreCheckpoint, RestoreAof, File
<1>3. /\ RestoreGoes(from, to) /\ UNCHANGED <<server, aside>>
    BY <1>2 DEF RestoreFile
<1>4. /\ restore.pc = from /\ restore'.pc = to
      /\ restore'.archive = restore.archive /\ restore'.stage = restore.stage
      /\ UNCHANGED <<host, writes, archives, remote, backup>>
    BY <1>3, RestoreGoesFields
<1>5. /\ data' \in Files
      /\ data[file] = Absent => data'[file] = restore.stage[file]
      /\ \A other \in File \ {file} : data'[other] = data[other]
    BY <1>2, FileRestored
<1>6. TypeOK' /\ ScriptTypes' /\ BackupInv'
    BY <1>1, <1>3, <1>4, <1>5, RestoreGoesFields, RestoreTypes DEF TypeOK
<1>7. Extracted' /\ StaysDown'
    BY <1>1, <1>2, <1>3, <1>4 DEF Extracted, StaysDown, Stopped
<1>8. Replaced'
    <2> SUFFICES ASSUME ~server.up PROVE Replaced'
        BY <1>3 DEF Replaced
    <2>1. CASE file = "checkpoint"
        <3>1. data = Empty
            BY <1>1, <1>2, <1>4, <2>1 DEF Replaced
        <3>2. data'["checkpoint"] = restore.stage["checkpoint"] /\ data'["aof"] = Absent
            BY <1>5, <2>1, <3>1, IdleTypes DEF File
        <3> QED
            BY <1>2, <1>4, <2>1, <3>2 DEF Replaced
    <2>2. CASE file = "aof"
        <3>1. data["checkpoint"] = restore.stage["checkpoint"] /\ data["aof"] = Absent
            BY <1>1, <1>2, <1>4, <2>2 DEF Replaced
        <3>2. \A f \in File : data'[f] = restore.stage[f]
            BY <1>5, <2>2, <3>1 DEF File
        <3>3. data' = restore.stage
            BY <1>1, <1>5, <3>2 DEF TypeOK, Files
        <3> QED
            BY <1>2, <1>4, <2>2, <3>3 DEF Replaced
    <2> QED
        BY <2>1, <2>2 DEF File
<1>9. Verified' /\ SuccessMeansRestored'
    BY <1>4 DEF Verified, SuccessMeansRestored
<1> QED
    BY <1>6, <1>7, <1>8, <1>9 DEF IInv

\* A point-in-time recovery shortens the append-only file that was restored.
LEMMA TruncateKeeps ==
    ASSUME IInv, Truncate
    PROVE  IInv'
<1>1. TypeOK /\ ScriptTypes /\ Extracted /\ StaysDown /\ Replaced
    BY DEF IInv
<1>2. RestoreGoes("pitr", "start") /\ UNCHANGED <<server, aside>>
    BY DEF Truncate
<1>3. /\ restore.pc = "pitr" /\ restore'.pc = "start" /\ restore'.pitr = restore.pitr
      /\ restore'.archive = restore.archive /\ restore'.stage = restore.stage
      /\ UNCHANGED <<host, writes, archives, remote, backup>>
    BY <1>2, RestoreGoesFields
<1>4. \/ data' = data
      \/ restore.pitr /\ \E v \in 1 .. data["aof"] : data' = [data EXCEPT !["aof"] = v]
    BY DEF Truncate
<1>5. /\ data' \in Files /\ data'["checkpoint"] = data["checkpoint"]
      /\ \/ data'["aof"] = data["aof"]
         \/ restore.pitr /\ data'["aof"] \in 1 .. data["aof"]
    <2>1. CASE data' = data
        BY <1>1, <2>1 DEF TypeOK
    <2>2. ASSUME NEW v \in 1 .. data["aof"], restore.pitr,
                 data' = [data EXCEPT !["aof"] = v]
          PROVE  /\ data' \in Files /\ data'["checkpoint"] = data["checkpoint"]
                 /\ data'["aof"] \in 1 .. data["aof"]
        <3>1. data["aof"] \in Version
            BY <1>1 DEF TypeOK, Files, File
        <3>2. v \in Version
            BY <3>1, BackupRestoreAssumption DEF Version
        <3>3. data' \in Files
            BY <1>1, <2>2, <3>2, OneFileChanged DEF TypeOK, File
        <3> QED
            BY <1>1, <2>2, <3>3 DEF TypeOK, Files, File
    <2> QED
        BY <1>4, <2>1, <2>2
<1>6. TypeOK' /\ ScriptTypes' /\ BackupInv'
    BY <1>1, <1>2, <1>3, <1>5, RestoreGoesFields, RestoreTypes DEF TypeOK
<1>7. Extracted' /\ StaysDown'
    BY <1>1, <1>2, <1>3 DEF Extracted, StaysDown, Stopped
<1>8. Replaced'
    BY <1>1, <1>2, <1>3, <1>5 DEF Replaced
<1>9. Verified' /\ SuccessMeansRestored'
    BY <1>3 DEF Verified, SuccessMeansRestored
<1> QED
    BY <1>6, <1>7, <1>8, <1>9 DEF IInv

\* The end of a restore notes what is in the data directory; that is all there
\* is to prove of one that has stopped the server.
LEMMA StartServerKeeps ==
    ASSUME IInv, StartServer
    PROVE  IInv'
<1>1. TypeOK /\ ScriptTypes /\ Extracted /\ StaysDown /\ Replaced
    BY DEF IInv
<1>2. UNCHANGED <<host, data, writes, archives, remote, aside, backup>> /\ restore.pc = "start"
    BY DEF StartServer, world
<1>3. PICK code :
          /\ code = 0 \/ code = 1
          /\ restore' = [restore EXCEPT !.pc = "ended", !.result = data, !.code = code]
    BY Zenon DEF StartServer
<1>4. server' = server \/ server' = Started
    BY DEF StartServer
<1>5. /\ server' \in [up : BOOLEAN, attached : BOOLEAN, memory : Version]
      /\ server'.attached => server'.up
    <2>1. Newest(data) \in Version
        BY <1>1, NewestIsAVersion DEF TypeOK
    <2>2. Started \in [up : BOOLEAN, attached : BOOLEAN, memory : Version] /\ Started.up
        BY <2>1 DEF Started
    <2> QED
        BY <1>1, <1>4, <2>2 DEF TypeOK
<1>6. /\ restore'.pc = "ended" /\ restore'.result = data /\ restore'.pitr = restore.pitr
      /\ restore'.archive = restore.archive
    BY <1>1, <1>3 DEF ScriptTypes, BackupStates, RestoreStates
<1>7. restore' \in RestoreStates
    <2>1. code \in 0 .. 1 /\ data \in Files
        BY <1>1, <1>3 DEF TypeOK
    <2> QED
        BY <1>1, <1>3, <2>1 DEF ScriptTypes, BackupStates, RestoreStates
<1>8. TypeOK' /\ ScriptTypes' /\ BackupInv'
    BY <1>1, <1>2, <1>5, <1>6, <1>7, RestoreTypes DEF TypeOK
<1>9. Verified' /\ Extracted' /\ StaysDown' /\ Replaced'
    BY <1>6 DEF Verified, Extracted, StaysDown, Replaced
<1>10. SuccessMeansRestored'
    <2> SUFFICES ASSUME Stopped, restore.archive.gzip
                 PROVE  /\ restore.archive.whole
                        /\ data["checkpoint"] = restore.archive.files["checkpoint"]
                        /\ \/ data["aof"] = restore.archive.files["aof"]
                           \/ restore.pitr
                              /\ data["aof"] \in 1 .. restore.archive.files["aof"]
        BY <1>2, <1>6 DEF SuccessMeansRestored, Stopped
    <2>1. restore.archive.whole /\ restore.stage = restore.archive.files
        BY <1>1, <1>2 DEF Extracted
    <2>2. ~server.up
        BY <1>1, <1>2 DEF StaysDown
    <2> QED
        BY <1>1, <1>2, <2>1, <2>2 DEF Replaced
<1> QED
    BY <1>8, <1>9, <1>10 DEF IInv

\* What backups rely on is kept whatever restores do meanwhile.
LEMMA RestoreKeeps == IInv /\ RestoreStep => IInv'
    BY RestoreBoundsKeep, VerifyKeeps, ExtractKeeps, StopServerKeeps, SafetyCopyKeeps,
       ClearFileKeeps, ClearingEndsKeeps, RestoreFileKeeps, TruncateKeeps, StartServerKeeps
    DEF RestoreStep

-----------------------------------------------------------------------------
(* The theorems *)

\* Every step of the server and of the two scripts keeps the invariant.
LEMMA NextHolds == IInv /\ [Next]_vars => IInv'
<1>1. ASSUME IInv, UNCHANGED vars PROVE IInv'
    BY <1>1
    DEF IInv, vars, TypeOK, ScriptTypes, BackupStates, RestoreStates, BackupInv, Earlier,
        Verified, Sources,
                Extracted, StaysDown, Stopped, Replaced, SuccessMeansRestored
<1> QED
    BY <1>1, ServerKeeps, BackupKeeps, RestoreKeeps DEF Next

\* The inductive invariant of the two scripts.
LEMMA InvHolds == Spec => []IInv
    BY InitHolds, NextHolds, PTL DEF Spec

\* backup.sh and restore.sh, in any interleaving and whatever fails, leave the
\* archives in order, a finished archive as the newest while the backup that made
\* it rotates, and no file open in a server that is down.
THEOREM TypeCorrect == Spec => []TypeOK
<1>1. IInv => TypeOK
    BY DEF IInv
<1> QED
    BY <1>1, InvHolds, PTL

\* restore.sh 292-301: a restore that stopped the server and exits with 0 has
\* restored from a .tar.gz just what a finished backup put into it.
THEOREM RestoreSucceeds == Spec => []SuccessMeansRestored
<1>1. IInv => SuccessMeansRestored
    BY DEF IInv
<1> QED
    BY <1>1, InvHolds, PTL

\* A file that a step of a restore takes from the data directory of a server
\* that is down is in a copy or in the archive: rm removes only what has been
\* copied, cp replaces nothing, and truncation shortens what the archive holds.
LEMMA RemovedSaved ==
    ASSUME IInv, RestoreStep, NEW file \in File
    PROVE  RemovedFileSaved(file)
<1>1. TypeOK /\ Extracted /\ Replaced
    BY DEF IInv
<1> SUFFICES ASSUME ~server.up, data[file] # Absent, data'[file] # data[file]
             PROVE  \/ \E copy \in aside : copy[file] = data[file]
                    \/ restore.archive.files[file] = data[file]
    BY DEF RemovedFileSaved
<1>2. CASE \E other \in File : ClearFile(other)
    BY <1>1, <1>2 DEF ClearFile, RestoreGoes, Replaced
<1>3. CASE RestoreCheckpoint
    <2>1. restore.pc = "checkpoint"
        BY <1>3 DEF RestoreCheckpoint, RestoreFile, RestoreGoes
    <2> QED
        BY <1>1, <2>1, IdleTypes DEF Replaced
<1>4. CASE RestoreAof
    <2>1. RestoreFile("aof", "aof", "pitr") /\ restore.pc = "aof" /\ "aof" \in File
        BY <1>4 DEF RestoreAof, RestoreFile, RestoreGoes, File
    <2>2. data["aof"] = Absent
        BY <1>1, <2>1 DEF Replaced
    <2>3. \A other \in File \ {"aof"} : data'[other] = data[other]
        BY <2>1, FileRestored
    <2> QED
        BY <2>2, <2>3
<1>5. CASE Truncate
    <2>1. restore.pc = "pitr"
        BY <1>5 DEF Truncate, RestoreGoes
    <2>2. data[file] = restore.stage[file]
        BY <1>1, <2>1 DEF Replaced
    <2> QED
        BY <1>1, <2>1, <2>2 DEF Extracted
<1>6. CASE \/ RestoreBegin \/ RestoreFails \/ Verify \/ Extract \/ StopServer
           \/ SafetyCopy \/ ClearingEnds \/ StartServer \/ RestoreLeaves
    BY <1>6 DEF RestoreBegin, RestoreFails, Verify, Extract, StopServer, SafetyCopy,
                ClearingEnds, StartServer, RestoreLeaves
<1> QED
    BY <1>2, <1>3, <1>4, <1>5, <1>6 DEF RestoreStep

\* As long as every whole archive stays, or one that is newer and whole does.
LEMMA KeptByPlace ==
    ASSUME IInv,
           \A i \in DOMAIN archives : archives[i].whole =>
               \E j \in DOMAIN archives' : archives'[j].whole /\ archives[i].id <= archives'[j].id
    PROVE  NewestArchiveKept
    BY DEF NewestArchiveKept, WholeArchives, ToSet

\* Rotation leaves the first archive, which is whole and the newest, and an
\* archive that is begun or finished leaves the others.
LEMMA NewestKept ==
    ASSUME IInv, BackupStep
    PROVE  NewestArchiveKept
<1>1. TypeOK /\ ScriptTypes /\ BackupInv
    BY DEF IInv
<1>2. archives \in Seq(Archive)
    BY <1>1 DEF TypeOK
<1>3. \A i \in DOMAIN archives : archives[i].id \in Nat
    <2>1. \A archive \in Archive : archive.id \in Nat
        BY BackupRestoreAssumption DEF Archive
    <2> QED
        BY <1>2, <2>1
<1>4. CASE archives' = archives
    BY <1>3, <1>4, KeptByPlace
<1>5. CASE BeginArchive
    <2> DEFINE own == [id |-> backup.runs, gzip |-> backup.gzip, whole |-> FALSE,
                       files |-> backup.stage]
    <2>1. archives' = <<own>> \o archives
        BY <1>5 DEF BeginArchive
    <2> HIDE DEF own
    <2>2. \A i \in DOMAIN archives : i + 1 \in DOMAIN archives' /\ archives'[i + 1] = archives[i]
        BY <1>2, <2>1
    <2> QED
        BY <1>3, <2>2, KeptByPlace
<1>6. CASE FinishArchive
    <2>1. archives' = [archives EXCEPT ![1].whole = TRUE] /\ 1 \in DOMAIN archives
        BY <1>1, <1>2, <1>6 DEF FinishArchive, BackupInv
    <2>2. \A i \in DOMAIN archives :
              /\ i \in DOMAIN archives' /\ archives'[i].id = archives[i].id
              /\ archives[i].whole => archives'[i].whole
        BY <1>2, <2>1 DEF Archive
    <2> QED
        BY <1>3, <2>2, KeptByPlace
<1>7. CASE RotateOne
    <2>1. /\ backup.pc = "rotate" /\ Len(archives) > Retention
          /\ archives' = RemoveAt(archives, Retention + 1)
        BY <1>7 DEF RotateOne, BackupGoes
    <2>2. Retention + 1 \in DOMAIN archives /\ Retention >= 1 /\ archives[1].whole
        BY <1>1, <1>2, <2>1, BackupRestoreAssumption DEF BackupInv, TypeOK
    <2>3. 1 \in DOMAIN archives' /\ archives'[1] = archives[1]
        <3>1. 1 \in 1 .. Len(archives) - 1 /\ 1 < Retention + 1
            BY <1>2, <2>1, <2>2, BackupRestoreAssumption
        <3> QED
            BY <1>2, <2>1, <2>2, <3>1, Removed
    <2>4. \A i \in DOMAIN archives : archives[i].id <= archives[1].id
        <3>1. 1 \in DOMAIN archives
            BY <1>2, <2>2, BackupRestoreAssumption
        <3>2. \A i \in DOMAIN archives : i = 1 \/ 1 < i
            BY <1>2
        <3> QED
            BY <1>1, <1>3, <3>1, <3>2 DEF TypeOK
    <2> QED
        BY <2>2, <2>3, <2>4, KeptByPlace
<1>8. BackupStep => archives' = archives \/ BeginArchive \/ FinishArchive \/ RotateOne
    BY 
    DEF BackupStep, BackupBegin, BackupFails, TriggerCheckpoint, CopyCheckpoint, CopyAof,
           CopyToStage, Upload, ListArchives, RotationEnds, BackupLeaves, BackupGoes
<1> QED
    BY <1>4, <1>5, <1>6, <1>7, <1>8

\* restore.sh 205-220 and backup.sh 163-174: while the server is down no step of
\* either script changes a file of the data directory that is in no copy and not
\* in the archive being restored; no step ever removes the newest whole archive.
THEOREM NothingLost == Spec => DataNeverLost
<1>1. ASSUME IInv, [Next]_vars
      PROVE  [(\A file \in File : RemovedFileSaved(file)) /\ NewestArchiveKept]_vars
    <2>1. \A i \in DOMAIN archives : archives[i].id <= archives[i].id
        <3>1. \A archive \in Archive : archive.id \in Nat
            BY BackupRestoreAssumption DEF Archive
        <3>2. archives \in Seq(Archive)
            BY <1>1 DEF IInv, TypeOK
        <3> QED
            BY <3>1, <3>2
    <2>2. archives' = archives => NewestArchiveKept
        BY <1>1, <2>1, KeptByPlace
    <2>3. CASE ServerStep
        <3>1. archives' = archives /\ (~server.up => data' = data)
            BY <2>3 DEF ServerStep, Write, SaveCheckpoint, StartByHand
        <3> QED
            BY <2>2, <3>1 DEF RemovedFileSaved
    <2>4. CASE BackupStep
        BY <1>1, <2>4, BackupFrame, NewestKept DEF RemovedFileSaved
    <2>5. CASE RestoreStep
        <3>1. TypeOK
            BY <1>1 DEF IInv
        <3> QED
            BY <1>1, <2>2, <2>5, <3>1, RestoreFrame, RemovedSaved
    <2> QED
        BY <1>1, <2>3, <2>4, <2>5 DEF Next
<1> QED
    BY <1>1, InvHolds, PTL DEF Spec, DataNeverLost
=============================================================================
