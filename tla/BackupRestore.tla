--------------------------- MODULE BackupRestore ---------------------------
(***************************************************************************)
(* scripts/backup.sh and scripts/restore.sh on one host: the data directory  *)
(* of a Ferrite server, the archives that backups leave in BACKUP_DEST and   *)
(* in S3, and the copies of the data directory that restores set aside.      *)
(*                                                                          *)
(* A data directory holds a checkpoint and an append-only file; the version  *)
(* of a file is the number of the last write that it contains, Absent when   *)
(* there is no such file.  The scripts run under set -e: any command of      *)
(* theirs can fail, and they can be killed between any two.  One backup and  *)
(* one restore run at a time, at any moment of each other.                   *)
(***************************************************************************)
EXTENDS Naturals, SequencesExt

CONSTANTS
    Host,        \* hosts to consider: what is installed and configured
    Retention,   \* BACKUP_RETENTION
    MaxWrites, MaxRuns   \* bounds of the model: writes, and runs of the scripts

Options == [cli : BOOLEAN, ferrite : BOOLEAN, aws : BOOLEAN, s3 : BOOLEAN,
            skipStop : BOOLEAN, truncate : BOOLEAN]

ASSUME BackupRestoreAssumption ==
    /\ Host \subseteq Options
    /\ Retention \in Nat
    /\ MaxWrites \in Nat \ {0} /\ MaxRuns \in Nat

VARIABLES
    host,      \* the host of this behaviour
    data,      \* the data directory
    server,    \* is it up, is its open append-only file the one in the data
               \* directory, the last write it holds
    writes,    \* the number of the last write
    archives,  \* BACKUP_DEST, newest first
    remote,    \* the archives in S3
    aside,     \* the .pre-restore copies
    backup, restore  \* the two scripts

vars == <<host, data, server, writes, archives, remote, aside, backup, restore>>
world == <<host, remote, aside>>

File == {"checkpoint", "aof"}
Absent == 0
Version == 0 .. MaxWrites
Files == [File -> Version]
Empty == [f \in File |-> Absent]
Newest(files) == CHOOSE v \in {files[f] : f \in File} : \A f \in File : files[f] <= v

Archive == [id : 1 .. MaxRuns, gzip : BOOLEAN, whole : BOOLEAN, files : Files]
NoArchive == [id |-> 0, gzip |-> FALSE, whole |-> FALSE, files |-> Empty]

BackupIdle == [pc |-> "idle", runs |-> 0, gzip |-> FALSE, stage |-> Empty,
               code |-> 0, failed |-> FALSE]
RestoreIdle == [pc |-> "idle", runs |-> 0, local |-> TRUE, pitr |-> FALSE,
                archive |-> NoArchive, stage |-> Empty, code |-> 0, result |-> Empty]

Down == [up |-> FALSE, attached |-> FALSE, memory |-> Absent]

\* A server that starts loads what is in the data directory.
Started == [up |-> TRUE, attached |-> TRUE, memory |-> Newest(data)]

Init ==
    /\ host \in Host
    /\ data \in [File -> 0 .. 1]
    /\ server \in {Started, Down}
    /\ writes = 1
    /\ archives = <<>>
    /\ remote = {}
    /\ aside = {}
    /\ backup = BackupIdle
    /\ restore = RestoreIdle

-----------------------------------------------------------------------------
(* The server, which is external: it appends each write to the file it has   *)
(* open, and saves a checkpoint on its own or because of a BGSAVE.           *)

Write ==
    /\ server.up
    /\ writes < MaxWrites
    /\ writes' = writes + 1
    /\ server' = [server EXCEPT !.memory = writes + 1]
    /\ data' = IF server.attached THEN [data EXCEPT !["aof"] = writes + 1] ELSE data
    /\ UNCHANGED <<world, archives, backup, restore>>

SaveCheckpoint ==
    /\ server.up
    /\ data["checkpoint"] # server.memory
    /\ data' = [data EXCEPT !["checkpoint"] = server.memory]
    /\ UNCHANGED <<world, server, writes, archives, backup, restore>>

\* Nobody else starts or stops the server while a restore is running.
StartByHand ==
    /\ ~server.up
    /\ restore.pc = "idle"
    /\ server' = Started
    /\ UNCHANGED <<world, data, writes, archives, backup, restore>>

-----------------------------------------------------------------------------
(* backup.sh *)

BackupGoes(from, to) ==
    /\ backup.pc = from
    /\ backup' = [backup EXCEPT !.pc = to]
    /\ UNCHANGED <<host, data, server, writes, aside, restore>>

\* set -e, the error branches (no data directory, nothing to back up), or a
\* kill.  An archive that tar had begun stays where it is.
BackupFails ==
    /\ backup.pc \notin {"idle", "ended"}
    /\ backup' = [BackupIdle EXCEPT !.pc = "ended", !.runs = backup.runs,
                                    !.code = 1, !.failed = TRUE]
    /\ UNCHANGED <<world, data, server, writes, archives, restore>>

BackupBegin ==
    /\ backup.pc = "idle"
    /\ backup.runs + restore.runs < MaxRuns
    /\ \E gzip \in BOOLEAN :
           backup' = [BackupIdle EXCEPT !.pc = "bgsave", !.gzip = gzip, !.runs = backup.runs + 1]
    /\ UNCHANGED <<world, data, server, writes, archives, restore>>

\* BGSAVE and the wait for it, which gives up after MAX_WAIT polls and is
\* skipped without ferrite-cli or without a server: the server may save or not.
TriggerCheckpoint ==
    /\ BackupGoes("bgsave", "checkpoint")
    /\ UNCHANGED <<archives, remote>>

CopyToStage(file, from, to) ==
    /\ backup.pc = from
    /\ backup' = [backup EXCEPT !.pc = to, !.stage[file] = data[file]]
    /\ UNCHANGED <<world, data, server, writes, archives, restore>>

CopyCheckpoint == CopyToStage("checkpoint", "checkpoint", "aof")
CopyAof == CopyToStage("aof", "aof", "tar")

\* tar opens the archive: it is there, and is the newest, before it is whole.
BeginArchive ==
    /\ backup.stage # Empty
    /\ BackupGoes("tar", "write")
    /\ archives' = <<[id |-> backup.runs, gzip |-> backup.gzip,
                      whole |-> FALSE, files |-> backup.stage]>> \o archives
    /\ UNCHANGED remote

FinishArchive ==
    /\ backup.pc = "write"
    /\ backup' = [backup EXCEPT !.pc = "upload", !.stage = Empty]
    /\ archives' = [archives EXCEPT ![1].whole = TRUE]
    /\ UNCHANGED <<world, data, server, writes, restore>>

\* Without the aws CLI the backup goes on and will exit with 1.
Upload ==
    /\ backup.pc = "upload"
    /\ backup' = [backup EXCEPT !.pc = "list",
                                !.code = IF host.s3 /\ ~host.aws THEN 1 ELSE 0,
                                !.failed = host.s3 /\ ~host.aws]
    /\ remote' = IF host.s3 /\ host.aws THEN remote \union {archives[1]} ELSE remote
    /\ UNCHANGED <<host, data, server, writes, archives, aside, restore>>

\* ls -t of the two patterns: it exits with 2 when one of them matches no file,
\* and pipefail and set -e make that the exit code in place of EXIT_CODE, once
\* the loop at the end of the pipeline has removed what ls did list.
ListArchives ==
    /\ backup.pc = "list"
    /\ backup' =
           IF Retention = 0 THEN [backup EXCEPT !.pc = "ended"]
           ELSE [backup EXCEPT !.pc = "rotate",
                               !.code = IF {a.gzip : a \in ToSet(archives)} = BOOLEAN
                                        THEN backup.code ELSE 2]
    /\ UNCHANGED <<world, data, server, writes, archives, restore>>

\* Mutant: the newest archives are removed, the oldest kept.
RotateOne_Newest ==
    /\ Len(archives) > Retention
    /\ BackupGoes("rotate", "rotate")
    /\ archives' = Tail(archives)
    /\ UNCHANGED remote

\* tail -n +(N+1) | rm: the first archive beyond the retained ones, of whatever
\* format and whether whole or not.
RotateOne ==
    /\ Len(archives) > Retention
    /\ BackupGoes("rotate", "rotate")
    /\ archives' = RemoveAt(archives, Retention + 1)
    /\ UNCHANGED remote

RotationEnds ==
    /\ Len(archives) <= Retention
    /\ BackupGoes("rotate", "ended")
    /\ UNCHANGED <<archives, remote>>

BackupLeaves ==
    /\ backup.pc = "ended"
    /\ backup' = [BackupIdle EXCEPT !.runs = backup.runs]
    /\ UNCHANGED <<world, data, server, writes, archives, restore>>

-----------------------------------------------------------------------------
(* restore.sh.  In restore.result a restore that got to its end notes what   *)
(* was in the data directory for the server to load.                         *)

RestoreGoes(from, to) ==
    /\ restore.pc = from
    /\ restore' = [restore EXCEPT !.pc = to]
    /\ UNCHANGED <<host, writes, archives, remote, backup>>

\* set -e, an error branch, or a kill: the data directory stays as it is.
RestoreFails ==
    /\ restore.pc \notin {"idle", "ended"}
    /\ restore' = [RestoreIdle EXCEPT !.pc = "ended", !.runs = restore.runs, !.code = 1]
    /\ UNCHANGED <<world, data, server, writes, archives, backup>>

\* A local archive is used where it is; one from S3 is downloaded first.
\* RESTORE_S3_BUCKET and --pitr are chosen by the one who runs the script.
RestoreBegin ==
    /\ restore.pc = "idle"
    /\ backup.runs + restore.runs < MaxRuns
    /\ \E local \in BOOLEAN, pitr \in BOOLEAN :
       \E archive \in IF local THEN ToSet(archives) ELSE remote :
           /\ local \/ host.aws
           /\ restore' = [RestoreIdle EXCEPT !.pc = "verify", !.runs = restore.runs + 1,
                             !.local = local, !.pitr = pitr, !.archive = archive]
    /\ UNCHANGED <<world, data, server, writes, archives, backup>>

\* The archive as it is now: a backup may have finished or rotated it.
Sources == IF restore.local THEN {a \in ToSet(archives) : a.id = restore.archive.id}
           ELSE {restore.archive}

\* Mutant: every archive is taken for a good one.
Verify_Trusting ==
    /\ RestoreGoes("verify", "extract")
    /\ UNCHANGED <<data, server, aside>>

\* gzip -t refuses an archive that is cut off; a .tar is not looked at.
Verify ==
    /\ \E archive \in Sources : archive.gzip => archive.whole
    /\ RestoreGoes("verify", "extract")
    /\ UNCHANGED <<data, server, aside>>

\* tar fails on most archives that are cut off, and extracts the first members
\* of one that ends at the boundary of a member.
Extract ==
    /\ restore.pc = "extract"
    /\ \E archive \in Sources, found \in SUBSET File :
           /\ archive.whole => found = File
           /\ restore' = [restore EXCEPT !.pc = "stop", !.archive = archive,
                 !.stage = [f \in File |-> IF f \in found THEN archive.files[f] ELSE Absent]]
           /\ restore'.stage # Empty
    /\ UNCHANGED <<world, data, server, writes, archives, backup>>

\* SHUTDOWN NOSAVE, then a PING that must not be answered.  Without ferrite-cli,
\* or with RESTORE_SKIP_STOP, nothing is stopped and nothing is asked.
StopServer ==
    /\ RestoreGoes("stop", "aside")
    /\ server' = IF host.cli /\ ~host.skipStop
                 THEN Down ELSE server
    /\ UNCHANGED <<data, aside>>

\* Mutant: one safety copy is thought to be enough.
SafetyCopy_Once ==
    /\ RestoreGoes("aside", "clear")
    /\ aside' = IF data = Empty \/ aside # {} THEN aside ELSE {data}
    /\ UNCHANGED <<data, server>>

SafetyCopy ==
    /\ RestoreGoes("aside", "clear")
    /\ aside' = IF data = Empty THEN aside ELSE aside \union {data}
    /\ UNCHANGED <<data, server>>

\* rm of one file.  A server that is up goes on writing to the removed file.
ClearFile(file) ==
    /\ data[file] # Absent
    /\ RestoreGoes("clear", "clear")
    /\ data' = [data EXCEPT ![file] = Absent]
    /\ server' = [server EXCEPT !.attached = server.attached /\ file # "aof"]
    /\ UNCHANGED aside

\* Mutant: append-only files are not cleared.
ClearingEnds_AofLeft ==
    /\ data["checkpoint"] = Absent
    /\ RestoreGoes("clear", "checkpoint")
    /\ UNCHANGED <<data, server, aside>>

ClearingEnds ==
    /\ data = Empty
    /\ RestoreGoes("clear", "checkpoint")
    /\ UNCHANGED <<data, server, aside>>

\* cp of a staged file, if the archive has it.
RestoreFile(file, from, to) ==
    /\ RestoreGoes(from, to)
    /\ data' = IF restore.stage[file] = Absent THEN data
               ELSE [data EXCEPT ![file] = restore.stage[file]]
    /\ UNCHANGED <<server, aside>>

RestoreCheckpoint == RestoreFile("checkpoint", "checkpoint", "aof")
RestoreAof == RestoreFile("aof", "aof", "pitr")

\* ferrite-check-aof --truncate-at, skipped with a warning when it is missing.
Truncate ==
    /\ RestoreGoes("pitr", "start")
    /\ data' \in IF restore.pitr /\ host.truncate /\ restore.stage["aof"] # Absent
                 THEN {[data EXCEPT !["aof"] = v] : v \in 1 .. data["aof"]}
                 ELSE {data}
    /\ UNCHANGED <<server, aside>>

\* The server is started in the background, and waited for with ferrite-cli: if
\* it does not answer, or without ferrite-cli, the restore exits with 1.
StartServer ==
    /\ restore.pc = "start"
    /\ \E starts \in BOOLEAN :
           LET launched == ~host.skipStop /\ host.ferrite
               up == server.up \/ (launched /\ starts)
           IN /\ server' = IF up /\ ~server.up THEN Started ELSE server
              /\ restore' = [restore EXCEPT !.pc = "ended", !.result = data,
                                !.code = IF launched /\ ~(host.cli /\ up) THEN 1 ELSE 0]
    /\ UNCHANGED <<world, data, writes, archives, backup>>

RestoreLeaves ==
    /\ restore.pc = "ended"
    /\ restore' = [RestoreIdle EXCEPT !.runs = restore.runs]
    /\ UNCHANGED <<world, data, server, writes, archives, backup>>

-----------------------------------------------------------------------------
ServerStep == Write \/ SaveCheckpoint \/ StartByHand

BackupStep ==
    \/ BackupBegin \/ BackupFails \/ TriggerCheckpoint \/ CopyCheckpoint \/ CopyAof
    \/ BeginArchive \/ FinishArchive \/ Upload \/ ListArchives
    \/ RotateOne \/ RotationEnds \/ BackupLeaves

RestoreStep ==
    \/ RestoreBegin \/ RestoreFails \/ Verify \/ Extract \/ StopServer \/ SafetyCopy
    \/ \E file \in File : ClearFile(file)
    \/ ClearingEnds \/ RestoreCheckpoint \/ RestoreAof \/ Truncate \/ StartServer
    \/ RestoreLeaves

Next == ServerStep \/ BackupStep \/ RestoreStep

Spec == Init /\ [][Next]_vars

-----------------------------------------------------------------------------
(* Properties *)

\* The types of the state of both scripts, and what holds of it throughout:
\* BACKUP_DEST is ordered newest first, a backup that has got past tar
\* (backup.sh 136-144) has its own finished archive as the newest, and a server
\* that is down has no file open.
TypeOK ==
    /\ host \in Options
    /\ data \in Files
    /\ server \in [up : BOOLEAN, attached : BOOLEAN, memory : Version]
    /\ server.attached => server.up
    /\ writes \in Version
    /\ archives \in Seq(Archive)
    /\ \A i, j \in DOMAIN archives : i < j => archives[i].id > archives[j].id
    /\ remote \subseteq Archive
    /\ aside \subseteq Files
    /\ backup.pc \in {"idle", "bgsave", "checkpoint", "aof", "tar", "write", "upload",
                      "list", "rotate", "ended"}
    /\ backup.runs \in 0 .. MaxRuns /\ backup.stage \in Files /\ backup.code \in 0 .. 2
    /\ backup.pc \in {"upload", "list", "rotate"} => archives[1].whole
    /\ restore.pc \in {"idle", "verify", "extract", "stop", "aside", "clear", "checkpoint",
                       "aof", "pitr", "start", "ended"}
    /\ restore.runs \in 0 .. MaxRuns /\ restore.stage \in Files
    /\ restore.archive \in Archive \union {NoArchive} /\ restore.code \in 0 .. 1

\* What a restore takes from the data directory while the server is down is in
\* a .pre-restore copy or in the archive that is being restored.
RemovedFileSaved(file) ==
    (~server.up /\ data[file] # Absent /\ data'[file] # data[file])
        => \/ \E copy \in aside : copy[file] = data[file]
           \/ restore.archive.files[file] = data[file]

WholeArchives == {a.id : a \in {b \in ToSet(archives) : b.whole}}

\* As long as there was a whole archive there is one, and never an older one
\* than before.
NewestArchiveKept ==
    \A a \in WholeArchives : \E b \in WholeArchives' : a <= b

\* While the server is down, the data that a restore replaces is set aside before
\* (restore.sh 205-220), whatever failed in earlier restores and whatever backups
\* do meanwhile; and rotation (backup.sh 163-174), which counts unfinished archives
\* as well, leaves the newest whole archive.  No more is claimed: rotation removes
\* older whole archives, and what a server that is still up (a restore without
\* ferrite-cli) writes between the copy and the removal is lost.
DataNeverLost == [][(\A file \in File : RemovedFileSaved(file)) /\ NewestArchiveKept]_vars

Stopped == host.cli /\ ~host.skipStop

\* A restore that stopped the server and exits with 0 (restore.sh 292-301) has
\* restored what a finished archive held and nothing else: no file of the old
\* data survives beside it and none is missing when the copying is over.  A
\* point-in-time recovery may have shortened the append-only file.
\* For .tar archives this is not so: they pass the integrity check unread.
SuccessMeansRestored ==
    LET archive == restore.archive
        restored == restore.result
    IN (restore.pc = "ended" /\ restore.code = 0 /\ Stopped /\ archive.gzip) =>
           /\ archive.whole
           /\ restored["checkpoint"] = archive.files["checkpoint"]
           /\ \/ restored["aof"] = archive.files["aof"]
              \/ restore.pitr /\ restored["aof"] \in 1 .. archive.files["aof"]

\* backup.sh 176-177: a backup that got to its end without a failed step logs
\* its success and exits with EXIT_CODE, which is then 0.
CompletedBackupSucceeds ==
    (backup.pc = "ended" /\ ~backup.failed) => backup.code = 0
=============================================================================
