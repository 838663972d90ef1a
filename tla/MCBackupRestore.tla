-------------------------- MODULE MCBackupRestore --------------------------
(* Hosts for the model checker: one with every tool, one without ferrite-cli, *)
(* a container, and one that cannot upload to the bucket it was given.        *)
EXTENDS BackupRestore

Complete == [cli |-> TRUE, ferrite |-> TRUE, aws |-> TRUE, s3 |-> TRUE,
             skipStop |-> FALSE, truncate |-> TRUE]

MCHost == {Complete,
           [Complete EXCEPT !.cli = FALSE, !.aws = FALSE],
           [Complete EXCEPT !.skipStop = TRUE, !.s3 = FALSE, !.truncate = FALSE],
           [Complete EXCEPT !.ferrite = FALSE, !.s3 = FALSE]}

MCLocalHost == {[Complete EXCEPT !.s3 = FALSE]}
=============================================================================
