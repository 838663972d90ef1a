------------------------- MODULE MCCommandDeadlines -------------------------
(* Instances of CommandDeadlines for TLC. *)
EXTENDS CommandDeadlines
============================================================================
