----------------------------- MODULE PermitPool -----------------------------
(***************************************************************************)
(* What a bounded pool of permits promises, whatever program uses it: the  *)
(* holders are a set of users, a user joins it only while fewer than       *)
(* Capacity users hold a permit, and every user that joined may leave.     *)
(* The proxy's connection limit, the HTTP connection limit and the shared  *)
(* backend-operation limit of the launcher are three instances of it.      *)
(***************************************************************************)
EXTENDS Naturals, FiniteSets

CONSTANTS User, Capacity

VARIABLE holders       \* the users that hold a permit

PoolInit == holders = {}

Take(u) ==
    /\ u \notin holders
    /\ Cardinality(holders) < Capacity
    /\ holders' = holders \cup {u}

GiveBack(u) ==
    /\ u \in holders
    /\ holders' = holders \ {u}

PoolNext == \E u \in User : Take(u) \/ GiveBack(u)

PoolSpec == PoolInit /\ [][PoolNext]_holders
============================================================================
