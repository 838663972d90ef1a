---------------------------- MODULE BackendPool ----------------------------
(***************************************************************************)
(* The launcher's one semaphore of backend operations (main.rs), shared by *)
(* the public RESP proxy and by the HTTP API.  Both entry points only ever *)
(* try to take a permit (`try_acquire_owned`) and never wait for one; a    *)
(* permit returns to the pool when the value holding it is dropped.        *)
(***************************************************************************)
EXTENDS Integers, FiniteSets

CONSTANT MAX_BACKEND_OPERATIONS

ASSUME BackendPoolAssumption == MAX_BACKEND_OPERATIONS \in Nat \ {0}

VARIABLE backendFree   \* permits left in the semaphore

BackendInit == backendFree = MAX_BACKEND_OPERATIONS

\* Mutant: one permit too many is handed out.
TryAcquireBackend_OffByOne ==
    /\ backendFree + 1 > 0
    /\ backendFree' = backendFree - 1

\* A permit is taken on the spot.
TryAcquireBackend ==
    /\ backendFree > 0
    /\ backendFree' = backendFree - 1

\* The pool is exhausted: the caller answers "busy" at once.
BackendBusy ==
    /\ backendFree = 0
    /\ UNCHANGED backendFree

\* The permit's owner is dropped.
DropBackend == backendFree' = backendFree + 1
============================================================================
