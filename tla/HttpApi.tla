------------------------------ MODULE HttpApi ------------------------------
(***************************************************************************)
(* The HTTP playground (http.rs): a listener that takes a connection       *)
(* permit before it accepts, a connection lifetime enforced by the I/O     *)
(* object that owns the permit, and the three handlers that use the shared *)
(* backend pool.  The server around them (axum, hyper) is external: it     *)
(* accepts in a loop, reads a request, runs its handler to completion or   *)
(* drops it, writes the response and keeps the connection or closes it.    *)
(*                                                                         *)
(* Stages of a connection:                                                 *)
(*   none       no connection            queued     in the kernel's backlog *)
(*   open       accepted, reading a request                                *)
(*   handling   a handler runs, no backend permit yet                      *)
(*   operating  a handler runs holding a backend permit                    *)
(*   responding the response is being written                              *)
(***************************************************************************)
EXTENDS BackendPool

CONSTANTS
    HttpClients,             \* peers of the HTTP port
    MAX_HTTP_CONNECTIONS,
    MaxKeyOperations         \* most commands keys::detail runs for one key

ASSUME HttpAssumption ==
    /\ IsFiniteSet(HttpClients)
    /\ MAX_HTTP_CONNECTIONS \in Nat \ {0}
    /\ MaxKeyOperations \in Nat \ {0}

VARIABLES
    listener,     \* "acquiring" a permit, "listening" with it, "stopped"
    draining,     \* the graceful-shutdown future has resolved
    httpFree,     \* permits left in the connection semaphore
    hstage,       \* where each connection stands
    status,       \* status class of the response being written
    ops           \* backend commands the running handler has still to run

httpOwn == <<listener, draining, httpFree, hstage, status, ops>>
httpVars == <<httpOwn, backendFree>>

HttpStages == {"none", "queued", "open", "handling", "operating",
               "responding"}
OpenStages == {"open", "handling", "operating", "responding"}

Statuses == {"ok", "rejected", "busy", "failed"}

HttpInit ==
    /\ BackendInit
    /\ listener = "acquiring"
    /\ draining = FALSE
    /\ httpFree = MAX_HTTP_CONNECTIONS
    /\ hstage = [h \in HttpClients |-> "none"]
    /\ status = [h \in HttpClients |-> "ok"]
    /\ ops = [h \in HttpClients |-> 0]

-----------------------------------------------------------------------------
(* LimitedListener and LimitedIo *)

HttpConnect(h) ==
    /\ hstage[h] = "none"
    /\ listener # "stopped"
    /\ hstage' = [hstage EXCEPT ![h] = "queued"]
    /\ UNCHANGED <<listener, draining, httpFree, status, ops, backendFree>>

\* accept waits for a permit before it touches the listener.
AcquireConnection ==
    /\ listener = "acquiring"
    /\ httpFree > 0
    /\ httpFree' = httpFree - 1
    /\ listener' = "listening"
    /\ UNCHANGED <<draining, hstage, status, ops, backendFree>>

\* The accepted connection takes over the listener's permit.
HttpAccept(h) ==
    /\ listener = "listening"
    /\ hstage[h] = "queued"
    /\ hstage' = [hstage EXCEPT ![h] = "open"]
    /\ listener' = "acquiring"
    /\ UNCHANGED <<draining, httpFree, status, ops, backendFree>>

BeginDrain ==
    /\ ~draining
    /\ draining' = TRUE
    /\ UNCHANGED <<listener, httpFree, hstage, status, ops, backendFree>>

\* The accept loop ends and drops the future of accept, with its permit.
StopListening ==
    /\ draining
    /\ listener # "stopped"
    /\ listener' = "stopped"
    /\ httpFree' = IF listener = "listening" THEN httpFree + 1 ELSE httpFree
    /\ hstage' = [h \in HttpClients |->
                    IF hstage[h] = "queued" THEN "none" ELSE hstage[h]]
    /\ UNCHANGED <<draining, status, ops, backendFree>>

\* LimitedIo is dropped, and its permit with it.
CloseHttp(h) ==
    /\ hstage' = [hstage EXCEPT ![h] = "none"]
    /\ httpFree' = httpFree + 1
    /\ ops' = [ops EXCEPT ![h] = 0]
    /\ UNCHANGED <<listener, draining, status>>

\* The peer left, a read or write ran into HTTP_CONNECTION_LIFETIME, the
\* request did not parse, or the server drains an idle connection.
ConnectionEnds(h) ==
    /\ hstage[h] \in OpenStages
    /\ CloseHttp(h)
    /\ IF hstage[h] = "operating" THEN DropBackend ELSE UNCHANGED backendFree

\* Mutant: the lifetime is only looked at when something is written.
LifetimeEnds_WritesOnly(h) == hstage[h] = "responding" /\ ConnectionEnds(h)

\* The lifetime timer fails the next read or write of the connection.
LifetimeEnds(h) == hstage[h] \in {"open", "responding"} /\ ConnectionEnds(h)

-----------------------------------------------------------------------------
(* The handlers: health, execute, key_detail *)

\* A request is routed to its handler.
ReadRequest(h) ==
    /\ hstage[h] = "open"
    /\ hstage' = [hstage EXCEPT ![h] = "handling"]
    /\ UNCHANGED <<listener, draining, httpFree, status, ops, backendFree>>

Respond(h, s) ==
    /\ hstage' = [hstage EXCEPT ![h] = "responding"]
    /\ status' = [status EXCEPT ![h] = s]
    /\ ops' = [ops EXCEPT ![h] = 0]
    /\ UNCHANGED <<listener, draining, httpFree>>

\* The index page, a command that does not parse, SELECT, a policy rejection
\* or an empty key: answered before the pool is asked.
RespondWithoutBackend(h) ==
    /\ hstage[h] = "handling"
    /\ Respond(h, "rejected")
    /\ UNCHANGED backendFree

RespondBusy(h) ==
    /\ hstage[h] = "handling"
    /\ BackendBusy
    /\ Respond(h, "busy")

\* One command for health and execute; TYPE first for key_detail.
StartOperation(h) ==
    /\ hstage[h] = "handling"
    /\ TryAcquireBackend
    /\ \E n \in 1..MaxKeyOperations : ops' = [ops EXCEPT ![h] = n]
    /\ hstage' = [hstage EXCEPT ![h] = "operating"]
    /\ UNCHANGED <<listener, draining, httpFree, status>>

\* One command of a key detail was answered and the next one follows.
NextOperation(h) ==
    /\ hstage[h] = "operating"
    /\ ops[h] > 1
    /\ ops' = [ops EXCEPT ![h] = @ - 1]
    /\ UNCHANGED <<listener, draining, httpFree, hstage, status, backendFree>>

\* The last command was answered: the handler returns and drops its permit.
OperationSucceeds(h) ==
    /\ hstage[h] = "operating"
    /\ ops[h] = 1
    /\ Respond(h, "ok")
    /\ DropBackend

\* Mutant: the commands are run without RESP_TIMEOUT.
OperationFails_NoDeadline(h) == FALSE

\* Mutant: the permit is forgotten on the error path.
OperationFails_ForgetsPermit(h) ==
    /\ hstage[h] = "operating"
    /\ Respond(h, "failed")
    /\ UNCHANGED backendFree

\* A command failed or ran into RESP_TIMEOUT: the rest is not run.
OperationFails(h) ==
    /\ hstage[h] = "operating"
    /\ Respond(h, "failed")
    /\ DropBackend

\* A draining server does not keep connections alive.
ResponseWritten(h) ==
    /\ hstage[h] = "responding"
    /\ ~draining
    /\ hstage' = [hstage EXCEPT ![h] = "open"]
    /\ UNCHANGED <<listener, draining, httpFree, status, ops, backendFree>>

-----------------------------------------------------------------------------
HandlerRuns(h) ==
    \/ RespondWithoutBackend(h)
    \/ RespondBusy(h)
    \/ StartOperation(h)
    \/ NextOperation(h)
    \/ OperationSucceeds(h)
    \/ OperationFails(h)

HttpNext ==
    \/ \E h \in HttpClients :
          \/ HttpConnect(h)
          \/ HttpAccept(h)
          \/ ConnectionEnds(h)
          \/ ReadRequest(h)
          \/ HandlerRuns(h)
          \/ ResponseWritten(h)
    \/ AcquireConnection
    \/ BeginDrain
    \/ StopListening

\* A handler runs, and every command it runs is under RESP_TIMEOUT.  Once the
\* lifetime is over every read and write fails, so a connection that reads or
\* writes again and again ends.  The accept loop and the kernel's backlog serve
\* waiting peers in order.  Nothing is assumed of Ferrite or of the peers.
HttpFairness ==
    /\ \A h \in HttpClients :
          /\ WF_httpVars(HandlerRuns(h) /\ hstage[h] = "handling")
          /\ WF_httpVars(OperationFails(h))
          /\ SF_httpVars(LifetimeEnds(h))
          /\ SF_httpVars(HttpAccept(h))
    /\ WF_httpVars(AcquireConnection)
    /\ WF_httpVars(StopListening)

HttpSpec == HttpInit /\ [][HttpNext]_httpVars
FairHttpSpec == HttpSpec /\ HttpFairness

-----------------------------------------------------------------------------
(* Properties *)

HttpTypeOK ==
    /\ listener \in {"acquiring", "listening", "stopped"}
    /\ draining \in BOOLEAN
    /\ httpFree \in Nat
    /\ backendFree \in Nat
    /\ hstage \in [HttpClients -> HttpStages]
    /\ status \in [HttpClients -> Statuses]
    /\ ops \in [HttpClients -> 0..MaxKeyOperations]

HttpConnectionHolders == {h \in HttpClients : hstage[h] \in OpenStages}
HttpBackendHolders == {h \in HttpClients : hstage[h] = "operating"}

\* A connection permit is with the listener or with an open connection, never
\* lost when a connection ends or the accept loop is cancelled.
HttpPermitsConserved ==
    httpFree + Cardinality(HttpConnectionHolders)
        + (IF listener = "listening" THEN 1 ELSE 0) = MAX_HTTP_CONNECTIONS

\* A handler that holds a permit ends, whatever Ferrite and the peer do.
HttpOperationEnds ==
    \A h \in HttpClients :
        (hstage[h] = "operating") ~> (hstage[h] # "operating")

\* A peer in the backlog is accepted or cut off, though the listener stops
\* accepting whenever all permits are out.
HttpBacklogServed ==
    \A h \in HttpClients : (hstage[h] = "queued") ~> (hstage[h] # "queued")

\* A draining server gets rid of its listener and of every connection.
HttpDrained ==
    draining ~> (listener = "stopped" /\ HttpConnectionHolders = {})
============================================================================
