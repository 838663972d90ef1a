----------------------------- MODULE Playground -----------------------------
(***************************************************************************)
(* The two entry points of the playground launcher side by side (main.rs): *)
(* the public RESP proxy and the HTTP API run as concurrent tasks and share *)
(* one pool of backend operations.                                         *)
(***************************************************************************)
EXTENDS PublicProxy, HttpApi

ASSUME EntryPointsDistinct == Clients \cap HttpClients = {}

playgroundVars == <<proxyOwn, httpOwn, backendFree>>

PlaygroundInit == ProxyInit /\ HttpInit

PlaygroundNext ==
    \/ ProxyNext /\ UNCHANGED httpOwn
    \/ HttpNext /\ UNCHANGED proxyOwn

PlaygroundSpec == PlaygroundInit /\ [][PlaygroundNext]_playgroundVars

-----------------------------------------------------------------------------
(* Properties *)

BackendHolders == ProxyBackendHolders \cup HttpBackendHolders

\* The permits out are exactly the handlers, of either entry point, that run a
\* backend operation: none leaks on an early return, a failed write, a dropped
\* handler or a state loss, and none is returned twice.
BackendPermitsConserved ==
    backendFree + Cardinality(BackendHolders) = MAX_BACKEND_OPERATIONS

\* No early return, failed write or dropped handler leaks a permit of any of the
\* launcher's three semaphores, or returns one twice.
PermitsConserved ==
    /\ ConnectionPermitsConserved
    /\ HttpPermitsConserved
    /\ BackendPermitsConserved

\* Three instances of what a permit pool promises.
BackendOperations == INSTANCE PermitPool WITH
    User <- Clients \cup HttpClients,
    Capacity <- MAX_BACKEND_OPERATIONS,
    holders <- BackendHolders

ProxyConnections == INSTANCE PermitPool WITH
    User <- Clients,
    Capacity <- MAX_CONNECTIONS,
    holders <- ConnectionHolders

HttpConnections == INSTANCE PermitPool WITH
    User <- HttpClients,
    Capacity <- MAX_HTTP_CONNECTIONS,
    holders <- HttpConnectionHolders

\* The launcher never has more than MAX_BACKEND_OPERATIONS commands with the
\* child at once, and each entry point takes its permits from the same pool.
BackendPoolImplemented == BackendOperations!PoolSpec

\* The proxy never serves more than MAX_CONNECTIONS clients.
ProxyConnectionsImplemented == ProxyConnections!PoolSpec

\* The HTTP server never has more than MAX_HTTP_CONNECTIONS connections.
HttpConnectionsImplemented == HttpConnections!PoolSpec

\* Each of the launcher's semaphores, with the tasks that hold its permits, is a
\* bounded pool.
PoolsImplemented ==
    /\ BackendPoolImplemented
    /\ ProxyConnectionsImplemented
    /\ HttpConnectionsImplemented
============================================================================
