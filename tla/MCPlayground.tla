---------------------------- MODULE MCPlayground ----------------------------
(* Instances of Playground for TLC. *)
EXTENDS Playground, TLC

Symmetry == Permutations(Clients) \cup Permutations(HttpClients)

\* The proxy or the HTTP server has shut down, with no peer left.
ProxyGone ==
    /\ acceptor = "stopped"
    /\ shutdown = TRUE
    /\ connFree = MAX_CONNECTIONS
    /\ bytesFree = MAX_IN_FLIGHT_REQUEST_BYTES
    /\ stage = [c \in Clients |-> "away"]
    /\ req = [c \in Clients |-> NoRequest]
    /\ link = [c \in Clients |-> NoLink]
    /\ sent = [c \in Clients |-> 0]
    /\ answer = [c \in Clients |-> 0]
    /\ told = [c \in Clients |-> 0]

HttpGone ==
    /\ listener = "stopped"
    /\ draining = TRUE
    /\ httpFree = MAX_HTTP_CONNECTIONS
    /\ hstage = [h \in HttpClients |-> "none"]
    /\ status = [h \in HttpClients |-> "ok"]
    /\ ops = [h \in HttpClients |-> 0]

\* Bound: while the HTTP server is there, the proxy is not shut down and serves
\* two clients at a time, each of which sends one plain command of one empty
\* argument; without it, the proxy does all that the constants allow.
JointBound ==
    \/ HttpGone
    \/ /\ ~shutdown
       /\ Cardinality({c \in Clients : stage[c] # "away"}) <= 2
       /\ \A c \in Clients :
             /\ sent[c] <= 1
             /\ req[c].left <= 1
             /\ req[c].total = 0
             /\ req[c].kind = "plain"

JointSpec ==
    PlaygroundInit /\ [][PlaygroundNext /\ JointBound']_playgroundVars

\* Either entry point, while the other one is gone: liveness of both in one run
\* without the product of their states.
FairAloneSpec ==
    /\ (ProxyInit /\ HttpGone) \/ (ProxyGone /\ HttpInit)
    /\ [][PlaygroundNext]_playgroundVars
    /\ ProxyFairness
    /\ HttpFairness
============================================================================
