---------------------------- MODULE PublicProxy ----------------------------
(***************************************************************************)
(* The public RESP proxy of the playground launcher (proxy.rs): an accept  *)
(* loop that limits the number of clients, and one handler task per client *)
(* that decodes a command under a shared byte budget, applies the policy,  *)
(* takes a permit of the shared backend pool, forwards the command over    *)
(* the client's own upstream connection and writes the reply back.         *)
(*                                                                         *)
(* Every await of the handler is a point where it can be overtaken, so     *)
(* every await is a stage:                                                 *)
(*   away      no TCP connection       backlog   connected, not accepted   *)
(*   refused   the accept loop itself writes "too many connections"        *)
(*   header    awaiting *<count>       argument  awaiting $<length>        *)
(*   payload   awaiting bulk bytes     decoded   a whole command is there  *)
(*   answer    writing a rejection that keeps the connection               *)
(*   connect   connecting upstream     exchange  request sent, reply due   *)
(*   reply     writing the backend's reply (or the state-loss error)       *)
(*   closing   writing a last error, then closing                          *)
(* Timers are not measured here: a deadline is an action that may fire at  *)
(* any time during the await it guards.                                    *)
(***************************************************************************)
EXTENDS BackendPool, Sequences

CONSTANTS
    Clients,                        \* peers of the public port
    Databases,                      \* databases a session can select
    MAX_CONNECTIONS,
    MAX_IN_FLIGHT_REQUEST_BYTES,    \* the shared byte budget
    MAX_ARGUMENTS,
    MAX_REQUEST_BULK,
    MAX_REQUEST_BYTES,
    ARGUMENT_SLOT_OVERHEAD_BYTES,
    MaxCommands                     \* bound: commands sent per connection

ASSUME ProxyAssumption ==
    /\ IsFiniteSet(Clients)
    /\ Databases \subseteq Nat
    /\ 0 \in Databases
    /\ MAX_CONNECTIONS \in Nat \ {0}
    /\ MAX_IN_FLIGHT_REQUEST_BYTES \in Nat
    /\ MAX_ARGUMENTS \in Nat
    /\ MAX_REQUEST_BULK \in Nat
    /\ MAX_REQUEST_BYTES \in Nat
    /\ ARGUMENT_SLOT_OVERHEAD_BYTES \in Nat
    /\ ARGUMENT_SLOT_OVERHEAD_BYTES >= 2      \* covers the CRLF of a bulk
    /\ MaxCommands \in Nat

VARIABLES
    acceptor,   \* the accept loop: "selecting", "refusing" or "stopped"
    shutdown,   \* the launcher has resolved the shutdown channel
    connFree,   \* permits left in the connection semaphore
    bytesFree,  \* permits left in the byte budget
    stage,      \* where each client's handler stands
    req,        \* the request a handler is reading or serving
    link,       \* the handler's upstream connection and the child's end of it
    sent,       \* commands the client has begun on this connection
    answer,     \* which command the reply being written answers, 0: an error
    told        \* the database the client has been told it uses

proxyOwn == <<acceptor, shutdown, connFree, bytesFree, stage, req, link,
              sent, answer, told>>
proxyVars == <<proxyOwn, backendFree>>

Stages == {"away", "backlog", "refused", "header", "argument", "payload",
           "decoded", "answer", "connect", "exchange", "reply", "closing"}

\* The spawned task owns a connection permit in all of these.
HandlerStages == Stages \ {"away", "backlog", "refused"}
ReadingStages == {"header", "argument", "payload"}
\* The handler owns a backend permit from try_acquire to the end of the write.
BackendStages == {"connect", "exchange", "reply"}

\* What the policy and the child tell apart: a command the policy refuses, one
\* that changes the connection's session (SELECT), any other allowed one.
Kinds == {"denied", "select", "plain"}

NoRequest == [left |-> 0, total |-> 0, reserved |-> 0, alloc |-> 0,
              kind |-> "plain"]
NoLink == [open |-> FALSE, pending |-> <<>>, unread |-> <<>>, db |-> 0]

ProxyInit ==
    /\ BackendInit
    /\ acceptor = "selecting"
    /\ shutdown = FALSE
    /\ connFree = MAX_CONNECTIONS
    /\ bytesFree = MAX_IN_FLIGHT_REQUEST_BYTES
    /\ stage = [c \in Clients |-> "away"]
    /\ req = [c \in Clients |-> NoRequest]
    /\ link = [c \in Clients |-> NoLink]
    /\ sent = [c \in Clients |-> 0]
    /\ answer = [c \in Clients |-> 0]
    /\ told = [c \in Clients |-> 0]

-----------------------------------------------------------------------------
(* The accept loop: serve *)

Connect(c) ==
    /\ stage[c] = "away"
    /\ acceptor # "stopped"
    /\ stage' = [stage EXCEPT ![c] = "backlog"]
    /\ UNCHANGED <<acceptor, shutdown, connFree, bytesFree, req, link, sent,
                   answer, told, backendFree>>

Accept(c) ==
    /\ acceptor = "selecting"
    /\ stage[c] = "backlog"
    /\ connFree > 0
    /\ connFree' = connFree - 1
    /\ stage' = [stage EXCEPT ![c] = "header"]
    /\ UNCHANGED <<acceptor, shutdown, bytesFree, req, link, sent, answer,
                   told, backendFree>>

\* At capacity the loop writes the error itself before it selects again.
Refuse(c) ==
    /\ acceptor = "selecting"
    /\ stage[c] = "backlog"
    /\ connFree = 0
    /\ acceptor' = "refusing"
    /\ stage' = [stage EXCEPT ![c] = "refused"]
    /\ UNCHANGED <<shutdown, connFree, bytesFree, req, link, sent, answer,
                   told, backendFree>>

\* Mutant: the loop waits for the refused peer to read, without a deadline.
RefusalEnds_NoDeadline(c) == FALSE

\* The refusal was written, failed, or ran into CLIENT_WRITE_TIMEOUT.
RefusalEnds(c) ==
    /\ acceptor = "refusing"
    /\ stage[c] = "refused"
    /\ acceptor' = "selecting"
    /\ stage' = [stage EXCEPT ![c] = "away"]
    /\ UNCHANGED <<shutdown, connFree, bytesFree, req, link, sent, answer,
                   told, backendFree>>

RequestShutdown ==
    /\ ~shutdown
    /\ shutdown' = TRUE
    /\ UNCHANGED <<acceptor, connFree, bytesFree, stage, req, link, sent,
                   answer, told, backendFree>>

\* serve returns: the listener is dropped, and its backlog with it; handlers
\* that were spawned go on.
StopAccepting ==
    /\ acceptor = "selecting"
    /\ shutdown
    /\ acceptor' = "stopped"
    /\ stage' = [c \in Clients |->
                    IF stage[c] = "backlog" THEN "away" ELSE stage[c]]
    /\ UNCHANGED <<shutdown, connFree, bytesFree, req, link, sent, answer,
                   told, backendFree>>

-----------------------------------------------------------------------------
(* The handler: handle_connection and read_request *)

\* Mutant: only the permits of the bulk lengths are kept in the vector.
DropRequest_PayloadOnly(c) ==
    /\ bytesFree' = bytesFree + req[c].total
    /\ req' = [req EXCEPT ![c] = NoRequest]

\* The permits in the reservation vector are dropped.
DropRequest(c) ==
    /\ bytesFree' = bytesFree + req[c].reserved
    /\ req' = [req EXCEPT ![c] = NoRequest]

\* handle_connection returns: upstream, reservation and permit are dropped.
CloseClient(c) ==
    /\ stage' = [stage EXCEPT ![c] = "away"]
    /\ connFree' = connFree + 1
    /\ DropRequest(c)
    /\ link' = [link EXCEPT ![c] = NoLink]
    /\ sent' = [sent EXCEPT ![c] = 0]
    /\ answer' = [answer EXCEPT ![c] = 0]
    /\ told' = [told EXCEPT ![c] = 0]
    /\ UNCHANGED <<acceptor, shutdown>>

\* read_request returns an error, or its timeout drops it: what it reserved
\* goes back before the last error is written.
FailRequest(c) ==
    /\ stage' = [stage EXCEPT ![c] = "closing"]
    /\ DropRequest(c)
    /\ UNCHANGED <<acceptor, shutdown, connFree, link, sent, answer, told,
                   backendFree>>

ClientEof(c) ==
    /\ stage[c] = "header"
    /\ CloseClient(c)
    /\ UNCHANGED backendFree

\* A malformed, oversized or truncated frame, CLIENT_READ_TIMEOUT around one
\* read, or CLIENT_IDLE_TIMEOUT around the whole of read_request.
ReadFails(c) ==
    /\ stage[c] \in ReadingStages
    /\ FailRequest(c)

\* *0 and *-1 are commands without arguments: the loop continues.
ReadEmptyCommand(c) ==
    /\ stage[c] = "header"
    /\ sent[c] < MaxCommands
    /\ sent' = [sent EXCEPT ![c] = @ + 1]
    /\ UNCHANGED <<acceptor, shutdown, connFree, bytesFree, stage, req, link,
                   answer, told, backendFree>>

ReadCommandHeader(c, count) ==
    LET need == count * ARGUMENT_SLOT_OVERHEAD_BYTES IN
    /\ stage[c] = "header"
    /\ sent[c] < MaxCommands
    /\ \/ /\ need > bytesFree
          /\ FailRequest(c)
       \/ /\ need <= bytesFree
          /\ bytesFree' = bytesFree - need
          /\ req' = [req EXCEPT ![c].left = count, ![c].reserved = need]
          /\ sent' = [sent EXCEPT ![c] = @ + 1]
          /\ stage' = [stage EXCEPT ![c] = "argument"]
          /\ UNCHANGED <<acceptor, shutdown, connFree, link, answer, told,
                         backendFree>>

\* Mutant: the buffer is allocated without charging its declared length.
ReadArgumentHeader_Uncharged(c, length) ==
    /\ stage[c] = "argument"
    /\ req[c].total + length <= MAX_REQUEST_BYTES
    /\ req' = [req EXCEPT ![c].total = @ + length,
                          ![c].alloc = @ + length + 2]
    /\ stage' = [stage EXCEPT ![c] = "payload"]
    /\ UNCHANGED <<acceptor, shutdown, connFree, bytesFree, link, sent, answer,
                   told, backendFree>>

\* The declared length is charged before its buffer (length + CRLF) exists.
ReadArgumentHeader(c, length) ==
    LET total == req[c].total + length IN
    /\ stage[c] = "argument"
    /\ \/ /\ \/ total > MAX_REQUEST_BYTES
             \/ length > bytesFree
          /\ FailRequest(c)
       \/ /\ total <= MAX_REQUEST_BYTES
          /\ length <= bytesFree
          /\ bytesFree' = bytesFree - length
          /\ req' = [req EXCEPT ![c].total = total,
                                ![c].reserved = @ + length,
                                ![c].alloc = @ + length + 2]
          /\ stage' = [stage EXCEPT ![c] = "payload"]
          /\ UNCHANGED <<acceptor, shutdown, connFree, link, sent, answer,
                         told, backendFree>>

\* Mutant: the argument loop runs once too often.
ReadPayload_OneMore(c, kind) ==
    /\ stage[c] = "payload"
    /\ req' = [req EXCEPT ![c].left = @ - 1, ![c].kind = kind]
    /\ stage' = [stage EXCEPT ![c] = IF req[c].left = 0 THEN "decoded"
                                                        ELSE "argument"]
    /\ UNCHANGED <<acceptor, shutdown, connFree, bytesFree, link, sent, answer,
                   told, backendFree>>

ReadPayload(c, kind) ==
    /\ stage[c] = "payload"
    /\ req' = [req EXCEPT ![c].left = @ - 1, ![c].kind = kind]
    /\ stage' = [stage EXCEPT ![c] = IF req[c].left = 1 THEN "decoded"
                                                        ELSE "argument"]
    /\ UNCHANGED <<acceptor, shutdown, connFree, bytesFree, link, sent, answer,
                   told, backendFree>>

RejectByPolicy(c) ==
    /\ stage[c] = "decoded"
    /\ req[c].kind = "denied"
    /\ stage' = [stage EXCEPT ![c] = "answer"]
    /\ UNCHANGED <<acceptor, shutdown, connFree, bytesFree, req, link, sent,
                   answer, told, backendFree>>

RejectBusy(c) ==
    /\ stage[c] = "decoded"
    /\ req[c].kind # "denied"
    /\ BackendBusy
    /\ stage' = [stage EXCEPT ![c] = "answer"]
    /\ UNCHANGED <<acceptor, shutdown, connFree, bytesFree, req, link, sent,
                   answer, told>>

\* Mutant: the reservation is declared outside the loop and outlives a
\* rejected command.
AnswerWritten_KeepsReservation(c) ==
    /\ stage[c] = "answer"
    /\ stage' = [stage EXCEPT ![c] = "header"]
    /\ UNCHANGED <<acceptor, shutdown, connFree, bytesFree, req, link, sent,
                   answer, told, backendFree>>

\* The rejection is out: the iteration ends and drops its reservation.
AnswerWritten(c) ==
    /\ stage[c] = "answer"
    /\ stage' = [stage EXCEPT ![c] = "header"]
    /\ DropRequest(c)
    /\ UNCHANGED <<acceptor, shutdown, connFree, link, sent, answer, told,
                   backendFree>>

AnswerFails(c) ==
    /\ stage[c] = "answer"
    /\ CloseClient(c)
    /\ UNCHANGED backendFree

\* forward encodes the arguments once more (EncodedCopy) and puts the request
\* on the upstream connection of this client.
Send(c) ==
    link' = [link EXCEPT
        ![c].open = TRUE,
        ![c].pending = Append(@, [id |-> sent[c], kind |-> req[c].kind])]

Dispatch(c) ==
    /\ stage[c] = "decoded"
    /\ req[c].kind # "denied"
    /\ TryAcquireBackend
    /\ \/ /\ ~link[c].open
          /\ stage' = [stage EXCEPT ![c] = "connect"]
          /\ UNCHANGED link
       \/ /\ link[c].open
          /\ stage' = [stage EXCEPT ![c] = "exchange"]
          /\ Send(c)
    /\ UNCHANGED <<acceptor, shutdown, connFree, bytesFree, req, sent, answer,
                   told>>

UpstreamConnected(c) ==
    /\ stage[c] = "connect"
    /\ stage' = [stage EXCEPT ![c] = "exchange"]
    /\ Send(c)
    /\ UNCHANGED <<acceptor, shutdown, connFree, bytesFree, req, sent, answer,
                   told, backendFree>>

\* Connect error or timeout, I/O error, RESP_TIMEOUT, a reply that does not
\* parse, is over its budget or cannot be re-encoded within the limit.
UpstreamFails(c) ==
    /\ stage[c] \in {"connect", "exchange"}
    /\ stage' = [stage EXCEPT ![c] = "reply"]
    /\ answer' = [answer EXCEPT ![c] = 0]
    /\ UNCHANGED <<acceptor, shutdown, connFree, bytesFree, req, link, sent,
                   told, backendFree>>

ReplyRead(c) ==
    /\ stage[c] = "exchange"
    /\ link[c].unread # <<>>
    /\ answer' = [answer EXCEPT ![c] = Head(link[c].unread)]
    /\ link' = [link EXCEPT ![c].unread = Tail(@)]
    /\ stage' = [stage EXCEPT ![c] = "reply"]
    /\ UNCHANGED <<acceptor, shutdown, connFree, bytesFree, req, sent, told,
                   backendFree>>

\* Mutant: after a state loss the client goes on over the same upstream.
ReplyWritten_KeepsUpstream(c) ==
    /\ stage[c] = "reply"
    /\ DropBackend
    /\ stage' = [stage EXCEPT ![c] = "header"]
    /\ DropRequest(c)
    /\ told' = [told EXCEPT ![c] = IF answer[c] = 0 THEN @ ELSE link[c].db]
    /\ UNCHANGED <<acceptor, shutdown, connFree, link, sent, answer>>

\* Mutant: after a state loss the client goes on and a new upstream replaces
\* the lost one.
ReplyWritten_Reconnects(c) ==
    /\ stage[c] = "reply"
    /\ DropBackend
    /\ stage' = [stage EXCEPT ![c] = "header"]
    /\ DropRequest(c)
    /\ IF answer[c] = 0
       THEN link' = [link EXCEPT ![c] = NoLink] /\ UNCHANGED told
       ELSE told' = [told EXCEPT ![c] = link[c].db] /\ UNCHANGED link
    /\ UNCHANGED <<acceptor, shutdown, connFree, sent, answer>>

\* The write ended: the permit is dropped; a state-loss error closes the
\* client, a reply ends the iteration.
ReplyWritten(c) ==
    /\ stage[c] = "reply"
    /\ DropBackend
    /\ \/ /\ answer[c] = 0
          /\ CloseClient(c)
       \/ /\ answer[c] # 0
          /\ stage' = [stage EXCEPT ![c] = "header"]
          /\ DropRequest(c)
          /\ told' = [told EXCEPT ![c] = link[c].db]
          /\ UNCHANGED <<acceptor, shutdown, connFree, link, sent, answer>>

\* Mutant: a reply is written without a deadline.
ReplyWriteFails_NoDeadline(c) == FALSE

ReplyWriteFails(c) ==
    /\ stage[c] = "reply"
    /\ DropBackend
    /\ CloseClient(c)

ClosingEnds(c) ==
    /\ stage[c] = "closing"
    /\ CloseClient(c)
    /\ UNCHANGED backendFree

-----------------------------------------------------------------------------
(* The Ferrite child's end of the upstream connection *)

\* The child runs the oldest command it has received on this connection.
ChildExecutes(c) ==
    /\ link[c].pending # <<>>
    /\ \E d \in Databases :
          /\ Head(link[c].pending).kind # "select" => d = link[c].db
          /\ link' = [link EXCEPT
                ![c].pending = Tail(@),
                ![c].unread = Append(@, Head(link[c].pending).id),
                ![c].db = d]
    /\ UNCHANGED <<acceptor, shutdown, connFree, bytesFree, stage, req, sent,
                   answer, told, backendFree>>

-----------------------------------------------------------------------------
TakeFromBacklog(c) == Accept(c) \/ Refuse(c)

HandlerStep(c) ==
    \/ ClientEof(c)
    \/ ReadFails(c)
    \/ ReadEmptyCommand(c)
    \/ \E count \in 1..MAX_ARGUMENTS : ReadCommandHeader(c, count)
    \/ \E length \in 0..MAX_REQUEST_BULK : ReadArgumentHeader(c, length)
    \/ \E kind \in Kinds : ReadPayload(c, kind)
    \/ RejectByPolicy(c)
    \/ RejectBusy(c)
    \/ AnswerWritten(c)
    \/ AnswerFails(c)
    \/ Dispatch(c)
    \/ UpstreamConnected(c)
    \/ UpstreamFails(c)
    \/ ReplyRead(c)
    \/ ReplyWritten(c)
    \/ ReplyWriteFails(c)
    \/ ClosingEnds(c)

ProxyNext ==
    \/ \E c \in Clients :
          \/ Connect(c)
          \/ TakeFromBacklog(c)
          \/ RefusalEnds(c)
          \/ HandlerStep(c)
          \/ ChildExecutes(c)
    \/ RequestShutdown
    \/ StopAccepting

\* Every await of a handler and of a refusal is under a deadline.
DeadlinePasses(c) ==
    \/ ReadFails(c)
    \/ AnswerFails(c)
    \/ UpstreamFails(c)
    \/ ReplyWriteFails(c)
    \/ ClosingEnds(c)
    \/ RefusalEnds(c)

\* Between two awaits the handler only computes.
Decides(c) == RejectByPolicy(c) \/ RejectBusy(c) \/ Dispatch(c)

\* Deadlines pass and tasks run.  The kernel hands out the backlog in order
\* and select! polls its branches in random order, so neither a waiting client
\* nor a resolved shutdown is passed over for ever.  Nothing is assumed of the
\* clients (that they send, read or leave) or of the child (that it answers).
ProxyFairness ==
    /\ \A c \in Clients :
          /\ WF_proxyVars(DeadlinePasses(c))
          /\ WF_proxyVars(Decides(c))
          /\ SF_proxyVars(TakeFromBacklog(c))
    /\ SF_proxyVars(StopAccepting)

ProxySpec == ProxyInit /\ [][ProxyNext]_proxyVars
FairProxySpec == ProxySpec /\ ProxyFairness
-----------------------------------------------------------------------------
(* Properties *)

Requests ==
    [left : 0..MAX_ARGUMENTS, total : Nat, reserved : Nat, alloc : Nat,
     kind : Kinds]
Links ==
    [open : BOOLEAN, pending : Seq([id : Nat, kind : Kinds]),
     unread : Seq(Nat), db : Databases]

ProxyTypeOK ==
    /\ acceptor \in {"selecting", "refusing", "stopped"}
    /\ shutdown \in BOOLEAN
    /\ connFree \in Nat
    /\ bytesFree \in Nat
    /\ backendFree \in Nat
    /\ stage \in [Clients -> Stages]
    /\ req \in [Clients -> Requests]
    /\ link \in [Clients -> Links]
    /\ sent \in [Clients -> 0..MaxCommands]
    /\ answer \in [Clients -> 0..MaxCommands]
    /\ told \in [Clients -> Databases]

ConnectionHolders == {c \in Clients : stage[c] \in HandlerStages}
ProxyBackendHolders == {c \in Clients : stage[c] \in BackendStages}

\* The permits of the byte budget that the handlers' reservations hold.
BytePermits == UNION {{c} \X (1..req[c].reserved) : c \in Clients}

\* No early return of the handler leaks a connection permit or returns one
\* twice: the permits out are exactly the handlers alive.
ConnectionPermitsConserved ==
    connFree + Cardinality(ConnectionHolders) = MAX_CONNECTIONS

\* Whatever ends a request (error, timeout, rejection, reply, lost client),
\* the byte budget gets back exactly what the request had reserved.
ByteBudgetConserved ==
    bytesFree + Cardinality(BytePermits) = MAX_IN_FLIGHT_REQUEST_BYTES

\* The buffer of an argument never exists before the reservation that pays for
\* it, and the reservation lives as long as the buffers of its command.  Nothing
\* is said of the header lines and of the encoded copy, which no reservation
\* pays for: see MemoryWithinBudget.
BuffersCovered == \A c \in Clients : req[c].alloc <= req[c].reserved

\* Until forward returns, the command it encoded for the child is a second copy
\* of the arguments, with a header line each.
EncodedCopy(c) == IF stage[c] = "exchange" THEN req[c].alloc ELSE 0

RequestBytes ==
    UNION {{c} \X (1..(req[c].alloc + EncodedCopy(c))) : c \in Clients}

\* proxy.rs, RequestByteBudget: clients with large commands never commit more
\* memory than the one budget allows.
MemoryWithinBudget ==
    Cardinality(RequestBytes) <= MAX_IN_FLIGHT_REQUEST_BYTES

\* A handler that waits for a new command, or has failed one, holds no bytes.
ReservationScoped ==
    \A c \in Clients :
        stage[c] \in {"away", "backlog", "refused", "header", "closing"} =>
            req[c].reserved = 0

\* The reply written to a client answers the command it sent last, never one
\* that an earlier, abandoned command left on the upstream connection.
RepliesMatch ==
    \A c \in Clients :
        stage[c] = "reply" /\ answer[c] # 0 => answer[c] = sent[c]

\* A command runs in the database the client was last told it is using: a
\* lost upstream session is never silently replaced by a fresh one.
SessionPreserved ==
    \A c \in Clients : link[c].pending # <<>> => link[c].db = told[c]

\* A backend permit comes back, even if the child never answers and the client
\* never reads.
BackendPermitReleased ==
    \A c \in Clients :
        (stage[c] \in BackendStages) ~> (stage[c] \notin BackendStages)

\* A client in the backlog is accepted, refused, or cut off by the shutdown: a
\* refused client that does not read cannot stall the accept loop.
BacklogServed ==
    \A c \in Clients : (stage[c] = "backlog") ~> (stage[c] # "backlog")

\* serve returns once the launcher has asked it to.
ShutdownObserved == shutdown ~> (acceptor = "stopped")
============================================================================
