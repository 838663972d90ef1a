-------------------------- MODULE PlaygroundProofs --------------------------
(***************************************************************************)
(* Proofs, for every number of clients and every limit, of what the two     *)
(* servers of the launcher promise: a client of the public port gets its    *)
(* own replies in its own session and gives back the bytes it reserved; the *)
(* permits of the three semaphores are conserved, and each semaphore with   *)
(* its holders implements PermitPool.                                       *)
(***************************************************************************)
EXTENDS Playground, SetFacts, SequenceTheorems

-----------------------------------------------------------------------------
(* The public proxy *)

\* Between two exchanges nothing of a client is under way upstream.
Quiet == Stages \ {"exchange", "reply"}

\* What the reservation of a request covers at each point of its decoding: two
\* bytes of each argument that is still to come are part of its slot.
RequestInv(c) ==
    /\ stage[c] \in {"argument", "payload"} => req[c].left >= 1
    /\ req[c].alloc + 2 * req[c].left
          <= req[c].reserved + (IF stage[c] = "payload" THEN 2 ELSE 0)
    /\ stage[c] \in {"away", "backlog", "refused", "header", "closing"} =>
          req[c].reserved = 0

\* What is on the upstream connection: nothing between exchanges, and in one
\* either the command sent last or its reply.
SessionInv(c) ==
    /\ stage[c] \in Quiet =>
          link[c].pending = <<>> /\ link[c].unread = <<>> /\ link[c].db = told[c]
    /\ stage[c] = "exchange" =>
          \/ /\ Len(link[c].pending) = 1 /\ link[c].pending[1].id = sent[c]
             /\ link[c].unread = <<>> /\ link[c].db = told[c]
          \/ /\ link[c].pending = <<>>
             /\ Len(link[c].unread) = 1 /\ link[c].unread[1] = sent[c]
    /\ stage[c] = "reply" /\ answer[c] = 0 =>
          \/ link[c].pending = <<>>
          \/ Len(link[c].pending) = 1 /\ link[c].db = told[c]
    /\ stage[c] = "reply" /\ answer[c] # 0 =>
          /\ link[c].pending = <<>> /\ link[c].unread = <<>>
          /\ answer[c] = sent[c]

ProxyInv ==
    /\ ProxyTypeOK
    /\ \A c \in Clients : RequestInv(c) /\ SessionInv(c)

\* read_request: the slots of the arguments pay for their CRLFs.
LEMMA SlotsCoverLineEnds ==
    ASSUME NEW count \in Nat, NEW slot \in Nat, slot >= 2
    PROVE  count * slot \in Nat /\ 2 * count <= count * slot
<1>1. PICK more \in Nat : slot = 2 + more
    <2>1. slot - 2 \in Nat /\ slot = 2 + (slot - 2)
        OBVIOUS
    <2> QED
        BY <2>1
<1>2. count * slot = 2 * count + count * more
    BY <1>1
<1>3. count * more \in Nat
    OBVIOUS
<1> QED
    BY <1>2, <1>3

\* A request and a link before anything has happened.
LEMMA Fresh ==
    /\ NoRequest \in Requests
    /\ NoLink \in Links
<1>1. NoRequest \in Requests
    BY ProxyAssumption DEF NoRequest, Requests, Kinds, ProxyAssumption
<1>2. <<>> \in Seq([id : Nat, kind : Kinds]) /\ <<>> \in Seq(Nat)
    BY EmptySeq
<1>3. NoLink \in Links
    BY <1>2, ProxyAssumption DEF NoLink, Links, ProxyAssumption
<1> QED
    BY <1>1, <1>3

\* A sequence of one element.
LEMMA OneElement ==
    ASSUME NEW S, NEW s \in Seq(S), Len(s) = 1
    PROVE  /\ s # <<>>
           /\ Head(s) = s[1] /\ Head(s) \in S
           /\ Tail(s) = <<>>
<1>1. s # <<>>
    BY EmptySeq
<1>2. Tail(s) \in Seq(S) /\ Len(Tail(s)) = 0 /\ Head(s) \in S
    BY <1>1, HeadTailProperties
<1>3. Tail(s) = <<>>
    BY <1>2, EmptySeq
<1>4. Head(s) = s[1]
    OBVIOUS
<1> QED
    BY <1>1, <1>2, <1>3, <1>4

\* The proxy starts with no client, no reservation and all of its permits.
LEMMA ProxyInitHolds == ProxyInit => ProxyInv
<1> SUFFICES ASSUME ProxyInit PROVE ProxyInv
    OBVIOUS
<1>1. ProxyTypeOK
    <2>1. req \in [Clients -> Requests] /\ link \in [Clients -> Links]
        BY Fresh DEF ProxyInit
    <2>2. shutdown \in BOOLEAN
        BY Zenon DEF ProxyInit
    <2>3. sent \in [Clients -> 0..MaxCommands] /\ answer \in [Clients -> 0..MaxCommands]
        BY ProxyAssumption DEF ProxyInit, ProxyAssumption
    <2>4. connFree \in Nat /\ bytesFree \in Nat /\ backendFree \in Nat
        BY ProxyAssumption, BackendPoolAssumption
        DEF ProxyInit, BackendInit, ProxyAssumption, BackendPoolAssumption
    <2> QED
        BY <2>1, <2>2, <2>3, <2>4, ProxyAssumption
        DEF ProxyInit, ProxyTypeOK, Stages, ProxyAssumption
<1>2. \A c \in Clients : RequestInv(c) /\ SessionInv(c)
    BY DEF ProxyInit, RequestInv, SessionInv, NoRequest, NoLink
<1> QED
    BY <1>1, <1>2 DEF ProxyInv

\* handle_connection: whatever a client leaves behind is dropped with it.
LEMMA CloseHolds ==
    ASSUME ProxyInv, NEW c \in Clients, CloseClient(c), backendFree' \in Nat
    PROVE  ProxyInv'
<1>1. ProxyTypeOK'
    <2>1. req' \in [Clients -> Requests] /\ link' \in [Clients -> Links]
        BY Fresh DEF ProxyInv, CloseClient, DropRequest, ProxyTypeOK
    <2>2. bytesFree' \in Nat
        BY DEF ProxyInv, CloseClient, DropRequest, ProxyTypeOK, Requests
    <2> QED
        BY <2>1, <2>2, ProxyAssumption
        DEF ProxyInv, CloseClient, ProxyTypeOK, Stages, ProxyAssumption
<1>2. \A d \in Clients : RequestInv(d)'
    BY DEF ProxyInv, CloseClient, DropRequest, ProxyTypeOK, RequestInv, NoRequest
<1>3. \A d \in Clients : SessionInv(d)'
    BY DEF ProxyInv, CloseClient, ProxyTypeOK, SessionInv, Quiet, Stages, NoLink
<1> QED
    BY <1>1, <1>2, <1>3 DEF ProxyInv

\* read_request: an error drops what was reserved before it is written.
LEMMA FailHolds ==
    ASSUME ProxyInv, NEW c \in Clients, FailRequest(c), stage[c] \in ReadingStages
    PROVE  ProxyInv'
<1>1. ProxyTypeOK'
    BY ProxyAssumption
    DEF ProxyInv, FailRequest, DropRequest, ProxyTypeOK, Requests, Stages, Kinds,
        NoRequest, ProxyAssumption
<1>2. \A d \in Clients : RequestInv(d)'
    BY DEF ProxyInv, FailRequest, DropRequest, ProxyTypeOK, RequestInv, NoRequest
<1>3. \A d \in Clients : SessionInv(d)'
    BY DEF ProxyInv, FailRequest, ProxyTypeOK, SessionInv, Quiet, Stages, ReadingStages
<1> QED
    BY <1>1, <1>2, <1>3 DEF ProxyInv

\* serve: the accept loop moves clients between stages without a request.
LEMMA AcceptorHolds ==
    ASSUME ProxyInv,
           \/ \E c \in Clients : Connect(c) \/ TakeFromBacklog(c) \/ RefusalEnds(c)
           \/ RequestShutdown
           \/ StopAccepting
    PROVE  ProxyInv'
<1>1. ASSUME NEW c \in Clients, Connect(c) \/ TakeFromBacklog(c) \/ RefusalEnds(c)
      PROVE  ProxyInv'
    <2>1. ProxyTypeOK'
        BY <1>1
        DEF ProxyInv, Connect, TakeFromBacklog, Accept, Refuse, RefusalEnds,
            ProxyTypeOK, Stages
    <2>2. \A d \in Clients : RequestInv(d)'
        BY <1>1
        DEF ProxyInv, Connect, TakeFromBacklog, Accept, Refuse, RefusalEnds,
            ProxyTypeOK, RequestInv
    <2>3. \A d \in Clients : SessionInv(d)'
        BY <1>1
        DEF ProxyInv, Connect, TakeFromBacklog, Accept, Refuse, RefusalEnds,
            ProxyTypeOK, SessionInv, Quiet, Stages
    <2> QED
        BY <2>1, <2>2, <2>3 DEF ProxyInv
<1>2. CASE RequestShutdown
    BY <1>2 DEF ProxyInv, RequestShutdown, ProxyTypeOK, RequestInv, SessionInv
<1>3. CASE StopAccepting
    <2>1. ProxyTypeOK'
        BY <1>3 DEF ProxyInv, StopAccepting, ProxyTypeOK, Stages
    <2>2. \A d \in Clients : RequestInv(d)'
        BY <1>3 DEF ProxyInv, StopAccepting, ProxyTypeOK, RequestInv
    <2>3. \A d \in Clients : SessionInv(d)'
        BY <1>3 DEF ProxyInv, StopAccepting, ProxyTypeOK, SessionInv, Quiet, Stages
    <2> QED
        BY <2>1, <2>2, <2>3 DEF ProxyInv
<1> QED
    BY <1>1, <1>2, <1>3

\* read_request: reading a command, under the reservation that grows with it.
LEMMA ReadingHolds ==
    ASSUME ProxyInv, NEW c \in Clients,
           \/ ReadEmptyCommand(c)
           \/ \E count \in 1..MAX_ARGUMENTS : ReadCommandHeader(c, count)
           \/ \E length \in 0..MAX_REQUEST_BULK : ReadArgumentHeader(c, length)
           \/ \E kind \in Kinds : ReadPayload(c, kind)
    PROVE  ProxyInv'
<1>1. CASE ReadEmptyCommand(c)
    BY <1>1, ProxyAssumption
    DEF ProxyInv, ReadEmptyCommand, ProxyTypeOK, RequestInv, SessionInv, Quiet, Stages,
        ProxyAssumption
<1>2. ASSUME NEW count \in 1..MAX_ARGUMENTS, ReadCommandHeader(c, count)
      PROVE  ProxyInv'
    <2> DEFINE need == count * ARGUMENT_SLOT_OVERHEAD_BYTES
    <2>1. need \in Nat /\ 2 * count <= need
        BY SlotsCoverLineEnds, ProxyAssumption DEF ProxyAssumption
    <2> HIDE DEF need
    <2>2. CASE FailRequest(c)
        BY <1>2, <2>2, FailHolds DEF ReadCommandHeader, ReadingStages
    <2>3. CASE /\ need <= bytesFree
               /\ bytesFree' = bytesFree - need
               /\ req' = [req EXCEPT ![c].left = count, ![c].reserved = need]
               /\ sent' = [sent EXCEPT ![c] = @ + 1]
               /\ stage' = [stage EXCEPT ![c] = "argument"]
               /\ UNCHANGED <<acceptor, shutdown, connFree, link, answer, told,
                              backendFree>>
        <3>0. stage[c] = "header" /\ sent[c] < MaxCommands
            BY <1>2 DEF ReadCommandHeader
        <3>4. req \in [Clients -> Requests] /\ count \in 0..MAX_ARGUMENTS
            BY ProxyAssumption DEF ProxyInv, ProxyTypeOK, ProxyAssumption
        <3>5. req' \in [Clients -> Requests]
            BY <2>1, <2>3, <3>4 DEF Requests
        <3>1. ProxyTypeOK'
            BY <2>1, <2>3, <3>0, <3>5, ProxyAssumption
            DEF ProxyInv, ProxyTypeOK, Stages, ProxyAssumption
        <3>2. \A d \in Clients : RequestInv(d)'
            BY <2>1, <2>3, <3>0, ProxyAssumption
            DEF ProxyInv, ProxyTypeOK, Requests, RequestInv, ProxyAssumption
        <3>3. \A d \in Clients : SessionInv(d)'
            BY <2>3, <3>0
            DEF ProxyInv, ProxyTypeOK, SessionInv, Quiet, Stages
        <3> QED
            BY <3>1, <3>2, <3>3 DEF ProxyInv
    <2> QED
        BY <1>2, <2>2, <2>3 DEF ReadCommandHeader, need
<1>3. ASSUME NEW length \in 0..MAX_REQUEST_BULK, ReadArgumentHeader(c, length)
      PROVE  ProxyInv'
    <2>1. length \in Nat
        BY ProxyAssumption DEF ProxyAssumption
    <2>2. CASE FailRequest(c)
        BY <1>3, <2>2, FailHolds DEF ReadArgumentHeader, ReadingStages
    <2>3. CASE ~FailRequest(c)
        <3>1. /\ stage[c] = "argument"
              /\ bytesFree' = bytesFree - length /\ length <= bytesFree
              /\ req' = [req EXCEPT ![c].total = req[c].total + length,
                                    ![c].reserved = @ + length,
                                    ![c].alloc = @ + length + 2]
              /\ stage' = [stage EXCEPT ![c] = "payload"]
              /\ UNCHANGED <<acceptor, shutdown, connFree, link, sent, answer,
                             told, backendFree>>
            BY <1>3, <2>3 DEF ReadArgumentHeader
        <3>2. req \in [Clients -> Requests]
            BY DEF ProxyInv, ProxyTypeOK
        <3>3. req' \in [Clients -> Requests]
            BY <2>1, <3>1, <3>2 DEF Requests
        <3>4. ProxyTypeOK'
            BY <2>1, <3>1, <3>3 DEF ProxyInv, ProxyTypeOK, Stages
        <3>5. \A d \in Clients : RequestInv(d)'
            <4>1. \A d \in Clients : RequestInv(d)
                BY DEF ProxyInv
            <4>2. stage \in [Clients -> Stages]
                BY DEF ProxyInv, ProxyTypeOK
            <4> QED
                BY <2>1, <3>1, <3>2, <4>1, <4>2 DEF Requests, RequestInv
        <3>6. \A d \in Clients : SessionInv(d)'
            BY <3>1 DEF ProxyInv, ProxyTypeOK, SessionInv, Quiet, Stages
        <3> QED
            BY <3>4, <3>5, <3>6 DEF ProxyInv
    <2> QED
        BY <2>2, <2>3
<1>4. ASSUME NEW kind \in Kinds, ReadPayload(c, kind)
      PROVE  ProxyInv'
    <2>4. req \in [Clients -> Requests] /\ stage \in [Clients -> Stages]
        BY DEF ProxyInv, ProxyTypeOK
    <2>5. /\ stage[c] = "payload"
          /\ req' = [req EXCEPT ![c].left = @ - 1, ![c].kind = kind]
          /\ stage' = [stage EXCEPT ![c] = IF req[c].left = 1 THEN "decoded"
                                                              ELSE "argument"]
        BY <1>4 DEF ReadPayload
    <2>6. req[c].left \in 1..MAX_ARGUMENTS
        BY <2>4, <2>5, ProxyAssumption DEF ProxyInv, RequestInv, Requests, ProxyAssumption
    <2>7. req[c].left - 1 \in 0..MAX_ARGUMENTS
        BY <2>6, ProxyAssumption DEF ProxyAssumption
    <2>8. req' \in [Clients -> Requests]
        BY <2>4, <2>5, <2>7 DEF Requests
    <2>1. ProxyTypeOK'
        BY <1>4, <2>8 DEF ProxyInv, ReadPayload, ProxyTypeOK, Stages
    <2>2. \A d \in Clients : RequestInv(d)'
        <3>1. \A d \in Clients : RequestInv(d)
            BY DEF ProxyInv
        <3>2. \A d \in Clients : /\ req[d].alloc \in Nat /\ req[d].reserved \in Nat
                                 /\ req[d].left \in Int
            BY <2>4, ProxyAssumption DEF Requests, ProxyAssumption
        <3>3. \A d \in Clients \ {c} : req'[d] = req[d] /\ stage'[d] = stage[d]
            BY <2>4, <2>5
        <3>4. /\ req'[c].left = req[c].left - 1
              /\ req'[c].alloc = req[c].alloc
              /\ req'[c].reserved = req[c].reserved
              /\ stage'[c] = IF req[c].left = 1 THEN "decoded" ELSE "argument"
            BY <2>4, <2>5 DEF Requests
        <3>7. req[c].alloc + 2 * req[c].left <= req[c].reserved + 2
            BY <2>5, <3>1 DEF RequestInv
        <3>8. req'[c].alloc + 2 * req'[c].left <= req'[c].reserved
            <4>1. \A a, l, r \in Int : a + 2 * l <= r + 2 => a + 2 * (l - 1) <= r
                OBVIOUS
            <4>2. req[c].alloc \in Int /\ req[c].reserved \in Int /\ req[c].left \in Int
                BY <3>2
            <4> QED
                BY <3>4, <3>7, <4>1, <4>2
        <3>9. req'[c].left >= 1 \/ stage'[c] = "decoded"
            BY <2>6, <3>4
        <3>10. stage'[c] \in {"argument", "decoded"}
            BY <3>4
        <3>5. RequestInv(c)'
            BY <3>8, <3>9, <3>10, <3>2, <3>4 DEF RequestInv
        <3>6. ASSUME NEW d \in Clients \ {c} PROVE RequestInv(d)'
            BY <3>1, <3>3 DEF RequestInv
        <3> QED
            BY <3>5, <3>6
    <2>3. \A d \in Clients : SessionInv(d)'
        BY <1>4 DEF ProxyInv, ReadPayload, ProxyTypeOK, SessionInv, Quiet, Stages
    <2> QED
        BY <2>1, <2>2, <2>3 DEF ProxyInv
<1> QED
    BY <1>1, <1>2, <1>3, <1>4

\* handle_connection: a whole command is rejected, and the rejection written.
LEMMA RejectionHolds ==
    ASSUME ProxyInv, NEW c \in Clients,
           RejectByPolicy(c) \/ RejectBusy(c) \/ AnswerWritten(c)
    PROVE  ProxyInv'
<1>1. ProxyTypeOK'
    BY ProxyAssumption
    DEF ProxyInv, RejectByPolicy, RejectBusy, BackendBusy, AnswerWritten, DropRequest,
        ProxyTypeOK, Requests, Stages, Kinds, NoRequest, ProxyAssumption
<1>2. \A d \in Clients : RequestInv(d)'
    BY DEF ProxyInv, RejectByPolicy, RejectBusy, BackendBusy, AnswerWritten,
           DropRequest, ProxyTypeOK, RequestInv, NoRequest
<1>3. \A d \in Clients : SessionInv(d)'
    BY DEF ProxyInv, RejectByPolicy, RejectBusy, BackendBusy, AnswerWritten,
           ProxyTypeOK, SessionInv, Quiet, Stages
<1> QED
    BY <1>1, <1>2, <1>3 DEF ProxyInv

\* forward: a command goes out only on a connection with nothing under way.
LEMMA ForwardHolds ==
    ASSUME ProxyInv, NEW c \in Clients, Dispatch(c) \/ UpstreamConnected(c)
    PROVE  ProxyInv'
<1>1. stage[c] \in Quiet /\ stage[c] \notin {"argument", "payload"}
    BY DEF Dispatch, UpstreamConnected, Quiet, Stages
<1>2. backendFree' \in Nat
    BY DEF ProxyInv, ProxyTypeOK, Dispatch, UpstreamConnected, TryAcquireBackend
<1>3. stage' \in [Clients -> Stages] /\ link' \in [Clients -> Links]
    <2>1. CASE Send(c)
        <3>1. [id |-> sent[c], kind |-> req[c].kind] \in [id : Nat, kind : Kinds]
            BY ProxyAssumption DEF ProxyInv, ProxyTypeOK, Requests, ProxyAssumption
        <3>2. link \in [Clients -> Links] /\ link[c].pending \in Seq([id : Nat, kind : Kinds])
            BY DEF ProxyInv, ProxyTypeOK, Links
        <3>3. Append(link[c].pending, [id |-> sent[c], kind |-> req[c].kind])
                  \in Seq([id : Nat, kind : Kinds])
            BY <3>1, <3>2, AppendProperties
        <3>4. link' \in [Clients -> Links]
            BY <2>1, <3>2, <3>3 DEF Send, Links
        <3>5. stage' \in [Clients -> Stages]
            BY DEF Dispatch, UpstreamConnected, ProxyInv, ProxyTypeOK, Stages
        <3> QED
            BY <3>4, <3>5
    <2>2. CASE UNCHANGED link
        BY <2>2 DEF Dispatch, UpstreamConnected, ProxyInv, ProxyTypeOK, Stages
    <2> QED
        BY <2>1, <2>2 DEF Dispatch, UpstreamConnected
<1>4. ProxyTypeOK'
    BY <1>2, <1>3 DEF Dispatch, UpstreamConnected, ProxyInv, ProxyTypeOK
<1>5. \A d \in Clients : RequestInv(d)'
    BY DEF Dispatch, UpstreamConnected, ProxyInv, ProxyTypeOK, RequestInv
<1>6. ASSUME NEW d \in Clients PROVE SessionInv(d)'
    <2>1. CASE d # c
        BY <2>1 DEF Dispatch, UpstreamConnected, Send, ProxyInv, ProxyTypeOK, SessionInv
    <2>2. CASE d = c /\ UNCHANGED link
        <3>1. stage'[c] = "connect" \/ Send(c)
            BY <2>2 DEF Dispatch, UpstreamConnected, ProxyInv, ProxyTypeOK
        <3>2. CASE Send(c)
            <4>1. link[c].pending = <<>>
                BY <1>1 DEF ProxyInv, SessionInv
            <4>2. link'[c].pending = Append(<<>>, [id |-> sent[c], kind |-> req[c].kind])
                BY <3>2, <4>1 DEF Send, ProxyInv, ProxyTypeOK, Links
            <4>3. Len(link'[c].pending) = 1 /\ Len(link[c].pending) = 0
                BY <4>1, <4>2
            <4> QED
                BY <2>2, <4>3
        <3> QED
            BY <1>1, <2>2, <3>1, <3>2
            DEF Dispatch, UpstreamConnected, ProxyInv, ProxyTypeOK, SessionInv, Quiet, Stages
    <2>3. CASE d = c /\ Send(c)
        <3>1. link[c].pending = <<>> /\ link[c].unread = <<>> /\ link[c].db = told[c]
            BY <1>1 DEF ProxyInv, SessionInv
        <3>2. /\ link'[c].pending = Append(<<>>, [id |-> sent[c], kind |-> req[c].kind])
              /\ link'[c].unread = <<>>
              /\ link'[c].db = told'[c]
            BY <2>3, <3>1 DEF Dispatch, UpstreamConnected, Send, ProxyInv, ProxyTypeOK, Links
        <3>3. Len(link'[c].pending) = 1 /\ link'[c].pending[1].id = sent'[c]
            BY <3>2 DEF Dispatch, UpstreamConnected
        <3>4. stage'[c] = "exchange" \/ UNCHANGED link
            BY DEF Dispatch, UpstreamConnected, ProxyInv, ProxyTypeOK
        <3> QED
            BY <2>2, <2>3, <3>2, <3>3, <3>4
            DEF Quiet, SessionInv
    <2> QED
        BY <2>1, <2>2, <2>3 DEF Dispatch, UpstreamConnected
<1> QED
    BY <1>4, <1>5, <1>6 DEF ProxyInv

\* forward: the exchange fails, or the one reply that is due is read.
LEMMA ExchangeHolds ==
    ASSUME ProxyInv, NEW c \in Clients, UpstreamFails(c) \/ ReplyRead(c)
    PROVE  ProxyInv'
<1>1. CASE UpstreamFails(c)
    <2>1. ProxyTypeOK'
        BY <1>1, ProxyAssumption
        DEF ProxyInv, UpstreamFails, ProxyTypeOK, Stages, ProxyAssumption
    <2>2. \A d \in Clients : RequestInv(d)'
        BY <1>1 DEF ProxyInv, UpstreamFails, ProxyTypeOK, RequestInv
    <2>3. \A d \in Clients : SessionInv(d)'
        BY <1>1 DEF ProxyInv, UpstreamFails, ProxyTypeOK, SessionInv, Quiet, Stages
    <2> QED
        BY <2>1, <2>2, <2>3 DEF ProxyInv
<1>2. CASE ReplyRead(c)
    <2>1. /\ link[c].pending = <<>>
          /\ Len(link[c].unread) = 1 /\ link[c].unread[1] = sent[c]
        BY <1>2 DEF ProxyInv, SessionInv, ReplyRead
    <2>2. link[c].unread \in Seq(Nat)
        BY DEF ProxyInv, ProxyTypeOK, Links
    <2>3. Head(link[c].unread) = sent[c] /\ Tail(link[c].unread) = <<>>
        BY <2>1, <2>2, OneElement
    <2>4. link'[c].pending = <<>> /\ link'[c].unread = <<>>
        BY <1>2, <2>1, <2>3 DEF ReplyRead, ProxyInv, ProxyTypeOK, Links
    <2>5. ProxyTypeOK'
        <3>1. link \in [Clients -> Links] /\ <<>> \in Seq(Nat)
            BY EmptySeq DEF ProxyInv, ProxyTypeOK
        <3>2. link' = [link EXCEPT ![c].unread = <<>>]
            BY <1>2, <2>3 DEF ReplyRead
        <3>3. link' \in [Clients -> Links]
            BY <3>1, <3>2 DEF Links
        <3> QED
            BY <1>2, <2>3, <3>3 DEF ProxyInv, ReplyRead, ProxyTypeOK, Stages
    <2>6. \A d \in Clients : RequestInv(d)'
        BY <1>2 DEF ProxyInv, ReplyRead, ProxyTypeOK, RequestInv
    <2>7. \A d \in Clients : SessionInv(d)'
        BY <1>2, <2>3, <2>4 DEF ProxyInv, ReplyRead, ProxyTypeOK, SessionInv, Quiet, Stages
    <2> QED
        BY <2>5, <2>6, <2>7 DEF ProxyInv
<1> QED
    BY <1>1, <1>2

\* handle_connection: a reply that was written ends the iteration, and the
\* client has been told of the database it has selected.
LEMMA ReplyHolds ==
    ASSUME ProxyInv, NEW c \in Clients, ReplyWritten(c)
    PROVE  ProxyInv'
<1>1. backendFree' \in Nat
    BY DEF ProxyInv, ProxyTypeOK, ReplyWritten, DropBackend
<1>2. CASE CloseClient(c)
    BY <1>1, <1>2, CloseHolds
<1>3. CASE ~CloseClient(c)
    <2>1. ProxyTypeOK'
        <3>1. req' \in [Clients -> Requests]
            BY <1>3, Fresh DEF ProxyInv, ReplyWritten, DropRequest, ProxyTypeOK
        <3>2. bytesFree' \in Nat /\ link[c].db \in Databases
            BY <1>3 DEF ProxyInv, ReplyWritten, DropRequest, ProxyTypeOK, Requests, Links
        <3> QED
            BY <1>1, <1>3, <3>1, <3>2 DEF ProxyInv, ReplyWritten, ProxyTypeOK, Stages
    <2>2. \A d \in Clients : RequestInv(d)'
        BY <1>3 DEF ProxyInv, ReplyWritten, DropRequest, ProxyTypeOK, RequestInv, NoRequest
    <2>3. \A d \in Clients : SessionInv(d)'
        BY <1>3 DEF ProxyInv, ReplyWritten, ProxyTypeOK, SessionInv, Quiet, Stages
    <2> QED
        BY <2>1, <2>2, <2>3 DEF ProxyInv
<1> QED
    BY <1>2, <1>3

\* The child takes the one command that is pending and answers it.
LEMMA ChildHolds ==
    ASSUME ProxyInv, NEW c \in Clients, ChildExecutes(c)
    PROVE  ProxyInv'
<1>1. PICK d \in Databases :
          link' = [link EXCEPT ![c].pending = Tail(@),
                               ![c].unread = Append(@, Head(link[c].pending).id),
                               ![c].db = d]
    BY DEF ChildExecutes
<1>2. /\ link[c].pending # <<>>
      /\ link[c].pending \in Seq([id : Nat, kind : Kinds])
      /\ link[c].unread \in Seq(Nat)
    BY DEF ProxyInv, ProxyTypeOK, Links, ChildExecutes
<1>3. /\ Head(link[c].pending) \in [id : Nat, kind : Kinds]
      /\ Tail(link[c].pending) \in Seq([id : Nat, kind : Kinds])
    BY <1>2, HeadTailProperties
<1>4. Append(link[c].unread, Head(link[c].pending).id) \in Seq(Nat)
    BY <1>2, <1>3, AppendProperties
<1>5. ProxyTypeOK'
    <2>1. link \in [Clients -> Links]
        BY DEF ProxyInv, ProxyTypeOK
    <2>2. link' \in [Clients -> Links]
        BY <1>1, <1>3, <1>4, <2>1 DEF Links
    <2> QED
        BY <2>2 DEF ChildExecutes, ProxyInv, ProxyTypeOK
<1>6. \A e \in Clients : RequestInv(e)'
    BY DEF ProxyInv, ChildExecutes, ProxyTypeOK, RequestInv
<1>7. stage[c] \in {"exchange", "reply"} /\ Len(link[c].pending) = 1
    BY <1>2 DEF ProxyInv, ProxyTypeOK, SessionInv, Quiet
<1>8. Head(link[c].pending) = link[c].pending[1] /\ Tail(link[c].pending) = <<>>
    BY <1>2, <1>7, OneElement
<1>9. /\ link'[c].pending = <<>>
      /\ link'[c].unread = Append(link[c].unread, Head(link[c].pending).id)
    BY <1>1, <1>8 DEF ProxyInv, ProxyTypeOK, Links
<1>10. ASSUME stage[c] = "exchange"
       PROVE  Len(link'[c].unread) = 1 /\ link'[c].unread[1] = sent[c]
    <2>1. link[c].unread = <<>> /\ link[c].pending[1].id = sent[c]
        BY <1>2, <1>10 DEF ProxyInv, SessionInv
    <2> QED
        BY <1>8, <1>9, <2>1
<1>11. ASSUME NEW e \in Clients PROVE SessionInv(e)'
    <2>1. CASE e # c
        BY <1>1, <2>1 DEF ProxyInv, ChildExecutes, ProxyTypeOK, SessionInv
    <2>2. CASE e = c
        BY <1>2, <1>7, <1>9, <1>10, <2>2
        DEF ProxyInv, ChildExecutes, ProxyTypeOK, SessionInv, Quiet
    <2> QED
        BY <2>1, <2>2
<1> QED
    BY <1>5, <1>6, <1>11 DEF ProxyInv

\* Every step of the proxy keeps its invariant: one case for each group of steps.
LEMMA ProxyNextHolds == ProxyInv /\ [ProxyNext]_proxyVars => ProxyInv'
<1> SUFFICES ASSUME ProxyInv, [ProxyNext]_proxyVars PROVE ProxyInv'
    OBVIOUS
<1>1. CASE UNCHANGED proxyVars
    BY <1>1
    DEF proxyVars, proxyOwn, ProxyInv, ProxyTypeOK, RequestInv, SessionInv
<1>2. ASSUME NEW c \in Clients, HandlerStep(c)
      PROVE  ProxyInv'
    <2>1. CASE ClientEof(c) \/ AnswerFails(c) \/ ClosingEnds(c) \/ ReplyWriteFails(c)
        BY <2>1, CloseHolds
        DEF ClientEof, AnswerFails, ClosingEnds, ReplyWriteFails, DropBackend, ProxyInv,
            ProxyTypeOK
    <2>2. CASE ReadFails(c)
        BY <2>2, FailHolds DEF ReadFails
    <2>3. CASE \/ ReadEmptyCommand(c)
               \/ \E count \in 1..MAX_ARGUMENTS : ReadCommandHeader(c, count)
               \/ \E length \in 0..MAX_REQUEST_BULK : ReadArgumentHeader(c, length)
               \/ \E kind \in Kinds : ReadPayload(c, kind)
        BY <2>3, ReadingHolds
    <2>4. CASE RejectByPolicy(c) \/ RejectBusy(c) \/ AnswerWritten(c)
        BY <2>4, RejectionHolds
    <2>5. CASE Dispatch(c) \/ UpstreamConnected(c)
        BY <2>5, ForwardHolds
    <2>6. CASE UpstreamFails(c) \/ ReplyRead(c)
        BY <2>6, ExchangeHolds
    <2>7. CASE ReplyWritten(c)
        BY <2>7, ReplyHolds
    <2> QED
        BY <1>2, <2>1, <2>2, <2>3, <2>4, <2>5, <2>6, <2>7 DEF HandlerStep
<1>3. ASSUME NEW c \in Clients, ChildExecutes(c)
      PROVE  ProxyInv'
    BY <1>3, ChildHolds
<1> QED
    BY <1>1, <1>2, <1>3, AcceptorHolds DEF ProxyNext

\* The invariant holds of the proxy on its own.
LEMMA ProxyInvariantHolds == ProxySpec => []ProxyInv
BY ProxyInitHolds, ProxyNextHolds, PTL DEF ProxySpec

\* proxy.rs: the handlers' state keeps its types; no permit count goes below
\* zero, and no argument is read that the header did not announce.
THEOREM ProxyTypes == ProxySpec => []ProxyTypeOK
<1>1. ProxyInv => ProxyTypeOK
    BY DEF ProxyInv
<1> QED
    BY <1>1, ProxyInvariantHolds, PTL

\* read_request: no argument buffer exists without the reservation that pays for
\* it (of the encoded copy of a command and of header lines nothing is said).
THEOREM BuffersPaidFor == ProxySpec => []BuffersCovered
<1>1. ProxyInv => BuffersCovered
    <2> SUFFICES ASSUME ProxyInv, NEW c \in Clients
                 PROVE  req[c].alloc <= req[c].reserved
        BY DEF BuffersCovered
    <2>1. req[c] \in Requests /\ req[c].left \in Nat
        BY ProxyAssumption DEF ProxyInv, ProxyTypeOK, Requests, ProxyAssumption
    <2> QED
        BY <2>1 DEF ProxyInv, RequestInv, Requests
<1> QED
    BY <1>1, ProxyInvariantHolds, PTL

\* handle_connection: between commands a handler holds no bytes.
THEOREM ReservationsEnd == ProxySpec => []ReservationScoped
<1>1. ProxyInv => ReservationScoped
    BY DEF ProxyInv, RequestInv, ReservationScoped
<1> QED
    BY <1>1, ProxyInvariantHolds, PTL

\* forward, handle_connection: a client only gets the reply to its last command.
THEOREM RepliesMatched == ProxySpec => []RepliesMatch
<1>1. ProxyInv => RepliesMatch
    BY DEF ProxyInv, SessionInv, RepliesMatch
<1> QED
    BY <1>1, ProxyInvariantHolds, PTL

\* handle_connection: a lost session ends the client's connection, so no
\* command runs in a database its client has not been told of.
THEOREM SessionsKept == ProxySpec => []SessionPreserved
<1>1. ProxyInv => SessionPreserved
    BY DEF ProxyInv, ProxyTypeOK, SessionInv, Quiet, SessionPreserved
<1> QED
    BY <1>1, ProxyInvariantHolds, PTL

\* The reservations as a count for each handler.
Reservations == [c \in Clients |-> req[c].reserved]

\* read_request, DropRequest: a step of one handler that takes from the budget
\* what it adds to its reservation keeps the sum.
LEMMA BytesMove ==
    ASSUME ProxyTypeOK, ProxyTypeOK', ByteBudgetConserved, NEW c \in Clients,
           \A d \in Clients \ {c} : req'[d].reserved = req[d].reserved,
           bytesFree' + req'[c].reserved = bytesFree + req[c].reserved
    PROVE  ByteBudgetConserved'
<1> DEFINE f == Reservations
           g == Reservations'
<1>1. IsFiniteSet(Clients)
    BY ProxyAssumption DEF ProxyAssumption
<1>2. /\ \A d \in Clients : f[d] \in Nat
      /\ \A d \in Clients : g[d] \in Nat
    BY DEF Reservations, ProxyTypeOK, Requests
<1>3. \A d \in Clients \ {c} : g[d] = f[d]
    BY DEF Reservations
<1>4. f[c] = req[c].reserved /\ g[c] = req'[c].reserved
    BY DEF Reservations
<1>5. BytePermits = Slots(Clients, f) /\ BytePermits' = Slots(Clients, g)
    BY DEF BytePermits, Slots, Reservations
<1> HIDE DEF f, g
<1>6. Cardinality(Slots(Clients, g)) - g[c] = Cardinality(Slots(Clients, f)) - f[c]
    BY <1>1, <1>2, <1>3, SlotsChange
<1>7. Cardinality(Slots(Clients, f)) \in Nat /\ Cardinality(Slots(Clients, g)) \in Nat
    BY <1>1, <1>2, SlotsFinite
<1>8. /\ f[c] \in Nat /\ g[c] \in Nat
      /\ bytesFree \in Nat /\ bytesFree' \in Nat
      /\ MAX_IN_FLIGHT_REQUEST_BYTES \in Nat
    BY <1>2, ProxyAssumption DEF ProxyTypeOK, ProxyAssumption
<1> QED
    BY <1>4, <1>5, <1>6, <1>7, <1>8 DEF ByteBudgetConserved

\* What a step does to the budget: nothing, or a handler pays for what it
\* reserves, or is paid back what it had reserved.
LEMMA BytesStep ==
    ASSUME ProxyInv, [ProxyNext]_proxyVars
    PROVE  \/ UNCHANGED <<bytesFree, req>>
           \/ \E c \in Clients :
                 /\ \A d \in Clients \ {c} : req'[d].reserved = req[d].reserved
                 /\ bytesFree' + req'[c].reserved = bytesFree + req[c].reserved
<1> DEFINE Moves(c) ==
              /\ \A d \in Clients \ {c} : req'[d].reserved = req[d].reserved
              /\ bytesFree' + req'[c].reserved = bytesFree + req[c].reserved
<1>0. /\ req \in [Clients -> Requests] /\ bytesFree \in Nat
      /\ \A c \in Clients : req[c].reserved \in Nat
    BY DEF ProxyInv, ProxyTypeOK, Requests
<1>1. ASSUME NEW c \in Clients, DropRequest(c) PROVE Moves(c)
    BY <1>0, <1>1 DEF DropRequest, NoRequest
<1>2. ASSUME NEW c \in Clients, NEW count \in 1..MAX_ARGUMENTS,
             ReadCommandHeader(c, count)
      PROVE  Moves(c)
    <2> DEFINE need == count * ARGUMENT_SLOT_OVERHEAD_BYTES
    <2>1. need \in Nat
        BY SlotsCoverLineEnds, ProxyAssumption DEF ProxyAssumption
    <2>2. req[c].reserved = 0
        BY <1>2 DEF ReadCommandHeader, ProxyInv, RequestInv
    <2> HIDE DEF need
    <2>3. CASE FailRequest(c)
        BY <1>1, <2>3 DEF FailRequest
    <2>4. CASE /\ bytesFree' = bytesFree - need
               /\ req' = [req EXCEPT ![c].left = count, ![c].reserved = need]
        <3>1. /\ req'[c].reserved = need
              /\ \A d \in Clients \ {c} : req'[d].reserved = req[d].reserved
            BY <1>0, <2>4 DEF Requests
        <3> QED
            BY <1>0, <2>1, <2>2, <2>4, <3>1
    <2> QED
        BY <1>2, <2>3, <2>4 DEF ReadCommandHeader, need
<1>3. ASSUME NEW c \in Clients, NEW length \in 0..MAX_REQUEST_BULK,
             ReadArgumentHeader(c, length)
      PROVE  Moves(c)
    <2>1. length \in Nat
        BY ProxyAssumption DEF ProxyAssumption
    <2>2. CASE FailRequest(c)
        BY <1>1, <2>2 DEF FailRequest
    <2>3. CASE ~FailRequest(c)
        <3>1. /\ bytesFree' = bytesFree - length
              /\ req' = [req EXCEPT ![c].total = req[c].total + length,
                                    ![c].reserved = @ + length,
                                    ![c].alloc = @ + length + 2]
            BY <1>3, <2>3 DEF ReadArgumentHeader
        <3>2. /\ req'[c].reserved = req[c].reserved + length
              /\ \A d \in Clients \ {c} : req'[d].reserved = req[d].reserved
            BY <1>0, <3>1 DEF Requests
        <3> QED
            BY <1>0, <2>1, <3>1, <3>2
    <2> QED
        BY <2>2, <2>3
<1>4. ASSUME NEW c \in Clients, NEW kind \in Kinds, ReadPayload(c, kind)
      PROVE  Moves(c)
    <2>1. \A d \in Clients : req'[d].reserved = req[d].reserved
        BY <1>0, <1>4 DEF ReadPayload, Requests
    <2> QED
        BY <1>0, <1>4, <2>1 DEF ReadPayload
<1>5. ASSUME NEW c \in Clients, HandlerStep(c)
      PROVE  UNCHANGED <<bytesFree, req>> \/ Moves(c)
    <2>1. CASE DropRequest(c)
        BY <1>1, <2>1
    <2>2. CASE ~DropRequest(c)
        <3> HIDE DEF Moves
        <3> QED
            BY <1>2, <1>3, <1>4, <1>5, <2>2
            DEF HandlerStep, ClientEof, CloseClient, ReadFails, FailRequest,
                ReadEmptyCommand, RejectByPolicy, RejectBusy, AnswerWritten,
                AnswerFails, Dispatch, UpstreamConnected, UpstreamFails, ReplyRead,
                ReplyWritten, ReplyWriteFails, ClosingEnds
    <2> QED
        BY <2>1, <2>2
<1>6. CASE \/ RequestShutdown \/ StopAccepting \/ UNCHANGED proxyVars
          \/ \E c \in Clients : Connect(c) \/ TakeFromBacklog(c) \/ RefusalEnds(c)
                                \/ ChildExecutes(c)
    BY <1>6
    DEF proxyVars, proxyOwn, RequestShutdown, StopAccepting, Connect, TakeFromBacklog,
        Accept, Refuse, RefusalEnds, ChildExecutes
<1> QED
    BY <1>5, <1>6 DEF ProxyNext

\* read_request, handle_connection: whatever ends a request, the budget gets back
\* exactly what the request had reserved.
THEOREM BytesConserved == ProxySpec => []ByteBudgetConserved
<1>1. ProxyInit => ByteBudgetConserved
    <2> SUFFICES ASSUME ProxyInit PROVE ByteBudgetConserved
        OBVIOUS
    <2>1. \A c \in Clients : 1..req[c].reserved = {}
        BY DEF ProxyInit, NoRequest
    <2>2. BytePermits = {}
        BY <2>1 DEF BytePermits
    <2> QED
        BY <2>2, FS_EmptySet, ProxyAssumption
        DEF ProxyInit, ByteBudgetConserved, ProxyAssumption
<1>2. ProxyInv /\ ByteBudgetConserved /\ [ProxyNext]_proxyVars => ByteBudgetConserved'
    <2> SUFFICES ASSUME ProxyInv, ByteBudgetConserved, [ProxyNext]_proxyVars
                 PROVE  ByteBudgetConserved'
        OBVIOUS
    <2>1. ProxyTypeOK /\ ProxyTypeOK'
        BY ProxyNextHolds DEF ProxyInv
    <2>2. CASE UNCHANGED <<bytesFree, req>>
        BY <2>2 DEF ByteBudgetConserved, BytePermits
    <2> QED
        BY <2>1, <2>2, BytesMove, BytesStep
<1> QED
    BY <1>1, <1>2, ProxyInitHolds, ProxyNextHolds, PTL DEF ProxySpec

-----------------------------------------------------------------------------
(* The three pools *)

\* What a step may do to the holders of a pool and to the permits left in it.
PermitStep(User, held, free, held2, free2) ==
    \/ held2 = held /\ free2 = free
    \/ \E u \in User \ held :
          free > 0 /\ held2 = held \cup {u} /\ free2 = free - 1
    \/ \E u \in held :
          held2 = held \ {u} /\ free2 = free + 1

\* One holder more or less, with one free permit less or more, keeps the sum.
LEMMA PermitStepConserves ==
    ASSUME NEW User, IsFiniteSet(User), NEW capacity \in Nat,
           NEW held \in SUBSET User, NEW free \in Nat,
           free + Cardinality(held) = capacity,
           NEW held2, NEW free2, PermitStep(User, held, free, held2, free2)
    PROVE  free2 \in Nat /\ free2 + Cardinality(held2) = capacity
<1>1. IsFiniteSet(held) /\ Cardinality(held) \in Nat
    BY FS_Subset, FS_CardinalityType
<1>2. CASE held2 = held /\ free2 = free
    BY <1>2
<1>3. ASSUME NEW u \in User \ held,
             free > 0, held2 = held \cup {u}, free2 = free - 1
      PROVE  free2 \in Nat /\ free2 + Cardinality(held2) = capacity
    <2>1. Cardinality(held2) = Cardinality(held) + 1
        BY <1>1, <1>3, FS_AddElement
    <2> QED
        BY <1>1, <1>3, <2>1
<1>4. ASSUME NEW u \in held, held2 = held \ {u}, free2 = free + 1
      PROVE  free2 \in Nat /\ free2 + Cardinality(held2) = capacity
    <2>1. Cardinality(held2) = Cardinality(held) - 1
        BY <1>1, <1>4, FS_RemoveElement
    <2> QED
        BY <1>1, <1>4, <2>1
<1> QED
    BY <1>2, <1>3, <1>4 DEF PermitStep

One(condition) == IF condition THEN 1 ELSE 0

\* One user moves: it is, or is not, a holder before, and is, or is not, after.
LEMMA MoveIsPermitStep ==
    ASSUME NEW User, NEW held \in SUBSET User, NEW u \in User, NEW free \in Nat,
           NEW held2, NEW free2,
           \/ held2 = held \cup {u}
           \/ held2 = held \ {u},
           free2 = free + One(u \in held) - One(u \in held2),
           u \in held2 /\ u \notin held => free > 0
    PROVE  PermitStep(User, held, free, held2, free2)
<1>1. CASE u \in held /\ u \in held2
    <2>1. held2 = held /\ free2 = free
        BY <1>1 DEF One
    <2> QED
        BY <2>1 DEF PermitStep
<1>2. CASE u \notin held /\ u \in held2
    <2>1. free > 0 /\ held2 = held \cup {u} /\ free2 = free - 1
        BY <1>2 DEF One
    <2> QED
        BY <1>2, <2>1 DEF PermitStep
<1>3. CASE u \in held /\ u \notin held2
    <2>1. held2 = held \ {u} /\ free2 = free + 1
        BY <1>3 DEF One
    <2> QED
        BY <1>3, <2>1 DEF PermitStep
<1>4. CASE u \notin held /\ u \notin held2
    <2>1. held2 = held /\ free2 = free
        BY <1>4 DEF One
    <2> QED
        BY <2>1 DEF PermitStep
<1> QED
    BY <1>1, <1>2, <1>3, <1>4

-----------------------------------------------------------------------------
(* Which permits a connection has follows from its stage. *)

HttpUnused == httpFree + One(listener = "listening")

\* Client c goes to stage s, with the permits it gains and loses on the way.
ClientMoves(c, s) ==
    /\ stage' = [stage EXCEPT ![c] = s]
    /\ connFree' = connFree + One(stage[c] \in HandlerStages)
                            - One(s \in HandlerStages)
    /\ s \in HandlerStages /\ stage[c] \notin HandlerStages => connFree > 0
    /\ backendFree' = backendFree + One(stage[c] \in BackendStages)
                                  - One(s \in BackendStages)
    /\ s \in BackendStages /\ stage[c] \notin BackendStages => backendFree > 0

PeerMoves(h, s) ==
    /\ hstage' = [hstage EXCEPT ![h] = s]
    /\ HttpUnused' = HttpUnused + One(hstage[h] \in OpenStages)
                                - One(s \in OpenStages)
    /\ s \in OpenStages /\ hstage[h] \notin OpenStages => HttpUnused > 0
    /\ backendFree' = backendFree + One(hstage[h] = "operating")
                                  - One(s = "operating")
    /\ s = "operating" /\ hstage[h] # "operating" => backendFree > 0

StagesOK ==
    /\ stage \in [Clients -> Stages]
    /\ hstage \in [HttpClients -> HttpStages]
    /\ listener \in {"acquiring", "listening", "stopped"}
    /\ connFree \in Nat
    /\ httpFree \in Nat
    /\ backendFree \in Nat

\* Every action of the proxy that concerns one client moves it like that.
LEMMA ClientStep ==
    ASSUME StagesOK, NEW c \in Clients,
           Connect(c) \/ TakeFromBacklog(c) \/ RefusalEnds(c) \/ HandlerStep(c)
             \/ ChildExecutes(c)
    PROVE  \E s \in Stages : ClientMoves(c, s)
<1> USE DEF StagesOK, ClientMoves, One, Stages, HandlerStages, BackendStages
<1>1. CASE Connect(c) \/ TakeFromBacklog(c) \/ RefusalEnds(c) \/ ChildExecutes(c)
    <2>1. CASE Connect(c)
        BY <2>1 DEF Connect
    <2>2. CASE Accept(c)
        BY <2>2 DEF Accept
    <2>3. CASE Refuse(c)
        BY <2>3 DEF Refuse
    <2>4. CASE RefusalEnds(c)
        BY <2>4 DEF RefusalEnds
    <2>5. CASE ChildExecutes(c)
        BY <2>5 DEF ChildExecutes
    <2> QED
        BY <1>1, <2>1, <2>2, <2>3, <2>4, <2>5 DEF TakeFromBacklog
<1>2. CASE HandlerStep(c)
    <2>1. CASE ClientEof(c)
        BY <2>1 DEF ClientEof, CloseClient
    <2>2. CASE ReadFails(c)
        BY <2>2 DEF ReadFails, FailRequest, ReadingStages
    <2>3. CASE ReadEmptyCommand(c)
        BY <2>3 DEF ReadEmptyCommand
    <2>4. ASSUME NEW count \in 1..MAX_ARGUMENTS, ReadCommandHeader(c, count)
          PROVE  \E s \in Stages : ClientMoves(c, s)
        BY <2>4 DEF ReadCommandHeader, FailRequest
    <2>5. ASSUME NEW length \in 0..MAX_REQUEST_BULK, ReadArgumentHeader(c, length)
          PROVE  \E s \in Stages : ClientMoves(c, s)
        BY <2>5 DEF ReadArgumentHeader, FailRequest
    <2>6. ASSUME NEW kind \in Kinds, ReadPayload(c, kind)
          PROVE  \E s \in Stages : ClientMoves(c, s)
        <3>1. PICK s \in {"decoded", "argument"} : stage' = [stage EXCEPT ![c] = s]
            BY <2>6 DEF ReadPayload
        <3>2. stage[c] = "payload" /\ UNCHANGED <<connFree, backendFree>>
            BY <2>6 DEF ReadPayload
        <3>3. ClientMoves(c, s) /\ s \in Stages
            BY <3>1, <3>2
        <3> QED
            BY <3>3
    <2>7. CASE RejectByPolicy(c)
        BY <2>7 DEF RejectByPolicy
    <2>8. CASE RejectBusy(c)
        BY <2>8 DEF RejectBusy, BackendBusy
    <2>9. CASE AnswerWritten(c)
        BY <2>9 DEF AnswerWritten
    <2>10. CASE AnswerFails(c)
        BY <2>10 DEF AnswerFails, CloseClient
    <2>11. CASE Dispatch(c)
        BY <2>11 DEF Dispatch, TryAcquireBackend
    <2>12. CASE UpstreamConnected(c)
        BY <2>12 DEF UpstreamConnected
    <2>13. CASE UpstreamFails(c)
        BY <2>13 DEF UpstreamFails
    <2>14. CASE ReplyRead(c)
        BY <2>14 DEF ReplyRead
    <2>15. CASE ReplyWritten(c)
        BY <2>15 DEF ReplyWritten, DropBackend, CloseClient
    <2>16. CASE ReplyWriteFails(c)
        BY <2>16 DEF ReplyWriteFails, DropBackend, CloseClient
    <2>17. CASE ClosingEnds(c)
        BY <2>17 DEF ClosingEnds, CloseClient
    <2> QED
        BY <1>2, <2>1, <2>2, <2>3, <2>4, <2>5, <2>6, <2>7, <2>8, <2>9, <2>10, <2>11, <2>12, <2>13, <2>14, <2>15, <2>16, <2>17 DEF HandlerStep
<1> QED
    BY <1>1, <1>2

\* So does every action of the HTTP API with its connection.
LEMMA PeerStep ==
    ASSUME StagesOK, NEW h \in HttpClients,
           HttpConnect(h) \/ HttpAccept(h) \/ ConnectionEnds(h) \/ ReadRequest(h)
             \/ HandlerRuns(h) \/ ResponseWritten(h)
    PROVE  \E s \in HttpStages : PeerMoves(h, s)
<1> USE DEF StagesOK, PeerMoves, HttpUnused, One, HttpStages, OpenStages
<1>1. CASE HttpConnect(h)
    BY <1>1 DEF HttpConnect
<1>2. CASE HttpAccept(h)
    BY <1>2 DEF HttpAccept
<1>3. CASE ConnectionEnds(h)
    BY <1>3 DEF ConnectionEnds, CloseHttp, DropBackend
<1>4. CASE ReadRequest(h)
    BY <1>4 DEF ReadRequest
<1>5. CASE RespondWithoutBackend(h)
    BY <1>5 DEF RespondWithoutBackend, Respond
<1>6. CASE RespondBusy(h)
    <2>1. PeerMoves(h, "responding")
        BY <1>6 DEF RespondBusy, BackendBusy, Respond
    <2> QED
        BY <2>1
<1>7. CASE StartOperation(h)
    BY <1>7 DEF StartOperation, TryAcquireBackend
<1>8. CASE NextOperation(h)
    BY <1>8 DEF NextOperation
<1>9. CASE OperationSucceeds(h)
    BY <1>9 DEF OperationSucceeds, Respond, DropBackend
<1>10. CASE OperationFails(h)
    BY <1>10 DEF OperationFails, Respond, DropBackend
<1>11. CASE ResponseWritten(h)
    BY <1>11 DEF ResponseWritten
<1> QED
    BY <1>1, <1>2, <1>3, <1>4, <1>5, <1>6, <1>7, <1>8, <1>9, <1>10, <1>11 DEF HandlerRuns

-----------------------------------------------------------------------------
(* The holders of each pool, and what such a move does to them. *)

\* A connection that changes stage joins or leaves the holders of the proxy's
\* permits by its new stage alone.
LEMMA ClientHolders ==
    ASSUME StagesOK, NEW c \in Clients, NEW s \in Stages,
           stage' = [stage EXCEPT ![c] = s]
    PROVE  /\ ConnectionHolders' = IF s \in HandlerStages THEN ConnectionHolders \cup {c}
                                                        ELSE ConnectionHolders \ {c}
           /\ ProxyBackendHolders' = IF s \in BackendStages THEN ProxyBackendHolders \cup {c}
                                                          ELSE ProxyBackendHolders \ {c}
BY DEF StagesOK, ConnectionHolders, ProxyBackendHolders

\* The same for an HTTP connection and the holders of its permits.
LEMMA PeerHolders ==
    ASSUME StagesOK, NEW h \in HttpClients, NEW s \in HttpStages,
           hstage' = [hstage EXCEPT ![h] = s]
    PROVE  /\ HttpConnectionHolders' =
                IF s \in OpenStages THEN HttpConnectionHolders \cup {h}
                                    ELSE HttpConnectionHolders \ {h}
           /\ HttpBackendHolders' =
                IF s = "operating" THEN HttpBackendHolders \cup {h}
                                   ELSE HttpBackendHolders \ {h}
BY DEF StagesOK, HttpConnectionHolders, HttpBackendHolders

\* What one step does to the three pools.
PoolSteps ==
    /\ PermitStep(Clients, ConnectionHolders, connFree, ConnectionHolders', connFree')
    /\ PermitStep(HttpClients, HttpConnectionHolders, HttpUnused,
                  HttpConnectionHolders', HttpUnused')
    /\ PermitStep(Clients \cup HttpClients, BackendHolders, backendFree,
                  BackendHolders', backendFree')

\* A move of a connection takes or returns a permit of each pool exactly as it
\* joins or leaves the holders.
LEMMA ClientMovesPools ==
    ASSUME StagesOK, NEW c \in Clients, NEW s \in Stages, ClientMoves(c, s),
           UNCHANGED httpOwn
    PROVE  PoolSteps
<1>1. PermitStep(Clients, ConnectionHolders, connFree, ConnectionHolders', connFree')
    <2>1. c \in ConnectionHolders <=> stage[c] \in HandlerStages
        BY DEF ConnectionHolders
    <2>2. /\ ConnectionHolders' = ConnectionHolders \cup {c}
             \/ ConnectionHolders' = ConnectionHolders \ {c}
          /\ c \in ConnectionHolders' <=> s \in HandlerStages
        BY ClientHolders DEF ClientMoves
    <2>3. ConnectionHolders \in SUBSET Clients
        BY DEF ConnectionHolders
    <2>4. connFree' = connFree + One(c \in ConnectionHolders)
                               - One(c \in ConnectionHolders')
        BY <2>1, <2>2 DEF ClientMoves, One
    <2>5. c \in ConnectionHolders' /\ c \notin ConnectionHolders => connFree > 0
        BY <2>1, <2>2 DEF ClientMoves
    <2> QED
        BY <2>2, <2>3, <2>4, <2>5, MoveIsPermitStep DEF StagesOK
<1>2. HttpConnectionHolders' = HttpConnectionHolders /\ HttpUnused' = HttpUnused
    BY DEF httpOwn, HttpConnectionHolders, HttpUnused, One
<1>3. PermitStep(Clients \cup HttpClients, BackendHolders, backendFree,
                 BackendHolders', backendFree')
    <2>1. c \in BackendHolders <=> stage[c] \in BackendStages
        BY EntryPointsDistinct DEF EntryPointsDistinct, BackendHolders,
           ProxyBackendHolders, HttpBackendHolders
    <2>2. BackendHolders' = IF s \in BackendStages THEN BackendHolders \cup {c}
                                                   ELSE BackendHolders \ {c}
        BY EntryPointsDistinct, ClientHolders
        DEF EntryPointsDistinct, BackendHolders, HttpBackendHolders, httpOwn, ClientMoves
    <2>3. BackendHolders \in SUBSET (Clients \cup HttpClients)
        BY DEF BackendHolders, ProxyBackendHolders, HttpBackendHolders
    <2>4. backendFree' = backendFree + One(c \in BackendHolders)
                                     - One(c \in BackendHolders')
        BY <2>1, <2>2 DEF ClientMoves, One
    <2>5. c \in BackendHolders' /\ c \notin BackendHolders => backendFree > 0
        BY <2>1, <2>2 DEF ClientMoves
    <2> QED
        BY <2>2, <2>3, <2>4, <2>5, MoveIsPermitStep DEF StagesOK
<1> QED
    BY <1>1, <1>2, <1>3 DEF PoolSteps, PermitStep

\* The same for a move of an HTTP connection; both share the backend pool.
LEMMA PeerMovesPools ==
    ASSUME StagesOK, NEW h \in HttpClients, NEW s \in HttpStages, PeerMoves(h, s),
           UNCHANGED proxyOwn
    PROVE  PoolSteps
<1>1. PermitStep(HttpClients, HttpConnectionHolders, HttpUnused,
                 HttpConnectionHolders', HttpUnused')
    <2>1. h \in HttpConnectionHolders <=> hstage[h] \in OpenStages
        BY DEF HttpConnectionHolders
    <2>2. /\ HttpConnectionHolders' = HttpConnectionHolders \cup {h}
             \/ HttpConnectionHolders' = HttpConnectionHolders \ {h}
          /\ h \in HttpConnectionHolders' <=> s \in OpenStages
        BY PeerHolders DEF PeerMoves
    <2>3. HttpConnectionHolders \in SUBSET HttpClients
        BY DEF HttpConnectionHolders
    <2>4. HttpUnused' = HttpUnused + One(h \in HttpConnectionHolders)
                                   - One(h \in HttpConnectionHolders')
        BY <2>1, <2>2 DEF PeerMoves, One
    <2>5. h \in HttpConnectionHolders' /\ h \notin HttpConnectionHolders => HttpUnused > 0
        BY <2>1, <2>2 DEF PeerMoves
    <2>6. HttpUnused \in Nat
        BY DEF HttpUnused, One, StagesOK
    <2> QED
        BY <2>2, <2>3, <2>4, <2>5, <2>6, MoveIsPermitStep
<1>2. ConnectionHolders' = ConnectionHolders /\ connFree' = connFree
    BY DEF proxyOwn, ConnectionHolders
<1>3. PermitStep(Clients \cup HttpClients, BackendHolders, backendFree,
                 BackendHolders', backendFree')
    <2>1. h \in BackendHolders <=> hstage[h] = "operating"
        BY EntryPointsDistinct DEF EntryPointsDistinct, BackendHolders,
           ProxyBackendHolders, HttpBackendHolders
    <2>2. BackendHolders' = IF s = "operating" THEN BackendHolders \cup {h}
                                              ELSE BackendHolders \ {h}
        BY EntryPointsDistinct, PeerHolders
        DEF EntryPointsDistinct, BackendHolders, ProxyBackendHolders, proxyOwn, PeerMoves
    <2>3. BackendHolders \in SUBSET (Clients \cup HttpClients)
        BY DEF BackendHolders, ProxyBackendHolders, HttpBackendHolders
    <2>4. backendFree' = backendFree + One(h \in BackendHolders)
                                     - One(h \in BackendHolders')
        BY <2>1, <2>2 DEF PeerMoves, One
    <2>5. h \in BackendHolders' /\ h \notin BackendHolders => backendFree > 0
        BY <2>1, <2>2 DEF PeerMoves
    <2> QED
        BY <2>2, <2>3, <2>4, <2>5, MoveIsPermitStep DEF StagesOK
<1> QED
    BY <1>1, <1>2, <1>3 DEF PoolSteps, PermitStep

\* The steps of the accept loops and of the shutdown give and take nothing.
LEMMA LoopStep ==
    ASSUME StagesOK,
           \/ (RequestShutdown \/ StopAccepting) /\ UNCHANGED httpOwn
           \/ (AcquireConnection \/ BeginDrain \/ StopListening) /\ UNCHANGED proxyOwn
           \/ UNCHANGED playgroundVars
    PROVE  PoolSteps
<1>1. backendFree' = backendFree
    BY DEF RequestShutdown, StopAccepting, AcquireConnection, BeginDrain,
           StopListening, playgroundVars
<1>2. ConnectionHolders' = ConnectionHolders /\ ProxyBackendHolders' = ProxyBackendHolders
      /\ connFree' = connFree
    BY DEF StagesOK, RequestShutdown, StopAccepting, playgroundVars, proxyOwn,
           ConnectionHolders, ProxyBackendHolders, HandlerStages, BackendStages
<1>3. HttpConnectionHolders' = HttpConnectionHolders
      /\ HttpBackendHolders' = HttpBackendHolders /\ HttpUnused' = HttpUnused
    BY DEF StagesOK, AcquireConnection, BeginDrain, StopListening, playgroundVars, httpOwn,
           HttpConnectionHolders, HttpBackendHolders, HttpUnused, OpenStages, One
<1> QED
    BY <1>1, <1>2, <1>3 DEF PoolSteps, PermitStep, BackendHolders

-----------------------------------------------------------------------------
(* The inductive invariant and the theorems *)

IInv ==
    /\ StagesOK
    /\ ConnectionPermitsConserved
    /\ HttpPermitsConserved
    /\ BackendPermitsConserved

\* At the start nobody holds a permit.
LEMMA InitHolders ==
    PlaygroundInit => /\ ConnectionHolders = {}
                      /\ HttpConnectionHolders = {}
                      /\ BackendHolders = {}
BY DEF PlaygroundInit, ProxyInit, HttpInit, ConnectionHolders, HandlerStages,
       BackendHolders, ProxyBackendHolders, BackendStages, HttpBackendHolders,
       HttpConnectionHolders, OpenStages

\* At the start every pool is full and has no holder.
LEMMA InitIInv == PlaygroundInit => IInv
<1> SUFFICES ASSUME PlaygroundInit PROVE IInv
    OBVIOUS
<1>1. StagesOK
    BY BackendPoolAssumption, ProxyAssumption, HttpAssumption
    DEF PlaygroundInit, ProxyInit, HttpInit, BackendInit, StagesOK, Stages, HttpStages,
        BackendPoolAssumption, ProxyAssumption, HttpAssumption
<1>2. ConnectionHolders = {} /\ HttpConnectionHolders = {} /\ BackendHolders = {}
    BY InitHolders
<1>3. Cardinality({}) = 0
    BY FS_EmptySet
<1>4. ConnectionPermitsConserved /\ HttpPermitsConserved /\ BackendPermitsConserved
    BY <1>2, <1>3, BackendPoolAssumption, ProxyAssumption, HttpAssumption
    DEF PlaygroundInit, ProxyInit, HttpInit, BackendInit, ConnectionPermitsConserved,
        HttpPermitsConserved, BackendPermitsConserved,
        BackendPoolAssumption, ProxyAssumption, HttpAssumption
<1> QED
    BY <1>1, <1>4 DEF IInv

\* Every step is a step of the three pools.
LEMMA NextPools == StagesOK /\ [PlaygroundNext]_playgroundVars => PoolSteps
<1> SUFFICES ASSUME StagesOK, [PlaygroundNext]_playgroundVars PROVE PoolSteps
    OBVIOUS
<1>1. ASSUME NEW c \in Clients, UNCHANGED httpOwn,
             Connect(c) \/ TakeFromBacklog(c) \/ RefusalEnds(c) \/ HandlerStep(c)
               \/ ChildExecutes(c)
      PROVE  PoolSteps
    BY <1>1, ClientStep, ClientMovesPools
<1>2. ASSUME NEW h \in HttpClients, UNCHANGED proxyOwn,
             HttpConnect(h) \/ HttpAccept(h) \/ ConnectionEnds(h) \/ ReadRequest(h)
               \/ HandlerRuns(h) \/ ResponseWritten(h)
      PROVE  PoolSteps
    BY <1>2, PeerStep, PeerMovesPools
<1>3. ASSUME \/ (RequestShutdown \/ StopAccepting) /\ UNCHANGED httpOwn
             \/ (AcquireConnection \/ BeginDrain \/ StopListening) /\ UNCHANGED proxyOwn
             \/ UNCHANGED playgroundVars
      PROVE  PoolSteps
    BY <1>3, LoopStep
<1> QED
    BY <1>1, <1>2, <1>3 DEF PlaygroundNext, ProxyNext, HttpNext

\* Stages stay stages, and the listener's own permit is never given twice.
LEMMA NextStages ==
    ASSUME StagesOK, [PlaygroundNext]_playgroundVars
    PROVE  /\ stage' \in [Clients -> Stages]
           /\ hstage' \in [HttpClients -> HttpStages]
           /\ listener' \in {"acquiring", "listening", "stopped"}
           /\ httpFree' \in Nat
<1>1. CASE ProxyNext /\ UNCHANGED httpOwn
    <2>1. stage' \in [Clients -> Stages]
        <3>1. ASSUME NEW c \in Clients, NEW s \in Stages, ClientMoves(c, s)
              PROVE  stage' \in [Clients -> Stages]
            BY <3>1 DEF ClientMoves, StagesOK
        <3>2. CASE RequestShutdown \/ StopAccepting
            BY <3>2 DEF RequestShutdown, StopAccepting, StagesOK, Stages
        <3> QED
            BY <1>1, <3>1, <3>2, ClientStep DEF ProxyNext
    <2> QED
        BY <1>1, <2>1 DEF httpOwn, StagesOK
<1>2. CASE HttpNext /\ UNCHANGED proxyOwn
    <2>1. hstage' \in [HttpClients -> HttpStages]
        <3>1. ASSUME NEW h \in HttpClients, NEW s \in HttpStages, PeerMoves(h, s)
              PROVE  hstage' \in [HttpClients -> HttpStages]
            BY <3>1 DEF PeerMoves, StagesOK
        <3>2. CASE AcquireConnection \/ BeginDrain \/ StopListening
            BY <3>2 DEF AcquireConnection, BeginDrain, StopListening, StagesOK, HttpStages
        <3> QED
            BY <1>2, <3>1, <3>2, PeerStep DEF HttpNext
    <2>2. listener' \in {"acquiring", "listening", "stopped"} /\ httpFree' \in Nat
        BY <1>2 DEF HttpNext, StagesOK, HttpConnect, HttpAccept, ConnectionEnds, CloseHttp,
               ReadRequest, HandlerRuns, RespondWithoutBackend, RespondBusy, Respond,
               StartOperation, NextOperation, OperationSucceeds, OperationFails,
               ResponseWritten, AcquireConnection, BeginDrain, StopListening
    <2> QED
        BY <1>2, <2>1, <2>2 DEF proxyOwn, StagesOK
<1>3. CASE UNCHANGED playgroundVars
    BY <1>3 DEF playgroundVars, proxyOwn, httpOwn, StagesOK
<1> QED
    BY <1>1, <1>2, <1>3 DEF PlaygroundNext

\* A pool step keeps the sum of holders and free permits.
LEMMA NextIInv == IInv /\ [PlaygroundNext]_playgroundVars => IInv'
<1> SUFFICES ASSUME IInv, [PlaygroundNext]_playgroundVars PROVE IInv'
    OBVIOUS
<1>1. PoolSteps
    BY NextPools DEF IInv
<1>2. IsFiniteSet(Clients) /\ IsFiniteSet(HttpClients)
      /\ IsFiniteSet(Clients \cup HttpClients)
    BY ProxyAssumption, HttpAssumption, FS_Union DEF ProxyAssumption, HttpAssumption
<1>3. connFree' \in Nat /\ ConnectionPermitsConserved'
    <2>1. ConnectionHolders \in SUBSET Clients /\ connFree \in Nat
          /\ MAX_CONNECTIONS \in Nat
        BY ProxyAssumption DEF ProxyAssumption, ConnectionHolders, IInv, StagesOK
    <2> QED
        BY <1>1, <1>2, <2>1, PermitStepConserves
        DEF IInv, ConnectionPermitsConserved, PoolSteps
<1>4. HttpPermitsConserved'
    <2>1. HttpConnectionHolders \in SUBSET HttpClients /\ HttpUnused \in Nat
          /\ MAX_HTTP_CONNECTIONS \in Nat
        BY HttpAssumption
        DEF HttpAssumption, HttpConnectionHolders, HttpUnused, One, IInv, StagesOK
    <2>2. HttpUnused + Cardinality(HttpConnectionHolders) = MAX_HTTP_CONNECTIONS
        <3>1. Cardinality(HttpConnectionHolders) \in Nat
            BY <1>2, <2>1, FS_Subset, FS_CardinalityType
        <3> QED
            BY <3>1 DEF IInv, HttpPermitsConserved, HttpUnused, One, StagesOK
    <2>3. HttpUnused' + Cardinality(HttpConnectionHolders') = MAX_HTTP_CONNECTIONS
        BY <1>1, <1>2, <2>1, <2>2, PermitStepConserves DEF PoolSteps
    <2>4. Cardinality(HttpConnectionHolders') \in Nat
        <3>1. HttpConnectionHolders' \in SUBSET HttpClients
            BY DEF HttpConnectionHolders
        <3> QED
            BY <1>2, <3>1, FS_Subset, FS_CardinalityType
    <2>5. httpFree' \in Nat
        BY NextStages DEF IInv
    <2> QED
        BY <2>3, <2>4, <2>5 DEF HttpPermitsConserved, HttpUnused, One
<1>5. backendFree' \in Nat /\ BackendPermitsConserved'
    <2>1. BackendHolders \in SUBSET (Clients \cup HttpClients) /\ backendFree \in Nat
          /\ MAX_BACKEND_OPERATIONS \in Nat
        BY BackendPoolAssumption
        DEF BackendPoolAssumption, BackendHolders, ProxyBackendHolders, HttpBackendHolders,
            IInv, StagesOK
    <2> QED
        BY <1>1, <1>2, <2>1, PermitStepConserves
        DEF IInv, BackendPermitsConserved, PoolSteps
<1>6. StagesOK'
    BY <1>3, <1>5, NextStages DEF StagesOK, IInv
<1> QED
    BY <1>3, <1>4, <1>5, <1>6 DEF IInv

\* Along every behaviour the permits of each pool and its holders add up.
THEOREM InvariantHolds == PlaygroundSpec => []IInv
BY InitIInv, NextIInv, PTL DEF PlaygroundSpec

\* proxy.rs: no way out of a handler leaks a connection permit or returns one twice.
THEOREM ConnectionPermits == PlaygroundSpec => []ConnectionPermitsConserved
<1>1. IInv => ConnectionPermitsConserved
    BY DEF IInv
<1> QED
    BY <1>1, InvariantHolds, PTL

\* http.rs: a connection permit is free, with the listener or with an open connection.
THEOREM HttpPermits == PlaygroundSpec => []HttpPermitsConserved
<1>1. IInv => HttpPermitsConserved
    BY DEF IInv
<1> QED
    BY <1>1, InvariantHolds, PTL

\* proxy.rs and http.rs together: the shared pool's permits out are exactly the
\* handlers of either entry point that run a backend operation.
THEOREM BackendPermits == PlaygroundSpec => []BackendPermitsConserved
<1>1. IInv => BackendPermitsConserved
    BY DEF IInv
<1> QED
    BY <1>1, InvariantHolds, PTL

-----------------------------------------------------------------------------
(* Each pool with its holders implements PermitPool. *)

\* A permit is free only while fewer than capacity users hold one.
LEMMA PermitStepImplements ==
    ASSUME NEW User, IsFiniteSet(User), NEW capacity \in Nat,
           NEW held \in SUBSET User, NEW free \in Nat,
           free + Cardinality(held) = capacity,
           NEW held2, NEW free2, PermitStep(User, held, free, held2, free2)
    PROVE  \/ held2 = held
           \/ \E u \in User :
                 \/ u \notin held /\ Cardinality(held) < capacity
                      /\ held2 = held \cup {u}
                 \/ u \in held /\ held2 = held \ {u}
<1>1. Cardinality(held) \in Nat
    BY FS_Subset, FS_CardinalityType
<1>2. free > 0 => Cardinality(held) < capacity
    BY <1>1
<1> QED
    BY <1>2 DEF PermitStep

\* proxy.rs: the clients being served form a pool of MAX_CONNECTIONS permits.
THEOREM ProxyConnectionsRefinement == PlaygroundSpec => ProxyConnectionsImplemented
<1>1. PlaygroundInit => ProxyConnections!PoolInit
    BY InitHolders DEF ProxyConnections!PoolInit
<1>2. IInv /\ [PlaygroundNext]_playgroundVars
        => [ProxyConnections!PoolNext]_ConnectionHolders
    <2> SUFFICES ASSUME IInv, [PlaygroundNext]_playgroundVars
                 PROVE  [ProxyConnections!PoolNext]_ConnectionHolders
        OBVIOUS
    <2>1. IsFiniteSet(Clients) /\ ConnectionHolders \in SUBSET Clients
          /\ connFree \in Nat /\ MAX_CONNECTIONS \in Nat
        BY ProxyAssumption DEF ProxyAssumption, ConnectionHolders, IInv, StagesOK
    <2>2. PermitStep(Clients, ConnectionHolders, connFree, ConnectionHolders', connFree')
        BY NextPools DEF IInv, PoolSteps
    <2>3. \/ ConnectionHolders' = ConnectionHolders
         \/ \E u \in Clients :
               \/ u \notin ConnectionHolders /\ Cardinality(ConnectionHolders) < MAX_CONNECTIONS
                    /\ ConnectionHolders' = ConnectionHolders \cup {u}
               \/ u \in ConnectionHolders /\ ConnectionHolders' = ConnectionHolders \ {u}
        BY <2>1, <2>2, PermitStepImplements
        DEF IInv, ConnectionPermitsConserved
    <2>4. ProxyConnections!Cardinality(ConnectionHolders) = Cardinality(ConnectionHolders)
        BY DEF ProxyConnections!Cardinality, Cardinality
    <2> QED
        BY <2>3, <2>4 DEF ProxyConnections!PoolNext, ProxyConnections!Take, ProxyConnections!GiveBack
<1> QED
    BY <1>1, <1>2, InvariantHolds, PTL
    DEF PlaygroundSpec, ProxyConnectionsImplemented, ProxyConnections!PoolSpec

\* http.rs: the open connections form a pool of MAX_HTTP_CONNECTIONS permits.
THEOREM HttpConnectionsRefinement == PlaygroundSpec => HttpConnectionsImplemented
<1>1. PlaygroundInit => HttpConnections!PoolInit
    BY InitHolders DEF HttpConnections!PoolInit
<1>2. IInv /\ [PlaygroundNext]_playgroundVars
        => [HttpConnections!PoolNext]_HttpConnectionHolders
    <2> SUFFICES ASSUME IInv, [PlaygroundNext]_playgroundVars
                 PROVE  [HttpConnections!PoolNext]_HttpConnectionHolders
        OBVIOUS
    <2>1. IsFiniteSet(HttpClients) /\ HttpConnectionHolders \in SUBSET HttpClients
          /\ HttpUnused \in Nat /\ MAX_HTTP_CONNECTIONS \in Nat
        BY HttpAssumption
        DEF HttpAssumption, HttpConnectionHolders, HttpUnused, One, IInv, StagesOK
    <2>2. HttpUnused + Cardinality(HttpConnectionHolders) = MAX_HTTP_CONNECTIONS
        <3>1. Cardinality(HttpConnectionHolders) \in Nat
            BY <2>1, FS_Subset, FS_CardinalityType
        <3> QED
            BY <3>1 DEF IInv, HttpPermitsConserved, HttpUnused, One, StagesOK
    <2>3. PermitStep(HttpClients, HttpConnectionHolders, HttpUnused,
                     HttpConnectionHolders', HttpUnused')
        BY NextPools DEF IInv, PoolSteps
    <2>4. \/ HttpConnectionHolders' = HttpConnectionHolders
         \/ \E u \in HttpClients :
               \/ u \notin HttpConnectionHolders /\ Cardinality(HttpConnectionHolders) < MAX_HTTP_CONNECTIONS
                    /\ HttpConnectionHolders' = HttpConnectionHolders \cup {u}
               \/ u \in HttpConnectionHolders /\ HttpConnectionHolders' = HttpConnectionHolders \ {u}
        BY <2>1, <2>2, <2>3, PermitStepImplements
    <2>5. HttpConnections!Cardinality(HttpConnectionHolders) = Cardinality(HttpConnectionHolders)
        BY DEF HttpConnections!Cardinality, Cardinality
    <2> QED
        BY <2>4, <2>5 DEF HttpConnections!PoolNext, HttpConnections!Take, HttpConnections!GiveBack
<1> QED
    BY <1>1, <1>2, InvariantHolds, PTL
    DEF PlaygroundSpec, HttpConnectionsImplemented, HttpConnections!PoolSpec

\* main.rs: the handlers of both entry points that run a backend operation form
\* one pool of MAX_BACKEND_OPERATIONS permits.
THEOREM BackendPoolRefinement == PlaygroundSpec => BackendPoolImplemented
<1>1. PlaygroundInit => BackendOperations!PoolInit
    BY InitHolders DEF BackendOperations!PoolInit
<1>2. IInv /\ [PlaygroundNext]_playgroundVars
        => [BackendOperations!PoolNext]_BackendHolders
    <2> SUFFICES ASSUME IInv, [PlaygroundNext]_playgroundVars
                 PROVE  [BackendOperations!PoolNext]_BackendHolders
        OBVIOUS
    <2>1. IsFiniteSet(Clients \cup HttpClients)
        BY ProxyAssumption, HttpAssumption, FS_Union DEF ProxyAssumption, HttpAssumption
    <2>2. BackendHolders \in SUBSET (Clients \cup HttpClients) /\ backendFree \in Nat
          /\ MAX_BACKEND_OPERATIONS \in Nat
        BY BackendPoolAssumption
        DEF BackendPoolAssumption, BackendHolders, ProxyBackendHolders, HttpBackendHolders,
            IInv, StagesOK
    <2>3. PermitStep(Clients \cup HttpClients, BackendHolders, backendFree,
                     BackendHolders', backendFree')
        BY NextPools DEF IInv, PoolSteps
    <2>4. \/ BackendHolders' = BackendHolders
         \/ \E u \in (Clients \cup HttpClients) :
               \/ u \notin BackendHolders /\ Cardinality(BackendHolders) < MAX_BACKEND_OPERATIONS
                    /\ BackendHolders' = BackendHolders \cup {u}
               \/ u \in BackendHolders /\ BackendHolders' = BackendHolders \ {u}
        BY <2>1, <2>2, <2>3, PermitStepImplements
        DEF IInv, BackendPermitsConserved
    <2>5. BackendOperations!Cardinality(BackendHolders) = Cardinality(BackendHolders)
        BY DEF BackendOperations!Cardinality, Cardinality
    <2> QED
        BY <2>4, <2>5 DEF BackendOperations!PoolNext, BackendOperations!Take, BackendOperations!GiveBack
<1> QED
    BY <1>1, <1>2, InvariantHolds, PTL
    DEF PlaygroundSpec, BackendPoolImplemented, BackendOperations!PoolSpec

\* main.rs: all three semaphores at once.
THEOREM Permits == PlaygroundSpec => []PermitsConserved
<1>1. IInv => PermitsConserved
    BY DEF IInv, PermitsConserved
<1> QED
    BY <1>1, InvariantHolds, PTL

\* main.rs: all three pools at once.
THEOREM PoolsRefinement == PlaygroundSpec => PoolsImplemented
BY BackendPoolRefinement, ProxyConnectionsRefinement, HttpConnectionsRefinement
DEF PoolsImplemented

\* http.rs, keys.rs: the HTTP side's state keeps its types: a key detail runs
\* no more than MaxKeyOperations commands, and a connection is in one stage of
\* its life whatever its peer, the handlers and the drain do.
THEOREM HttpTypes == HttpSpec => []HttpTypeOK
<1>1. HttpInit => HttpTypeOK
    <2> SUFFICES ASSUME HttpInit PROVE HttpTypeOK
        OBVIOUS
    <2>1. draining \in BOOLEAN
        BY Zenon DEF HttpInit
    <2>2. ops \in [HttpClients -> 0..MaxKeyOperations]
        <3>1. 0 \in 0..MaxKeyOperations
            BY HttpAssumption DEF HttpAssumption
        <3> QED
            BY <3>1, Zenon DEF HttpInit
    <2> QED
        BY <2>1, <2>2, BackendPoolAssumption, HttpAssumption
        DEF HttpInit, BackendInit, HttpTypeOK, HttpStages, Statuses,
            BackendPoolAssumption, HttpAssumption
<1>2. HttpTypeOK /\ [HttpNext]_httpVars => HttpTypeOK'
    <2> SUFFICES ASSUME HttpTypeOK, [HttpNext]_httpVars PROVE HttpTypeOK'
        OBVIOUS
    <2>1. ASSUME NEW h \in HttpClients,
                 HttpConnect(h) \/ HttpAccept(h) \/ ReadRequest(h) \/ ResponseWritten(h)
          PROVE  HttpTypeOK'
        BY <2>1 DEF HttpConnect, HttpAccept, ReadRequest, ResponseWritten,
                    HttpTypeOK, HttpStages
    <2>2. ASSUME NEW h \in HttpClients, ConnectionEnds(h)
          PROVE  HttpTypeOK'
        BY <2>2, HttpAssumption
        DEF ConnectionEnds, CloseHttp, DropBackend, HttpTypeOK, HttpStages, HttpAssumption
    <2>3. ASSUME NEW h \in HttpClients, HandlerRuns(h)
          PROVE  HttpTypeOK'
        <3>1. CASE RespondWithoutBackend(h) \/ RespondBusy(h)
            BY <3>1, HttpAssumption
            DEF RespondWithoutBackend, RespondBusy, BackendBusy, Respond, HttpTypeOK,
                HttpStages, Statuses, HttpAssumption
        <3>2. CASE StartOperation(h)
            BY <3>2 DEF StartOperation, TryAcquireBackend, HttpTypeOK, HttpStages
        <3>3. CASE NextOperation(h)
            BY <3>3, HttpAssumption DEF NextOperation, HttpTypeOK, HttpAssumption
        <3>4. CASE OperationSucceeds(h) \/ OperationFails(h)
            BY <3>4, HttpAssumption
            DEF OperationSucceeds, OperationFails, Respond, DropBackend, HttpTypeOK,
                HttpStages, Statuses, HttpAssumption
        <3> QED
            BY <2>3, <3>1, <3>2, <3>3, <3>4 DEF HandlerRuns
    <2>4. CASE AcquireConnection \/ StopListening
        BY <2>4 DEF AcquireConnection, StopListening, HttpTypeOK, HttpStages
    <2>6. CASE BeginDrain
        <3>1. draining' \in BOOLEAN
            BY <2>6, Zenon DEF BeginDrain
        <3> QED
            BY <2>6, <3>1 DEF BeginDrain, HttpTypeOK
    <2>5. CASE UNCHANGED httpVars
        BY <2>5 DEF httpVars, httpOwn, HttpTypeOK
    <2> QED
        BY <2>1, <2>2, <2>3, <2>4, <2>5, <2>6 DEF HttpNext
<1> QED
    BY <1>1, <1>2, PTL DEF HttpSpec
=============================================================================
