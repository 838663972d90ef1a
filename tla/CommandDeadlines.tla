-------------------------- MODULE CommandDeadlines --------------------------
(***************************************************************************)
(* The deadlines of one public RESP connection (proxy.rs) against a clock. *)
(* PublicProxy lets a deadline fire at any time; this module measures how  *)
(* long one command can keep what it holds: its share of the byte budget   *)
(* from its first header line on, and a backend permit while it is served. *)
(* Time passes in ticks and never past a pending deadline.                 *)
(***************************************************************************)
EXTENDS Naturals

CONSTANTS
    CLIENT_IDLE_TIMEOUT,    \* around the whole of read_request
    CLIENT_READ_TIMEOUT,    \* around each read after the first header line
    CLIENT_WRITE_TIMEOUT,
    RESP_TIMEOUT,           \* around the connect and around the exchange
    MAX_ARGUMENTS

ASSUME DeadlinesAssumption ==
    /\ CLIENT_IDLE_TIMEOUT \in Nat
    /\ CLIENT_READ_TIMEOUT \in Nat
    /\ CLIENT_WRITE_TIMEOUT \in Nat
    /\ RESP_TIMEOUT \in Nat
    /\ MAX_ARGUMENTS \in Nat

VARIABLES
    phase,      \* what the handler awaits; "closed": no connection
    left,       \* arguments still to be read
    waited,     \* time since read_request was called
    spent,      \* time in the current await (a read, a connect, a write, ...)
    held,       \* age of the oldest reservation of this command
    permitAge,  \* age of the backend permit
    upstream,   \* the handler has an upstream connection
    lastError   \* why the connection is being closed

vars == <<phase, left, waited, spent, held, permitAge, upstream, lastError>>

Phases == {"closed", "header", "argument", "payload", "answer", "connect",
           "exchange", "reply", "closing"}
Reading == {"header", "argument", "payload"}
WithPermit == {"connect", "exchange", "reply"}
\* read_request has reserved bytes and the iteration has not ended.
WithReservation == {"argument", "payload", "answer"} \cup WithPermit

Init ==
    /\ phase = "closed"
    /\ left = 0
    /\ waited = 0
    /\ spent = 0
    /\ held = 0
    /\ permitAge = 0
    /\ upstream = FALSE
    /\ lastError = "none"

-----------------------------------------------------------------------------
\* The deadline of the innermost await.
AwaitDeadline(p) ==
    CASE p = "header"                          -> CLIENT_IDLE_TIMEOUT
      [] p \in {"argument", "payload"}         -> CLIENT_READ_TIMEOUT
      [] p \in {"connect", "exchange"}         -> RESP_TIMEOUT
      [] p \in {"answer", "reply", "closing"}  -> CLIENT_WRITE_TIMEOUT
      [] OTHER                                 -> 0

\* Mutant: the idle timeout bounds the wait for the header line only.
MayWait_PerRead == phase # "closed" /\ spent < AwaitDeadline(phase)

\* Mutant: the reply is written under the upstream's deadline.
MayWait_SwappedWrite ==
    /\ phase # "closed"
    /\ spent < IF phase = "reply" THEN RESP_TIMEOUT ELSE AwaitDeadline(phase)
    /\ phase \in Reading => waited < CLIENT_IDLE_TIMEOUT

\* No deadline is due.
MayWait ==
    /\ phase # "closed"
    /\ spent < AwaitDeadline(phase)
    /\ phase \in Reading => waited < CLIENT_IDLE_TIMEOUT

Tick ==
    /\ MayWait
    /\ spent' = spent + 1
    /\ waited' = IF phase \in Reading THEN waited + 1 ELSE waited
    /\ held' = IF phase \in WithReservation THEN held + 1 ELSE held
    /\ permitAge' = IF phase \in WithPermit THEN permitAge + 1 ELSE permitAge
    /\ UNCHANGED <<phase, left, upstream, lastError>>

\* The iteration ends and the handler calls read_request again.
AwaitCommand ==
    /\ phase' = "header"
    /\ left' = 0
    /\ waited' = 0
    /\ spent' = 0
    /\ held' = 0
    /\ permitAge' = 0

\* handle_connection returns.
Close ==
    /\ phase' = "closed"
    /\ left' = 0
    /\ waited' = 0
    /\ spent' = 0
    /\ held' = 0
    /\ permitAge' = 0
    /\ upstream' = FALSE
    /\ lastError' = "none"

\* read_request failed or was dropped: nothing is held, a last error is written.
LastError(why) ==
    /\ phase' = "closing"
    /\ lastError' = why
    /\ left' = 0
    /\ waited' = 0
    /\ spent' = 0
    /\ held' = 0
    /\ permitAge' = 0
    /\ UNCHANGED upstream

Open ==
    /\ phase = "closed"
    /\ AwaitCommand
    /\ UNCHANGED <<upstream, lastError>>

HeaderArrives ==
    /\ phase = "header"
    /\ left' \in 1..MAX_ARGUMENTS
    /\ phase' = "argument"
    /\ spent' = 0
    /\ UNCHANGED <<waited, held, permitAge, upstream, lastError>>

LengthArrives ==
    /\ phase = "argument"
    /\ phase' = "payload"
    /\ spent' = 0
    /\ UNCHANGED <<left, waited, held, permitAge, upstream, lastError>>

BytesArrive ==
    /\ phase = "payload"
    /\ left > 1
    /\ left' = left - 1
    /\ phase' = "argument"
    /\ spent' = 0
    /\ UNCHANGED <<waited, held, permitAge, upstream, lastError>>

\* The last argument is there: a rejection is written, or a permit is taken
\* and the command forwarded.
CommandArrives ==
    /\ phase = "payload"
    /\ left = 1
    /\ left' = 0
    /\ phase' \in {"answer", IF upstream THEN "exchange" ELSE "connect"}
    /\ spent' = 0
    /\ UNCHANGED <<waited, held, permitAge, upstream, lastError>>

FrameRejected ==
    /\ phase \in Reading
    /\ LastError("frame")

ReadTimeout ==
    /\ phase \in {"argument", "payload"}
    /\ spent = CLIENT_READ_TIMEOUT
    /\ LastError("read")

\* The timeout around read_request expires.
IdleTimeout ==
    /\ phase \in Reading
    /\ waited = CLIENT_IDLE_TIMEOUT
    /\ LastError("idle")

ClientLeaves ==
    /\ phase = "header"
    /\ Close

Connected ==
    /\ phase = "connect"
    /\ phase' = "exchange"
    /\ upstream' = TRUE
    /\ spent' = 0
    /\ UNCHANGED <<left, waited, held, permitAge, lastError>>

\* The upstream answered, failed or timed out.
ExchangeEnds ==
    /\ phase \in {"connect", "exchange"}
    /\ phase' = "reply"
    /\ \/ phase = "exchange" /\ UNCHANGED lastError
       \/ lastError' = "upstream"
    /\ spent' = 0
    /\ UNCHANGED <<left, waited, held, permitAge, upstream>>

WriteEnds ==
    /\ phase \in {"answer", "reply"}
    /\ lastError = "none"
    /\ AwaitCommand
    /\ UNCHANGED <<upstream, lastError>>

\* A write failed or timed out, or the error just written was the last word.
WriteCloses ==
    /\ phase \in {"answer", "reply", "closing"}
    /\ Close

Next ==
    \/ Tick
    \/ Open
    \/ HeaderArrives
    \/ LengthArrives
    \/ BytesArrive
    \/ CommandArrives
    \/ FrameRejected
    \/ ReadTimeout
    \/ IdleTimeout
    \/ ClientLeaves
    \/ Connected
    \/ ExchangeEnds
    \/ WriteEnds
    \/ WriteCloses

Spec == Init /\ [][Next]_vars

-----------------------------------------------------------------------------
(* Properties *)

TypeOK ==
    /\ phase \in Phases
    /\ left \in 0..MAX_ARGUMENTS
    /\ waited \in Nat
    /\ spent \in Nat
    /\ held \in Nat
    /\ permitAge \in Nat
    /\ upstream \in BOOLEAN
    /\ lastError \in {"none", "frame", "read", "idle", "upstream"}

\* A command keeps its share of the byte budget no longer than one idle
\* timeout of reading, two upstream deadlines and one write: however many
\* arguments a client trickles in, each within its own read deadline.
ReservationAgeBounded ==
    phase \in WithReservation =>
        held <= CLIENT_IDLE_TIMEOUT + 2 * RESP_TIMEOUT + CLIENT_WRITE_TIMEOUT

\* A backend permit is out for at most two upstream deadlines and one write.
PermitAgeBounded ==
    phase \in WithPermit =>
        permitAge <= 2 * RESP_TIMEOUT + CLIENT_WRITE_TIMEOUT
============================================================================
