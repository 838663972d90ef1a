----------------------- MODULE CommandDeadlinesProofs -----------------------
(***************************************************************************)
(* Proofs about CommandDeadlines, for every value of the timeouts: how old  *)
(* a byte reservation and a backend permit of one command can become.      *)
(***************************************************************************)
EXTENDS CommandDeadlines, TLAPS

\* Why the bounds hold: the age of what a command holds is split along the
\* awaits it has gone through.  Reading as a whole is under one timeout, each
\* later await under its own, and `spent` is the part of the current one.
AgeInv ==
    /\ phase # "closed" => spent <= AwaitDeadline(phase)
    /\ phase \in Reading => waited <= CLIENT_IDLE_TIMEOUT /\ held <= waited
    /\ phase = "answer" => held <= CLIENT_IDLE_TIMEOUT + spent
    /\ phase = "connect" =>
        held <= CLIENT_IDLE_TIMEOUT + spent /\ permitAge <= spent
    /\ phase = "exchange" =>
        /\ held <= CLIENT_IDLE_TIMEOUT + RESP_TIMEOUT + spent
        /\ permitAge <= RESP_TIMEOUT + spent
    /\ phase = "reply" =>
        /\ held <= CLIENT_IDLE_TIMEOUT + RESP_TIMEOUT + RESP_TIMEOUT + spent
        /\ permitAge <= RESP_TIMEOUT + RESP_TIMEOUT + spent
    /\ phase \in Reading \cup {"answer"} => permitAge = 0

IInv == TypeOK /\ AgeInv

USE DeadlinesAssumption DEF DeadlinesAssumption

\* A closed connection is where the invariant starts.
LEMMA InitIInv == Init => IInv
<1> SUFFICES ASSUME Init PROVE IInv
    OBVIOUS
<1>1. TypeOK
    <2>1. upstream \in BOOLEAN
        BY Zenon DEF Init
    <2> QED
        BY <2>1 DEF Init, TypeOK, Phases
<1>2. AgeInv
    BY DEF Init, AgeInv, Reading
<1> QED
    BY <1>1, <1>2 DEF IInv

\* Time passes only while no deadline is due, so no bound is passed.
LEMMA TickIInv == IInv /\ Tick => IInv'
<1> SUFFICES ASSUME IInv, Tick PROVE IInv'
    OBVIOUS
<1> USE DEF IInv, Tick, MayWait
<1>1. TypeOK'
    BY DEF TypeOK
<1>2. AgeInv'
    BY DEF TypeOK, AgeInv, AwaitDeadline, Phases, Reading, WithPermit, WithReservation
<1> QED
    BY <1>1, <1>2

\* The three ways an iteration ends forget every age.
LEMMA ResetIInv ==
    ASSUME IInv,
           \/ AwaitCommand /\ UNCHANGED <<upstream, lastError>>
           \/ Close
           \/ \E why \in {"frame", "read", "idle"} : LastError(why)
    PROVE  IInv'
<1>1. CASE AwaitCommand /\ UNCHANGED <<upstream, lastError>>
    BY <1>1 DEF IInv, AwaitCommand, TypeOK, AgeInv, Phases, Reading, AwaitDeadline
<1>2. CASE Close
    <2>1. upstream' \in BOOLEAN
        BY <1>2, Zenon DEF Close
    <2> QED
        BY <1>2, <2>1 DEF IInv, Close, TypeOK, AgeInv, Phases, Reading
<1>3. ASSUME NEW why \in {"frame", "read", "idle"}, LastError(why)
      PROVE  IInv'
    BY <1>3 DEF IInv, LastError, TypeOK, AgeInv, Phases, Reading, AwaitDeadline
<1> QED
    BY <1>1, <1>2, <1>3

\* A step from one await of a command to the next: what was spent in the
\* await that ends is within its deadline and is added to the age carried on.
LEMMA AdvanceIInv ==
    ASSUME IInv,
           \/ HeaderArrives
           \/ LengthArrives
           \/ BytesArrive
           \/ CommandArrives
           \/ Connected
           \/ ExchangeEnds
    PROVE  IInv'
<1>1. CASE HeaderArrives
    BY <1>1 DEF IInv, HeaderArrives, TypeOK, AgeInv, Phases, Reading, AwaitDeadline
<1>2. CASE LengthArrives
    BY <1>2 DEF IInv, LengthArrives, TypeOK, AgeInv, Phases, Reading, AwaitDeadline
<1>3. CASE BytesArrive
    BY <1>3 DEF IInv, BytesArrive, TypeOK, AgeInv, Phases, Reading, AwaitDeadline
<1>4. CASE CommandArrives
    BY <1>4 DEF IInv, CommandArrives, TypeOK, AgeInv, Phases, Reading, AwaitDeadline
<1>5. CASE Connected
    BY <1>5 DEF IInv, Connected, TypeOK, AgeInv, Phases, Reading, AwaitDeadline
<1>6. CASE ExchangeEnds
    BY <1>6 DEF IInv, ExchangeEnds, TypeOK, AgeInv, Phases, Reading, AwaitDeadline
<1> QED
    BY <1>1, <1>2, <1>3, <1>4, <1>5, <1>6

\* Every step of the handler keeps the split of the ages.
LEMMA NextIInv == IInv /\ [Next]_vars => IInv'
<1> SUFFICES ASSUME IInv, [Next]_vars PROVE IInv'
    OBVIOUS
<1>1. CASE Tick
    BY <1>1, TickIInv
<1>2. CASE Open \/ ClientLeaves \/ WriteEnds \/ WriteCloses
    BY <1>2, ResetIInv DEF Open, ClientLeaves, WriteEnds, WriteCloses
<1>3. CASE FrameRejected \/ ReadTimeout \/ IdleTimeout
    BY <1>3, ResetIInv DEF FrameRejected, ReadTimeout, IdleTimeout
<1>4. CASE HeaderArrives \/ LengthArrives \/ BytesArrive \/ CommandArrives
            \/ Connected \/ ExchangeEnds
    BY <1>4, AdvanceIInv
<1>5. CASE UNCHANGED vars
    BY <1>5 DEF vars, IInv, TypeOK, AgeInv, AwaitDeadline
<1> QED
    BY <1>1, <1>2, <1>3, <1>4, <1>5 DEF Next

\* Along every behaviour, for any deadlines, the ages are split as IInv says.
THEOREM InvariantHolds == Spec => []IInv
BY InitIInv, NextIInv, PTL DEF Spec

\* The types of one connection's timed state.
THEOREM TypeCorrect == Spec => []TypeOK
<1>1. IInv => TypeOK
    BY DEF IInv
<1> QED
    BY <1>1, InvariantHolds, PTL

\* proxy.rs: a command keeps its share of the byte budget for a bounded time.
THEOREM ReservationAge == Spec => []ReservationAgeBounded
<1>1. IInv => ReservationAgeBounded
    BY DEF IInv, TypeOK, AgeInv, ReservationAgeBounded, WithReservation, WithPermit,
           Reading, Phases, AwaitDeadline
<1> QED
    BY <1>1, InvariantHolds, PTL

\* proxy.rs: a backend permit is out for two upstream deadlines and one write.
THEOREM PermitAge == Spec => []PermitAgeBounded
<1>1. IInv => PermitAgeBounded
    BY DEF IInv, TypeOK, AgeInv, PermitAgeBounded, WithPermit, Reading, Phases,
           AwaitDeadline
<1> QED
    BY <1>1, InvariantHolds, PTL
=============================================================================
