--------------------------- MODULE LauncherProofs ---------------------------
(***************************************************************************)
(* Proofs, for any durations, about the teardown of the playground         *)
(* launcher: its budget, its exit code and its join handles.               *)
(***************************************************************************)
EXTENDS Launcher, TLAPS

\* The types, without the bound of `spent` that TimeInv gives.
Shape ==
    /\ pc \in Stages
    /\ child \in {"none", "alive", "zombie", "reaped"}
    /\ asked \in BOOLEAN
    /\ killed \in BOOLEAN
    /\ task \in [Services -> TaskStates]
    /\ handle \in [Services -> BOOLEAN]
    /\ joined \in [Services -> Results]
    /\ outcome \in {"none", "ok", "err"}
    /\ signalled \in BOOLEAN
    /\ code \in {"none", "success", "failure"}
    /\ spent \in Nat
    /\ teardown \in Nat

\* The age of the teardown is split along its stages: each adds its own
\* deadline to what the stages before it can have used.
TimeInv ==
    /\ pc \notin {"probing", "terminating", "killing", "joining"} => spent = 0
    /\ pc \notin {"terminating", "killing", "joining", "exited"} => teardown = 0
    /\ pc = "probing" => spent <= STARTUP_TIMEOUT + RESP_TIMEOUT
    /\ pc = "terminating" => spent <= SHUTDOWN_TIMEOUT /\ teardown <= spent
    /\ pc = "killing" =>
        /\ spent <= KILL_REAP_TIMEOUT
        /\ teardown <= SHUTDOWN_TIMEOUT + spent
    /\ pc = "joining" =>
        /\ spent <= SERVICE_SHUTDOWN_TIMEOUT + SERVICE_ABORT_REAP_TIMEOUT
        /\ teardown <= SHUTDOWN_TIMEOUT + KILL_REAP_TIMEOUT + spent
    /\ pc = "exited" => teardown <= Budget

\* A handle that is still in its Option belongs to a task whose result nobody
\* has taken, and nothing is joined before the services are.
HandleInv ==
    \A s \in Services :
        /\ handle[s] => task[s] \in {"running", "endedOk", "endedErr", "aborting"}
        /\ joined[s] # "none" => pc \in {"joining", "exited"}
        /\ joined[s] # "panic"

\* Only a signal makes the outcome ok, and only the end of the join turns it
\* into an exit code of success.
OutcomeInv ==
    /\ outcome = "ok" => signalled
    /\ code = "success" =>
        pc = "exited" /\ outcome = "ok" /\ \A s \in Services : joined[s] = "ok"

IInv == Shape /\ TimeInv /\ HandleInv /\ OutcomeInv

USE LauncherAssumption DEF LauncherAssumption

\* The launcher starts with no child, no teardown and nothing joined.
LEMMA InitIInv == Init => IInv
<1> SUFFICES ASSUME Init PROVE IInv
    OBVIOUS
<1>1. Shape
    <2>1. asked \in BOOLEAN /\ killed \in BOOLEAN /\ signalled \in BOOLEAN
        BY Zenon DEF Init
    <2>2. handle \in [Services -> BOOLEAN]
        BY DEF Init
    <2> QED
        BY <2>1, <2>2 DEF Init, Shape, Stages, TaskStates, Results
<1>2. TimeInv /\ HandleInv /\ OutcomeInv
    BY DEF Init, TimeInv, HandleInv, OutcomeInv
<1> QED
    BY <1>1, <1>2 DEF IInv

-----------------------------------------------------------------------------
(* Each part of the invariant is kept by every step *)

\* Every step keeps the types of the launcher's state.
LEMMA NextShape == Shape /\ [Next]_vars => Shape'
<1> SUFFICES ASSUME Shape, [Next]_vars PROVE Shape'
    OBVIOUS
<1> USE DEF Shape, Stages, TaskStates, Results
<1>1. ASSUME NEW result \in {"success", "failure"}, Exit(result)
      PROVE  /\ pc' \in Stages /\ spent' \in Nat /\ killed' \in BOOLEAN
             /\ code' \in {"none", "success", "failure"}
    <2>1. killed' \in BOOLEAN
        BY <1>1, Zenon DEF Exit
    <2> QED
        BY <1>1, <2>1 DEF Exit, GoTo
<1>2. ASSUME AfterStop
      PROVE  /\ pc' \in Stages /\ spent' \in Nat /\ killed' \in BOOLEAN
             /\ code' \in {"none", "success", "failure"}
    BY <1>1, <1>2 DEF AfterStop, GoTo
<1>3. CASE Start
    <2>1. CASE SpawnChild
        BY <1>1, <2>1 DEF SpawnChild, GoTo
    <2>2. CASE StartupFails \/ BindFails
        BY <2>2 DEF StartupFails, BindFails, FailStart, GoTo
    <2>3. CASE ChildReady \/ BindHttp
        BY <2>3 DEF ChildReady, BindHttp, GoTo
    <2>4. CASE StartServices
        BY <2>4 DEF StartServices, GoTo
    <2> QED
        BY <1>3, <2>1, <2>2, <2>3, <2>4 DEF Start
<1>4. CASE Supervise
    <2>1. CASE ObserveChildExit
        BY <2>1 DEF ObserveChildExit, GoTo
    <2>2. CASE ObserveSignal
        <3>1. signalled' \in BOOLEAN
            BY <2>2, Zenon DEF ObserveSignal
        <3> QED
            BY <2>2, <3>1 DEF ObserveSignal, GoTo
    <2>3. ASSUME NEW s \in Services, ObserveServiceEnd(s) PROVE Shape'
        BY <2>3 DEF ObserveServiceEnd, GoTo
    <2> QED
        BY <1>4, <2>1, <2>2, <2>3 DEF Supervise
<1>5. CASE Stop
    <2>1. CASE StopGoneChild \/ ReapChild \/ GiveUpReaping
        BY <1>2, <2>1 DEF StopGoneChild, ReapChild, GiveUpReaping
    <2>2. CASE SendSigterm
        <3>1. asked' \in BOOLEAN
            BY <2>2, Zenon DEF SendSigterm
        <3> QED
            BY <2>2, <3>1 DEF SendSigterm, GoTo
    <2>3. CASE Escalate
        <3>1. killed' \in BOOLEAN
            BY <2>3, Zenon DEF Escalate
        <3> QED
            BY <2>3, <3>1 DEF Escalate, GoTo
    <2> QED
        BY <1>5, <2>1, <2>2, <2>3 DEF Stop
<1>6. CASE Join
    <2>1. ASSUME NEW s \in Services,
                 NoHandle(s) \/ AbortService(s) \/ ReapService(s) PROVE Shape'
        BY <2>1 DEF NoHandle, AbortService, ReapService
    <2>2. ASSUME NEW s \in Services, JoinEnded(s) PROVE Shape'
        <3>1. PICK got \in Results : joined' = [joined EXCEPT ![s] = got]
            <4>1. CASE task[s] = "endedOk"
                BY <2>2, <4>1 DEF JoinEnded
            <4>2. CASE task[s] = "endedErr"
                BY <2>2, <4>2 DEF JoinEnded
            <4>3. CASE task[s] = "gone"
                BY <2>2, <4>3 DEF JoinEnded
            <4> QED
                BY <2>2, <4>1, <4>2, <4>3 DEF JoinEnded
        <3> QED
            BY <2>2, <3>1 DEF JoinEnded
    <2>3. CASE Finish
        BY <1>1, <2>3 DEF Finish
    <2> QED
        BY <1>6, <2>1, <2>2, <2>3 DEF Join
<1>7. CASE ChildExits
    BY <1>7 DEF ChildExits
<1>8. ASSUME NEW s \in Services, ServiceEnds(s) PROVE Shape'
    BY <1>8 DEF ServiceEnds
<1>9. CASE Tick
    BY <1>9 DEF Tick
<1>10. CASE CallFails
    BY <1>2, <1>10 DEF CallFails, InspectFails, FailStart, SupervisionFails,
                       StopFails, GoTo
<1>11. CASE UNCHANGED vars
    BY <1>11 DEF vars
<1> QED
    BY <1>3, <1>4, <1>5, <1>6, <1>7, <1>8, <1>9, <1>10, <1>11 DEF Next

\* Time passes only while no deadline is due, and a step to the next stage of
\* the teardown carries an age within the budget of the stages before it.
LEMMA NextTime == Shape /\ TimeInv /\ [Next]_vars => TimeInv'
<1> SUFFICES ASSUME Shape, TimeInv, [Next]_vars PROVE TimeInv'
    OBVIOUS
<1> USE DEF TimeInv, Budget
<1>0. spent \in Nat /\ teardown \in Nat
    BY DEF Shape
<1>1. CASE Start
    BY <1>0, <1>1 DEF Start, SpawnChild, StartupFails, FailStart, ChildReady,
                      BindFails, BindHttp, StartServices, GoTo, Exit
<1>2. CASE Supervise
    BY <1>0, <1>2 DEF Supervise, ObserveChildExit, ObserveSignal,
                      ObserveServiceEnd, GoTo
<1>3. CASE Stop
    BY <1>0, <1>3 DEF Stop, StopGoneChild, SendSigterm, ReapChild, Escalate,
                      GiveUpReaping, AfterStop, GoTo, Exit
<1>4. CASE Join
    BY <1>0, <1>4 DEF Join, NoHandle, JoinEnded, AbortService, ReapService, Finish,
                      GoTo, Exit
<1>5. CASE Tick
    <2>1. StageDeadline =
            IF pc = "probing" THEN STARTUP_TIMEOUT + RESP_TIMEOUT
            ELSE IF pc = "terminating" THEN SHUTDOWN_TIMEOUT
            ELSE IF pc = "killing" THEN KILL_REAP_TIMEOUT
            ELSE IF pc = "joining"
                 THEN IF \E s \in Services : task[s] = "aborting"
                      THEN SERVICE_SHUTDOWN_TIMEOUT + SERVICE_ABORT_REAP_TIMEOUT
                      ELSE SERVICE_SHUTDOWN_TIMEOUT
            ELSE 0
        BY DEF StageDeadline
    <2>2. pc' = pc /\ spent' = spent + 1 /\ spent + 1 <= StageDeadline
        BY <1>0, <1>5, <2>1 DEF Tick
    <2>3. /\ pc = "probing" => teardown' = teardown
          /\ pc # "probing" => teardown' = teardown + 1
          /\ pc \in {"probing", "terminating", "killing", "joining"}
        BY <1>5 DEF Tick, TearingDown
    <2>4. CASE pc = "joining"
        BY <1>0, <2>1, <2>2, <2>3, <2>4
    <2>5. CASE pc # "joining"
        BY <1>0, <2>1, <2>2, <2>3, <2>5
    <2> QED
        BY <2>4, <2>5
<1>6. CASE ChildExits \/ UNCHANGED vars \/ \E s \in Services : ServiceEnds(s)
    BY <1>6 DEF ChildExits, ServiceEnds, vars
<1>7. CASE CallFails
    BY <1>0, <1>7 DEF CallFails, InspectFails, FailStart, SupervisionFails,
                      StopFails, AfterStop, GoTo, Exit
<1> QED
    BY <1>1, <1>2, <1>3, <1>4, <1>5, <1>6, <1>7 DEF Next

\* A result is taken from a service that ended or was aborted, with its handle,
\* and the services are joined only once the supervision is over.
LEMMA NextHandle == Shape /\ HandleInv /\ [Next]_vars => HandleInv'
<1> SUFFICES ASSUME Shape, HandleInv, [Next]_vars, NEW s \in Services
             PROVE  /\ handle'[s] => task'[s] \in {"running", "endedOk", "endedErr", "aborting"}
                    /\ joined'[s] # "none" => pc' \in {"joining", "exited"}
                    /\ joined'[s] # "panic"
    BY DEF HandleInv
<1>0. /\ task \in [Services -> TaskStates] /\ handle \in [Services -> BOOLEAN]
      /\ joined \in [Services -> Results]
      /\ handle[s] => task[s] \in {"running", "endedOk", "endedErr", "aborting"}
      /\ joined[s] # "none" => pc \in {"joining", "exited"}
      /\ joined[s] # "panic"
    BY DEF Shape, HandleInv
<1>1. CASE Start
    <2>1. CASE StartServices
        BY <1>0, <2>1 DEF StartServices, GoTo
    <2>2. CASE ~StartServices
        BY <1>0, <1>1, <2>2 DEF Start, SpawnChild, StartupFails, FailStart,
                                ChildReady, BindFails, BindHttp, GoTo, Exit
    <2> QED
        BY <2>1, <2>2
<1>2. CASE Supervise
    <2>1. ASSUME NEW u \in Services, ObserveServiceEnd(u)
          PROVE  /\ handle'[s] => handle[s] /\ task'[s] = task[s]
                 /\ joined' = joined /\ pc = "supervising"
        BY <1>0, <2>1 DEF ObserveServiceEnd
    <2> QED
        BY <1>0, <1>2, <2>1 DEF Supervise, ObserveChildExit, ObserveSignal
<1>3. CASE Stop
    BY <1>0, <1>3 DEF Stop, StopGoneChild, SendSigterm, ReapChild, Escalate,
                      GiveUpReaping, AfterStop, GoTo, Exit
<1>4. CASE Join
    <2>1. ASSUME NEW u \in Services, NoHandle(u) \/ AbortService(u) \/ ReapService(u)
          PROVE  /\ handle'[s] =>
                      handle[s] /\ task'[s] \in {task[s], "aborting"}
                 /\ joined'[s] \in {joined[s], "ok", "err"}
                 /\ pc' = "joining"
        BY <1>0, <2>1 DEF NoHandle, AbortService, ReapService
    <2>2. ASSUME NEW u \in Services, JoinEnded(u)
          PROVE  /\ handle'[s] => handle[s] /\ task'[s] = task[s]
                 /\ joined'[s] \in {joined[s], "ok", "err"}
                 /\ pc' = "joining"
        <3>1. handle[u] /\ pc = "joining" /\ task[u] \in {"endedOk", "endedErr", "gone"}
            BY <2>2 DEF JoinEnded
        <3>2. task[u] # "gone"
            BY <3>1 DEF HandleInv
        <3>3. PICK got \in {"ok", "err"} : joined' = [joined EXCEPT ![u] = got]
            <4>1. CASE task[u] = "endedOk"
                BY <2>2, <4>1 DEF JoinEnded
            <4>2. CASE task[u] = "endedErr"
                BY <2>2, <4>2 DEF JoinEnded
            <4> QED
                BY <3>1, <3>2, <4>1, <4>2
        <3> QED
            BY <1>0, <2>2, <3>1, <3>3 DEF JoinEnded
    <2>3. CASE Finish
        BY <1>0, <2>3 DEF Finish, GoTo, Exit
    <2> QED
        BY <1>0, <1>4, <2>1, <2>2, <2>3 DEF Join
<1>5. ASSUME NEW u \in Services, ServiceEnds(u)
      PROVE  /\ handle' = handle /\ joined' = joined /\ pc' = pc
             /\ task'[s] \in {task[s], "endedOk", "endedErr"}
    BY <1>0, <1>5 DEF ServiceEnds
<1>6. CASE ChildExits \/ Tick \/ UNCHANGED vars
    BY <1>0, <1>6 DEF ChildExits, Tick, vars
<1>7. CASE CallFails
    BY <1>0, <1>7 DEF CallFails, InspectFails, FailStart, SupervisionFails,
                      StopFails, AfterStop, GoTo, Exit
<1> QED
    BY <1>0, <1>1, <1>2, <1>3, <1>4, <1>5, <1>6, <1>7 DEF Next

\* Only the end of a join with a successful outcome and two clean results sets
\* the exit code to success, and nothing after it takes that back.
LEMMA NextOutcome == Shape /\ OutcomeInv /\ [Next]_vars => OutcomeInv'
<1> SUFFICES ASSUME Shape, OutcomeInv, [Next]_vars PROVE OutcomeInv'
    OBVIOUS
<1> USE DEF OutcomeInv
<1>1. CASE Start
    BY <1>1 DEF Start, SpawnChild, StartupFails, FailStart, ChildReady,
                BindFails, BindHttp, StartServices, GoTo, Exit
<1>2. CASE Supervise
    BY <1>2 DEF Supervise, ObserveChildExit, ObserveSignal,
                ObserveServiceEnd, GoTo
<1>3. CASE Stop
    BY <1>3 DEF Stop, StopGoneChild, SendSigterm, ReapChild, Escalate,
                GiveUpReaping, AfterStop, GoTo, Exit
<1>4. CASE Join
    BY <1>4 DEF Join, NoHandle, JoinEnded, AbortService, ReapService, Finish,
                GoTo, Exit
<1>5. CASE ChildExits \/ Tick \/ UNCHANGED vars \/ \E s \in Services : ServiceEnds(s)
    BY <1>5 DEF ChildExits, Tick, ServiceEnds, vars
<1>6. CASE CallFails
    BY <1>6 DEF CallFails, InspectFails, FailStart, SupervisionFails, StopFails,
                AfterStop, GoTo, Exit
<1> QED
    BY <1>1, <1>2, <1>3, <1>4, <1>5, <1>6 DEF Next

-----------------------------------------------------------------------------
\* Along every behaviour, for any durations, all parts of the invariant hold.
THEOREM InvariantHolds == Spec => []IInv
<1>1. IInv /\ [Next]_vars => IInv'
    BY NextShape, NextTime, NextHandle, NextOutcome DEF IInv
<1> QED
    BY <1>1, InitIInv, PTL DEF Spec

\* The types of the launcher's state, and the bound of every timed stage.
THEOREM TypeCorrect == Spec => []TypeOK
<1>1. IInv => TypeOK
    BY DEF IInv, Shape, TimeInv, TypeOK, Budget, Stages
<1> QED
    BY <1>1, InvariantHolds, PTL

\* main.rs, MAX_INTERNAL_SHUTDOWN_BUDGET: no teardown takes longer than the sum
\* of the four shutdown deadlines, though both services are joined.
THEOREM TeardownBounded == Spec => []ShutdownBudget
<1>1. IInv => ShutdownBudget
    BY DEF IInv, Shape, TimeInv, ShutdownBudget, Budget, Stages
<1> QED
    BY <1>1, InvariantHolds, PTL

\* run: the exit code is success only if the select! took the signal's branch
\* and join_services then got a clean end from both services.
THEOREM SuccessEarned == Spec => []SuccessIsEarned
<1>1. IInv => SuccessIsEarned
    BY DEF IInv, OutcomeInv, SuccessIsEarned
<1> QED
    BY <1>1, InvariantHolds, PTL

\* run and join_services: no JoinHandle is polled after it gave its result.
THEOREM HandlesOnce == Spec => []HandlesPolledOnce
<1>1. IInv => HandlesPolledOnce
    BY DEF IInv, HandleInv, HandlesPolledOnce
<1> QED
    BY <1>1, InvariantHolds, PTL
=============================================================================
