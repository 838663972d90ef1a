------------------------------ MODULE Launcher ------------------------------
(***************************************************************************)
(* The life of the playground launcher (main.rs, supervisor.rs): it starts *)
(* the Ferrite child, waits until it answers, binds both ports, supervises *)
(* the child and the two service tasks, and tears everything down on a     *)
(* signal or on the first unexpected end, under a clock.                   *)
(*                                                                         *)
(* Where `run` stands (pc):                                                *)
(*   spawning     starting the child         probing   wait_for_ready      *)
(*   bindHttp     binding the HTTP port      bindResp  binding the RESP port*)
(*   supervising  the select! over all ends  inspecting  stop: try_wait    *)
(*   terminating  SIGTERM sent, in grace     killing   SIGKILL sent        *)
(*   joining      join_services              exited    the process is gone *)
(***************************************************************************)
EXTENDS Naturals

CONSTANTS            \* durations in ticks of the clock
    STARTUP_TIMEOUT,
    RESP_TIMEOUT,
    SHUTDOWN_TIMEOUT,
    KILL_REAP_TIMEOUT,
    SERVICE_SHUTDOWN_TIMEOUT,
    SERVICE_ABORT_REAP_TIMEOUT

ASSUME LauncherAssumption ==
    /\ STARTUP_TIMEOUT \in Nat
    /\ RESP_TIMEOUT \in Nat
    /\ SHUTDOWN_TIMEOUT \in Nat
    /\ KILL_REAP_TIMEOUT \in Nat
    /\ SERVICE_SHUTDOWN_TIMEOUT \in Nat
    /\ SERVICE_ABORT_REAP_TIMEOUT \in Nat

Services == {"http", "resp"}

VARIABLES
    pc,
    child,      \* "none", "alive", "zombie" (exited), "reaped"
    asked,      \* SIGTERM was sent to the child
    killed,     \* SIGKILL was sent to the child
    task,       \* each service task: see TaskStates
    handle,     \* is the task's JoinHandle still in its Option?
    joined,     \* what join_service, or the select!, got from each task
    outcome,    \* what run will return if the services end well
    signalled,  \* the select! has seen a shutdown signal
    code,       \* the exit code
    spent,      \* time in the current stage of run
    teardown    \* time since the select! ended

vars == <<pc, child, asked, killed, task, handle, joined, outcome, signalled,
          code, spent, teardown>>

Stages == {"spawning", "probing", "bindHttp", "bindResp", "supervising",
           "inspecting", "terminating", "killing", "joining", "exited"}

\* A task runs, has ended with a result nobody took yet, is being aborted, or
\* is gone.  A JoinHandle polled after it gave its result panics.
TaskStates == {"absent", "running", "endedOk", "endedErr", "aborting", "gone"}

Results == {"none", "ok", "err", "panic"}

Init ==
    /\ pc = "spawning"
    /\ child = "none"
    /\ asked = FALSE
    /\ killed = FALSE
    /\ task = [s \in Services |-> "absent"]
    /\ handle = [s \in Services |-> FALSE]
    /\ joined = [s \in Services |-> "none"]
    /\ outcome = "none"
    /\ signalled = FALSE
    /\ code = "none"
    /\ spent = 0
    /\ teardown = 0

-----------------------------------------------------------------------------
(* Start: spawn, wait_for_ready, the two binds *)

GoTo(stage) == pc' = stage /\ spent' = 0

\* run returns; the child is dropped with it and kill_on_drop kills it.
Exit(result) ==
    /\ GoTo("exited")
    /\ code' = result
    /\ killed' = (killed \/ child = "alive")

SpawnChild ==
    /\ pc = "spawning"
    /\ \/ /\ child' = "alive"
          /\ GoTo("probing")
          /\ UNCHANGED <<code, killed>>
       \/ /\ Exit("failure")
          /\ UNCHANGED child
    /\ UNCHANGED <<asked, task, handle, joined, outcome, signalled, teardown>>

\* Startup failed: the child is stopped, then run returns the error.
FailStart ==
    /\ GoTo("inspecting")
    /\ outcome' = "err"
    /\ UNCHANGED <<child, asked, killed, task, handle, joined, signalled, code,
                   teardown>>

\* try_wait sees the child gone, or the deadline has passed after a probe.
StartupFails ==
    /\ pc = "probing"
    /\ \/ child = "zombie"
       \/ spent >= STARTUP_TIMEOUT
    /\ FailStart

\* try_wait reports an error.
InspectFails ==
    /\ pc = "probing"
    /\ FailStart

\* A PONG, even one that arrives after the deadline.
ChildReady ==
    /\ pc = "probing"
    /\ child = "alive"
    /\ GoTo("bindHttp")
    /\ UNCHANGED <<child, asked, killed, task, handle, joined, outcome,
                   signalled, code, teardown>>

BindFails ==
    /\ pc \in {"bindHttp", "bindResp"}
    /\ FailStart

BindHttp ==
    /\ pc = "bindHttp"
    /\ GoTo("bindResp")
    /\ UNCHANGED <<child, asked, killed, task, handle, joined, outcome,
                   signalled, code, teardown>>

\* Both services are spawned as soon as both ports are bound.
StartServices ==
    /\ pc = "bindResp"
    /\ GoTo("supervising")
    /\ task' = [s \in Services |-> "running"]
    /\ handle' = [s \in Services |-> TRUE]
    /\ UNCHANGED <<child, asked, killed, joined, outcome, signalled, code,
                   teardown>>

-----------------------------------------------------------------------------
(* Supervision: the select! of run *)

\* Nothing but the launcher may stop Ferrite: any exit is a failure.
ObserveChildExit ==
    /\ pc = "supervising"
    /\ child = "zombie"
    /\ child' = "reaped"
    /\ outcome' = "err"
    /\ GoTo("joining")
    /\ UNCHANGED <<asked, killed, task, handle, joined, signalled, code,
                   teardown>>

ObserveSignal ==
    /\ pc = "supervising"
    /\ signalled' = TRUE
    /\ outcome' = "ok"
    /\ GoTo("inspecting")
    /\ UNCHANGED <<child, asked, killed, task, handle, joined, code, teardown>>

\* The wait for the child fails, or the signal handlers could not be registered:
\* run goes on without stopping the child, which is killed when it is dropped.
SupervisionFails ==
    /\ pc = "supervising"
    /\ outcome' = "err"
    /\ GoTo("joining")
    /\ UNCHANGED <<child, asked, killed, task, handle, joined, signalled, code,
                   teardown>>

\* Mutant: the handle of the task that ended stays in its Option.
ObserveServiceEnd_KeepsHandle(s) ==
    /\ pc = "supervising"
    /\ task[s] \in {"endedOk", "endedErr"}
    /\ task' = [task EXCEPT ![s] = "gone"]
    /\ outcome' = "err"
    /\ GoTo("inspecting")
    /\ UNCHANGED <<child, asked, killed, handle, joined, signalled, code,
                   teardown>>

\* Mutant: a service that ended without an error ends the launcher as well.
ObserveServiceEnd_TrustsOk(s) ==
    /\ pc = "supervising"
    /\ task[s] \in {"endedOk", "endedErr"}
    /\ task' = [task EXCEPT ![s] = "gone"]
    /\ handle' = [handle EXCEPT ![s] = FALSE]
    /\ outcome' = IF task[s] = "endedOk" THEN "ok" ELSE "err"
    /\ GoTo("inspecting")
    /\ UNCHANGED <<child, asked, killed, joined, signalled, code, teardown>>

\* A service ended by itself: its handle is consumed.
ObserveServiceEnd(s) ==
    /\ pc = "supervising"
    /\ task[s] \in {"endedOk", "endedErr"}
    /\ task' = [task EXCEPT ![s] = "gone"]
    /\ handle' = [handle EXCEPT ![s] = FALSE]
    /\ outcome' = "err"
    /\ GoTo("inspecting")
    /\ UNCHANGED <<child, asked, killed, joined, signalled, code, teardown>>

-----------------------------------------------------------------------------
(* Stopping the child: stop_with_timeout *)

\* With services to join, run joins them; a failed start returns at once.
AfterStop ==
    IF task["http"] = "absent"
    THEN Exit("failure")
    ELSE GoTo("joining") /\ UNCHANGED <<code, killed>>

StopGoneChild ==
    /\ pc = "inspecting"
    /\ child \in {"zombie", "reaped"}
    /\ child' = "reaped"
    /\ AfterStop
    /\ UNCHANGED <<asked, task, handle, joined, outcome, signalled, teardown>>

SendSigterm ==
    /\ pc = "inspecting"
    /\ child = "alive"
    /\ asked' = TRUE
    /\ GoTo("terminating")
    /\ UNCHANGED <<child, killed, task, handle, joined, outcome, signalled,
                   code, teardown>>

\* child.wait returns, in grace or after SIGKILL.
ReapChild ==
    /\ pc \in {"terminating", "killing"}
    /\ child = "zombie"
    /\ child' = "reaped"
    /\ AfterStop
    /\ UNCHANGED <<asked, task, handle, joined, outcome, signalled, teardown>>

\* Mutant: the launcher waits for the child without a deadline.
Escalate_Never == FALSE

Escalate ==
    /\ pc = "terminating"
    /\ spent = SHUTDOWN_TIMEOUT
    /\ child = "alive"
    /\ killed' = TRUE
    /\ GoTo("killing")
    /\ UNCHANGED <<child, asked, task, handle, joined, outcome, signalled,
                   code, teardown>>

\* The kernel has not delivered the exit in time: a warning, no error.
GiveUpReaping ==
    /\ pc = "killing"
    /\ spent = KILL_REAP_TIMEOUT
    /\ child = "alive"
    /\ AfterStop
    /\ UNCHANGED <<child, asked, task, handle, joined, outcome, signalled,
                   teardown>>

\* try_wait, id, kill, start_kill or wait reports an error: stop prints a
\* warning and run goes on as if the child had stopped.
StopFails ==
    /\ pc \in {"inspecting", "terminating", "killing"}
    /\ AfterStop
    /\ UNCHANGED <<child, asked, task, handle, joined, outcome, signalled,
                   teardown>>

-----------------------------------------------------------------------------
(* Joining the services: join_services runs join_service for both at once *)

NoHandle(s) ==
    /\ pc = "joining"
    /\ joined[s] = "none"
    /\ ~handle[s]
    /\ joined' = [joined EXCEPT ![s] = "ok"]
    /\ UNCHANGED <<pc, child, asked, killed, task, handle, outcome, signalled,
                   code, spent, teardown>>

JoinEnded(s) ==
    /\ pc = "joining"
    /\ joined[s] = "none"
    /\ handle[s]
    /\ task[s] \in {"endedOk", "endedErr", "gone"}
    /\ joined' = [joined EXCEPT ![s] = CASE task[s] = "endedOk"  -> "ok"
                                         [] task[s] = "endedErr" -> "err"
                                         [] task[s] = "gone"     -> "panic"]
    /\ task' = [task EXCEPT ![s] = "gone"]
    /\ handle' = [handle EXCEPT ![s] = FALSE]
    /\ UNCHANGED <<pc, child, asked, killed, outcome, signalled, code, spent,
                   teardown>>

\* The grace is over: the task is aborted and given a short while to end.
AbortService(s) ==
    /\ pc = "joining"
    /\ joined[s] = "none"
    /\ handle[s]
    /\ task[s] = "running"
    /\ spent = SERVICE_SHUTDOWN_TIMEOUT
    /\ task' = [task EXCEPT ![s] = "aborting"]
    /\ UNCHANGED <<pc, child, asked, killed, handle, joined, outcome,
                   signalled, code, spent, teardown>>

\* The aborted task is gone, or did not go within the reap deadline.
ReapService(s) ==
    /\ pc = "joining"
    /\ joined[s] = "none"
    /\ task[s] = "aborting"
    /\ joined' = [joined EXCEPT ![s] = "err"]
    /\ task' = [task EXCEPT ![s] = "gone"]
    /\ handle' = [handle EXCEPT ![s] = FALSE]
    /\ UNCHANGED <<pc, child, asked, killed, outcome, signalled, code, spent,
                   teardown>>

\* outcome.and(http_result).and(proxy_result)
Finish ==
    /\ pc = "joining"
    /\ \A s \in Services : joined[s] # "none"
    /\ Exit(IF outcome = "ok" /\ \A s \in Services : joined[s] = "ok"
            THEN "success" ELSE "failure")
    /\ UNCHANGED <<child, asked, task, handle, joined, outcome, signalled,
                   teardown>>

-----------------------------------------------------------------------------
(* What the launcher does not control *)

\* The child may exit at any time, asked or not; SIGKILL works in the end.
ChildExits ==
    /\ child = "alive"
    /\ child' = "zombie"
    /\ UNCHANGED <<pc, asked, killed, task, handle, joined, outcome, signalled,
                   code, spent, teardown>>

\* A service may end at any time, and with joining it has been asked to.
ServiceEnds(s) ==
    /\ pc # "exited"
    /\ task[s] = "running"
    /\ \E end \in {"endedOk", "endedErr"} : task' = [task EXCEPT ![s] = end]
    /\ UNCHANGED <<pc, child, asked, killed, handle, joined, outcome,
                   signalled, code, spent, teardown>>

-----------------------------------------------------------------------------
(* The clock *)

\* Mutant: the services are joined one after the other.
StageDeadline_Sequential ==
    CASE pc = "probing"     -> STARTUP_TIMEOUT + RESP_TIMEOUT
      [] pc = "terminating" -> SHUTDOWN_TIMEOUT
      [] pc = "killing"     -> KILL_REAP_TIMEOUT
      [] pc = "joining"     ->
            2 * (SERVICE_SHUTDOWN_TIMEOUT + SERVICE_ABORT_REAP_TIMEOUT)
      [] OTHER              -> 0

\* The probe under way when the startup deadline passes may use all of its own;
\* the 100 ms between two probes are not counted.
StageDeadline ==
    CASE pc = "probing"     -> STARTUP_TIMEOUT + RESP_TIMEOUT
      [] pc = "terminating" -> SHUTDOWN_TIMEOUT
      [] pc = "killing"     -> KILL_REAP_TIMEOUT
      [] pc = "joining"     ->
            IF \E s \in Services : task[s] = "aborting"
            THEN SERVICE_SHUTDOWN_TIMEOUT + SERVICE_ABORT_REAP_TIMEOUT
            ELSE SERVICE_SHUTDOWN_TIMEOUT
      [] OTHER              -> 0

TearingDown == pc \in {"inspecting", "terminating", "killing", "joining"}

\* Time passes in the timed stages, up to the deadline; all else is immediate.
\* A task whose grace is over is aborted before more time passes.
Tick ==
    /\ pc \in {"probing", "terminating", "killing", "joining"}
    /\ spent < StageDeadline
    /\ pc = "joining" /\ spent = SERVICE_SHUTDOWN_TIMEOUT =>
          \A s \in Services : joined[s] # "none" \/ task[s] # "running"
    /\ pc = "joining" => \E s \in Services : joined[s] = "none"
    /\ spent' = spent + 1
    /\ teardown' = IF TearingDown THEN teardown + 1 ELSE teardown
    /\ UNCHANGED <<pc, child, asked, killed, task, handle, joined, outcome,
                   signalled, code>>

Supervise ==
    \/ ObserveChildExit
    \/ ObserveSignal
    \/ \E s \in Services : ObserveServiceEnd(s)

Start ==
    \/ SpawnChild
    \/ StartupFails
    \/ ChildReady
    \/ BindFails
    \/ BindHttp
    \/ StartServices

Stop ==
    \/ StopGoneChild
    \/ SendSigterm
    \/ ReapChild
    \/ Escalate
    \/ GiveUpReaping

Join ==
    \/ \E s \in Services :
          NoHandle(s) \/ JoinEnded(s) \/ AbortService(s) \/ ReapService(s)
    \/ Finish

\* A call to the kernel or the runtime reports an error.
CallFails ==
    \/ InspectFails
    \/ SupervisionFails
    \/ StopFails

Next ==
    \/ Start
    \/ Supervise
    \/ Stop
    \/ Join
    \/ CallFails
    \/ ChildExits
    \/ \E s \in Services : ServiceEnds(s)
    \/ Tick

Spec == Init /\ [][Next]_vars

\* Time passes and run is polled: it takes a step whenever one is possible.
\* While supervising it waits for what may never come, and no call has to fail.
FairSpec ==
    /\ Spec
    /\ WF_vars(Tick)
    /\ WF_vars(Start)
    /\ WF_vars(Stop)
    /\ WF_vars(Join)
    /\ WF_vars(ObserveChildExit)
    /\ \A s \in Services : WF_vars(ObserveServiceEnd(s))
-----------------------------------------------------------------------------
(* Properties *)

Budget == SHUTDOWN_TIMEOUT + KILL_REAP_TIMEOUT
            + SERVICE_SHUTDOWN_TIMEOUT + SERVICE_ABORT_REAP_TIMEOUT

TypeOK ==
    /\ pc \in Stages
    /\ child \in {"none", "alive", "zombie", "reaped"}
    /\ asked \in BOOLEAN
    /\ killed \in BOOLEAN
    /\ task \in [Services -> TaskStates]
    /\ handle \in [Services -> BOOLEAN]
    /\ joined \in [Services -> Results]
    /\ outcome \in {"none", "ok", "err"}
    /\ signalled \in BOOLEAN
    /\ code \in {"none", "success", "failure"}
    /\ spent \in 0..(STARTUP_TIMEOUT + RESP_TIMEOUT + Budget)
    /\ teardown \in Nat

\* From the end of supervision (or of the start) to the exit of the process no
\* more time passes than MAX_INTERNAL_SHUTDOWN_BUDGET, whatever the child and
\* the services do; Docker's ten seconds are never reached.
ShutdownBudget == teardown <= Budget

\* The launcher reports success only if the branch it took was the signal's, and
\* both services then ended well, in time and without an abort.  It says nothing
\* of ends the signal overtakes: see UnsolicitedExitFails.
SuccessIsEarned ==
    code = "success" => signalled /\ \A s \in Services : joined[s] = "ok"

\* supervisor.rs, unexpected_exit_error: any exit of the child that the launcher
\* did not ask for is a failure, a clean exit(0) included.
UnsolicitedExitFails ==
    code = "success" /\ child \in {"zombie", "reaped"} => asked \/ killed

\* A service's JoinHandle is never polled again after it gave its result.
HandlesPolledOnce == \A s \in Services : joined[s] # "panic"

\* A launcher that has seen a shutdown signal, or whose child has exited, exits,
\* even if the child ignores SIGTERM and the services do not end.
LauncherEnds == (signalled \/ child = "zombie") ~> (pc = "exited")
============================================================================
