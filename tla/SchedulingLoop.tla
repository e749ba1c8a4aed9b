--------------------------- MODULE SchedulingLoop ---------------------------
(***************************************************************************)
(* The daemon around the scheduler (aruntime/daemon/main.py): the task     *)
(* endpoints, scheduling_loop with its wake-up event, and the life of one  *)
(* execution (_execute_task) as the scheduler sees it.  What happens       *)
(* inside an attempt (leases, workers, agents) is left to TaskExecution;   *)
(* here an attempt ends in any of the ways _run_task_with_policy can.      *)
(***************************************************************************)
EXTENDS KernelScheduler

CONSTANTS
    Cancellable,  \* tasks some client cancels
    Editable,     \* tasks some client adds dependencies to
    Deadlined,    \* tasks with a deadline that may pass before they start
    TimesOut,     \* tasks whose attempts may time out
    Unrecorded,   \* tasks whose agent bookkeeping may raise after a success
    Admissions    \* the sets of tasks the resource check may admit at a tick

ASSUME ClientsAreTyped ==
    /\ Cancellable \subseteq Tasks /\ Editable \subseteq Tasks
    /\ Deadlined \subseteq Tasks /\ TimesOut \subseteq Tasks
    /\ Unrecorded \subseteq Tasks /\ Admissions \subseteq SUBSET Tasks

VARIABLES
    event,  \* scheduler_event is set
    exec    \* exec[t]: no asyncio execution of t, one queued for its semaphores, or one started

vars == <<kernelVars, event, exec>>

Init ==
    /\ KernelInit
    /\ event = TRUE
    /\ exec = [t \in Tasks |-> "none"]

-----------------------------------------------------------------------------
(* submit_task and submit_dynamic_task (which depends on its parent only). *)
SubmitTask(t, D) ==
    /\ t \notin nodes /\ D \subseteq nodes
    /\ Enqueue(t, D)
    /\ event' = TRUE
    /\ UNCHANGED exec

(* spawn_task: if every dependency is settled, the failed ones with a      *)
(* fail_open edge are taken out of the child's dependencies.               *)
FailedOpen(d, t) == status[d] \in {"FAILED", "TIMEOUT", "CANCELLED"} /\ EdgeMode[d][t] = "fail_open"
SpawnDependencies(t, D) ==
    IF \A d \in D : status[d] = "SUCCESS" \/ FailedOpen(d, t)
    THEN {d \in D : ~FailedOpen(d, t)} ELSE D
SpawnTask(t, D) ==
    /\ t \notin nodes /\ nodes # {} /\ D \subseteq nodes
    /\ Enqueue(t, SpawnDependencies(t, D))
    /\ event' = TRUE
    /\ UNCHANGED exec

(* add_task_dependencies: the loop is not woken.                           *)
AddTaskDependencies(t, D) ==
    /\ t \in Editable
    /\ AddDependencies(t, D)
    /\ UNCHANGED <<event, exec>>

(* Seeded variant: the entry stays in the running table.                   *)
CancelRunningKept(t) ==
    /\ status' = [status EXCEPT ![t] = "CANCELLED"]
    /\ UNCHANGED <<blockReason, graphVars, queueVars, completedTasks, failedTasks>>

(* fail_task(t) on a task already CANCELLED that is in the running table:  *)
(* the entry is popped and CANCELLED -> FAILED raises.                     *)
CancelRunning(t) ==
    /\ status' = [status EXCEPT ![t] = "CANCELLED"]
    /\ running' = running \ {t}
    /\ UNCHANGED <<blockReason, graphVars, ready, waiting, completedTasks, failedTasks>>

(* _cancel_runtime_task: an exception in fail_task skips the wake-up, and  *)
(* a task that waits or is ready stays in its queue.                       *)
CancelTask(t) ==
    /\ t \in Cancellable \intersect nodes
    /\ status[t] \notin {"SUCCESS", "FAILED", "TIMEOUT", "CANCELLED"}
    /\ IF t \in running
       THEN CancelRunning(t) /\ UNCHANGED event
       ELSE /\ FailTask(t, "CANCELLED", FailOnce(t))
            /\ event' = (event \/ RaisesOnFail(t) = {})
    /\ UNCHANGED exec

-----------------------------------------------------------------------------
(* One turn of scheduling_loop: the event is cleared, then the batch is    *)
(* dispatched and handed to new executions; an exception is only logged.   *)
ScheduleTick ==
    /\ event
    /\ event' = FALSE
    /\ \E ok \in Admissions, batch \in SUBSET Tasks :
        /\ DispatchReady(ok, batch)
        /\ exec' = [t \in Tasks |-> IF t \in batch THEN "queued" ELSE exec[t]]

(* _execute_task begins once both semaphores are held.                     *)
StartExecution(t) ==
    /\ exec[t] = "queued"
    /\ exec' = [exec EXCEPT ![t] = "started"]
    /\ UNCHANGED <<kernelVars, event>>

(* The finally block: the execution is over and the loop is woken.         *)
EndExecution(t) ==
    /\ exec' = [exec EXCEPT ![t] = "none"]
    /\ event' = TRUE

(* The deadline check at the start of _execute_task.                       *)
DeadlineExpired(t) ==
    /\ t \in Deadlined /\ exec[t] = "queued" /\ CanTransition(status[t], "CANCELLED")
    /\ IF t \in running THEN CancelRunning(t)
       ELSE FailTask(t, "CANCELLED", FailOnce(t))
    /\ EndExecution(t)

(* An attempt exceeds its timeout, and the next one (a retry, or the       *)
(* fallback) puts the task back to RUNNING.                                *)
AttemptTimeout(t) ==
    /\ t \in TimesOut /\ exec[t] = "started"
    /\ status[t] = "RUNNING"
    /\ status' = [status EXCEPT ![t] = "TIMEOUT"]
    /\ UNCHANGED <<blockReason, graphVars, queueVars, completedTasks, failedTasks, event, exec>>

NextAttempt(t) ==
    /\ exec[t] = "started"
    /\ status[t] = "TIMEOUT"
    /\ status' = [status EXCEPT ![t] = "RUNNING"]
    /\ UNCHANGED <<blockReason, graphVars, queueVars, completedTasks, failedTasks, event, exec>>

(* _run_task_with_policy returned and the task was cancelled meanwhile.    *)
FinishCancelled(t) ==
    /\ exec[t] = "started" /\ status[t] = "CANCELLED"
    /\ EndExecution(t)
    /\ UNCHANGED kernelVars

(* It returned success.  SUCCESS is only reachable from RUNNING: a task    *)
(* that degrades after a timeout, or that a failed dependency has failed   *)
(* meanwhile, takes the exception path instead.                            *)
FinishSuccess(t) ==
    /\ exec[t] = "started"
    /\ \/ status[t] = "RUNNING"
       \/ status[t] = "TIMEOUT" /\ TaskMode[t] = "degrade"
       \/ status[t] = "FAILED"
    /\ IF CanTransition(status[t], "SUCCESS") THEN CompleteTask(t)
       ELSE FailTask(t, "FAILED", FailOnce(t))
    /\ EndExecution(t)

(* The agent's transition raises between SUCCESS and complete_task; the    *)
(* handler's SUCCESS -> FAILED raises again and the scheduler never hears. *)
FinishUnrecorded(t) ==
    /\ t \in Unrecorded /\ exec[t] = "started" /\ status[t] = "RUNNING"
    /\ status' = [status EXCEPT ![t] = "SUCCESS"]
    /\ EndExecution(t)
    /\ UNCHANGED <<blockReason, graphVars, queueVars, completedTasks, failedTasks>>

(* It returned failure, or raised: fail_task is called from the handler,   *)
(* and once more from the except clause if that call raised.               *)
FinishFailure(t) ==
    /\ exec[t] = "started" /\ status[t] \in {"RUNNING", "TIMEOUT", "FAILED"}
    /\ FailTask(t, "FAILED", FailOnce(t) \union FailTwice(t))
    /\ EndExecution(t)

Finish(t) == FinishCancelled(t) \/ FinishSuccess(t) \/ FinishUnrecorded(t) \/ FinishFailure(t)

Next ==
    \/ \E t \in Tasks, D \in SUBSET Tasks : SubmitTask(t, D) \/ SpawnTask(t, D) \/ AddTaskDependencies(t, D)
    \/ ScheduleTick
    \/ \E t \in Tasks :
        \/ CancelTask(t) \/ StartExecution(t) \/ DeadlineExpired(t)
        \/ AttemptTimeout(t) \/ NextAttempt(t) \/ Finish(t)

(* The loop and the executions keep running; attempts are bounded in       *)
(* number and each by its timeout.  Clients owe nothing.                   *)
Fairness ==
    /\ WF_vars(ScheduleTick)
    /\ \A t \in Tasks : WF_vars(StartExecution(t)) /\ WF_vars(Finish(t))

Spec == Init /\ [][Next]_vars
FairSpec == Spec /\ Fairness
-----------------------------------------------------------------------------
(* Every variable has its type; a queue or a dependency set only names     *)
(* tasks the scheduler has a node for.                                     *)
TypeOK ==
    /\ status \in [Tasks -> TaskStatus]
    /\ nodes \subseteq Tasks
    /\ declared \in [Tasks -> SUBSET nodes]
    /\ deps \in [Tasks -> SUBSET nodes]
    /\ dependents \in [Tasks -> SUBSET nodes]
    /\ blockReason \subseteq nodes
    /\ ready \subseteq nodes /\ waiting \subseteq nodes /\ running \subseteq nodes
    /\ completedTasks \subseteq nodes /\ failedTasks \subseteq nodes
    /\ event \in BOOLEAN
    /\ exec \in [Tasks -> {"none", "queued", "started"}]

(* No live task is lost between the queues, whatever raises: a task that   *)
(* is not finished sits in exactly the queue its status names, and a queue *)
(* holds besides those only tasks cancelled while they were in it.         *)
QueuesMatchStatus ==
    \A t \in nodes :
        /\ t \in ready => status[t] \in {"READY", "CANCELLED"} /\ t \notin waiting
        /\ t \in waiting => status[t] \in {"PENDING", "BLOCKED", "CANCELLED"}
        /\ t \in running => status[t] \in {"RUNNING", "TIMEOUT", "FAILED", "SUCCESS"}
        /\ status[t] = "READY" => t \in ready
        /\ status[t] \in {"PENDING", "BLOCKED"} => t \in waiting
        /\ status[t] \in {"RUNNING", "TIMEOUT"} => t \in running

(* What lets dependent t go ahead of dependency d: d completed, or failed  *)
(* under a policy that releases t.                                         *)
Settled(d, t) ==
    \/ d \in completedTasks /\ status[d] = "SUCCESS"
    \/ d \in failedTasks /\ status[d] \in {"FAILED", "CANCELLED"} /\ FailMode(d, t) \in Permissive

(* A task waits in the ready queue only once each dependency it declares,  *)
(* from submission or added later, is settled for it.                      *)
ReadyIsSettled == \A t \in ready : \A d \in declared[t] : Settled(d, t)

(* add_dependencies refuses what would close a cycle: no task is reachable *)
(* from one of its own dependents, and whoever waits for a task is one of  *)
(* its dependents; so no set of tasks can wait on itself.                  *)
DependencyGraphSound ==
    \A t \in nodes :
        /\ \A x \in dependents[t] : t \notin Reachable(x)
        /\ \A d \in deps[t] : t \in dependents[d]

(* A task has at most one execution: while one exists the task is in no    *)
(* queue from which the loop could dispatch it again.                      *)
SingleExecution == \A t \in nodes : exec[t] # "none" => t \notin ready \union waiting

(* FAILED -> READY is an allowed transition, but the scheduler never takes *)
(* it: a failed task does not run again.                                   *)
FailedIsFinal == [][\A t \in Tasks : status[t] = "FAILED" => status'[t] = "FAILED"]_vars

(* The invariant behind the properties above: a task without a node is     *)
(* untouched; an execution belongs to a task that was dispatched; a ready  *)
(* task has no unresolved dependency; a dependency that t declares and no  *)
(* longer waits for is settled; completion is never revoked.               *)
Bookkeeping ==
    /\ \A t \in Tasks \ nodes :
        /\ status[t] = "PENDING" /\ exec[t] = "none"
        /\ declared[t] = {} /\ deps[t] = {} /\ dependents[t] = {}
    /\ \A t \in nodes :
        /\ exec[t] # "none" => status[t] \in {"RUNNING", "TIMEOUT", "FAILED", "CANCELLED"}
        /\ t \in ready => deps[t] = {}
        /\ t \in completedTasks => status[t] = "SUCCESS"
        /\ \A d \in declared[t] \ deps[t] : Settled(d, t)

(* As long as no task was cancelled, dispatch_ready and complete_task are  *)
(* not cut short: every task marked RUNNING is executed, and whoever still *)
(* waits for a SUCCESS waits for one whose end never reached the scheduler *)
(* (FinishUnrecorded), which shows in the running table.  A cancellation   *)
(* leaves a queue entry for either call to trip over.  Nothing is said of  *)
(* fail_task: it also raises at a dependent that was added late and has    *)
(* succeeded meanwhile, and the dependents after it wait on.               *)
OnlyCancellationCutsShort ==
    (\A t \in Tasks : status[t] # "CANCELLED") =>
        /\ \A t \in running : status[t] = "RUNNING" => exec[t] # "none"
        /\ \A t \in nodes : \A d \in deps[t] : status[d] = "SUCCESS" => d \in running \ completedTasks

(* With resources for all, a task whose dependencies have all succeeded    *)
(* eventually ends: completion, wake-up and dispatch are never lost.       *)
DependentsFinish ==
    \A t \in Tasks :
        (t \in nodes /\ \A d \in declared[t] : status[d] = "SUCCESS")
            ~> status[t] \in {"SUCCESS", "FAILED", "CANCELLED"}

(* How a client sees a task, in the terms of TaskGraph.                    *)
PhaseOf(s) ==
    IF s \in {"PENDING", "READY", "BLOCKED"} THEN "queued"
    ELSE IF s = "RUNNING" THEN "running" ELSE IF s = "SUCCESS" THEN "done"
    ELSE IF s = "FAILED" THEN "failed" ELSE IF s = "CANCELLED" THEN "cancelled" ELSE "timedout"
Phase == [t \in Tasks |-> IF t \in nodes THEN PhaseOf(status[t]) ELSE "absent"]

Graph == INSTANCE TaskGraph WITH
    Mode  <- [d \in Tasks |-> [t \in Tasks |-> FailMode(d, t)]],
    phase <- Phase,
    needs <- declared

(* The daemon implements TaskGraph: whatever its queues hold and whichever *)
(* call raises, tasks start only on settled dependencies, what has ended   *)
(* stays so, and failures spread only as the policies of the edges say.    *)
ImplementsTaskGraph == Graph!Spec
=============================================================================
