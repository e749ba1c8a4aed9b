---------------------------- MODULE DagScheduler ----------------------------
(***************************************************************************)
(* DAGScheduler (aruntime/scheduler/dag.py), the scheduler of              *)
(* SCHEDULER_TYPE=dag, alone or wrapped in ResourceAwareScheduler, under   *)
(* the same daemon as SchedulingLoop.  It keeps one queue for tasks that   *)
(* are ready and tasks that wait, tells them apart by their unresolved     *)
(* dependencies when it dequeues, and lets a failure cascade over several  *)
(* levels.  waiting_queue is written and never read, so it is left out.    *)
(* The queue is a set: its order only decides which entries dequeue meets  *)
(* before one that raises, and LoopOutcomes allows every choice of those.  *)
(***************************************************************************)
EXTENDS TaskStates

CONSTANTS
    Tasks, TaskMode, EdgeMode,   \* as in KernelScheduler
    Cancellable, Editable, Deadlined, TimesOut, Admissions,  \* as in SchedulingLoop
    Unchecked    \* tasks the daemon enqueues itself: children of a plan, restored tasks

ASSUME DagIsTyped ==
    /\ TaskMode \in [Tasks -> FailureMode \union {Unset}]
    /\ EdgeMode \in [Tasks -> [Tasks -> FailureMode \union {Unset}]]
    /\ Cancellable \subseteq Tasks /\ Editable \subseteq Tasks /\ Deadlined \subseteq Tasks
    /\ TimesOut \subseteq Tasks /\ Admissions \subseteq SUBSET Tasks
    /\ Unchecked \subseteq Tasks

VARIABLES
    wrapped,     \* the daemon runs resource-aware, behind ResourceAwareScheduler
    status, declared, nodes, deps, dependents,  \* as in KernelScheduler
    queue,       \* task_queue
    completed,   \* completed_tasks
    failed,      \* failed_tasks
    event, exec, \* as in SchedulingLoop
    late         \* history: a task was given dependencies between two attempts of it

edgeVars == <<declared, nodes, dependents>>
vars == <<wrapped, late, status, edgeVars, deps, queue, completed, failed, event, exec>>

(* The choice of scheduler at start-up, and an empty DAGScheduler.         *)
Init ==
    /\ wrapped \in BOOLEAN /\ late = FALSE
    /\ status = [t \in Tasks |-> "PENDING"]
    /\ declared = [t \in Tasks |-> {}] /\ deps = [t \in Tasks |-> {}]
    /\ dependents = [t \in Tasks |-> {}]
    /\ nodes = {} /\ queue = {} /\ completed = {} /\ failed = {}
    /\ event = TRUE /\ exec = [t \in Tasks |-> "none"]

-----------------------------------------------------------------------------
(* enqueue: a completed dependency is resolved at once, and one without a  *)
(* node is waited for, although nothing will tell when it completes.       *)
Enqueue(t, D) ==
    /\ nodes' = nodes \union {t}
    /\ declared' = [declared EXCEPT ![t] = D]
    /\ deps' = [deps EXCEPT ![t] = D \ completed]
    /\ dependents' = [d \in Tasks |-> IF d \in D \intersect nodes
                                      THEN dependents[d] \union {t} ELSE dependents[d]]
    /\ status' = [status EXCEPT ![t] = IF D \subseteq completed THEN "READY" ELSE "PENDING"]
    /\ queue' = queue \union {t}
    /\ event' = TRUE
    /\ UNCHANGED <<wrapped, late, completed, failed, exec>>

(* submit_task: the endpoint refuses dependencies it does not know.        *)
SubmitTask(t, D) == t \notin nodes /\ D \subseteq nodes /\ Enqueue(t, D)

(* _materialize_planner enqueues children in the order of the plan, and    *)
(* startup what it restored: neither asks whether the dependencies are     *)
(* known to the scheduler.                                                 *)
EnqueueUnchecked(t, D) == t \in Unchecked \ nodes /\ t \notin D /\ Enqueue(t, D)

(* submit_dynamic_task with add_dynamic_task: the parent is a dependency.  *)
AddDynamicTask(t, parent) == t \notin nodes /\ parent \in nodes /\ Enqueue(t, {parent})

(* spawn_task, as in SchedulingLoop.                                       *)
FailedOpen(d, t) == status[d] \in {"FAILED", "TIMEOUT", "CANCELLED"} /\ EdgeMode[d][t] = "fail_open"
SpawnTask(t, D) ==
    /\ t \notin nodes /\ nodes # {} /\ D \subseteq nodes
    /\ Enqueue(t, IF \A d \in D : status[d] = "SUCCESS" \/ FailedOpen(d, t)
                  THEN {d \in D : ~FailedOpen(d, t)} ELSE D)

(* _has_dependent_path.                                                    *)
Closed(S) == \A x \in S : dependents[x] \subseteq S
Reachable(s) == {y \in Tasks : \A S \in SUBSET Tasks : s \in S /\ Closed(S) => y \in S}

(* Seeded variant: no look for a cycle.                                    *)
MayAddCycle(t, D) ==
    /\ t \in nodes /\ D \subseteq nodes /\ t \notin D
    /\ status[t] \notin {"RUNNING", "SUCCESS", "FAILED", "CANCELLED"}

MayAdd(t, D) ==
    /\ t \in nodes /\ D \subseteq nodes /\ t \notin D
    /\ status[t] \notin {"RUNNING", "SUCCESS", "FAILED", "CANCELLED"}
    /\ Reachable(t) \intersect D = {}

(* add_dependencies: a queued task that now has to wait is PENDING again.  *)
(* TIMEOUT is not refused: the task is then executed, and in no queue.     *)
AddDependencies(t, D) ==
    LET new == D \ deps[t] IN
    /\ MayAdd(t, D)
    /\ declared' = [declared EXCEPT ![t] = @ \union new]
    /\ deps' = [deps EXCEPT ![t] = @ \union (new \ completed)]
    /\ dependents' = [d \in Tasks |-> IF d \in new THEN dependents[d] \union {t} ELSE dependents[d]]
    /\ status' = IF t \in queue /\ deps'[t] # {}
                 THEN [status EXCEPT ![t] = "PENDING"] ELSE status
    /\ late' = (late \/ status[t] = "TIMEOUT")
    /\ UNCHANGED <<wrapped, nodes, queue, completed, failed, event, exec>>

(* add_task_dependencies.  The wrapper has no add_dependencies: then only  *)
(* the task's own list grows, in any state, and the graph never hears.     *)
AddTaskDependencies(t, D) ==
    /\ t \in Editable
    /\ IF ~wrapped THEN AddDependencies(t, D)
       ELSE /\ t \in nodes /\ D \subseteq nodes
            /\ declared' = [declared EXCEPT ![t] = @ \union D]
            /\ UNCHANGED <<wrapped, late, status, nodes, dependents, deps, queue, completed, failed, event, exec>>

-----------------------------------------------------------------------------
(* A loop over S whose body raises on Bad: what is done, and where it      *)
(* stopped.                                                                *)
LoopOutcomes(S, Bad) ==
    IF Bad = {} THEN {[done |-> S, hit |-> {}]}
    ELSE {[done |-> P, hit |-> {b}] : P \in SUBSET (S \ Bad), b \in Bad}

(* What cannot take the transition.                                        *)
Stuck(S, to) == {x \in S : ~CanTransition(status[x], to)}

(* dequeue of ResourceAwareScheduler: only tasks with resources (ok).      *)
HasEnough(t, ok) == wrapped => t \in ok

(* What repeated calls of dequeue find: the queued tasks with nothing left *)
(* to wait for.                                                            *)
Picks(ok) == {t \in queue : deps[t] = {} /\ HasEnough(t, ok)}

(* A turn of scheduling_loop with _dequeue_ready_batch.  A task cancelled  *)
(* in the queue raises once it has left it: the tasks picked before it are *)
(* RUNNING and lost to the loop, those behind it stay.                     *)
ScheduleTick(ok) ==
    \E o \in LoopOutcomes(Picks(ok), Stuck(Picks(ok), "RUNNING")) :
        /\ event /\ event' = FALSE
        /\ queue' = queue \ (o.done \union o.hit)
        /\ status' = [t \in Tasks |-> IF t \in o.done THEN "RUNNING" ELSE status[t]]
        /\ exec' = [t \in Tasks |-> IF o.hit = {} /\ t \in o.done THEN "queued" ELSE exec[t]]
        /\ UNCHANGED <<wrapped, late, edgeVars, deps, completed, failed>>

-----------------------------------------------------------------------------
(* complete_task: a dependent with nothing else to wait for becomes READY; *)
(* one that cannot raises, when t has left its dependencies already.       *)
CompleteTask(t) ==
    LET last == {x \in dependents[t] : deps[x] = {t}} IN
    \E o \in LoopOutcomes(dependents[t], Stuck(last, "READY")) :
        /\ completed' = completed \union {t}
        /\ deps' = [x \in Tasks |-> IF x \in o.done \union o.hit THEN deps[x] \ {t} ELSE deps[x]]
        /\ status' = [x \in Tasks |-> IF x = t THEN "SUCCESS"
                                      ELSE IF x \in o.done \intersect last THEN "READY" ELSE status[x]]
        /\ UNCHANGED <<wrapped, late, edgeVars, queue, failed>>

FailMode(d, t) == IF EdgeMode[d][t] # Unset THEN EdgeMode[d][t] ELSE TaskMode[d]
Permissive == {"fail_open", "degrade", "fallback"}

(* Seeded variant: an edge without a policy fails closed.                  *)
ClosedByDefault(d) == {x \in dependents[d] \ failed : FailMode(d, x) \notin Permissive}

(* What fails with t: its fail_closed dependents, theirs, and so on.       *)
ClosedBy(d) == {x \in dependents[d] \ failed : FailMode(d, x) = "fail_closed"}
Cascade(t) ==
    {y \in Tasks : \A S \in SUBSET Tasks : (\A x \in S \union {t} : ClosedBy(x) \subseteq S) => y \in S}

(* The edges the failure of the tasks in F opens.                          *)
Opened(F) ==
    {e \in F \X Tasks : e[2] \in dependents[e[1]] \ failed /\ FailMode(e[1], e[2]) \in Permissive}

(* Seeded variant: every edge of a failed task is given up.                *)
WithoutAll(E) == [x \in Tasks |-> {d \in deps[x] : \A e \in E : e[1] # d}]

Without(E) == [x \in Tasks |-> {d \in deps[x] : <<d, x>> \notin E}]
Freed(E) == {x \in Tasks : (\E e \in E : e[2] = x) /\ Without(E)[x] = {}}

(* How the recursion of fail_task may end.  An edge to a task that itself  *)
(* fails is opened if the loop meets it first.  A dependent that cannot    *)
(* fail or become READY raises: some tasks have failed, some edges are     *)
(* open, and a second call from the except clause only adds to both.       *)
FailOutcomes(t) ==
    LET all  == Cascade(t)
        Must == {e \in Opened(all \union {t}) : e[2] \notin all} IN
    IF Stuck(all, "FAILED") = {} /\ Stuck(Freed(Must), "READY") = {}
    THEN {[closed |-> all, opened |-> E] :
             E \in {G \in SUBSET Opened(all \union {t}) : Must \subseteq G}}
    ELSE UNION {{[closed |-> S, opened |-> E] : E \in SUBSET Opened(S \union {t})} :
                   S \in {P \in SUBSET (all \ Stuck(all, "FAILED")) :
                             \A x \in P : \E d \in P \union {t} : x \in ClosedBy(d)}}

(* fail_task, where the caller has put t in state own.                     *)
FailTask(t, own) ==
    \E o \in FailOutcomes(t) :
        /\ failed' = failed \union {t} \union o.closed
        /\ deps' = Without(o.opened)
        /\ status' = [x \in Tasks |->
               IF x = t THEN own ELSE IF x \in o.closed THEN "FAILED"
               ELSE IF x \in Freed(o.opened) /\ CanTransition(status[x], "READY") THEN "READY"
               ELSE status[x]]
        /\ UNCHANGED <<wrapped, late, edgeVars, queue, completed>>

Raises(t) ==
    \/ Stuck(Cascade(t), "FAILED") # {}
    \/ Stuck(Freed(Opened(Cascade(t) \union {t})), "READY") # {}

(* _cancel_runtime_task: after an exception the loop is not woken.         *)
CancelTask(t) ==
    /\ t \in Cancellable \intersect nodes
    /\ status[t] \notin {"SUCCESS", "FAILED", "TIMEOUT", "CANCELLED"}
    /\ FailTask(t, "CANCELLED")
    /\ event' = (event \/ ~Raises(t))
    /\ UNCHANGED exec

-----------------------------------------------------------------------------
(* _execute_task, as in SchedulingLoop.                                    *)
StartExecution(t) ==
    /\ exec[t] = "queued"
    /\ exec' = [exec EXCEPT ![t] = "started"]
    /\ UNCHANGED <<wrapped, late, status, edgeVars, deps, queue, completed, failed, event>>

EndExecution(t) == exec' = [exec EXCEPT ![t] = "none"] /\ event' = TRUE

DeadlineExpired(t) ==
    /\ t \in Deadlined /\ exec[t] = "queued" /\ CanTransition(status[t], "CANCELLED")
    /\ FailTask(t, "CANCELLED")
    /\ EndExecution(t)

AttemptTimeout(t) ==
    /\ t \in TimesOut /\ exec[t] = "started" /\ status[t] = "RUNNING"
    /\ status' = [status EXCEPT ![t] = "TIMEOUT"]
    /\ UNCHANGED <<wrapped, late, edgeVars, deps, queue, completed, failed, event, exec>>

NextAttempt(t) ==
    /\ exec[t] = "started" /\ status[t] = "TIMEOUT"
    /\ status' = [status EXCEPT ![t] = "RUNNING"]
    /\ UNCHANGED <<wrapped, late, edgeVars, deps, queue, completed, failed, event, exec>>

FinishCancelled(t) ==
    /\ exec[t] = "started" /\ status[t] = "CANCELLED"
    /\ EndExecution(t)
    /\ UNCHANGED <<wrapped, late, status, edgeVars, deps, queue, completed, failed>>

FinishSuccess(t) ==
    /\ exec[t] = "started" /\ status[t] = "RUNNING"
    /\ CompleteTask(t)
    /\ EndExecution(t)

(* The agent's transition raises between SUCCESS and complete_task.        *)
FinishUnrecorded(t) ==
    /\ exec[t] = "started" /\ status[t] = "RUNNING"
    /\ status' = [status EXCEPT ![t] = "SUCCESS"]
    /\ EndExecution(t)
    /\ UNCHANGED <<wrapped, late, edgeVars, deps, queue, completed, failed>>

(* A failure, and a success that comes too late to be one: the task was    *)
(* failed meanwhile by a dependency it got between two attempts.           *)
FinishFailure(t) ==
    /\ exec[t] = "started" /\ status[t] \in {"RUNNING", "TIMEOUT", "FAILED"}
    /\ FailTask(t, "FAILED")
    /\ EndExecution(t)

Next ==
    \/ \E t \in Tasks, D \in SUBSET Tasks :
        SubmitTask(t, D) \/ EnqueueUnchecked(t, D) \/ SpawnTask(t, D) \/ AddTaskDependencies(t, D)
    \/ \E t, parent \in Tasks : AddDynamicTask(t, parent)
    \/ \E ok \in Admissions : ScheduleTick(ok)
    \/ \E t \in Tasks :
        \/ CancelTask(t) \/ StartExecution(t) \/ DeadlineExpired(t) \/ AttemptTimeout(t)
        \/ NextAttempt(t) \/ FinishCancelled(t) \/ FinishSuccess(t) \/ FinishUnrecorded(t)
        \/ FinishFailure(t)

Spec == Init /\ [][Next]_vars

-----------------------------------------------------------------------------
(* Every variable has its type, and but for the dependencies of a task     *)
(* what the scheduler keeps only names tasks it has a node for.            *)
TypeOK ==
    /\ wrapped \in BOOLEAN /\ event \in BOOLEAN /\ late \in BOOLEAN
    /\ status \in [Tasks -> TaskStatus]
    /\ nodes \subseteq Tasks
    /\ declared \in [Tasks -> SUBSET Tasks]
    /\ deps \in [Tasks -> SUBSET Tasks] /\ dependents \in [Tasks -> SUBSET nodes]
    /\ queue \subseteq nodes /\ completed \subseteq nodes /\ failed \subseteq nodes
    /\ exec \in [Tasks -> {"none", "queued", "started"}]

(* dequeue asks only whether dependencies are left, and promises a task in *)
(* state READY: whatever failed, raised or was added meanwhile, a queued   *)
(* task with none left is READY, or was cancelled where it stood.          *)
FreeIsReady ==
    \A t \in queue : (deps[t] = {}) => status[t] \in {"READY", "CANCELLED"}

(* How a client sees a task, in the terms of TaskGraph.                    *)
PhaseOf(s) ==
    IF s \in {"PENDING", "READY"} THEN "queued"
    ELSE IF s = "RUNNING" THEN "running" ELSE IF s = "SUCCESS" THEN "done"
    ELSE IF s = "FAILED" THEN "failed" ELSE IF s = "CANCELLED" THEN "cancelled" ELSE "timedout"

Phase == [t \in Tasks |-> IF t \in nodes THEN PhaseOf(status[t]) ELSE "absent"]
Needs == [t \in Tasks |-> {d \in Tasks : t \in dependents[d]}]

Graph == INSTANCE TaskGraph WITH
    Mode  <- [d \in Tasks |-> [t \in Tasks |-> FailMode(d, t)]],
    phase <- Phase,
    needs <- Needs

(* DAGScheduler, alone or wrapped, keeps the promise KernelScheduler keeps *)
(* for the edges it knows: tasks start only on settled dependencies, ended *)
(* tasks stay ended, failures spread only along fail_closed edges.  It     *)
(* keeps it until some task is given dependencies between two attempts of  *)
(* it: that one may fail, and become READY when they complete.             *)
ImplementsTaskGraph == Graph!Init /\ [][late' \/ [Graph!Next]_<<Phase, Needs>>]_vars
=============================================================================
