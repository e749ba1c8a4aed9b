--------------------------- MODULE KernelScheduler ---------------------------
(***************************************************************************)
(* KernelScheduler (aruntime/scheduler/kernel.py): the task graph, the     *)
(* ready and waiting queues, the running table and the methods that the    *)
(* daemon calls on them.  Every method runs between two awaits of one      *)
(* asyncio thread, so a call is one atomic step; a call that raises keeps  *)
(* the assignments it made before the exception, and so does its action.   *)
(*                                                                         *)
(* Queues are sets: dispatch_ready drains the ready queue and wake_waiting *)
(* visits the whole waiting queue, so their order shows only in which      *)
(* entries precede an exception, and that prefix is chosen freely here.    *)
(***************************************************************************)
EXTENDS TaskStates

CONSTANTS
    Tasks,       \* every task id that may be submitted
    TaskMode,    \* TaskMode[d]: failure_policy.mode of d, or Unset
    EdgeMode     \* EdgeMode[d][t]: dependency_failure_policies[d] of t, or Unset

ASSUME ModesAreTyped ==
    /\ TaskMode \in [Tasks -> FailureMode \union {Unset}]
    /\ EdgeMode \in [Tasks -> [Tasks -> FailureMode \union {Unset}]]

VARIABLES
    status,         \* status[t]: TaskSpec.status (PENDING until submitted)
    declared,       \* declared[t]: TaskSpec.dependencies
    blockReason,    \* tasks whose resource_block_reason is not empty
    nodes,          \* ids in scheduler.nodes
    deps,           \* deps[t]: node.dependencies, the unresolved ones
    dependents,     \* dependents[t]: node.dependents
    ready,          \* ready_queue
    waiting,        \* waiting_queue
    running,        \* keys of running_table
    completedTasks, \* completed_tasks
    failedTasks     \* failed_tasks

graphVars == <<declared, nodes, deps, dependents>>
queueVars == <<ready, waiting, running>>
kernelVars == <<status, blockReason, graphVars, queueVars, completedTasks, failedTasks>>

KernelInit ==
    /\ status = [t \in Tasks |-> "PENDING"]
    /\ declared = [t \in Tasks |-> {}]
    /\ blockReason = {}
    /\ nodes = {}
    /\ deps = [t \in Tasks |-> {}]
    /\ dependents = [t \in Tasks |-> {}]
    /\ ready = {} /\ waiting = {} /\ running = {}
    /\ completedTasks = {} /\ failedTasks = {}

(* status with every task of S moved to state s.                           *)
Moved(S, s) == [t \in Tasks |-> IF t \in S THEN s ELSE status[t]]

-----------------------------------------------------------------------------
(* enqueue(task): a new node that depends on D.  A dependency is dropped   *)
(* at once only if it has completed; one that has failed stays.            *)
Enqueue(t, D) ==
    LET open == D \ completedTasks IN
    /\ nodes' = nodes \union {t}
    /\ declared' = [declared EXCEPT ![t] = D]
    /\ deps' = [deps EXCEPT ![t] = open]
    /\ dependents' = [d \in Tasks |-> IF d \in D \intersect nodes
                                      THEN dependents[d] \union {t} ELSE dependents[d]]
    /\ status' = [status EXCEPT ![t] = IF open = {} THEN "READY" ELSE "PENDING"]
    /\ ready' = IF open = {} THEN ready \union {t} ELSE ready
    /\ waiting' = IF open = {} THEN waiting ELSE waiting \union {t}
    /\ UNCHANGED <<blockReason, running, completedTasks, failedTasks>>

(* The tasks _has_dependent_path finds from s: those in every set that     *)
(* holds s and is closed under the dependents relation.                    *)
Closed(S) == \A x \in S : dependents[x] \subseteq S
Reachable(s) == {y \in Tasks : \A S \in SUBSET Tasks : s \in S /\ Closed(S) => y \in S}

(* Seeded variant: no look for a cycle.                                    *)
MayAddCycle(t, D) ==
    /\ t \in nodes /\ D \subseteq nodes
    /\ status[t] \notin {"RUNNING", "SUCCESS", "FAILED", "CANCELLED"}
    /\ t \notin D

(* add_dependencies(task_id, dependency_ids).  The refusals (unknown ids,  *)
(* a state that forbids the update, a self or cyclic dependency) change    *)
(* nothing.  TIMEOUT is not among the refused states: from there the graph *)
(* is updated and the transition that follows raises.                      *)
MayAddDependencies(t, D) ==
    /\ t \in nodes /\ D \subseteq nodes
    /\ status[t] \notin {"RUNNING", "SUCCESS", "FAILED", "CANCELLED"}
    /\ t \notin D
    /\ Reachable(t) \intersect D = {}

AddDependencies(t, D) ==
    LET new  == D \ deps[t]
        open == deps[t] \union (new \ completedTasks)
        to   == IF open = {} THEN "READY" ELSE "PENDING" IN
    /\ MayAddDependencies(t, D)
    /\ declared' = [declared EXCEPT ![t] = @ \union new]
    /\ deps' = [deps EXCEPT ![t] = open]
    /\ dependents' = [d \in Tasks |-> IF d \in new THEN dependents[d] \union {t} ELSE dependents[d]]
    /\ IF CanTransition(status[t], to)
       THEN /\ status' = [status EXCEPT ![t] = to]
            /\ ready' = IF to = "READY" THEN ready \union {t} ELSE ready \ {t}
            /\ waiting' = IF to = "PENDING" THEN waiting \union {t} ELSE waiting \ {t}
       ELSE /\ ready' = ready \ {t}
            /\ waiting' = waiting \ {t}
            /\ UNCHANGED status
    /\ UNCHANGED <<blockReason, nodes, running, completedTasks, failedTasks>>

-----------------------------------------------------------------------------
(* A for-loop over the items of S whose body raises on those of Bad: the   *)
(* items done and the item it stopped at.  Iteration order is arbitrary.   *)
LoopOutcomes(S, Bad) ==
    IF Bad = {} THEN {[done |-> S, hit |-> {}]}
    ELSE {[done |-> P, hit |-> {b}] : P \in SUBSET (S \ Bad), b \in Bad}

(* wake_waiting: tasks held back only by resources whose check now passes. *)
(* unblock raises for a cancelled task, after its removal from the queue.  *)
Wakeable(ok) == {t \in waiting \intersect blockReason \intersect ok : deps[t] = {}}

(* dispatch_ready() where resource_available (and the capability match)    *)
(* holds for the tasks of ok.  The queue is woken first if it is empty.    *)
(* Nothing is reserved, so each task is judged on its own; result is the   *)
(* list returned to the caller, which an exception loses.                  *)
DispatchFrom(R, W, st, reasons, ok, result) ==
    LET bad == {t \in R : ~CanTransition(st[t], IF t \in ok THEN "RUNNING" ELSE "BLOCKED")} IN
    \E o \in LoopOutcomes(R, bad) :
        LET admitted == o.done \intersect ok
            refused  == o.done \ ok IN
        /\ ready' = R \ (o.done \union o.hit)
        /\ waiting' = W \union refused
        /\ running' = running \union admitted
        /\ status' = [t \in Tasks |-> IF t \in admitted THEN "RUNNING"
                                      ELSE IF t \in refused THEN "BLOCKED" ELSE st[t]]
        /\ blockReason' = (reasons \ admitted) \union refused
        /\ result = IF o.hit = {} THEN admitted ELSE {}

DispatchReady(ok, result) ==
    /\ IF ready # {}
       THEN DispatchFrom(ready, waiting, status, blockReason, ok, result)
       ELSE LET bad == {t \in Wakeable(ok) : ~CanTransition(status[t], "READY")} IN
            \E o \in LoopOutcomes(Wakeable(ok), bad) :
                IF o.hit = {}
                THEN DispatchFrom(o.done, waiting \ o.done, Moved(o.done, "READY"),
                                  blockReason \ o.done, ok, result)
                ELSE /\ ready' = o.done
                     /\ waiting' = waiting \ (o.done \union o.hit)
                     /\ status' = Moved(o.done, "READY")
                     /\ blockReason' = blockReason \ o.done
                     /\ result = {}
                     /\ UNCHANGED running
    /\ UNCHANGED <<graphVars, completedTasks, failedTasks>>

-----------------------------------------------------------------------------
(* Seeded variants: the other dependencies are not looked at; no dependent *)
(* is freed; the dependency is not discarded.                              *)
FreedEarly(t, S) == S \intersect waiting
FreedNever(t, S) == {}
ResolvedNot(t, S) == deps

(* Releasing dependents of t: t leaves their unresolved dependencies, and  *)
(* one left with none moves from waiting to ready.  unblock raises for one *)
(* cancelled while it waited, after t and the queue entry are gone.        *)
Freed(t, S) == {x \in S \intersect waiting : deps[x] \subseteq {t}}
RaisesOnRelease(t, S) == {x \in Freed(t, S) : ~CanTransition(status[x], "READY")}
Resolved(t, S) == [x \in Tasks |-> IF x \in S THEN deps[x] \ {t} ELSE deps[x]]

(* complete_task(t): the caller has already moved t to SUCCESS.            *)
CompleteTask(t) ==
    \E o \in LoopOutcomes(dependents[t], RaisesOnRelease(t, dependents[t])) :
        LET freed == Freed(t, o.done) IN
        /\ status' = [Moved(freed, "READY") EXCEPT ![t] = "SUCCESS"]
        /\ deps' = Resolved(t, o.done \union o.hit)
        /\ waiting' = waiting \ (freed \union o.hit)
        /\ ready' = ready \union freed
        /\ blockReason' = blockReason \ freed
        /\ running' = running \ {t}
        /\ completedTasks' = completedTasks \union {t}
        /\ UNCHANGED <<declared, nodes, dependents, failedTasks>>

(* The mode fail_task(d) applies to dependent t: the edge's own policy, or *)
(* the one set explicitly on d; otherwise none and t goes on waiting.      *)
FailMode(d, t) == IF EdgeMode[d][t] # Unset THEN EdgeMode[d][t] ELSE TaskMode[d]
Permissive == {"fail_open", "degrade", "fallback"}
FailClosed(t) == {x \in dependents[t] : FailMode(t, x) = "fail_closed"}
FailOpen(t) == {x \in dependents[t] : FailMode(t, x) \in Permissive}
RaisesOnFail(t) ==
    {x \in FailClosed(t) : ~CanTransition(status[x], "FAILED")}
        \union RaisesOnRelease(t, FailOpen(t))

(* fail_task(t) with t already moved to state own by the caller: its       *)
(* fail-closed dependents fail (theirs do not), the permissive ones are    *)
(* released.  runs is the set of outcomes of the loop over dependents.     *)
FailTask(t, own, runs) ==
    \E o \in runs :
        LET closed == o.done \intersect FailClosed(t)
            opened == o.done \intersect FailOpen(t)
            hit    == o.hit \intersect FailOpen(t)
            freed  == Freed(t, opened) IN
        /\ status' = [x \in Tasks |-> IF x = t THEN own
                                       ELSE IF x \in closed THEN "FAILED"
                                       ELSE IF x \in freed THEN "READY" ELSE status[x]]
        /\ deps' = Resolved(t, opened \union hit)
        /\ waiting' = waiting \ (closed \union freed \union hit)
        /\ ready' = (ready \ closed) \union freed
        /\ blockReason' = blockReason \ freed
        /\ running' = running \ {t}
        /\ failedTasks' = failedTasks \union {t} \union closed
        /\ UNCHANGED <<declared, nodes, dependents, completedTasks>>

(* One call of fail_task, and the two calls _execute_task makes when the   *)
(* first raises: a released dependent that raised has left the waiting     *)
(* queue, so the second call passes it; a fail-closed one raises again.    *)
FailOnce(t) == LoopOutcomes(dependents[t], RaisesOnFail(t))
FailTwice(t) ==
    LET bad  == RaisesOnFail(t)
        rest == dependents[t] \ bad IN
    IF bad = {} THEN FailOnce(t)
    ELSE {[done |-> P, hit |-> {b}] : P \in SUBSET rest, b \in bad \intersect FailClosed(t)}
         \union UNION {IF bad = {b} THEN {[done |-> rest, hit |-> bad]}
                       ELSE {[done |-> P, hit |-> {b, c}] : P \in SUBSET rest, c \in bad \ {b}} :
                           b \in bad \intersect FailOpen(t)}
=============================================================================
