---------------------------- MODULE TaskExecution ----------------------------
(***************************************************************************)
(* The execution of tasks on agents (aruntime/daemon/main.py): attempts,   *)
(* retries, the fallback agent, leases, timeouts, the worker processes and *)
(* their connections, and the results that come back, possibly late.       *)
(*                                                                         *)
(* The daemon is one asyncio thread.  A coroutine runs until it awaits     *)
(* something that is not ready; pc[t] is where the coroutine of t stands,  *)
(* and turn = t says that it has not yet reached its next suspension, so   *)
(* no other handler can run.  Worker processes run at any time.            *)
(***************************************************************************)
EXTENDS TaskStates, AgentLifecycle, ResourceMonitor

CONSTANTS
    AgentOf,      \* AgentOf[t]: task.agent_name
    FallbackOf,   \* FallbackOf[t]: failure_policy.fallback_agent
    Mode,         \* Mode[t]: failure_policy.mode
    MaxRetries,   \* MaxRetries[t]: failure_policy.max_retries
    MaxRestarts,  \* WorkerFaultState.max_restarts
    Cancellable,  \* tasks some client cancels
    Killable,     \* agents some client kills
    Restartable,  \* agents some client restarts
    Crashing      \* agents whose worker may crash or stop its heartbeat

ASSUME ExecutionIsTyped ==
    /\ AgentOf \in [Tasks -> Agents] /\ FallbackOf \in [Tasks -> Agents]
    /\ Mode \in [Tasks -> FailureMode]
    /\ MaxRetries \in [Tasks -> Nat] /\ MaxRestarts \in Nat
    /\ Cancellable \subseteq Tasks
    /\ Killable \subseteq Agents /\ Restartable \subseteq Agents /\ Crashing \subseteq Agents

Nobody == "nobody"

VARIABLES
    status,    \* status[t]: TaskSpec.status
    pc,        \* pc[t]: where the execution of t stands
    turn,      \* the task whose coroutine holds the event loop, or Nobody
    attempts,  \* attempts[t]: attempts created so far
    at,        \* at[t]: agent of the current attempt
    agent,     \* agent[a]: the two copies of the agent's state
    worker,    \* worker[a]: no process, one not yet connected, one connected, or an exited one
    conn,      \* conn[a]: the writer registered with the router: none, the live worker's, or a dead one's
    restarts,  \* restarts[a]: restart_count
    jobs,      \* attempts workers are executing: [agent, task, attempt]
    results,   \* task_result messages on their way: [task, attempt, ok]
    earned     \* history: the attempts <<task, attempt>> a worker has finished successfully

execVars == <<status, pc, turn, attempts, at>>
workerVars == <<worker, conn, jobs>>
vars == <<execVars, agent, workerVars, restarts, results, earned, resourceVars>>

Init ==
    /\ ResourceInit
    /\ status = [t \in Tasks |-> "PENDING"]
    /\ pc = [t \in Tasks |-> "new"]
    /\ turn = Nobody
    /\ attempts = [t \in Tasks |-> 0]
    /\ at = AgentOf
    /\ agent = [a \in Agents |-> Both("READY")]
    /\ worker = [a \in Agents |-> "starting"]
    /\ conn = [a \in Agents |-> "none"]
    /\ restarts = [a \in Agents |-> 0]
    /\ jobs = {} /\ results = {} /\ earned = {}

HasFallback(t) == Mode[t] = "fallback"
OnFallback(t) == attempts[t] > MaxRetries[t] + 1
JobsOf(a) == {j \in jobs : j.agent = a}

(* The coroutine of t goes on at step p without giving up the loop, or     *)
(* suspends there (an execution that is done has returned).                *)
Continue(t, p) == pc' = [pc EXCEPT ![t] = p] /\ turn' = t
Suspend(t, p) == pc' = [pc EXCEPT ![t] = p] /\ turn' = Nobody

(* Seeded variant: the process is forgotten but goes on working.           *)
ReplaceWorkerOnly(a, state) ==
    /\ worker' = [worker EXCEPT ![a] = state]
    /\ UNCHANGED <<jobs, conn>>

(* _stop_worker, and _start_worker when state is "starting".  The          *)
(* connection of the stopped process is only noticed by Disconnect.        *)
ReplaceWorker(a, state) ==
    /\ worker' = [worker EXCEPT ![a] = state]
    /\ jobs' = jobs \ JobsOf(a)
    /\ conn' = [conn EXCEPT ![a] = IF @ = "live" THEN "stale" ELSE @]

-----------------------------------------------------------------------------
(* submit_task: the agent must accept tasks, and is made ready first.      *)
SubmitTask(t) ==
    LET a == AgentOf[t] IN
    /\ turn = Nobody /\ pc[t] = "new"
    /\ agent[a].spec \notin {"KILLED", "SUSPENDED", "ISOLATED"} /\ ~RecoverRaises(agent[a])
    /\ agent' = [agent EXCEPT ![a] = MadeReady(@)]
    /\ pc' = [pc EXCEPT ![t] = "submitted"]
    /\ UNCHANGED <<status, turn, attempts, at, workerVars, restarts, results, earned, resourceVars>>

(* The scheduler dispatches t when its request could be allocated now.     *)
(* Nothing is reserved.                                                    *)
Dispatch(t) ==
    /\ turn = Nobody /\ pc[t] = "submitted"
    /\ CanAllocate(t, FALSE)
    /\ status' = [status EXCEPT ![t] = "RUNNING"]
    /\ pc' = [pc EXCEPT ![t] = "queued"]
    /\ UNCHANGED <<turn, attempts, at, agent, workerVars, restarts, results, earned, resourceVars>>

Executing == {t \in Tasks : pc[t] \notin {"new", "submitted", "queued", "admitted", "done"}}
Admitted == {t \in Tasks : pc[t] = "admitted"} \union Executing

(* The daemon's semaphore comes first: a task that then waits for the one  *)
(* of its agent already counts against the daemon's limit.                 *)
AdmitTask(t) ==
    /\ turn = Nobody /\ pc[t] = "queued"
    /\ Cardinality(Admitted) < Quota["llm"]
    /\ Suspend(t, "admitted")
    /\ UNCHANGED <<status, attempts, at, agent, workerVars, restarts, results, earned, resourceVars>>

(* The semaphore of an agent has one slot, the default.                    *)
AgentSlotFree(a) == \A u \in Executing : AgentOf[u] # a

(* _execute_task starts.  If the agent cannot be moved to RUNNING it fails.*)
BeginTask(t) ==
    LET a == AgentOf[t] IN
    /\ turn = Nobody /\ pc[t] = "admitted" /\ AgentSlotFree(a)
    /\ agent' = [agent EXCEPT ![a] = PrepareAgent(@)]
    /\ Continue(t, IF PrepareRaises(agent[a]) THEN "failing" ELSE "attempt")
    /\ UNCHANGED <<status, attempts, at, workerVars, restarts, results, earned, resourceVars>>

(* An attempt acquires its lease and goes on to its worker, or fails.      *)
AcquireLease(t) ==
    \E loaded \in BOOLEAN :
        \/ MayLease(t, at[t], loaded) /\ Grant(t, at[t]) /\ Continue(t, "connect")
        \/ ~MayLease(t, at[t], loaded) /\ UNCHANGED resourceVars /\ Continue(t, "attempt_failed")

(* The next attempt on the task's own agent.                               *)
StartAttempt(t) ==
    /\ turn = t /\ pc[t] = "attempt"
    /\ attempts' = [attempts EXCEPT ![t] = @ + 1]
    /\ AcquireLease(t)
    /\ UNCHANGED <<status, at, agent, workerVars, restarts, results, earned>>

(* wait_connected returns at once if a connection is registered.           *)
Connect(t) ==
    /\ turn = t /\ pc[t] = "connect"
    /\ IF conn[at[t]] = "none" THEN Suspend(t, "connecting") ELSE Continue(t, "send")
    /\ UNCHANGED <<status, attempts, at, agent, workerVars, restarts, results, earned, resourceVars>>

WaitConnected(t) ==
    /\ turn = Nobody /\ pc[t] \in {"connecting", "reconnecting"}
    /\ conn[at[t]] # "none"
    /\ Continue(t, "send")
    /\ UNCHANGED <<status, attempts, at, agent, workerVars, restarts, results, earned, resourceVars>>

(* Seeded variant: the worker is awaited over and over.                    *)
ConnectTimeoutAgain(t) ==
    LET a == at[t] IN
    /\ turn = Nobody /\ pc[t] \in {"connecting", "reconnecting"} /\ conn[a] = "none"
    /\ Suspend(t, "reconnecting")
    /\ IF worker[a] = "none" THEN ReplaceWorker(a, "starting") ELSE UNCHANGED workerVars
    /\ UNCHANGED <<status, attempts, at, agent, restarts, results, earned, resourceVars>>

(* It times out: a crashed worker fails the attempt; otherwise the worker  *)
(* is started if there is none, and awaited once more.                     *)
ConnectTimeout(t) ==
    LET a == at[t] IN
    /\ turn = Nobody /\ pc[t] \in {"connecting", "reconnecting"} /\ conn[a] = "none"
    /\ IF pc[t] = "reconnecting" \/ worker[a] = "exited"
       THEN Continue(t, "attempt_failed") /\ UNCHANGED workerVars
       ELSE /\ Suspend(t, "reconnecting")
            /\ IF worker[a] = "none" THEN ReplaceWorker(a, "starting") ELSE UNCHANGED workerVars
    /\ UNCHANGED <<status, attempts, at, agent, restarts, results, earned, resourceVars>>

(* The worker takes an exec_task; one for an attempt that it is already    *)
(* running is refused.                                                     *)
AcceptExecTask(j) == jobs' = jobs \union {j}

(* send_event("exec_task").  A connection whose worker is gone either      *)
(* fails, and is unregistered, or swallows the message.                    *)
SendExecTask(t) ==
    LET a == at[t] IN
    /\ turn = t /\ pc[t] = "send"
    /\ \/ /\ conn[a] = "live"
          /\ AcceptExecTask([agent |-> a, task |-> t, attempt |-> attempts[t]])
          /\ Suspend(t, "waiting")
          /\ UNCHANGED conn
       \/ /\ conn[a] = "stale"
          /\ Suspend(t, "waiting")
          /\ UNCHANGED <<jobs, conn>>
       \/ /\ conn[a] # "live"
          /\ conn' = [conn EXCEPT ![a] = "none"]
          /\ Continue(t, "attempt_failed")
          /\ UNCHANGED jobs
    /\ UNCHANGED <<status, attempts, at, agent, worker, restarts, results, earned, resourceVars>>

-----------------------------------------------------------------------------
(* Seeded variant: a result is matched by its task alone.                  *)
AwaitedByTask(r) == pc[r.task] = "waiting"

(* The check of _on_task_result: some attempt of the task is waiting, and  *)
(* it is the one the result names.                                         *)
Awaited(r) == pc[r.task] = "waiting" /\ r.attempt = attempts[r.task]

(* A result arrives; one that nobody waits for is dropped.                 *)
DeliverResult(r) ==
    /\ turn = Nobody /\ r \in results
    /\ results' = results \ {r}
    /\ IF Awaited(r) THEN Continue(r.task, IF r.ok THEN "succeeded" ELSE "attempt_failed")
       ELSE UNCHANGED <<pc, turn>>
    /\ UNCHANGED <<status, attempts, at, agent, workerVars, restarts, earned, resourceVars>>

(* The attempt times out: cancel_task is sent and a grace period begins.   *)
(* For a cancelled task the transition raises before that.                 *)
AttemptTimeout(t) ==
    /\ turn = Nobody /\ pc[t] = "waiting"
    /\ IF CanTransition(status[t], "TIMEOUT")
       THEN status' = [status EXCEPT ![t] = "TIMEOUT"] /\ Suspend(t, "grace")
       ELSE UNCHANGED status /\ Continue(t, "attempt_failed")
    /\ UNCHANGED <<attempts, at, agent, workerVars, restarts, results, earned, resourceVars>>

GraceOver(t) ==
    /\ turn = Nobody /\ pc[t] = "grace"
    /\ Release(t)
    /\ Continue(t, "attempt_failed")
    /\ UNCHANGED <<status, attempts, at, agent, workerVars, restarts, results, earned>>

(* Seeded variant: the lease is kept across the retry.                     *)
IsolateKeepingLease(t) ==
    LET a == at[t]
        again == agent[a].spec # "KILLED" /\ restarts[a] < MaxRestarts IN
    /\ agent' = [agent EXCEPT ![a] = FailAgent(@)]
    /\ ReplaceWorker(a, IF again THEN "starting" ELSE "none")
    /\ restarts' = IF again THEN [restarts EXCEPT ![a] = @ + 1] ELSE restarts
    /\ UNCHANGED resourceVars

(* _isolate_failed_worker: the agent fails, the lease is reclaimed, the    *)
(* worker is stopped and, within its budget, started again.                *)
IsolateFailedWorker(t) ==
    LET a == at[t]
        again == agent[a].spec # "KILLED" /\ restarts[a] < MaxRestarts IN
    /\ agent' = [agent EXCEPT ![a] = FailAgent(@)]
    /\ Release(t)
    /\ ReplaceWorker(a, IF again THEN "starting" ELSE "none")
    /\ restarts' = IF again THEN [restarts EXCEPT ![a] = @ + 1] ELSE restarts

(* An attempt has failed: what _run_task_with_policy does next.            *)
AttemptFailed(t) ==
    /\ turn = t /\ pc[t] = "attempt_failed" /\ ~OnFallback(t)
    /\ IsolateFailedWorker(t)
    /\ \/ attempts[t] <= MaxRetries[t] /\ Suspend(t, "backoff")
       \/ attempts[t] > MaxRetries[t] /\ HasFallback(t) /\ Continue(t, "fallback")
       \/ /\ attempts[t] > MaxRetries[t] /\ ~HasFallback(t)
          /\ Continue(t, IF Mode[t] = "degrade" THEN "succeeded" ELSE "failing")
    /\ UNCHANGED <<status, attempts, at, results, earned>>

(* The attempt on the fallback agent has failed, and with it the task.     *)
FallbackFailed(t) ==
    /\ turn = t /\ pc[t] = "attempt_failed" /\ OnFallback(t)
    /\ IsolateFailedWorker(t)
    /\ Continue(t, "failing")
    /\ UNCHANGED <<status, attempts, at, results, earned>>

(* After the backoff a task that timed out is RUNNING again.               *)
Retry(t) ==
    /\ turn = Nobody /\ pc[t] = "backoff"
    /\ status' = [status EXCEPT ![t] = IF @ = "TIMEOUT" THEN "RUNNING" ELSE @]
    /\ Continue(t, "attempt")
    /\ UNCHANGED <<attempts, at, agent, workerVars, restarts, results, earned, resourceVars>>

(* _prepare_fallback_attempt: one more attempt, on the fallback agent.     *)
PrepareFallbackAttempt(t) ==
    /\ attempts' = [attempts EXCEPT ![t] = @ + 1]
    /\ at' = [at EXCEPT ![t] = FallbackOf[t]]

(* The fallback agent is used whatever its state: it is moved to RUNNING   *)
(* if that is allowed, and its worker is started if it has none.           *)
StartFallback(t) ==
    LET f == FallbackOf[t] IN
    /\ turn = t /\ pc[t] = "fallback"
    /\ status' = [status EXCEPT ![t] = IF @ = "TIMEOUT" THEN "RUNNING" ELSE @]
    /\ PrepareFallbackAttempt(t)
    /\ agent' = [agent EXCEPT ![f] = MoveAgent(@, "RUNNING")]
    /\ IF worker[f] \in {"none", "exited"} THEN ReplaceWorker(f, "starting") ELSE UNCHANGED workerVars
    /\ Continue(t, "fallback_attempt")
    /\ UNCHANGED <<restarts, results, earned, resourceVars>>

(* The attempt on the fallback agent: the same lease, the same worker path.*)
FallbackAttempt(t) ==
    /\ turn = t /\ pc[t] = "fallback_attempt"
    /\ AcquireLease(t)
    /\ UNCHANGED <<status, attempts, at, agent, workerVars, restarts, results, earned>>

(* The end of _execute_task.  The agent updated is the task's own, also    *)
(* when the fallback did the work.  TIMEOUT -> SUCCESS is refused, and the *)
(* exception fails the task.                                               *)
FinishTask(t) ==
    LET a  == AgentOf[t]
        ok == pc[t] = "succeeded" /\ CanTransition(status[t], "SUCCESS") IN
    /\ turn = t /\ pc[t] \in {"succeeded", "failing"}
    /\ IF status[t] = "CANCELLED" THEN UNCHANGED <<status, agent>>
       ELSE /\ status' = [status EXCEPT ![t] = IF ok THEN "SUCCESS" ELSE "FAILED"]
            /\ agent' = [agent EXCEPT ![a] = IF ok THEN CompleteAgent(@) ELSE FailAgent(@)]
    /\ Release(t)
    /\ Suspend(t, "done")
    /\ UNCHANGED <<attempts, at, workerVars, restarts, results, earned>>

-----------------------------------------------------------------------------
(* _cancel_runtime_task on a dispatched task: fail_task raises before the  *)
(* lease is released, and no worker is told.                               *)
CancelTask(t) ==
    /\ turn = Nobody /\ t \in Cancellable
    /\ status[t] = "RUNNING"
    /\ status' = [status EXCEPT ![t] = "CANCELLED"]
    /\ UNCHANGED <<pc, turn, attempts, at, agent, workerVars, restarts, results, earned, resourceVars>>

KillAgent(a) ==
    /\ turn = Nobody /\ a \in Killable
    /\ agent' = [agent EXCEPT ![a] = KillViews(@)]
    /\ ReplaceWorker(a, "none")
    /\ UNCHANGED <<execVars, restarts, results, earned, resourceVars>>

RestartAgent(a) ==
    /\ turn = Nobody /\ a \in Restartable /\ agent[a].spec # "KILLED"
    /\ agent' = [agent EXCEPT ![a] = RestartViews(@)]
    /\ ReplaceWorker(a, "starting")
    /\ UNCHANGED <<execVars, restarts, results, earned, resourceVars>>

(* worker_monitor_loop finds the worker exited, or its heartbeat stale.    *)
MonitorLost(a) ==
    /\ turn = Nobody /\ agent[a].spec # "KILLED"
    /\ worker[a] = "exited" \/ (a \in Crashing /\ worker[a] # "none")
    /\ IF restarts[a] < MaxRestarts
       THEN /\ restarts' = [restarts EXCEPT ![a] = @ + 1]
            /\ ReplaceWorker(a, "starting")
            /\ UNCHANGED agent
       ELSE /\ agent' = [agent EXCEPT ![a] = MoveAgent(@, "ISOLATED")]
            /\ ReplaceWorker(a, "none")
            /\ UNCHANGED restarts
    /\ UNCHANGED <<execVars, results, earned, resourceVars>>

-----------------------------------------------------------------------------
(* The worker connects and registers; its router entry replaces any other. *)
WorkerConnect(a) ==
    /\ turn = Nobody /\ worker[a] = "starting"
    /\ worker' = [worker EXCEPT ![a] = "connected"]
    /\ conn' = [conn EXCEPT ![a] = "live"]
    /\ UNCHANGED <<execVars, agent, restarts, jobs, results, earned, resourceVars>>

WorkerCrash(a) ==
    /\ a \in Crashing /\ worker[a] \in {"starting", "connected"}
    /\ ReplaceWorker(a, "exited")
    /\ UNCHANGED <<execVars, agent, restarts, results, earned, resourceVars>>

(* The daemon reads the end of a dead worker's stream.                     *)
Disconnect(a) ==
    /\ turn = Nobody /\ conn[a] = "stale"
    /\ conn' = [conn EXCEPT ![a] = "none"]
    /\ UNCHANGED <<execVars, agent, worker, restarts, jobs, results, earned, resourceVars>>

(* The worker finishes a job and reports on it.                            *)
WorkerFinish(j, ok) ==
    /\ j \in jobs
    /\ jobs' = jobs \ {j}
    /\ results' = results \union {[task |-> j.task, attempt |-> j.attempt, ok |-> ok]}
    /\ earned' = IF ok THEN earned \union {<<j.task, j.attempt>>} ELSE earned
    /\ UNCHANGED <<execVars, agent, worker, conn, restarts, resourceVars>>

(* cancel_task reaches the worker: the job ends without a task_result.     *)
WorkerCancel(j) ==
    /\ j \in jobs /\ pc[j.task] = "grace"
    /\ jobs' = jobs \ {j}
    /\ UNCHANGED <<execVars, agent, worker, conn, restarts, results, earned, resourceVars>>

TaskStep(t) ==
    \/ AdmitTask(t) \/ BeginTask(t) \/ StartAttempt(t) \/ Connect(t) \/ WaitConnected(t)
    \/ ConnectTimeout(t) \/ SendExecTask(t) \/ AttemptTimeout(t) \/ GraceOver(t) \/ AttemptFailed(t) \/ Retry(t)
    \/ StartFallback(t) \/ FallbackAttempt(t) \/ FallbackFailed(t) \/ FinishTask(t)

AgentStep(a) ==
    \/ KillAgent(a) \/ RestartAgent(a) \/ MonitorLost(a)
    \/ WorkerConnect(a) \/ WorkerCrash(a) \/ Disconnect(a)

Next ==
    \/ \E t \in Tasks : SubmitTask(t) \/ Dispatch(t) \/ TaskStep(t) \/ CancelTask(t)
    \/ \E a \in Agents : AgentStep(a)
    \/ \E j \in jobs : WorkerCancel(j) \/ \E ok \in BOOLEAN : WorkerFinish(j, ok)
    \/ \E r \in results : DeliverResult(r)

(* asyncio runs every coroutine that can go on, and timers fire.  Workers  *)
(* and clients owe nothing.                                                *)
Fairness == \A t \in Tasks : WF_vars(TaskStep(t))

Spec == Init /\ [][Next]_vars
FairSpec == Spec /\ Fairness
-----------------------------------------------------------------------------
Steps == {"new", "submitted", "queued", "admitted", "attempt", "connect", "connecting", "reconnecting",
          "send", "waiting", "grace", "attempt_failed", "backoff", "fallback", "fallback_attempt",
          "succeeded", "failing", "done"}
AttemptSteps == {"connect", "connecting", "reconnecting", "send", "waiting", "grace", "attempt_failed", "succeeded"}

(* Every variable has its type, and a coroutine that holds the event loop  *)
(* is at a step that has not suspended.                                    *)
TypeOK ==
    /\ status \in [Tasks -> TaskStatus]
    /\ pc \in [Tasks -> Steps]
    /\ turn \in Tasks \union {Nobody}
    /\ \A t \in Tasks :
        turn = t <=> pc[t] \in {"attempt", "connect", "send", "attempt_failed", "fallback",
                                 "fallback_attempt", "succeeded", "failing"}
    /\ attempts \in [Tasks -> Nat] /\ at \in [Tasks -> Agents]
    /\ agent \in [Agents -> AgentViews]
    /\ worker \in [Agents -> {"none", "starting", "connected", "exited"}]
    /\ conn \in [Agents -> {"none", "live", "stale"}]
    /\ restarts \in [Agents -> 0..MaxRestarts]
    /\ jobs \subseteq [agent : Agents, task : Tasks, attempt : Nat]
    /\ results \subseteq [task : Tasks, attempt : Nat, ok : BOOLEAN]
    /\ earned \subseteq Tasks \X Nat
    /\ lease \in [Tasks -> Agents \union {NoLease}]
    /\ usage \in [Classes -> Nat] /\ agentLlm \in [Agents -> Nat] /\ llmTotal \in Nat

(* The tasks with an active lease, and what those in S asked for.          *)
Leased == {t \in Tasks : lease[t] # NoLease}
Held(S, c) == MapThenSumSet(LAMBDA t : Request[t][c], S)

(* The counters are exactly what the active leases add up to: no attempt,  *)
(* timeout, cancellation or fallback leaks a lease or returns one twice.   *)
LeasesBalance ==
    /\ \A c \in Classes : usage[c] = Held(Leased, c)
    /\ \A a \in Agents : agentLlm[a] = Held({t \in Leased : lease[t] = a}, "llm")
    /\ llmTotal = Held(Leased, "llm")

(* Several tasks may pass the dispatch check for the same free capacity;   *)
(* still no more is ever leased than the quota.                            *)
QuotaRespected == \A c \in Classes : Quota[c] > 0 => usage[c] <= Quota[c]

(* A lease lives no longer than its attempt, and is charged to the agent   *)
(* the attempt runs on: none survives into the backoff, the fallback or    *)
(* the end of the execution.                                               *)
LeaseFollowsAttempt == \A t \in Tasks : lease[t] # NoLease => pc[t] \in AttemptSteps /\ lease[t] = at[t]

(* Two attempts of a task never run at the same time: whatever a worker is *)
(* executing is the current attempt, which the daemon still waits for.     *)
OneAttemptRuns ==
    \A j \in jobs :
        /\ j.attempt = attempts[j.task] /\ j.agent = at[j.task]
        /\ pc[j.task] \in {"waiting", "grace", "attempt_failed"}

(* A task that succeeded did so by its last attempt: a late result of an   *)
(* earlier one, which timed out, is never taken for it.                    *)
SuccessIsEarned ==
    \A t \in Tasks : status[t] = "SUCCESS" => Mode[t] = "degrade" \/ <<t, attempts[t]>> \in earned

(* No handler revives a killed agent, although failures, completions and   *)
(* retries of its tasks go on being processed.                             *)
KilledIsFinal == [][\A a \in Agents : agent[a] = Both("KILLED") => agent'[a] = Both("KILLED")]_vars

(* Every dispatched task reaches the end of its execution, whatever the    *)
(* workers do.                                                             *)
ExecutionEnds == \A t \in Tasks : pc[t] = "queued" ~> pc[t] = "done"
=============================================================================
