------------------------ MODULE TaskExecution_proofs ------------------------
(***************************************************************************)
(* Proofs about TaskExecution for every set of tasks and agents, every     *)
(* quota, request, failure mode and number of retries: what the fault runs *)
(* check of leases, attempts, results and killed agents on two tasks.      *)
(***************************************************************************)
EXTENDS TaskExecution, TLAPS, FiniteSetTheorems, WellFoundedInduction

(* Most steps are first-order reasoning about sets and functions: Zenon    *)
(* proves them, and the steps that need more say SMT.                      *)
USE Zenon

-----------------------------------------------------------------------------
(* The types the argument needs.                                           *)
Typed ==
    /\ status \in [Tasks -> TaskStatus] /\ pc \in [Tasks -> Steps]
    /\ attempts \in [Tasks -> Nat] /\ at \in [Tasks -> Agents]
    /\ lease \in [Tasks -> Agents \union {NoLease}]
    /\ agent \in [Agents -> AgentViews]
    /\ jobs \subseteq [agent : Agents, task : Tasks, attempt : Nat]
    /\ results \subseteq [task : Tasks, attempt : Nat, ok : BOOLEAN]

(* A result names an attempt that was made, and once the result of the     *)
(* current attempt is on its way, no worker executes that attempt and it   *)
(* is not sent to one again.                                               *)
Unsent == {"connect", "connecting", "reconnecting", "send", "fallback_attempt"}
ResultsFollowJobs ==
    \A r \in results :
        /\ r.attempt <= attempts[r.task]
        /\ r.ok => <<r.task, r.attempt>> \in earned
        /\ r.attempt = attempts[r.task] =>
               pc[r.task] \notin Unsent /\ \A j \in jobs : j.task # r.task

(* A task that is about to succeed, or has, owes it to its last attempt or *)
(* to its mode; and one that has is done.                                  *)
Earned(t) == Mode[t] = "degrade" \/ <<t, attempts[t]>> \in earned
SuccessesEarned ==
    \A t \in Tasks :
        /\ pc[t] = "succeeded" => Earned(t)
        /\ status[t] = "SUCCESS" => pc[t] = "done" /\ Earned(t)

IndInv == Typed /\ LeaseFollowsAttempt /\ OneAttemptRuns /\ ResultsFollowJobs /\ SuccessesEarned

-----------------------------------------------------------------------------
(* What the helpers on the two copies of an agent's state return: again    *)
(* such a pair, and a killed one as it was.                                *)
LEMMA AgentFacts ==
    ASSUME NEW p \in AgentViews, NEW to \in AgentStatus
    PROVE  /\ MoveAgent(p, to) \in AgentViews /\ MadeReady(p) \in AgentViews
           /\ PrepareAgent(p) \in AgentViews /\ FailAgent(p) \in AgentViews
           /\ CompleteAgent(p) \in AgentViews /\ KillViews(p) \in AgentViews
           /\ RestartViews(p) \in AgentViews
<1>1. \A s \in AgentStatus : Both(s) \in AgentViews
  BY DEF Both, AgentViews
<1>2. {"READY", "RUNNING", "FAILED", "COMPLETED", "KILLED"} \subseteq AgentStatus
  BY DEF AgentStatus
<1>3. \A q \in AgentViews, s \in AgentStatus : MoveAgent(q, s) \in AgentViews
  BY <1>1 DEF MoveAgent
<1>4. RecoverAgent(p) \in AgentViews
  BY <1>1, <1>2 DEF RecoverAgent
<1>5. MadeReady(p) \in AgentViews
  BY <1>1, <1>2, <1>4 DEF MadeReady
<1>6. PrepareAgent(p) \in AgentViews
  BY <1>2, <1>3, <1>5 DEF PrepareAgent
<1>7. [p EXCEPT !.spec = "FAILED"] \in AgentViews
  BY <1>2 DEF AgentViews
<1>8. FailAgent(p) \in AgentViews
  BY <1>1, <1>2, <1>7 DEF FailAgent
<1>9. CompleteAgent(p) \in AgentViews
  BY <1>2, <1>3, <1>4 DEF CompleteAgent
<1>10. RestartViews(p) \in AgentViews /\ KillViews(p) \in AgentViews
  BY <1>1, <1>2, <1>3 DEF RestartViews, KillViews
<1> QED BY <1>3, <1>5, <1>6, <1>8, <1>9, <1>10

(* Whatever helper is applied to it, a killed agent stays as it is.        *)
LEMMA KilledFacts ==
    ASSUME NEW to
    PROVE  LET k == Both("KILLED") IN
           /\ MoveAgent(k, to) = k /\ MadeReady(k) = k /\ PrepareAgent(k) = k /\ FailAgent(k) = k
           /\ CompleteAgent(k) = k /\ KillViews(k) = k /\ RestartViews(k) = k
<1>1. AgentAllowed["KILLED"] = {} /\ Both("KILLED").spec = "KILLED" /\ Both("KILLED").acb = "KILLED"
  BY DEF AgentAllowed, AgentStatus, Both
<1>2. \A s : MoveAgent(Both("KILLED"), s) = Both("KILLED")
  BY <1>1 DEF MoveAgent, CanMove
<1>3. RecoverAgent(Both("KILLED")) = Both("KILLED") /\ ~RecoverRaises(Both("KILLED"))
  BY <1>1 DEF RecoverAgent, RecoverRaises
<1>4. MadeReady(Both("KILLED")) = Both("KILLED")
  BY <1>1, <1>3 DEF MadeReady
<1> QED BY <1>1, <1>2, <1>3, <1>4 DEF PrepareAgent, FailAgent, CompleteAgent, KillViews, RestartViews

(* What happens to a lease.                                                *)
LEMMA ReleaseFacts ==
    ASSUME Typed, NEW t \in Tasks, Release(t)
    PROVE  lease' = [lease EXCEPT ![t] = NoLease]
BY DEF Release, resourceVars, Typed

-----------------------------------------------------------------------------
(* A step of an agent, of a worker or of the worker monitor.               *)
LEMMA AgentStepKeeps ==
    ASSUME IndInv, UNCHANGED <<status, pc, attempts, at, lease, results, earned>>,
           jobs' \subseteq jobs, agent' \in [Agents -> AgentViews]
    PROVE  IndInv'
<1>1. Typed'
  BY DEF IndInv, Typed
<1>2. LeaseFollowsAttempt'
  BY DEF IndInv, LeaseFollowsAttempt
<1>3. OneAttemptRuns'
  BY DEF IndInv, OneAttemptRuns
<1>4. ResultsFollowJobs'
  BY DEF IndInv, ResultsFollowJobs
<1>5. SuccessesEarned'
  BY DEF IndInv, SuccessesEarned, Earned
<1> QED BY <1>1, <1>2, <1>3, <1>4, <1>5 DEF IndInv

(* A step of the coroutine of t to step p that begins no attempt and sends *)
(* nothing to a worker.                                                    *)
LEMMA CoroutineKeeps ==
    ASSUME IndInv, NEW t \in Tasks, NEW p \in Steps, NEW s \in TaskStatus,
           pc' = [pc EXCEPT ![t] = p], status' = [status EXCEPT ![t] = s],
           UNCHANGED <<attempts, at, earned>>,
           jobs' \subseteq jobs, results' \subseteq results, agent' \in [Agents -> AgentViews],
           lease' \in [Tasks -> Agents \union {NoLease}],
           \A u \in Tasks \ {t} : lease'[u] = lease[u],
           lease'[t] # NoLease => p \in AttemptSteps /\ lease'[t] = at[t],
           p \notin {"waiting", "grace", "attempt_failed"} => \A j \in jobs' : j.task # t,
           p \in Unsent => pc[t] \in Unsent,
           p = "succeeded" => Earned(t),
           s = "SUCCESS" => p = "done" /\ Earned(t)
    PROVE  IndInv'
<1>0. /\ pc \in [Tasks -> Steps] /\ status \in [Tasks -> TaskStatus]
      /\ jobs \subseteq [agent : Agents, task : Tasks, attempt : Nat]
      /\ results \subseteq [task : Tasks, attempt : Nat, ok : BOOLEAN]
  BY DEF IndInv, Typed
<1>1. Typed'
  BY DEF IndInv, Typed
<1>2. LeaseFollowsAttempt'
  BY <1>0 DEF IndInv, LeaseFollowsAttempt
<1>3. OneAttemptRuns'
  BY <1>0 DEF IndInv, OneAttemptRuns
<1>4. ResultsFollowJobs'
  BY <1>0 DEF IndInv, ResultsFollowJobs
<1>5. SuccessesEarned'
  BY <1>0 DEF IndInv, SuccessesEarned, Earned
<1> QED BY <1>1, <1>2, <1>3, <1>4, <1>5 DEF IndInv
(* What the place of a coroutine says about its jobs and its lease.        *)
LEMMA PlaceFacts ==
    ASSUME IndInv, NEW t \in Tasks
    PROVE  /\ pc[t] \notin {"waiting", "grace", "attempt_failed"} => \A j \in jobs : j.task # t
           /\ pc[t] \notin AttemptSteps => lease[t] = NoLease
           /\ lease[t] # NoLease => lease[t] = at[t]
           /\ pc[t] # "done" => status[t] # "SUCCESS"
           /\ \A j \in jobs \ JobsOf(at[t]) : j.task # t
           /\ status[t] \in TaskStatus /\ status = [status EXCEPT ![t] = status[t]]
           /\ pc[t] \in Steps /\ pc = [pc EXCEPT ![t] = pc[t]]
           /\ AgentOf[t] \in Agents /\ FallbackOf[t] \in Agents /\ at[t] \in Agents
<1>1. status \in [Tasks -> TaskStatus] /\ pc \in [Tasks -> Steps] /\ at \in [Tasks -> Agents]
  BY DEF IndInv, Typed
<1>2. AgentOf \in [Tasks -> Agents] /\ FallbackOf \in [Tasks -> Agents]
  BY ExecutionIsTyped
<1> QED BY <1>1, <1>2 DEF IndInv, OneAttemptRuns, LeaseFollowsAttempt, SuccessesEarned, JobsOf

(* The endpoints and the way of a task to its first attempt.               *)
LEMMA AdmissionKeeps ==
    ASSUME IndInv, NEW t \in Tasks,
           SubmitTask(t) \/ Dispatch(t) \/ AdmitTask(t) \/ BeginTask(t) \/ CancelTask(t)
    PROVE  IndInv'
<1>1. /\ agent \in [Agents -> AgentViews] /\ lease \in [Tasks -> Agents \union {NoLease}]
      /\ {"submitted", "queued", "admitted", "failing", "attempt"} \subseteq Steps
      /\ {"RUNNING", "CANCELLED"} \subseteq TaskStatus
      /\ {"RUNNING", "READY"} \subseteq AgentStatus
  BY DEF IndInv, Typed, Steps, TaskStatus, AgentStatus
<1>2. /\ \A p \in AgentViews : MadeReady(p) \in AgentViews /\ PrepareAgent(p) \in AgentViews
  BY <1>1, AgentFacts
<1>3. CASE SubmitTask(t) \/ Dispatch(t) \/ AdmitTask(t) \/ BeginTask(t)
  <2>1. /\ pc[t] \in {"new", "submitted", "queued", "admitted"}
        /\ \E p \in {"submitted", "queued", "admitted", "failing", "attempt"} : pc' = [pc EXCEPT ![t] = p]
        /\ status' = status \/ status' = [status EXCEPT ![t] = "RUNNING"]
        /\ UNCHANGED <<attempts, at, earned, jobs, results, lease>>
    BY <1>3 DEF SubmitTask, Dispatch, AdmitTask, BeginTask, Suspend, Continue, workerVars, resourceVars
  <2>2. agent' \in [Agents -> AgentViews]
    <3>1. \/ agent' = [agent EXCEPT ![AgentOf[t]] = MadeReady(@)]
          \/ agent' = [agent EXCEPT ![AgentOf[t]] = PrepareAgent(@)]
          \/ agent' = agent
      BY <1>3 DEF SubmitTask, Dispatch, AdmitTask, BeginTask
    <3>2. AgentOf[t] \in Agents
      BY PlaceFacts
    <3> QED BY <1>1, <1>2, <3>1, <3>2, ZenonT(60)
  <2>3. PICK p \in {"submitted", "queued", "admitted", "failing", "attempt"} : pc' = [pc EXCEPT ![t] = p]
    BY <2>1
  <2>4. PICK s \in TaskStatus : status' = [status EXCEPT ![t] = s] /\ s # "SUCCESS"
    BY <1>1, <2>1, PlaceFacts, SMT
  <2>5. lease[t] = NoLease /\ \A j \in jobs : j.task # t
    BY <2>1, PlaceFacts DEF AttemptSteps
  <2> QED BY <1>1, <2>1, <2>2, <2>3, <2>4, <2>5, CoroutineKeeps DEF Unsent
<1>4. CASE CancelTask(t)
  <2>1. /\ status[t] = "RUNNING" /\ status' = [status EXCEPT ![t] = "CANCELLED"]
        /\ UNCHANGED <<pc, attempts, at, agent, earned, jobs, results, lease>>
    BY <1>4 DEF CancelTask, workerVars, resourceVars
  <2>2. lease'[t] # NoLease => pc[t] \in AttemptSteps /\ lease'[t] = at[t]
    BY <2>1, PlaceFacts
  <2>3. pc[t] = "succeeded" => Earned(t)
    BY DEF IndInv, SuccessesEarned
  <2>4. PICK p \in Steps : p = pc[t] /\ pc' = [pc EXCEPT ![t] = p]
    BY <2>1, PlaceFacts, SMT
  <2>5. /\ p \notin {"waiting", "grace", "attempt_failed"} => \A j \in jobs' : j.task # t
        /\ \A u \in Tasks \ {t} : lease'[u] = lease[u]
        /\ lease' \in [Tasks -> Agents \union {NoLease}] /\ agent' \in [Agents -> AgentViews]
        /\ jobs' \subseteq jobs /\ results' \subseteq results
        /\ "CANCELLED" \in TaskStatus
    BY <1>1, <2>1, <2>4, PlaceFacts
  <2> QED BY <2>1, <2>2, <2>3, <2>4, <2>5, CoroutineKeeps
<1> QED BY <1>3, <1>4

(* The next attempt, on the task's own agent or on the fallback: a result  *)
(* of an earlier attempt is now late.                                      *)
LEMMA NewAttemptKeeps ==
    ASSUME IndInv, NEW t \in Tasks, NEW p \in Steps \ {"succeeded", "done"}, NEW s \in TaskStatus \ {"SUCCESS"},
           pc[t] \in {"attempt", "fallback"}, pc' = [pc EXCEPT ![t] = p],
           attempts' = [attempts EXCEPT ![t] = @ + 1],
           status' = [status EXCEPT ![t] = s],
           at' \in [Tasks -> Agents], \A u \in Tasks \ {t} : at'[u] = at[u],
           UNCHANGED <<results, earned>>, jobs' \subseteq jobs, agent' \in [Agents -> AgentViews],
           lease' \in [Tasks -> Agents \union {NoLease}],
           \A u \in Tasks \ {t} : lease'[u] = lease[u],
           lease'[t] # NoLease => p \in AttemptSteps /\ lease'[t] = at'[t]
    PROVE  IndInv'
<1>0. /\ pc \in [Tasks -> Steps] /\ status \in [Tasks -> TaskStatus] /\ attempts \in [Tasks -> Nat]
      /\ jobs \subseteq [agent : Agents, task : Tasks, attempt : Nat]
      /\ results \subseteq [task : Tasks, attempt : Nat, ok : BOOLEAN]
      /\ \A j \in jobs : j.task # t
  BY PlaceFacts DEF IndInv, Typed
<1>1. Typed'
  BY <1>0, SMT DEF IndInv, Typed
<1>2. LeaseFollowsAttempt'
  BY <1>0 DEF IndInv, LeaseFollowsAttempt
<1>3. OneAttemptRuns'
  BY <1>0 DEF IndInv, OneAttemptRuns
<1>4. ResultsFollowJobs'
  <2> SUFFICES ASSUME NEW r \in results
               PROVE  /\ r.attempt <= attempts'[r.task]
                      /\ r.ok => <<r.task, r.attempt>> \in earned
                      /\ r.attempt = attempts'[r.task] =>
                             pc'[r.task] \notin Unsent /\ \A j \in jobs' : j.task # r.task
    BY DEF ResultsFollowJobs
  <2>1. /\ r.task \in Tasks /\ r.attempt \in Nat /\ r.attempt <= attempts[r.task]
        /\ r.ok => <<r.task, r.attempt>> \in earned
        /\ r.attempt = attempts[r.task] =>
               pc[r.task] \notin Unsent /\ \A j \in jobs : j.task # r.task
    BY <1>0 DEF IndInv, ResultsFollowJobs
  <2>2. CASE r.task = t
    BY <1>0, <2>1, <2>2, SMT
  <2>3. CASE r.task # t
    BY <1>0, <2>1, <2>3
  <2> QED BY <2>2, <2>3
<1>5. SuccessesEarned'
  BY <1>0 DEF IndInv, SuccessesEarned, Earned
<1> QED BY <1>1, <1>2, <1>3, <1>4, <1>5 DEF IndInv

(* A lease is granted to the agent of the attempt, or the attempt fails.   *)
LEMMA AcquireFacts ==
    ASSUME Typed, NEW t \in Tasks, AcquireLease(t), lease[t] = NoLease
    PROVE  /\ \E p \in {"connect", "attempt_failed"} : pc' = [pc EXCEPT ![t] = p]
           /\ lease' \in [Tasks -> Agents \union {NoLease}]
           /\ \A u \in Tasks \ {t} : lease'[u] = lease[u]
           /\ lease'[t] # NoLease => lease'[t] = at[t]
BY DEF AcquireLease, Grant, Continue, resourceVars, Typed

(* An attempt gets its number, its lease and its agent, or fails.          *)
LEMMA AttemptsKeep ==
    ASSUME IndInv, NEW t \in Tasks, StartAttempt(t) \/ StartFallback(t) \/ FallbackAttempt(t)
    PROVE  IndInv'
<1>1. /\ {"connect", "attempt_failed", "fallback_attempt"} \subseteq Steps \ {"succeeded", "done"}
      /\ {"connect", "attempt_failed"} \subseteq AttemptSteps
      /\ agent \in [Agents -> AgentViews] /\ at \in [Tasks -> Agents] /\ attempts \in [Tasks -> Nat]
      /\ lease \in [Tasks -> Agents \union {NoLease}]
      /\ Typed /\ "RUNNING" \in TaskStatus \ {"SUCCESS"} /\ "RUNNING" \in AgentStatus
  BY DEF IndInv, Typed, Steps, AttemptSteps, TaskStatus, AgentStatus
<1>2. pc[t] \in {"attempt", "fallback", "fallback_attempt"}
  BY DEF StartAttempt, StartFallback, FallbackAttempt
<1>3. /\ lease[t] = NoLease /\ status[t] \in TaskStatus \ {"SUCCESS"}
      /\ status = [status EXCEPT ![t] = status[t]] /\ \A j \in jobs : j.task # t
  BY <1>2, PlaceFacts DEF AttemptSteps
<1>4. CASE StartAttempt(t)
  <2>1. /\ pc[t] = "attempt" /\ attempts' = [attempts EXCEPT ![t] = @ + 1] /\ AcquireLease(t)
        /\ UNCHANGED <<status, at, agent, jobs, results, earned>>
    BY <1>4 DEF StartAttempt, workerVars
  <2>2. /\ lease' \in [Tasks -> Agents \union {NoLease}] /\ \A u \in Tasks \ {t} : lease'[u] = lease[u]
        /\ lease'[t] # NoLease => lease'[t] = at[t]
    BY <1>1, <1>3, <2>1, AcquireFacts
  <2>3. PICK p \in {"connect", "attempt_failed"} : pc' = [pc EXCEPT ![t] = p]
    BY <1>1, <1>3, <2>1, AcquireFacts
  <2> QED BY <1>1, <1>3, <2>1, <2>2, <2>3, NewAttemptKeeps
<1>5. CASE StartFallback(t)
  <2>1. /\ pc[t] = "fallback" /\ pc' = [pc EXCEPT ![t] = "fallback_attempt"]
        /\ attempts' = [attempts EXCEPT ![t] = @ + 1] /\ at' = [at EXCEPT ![t] = FallbackOf[t]]
        /\ status' = [status EXCEPT ![t] = IF @ = "TIMEOUT" THEN "RUNNING" ELSE @]
        /\ agent' = [agent EXCEPT ![FallbackOf[t]] = MoveAgent(@, "RUNNING")]
        /\ jobs' \subseteq jobs /\ UNCHANGED <<results, earned, lease>>
    BY <1>5 DEF StartFallback, PrepareFallbackAttempt, ReplaceWorker, Continue, workerVars, resourceVars
  <2>2. agent' \in [Agents -> AgentViews]
    BY <1>1, <2>1, AgentFacts, PlaceFacts
  <2>3. at' \in [Tasks -> Agents] /\ \A u \in Tasks \ {t} : at'[u] = at[u]
    BY <1>1, <2>1, PlaceFacts
  <2>4. PICK s \in TaskStatus \ {"SUCCESS"} : status' = [status EXCEPT ![t] = s]
    BY <1>1, <1>3, <2>1
  <2>5. /\ "fallback_attempt" \in Steps \ {"succeeded", "done"}
        /\ \A u \in Tasks \ {t} : lease'[u] = lease[u]
        /\ lease' \in [Tasks -> Agents \union {NoLease}] /\ lease'[t] = NoLease
    BY <1>1, <1>3, <2>1
  <2> QED BY <2>1, <2>2, <2>3, <2>4, <2>5, NewAttemptKeeps
<1>6. CASE FallbackAttempt(t)
  <2>1. /\ pc[t] = "fallback_attempt" /\ AcquireLease(t)
        /\ UNCHANGED <<status, attempts, at, agent, jobs, results, earned>>
    BY <1>6 DEF FallbackAttempt, workerVars
  <2>2. /\ lease' \in [Tasks -> Agents \union {NoLease}] /\ \A u \in Tasks \ {t} : lease'[u] = lease[u]
        /\ lease'[t] # NoLease => lease'[t] = at[t]
    BY <1>1, <1>3, <2>1, AcquireFacts
  <2>3. PICK p \in {"connect", "attempt_failed"} : pc' = [pc EXCEPT ![t] = p]
    BY <1>1, <1>3, <2>1, AcquireFacts
  <2> QED BY <1>1, <1>3, <2>1, <2>2, <2>3, CoroutineKeeps DEF Unsent
<1> QED BY <1>4, <1>5, <1>6
(* The wait for the worker.                                                *)
LEMMA ConnectionKeeps ==
    ASSUME IndInv, NEW t \in Tasks, Connect(t) \/ WaitConnected(t) \/ ConnectTimeout(t)
    PROVE  IndInv'
<1>1. /\ pc[t] \in {"connect", "connecting", "reconnecting"}
      /\ \E p \in {"connecting", "reconnecting", "send", "attempt_failed"} : pc' = [pc EXCEPT ![t] = p]
      /\ jobs' \subseteq jobs
      /\ UNCHANGED <<status, attempts, at, agent, earned, results, lease>>
  BY DEF Connect, WaitConnected, ConnectTimeout, ReplaceWorker, Suspend, Continue, workerVars, resourceVars
<1>2. PICK p \in {"connecting", "reconnecting", "send", "attempt_failed"} : pc' = [pc EXCEPT ![t] = p]
  BY <1>1
<1>3. p \in Steps \ {"succeeded"} /\ p \in AttemptSteps
  BY DEF Steps, AttemptSteps
<1>4. PICK s \in TaskStatus \ {"SUCCESS"} : status' = [status EXCEPT ![t] = s]
  BY <1>1, PlaceFacts
<1>5. /\ lease' \in [Tasks -> Agents \union {NoLease}] /\ agent' \in [Agents -> AgentViews]
      /\ \A u \in Tasks \ {t} : lease'[u] = lease[u]
      /\ lease'[t] # NoLease => lease'[t] = at[t]
      /\ \A j \in jobs' : j.task # t
  BY <1>1, PlaceFacts DEF IndInv, Typed
<1> QED BY <1>1, <1>2, <1>3, <1>4, <1>5, CoroutineKeeps, ZenonT(60) DEF Unsent

(* The attempt is sent to its worker: there was no job of the task, and no *)
(* result of this attempt.                                                 *)
LEMMA SendKeeps ==
    ASSUME IndInv, NEW t \in Tasks, SendExecTask(t)
    PROVE  IndInv'
<1> DEFINE job == [agent |-> at[t], task |-> t, attempt |-> attempts[t]]
<1>1. /\ pc[t] = "send" /\ UNCHANGED <<status, attempts, at, agent, earned, results, lease>>
      /\ \/ jobs' = jobs \union {job} /\ pc' = [pc EXCEPT ![t] = "waiting"]
         \/ jobs' = jobs /\ \E p \in {"waiting", "attempt_failed"} : pc' = [pc EXCEPT ![t] = p]
  BY DEF SendExecTask, AcceptExecTask, Suspend, Continue, resourceVars
<1>2. {"waiting", "attempt_failed"} \subseteq Steps /\ {"waiting", "attempt_failed"} \subseteq AttemptSteps
  BY DEF Steps, AttemptSteps
<1>3. /\ attempts \in [Tasks -> Nat] /\ at \in [Tasks -> Agents]
      /\ pc \in [Tasks -> Steps] /\ status \in [Tasks -> TaskStatus]
      /\ jobs \subseteq [agent : Agents, task : Tasks, attempt : Nat]
      /\ results \subseteq [task : Tasks, attempt : Nat, ok : BOOLEAN]
      /\ job \in [agent : Agents, task : Tasks, attempt : Nat]
  BY DEF IndInv, Typed
<1>4. \A r \in results : r.task = t => r.attempt # attempts[t]
  BY <1>1 DEF IndInv, ResultsFollowJobs, Unsent
<1>5. \E p \in {"waiting", "attempt_failed"} : pc' = [pc EXCEPT ![t] = p]
  BY <1>1
<1>6. job.agent = at[t] /\ job.task = t /\ job.attempt = attempts[t] /\ (jobs' = jobs \/ jobs' = jobs \union {job})
  BY <1>1
<1> HIDE DEF job
<1>7. Typed'
  BY <1>1, <1>2, <1>3, <1>5, <1>6, SMT DEF IndInv, Typed
<1>8. LeaseFollowsAttempt'
  BY <1>1, <1>2, <1>3, <1>5 DEF IndInv, LeaseFollowsAttempt
<1>9. OneAttemptRuns'
  BY <1>1, <1>3, <1>5, <1>6, SMT DEF IndInv, OneAttemptRuns
<1>10. ResultsFollowJobs'
  <2> SUFFICES ASSUME NEW r \in results
               PROVE  /\ r.attempt <= attempts[r.task]
                      /\ r.ok => <<r.task, r.attempt>> \in earned
                      /\ r.attempt = attempts[r.task] =>
                             pc'[r.task] \notin Unsent /\ \A j \in jobs' : j.task # r.task
    BY <1>1 DEF ResultsFollowJobs
  <2>1. /\ r.attempt <= attempts[r.task]
        /\ r.ok => <<r.task, r.attempt>> \in earned
        /\ r.attempt = attempts[r.task] =>
               pc[r.task] \notin Unsent /\ \A j \in jobs : j.task # r.task
    BY DEF IndInv, ResultsFollowJobs
  <2>2. ASSUME r.attempt = attempts[r.task]
        PROVE  pc'[r.task] \notin Unsent /\ \A j \in jobs' : j.task # r.task
    <3>1. r.task # t /\ r.task \in Tasks
      BY <1>3, <1>4, <2>2
    <3> QED BY <1>3, <1>5, <1>6, <2>1, <2>2, <3>1
  <2> QED BY <2>1, <2>2
<1>11. SuccessesEarned'
  BY <1>1, <1>3, <1>5 DEF IndInv, SuccessesEarned, Earned
<1> QED BY <1>7, <1>8, <1>9, <1>10, <1>11 DEF IndInv

(* A worker reports on its job, which is over then.                        *)
LEMMA WorkerFinishKeeps ==
    ASSUME IndInv, NEW j \in jobs, NEW ok \in BOOLEAN, WorkerFinish(j, ok)
    PROVE  IndInv'
<1> DEFINE res == [task |-> j.task, attempt |-> j.attempt, ok |-> ok]
<1>1. /\ jobs' = jobs \ {j} /\ results' = results \union {res}
      /\ earned \subseteq earned' /\ (ok => <<j.task, j.attempt>> \in earned')
      /\ UNCHANGED <<status, pc, attempts, at, agent, lease>>
  BY DEF WorkerFinish, execVars, resourceVars
<1>2. /\ jobs \subseteq [agent : Agents, task : Tasks, attempt : Nat]
      /\ results \subseteq [task : Tasks, attempt : Nat, ok : BOOLEAN]
      /\ attempts \in [Tasks -> Nat]
  BY DEF IndInv, Typed
<1>3. /\ j.attempt = attempts[j.task] /\ pc[j.task] \in {"waiting", "grace", "attempt_failed"}
      /\ \A k \in jobs : k.task = j.task => k = j
  <2>1. \A k \in jobs : k.attempt = attempts[k.task] /\ k.agent = at[k.task]
    BY DEF IndInv, OneAttemptRuns
  <2> QED BY <1>2, <2>1, SMT DEF IndInv, OneAttemptRuns
<1>4. res \in [task : Tasks, attempt : Nat, ok : BOOLEAN] /\ res.task = j.task /\ res.attempt = j.attempt
  BY <1>2
<1>5. res.ok = ok
  OBVIOUS
<1> HIDE DEF res
<1>6. Typed'
  BY <1>1, <1>2, <1>4 DEF IndInv, Typed
<1>7. LeaseFollowsAttempt' /\ OneAttemptRuns'
  BY <1>1 DEF IndInv, LeaseFollowsAttempt, OneAttemptRuns
<1>8. ResultsFollowJobs'
  <2>1. ASSUME NEW r \in results'
        PROVE  /\ r.attempt <= attempts[r.task]
               /\ r.attempt = attempts[r.task] =>
                      pc[r.task] \notin Unsent /\ \A k \in jobs' : k.task # r.task
    <3>1. CASE r \in results
      BY <1>1, <3>1 DEF IndInv, ResultsFollowJobs
    <3>2. CASE r = res
      BY <1>1, <1>2, <1>3, <1>4, <3>2, SMT DEF Unsent
    <3> QED BY <1>1, <3>1, <3>2
  <2>2. ASSUME NEW r \in results', r.ok PROVE <<r.task, r.attempt>> \in earned'
    <3>1. CASE r \in results
      BY <1>1, <2>2, <3>1 DEF IndInv, ResultsFollowJobs
    <3>2. CASE r = res
      BY <1>1, <1>4, <1>5, <2>2, <3>2
    <3> QED BY <1>1, <3>1, <3>2
  <2> QED BY <1>1, <2>1, <2>2 DEF ResultsFollowJobs
<1>9. SuccessesEarned'
  BY <1>1 DEF IndInv, SuccessesEarned, Earned
<1> QED BY <1>6, <1>7, <1>8, <1>9 DEF IndInv
(* The result, or the timeout, of an attempt.                              *)
LEMMA OutcomeKeeps ==
    ASSUME IndInv, (\E r \in results : DeliverResult(r)) \/ \E t \in Tasks : AttemptTimeout(t) \/ GraceOver(t)
    PROVE  IndInv'
<1>0. /\ lease \in [Tasks -> Agents \union {NoLease}] /\ agent \in [Agents -> AgentViews] /\ Typed
      /\ results \subseteq [task : Tasks, attempt : Nat, ok : BOOLEAN]
      /\ {"succeeded", "attempt_failed", "grace"} \subseteq Steps
      /\ {"succeeded", "attempt_failed", "grace"} \subseteq AttemptSteps
      /\ "TIMEOUT" \in TaskStatus
  BY DEF IndInv, Typed, Steps, AttemptSteps, TaskStatus
<1>1. ASSUME NEW r \in results, DeliverResult(r), Awaited(r) PROVE IndInv'
  <2> DEFINE t == r.task
  <2>1. /\ t \in Tasks /\ pc[t] = "waiting" /\ r.attempt = attempts[t]
        /\ UNCHANGED <<status, attempts, at, agent, earned, jobs, lease>> /\ results' \subseteq results
        /\ pc' = [pc EXCEPT ![t] = IF r.ok THEN "succeeded" ELSE "attempt_failed"]
    BY <1>0, <1>1 DEF DeliverResult, Awaited, Continue, workerVars, resourceVars
  <2>2. (r.ok => Earned(t)) /\ \A j \in jobs : j.task # t
    BY <2>1 DEF IndInv, ResultsFollowJobs, Earned
  <2> HIDE DEF t
  <2>3. PICK p \in {"succeeded", "attempt_failed"} : pc' = [pc EXCEPT ![t] = p] /\ (p = "succeeded" => Earned(t))
    BY <2>1, <2>2
  <2>4. PICK s \in TaskStatus \ {"SUCCESS"} : status' = [status EXCEPT ![t] = s]
    BY <2>1, PlaceFacts
  <2>5. /\ lease' \in [Tasks -> Agents \union {NoLease}] /\ agent' \in [Agents -> AgentViews]
        /\ \A u \in Tasks \ {t} : lease'[u] = lease[u]
        /\ lease'[t] # NoLease => lease'[t] = at[t]
        /\ \A j \in jobs' : j.task # t
    BY <1>0, <2>1, <2>2, PlaceFacts
  <2>6. t \in Tasks /\ UNCHANGED <<attempts, at, earned>> /\ jobs' \subseteq jobs /\ results' \subseteq results
    BY <2>1
  <2>7. p \in Steps /\ p \in AttemptSteps /\ p \notin Unsent
    BY <1>0 DEF Unsent
  <2> QED BY <2>3, <2>4, <2>5, <2>6, <2>7, CoroutineKeeps
<1>2. ASSUME NEW r \in results, DeliverResult(r), ~Awaited(r) PROVE IndInv'
  <2>1. UNCHANGED <<status, pc, attempts, at, agent, earned, jobs, lease>> /\ results' \subseteq results
    BY <1>2 DEF DeliverResult, workerVars, resourceVars
  <2>2. Typed' /\ LeaseFollowsAttempt' /\ OneAttemptRuns'
    BY <2>1 DEF IndInv, Typed, LeaseFollowsAttempt, OneAttemptRuns
  <2>3. ResultsFollowJobs' /\ SuccessesEarned'
    BY <2>1 DEF IndInv, ResultsFollowJobs, SuccessesEarned, Earned
  <2> QED BY <2>2, <2>3 DEF IndInv
<1>3. ASSUME NEW t \in Tasks, AttemptTimeout(t) PROVE IndInv'
  <2>1. /\ pc[t] = "waiting"
        /\ \E p \in {"grace", "attempt_failed"} : pc' = [pc EXCEPT ![t] = p]
        /\ status' = status \/ status' = [status EXCEPT ![t] = "TIMEOUT"]
        /\ UNCHANGED <<attempts, at, agent, earned, jobs, results, lease>>
    BY <1>3 DEF AttemptTimeout, Suspend, Continue, workerVars, resourceVars
  <2>2. PICK p \in {"grace", "attempt_failed"} : pc' = [pc EXCEPT ![t] = p]
    BY <2>1
  <2>3. PICK s \in TaskStatus \ {"SUCCESS"} : status' = [status EXCEPT ![t] = s]
    BY <1>0, <2>1, PlaceFacts, SMT
  <2>4. lease'[t] # NoLease => lease'[t] = at[t]
    BY <2>1, PlaceFacts
  <2> QED BY <1>0, <2>1, <2>2, <2>3, <2>4, CoroutineKeeps DEF Unsent
<1>4. ASSUME NEW t \in Tasks, GraceOver(t) PROVE IndInv'
  <2>1. /\ pc[t] = "grace" /\ pc' = [pc EXCEPT ![t] = "attempt_failed"]
        /\ UNCHANGED <<status, attempts, at, agent, earned, jobs, results>> /\ Release(t)
    BY <1>4 DEF GraceOver, Continue, workerVars
  <2>2. lease' = [lease EXCEPT ![t] = NoLease]
    BY <1>0, <2>1, ReleaseFacts
  <2>3. PICK s \in TaskStatus \ {"SUCCESS"} : status' = [status EXCEPT ![t] = s]
    BY <2>1, PlaceFacts, SMT
  <2>4. /\ lease' \in [Tasks -> Agents \union {NoLease}] /\ lease'[t] = NoLease
        /\ \A u \in Tasks \ {t} : lease'[u] = lease[u]
    BY <1>0, <2>2
  <2> QED BY <1>0, <2>1, <2>3, <2>4, CoroutineKeeps DEF Unsent
<1> QED BY <1>1, <1>2, <1>3, <1>4

(* The failure of an attempt stops the worker of that attempt, and with it *)
(* whatever it was doing for the task.                                     *)
LEMMA FailureKeeps ==
    ASSUME IndInv, NEW t \in Tasks, AttemptFailed(t) \/ FallbackFailed(t)
    PROVE  IndInv'
<1>0. /\ lease \in [Tasks -> Agents \union {NoLease}] /\ agent \in [Agents -> AgentViews] /\ Typed
      /\ {"backoff", "fallback", "succeeded", "failing"} \subseteq Steps
      /\ \A q \in AgentViews : FailAgent(q) \in AgentViews
  BY AgentFacts DEF IndInv, Typed, Steps, AgentStatus
<1>1. /\ pc[t] = "attempt_failed" /\ IsolateFailedWorker(t)
      /\ \E p \in {"backoff", "fallback", "succeeded", "failing"} :
             pc' = [pc EXCEPT ![t] = p] /\ (p = "succeeded" => Mode[t] = "degrade")
      /\ UNCHANGED <<status, attempts, at, results, earned>>
  BY DEF AttemptFailed, FallbackFailed, Suspend, Continue
<1>2. /\ agent' = [agent EXCEPT ![at[t]] = FailAgent(@)] /\ Release(t) /\ jobs' = jobs \ JobsOf(at[t])
  BY <1>1 DEF IsolateFailedWorker, ReplaceWorker
<1>3. agent' \in [Agents -> AgentViews]
  BY <1>0, <1>2
<1>4. lease' = [lease EXCEPT ![t] = NoLease]
  BY <1>0, <1>2, ReleaseFacts
<1>5. /\ lease' \in [Tasks -> Agents \union {NoLease}] /\ lease'[t] = NoLease
      /\ \A u \in Tasks \ {t} : lease'[u] = lease[u]
  BY <1>0, <1>4
<1>6. PICK p \in {"backoff", "fallback", "succeeded", "failing"} :
          pc' = [pc EXCEPT ![t] = p] /\ (p = "succeeded" => Earned(t))
  BY <1>1 DEF Earned
<1>7. PICK s \in TaskStatus \ {"SUCCESS"} : status' = [status EXCEPT ![t] = s]
  BY <1>1, PlaceFacts
<1>8. jobs' \subseteq jobs /\ \A j \in jobs' : j.task # t
  BY <1>2, PlaceFacts
<1> QED BY <1>0, <1>1, <1>3, <1>5, <1>6, <1>7, <1>8, CoroutineKeeps DEF Unsent

(* The task is tried again after the backoff, or its execution ends.       *)
LEMMA EndKeeps ==
    ASSUME IndInv, NEW t \in Tasks, Retry(t) \/ FinishTask(t)
    PROVE  IndInv'
<1>0. /\ lease \in [Tasks -> Agents \union {NoLease}] /\ agent \in [Agents -> AgentViews] /\ Typed
      /\ {"attempt", "done"} \subseteq Steps /\ {"RUNNING", "SUCCESS", "FAILED"} \subseteq TaskStatus
      /\ \A q \in AgentViews : FailAgent(q) \in AgentViews /\ CompleteAgent(q) \in AgentViews
  BY AgentFacts DEF IndInv, Typed, Steps, TaskStatus, AgentStatus
<1>1. CASE Retry(t)
  <2>1. /\ pc[t] = "backoff" /\ pc' = [pc EXCEPT ![t] = "attempt"]
        /\ status' = [status EXCEPT ![t] = IF @ = "TIMEOUT" THEN "RUNNING" ELSE @]
        /\ UNCHANGED <<attempts, at, agent, earned, jobs, results, lease>>
    BY <1>1 DEF Retry, Continue, workerVars, resourceVars
  <2>2. PICK s \in TaskStatus \ {"SUCCESS"} : status' = [status EXCEPT ![t] = s]
    BY <1>0, <2>1, PlaceFacts DEF IndInv, Typed
  <2>3. lease'[t] = NoLease /\ \A j \in jobs : j.task # t
    BY <2>1, PlaceFacts DEF AttemptSteps
  <2> QED BY <1>0, <2>1, <2>2, <2>3, CoroutineKeeps DEF Unsent
<1>2. CASE FinishTask(t)
  <2>1. /\ pc[t] \in {"succeeded", "failing"} /\ pc' = [pc EXCEPT ![t] = "done"] /\ Release(t)
        /\ UNCHANGED <<attempts, at, earned, jobs, results>>
    BY <1>2 DEF FinishTask, Suspend, workerVars
  <2>2. \/ status' = status
        \/ status' = [status EXCEPT ![t] = "FAILED"]
        \/ status' = [status EXCEPT ![t] = "SUCCESS"] /\ pc[t] = "succeeded"
    BY <1>2 DEF FinishTask
  <2>3. \/ agent' = agent
        \/ agent' = [agent EXCEPT ![AgentOf[t]] = CompleteAgent(@)]
        \/ agent' = [agent EXCEPT ![AgentOf[t]] = FailAgent(@)]
    BY <1>2 DEF FinishTask
  <2>4. AgentOf[t] \in Agents
    BY PlaceFacts
  <2>5. agent' \in [Agents -> AgentViews]
    BY <1>0, <2>3, <2>4, SMT
  <2>6. PICK s \in TaskStatus : status' = [status EXCEPT ![t] = s] /\ (s = "SUCCESS" => pc[t] = "succeeded")
    BY <1>0, <2>1, <2>2, PlaceFacts, SMT
  <2>7. s = "SUCCESS" => Earned(t)
    BY <2>6 DEF IndInv, SuccessesEarned
  <2>8. lease' = [lease EXCEPT ![t] = NoLease]
    BY <1>0, <2>1, ReleaseFacts
  <2>9. /\ lease' \in [Tasks -> Agents \union {NoLease}] /\ lease'[t] = NoLease
        /\ \A u \in Tasks \ {t} : lease'[u] = lease[u]
    BY <1>0, <2>8
  <2>10. \A j \in jobs : j.task # t
    BY <2>1, PlaceFacts
  <2> QED BY <1>0, <2>1, <2>5, <2>6, <2>7, <2>9, <2>10, CoroutineKeeps DEF Unsent
<1> QED BY <1>1, <1>2
(* What happens to an agent or its worker disturbs no execution.           *)
LEMMA AgentActionsKeep ==
    ASSUME IndInv, NEW a \in Agents, AgentStep(a)
    PROVE  IndInv'
<1>1. /\ agent \in [Agents -> AgentViews] /\ {"READY", "ISOLATED"} \subseteq AgentStatus
  BY DEF IndInv, Typed, AgentStatus
<1>2. /\ UNCHANGED <<status, pc, attempts, at, lease, results, earned>> /\ jobs' \subseteq jobs
      /\ \/ agent' = agent
         \/ agent' = [agent EXCEPT ![a] = KillViews(@)]
         \/ agent' = [agent EXCEPT ![a] = RestartViews(@)]
         \/ agent' = [agent EXCEPT ![a] = MoveAgent(@, "ISOLATED")]
  BY DEF AgentStep, KillAgent, RestartAgent, MonitorLost, WorkerConnect, WorkerCrash, Disconnect,
         ReplaceWorker, execVars, resourceVars
<1>3. agent' \in [Agents -> AgentViews]
  BY <1>1, <1>2, AgentFacts, ZenonT(60)
<1> QED BY <1>2, <1>3, AgentStepKeeps

(* Every step preserves the invariant.                                     *)
LEMMA NextKeeps ==
    ASSUME IndInv, [Next]_vars
    PROVE  IndInv'
<1>1. ASSUME NEW t \in Tasks, SubmitTask(t) \/ Dispatch(t) \/ TaskStep(t) \/ CancelTask(t) PROVE IndInv'
  BY <1>1, AdmissionKeeps, AttemptsKeep, ConnectionKeeps, SendKeeps, OutcomeKeeps, FailureKeeps, EndKeeps
     DEF TaskStep
<1>2. ASSUME NEW a \in Agents, AgentStep(a) PROVE IndInv'
  BY <1>2, AgentActionsKeep
<1>3. ASSUME NEW j \in jobs, WorkerCancel(j) PROVE IndInv'
  <2>1. /\ jobs' \subseteq jobs /\ agent' \in [Agents -> AgentViews]
        /\ UNCHANGED <<status, pc, attempts, at, lease, results, earned>>
    BY <1>3 DEF WorkerCancel, execVars, resourceVars, IndInv, Typed
  <2> QED BY <2>1, AgentStepKeeps
<1>4. ASSUME NEW j \in jobs, NEW ok \in BOOLEAN, WorkerFinish(j, ok) PROVE IndInv'
  BY <1>4, WorkerFinishKeeps
<1>5. ASSUME NEW r \in results, DeliverResult(r) PROVE IndInv'
  BY <1>5, OutcomeKeeps
<1>6. CASE UNCHANGED vars
  <2>1. /\ jobs' \subseteq jobs /\ agent' \in [Agents -> AgentViews]
        /\ UNCHANGED <<status, pc, attempts, at, lease, results, earned>>
    BY <1>6 DEF vars, execVars, workerVars, resourceVars, IndInv, Typed
  <2> QED BY <2>1, AgentStepKeeps
<1> QED BY <1>1, <1>2, <1>3, <1>4, <1>5, <1>6 DEF Next

(* The invariant holds in every reachable state.                           *)
THEOREM Invariance == Spec => []IndInv
<1>1. Init => IndInv
  <2> SUFFICES ASSUME Init PROVE IndInv
    OBVIOUS
  <2>1. Both("READY") \in AgentViews
    BY DEF Both, AgentViews, AgentStatus
  <2>2. Typed
    BY <2>1, ExecutionIsTyped DEF Init, ResourceInit, Typed, Steps, TaskStatus
  <2>3. LeaseFollowsAttempt /\ OneAttemptRuns /\ ResultsFollowJobs /\ SuccessesEarned
    BY DEF Init, ResourceInit, LeaseFollowsAttempt, OneAttemptRuns, ResultsFollowJobs, SuccessesEarned
  <2> QED BY <2>2, <2>3 DEF IndInv
<1>2. IndInv /\ [Next]_vars => IndInv'
  BY NextKeeps
<1> QED BY <1>1, <1>2, PTL DEF Spec

(* However attempts fail, time out, fall back or are cancelled, a lease    *)
(* ends with its attempt and names the agent of that attempt.              *)
THEOREM LeaseEndsWithAttempt == Spec => []LeaseFollowsAttempt
<1>1. IndInv => LeaseFollowsAttempt
  BY DEF IndInv
<1> QED BY <1>1, Invariance, PTL

(* With any number of retries, restarts and reconnects, two attempts of a  *)
(* task never run at the same time.                                        *)
THEOREM OneAttemptAtATime == Spec => []OneAttemptRuns
<1>1. IndInv => OneAttemptRuns
  BY DEF IndInv
<1> QED BY <1>1, Invariance, PTL

(* A late result of an earlier attempt never makes a task succeed.         *)
THEOREM SuccessAlwaysEarned == Spec => []SuccessIsEarned
<1>1. IndInv => SuccessIsEarned
  BY DEF IndInv, SuccessesEarned, Earned, SuccessIsEarned
<1> QED BY <1>1, Invariance, PTL

(* No handler of the daemon brings a killed agent back.                    *)
THEOREM KilledStaysKilled == Spec => KilledIsFinal
<1>1. IndInv /\ [Next]_vars => [\A a \in Agents : agent[a] = Both("KILLED") => agent'[a] = Both("KILLED")]_vars
  <2> SUFFICES ASSUME IndInv, Next, NEW b \in Agents, agent[b] = Both("KILLED")
               PROVE  agent'[b] = Both("KILLED")
    OBVIOUS
  <2>1. agent \in [Agents -> AgentViews]
    BY DEF IndInv, Typed
  <2>2. ASSUME NEW a \in Agents,
               \/ agent' = agent
               \/ agent' = [agent EXCEPT ![a] = KillViews(@)]
               \/ agent' = [agent EXCEPT ![a] = RestartViews(@)]
               \/ agent' = [agent EXCEPT ![a] = MoveAgent(@, "ISOLATED")]
               \/ agent' = [agent EXCEPT ![a] = MoveAgent(@, "RUNNING")]
               \/ agent' = [agent EXCEPT ![a] = MadeReady(@)]
               \/ agent' = [agent EXCEPT ![a] = PrepareAgent(@)]
               \/ agent' = [agent EXCEPT ![a] = FailAgent(@)]
               \/ agent' = [agent EXCEPT ![a] = CompleteAgent(@)]
        PROVE  agent'[b] = Both("KILLED")
    BY <2>1, <2>2, KilledFacts
  <2>3. ASSUME NEW t \in Tasks, SubmitTask(t) \/ Dispatch(t) \/ TaskStep(t) \/ CancelTask(t)
        PROVE  agent'[b] = Both("KILLED")
    <3>1. AgentOf[t] \in Agents /\ FallbackOf[t] \in Agents /\ at[t] \in Agents
      BY PlaceFacts
    <3>2. CASE SubmitTask(t) \/ BeginTask(t)
      BY <2>2, <3>1, <3>2 DEF SubmitTask, BeginTask
    <3>3. CASE AttemptFailed(t) \/ FallbackFailed(t)
      BY <2>2, <3>1, <3>3 DEF AttemptFailed, FallbackFailed, IsolateFailedWorker
    <3>4. CASE StartFallback(t)
      BY <2>2, <3>1, <3>4 DEF StartFallback
    <3>5. CASE FinishTask(t)
      BY <2>2, <3>1, <3>5 DEF FinishTask
    <3>6. CASE \/ Dispatch(t) \/ CancelTask(t) \/ AdmitTask(t) \/ StartAttempt(t) \/ Connect(t) \/ WaitConnected(t)
               \/ ConnectTimeout(t) \/ SendExecTask(t) \/ AttemptTimeout(t) \/ GraceOver(t) \/ Retry(t) \/ FallbackAttempt(t)
      BY <3>6 DEF Dispatch, CancelTask, AdmitTask, StartAttempt, Connect, WaitConnected, ConnectTimeout,
                  SendExecTask, AttemptTimeout, GraceOver, Retry, FallbackAttempt
    <3> QED BY <2>3, <3>2, <3>3, <3>4, <3>5, <3>6 DEF TaskStep
  <2>4. ASSUME NEW a \in Agents, AgentStep(a) PROVE agent'[b] = Both("KILLED")
    BY <2>2, <2>4 DEF AgentStep, KillAgent, RestartAgent, MonitorLost, WorkerConnect, WorkerCrash, Disconnect
  <2>5. ASSUME \/ \E j \in jobs : WorkerCancel(j) \/ \E ok \in BOOLEAN : WorkerFinish(j, ok)
               \/ \E r \in results : DeliverResult(r)
        PROVE  agent'[b] = Both("KILLED")
    BY <2>5 DEF WorkerCancel, WorkerFinish, DeliverResult
  <2> QED BY <2>3, <2>4, <2>5 DEF Next
<1> QED BY <1>1, Invariance, PTL DEF Spec, KilledIsFinal
-----------------------------------------------------------------------------
(* The usage of a class, with its type.                                    *)
QuotaInv == usage \in [Classes -> Nat] /\ QuotaRespected

(* max(0, x).                                                              *)
LEMMA MaxFacts ==
    ASSUME NEW x \in Int
    PROVE  Max({0, x}) \in Nat /\ (x >= 0 => Max({0, x}) = x) /\ (x < 0 => Max({0, x}) = 0)
<1>1. x >= 0 \/ x < 0
  BY SMT
<1>2. \E m \in {0, x} : \A y \in {0, x} : m >= y
  BY <1>1, SMT
<1> QED BY <1>2, SMT DEF Max

(* A lease is granted only within the quota, and what one gives back was   *)
(* never more than what is in use.                                         *)
LEMMA LeasesKeepQuota ==
    ASSUME QuotaInv, NEW t \in Tasks, AcquireLease(t) \/ Release(t) \/ UNCHANGED resourceVars
    PROVE  QuotaInv'
<1>0. /\ Request \in [Tasks -> [Classes -> Nat]] /\ Quota \in [Classes -> Nat]
      /\ usage \in [Classes -> Nat] /\ \A c \in Classes : Quota[c] > 0 => usage[c] <= Quota[c]
  BY ResourcesAreTyped DEF QuotaInv, QuotaRespected
<1>1. CASE UNCHANGED usage
  BY <1>1 DEF QuotaInv, QuotaRespected
<1>2. ASSUME NEW loaded \in BOOLEAN, MayLease(t, at[t], loaded), Grant(t, at[t]) PROVE QuotaInv'
  <2>1. usage' = [c \in Classes |-> usage[c] + Request[t][c]]
    BY <1>2 DEF Grant
  <2>2. ASSUME NEW c \in Classes, Quota[c] > 0 PROVE usage[c] + Request[t][c] <= Quota[c]
    <3>1. CASE Request[t][c] > 0
      BY <1>2, <2>2, <3>1 DEF MayLease, HasAmounts, CanAllocate
    <3>2. CASE Request[t][c] = 0
      BY <1>0, <2>2, <3>2, SMT
    <3> QED BY <1>0, <3>1, <3>2, SMT
  <2> QED BY <1>0, <2>1, <2>2, SMT DEF QuotaInv, QuotaRespected
<1>3. ASSUME usage' = [c \in Classes |-> Max({0, usage[c] - Request[t][c]})] PROVE QuotaInv'
  <2>1. ASSUME NEW c \in Classes PROVE usage'[c] \in Nat /\ usage'[c] <= usage[c]
    <3>1. usage[c] - Request[t][c] \in Int /\ usage[c] \in Nat /\ Request[t][c] \in Nat
      BY <1>0, SMT
    <3>2. usage'[c] = Max({0, usage[c] - Request[t][c]})
      BY <1>3
    <3> QED BY <3>1, <3>2, MaxFacts, SMT
  <2>2. usage' \in [Classes -> Nat]
    BY <1>3, <2>1
  <2>3. \A c \in Classes : Quota[c] > 0 => usage'[c] <= Quota[c]
    BY <1>0, <2>1, SMT
  <2> QED BY <2>2, <2>3 DEF QuotaInv, QuotaRespected
<1> QED BY <1>1, <1>2, <1>3 DEF AcquireLease, Release, resourceVars

(* However many tasks were dispatched on the same free capacity, no more   *)
(* is leased than the quota.                                               *)
THEOREM QuotaHolds == Spec => []QuotaRespected
<1>1. Init => QuotaInv
  BY ResourcesAreTyped, SMT DEF Init, ResourceInit, QuotaInv, QuotaRespected
<1>2. ASSUME QuotaInv, [Next]_vars PROVE QuotaInv'
  <2>1. ASSUME UNCHANGED resourceVars PROVE QuotaInv'
    BY <1>2, <2>1 DEF resourceVars, QuotaInv, QuotaRespected
  <2>2. ASSUME NEW t \in Tasks, TaskStep(t) PROVE QuotaInv'
    <3>1. AcquireLease(t) \/ Release(t) \/ UNCHANGED resourceVars
      BY <2>2 DEF TaskStep, AdmitTask, BeginTask, StartAttempt, Connect, WaitConnected, ConnectTimeout,
                  SendExecTask, AttemptTimeout, GraceOver, AttemptFailed, FallbackFailed,
                  IsolateFailedWorker, Retry, StartFallback, FallbackAttempt, FinishTask
    <3> QED BY <1>2, <3>1, LeasesKeepQuota
  <2>3. ASSUME NEW t \in Tasks, SubmitTask(t) \/ Dispatch(t) \/ CancelTask(t) PROVE QuotaInv'
    BY <2>1, <2>3 DEF SubmitTask, Dispatch, CancelTask
  <2>4. ASSUME NEW a \in Agents, AgentStep(a) PROVE QuotaInv'
    BY <2>1, <2>4 DEF AgentStep, KillAgent, RestartAgent, MonitorLost, WorkerConnect, WorkerCrash, Disconnect
  <2>5. ASSUME \/ \E j \in jobs : WorkerCancel(j) \/ \E ok \in BOOLEAN : WorkerFinish(j, ok)
               \/ \E r \in results : DeliverResult(r)
        PROVE  QuotaInv'
    BY <2>1, <2>5 DEF WorkerCancel, WorkerFinish, DeliverResult
  <2>6. CASE UNCHANGED vars
    BY <2>1, <2>6 DEF vars
  <2> QED BY <1>2, <2>2, <2>3, <2>4, <2>5, <2>6 DEF Next
<1>3. QuotaInv => QuotaRespected
  BY DEF QuotaInv
<1> QED BY <1>1, <1>2, <1>3, PTL DEF Spec

-----------------------------------------------------------------------------
(* Sums over tasks.  A sum of class c over the subsets of U grows by the   *)
(* request of each task that is added, in whatever order.                  *)
Adds(s, U, c) ==
    /\ s \in [SUBSET U -> Nat] /\ s[{}] = 0
    /\ \A T \in SUBSET U : \A x \in U \ T : s[T \union {x}] = s[T] + Request[x][c]

(* Among finite sets of tasks there is a smallest one.                     *)
LEMMA SmallestSet ==
    ASSUME NEW U, NEW B, B # {}, \A S \in B : S \subseteq U /\ IsFiniteSet(S)
    PROVE  \E S \in B : \A x \in S : S \ {x} \notin B
<1>1. B \subseteq FiniteSubsetsOf(U) /\ IsWellFoundedOn(StrictSubsetOrdering(U), FiniteSubsetsOf(U))
  BY FS_StrictSubsetOrderingWellFounded DEF FiniteSubsetsOf
<1>2. PICK S \in B : \A R \in B : ~(<<R, S>> \in StrictSubsetOrdering(U))
  BY <1>1, WFMin
<1>3. ASSUME NEW x \in S, S \ {x} \in B PROVE FALSE
  <2> DEFINE R == S \ {x}
             p == <<R, S>>
  <2>1. R \in SUBSET U /\ S \in SUBSET U /\ R \subseteq S /\ R # S
    BY <1>3
  <2>2. p \in (SUBSET U) \X (SUBSET U) /\ p[1] = R /\ p[2] = S
    BY <2>1
  <2>3. p \in StrictSubsetOrdering(U)
    BY <2>1, <2>2 DEF StrictSubsetOrdering
  <2> QED BY <1>2, <1>3, <2>3
<1> QED BY <1>3

LEMMA SumExists ==
    ASSUME NEW c \in Classes, NEW U \in SUBSET Tasks, IsFiniteSet(U)
    PROVE  \E s : Adds(s, U, c)
<1> DEFINE B == {T \in SUBSET U : IsFiniteSet(T) /\ ~\E s : Adds(s, T, c)}
<1> SUFFICES ASSUME B # {} PROVE FALSE
  OBVIOUS
<1>1. PICK T \in B : \A x \in T : T \ {x} \notin B
  BY SmallestSet
<1>2. T # {}
  <2>1. Adds([S \in {{}} |-> 0], {}, c)
    BY DEF Adds
  <2> QED BY <1>1, <2>1
<1>3. PICK x \in T : TRUE
  BY <1>2
<1> DEFINE V == T \ {x}
<1>4. IsFiniteSet(V) /\ V \in SUBSET U
  BY <1>1, FS_RemoveElement
<1>5. PICK s : Adds(s, V, c)
  BY <1>1, <1>3, <1>4
<1> DEFINE r == [S \in SUBSET T |-> IF x \in S THEN s[S \ {x}] + Request[x][c] ELSE s[S]]
<1>6. /\ s \in [SUBSET V -> Nat] /\ s[{}] = 0 /\ Request[x][c] \in Nat
      /\ \A S \in SUBSET V : \A y \in V \ S : s[S \union {y}] = s[S] + Request[y][c]
  BY <1>1, <1>5, ResourcesAreTyped, SMT DEF Adds
<1>7. r \in [SUBSET T -> Nat] /\ r[{}] = 0
  <2>1. ASSUME NEW S \in SUBSET T PROVE r[S] \in Nat
    <3>1. S \ {x} \in SUBSET V /\ (x \notin S => S \in SUBSET V)
      OBVIOUS
    <3>2. s[S \ {x}] \in Nat /\ (x \notin S => s[S] \in Nat)
      BY <1>6, <3>1
    <3> QED BY <1>6, <3>2, SMT
  <2> QED BY <1>6, <2>1
<1>8. ASSUME NEW S \in SUBSET T, NEW y \in T \ S PROVE r[S \union {y}] = r[S] + Request[y][c]
  <2>1. S \union {y} \in SUBSET T /\ Request[y][c] \in Nat
    BY <1>1, ResourcesAreTyped
  <2>2. CASE y = x
    <3>1. (S \union {y}) \ {x} = S /\ x \in S \union {y} /\ x \notin S
      BY <1>8, <2>2
    <3> QED BY <2>1, <2>2, <3>1
  <2>3. CASE y # x /\ x \notin S
    <3>1. S \in SUBSET V /\ y \in V \ S /\ x \notin S \union {y}
      BY <1>8, <2>3
    <3> QED BY <1>6, <2>1, <2>3, <3>1
  <2>4. CASE y # x /\ x \in S
    <3> DEFINE R == S \ {x}
    <3>1. R \in SUBSET V /\ y \in V \ R /\ x \in S \union {y} /\ (S \union {y}) \ {x} = R \union {y}
      BY <1>8, <2>4
    <3>2. s[R \union {y}] = s[R] + Request[y][c] /\ s[R] \in Nat
      BY <1>6, <3>1
    <3>3. r[S \union {y}] = s[R \union {y}] + Request[x][c] /\ r[S] = s[R] + Request[x][c]
      BY <2>1, <2>4, <3>1
    <3> QED BY <1>6, <2>1, <3>2, <3>3, SMT
  <2> QED BY <2>2, <2>3, <2>4
<1>9. Adds(r, T, c)
  BY <1>7, <1>8 DEF Adds
<1> QED BY <1>1, <1>9

(* The library's fold is such a sum.                                       *)
Folded(g, S, c) ==
    [s \in SUBSET S |-> IF s = {} THEN 0
                        ELSE LET x == CHOOSE x \in s : TRUE IN Request[x][c] + g[s \ {x}]]

LEMMA HeldIsFold == ASSUME NEW S, NEW c PROVE Held(S, c) = (CHOOSE g : g = Folded(g, S, c))[S]
BY DEF Held, MapThenSumSet, MapThenFoldSet, Folded

LEMMA HeldIsSum ==
    ASSUME NEW c \in Classes, NEW S \in SUBSET Tasks, IsFiniteSet(S), NEW s, Adds(s, S, c)
    PROVE  Held(S, c) = s[S]
<1>1. ASSUME NEW T \in SUBSET S, T # {}, NEW x, x = CHOOSE y \in T : TRUE
      PROVE  x \in T /\ T \ {x} \in SUBSET S /\ s[T] = Request[x][c] + s[T \ {x}]
  <2>1. x \in T
    BY <1>1
  <2>2. T \ {x} \in SUBSET S /\ x \in S \ (T \ {x}) /\ (T \ {x}) \union {x} = T
    BY <2>1
  <2>3. s[(T \ {x}) \union {x}] = s[T \ {x}] + Request[x][c] /\ s[T \ {x}] \in Nat
    BY <2>2 DEF Adds
  <2>4. Request[x][c] \in Nat
    BY <2>1, ResourcesAreTyped
  <2>5. s[T] = s[T \ {x}] + Request[x][c]
    BY <2>2, <2>3
  <2>6. s[T] = Request[x][c] + s[T \ {x}]
    <3> DEFINE k == s[T \ {x}]
               n == Request[x][c]
    <3> HIDE DEF k, n
    <3>1. k \in Nat /\ n \in Nat => k + n = n + k
      BY SMT
    <3> QED BY <2>3, <2>4, <2>5, <3>1 DEF k, n
  <2> QED BY <2>1, <2>2, <2>6
<1>2. s = Folded(s, S, c)
  <2>1. s \in [SUBSET S -> Nat] /\ s[{}] = 0
    BY DEF Adds
  <2>2. ASSUME NEW T \in SUBSET S PROVE s[T] = Folded(s, S, c)[T]
    <3>1. CASE T = {}
      BY <2>1, <3>1 DEF Folded
    <3>2. CASE T # {}
      BY <1>1, <3>2 DEF Folded
    <3> QED BY <3>1, <3>2
  <2> QED BY <2>1, <2>2 DEF Folded
<1>3. PICK g : g = Folded(g, S, c) /\ Held(S, c) = g[S]
  BY <1>2, HeldIsFold
<1> DEFINE B == {T \in SUBSET S : g[T] # s[T]}
<1>4. B = {}
  <2> SUFFICES ASSUME B # {} PROVE FALSE
    OBVIOUS
  <2>1. \A T \in B : T \subseteq S /\ IsFiniteSet(T)
    BY FS_Subset
  <2>2. PICK T \in B : \A x \in T : T \ {x} \notin B
    BY <2>1, SmallestSet
  <2>3. T # {}
    BY <1>3, <2>2 DEF Folded, Adds
  <2> DEFINE x == CHOOSE y \in T : TRUE
  <2>5. x \in T /\ T \ {x} \in SUBSET S /\ s[T] = Request[x][c] + s[T \ {x}]
    <3>1. T \in SUBSET S
      BY <2>2
    <3> QED BY <1>1, <2>3, <3>1
  <2>6. g[T] = Request[x][c] + g[T \ {x}]
    <3>1. Folded(g, S, c)[T] = Request[x][c] + g[T \ {x}]
      BY <2>2, <2>3 DEF Folded
    <3> QED BY <1>3, <3>1
  <2> QED BY <2>2, <2>5, <2>6
<1> QED BY <1>3, <1>4

LEMMA HeldFacts ==
    ASSUME NEW c \in Classes, NEW S \in SUBSET Tasks, IsFiniteSet(S)
    PROVE  /\ Held({}, c) = 0 /\ Held(S, c) \in Nat
           /\ \A t \in Tasks \ S : Held(S \union {t}, c) = Held(S, c) + Request[t][c]
<1>1. PICK s : Adds(s, S, c)
  BY SumExists
<1>2. Held(S, c) = s[S] /\ s[S] \in Nat
  BY <1>1, HeldIsSum DEF Adds
<1>3. Held({}, c) = 0
  <2>1. IsFiniteSet({}) /\ {} \in SUBSET Tasks
    BY FS_EmptySet
  <2>2. PICK e : Adds(e, {}, c)
    BY <2>1, SumExists
  <2> QED BY <2>1, <2>2, HeldIsSum DEF Adds
<1>4. ASSUME NEW t \in Tasks \ S PROVE Held(S \union {t}, c) = Held(S, c) + Request[t][c]
  <2> DEFINE U == S \union {t}
  <2>1. IsFiniteSet(U) /\ U \in SUBSET Tasks
    BY FS_AddElement
  <2>2. PICK u : Adds(u, U, c)
    BY <2>1, SumExists
  <2>3. Held(U, c) = u[U]
    BY <2>1, <2>2, HeldIsSum
  <2> DEFINE r == [T \in SUBSET S |-> u[T]]
  <2>4. Adds(r, S, c)
    <3>1. /\ \A T \in SUBSET S : T \in SUBSET U /\ \A x \in S \ T : x \in U \ T /\ T \union {x} \in SUBSET S
          /\ {} \in SUBSET S
      OBVIOUS
    <3>2. \A T \in SUBSET S : u[T] \in Nat
      BY <2>2, <3>1 DEF Adds
    <3>3. u[{}] = 0 /\ \A T \in SUBSET S : \A x \in S \ T : u[T \union {x}] = u[T] + Request[x][c]
      BY <2>2, <3>1 DEF Adds
    <3> QED BY <3>1, <3>2, <3>3 DEF Adds
  <2>5. Held(S, c) = u[S]
    <3>1. r[S] = u[S]
      OBVIOUS
    <3> QED BY <2>4, <3>1, HeldIsSum
  <2>6. S \in SUBSET U /\ t \in U \ S
    OBVIOUS
  <2>7. u[S \union {t}] = u[S] + Request[t][c]
    BY <2>2, <2>6 DEF Adds
  <2> QED BY <2>3, <2>5, <2>7
<1> QED BY <1>2, <1>3, <1>4

-----------------------------------------------------------------------------
LeasedTo(a) == {t \in Leased : lease[t] = a}
BalanceInv == IsFiniteSet(Leased) /\ agentLlm \in [Agents -> Nat] /\ LeasesBalance

LEMMA GrantBalances ==
    ASSUME Typed, BalanceInv, NEW t \in Tasks, lease[t] = NoLease, Grant(t, at[t])
    PROVE  BalanceInv'
<1>0. PICK a \in Agents : a = at[t]
  BY DEF Typed
<1>1. /\ lease' = [lease EXCEPT ![t] = a] /\ usage' = [c \in Classes |-> usage[c] + Request[t][c]]
      /\ agentLlm' = [agentLlm EXCEPT ![a] = @ + Request[t]["llm"]]
      /\ llmTotal' = llmTotal + Request[t]["llm"]
  BY <1>0 DEF Grant
<1>2. a \in Agents /\ a # NoLease /\ lease \in [Tasks -> Agents \union {NoLease}]
  BY ResourcesAreTyped DEF Typed
<1>3. Leased' = Leased \union {t} /\ t \in Tasks \ Leased /\ Leased \in SUBSET Tasks
  BY <1>1, <1>2 DEF Leased
<1>4. LeasedTo(a)' = LeasedTo(a) \union {t} /\ \A b \in Agents : b # a => LeasedTo(b)' = LeasedTo(b)
  BY <1>1, <1>2 DEF LeasedTo, Leased
<1>5. \A b \in Agents : LeasedTo(b) \in SUBSET Tasks /\ t \in Tasks \ LeasedTo(b) /\ IsFiniteSet(LeasedTo(b))
  <2>1. \A b \in Agents : LeasedTo(b) \subseteq Leased
    BY DEF LeasedTo
  <2> QED BY <1>3, <2>1, FS_Subset DEF BalanceInv
<1>6. \A c \in Classes : Held(Leased', c) = Held(Leased, c) + Request[t][c]
  BY <1>3, HeldFacts DEF BalanceInv
<1>7. \A c \in Classes, b \in Agents : Held(LeasedTo(b) \union {t}, c) = Held(LeasedTo(b), c) + Request[t][c]
  BY <1>5, HeldFacts
<1>8. "llm" \in Classes /\ Request[t]["llm"] \in Nat
  BY ResourcesAreTyped
<1>9. /\ \A c \in Classes : usage[c] = Held(Leased, c)
      /\ \A b \in Agents : agentLlm[b] = Held(LeasedTo(b), "llm")
      /\ llmTotal = Held(Leased, "llm") /\ agentLlm \in [Agents -> Nat]
  BY DEF BalanceInv, LeasesBalance, LeasedTo
<1>10. agentLlm' \in [Agents -> Nat]
  BY <1>1, <1>2, <1>8, <1>9, SMT
<1>11. \A b \in Agents : agentLlm'[b] = Held(LeasedTo(b)', "llm")
  <2>1. agentLlm'[a] = agentLlm[a] + Request[t]["llm"] /\ \A b \in Agents : b # a => agentLlm'[b] = agentLlm[b]
    BY <1>1, <1>2, <1>9
  <2>2. agentLlm'[a] = Held(LeasedTo(a)', "llm")
    BY <1>2, <1>4, <1>7, <1>8, <1>9, <2>1
  <2> QED BY <1>4, <1>9, <2>1, <2>2
<1>12. (\A c \in Classes : usage'[c] = Held(Leased', c)) /\ llmTotal' = Held(Leased', "llm")
  BY <1>1, <1>6, <1>8, <1>9
<1>13. IsFiniteSet(Leased')
  BY <1>3, FS_AddElement DEF BalanceInv
<1> QED BY <1>10, <1>11, <1>12, <1>13 DEF BalanceInv, LeasesBalance, LeasedTo

LEMMA ReleaseBalances ==
    ASSUME Typed, BalanceInv, NEW t \in Tasks, Release(t)
    PROVE  BalanceInv'
<1>0. CASE UNCHANGED resourceVars
  BY <1>0 DEF BalanceInv, LeasesBalance, Leased, resourceVars
<1>1. CASE lease[t] # NoLease
  <2>0. PICK a \in Agents : a = lease[t]
    BY <1>1 DEF Typed
  <2>1. /\ lease' = [lease EXCEPT ![t] = NoLease]
        /\ usage' = [c \in Classes |-> Max({0, usage[c] - Request[t][c]})]
        /\ agentLlm' = [agentLlm EXCEPT ![a] = Max({0, @ - Request[t]["llm"]})]
        /\ llmTotal' = Max({0, llmTotal - Request[t]["llm"]})
    BY <1>1, <2>0 DEF Release
  <2>2. a \in Agents /\ NoLease \notin Agents /\ lease \in [Tasks -> Agents \union {NoLease}]
    BY <2>0, ResourcesAreTyped DEF Typed
  <2>3. Leased' \union {t} = Leased /\ t \in Tasks \ Leased' /\ Leased' \in SUBSET Tasks
    BY <2>0, <2>1, <2>2 DEF Leased
  <2>4. LeasedTo(a)' \union {t} = LeasedTo(a) /\ \A b \in Agents : b # a => LeasedTo(b)' = LeasedTo(b)
    BY <2>0, <2>1, <2>2 DEF LeasedTo, Leased
  <2>5. \A b \in Agents : LeasedTo(b)' \in SUBSET Tasks /\ t \in Tasks \ LeasedTo(b)' /\ LeasedTo(b)' \subseteq Leased'
    BY <2>3 DEF LeasedTo
  <2>6. IsFiniteSet(Leased') /\ \A b \in Agents : IsFiniteSet(LeasedTo(b)')
    <3>1. IsFiniteSet(Leased) /\ Leased' \subseteq Leased
      BY <2>3 DEF BalanceInv
    <3>2. IsFiniteSet(Leased')
      BY <3>1, FS_Subset
    <3> QED BY <2>5, <3>2, FS_Subset
  <2>7. \A c \in Classes : Held(Leased, c) = Held(Leased', c) + Request[t][c] /\ Held(Leased', c) \in Nat
    BY <2>3, <2>6, HeldFacts
  <2>8. \A c \in Classes : /\ Held(LeasedTo(a), c) = Held(LeasedTo(a)', c) + Request[t][c]
                           /\ Held(LeasedTo(a)', c) \in Nat
    BY <2>2, <2>4, <2>5, <2>6, HeldFacts
  <2>9. /\ \A c \in Classes : usage[c] = Held(Leased, c)
        /\ \A b \in Agents : agentLlm[b] = Held(LeasedTo(b), "llm")
        /\ llmTotal = Held(Leased, "llm") /\ agentLlm \in [Agents -> Nat]
    BY DEF BalanceInv, LeasesBalance, LeasedTo
  <2>10. \A n, k \in Nat : Max({0, (n + k) - k}) = n
    BY MaxFacts, SMT
  <2>11. "llm" \in Classes /\ \A c \in Classes : Request[t][c] \in Nat
    BY ResourcesAreTyped
  <2>12. (\A c \in Classes : usage'[c] = Held(Leased', c)) /\ llmTotal' = Held(Leased', "llm")
    BY <2>1, <2>7, <2>9, <2>10, <2>11, ZenonT(60)
  <2>13. agentLlm'[a] = Held(LeasedTo(a)', "llm") /\ \A b \in Agents : b # a => agentLlm'[b] = agentLlm[b]
    <3>1. agentLlm'[a] = Max({0, agentLlm[a] - Request[t]["llm"]})
      BY <2>1, <2>2, <2>9
    <3>2. agentLlm'[a] = Held(LeasedTo(a)', "llm")
      BY <2>2, <2>8, <2>9, <2>10, <2>11, <3>1
    <3> QED BY <2>1, <2>9, <3>2
  <2>14. \A b \in Agents : agentLlm'[b] = Held(LeasedTo(b)', "llm")
    BY <2>4, <2>9, <2>13
  <2>15. agentLlm' \in [Agents -> Nat]
    BY <2>1, <2>2, <2>8, <2>9, <2>11, <2>13
  <2> QED BY <2>6, <2>12, <2>14, <2>15 DEF BalanceInv, LeasesBalance, LeasedTo
<1> QED BY <1>0, <1>1 DEF Release

(* The counters are what the leases add up to: an attempt begins only when *)
(* the lease of the one before it has ended.                               *)
THEOREM LeasesAlwaysBalance == Spec => []LeasesBalance
<1>1. Init => BalanceInv
  <2> SUFFICES ASSUME Init PROVE BalanceInv
    OBVIOUS
  <2>1. /\ Leased = {} /\ \A a \in Agents : {t \in Leased : lease[t] = a} = {}
        /\ usage = [c \in Classes |-> 0] /\ agentLlm = [a \in Agents |-> 0] /\ llmTotal = 0
    BY DEF Init, ResourceInit, Leased
  <2>2. IsFiniteSet({}) /\ {} \in SUBSET Tasks
    BY FS_EmptySet
  <2>3. "llm" \in Classes /\ \A c \in Classes : Held({}, c) = 0
    BY <2>2, HeldFacts, ResourcesAreTyped
  <2>4. LeasesBalance
    BY <2>1, <2>3 DEF LeasesBalance
  <2>5. agentLlm \in [Agents -> Nat]
    BY <2>1
  <2> QED BY <2>1, <2>2, <2>4, <2>5 DEF BalanceInv
<1>2. ASSUME IndInv, BalanceInv, [Next]_vars PROVE BalanceInv'
  <2>1. ASSUME UNCHANGED resourceVars PROVE BalanceInv'
    BY <1>2, <2>1 DEF BalanceInv, LeasesBalance, Leased, resourceVars
  <2>2. ASSUME NEW t \in Tasks, TaskStep(t) PROVE BalanceInv'
    <3>1. \/ AcquireLease(t) /\ pc[t] \in {"attempt", "fallback_attempt"}
          \/ Release(t) \/ UNCHANGED resourceVars
      BY <2>2 DEF TaskStep, AdmitTask, BeginTask, StartAttempt, Connect, WaitConnected, ConnectTimeout,
                  SendExecTask, AttemptTimeout, GraceOver, AttemptFailed, FallbackFailed,
                  IsolateFailedWorker, Retry, StartFallback, FallbackAttempt, FinishTask
    <3>2. pc[t] \in {"attempt", "fallback_attempt"} => lease[t] = NoLease
      BY <1>2 DEF IndInv, LeaseFollowsAttempt, AttemptSteps
    <3>3. AcquireLease(t) => Grant(t, at[t]) \/ UNCHANGED resourceVars
      BY DEF AcquireLease
    <3>4. Typed
      BY <1>2 DEF IndInv
    <3> QED BY <1>2, <2>1, <3>1, <3>2, <3>3, <3>4, GrantBalances, ReleaseBalances
  <2>3. ASSUME NEW t \in Tasks, SubmitTask(t) \/ Dispatch(t) \/ CancelTask(t) PROVE BalanceInv'
    BY <2>1, <2>3 DEF SubmitTask, Dispatch, CancelTask
  <2>4. ASSUME NEW a \in Agents, AgentStep(a) PROVE BalanceInv'
    BY <2>1, <2>4 DEF AgentStep, KillAgent, RestartAgent, MonitorLost, WorkerConnect, WorkerCrash, Disconnect
  <2>5. ASSUME \/ \E j \in jobs : WorkerCancel(j) \/ \E ok \in BOOLEAN : WorkerFinish(j, ok)
               \/ \E r \in results : DeliverResult(r)
        PROVE  BalanceInv'
    BY <2>1, <2>5 DEF WorkerCancel, WorkerFinish, DeliverResult
  <2>6. CASE UNCHANGED vars
    BY <2>1, <2>6 DEF vars
  <2> QED BY <1>2, <2>2, <2>3, <2>4, <2>5, <2>6 DEF Next
<1>3. BalanceInv => LeasesBalance
  BY DEF BalanceInv
<1> QED BY <1>1, <1>2, <1>3, Invariance, PTL DEF Spec

=============================================================================
