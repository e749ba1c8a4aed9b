--------------------------- MODULE IncidentRepair ---------------------------
(***************************************************************************)
(* The incident-repair application (applications/incident_repair), started *)
(* through the demo API of agentd: a LangGraph workflow of planner, coders *)
(* one at a time, tester, reviewer and bounded repair rounds, whose nodes  *)
(* have their work done by an execution provider, either as tasks of the   *)
(* very daemon that hosts the run (runtime) or in place (direct); the run  *)
(* service that records it on disk; and the clients that poll or cancel.   *)
(* The daemon does not know that a graph manages these tasks: it commits   *)
(* their patches to an integration of its own, has testers and reviewers   *)
(* work on that one, and starts a repair itself when a tester fails.       *)
(* A commit is the set of the patches in it, base_commit the empty set.    *)
(***************************************************************************)
EXTENDS Naturals, FiniteSets, Sequences, FiniteSetsExt

CONSTANTS
    Modes,        \* execution modes a client asks for, within {"runtime", "direct"}
    Plans,        \* what the planner may return: [coders, deps]
    MaxRounds,    \* max_repair_rounds of the run
    MaxOwnRounds, \* max_repair_rounds of the daemon's WorkflowService
    MaxCrashes,   \* bound on the deaths of the daemon
    MaxFailed     \* bound on the tasks tried again, in a life of the daemon

ASSUME IncidentIsTyped ==
    /\ Modes \subseteq {"runtime", "direct"}
    /\ \A p \in Plans : p.coders \subseteq Nat \ {0} /\ DOMAIN p.deps = p.coders
    /\ MaxRounds \in Nat /\ MaxOwnRounds \in Nat /\ MaxCrashes \in Nat /\ MaxFailed \in Nat

VARIABLES
    mode,      \* execution_mode of the run
    run,       \* the asyncio task of the run: demo_run_tasks[run_id]
    node,      \* the graph node whose turn it is
    call,      \* the provider call of that node: [phase, key, base]
    g,         \* the state of the graph
    file,      \* graph_state.json, equal to current_state while the run lasts
    summary,   \* summary.json: [status, test, review]
    hung,      \* the event loop of agentd waits for itself
    threads,   \* keys whose submit_task is in flight in a thread
    rt,        \* rt[k]: status of the TaskSpec created for key k
    known,     \* keys of the tasks in the dict tasks
    rows,      \* the tasks table: [key, status] of what has not ended, in order of updated_at
    execs,     \* keys of the tasks that _execute_task works on
    retried,   \* keys of the tasks with a failed attempt
    merged,    \* integration_commits[run_id] while the graph runs, {} when there is none
    own,       \* repair_rounds[run_id] of the daemon
    astray,    \* history: an integration of the daemon failed, or its own repair succeeded
    told,      \* the last verdict that get_demo_run answered
    crashes    \* how often the daemon has died

graph == <<mode, node, call, g>>
store == <<file, summary>>
service == <<merged, own, astray>>
daemon == <<threads, rt, known, rows, execs, retried, service>>
vars == <<graph, run, store, hung, daemon, told, crashes>>

Over == {"SUCCESS", "FAILED", "INTERRUPTED"}
Ended == {"SUCCESS", "FAILED", "TIMEOUT", "CANCELLED"}
Idle == [phase |-> "idle", key |-> <<>>, base |-> {}]
NoTasks == [k \in {} |-> "READY"]
Untested == [is |-> "none", on |-> {}]

(* The state start_run hands to the graph.                                 *)
Fresh ==
    [status |-> "PENDING", plan |-> [coders |-> {}, deps |-> <<>>], done |-> {}, active |-> 0,
     step |-> 0, refs |-> {}, pending |-> {}, commit |-> {}, test |-> Untested,
     review |-> Untested, round |-> 0]
Created == [status |-> "CREATED", test |-> "none", review |-> "none"]

Init ==
    /\ mode \in Modes /\ run = "none" /\ node = "planner" /\ call = Idle
    /\ g = Fresh /\ file = Fresh /\ summary = Created /\ hung = FALSE
    /\ threads = {} /\ rt = NoTasks /\ known = {} /\ rows = <<>> /\ execs = {} /\ retried = {}
    /\ merged = {} /\ own = 0 /\ astray = FALSE
    /\ told = "none" /\ crashes = 0

(* create_demo_run: files first, then the task of the run.                 *)
CreateRun ==
    /\ run = "none" /\ run' = "running"
    /\ file' = Fresh /\ summary' = Created
    /\ UNCHANGED <<graph, hung, daemon, told, crashes>>

-----------------------------------------------------------------------------
(* What a node returns is a record of the fields it sets.  LangGraph adds  *)
(* list fields up and empties pending_patch_refs on an empty list; the     *)
(* runner, which records the run, overwrites every field.                  *)
With(u, v) == [f \in DOMAIN u \union DOMAIN v |-> IF f \in DOMAIN v THEN v[f] ELSE u[f]]
Merged(s, u) == [f \in DOMAIN s |->
    IF f \notin DOMAIN u THEN s[f]
    ELSE IF f = "refs" \/ (f = "pending" /\ u[f] # {}) THEN s[f] \union u[f] ELSE u[f]]
Overwritten(s, u) == With(s, u)

RouteAfterSelect(s) ==
    IF s.status = "FAILED" THEN "failed" ELSE IF s.active # 0 THEN "coder" ELSE "tester"
RouteAfterTest(s) ==
    CASE s.test.is = "pass" -> "reviewer"
      [] s.test.is = "fail" /\ s.round < MaxRounds -> "repair"
      [] OTHER -> "failed"
RouteAfterReviewOnly(s) ==
    CASE s.review.is = "approved" -> "success"
      [] s.review.is # "approved" /\ s.round < MaxRounds -> "repair"
      [] OTHER -> "failed"
RouteAfterReview(s) ==
    CASE s.status # "FAILED" /\ s.review.is = "approved" -> "success"
      [] s.status # "FAILED" /\ s.review.is # "approved" /\ s.round < MaxRounds -> "repair"
      [] OTHER -> "failed"
UnlessFailed(s, next) == IF s.status = "FAILED" THEN "failed" ELSE next

(* build_graph.                                                            *)
Route(n, s) ==
    CASE n = "planner" -> "select_coder"
      [] n = "select_coder" -> RouteAfterSelect(s)
      [] n = "coder" -> UnlessFailed(s, "integrate_coder")
      [] n = "integrate_coder" -> "select_coder"
      [] n = "tester" -> RouteAfterTest(s)
      [] n = "repair" -> UnlessFailed(s, "integrate_repair")
      [] n = "integrate_repair" -> "tester"
      [] n = "reviewer" -> RouteAfterReview(s)
      [] OTHER -> "end"

(* Node n returns u: LangGraph moves on, and _record_graph_update writes   *)
(* what the runner makes of u to graph_state.json.                         *)
Update(n, u) ==
    /\ g' = Merged(g, u) /\ file' = Overwritten(file, u)
    /\ node' = Route(n, Merged(g, u))
    /\ call' = Idle
    /\ UNCHANGED <<mode, run, summary, hung, told, crashes>>

AtNode(n) == run = "running" /\ ~hung /\ node = n
Failed == [status |-> "FAILED"]

-----------------------------------------------------------------------------
(* Nodes that call nobody.                                                 *)
Remaining == g.plan.coders \ g.done
ReadyCodersAny == Remaining
ReadyCoders == {c \in Remaining : g.plan.deps[c] \subseteq g.done}

Selected ==
    CASE g.status = "FAILED" \/ Remaining = {} -> [active |-> 0]
      [] g.status # "FAILED" /\ Remaining # {} /\ ReadyCoders = {} -> [status |-> "FAILED", active |-> 0]
      [] OTHER -> [active |-> Min(ReadyCoders), step |-> g.step + 1]
SelectCoder == AtNode("select_coder") /\ Update("select_coder", Selected) /\ UNCHANGED daemon

(* PatchIntegrationService.integrate commits all pending patches on top of *)
(* the integrated commit, or none: git may fail, or a patch not apply.     *)
Integrations == {"SUCCESS", "CONFLICT", "FAILED"}
IntegratePendingPatches(result) ==
    IF g.pending # {} /\ result = "SUCCESS"
    THEN [commit |-> g.commit \union g.pending, pending |-> {}] ELSE Failed

(* A patch with private files of codex in it is refused.                   *)
IntegratedCoder(result, leaks) ==
    CASE g.status = "FAILED" -> [active |-> 0]
      [] g.status # "FAILED" /\ leaks /\ g.pending # {} -> Failed
      [] OTHER -> LET u == IntegratePendingPatches(result)
                  IN IF u = Failed THEN u
                     ELSE With(u, [done |-> g.done \union {g.active}, active |-> 0])
IntegrateCoder ==
    /\ AtNode("integrate_coder")
    /\ \E r \in Integrations, b \in BOOLEAN : Update("integrate_coder", IntegratedCoder(r, b))
    /\ UNCHANGED daemon
IntegrateRepair ==
    /\ AtNode("integrate_repair")
    /\ \E r \in Integrations : Update("integrate_repair", IntegratePendingPatches(r))
    /\ UNCHANGED daemon

SuccessNode == AtNode("success") /\ Update("success", [status |-> "SUCCESS"]) /\ UNCHANGED daemon
FailedNode == AtNode("failed") /\ Update("failed", Failed) /\ UNCHANGED daemon

-----------------------------------------------------------------------------
(* Nodes that have an agent work.  The key of a call is the tuple that     *)
(* build_idempotency_key hashes, and the base_commit of the request.       *)
Step(n) ==
    CASE n = "planner" -> 0 [] n = "coder" -> g.step [] n = "tester" -> 3 + g.round
      [] n = "repair" -> 10 + g.round + 1 [] OTHER -> 20 + g.round
KeyOf(n) == <<n, Step(n), IF n = "coder" THEN g.active ELSE 0, g.commit>>

(* save_task: INSERT OR REPLACE, so the row moves to the end.  The row of  *)
(* a task that has ended is left out: neither recover_tasks nor a purge    *)
(* does anything about it.                                                 *)
Others(k) == SelectSeq(rows, LAMBDA r : r.key # k)
Saved(k, status) == Append(Others(k), [key |-> k, status |-> status])

(* execute of the provider: in runtime mode the task is submitted from a   *)
(* thread, which no cancellation of the run stops.                         *)
StartCall ==
    /\ run = "running" /\ ~hung /\ call = Idle
    /\ node \in {"planner", "coder", "tester", "repair", "reviewer"}
    /\ call' = [phase |-> IF mode = "runtime" THEN "submitting" ELSE "waiting",
                key |-> KeyOf(node), base |-> g.commit]
    /\ threads' = IF mode = "runtime" THEN threads \union {KeyOf(node)} ELSE threads
    /\ UNCHANGED <<mode, node, g, run, store, hung, rt, known, rows, execs, retried, service, told, crashes>>

(* submit_task of the daemon serves the thread, and the provider, if it    *)
(* still waits for the answer, goes on to wait_task.                       *)
TaskCreated(k) ==
    /\ ~hung /\ k \in threads /\ threads' = threads \ {k}
    /\ rt' = With(rt, [j \in {k} |-> "READY"]) /\ rows' = Saved(k, "READY") /\ known' = known \union {k}
    /\ call' = IF call.phase = "submitting" /\ call.key = k THEN [call EXCEPT !.phase = "waiting"]
               ELSE call
    /\ UNCHANGED <<mode, node, g, run, store, hung, execs, retried, service, told, crashes>>

(* What the call can come back with: wait_task takes the first status it   *)
(* reads out of those that end a task, TIMEOUT among them, which is also   *)
(* where a task stands between two attempts.                               *)
Results ==
    CASE mode = "direct" -> {"SUCCESS", "FAILED", "TIMEOUT"}
      [] mode = "runtime" /\ call.key \in known /\ rt[call.key] \in Ended -> {rt[call.key]}
      [] OTHER -> {}
Returned(n, status) == AtNode(n) /\ call.phase = "waiting" /\ status \in Results /\ UNCHANGED daemon

(* validate_coder_plan.                                                    *)
ValidPlan(p) ==
    /\ p.coders # {}
    /\ \A c \in p.coders : p.deps[c] \subseteq p.coders
    /\ \A S \in SUBSET p.coders \ {{}} : \E c \in S : p.deps[c] \intersect S = {}

PlannerReturns(status) ==
    /\ Returned("planner", status)
    /\ IF status = "SUCCESS"
       THEN \E p \in Plans :
            Update("planner", IF ValidPlan(p) THEN [plan |-> p] ELSE [status |-> "FAILED", plan |-> p])
       ELSE Update("planner", Failed)

(* The patch of a task: create_patch_artifact makes one when an attempt    *)
(* succeeds, and _patch_ref_from_artifacts finds it in the attempts.       *)
PatchOf(k) == [node |-> k[1], step |-> k[2], by |-> k[3]]
Contributed(p) == [refs |-> {p}, pending |-> {p}]

(* The daemon fails a coder or repair task without a patch; in direct mode *)
(* a coder may report that there was nothing left to do.                   *)
CoderReturns(status) ==
    /\ Returned("coder", status)
    /\ \/ /\ status = "SUCCESS"
          /\ Update("coder", Contributed(PatchOf(call.key)))
       \/ /\ status = "SUCCESS" /\ mode = "direct"
          /\ Update("coder", [done |-> g.done \union {g.active}, active |-> 0])
       \/ (status # "SUCCESS" \/ mode = "direct") /\ Update("coder", Failed)

Repaired(u) == With(u, [round |-> g.round + 1])
RepairReturns(status) ==
    /\ Returned("repair", status)
    /\ \/ /\ status = "SUCCESS"
          /\ Update("repair", Repaired(Contributed(PatchOf(call.key))))
       \/ (status # "SUCCESS" \/ mode = "direct") /\ Update("repair", Repaired(Failed))

Tested(verdict) == [test |-> [is |-> verdict, on |-> call.base]]
TesterReturns(status) ==
    /\ Returned("tester", status)
    /\ \/ status = "SUCCESS" /\ Update("tester", Tested("pass"))
       \/ Update("tester", Tested("fail"))

ReviewerReturns(status) ==
    /\ Returned("reviewer", status)
    /\ IF status = "SUCCESS"
       THEN \E v \in {"approved", "rejected"} :
            Update("reviewer", [review |-> [is |-> v, on |-> call.base]])
       ELSE Update("reviewer", Failed)

(* wait_task gives up on the tester's task, which the node takes for a     *)
(* failed test.                                                            *)
TesterGivesUp ==
    /\ AtNode("tester") /\ mode = "runtime" /\ call.phase = "waiting"
    /\ Update("tester", Tested("fail")) /\ UNCHANGED daemon

-----------------------------------------------------------------------------
(* execute_run.  Whatever way the graph ends, graph_state.json is written  *)
(* first, then the metrics of the provider are asked for, and summary.json *)
(* comes last; only a crash can fall in between.                           *)
GraphGone == node' = "planner" /\ call' = Idle /\ g' = Fresh /\ UNCHANGED mode
Closing(status) ==
    /\ run' = "closing" /\ GraphGone
    /\ file' = [file EXCEPT !.status = status]
    /\ UNCHANGED <<summary, hung, told, crashes>>

GraphEnds == AtNode("end") /\ Closing(file.status) /\ UNCHANGED daemon

(* The provider raises: an answer that cannot be parsed, an HTTP error, or *)
(* a wait that is over.  When it was the submission that failed, the       *)
(* daemon may be serving it all the same.                                  *)
Raises == run = "running" /\ ~hung /\ call.phase # "idle"
CallRaises ==
    /\ Raises /\ Closing("FAILED")
    /\ threads' \in IF call.phase = "submitting" THEN {threads, threads \ {call.key}} ELSE {threads}
    /\ UNCHANGED <<rt, known, rows, execs, retried, service>>

(* workflow_timeout_s expires: wait_for cancels the runner, whose execute  *)
(* forgets its task in a finally clause, so that cancel_run, called after  *)
(* it, finds no task to cancel.                                            *)
WorkflowTimeout == run = "running" /\ ~hung /\ Closing("FAILED") /\ UNCHANGED daemon

(* _maybe_snapshot: get_execution_snapshot of the runtime provider calls   *)
(* the daemon over HTTP, synchronously and without a read timeout, on the  *)
(* event loop that would have to answer.                                   *)
Snapshot ==
    /\ run = "closing" /\ mode = "runtime" /\ ~hung /\ hung' = TRUE
    /\ UNCHANGED <<graph, run, store, daemon, told, crashes>>

SummaryOf(s, old) ==
    [status |-> s.status,
     test |-> IF s.test.is = "none" THEN old.test ELSE s.test.is,
     review |-> IF s.review.is = "none" THEN old.review ELSE s.review.is]
Summarize ==
    /\ run = "closing" /\ mode = "direct"
    /\ run' = "done" /\ summary' = SummaryOf(file, Created)
    /\ UNCHANGED <<graph, file, hung, daemon, told, crashes>>

-----------------------------------------------------------------------------
(* The tasks of the run in the daemon, as SchedulingLoop and TaskExecution *)
(* describe them: dispatched, tried again after a failed attempt, ended.   *)
Free == ~hung /\ run # "closing"
KeepRest == UNCHANGED <<mode, node, g, run, store, hung, threads, told, crashes>>

(* workspace_for_task: the base of a tester or reviewer is the integration *)
(* of the daemon, once there is one.                                       *)
WorksOn(k, base) == IF k[1] \in {"tester", "reviewer"} /\ merged # {} THEN merged ELSE base
Dispatch(k) ==
    /\ Free /\ k \in known /\ rt[k] = "READY"
    /\ rt' = [rt EXCEPT ![k] = "RUNNING"] /\ rows' = Saved(k, "RUNNING")
    /\ execs' = execs \union {k}
    /\ call' = IF call.phase = "waiting" /\ call.key = k THEN [call EXCEPT !.base = WorksOn(k, @)] ELSE call
    /\ UNCHANGED <<known, retried, service>> /\ KeepRest

MayRetry(k) == k[1] \in {"coder", "repair"}
AttemptFails(k) ==
    /\ Free /\ k \in execs /\ rt[k] = "RUNNING" /\ MayRetry(k)
    /\ k \notin retried /\ Cardinality(retried) < MaxFailed
    /\ rt' \in {rt, [rt EXCEPT ![k] = "TIMEOUT"]}
    /\ rows' = Saved(k, "RUNNING") /\ retried' = retried \union {k}
    /\ UNCHANGED <<call, known, execs, service>> /\ KeepRest
Retry(k) ==
    /\ Free /\ k \in execs /\ rt[k] = "TIMEOUT"
    /\ rt' = [rt EXCEPT ![k] = "RUNNING"] /\ rows' = Saved(k, "RUNNING")
    /\ UNCHANGED <<call, known, execs, retried, service>> /\ KeepRest

(* _execute_task ends; its finally clause saves the task, deleted or not.  *)
Ends(k) == Free /\ k \in execs /\ execs' = execs \ {k} /\ UNCHANGED <<call, retried>> /\ KeepRest
FinishCancelled(k) ==
    /\ Ends(k) /\ rt[k] = "CANCELLED" /\ rows' = Others(k)
    /\ UNCHANGED <<rt, known, service>>

(* The repair and the tester of a round of the daemon's own.  The tester   *)
(* depends on the repair: complete_task frees it, fail_task fails it.      *)
OwnRepair(n) == <<"own_repair", n, 0, {}>>
OwnTester(n) == <<"own_tester", n, 0, {}>>
Awaits(j, k) == rt[j] = "PENDING" /\ k = OwnRepair(j[2])
Settled(k, status, dependents) ==
    [j \in DOMAIN rt |-> IF j = k THEN status ELSE IF Awaits(j, k) THEN dependents ELSE rt[j]]

(* _integrate_root_patches: the patches of all tasks that succeeded, less  *)
(* those applied before, go on top of the last integration or else of the  *)
(* base of this task (HEAD for a repair of the daemon's own).  It applies  *)
(* all or none; a patch does not apply to a commit that holds it.          *)
Code == {"coder", "repair", "own_repair"}
Unapplied(done) == {PatchOf(j) : j \in {i \in known : i[1] \in Code /\ done[i] = "SUCCESS"}} \ merged
IntegrateRootPatches(k, new) ==
    LET base == IF merged # {} THEN merged ELSE k[4]
    IN {merged} \union {c \in {base \union new} : new # {} /\ base \intersect new = {}}

(* The task succeeds, and then handle_task_success, which leaves a planner *)
(* of a graph alone, integrates the patch of a coder or a repair; once the *)
(* graph is gone nobody looks at what becomes of it.                       *)
Succeed(k) ==
    /\ Ends(k) /\ rt[k] = "RUNNING"
    /\ rt' = Settled(k, "SUCCESS", "READY") /\ rows' = Others(k)
    /\ IF k[1] \in Code /\ run = "running"
       THEN /\ merged' \in IntegrateRootPatches(k, Unapplied(rt'))
            /\ astray' = (astray \/ merged' = merged \/ k[1] = "own_repair")
       ELSE UNCHANGED <<merged, astray>>
    /\ UNCHANGED <<known, own>>
Fail(k) ==
    /\ Ends(k) /\ rt[k] # "CANCELLED"
    /\ rt' = Settled(k, "FAILED", "FAILED") /\ rows' = Others(k)
    /\ UNCHANGED <<known, service>>

(* handle_task_failure of a tester, whoever manages it, while the rounds   *)
(* last.  It is not called when _execute_task raised, and does nothing     *)
(* when no agent can repair: then Fail is all there is.                    *)
CreateRepair(k) ==
    LET n == crashes * MaxOwnRounds + own + 1
        r == OwnRepair(n)
        t == OwnTester(n)
    IN /\ Ends(k) /\ rt[k] # "CANCELLED" /\ k[1] \in {"tester", "own_tester"} /\ own < MaxOwnRounds
       /\ own' = own + 1 /\ known' = known \union {r, t}
       /\ rt' = With(Settled(k, "FAILED", "FAILED"), [j \in {r, t} |-> IF j = r THEN "READY" ELSE "PENDING"])
       /\ rows' = Others(k) \o <<[key |-> r, status |-> "READY"], [key |-> t, status |-> "PENDING"]>>
       /\ UNCHANGED <<merged, astray>>

-----------------------------------------------------------------------------
(* get_demo_run: a verdict in graph_state.json overrides summary.json, and *)
(* a run without one whose task is gone is declared interrupted.           *)
Serving == ~hung /\ run \notin {"none", "closing", "deleted"}
Shown == IF file.status \in Over THEN SummaryOf(file, summary) ELSE summary
LostAlways == Shown.status = "CREATED"
LostNever == FALSE
Lost == Shown.status = "CREATED" /\ run \notin {"running", "cancelling"}
GetRun ==
    /\ Serving
    /\ file' = IF Lost THEN [file EXCEPT !.status = "INTERRUPTED"] ELSE file
    /\ summary' = IF Lost THEN [Shown EXCEPT !.status = "INTERRUPTED"] ELSE Shown
    /\ told' = IF summary'.status \in Over THEN summary'.status ELSE told
    /\ UNCHANGED <<graph, run, hung, daemon, crashes>>

(* cancel_demo_run: the run's task is cancelled and awaited.  What it had  *)
(* submitted is then cancelled and deleted task by task; _cancel_runtime_  *)
(* task raises half way on a task that is RUNNING, which ends the handler. *)
CancelRun ==
    /\ Serving /\ run = "running" /\ run' = "cancelling" /\ GraphGone
    /\ UNCHANGED <<store, hung, daemon, told, crashes>>

Waits(k) == rt[k] \in {"READY", "PENDING"}
FailsWith(S, k) == \E r \in S : Awaits(k, r) /\ rt[r] = "READY"
Stopped(S) ==
    [k \in DOMAIN rt |-> IF FailsWith(S, k) THEN "FAILED"
                         ELSE IF k \in S /\ Waits(k) THEN "CANCELLED" ELSE rt[k]]
PurgeStops(i) ==
    LET before == {rows[j].key : j \in 1..(i - 1)} \intersect known
        saved(r) == r.key \in before /\ Waits(r.key) /\ ~FailsWith(before, r.key)
    IN /\ rt' = [Stopped(before) EXCEPT ![rows[i].key] = "CANCELLED"]
       /\ rows' = SelectSeq(rows, LAMBDA r : ~saved(r))
       /\ known' = known \ before
       /\ run' = IF run = "lost" THEN "lost" ELSE "cancelled"
       /\ UNCHANGED store
PurgeAll ==
    /\ rt' = Stopped(known) /\ known' = {} /\ rows' = <<>>
    /\ run' = "deleted" /\ file' = Fresh /\ summary' = Created
Purge ==
    LET live == {i \in DOMAIN rows : rows[i].key \in known /\ rt[rows[i].key] = "RUNNING"}
    IN /\ IF live = {} THEN PurgeAll ELSE PurgeStops(Min(live))
       /\ UNCHANGED <<graph, hung, threads, execs, retried, service, told, crashes>>

PurgeCancelled == ~hung /\ run = "cancelling" /\ Purge
DeleteRun == Serving /\ run \in {"done", "cancelled", "lost"} /\ Purge

(* agentd dies, or is killed when it hangs, and starts again: the graph is *)
(* not resumed, while recover_tasks puts its live tasks back to READY; one *)
(* that waits for another is not among them.                               *)
Crash ==
    /\ run # "none" /\ crashes < MaxCrashes /\ crashes' = crashes + 1
    /\ run' = IF run = "deleted" THEN run ELSE "lost"
    /\ hung' = FALSE /\ GraphGone /\ threads' = {} /\ execs' = {} /\ retried' = {}
    /\ merged' = {} /\ own' = 0 /\ UNCHANGED astray
    /\ known' = {rows[i].key : i \in {j \in DOMAIN rows : rows[j].status \in {"READY", "RUNNING"}}}
    /\ rt' = [k \in known' |-> "READY"]
    /\ rows' = [i \in DOMAIN rows |->
                IF rows[i].key \in known' THEN [rows[i] EXCEPT !.status = "READY"] ELSE rows[i]]
    /\ UNCHANGED <<store, told>>

-----------------------------------------------------------------------------
Statuses == {"READY"} \union Ended
GraphStep ==
    \/ CreateRun \/ SelectCoder \/ IntegrateCoder \/ IntegrateRepair \/ SuccessNode \/ FailedNode
    \/ StartCall \/ TesterGivesUp \/ CallRaises \/ GraphEnds \/ Snapshot \/ Summarize
    \/ \E s \in Statuses :
        PlannerReturns(s) \/ CoderReturns(s) \/ RepairReturns(s) \/ TesterReturns(s) \/ ReviewerReturns(s)
    \/ \E k \in threads : TaskCreated(k)
TaskStep ==
    \E k \in DOMAIN rt :
        \/ Dispatch(k) \/ AttemptFails(k) \/ Retry(k) \/ FinishCancelled(k)
        \/ Succeed(k) \/ Fail(k) \/ CreateRepair(k)
Next ==
    \/ GraphStep \/ TaskStep \/ WorkflowTimeout \/ Crash
    \/ GetRun \/ CancelRun \/ PurgeCancelled \/ DeleteRun

Spec == Init /\ [][Next]_vars
FairSpec == Spec /\ WF_vars(GraphStep) /\ WF_vars(GetRun) /\ WF_vars(PurgeCancelled)

-----------------------------------------------------------------------------
(* Every variable stays within its type, the fields of both copies of the  *)
(* graph state included; a repair round never exceeds max_repair_rounds.   *)
StateOK(s) ==
    /\ s.status \in Over \union {"PENDING"}
    /\ s.done \subseteq s.plan.coders /\ s.active \in s.plan.coders \union {0}
    /\ s.step \in 0..Cardinality(s.plan.coders) /\ s.round \in 0..MaxRounds
    /\ s.test.is \in {"none", "pass", "fail"} /\ s.review.is \in {"none", "approved", "rejected"}
TypeOK ==
    /\ run \in {"none", "running", "closing", "cancelling", "cancelled", "done", "lost", "deleted"}
    /\ StateOK(g) /\ StateOK(file) /\ g.status # "INTERRUPTED"
    /\ summary.status \in Over \union {"CREATED"} /\ told \in Over \union {"none"}
    /\ known \subseteq DOMAIN rt /\ execs \subseteq DOMAIN rt
    /\ \A k \in DOMAIN rt : rt[k] \in Statuses \union {"RUNNING", "PENDING"}

(* A run that reports SUCCESS passed its tests and its review, and ends    *)
(* with a commit that holds a patch of every planned coder and every patch *)
(* any node contributed (route_after_test, route_after_review, the sticky  *)
(* FAILED status, _integrate_pending_patches).  Tests and review were of   *)
(* that very commit, except in one case: the daemon has testers and        *)
(* reviewers work on an integration of its own, which is another commit    *)
(* once a patch did not go into it or a repair of the daemon's own did     *)
(* (handle_task_success, handle_task_failure, workspace_for_task).         *)
SuccessIsVerified ==
    /\ \A s \in {g, file} : s.status = "SUCCESS" =>
        /\ s.test.is = "pass" /\ s.review.is = "approved"
        /\ (s.test.on = s.commit /\ s.review.on = s.commit) \/ (mode = "runtime" /\ astray)
        /\ s.refs \subseteq s.commit
        /\ \A c \in s.plan.coders : \E p \in s.commit : p.by = c
    /\ summary.status = "SUCCESS" => summary.test = "pass" /\ summary.review = "approved"

(* A coder works on a commit with the patches of all the coders its task   *)
(* depends on (choose_next_coder_task, coder_node, integrate_coder_node).  *)
CodersBuildOnDependencies ==
    node = "coder" /\ call.phase # "idle" =>
        \A d \in g.plan.deps[g.active] : \E p \in call.base : p.by = d

(* Once get_demo_run has told a client that a run FAILED or was            *)
(* INTERRUPTED, no client is ever told otherwise.                          *)
VerdictIsFinal == [][~(told \in {"FAILED", "INTERRUPTED"})]_told

(* A client that polls a direct run gets a verdict or finds it deleted,    *)
(* whatever crashes and cancellations fall in between.                     *)
ClientLearns == (run # "none" /\ mode = "direct") ~> (told \in Over \/ run = "deleted")

(* Once a run's graph has ended, its final summary is written.             *)
SummaryIsWritten == run = "closing" ~> summary.status \in Over
=============================================================================
