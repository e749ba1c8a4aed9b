# AgentRuntime in TLA+

A TLA+ model of AgentRuntime: the daemon ("agentd") with its schedulers, the
execution of tasks on agents and their worker processes, resource leases, the
message router, the workflow service with its store and recovery, the context
manager, the codex backend, and the incident-repair application on top. TLC
checks the model on small instances. TLAPS proves, for every value of the constants, the
safety of both schedulers and their refinement of an abstract task graph, the
order in which the policies start tasks, and the safety of task execution, the
message router, the workflow service with its crashes, the context manager, the
codex backend and the incident-repair application.

`PROJECT.json` gives, for each definition that models code, the source lines it
stands for, and lists the runs, mutants, hazards, findings and theorems.

## 1. The system

agentd is one Python process with one asyncio thread. Clients talk to it over
HTTP (`aruntime/daemon/main.py`). Each agent has a worker process that connects
over a Unix socket. State is mirrored to SQLite.

| Part | State | Operations | Talks to |
|---|---|---|---|
| Task state machine (`core/models.py`) | status of a task | `transition_to` | everything that moves a task |
| Kernel scheduler (`scheduler/kernel.py`) | graph nodes, ready and waiting queues, running table, completed and failed sets | `enqueue`, `add_dependencies`, `dispatch_ready`, `wake_waiting`, `complete_task`, `fail_task`, `match_agent` | task endpoints, scheduling loop |
| DAG scheduler (`scheduler/dag.py`, `resource_aware.py`) | graph nodes, one queue | the same interface | the same |
| Scheduling loop and task endpoints (`daemon/main.py`) | `scheduler_event`, executions | submit, dynamic submit, spawn, add dependencies, cancel, one turn of the loop | scheduler, executions |
| Task execution (`daemon/main.py`, `daemon/fault_service.py`) | attempts, pending results, semaphores, restart counters | `_execute_task`, `_run_task_with_policy`, `_run_task_once`, isolation, worker monitor | agents, monitor, router, workers |
| Agent lifecycle (`core/acb.py`, `core/lifecycle.py`) | status in the `AgentSpec` and again in the control block (ACB) | transitions, recover, kill, restart | executions, endpoints |
| Resource monitor (`resource/monitor.py`) | quotas, usage, LLM counters, leases | `can_allocate`, `acquire`, `release`, `reclaim` | scheduler, executions |
| Message router, transport (`comm/`) | mailbox, unacked, dead letters, processed ids, connections | `route`, `register`, `unregister`, `receive`, `ack`, `send_event` | workers, executions, store |
| Worker (`worker/agent_worker.py`) | running attempts | execute, report, cancel, acknowledge | router, backends |
| Codex backend (`backends/codex_cli.py`, `direct/codex.py`) | process groups, the answer file | try, time out, terminate, retry | worker, or a direct run |
| Store and recovery (`daemon/store.py`, `daemon/recovery_service.py`) | SQLite rows | save, load, `recover_tasks` | startup, everything that saves |
| Workflow service, planner, workspaces (`workflow/`, `planner/`, `workspace/`) | plans, child tasks, patches, integration commits, repair rounds | materialise, integrate, repair | scheduler, store |
| Context manager (`context/manager.py`) | contexts, summaries, versions, two caches | record, update, build, roll back, evict | task submission, workers |
| Incident-repair application (`applications/incident_repair`) | graph state, files of a run | plan, code, integrate, test, review, repair; start, poll, cancel | client API, codex |
| LLM gateway, tools, cgroups, traces, CLI | external | calls | workers, daemon |

What makes it hard:

- **Interleaving at every await.** Code between two suspensions is atomic.
  Everything read before one may have changed after it: an agent is killed or
  recovered, a worker replaced, a task cancelled while its coroutine sleeps.
- **Exceptions half way.** `transition_to` raises on an illegal move, and what was
  assigned before stays assigned. Loops over a batch or over dependents stop in
  the middle.
- **Crashes between two commits.** A handler saves several rows and files one
  after the other, and the daemon may die between any two of them.
- **Workers that crash, hang, reconnect or answer late**, and connections whose
  death is noticed later than it happened.
- **A wake-up event** that is cleared before the work is taken.
- **Checks without reservation**: dispatch asks for resources that it does not
  take.
- **Processes that outlive** the coroutine that waits for them.

## 2. Modules

| Module | Models | Code behind it |
|---|---|---|
| `TaskStates` | task statuses, the transition table, failure modes | `core/models.py` |
| `TaskGraph` | abstract: what a scheduler promises to clients | (specification only) |
| `KernelScheduler` | the scheduler's state, one action operator per method | `scheduler/kernel.py` |
| `SchedulingLoop` | endpoints, the loop, executions as the scheduler sees them | `daemon/main.py` |
| `DispatchPolicy` | the order of the ready queue, scores, matching of tasks to agents | `scheduler/kernel.py`, `daemon/main.py` |
| `DagScheduler` | the other scheduler, alone and wrapped, under the same daemon | `scheduler/dag.py`, `scheduler/resource_aware.py` |
| `DagSort` | the same with `topological_sort`, called at any time | `scheduler/dag.py` |
| `AgentLifecycle` | agent statuses, and daemon helpers as functions on the pair (spec, ACB) | `core/lifecycle.py`, `core/acb.py`, `daemon/main.py` |
| `ResourceMonitor` | quotas, usage, counters, leases | `resource/monitor.py` |
| `TaskExecution` | attempts, retries, fallback, timeouts, workers, results; extends the component modules it needs | `daemon/main.py`, `worker/agent_worker.py`, `comm/transport.py` |
| `Queues` | rows read in order, and queues from which entries are dropped; used by the router, the policies and the contexts | `comm/router.py`, `daemon/store.py` |
| `MessageRouter` | mailbox, acknowledgement, replay, dead letters, rows in the store | `comm/router.py`, `daemon/store.py`, `worker/agent_worker.py` |
| `Workflow` | the workflow service over `KernelScheduler` and the store, with crashes and recovery | `workflow/service.py`, `planner/`, `workspace/manager.py`, `daemon/store.py`, `daemon/recovery_service.py`, `daemon/main.py` |
| `ContextManager` | contexts, compression, rollback, eviction, caches | `context/manager.py` |
| `CodexExecution` | one execution of the codex command line, in a worker or in a direct run | `backends/codex_cli.py`, `direct/codex.py`, `worker/agent_worker.py` |
| `IncidentRepair` | the application: graph, providers, run service, demo endpoints | `applications/incident_repair`, `daemon/main.py`, `api/client.py` |
| `..._proofs` | theorems about the module they are named after (section 4); those about `DagSort` are in `DagScheduler_proofs`, those about `CodexExecution` in `IncidentRepair_proofs` | |
| `MC...` | the instances TLC checks | |

In every module the definitions called a seeded variant are mutated forms of the
definition after them. `PROJECT.json` names, for each property of each run, one
variant under which TLC finds that property violated; nothing else uses them.

### KernelScheduler and SchedulingLoop

`status`, `declared` (`TaskSpec.dependencies`), `deps` (`node.dependencies`),
`dependents`, `ready`, `waiting`, `running`, `completedTasks` and `failedTasks` are
the fields of the scheduler; `event` is `scheduler_event`; `exec[t]` says whether an
asyncio execution of `t` exists and whether it holds its semaphores.

- Queues are sets. `dispatch_ready` drains the whole ready queue and
  `wake_waiting` visits the whole waiting queue, so order only decides which
  entries come before an exception. `LoopOutcomes` leaves that prefix open: for a
  loop whose body raises on some items, it gives every set of items done and the
  item the loop stopped at.
- `FailTwice` is the second `fail_task` that `_execute_task` makes from its `except`
  clause when the first one raised.
- `Reachable` defines the search of `_has_dependent_path` by closure rather than
  by recursion, so the proofs can use it.
- Tasks the workflow service creates inside a completion appear as `SubmitTask`
  steps right after it; `Workflow` models that service itself.
- The status checks on the agent at submission are in `TaskExecution`. The branch
  of `dispatch_ready` for a missing agent is unreachable, since submission checks
  the agent. `block_task` and `wake_blocked` have no caller in the daemon.

`TaskGraph` is the abstract view: a task has a phase and a set of tasks it needs;
it starts only when what it needs has succeeded, or failed under a policy that lets
it go ahead; what has ended stays so; a failure spreads only along fail-closed
edges. `SchedulingLoop` and `DagScheduler` both refine it (`ImplementsTaskGraph`).

### DispatchPolicy

The tasks here have no dependencies and are not cancelled; in exchange the queues
are sequences and keep their order. `Rank` is what a policy looks at first, `SortKey`
the whole key. `SortReady` is the stable sort: `Sorted` puts an entry after those with
a smaller key, and its position decides between equals. `served` is
`_agent_dispatch_count`, `running` keeps the order in which executions start. Time is a
counter; `AgingPeriod` stands for the 30 seconds of `_aged_priority`.

- A policy sees a queue only when the code sorts it: on every append and at the
  start of `dispatch_ready`.
- `Candidates(t) == {t}`: `_resource_score_details` reads `self.ready_queue` from
  within `self.ready_queue.sort(...)`, and CPython shows a list that is being
  sorted as empty. So every task is normalised by its own request.
- `required` is a set of requirements, each met by any of the values it lists;
  `languages` is the one with several values.

### DagScheduler

The same daemon over `DAGScheduler`. `wrapped` chooses `ResourceAwareScheduler`. One
queue holds ready and waiting tasks; as in `KernelScheduler` it is a set, since its
order only decides which entries precede one that raises. Failures cascade over
several levels (`fail_task` calls itself), and may raise on the way. `EnqueueUnchecked`
is the `enqueue` of the workflow service and of startup, which do not ask whether the
dependencies of a task are known.

`DagSort` adds `topological_sort`. Each turn of its loop is a step (`SortStep`), so that
`todo`, `degree` and `result` are the `queue`, `in_degree` and `result` of the code. The
call is synchronous: while `sorting`, nothing else happens. The order in which the
code meets the members of a dictionary or set is left open (`Orders`).

One limit: `add_dependencies` accepts a task in TIMEOUT, between two attempts. If that
task then fails and the added dependency completes, `complete_task` moves it from
FAILED to READY, and it is in no queue. The history variable `late` says that a task
was edited so. `ImplementsTaskGraph` and the theorems on the scheduler claim every step
up to that point; the results on the sort do without it.

### TaskExecution

`pc[t]` is where the coroutine of `t` stands. `turn = t` says that it has not reached
its next suspension, so no other daemon handler can run; worker processes can.
A long handler is thereby split into small actions and stays atomic towards the
daemon. `conn[a]` keeps a dead worker's connection (`"stale"`) until the daemon
notices it, as `_connections` does. `earned` is a history variable for properties
only.

- A result is delivered at the moment its coroutine resumes. `set_result` and the
  wake-up that follows commute with the other handlers.
- `CancelTask` is here the cancellation of a dispatched task; queued ones are in
  `SchedulingLoop`.
- The agent semaphore has one slot (`llm_max_concurrent` defaults to 1). The
  fallback agent exists, and the request is the same on it.
- `acquire` cannot fail after its checks, so its rollback branch is not modelled.
  Requests with an explicit amount of zero are excluded.
- Left out: strict cgroup mode, a failing `Popen`, metrics counters.

### MessageRouter

The router keeps everything per agent, so the module models one agent. Messages
are numbered by `created_at` and connections by the order in which workers open
them. A call of `_send_to_writer` is a record in `sends`: it waits for the
connection's lock, then has written and waits for `drain`, then succeeds or fails.
The lock is shared with `send_event`, so any send may have to wait for it. What is
written to a worker that is gone may be swallowed silently or fail. A failure
also ends reading from that stream, as in asyncio, where the exception that
makes `drain` raise is set on the reader too. A handler reads acknowledgements
only after `register` has returned. `RestartDaemon` keeps the rows and nothing else.
`offered` and `received` are history variables. `InOrder` (of `Queues`) lists a set of
messages in the order of their numbers (`ORDER BY created_at`); `Outside` drops
messages from a queue and keeps the order of the rest.

Left out: `replay_unacked` (no caller in the daemon), the order of messages on the
wire, `ack_required = False` (nothing sets it), and the worker's refusal to
acknowledge an empty payload.

### Workflow

The service runs on `KernelScheduler`, whose operators (`Enqueue`, `DispatchReady`,
`CompleteTask`, `FailTask`) its actions call. `rows` is the tasks table, `leaseRows` the
active leases, `workspaces` and `integrations` the worktrees on disk; the rest is
memory, which `Crash` empties. `Persist(S)` is a commit of `save_task`. `turn` works as
in `TaskExecution`, but a crash respects no turn: it may fall between any two
commits of a handler. `todo` is what a handler has still to create.

- A commit and a worktree are the set of the patches in them, and a patch is the
  task and the number of the attempt that wrote it.
- Ids of plans and repairs are uuids: `IdsAreFresh` says they do not collide.
- `Restart` reads the rows. It forgets what completed, as the new scheduler does.
- `ValidPlan` is `validate_plan` with "no cycle" stated over subsets of the plan.
- `Held(t)` says what keeps a task from ending for good: no agent, a place in the plan
  ahead of a dependency, a dependency that failed and whose failure is not handed on,
  or one that is itself not ended. Tasks of a repair round have no excuse of the
  second kind: the service creates a repair before its tester.

### ContextManager

A dictionary is a partial function; `StructuredSummary` is one too, with the four keys
(`Markers`) that `_structured_summary` writes, so that a later compression treats it as
the data it is. A size is a number of entries, and time is the set of contexts past
their time to live. `told` and `used` are history variables. `told` has one entry for each
period between two compressions, with the important values that clients wrote in it;
a rollback takes the last period away. `used` is the order of use. Snapshots for
rollback are kept in `previous`, the caches in `prefixes` and `builds`.

### CodexExecution

One execution of the codex command line in one of its two hosts: `CodexCLIBackend`
in a worker, or `DirectCodexExecutor`. Each try is a process group with a leader and
a command it may leave behind. `final` is the answer file; an answer carries the try
it comes from. Codex and its command do what they like: answer, exit, hang, start a
command. Cancellation, death of the worker and the kill of a cgroup, which may miss,
are actions.

### IncidentRepair

`g` is the state LangGraph keeps and `file` the copy the runner writes; they merge
updates differently (`Merged`, `Overwritten`; `With` is a dictionary's `update`). `node`
is the next graph node, `call` the provider call it makes. In runtime mode the work is
a task of the daemon that hosts the run (`rt`, `known`, `rows`, `execs`), submitted from a
thread. Clients poll, cancel and delete. A commit is the set of its patches.

- `rt` follows the tasks as `SchedulingLoop` and `TaskExecution` have them, reduced to
  dispatch, failed attempt, retry, end.
- The daemon treats these tasks like any others. When a coder or repair succeeds, its
  workflow service commits the patch to an integration of its own (`merged`,
  `IntegrateRootPatches`); a tester or reviewer works on that commit instead of the one
  the graph asked for (`WorksOn`); a tester that fails starts a repair and a tester of the
  daemon's own (`CreateRepair`, at most `MaxOwnRounds`). `astray` is a history variable: some
  integration of the daemon failed, or a repair of its own succeeded.
- `merged` is followed while the graph runs. Rows of tasks that have ended are left
  out, since neither recovery nor a purge acts on them.
- `hung` says that the event loop waits for a request to itself.

## 3. Runs

States are distinct states. Deadlock is not checked: clients make only finitely
many requests in an instance, and the system then rests.

| Run | Shows | States |
|---|---|---|
| `sched_clients` | All operations on three tasks, calls raising half way: no live task is lost between the queues, the graph stays acyclic and agrees with the queues, only a cancelled task cuts `dispatch_ready` or `complete_task` short, and the scheduler implements `TaskGraph` | 183,561 |
| `sched_live` | Without cancellation and edits, and with resources for all: tasks finish once what they depend on has | 3,628 |
| `exec_faults` | Crashing, hanging and late workers, cancellation, a shared fallback agent: leases balance, a lease ends with its attempt, one attempt at a time, only the last attempt's own result is a success | 768,430 |
| `exec_agents` | Two tasks on one agent that is killed, restarted and crashes: a killed agent stays killed, every execution ends | 90,912 |
| `router_mailbox` | Failing and retried sends, reconnects, overflow, a restart: no message is lost while the daemon runs, a reconnected worker is offered what is unacknowledged, what is dealt with does not come back | 151,228 |
| `workflow_crash` | A run with a repair round, and a crash between any two commits: tasks run after their dependencies, attempt numbers are not re-used, an integration holds every patch due, testers see the work they test, unfinished tasks come back, SUCCESS stays, no task is created twice; without a crash every task that nothing holds up for good ends, repair rounds included | 200,805 |
| `context_contexts` | Three contexts of which two fit: readers find the important values of the last two periods between compressions, after rollbacks too; a cache hit is for the same content, the most recent contexts are kept | 387,340 |
| `dag_clients` | The DAG scheduler, bare and wrapped, cascading over two levels, with a task enqueued ahead of its dependencies or edited between attempts: what is free is ready, `topological_sort` repeats nothing and errs only as described below, and it implements the same `TaskGraph` | 2,111,967 |
| `incident_runs` | Both providers, the daemon's own integration and repairs, crashes, cancellation, deletion: SUCCESS was tested and approved, on the final commit unless the daemon went astray, and that commit holds every patch; coders build on what they depend on, a bad verdict is final, a polling client of a direct run gets an answer | 373,119 |
| `codex_tries` | Stubborn commands, timeouts, cancellation, retries: the answer is of the last try, no codex runs beside or behind an execution, executions end by their own timeouts unless a worker waits for a command that holds the pipes | 34,346 |
| `policy_order` | All eight policies on three tasks and two agents: aging bounds overtaking, tasks start in the order and on the agent the policy wants, a blocked task is woken | 80,721 |
| `incident_summary` | *violated*: the final summary of a runtime run is never written, because the daemon waits for its own answer | |

The finding in `PROJECT.json` quotes the documentation behind the violated property.
Each module also has a `TypeOK`. It held in TLC for the instances above. It is not
among the runs' properties but can be added to any of the cfg files.

### Bounds

- Scheduler: three tasks, with fail-open, fail-closed, degrade and unset policies
  on tasks and edges. Three are needed for a batch with a task before and after
  the one that raises, for a dependency with two dependents, and for a cycle that
  is not a pair. Every subset of tasks may pass the resource check at each turn
  (`AnyAdmission`).
- Execution: two tasks and two agents, at most one retry and one fallback, one
  worker restart. Each task asks for two of three units of memory, so both pass
  the dispatch check and one lease fails. Two tasks suffice for one to disturb the
  agent, the worker or the quota of the other.
- Router: two messages, two connections, a mailbox of one, one restart of the
  daemon. Two connections give the retry on a newer one and the message held by
  two handlers; a mailbox of one overflows. The same properties also hold with
  three connections and no restart (7,098,382 states), too slow to keep as a run.
- Workflow: a planner, two coders, a tester, a reviewer and one repair round in each
  life of a daemon that dies once while it runs and once while it recovers. The
  plans are valid ones, one whose order puts a dependent first, and a cyclic one.
- Contexts: three where two fit, two agents, a threshold of one entry, five calls. Five
  allow two compressions, a write on top of the second and a rollback; one context
  gets two important keys, a key called `important`, private and read-only data.
- DAG: a chain of three, so that a failure cascades twice and opens an edge. One of the
  three may be enqueued unchecked, time out and be edited meanwhile.
- Incident: at most two coders, one chain against the order of their ids and one plan
  of each kind that is refused; one repair round of the graph, one of the daemon, one
  retried task and one crash.
- Codex: three tries, so that one can leave an answer and a process behind and a
  retry can follow a retry.
- Policies: two tasks that differ only in what they ask for, and one whose matching
  overrides the agent it names. The clock stops at `Horizon`, before any deadline.

### Fairness

- `SchedulingLoop!Fairness`: weak fairness of `ScheduleTick`, `StartExecution` and
  `Finish`. The loop is a task that lives as long as the daemon and logs what it
  catches; an execution makes a bounded number of attempts, each under a timeout.
- `TaskExecution!Fairness`: weak fairness of each task's own steps. asyncio resumes
  whatever can run and its timers fire. Workers, clients and the network owe
  nothing, so `ExecutionEnds` holds with a worker that never answers.
- `Workflow!Fairness`: weak fairness of the daemon's steps; crashes and restarts owe
  nothing.
- `CodexExecution!CodexFairSpec`: the steps of `execute`, its timeouts among them. Codex,
  its command, the cgroup and the daemon's timeout owe nothing.
- `IncidentRepair!FairSpec`: the graph, the client that polls, and the purge of a
  cancelled run. The tasks of the daemon owe nothing.
- `DispatchPolicy`: the loop and the end of executions.
- No fairness is assumed in `MessageRouter`: a `drain` towards a worker that does
  not read may block for as long as that worker lives.


### Limits of the properties

What the code does beyond the instances and properties above, met while modelling.
These have no run of their own.

*Kernel scheduler and loop*

- A task cancelled while READY stays in `ready_queue`, and the next `dispatch_ready`
  raises after it has marked the tasks before it RUNNING (`main.py:222`). A dependent
  cancelled while waiting makes `complete_task` raise half way (`kernel.py:227`).
  `OnlyCancellationCutsShort` says that nothing else makes these two calls raise.
- An agent transition that raises between SUCCESS and `complete_task` (`main.py:1975`)
  leaves the task in the running table, and its dependents wait for good. `fail_task`
  raises at a dependent that was added late and has succeeded meanwhile, and those
  after it wait on (`kernel.py:250`). `QueuesMatchStatus` does not exclude either.
- `add_dependencies` accepts a task in TIMEOUT, records the dependency and then
  raises. `add_task_dependencies` does not set the event, so a task it makes ready
  waits for the next one.
- A fail-closed failure fails the direct dependents only; theirs go on waiting.

*Dispatch policies*

- Under `resource_aware` every task is normalised by its own request (see
  `Candidates` above).
- `wake_waiting` runs only when the ready queue is empty (`kernel.py:136`), so a blocked
  task is not retried when an execution ends while an unservable task is ready.
  `create_agent` does not wake the loop either, nor does free CPU or memory that is
  measured rather than leased.
- `match_agent` ignores the agent's status and overrides a named agent when
  `required_capability` is set; the selection may return a killed agent.
- `agent_queues`, which only statistics read, is not modelled.
- `fair_share` counts change during a drain without a new sort.

*DAG scheduler*

- `add_dependencies` does not refuse TIMEOUT (`dag.py:188`). Such a task, then failed,
  is moved from FAILED to READY by `complete_task` and stays READY in no queue.
  `ImplementsTaskGraph` is claimed until the first such edit.
- Behind `ResourceAwareScheduler`, `add_task_dependencies` only extends the task's own
  list, and nothing enforces it.
- `topological_sort` counts unresolved dependencies and walks all dependents
  (`dag.py:149`), so a task one of whose dependencies is resolved may come before
  another that it still waits for. It raises if a task was enqueued ahead of a
  dependency, although there is no cycle. `SortIsTopological` excepts these two cases.
- A cancelled queued task makes `dequeue` raise after the removal, and what the
  batch took before it is lost. `fail_task` may raise half way down its recursion.
- `FIFOScheduler` serves only an unrecognised `SCHEDULER_TYPE`; not modelled.

*Task execution*

- `_isolate_failed_worker` forces FAILED on the `AgentSpec` only (`main.py:465`), so the
  two records of an agent's status come apart. A fallback agent stays RUNNING and
  its own next task fails unattempted. A task that is to degrade ends FAILED
  after a timeout.
- A killed agent that is some task's fallback gets a worker again and executes,
  although its status stays KILLED. A task cancelled between attempts is
  attempted again; only its status is safe.

*Router*

- A message routed to a connected worker is tracked nowhere (`router.py:145`).
- A message whose retry also fails goes to the mailbox even if a third connection
  is registered by then. Two handlers may both requeue the same message.
- A message dead-lettered by overflow stays in `_unacked` and is sent at the next
  registration. Messages that `register` was sending when the daemon stops have
  lost their rows.

*Workflow*

- `enqueue` attaches a dependent only to nodes that exist, so a plan whose order puts
  a dependent first strands it. A failed dependency whose failure mode is unset, or that
  failed along with another, holds its dependents up for good. `PlanIsCarriedOut` excepts
  both (`Held`), and tasks for which there is no agent.
- The planner's SUCCESS is saved before its children are created, so a crash in
  between loses them; an invalid plan leaves the planner in SUCCESS with none.
  Dependents failed by a cascade are not saved.
- `recover_tasks` does not restore PENDING tasks with dependencies, nor tasks
  without an agent; `UnfinishedIsRecovered` covers those it does restore. A restored
  task that has dependencies waits for ever, since the new scheduler does not
  know what had completed.
- Partial patches of failed attempts are integrated with the successful one. After
  one conflict later integrations keep conflicting (`refused`). The lists of
  integration commits and repair rounds are lost on a restart.

*Contexts*

- A further compression drops the important values that the summary before it kept
  (`manager.py:349`), and a client that writes a key `important` replaces the summary's
  entry of that name. `ImportantSurvives` claims the last two periods, and the older
  of them only while there is no such key. A rollback discards every write after the
  compression and re-uses version numbers of read-only contexts. Caches are never
  emptied. A re-created context starts at version 0. `get_metrics` is not modelled.

*Codex*

- `cancel_task` cancels the coroutine and leaves codex running; `backend.cancel` has no
  caller. `await stdout_task` is unbounded while a child holds the pipe; `ExecutionEnds`
  excepts that wait. Codex is reaped on a daemon timeout only if the worker is bound
  to a cgroup, and only if the kill succeeds. A direct
  exit with code 0 whose child holds the pipe becomes a TIMEOUT. `except
  TimeoutError` needs Python 3.11, which is assumed.

*Incident repair*

- `wait_task` takes the transient TIMEOUT of a task for its end. A cancel after the
  workflow timeout does nothing. A thread that submits while the run is deleted
  creates its task afterwards, and an execution that ends saves its row again although
  it was deleted.
- A run in runtime mode may report SUCCESS on a commit that nobody tested. The base
  commit that the graph asks for (`testing/unittest/applications/test_tester_business_failure.py`
  asserts that it is in the request) is replaced by the daemon's own integration
  (`workflow/service.py:108`). That one lacks a patch if an integration of the daemon
  failed, and holds another if a repair of the daemon's own succeeded besides the
  graph's. `SuccessIsVerified` says that nothing else leads there.
- An error of the database while a patch is saved, and the daemon's integration after
  the graph is gone, are not followed.
- A coder that completes with no patch in direct mode fails the run.
  `integrate_repair` does not check for private files. The direct reviewer ignores the
  exit code. A SUCCESS that a client was told may become FAILED if the workflow
  timeout fires after the success node; `VerdictIsFinal` speaks of the others.
- The runner's `update()` ignores reducers (`runner.py:37`), hence the two merges.
- `get_execution_snapshot` calls the daemon it runs in (`execution/runtime.py:114`): the
  finding of `incident_summary`.
- Not modelled: runs hosted by a script, the event stream, the recursion limit of
  LangGraph.

## 4. Proofs

All proofs hold for every value of the constants that the named assumptions allow,
and most of these only give types: `ModesAreTyped` and `ClientsAreTyped` (scheduler),
`ExecutionIsTyped` and `ResourcesAreTyped` (execution, monitor), `CodexIsTyped`,
`WorkflowIsTyped`, `BoundsAreTyped` (router), `IncidentIsTyped`, `DagIsTyped`,
`ContextManagerIsTyped`, and `IdsAreFresh` (ids of plans and repairs are uuids).
`ResourcesAreTyped` also says that no agent is the mark of a missing lease.
`TasksFinite` says that `DagSort` sorts finitely many tasks.
`DispatchIsTyped` says that priorities, requests and capabilities are numbers, that
there are finitely many agents and that their names differ; `RequestsFit` that each
request is within the quotas and no deadline expires before the clock stops. The
runs evaluate them.

| Module | Theorem | States |
|---|---|---|
| `SchedulingLoop_proofs` | `Invariance` | `Spec => []IndInv` |
| | `TypeCorrect` | `Spec => []TypeOK` |
| | `NoTaskLost` | `Spec => []QueuesMatchStatus` |
| | `ReadyOnlyWhenSettled` | `Spec => []ReadyIsSettled` |
| | `AtMostOneExecution` | `Spec => []SingleExecution` |
| | `FailedIsForever` | `Spec => FailedIsFinal` |
| | `GraphAlwaysSound` | `Spec => []DependencyGraphSound` |
| | `OnlyCancelledCutsShort` | `Spec => []OnlyCancellationCutsShort` |
| | `Refinement` | `Spec => ImplementsTaskGraph` |
| `DagScheduler_proofs` | `Invariance` | `Spec => [](late \/ IndInv)` |
| | `FreeAlwaysReady` | `Spec => [](late \/ FreeIsReady)` |
| | `Refinement` | `Spec => ImplementsTaskGraph`, which claims the steps before `late` |
| | `SortAlwaysTopological` | `SortSpec => []SortIsTopological` |
| | `SortChangesNothing` | `SortSpec => Spec` |
| `DispatchPolicy_proofs` | `Invariance` | `Spec => []IndInv` |
| | `OvertakingAlwaysBounded` | `Spec => []OvertakingIsBounded` |
| | `PolicyOrderKept` | `Spec => StartsInPolicyOrder` |
| | `BestAgentChosen` | `Spec => StartsOnBestAgent` |
| `TaskExecution_proofs` | `LeaseEndsWithAttempt` | `Spec => []LeaseFollowsAttempt` |
| | `OneAttemptAtATime` | `Spec => []OneAttemptRuns` |
| | `SuccessAlwaysEarned` | `Spec => []SuccessIsEarned` |
| | `KilledStaysKilled` | `Spec => KilledIsFinal` |
| | `QuotaHolds` | `Spec => []QuotaRespected` |
| | `LeasesAlwaysBalance` | `Spec => []LeasesBalance` |
| `Workflow_proofs` | `AttemptAlwaysFresh` | `Spec => []AttemptIsFresh` |
| | `RunsOnlyAfterDependencies` | `Spec => []RunsAfterDependencies` |
| | `UnfinishedAlwaysRecovered` | `Spec => []UnfinishedIsRecovered` |
| | `SuccessIsForever` | `Spec => SuccessIsDurable` |
| | `EachIsCreatedOnce` | `Spec => CreatedOnce` |
| | `CommitAlwaysComplete` | `Spec => []CommitIsComplete` |
| | `TestersAlwaysSeeWork` | `Spec => []TestersSeeWork` |
| `MessageRouter_proofs` | `Typed` | `Spec => []TypeOK` |
| | `UnackedAreOffered` | `Spec => []UnackedIsOffered` |
| | `AckedStaysAcked` | `Spec => []AckedIsNotReplayed` |
| | `RestartIsClean` | `Spec => []RestartRevivesNothing` |
| | `NoMessageLost` | `Spec => KeepsMessages` |
| `IncidentRepair_proofs` | `Invariance` | `Spec => []IndInv` |
| | `SuccessVerified` | `Spec => []SuccessIsVerified` |
| | `CodersBuild` | `Spec => []CodersBuildOnDependencies` |
| | `VerdictStays` | `Spec => VerdictIsFinal` |
| | `AnswerIsNeverStale` | `CodexSpec => []OutputIsCurrent` |
| | `OneCodexAtATime` | `CodexSpec => []NoCodexOutlives` |
| | `SuccessAlwaysEarned` | `CodexSpec => []SuccessIsEarned` |
| `ContextManager_proofs` | `Invariance` | `Spec => [](IndInv /\ TypeOK)` |
| | `ImportantAlwaysSurvives` | `Spec => []ImportantSurvives` |
| | `HitsAlwaysExact` | `Spec => []HitIsExact` |
| | `LatestAlwaysKept` | `Spec => []KeptAreLatest` |

### The scheduler

    IndInv == TypeOK /\ QueuesMatchStatus /\ SingleExecution /\ Bookkeeping

None of the first three is inductive alone. That a completed task has not been
put back in a queue needs that its execution was dispatched (`Bookkeeping` relates
`exec` to `status`). That a task in the ready queue has settled dependencies needs
that every dependency it declared and no longer waits for is settled, also for a
task that is not yet ready. That a settled dependency stays settled needs that
`completedTasks` only holds tasks in SUCCESS.

The argument has three layers. Lemmas on operators (`TransitionFacts`,
`LoopOutcomesFacts`, `FailRunsFacts`) say what the table and the interrupted loops
allow. Effect lemmas (`FailTaskEffect`, `CompleteTaskEffect`, `DispatchReadyEffect`)
restate each method, exceptions included, as its effect on each task. One lemma
per method or kind of step (`...KeepsInv`) shows that the invariant survives, and
`NextKeepsInv` collects them over the disjuncts of `Next`. For the graph,
`NewEdgesKeepAcyclic` shows that adding edges from tasks outside `Reachable(t)`
closes no cycle, by exhibiting a closed set that separates the two. `Refinement`
uses the same effect lemmas: each step moves each task along one abstract step or
leaves it.

`OnlyCancelledCutsShort` adds two facts to the invariant. As long as no task is CANCELLED,
every task in the running table that is RUNNING has its execution, and nobody waits for
a completed task (`NoneStranded`): no queue holds an entry on which `transition_to`
raises, so that `dispatch_ready` and `complete_task` run to their end. And a task in
SUCCESS is completed, or still in the running table because `complete_task` was never
called for it (`SuccessHasPlace`).

### The DAG scheduler

    IndInv == TypeOK /\ StatusOK /\ QueueOK /\ EdgesOK /\ SetsOK /\ ExecOK

The danger is the transition from FAILED to READY that the table allows: a task that
failed along with a dependency still waits for others, and `complete_task` makes a
task READY whose last dependency goes. `QueueOK` excludes it: a failed task in the
queue is `Doomed`, it waits for one that ended badly on a fail_closed edge and that
never leaves its dependencies. To keep this, a failing task must still hold up those
it takes along, which is `EdgesOK`: an edge is unresolved, or its task has ended in
a way that the edge accepts. `CascadeFacts` derives from the least fixed point that
every task of a cascade is taken along by another one of it. `FailEffect`,
`CompleteEffect` and `TickEffect` restate the methods, exceptions included, and serve
both the invariant and the refinement.

`late \/ IndInv` is what is inductive: an edit of a task in TIMEOUT sets `late` for good.

The sort needs neither `late` nor the statuses of tasks:

    GraphOK /\ SortOK

`GraphOK` says that the edges in `dependents`, which stay when a dependency is
resolved, have no cycle: every set of tasks has one that no other of the set holds up.
`add_dependencies` keeps this because what it adds is not `Reachable` from the task; the
other operations resolve edges or add a task that holds up nothing. `SortOK` follows
the loop: no task is queued twice, and `in_degree` is the number of open dependencies
less the listed tasks that hold it up (`Listed`), so that it can fall below zero and
passes zero once. For a task none of whose dependencies is resolved, `Listed` is a
part of its dependencies, so it reaches zero only when they are all listed. When the queue is
empty and every task is `Attached` to its dependencies, the tasks that are missing
from the list are each held up by another of them, so that there are none.
This counting is why the set of tasks is assumed finite (`TasksFinite`).

### The dispatch policies

    IndInv == KeysOK /\ QueuesOK /\ AgentsOK /\ OvertakingIsBounded

`KeysOK` and `AgentsOK` make every sort key a tuple of numbers, under all policies: the
agent of a submitted task exists. `Ranking` is the lemma that the rest stands on. It
enumerates a finite set along any strict order: the number of members below one is
its place, no two have the same, and an injection between sets of one size leaves
no place over. It is used three times, for the sort (`SortedFacts`), for what is
left of a queue (`InOrderFacts`) and for the best of the agents that match
(`BestMatchFacts`). That the order of Python's tuples is strict and total is
`LessTransitive`, `LessIrreflexive` and `LessTotal`, by the first place at which
two differ.

`OvertakingIsBounded` then follows from the keys at each sort, since the waiting
time is the same for all; `StartsInPolicyOrder` since preferring means a smaller key
(`PreferredIsLess`), and neither `Outside` nor joining queues changes the order.

### Task execution

    IndInv == Typed /\ LeaseFollowsAttempt /\ OneAttemptRuns /\ ResultsFollowJobs
                    /\ SuccessesEarned

`ResultsFollowJobs` says that a job or a result at a worker is of an attempt that was
started, and not of one still to come. Without it a late result could belong to the
attempt that begins next. `SuccessesEarned` extends `SuccessIsEarned` to an execution
that is about to record its result. `QuotaInv` is a separate induction over usage,
which does not depend on the rest: `acquire` checks and takes in one turn.

`LeasesBalance` equates usage with a sum over the active leases. An attempt acquires
only when its task has no active lease (`LeaseFollowsAttempt`), so a grant adds one
task to the summed set and a release removes one. That the sum then changes by that
task's request, whatever order the fold takes, is `HeldIsSum`, proved on the smallest
set of tasks that would be an exception.

### Workflow

    IndInv == Typed /\ TurnHeld /\ QueuesHold /\ RowsAgree /\ AttemptsSaved
                    /\ IdsUnused /\ DepsSettled /\ RowsKnown

The store has to be right at every step, since a crash respects no turn.
`RowsAgree` ties each row to the scheduler, `AttemptsSaved` bounds the numbers of
worktrees on disk by the saved attempt (the row is saved before the worktree is
made), `IdsUnused` says that what is still to be created has no row, and
`DepsSettled` that a dependency which no longer holds up a task is stored as ended.

`CommitIsComplete` speaks only of the moments between two turns. Within a handler
the task has SUCCESS and its patches are not in the commit. `CommitFollows`
therefore compares the commit with `Due`, which leaves out the task whose handler
has not got to its patches, and adds what a tester's worktree was made from.

### Message router

    IndInv == BoxOK /\ ConnOK /\ WorkerOK /\ CountOK /\ OfferedFirst /\ CurrentIsCovered

`OfferedFirst` says that what is on the wire, acknowledged or written was offered to
that connection; it makes an acknowledged message one that is accounted for.
`CurrentIsCovered` is `UnackedIsOffered` for the connection registered now: offered
to it, queued for it or in a call on it. The property itself allows a call on
another connection, which is not enough after that call fails.
`NoMessageLost` is proved with the invariant, action by action: each lemma shows
that a message held somewhere (`Held`) is held somewhere afterwards.

What `InOrder` and `Outside` return needs an induction over the size of a set. It is
done without an induction theorem: of the sizes for which there is no listing
take the least (`LeastNumber`), and remove the smallest element of a set of that size.

### Incident repair

    GraphInv == CopiesAgree /\ CallIsCurrent /\ GraphSound /\ RecordSound
    IndInv == GraphInv /\ Quiet /\ (Following => Followed)

`CopiesAgree` relates the graph's state to the copy the runner writes, field by
field, since the two merge differently. `CallIsCurrent` says that a call works on the
present commit, unless it is that of a tester or reviewer and the daemon went astray
or the graph has failed; `GraphSound` says what routing has established at each node
(which verdicts there are, and on which commit); `RecordSound` bounds what the stored
record and the answers to clients can say.

That a tester works on the graph's commit although the daemon hands it another one
needs that the two are the same: `Followed`. As long as the graph runs, has not failed
and the daemon has not gone astray, `merged` is the graph's commit with its pending
patches, and with the patch of the task that has succeeded and whose call has not
returned (`Landed`). To keep it, no other coder or repair task of the graph may be
under way, whose success would change `merged` behind the graph's back: each is
`Applied`, or is the task of the present call. `wait_task` takes a transient TIMEOUT for an
end, so such tasks do exist; but then the graph has failed. `Quiet` says that a direct
run and one that is not created have no tasks.

### Codex

`CodexInv` counts the tries, says that codex of an earlier try is gone and that of a
later one not started, and that `final.json` and the result are of the current try.

### Contexts

    IndInv == OrderOK /\ DataOK /\ CacheOK /\ steps \in 0..MaxSteps

`OrderOK` says that the expired contexts are those used longest ago, in front of the
others; otherwise expiry could drop one from the middle. `DataOK` relates every context
and every snapshot in it to `told` (`ToldOK`): the data holds the important values of its
own period, and the summary below it those of the period before. A rollback makes the
last snapshot the context, so that the property, which speaks of the context only,
needs this of all of them. `CacheOK` says that an entry holds the tokens of the content
that its key spells out.

### Only model-checked

All invariants and action properties of the passing runs are proved. Liveness is left to
TLC (`DependentsFinish`, `ExecutionEnds`, `PlanIsCarriedOut`, `ClientLearns`,
`BlockedIsWoken`): fairness and ENABLED are beyond the provers. The
proofs about `TaskExecution`, `Workflow` and `IncidentRepair` use `Typed`, the part of
`TypeOK` they need, and those about `DispatchPolicy` `KeysOK`, `QueuesOK` and `AgentsOK`;
what else their `TypeOK` says has held in TLC and is not proved.

## 5. Not modelled

The LLM gateway and tools (external programs: a job that ends well, badly or
never), cgroups (a worker it kills is a crash), traces and dashboard (append-only,
read by no decision), the CLI and client library (stateless requests), and of
`main.py` the request schemas, read-only endpoints, metrics, demo agents and
shutdown. `workspace/integration.py` has no caller. `PROJECT.json` lists each part with
its status and the reason.
