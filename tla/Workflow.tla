------------------------------ MODULE Workflow ------------------------------
(***************************************************************************)
(* The workflow service (aruntime/workflow/service.py) over the kernel     *)
(* scheduler and the SQLite store: a planner task whose plan becomes       *)
(* child tasks, patches integrated as code tasks succeed, repair rounds    *)
(* when a tester fails, and what is left of all this when the daemon dies  *)
(* and a new one recovers from the store (daemon/store.py,                 *)
(* daemon/recovery_service.py, startup in daemon/main.py).                 *)
(*                                                                         *)
(* The daemon is one asyncio thread: turn = t says that the execution of t *)
(* has not reached its next suspension.  A crash respects no such thing:   *)
(* it may fall between any two commits of the store.                       *)
(***************************************************************************)
EXTENDS KernelScheduler, Naturals, Sequences, FiniteSets

CONSTANTS
    Root,             \* the planner task, root of the run
    Role,             \* Role[t]: task_role
    PlanMode,         \* PlanMode[t]: failure_policy.mode the plan asks for
    Plans,            \* the plans the planner may come up with
    Pairs,            \* ids for the repair tasks and their testers, in order of creation
    Staffed,          \* tasks for whose role some agent is registered
    Fallible,         \* tasks whose attempts may fail
    MaxRetries,       \* MaxRetries[t]: failure_policy.max_retries
    MaxRepairRounds,  \* WorkflowService.max_repair_rounds
    MaxCrashes        \* bound on the crashes of a running daemon; one more may hit a recovery

Code == {"coder", "repair"}
Roles == Code \union {"planner", "tester", "reviewer"}
Absent == [state |-> "absent", deps |-> {}, attempt |-> 0, patches |-> {}, base |-> {}]
Nobody == "nobody"

(* _role_failure_policy: work that later tasks build on must not fail open. *)
RolePolicy(role, mode) ==
    IF mode = "fail_open" /\ role \in Code \union {"tester"} THEN "fail_closed" ELSE mode

ASSUME WorkflowIsTyped ==
    /\ Nobody \notin Tasks
    /\ Root \in Tasks /\ Role \in [Tasks -> Roles] /\ Role[Root] = "planner"
    /\ PlanMode \in [Tasks -> FailureMode \union {Unset}]
    /\ TaskMode = [t \in Tasks |-> RolePolicy(Role[t], PlanMode[t])]
    /\ Staffed \subseteq Tasks /\ Fallible \subseteq Tasks
    /\ MaxRetries \in [Tasks -> Nat] /\ MaxRepairRounds \in Nat /\ MaxCrashes \in Nat
    /\ Len(Pairs) >= MaxRepairRounds * (MaxCrashes + 1)

(* Every id that a plan or a repair round uses is a new uuid.              *)
ASSUME IdsAreFresh ==
    /\ Pairs \in Seq([repair : Tasks, tester : Tasks])
    /\ \A i \in DOMAIN Pairs :
        /\ Pairs[i].repair # Root /\ Pairs[i].tester # Root
        /\ \A j \in DOMAIN Pairs :
            /\ Pairs[i].repair # Pairs[j].tester
            /\ i # j => Pairs[i].repair # Pairs[j].repair /\ Pairs[i].tester # Pairs[j].tester
    /\ \A p \in Plans :
        /\ p.order \in Seq(Tasks)
        /\ \A k \in DOMAIN p.order :
            /\ p.order[k] # Root
            /\ \A i \in DOMAIN Pairs : p.order[k] # Pairs[i].repair /\ p.order[k] # Pairs[i].tester

VARIABLES
    exec,          \* exec[t]: how far the execution of t has come
    tries,         \* tries[t]: failed attempts of the current execution
    attempt,       \* attempt[t]: tcb.current_attempt
    patches,       \* patches[t]: attempts of t that carry a patch artifact
    base,          \* base[t]: the patches in workspace.base_ref of t
    seen,          \* seen[t]: the patches in the worktree of the current attempt of t
    turn,          \* the task whose coroutine holds the event loop, or Nobody
    todo,          \* tasks its handler has still to create: <<id, dependencies>>
    commit,        \* integration_commits[Root], as the patches it contains
    refused,       \* an integration was given up (workflow.integration.conflict)
    rounds,        \* repair_rounds[Root]
    up,            \* the daemon runs
    crashes,       \* how often it has died
    rows,          \* rows[t]: the tasks table
    leaseRows,     \* tasks with an active row in resource_leases
    workspaces,    \* attempt worktrees on disk
    integrations   \* integration worktrees on disk, by number of patches

memory == <<exec, tries, attempt, patches, base, seen, turn, todo, commit, refused, rounds>>
disk == <<rows, leaseRows, workspaces, integrations>>
vars == <<kernelVars, memory, up, crashes, disk>>

MemoryInit ==
    /\ exec = [t \in Tasks |-> "none"]
    /\ tries = [t \in Tasks |-> 0]
    /\ attempt = [t \in Tasks |-> 0]
    /\ patches = [t \in Tasks |-> {}]
    /\ base = [t \in Tasks |-> {}]
    /\ seen = [t \in Tasks |-> {}]
    /\ turn = Nobody /\ todo = <<>>
    /\ commit = {} /\ refused = FALSE /\ rounds = 0

Init ==
    /\ KernelInit /\ MemoryInit
    /\ up = TRUE /\ crashes = 0
    /\ rows = [t \in Tasks |-> Absent]
    /\ leaseRows = {} /\ workspaces = {} /\ integrations = {}

(* The row save_task writes for t; Persist(S) commits those of S.          *)
Row(t) == [state |-> status[t], deps |-> declared[t], attempt |-> attempt[t],
           patches |-> patches[t], base |-> base[t]]
Persist(S) == rows' = [t \in Tasks |-> IF t \in S THEN Row(t)' ELSE rows[t]]

Free == up /\ turn = Nobody
-----------------------------------------------------------------------------
(* submit_task for the root.                                               *)
Submit ==
    /\ Free /\ Root \notin nodes /\ rows[Root] = Absent
    /\ Enqueue(Root, {})
    /\ UNCHANGED <<memory, up, crashes>>
    /\ Persist({Root})
    /\ UNCHANGED <<leaseRows, workspaces, integrations>>

(* A turn of scheduling_loop.  A task that no agent can take is blocked.   *)
Dispatch ==
    /\ Free /\ ready # {}
    /\ \E batch \in SUBSET Tasks :
        /\ DispatchReady(Staffed, batch)
        /\ exec' = [t \in Tasks |-> IF t \in batch THEN "queued" ELSE exec[t]]
    /\ UNCHANGED <<tries, attempt, patches, base, seen, turn, todo, commit, refused, rounds, up, crashes, disk>>

(* Seeded variant: the row is written only with the lease.                 *)
BeginUnsaved(t) ==
    /\ Free /\ exec[t] = "queued"
    /\ exec' = [exec EXCEPT ![t] = "begun"]
    /\ attempt' = [attempt EXCEPT ![t] = @ + 1]
    /\ UNCHANGED <<kernelVars, tries, patches, base, seen, turn, todo, commit, refused, rounds, up, crashes, disk>>

(* An attempt of _run_task_with_policy: its number is committed first,     *)
(* then its lease, and only then is its worktree created.                  *)
Begin(t) ==
    /\ Free /\ exec[t] = "queued"
    /\ exec' = [exec EXCEPT ![t] = "begun"]
    /\ attempt' = [attempt EXCEPT ![t] = @ + 1]
    /\ UNCHANGED <<kernelVars, tries, patches, base, seen, turn, todo, commit, refused, rounds, up, crashes>>
    /\ Persist({t})
    /\ UNCHANGED <<leaseRows, workspaces, integrations>>

(* save_lease.                                                             *)
LeaseRow(t) == leaseRows \union {t}

TakeLease(t) ==
    /\ Free /\ exec[t] = "begun"
    /\ exec' = [exec EXCEPT ![t] = "leased"]
    /\ leaseRows' = LeaseRow(t)
    /\ UNCHANGED <<kernelVars, tries, attempt, patches, base, seen, turn, todo, commit, refused, rounds,
                   up, crashes, rows, workspaces, integrations>>

(* Seeded variant: the base stays what it was when the task was created.   *)
BaseAtCreation(t) == base[t]

(* workspace_for_task: testers and reviewers work on the integration       *)
(* commit of the moment, the others on the base_ref they were given.       *)
BaseOf(t) == IF Role[t] \in {"tester", "reviewer"} /\ commit # {} THEN commit ELSE base[t]

(* create_attempt_workspace raises for a worktree that exists already.     *)
MayCreate(t) == <<t, attempt[t]>> \notin workspaces

(* _workspace_for_attempt.                                                 *)
OpenWorkspace(t) ==
    /\ Free /\ exec[t] = "leased" /\ MayCreate(t)
    /\ exec' = [exec EXCEPT ![t] = "working"]
    /\ workspaces' = workspaces \union {<<t, attempt[t]>>}
    /\ seen' = [seen EXCEPT ![t] = BaseOf(t)]
    /\ UNCHANGED <<kernelVars, tries, attempt, patches, base, turn, todo, commit, refused, rounds,
                   up, crashes, rows, leaseRows, integrations>>

(* create_patch_artifact: the patch is known by the attempt that wrote it. *)
WithPatch(t) == [patches EXCEPT ![t] = @ \union {attempt[t]}]

(* What a failed attempt of a code task has written is kept as a patch     *)
(* artifact of the attempt (_record_recovery_context).                     *)
KeepPartialPatch(t) == UNCHANGED patches \/ (Role[t] \in Code /\ patches' = WithPatch(t))

(* release_leases_for_task.                                                *)
LeasesWithout(t) == leaseRows \ {t}

(* An attempt fails and another follows.  The row was saved before, so the *)
(* partial patch reaches it with the next commit only.                     *)
AttemptFails(t) ==
    /\ Free /\ t \in Fallible /\ exec[t] = "working" /\ tries[t] < MaxRetries[t]
    /\ tries' = [tries EXCEPT ![t] = @ + 1]
    /\ KeepPartialPatch(t)
    /\ leaseRows' = LeasesWithout(t)
    /\ exec' = [exec EXCEPT ![t] = "queued"]
    /\ UNCHANGED <<kernelVars, attempt, base, seen, turn, todo, commit, refused, rounds, up, crashes,
                   rows, workspaces, integrations>>

(* The worker reports success: the patch of a code task is saved with the  *)
(* attempt (an empty one fails it) before the task becomes SUCCESS.        *)
RecordPatch(t) ==
    /\ Free /\ exec[t] = "working"
    /\ exec' = [exec EXCEPT ![t] = "recorded"]
    /\ patches' = IF Role[t] \in Code THEN WithPatch(t) ELSE patches
    /\ turn' = t
    /\ UNCHANGED <<kernelVars, tries, attempt, base, seen, todo, commit, refused, rounds, up, crashes>>
    /\ Persist({t})
    /\ UNCHANGED <<leaseRows, workspaces, integrations>>

(* Seeded variant: the row is left to the finally block.                   *)
SucceedUnsaved(t) ==
    /\ up /\ exec[t] = "recorded"
    /\ CompleteTask(t)
    /\ exec' = [exec EXCEPT ![t] = "handling"]
    /\ UNCHANGED <<tries, attempt, patches, base, seen, turn, todo, commit, refused, rounds, up, crashes, disk>>

(* _execute_task after success: SUCCESS, complete_task, then the commit.   *)
Succeed(t) ==
    /\ up /\ exec[t] = "recorded"
    /\ CompleteTask(t)
    /\ exec' = [exec EXCEPT ![t] = "handling"]
    /\ UNCHANGED <<tries, attempt, patches, base, seen, turn, todo, commit, refused, rounds, up, crashes>>
    /\ Persist({t})
    /\ UNCHANGED <<leaseRows, workspaces, integrations>>

(* ... and after the last failed attempt.  Dependents that fail with it    *)
(* are not saved.                                                          *)
Fail(t) ==
    /\ Free /\ t \in Fallible /\ exec[t] = "working" /\ tries[t] >= MaxRetries[t]
    /\ FailTask(t, "FAILED", FailOnce(t))
    /\ exec' = [exec EXCEPT ![t] = "handling"]
    /\ turn' = t
    /\ KeepPartialPatch(t)
    /\ leaseRows' = LeasesWithout(t)
    /\ UNCHANGED <<tries, attempt, base, seen, todo, commit, refused, rounds, up, crashes>>
    /\ Persist({t})
    /\ UNCHANGED <<workspaces, integrations>>

-----------------------------------------------------------------------------
(* validate_plan.  A plan is [order, deps, asks, names]: its local ids in  *)
(* the order listed, their dependencies, the ids whose capability request  *)
(* includes coding or testing, and those that name a reserved key.         *)
ValidPlan(p) ==
    LET ids == {p.order[i] : i \in DOMAIN p.order} IN
    /\ Len(p.order) \in 2..12
    /\ \A i, j \in DOMAIN p.order : p.order[i] = p.order[j] => i = j
    /\ {"coder", "tester", "reviewer"} \subseteq {Role[i] : i \in ids}
    /\ \A i \in ids :
        /\ p.deps[i] \subseteq ids
        /\ Role[i] = "tester" => \A d \in p.deps[i] : Role[d] # "reviewer"
        /\ Role[i] = "reviewer" => i \notin p.asks
        /\ i \notin p.names
    /\ \A S \in SUBSET ids : S # {} => \E x \in S : p.deps[x] \intersect S = {}

(* materialize_plan: the tasks of the plan with their dependencies, in the *)
(* order of the plan.                                                      *)
Children(p) == [i \in DOMAIN p.order |-> <<p.order[i], p.deps[p.order[i]]>>]

(* _materialize_planner.  An invalid plan raises; the planner task stays   *)
(* SUCCESS, without tasks.                                                 *)
MaterializePlanner ==
    /\ \E p \in Plans : todo' = IF ValidPlan(p) THEN Children(p) ELSE <<>>
    /\ UNCHANGED <<base, commit, refused, rounds, integrations>>

(* The patches of the code tasks of the run that are known and SUCCESS.    *)
PatchesOf(S) == UNION {{<<t, n>> : n \in patches[t]} : t \in S}
CodeTasks == {t \in nodes : Role[t] \in Code}

(* Seeded variant: the worktree starts from the base of the task instead   *)
(* of the last integration.                                                *)
IntegratedAfresh(fresh) == fresh

Found == PatchesOf({t \in CodeTasks : status[t] = "SUCCESS"})
Integrated(fresh) == commit \union fresh

(* _integrate_root_patches: the patches not applied yet are applied to a   *)
(* worktree of the last integration commit.  A worktree that exists makes  *)
(* it raise, a patch that does not apply ends it; either leaves the commit *)
(* as it was.                                                              *)
IntegrateRootPatches ==
    LET fresh == Found \ commit
        n     == Cardinality(Found) IN
    /\ IF Found = {} THEN UNCHANGED <<commit, refused, integrations>>
       ELSE IF n \in integrations
       THEN refused' = TRUE /\ UNCHANGED <<commit, integrations>>
       ELSE /\ integrations' = integrations \union {n}
            /\ \/ commit' = Integrated(fresh) /\ UNCHANGED refused
               \/ fresh # {} /\ refused' = TRUE /\ UNCHANGED commit
    /\ todo' = <<>>
    /\ UNCHANGED <<base, rounds>>

(* DEFAULT_MAX_REPAIR_ROUNDS bounds the rounds of a root task.             *)
MayRepair == rounds < MaxRepairRounds

(* Seeded variant: the tester of the round is created before its repair.   *)
RoundReversed(pair) == <<<<pair.tester, {pair.repair}>>, <<pair.repair, {}>>>>

(* The tasks of a repair round, in the order of their creation.            *)
Round(pair) == <<<<pair.repair, {}>>, <<pair.tester, {pair.repair}>>>>

(* handle_task_failure of a tester: a repair task and a tester after it,   *)
(* with fresh ids, if an agent can repair and the rounds are not used up.  *)
CreateRepair(t) ==
    LET unused == {i \in DOMAIN Pairs : rows[Pairs[i].repair] = Absent}
        pair   == Pairs[CHOOSE i \in unused : TRUE] IN
    /\ IF Role[t] = "tester" /\ MayRepair /\ unused # {} /\ pair.repair \in Staffed
       THEN /\ rounds' = rounds + 1
            /\ todo' = Round(pair)
            /\ base' = [x \in Tasks |-> IF x \in {pair.repair, pair.tester} /\ commit # {}
                                        THEN commit ELSE base[x]]
       ELSE todo' = <<>> /\ UNCHANGED <<base, rounds>>
    /\ UNCHANGED <<commit, refused, integrations>>

(* handle_task_success and handle_task_failure, up to the tasks to create. *)
Handle(t) ==
    /\ up /\ exec[t] = "handling"
    /\ IF status[t] = "SUCCESS"
       THEN IF t = Root THEN MaterializePlanner
            ELSE IF Role[t] \in Code THEN IntegrateRootPatches
            ELSE todo' = <<>> /\ UNCHANGED <<base, commit, refused, rounds, integrations>>
       ELSE CreateRepair(t)
    /\ exec' = [exec EXCEPT ![t] = "creating"]
    /\ UNCHANGED <<kernelVars, tries, attempt, patches, seen, turn, up, crashes, rows, leaseRows, workspaces>>

(* The next task of the handler is enqueued and saved.                     *)
CreateNext(t) ==
    /\ up /\ exec[t] = "creating" /\ todo # <<>>
    /\ Enqueue(Head(todo)[1], Head(todo)[2])
    /\ todo' = Tail(todo)
    /\ UNCHANGED <<exec, tries, attempt, patches, base, seen, turn, commit, refused, rounds, up, crashes>>
    /\ Persist({Head(todo)[1]})
    /\ UNCHANGED <<leaseRows, workspaces, integrations>>

(* The finally block of _execute_task.                                     *)
EndExecution(t) ==
    /\ up /\ exec[t] = "creating" /\ todo = <<>>
    /\ exec' = [exec EXCEPT ![t] = "none"]
    /\ tries' = [tries EXCEPT ![t] = 0]
    /\ seen' = [seen EXCEPT ![t] = {}]
    /\ turn' = Nobody
    /\ leaseRows' = LeasesWithout(t)
    /\ UNCHANGED <<kernelVars, attempt, patches, base, todo, commit, refused, rounds, up, crashes>>
    /\ Persist({t})
    /\ UNCHANGED <<workspaces, integrations>>
-----------------------------------------------------------------------------
(* The process dies: everything but the disk is gone.                      *)
Empty == [t \in Tasks |-> {}]
Zero == [t \in Tasks |-> 0]
Forget ==
    /\ status' = [t \in Tasks |-> "PENDING"]
    /\ declared' = Empty /\ deps' = Empty /\ dependents' = Empty /\ nodes' = {}
    /\ ready' = {} /\ waiting' = {} /\ running' = {} /\ blockReason' = {}
    /\ completedTasks' = {} /\ failedTasks' = {}
    /\ exec' = [t \in Tasks |-> "none"]
    /\ tries' = Zero /\ attempt' = Zero /\ patches' = Empty /\ base' = Empty /\ seen' = Empty
    /\ turn' = Nobody /\ todo' = <<>>
    /\ commit' = {} /\ refused' = FALSE /\ rounds' = 0
Crash ==
    /\ up /\ crashes < MaxCrashes
    /\ up' = FALSE /\ crashes' = crashes + 1
    /\ Forget
    /\ UNCHANGED disk

(* Seeded variant: finished tasks are taken up as well.                    *)
RecoveredFinished == {t \in Tasks : rows[t].state \in {"RUNNING", "READY", "SUCCESS"}}

(* Seeded variant: a running task is taken for one that goes on.           *)
RecoveredIdle ==
    {t \in Tasks : \/ rows[t].state = "READY"
                   \/ rows[t].state = "PENDING" /\ rows[t].deps = {}}

(* recover_tasks: running (orphaned) and ready tasks, and pending ones     *)
(* without dependencies, become READY.  The others are left in the store.  *)
Recovered ==
    {t \in Tasks : \/ rows[t].state \in {"RUNNING", "READY"}
                   \/ rows[t].state = "PENDING" /\ rows[t].deps = {}}
Requeued(S) == [t \in Tasks |-> IF t \in S THEN [rows[t] EXCEPT !.state = "READY"] ELSE rows[t]]

(* Start-up marks every lease of the store as released.                    *)
LeasesReleased == {}

(* startup: the recovered tasks whose agent is registered are enqueued.    *)
(* The new scheduler has completed nothing, so a task with dependencies    *)
(* waits for them; none of these is enqueued with it (a task that was      *)
(* ready or running had its dependencies finished).                        *)
Restart ==
    LET back == Recovered \intersect Staffed
        now  == {t \in back : rows[t].deps = {}} IN
    /\ ~up /\ up' = TRUE
    /\ rows' = Requeued(Recovered)
    /\ leaseRows' = LeasesReleased
    /\ nodes' = back
    /\ declared' = [t \in Tasks |-> IF t \in back THEN rows[t].deps ELSE {}]
    /\ deps' = [t \in Tasks |-> IF t \in back THEN rows[t].deps ELSE {}]
    /\ dependents' = [d \in Tasks |-> {t \in back : d \in back /\ d \in rows[t].deps}]
    /\ ready' = now /\ waiting' = back \ now
    /\ status' = [t \in Tasks |-> IF t \in now THEN "READY" ELSE "PENDING"]
    /\ attempt' = [t \in Tasks |-> IF t \in back THEN rows[t].attempt ELSE 0]
    /\ patches' = [t \in Tasks |-> IF t \in back THEN rows[t].patches ELSE {}]
    /\ base' = [t \in Tasks |-> IF t \in back THEN rows[t].base ELSE {}]
    /\ UNCHANGED <<blockReason, running, completedTasks, failedTasks, exec, tries, seen, turn, todo,
                   commit, refused, rounds, crashes, workspaces, integrations>>

(* It dies again half way through recover_tasks.                           *)
CrashInRecovery ==
    /\ ~up /\ crashes <= MaxCrashes
    /\ crashes' = crashes + 1
    /\ \E S \in SUBSET Recovered :
        rows' = Requeued(S) /\ leaseRows' = leaseRows \ S
    /\ UNCHANGED <<kernelVars, memory, up, workspaces, integrations>>

Execute(t) ==
    \/ Begin(t) \/ TakeLease(t) \/ OpenWorkspace(t) \/ AttemptFails(t) \/ RecordPatch(t)
    \/ Succeed(t) \/ Fail(t) \/ Handle(t) \/ CreateNext(t) \/ EndExecution(t)

Next ==
    \/ Submit \/ Dispatch \/ Crash \/ Restart \/ CrashInRecovery
    \/ \E t \in Tasks : Execute(t)

(* A daemon that runs keeps running whatever it can run.                   *)
Fairness == WF_vars(Dispatch \/ \E t \in Tasks : Execute(t))

Spec == Init /\ [][Next]_vars
FairSpec == Spec /\ Fairness
-----------------------------------------------------------------------------
(* Every variable has its type.                                            *)
TypeOK ==
    /\ status \in [Tasks -> TaskStatus] /\ nodes \subseteq Tasks
    /\ exec \in [Tasks -> {"none", "queued", "begun", "leased", "working",
                           "recorded", "handling", "creating"}]
    /\ turn \in Tasks \union {Nobody}
    /\ \A t \in Tasks :
        /\ tries[t] \in 0..MaxRetries[t]
        /\ patches[t] \subseteq 1..attempt[t]
        /\ rows[t].state \in TaskStatus \union {"absent"}
        /\ rows[t].deps \subseteq Tasks
    /\ rounds \in Nat /\ crashes \in 0..MaxCrashes + 1
    /\ leaseRows \subseteq Tasks /\ integrations \subseteq Nat

(* What the store calls SUCCESS is done for good: no restart and no        *)
(* handler runs the task again.                                            *)
SuccessIsDurable ==
    [][\A t \in Tasks : rows[t].state = "SUCCESS" =>
          rows'[t].state = "SUCCESS" /\ status'[t] # "RUNNING"]_vars

(* A task is created once in the life of the store: the planner's and the  *)
(* testers' handlers run only after a commit that a restart does not undo, *)
(* so nothing but startup enqueues a task that has a row.                  *)
CreatedOnce ==
    [][\A t \in nodes' \ nodes : up => rows[t] = Absent]_vars

(* The store never shows a dependent ahead of its dependencies: a task     *)
(* that executes has each of them saved as SUCCESS, or as FAILED under a   *)
(* policy that lets it go ahead, however often the daemon has died.        *)
RunsAfterDependencies ==
    \A t \in Tasks : exec[t] # "none" =>
        \A d \in declared[t] :
            \/ rows[d].state = "SUCCESS"
            \/ rows[d].state = "FAILED" /\ FailMode(d, t) \in Permissive

(* An attempt never finds its worktree on disk: its number is saved before *)
(* the worktree is made, so a restart does not use it again.               *)
AttemptIsFresh == \A t \in Tasks : exec[t] = "leased" => <<t, attempt[t]>> \notin workspaces

(* Unless an integration was given up, what testers and reviewers see is   *)
(* all the work that has succeeded since the daemon started.               *)
CommitIsComplete ==
    turn = Nobody /\ ~refused =>
        commit = PatchesOf({t \in CodeTasks : status[t] = "SUCCESS"})

(* A tester works on the results of the code tasks it depends on, repairs  *)
(* created after the plan included, unless an integration was given up or  *)
(* a restart has lost the integration commit.                              *)
TestersSeeWork ==
    \A t \in Tasks : exec[t] = "working" /\ Role[t] = "tester" /\ ~refused /\ crashes = 0 =>
        PatchesOf({d \in declared[t] \intersect CodeTasks : status[d] = "SUCCESS"}) \subseteq seen[t]

(* What no step of this daemon can help: a task without an agent; one      *)
(* listed in its plan ahead of a dependency, for which enqueue found no    *)
(* node to attach it to; one behind a task that failed with a dependency   *)
(* of its own, whose dependents fail_task does not visit, or that failed   *)
(* without a policy; and one behind a task that is itself held up.         *)
HasEnded(t) == status[t] \in {"SUCCESS", "FAILED"}
OfARound(t) == \E i \in DOMAIN Pairs : t \in {Pairs[i].repair, Pairs[i].tester}
Held(t) ==
    \/ t \notin Staffed
    \/ \E d \in deps[t] :
        \/ t \notin dependents[d] /\ ~OfARound(t)
        \/ status[d] = "FAILED" /\ (deps[d] # {} \/ FailMode(d, t) = Unset)
        \/ ~HasEnded(d)

(* Unless the daemon dies, a run comes to rest with every task ended that  *)
(* is not held up for good, and the workflow service with nothing left to  *)
(* create: completion, failure, the hand-over of plans and repair rounds   *)
(* lose no task, and the rounds come to an end.  (That a task waits for    *)
(* another in nodes is no way out: plans have no cycles.)                  *)
PlanIsCarriedOut ==
    [](crashes = 0) => []<>(todo = <<>> /\ \A t \in nodes : HasEnded(t) \/ Held(t))

(* Whatever the crashes, a daemon that runs knows every task its store has *)
(* as ready or running, and every pending one that depends on nothing:     *)
(* recover_tasks hands them to the scheduler.  (A pending task that has    *)
(* dependencies is left behind.)                                           *)
UnfinishedIsRecovered ==
    up /\ turn = Nobody => \A t \in Staffed :
        (rows[t].state \in {"READY", "RUNNING"} \/ (rows[t].state = "PENDING" /\ rows[t].deps = {})) => t \in nodes
=============================================================================
