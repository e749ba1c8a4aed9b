--------------------------- MODULE DispatchPolicy ---------------------------
(***************************************************************************)
(* Which ready task the kernel scheduler starts first, and on which agent  *)
(* (the policies, scores and matching of aruntime/scheduler/kernel.py and  *)
(* _select_agent_name of aruntime/daemon/main.py).  The tasks here have no *)
(* dependencies and are not cancelled: KernelScheduler and SchedulingLoop  *)
(* model those with unordered queues, this module keeps the order.  An     *)
(* execution is one attempt (TaskExecution models the others), and only    *)
(* leases use up the quotas: the measured load never refuses a task here.  *)
(***************************************************************************)
EXTENDS Queues, Integers, Functions

CONSTANTS
    Tasks,
    Agents,
    TaskOf,       \* TaskOf[t]: [priority, deadline, asked, required, agent] of its request
    CapabilityOf, \* CapabilityOf[a]: [offers, reliability, cost, name] of agent a
    Policies,     \* the values of SCHEDULER_POLICY under test
    Quota,        \* Quota[k]: the monitor's quota of class k
    AgingPeriod,  \* the wait that is worth one step of priority (30 s in the code)
    Restored,     \* the agents that start-up restores from the store
    Killable,     \* the agents a client kills
    Horizon       \* bound on the clock

(* The resource classes that _resource_score_details weighs.               *)
Kinds == {"memory", "tokens", "llm"}

None == "none"
NotYet == -1
NoDeadline == -1
Infinity == 1000

(* Every request fits an idle daemon, and no deadline expires: those are   *)
(* finite and lie beyond the horizon.                                      *)
ASSUME RequestsFit ==
    \A t \in Tasks :
        /\ TaskOf[t].deadline \in {NoDeadline} \union (Horizon + 1) .. (Infinity - 1)
        /\ \A k \in Kinds : TaskOf[t].asked[k] <= Quota[k]

(* The rest of what requests and capabilities say; agents are told apart   *)
(* by their names, which are numbered in alphabetical order.               *)
ASSUME DispatchIsTyped ==
    /\ \A t \in Tasks : TaskOf[t].priority \in Int /\ \A k \in Kinds : TaskOf[t].asked[k] \in Nat
    /\ \A t \in Tasks : IsFiniteSet(TaskOf[t].required) /\ TaskOf[t].agent \in Agents \union {None}
    /\ \A a \in Agents : /\ CapabilityOf[a].reliability \in Int /\ CapabilityOf[a].cost \in Int
                         /\ CapabilityOf[a].name \in Int
    /\ \A a, b \in Agents : CapabilityOf[a].name = CapabilityOf[b].name => a = b
    /\ IsFiniteSet(Agents) /\ None \notin Agents /\ Restored \subseteq Agents
    /\ AgingPeriod \in Nat /\ Horizon \in Nat

VARIABLES
    policy,     \* the scheduler's policy, fixed at start-up
    clock,      \* the time that created_at and _aged_priority read
    registered, \* the names in agents
    killed,     \* the registered agents whose status is KILLED
    created,    \* created[t]: task.created_at, NotYet before the submission
    agentOf,    \* agentOf[t]: task.agent_name
    ready,      \* ready_queue
    waiting,    \* waiting_queue: here every entry has a resource_block_reason
    running,    \* running_table, in the order of insertion: its executions start in that order
    leased,     \* the executing tasks, which hold their lease
    usage,      \* usage[k]: what the leases add up to
    served,     \* served[a]: _agent_dispatch_count
    event       \* scheduler_event is set

vars == <<policy, clock, registered, killed, created, agentOf, ready, waiting,
          running, leased, usage, served, event>>

Init ==
    /\ policy \in Policies
    /\ clock = 0 /\ registered = Restored /\ killed = {}
    /\ created = [t \in Tasks |-> NotYet]
    /\ agentOf = [t \in Tasks |-> None]
    /\ ready = <<>> /\ waiting = <<>> /\ running = <<>>
    /\ leased = {} /\ usage = [k \in Kinds |-> 0]
    /\ served = [a \in Agents |-> 0]
    /\ event = TRUE

Submitted == {t \in Tasks : created[t] # NotYet}
-----------------------------------------------------------------------------
(* Tuples compare as in Python: by their first difference.                 *)
Less(k, l) == \E i \in DOMAIN k : k[i] < l[i] /\ \A j \in 1 .. (i - 1) : k[j] = l[j]

(* _match_capability: every key of required_capability is met; languages   *)
(* is met by any of its entries.                                           *)
MatchCapability(t, a) == \A r \in TaskOf[t].required : r.anyOf \intersect CapabilityOf[a].offers # {}

(* _match_agent_key                                                        *)
MatchAgentKey(a) == <<-CapabilityOf[a].reliability, CapabilityOf[a].cost, CapabilityOf[a].name>>

(* The choice both match_agent and _select_agent_name make among the       *)
(* registered agents, whatever their status: None if nobody matches.       *)
BestMatch(t) ==
    LET matched == {a \in registered : MatchCapability(t, a)} IN
    IF matched = {} THEN None
    ELSE CHOOSE a \in matched : \A b \in matched \ {a} : Less(MatchAgentKey(a), MatchAgentKey(b))

(* _select_agent_name: a name in the request wins over its requirements.   *)
SelectAgentName(t) ==
    IF TaskOf[t].agent # None THEN TaskOf[t].agent
    ELSE IF TaskOf[t].required = {} THEN None ELSE BestMatch(t)

(* Seeded variant: a task keeps the agent it was submitted with.           *)
SelectOnce(t) == agentOf[t]

(* _select_agent_if_needed at dispatch: a task with requirements is        *)
(* matched again, even if its request named an agent.                      *)
SelectAgentIfNeeded(t) == IF TaskOf[t].required = {} THEN agentOf[t] ELSE BestMatch(t)

-----------------------------------------------------------------------------
(* Seeded variant: no aging.                                               *)
PlainPriority(t) == TaskOf[t].priority * AgingPeriod

(* _aged_priority, in units of 1 / AgingPeriod.                            *)
AgedPriority(t) == TaskOf[t].priority * AgingPeriod + (clock - created[t])

(* _ratio, rounded to Scale steps, _requested_number (where a token budget *)
(* stands in for a missing request) and _max_requested.                    *)
Scale == 100
Ratio(value, base) == IF base <= 0 THEN 0 ELSE (value * Scale) \div base
RequestedNumber(t, k) == TaskOf[t].asked[k]
MaxRequested(S, k) ==
    CHOOSE v \in {RequestedNumber(t, k) : t \in S} : \A t \in S : RequestedNumber(t, k) <= v

(* _resource_weight.  It normalises by the largest request in ready_queue, *)
(* but list.sort empties the list for as long as it calls its key, so that *)
(* the task is its own and only candidate.                                 *)
Candidates(t) == {t}
KindRatio(t, k) == Ratio(RequestedNumber(t, k), MaxRequested(Candidates(t), k))
ResourceWeight(t) == KindRatio(t, "memory") + KindRatio(t, "tokens") + KindRatio(t, "llm")

(* _capability_score: languages and tool do not count.                     *)
CapabilityScore(t) == Cardinality({r \in TaskOf[t].required : r.key \notin {"languages", "tool"}})

(* _cost_score and _reliability_score: of the agent the task has now.      *)
CostScore(t) == CapabilityOf[agentOf[t]].cost
ReliabilityScore(t) == CapabilityOf[agentOf[t]].reliability

(* _deadline_value                                                         *)
DeadlineValue(t) == IF TaskOf[t].deadline = NoDeadline THEN Infinity ELSE TaskOf[t].deadline

(* What each policy looks at first.                                        *)
Rank(t) ==
    CASE policy = "deadline"          -> DeadlineValue(t)
      [] policy = "fair_share"        -> served[agentOf[t]]
      [] policy = "resource_aware"    -> ResourceWeight(t)
      [] policy = "capability_aware"  -> -CapabilityScore(t)
      [] policy = "cost_aware"        -> CostScore(t)
      [] policy = "reliability_aware" -> -ReliabilityScore(t)
      [] OTHER                        -> 0

(* _sort_key                                                               *)
SortKey(t) ==
    IF policy = "fifo" THEN <<created[t], 0, 0>> ELSE <<Rank(t), -AgedPriority(t), created[t]>>

(* Seeded variant: the queue is left as it is.                             *)
Unsorted(queue) == queue

(* _sort_ready.  An entry comes after all that have a smaller key; the     *)
(* sort is stable, so the position decides between equals.                 *)
Sorted(queue, key) ==
    LET Smaller(i) == {j \in DOMAIN queue : Less(key[j], key[i])} IN
    [n \in DOMAIN queue |-> queue[CHOOSE i \in DOMAIN queue : Cardinality(Smaller(i)) = n - 1]]
SortReady(queue) == Sorted(queue, [i \in DOMAIN queue |-> Append(SortKey(queue[i]), i)])

-----------------------------------------------------------------------------
(* can_allocate and the registry check of _kernel_resource_checker: only   *)
(* leases count, not the tasks admitted before this one.                   *)
ResourceAvailable(t) == \A k \in Kinds : usage[k] + TaskOf[t].asked[k] <= Quota[k]

(* create_agent: the scheduling loop is not woken.                         *)
CreateAgent(a) ==
    /\ a \notin registered
    /\ registered' = registered \union {a}
    /\ UNCHANGED <<policy, clock, killed, created, agentOf, ready, waiting,
                   running, leased, usage, served, event>>

(* kill_agent: the agent stays in agents.                                  *)
KillAgent(a) ==
    /\ a \in (registered \intersect Killable) \ killed
    /\ killed' = killed \union {a}
    /\ UNCHANGED <<policy, clock, registered, created, agentOf, ready, waiting,
                   running, leased, usage, served, event>>

(* submit_task, with enqueue and _append_ready: refused if no agent is     *)
(* found, or if the one found is unknown or killed.                        *)
SubmitTask(t) ==
    LET a == SelectAgentName(t) IN
    /\ created[t] = NotYet
    /\ a \in registered \ killed
    /\ created' = [created EXCEPT ![t] = clock]
    /\ agentOf' = [agentOf EXCEPT ![t] = a]
    /\ event' = TRUE
    /\ UNCHANGED <<policy, clock, registered, killed, waiting, running, leased, usage, served>>
    /\ \E queue \in {Append(ready, t)} : ready' = SortReady(queue)'

(* Time passes; the queues are not sorted again until the next call.  It   *)
(* matters between two submissions, while the first task is in a queue.    *)
Tick ==
    /\ clock < Horizon
    /\ Submitted # Tasks /\ ready \o waiting # <<>>
    /\ clock' = clock + 1
    /\ UNCHANGED <<policy, registered, killed, created, agentOf, ready, waiting,
                   running, leased, usage, served, event>>

(* wake_waiting, which dispatch_ready calls only if ready_queue is empty:  *)
(* a blocked task is retried if its resources are there.                   *)
Woken == IF ready = <<>> THEN Outside(waiting, {t \in Tasks : ~ResourceAvailable(t)}) ELSE <<>>

(* dispatch_ready, in one turn of scheduling_loop.  A task that no agent   *)
(* can serve, or whose resources are taken, is blocked and moved to the    *)
(* waiting queue; match_agent has then renamed its agent all the same.     *)
ScheduleTick ==
    /\ event
    /\ event' = FALSE
    /\ \E woken \in {Woken} : \E queue \in {SortReady(ready \o woken)} :
        LET Starts(t) == SelectAgentIfNeeded(t) # None /\ ResourceAvailable(t)
            Placed(t) == IF t \in Range(queue) /\ SelectAgentIfNeeded(t) # None
                         THEN SelectAgentIfNeeded(t) ELSE agentOf[t] IN
        /\ agentOf' = [t \in Tasks |-> Placed(t)]
        /\ ready' = <<>>
        /\ waiting' = Outside(waiting, Range(woken)) \o Outside(queue, {t \in Tasks : Starts(t)})
        /\ running' = running \o Outside(queue, {t \in Tasks : ~Starts(t)})
        /\ served' = [a \in Agents |-> served[a] +
                Cardinality({i \in DOMAIN queue : Starts(queue[i]) /\ Placed(queue[i]) = a})]
    /\ UNCHANGED <<policy, clock, registered, killed, created, leased, usage>>

(* The lease of t, if it has one, is released.                             *)
Release(t) ==
    /\ leased' = leased \ {t}
    /\ usage' = [k \in Kinds |-> usage[k] - IF t \in leased THEN TaskOf[t].asked[k] ELSE 0]

(* Seeded variant: the loop is not woken.                                  *)
EndSilently(t) ==
    /\ running' = Outside(running, {t})
    /\ Release(t)
    /\ UNCHANGED <<event, policy, clock, registered, killed, created, agentOf, ready, waiting, served>>
(* complete_task or fail_task, and the finally block of _execute_task: the *)
(* lease is released and the loop woken.                                   *)
EndExecution(t) ==
    /\ running' = Outside(running, {t})
    /\ Release(t)
    /\ event' = TRUE
    /\ UNCHANGED <<policy, clock, registered, killed, created, agentOf, ready, waiting, served>>

(* _execute_task begins: an agent killed meanwhile refuses the task, and   *)
(* so does the monitor if its resources went to another one.               *)
StartExecution(t) ==
    /\ t \in Range(running) \ leased
    /\ IF agentOf[t] \in killed \/ ~ResourceAvailable(t)
       THEN EndExecution(t)
       ELSE /\ leased' = leased \union {t}
            /\ usage' = [k \in Kinds |-> usage[k] + TaskOf[t].asked[k]]
            /\ UNCHANGED <<policy, clock, registered, killed, created, agentOf, ready, waiting,
                           running, served, event>>

Finish(t) == t \in leased /\ EndExecution(t)

Next ==
    \/ Tick \/ ScheduleTick
    \/ \E a \in Agents : CreateAgent(a) \/ KillAgent(a)
    \/ \E t \in Tasks : SubmitTask(t) \/ StartExecution(t) \/ Finish(t)

(* The loop runs when it is woken (only ScheduleTick clears the event), and *)
(* every execution ends: it is bounded by its timeouts.                     *)
LoopTurns == event /\ event' = FALSE
LeavesRunning(t) == t \in Range(running) /\ running' = Outside(running, {t})
Fairness ==
    /\ WF_event(LoopTurns)
    /\ \A t \in Tasks : WF_running(LeavesRunning(t))

Spec == Init /\ [][Next]_vars
FairSpec == Spec /\ Fairness
-----------------------------------------------------------------------------
Unfinished == Range(ready) \union Range(waiting) \union Range(running)

(* Every variable has its type, and a task is in one place at a time.      *)
TypeOK ==
    /\ policy \in Policies /\ clock \in 0 .. Horizon
    /\ killed \subseteq registered /\ registered \subseteq Agents
    /\ created \in [Tasks -> {NotYet} \union 0 .. clock]
    /\ \A t \in Submitted : agentOf[t] \in registered
    /\ Unfinished \subseteq Submitted /\ leased \subseteq Range(running)
    /\ Len(ready) + Len(waiting) + Len(running) = Cardinality(Unfinished)
    /\ usage \in [Kinds -> Nat] /\ \A k \in Kinds : usage[k] <= Quota[k]
    /\ served \in [Agents -> 0 .. Cardinality(Tasks)]
    /\ event \in BOOLEAN

Begins(t) == t \in Range(running') /\ t \notin Range(running)
Before(t, u, queue) == \E i, j \in DOMAIN queue : i < j /\ queue[i] = t /\ queue[j] = u

(* Of two ready tasks the one the policy prefers at the moment of the      *)
(* dispatch starts first, or is blocked: what was known when they were     *)
(* enqueued (who has been served how often) does not count any more.       *)
(* Between equals of the same priority, and under fifo between any two,    *)
(* the order is that of their creation.                                    *)
Prefers(t, u) ==
    \/ Rank(t) < Rank(u)
    \/ /\ Rank(t) = Rank(u) /\ created[t] < created[u]
       /\ policy = "fifo" \/ TaskOf[t].priority = TaskOf[u].priority
StartsInPolicyOrder ==
    [][\A t, u \in Range(ready) :
        Begins(u) /\ Prefers(t, u) => Before(t, u, running') \/ t \in Range(waiting')]_vars

(* Aging bounds what priority can do: a later task is ahead of an earlier  *)
(* one only if it came within one aging period per step of priority.       *)
OvertakingIsBounded ==
    policy = "priority" => \A i, j \in DOMAIN ready :
        i < j => created[ready[i]] - created[ready[j]]
                    <= AgingPeriod * (TaskOf[ready[i]].priority - TaskOf[ready[j]].priority)

(* A task with requirements starts on an agent that meets them, and none   *)
(* of those registered by then that do is more reliable; a task without    *)
(* starts on the agent its request names.                                  *)
StartsOnBestAgent ==
    [][\A t \in Tasks : Begins(t) =>
        IF TaskOf[t].required = {} THEN agentOf'[t] = TaskOf[t].agent
        ELSE /\ MatchCapability(t, agentOf'[t])
             /\ \A b \in registered : MatchCapability(t, b) =>
                    CapabilityOf[b].reliability <= CapabilityOf[agentOf'[t]].reliability]_vars

Servable(t) == TaskOf[t].required = {} \/ \E a \in registered : MatchCapability(t, a)

(* As long as every submitted task has an agent that can serve it, those   *)
(* blocked for their resources are all dispatched in the end: the          *)
(* executions that hold them wake the loop, and so do those that are       *)
(* started instead.                                                        *)
BlockedIsWoken ==
    [](\A t \in Submitted : Servable(t)) => (waiting # <<>> ~> waiting = <<>>)
=============================================================================
