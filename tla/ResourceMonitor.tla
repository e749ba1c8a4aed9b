--------------------------- MODULE ResourceMonitor ---------------------------
(***************************************************************************)
(* ResourceMonitor (aruntime/resource/monitor.py): quotas, usage, the LLM  *)
(* concurrency counters and the lease of each task.  None of its methods   *)
(* awaits while it holds the lock, so each is atomic.  Leases are kept per *)
(* task, as in _task_leases; a lease that was replaced while active would  *)
(* show as usage no lease accounts for.                                    *)
(***************************************************************************)
EXTENDS Integers, FiniteSetsExt

CONSTANTS
    Tasks, Agents,
    Classes,    \* resource classes that requests name, "llm" among them
    Quota,      \* Quota[c]: quota limit, 0 for none; Quota["llm"] is llm_max_concurrent
    Request     \* Request[t][c]: amount that task t requests

NoLease == "no lease"

ASSUME ResourcesAreTyped ==
    /\ "llm" \in Classes /\ Quota \in [Classes -> Nat] /\ Quota["llm"] > 0
    /\ Request \in [Tasks -> [Classes -> Nat]] /\ NoLease \notin Agents

VARIABLES
    lease,     \* lease[t]: agent named in the active lease of t, or NoLease
    usage,     \* usage[c]
    agentLlm,  \* _agent_llm_counts
    llmTotal   \* _llm_total_concurrent

resourceVars == <<lease, usage, agentLlm, llmTotal>>

ResourceInit ==
    /\ lease = [t \in Tasks |-> NoLease]
    /\ usage = [c \in Classes |-> 0]
    /\ agentLlm = [a \in Agents |-> 0]
    /\ llmTotal = 0

(* can_allocate, with the machine's load below its thresholds or not.      *)
HasAmounts(t) == \E c \in Classes : Request[t][c] > 0
LoadMatters(t) == \E c \in Classes \intersect {"cpu", "memory"} : Request[t][c] > 0
CanAllocate(t, loaded) ==
    /\ loaded => ~LoadMatters(t)
    /\ \A c \in Classes : Request[t][c] > 0 /\ Quota[c] > 0 => usage[c] + Request[t][c] <= Quota[c]

(* The conditions of acquire: the quota, and an agent holds at most the    *)
(* concurrency one of its tasks asks for.  Once these hold, the loop over  *)
(* acquire_llm cannot fail.                                                *)
MayLease(t, a, loaded) ==
    HasAmounts(t) =>
        /\ CanAllocate(t, loaded)
        /\ agentLlm[a] + Request[t]["llm"] <= Max({Request[t]["llm"], 1})
        /\ llmTotal + Request[t]["llm"] <= Quota["llm"]

Grant(t, a) ==
    /\ lease' = [lease EXCEPT ![t] = a]
    /\ usage' = [c \in Classes |-> usage[c] + Request[t][c]]
    /\ agentLlm' = [agentLlm EXCEPT ![a] = @ + Request[t]["llm"]]
    /\ llmTotal' = llmTotal + Request[t]["llm"]

(* Seeded variant: the LLM counters are not given back.                    *)
ReleaseUsageOnly(t) ==
    /\ lease' = [lease EXCEPT ![t] = NoLease]
    /\ usage' = IF lease[t] = NoLease THEN usage
                ELSE [c \in Classes |-> Max({0, usage[c] - Request[t][c]})]
    /\ UNCHANGED <<agentLlm, llmTotal>>

(* release and reclaim: no effect without an active lease.                 *)
Release(t) ==
    IF lease[t] = NoLease THEN UNCHANGED resourceVars
    ELSE /\ lease' = [lease EXCEPT ![t] = NoLease]
         /\ usage' = [c \in Classes |-> Max({0, usage[c] - Request[t][c]})]
         /\ agentLlm' = [agentLlm EXCEPT ![lease[t]] = Max({0, @ - Request[t]["llm"]})]
         /\ llmTotal' = Max({0, llmTotal - Request[t]["llm"]})
=============================================================================
