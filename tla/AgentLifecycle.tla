--------------------------- MODULE AgentLifecycle ---------------------------
(***************************************************************************)
(* The agent state machine (aruntime/core/lifecycle.py, core/acb.py) and   *)
(* the daemon helpers that drive it (aruntime/daemon/main.py).  An agent's *)
(* state is kept twice, in its AgentSpec and in its AgentControlBlock:     *)
(* decisions read the first, transitions are checked against the second.   *)
(* The helpers map such a pair to the pair they leave behind; where one    *)
(* may raise, the ...Raises predicate says when.                           *)
(***************************************************************************)

AgentStatus == {"CREATED", "READY", "RUNNING", "WAITING", "FAILED", "LOST", "RECOVERING",
                "COMPLETED", "SUSPENDED", "ISOLATED", "KILLED"}

(* ALLOWED_TRANSITIONS.                                                    *)
AgentAllowed == [s \in AgentStatus |->
    CASE s = "CREATED" -> {"READY", "FAILED"}
      [] s = "READY"   -> {"RUNNING", "SUSPENDED", "LOST", "KILLED"}
      [] s = "RUNNING" -> {"WAITING", "COMPLETED", "FAILED", "ISOLATED", "LOST", "KILLED"}
      [] s = "WAITING" -> {"READY", "FAILED", "LOST", "KILLED"}
      [] s \in {"FAILED", "LOST"} -> {"RECOVERING", "ISOLATED", "KILLED"}
      [] s \in {"RECOVERING", "SUSPENDED", "ISOLATED"} -> {"READY", "KILLED"}
      [] s \in {"COMPLETED", "KILLED"} -> {}]

AgentViews == [spec : AgentStatus, acb : AgentStatus]
Both(s) == [spec |-> s, acb |-> s]

(* _transition_agent: the control block moves and the spec copies it.      *)
CanMove(p, to) == to \in AgentAllowed[p.acb]
MoveAgent(p, to) == IF CanMove(p, to) THEN Both(to) ELSE p

(* _recover_agent: FAILED -> RECOVERING -> READY.                          *)
RecoverRaises(p) == p.spec = "FAILED" /\ ~CanMove(p, "RECOVERING")
RecoverAgent(p) == IF p.spec = "FAILED" /\ CanMove(p, "RECOVERING") THEN Both("READY") ELSE p

(* The handling of a finished or failed agent when a task is submitted to  *)
(* it or dispatched on it: _recover_agent or _mark_agent_ready_for_reuse.  *)
MadeReady(p) == IF p.spec = "COMPLETED" THEN Both("READY") ELSE RecoverAgent(p)

(* _prepare_agent_for_task: made ready, then moved to RUNNING.             *)
PrepareRaises(p) == RecoverRaises(p) \/ ~CanMove(MadeReady(p), "RUNNING")
PrepareAgent(p) == IF RecoverRaises(p) THEN p ELSE MoveAgent(MadeReady(p), "RUNNING")

(* Seeded variant: a killed agent is marked like any other.                *)
FailAgentAny(p) == IF CanMove(p, "FAILED") THEN Both("FAILED") ELSE [p EXCEPT !.spec = "FAILED"]

(* Marking the agent of a failed attempt or task: when the control block   *)
(* refuses the transition, only the spec is set.                           *)
FailAgent(p) ==
    IF p.spec \in {"FAILED", "KILLED"} THEN p
    ELSE IF CanMove(p, "FAILED") THEN Both("FAILED") ELSE [p EXCEPT !.spec = "FAILED"]

(* The agent's part of a successful _execute_task; if it raises, the task  *)
(* keeps its SUCCESS and the agent its state.                              *)
CompleteAgent(p) == IF p.spec = "RUNNING" THEN MoveAgent(p, "COMPLETED") ELSE RecoverAgent(p)

(* kill_agent: forced on both copies when the transition is refused.       *)
KillViews(p) == Both("KILLED")

(* restart_agent: READY is refused from two of the three states it is      *)
(* tried from, which is reported to the client after the restart.          *)
RestartViews(p) == IF p.spec \in {"COMPLETED", "FAILED", "WAITING"} THEN MoveAgent(p, "READY") ELSE p
=============================================================================
