----------------------------- MODULE TaskStates -----------------------------
(***************************************************************************)
(* The task state machine of TaskControlBlock (aruntime/core/models.py):   *)
(* the states, the table of allowed transitions, and the failure modes a   *)
(* task or one of its dependency edges can carry.                          *)
(***************************************************************************)

TaskStatus == {"PENDING", "READY", "RUNNING", "BLOCKED", "ORPHANED", "TIMEOUT",
               "RETRYING", "FALLBACK", "SUCCESS", "FAILED", "CANCELLED"}

(* The states TaskControlBlock.transition_to accepts from state s.         *)
Allowed == [s \in TaskStatus |->
    CASE s = "PENDING"  -> {"READY", "BLOCKED", "FAILED", "CANCELLED"}
      [] s = "READY"    -> {"PENDING", "RUNNING", "BLOCKED", "FAILED", "CANCELLED"}
      [] s = "RUNNING"  -> {"PENDING", "ORPHANED", "TIMEOUT", "RETRYING", "FALLBACK",
                            "SUCCESS", "FAILED", "CANCELLED"}
      [] s = "BLOCKED"  -> {"PENDING", "READY", "FAILED", "CANCELLED"}
      [] s = "ORPHANED" -> {"READY", "RETRYING", "FAILED", "CANCELLED"}
      [] s = "TIMEOUT"  -> {"RETRYING", "FALLBACK", "FAILED", "CANCELLED"}
      [] s \in {"RETRYING", "FALLBACK"} -> {"READY", "RUNNING", "FAILED", "CANCELLED"}
      [] s = "FAILED"   -> {"READY"}
      [] s \in {"SUCCESS", "CANCELLED"} -> {}]

(* transition_to raises ValueError exactly when this is false.             *)
CanTransition(s, to) == s = to \/ to \in Allowed[s]

(* FailureMode; "unset" stands for an edge without a policy of its own, or *)
(* a task whose failure_policy field was never set explicitly.             *)
FailureMode == {"retry", "fallback", "degrade", "fail_open", "fail_closed"}
Unset == "unset"
=============================================================================
