--------------------------- MODULE MCTaskExecution ---------------------------
(* Two tasks on two agents: t1 belongs to agent a1 and may fall back on    *)
(* a2, t2 belongs to a2 or, in SamePlace, to a1 as well.                   *)
EXTENDS TaskExecution, TLC

CONSTANTS t1, t2, a1, a2

TwoTasks == {t1, t2}
TwoAgents == {a1, a2}
Nothing == {}
OnlyA1 == {a1}
Placed == t1 :> a1 @@ t2 :> a2
SamePlace == t1 :> a1 @@ t2 :> a1
Backup == t1 :> a2 @@ t2 :> a1
FallbackModes == t1 :> "fallback" @@ t2 :> "retry"
RetryModes == t1 :> "retry" @@ t2 :> "retry"
NoRetries == t1 :> 0 @@ t2 :> 0
OneRetry == t1 :> 1 @@ t2 :> 0

(* Each task asks for one LLM slot and two units of memory: both pass the  *)
(* dispatch check, but only one can hold its memory.                       *)
TwoClasses == {"llm", "memory"}
Quotas == "llm" :> 2 @@ "memory" :> 3
Requests == [task \in TwoTasks |-> "llm" :> 1 @@ "memory" :> 2]
=============================================================================
