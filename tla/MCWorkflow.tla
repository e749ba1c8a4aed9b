----------------------------- MODULE MCWorkflow -----------------------------
(* A run of a planner over two coders, a tester and a reviewer, with one   *)
(* repair round in each life of a daemon that may die once.                *)
EXTENDS Workflow

MCTasks == {"plan", "c1", "c2", "t0", "v0", "r1", "t1", "r2", "t2"}
MCRole == [t \in MCTasks |->
    CASE t = "plan" -> "planner" [] t \in {"c1", "c2"} -> "coder"
      [] t \in {"r1", "r2"} -> "repair" [] t = "v0" -> "reviewer" [] OTHER -> "tester"]
MCPlanMode == [t \in MCTasks |->
    IF t \in {"plan", "t1", "t2"} THEN Unset ELSE "fail_open"]
MCTaskMode == [t \in MCTasks |-> RolePolicy(MCRole[t], MCPlanMode[t])]
MCEdgeMode == [d \in MCTasks |-> [t \in MCTasks |-> Unset]]
MCPairs == <<[repair |-> "r1", tester |-> "t1"], [repair |-> "r2", tester |-> "t2"]>>
MCRetries == [t \in MCTasks |-> IF t = "c1" THEN 1 ELSE 0]

Need(c2, t0, v0) == [t \in MCTasks |->
    CASE t = "c2" -> c2 [] t = "t0" -> t0 [] t = "v0" -> v0 [] OTHER -> {}]
PlanOf(order, needs) == [order |-> order, deps |-> needs, asks |-> {}, names |-> {}]
MCPlans ==
    {PlanOf(<<"c1", "c2", "t0", "v0">>, Need({}, {"c1", "c2"}, {"t0"})),
     PlanOf(<<"c1", "t0", "v0">>, Need({}, {}, {"t0"})),
     PlanOf(<<"t0", "c1", "v0">>, Need({}, {"c1"}, {"t0"})),
     PlanOf(<<"c1", "c2", "t0", "v0">>, Need({"t0"}, {"c2"}, {}))}
=============================================================================
