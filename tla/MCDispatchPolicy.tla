-------------------------- MODULE MCDispatchPolicy --------------------------
(* Three tasks and two agents under all eight policies.  low and late are  *)
(* alike but for what they request; high names agent a, which cannot test, *)
(* and is matched to b, the more reliable one, once b is registered.       *)
EXTENDS DispatchPolicy

Requirement(key, values) == [key |-> key, anyOf |-> values]
Ask(memory, tokens) == [memory |-> memory, tokens |-> tokens, llm |-> 1]

MCTasks == {"low", "high", "late"}
MCAgents == {"a", "b"}
MCTaskOf ==
    [low  |-> [priority |-> 0, deadline |-> NoDeadline, asked |-> Ask(2, 1), agent |-> "a", required |-> {}],
     high |-> [priority |-> 1, deadline |-> 7, asked |-> Ask(2, 0), agent |-> "a",
               required |-> {Requirement("can_test", {"test"}), Requirement("languages", {"go", "c"})}],
     late |-> [priority |-> 0, deadline |-> 7, asked |-> Ask(1, 0), agent |-> None,
               required |-> {Requirement("can_code", {"code"})}]]
MCCapabilityOf ==
    [a |-> [offers |-> {"code", "go"}, reliability |-> 5, cost |-> 1, name |-> 1],
     b |-> [offers |-> {"code", "test", "go"}, reliability |-> 8, cost |-> 3, name |-> 2]]
MCPolicies == {"fifo", "priority", "deadline", "fair_share", "resource_aware",
               "capability_aware", "cost_aware", "reliability_aware"}
MCQuota == [Ask(3, 1) EXCEPT !.llm = 3]
=============================================================================
