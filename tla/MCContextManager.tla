-------------------------- MODULE MCContextManager --------------------------
(* Three contexts of which two fit, two agents; a context is compressed    *)
(* from its second entry on.                                               *)
EXTENDS ContextManager, TLC

CONSTANTS c1, c2, c3, planner, coder

MCContexts == {c1, c2, c3}
MCAgents == {planner, coder}
Input(shared, private, readonly) == [shared |-> shared, private |-> private, readonly |-> readonly]
Entries(K, v) == [k \in K |-> Plain(v)]
Goal == Input(Entries({"goal"}, "first"), FALSE, Nothing)
MCInputs ==
    [c \in MCContexts |->
        IF c = c1
        THEN {Goal, Input(Entries({"goal", "task"}, "second"), FALSE, Nothing),
              Input(Entries({"important"}, "own"), FALSE, Entries({"policy"}, "two")),
              Input(Nothing, TRUE, Entries({"policy"}, "one"))}
        ELSE {Goal}]
Symmetry == Permutations({c2, c3}) \union Permutations(MCAgents)
=============================================================================
