-------------------------- MODULE MCIncidentRepair --------------------------
(* Plans of at most two coders: a chain against the order of their ids,    *)
(* and one of each kind that validate_coder_plan refuses.                  *)
EXTENDS IncidentRepair

PlanOf(needs) == [coders |-> DOMAIN needs, deps |-> needs]
MCPlans == {PlanOf(<<{2}, {}>>), PlanOf(<<{2}, {1}>>), PlanOf(<<{3}>>), PlanOf(<<>>)}
=============================================================================
