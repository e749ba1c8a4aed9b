-------------------------- MODULE MCSchedulingLoop --------------------------
(* Small instances of SchedulingLoop: three tasks, one failure mode of     *)
(* each kind on the edges between them.                                    *)
EXTENDS SchedulingLoop

CONSTANTS a, b, c

ThreeTasks == {a, b, c}
NoTask == {}

(* a's own policy fails its dependents open; b's own policy is unset.      *)
Modes == [t \in ThreeTasks |-> IF t = a THEN "fail_open" ELSE IF t = c THEN "degrade" ELSE Unset]

(* Edges a -> b fail closed and b -> c fail open; the others have none.    *)
Edges == [d \in ThreeTasks |-> [t \in ThreeTasks |->
            IF d = a /\ t = b THEN "fail_closed"
            ELSE IF d = b /\ t = c THEN "fail_open" ELSE Unset]]

AnyAdmission == SUBSET ThreeTasks
AllAdmitted == {ThreeTasks}
=============================================================================
