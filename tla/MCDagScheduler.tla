--------------------------- MODULE MCDagScheduler ---------------------------
(* A small instance of DagScheduler: three tasks in a chain of failure     *)
(* modes, so that one failure cascades over two levels and opens an edge.  *)
EXTENDS DagSort

CONSTANTS a, b, c

ThreeTasks == {a, b, c}

(* a's own policy fails its dependents closed; b's and c's are unset.      *)
Modes == [t \in ThreeTasks |-> IF t = a THEN "fail_closed" ELSE Unset]

(* The edge b -> c fails closed, a -> c and c -> b fail open.              *)
Edges == [d \in ThreeTasks |-> [t \in ThreeTasks |->
            IF d = b /\ t = c THEN "fail_closed"
            ELSE IF (d = a /\ t = c) \/ (d = c /\ t = b) THEN "fail_open" ELSE Unset]]

(* b is enqueued by the daemon itself, or edited between two attempts.     *)
Edited == {b}
OfAPlan == {b}
MayTimeOut == {b}
MayExpire == {c}
OneOrAll == {{b}, ThreeTasks}
=============================================================================
