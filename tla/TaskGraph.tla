----------------------------- MODULE TaskGraph ------------------------------
(***************************************************************************)
(* What every scheduler of the daemon promises its clients, whatever       *)
(* queues, tables and exceptions it keeps to itself: a task starts only    *)
(* when each task it needs is over in a way its policy accepts, what has   *)
(* ended stays ended, and a failure spreads only along fail_closed edges.  *)
(***************************************************************************)
EXTENDS Naturals

CONSTANTS
    Tasks,
    Mode     \* Mode[d][t]: the failure mode that applies to t when d fails

VARIABLES
    phase,   \* phase[t]: "absent", "queued", "running", "timedout", "done", "failed" or "cancelled"
    needs    \* needs[t]: the tasks t was told to wait for

graph == <<phase, needs>>

Accepting == {"fail_open", "degrade", "fallback"}
Known == {t \in Tasks : phase[t] # "absent"}

(* d no longer stands in the way of t.                                     *)
Over(d, t) ==
    \/ phase[d] = "done"
    \/ phase[d] \in {"failed", "cancelled"} /\ Mode[d][t] \in Accepting

Init ==
    /\ phase = [t \in Tasks |-> "absent"]
    /\ needs = [t \in Tasks |-> {}]

Submit(t, D) ==
    /\ phase[t] = "absent" /\ D \subseteq Known
    /\ needs' = [needs EXCEPT ![t] = D]
    /\ phase' = [phase EXCEPT ![t] = "queued"]

(* More may be needed only while no attempt of t is under way.             *)
AddNeeds(t, D) ==
    /\ phase[t] \in {"queued", "timedout"} /\ D \subseteq Known \ {t}
    /\ needs' = [needs EXCEPT ![t] = @ \union D]
    /\ UNCHANGED phase

Start(S) ==
    /\ \A t \in S : phase[t] = "queued" /\ \A d \in needs[t] : Over(d, t)
    /\ phase' = [t \in Tasks |-> IF t \in S THEN "running" ELSE phase[t]]
    /\ UNCHANGED needs

Moves(t, from, to) ==
    /\ phase[t] = from
    /\ phase' = [phase EXCEPT ![t] = to]
    /\ UNCHANGED needs

(* t ends without success, and with it the tasks of S: each needs one that *)
(* ends here and has asked to fail with it.                                *)
Ending(to) == IF to = "failed" THEN {"running", "timedout", "failed"}
              ELSE {"queued", "running", "timedout", "cancelled"}
Fall(t, to, S) ==
    /\ phase[t] \in Ending(to)
    /\ \A x \in S : /\ phase[x] \in {"queued", "running", "timedout", "failed"}
                    /\ \E d \in S \union {t} : d \in needs[x] /\ Mode[d][x] = "fail_closed"
    /\ phase' = [x \in Tasks |-> IF x = t THEN to ELSE IF x \in S THEN "failed" ELSE phase[x]]
    /\ UNCHANGED needs

(* The steps a client can tell from nothing happening.                     *)
Next ==
    /\ graph' # graph
    /\ \/ \E t \in Tasks : \/ Moves(t, "running", "timedout") \/ Moves(t, "timedout", "running")
                           \/ Moves(t, "running", "done")
       \/ \E t \in Tasks, D \in SUBSET Tasks : Submit(t, D) \/ AddNeeds(t, D)
       \/ \E S \in SUBSET Tasks : Start(S)
       \/ \E t \in Tasks, S \in SUBSET Tasks : Fall(t, "failed", S) \/ Fall(t, "cancelled", S)

Spec == Init /\ [][Next]_graph
=============================================================================
