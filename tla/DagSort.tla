------------------------------ MODULE DagSort -------------------------------
(***************************************************************************)
(* DAGScheduler.topological_sort (aruntime/scheduler/dag.py), the listing  *)
(* of the graph for debugging and display.  Its loop lists one task in     *)
(* each step; nothing else runs before it returns.                         *)
(***************************************************************************)
EXTENDS DagScheduler, Integers, Sequences, FiniteSets, Functions

ASSUME TasksFinite == IsFiniteSet(Tasks)

VARIABLES
    sorting,  \* topological_sort has been called
    todo,     \* its queue
    degree,   \* in_degree
    result    \* what it has listed so far

sortVars == <<sorting, todo, degree, result>>
allVars == <<vars, sortVars>>

SortInit == Init /\ sorting = FALSE /\ todo = <<>> /\ degree = <<>> /\ result = <<>>

(* The orders in which a loop may meet the members of S.                   *)
Orders(S) == Bijection(1..Cardinality(S), S)

StartSort ==
    /\ ~sorting /\ sorting' = TRUE
    /\ degree' = [t \in nodes |-> Cardinality(deps[t])]
    /\ \E free \in Orders({t \in nodes : degree'[t] = 0}) : todo' = free
    /\ result' = <<>> /\ UNCHANGED vars

CountDown(t) == [x \in nodes |-> IF x \in dependents[t] THEN degree[x] - 1 ELSE degree[x]]

(* One turn of the loop, for the task at the head of the queue.            *)
SortStep ==
    /\ sorting /\ todo # <<>>
    /\ degree' = CountDown(Head(todo))
    /\ \E freed \in Orders({x \in dependents[Head(todo)] : degree'[x] = 0}) :
            todo' = Tail(todo) \o freed
    /\ result' = Append(result, Head(todo))
    /\ UNCHANGED <<vars, sorting>>

(* The queue is empty: the sort returns, or raises if tasks are missing.   *)
EndSort ==
    /\ sorting /\ todo = <<>>
    /\ sorting' = FALSE /\ todo' = <<>> /\ degree' = <<>> /\ result' = <<>>
    /\ UNCHANGED vars

SortNext == StartSort \/ SortStep \/ EndSort \/ (~sorting /\ Next /\ UNCHANGED sortVars)
SortSpec == SortInit /\ [][SortNext]_allVars

-----------------------------------------------------------------------------
(* topological_sort lists no task twice, and raises only if some task was  *)
(* enqueued ahead of a dependency, and so is in no list of dependents that *)
(* would count it down.  A task comes after all it waits for, unless one   *)
(* of its dependencies is resolved already: then the count starts lower    *)
(* than the walk takes it, and the task may come too early.                *)
Attached == \A t \in nodes : \A d \in deps[t] : t \in dependents[d]
Unresolved(t) == \A d \in nodes : t \in dependents[d] => d \in deps[t]
SortIsTopological ==
    sorting /\ todo = <<>> =>
        /\ Len(result) = Cardinality(Range(result)) /\ Range(result) \subseteq nodes
        /\ Attached => Range(result) = nodes
        /\ \A j \in 1..Len(result) : Unresolved(result[j]) =>
              \A d \in deps[result[j]] : \E i \in 1..(j - 1) : result[i] = d
=============================================================================
