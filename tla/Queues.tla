------------------------------- MODULE Queues -------------------------------
(***************************************************************************)
(* Ordered collections of the daemon: rows read in order, and lists and    *)
(* ordered dictionaries from which entries are dropped in place.           *)
(***************************************************************************)
EXTENDS Naturals, Sequences, FiniteSets

(* The members of a finite set of numbers, in order.                       *)
InOrder(S) ==
    CHOOSE q \in [1..Cardinality(S) -> S] :
        /\ \A x \in S : \E i \in DOMAIN q : q[i] = x
        /\ \A i, j \in DOMAIN q : i < j => q[i] < q[j]

(* What a sequence holds outside a set.                                    *)
Outside(q, S) ==
    LET at == InOrder({i \in DOMAIN q : q[i] \notin S}) IN [n \in DOMAIN at |-> q[at[n]]]
=============================================================================
