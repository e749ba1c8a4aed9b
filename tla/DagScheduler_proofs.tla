------------------------ MODULE DagScheduler_proofs -------------------------
(***************************************************************************)
(* DAGScheduler, alone or wrapped, for every set of tasks, every           *)
(* assignment of failure modes and every choice of the clients: what is    *)
(* free is ready, and the scheduler implements TaskGraph.  Both hold until *)
(* some task is given dependencies between two attempts of it (late): only *)
(* then is a task both executed and held up.  In every behaviour the graph *)
(* has no cycle, and topological_sort lists what it can count down.        *)
(***************************************************************************)
EXTENDS DagSort, TLAPS, FiniteSetTheorems

(* Most steps are first-order reasoning about sets and functions: Zenon    *)
(* proves them, and the steps that need more say SMT.                      *)
USE Zenon

(* The states tasks reach under this scheduler.                            *)
Reached == {"PENDING", "READY", "RUNNING", "TIMEOUT", "SUCCESS", "FAILED", "CANCELLED"}

(* d no longer holds up x, and never will again.                           *)
Settled(d, x) ==
    \/ status[d] = "SUCCESS"
    \/ status[d] \in {"FAILED", "CANCELLED"} /\ FailMode(d, x) \in Permissive

(* x waits for a task that has ended badly and is not forgiven: no later   *)
(* completion makes x ready, although FAILED may become READY.             *)
Doomed(x) ==
    \E d \in deps[x] : status[d] \in {"FAILED", "CANCELLED"} /\ FailMode(d, x) = "fail_closed"

StatusOK ==
    \A x \in Tasks :
        /\ status[x] \in Reached
        /\ x \notin nodes => status[x] = "PENDING" /\ deps[x] = {} /\ dependents[x] = {}

QueueOK ==
    \A x \in nodes :
        /\ status[x] = "READY" => x \in queue /\ deps[x] = {}
        /\ status[x] = "PENDING" => x \in queue /\ deps[x] # {}
        /\ status[x] \in {"RUNNING", "TIMEOUT", "SUCCESS"} => x \notin queue /\ deps[x] = {}
        /\ status[x] = "FAILED" => x \in failed /\ IF x \in queue THEN Doomed(x) ELSE deps[x] = {}

EdgesOK == \A d \in Tasks : \A x \in dependents[d] : d \in deps[x] \/ Settled(d, x)

SetsOK ==
    /\ \A x \in completed : status[x] = "SUCCESS"
    /\ \A x \in failed : status[x] \in {"FAILED", "CANCELLED"}

ExecOK ==
    \A x \in Tasks : exec[x] # "none" =>
        x \in nodes /\ x \notin queue /\ status[x] \in {"RUNNING", "TIMEOUT", "CANCELLED"}

(* FreeIsReady is not inductive: that a task whose last dependency goes is *)
(* PENDING, and not a failed one, needs the states of waiting tasks        *)
(* (QueueOK); that a failing task still holds up those it takes along      *)
(* needs the edges that were resolved (EdgesOK).                           *)
IndInv == TypeOK /\ StatusOK /\ QueueOK /\ EdgesOK /\ SetsOK /\ ExecOK

-----------------------------------------------------------------------------
(* What the table of transitions says about the states tasks reach.        *)
LEMMA TransitionFacts ==
    ASSUME NEW s \in Reached
    PROVE  /\ CanTransition(s, "RUNNING") => s \in {"READY", "RUNNING"}
           /\ CanTransition(s, "READY") = (s \in {"PENDING", "READY", "FAILED"})
           /\ CanTransition(s, "FAILED") = (s \notin {"SUCCESS", "CANCELLED"})
           /\ CanTransition(s, "CANCELLED") = (s \notin {"SUCCESS", "FAILED"})
BY SMT DEF Reached, CanTransition, Allowed, TaskStatus

(* The outcomes of an interrupted loop.                                    *)
LEMMA LoopOutcomesFacts ==
    ASSUME NEW S, NEW Bad, Bad \subseteq S, NEW o \in LoopOutcomes(S, Bad)
    PROVE  /\ o.done \subseteq S \ Bad /\ o.hit \subseteq Bad
           /\ o.hit = {} => o.done = S
<1>1. CASE Bad = {}
  BY <1>1, SMT DEF LoopOutcomes
<1>2. CASE Bad # {}
  BY <1>2, SMT DEF LoopOutcomes
<1> QED BY <1>1, <1>2

(* A task fails along only if one that fails takes it along.               *)
LEMMA CascadeFacts ==
    ASSUME TypeOK, NEW t \in Tasks, NEW x \in Cascade(t)
    PROVE  x \in Tasks /\ \E d \in Cascade(t) \union {t} : x \in ClosedBy(d)
<1> DEFINE C == Cascade(t)
           S == {y \in C : \E d \in C \union {t} : y \in ClosedBy(d)}
<1>1. C \subseteq Tasks
  BY DEF Cascade
<1>2. ASSUME NEW d \in C \union {t}, NEW y \in ClosedBy(d)
      PROVE  y \in C
  <2>1. y \in Tasks
    BY <1>1 DEF ClosedBy, TypeOK
  <2>2. ASSUME NEW P \in SUBSET Tasks, \A z \in P \union {t} : ClosedBy(z) \subseteq P
        PROVE  y \in P
    <3>1. d \in P \union {t}
      BY <2>2 DEF Cascade
    <3> QED BY <2>2, <3>1
  <2> QED BY <2>1, <2>2 DEF Cascade
<1>3. \A z \in S \union {t} : ClosedBy(z) \subseteq S
  BY <1>2
<1>4. S \in SUBSET Tasks
  BY <1>1
<1>5. x \in S
  BY <1>3, <1>4 DEF Cascade
<1> QED BY <1>1, <1>5

(* What a call of fail_task closes and opens, interrupted or not.          *)
LEMMA FailOutcomesFacts ==
    ASSUME TypeOK, NEW t \in Tasks, NEW o \in FailOutcomes(t)
    PROVE  /\ o.closed \subseteq Tasks
           /\ \A x \in o.closed : /\ CanTransition(status[x], "FAILED")
                                  /\ \E d \in o.closed \union {t} : x \in ClosedBy(d)
           /\ o.opened \subseteq Opened(o.closed \union {t})
<1> DEFINE all == Cascade(t)
           Must == {e \in Opened(all \union {t}) : e[2] \notin all}
<1>1. all \subseteq Tasks /\ \A x \in all : \E d \in all \union {t} : x \in ClosedBy(d)
  BY CascadeFacts
<1>2. CASE Stuck(all, "FAILED") = {} /\ Stuck(Freed(Must), "READY") = {}
  <2>1. \E E \in SUBSET Opened(all \union {t}) : o = [closed |-> all, opened |-> E]
    BY <1>2 DEF FailOutcomes
  <2>2. o.closed = all /\ o.opened \subseteq Opened(all \union {t})
    BY <2>1, SMT
  <2>3. \A x \in all : CanTransition(status[x], "FAILED")
    BY <1>2 DEF Stuck
  <2> QED BY <1>1, <2>2, <2>3
<1>3. CASE ~(Stuck(all, "FAILED") = {} /\ Stuck(Freed(Must), "READY") = {})
  <2>1. PICK S \in SUBSET (all \ Stuck(all, "FAILED")) :
          /\ \A x \in S : \E d \in S \union {t} : x \in ClosedBy(d)
          /\ \E E \in SUBSET Opened(S \union {t}) : o = [closed |-> S, opened |-> E]
    BY <1>3 DEF FailOutcomes
  <2>2. o.closed = S /\ o.opened \subseteq Opened(S \union {t})
    BY <2>1, SMT
  <2>3. \A x \in S : CanTransition(status[x], "FAILED")
    BY <2>1 DEF Stuck
  <2> QED BY <1>1, <2>1, <2>2, <2>3
<1> QED BY <1>2, <1>3

-----------------------------------------------------------------------------
(* A queued task with nothing left to wait for is READY or CANCELLED.      *)
LEMMA FreeFacts == IndInv => FreeIsReady
BY DEF IndInv, TypeOK, StatusOK, QueueOK, Doomed, Reached, FreeIsReady

(* enqueue keeps the invariant.                                            *)
LEMMA EnqueueKeepsInv ==
    ASSUME IndInv, NEW t \in Tasks, t \notin nodes, NEW D \in SUBSET Tasks, t \notin D, Enqueue(t, D)
    PROVE  IndInv'
<1> USE DEF IndInv
<1>1. /\ nodes' = nodes \union {t}
      /\ declared' = [declared EXCEPT ![t] = D]
      /\ deps' = [deps EXCEPT ![t] = D \ completed]
      /\ dependents' = [d \in Tasks |-> IF d \in D \intersect nodes
                                        THEN dependents[d] \union {t} ELSE dependents[d]]
      /\ status' = [status EXCEPT ![t] = IF D \subseteq completed THEN "READY" ELSE "PENDING"]
      /\ queue' = queue \union {t}
      /\ event' = TRUE
      /\ UNCHANGED <<wrapped, late, completed, failed, exec>>
  BY DEF Enqueue
<1>2. /\ t \notin queue /\ t \notin completed /\ t \notin failed /\ exec[t] = "none"
      /\ \A d \in Tasks : t \notin dependents[d]
      /\ dependents[t] = {} /\ status[t] = "PENDING"
  BY DEF TypeOK, StatusOK, ExecOK
<1>3. TypeOK'
  BY <1>1 DEF TypeOK, TaskStatus
<1>4. \A x \in Tasks : x # t => status'[x] = status[x] /\ deps'[x] = deps[x]
  BY <1>1 DEF TypeOK
<1>5. /\ status'[t] \in {"READY", "PENDING"} /\ deps'[t] = D \ completed
      /\ status'[t] = "READY" <=> deps'[t] = {}
  BY <1>1 DEF TypeOK
<1>6. StatusOK'
  BY <1>1, <1>4, <1>5 DEF StatusOK, Reached, TypeOK
<1>7. QueueOK'
  <2> SUFFICES ASSUME NEW x \in nodes'
               PROVE  /\ status'[x] = "READY" => x \in queue' /\ deps'[x] = {}
                      /\ status'[x] = "PENDING" => x \in queue' /\ deps'[x] # {}
                      /\ status'[x] \in {"RUNNING", "TIMEOUT", "SUCCESS"} => x \notin queue' /\ deps'[x] = {}
                      /\ status'[x] = "FAILED" => x \in failed' /\ IF x \in queue' THEN Doomed(x)' ELSE deps'[x] = {}
    BY DEF QueueOK
  <2>1. CASE x = t
    BY <1>1, <1>5, <2>1
  <2>2. CASE x # t
    <3>1. x \in nodes /\ x \in Tasks /\ status'[x] = status[x] /\ deps'[x] = deps[x] /\ (x \in queue' <=> x \in queue)
      BY <1>1, <1>4, <2>2 DEF TypeOK
    <3>2. Doomed(x) => Doomed(x)'
      BY <1>2, <1>4, <3>1 DEF Doomed, FailMode, TypeOK
    <3> QED BY <1>1, <3>1, <3>2 DEF QueueOK
  <2> QED BY <2>1, <2>2
<1>8. EdgesOK'
  <2> SUFFICES ASSUME NEW d \in Tasks, NEW x \in dependents'[d]
               PROVE  d \in deps'[x] \/ Settled(d, x)'
    BY DEF EdgesOK
  <2>1. d # t
    BY <1>1, <1>2
  <2>2. CASE x = t
    <3>1. d \in D
      BY <1>1, <1>2, <2>2
    <3>2. d \in completed => status'[d] = "SUCCESS"
      BY <1>4, <2>1 DEF SetsOK
    <3> QED BY <1>5, <2>2, <3>1, <3>2 DEF Settled
  <2>3. CASE x # t
    <3>1. x \in dependents[d] /\ x \in Tasks
      BY <1>1, <2>3 DEF TypeOK
    <3> QED BY <1>4, <2>1, <2>3, <3>1 DEF EdgesOK, Settled, FailMode
  <2> QED BY <2>2, <2>3
<1>9. SetsOK'
  BY <1>1, <1>2, <1>4 DEF SetsOK, TypeOK
<1>10. ExecOK'
  BY <1>1, <1>2, <1>4 DEF ExecOK
<1> QED BY <1>3, <1>6, <1>7, <1>8, <1>9, <1>10

(* add_dependencies of the scheduler itself keeps it: the task is queued.  *)
LEMMA AddDependenciesKeepsInv ==
    ASSUME IndInv, NEW t \in Tasks, status[t] # "TIMEOUT", NEW D, AddDependencies(t, D)
    PROVE  IndInv'
<1> USE DEF IndInv
<1> DEFINE new == D \ deps[t]
<1>1. /\ t \in nodes /\ D \subseteq nodes /\ t \notin D
      /\ status[t] \notin {"RUNNING", "SUCCESS", "FAILED", "CANCELLED"}
      /\ declared' = [declared EXCEPT ![t] = @ \union new]
      /\ deps' = [deps EXCEPT ![t] = @ \union (new \ completed)]
      /\ dependents' = [d \in Tasks |-> IF d \in new THEN dependents[d] \union {t} ELSE dependents[d]]
      /\ status' = IF t \in queue /\ deps'[t] # {}
                   THEN [status EXCEPT ![t] = "PENDING"] ELSE status
      /\ UNCHANGED <<wrapped, nodes, queue, completed, failed, event, exec>>
  BY DEF AddDependencies, MayAdd
<1>2. status[t] \in {"PENDING", "READY"} /\ t \in queue
  BY <1>1 DEF StatusOK, QueueOK, Reached
<1>3. TypeOK'
  <2>1. late' \in BOOLEAN
    BY DEF AddDependencies
  <2>2. new \subseteq Tasks /\ declared' \in [Tasks -> SUBSET Tasks] /\ deps' \in [Tasks -> SUBSET Tasks]
    BY <1>1, SMT DEF TypeOK
  <2>3. dependents' \in [Tasks -> SUBSET nodes] /\ status' \in [Tasks -> TaskStatus]
    BY <1>1 DEF TypeOK, TaskStatus
  <2> QED BY <1>1, <2>1, <2>2, <2>3 DEF TypeOK
<1>4. \A x \in Tasks : x # t => status'[x] = status[x] /\ deps'[x] = deps[x]
  BY <1>1 DEF TypeOK
<1>5. /\ deps'[t] = deps[t] \union (new \ completed)
      /\ IF deps'[t] = {} THEN status'[t] = "READY" ELSE status'[t] = "PENDING"
  BY <1>1, <1>2 DEF TypeOK, QueueOK
<1>6. StatusOK'
  BY <1>1, <1>4, <1>5 DEF StatusOK, Reached, TypeOK
<1>7. QueueOK'
  <2> SUFFICES ASSUME NEW x \in nodes
               PROVE  /\ status'[x] = "READY" => x \in queue /\ deps'[x] = {}
                      /\ status'[x] = "PENDING" => x \in queue /\ deps'[x] # {}
                      /\ status'[x] \in {"RUNNING", "TIMEOUT", "SUCCESS"} => x \notin queue /\ deps'[x] = {}
                      /\ status'[x] = "FAILED" => x \in failed /\ IF x \in queue THEN Doomed(x)' ELSE deps'[x] = {}
    BY <1>1 DEF QueueOK
  <2>1. CASE x = t
    BY <1>2, <1>5, <2>1
  <2>2. CASE x # t
    <3>1. x \in Tasks /\ status'[x] = status[x] /\ deps'[x] = deps[x] /\ deps[x] \subseteq Tasks
      BY <1>4, <2>2 DEF TypeOK
    <3>2. Doomed(x) => Doomed(x)'
      BY <1>2, <1>4, <3>1 DEF Doomed, FailMode
    <3> QED BY <3>1, <3>2 DEF QueueOK
  <2> QED BY <2>1, <2>2
<1>8. EdgesOK'
  <2> SUFFICES ASSUME NEW d \in Tasks, NEW x \in dependents'[d]
               PROVE  d \in deps'[x] \/ Settled(d, x)'
    BY DEF EdgesOK
  <2>1. Settled(d, x) => Settled(d, x)'
    BY <1>2, <1>4 DEF Settled, FailMode
  <2>2. CASE x = t /\ d \in new
    <3>1. d # t /\ (d \in completed => status'[d] = "SUCCESS")
      BY <1>1, <1>4, <2>2 DEF SetsOK
    <3> QED BY <1>5, <2>2, <3>1 DEF Settled
  <2>3. CASE ~(x = t /\ d \in new)
    <3>1. x \in dependents[d] /\ x \in Tasks
      BY <1>1, <2>3 DEF TypeOK
    <3>2. deps[x] \subseteq deps'[x]
      BY <1>4, <1>5, <3>1
    <3> QED BY <2>1, <3>1, <3>2 DEF EdgesOK
  <2> QED BY <2>2, <2>3
<1>9. SetsOK'
  BY <1>1, <1>2, <1>4 DEF SetsOK, TypeOK
<1>10. ExecOK'
  BY <1>1, <1>2, <1>4 DEF ExecOK
<1> QED BY <1>3, <1>6, <1>7, <1>8, <1>9, <1>10

(* Behind the wrapper only the declared list changes.                      *)
LEMMA DeclaringKeepsInv ==
    ASSUME IndInv, NEW t \in nodes, NEW D \in SUBSET nodes,
           declared' = [declared EXCEPT ![t] = @ \union D],
           UNCHANGED <<wrapped, late, status, nodes, dependents, deps, queue, completed, failed, event, exec>>
    PROVE  IndInv'
<1>1. TypeOK'
  BY DEF IndInv, TypeOK
<1> QED BY <1>1, ZenonT(30) DEF IndInv, StatusOK, QueueOK, EdgesOK, SetsOK, ExecOK, Doomed, Settled, FailMode

-----------------------------------------------------------------------------
(* A turn of the loop: batch starts, hit was cancelled and is dropped.     *)
TickEffect(batch, hit) ==
    /\ \A x \in batch : status[x] = "READY" /\ deps[x] = {}
    /\ \A x \in hit : status[x] = "CANCELLED"
    /\ queue' = queue \ (batch \union hit)
    /\ status' = [x \in Tasks |-> IF x \in batch THEN "RUNNING" ELSE status[x]]
    /\ exec' \in [Tasks -> {"none", "queued", "started"}]
    /\ \A x \in Tasks : exec'[x] # "none" => exec[x] # "none" \/ x \in batch
    /\ event' = FALSE
    /\ UNCHANGED <<wrapped, late, edgeVars, deps, completed, failed>>

LEMMA ScheduleTickEffect ==
    ASSUME IndInv, NEW ok, ScheduleTick(ok)
    PROVE  \E batch, hit \in SUBSET queue : TickEffect(batch, hit)
<1> DEFINE P == Picks(ok)
           bad == Stuck(P, "RUNNING")
<1>1. PICK o \in LoopOutcomes(P, bad) :
        /\ event' = FALSE
        /\ queue' = queue \ (o.done \union o.hit)
        /\ status' = [t \in Tasks |-> IF t \in o.done THEN "RUNNING" ELSE status[t]]
        /\ exec' = [t \in Tasks |-> IF o.hit = {} /\ t \in o.done THEN "queued" ELSE exec[t]]
        /\ UNCHANGED <<wrapped, late, edgeVars, deps, completed, failed>>
  BY DEF ScheduleTick
<1>2. bad \subseteq P
  BY DEF Stuck
<1>3. o.done \subseteq P \ bad /\ o.hit \subseteq bad
  <2> HIDE DEF P, bad
  <2> QED BY <1>2, LoopOutcomesFacts
<1>4. \A x \in P : /\ x \in queue /\ deps[x] = {} /\ status[x] \in {"READY", "CANCELLED"}
                   /\ x \in bad <=> status[x] = "CANCELLED"
  <2>1. \A x \in P : x \in queue /\ deps[x] = {} /\ status[x] \in {"READY", "CANCELLED"}
    BY FreeFacts DEF Picks, FreeIsReady
  <2>2. CanTransition("READY", "RUNNING") /\ ~CanTransition("CANCELLED", "RUNNING")
    BY DEF CanTransition, Allowed, TaskStatus
  <2> QED BY <2>1, <2>2 DEF Stuck
<1>5. exec' \in [Tasks -> {"none", "queued", "started"}]
  BY <1>1 DEF IndInv, TypeOK
<1>6. \A x \in Tasks : exec'[x] # "none" => exec[x] # "none" \/ x \in o.done
  BY <1>1
<1> HIDE DEF P, bad
<1>7. \A x \in o.done : x \in queue /\ status[x] = "READY" /\ deps[x] = {}
  BY <1>3, <1>4
<1>8. \A x \in o.hit : x \in queue /\ status[x] = "CANCELLED"
  BY <1>2, <1>3, <1>4
<1>9. TickEffect(o.done, o.hit)
  BY <1>1, <1>5, <1>6, <1>7, <1>8 DEF TickEffect
<1>10. o.done \in SUBSET queue /\ o.hit \in SUBSET queue
  BY <1>7, <1>8
<1> QED BY <1>9, <1>10

LEMMA ScheduleTickKeepsInv ==
    ASSUME IndInv, NEW ok, ScheduleTick(ok)
    PROVE  IndInv'
<1> USE DEF IndInv
<1>1. PICK batch, hit \in SUBSET queue : TickEffect(batch, hit)
  BY ScheduleTickEffect
<1>2. /\ \A x \in batch : status[x] = "READY" /\ deps[x] = {} /\ x \in nodes /\ x \in Tasks
      /\ \A x \in hit : status[x] = "CANCELLED"
      /\ \A x \in Tasks : status'[x] = IF x \in batch THEN "RUNNING" ELSE status[x]
  BY <1>1 DEF TickEffect, TypeOK
<1>3. /\ queue' = queue \ (batch \union hit)
      /\ UNCHANGED <<nodes, dependents, declared, deps, completed, failed, wrapped, late>>
      /\ event' = FALSE
      /\ exec' \in [Tasks -> {"none", "queued", "started"}]
      /\ \A x \in Tasks : exec'[x] # "none" => exec[x] # "none" \/ x \in batch
  BY <1>1 DEF TickEffect, edgeVars
<1>4. TypeOK'
  <2>1. status' \in [Tasks -> TaskStatus]
    BY <1>1 DEF TickEffect, TypeOK, TaskStatus
  <2> QED BY <1>3, <2>1 DEF TypeOK
<1>5. StatusOK'
  BY <1>2, <1>3 DEF StatusOK, Reached
<1>6. QueueOK'
  <2> SUFFICES ASSUME NEW x \in nodes
               PROVE  /\ status'[x] = "READY" => x \in queue' /\ deps[x] = {}
                      /\ status'[x] = "PENDING" => x \in queue' /\ deps[x] # {}
                      /\ status'[x] \in {"RUNNING", "TIMEOUT", "SUCCESS"} => x \notin queue' /\ deps[x] = {}
                      /\ status'[x] = "FAILED" => x \in failed /\ IF x \in queue' THEN Doomed(x)' ELSE deps[x] = {}
    BY <1>3 DEF QueueOK
  <2>1. x \in Tasks /\ deps[x] \subseteq Tasks
    BY DEF TypeOK
  <2>2. Doomed(x) => Doomed(x)'
    BY <1>2, <1>3, <2>1 DEF Doomed, FailMode
  <2>3. CASE x \in batch
    BY <1>2, <1>3, <2>1, <2>3
  <2>4. CASE x \notin batch
    BY <1>2, <1>3, <2>1, <2>2, <2>4 DEF QueueOK
  <2> QED BY <2>3, <2>4
<1>7. EdgesOK'
  BY <1>2, <1>3 DEF EdgesOK, Settled, FailMode
<1>8. SetsOK'
  BY <1>2, <1>3 DEF SetsOK, TypeOK
<1>9. ExecOK'
  BY <1>2, <1>3 DEF ExecOK
<1> QED BY <1>4, <1>5, <1>6, <1>7, <1>8, <1>9

-----------------------------------------------------------------------------
(* complete_task: t leaves the dependencies of the tasks in gone, and the  *)
(* ones of freed were waiting for nothing else.                            *)
CompleteEffect(t, gone, freed) ==
    /\ \A x \in freed : status[x] = "PENDING" /\ deps[x] = {t}
    /\ \A x \in gone \ freed : deps[x] = {t} => status[x] = "CANCELLED"
    /\ completed' = completed \union {t}
    /\ deps' = [x \in Tasks |-> IF x \in gone THEN deps[x] \ {t} ELSE deps[x]]
    /\ status' = [x \in Tasks |-> IF x = t THEN "SUCCESS" ELSE IF x \in freed THEN "READY" ELSE status[x]]
    /\ UNCHANGED <<wrapped, late, edgeVars, queue, failed>>

LEMMA CompleteTaskEffect ==
    ASSUME IndInv, NEW t \in nodes, status[t] = "RUNNING", CompleteTask(t)
    PROVE  \E gone \in SUBSET dependents[t] : \E freed \in SUBSET gone : CompleteEffect(t, gone, freed)
<1> USE DEF IndInv
<1> DEFINE last == {x \in dependents[t] : deps[x] = {t}}
           bad == Stuck(last, "READY")
<1>1. PICK o \in LoopOutcomes(dependents[t], bad) :
        /\ completed' = completed \union {t}
        /\ deps' = [x \in Tasks |-> IF x \in o.done \union o.hit THEN deps[x] \ {t} ELSE deps[x]]
        /\ status' = [x \in Tasks |-> IF x = t THEN "SUCCESS"
                                      ELSE IF x \in o.done \intersect last THEN "READY" ELSE status[x]]
        /\ UNCHANGED <<wrapped, late, edgeVars, queue, failed>>
  BY DEF CompleteTask
<1>2. bad \subseteq dependents[t]
  BY DEF Stuck
<1>3. o.done \subseteq dependents[t] \ bad /\ o.hit \subseteq bad
  <2> HIDE DEF last, bad
  <2> QED BY <1>2, LoopOutcomesFacts, SMT
<1>4. \A x \in last : status[x] \in {"PENDING", "CANCELLED"}
  <2> SUFFICES ASSUME NEW x \in last PROVE status[x] \in {"PENDING", "CANCELLED"}
    OBVIOUS
  <2>1. t \in Tasks /\ x \in nodes /\ x \in Tasks /\ deps[x] = {t}
    BY DEF TypeOK
  <2>2. ~Doomed(x)
    BY <2>1 DEF Doomed
  <2> QED BY <2>1, <2>2 DEF QueueOK, StatusOK, Reached
<1>5. \A x \in last : x \in bad <=> status[x] = "CANCELLED"
  <2>1. CanTransition("PENDING", "READY") /\ ~CanTransition("CANCELLED", "READY")
    BY DEF CanTransition, Allowed, TaskStatus
  <2> QED BY <1>4, <2>1 DEF Stuck
<1> DEFINE gone == o.done \union o.hit
           freed == o.done \intersect last
<1>6. gone \in SUBSET dependents[t] /\ freed \in SUBSET gone
  BY <1>2, <1>3
<1>7. \A x \in freed : status[x] = "PENDING" /\ deps[x] = {t}
  BY <1>3, <1>4, <1>5
<1>8. \A x \in gone \ freed : deps[x] = {t} => status[x] = "CANCELLED"
  BY <1>3, <1>5, <1>6
<1>9. CompleteEffect(t, gone, freed)
  BY <1>1, <1>7, <1>8 DEF CompleteEffect
<1> QED BY <1>6, <1>9

LEMMA CompleteTaskKeepsInv ==
    ASSUME IndInv, NEW t \in nodes, status[t] = "RUNNING", CompleteTask(t), EndExecution(t)
    PROVE  IndInv'
<1> USE DEF IndInv
<1>1. PICK gone \in SUBSET dependents[t] : \E freed \in SUBSET gone : CompleteEffect(t, gone, freed)
  BY CompleteTaskEffect
<1>2. PICK freed \in SUBSET gone : CompleteEffect(t, gone, freed)
  BY <1>1
<1>3. /\ t \in Tasks /\ gone \subseteq nodes /\ freed \subseteq nodes /\ nodes \subseteq Tasks
      /\ t \notin queue /\ deps[t] = {}
  BY DEF TypeOK, QueueOK
<1>4. /\ \A x \in freed : status[x] = "PENDING" /\ deps[x] = {t} /\ x # t
      /\ \A x \in gone \ freed : deps[x] = {t} => status[x] = "CANCELLED"
      /\ \A x \in Tasks : deps'[x] = IF x \in gone THEN deps[x] \ {t} ELSE deps[x]
      /\ \A x \in Tasks : status'[x] = IF x = t THEN "SUCCESS" ELSE IF x \in freed THEN "READY" ELSE status[x]
  BY <1>2 DEF CompleteEffect
<1>5. /\ completed' = completed \union {t} /\ event' = TRUE
      /\ UNCHANGED <<nodes, dependents, declared, queue, failed, wrapped, late>>
      /\ exec' = [exec EXCEPT ![t] = "none"]
  BY <1>2 DEF CompleteEffect, edgeVars, EndExecution
<1>6. TypeOK'
  <2>1. status' \in [Tasks -> TaskStatus] /\ deps' \in [Tasks -> SUBSET Tasks]
    BY <1>2 DEF CompleteEffect, TypeOK, TaskStatus
  <2> QED BY <1>5, <2>1 DEF TypeOK
<1>7. StatusOK'
  BY <1>3, <1>4, <1>5 DEF StatusOK, Reached
<1>8. QueueOK'
  <2> SUFFICES ASSUME NEW x \in nodes
               PROVE  /\ status'[x] = "READY" => x \in queue /\ deps'[x] = {}
                      /\ status'[x] = "PENDING" => x \in queue /\ deps'[x] # {}
                      /\ status'[x] \in {"RUNNING", "TIMEOUT", "SUCCESS"} => x \notin queue /\ deps'[x] = {}
                      /\ status'[x] = "FAILED" => x \in failed /\ IF x \in queue THEN Doomed(x)' ELSE deps'[x] = {}
    BY <1>5 DEF QueueOK
  <2>1. x \in Tasks /\ deps[x] \subseteq Tasks
    BY DEF TypeOK
  <2>2. Doomed(x) => Doomed(x)'
    <3> SUFFICES ASSUME NEW d \in deps[x], status[d] \in {"FAILED", "CANCELLED"}, FailMode(d, x) = "fail_closed"
                 PROVE  d \in deps'[x] /\ status'[d] = status[d]
      BY DEF Doomed, FailMode
    <3> QED BY <1>4, <2>1
  <2>3. CASE x = t
    BY <1>3, <1>4, <2>3
  <2>4. CASE x \in freed
    BY <1>3, <1>4, <2>1, <2>4 DEF QueueOK
  <2>5. CASE x # t /\ x \notin freed
    <3>1. status'[x] = status[x] /\ deps'[x] \subseteq deps[x]
      BY <1>4, <2>1, <2>5
    <3>2. status[x] = "PENDING" => deps'[x] # {}
      <4>1. status[x] = "PENDING" => deps[x] # {} /\ (x \in gone => deps[x] # {t})
        BY <1>4, <2>5 DEF QueueOK
      <4>2. status[x] = "PENDING" => \E d \in deps[x] : x \in gone => d # t
        BY <4>1
      <4> QED BY <1>4, <2>1, <4>2, ZenonT(30)
    <3> QED BY <2>2, <3>1, <3>2 DEF QueueOK
  <2> QED BY <2>3, <2>4, <2>5
<1>9. EdgesOK'
  <2> SUFFICES ASSUME NEW d \in Tasks, NEW x \in dependents[d]
               PROVE  d \in deps'[x] \/ Settled(d, x)'
    BY <1>5 DEF EdgesOK
  <2>1. x \in Tasks
    BY <1>3 DEF TypeOK
  <2>2. CASE d = t
    BY <1>4, <2>2 DEF Settled
  <2>3. CASE d # t
    BY <1>4, <2>1, <2>3 DEF EdgesOK, Settled, FailMode
  <2> QED BY <2>2, <2>3
<1>10. SetsOK'
  BY <1>3, <1>4, <1>5 DEF SetsOK, TypeOK
<1>11. ExecOK'
  BY <1>3, <1>4, <1>5 DEF ExecOK, TypeOK
<1> QED BY <1>6, <1>7, <1>8, <1>9, <1>10, <1>11

-----------------------------------------------------------------------------
(* fail_task, interrupted or not: the tasks of closed fail along, edges of *)
(* E are given up, and the tasks of freed have nothing left to wait for.   *)
FailEffect(t, own, closed, freed, E) ==
    /\ \A x \in closed :
           /\ status[x] = "PENDING"
           /\ \E d \in closed \union {t} : /\ d \in deps[x] /\ x \in dependents[d]
                                           /\ FailMode(d, x) = "fail_closed"
    /\ \A d \in Tasks, x \in Tasks : <<d, x>> \in E =>
           d \in closed \union {t} /\ FailMode(d, x) \in Permissive
    /\ \A x \in freed : /\ status[x] \in {"PENDING", "READY"} /\ x # t /\ x \notin closed
                        /\ \A d \in deps[x] : <<d, x>> \in E
    /\ \A x \in nodes : status[x] = "PENDING" =>
           x = t \/ x \in closed \/ x \in freed \/ \E d \in deps[x] : <<d, x>> \notin E
    /\ failed' = failed \union {t} \union closed
    /\ deps' = [x \in Tasks |-> {d \in deps[x] : <<d, x>> \notin E}]
    /\ status' = [x \in Tasks |-> IF x = t THEN own ELSE IF x \in closed THEN "FAILED"
                                  ELSE IF x \in freed THEN "READY" ELSE status[x]]
    /\ UNCHANGED <<wrapped, late, edgeVars, queue, completed>>

LEMMA FailTaskEffect ==
    ASSUME IndInv, NEW t \in nodes, NEW own, status[t] # "SUCCESS", FailTask(t, own)
    PROVE  \E closed, freed \in SUBSET nodes : \E E : FailEffect(t, own, closed, freed, E)
<1> USE DEF IndInv
<1>0. t \in Tasks /\ nodes \subseteq Tasks
  BY DEF TypeOK
<1>1. PICK o \in FailOutcomes(t) :
        /\ failed' = failed \union {t} \union o.closed
        /\ deps' = Without(o.opened)
        /\ status' = [x \in Tasks |->
               IF x = t THEN own ELSE IF x \in o.closed THEN "FAILED"
               ELSE IF x \in Freed(o.opened) /\ CanTransition(status[x], "READY") THEN "READY"
               ELSE status[x]]
        /\ UNCHANGED <<wrapped, late, edgeVars, queue, completed>>
  BY DEF FailTask
<1>2. PICK closed, E : closed = o.closed /\ E = o.opened
  OBVIOUS
<1>3. /\ closed \subseteq Tasks
      /\ \A x \in closed : /\ CanTransition(status[x], "FAILED")
                           /\ \E d \in closed \union {t} : x \in ClosedBy(d)
      /\ E \subseteq Opened(closed \union {t})
  BY <1>0, <1>2, FailOutcomesFacts
<1>4. \A x \in closed : status[x] \notin {"SUCCESS", "CANCELLED"}
  BY <1>3, TransitionFacts DEF StatusOK
<1>5. ASSUME NEW x \in closed
      PROVE  /\ x \in nodes /\ status[x] = "PENDING"
             /\ \E d \in closed \union {t} : d \in deps[x] /\ x \in dependents[d] /\ FailMode(d, x) = "fail_closed"
  <2>1. PICK d \in closed \union {t} : x \in dependents[d] \ failed /\ FailMode(d, x) = "fail_closed"
    BY <1>3 DEF ClosedBy
  <2>2. d \in Tasks /\ status[d] # "SUCCESS"
    BY <1>0, <1>3, <1>4
  <2>3. x \in nodes
    BY <2>1, <2>2 DEF TypeOK
  <2>4. d \in deps[x]
    BY <2>1, <2>2 DEF EdgesOK, Settled, Permissive
  <2>5. status[x] = "PENDING"
    BY <1>3, <1>4, <2>1, <2>3, <2>4 DEF QueueOK, StatusOK, Reached
  <2> QED BY <2>1, <2>3, <2>4, <2>5
<1>6. ASSUME NEW d, NEW x, <<d, x>> \in E
      PROVE  d \in closed \union {t} /\ x \in dependents[d] \ failed /\ FailMode(d, x) \in Permissive
  <2>1. <<d, x>> \in Opened(closed \union {t})
    BY <1>3, <1>6
  <2> QED BY <2>1 DEF Opened
<1>7. ASSUME NEW x \in Freed(E)
      PROVE  /\ x \in nodes /\ x \notin failed
             /\ \A d \in deps[x] : <<d, x>> \in E
  <2>1. x \in Tasks /\ Without(E)[x] = {}
    BY DEF Freed
  <2>2. PICK e \in E : e[2] = x
    BY DEF Freed
  <2>3. e[2] \in dependents[e[1]] \ failed /\ e[1] \in Tasks
    BY <1>0, <1>3, <2>2 DEF Opened
  <2>4. x \in nodes /\ x \notin failed
    BY <2>2, <2>3 DEF TypeOK
  <2> QED BY <2>1, <2>4 DEF Without
<1>8. ASSUME NEW x \in nodes, x \notin Freed(E), status[x] = "PENDING"
      PROVE  \E d \in deps[x] : <<d, x>> \notin E
  <2>1. deps[x] # {} /\ x \in Tasks
    BY <1>0, <1>8 DEF QueueOK
  <2>2. CASE \E e \in E : e[2] = x
    <3>1. Without(E)[x] # {}
      BY <1>8, <2>1, <2>2 DEF Freed
    <3> QED BY <2>1, <3>1 DEF Without
  <2>3. CASE \A e \in E : e[2] # x
    <3>1. \A d : <<d, x>>[2] = x
      OBVIOUS
    <3> QED BY <2>1, <2>3, <3>1
  <2> QED BY <2>2, <2>3
<1> DEFINE freed == {x \in Freed(E) : x # t /\ x \notin closed /\ CanTransition(status[x], "READY")}
<1>9. \A x \in freed : x \in nodes /\ status[x] \in {"PENDING", "READY"}
  <2> SUFFICES ASSUME NEW x \in freed PROVE x \in nodes /\ status[x] \in {"PENDING", "READY"}
    OBVIOUS
  <2>1. x \in nodes /\ x \in Tasks /\ status[x] # "FAILED"
    BY <1>0, <1>7 DEF QueueOK
  <2>2. status[x] \in Reached /\ CanTransition(status[x], "READY")
    BY <2>1 DEF StatusOK
  <2> QED BY <2>1, <2>2, TransitionFacts
<1>10. \A x \in nodes : status[x] = "PENDING" =>
           x = t \/ x \in closed \/ x \in freed \/ \E d \in deps[x] : <<d, x>> \notin E
  <2>1. CanTransition("PENDING", "READY")
    BY DEF CanTransition, Allowed, TaskStatus
  <2> QED BY <1>8, <2>1
<1>11. deps' = [x \in Tasks |-> {d \in deps[x] : <<d, x>> \notin E}]
  BY <1>1, <1>2 DEF Without
<1>12. status' = [x \in Tasks |-> IF x = t THEN own ELSE IF x \in closed THEN "FAILED"
                                  ELSE IF x \in freed THEN "READY" ELSE status[x]]
  <2>1. status' = [x \in Tasks |->
               IF x = t THEN own ELSE IF x \in closed THEN "FAILED"
               ELSE IF x \in Freed(E) /\ CanTransition(status[x], "READY") THEN "READY"
               ELSE status[x]]
    BY <1>1, <1>2
  <2> QED BY <2>1
<1>13. FailEffect(t, own, closed, freed, E)
  <2>1. \A x \in freed : /\ status[x] \in {"PENDING", "READY"} /\ x # t /\ x \notin closed
                         /\ \A d \in deps[x] : <<d, x>> \in E
    BY <1>7, <1>9
  <2> HIDE DEF freed
  <2> QED BY <1>1, <1>2, <1>5, <1>6, <1>10, <1>11, <1>12, <2>1 DEF FailEffect
<1>14. closed \in SUBSET nodes /\ freed \in SUBSET nodes
  BY <1>5, <1>9
<1> QED BY <1>13, <1>14

(* fail_task keeps the invariant, whatever execution it belongs to.        *)
LEMMA FailTaskKeepsInv ==
    ASSUME IndInv, NEW t \in nodes, NEW own \in {"FAILED", "CANCELLED"}, FailTask(t, own),
           status[t] # "SUCCESS", own = "FAILED" => status[t] \in {"RUNNING", "TIMEOUT"},
           event' \in BOOLEAN, exec' \in [Tasks -> {"none", "queued", "started"}],
           \A x \in Tasks : exec'[x] # "none" => exec[x] # "none",
           exec'[t] # "none" => own = "CANCELLED"
    PROVE  IndInv'
<1> USE DEF IndInv
<1>1. PICK closed, freed \in SUBSET nodes : \E E : FailEffect(t, own, closed, freed, E)
  BY FailTaskEffect
<1>2. PICK E : FailEffect(t, own, closed, freed, E)
  BY <1>1
<1>3. /\ t \in Tasks /\ nodes \subseteq Tasks
      /\ own = "FAILED" => t \notin queue /\ deps[t] = {}
  BY DEF TypeOK, QueueOK
<1>4. /\ \A x \in closed :
           /\ status[x] = "PENDING"
           /\ \E d \in closed \union {t} : d \in deps[x] /\ FailMode(d, x) = "fail_closed"
      /\ \A d \in Tasks, x \in Tasks : <<d, x>> \in E =>
             d \in closed \union {t} /\ FailMode(d, x) \in Permissive
      /\ \A x \in freed : /\ status[x] \in {"PENDING", "READY"} /\ x # t /\ x \notin closed
                          /\ \A d \in deps[x] : <<d, x>> \in E
      /\ \A x \in nodes : status[x] = "PENDING" =>
             x = t \/ x \in closed \/ x \in freed \/ \E d \in deps[x] : <<d, x>> \notin E
      /\ failed' = failed \union {t} \union closed
      /\ \A x \in Tasks : deps'[x] = {d \in deps[x] : <<d, x>> \notin E}
      /\ \A x \in Tasks : status'[x] = IF x = t THEN own ELSE IF x \in closed THEN "FAILED"
                                       ELSE IF x \in freed THEN "READY" ELSE status[x]
      /\ UNCHANGED <<wrapped, late, nodes, declared, dependents, queue, completed>>
  BY <1>2 DEF FailEffect, edgeVars
<1>5. \A x \in Tasks : \A d : d \in deps'[x] <=> d \in deps[x] /\ <<d, x>> \notin E
  <2>1. \A x \in Tasks : deps'[x] = {d \in deps[x] : <<d, x>> \notin E}
    BY <1>4
  <2> QED BY <2>1
<1>6. \A x \in Tasks, d \in Tasks : <<d, x>> \in E => d \in closed \union {t} /\ FailMode(d, x) \in Permissive
  BY <1>4
<1>7. \A x \in Tasks : status'[x] = IF x = t THEN own ELSE IF x \in closed THEN "FAILED"
                                      ELSE IF x \in freed THEN "READY" ELSE status[x]
  BY <1>4
<1>8. TypeOK'
  <2>1. status' \in [Tasks -> TaskStatus] /\ deps' \in [Tasks -> SUBSET Tasks]
    BY <1>2 DEF FailEffect, TypeOK, TaskStatus
  <2> QED BY <1>4, <2>1, ZenonT(30) DEF TypeOK
<1>9. StatusOK'
  <2> SUFFICES ASSUME NEW x \in Tasks
               PROVE  /\ status'[x] \in Reached
                      /\ x \notin nodes => status'[x] = "PENDING" /\ deps'[x] = {} /\ dependents[x] = {}
    BY <1>4 DEF StatusOK
  <2>1. status'[x] = status[x] \/ (status'[x] \in {"FAILED", "CANCELLED", "READY"} /\ x \in nodes)
    BY <1>4
  <2>2. deps'[x] \subseteq deps[x]
    BY <1>5
  <2> QED BY <2>1, <2>2 DEF StatusOK, Reached
<1>10. ASSUME NEW d \in Tasks, status[d] \in {"FAILED", "CANCELLED"} \/ d \in closed \union {t}
      PROVE  status'[d] \in {"FAILED", "CANCELLED"}
  BY <1>4, <1>10
<1>11. ASSUME NEW x \in Tasks, NEW d \in deps[x], FailMode(d, x) = "fail_closed"
      PROVE  d \in deps'[x]
  <2>1. d \in Tasks /\ FailMode(d, x) \notin Permissive
    BY <1>3, <1>11 DEF TypeOK, Permissive
  <2> QED BY <1>5, <1>6, <2>1
<1>12. QueueOK'
  <2> SUFFICES ASSUME NEW x \in nodes
               PROVE  /\ status'[x] = "READY" => x \in queue /\ deps'[x] = {}
                      /\ status'[x] = "PENDING" => x \in queue /\ deps'[x] # {}
                      /\ status'[x] \in {"RUNNING", "TIMEOUT", "SUCCESS"} => x \notin queue /\ deps'[x] = {}
                      /\ status'[x] = "FAILED" => x \in failed' /\ IF x \in queue THEN Doomed(x)' ELSE deps'[x] = {}
    BY <1>4 DEF QueueOK
  <2>1. x \in Tasks /\ deps[x] \subseteq Tasks
    BY DEF TypeOK
  <2>2. ASSUME NEW d \in deps[x], status[d] \in {"FAILED", "CANCELLED"} \/ d \in closed \union {t},
               FailMode(d, x) = "fail_closed"
        PROVE  Doomed(x)'
    <3>1. d \in deps'[x] /\ status'[d] \in {"FAILED", "CANCELLED"}
      BY <1>10, <1>11, <2>1, <2>2
    <3> QED BY <2>2, <3>1 DEF Doomed, FailMode
  <2>3. CASE x = t
    <3>1. status'[t] = own /\ t \in failed' /\ deps'[t] \subseteq deps[t]
      BY <1>4, <1>5, <2>1, <2>3
    <3> QED BY <1>3, <2>3, <3>1
  <2>4. CASE x \in closed /\ x # t
    <3>1. status'[x] = "FAILED" /\ x \in failed'
      BY <1>4, <2>1, <2>4
    <3>2. Doomed(x)' /\ x \in queue
      BY <1>4, <2>2, <2>4 DEF QueueOK
    <3> QED BY <3>1, <3>2
  <2>5. CASE x \in freed
    <3>1. status'[x] = "READY" /\ deps'[x] = {}
      BY <1>4, <2>1, <2>5
    <3>2. x \in queue
      BY <1>4, <2>5 DEF QueueOK
    <3> QED BY <3>1, <3>2
  <2>6. CASE x # t /\ x \notin closed /\ x \notin freed
    <3>1. status'[x] = status[x] /\ deps'[x] \subseteq deps[x]
      BY <1>5, <1>7, <2>1, <2>6
    <3>2. status[x] = "PENDING" => deps'[x] # {}
      <4>1. status[x] = "PENDING" => \E d \in deps[x] : <<d, x>> \notin E
        BY <1>4, <2>6
      <4> QED BY <1>5, <2>1, <4>1
    <3>3. Doomed(x) => Doomed(x)'
      BY <2>2 DEF Doomed
    <3> QED BY <1>4, <3>1, <3>2, <3>3 DEF QueueOK
  <2> QED BY <2>3, <2>4, <2>5, <2>6
<1>13. EdgesOK'
  <2> SUFFICES ASSUME NEW d \in Tasks, NEW x \in dependents[d]
               PROVE  d \in deps'[x] \/ Settled(d, x)'
    BY <1>4 DEF EdgesOK
  <2>1. x \in Tasks
    BY <1>3 DEF TypeOK
  <2>2. CASE d \in deps[x] /\ <<d, x>> \notin E
    BY <1>4, <2>1, <2>2, SMT
  <2>3. CASE <<d, x>> \in E
    BY <1>4, <1>10, <2>1, <2>3 DEF Settled, FailMode
  <2>4. CASE Settled(d, x)
    <3>1. status[d] = "SUCCESS" => status'[d] = "SUCCESS"
      BY <1>4
    <3> QED BY <1>10, <2>4, <3>1 DEF Settled, FailMode
  <2> QED BY <2>2, <2>3, <2>4 DEF EdgesOK
<1>14. SetsOK'
  <2>1. \A x \in completed : x \in Tasks /\ status'[x] = "SUCCESS"
    BY <1>3, <1>4 DEF SetsOK, TypeOK
  <2>2. \A x \in failed' : status'[x] \in {"FAILED", "CANCELLED"}
    BY <1>3, <1>4, <1>10 DEF SetsOK, TypeOK
  <2> QED BY <1>4, <2>1, <2>2 DEF SetsOK
<1>15. ExecOK'
  BY <1>3, <1>4 DEF ExecOK
<1> QED BY <1>8, <1>9, <1>12, <1>13, <1>14, <1>15

(* A step of an execution alone: an attempt times out, starts or succeeds. *)
LEMMA ExecutionKeepsInv ==
    ASSUME IndInv, NEW t \in Tasks, exec[t] # "none",
           NEW s \in Reached, s = status[t] \/ (status[t] \in {"RUNNING", "TIMEOUT"} /\ s \in {"RUNNING", "TIMEOUT", "SUCCESS"}),
           status' = [status EXCEPT ![t] = s],
           event' \in BOOLEAN,
           NEW e \in {"none", "queued", "started"}, exec' = [exec EXCEPT ![t] = e],
           s = "SUCCESS" => e = "none",
           UNCHANGED <<wrapped, late, edgeVars, deps, queue, completed, failed>>
    PROVE  IndInv'
<1> USE DEF IndInv
<1>1. t \in nodes /\ t \notin queue /\ status[t] \in {"RUNNING", "TIMEOUT", "CANCELLED"}
  BY DEF ExecOK
<1>2. /\ \A x \in Tasks : status'[x] = IF x = t THEN s ELSE status[x]
      /\ \A x \in Tasks : exec'[x] = IF x = t THEN e ELSE exec[x]
      /\ UNCHANGED <<wrapped, late, nodes, declared, dependents, deps, queue, completed, failed>>
  BY DEF TypeOK, edgeVars
<1>3. TypeOK'
  BY <1>2 DEF TypeOK, TaskStatus, Reached
<1>4. StatusOK'
  BY <1>1, <1>2 DEF StatusOK
<1>5. QueueOK'
  <2> SUFFICES ASSUME NEW x \in nodes
               PROVE  /\ status'[x] = "READY" => x \in queue /\ deps[x] = {}
                      /\ status'[x] = "PENDING" => x \in queue /\ deps[x] # {}
                      /\ status'[x] \in {"RUNNING", "TIMEOUT", "SUCCESS"} => x \notin queue /\ deps[x] = {}
                      /\ status'[x] = "FAILED" => x \in failed /\ IF x \in queue THEN Doomed(x)' ELSE deps[x] = {}
    BY <1>2 DEF QueueOK
  <2>1. x \in Tasks /\ deps[x] \subseteq Tasks
    BY DEF TypeOK
  <2>2. x # t /\ Doomed(x) => Doomed(x)'
    <3> SUFFICES ASSUME NEW d \in deps[x], status[d] \in {"FAILED", "CANCELLED"}, FailMode(d, x) = "fail_closed"
                 PROVE  d \in deps'[x] /\ status'[d] = status[d]
      BY DEF Doomed, FailMode
    <3> QED BY <1>2, <2>1
  <2>3. CASE x = t
    BY <1>1, <1>2, <2>1, <2>3 DEF QueueOK
  <2>4. CASE x # t
    BY <1>2, <2>1, <2>2, <2>4 DEF QueueOK
  <2> QED BY <2>3, <2>4
<1>6. EdgesOK'
  BY <1>1, <1>2 DEF EdgesOK, Settled, FailMode
<1>7. SetsOK'
  BY <1>1, <1>2 DEF SetsOK, TypeOK
<1>8. ExecOK'
  BY <1>1, <1>2 DEF ExecOK
<1> QED BY <1>3, <1>4, <1>5, <1>6, <1>7, <1>8

-----------------------------------------------------------------------------
(* Every step keeps the invariant.                                         *)
LEMMA NextKeepsInv ==
    ASSUME IndInv, [Next]_vars, ~late'
    PROVE  IndInv'
<1> USE DEF IndInv
<1>0. nodes \subseteq Tasks
  BY DEF TypeOK
<1>1. ASSUME NEW t \in Tasks, NEW D \in SUBSET Tasks, SubmitTask(t, D) \/ EnqueueUnchecked(t, D) \/ SpawnTask(t, D)
      PROVE  IndInv'
  <2>1. \E E \in SUBSET Tasks : t \notin nodes /\ t \notin E /\ Enqueue(t, E)
    BY <1>0, <1>1 DEF SubmitTask, EnqueueUnchecked, SpawnTask
  <2> QED BY <2>1, EnqueueKeepsInv
<1>2. ASSUME NEW t \in Tasks, NEW parent \in Tasks, AddDynamicTask(t, parent)
      PROVE  IndInv'
  <2>1. {parent} \in SUBSET Tasks /\ t \notin nodes /\ t \notin {parent} /\ Enqueue(t, {parent})
    BY <1>2 DEF AddDynamicTask
  <2> QED BY <2>1, EnqueueKeepsInv
<1>3. ASSUME NEW t \in Tasks, NEW D \in SUBSET Tasks, AddTaskDependencies(t, D)
      PROVE  IndInv'
  <2>1. ~wrapped => status[t] # "TIMEOUT"
    BY <1>3 DEF AddTaskDependencies, AddDependencies
  <2>2. CASE wrapped
    BY <1>3, <2>2, DeclaringKeepsInv DEF AddTaskDependencies
  <2>3. CASE ~wrapped
    BY <1>3, <2>1, <2>3, AddDependenciesKeepsInv DEF AddTaskDependencies
  <2> QED BY <2>2, <2>3
<1>4. ASSUME NEW t \in Tasks, EndExecution(t)
      PROVE  /\ event' \in BOOLEAN /\ exec' \in [Tasks -> {"none", "queued", "started"}]
             /\ \A x \in Tasks : exec'[x] # "none" => exec[x] # "none"
             /\ exec'[t] = "none" /\ exec' = [exec EXCEPT ![t] = "none"]
  BY <1>4 DEF EndExecution, TypeOK
<1>5. ASSUME NEW t \in Tasks, CancelTask(t)
      PROVE  IndInv'
  <2>1. /\ t \in nodes /\ status[t] # "SUCCESS" /\ FailTask(t, "CANCELLED")
        /\ event' \in BOOLEAN /\ exec' = exec
    BY <1>5 DEF CancelTask, TypeOK
  <2> QED BY <2>1, FailTaskKeepsInv DEF TypeOK
<1>6. ASSUME NEW t \in Tasks, DeadlineExpired(t)
      PROVE  IndInv'
  <2>1. /\ t \in nodes /\ status[t] # "SUCCESS" /\ FailTask(t, "CANCELLED") /\ EndExecution(t)
    BY <1>6 DEF DeadlineExpired, ExecOK
  <2> QED BY <1>4, <2>1, FailTaskKeepsInv
<1>7. ASSUME NEW t \in Tasks, FinishFailure(t)
      PROVE  IndInv'
  <2>1. /\ t \in nodes /\ status[t] \in {"RUNNING", "TIMEOUT"} /\ FailTask(t, "FAILED") /\ EndExecution(t)
    BY <1>7 DEF FinishFailure, ExecOK
  <2> QED BY <1>4, <2>1, FailTaskKeepsInv
<1>8. ASSUME NEW t \in Tasks, FinishSuccess(t)
      PROVE  IndInv'
  <2>1. t \in nodes /\ status[t] = "RUNNING" /\ CompleteTask(t) /\ EndExecution(t)
    BY <1>8 DEF FinishSuccess, ExecOK
  <2> QED BY <2>1, CompleteTaskKeepsInv
<1>9. ASSUME NEW t \in Tasks PROVE status = [status EXCEPT ![t] = status[t]] /\ exec = [exec EXCEPT ![t] = exec[t]]
  BY DEF TypeOK
<1>10. ASSUME NEW t \in Tasks, StartExecution(t)
       PROVE  IndInv'
  <2>1. /\ exec[t] # "none" /\ status' = [status EXCEPT ![t] = status[t]] /\ status[t] \in Reached
        /\ event' \in BOOLEAN /\ exec' = [exec EXCEPT ![t] = "started"]
        /\ status[t] # "SUCCESS"
        /\ UNCHANGED <<wrapped, late, edgeVars, deps, queue, completed, failed>>
    BY <1>9, <1>10 DEF StartExecution, StatusOK, TypeOK, ExecOK
  <2> QED BY <2>1, ExecutionKeepsInv
<1>11. ASSUME NEW t \in Tasks, FinishCancelled(t)
       PROVE  IndInv'
  <2>1. /\ exec[t] # "none" /\ status' = [status EXCEPT ![t] = "CANCELLED"] /\ status[t] = "CANCELLED"
        /\ EndExecution(t) /\ UNCHANGED <<wrapped, late, edgeVars, deps, queue, completed, failed>>
    BY <1>9, <1>11 DEF FinishCancelled
  <2> QED BY <1>4, <2>1, ExecutionKeepsInv DEF Reached
<1>12. ASSUME NEW t \in Tasks, AttemptTimeout(t) \/ NextAttempt(t)
       PROVE  IndInv'
  <2>1. /\ exec[t] # "none" /\ status[t] \in {"RUNNING", "TIMEOUT"}
        /\ exec' = [exec EXCEPT ![t] = "started"] /\ event' \in BOOLEAN
        /\ UNCHANGED <<wrapped, late, edgeVars, deps, queue, completed, failed>>
    BY <1>9, <1>12 DEF AttemptTimeout, NextAttempt, TypeOK
  <2>2. CASE AttemptTimeout(t)
    <3>1. status' = [status EXCEPT ![t] = "TIMEOUT"]
      BY <2>2 DEF AttemptTimeout
    <3> QED BY <2>1, <3>1, ExecutionKeepsInv DEF Reached
  <2>3. CASE NextAttempt(t)
    <3>1. status' = [status EXCEPT ![t] = "RUNNING"]
      BY <2>3 DEF NextAttempt
    <3> QED BY <2>1, <3>1, ExecutionKeepsInv DEF Reached
  <2> QED BY <1>12, <2>2, <2>3
<1>13. ASSUME NEW t \in Tasks, FinishUnrecorded(t)
       PROVE  IndInv'
  <2>1. /\ exec[t] # "none" /\ status' = [status EXCEPT ![t] = "SUCCESS"] /\ status[t] = "RUNNING"
        /\ EndExecution(t) /\ UNCHANGED <<wrapped, late, edgeVars, deps, queue, completed, failed>>
    BY <1>13 DEF FinishUnrecorded
  <2> QED BY <1>4, <2>1, ExecutionKeepsInv DEF Reached
<1>14. CASE UNCHANGED vars
  BY <1>14, SMT DEF vars, edgeVars, TypeOK, StatusOK, QueueOK, EdgesOK, SetsOK, ExecOK, Doomed, Settled, FailMode
<1>15. ASSUME NEW ok, ScheduleTick(ok) PROVE IndInv'
  BY <1>15, ScheduleTickKeepsInv
<1> QED BY <1>1, <1>2, <1>3, <1>5, <1>6, <1>7, <1>8, <1>10, <1>11, <1>12, <1>13, <1>14, <1>15 DEF Next

(* What happened between two attempts stays known.                         *)
LEMMA LateStays ==
    ASSUME late, [Next]_vars
    PROVE  late'
<1>1. ASSUME NEW t \in Tasks, NEW D, SubmitTask(t, D) \/ EnqueueUnchecked(t, D) \/ SpawnTask(t, D)
      PROVE  late'
  BY <1>1 DEF SubmitTask, EnqueueUnchecked, SpawnTask, Enqueue
<1>2. ASSUME NEW t \in Tasks, NEW D, AddTaskDependencies(t, D)
      PROVE  late'
  BY <1>2 DEF AddTaskDependencies, AddDependencies
<1>3. ASSUME NEW t \in Tasks, NEW parent, AddDynamicTask(t, parent)
      PROVE  late'
  BY <1>3 DEF AddDynamicTask, Enqueue
<1>4. ASSUME NEW ok, ScheduleTick(ok) PROVE late'
  BY <1>4 DEF ScheduleTick
<1>5. ASSUME NEW t \in Tasks, NEW own, FailTask(t, own) PROVE late'
  BY <1>5 DEF FailTask
<1>6. ASSUME NEW t \in Tasks, CancelTask(t) \/ DeadlineExpired(t) \/ FinishFailure(t) PROVE late'
  BY <1>5, <1>6 DEF CancelTask, DeadlineExpired, FinishFailure
<1>7. ASSUME NEW t \in Tasks, FinishSuccess(t) PROVE late'
  BY <1>7 DEF FinishSuccess, CompleteTask
<1>8. ASSUME NEW t \in Tasks,
             StartExecution(t) \/ AttemptTimeout(t) \/ NextAttempt(t) \/ FinishCancelled(t) \/ FinishUnrecorded(t)
      PROVE  late'
  BY <1>8 DEF StartExecution, AttemptTimeout, NextAttempt, FinishCancelled, FinishUnrecorded
<1>9. CASE UNCHANGED vars
  BY <1>9 DEF vars
<1> QED BY <1>1, <1>2, <1>3, <1>4, <1>6, <1>7, <1>8, <1>9 DEF Next

(* The inductive invariant, until a task is given dependencies late.       *)
THEOREM Invariance == Spec => [](late \/ IndInv)
<1>1. Init => IndInv
  BY DEF Init, IndInv, TypeOK, StatusOK, QueueOK, EdgesOK, SetsOK, ExecOK, Reached, TaskStatus
<1>2. (late \/ IndInv) /\ [Next]_vars => (late \/ IndInv)'
  BY NextKeepsInv, LateStays
<1> QED BY <1>1, <1>2, PTL DEF Spec

(* DAGScheduler.dequeue hands out, of the tasks that wait for nothing, only *)
(* READY ones, or raises on a cancelled one, until a task is given         *)
(* dependencies between two attempts of it.                                *)
THEOREM FreeAlwaysReady == Spec => [](late \/ FreeIsReady)
BY Invariance, FreeFacts, PTL

-----------------------------------------------------------------------------
(* What each phase says about the status behind it.                        *)
LEMMA PhaseFacts ==
    ASSUME IndInv, NEW x \in Tasks
    PROVE  IF x \notin nodes THEN Phase[x] = "absent"
           ELSE /\ Phase[x] # "absent"
                /\ (Phase[x] = "queued") = (status[x] \in {"PENDING", "READY"})
                /\ (Phase[x] = "running") = (status[x] = "RUNNING")
                /\ (Phase[x] = "timedout") = (status[x] = "TIMEOUT")
                /\ (Phase[x] = "done") = (status[x] = "SUCCESS")
                /\ (Phase[x] = "failed") = (status[x] = "FAILED")
                /\ (Phase[x] = "cancelled") = (status[x] = "CANCELLED")
<1>1. status[x] \in Reached
  BY DEF IndInv, StatusOK
<1> QED BY <1>1, SMT DEF Phase, PhaseOf, Reached

(* enqueue is a submission, with the dependencies it finds.                *)
LEMMA EnqueueSubmits ==
    ASSUME IndInv, NEW t \in Tasks, t \notin nodes, NEW D, Enqueue(t, D)
    PROVE  Graph!Submit(t, D \intersect nodes)
<1> DEFINE E == D \intersect nodes
<1>1. Phase[t] = "absent" /\ E \subseteq Graph!Known
  BY PhaseFacts DEF IndInv, TypeOK, Graph!Known
<1>2. Phase' = [Phase EXCEPT ![t] = "queued"]
  BY DEF Enqueue, IndInv, TypeOK, Phase, PhaseOf
<1>3. Needs' = [Needs EXCEPT ![t] = E]
  <2>1. \A d \in Tasks : t \notin dependents[d]
    BY DEF IndInv, TypeOK
  <2>2. \A d \in Tasks : dependents'[d] = IF d \in E THEN dependents[d] \union {t} ELSE dependents[d]
    BY DEF Enqueue
  <2>3. E \subseteq Tasks
    BY DEF IndInv, TypeOK
  <2> HIDE DEF E
  <2>4. ASSUME NEW x \in Tasks
        PROVE  {d \in Tasks : x \in dependents'[d]} = IF x = t THEN E ELSE {d \in Tasks : x \in dependents[d]}
    BY <2>1, <2>2, <2>3
  <2> QED BY <2>4 DEF Needs
<1> HIDE DEF E
<1>4. Graph!Submit(t, E)
  BY <1>1, <1>2, <1>3 DEF Graph!Submit
<1> QED BY <1>4 DEF E

(* add_dependencies of the scheduler itself asks for more.                 *)
LEMMA AddDependenciesAddsNeeds ==
    ASSUME IndInv, NEW t \in Tasks, status[t] # "TIMEOUT", NEW D, AddDependencies(t, D)
    PROVE  Graph!AddNeeds(t, D \ deps[t])
<1> DEFINE new == D \ deps[t]
<1>1. /\ t \in nodes /\ D \subseteq nodes /\ t \notin D /\ nodes' = nodes
      /\ status[t] \notin {"RUNNING", "SUCCESS", "FAILED", "CANCELLED"}
      /\ dependents' = [d \in Tasks |-> IF d \in new THEN dependents[d] \union {t} ELSE dependents[d]]
      /\ status' = status \/ status' = [status EXCEPT ![t] = "PENDING"]
  BY DEF AddDependencies, MayAdd
<1>2. status[t] \in {"PENDING", "READY"}
  BY <1>1 DEF IndInv, StatusOK, Reached
<1>3. Phase[t] = "queued" /\ new \subseteq Graph!Known \ {t}
  BY <1>1, <1>2, PhaseFacts DEF IndInv, TypeOK, Graph!Known
<1>4. Phase' = Phase
  BY <1>1, <1>2 DEF Phase, PhaseOf, IndInv, TypeOK
<1>5. Needs' = [Needs EXCEPT ![t] = @ \union new]
  <2>1. new \subseteq Tasks
    BY <1>1 DEF IndInv, TypeOK
  <2>2. ASSUME NEW x \in Tasks
        PROVE  {d \in Tasks : x \in dependents'[d]}
                 = IF x = t THEN {d \in Tasks : x \in dependents[d]} \union new
                   ELSE {d \in Tasks : x \in dependents[d]}
    BY <1>1, <2>1
  <2> QED BY <2>2 DEF Needs
<1> QED BY <1>3, <1>4, <1>5 DEF Graph!AddNeeds

(* A turn of the loop starts tasks, and what each needs is over.           *)
LEMMA TickStarts ==
    ASSUME IndInv, NEW ok, ScheduleTick(ok)
    PROVE  \E S \in SUBSET Tasks : Graph!Start(S)
<1>1. PICK batch, hit \in SUBSET queue : TickEffect(batch, hit)
  BY ScheduleTickEffect
<1>2. batch \subseteq nodes /\ nodes \subseteq Tasks
  BY DEF IndInv, TypeOK
<1>3. /\ \A x \in batch : status[x] = "READY" /\ deps[x] = {}
      /\ status' = [x \in Tasks |-> IF x \in batch THEN "RUNNING" ELSE status[x]]
      /\ UNCHANGED <<nodes, dependents>>
  BY <1>1 DEF TickEffect, edgeVars
<1>4. ASSUME NEW x \in batch PROVE Phase[x] = "queued"
  BY <1>2, <1>3, PhaseFacts
<1>5. ASSUME NEW x \in batch, NEW d \in Needs[x] PROVE Graph!Over(d, x)
  <2>1. d \in Tasks /\ x \in Tasks /\ x \in dependents[d]
    BY <1>2 DEF Needs
  <2>2. Settled(d, x)
    BY <1>3, <2>1 DEF IndInv, EdgesOK
  <2>3. d \in nodes
    BY <2>1 DEF IndInv, StatusOK
  <2>4. Phase[d] = "done" \/ (Phase[d] \in {"failed", "cancelled"} /\ FailMode(d, x) \in Permissive)
    BY <2>1, <2>2, <2>3, PhaseFacts DEF Settled
  <2> QED BY <2>1, <2>4 DEF Graph!Over, Graph!Accepting, Permissive
<1>6. Phase' = [x \in Tasks |-> IF x \in batch THEN "running" ELSE Phase[x]]
  BY <1>2, <1>3 DEF Phase, PhaseOf
<1>7. Needs' = Needs
  BY <1>3 DEF Needs
<1>8. Graph!Start(batch)
  BY <1>4, <1>5, <1>6, <1>7 DEF Graph!Start
<1> QED BY <1>2, <1>8

(* fail_task makes t fall, and with it tasks along fail_closed edges.      *)
LEMMA FailTaskFalls ==
    ASSUME IndInv, NEW t \in nodes, NEW own \in {"FAILED", "CANCELLED"}, FailTask(t, own),
           status[t] # "SUCCESS", own = "FAILED" => status[t] \in {"RUNNING", "TIMEOUT"},
           own = "CANCELLED" => status[t] # "FAILED"
    PROVE  \E S \in SUBSET Tasks : Graph!Fall(t, PhaseOf(own), S)
<1>1. PICK closed, freed \in SUBSET nodes : \E E : FailEffect(t, own, closed, freed, E)
  BY FailTaskEffect
<1>2. PICK E : FailEffect(t, own, closed, freed, E)
  BY <1>1
<1>3. /\ \A x \in closed :
           /\ status[x] = "PENDING"
           /\ \E d \in closed \union {t} : x \in dependents[d] /\ FailMode(d, x) = "fail_closed"
      /\ \A x \in freed : status[x] \in {"PENDING", "READY"}
      /\ status' = [x \in Tasks |-> IF x = t THEN own ELSE IF x \in closed THEN "FAILED"
                                    ELSE IF x \in freed THEN "READY" ELSE status[x]]
      /\ UNCHANGED <<nodes, dependents>>
  BY <1>2 DEF FailEffect, edgeVars
<1>4. t \in Tasks /\ nodes \subseteq Tasks
  BY DEF IndInv, TypeOK
<1>5. Phase[t] \in Graph!Ending(PhaseOf(own))
  <2>1. status[t] \in Reached
    BY <1>4 DEF IndInv, StatusOK
  <2> QED BY <1>4, <2>1 DEF Phase, PhaseOf, Reached, Graph!Ending
<1>6. ASSUME NEW x \in closed
      PROVE  /\ Phase[x] = "queued"
             /\ \E d \in closed \union {t} : d \in Needs[x] /\ d \in Tasks /\ x \in Tasks /\ FailMode(d, x) = "fail_closed"
  <2>1. Phase[x] = "queued"
    BY <1>3, <1>4, PhaseFacts
  <2> QED BY <1>3, <1>4, <2>1 DEF Needs
<1>7. Phase' = [x \in Tasks |-> IF x = t THEN PhaseOf(own)
                               ELSE IF x \in closed THEN "failed" ELSE Phase[x]]
  BY <1>3, <1>4 DEF Phase, PhaseOf
<1>8. Needs' = Needs
  BY <1>3 DEF Needs
<1>9. Graph!Fall(t, PhaseOf(own), closed)
  BY <1>5, <1>6, <1>7, <1>8 DEF Graph!Fall
<1> QED BY <1>4, <1>9

(* A step of an execution alone moves its task.                            *)
LEMMA ExecutionMoves ==
    ASSUME IndInv, NEW t \in nodes, NEW from, NEW to, status[t] = from,
           status' = [status EXCEPT ![t] = to], UNCHANGED <<nodes, dependents>>
    PROVE  Graph!Moves(t, PhaseOf(from), PhaseOf(to))
<1>1. t \in Tasks
  BY DEF IndInv, TypeOK
<1>2. Phase[t] = PhaseOf(from) /\ Phase' = [Phase EXCEPT ![t] = PhaseOf(to)]
  BY <1>1 DEF Phase, IndInv, TypeOK
<1>3. Needs' = Needs
  BY DEF Needs
<1> QED BY <1>2, <1>3 DEF Graph!Moves

(* complete_task moves t to its end, and frees tasks unseen.               *)
LEMMA CompleteTaskMoves ==
    ASSUME IndInv, NEW t \in nodes, status[t] = "RUNNING", CompleteTask(t)
    PROVE  Graph!Moves(t, "running", "done")
<1>1. PICK gone \in SUBSET dependents[t] : \E freed \in SUBSET gone : CompleteEffect(t, gone, freed)
  BY CompleteTaskEffect
<1>2. PICK freed \in SUBSET gone : CompleteEffect(t, gone, freed)
  BY <1>1
<1>3. /\ t \in Tasks /\ UNCHANGED <<nodes, dependents>>
      /\ \A x \in freed : status[x] = "PENDING"
      /\ status' = [x \in Tasks |-> IF x = t THEN "SUCCESS" ELSE IF x \in freed THEN "READY" ELSE status[x]]
  BY <1>2 DEF CompleteEffect, edgeVars, IndInv, TypeOK
<1>4. Phase[t] = "running" /\ Phase' = [Phase EXCEPT ![t] = "done"]
  BY <1>3 DEF Phase, PhaseOf
<1>5. Needs' = Needs
  BY <1>3 DEF Needs
<1> QED BY <1>4, <1>5 DEF Graph!Moves

(* Every step is a step of TaskGraph, or invisible in it.                  *)
LEMMA NextSimulates ==
    ASSUME IndInv, [Next]_vars, ~late'
    PROVE  [Graph!Next]_(Graph!graph)
<1>0. nodes \subseteq Tasks
  BY DEF IndInv, TypeOK
<1>1. SUFFICES \/ UNCHANGED <<Phase, Needs>>
               \/ \E t \in Tasks : \/ Graph!Moves(t, "running", "timedout")
                                   \/ Graph!Moves(t, "timedout", "running")
                                   \/ Graph!Moves(t, "running", "done")
               \/ \E t \in Tasks, D \in SUBSET Tasks : Graph!Submit(t, D) \/ Graph!AddNeeds(t, D)
               \/ \E S \in SUBSET Tasks : Graph!Start(S)
               \/ \E t \in Tasks, S \in SUBSET Tasks : Graph!Fall(t, "failed", S) \/ Graph!Fall(t, "cancelled", S)
  BY DEF Graph!Next, Graph!graph
<1>2. ASSUME NEW t \in Tasks, t \notin nodes, NEW D, Enqueue(t, D)
      PROVE  \E E \in SUBSET Tasks : Graph!Submit(t, E)
  <2>1. Graph!Submit(t, D \intersect nodes) /\ D \intersect nodes \in SUBSET Tasks
    BY <1>0, <1>2, EnqueueSubmits
  <2> QED BY <2>1
<1>3. ASSUME NEW t \in Tasks, NEW D \in SUBSET Tasks, SubmitTask(t, D) \/ EnqueueUnchecked(t, D) \/ SpawnTask(t, D)
      PROVE  \E E \in SUBSET Tasks : Graph!Submit(t, E)
  <2>1. \E E : t \notin nodes /\ Enqueue(t, E)
    BY <1>3 DEF SubmitTask, EnqueueUnchecked, SpawnTask
  <2> QED BY <1>2, <2>1
<1>4. ASSUME NEW t \in Tasks, NEW parent \in Tasks, AddDynamicTask(t, parent)
      PROVE  \E E \in SUBSET Tasks : Graph!Submit(t, E)
  <2>1. t \notin nodes /\ Enqueue(t, {parent})
    BY <1>4 DEF AddDynamicTask
  <2> QED BY <1>2, <2>1
<1>5. ASSUME UNCHANGED <<status, nodes, dependents>>
      PROVE  UNCHANGED <<Phase, Needs>>
  BY <1>5 DEF Phase, Needs
<1>6. ASSUME NEW t \in Tasks, NEW D \in SUBSET Tasks, AddTaskDependencies(t, D)
      PROVE  UNCHANGED <<Phase, Needs>> \/ \E E \in SUBSET Tasks : Graph!AddNeeds(t, E)
  <2>1. ~wrapped => status[t] # "TIMEOUT"
    BY <1>6 DEF AddTaskDependencies, AddDependencies
  <2>2. CASE wrapped
    BY <1>5, <1>6, <2>2 DEF AddTaskDependencies
  <2>3. CASE ~wrapped
    <3>1. Graph!AddNeeds(t, D \ deps[t])
      BY <1>6, <2>1, <2>3, AddDependenciesAddsNeeds DEF AddTaskDependencies
    <3> QED BY <3>1
  <2> QED BY <2>2, <2>3
<1>7. ASSUME NEW ok, ScheduleTick(ok) PROVE \E S \in SUBSET Tasks : Graph!Start(S)
  BY <1>7, TickStarts
<1>8. ASSUME NEW t \in Tasks, CancelTask(t) \/ DeadlineExpired(t)
      PROVE  \E S \in SUBSET Tasks : Graph!Fall(t, "cancelled", S)
  <2>1. /\ t \in nodes /\ FailTask(t, "CANCELLED")
        /\ status[t] # "SUCCESS" /\ status[t] # "FAILED"
    <3>1. CASE CancelTask(t)
      BY <3>1 DEF CancelTask
    <3>2. CASE DeadlineExpired(t)
      BY <3>2 DEF DeadlineExpired, IndInv, ExecOK
    <3> QED BY <1>8, <3>1, <3>2
  <2> QED BY <2>1, FailTaskFalls DEF PhaseOf
<1>9. ASSUME NEW t \in Tasks, FinishFailure(t)
      PROVE  \E S \in SUBSET Tasks : Graph!Fall(t, "failed", S)
  <2>1. t \in nodes /\ status[t] \in {"RUNNING", "TIMEOUT"} /\ FailTask(t, "FAILED")
    BY <1>9 DEF FinishFailure, IndInv, ExecOK
  <2> QED BY <2>1, FailTaskFalls DEF PhaseOf
<1>10. ASSUME NEW t \in Tasks, FinishSuccess(t)
       PROVE  Graph!Moves(t, "running", "done")
  BY <1>10, CompleteTaskMoves DEF FinishSuccess, IndInv, ExecOK
<1>11. ASSUME NEW t \in Tasks, FinishUnrecorded(t)
       PROVE  Graph!Moves(t, "running", "done")
  BY <1>11, ExecutionMoves DEF FinishUnrecorded, IndInv, ExecOK, edgeVars, PhaseOf
<1>12. ASSUME NEW t \in Tasks, AttemptTimeout(t)
       PROVE  Graph!Moves(t, "running", "timedout")
  <2>1. Graph!Moves(t, PhaseOf("RUNNING"), PhaseOf("TIMEOUT"))
    BY <1>12, ExecutionMoves DEF AttemptTimeout, IndInv, ExecOK, edgeVars
  <2> QED BY <2>1 DEF PhaseOf
<1>13. ASSUME NEW t \in Tasks, NextAttempt(t)
       PROVE  Graph!Moves(t, "timedout", "running")
  BY <1>13, ExecutionMoves DEF NextAttempt, IndInv, ExecOK, edgeVars, PhaseOf
<1>14. ASSUME NEW t \in Tasks, StartExecution(t) \/ FinishCancelled(t)
       PROVE  UNCHANGED <<Phase, Needs>>
  BY <1>5, <1>14 DEF StartExecution, FinishCancelled, edgeVars
<1>15. CASE UNCHANGED vars
  BY <1>5, <1>15 DEF vars, edgeVars
<1>16. CASE \E t \in Tasks, D \in SUBSET Tasks : SubmitTask(t, D) \/ EnqueueUnchecked(t, D)
                                            \/ SpawnTask(t, D) \/ AddTaskDependencies(t, D)
  BY <1>3, <1>6, <1>16
<1>17. CASE \E t, parent \in Tasks : AddDynamicTask(t, parent)
  BY <1>4, <1>17
<1>18. CASE \E t \in Tasks :
        \/ CancelTask(t) \/ StartExecution(t) \/ DeadlineExpired(t) \/ AttemptTimeout(t)
        \/ NextAttempt(t) \/ FinishCancelled(t) \/ FinishSuccess(t) \/ FinishUnrecorded(t)
        \/ FinishFailure(t)
  BY <1>8, <1>9, <1>10, <1>11, <1>12, <1>13, <1>14, <1>18
<1> QED BY <1>7, <1>15, <1>16, <1>17, <1>18 DEF Next

(* DAGScheduler, alone or wrapped, implements TaskGraph for the edges it   *)
(* knows, until a task is given dependencies between two attempts of it: a *)
(* task starts only when all it needs is over, what has ended stays ended, *)
(* and failures spread along fail_closed edges only.                       *)
THEOREM Refinement == Spec => ImplementsTaskGraph
<1>1. Init => Graph!Init
  BY DEF Init, Graph!Init, Phase, Needs
<1>2. (late \/ IndInv) /\ [Next]_vars => [late' \/ [Graph!Next]_<<Phase, Needs>>]_vars
  BY NextSimulates, LateStays DEF Graph!graph
<1> QED BY <1>1, <1>2, Invariance, PTL DEF Spec, ImplementsTaskGraph
-----------------------------------------------------------------------------
(* The graph has no cycle: every set of tasks has one that none of the     *)
(* others holds up.  The sort needs this of the edges in dependents, which *)
(* stay when a dependency is resolved.  It does not depend on the states   *)
(* of the tasks.                                                           *)
Acyclic ==
    \A S \in SUBSET Tasks : S # {} => \E x \in S : \A d \in S : x \notin dependents[d]
GraphOK ==
    /\ nodes \subseteq Tasks
    /\ deps \in [Tasks -> SUBSET Tasks] /\ dependents \in [Tasks -> SUBSET nodes]
    /\ \A d \in Tasks : d \notin nodes => dependents[d] = {}
    /\ Acyclic

LEMMA NoClosedSet ==
    ASSUME Acyclic, NEW S \in SUBSET Tasks, \A x \in S : \E d \in S : x \in dependents[d]
    PROVE  S = {}
BY DEF Acyclic

LEMMA GraphInit == Init => GraphOK
BY DEF Init, GraphOK, Acyclic

(* A new task holds up none of the tasks that are there.                   *)
LEMMA EnqueueKeepsGraph ==
    ASSUME GraphOK, NEW t \in Tasks, t \notin nodes, NEW D \in SUBSET Tasks, Enqueue(t, D)
    PROVE  GraphOK'
<1>1. /\ nodes' = nodes \union {t} /\ deps' = [deps EXCEPT ![t] = D \ completed]
      /\ dependents' = [d \in Tasks |-> IF d \in D \intersect nodes
                                        THEN dependents[d] \union {t} ELSE dependents[d]]
  BY DEF Enqueue
<1>2. /\ nodes \subseteq Tasks
      /\ deps \in [Tasks -> SUBSET Tasks] /\ dependents \in [Tasks -> SUBSET nodes]
      /\ \A d \in Tasks : d \notin nodes => dependents[d] = {}
      /\ Acyclic
  BY DEF GraphOK
<1>3. nodes' \subseteq Tasks
  BY <1>1, <1>2
<1>4. deps' \in [Tasks -> SUBSET Tasks] /\ dependents' \in [Tasks -> SUBSET nodes']
  BY <1>1, <1>2
<1>5. \A d \in Tasks : d \notin nodes' => dependents'[d] = {}
  BY <1>1, <1>2
<1>6. Acyclic'
  <2> SUFFICES ASSUME NEW S \in SUBSET Tasks, S # {},
                      \A x \in S : \E d \in S : x \in dependents'[d]
               PROVE  FALSE
    BY DEF Acyclic
  <2>1. dependents'[t] = {}
    BY <1>1, <1>2
  <2>2. \A x \in S \ {t} : \E d \in S \ {t} : x \in dependents[d]
    BY <1>1, <2>1
  <2>3. S \ {t} = {}
    <3>1. S \ {t} \in SUBSET Tasks
      OBVIOUS
    <3> QED BY <1>2, <2>2, <3>1, NoClosedSet
  <2>4. \A d \in S : d = t
    BY <2>3
  <2> QED BY <2>1, <2>4
<1> QED BY <1>3, <1>4, <1>5, <1>6 DEF GraphOK

(* What t already holds up is closed under dependents.                     *)
LEMMA ReachableFacts ==
    ASSUME NEW t \in Tasks, dependents \in [Tasks -> SUBSET Tasks]
    PROVE  /\ t \in Reachable(t)
           /\ \A x \in Reachable(t) : dependents[x] \subseteq Reachable(t)
<1>1. t \in Reachable(t)
  BY DEF Reachable
<1>2. ASSUME NEW x \in Reachable(t), NEW y \in dependents[x]
      PROVE  y \in Reachable(t)
  <2>1. x \in Tasks /\ y \in Tasks
    BY <1>2 DEF Reachable
  <2>2. ASSUME NEW S \in SUBSET Tasks, t \in S, Closed(S)
        PROVE  y \in S
    <3>1. x \in S
      BY <2>2 DEF Reachable
    <3> QED BY <2>2, <3>1, <1>2 DEF Closed
  <2> QED BY <2>1, <2>2 DEF Reachable
<1> QED BY <1>1, <1>2

(* A new dependency is accepted only if it closes no cycle.                *)
LEMMA AddDependenciesKeepsGraph ==
    ASSUME GraphOK, NEW t \in Tasks, NEW D \in SUBSET Tasks, AddDependencies(t, D)
    PROVE  GraphOK'
<1> DEFINE new == D \ deps[t]
           R == Reachable(t)
<1>1. /\ nodes' = nodes /\ deps' = [deps EXCEPT ![t] = @ \union (new \ completed)]
      /\ dependents' = [d \in Tasks |-> IF d \in new THEN dependents[d] \union {t} ELSE dependents[d]]
      /\ t \in nodes /\ D \subseteq nodes /\ R \intersect D = {}
  BY DEF AddDependencies, MayAdd
<1>2. /\ nodes \subseteq Tasks
      /\ deps \in [Tasks -> SUBSET Tasks] /\ dependents \in [Tasks -> SUBSET nodes]
      /\ \A d \in Tasks : d \notin nodes => dependents[d] = {}
      /\ Acyclic
  BY DEF GraphOK
<1>3. new \subseteq nodes /\ new \intersect R = {}
  BY <1>1
<1>4. t \in R /\ \A x \in R : dependents[x] \subseteq R
  <2>1. dependents \in [Tasks -> SUBSET Tasks]
    BY <1>2
  <2> QED BY <2>1, ReachableFacts
<1> HIDE DEF new, R
<1>5. deps' \in [Tasks -> SUBSET Tasks] /\ dependents' \in [Tasks -> SUBSET nodes']
  BY <1>1, <1>2, <1>3, SMT
<1>6. \A d \in Tasks : d \notin nodes' => dependents'[d] = {}
  BY <1>1, <1>2, <1>3
<1>7. Acyclic'
  <2> SUFFICES ASSUME NEW S \in SUBSET Tasks, S # {},
                      \A x \in S : \E d \in S : x \in dependents'[d]
               PROVE  FALSE
    BY DEF Acyclic
  <2>1. \A x \in S, d \in S : x \in dependents'[d] => x \in dependents[d] \/ (x = t /\ d \in new)
    BY <1>1
  <2>2. \A x \in S \ R : \E d \in S \ R : x \in dependents[d]
    BY <1>4, <2>1
  <2>3. S \ R = {}
    <3>1. S \ R \in SUBSET Tasks
      OBVIOUS
    <3> QED BY <1>2, <2>2, <3>1, NoClosedSet
  <2>4. \A x \in S : \E d \in S : x \in dependents[d]
    BY <1>3, <2>1, <2>3
  <2> QED BY <1>2, <2>4, NoClosedSet
<1> QED BY <1>1, <1>2, <1>5, <1>6, <1>7 DEF GraphOK

(* Nothing else adds a dependency.                                         *)
LEMMA ResolvingKeepsGraph ==
    ASSUME GraphOK, nodes' = nodes, dependents' = dependents,
           NEW f, deps' = [x \in Tasks |-> f[x]], \A x \in Tasks : f[x] \subseteq deps[x]
    PROVE  GraphOK'
<1>1. Acyclic'
  BY DEF GraphOK, Acyclic
<1>2. deps' \in [Tasks -> SUBSET Tasks] /\ \A x \in Tasks : deps'[x] \subseteq deps[x]
  BY DEF GraphOK
<1> QED BY <1>1, <1>2 DEF GraphOK

LEMMA SameDepsKeepGraph ==
    ASSUME GraphOK, nodes' = nodes, dependents' = dependents, deps' = deps
    PROVE  GraphOK'
BY DEF GraphOK, Acyclic

LEMMA FailTaskKeepsGraph ==
    ASSUME GraphOK, NEW t, NEW own, FailTask(t, own)
    PROVE  GraphOK'
<1>1. PICK o \in FailOutcomes(t) : deps' = Without(o.opened)
  BY DEF FailTask
<1>2. nodes' = nodes /\ dependents' = dependents
  BY DEF FailTask, edgeVars
<1> DEFINE f == [x \in Tasks |-> {d \in deps[x] : <<d, x>> \notin o.opened}]
<1>3. deps' = [x \in Tasks |-> f[x]] /\ \A x \in Tasks : f[x] \subseteq deps[x]
  BY <1>1 DEF Without
<1> HIDE DEF f
<1> QED BY <1>2, <1>3, ResolvingKeepsGraph

LEMMA CompleteTaskKeepsGraph ==
    ASSUME GraphOK, NEW t, CompleteTask(t)
    PROVE  GraphOK'
<1> DEFINE last == {x \in dependents[t] : deps[x] = {t}}
<1>1. PICK o \in LoopOutcomes(dependents[t], Stuck(last, "READY")) :
          deps' = [x \in Tasks |-> IF x \in o.done \union o.hit THEN deps[x] \ {t} ELSE deps[x]]
  BY DEF CompleteTask
<1>2. nodes' = nodes /\ dependents' = dependents
  BY DEF CompleteTask, edgeVars
<1> DEFINE f == [x \in Tasks |-> IF x \in o.done \union o.hit THEN deps[x] \ {t} ELSE deps[x]]
<1>3. deps' = [x \in Tasks |-> f[x]] /\ \A x \in Tasks : f[x] \subseteq deps[x]
  BY <1>1
<1> HIDE DEF f
<1> QED BY <1>2, <1>3, ResolvingKeepsGraph

(* Every step keeps the graph free of cycles.                              *)
LEMMA NextKeepsGraph == GraphOK /\ [Next]_vars => GraphOK'
<1> SUFFICES ASSUME GraphOK, [Next]_vars PROVE GraphOK'
  OBVIOUS
<1>1. CASE UNCHANGED vars
  BY <1>1, SameDepsKeepGraph DEF vars, edgeVars
<1>2. ASSUME NEW t \in Tasks, NEW D \in SUBSET Tasks, SubmitTask(t, D) \/ EnqueueUnchecked(t, D)
      PROVE  GraphOK'
  BY <1>2, EnqueueKeepsGraph DEF SubmitTask, EnqueueUnchecked
<1>3. ASSUME NEW t \in Tasks, NEW D \in SUBSET Tasks, SpawnTask(t, D)
      PROVE  GraphOK'
  <2> DEFINE E == IF \A d \in D : status[d] = "SUCCESS" \/ FailedOpen(d, t)
                  THEN {d \in D : ~FailedOpen(d, t)} ELSE D
  <2>1. t \notin nodes /\ Enqueue(t, E)
    BY <1>3 DEF SpawnTask
  <2>2. E \in SUBSET Tasks
    OBVIOUS
  <2> HIDE DEF E
  <2> QED BY <2>1, <2>2, EnqueueKeepsGraph
<1>4. ASSUME NEW t \in Tasks, NEW D \in SUBSET Tasks, AddTaskDependencies(t, D)
      PROVE  GraphOK'
  BY <1>4, AddDependenciesKeepsGraph, SameDepsKeepGraph DEF AddTaskDependencies
<1>5. ASSUME NEW t \in Tasks, NEW parent \in Tasks, AddDynamicTask(t, parent)
      PROVE  GraphOK'
  <2>1. t \notin nodes /\ {parent} \in SUBSET Tasks /\ Enqueue(t, {parent})
    BY <1>5 DEF AddDynamicTask
  <2> QED BY <2>1, EnqueueKeepsGraph
<1>6. ASSUME NEW ok \in Admissions, ScheduleTick(ok)
      PROVE  GraphOK'
  <2>1. UNCHANGED <<edgeVars, deps>>
    BY <1>6 DEF ScheduleTick
  <2> QED BY <2>1, SameDepsKeepGraph DEF edgeVars
<1>7. ASSUME NEW t \in Tasks, CancelTask(t) \/ DeadlineExpired(t) \/ FinishFailure(t)
      PROVE  GraphOK'
  BY <1>7, FailTaskKeepsGraph DEF CancelTask, DeadlineExpired, FinishFailure
<1>8. ASSUME NEW t \in Tasks, FinishSuccess(t)
      PROVE  GraphOK'
  BY <1>8, CompleteTaskKeepsGraph DEF FinishSuccess
<1>9. ASSUME NEW t \in Tasks,
             StartExecution(t) \/ AttemptTimeout(t) \/ NextAttempt(t) \/ FinishCancelled(t) \/ FinishUnrecorded(t)
      PROVE  GraphOK'
  BY <1>9, SameDepsKeepGraph
     DEF StartExecution, AttemptTimeout, NextAttempt, FinishCancelled, FinishUnrecorded, edgeVars
<1> QED BY <1>1, <1>2, <1>3, <1>4, <1>5, <1>6, <1>7, <1>8, <1>9 DEF Next

-----------------------------------------------------------------------------
(* How a queue loses its head, and how it and a list grow.                 *)
LEMMA TailFacts ==
    ASSUME NEW S, NEW q \in Seq(S), q # <<>>, IsInjective(q)
    PROVE  /\ Head(q) \in S /\ Tail(q) \in Seq(S) /\ IsInjective(Tail(q))
           /\ Range(q) = {Head(q)} \union Range(Tail(q)) /\ Head(q) \notin Range(Tail(q))
<1>1. /\ Len(q) \in Nat \ {0} /\ DOMAIN q = 1..Len(q) /\ Head(q) = q[1] /\ q[1] \in S
      /\ Tail(q) \in Seq(S) /\ DOMAIN Tail(q) = 1..(Len(q) - 1)
      /\ \A i \in 1..(Len(q) - 1) : Tail(q)[i] = q[i + 1]
  BY SMT
<1> DEFINE n == Len(q)
           r == Tail(q)
<1> HIDE DEF n, r
<1>2. \A i, j \in 1..n : q[i] = q[j] => i = j
  BY <1>1 DEF IsInjective, n
<1>3. IsInjective(r)
  BY <1>1, <1>2, SMT DEF IsInjective, n, r
<1>4. Range(q) = {q[1]} \union Range(r)
  <2>1. \A i \in 1..n : i = 1 \/ (i - 1 \in 1..(n - 1) /\ q[i] = r[i - 1])
    BY <1>1, SMT DEF n, r
  <2>2. \A i \in 1..(n - 1) : i + 1 \in 1..n /\ r[i] = q[i + 1]
    BY <1>1, SMT DEF n, r
  <2>3. 1 \in 1..n /\ DOMAIN q = 1..n /\ DOMAIN r = 1..(n - 1)
    BY <1>1, SMT DEF n, r
  <2>4. Range(q) = {q[i] : i \in 1..n} /\ Range(r) = {r[i] : i \in 1..(n - 1)}
    BY <2>3 DEF Range
  <2>5. ASSUME NEW x \in Range(q) PROVE x = q[1] \/ x \in Range(r)
    BY <2>1, <2>4, ZenonT(60)
  <2>6. q[1] \in Range(q)
    BY <2>3, <2>4
  <2>7. ASSUME NEW x \in Range(r) PROVE x \in Range(q)
    BY <2>2, <2>4
  <2> QED BY <2>5, <2>6, <2>7
<1>5. q[1] \notin Range(r)
  <2>1. \A i \in 1..(n - 1) : r[i] # q[1]
    BY <1>1, <1>2, SMT DEF n, r
  <2> QED BY <1>1, <2>1 DEF Range, n, r
<1> QED BY <1>1, <1>3, <1>4, <1>5 DEF r

LEMMA JoinFacts ==
    ASSUME NEW S, NEW q \in Seq(S), NEW r \in Seq(S), IsInjective(q), IsInjective(r),
           Range(q) \intersect Range(r) = {}
    PROVE  /\ q \o r \in Seq(S) /\ IsInjective(q \o r)
           /\ Range(q \o r) = Range(q) \union Range(r)
<1> DEFINE m == Len(q)
           n == Len(r)
           s == q \o r
<1>1. /\ m \in Nat /\ n \in Nat /\ DOMAIN q = 1..m /\ DOMAIN r = 1..n /\ DOMAIN s = 1..(m + n)
      /\ s \in Seq(S)
      /\ \A i \in 1..(m + n) : s[i] = IF i <= m THEN q[i] ELSE r[i - m]
  BY SMT
<1> HIDE DEF m, n, s
<1>2. \A i \in 1..m, j \in 1..n : q[i] # r[j]
  BY <1>1 DEF Range
<1>3. IsInjective(s)
  <2>1. (\A i, j \in 1..m : q[i] = q[j] => i = j) /\ \A i, j \in 1..n : r[i] = r[j] => i = j
    BY <1>1 DEF IsInjective
  <2> SUFFICES ASSUME NEW i \in 1..(m + n), NEW j \in 1..(m + n), s[i] = s[j] PROVE i = j
    BY <1>1 DEF IsInjective
  <2>2. CASE i <= m /\ j <= m
    BY <1>1, <2>1, <2>2, SMT
  <2>3. CASE i > m /\ j > m
    <3>1. i - m \in 1..n /\ j - m \in 1..n /\ r[i - m] = r[j - m]
      BY <1>1, <2>3, SMT
    <3>2. i - m = j - m
      BY <2>1, <3>1
    <3> QED BY <1>1, <3>2, SMT
  <2>4. CASE i <= m /\ j > m
    <3>1. i \in 1..m /\ j - m \in 1..n /\ q[i] = r[j - m]
      BY <1>1, <2>4, SMT
    <3> QED BY <1>2, <3>1
  <2>5. CASE i > m /\ j <= m
    <3>1. j \in 1..m /\ i - m \in 1..n /\ q[j] = r[i - m]
      BY <1>1, <2>5, SMT
    <3> QED BY <1>2, <3>1
  <2> QED BY <1>1, <2>2, <2>3, <2>4, <2>5, SMT
<1>4. \A i \in 1..m : i \in 1..(m + n) /\ s[i] = q[i]
  BY <1>1, SMT
<1>5. \A j \in 1..n : m + j \in 1..(m + n) /\ s[m + j] = r[j]
  BY <1>1, SMT
<1>6. \A i \in 1..(m + n) : (i \in 1..m /\ s[i] = q[i]) \/ (i - m \in 1..n /\ s[i] = r[i - m])
  BY <1>1, SMT
<1>7. Range(s) = Range(q) \union Range(r)
  <2>1. /\ Range(s) = {s[i] : i \in 1..(m + n)}
        /\ Range(q) = {q[i] : i \in 1..m} /\ Range(r) = {r[i] : i \in 1..n}
    BY <1>1 DEF Range
  <2>2. ASSUME NEW x \in Range(s) PROVE x \in Range(q) \union Range(r)
    BY <1>6, <2>1
  <2>3. (\A x \in Range(q) : x \in Range(s)) /\ \A x \in Range(r) : x \in Range(s)
    BY <1>4, <1>5, <2>1
  <2> QED BY <2>2, <2>3
<1> QED BY <1>1, <1>3, <1>7 DEF s

LEMMA ListFacts ==
    ASSUME NEW S, NEW q \in Seq(S), IsInjective(q), NEW x \in S, x \notin Range(q)
    PROVE  /\ Append(q, x) \in Seq(S) /\ IsInjective(Append(q, x))
           /\ Range(Append(q, x)) = Range(q) \union {x}
           /\ Len(q) \in Nat /\ Len(Append(q, x)) = Len(q) + 1 /\ Append(q, x)[Len(q) + 1] = x
           /\ \A i \in 1..Len(q) : Append(q, x)[i] = q[i]
<1> DEFINE n == Len(q)
           s == Append(q, x)
<1>1. /\ n \in Nat /\ DOMAIN q = 1..n /\ DOMAIN s = 1..(n + 1) /\ Len(s) = n + 1
      /\ s \in Seq(S) /\ s[n + 1] = x /\ \A i \in 1..n : s[i] = q[i]
  BY SMT
<1> HIDE DEF n, s
<1>2. \A i \in 1..n : q[i] # x
  BY <1>1 DEF Range
<1>3. IsInjective(s)
  BY <1>1, <1>2, SMT DEF IsInjective
<1>4. n + 1 \in 1..(n + 1) /\ \A i \in 1..(n + 1) : i = n + 1 \/ i \in 1..n
  BY <1>1, SMT
<1>5. \A i \in 1..n : i \in 1..(n + 1)
  BY <1>1, SMT
<1>6. Range(s) = Range(q) \union {x}
  BY <1>1, <1>4, <1>5 DEF Range
<1> QED BY <1>1, <1>3, <1>6 DEF n, s

LEMMA OrderFacts ==
    ASSUME NEW S, IsFiniteSet(S), NEW s \in Orders(S)
    PROVE  s \in Seq(S) /\ IsInjective(s) /\ Range(s) = S
<1>1. s \in [1..Cardinality(S) -> S] /\ IsInjective(s) /\ \A x \in S : \E i \in 1..Cardinality(S) : s[i] = x
  BY DEF Orders, Bijection, Injection, Surjection
<1>2. Cardinality(S) \in Nat
  BY FS_CardinalityType
<1>3. s \in Seq(S)
  BY <1>1, <1>2, SMT
<1> QED BY <1>1, <1>3 DEF Range

-----------------------------------------------------------------------------
(* The listed tasks that hold up x.                                        *)
Listed(x) == {d \in Range(result) : x \in dependents[d]}

(* Between two turns of the loop: a task has been queued if and only if    *)
(* as many tasks that hold it up are listed as it has open dependencies.   *)
QueuedOnce ==
    /\ todo \in Seq(nodes) /\ IsInjective(todo)
    /\ result \in Seq(nodes) /\ IsInjective(result)
    /\ Range(todo) \intersect Range(result) = {}
Counted ==
    /\ degree \in [nodes -> Int]
    /\ \A x \in nodes : /\ degree[x] = Cardinality(deps[x]) - Cardinality(Listed(x))
                        /\ x \in Range(todo) \union Range(result) <=> degree[x] <= 0
InOrder ==
    \A j \in 1..Len(result) : Unresolved(result[j]) =>
        \A d \in deps[result[j]] : \E i \in 1..(j - 1) : result[i] = d
SortOK == sorting => QueuedOnce /\ Counted /\ InOrder

(* Whose dependencies are all listed by the time it is queued.             *)
LEMMA ListedFacts ==
    ASSUME GraphOK, Range(result) \subseteq nodes, NEW x \in nodes
    PROVE  /\ IsFiniteSet(Listed(x)) /\ Cardinality(Listed(x)) \in Nat
           /\ IsFiniteSet(deps[x]) /\ Cardinality(deps[x]) \in Nat
           /\ Unresolved(x) /\ Cardinality(deps[x]) <= Cardinality(Listed(x)) => deps[x] \subseteq Range(result)
           /\ Attached /\ deps[x] \subseteq Range(result) => Cardinality(deps[x]) <= Cardinality(Listed(x))
<1>1. Listed(x) \in SUBSET Tasks /\ deps[x] \in SUBSET Tasks
  BY DEF GraphOK, Listed
<1>2. /\ IsFiniteSet(Listed(x)) /\ Cardinality(Listed(x)) \in Nat
      /\ IsFiniteSet(deps[x]) /\ Cardinality(deps[x]) \in Nat
  BY <1>1, TasksFinite, FS_Subset, FS_CardinalityType
<1>3. ASSUME Unresolved(x), Cardinality(deps[x]) <= Cardinality(Listed(x))
      PROVE  deps[x] \subseteq Range(result)
  <2>1. Listed(x) \in SUBSET deps[x]
    BY <1>3 DEF Unresolved, Listed
  <2>2. Cardinality(Listed(x)) <= Cardinality(deps[x])
    BY <1>2, <2>1, FS_Subset
  <2>3. Cardinality(Listed(x)) = Cardinality(deps[x])
    BY <1>2, <1>3, <2>2, SMT
  <2>4. Listed(x) = deps[x]
    BY <1>2, <2>1, <2>3, FS_Subset
  <2> QED BY <2>4 DEF Listed
<1>4. ASSUME Attached, deps[x] \subseteq Range(result)
      PROVE  Cardinality(deps[x]) <= Cardinality(Listed(x))
  <2>1. deps[x] \in SUBSET Listed(x)
    BY <1>4 DEF Attached, Listed
  <2> QED BY <1>2, <2>1, FS_Subset
<1> QED BY <1>2, <1>3, <1>4

LEMMA StartKeepsSort ==
    ASSUME GraphOK, StartSort
    PROVE  SortOK'
<1> DEFINE F == {t \in nodes : degree'[t] = 0}
<1>1. /\ degree' = [t \in nodes |-> Cardinality(deps[t])] /\ result' = <<>>
      /\ nodes' = nodes /\ deps' = deps /\ dependents' = dependents /\ todo' \in Orders(F)
  BY DEF StartSort, vars, edgeVars
<1>2. todo' \in Seq(F) /\ IsInjective(todo') /\ Range(todo') = F
  <2>1. IsFiniteSet(F)
    BY TasksFinite, FS_Subset DEF GraphOK
  <2> HIDE DEF F
  <2> QED BY <1>1, <2>1, OrderFacts
<1>3. todo' \in Seq(nodes)
  BY <1>2, SMT
<1>4. result' \in Seq(nodes) /\ IsInjective(result') /\ Range(result') = {} /\ Len(result') = 0 /\ 1..0 = {}
  BY <1>1, SMT DEF IsInjective, Range
<1>5. QueuedOnce'
  BY <1>1, <1>2, <1>3, <1>4 DEF QueuedOnce
<1>6. ASSUME NEW x \in nodes
      PROVE  /\ degree'[x] \in Int
             /\ degree'[x] = Cardinality(deps'[x]) - Cardinality(Listed(x)')
             /\ x \in Range(todo') \union Range(result') <=> degree'[x] <= 0
  <2>1. Cardinality(Listed(x)') = 0
    BY <1>4, FS_EmptySet DEF Listed
  <2>2. Cardinality(deps[x]) \in Nat
    BY TasksFinite, FS_Subset, FS_CardinalityType DEF GraphOK
  <2>3. x \in Range(todo') <=> Cardinality(deps[x]) = 0
    BY <1>1, <1>2
  <2> QED BY <1>1, <1>4, <2>1, <2>2, <2>3, SMT
<1>7. Counted'
  BY <1>1, <1>6 DEF Counted
<1>8. InOrder'
  BY <1>4 DEF InOrder
<1> QED BY <1>5, <1>7, <1>8 DEF SortOK

LEMMA StepKeepsSort ==
    ASSUME GraphOK, sorting, SortOK, SortStep
    PROVE  SortOK'
<1> DEFINE h == Head(todo)
           q == Tail(todo)
           F == {x \in dependents[h] : degree'[x] = 0}
<1>1. PICK s \in Orders(F) :
          /\ todo' = q \o s /\ result' = Append(result, h) /\ degree' = CountDown(h)
          /\ nodes' = nodes /\ deps' = deps /\ dependents' = dependents /\ todo # <<>>
  BY DEF SortStep, vars, edgeVars
<1>2. QueuedOnce /\ Counted /\ InOrder
  BY DEF SortOK
<1>3. /\ h \in nodes /\ q \in Seq(nodes) /\ IsInjective(q)
      /\ Range(todo) = {h} \union Range(q) /\ h \notin Range(q)
  BY <1>1, <1>2, TailFacts DEF QueuedOnce
<1>4. dependents[h] \subseteq nodes /\ F \subseteq nodes
  BY <1>3 DEF GraphOK
<1>5. s \in Seq(F) /\ IsInjective(s) /\ Range(s) = F
  <2>1. IsFiniteSet(F)
    BY <1>4, TasksFinite, FS_Subset DEF GraphOK
  <2> HIDE DEF F
  <2> QED BY <1>1, <2>1, OrderFacts
<1>6. s \in Seq(nodes)
  BY <1>4, <1>5, SMT
<1> HIDE DEF h, q
<1>7. /\ result \in Seq(nodes) /\ IsInjective(result) /\ h \notin Range(result)
      /\ Range(q) \intersect Range(result) = {}
  BY <1>2, <1>3 DEF QueuedOnce
<1>8. \A x \in nodes : /\ degree[x] \in Int
                       /\ degree'[x] = IF x \in dependents[h] THEN degree[x] - 1 ELSE degree[x]
  BY <1>1, <1>2 DEF Counted, CountDown
<1>9. \A x \in F : degree[x] = 1
  BY <1>4, <1>8, SMT
<1>10. \A x \in F : x \notin Range(todo) /\ x \notin Range(result)
  <2>1. \A x \in F : ~(degree[x] <= 0)
    BY <1>9, SMT
  <2> QED BY <1>2, <1>4, <2>1, SMT DEF Counted
<1>11. /\ todo' \in Seq(nodes) /\ IsInjective(todo') /\ Range(todo') = Range(q) \union F
  <2>1. Range(q) \intersect Range(s) = {}
    BY <1>3, <1>5, <1>10
  <2> QED BY <1>1, <1>3, <1>5, <1>6, <2>1, JoinFacts, SMT
<1>12. /\ result' \in Seq(nodes) /\ IsInjective(result') /\ Range(result') = Range(result) \union {h}
       /\ Len(result) \in Nat /\ Len(result') = Len(result) + 1 /\ result'[Len(result) + 1] = h
       /\ \A i \in 1..Len(result) : result'[i] = result[i]
  BY <1>1, <1>3, <1>7, ListFacts, SMT
<1>13. QueuedOnce'
  <2>1. Range(todo') \intersect Range(result') = {}
    BY <1>3, <1>7, <1>10, <1>11, <1>12, ZenonT(60)
  <2> QED BY <1>1, <1>11, <1>12, <2>1 DEF QueuedOnce
<1>14. Range(result) \subseteq nodes
  BY <1>7, SMT DEF Range
<1>15. ASSUME NEW x \in nodes
       PROVE  /\ degree'[x] \in Int
              /\ degree'[x] = Cardinality(deps[x]) - Cardinality(Listed(x)')
              /\ x \in Range(todo') \union Range(result') <=> degree'[x] <= 0
  <2>1. IsFiniteSet(Listed(x)) /\ Cardinality(Listed(x)) \in Nat /\ Cardinality(deps[x]) \in Nat
    BY <1>14, ListedFacts
  <2>2. degree[x] = Cardinality(deps[x]) - Cardinality(Listed(x))
    BY <1>2, SMT DEF Counted
  <2>3. x \in Range(todo) \union Range(result) <=> degree[x] <= 0
    BY <1>2, SMT DEF Counted
  <2>4. x \in Range(todo') \union Range(result') <=> x \in Range(todo) \union Range(result) \/ x \in F
    BY <1>3, <1>11, <1>12
  <2>5. CASE x \in dependents[h]
    <3>1. Listed(x)' = Listed(x) \union {h} /\ h \notin Listed(x)
      BY <1>1, <1>7, <1>12, <2>5 DEF Listed
    <3>2. Cardinality(Listed(x)') = Cardinality(Listed(x)) + 1
      BY <2>1, <3>1, FS_AddElement
    <3>3. x \in F <=> degree'[x] = 0
      BY <2>5
    <3> QED BY <1>8, <2>1, <2>2, <2>3, <2>4, <2>5, <3>2, <3>3, SMTT(30)
  <2>6. CASE x \notin dependents[h]
    <3>1. Listed(x)' = Listed(x) /\ x \notin F
      BY <1>1, <1>7, <1>12, <2>6 DEF Listed
    <3> QED BY <1>8, <2>2, <2>3, <2>4, <2>6, <3>1
  <2> QED BY <2>5, <2>6
<1>16. Counted'
  <2>1. degree' \in [nodes -> Int]
    BY <1>1, <1>15 DEF CountDown
  <2> QED BY <1>1, <1>15, <2>1 DEF Counted
<1>17. ASSUME Unresolved(h) PROVE deps[h] \subseteq Range(result)
  <2>1. degree[h] <= 0 /\ degree[h] = Cardinality(deps[h]) - Cardinality(Listed(h))
    BY <1>2, <1>3, SMT DEF Counted
  <2>2. Cardinality(Listed(h)) \in Nat /\ Cardinality(deps[h]) \in Nat
    BY <1>3, <1>14, ListedFacts
  <2>3. Cardinality(deps[h]) <= Cardinality(Listed(h))
    BY <2>1, <2>2, SMT
  <2> QED BY <1>3, <1>14, <1>17, <2>3, ListedFacts
<1>18. InOrder'
  <2> SUFFICES ASSUME NEW j \in 1..Len(result'), Unresolved(result'[j]), NEW d \in deps[result'[j]]
               PROVE  \E i \in 1..(j - 1) : result'[i] = d
    BY <1>1 DEF InOrder, Unresolved
  <2>1. CASE j \in 1..Len(result)
    <3>1. PICK i \in 1..(j - 1) : result[i] = d
      BY <1>2, <1>12, <2>1 DEF InOrder
    <3>2. i \in 1..Len(result)
      BY <1>12, <2>1, SMT
    <3> QED BY <1>12, <3>1, <3>2
  <2>2. CASE j = Len(result) + 1
    <3>1. d \in Range(result)
      BY <1>12, <1>17, <2>2
    <3>2. PICK i \in 1..Len(result) : result[i] = d
      BY <1>7, <3>1, SMT DEF Range
    <3>3. i \in 1..(j - 1)
      BY <1>12, <2>2, SMT
    <3> QED BY <1>12, <3>2, <3>3
  <2> QED BY <1>12, <2>1, <2>2, SMT
<1> QED BY <1>13, <1>16, <1>18 DEF SortOK

(* When the queue is empty and every edge is known at both its ends, every *)
(* task is listed: the missing ones would hold each other up.              *)
LEMMA SortFacts == GraphOK /\ SortOK => SortIsTopological
<1> SUFFICES ASSUME GraphOK, QueuedOnce, Counted, InOrder, todo = <<>>
             PROVE  /\ Len(result) = Cardinality(Range(result)) /\ Range(result) \subseteq nodes
                    /\ Attached => Range(result) = nodes
  BY DEF SortOK, SortIsTopological, InOrder
<1> DEFINE U == nodes \ Range(result)
<1>1. result \in Seq(nodes) /\ IsInjective(result) /\ Range(todo) = {}
  BY SMT DEF QueuedOnce, Range
<1>2. Len(result) \in Nat /\ DOMAIN result = 1..Len(result) /\ Range(result) \subseteq nodes
  BY <1>1, SMT DEF Range
<1>3. ASSUME Attached PROVE \A x \in U : \E d \in U : x \in dependents[d]
  <2> SUFFICES ASSUME NEW x \in U, deps[x] \subseteq Range(result) PROVE FALSE
    BY <1>3 DEF GraphOK, Attached
  <2>1. ~(degree[x] <= 0) /\ degree[x] = Cardinality(deps[x]) - Cardinality(Listed(x))
    BY <1>1, SMT DEF Counted
  <2>2. Cardinality(Listed(x)) \in Nat /\ Cardinality(deps[x]) \in Nat
    BY <1>2, ListedFacts
  <2>3. Cardinality(deps[x]) <= Cardinality(Listed(x))
    BY <1>2, <1>3, ListedFacts
  <2> QED BY <2>1, <2>2, <2>3, SMT
<1>4. ASSUME Attached PROVE Range(result) = nodes
  <2>1. U \in SUBSET Tasks /\ Acyclic
    BY DEF GraphOK
  <2>2. U = {}
    <3> HIDE DEF U
    <3> QED BY <1>3, <1>4, <2>1, NoClosedSet
  <2> QED BY <1>2, <2>2
<1>5. Len(result) = Cardinality(Range(result))
  <2>1. result \in Bijection(1..Len(result), Range(result))
    <3>1. result \in [1..Len(result) -> Range(result)]
      BY <1>1, SMT DEF Range
    <3> QED BY <1>1, <1>2, <3>1 DEF Bijection, Injection, Surjection, IsInjective, Range
  <2>2. ExistsBijection(1..Len(result), Range(result))
    BY <2>1 DEF ExistsBijection
  <2> QED BY <1>2, <2>2, FS_CountingElements
<1> QED BY <1>2, <1>4, <1>5

(* The loop lists the graph it found: nothing else runs until it returns.  *)
LEMMA SortNextKeepsInv == GraphOK /\ SortOK /\ [SortNext]_allVars => GraphOK' /\ SortOK'
<1> SUFFICES ASSUME GraphOK, SortOK, [SortNext]_allVars PROVE GraphOK' /\ SortOK'
  OBVIOUS
<1>1. CASE StartSort
  BY <1>1, StartKeepsSort, SameDepsKeepGraph DEF StartSort, vars, edgeVars
<1>2. CASE SortStep
  BY <1>2, StepKeepsSort, SameDepsKeepGraph DEF SortStep, vars, edgeVars
<1>3. CASE EndSort
  BY <1>3, SameDepsKeepGraph DEF EndSort, SortOK, vars, edgeVars
<1>4. CASE ~sorting /\ Next /\ UNCHANGED sortVars
  BY <1>4, NextKeepsGraph DEF sortVars, SortOK
<1>5. CASE UNCHANGED allVars
  <2>1. /\ nodes' = nodes /\ deps' = deps /\ dependents' = dependents
        /\ sorting' = sorting /\ todo' = todo /\ degree' = degree /\ result' = result
    BY <1>5 DEF allVars, sortVars, vars, edgeVars
  <2>2. QueuedOnce' = QueuedOnce /\ Counted' = Counted /\ InOrder' = InOrder
    BY <2>1, ZenonT(60) DEF QueuedOnce, Counted, Listed, Unresolved, InOrder
  <2> QED BY <2>1, <2>2, SameDepsKeepGraph DEF SortOK
<1> QED BY <1>1, <1>2, <1>3, <1>4, <1>5 DEF SortNext

(* topological_sort lists no task twice, and every task unless one was     *)
(* enqueued ahead of a dependency; a task none of whose dependencies is    *)
(* resolved comes after all of them.  This holds whatever clients and      *)
(* executions have done to the graph before.                               *)
THEOREM SortAlwaysTopological == SortSpec => []SortIsTopological
<1>1. SortInit => GraphOK /\ SortOK
  BY GraphInit DEF SortInit, SortOK
<1>2. GraphOK /\ SortOK => SortIsTopological
  BY SortFacts
<1> QED BY <1>1, <1>2, SortNextKeepsInv, PTL DEF SortSpec

(* The sort leaves the scheduler alone: what holds of DagScheduler holds   *)
(* with topological_sort called at any time.                               *)
THEOREM SortChangesNothing == SortSpec => Spec
<1>1. SortInit => Init
  BY DEF SortInit
<1>2. [SortNext]_allVars => [Next]_vars
  BY DEF SortNext, StartSort, SortStep, EndSort, allVars
<1> QED BY <1>1, <1>2, PTL DEF SortSpec, Spec
=============================================================================
