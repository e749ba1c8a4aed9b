----------------------- MODULE SchedulingLoop_proofs -----------------------
(***************************************************************************)
(* Proofs about SchedulingLoop for every set of tasks, every assignment of *)
(* failure modes and every choice of the clients: type correctness, the    *)
(* agreement of queues and statuses, dependencies settled before a task is *)
(* ready, an acyclic dependency graph, that only a cancellation cuts       *)
(* dispatch_ready or complete_task short, and that the daemon implements   *)
(* TaskGraph.                                                              *)
(***************************************************************************)
EXTENDS SchedulingLoop, TLAPS

-----------------------------------------------------------------------------
(* Most steps are first-order reasoning about sets and functions: Zenon    *)
(* proves them, and the steps that need more say SMT.                      *)
USE Zenon

(* What the transition table says about the states the scheduler uses.     *)
LEMMA TransitionFacts ==
    ASSUME NEW s \in TaskStatus
    PROVE  /\ CanTransition(s, "READY") => s \notin {"RUNNING", "TIMEOUT", "SUCCESS", "CANCELLED"}
           /\ ~CanTransition(s, "READY") => s \notin {"READY", "PENDING", "BLOCKED"}
           /\ CanTransition(s, "FAILED") => s \notin {"SUCCESS", "CANCELLED"}
           /\ CanTransition(s, "SUCCESS") => s \in {"RUNNING", "SUCCESS"}
           /\ CanTransition(s, "CANCELLED") => s \notin {"SUCCESS", "FAILED"}
           /\ CanTransition(s, "PENDING") => s \notin {"TIMEOUT", "SUCCESS", "FAILED", "CANCELLED"}
           /\ CanTransition(s, "RUNNING") => s \notin {"BLOCKED", "PENDING", "SUCCESS", "FAILED", "CANCELLED"}
           /\ CanTransition(s, "BLOCKED") => s \in {"PENDING", "READY", "BLOCKED"}
           /\ CanTransition("READY", "RUNNING") /\ CanTransition("READY", "BLOCKED")
BY DEF CanTransition, Allowed, TaskStatus

(* A loop that raises has finished items that do not raise, and stops at   *)
(* one that does; one that does not raise finishes all.                    *)
LEMMA LoopOutcomesFacts ==
    ASSUME NEW S, NEW Bad, NEW o \in LoopOutcomes(S, Bad)
    PROVE  o.done \subseteq S \ Bad /\ o.hit \subseteq Bad /\ (o.hit = {} => o.done = S)
BY SMT DEF LoopOutcomes

(* The same for the loop of fail_task, called once or twice.               *)
LEMMA FailRunsFacts ==
    ASSUME NEW t, NEW o \in FailOnce(t) \union FailTwice(t)
    PROVE  o.done \subseteq dependents[t] \ RaisesOnFail(t) /\ o.hit \subseteq RaisesOnFail(t)
<1>1. CASE o \in FailOnce(t)
  BY <1>1, LoopOutcomesFacts DEF FailOnce
<1>2. CASE o \in FailTwice(t) /\ RaisesOnFail(t) = {}
  BY <1>2, LoopOutcomesFacts, SMT DEF FailTwice, FailOnce
<1>3. CASE o \in FailTwice(t) /\ RaisesOnFail(t) # {}
  BY <1>3, SMT DEF FailTwice
<1> QED BY <1>1, <1>2, <1>3

(* fail_task, as its effect on each task: closed dependents fail and leave *)
(* the queues, freed ones move from waiting to ready, stopped ones were    *)
(* cancelled and leave the waiting queue.                                  *)
FailEffect(t, own, closed, opened, freed, hit) ==
    /\ \A x \in closed : FailMode(t, x) = "fail_closed" /\ status[x] \notin {"SUCCESS", "CANCELLED"}
    /\ \A x \in opened \union hit : FailMode(t, x) \in Permissive
    /\ \A x \in freed : /\ x \in opened /\ x \in waiting
                         /\ deps[x] \subseteq {t} /\ status[x] \in {"PENDING", "BLOCKED"}
    /\ \A x \in hit : x \in waiting /\ status[x] = "CANCELLED"
    /\ closed \intersect (opened \union hit) = {}
    /\ status' = [x \in Tasks |-> IF x = t THEN own
                                  ELSE IF x \in closed THEN "FAILED"
                                  ELSE IF x \in freed THEN "READY" ELSE status[x]]
    /\ deps' = Resolved(t, opened \union hit)
    /\ waiting' = waiting \ (closed \union freed \union hit)
    /\ ready' = (ready \ closed) \union freed
    /\ blockReason' = blockReason \ freed
    /\ running' = running \ {t}
    /\ failedTasks' = failedTasks \union {t} \union closed
    /\ UNCHANGED <<declared, nodes, dependents, completedTasks>>

(* Either way of calling fail_task has that effect for some four subsets   *)
(* of the dependents.                                                      *)
LEMMA FailTaskEffect ==
    ASSUME TypeOK, QueuesMatchStatus, NEW t \in nodes, NEW own \in TaskStatus,
           FailTask(t, own, FailOnce(t)) \/ FailTask(t, own, FailOnce(t) \union FailTwice(t))
    PROVE  \E closed, opened, freed, hit \in SUBSET dependents[t] :
             FailEffect(t, own, closed, opened, freed, hit)
<1>1. PICK o \in FailOnce(t) \union FailTwice(t) :
        LET closed == o.done \intersect FailClosed(t)
            opened == o.done \intersect FailOpen(t)
            hit    == o.hit \intersect FailOpen(t)
            freed  == Freed(t, opened) IN
        /\ status' = [x \in Tasks |-> IF x = t THEN own
                                       ELSE IF x \in closed THEN "FAILED"
                                       ELSE IF x \in freed THEN "READY" ELSE status[x]]
        /\ deps' = Resolved(t, opened \union hit)
        /\ waiting' = waiting \ (closed \union freed \union hit)
        /\ ready' = (ready \ closed) \union freed
        /\ blockReason' = blockReason \ freed
        /\ running' = running \ {t}
        /\ failedTasks' = failedTasks \union {t} \union closed
        /\ UNCHANGED <<declared, nodes, dependents, completedTasks>>
  BY DEF FailTask
<1> DEFINE closed == o.done \intersect FailClosed(t)
           opened == o.done \intersect FailOpen(t)
           hit    == o.hit \intersect FailOpen(t)
           freed  == Freed(t, opened)
<1>2. o.done \subseteq dependents[t] \ RaisesOnFail(t) /\ o.hit \subseteq RaisesOnFail(t)
  BY FailRunsFacts
<1>3. dependents[t] \subseteq Tasks
  BY DEF TypeOK
<1>4. \A x \in closed : status[x] \notin {"SUCCESS", "CANCELLED"}
  BY <1>2, <1>3, TransitionFacts DEF RaisesOnFail, TypeOK
<1>5. \A x \in freed : x \in waiting /\ deps[x] \subseteq {t} /\ status[x] \in {"PENDING", "BLOCKED"}
  BY <1>2, <1>3, TransitionFacts DEF RaisesOnFail, RaisesOnRelease, Freed, TypeOK, QueuesMatchStatus
<1>6. \A x \in hit : x \in waiting /\ status[x] = "CANCELLED"
  BY <1>2, <1>3, TransitionFacts
     DEF RaisesOnFail, RaisesOnRelease, Freed, FailOpen, FailClosed, Permissive, TypeOK, QueuesMatchStatus
<1>7. /\ closed \in SUBSET dependents[t] /\ opened \in SUBSET dependents[t]
      /\ hit \in SUBSET dependents[t] /\ freed \in SUBSET dependents[t]
      /\ freed \subseteq opened
  BY DEF FailClosed, FailOpen, Freed
<1>8. /\ \A x \in closed : FailMode(t, x) = "fail_closed"
      /\ \A x \in opened \union hit : FailMode(t, x) \in Permissive
      /\ closed \intersect (opened \union hit) = {}
  BY DEF FailClosed, FailOpen, Permissive
<1> HIDE DEF closed, opened, hit, freed
<1>9. FailEffect(t, own, closed, opened, freed, hit)
  <2>1. /\ status' = [x \in Tasks |-> IF x = t THEN own
                                      ELSE IF x \in closed THEN "FAILED"
                                      ELSE IF x \in freed THEN "READY" ELSE status[x]]
        /\ deps' = Resolved(t, opened \union hit)
        /\ waiting' = waiting \ (closed \union freed \union hit)
        /\ ready' = (ready \ closed) \union freed
        /\ blockReason' = blockReason \ freed
        /\ running' = running \ {t}
        /\ failedTasks' = failedTasks \union {t} \union closed
        /\ UNCHANGED <<declared, nodes, dependents, completedTasks>>
    BY <1>1 DEF closed, opened, hit, freed
  <2> QED BY <2>1, <1>4, <1>5, <1>6, <1>7, <1>8 DEF FailEffect
<1> QED BY <1>7, <1>9
(* complete_task in the same form.                                         *)
CompleteEffect(t, done, freed, hit) ==
    /\ \A x \in freed : /\ x \in done /\ x \in waiting
                         /\ deps[x] \subseteq {t} /\ status[x] \in {"PENDING", "BLOCKED"}
    /\ \A x \in hit : x \in waiting /\ status[x] = "CANCELLED"
    /\ hit = {} => done = dependents[t]
    /\ status' = [Moved(freed, "READY") EXCEPT ![t] = "SUCCESS"]
    /\ deps' = Resolved(t, done \union hit)
    /\ waiting' = waiting \ (freed \union hit)
    /\ ready' = ready \union freed
    /\ blockReason' = blockReason \ freed
    /\ running' = running \ {t}
    /\ completedTasks' = completedTasks \union {t}
    /\ UNCHANGED <<declared, nodes, dependents, failedTasks>>

(* A call of complete_task has that effect for some three subsets.         *)
LEMMA CompleteTaskEffect ==
    ASSUME TypeOK, QueuesMatchStatus, NEW t \in nodes, CompleteTask(t)
    PROVE  \E done, freed, hit \in SUBSET dependents[t] : CompleteEffect(t, done, freed, hit)
<1>1. PICK o \in LoopOutcomes(dependents[t], RaisesOnRelease(t, dependents[t])) :
        LET freed == Freed(t, o.done) IN
        /\ status' = [Moved(freed, "READY") EXCEPT ![t] = "SUCCESS"]
        /\ deps' = Resolved(t, o.done \union o.hit)
        /\ waiting' = waiting \ (freed \union o.hit)
        /\ ready' = ready \union freed
        /\ blockReason' = blockReason \ freed
        /\ running' = running \ {t}
        /\ completedTasks' = completedTasks \union {t}
        /\ UNCHANGED <<declared, nodes, dependents, failedTasks>>
  BY DEF CompleteTask
<1> DEFINE done == o.done
           hit == o.hit
           freed == Freed(t, done)
<1>2. /\ done \subseteq dependents[t] \ RaisesOnRelease(t, dependents[t])
      /\ hit \subseteq RaisesOnRelease(t, dependents[t]) /\ (hit = {} => done = dependents[t])
  BY LoopOutcomesFacts, SMT
<1>3. dependents[t] \subseteq nodes /\ nodes \subseteq Tasks
  BY DEF TypeOK
<1>4. \A x \in freed : /\ x \in done /\ x \in waiting
                       /\ deps[x] \subseteq {t} /\ status[x] \in {"PENDING", "BLOCKED"}
  BY <1>2, <1>3, TransitionFacts DEF RaisesOnRelease, Freed, TypeOK, QueuesMatchStatus
<1>5. \A x \in hit : x \in waiting /\ status[x] = "CANCELLED"
  BY <1>2, <1>3, TransitionFacts DEF RaisesOnRelease, Freed, TypeOK, QueuesMatchStatus
<1>6. done \in SUBSET dependents[t] /\ freed \in SUBSET dependents[t] /\ hit \in SUBSET dependents[t]
  BY <1>2 DEF Freed, RaisesOnRelease
<1>7. CompleteEffect(t, done, freed, hit)
  BY <1>1, <1>2, <1>4, <1>5 DEF CompleteEffect
<1> HIDE DEF done, hit, freed
<1> QED BY <1>6, <1>7

(* dispatch_ready as its effect on each task: woken tasks come from the    *)
(* waiting queue, admitted and refused ones out of the ready queue, and    *)
(* dropped ones had been cancelled.                                        *)
DispatchEffect(result, woken, admitted, refused, dropped) ==
    /\ \A x \in woken : x \in waiting /\ deps[x] = {} /\ status[x] \in {"PENDING", "BLOCKED"}
    /\ \A x \in admitted \union refused : x \in ready \/ x \in woken
    /\ \A x \in admitted \union refused : x \in ready => status[x] = "READY"
    /\ \A x \in dropped : x \in ready \union waiting /\ status[x] = "CANCELLED"
    /\ admitted \intersect refused = {}
    /\ ready' = (ready \union woken) \ (admitted \union refused \union dropped)
    /\ \A x \in Tasks : x \in waiting' <=> x \in refused \/ (x \in waiting /\ x \notin woken \union dropped)
    /\ waiting' \subseteq nodes
    /\ running' = running \union admitted
    /\ status' = [x \in Tasks |-> IF x \in admitted THEN "RUNNING"
                                  ELSE IF x \in refused THEN "BLOCKED"
                                  ELSE IF x \in woken THEN "READY" ELSE status[x]]
    /\ blockReason' \subseteq nodes
    /\ result \subseteq admitted /\ (dropped = {} => result = admitted)
    /\ UNCHANGED <<declared, nodes, deps, dependents, completedTasks, failedTasks>>

(* A call of dispatch_ready has that effect for some four sets of tasks.   *)
LEMMA DispatchReadyEffect ==
    ASSUME TypeOK, QueuesMatchStatus, NEW ok, NEW result, DispatchReady(ok, result)
    PROVE  \E woken, admitted, refused, dropped \in SUBSET nodes :
             DispatchEffect(result, woken, admitted, refused, dropped)
<1>0. UNCHANGED <<declared, nodes, deps, dependents, completedTasks, failedTasks>>
  BY DEF DispatchReady, graphVars
<1>1. CASE ready # {}
  <2> DEFINE bad == {x \in ready : ~CanTransition(status[x], IF x \in ok THEN "RUNNING" ELSE "BLOCKED")}
  <2>1. DispatchFrom(ready, waiting, status, blockReason, ok, result)
    BY <1>1 DEF DispatchReady
  <2>2. PICK o \in LoopOutcomes(ready, bad) :
          LET admitted == o.done \intersect ok
              refused  == o.done \ ok IN
          /\ ready' = ready \ (o.done \union o.hit)
          /\ waiting' = waiting \union refused
          /\ running' = running \union admitted
          /\ status' = [x \in Tasks |-> IF x \in admitted THEN "RUNNING"
                                        ELSE IF x \in refused THEN "BLOCKED" ELSE status[x]]
          /\ blockReason' = (blockReason \ admitted) \union refused
          /\ result = IF o.hit = {} THEN admitted ELSE {}
    BY <2>1 DEF DispatchFrom
  <2> DEFINE admitted == o.done \intersect ok
             refused  == o.done \ ok
             dropped  == o.hit
  <2>3. o.done \subseteq ready \ bad /\ dropped \subseteq bad
    BY LoopOutcomesFacts
  <2>4. \A x \in ready : x \in nodes /\ x \in Tasks /\ status[x] \in {"READY", "CANCELLED"} /\ x \notin waiting
    BY DEF QueuesMatchStatus, TypeOK
  <2>5. \A x \in o.done : status[x] = "READY"
    BY <2>3, <2>4, TransitionFacts DEF TaskStatus
  <2>6. \A x \in dropped : status[x] = "CANCELLED"
    BY <2>3, <2>4, TransitionFacts DEF TaskStatus
  <2>7. admitted \in SUBSET nodes /\ refused \in SUBSET nodes /\ dropped \in SUBSET nodes
    BY <2>3, <2>4
  <2>8. DispatchEffect(result, {}, admitted, refused, dropped)
    BY <1>0, <2>2, <2>3, <2>4, <2>5, <2>6, <2>7 DEF DispatchEffect, TypeOK
  <2> HIDE DEF admitted, refused, dropped
  <2> QED BY <2>7, <2>8
<1>2. CASE ready = {}
  <2> DEFINE bad == {x \in Wakeable(ok) : ~CanTransition(status[x], "READY")}
  <2>1. PICK o \in LoopOutcomes(Wakeable(ok), bad) :
          IF o.hit = {}
          THEN DispatchFrom(o.done, waiting \ o.done, Moved(o.done, "READY"),
                            blockReason \ o.done, ok, result)
          ELSE /\ ready' = o.done
               /\ waiting' = waiting \ (o.done \union o.hit)
               /\ status' = Moved(o.done, "READY")
               /\ blockReason' = blockReason \ o.done
               /\ result = {}
               /\ UNCHANGED running
    BY <1>2 DEF DispatchReady
  <2> DEFINE woken == o.done
             dropped == o.hit
  <2>2. o.done \subseteq Wakeable(ok) \ bad /\ dropped \subseteq bad
    BY LoopOutcomesFacts
  <2>3. \A x \in Wakeable(ok) : /\ x \in waiting /\ x \in nodes /\ x \in Tasks /\ deps[x] = {}
                                /\ status[x] \in {"PENDING", "BLOCKED", "CANCELLED"}
    BY DEF Wakeable, QueuesMatchStatus, TypeOK
  <2>4. \A x \in woken : x \in waiting /\ x \in nodes /\ deps[x] = {} /\ status[x] \in {"PENDING", "BLOCKED"}
    BY <2>2, <2>3, TransitionFacts DEF TaskStatus
  <2>5. \A x \in dropped : x \in waiting /\ x \in nodes /\ status[x] = "CANCELLED"
    BY <2>2, <2>3, TransitionFacts DEF TaskStatus
  <2>6. CASE o.hit # {}
    <3>1. DispatchEffect(result, woken, {}, {}, dropped)
      BY <1>0, <1>2, <2>1, <2>4, <2>5, <2>6 DEF DispatchEffect, TypeOK, Moved
    <3> HIDE DEF woken, dropped
    <3> QED BY <2>4, <2>5, <3>1
  <2>7. CASE o.hit = {}
    <3> DEFINE st == Moved(woken, "READY")
               badly == {x \in woken : ~CanTransition(st[x], IF x \in ok THEN "RUNNING" ELSE "BLOCKED")}
    <3>1. PICK p \in LoopOutcomes(woken, badly) :
            LET admitted == p.done \intersect ok
                refused  == p.done \ ok IN
            /\ ready' = woken \ (p.done \union p.hit)
            /\ waiting' = (waiting \ woken) \union refused
            /\ running' = running \union admitted
            /\ status' = [x \in Tasks |-> IF x \in admitted THEN "RUNNING"
                                          ELSE IF x \in refused THEN "BLOCKED" ELSE st[x]]
            /\ blockReason' = ((blockReason \ woken) \ admitted) \union refused
            /\ result = IF p.hit = {} THEN admitted ELSE {}
      BY <2>1, <2>7 DEF DispatchFrom
    <3> DEFINE admitted == p.done \intersect ok
               refused  == p.done \ ok
    <3>2. p.done \subseteq woken \ badly /\ p.hit \subseteq badly
      BY LoopOutcomesFacts, SMT
    <3>3. \A x \in woken : st[x] = "READY"
      BY <2>4 DEF Moved, TypeOK
    <3>4. badly = {}
      BY <3>3, TransitionFacts DEF TaskStatus
    <3>5. admitted \in SUBSET nodes /\ refused \in SUBSET nodes /\ woken \in SUBSET nodes
      BY <2>4, <3>2
    <3>6. DispatchEffect(result, woken, admitted, refused, {})
      BY <1>0, <1>2, <2>4, <3>1, <3>2, <3>4, <3>5 DEF DispatchEffect, TypeOK, Moved
    <3> HIDE DEF woken, admitted, refused
    <3> QED BY <3>5, <3>6
  <2> QED BY <2>6, <2>7
<1> QED BY <1>1, <1>2
-----------------------------------------------------------------------------
(* The inductive invariant.  TypeOK and QueuesMatchStatus are not inductive *)
(* by themselves: an execution must belong to a dispatched task, and       *)
(* settledness must survive what happens to the dependency later.          *)
IndInv == TypeOK /\ QueuesMatchStatus /\ SingleExecution /\ Bookkeeping

(* What the executions may do in a step of the scheduler: end, or go on.   *)
ExecutionsOnlyEnd ==
    /\ event' \in BOOLEAN
    /\ exec' \in [Tasks -> {"none", "queued", "started"}]
    /\ \A x \in Tasks : exec'[x] = "none" \/ exec'[x] = exec[x]

(* fail_task keeps the invariant, from whichever handler it is called.     *)
LEMMA FailKeepsInv ==
    ASSUME IndInv, NEW t \in nodes, NEW own \in {"FAILED", "CANCELLED"},
           status[t] # "SUCCESS",
           own = "FAILED" => t \notin ready \union waiting,
           FailTask(t, own, FailOnce(t)) \/ FailTask(t, own, FailOnce(t) \union FailTwice(t)),
           ExecutionsOnlyEnd
    PROVE  IndInv'
<1> USE DEF IndInv
<1>1. own \in TaskStatus
  BY DEF TaskStatus
<1>2. PICK closed, opened, freed, hit \in SUBSET dependents[t] :
        FailEffect(t, own, closed, opened, freed, hit)
  BY <1>1, FailTaskEffect
<1>3. closed \subseteq nodes /\ opened \subseteq nodes /\ freed \subseteq nodes /\ hit \subseteq nodes
  BY DEF TypeOK
<1>4. TypeOK'
  BY <1>1, <1>2, <1>3, SMT DEF TypeOK, FailEffect, Resolved, ExecutionsOnlyEnd, TaskStatus
<1>5. QueuesMatchStatus'
  BY <1>2, <1>3, SMT DEF TypeOK, FailEffect, QueuesMatchStatus, SingleExecution
<1>6. SingleExecution'
  BY <1>2, <1>3 DEF TypeOK, FailEffect, SingleExecution, ExecutionsOnlyEnd
<1>7. Bookkeeping'
  <2>1. \A x \in (Tasks \ nodes)' :
          /\ status'[x] = "PENDING" /\ exec'[x] = "none"
          /\ declared'[x] = {} /\ deps'[x] = {} /\ dependents'[x] = {}
    BY <1>2, <1>3 DEF FailEffect, Resolved, Bookkeeping, ExecutionsOnlyEnd
  <2>2. \A x \in nodes' : exec'[x] # "none" => status'[x] \in {"RUNNING", "TIMEOUT", "FAILED", "CANCELLED"}
    BY <1>2, <1>3 DEF FailEffect, TypeOK, Bookkeeping, ExecutionsOnlyEnd, SingleExecution
  <2>3. \A x \in nodes' : x \in ready' => deps'[x] = {}
    BY <1>2, <1>3 DEF FailEffect, TypeOK, Resolved, Bookkeeping
  <2>4. \A x \in nodes' : x \in completedTasks' => status'[x] = "SUCCESS"
    BY <1>2, <1>3 DEF FailEffect, TypeOK, Bookkeeping
  <2>5. \A x, d \in nodes : Settled(d, x) => Settled(d, x)'
    BY <1>2, <1>3 DEF FailEffect, TypeOK, Settled, QueuesMatchStatus
  <2>6. \A x \in nodes' : \A d \in (declared[x] \ deps[x])' : Settled(d, x)'
    <3>1. SUFFICES ASSUME NEW x \in nodes, NEW d \in declared[x], d \notin deps'[x]
                   PROVE  Settled(d, x)'
      BY <1>2 DEF FailEffect
    <3>2. CASE d \notin deps[x]
      BY <2>5, <3>1, <3>2 DEF Bookkeeping, TypeOK
    <3>3. CASE d \in deps[x]
      <4>1. d = t /\ x \in opened \union hit
        BY <1>2, <3>1, <3>3 DEF FailEffect, Resolved, TypeOK
      <4> QED BY <1>2, <4>1 DEF FailEffect, Settled, TypeOK
    <3> QED BY <3>2, <3>3
  <2> QED BY <2>1, <2>2, <2>3, <2>4, <2>6 DEF Bookkeeping
<1> QED BY <1>4, <1>5, <1>6, <1>7

(* So does complete_task.                                                  *)
LEMMA CompleteKeepsInv ==
    ASSUME IndInv, NEW t \in nodes, exec[t] # "none", status[t] = "RUNNING",
           CompleteTask(t), ExecutionsOnlyEnd, exec'[t] = "none"
    PROVE  IndInv'
<1> USE DEF IndInv
<1>1. PICK done, freed, hit \in SUBSET dependents[t] : CompleteEffect(t, done, freed, hit)
  BY CompleteTaskEffect
<1>2. done \subseteq nodes /\ freed \subseteq nodes /\ hit \subseteq nodes /\ nodes \subseteq Tasks
  BY DEF TypeOK
<1>3. status' = [x \in Tasks |-> IF x = t THEN "SUCCESS" ELSE IF x \in freed THEN "READY" ELSE status[x]]
  BY <1>1, <1>2 DEF CompleteEffect, Moved
<1>4. TypeOK'
  <2>1. status' \in [Tasks -> TaskStatus]
    BY <1>3 DEF TypeOK, TaskStatus
  <2>2. deps' \in [Tasks -> SUBSET nodes]
    BY <1>1 DEF TypeOK, CompleteEffect, Resolved
  <2> QED BY <1>1, <1>2, <2>1, <2>2 DEF TypeOK, CompleteEffect, ExecutionsOnlyEnd
<1>5. QueuesMatchStatus'
  BY <1>1, <1>2, <1>3, ZenonT(60) DEF TypeOK, CompleteEffect, QueuesMatchStatus, SingleExecution
<1>6. SingleExecution'
  BY <1>1, <1>2 DEF TypeOK, CompleteEffect, SingleExecution, ExecutionsOnlyEnd
<1>7. Bookkeeping'
  <2>1. \A x \in (Tasks \ nodes)' :
          /\ status'[x] = "PENDING" /\ exec'[x] = "none"
          /\ declared'[x] = {} /\ deps'[x] = {} /\ dependents'[x] = {}
    BY <1>1, <1>2, <1>3, SMT DEF CompleteEffect, Resolved, Bookkeeping, ExecutionsOnlyEnd
  <2>2. \A x \in nodes' : exec'[x] # "none" => status'[x] \in {"RUNNING", "TIMEOUT", "FAILED", "CANCELLED"}
    BY <1>1, <1>2, <1>3, SMT DEF CompleteEffect, TypeOK, Bookkeeping, ExecutionsOnlyEnd, SingleExecution
  <2>3. \A x \in nodes' : x \in ready' => deps'[x] = {}
    BY <1>1, <1>2 DEF CompleteEffect, TypeOK, Resolved, Bookkeeping
  <2>4. \A x \in nodes' : x \in completedTasks' => status'[x] = "SUCCESS"
    BY <1>1, <1>2, <1>3 DEF CompleteEffect, TypeOK, Bookkeeping
  <2>5. \A x, d \in nodes : Settled(d, x) => Settled(d, x)'
    BY <1>1, <1>2, <1>3 DEF CompleteEffect, TypeOK, Settled, QueuesMatchStatus
  <2>6. \A x \in nodes' : \A d \in (declared[x] \ deps[x])' : Settled(d, x)'
    <3>1. SUFFICES ASSUME NEW x \in nodes, NEW d \in declared[x], d \notin deps'[x]
                   PROVE  Settled(d, x)'
      BY <1>1 DEF CompleteEffect
    <3>2. CASE d \notin deps[x]
      BY <2>5, <3>1, <3>2 DEF Bookkeeping, TypeOK
    <3>3. CASE d \in deps[x]
      <4>1. d = t
        BY <1>1, <3>1, <3>3 DEF CompleteEffect, Resolved, TypeOK
      <4> QED BY <1>1, <1>2, <1>3, <4>1 DEF CompleteEffect, Settled, TypeOK
    <3> QED BY <3>2, <3>3
  <2> QED BY <2>1, <2>2, <2>3, <2>4, <2>6 DEF Bookkeeping
<1> QED BY <1>4, <1>5, <1>6, <1>7
(* enqueue of a new task keeps the invariant.                              *)
LEMMA EnqueueKeepsInv ==
    ASSUME IndInv, NEW t \in Tasks \ nodes, NEW D \in SUBSET nodes,
           Enqueue(t, D), event' = TRUE, UNCHANGED exec
    PROVE  IndInv'
<1> USE DEF IndInv
<1> DEFINE open == D \ completedTasks
<1>1. /\ nodes' = nodes \union {t}
      /\ declared' = [declared EXCEPT ![t] = D]
      /\ deps' = [deps EXCEPT ![t] = open]
      /\ dependents' = [d \in Tasks |-> IF d \in D \intersect nodes
                                        THEN dependents[d] \union {t} ELSE dependents[d]]
      /\ status' = [status EXCEPT ![t] = IF open = {} THEN "READY" ELSE "PENDING"]
      /\ ready' = IF open = {} THEN ready \union {t} ELSE ready
      /\ waiting' = IF open = {} THEN waiting ELSE waiting \union {t}
      /\ UNCHANGED <<blockReason, running, completedTasks, failedTasks>>
  BY DEF Enqueue
<1>2. open \subseteq nodes /\ nodes \subseteq Tasks /\ t \notin nodes
  BY DEF TypeOK
<1> HIDE DEF open
<1>3. TypeOK'
  <2>1. status' \in [Tasks -> TaskStatus]
    BY <1>1 DEF TypeOK, TaskStatus
  <2>2. deps' \in [Tasks -> SUBSET nodes'] /\ declared' \in [Tasks -> SUBSET nodes']
    BY <1>1, <1>2 DEF TypeOK
  <2>3. dependents' \in [Tasks -> SUBSET nodes']
    BY <1>1, <1>2 DEF TypeOK
  <2> QED BY <1>1, <1>2, <2>1, <2>2, <2>3 DEF TypeOK
<1>4. QueuesMatchStatus'
  BY <1>1, <1>2, ZenonT(60) DEF TypeOK, QueuesMatchStatus
<1>5. SingleExecution'
  BY <1>1, <1>2 DEF TypeOK, SingleExecution, Bookkeeping
<1>6. Bookkeeping'
  <2>1. \A x \in (Tasks \ nodes)' :
          /\ status'[x] = "PENDING" /\ exec'[x] = "none"
          /\ declared'[x] = {} /\ deps'[x] = {} /\ dependents'[x] = {}
    BY <1>1, <1>2 DEF TypeOK, Bookkeeping
  <2>2. \A x \in nodes' : exec'[x] # "none" => status'[x] \in {"RUNNING", "TIMEOUT", "FAILED", "CANCELLED"}
    BY <1>1, <1>2 DEF TypeOK, Bookkeeping
  <2>3. \A x \in nodes' : x \in ready' => deps'[x] = {}
    BY <1>1, <1>2 DEF TypeOK, Bookkeeping
  <2>4. \A x \in nodes' : x \in completedTasks' => status'[x] = "SUCCESS"
    BY <1>1, <1>2 DEF TypeOK, Bookkeeping
  <2>5. \A x, d \in Tasks : d \in nodes /\ Settled(d, x) => Settled(d, x)'
    BY <1>1, <1>2 DEF TypeOK, Settled
  <2>6. \A x \in nodes' : \A d \in (declared[x] \ deps[x])' : Settled(d, x)'
    <3>1. SUFFICES ASSUME NEW x \in nodes', NEW d \in declared'[x], d \notin deps'[x]
                   PROVE  Settled(d, x)'
      OBVIOUS
    <3>2. CASE x # t
      BY <1>1, <1>2, <2>5, <3>1, <3>2 DEF Bookkeeping, TypeOK
    <3>3. CASE x = t
      <4>1. d \in D /\ d \in completedTasks /\ d # t
        BY <1>1, <1>2, <3>1, <3>3 DEF TypeOK, open
      <4> QED BY <1>1, <1>2, <4>1 DEF Bookkeeping, Settled, TypeOK
    <3> QED BY <3>2, <3>3
  <2> QED BY <2>1, <2>2, <2>3, <2>4, <2>6 DEF Bookkeeping
<1> QED BY <1>3, <1>4, <1>5, <1>6

(* add_dependencies keeps the invariant, also when it raises half way.     *)
LEMMA AddDependenciesKeepsInv ==
    ASSUME IndInv, NEW t, NEW D, AddDependencies(t, D), UNCHANGED <<event, exec>>
    PROVE  IndInv'
<1> USE DEF IndInv
<1> DEFINE new  == D \ deps[t]
           open == deps[t] \union (new \ completedTasks)
           to   == IF open = {} THEN "READY" ELSE "PENDING"
<1>1. /\ MayAddDependencies(t, D)
      /\ declared' = [declared EXCEPT ![t] = @ \union new]
      /\ deps' = [deps EXCEPT ![t] = open]
      /\ dependents' = [d \in Tasks |-> IF d \in new THEN dependents[d] \union {t} ELSE dependents[d]]
      /\ IF CanTransition(status[t], to)
         THEN /\ status' = [status EXCEPT ![t] = to]
              /\ ready' = IF to = "READY" THEN ready \union {t} ELSE ready \ {t}
              /\ waiting' = IF to = "PENDING" THEN waiting \union {t} ELSE waiting \ {t}
         ELSE /\ ready' = ready \ {t}
              /\ waiting' = waiting \ {t}
              /\ UNCHANGED status
      /\ UNCHANGED <<blockReason, nodes, running, completedTasks, failedTasks>>
  BY DEF AddDependencies
<1>2. /\ t \in nodes /\ t \in Tasks /\ new \subseteq nodes /\ nodes \subseteq Tasks
      /\ status[t] \notin {"RUNNING", "SUCCESS", "FAILED", "CANCELLED"}
  BY <1>1 DEF MayAddDependencies, TypeOK
<1>3. open \subseteq nodes
  BY <1>2 DEF TypeOK
<1>4. status[t] \in TaskStatus /\ to \in {"READY", "PENDING"} /\ (to = "READY" <=> open = {})
  BY <1>2 DEF TypeOK
<1>5. /\ CanTransition(status[t], to) => status[t] # "TIMEOUT"
      /\ status[t] = "READY" => CanTransition(status[t], to)
      /\ status[t] = "PENDING" => CanTransition(status[t], to)
      /\ status[t] = "BLOCKED" => CanTransition(status[t], to)
  BY <1>4 DEF CanTransition, Allowed, TaskStatus
<1> HIDE DEF open, to, new
<1>6. TypeOK'
  <2>1. status' \in [Tasks -> TaskStatus]
    BY <1>1, <1>4 DEF TypeOK, TaskStatus
  <2>2. deps' \in [Tasks -> SUBSET nodes] /\ declared' \in [Tasks -> SUBSET nodes]
    BY <1>1, <1>2, <1>3 DEF TypeOK
  <2>3. dependents' \in [Tasks -> SUBSET nodes]
    BY <1>1, <1>2 DEF TypeOK
  <2>4. ready' \subseteq nodes /\ waiting' \subseteq nodes
    BY <1>1, <1>2 DEF TypeOK
  <2> QED BY <1>1, <2>1, <2>2, <2>3, <2>4 DEF TypeOK
<1>7. QueuesMatchStatus'
  BY <1>1, <1>2, <1>4, <1>5, SMT DEF TypeOK, QueuesMatchStatus
<1>8. SingleExecution'
  BY <1>1, <1>2, <1>5, SMT DEF TypeOK, SingleExecution, Bookkeeping
<1>9. Bookkeeping'
  <2>1. \A x \in (Tasks \ nodes)' :
          /\ status'[x] = "PENDING" /\ exec'[x] = "none"
          /\ declared'[x] = {} /\ deps'[x] = {} /\ dependents'[x] = {}
    BY <1>1, <1>2 DEF TypeOK, Bookkeeping
  <2>2. \A x \in nodes' : exec'[x] # "none" => status'[x] \in {"RUNNING", "TIMEOUT", "FAILED", "CANCELLED"}
    BY <1>1, <1>2, <1>5 DEF TypeOK, Bookkeeping
  <2>3. \A x \in nodes' : x \in ready' => deps'[x] = {}
    BY <1>1, <1>2, <1>4, ZenonT(60) DEF TypeOK, Bookkeeping
  <2>4. \A x \in nodes' : x \in completedTasks' => status'[x] = "SUCCESS"
    BY <1>1, <1>2 DEF TypeOK, Bookkeeping
  <2>5. \A x, d \in nodes : Settled(d, x) => Settled(d, x)'
    BY <1>1, <1>2 DEF TypeOK, Settled
  <2>6. \A x \in nodes' : \A d \in (declared[x] \ deps[x])' : Settled(d, x)'
    <3>1. SUFFICES ASSUME NEW x \in nodes, NEW d \in declared'[x], d \notin deps'[x]
                   PROVE  Settled(d, x)'
      BY <1>1
    <3>2. CASE d \in declared[x] /\ d \notin deps[x]
      BY <2>5, <3>1, <3>2 DEF Bookkeeping, TypeOK
    <3>3. CASE ~(d \in declared[x] /\ d \notin deps[x])
      <4>1. x = t /\ d \in completedTasks
        BY <1>1, <1>2, <3>1, <3>3 DEF TypeOK, open, new
      <4> QED BY <1>1, <1>2, <4>1 DEF Bookkeeping, Settled, TypeOK
    <3> QED BY <3>2, <3>3
  <2> QED BY <2>1, <2>2, <2>3, <2>4, <2>6 DEF Bookkeeping
<1> QED BY <1>6, <1>7, <1>8, <1>9
(* One turn of the scheduling loop keeps the invariant, also when dispatch *)
(* raises and the batch is lost.                                           *)
LEMMA TickKeepsInv ==
    ASSUME IndInv, ScheduleTick
    PROVE  IndInv'
<1> USE DEF IndInv
<1>1. PICK ok \in Admissions, batch \in SUBSET Tasks :
        /\ DispatchReady(ok, batch)
        /\ exec' = [x \in Tasks |-> IF x \in batch THEN "queued" ELSE exec[x]]
  BY DEF ScheduleTick
<1>2. PICK woken, admitted, refused, dropped \in SUBSET nodes :
        DispatchEffect(batch, woken, admitted, refused, dropped)
  BY <1>1, DispatchReadyEffect
<1>3. event' \in BOOLEAN /\ nodes \subseteq Tasks
  BY DEF ScheduleTick, TypeOK
<1>4. TypeOK'
  <2>1. status' \in [Tasks -> TaskStatus]
    BY <1>2 DEF TypeOK, TaskStatus, DispatchEffect
  <2>2. exec' \in [Tasks -> {"none", "queued", "started"}]
    BY <1>1 DEF TypeOK
  <2>3. ready' \subseteq nodes /\ running' \subseteq nodes
    BY <1>2 DEF TypeOK, DispatchEffect
  <2> QED BY <1>2, <1>3, <2>1, <2>2, <2>3 DEF TypeOK, DispatchEffect
<1>5. \A x \in admitted \union refused \union woken :
         exec[x] = "none" /\ x \in ready \union waiting /\ x \notin running
  BY <1>2 DEF DispatchEffect, SingleExecution, QueuesMatchStatus, TypeOK
<1>6. QueuesMatchStatus'
  BY <1>2, <1>3, <1>5 DEF TypeOK, DispatchEffect, QueuesMatchStatus
<1>7. SingleExecution'
  BY <1>1, <1>2, <1>3, <1>5 DEF TypeOK, DispatchEffect, SingleExecution, QueuesMatchStatus
<1>8. Bookkeeping'
  <2>1. \A x \in (Tasks \ nodes)' :
          /\ status'[x] = "PENDING" /\ exec'[x] = "none"
          /\ declared'[x] = {} /\ deps'[x] = {} /\ dependents'[x] = {}
    BY <1>1, <1>2 DEF DispatchEffect, Bookkeeping
  <2>2. \A x \in nodes' : exec'[x] # "none" => status'[x] \in {"RUNNING", "TIMEOUT", "FAILED", "CANCELLED"}
    BY <1>1, <1>2, <1>3, <1>5 DEF DispatchEffect, TypeOK, Bookkeeping
  <2>3. \A x \in nodes' : x \in ready' => deps'[x] = {}
    BY <1>2 DEF DispatchEffect, Bookkeeping
  <2>4. \A x \in admitted \union refused \union woken : status[x] \in {"READY", "PENDING", "BLOCKED"}
    BY <1>2 DEF DispatchEffect
  <2>5. \A x \in nodes' : x \in completedTasks' => status'[x] = "SUCCESS"
    BY <1>2, <1>3, <2>4 DEF DispatchEffect, Bookkeeping
  <2>6. \A x, d \in nodes : Settled(d, x) => Settled(d, x)'
    BY <1>2, <1>3, <2>4 DEF DispatchEffect, Settled
  <2>7. \A x \in nodes' : \A d \in (declared[x] \ deps[x])' : Settled(d, x)'
    BY <1>2, <1>3, <2>6 DEF DispatchEffect, Bookkeeping, TypeOK
  <2> QED BY <2>1, <2>2, <2>3, <2>5, <2>7 DEF Bookkeeping
<1> QED BY <1>4, <1>6, <1>7, <1>8

(* Cancelling, by request or by deadline, a task of the running table.     *)
LEMMA CancelRunningKeepsInv ==
    ASSUME IndInv, NEW t \in nodes, CancelRunning(t), status[t] # "SUCCESS",
           ExecutionsOnlyEnd, t \in running
    PROVE  IndInv'
<1> USE DEF IndInv
<1>1. /\ status' = [status EXCEPT ![t] = "CANCELLED"] /\ running' = running \ {t}
      /\ UNCHANGED <<blockReason, declared, nodes, deps, dependents, ready, waiting, completedTasks, failedTasks>>
  BY DEF CancelRunning, graphVars
<1>2. TypeOK'
  BY <1>1 DEF TypeOK, TaskStatus, ExecutionsOnlyEnd
<1>3. QueuesMatchStatus'
  BY <1>1 DEF QueuesMatchStatus, TypeOK
<1>4. SingleExecution'
  BY <1>1 DEF SingleExecution, ExecutionsOnlyEnd, TypeOK
<1>5. \A x, d \in nodes : Settled(d, x) => Settled(d, x)'
  BY <1>1 DEF Settled, TypeOK
<1>6. Bookkeeping'
  BY <1>1, <1>5, SMT DEF Bookkeeping, ExecutionsOnlyEnd, TypeOK
<1> QED BY <1>2, <1>3, <1>4, <1>6

(* A timeout, the next attempt, and a success the scheduler is not told of *)
(* only move a task of the running table between states of that table.     *)
LEMMA StatusMoveKeepsInv ==
    ASSUME IndInv, NEW t \in nodes, NEW s \in {"RUNNING", "TIMEOUT", "SUCCESS"},
           status[t] \in {"RUNNING", "TIMEOUT"},
           status' = [status EXCEPT ![t] = s],
           s = "SUCCESS" => exec'[t] = "none",
           UNCHANGED <<blockReason, graphVars, queueVars, completedTasks, failedTasks>>,
           ExecutionsOnlyEnd
    PROVE  IndInv'
<1> USE DEF IndInv
<1>1. UNCHANGED <<blockReason, declared, nodes, deps, dependents, ready, waiting, running, completedTasks, failedTasks>>
  BY DEF graphVars, queueVars
<1>2. TypeOK'
  BY <1>1 DEF TypeOK, TaskStatus, ExecutionsOnlyEnd
<1>3. QueuesMatchStatus'
  BY <1>1 DEF QueuesMatchStatus, TypeOK
<1>4. SingleExecution'
  BY <1>1 DEF SingleExecution, ExecutionsOnlyEnd, TypeOK
<1>5. \A x, d \in nodes : Settled(d, x) => Settled(d, x)'
  BY <1>1 DEF Settled, TypeOK
<1>6. Bookkeeping'
  BY <1>1, <1>5, ZenonT(60) DEF Bookkeeping, ExecutionsOnlyEnd, TypeOK
<1> QED BY <1>2, <1>3, <1>4, <1>6

(* A step that changes no variable of the scheduler.                       *)
LEMMA ExecKeepsInv ==
    ASSUME IndInv, UNCHANGED kernelVars, event' \in BOOLEAN,
           exec' \in [Tasks -> {"none", "queued", "started"}],
           \A x \in Tasks : exec'[x] = "none" \/ exec[x] # "none"
    PROVE  IndInv'
<1>1. UNCHANGED <<status, blockReason, declared, nodes, deps, dependents, ready, waiting, running,
                 completedTasks, failedTasks>>
  BY DEF kernelVars, graphVars, queueVars
<1> QED BY <1>1, ZenonT(60) DEF IndInv, TypeOK, QueuesMatchStatus, SingleExecution, Bookkeeping, Settled

(* Every step of the daemon keeps the invariant.                           *)
LEMMA NextKeepsInv ==
    ASSUME IndInv, [Next]_vars
    PROVE  IndInv'
<1> USE DEF IndInv
<1>0. nodes \subseteq Tasks
  BY DEF TypeOK
<1>1. ASSUME NEW t \in Tasks, NEW D \in SUBSET Tasks, SubmitTask(t, D) PROVE IndInv'
  BY <1>1, EnqueueKeepsInv DEF SubmitTask
<1>2. ASSUME NEW t \in Tasks, NEW D \in SUBSET Tasks, SpawnTask(t, D) PROVE IndInv'
  <2>1. SpawnDependencies(t, D) \in SUBSET nodes
    BY <1>2 DEF SpawnTask, SpawnDependencies
  <2> QED BY <1>2, <2>1, EnqueueKeepsInv DEF SpawnTask
<1>3. ASSUME NEW t \in Tasks, NEW D \in SUBSET Tasks, AddTaskDependencies(t, D) PROVE IndInv'
  BY <1>3, AddDependenciesKeepsInv DEF AddTaskDependencies
<1>4. ASSUME ScheduleTick PROVE IndInv'
  BY <1>4, TickKeepsInv
<1>5. ASSUME NEW t \in Tasks, CancelTask(t) PROVE IndInv'
  <2>1. t \in nodes /\ status[t] # "SUCCESS" /\ UNCHANGED exec /\ event' \in BOOLEAN
    BY <1>5 DEF CancelTask, TypeOK
  <2>2. ExecutionsOnlyEnd
    BY <2>1 DEF ExecutionsOnlyEnd, TypeOK
  <2>3. CASE t \in running
    BY <1>5, <2>1, <2>2, <2>3, CancelRunningKeepsInv DEF CancelTask
  <2>4. CASE t \notin running
    BY <1>5, <2>1, <2>2, <2>4, FailKeepsInv DEF CancelTask
  <2> QED BY <2>3, <2>4
<1>6. ASSUME NEW t \in Tasks, StartExecution(t) PROVE IndInv'
  <2>1. /\ exec' \in [Tasks -> {"none", "queued", "started"}] /\ event' \in BOOLEAN
        /\ \A x \in Tasks : exec'[x] = "none" \/ exec[x] # "none"
    BY <1>6 DEF StartExecution, TypeOK
  <2> QED BY <1>6, <2>1, ExecKeepsInv DEF StartExecution
<1>7. ASSUME NEW t \in Tasks, exec[t] # "none", EndExecution(t)
      PROVE  t \in nodes /\ t \notin ready \union waiting /\ ExecutionsOnlyEnd /\ exec'[t] = "none"
  BY <1>0, <1>7 DEF EndExecution, Bookkeeping, SingleExecution, ExecutionsOnlyEnd, TypeOK
<1>8. ASSUME NEW t \in Tasks, DeadlineExpired(t) PROVE IndInv'
  <2>1. /\ t \in nodes /\ t \notin ready \union waiting /\ ExecutionsOnlyEnd
        /\ status[t] # "SUCCESS"
    BY <1>7, <1>8 DEF DeadlineExpired, Bookkeeping
  <2>2. CASE t \in running
    BY <1>8, <2>1, <2>2, CancelRunningKeepsInv DEF DeadlineExpired
  <2>3. CASE t \notin running
    BY <1>8, <2>1, <2>3, FailKeepsInv DEF DeadlineExpired
  <2> QED BY <2>2, <2>3
<1>9. ASSUME NEW t \in Tasks, AttemptTimeout(t) \/ NextAttempt(t) PROVE IndInv'
  <2>1. t \in nodes /\ ExecutionsOnlyEnd
    BY <1>9 DEF AttemptTimeout, NextAttempt, Bookkeeping, ExecutionsOnlyEnd, TypeOK
  <2> QED BY <1>9, <2>1, StatusMoveKeepsInv DEF AttemptTimeout, NextAttempt
<1>10. ASSUME NEW t \in Tasks, FinishCancelled(t) PROVE IndInv'
  <2>1. /\ exec' \in [Tasks -> {"none", "queued", "started"}] /\ event' \in BOOLEAN
        /\ \A x \in Tasks : exec'[x] = "none" \/ exec[x] # "none"
    BY <1>10 DEF FinishCancelled, EndExecution, TypeOK
  <2> QED BY <1>10, <2>1, ExecKeepsInv DEF FinishCancelled
<1>11. ASSUME NEW t \in Tasks, FinishSuccess(t) PROVE IndInv'
  <2>1. /\ t \in nodes /\ t \notin ready \union waiting /\ ExecutionsOnlyEnd
        /\ exec'[t] = "none" /\ exec[t] # "none"
        /\ status[t] \in {"RUNNING", "TIMEOUT", "FAILED"}
    BY <1>7, <1>11 DEF FinishSuccess
  <2>2. CASE CanTransition(status[t], "SUCCESS")
    <3>1. status[t] = "RUNNING"
      BY <2>1, <2>2, TransitionFacts DEF TaskStatus
    <3> QED BY <1>11, <2>1, <2>2, <3>1, CompleteKeepsInv DEF FinishSuccess
  <2>3. CASE ~CanTransition(status[t], "SUCCESS")
    BY <1>11, <2>1, <2>3, FailKeepsInv DEF FinishSuccess
  <2> QED BY <2>2, <2>3
<1>12. ASSUME NEW t \in Tasks, FinishUnrecorded(t) PROVE IndInv'
  <2>1. t \in nodes /\ ExecutionsOnlyEnd /\ exec'[t] = "none"
    BY <1>7, <1>12 DEF FinishUnrecorded
  <2> QED BY <1>12, <2>1, StatusMoveKeepsInv DEF FinishUnrecorded
<1>13. ASSUME NEW t \in Tasks, FinishFailure(t) PROVE IndInv'
  <2>1. /\ t \in nodes /\ t \notin ready \union waiting /\ ExecutionsOnlyEnd
        /\ status[t] # "SUCCESS"
    BY <1>7, <1>13 DEF FinishFailure
  <2> QED BY <1>13, <2>1, FailKeepsInv DEF FinishFailure
<1>14. CASE UNCHANGED vars
  <2>1. UNCHANGED kernelVars /\ UNCHANGED <<event, exec>>
    BY <1>14 DEF vars
  <2> QED BY <2>1, ExecKeepsInv DEF TypeOK
<1> QED BY <1>1, <1>2, <1>3, <1>4, <1>5, <1>6, <1>8, <1>9, <1>10, <1>11, <1>12, <1>13, <1>14
       DEF Next, Finish

(* The invariant holds in every behaviour of the daemon.                   *)
THEOREM Invariance == Spec => []IndInv
<1>1. Init => IndInv
  BY DEF Init, KernelInit, IndInv, TypeOK, QueuesMatchStatus, SingleExecution, Bookkeeping, TaskStatus
<1>2. IndInv /\ [Next]_vars => IndInv'
  BY NextKeepsInv
<1> QED BY <1>1, <1>2, PTL DEF Spec

(* Every queue, table and dependency set always has its type.              *)
THEOREM TypeCorrect == Spec => []TypeOK
<1>1. IndInv => TypeOK
  BY DEF IndInv
<1> QED BY <1>1, Invariance, PTL

(* Whatever the clients do and whichever scheduler call raises, a live     *)
(* task is in the queue its status names.                                  *)
THEOREM NoTaskLost == Spec => []QueuesMatchStatus
<1>1. IndInv => QueuesMatchStatus
  BY DEF IndInv
<1> QED BY <1>1, Invariance, PTL

(* A task in the ready queue has every declared dependency settled.        *)
THEOREM ReadyOnlyWhenSettled == Spec => []ReadyIsSettled
<1>1. IndInv => ReadyIsSettled
  BY DEF IndInv, TypeOK, Bookkeeping, ReadyIsSettled
<1> QED BY <1>1, Invariance, PTL

(* No task has two executions at a time.                                   *)
THEOREM AtMostOneExecution == Spec => []SingleExecution
<1>1. IndInv => SingleExecution
  BY DEF IndInv
<1> QED BY <1>1, Invariance, PTL
(* No step takes a task out of FAILED, though the transition table would   *)
(* allow FAILED -> READY, or out of CANCELLED.                             *)
LEMMA FinalStays ==
    ASSUME IndInv, [Next]_vars, NEW x \in Tasks, NEW s \in {"FAILED", "CANCELLED"}, status[x] = s
    PROVE  status'[x] = s
<1> USE DEF IndInv
<1>0. x \in nodes /\ nodes \subseteq Tasks
  BY DEF Bookkeeping, TypeOK
<1>1. ASSUME NEW t \in nodes, NEW own \in {"FAILED", "CANCELLED"}, t = x => own = s,
             FailTask(t, own, FailOnce(t)) \/ FailTask(t, own, FailOnce(t) \union FailTwice(t))
      PROVE  status'[x] = s
  <2>1. own \in TaskStatus
    BY <1>1 DEF TaskStatus
  <2>2. PICK closed, opened, freed, hit \in SUBSET dependents[t] :
          FailEffect(t, own, closed, opened, freed, hit)
    BY <1>1, <2>1, FailTaskEffect
  <2> QED BY <1>1, <2>2 DEF FailEffect
<1>2. ASSUME NEW t \in Tasks, NEW D, Enqueue(t, D), t \notin nodes
      PROVE  status'[x] = s
  BY <1>0, <1>2 DEF Enqueue, TypeOK
<1>3. ASSUME NEW t \in Tasks, NEW D, AddDependencies(t, D)
      PROVE  status'[x] = s
  <2>1. status[t] # s
    BY <1>3 DEF AddDependencies, MayAddDependencies
  <2> QED BY <1>3, <2>1 DEF AddDependencies, TypeOK
<1>4. ASSUME NEW ok, NEW batch, DispatchReady(ok, batch)
      PROVE  status'[x] = s
  <2>1. PICK woken, admitted, refused, dropped \in SUBSET nodes :
          DispatchEffect(batch, woken, admitted, refused, dropped)
    BY <1>4, DispatchReadyEffect
  <2> QED BY <2>1 DEF DispatchEffect
<1>5. ASSUME NEW t \in nodes, CompleteTask(t), t # x
      PROVE  status'[x] = s
  <2>1. PICK done, freed, hit \in SUBSET dependents[t] : CompleteEffect(t, done, freed, hit)
    BY <1>5, CompleteTaskEffect
  <2> QED BY <1>0, <1>5, <2>1 DEF CompleteEffect, Moved
<1>6. ASSUME NEW t \in Tasks, CancelTask(t) PROVE status'[x] = s
  BY <1>1, <1>6 DEF CancelTask, CancelRunning, TypeOK
<1>7. ASSUME NEW t \in Tasks, DeadlineExpired(t) PROVE status'[x] = s
  <2>1. (t = x => s = "CANCELLED") /\ t \in nodes
    BY <1>7, TransitionFacts DEF DeadlineExpired, TaskStatus, Bookkeeping
  <2> QED BY <1>1, <1>7, <2>1 DEF DeadlineExpired, CancelRunning, TypeOK
<1>8. ASSUME NEW t \in Tasks, FinishSuccess(t) PROVE status'[x] = s
  <2>1. t \in nodes
    BY <1>8 DEF FinishSuccess, Bookkeeping
  <2>2. CASE CanTransition(status[t], "SUCCESS")
    <3>1. t # x
      BY <2>2, TransitionFacts DEF TaskStatus
    <3> QED BY <1>5, <1>8, <2>1, <2>2, <3>1 DEF FinishSuccess
  <2>3. CASE ~CanTransition(status[t], "SUCCESS")
    BY <1>1, <1>8, <2>1, <2>3 DEF FinishSuccess
  <2> QED BY <2>2, <2>3
<1>9. ASSUME NEW t \in Tasks, FinishFailure(t) PROVE status'[x] = s
  BY <1>1, <1>9 DEF FinishFailure, Bookkeeping
<1>10. ASSUME NEW t \in Tasks,
              AttemptTimeout(t) \/ NextAttempt(t) \/ FinishUnrecorded(t) \/ FinishCancelled(t) \/ StartExecution(t)
       PROVE  status'[x] = s
  BY <1>10 DEF AttemptTimeout, NextAttempt, FinishUnrecorded, FinishCancelled, StartExecution, kernelVars, TypeOK
<1>11. CASE UNCHANGED vars
  BY <1>11 DEF vars, kernelVars
<1> QED BY <1>2, <1>3, <1>4, <1>6, <1>7, <1>8, <1>9, <1>10, <1>11
       DEF Next, Finish, SubmitTask, SpawnTask, AddTaskDependencies, ScheduleTick

(* A failed task never becomes runnable again.                             *)
THEOREM FailedIsForever == Spec => FailedIsFinal
<1>1. IndInv /\ [Next]_vars => [\A t \in Tasks : status[t] = "FAILED" => status'[t] = "FAILED"]_vars
  BY FinalStays
<1> QED BY <1>1, Invariance, PTL DEF Spec, FailedIsFinal
-----------------------------------------------------------------------------
(* Reachable(s) is the least set that holds s and is closed under the      *)
(* dependents relation.                                                    *)
LEMMA ReachableFacts ==
    ASSUME TypeOK, NEW s \in Tasks
    PROVE  /\ s \in Reachable(s) /\ Reachable(s) \subseteq Tasks
           /\ Closed(Reachable(s))
           /\ \A S \in SUBSET Tasks : s \in S /\ Closed(S) => Reachable(s) \subseteq S
<1>1. s \in Reachable(s) /\ Reachable(s) \subseteq Tasks
  BY DEF Reachable
<1>2. \A S \in SUBSET Tasks : s \in S /\ Closed(S) => Reachable(s) \subseteq S
  BY DEF Reachable
<1>3. ASSUME NEW x \in Reachable(s), NEW y \in dependents[x] PROVE y \in Reachable(s)
  <2>1. x \in Tasks /\ y \in Tasks
    BY <1>1, <1>3 DEF TypeOK
  <2>2. ASSUME NEW S \in SUBSET Tasks, s \in S, Closed(S) PROVE y \in S
    BY <1>2, <1>3, <2>2 DEF Closed
  <2> QED BY <2>1, <2>2 DEF Reachable
<1> QED BY <1>1, <1>2, <1>3 DEF Closed

(* Edges from the tasks of D to t close no cycle when t reaches none of D: *)
(* the argument behind add_dependencies' check.                            *)
LEMMA NewEdgesKeepAcyclic ==
    ASSUME TypeOK, NEW t \in Tasks, NEW D \in SUBSET Tasks,
           \A u \in Tasks : \A x \in dependents[u] : u \notin Reachable(x),
           Reachable(t) \intersect D = {},
           dependents' = [d \in Tasks |-> IF d \in D THEN dependents[d] \union {t} ELSE dependents[d]],
           NEW u \in Tasks, NEW x \in dependents'[u]
    PROVE  u \notin Reachable(x)'
<1>1. SUFFICES \E S \in SUBSET Tasks : x \in S /\ u \notin S /\ \A z \in S : dependents'[z] \subseteq S
  BY DEF Reachable, Closed
<1>2. /\ t \in Reachable(t) /\ Reachable(t) \subseteq Tasks /\ Closed(Reachable(t))
  BY ReachableFacts
<1>3. \A z \in Reachable(t) : dependents'[z] \subseteq Reachable(t)
  BY <1>2 DEF Closed
<1>4. CASE x \notin dependents[u]
  <2>1. x = t /\ u \in D
    BY <1>4
  <2> QED BY <1>2, <1>3, <2>1
<1>5. CASE x \in dependents[u]
  <2>1. x \in Tasks
    BY <1>5 DEF TypeOK
  <2>2. x \in Reachable(x) /\ Reachable(x) \subseteq Tasks /\ Closed(Reachable(x)) /\ u \notin Reachable(x)
    BY <1>5, <2>1, ReachableFacts
  <2>3. CASE u \in Reachable(t)
    <3>1. x \in Reachable(t)
      BY <1>2, <1>5, <2>3 DEF Closed
    <3>2. Reachable(x) \subseteq Reachable(t)
      BY <1>2, <2>1, <3>1, ReachableFacts
    <3>3. \A z \in Reachable(x) : dependents'[z] \subseteq Reachable(x)
      BY <2>2, <3>2 DEF Closed
    <3> QED BY <2>2, <3>3
  <2>4. CASE u \notin Reachable(t)
    <3> DEFINE S == Reachable(x) \union Reachable(t)
    <3>1. \A z \in S : dependents'[z] \subseteq S
      BY <1>2, <1>3, <2>2 DEF Closed
    <3>2. x \in S /\ u \notin S /\ S \in SUBSET Tasks
      BY <1>2, <2>2, <2>4
    <3> HIDE DEF S
    <3> QED BY <3>1, <3>2
  <2> QED BY <2>3, <2>4
<1> QED BY <1>4, <1>5

(* A step that adds no edge keeps the graph sound.                         *)
LEMMA ShrinkingKeepsGraph ==
    ASSUME DependencyGraphSound, UNCHANGED <<nodes, dependents>>,
           \A x \in nodes : deps'[x] \subseteq deps[x]
    PROVE  DependencyGraphSound'
<1>1. \A x : Reachable(x)' = Reachable(x)
  BY DEF Reachable, Closed
<1> QED BY <1>1 DEF DependencyGraphSound

(* Every step keeps the dependency graph sound.                            *)
LEMMA NextKeepsGraph ==
    ASSUME IndInv, DependencyGraphSound, [Next]_vars
    PROVE  DependencyGraphSound'
<1> USE DEF IndInv
<1>0. /\ nodes \subseteq Tasks
      /\ \A u \in Tasks : \A x \in dependents[u] : u \notin Reachable(x)
  BY DEF TypeOK, Bookkeeping, DependencyGraphSound
<1>1. ASSUME NEW t \in Tasks, t \notin nodes, NEW D \in SUBSET nodes, Enqueue(t, D)
      PROVE  DependencyGraphSound'
  <2>1. Reachable(t) \subseteq {t}
    <3>1. Closed({t})
      BY <1>1 DEF Closed, Bookkeeping
    <3> QED BY <3>1, ReachableFacts
  <2>2. /\ dependents' = [d \in Tasks |-> IF d \in D THEN dependents[d] \union {t} ELSE dependents[d]]
        /\ deps' = [deps EXCEPT ![t] = D \ completedTasks]
        /\ nodes' = nodes \union {t}
    BY <1>1 DEF Enqueue
  <2>3. Reachable(t) \intersect D = {} /\ D \in SUBSET Tasks
    BY <1>0, <1>1, <2>1
  <2>4. \A u \in Tasks : \A x \in dependents'[u] : u \notin Reachable(x)'
    BY <1>0, <2>2, <2>3, NewEdgesKeepAcyclic
  <2>5. \A u \in nodes' : \A d \in deps'[u] : u \in dependents'[d]
    BY <1>0, <1>1, <2>2, SMT DEF DependencyGraphSound, TypeOK
  <2> QED BY <1>0, <2>2, <2>4, <2>5 DEF DependencyGraphSound
<1>2. ASSUME NEW t \in Tasks, NEW D, AddDependencies(t, D)
      PROVE  DependencyGraphSound'
  <2> DEFINE new == D \ deps[t]
  <2>1. /\ dependents' = [d \in Tasks |-> IF d \in new THEN dependents[d] \union {t} ELSE dependents[d]]
        /\ deps' = [deps EXCEPT ![t] = deps[t] \union (new \ completedTasks)]
        /\ nodes' = nodes
        /\ Reachable(t) \intersect D = {} /\ D \subseteq nodes
    BY <1>2 DEF AddDependencies, MayAddDependencies
  <2>2. new \in SUBSET Tasks /\ Reachable(t) \intersect new = {}
    BY <1>0, <2>1
  <2>3. \A u \in Tasks : \A x \in dependents'[u] : u \notin Reachable(x)'
    BY <1>0, <2>1, <2>2, NewEdgesKeepAcyclic
  <2>4. \A u \in nodes' : \A d \in deps'[u] : u \in dependents'[d]
    BY <1>0, <2>1, <2>2 DEF DependencyGraphSound, TypeOK
  <2> QED BY <1>0, <2>1, <2>3, <2>4 DEF DependencyGraphSound
<1>3. ASSUME NEW t \in nodes, NEW own \in {"FAILED", "CANCELLED"},
             FailTask(t, own, FailOnce(t)) \/ FailTask(t, own, FailOnce(t) \union FailTwice(t))
      PROVE  DependencyGraphSound'
  <2>1. UNCHANGED <<nodes, dependents>> /\ \E S : deps' = Resolved(t, S)
    BY <1>3 DEF FailTask
  <2> QED BY <1>0, <2>1, ShrinkingKeepsGraph DEF Resolved
<1>4. ASSUME NEW t \in nodes, CompleteTask(t)
      PROVE  DependencyGraphSound'
  <2>1. UNCHANGED <<nodes, dependents>> /\ \E S : deps' = Resolved(t, S)
    BY <1>4 DEF CompleteTask
  <2> QED BY <1>0, <2>1, ShrinkingKeepsGraph DEF Resolved
<1>5. ASSUME UNCHANGED <<nodes, deps, dependents>> PROVE DependencyGraphSound'
  BY <1>5, ShrinkingKeepsGraph
<1>6. ASSUME NEW t \in Tasks, NEW D \in SUBSET Tasks, SpawnTask(t, D) PROVE DependencyGraphSound'
  <2>1. SpawnDependencies(t, D) \in SUBSET nodes
    BY <1>6 DEF SpawnTask, SpawnDependencies
  <2> QED BY <1>1, <1>6, <2>1 DEF SpawnTask
<1>7. ASSUME NEW t \in Tasks, CancelTask(t) PROVE DependencyGraphSound'
  BY <1>3, <1>5, <1>7 DEF CancelTask, CancelRunning, graphVars
<1>8. ASSUME NEW t \in Tasks, DeadlineExpired(t) PROVE DependencyGraphSound'
  BY <1>3, <1>5, <1>8 DEF DeadlineExpired, CancelRunning, graphVars, Bookkeeping
<1>9. ASSUME NEW t \in Tasks, FinishSuccess(t) \/ FinishFailure(t) PROVE DependencyGraphSound'
  BY <1>3, <1>4, <1>9 DEF FinishSuccess, FinishFailure, Bookkeeping
<1>10. ASSUME NEW t \in Tasks,
              AttemptTimeout(t) \/ NextAttempt(t) \/ FinishUnrecorded(t) \/ FinishCancelled(t) \/ StartExecution(t)
       PROVE  DependencyGraphSound'
  BY <1>5, <1>10
     DEF AttemptTimeout, NextAttempt, FinishUnrecorded, FinishCancelled, StartExecution, kernelVars, graphVars
<1>11. ASSUME ScheduleTick PROVE DependencyGraphSound'
  BY <1>5, <1>11 DEF ScheduleTick, DispatchReady, graphVars
<1>12. CASE UNCHANGED vars
  BY <1>5, <1>12 DEF vars, kernelVars, graphVars
<1>13. ASSUME NEW t \in Tasks, NEW D \in SUBSET Tasks, SubmitTask(t, D) \/ AddTaskDependencies(t, D)
       PROVE  DependencyGraphSound'
  BY <1>1, <1>2, <1>13 DEF SubmitTask, AddTaskDependencies
<1> QED BY <1>6, <1>7, <1>8, <1>9, <1>10, <1>11, <1>12, <1>13 DEF Next, Finish

(* The dependency graph is acyclic in every reachable state, and whoever   *)
(* waits for a task will be visited when it ends.                          *)
THEOREM GraphAlwaysSound == Spec => []DependencyGraphSound
<1>1. Init => DependencyGraphSound
  BY DEF Init, KernelInit, DependencyGraphSound
<1>2. IndInv /\ DependencyGraphSound /\ [Next]_vars => DependencyGraphSound'
  BY NextKeepsGraph
<1> QED BY <1>1, <1>2, Invariance, PTL DEF Spec
-----------------------------------------------------------------------------
(* What a step has to do not to strand a task, while none is cancelled:    *)
(* leave alone the executions of running tasks, and resolve what has       *)
(* completed.                                                              *)
NoneCancelled == \A t \in Tasks : status[t] # "CANCELLED"
CompletedIsReleased == \A t \in nodes : deps[t] \intersect completedTasks = {}
RunningIsExecuted == \A t \in running : status[t] = "RUNNING" => exec[t] # "none"

(* A step that completes nothing and adds no open dependency, and by which *)
(* only a task with an execution gets to RUNNING.                          *)
LEMMA QuietStepStrandsNone ==
    ASSUME RunningIsExecuted, CompletedIsReleased, UNCHANGED <<nodes, completedTasks>>,
           \A x \in nodes : deps'[x] \subseteq deps[x],
           \A x \in running' : status'[x] = "RUNNING" =>
               exec'[x] # "none" \/ (x \in running /\ status[x] = "RUNNING" /\ exec'[x] = exec[x])
    PROVE  (RunningIsExecuted /\ CompletedIsReleased)'
BY DEF RunningIsExecuted, CompletedIsReleased

(* fail_task completes nothing, and only its own task ends.                *)
LEMMA FailStrandsNone ==
    ASSUME IndInv, RunningIsExecuted, CompletedIsReleased, NEW t \in nodes, NEW own \in {"FAILED", "CANCELLED"},
           FailTask(t, own, FailOnce(t)) \/ FailTask(t, own, FailOnce(t) \union FailTwice(t)),
           \A x \in Tasks : x # t => exec'[x] = exec[x]
    PROVE  (RunningIsExecuted /\ CompletedIsReleased)'
<1>1. own \in TaskStatus /\ TypeOK /\ QueuesMatchStatus /\ nodes \subseteq Tasks /\ running \subseteq nodes
  BY DEF TaskStatus, IndInv, TypeOK
<1>2. PICK closed, opened, freed, hit \in SUBSET dependents[t] :
        FailEffect(t, own, closed, opened, freed, hit)
  BY <1>1, FailTaskEffect
<1>3. UNCHANGED <<nodes, completedTasks>> /\ running' = running \ {t}
  BY <1>2 DEF FailEffect
<1>4. \A x \in nodes : deps'[x] \subseteq deps[x]
  BY <1>1, <1>2 DEF FailEffect, Resolved
<1>5. \A x \in running' : status'[x] = "RUNNING" => x # t /\ x \in running /\ status[x] = "RUNNING"
  BY <1>1, <1>2, <1>3 DEF FailEffect
<1> QED BY <1>1, <1>3, <1>4, <1>5, QuietStepStrandsNone

(* complete_task reaches every dependent if none of them was cancelled.    *)
LEMMA CompleteStrandsNone ==
    ASSUME IndInv, DependencyGraphSound, NoneCancelled, RunningIsExecuted, CompletedIsReleased,
           NEW t \in nodes, CompleteTask(t), \A x \in Tasks : x # t => exec'[x] = exec[x]
    PROVE  (RunningIsExecuted /\ CompletedIsReleased)'
<1>1. TypeOK /\ QueuesMatchStatus /\ nodes \subseteq Tasks /\ running \subseteq nodes
  BY DEF IndInv, TypeOK
<1>2. PICK done, freed, hit \in SUBSET dependents[t] : CompleteEffect(t, done, freed, hit)
  BY <1>1, CompleteTaskEffect
<1>3. hit = {} /\ done = dependents[t]
  <2>1. hit \subseteq Tasks
    BY <1>1 DEF TypeOK
  <2> QED BY <1>2, <2>1 DEF CompleteEffect, NoneCancelled
<1>4. RunningIsExecuted'
  <2>1. \A x \in running' : x \in running /\ x # t /\ exec'[x] = exec[x]
    BY <1>1, <1>2 DEF CompleteEffect
  <2>2. \A x \in running' : status'[x] = "RUNNING" => status[x] = "RUNNING"
    BY <1>1, <1>2, <2>1 DEF CompleteEffect, Moved
  <2> QED BY <2>1, <2>2 DEF RunningIsExecuted
<1>5. CompletedIsReleased'
  <2>1. nodes' = nodes /\ completedTasks' = completedTasks \union {t}
    BY <1>2 DEF CompleteEffect
  <2>2. \A x \in nodes : deps'[x] \subseteq deps[x] /\ t \notin deps'[x]
    <3>1. \A x \in nodes : t \in deps[x] => x \in dependents[t]
      BY DEF DependencyGraphSound
    <3> QED BY <1>1, <1>2, <1>3, <3>1 DEF CompleteEffect, Resolved
  <2> QED BY <2>1, <2>2 DEF CompletedIsReleased
<1> QED BY <1>4, <1>5

(* dispatch_ready hands every task it marks RUNNING to an execution if no  *)
(* entry of the queue was cancelled.                                       *)
LEMMA TickStrandsNone ==
    ASSUME IndInv, NoneCancelled, RunningIsExecuted, CompletedIsReleased, ScheduleTick
    PROVE  (RunningIsExecuted /\ CompletedIsReleased)'
<1>1. TypeOK /\ QueuesMatchStatus /\ nodes \subseteq Tasks /\ running \subseteq nodes
  BY DEF IndInv, TypeOK
<1>2. PICK ok \in Admissions, batch \in SUBSET Tasks :
        DispatchReady(ok, batch) /\ exec' = [t \in Tasks |-> IF t \in batch THEN "queued" ELSE exec[t]]
  BY DEF ScheduleTick
<1>3. PICK woken, admitted, refused, dropped \in SUBSET nodes :
        DispatchEffect(batch, woken, admitted, refused, dropped)
  BY <1>1, <1>2, DispatchReadyEffect
<1>4. dropped = {} /\ batch = admitted
  BY <1>1, <1>3 DEF DispatchEffect, NoneCancelled
<1>5. \A x \in running' : status'[x] = "RUNNING" =>
          exec'[x] # "none" \/ (x \in running /\ status[x] = "RUNNING" /\ exec'[x] = exec[x])
  <2> SUFFICES ASSUME NEW x \in running', status'[x] = "RUNNING", x \notin admitted
               PROVE  x \in running /\ status[x] = "RUNNING" /\ exec'[x] = exec[x]
    BY <1>1, <1>2, <1>4
  <2>1. x \in running /\ x \in Tasks
    BY <1>1, <1>3 DEF DispatchEffect
  <2> QED BY <1>2, <1>3, <1>4, <2>1 DEF DispatchEffect
<1>6. UNCHANGED <<nodes, completedTasks, deps>>
  BY <1>3 DEF DispatchEffect
<1> QED BY <1>5, <1>6, QuietStepStrandsNone

(* Every step leaves no task stranded as long as none is cancelled.        *)
NoneStranded == NoneCancelled => RunningIsExecuted /\ CompletedIsReleased

LEMMA NextStrandsNone ==
    ASSUME IndInv, DependencyGraphSound, NoneStranded, [Next]_vars
    PROVE  NoneStranded'
<1> SUFFICES ASSUME NoneCancelled'
             PROVE  (RunningIsExecuted /\ CompletedIsReleased)'
  BY DEF NoneStranded
<1>1. NoneCancelled
  BY FinalStays DEF NoneCancelled
<1>2. RunningIsExecuted /\ CompletedIsReleased
  BY <1>1 DEF NoneStranded
<1>3. /\ nodes \subseteq Tasks /\ running \subseteq nodes /\ TypeOK /\ Bookkeeping
      /\ status \in [Tasks -> TaskStatus] /\ exec \in [Tasks -> {"none", "queued", "started"}]
      /\ deps \in [Tasks -> SUBSET nodes]
  BY DEF IndInv, TypeOK
<1>4. ASSUME NEW t \in Tasks, t \notin nodes, NEW D \in SUBSET nodes, Enqueue(t, D), UNCHANGED exec
      PROVE  (RunningIsExecuted /\ CompletedIsReleased)'
  <2>1. /\ nodes' = nodes \union {t} /\ running' = running /\ completedTasks' = completedTasks
        /\ deps' = [deps EXCEPT ![t] = D \ completedTasks]
        /\ \A x \in Tasks : x # t => status'[x] = status[x]
    BY <1>3, <1>4 DEF Enqueue
  <2>2. RunningIsExecuted'
    BY <1>2, <1>3, <1>4, <2>1 DEF RunningIsExecuted
  <2>3. deps'[t] = D \ completedTasks /\ \A x \in nodes : deps'[x] = deps[x]
    BY <1>3, <1>4, <2>1
  <2> QED BY <1>2, <2>1, <2>2, <2>3 DEF CompletedIsReleased
<1>5. ASSUME NEW t \in Tasks, NEW D \in SUBSET Tasks, AddDependencies(t, D), UNCHANGED exec
      PROVE  (RunningIsExecuted /\ CompletedIsReleased)'
  <2> DEFINE open == deps[t] \union ((D \ deps[t]) \ completedTasks)
  <2>1. /\ status[t] # "RUNNING" /\ t \in nodes /\ nodes' = nodes /\ running' = running
        /\ completedTasks' = completedTasks /\ deps' = [deps EXCEPT ![t] = open]
    BY <1>5 DEF AddDependencies, MayAddDependencies
  <2>2. status'[t] # "RUNNING" /\ \A x \in Tasks : x # t => status'[x] = status[x]
    BY <1>3, <1>5, <2>1 DEF AddDependencies
  <2>3. RunningIsExecuted'
    BY <1>2, <1>3, <1>5, <2>1, <2>2 DEF RunningIsExecuted
  <2>4. deps'[t] = open /\ \A x \in nodes : x # t => deps'[x] = deps[x]
    BY <1>3, <2>1
  <2>5. open \intersect completedTasks = {}
    BY <1>2, <2>1 DEF CompletedIsReleased
  <2> HIDE DEF open
  <2> QED BY <1>2, <2>1, <2>3, <2>4, <2>5 DEF CompletedIsReleased
<1>6. ASSUME NEW t \in Tasks, CancelTask(t) \/ DeadlineExpired(t) PROVE FALSE
  <2>1. status'[t] = "CANCELLED"
    BY <1>3, <1>6 DEF CancelTask, DeadlineExpired, CancelRunning, FailTask
  <2> QED BY <2>1 DEF NoneCancelled
<1>7. ASSUME NEW t \in Tasks, exec[t] # "none", EndExecution(t)
      PROVE  t \in nodes /\ \A x \in Tasks : x # t => exec'[x] = exec[x]
  BY <1>3, <1>7 DEF EndExecution, Bookkeeping
<1>8. ASSUME NEW t \in Tasks, FinishSuccess(t) \/ FinishFailure(t)
      PROVE  (RunningIsExecuted /\ CompletedIsReleased)'
  <2>1. t \in nodes /\ \A x \in Tasks : x # t => exec'[x] = exec[x]
    BY <1>7, <1>8 DEF FinishSuccess, FinishFailure
  <2>2. \/ CompleteTask(t)
        \/ FailTask(t, "FAILED", FailOnce(t)) \/ FailTask(t, "FAILED", FailOnce(t) \union FailTwice(t))
    BY <1>8 DEF FinishSuccess, FinishFailure
  <2> QED BY <1>1, <1>2, <2>1, <2>2, CompleteStrandsNone, FailStrandsNone
<1>9. ASSUME NEW t \in Tasks,
             StartExecution(t) \/ AttemptTimeout(t) \/ NextAttempt(t) \/ FinishUnrecorded(t)
      PROVE  (RunningIsExecuted /\ CompletedIsReleased)'
  <2>1. UNCHANGED <<nodes, completedTasks, deps, running>>
    BY <1>9 DEF StartExecution, AttemptTimeout, NextAttempt, FinishUnrecorded, kernelVars, graphVars, queueVars
  <2>2. status'[t] = "RUNNING" => exec'[t] # "none"
    BY <1>3, <1>9 DEF StartExecution, AttemptTimeout, NextAttempt, FinishUnrecorded
  <2>3. \A x \in Tasks : x # t => status'[x] = status[x] /\ exec'[x] = exec[x]
    BY <1>3, <1>9
       DEF StartExecution, AttemptTimeout, NextAttempt, FinishUnrecorded, EndExecution, kernelVars
  <2> QED BY <1>2, <1>3, <2>1, <2>2, <2>3, QuietStepStrandsNone
<1>10. ASSUME NEW t \in Tasks, FinishCancelled(t) PROVE FALSE
  BY <1>1, <1>10 DEF FinishCancelled, NoneCancelled
<1>11. ASSUME NEW t \in Tasks, NEW D \in SUBSET Tasks, SubmitTask(t, D) \/ SpawnTask(t, D)
       PROVE  (RunningIsExecuted /\ CompletedIsReleased)'
  <2>1. SpawnTask(t, D) => SpawnDependencies(t, D) \in SUBSET nodes
    BY DEF SpawnTask, SpawnDependencies
  <2> QED BY <1>4, <1>11, <2>1 DEF SubmitTask, SpawnTask
<1>12. ASSUME NEW t \in Tasks, NEW D \in SUBSET Tasks, AddTaskDependencies(t, D)
       PROVE  (RunningIsExecuted /\ CompletedIsReleased)'
  BY <1>5, <1>12 DEF AddTaskDependencies
<1>13. ASSUME ScheduleTick PROVE (RunningIsExecuted /\ CompletedIsReleased)'
  BY <1>1, <1>2, <1>13, TickStrandsNone
<1>14. CASE UNCHANGED vars
  BY <1>2, <1>14 DEF vars, kernelVars, graphVars, queueVars, RunningIsExecuted, CompletedIsReleased
<1> QED BY <1>6, <1>8, <1>9, <1>10, <1>11, <1>12, <1>13, <1>14 DEF Next, Finish

(* A task that has succeeded is recorded as completed, or still in the     *)
(* running table.                                                          *)
SuccessHasPlace == \A t \in nodes : status[t] = "SUCCESS" => t \in completedTasks \union running

LEMMA NextKeepsPlace ==
    ASSUME IndInv, SuccessHasPlace, [Next]_vars
    PROVE  SuccessHasPlace'
<1>1. /\ nodes \subseteq Tasks /\ running \subseteq nodes /\ TypeOK /\ QueuesMatchStatus /\ Bookkeeping
      /\ status \in [Tasks -> TaskStatus] /\ exec \in [Tasks -> {"none", "queued", "started"}]
  BY DEF IndInv, TypeOK
<1>2. ASSUME NEW t \in Tasks, t \notin nodes, NEW D, Enqueue(t, D) PROVE SuccessHasPlace'
  <2>1. /\ nodes' = nodes \union {t} /\ running' = running /\ completedTasks' = completedTasks
        /\ status'[t] # "SUCCESS" /\ \A x \in Tasks : x # t => status'[x] = status[x]
    BY <1>1, <1>2 DEF Enqueue
  <2> QED BY <1>1, <2>1 DEF SuccessHasPlace
<1>3. ASSUME NEW t \in Tasks, NEW D, AddDependencies(t, D) PROVE SuccessHasPlace'
  <2>1. /\ UNCHANGED <<nodes, running, completedTasks>>
        /\ \A x \in Tasks : status'[x] = status[x] \/ status'[x] # "SUCCESS"
    BY <1>1, <1>3 DEF AddDependencies
  <2> QED BY <1>1, <2>1 DEF SuccessHasPlace
<1>4. ASSUME NEW t \in nodes, NEW own \in {"FAILED", "CANCELLED"},
             FailTask(t, own, FailOnce(t)) \/ FailTask(t, own, FailOnce(t) \union FailTwice(t))
      PROVE  SuccessHasPlace'
  <2>1. own \in TaskStatus
    BY DEF TaskStatus
  <2>2. PICK closed, opened, freed, hit \in SUBSET dependents[t] :
          FailEffect(t, own, closed, opened, freed, hit)
    BY <1>1, <1>4, <2>1, FailTaskEffect
  <2>3. /\ UNCHANGED <<nodes, completedTasks>> /\ running' = running \ {t}
        /\ \A x \in Tasks : status'[x] = "SUCCESS" => x # t /\ status[x] = "SUCCESS"
    BY <1>4, <2>2 DEF FailEffect
  <2> QED BY <1>1, <2>3 DEF SuccessHasPlace
<1>5. ASSUME NEW t \in nodes, CompleteTask(t) PROVE SuccessHasPlace'
  <2>1. PICK done, freed, hit \in SUBSET dependents[t] : CompleteEffect(t, done, freed, hit)
    BY <1>1, <1>5, CompleteTaskEffect
  <2>2. /\ nodes' = nodes /\ completedTasks' = completedTasks \union {t} /\ running' = running \ {t}
        /\ \A x \in Tasks : status'[x] = "SUCCESS" => x = t \/ status[x] = "SUCCESS"
    BY <2>1 DEF CompleteEffect, Moved
  <2> QED BY <1>1, <2>2 DEF SuccessHasPlace
<1>6. ASSUME ScheduleTick PROVE SuccessHasPlace'
  <2>1. PICK ok \in Admissions, batch \in SUBSET Tasks : DispatchReady(ok, batch)
    BY <1>6 DEF ScheduleTick
  <2>2. PICK woken, admitted, refused, dropped \in SUBSET nodes :
          DispatchEffect(batch, woken, admitted, refused, dropped)
    BY <1>1, <2>1, DispatchReadyEffect
  <2>3. /\ UNCHANGED <<nodes, completedTasks>> /\ running \subseteq running'
        /\ \A x \in Tasks : status'[x] = "SUCCESS" => status[x] = "SUCCESS"
    BY <2>2 DEF DispatchEffect
  <2> QED BY <1>1, <2>3 DEF SuccessHasPlace
<1>7. ASSUME NEW t \in Tasks, CancelTask(t) \/ DeadlineExpired(t) PROVE SuccessHasPlace'
  <2>1. t \in nodes /\ (FailTask(t, "CANCELLED", FailOnce(t)) \/ CancelRunning(t))
    BY <1>1, <1>7 DEF CancelTask, DeadlineExpired, Bookkeeping
  <2>2. CASE CancelRunning(t)
    <3>1. /\ UNCHANGED <<nodes, completedTasks>> /\ running' = running \ {t}
          /\ \A x \in Tasks : status'[x] = "SUCCESS" => x # t /\ status[x] = "SUCCESS"
      BY <1>1, <2>2 DEF CancelRunning, graphVars
    <3> QED BY <1>1, <3>1 DEF SuccessHasPlace
  <2> QED BY <1>4, <2>1, <2>2
<1>8. ASSUME NEW t \in Tasks, FinishSuccess(t) \/ FinishFailure(t) PROVE SuccessHasPlace'
  <2>1. t \in nodes
    BY <1>1, <1>8 DEF FinishSuccess, FinishFailure, Bookkeeping
  <2> QED BY <1>4, <1>5, <1>8, <2>1 DEF FinishSuccess, FinishFailure
<1>9. ASSUME NEW t \in Tasks,
             StartExecution(t) \/ AttemptTimeout(t) \/ NextAttempt(t) \/ FinishUnrecorded(t) \/ FinishCancelled(t)
      PROVE  SuccessHasPlace'
  <2>1. UNCHANGED <<nodes, completedTasks, running>>
    BY <1>9 DEF StartExecution, AttemptTimeout, NextAttempt, FinishUnrecorded, FinishCancelled,
                kernelVars, graphVars, queueVars
  <2>2. t \in nodes /\ (status'[t] = "SUCCESS" => status[t] = "SUCCESS" \/ t \in running)
    BY <1>1, <1>9 DEF StartExecution, AttemptTimeout, NextAttempt, FinishUnrecorded, FinishCancelled,
                      kernelVars, Bookkeeping, QueuesMatchStatus
  <2>3. \A x \in Tasks : x # t => status'[x] = status[x]
    BY <1>1, <1>9 DEF StartExecution, AttemptTimeout, NextAttempt, FinishUnrecorded, FinishCancelled, kernelVars
  <2> QED BY <1>1, <2>1, <2>2, <2>3 DEF SuccessHasPlace
<1>10. ASSUME NEW t \in Tasks, NEW D \in SUBSET Tasks,
              SubmitTask(t, D) \/ SpawnTask(t, D) \/ AddTaskDependencies(t, D)
       PROVE  SuccessHasPlace'
  BY <1>2, <1>3, <1>10 DEF SubmitTask, SpawnTask, AddTaskDependencies
<1>11. CASE UNCHANGED vars
  BY <1>11 DEF vars, kernelVars, graphVars, queueVars, SuccessHasPlace
<1> QED BY <1>6, <1>7, <1>8, <1>9, <1>10, <1>11 DEF Next, Finish

(* Nothing but a cancellation makes dispatch_ready or complete_task raise: *)
(* until a task is cancelled, what runs is executed, and nobody waits for  *)
(* a success but one the scheduler never heard of.                         *)
THEOREM OnlyCancelledCutsShort == Spec => []OnlyCancellationCutsShort
<1>1. Init => NoneStranded /\ SuccessHasPlace
  BY DEF Init, KernelInit, NoneStranded, RunningIsExecuted, CompletedIsReleased, SuccessHasPlace
<1>2. /\ IndInv /\ DependencyGraphSound /\ NoneStranded /\ SuccessHasPlace /\ [Next]_vars
        => NoneStranded' /\ SuccessHasPlace'
  BY NextStrandsNone, NextKeepsPlace
<1>3. IndInv /\ NoneStranded /\ SuccessHasPlace => OnlyCancellationCutsShort
  <2> SUFFICES ASSUME IndInv, NoneStranded, SuccessHasPlace, NoneCancelled,
                      NEW t \in nodes, NEW d \in deps[t], status[d] = "SUCCESS"
               PROVE  d \in running \ completedTasks
    BY DEF OnlyCancellationCutsShort, NoneStranded, NoneCancelled, RunningIsExecuted
  <2>1. t \in Tasks /\ d \in nodes /\ d \notin completedTasks
    BY DEF IndInv, TypeOK, NoneStranded, CompletedIsReleased
  <2> QED BY <2>1 DEF SuccessHasPlace
<1> QED BY <1>1, <1>2, <1>3, Invariance, GraphAlwaysSound, PTL DEF Spec
-----------------------------------------------------------------------------
(* What the refinement needs beside IndInv: the states the scheduler does  *)
(* not use stay unused (from ORPHANED or RETRYING, unblock would make a    *)
(* task ready that no client saw queued), and a failure spreads along      *)
(* declared dependencies only.                                             *)
Unused == {"ORPHANED", "RETRYING", "FALLBACK"}
ShapeInv ==
    /\ \A t \in Tasks : status[t] \notin Unused
    /\ \A d \in Tasks : \A x \in dependents[d] : d \in declared[x]

(* A step that leaves the graph alone and reaches used states only.        *)
LEMMA SameGraphKeepsShape ==
    ASSUME ShapeInv, UNCHANGED <<declared, dependents>>,
           \A x \in Tasks : status'[x] = status[x] \/ status'[x] \notin Unused
    PROVE  ShapeInv'
BY DEF ShapeInv

(* Each scheduler call, and so each step, keeps it.                        *)
LEMMA NextKeepsShape ==
    ASSUME IndInv, ShapeInv, [Next]_vars
    PROVE  ShapeInv'
<1> USE DEF IndInv
<1>0. nodes \subseteq Tasks
  BY DEF TypeOK
<1>1. ASSUME NEW t \in Tasks, t \notin nodes, NEW D \in SUBSET nodes, Enqueue(t, D)
      PROVE  ShapeInv'
  <2>1. /\ declared' = [declared EXCEPT ![t] = D]
        /\ dependents' = [d \in Tasks |-> IF d \in D \intersect nodes
                                          THEN dependents[d] \union {t} ELSE dependents[d]]
        /\ \A x \in Tasks : status'[x] = status[x] \/ status'[x] \in {"READY", "PENDING"}
    BY <1>1 DEF Enqueue, TypeOK
  <2>2. \A d \in Tasks : \A x \in dependents'[d] : d \in declared'[x]
    BY <1>0, <1>1, <2>1, SMT DEF TypeOK, ShapeInv
  <2> QED BY <2>1, <2>2 DEF ShapeInv, Unused
<1>2. ASSUME NEW t \in Tasks, NEW D, AddDependencies(t, D)
      PROVE  ShapeInv'
  <2>1. /\ declared' = [declared EXCEPT ![t] = @ \union (D \ deps[t])]
        /\ dependents' = [d \in Tasks |-> IF d \in D \ deps[t]
                                          THEN dependents[d] \union {t} ELSE dependents[d]]
    BY <1>2 DEF AddDependencies
  <2>2. \A x \in Tasks : status'[x] = status[x] \/ status'[x] \in {"READY", "PENDING"}
    BY <1>2 DEF AddDependencies, TypeOK
  <2>3. \A d \in Tasks : \A x \in dependents'[d] : d \in declared'[x]
    BY <1>0, <2>1, SMT DEF TypeOK, ShapeInv
  <2> QED BY <2>2, <2>3 DEF ShapeInv, Unused
<1>3. ASSUME NEW t \in nodes, NEW own \in {"FAILED", "CANCELLED"},
             FailTask(t, own, FailOnce(t)) \/ FailTask(t, own, FailOnce(t) \union FailTwice(t))
      PROVE  ShapeInv'
  <2>1. own \in TaskStatus
    BY <1>3 DEF TaskStatus
  <2>2. PICK closed, opened, freed, hit \in SUBSET dependents[t] :
          FailEffect(t, own, closed, opened, freed, hit)
    BY <1>3, <2>1, FailTaskEffect
  <2> QED BY <1>3, <2>2, SameGraphKeepsShape DEF FailEffect, Unused
<1>4. ASSUME NEW t \in nodes, CompleteTask(t)
      PROVE  ShapeInv'
  <2>1. PICK done, freed, hit \in SUBSET dependents[t] : CompleteEffect(t, done, freed, hit)
    BY <1>4, CompleteTaskEffect
  <2> QED BY <1>0, <2>1, SameGraphKeepsShape DEF CompleteEffect, Moved, Unused
<1>5. ASSUME NEW ok, NEW batch, DispatchReady(ok, batch)
      PROVE  ShapeInv'
  <2>1. PICK woken, admitted, refused, dropped \in SUBSET nodes :
          DispatchEffect(batch, woken, admitted, refused, dropped)
    BY <1>5, DispatchReadyEffect
  <2> QED BY <2>1, SameGraphKeepsShape DEF DispatchEffect, Unused
<1>6. ASSUME NEW t \in Tasks, NEW D \in SUBSET Tasks, SpawnTask(t, D) PROVE ShapeInv'
  <2>1. SpawnDependencies(t, D) \in SUBSET nodes
    BY <1>6 DEF SpawnTask, SpawnDependencies
  <2> QED BY <1>1, <1>6, <2>1 DEF SpawnTask
<1>7. ASSUME NEW t \in nodes, CancelRunning(t) PROVE ShapeInv'
  BY <1>0, <1>7, SameGraphKeepsShape DEF CancelRunning, graphVars, TypeOK, Unused
<1>8. ASSUME NEW t \in Tasks, DeadlineExpired(t) \/ Finish(t) PROVE t \in nodes
  BY <1>8 DEF DeadlineExpired, Finish, FinishCancelled, FinishSuccess, FinishUnrecorded, FinishFailure, Bookkeeping
<1>9. ASSUME NEW t \in Tasks, CancelTask(t) \/ DeadlineExpired(t) \/ FinishSuccess(t) \/ FinishFailure(t)
      PROVE  ShapeInv'
  BY <1>3, <1>4, <1>7, <1>8, <1>9 DEF CancelTask, DeadlineExpired, Finish, FinishSuccess, FinishFailure
<1>10. ASSUME NEW t \in Tasks, AttemptTimeout(t) \/ NextAttempt(t) \/ FinishUnrecorded(t)
       PROVE  ShapeInv'
  BY <1>10, SameGraphKeepsShape DEF AttemptTimeout, NextAttempt, FinishUnrecorded, graphVars, TypeOK, Unused
<1>11. ASSUME UNCHANGED kernelVars PROVE ShapeInv'
  BY <1>11, SameGraphKeepsShape DEF kernelVars, graphVars
<1>12. ASSUME NEW t \in Tasks, FinishCancelled(t) \/ StartExecution(t) PROVE ShapeInv'
  BY <1>11, <1>12 DEF FinishCancelled, StartExecution
<1>13. CASE UNCHANGED vars
  BY <1>11, <1>13 DEF vars
<1> QED BY <1>1, <1>2, <1>5, <1>6, <1>9, <1>10, <1>12, <1>13
       DEF Next, Finish, SubmitTask, AddTaskDependencies, ScheduleTick

(* Both invariants together, in every behaviour of the daemon.             *)
THEOREM ShapeHolds == Spec => []ShapeInv
<1>1. Init => ShapeInv
  BY DEF Init, KernelInit, ShapeInv, Unused
<1>2. IndInv /\ ShapeInv /\ [Next]_vars => ShapeInv'
  BY NextKeepsShape
<1> QED BY <1>1, <1>2, Invariance, PTL DEF Spec
-----------------------------------------------------------------------------
(* What each phase says about the status behind it.                        *)
LEMMA PhaseFacts ==
    ASSUME IndInv, ShapeInv, NEW x \in Tasks
    PROVE  IF x \notin nodes THEN Phase[x] = "absent"
           ELSE /\ Phase[x] \in {"queued", "running", "timedout", "done", "failed", "cancelled"}
                /\ (Phase[x] = "queued") = (status[x] \in {"PENDING", "READY", "BLOCKED"})
                /\ (Phase[x] = "running") = (status[x] = "RUNNING")
                /\ (Phase[x] = "timedout") = (status[x] = "TIMEOUT")
                /\ (Phase[x] = "done") = (status[x] = "SUCCESS")
                /\ (Phase[x] = "failed") = (status[x] = "FAILED")
                /\ (Phase[x] = "cancelled") = (status[x] = "CANCELLED")
<1>1. status[x] \in TaskStatus \ Unused
  BY DEF IndInv, TypeOK, ShapeInv
<1> QED BY <1>1, SMT DEF Phase, PhaseOf, TaskStatus, Unused

(* A settled dependency is over, in the terms of TaskGraph.                *)
LEMMA SettledIsOver ==
    ASSUME IndInv, ShapeInv, NEW t \in Tasks, NEW d \in nodes, Settled(d, t)
    PROVE  Graph!Over(d, t)
<1>1. d \in Tasks
  BY DEF IndInv, TypeOK
<1>2. Phase[d] = "done" \/ (Phase[d] \in {"failed", "cancelled"} /\ FailMode(d, t) \in Permissive)
  BY <1>1, PhaseFacts DEF Settled
<1> QED BY <1>1, <1>2 DEF Graph!Over, Graph!Accepting, Permissive

(* enqueue is a submission.                                                *)
LEMMA EnqueueSubmits ==
    ASSUME IndInv, ShapeInv, NEW t \in Tasks, t \notin nodes, NEW D \in SUBSET nodes, Enqueue(t, D)
    PROVE  Graph!Submit(t, D)
<1>1. Phase[t] = "absent" /\ D \subseteq Graph!Known
  BY PhaseFacts DEF IndInv, TypeOK, Graph!Known
<1>2. declared' = [declared EXCEPT ![t] = D]
  BY DEF Enqueue
<1>3. Phase' = [Phase EXCEPT ![t] = "queued"]
  BY DEF Enqueue, IndInv, TypeOK, Phase, PhaseOf
<1> QED BY <1>1, <1>2, <1>3 DEF Graph!Submit

(* add_dependencies asks for more, also when its transition raises.        *)
LEMMA AddDependenciesAddsNeeds ==
    ASSUME IndInv, ShapeInv, NEW t \in Tasks, NEW D, AddDependencies(t, D)
    PROVE  Graph!AddNeeds(t, D \ deps[t])
<1>1. /\ t \in nodes /\ D \subseteq nodes /\ t \notin D /\ nodes' = nodes
      /\ status[t] \notin {"RUNNING", "SUCCESS", "FAILED", "CANCELLED"}
      /\ declared' = [declared EXCEPT ![t] = @ \union (D \ deps[t])]
  BY DEF AddDependencies, MayAddDependencies
<1>2. status[t] \in {"PENDING", "READY", "BLOCKED", "TIMEOUT"}
  BY <1>1 DEF IndInv, TypeOK, ShapeInv, TaskStatus, Unused
<1>3. Phase[t] \in {"queued", "timedout"} /\ D \ deps[t] \subseteq Graph!Known \ {t}
  BY <1>1, <1>2, PhaseFacts DEF IndInv, TypeOK, Graph!Known
<1>4. \/ status' = status
      \/ /\ status[t] # "TIMEOUT"
         /\ status' = [status EXCEPT ![t] = "READY"] \/ status' = [status EXCEPT ![t] = "PENDING"]
  <2>1. ~CanTransition("TIMEOUT", "READY") /\ ~CanTransition("TIMEOUT", "PENDING")
    BY DEF CanTransition, Allowed, TaskStatus
  <2> QED BY <2>1 DEF AddDependencies
<1>5. Phase' = Phase
  BY <1>1, <1>2, <1>4 DEF Phase, PhaseOf, IndInv, TypeOK
<1> QED BY <1>1, <1>3, <1>5 DEF Graph!AddNeeds

(* A turn of the loop starts the tasks it admits, all of them settled.     *)
LEMMA DispatchStarts ==
    ASSUME IndInv, ShapeInv, NEW ok, NEW batch, DispatchReady(ok, batch)
    PROVE  \E S \in SUBSET Tasks : Graph!Start(S)
<1>1. PICK woken, admitted, refused, dropped \in SUBSET nodes :
        DispatchEffect(batch, woken, admitted, refused, dropped)
  BY DispatchReadyEffect DEF IndInv
<1>2. nodes \subseteq Tasks /\ UNCHANGED <<nodes, declared>>
  BY <1>1 DEF DispatchEffect, IndInv, TypeOK
<1>3. \A x \in admitted \union refused \union woken : status[x] \in {"READY", "PENDING", "BLOCKED"}
  BY <1>1 DEF DispatchEffect
<1>4. \A x \in admitted : deps[x] = {}
  BY <1>1 DEF DispatchEffect, IndInv, Bookkeeping
<1>5. ASSUME NEW x \in admitted PROVE Phase[x] = "queued" /\ \A d \in declared[x] : Graph!Over(d, x)
  <2>1. \A d \in declared[x] : d \in nodes /\ Settled(d, x)
    BY <1>2, <1>4 DEF IndInv, Bookkeeping, TypeOK
  <2>2. x \in Tasks /\ x \in nodes
    BY <1>2
  <2>3. Phase[x] = "queued"
    BY <1>3, <2>2, PhaseFacts
  <2> QED BY <2>1, <2>2, <2>3, SettledIsOver
<1>6. status' = [x \in Tasks |-> IF x \in admitted THEN "RUNNING"
                                 ELSE IF x \in refused THEN "BLOCKED"
                                 ELSE IF x \in woken THEN "READY" ELSE status[x]]
  BY <1>1 DEF DispatchEffect
<1>7. Phase' = [x \in Tasks |-> IF x \in admitted THEN "running" ELSE Phase[x]]
  BY <1>2, <1>3, <1>6 DEF Phase, PhaseOf
<1>8. Graph!Start(admitted)
  BY <1>2, <1>5, <1>7 DEF Graph!Start
<1> QED BY <1>2, <1>8

(* fail_task makes t fall, and with it fail-closed dependents only.        *)
LEMMA FailTaskFalls ==
    ASSUME IndInv, ShapeInv, NEW t \in nodes, NEW own \in {"FAILED", "CANCELLED"},
           CanTransition(status[t], own),
           own = "FAILED" => status[t] \in {"RUNNING", "TIMEOUT", "FAILED"},
           FailTask(t, own, FailOnce(t)) \/ FailTask(t, own, FailOnce(t) \union FailTwice(t))
    PROVE  \E S \in SUBSET Tasks : Graph!Fall(t, PhaseOf(own), S)
<1>1. own \in TaskStatus /\ t \in Tasks /\ nodes \subseteq Tasks
  BY DEF TaskStatus, IndInv, TypeOK
<1>2. PICK closed, opened, freed, hit \in SUBSET dependents[t] :
        FailEffect(t, own, closed, opened, freed, hit)
  BY <1>1, FailTaskEffect DEF IndInv
<1>3. closed \subseteq nodes /\ freed \subseteq nodes /\ UNCHANGED <<nodes, declared>>
  BY <1>1, <1>2 DEF FailEffect, IndInv, TypeOK
<1>4. Phase[t] \in Graph!Ending(PhaseOf(own))
  <2>1. own = "CANCELLED" => status[t] \notin {"SUCCESS", "FAILED"}
    BY <1>1, TransitionFacts DEF IndInv, TypeOK
  <2> QED BY <1>1, <2>1, PhaseFacts DEF Graph!Ending, PhaseOf
<1>5. ASSUME NEW x \in closed
      PROVE  /\ Phase[x] \in {"queued", "running", "timedout", "failed"}
             /\ t \in declared[x] /\ FailMode(t, x) = "fail_closed"
  <2>1. x \in nodes /\ x \in Tasks /\ status[x] \notin {"SUCCESS", "CANCELLED"}
    BY <1>1, <1>2, <1>3 DEF FailEffect
  <2>2. t \in declared[x]
    BY <1>1 DEF ShapeInv
  <2>3. FailMode(t, x) = "fail_closed"
    BY <1>2 DEF FailEffect
  <2> QED BY <2>1, <2>2, <2>3, PhaseFacts
<1>6. Phase' = [x \in Tasks |-> IF x = t THEN PhaseOf(own)
                               ELSE IF x \in closed THEN "failed" ELSE Phase[x]]
  <2>1. /\ \A x \in freed : status[x] \in {"PENDING", "BLOCKED"}
        /\ status' = [x \in Tasks |-> IF x = t THEN own
                                      ELSE IF x \in closed THEN "FAILED"
                                      ELSE IF x \in freed THEN "READY" ELSE status[x]]
    BY <1>2 DEF FailEffect
  <2> QED BY <1>1, <1>3, <2>1 DEF Phase, PhaseOf
<1>7. Graph!Fall(t, PhaseOf(own), closed)
  BY <1>1, <1>3, <1>4, <1>5, <1>6 DEF Graph!Fall
<1> QED BY <1>1, <1>3, <1>7

(* Every step of the daemon is a step of TaskGraph, or invisible in it.    *)
LEMMA NextSimulates ==
    ASSUME IndInv, ShapeInv, [Next]_vars
    PROVE  [Graph!Next]_(Graph!graph)
<1> USE DEF IndInv
<1>0. nodes \subseteq Tasks
  BY DEF TypeOK
<1>1. SUFFICES \/ UNCHANGED <<Phase, declared>>
               \/ \E t \in Tasks : \/ Graph!Moves(t, "running", "timedout")
                                   \/ Graph!Moves(t, "timedout", "running")
                                   \/ Graph!Moves(t, "running", "done")
               \/ \E t \in Tasks, D \in SUBSET Tasks : Graph!Submit(t, D) \/ Graph!AddNeeds(t, D)
               \/ \E S \in SUBSET Tasks : Graph!Start(S)
               \/ \E t \in Tasks, S \in SUBSET Tasks : Graph!Fall(t, "failed", S) \/ Graph!Fall(t, "cancelled", S)
  BY DEF Graph!Next, Graph!graph
<1>2. ASSUME NEW t \in Tasks, NEW D \in SUBSET Tasks, SubmitTask(t, D) \/ SpawnTask(t, D)
      PROVE  \E E \in SUBSET Tasks : Graph!Submit(t, E)
  <2>1. \E E \in SUBSET nodes : t \notin nodes /\ Enqueue(t, E)
    BY <1>2 DEF SubmitTask, SpawnTask, SpawnDependencies
  <2> QED BY <1>0, <2>1, EnqueueSubmits
<1>3. ASSUME NEW t \in Tasks, NEW D \in SUBSET Tasks, AddTaskDependencies(t, D)
      PROVE  \E E \in SUBSET Tasks : Graph!AddNeeds(t, E)
  <2>1. Graph!AddNeeds(t, D \ deps[t])
    BY <1>3, AddDependenciesAddsNeeds DEF AddTaskDependencies
  <2> QED BY <2>1
<1>4. ASSUME ScheduleTick
      PROVE  \E S \in SUBSET Tasks : Graph!Start(S)
  BY <1>4, DispatchStarts DEF ScheduleTick
<1>5. ASSUME NEW t \in nodes, CancelRunning(t), status[t] \notin {"SUCCESS", "FAILED"}
      PROVE  \E S \in SUBSET Tasks : Graph!Fall(t, "cancelled", S)
  <2>1. t \in Tasks /\ UNCHANGED <<nodes, declared>> /\ status' = [status EXCEPT ![t] = "CANCELLED"]
    BY <1>0, <1>5 DEF CancelRunning, graphVars
  <2>2. Phase[t] \in Graph!Ending("cancelled")
    BY <1>5, <2>1, PhaseFacts DEF Graph!Ending
  <2>3. Phase' = [x \in Tasks |-> IF x = t THEN "cancelled" ELSE IF x \in {} THEN "failed" ELSE Phase[x]]
    BY <1>5, <2>1 DEF Phase, PhaseOf, TypeOK
  <2>4. Graph!Fall(t, "cancelled", {})
    BY <2>1, <2>2, <2>3 DEF Graph!Fall
  <2> QED BY <2>4
<1>6. ASSUME NEW t \in nodes, CanTransition(status[t], "CANCELLED"), FailTask(t, "CANCELLED", FailOnce(t))
      PROVE  \E S \in SUBSET Tasks : Graph!Fall(t, "cancelled", S)
  BY <1>6, FailTaskFalls DEF PhaseOf
<1>7. ASSUME NEW t \in nodes, status[t] \in {"RUNNING", "TIMEOUT", "FAILED"},
             FailTask(t, "FAILED", FailOnce(t)) \/ FailTask(t, "FAILED", FailOnce(t) \union FailTwice(t))
      PROVE  \E S \in SUBSET Tasks : Graph!Fall(t, "failed", S)
  <2>1. CanTransition(status[t], "FAILED")
    BY <1>7 DEF CanTransition, Allowed, TaskStatus
  <2> QED BY <1>7, <2>1, FailTaskFalls DEF PhaseOf
<1>8. ASSUME NEW t \in Tasks, CancelTask(t)
      PROVE  \E S \in SUBSET Tasks : Graph!Fall(t, "cancelled", S)
  <2>1. t \in nodes /\ status[t] \in {"PENDING", "READY", "BLOCKED", "RUNNING"}
    BY <1>8 DEF CancelTask, TypeOK, ShapeInv, TaskStatus, Unused
  <2>2. CanTransition(status[t], "CANCELLED")
    BY <2>1 DEF CanTransition, Allowed, TaskStatus
  <2> QED BY <1>5, <1>6, <1>8, <2>1, <2>2 DEF CancelTask
<1>9. ASSUME NEW t \in Tasks, DeadlineExpired(t)
      PROVE  \E S \in SUBSET Tasks : Graph!Fall(t, "cancelled", S)
  <2>1. t \in nodes /\ status[t] \notin {"SUCCESS", "FAILED"}
    BY <1>9, TransitionFacts DEF DeadlineExpired, Bookkeeping, TypeOK
  <2> QED BY <1>5, <1>6, <1>9, <2>1 DEF DeadlineExpired
<1>10. ASSUME NEW t \in nodes, CompleteTask(t), status[t] = "RUNNING"
       PROVE  Graph!Moves(t, "running", "done")
  <2>1. PICK done, freed, hit \in SUBSET dependents[t] : CompleteEffect(t, done, freed, hit)
    BY <1>10, CompleteTaskEffect
  <2>2. /\ t \in Tasks /\ UNCHANGED <<nodes, declared>>
        /\ \A x \in freed : status[x] \in {"PENDING", "BLOCKED"} /\ x \in nodes
        /\ status' = [x \in Tasks |-> IF x = t THEN "SUCCESS" ELSE IF x \in freed THEN "READY" ELSE status[x]]
    BY <1>0, <2>1 DEF CompleteEffect, Moved, TypeOK
  <2>3. Phase' = [Phase EXCEPT ![t] = "done"]
    BY <1>10, <2>2 DEF Phase, PhaseOf
  <2>4. Phase[t] = "running"
    BY <1>10, <2>2, PhaseFacts
  <2> QED BY <2>2, <2>3, <2>4 DEF Graph!Moves
<1>11. ASSUME NEW t \in Tasks, NEW from, NEW to, exec[t] # "none", status[t] = from,
              status' = [status EXCEPT ![t] = to], UNCHANGED <<nodes, declared>>
       PROVE  Graph!Moves(t, PhaseOf(from), PhaseOf(to))
  <2>1. t \in nodes
    BY <1>11 DEF Bookkeeping
  <2>2. Phase[t] = PhaseOf(from) /\ Phase' = [Phase EXCEPT ![t] = PhaseOf(to)]
    BY <1>11, <2>1 DEF Phase, TypeOK
  <2> QED BY <1>11, <2>2 DEF Graph!Moves
<1>12. ASSUME NEW t \in Tasks, AttemptTimeout(t)
       PROVE  Graph!Moves(t, "running", "timedout")
  <2>1. Graph!Moves(t, PhaseOf("RUNNING"), PhaseOf("TIMEOUT"))
    BY <1>11, <1>12 DEF AttemptTimeout, graphVars
  <2> QED BY <2>1 DEF PhaseOf
<1>13. ASSUME NEW t \in Tasks, NextAttempt(t)
       PROVE  Graph!Moves(t, "timedout", "running")
  <2>1. Graph!Moves(t, PhaseOf("TIMEOUT"), PhaseOf("RUNNING"))
    BY <1>11, <1>13 DEF NextAttempt, graphVars
  <2> QED BY <2>1 DEF PhaseOf
<1>14. ASSUME NEW t \in Tasks, FinishUnrecorded(t)
       PROVE  Graph!Moves(t, "running", "done")
  <2>1. Graph!Moves(t, PhaseOf("RUNNING"), PhaseOf("SUCCESS"))
    BY <1>11, <1>14 DEF FinishUnrecorded, graphVars
  <2> QED BY <2>1 DEF PhaseOf
<1>15. ASSUME NEW t \in Tasks, FinishSuccess(t)
       PROVE  Graph!Moves(t, "running", "done") \/ \E S \in SUBSET Tasks : Graph!Fall(t, "failed", S)
  <2>1. t \in nodes /\ status[t] \in {"RUNNING", "TIMEOUT", "FAILED"}
    BY <1>15 DEF FinishSuccess, Bookkeeping
  <2>2. CASE CanTransition(status[t], "SUCCESS")
    <3>1. status[t] = "RUNNING"
      BY <2>1, <2>2, TransitionFacts DEF TaskStatus
    <3> QED BY <1>10, <1>15, <2>1, <2>2, <3>1 DEF FinishSuccess
  <2>3. CASE ~CanTransition(status[t], "SUCCESS")
    BY <1>7, <1>15, <2>1, <2>3 DEF FinishSuccess
  <2> QED BY <2>2, <2>3
<1>16. ASSUME NEW t \in Tasks, FinishFailure(t)
       PROVE  \E S \in SUBSET Tasks : Graph!Fall(t, "failed", S)
  BY <1>7, <1>16 DEF FinishFailure, Bookkeeping
<1>17. ASSUME UNCHANGED kernelVars
       PROVE  UNCHANGED <<Phase, declared>>
  BY <1>17 DEF kernelVars, graphVars, Phase
<1>18. ASSUME NEW t \in Tasks, FinishCancelled(t) \/ StartExecution(t)
       PROVE  UNCHANGED <<Phase, declared>>
  BY <1>17, <1>18 DEF FinishCancelled, StartExecution
<1>19. CASE UNCHANGED vars
  BY <1>17, <1>19 DEF vars
<1>20. CASE \E t \in Tasks, D \in SUBSET Tasks : SubmitTask(t, D) \/ SpawnTask(t, D) \/ AddTaskDependencies(t, D)
  BY <1>2, <1>3, <1>20
<1>21. CASE \E t \in Tasks : CancelTask(t) \/ DeadlineExpired(t)
  BY <1>8, <1>9, <1>21
<1>22. CASE \E t \in Tasks : AttemptTimeout(t) \/ NextAttempt(t) \/ StartExecution(t)
  BY <1>12, <1>13, <1>18, <1>22
<1>23. CASE \E t \in Tasks : Finish(t)
  BY <1>14, <1>15, <1>16, <1>18, <1>23 DEF Finish
<1> QED BY <1>4, <1>19, <1>20, <1>21, <1>22, <1>23 DEF Next

(* The daemon's task endpoints, scheduling loop and executions implement   *)
(* TaskGraph: a task starts only when all it needs is over, what has ended *)
(* stays ended, and failures spread along fail_closed edges only.          *)
THEOREM Refinement == Spec => ImplementsTaskGraph
<1>1. Init => Graph!Init
  BY DEF Init, KernelInit, Graph!Init, Phase
<1>2. IndInv /\ ShapeInv /\ [Next]_vars => [Graph!Next]_(Graph!graph)
  BY NextSimulates
<1> QED BY <1>1, <1>2, Invariance, ShapeHolds, PTL DEF Spec, ImplementsTaskGraph, Graph!Spec
=============================================================================
