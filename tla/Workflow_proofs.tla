-------------------------- MODULE Workflow_proofs --------------------------
(***************************************************************************)
(* Proofs about Workflow for every set of tasks, every plan, any number of *)
(* retries, repair rounds and crashes: what the store and the worktrees    *)
(* keep across restarts, that dependencies are finished before a dependent *)
(* runs, and that the integration commit holds all the work that has       *)
(* succeeded.                                                              *)
(***************************************************************************)
EXTENDS Workflow, TLAPS

-----------------------------------------------------------------------------
(* How a task can end here, the points of an execution that hold the event *)
(* loop, those before its outcome, and what the store holds.               *)
Ended == {"SUCCESS", "FAILED"}
InTurn == {"recorded", "handling", "creating"}
Executing == {"queued", "begun", "leased", "working", "recorded"}
Places == {"none"} \union Executing \union InTurn
Works == SUBSET (Tasks \X Nat)
SavedRows == [state : TaskStatus, deps : SUBSET Tasks, attempt : Nat,
              patches : SUBSET Nat, base : Works]

(* The types the argument needs.                                           *)
Typed ==
    /\ status \in [Tasks -> TaskStatus] /\ nodes \in SUBSET Tasks
    /\ declared \in [Tasks -> SUBSET Tasks] /\ deps \in [Tasks -> SUBSET Tasks]
    /\ dependents \in [Tasks -> SUBSET Tasks] /\ completedTasks \in SUBSET Tasks
    /\ exec \in [Tasks -> Places] /\ attempt \in [Tasks -> Nat]
    /\ patches \in [Tasks -> SUBSET Nat] /\ base \in [Tasks -> Works]
    /\ commit \in Works /\ turn \in Tasks \union {Nobody}
    /\ todo \in Seq(Tasks \X SUBSET Tasks)
    /\ rows \in [Tasks -> SavedRows \union {Absent}]
    /\ workspaces \in Works

(* The coroutine that holds the event loop is the one in the middle of its *)
(* handler, and the only one that has tasks left to create.  A daemon that *)
(* is down has no memory.                                                  *)
TurnHeld ==
    /\ \A t \in Tasks : exec[t] \in InTurn <=> turn = t
    /\ todo # <<>> => \E t \in Tasks : exec[t] = "creating"
    /\ ~up => /\ nodes = {} /\ completedTasks = {} /\ commit = {}
              /\ \A t \in Tasks : exec[t] = "none" /\ dependents[t] = {} /\ attempt[t] = 0

(* What a queue holds is not executed; what executes waits for nothing.    *)
QueuesHold ==
    /\ ready \union waiting \subseteq nodes
    /\ \A t \in ready : status[t] = "READY" /\ deps[t] = {} /\ exec[t] = "none"
    /\ \A t \in waiting : status[t] \in {"PENDING", "BLOCKED"} /\ exec[t] = "none"
    /\ \A t \in Tasks :
        /\ exec[t] # "none" => t \in nodes /\ deps[t] = {}
        /\ exec[t] \in Executing => status[t] = "RUNNING"
        /\ t \notin nodes => attempt[t] = 0 /\ status[t] # "RUNNING"

(* The store knows every task the scheduler knows, with the number of its  *)
(* last attempt; and what it has as ended is ended for the daemon too.     *)
RowsAgree ==
    /\ \A t \in nodes :
        /\ rows[t] # Absent /\ rows[t].attempt = attempt[t]
        /\ rows[t].state \in Ended =>
               status[t] = rows[t].state /\ exec[t] \in {"none", "handling", "creating"}
    /\ \A t \in Tasks : exec[t] \in {"handling", "creating"} =>
           rows[t].state = status[t] /\ status[t] \in Ended

(* The number of a worktree is not above the one in the store, and an      *)
(* attempt that is about to create its worktree has a new number.          *)
AttemptsSaved ==
    /\ \A w \in workspaces : w[2] <= rows[w[1]].attempt
    /\ \A t \in Tasks : exec[t] \in {"begun", "leased"} => <<t, attempt[t]>> \notin workspaces

(* What a handler has still to create has no row, each id comes once, and  *)
(* a repair comes before its tester.                                       *)
TodoFresh ==
    \A k \in 1..Len(todo) :
        /\ todo[k][1] # Root /\ rows[todo[k][1]] = Absent
        /\ \A j \in 1..Len(todo) : todo[j][1] = todo[k][1] => j = k
        /\ \A i \in DOMAIN Pairs : todo[k][1] = Pairs[i].tester =>
               \/ rows[Pairs[i].repair] # Absent
               \/ k > 1 /\ todo[k - 1][1] = Pairs[i].repair

(* Until the planner's plan is taken up, it is the only task there is; and *)
(* no tester of a repair is created without the repair.                    *)
IdsUnused ==
    /\ rows[Root].state # "SUCCESS" \/ exec[Root] = "handling" =>
           \A t \in Tasks \ {Root} : rows[t] = Absent
    /\ exec[Root] = "creating" /\ todo # <<>> => rows[Root].state = "SUCCESS"
    /\ \A i \in DOMAIN Pairs : rows[Pairs[i].tester] # Absent => rows[Pairs[i].repair] # Absent
    /\ TodoFresh

(* A dependency that no longer holds a task back has ended in the store    *)
(* the way its policy wants; one that has not ended holds it back.         *)
Settled(d, t) ==
    \/ rows[d].state = "SUCCESS"
    \/ rows[d].state = "FAILED" /\ FailMode(d, t) \in Permissive
DepsSettled ==
    /\ \A d \in completedTasks : rows[d].state = "SUCCESS"
    /\ \A t \in nodes : \A d \in declared[t] \ deps[t] : Settled(d, t)
    /\ \A d \in Tasks : \A t \in dependents[d] :
           t \in nodes /\ (d \in deps[t] \/ rows[d].state \in Ended)

(* UnfinishedIsRecovered also in the middle of a handler.                  *)
RowsKnown ==
    up => \A t \in Staffed :
        \/ rows[t].state \in {"READY", "RUNNING"}
        \/ rows[t].state = "PENDING" /\ rows[t].deps = {}
        => t \in nodes

IndInv ==
    /\ Typed /\ TurnHeld /\ QueuesHold /\ RowsAgree /\ AttemptsSaved /\ IdsUnused
    /\ DepsSettled /\ RowsKnown

-----------------------------------------------------------------------------
(* Most steps are first-order reasoning about sets and functions: Zenon    *)
(* proves them, and the steps that need more say SMT.                      *)
USE Zenon

(* What the transition table says about queued and ended tasks.            *)
LEMMA TransitionFacts ==
    /\ CanTransition("READY", "RUNNING") /\ CanTransition("READY", "BLOCKED")
    /\ CanTransition("PENDING", "READY") /\ CanTransition("BLOCKED", "READY")
    /\ ~CanTransition("SUCCESS", "FAILED")
    /\ Ended \subseteq TaskStatus /\ "RUNNING" \notin Ended /\ "absent" \notin TaskStatus
    /\ {"PENDING", "READY", "RUNNING", "BLOCKED"} \subseteq TaskStatus
BY DEF CanTransition, Allowed, TaskStatus, Ended

(* With nothing left to create there is nothing to say of it.              *)
LEMMA NothingTodo ==
    ASSUME todo' = <<>>
    PROVE  TodoFresh'
BY SMT DEF TodoFresh

(* dispatch_ready of a queue that holds ready tasks only raises nowhere.   *)
LEMMA DispatchEffect ==
    ASSUME Typed, QueuesHold, NEW batch, ready # {}, DispatchReady(Staffed, batch)
    PROVE  /\ batch = ready \intersect Staffed
           /\ ready' = {} /\ waiting' = waiting \union (ready \ Staffed)
           /\ status' = [t \in Tasks |-> IF t \in batch THEN "RUNNING"
                                         ELSE IF t \in ready \ Staffed THEN "BLOCKED" ELSE status[t]]
           /\ UNCHANGED <<declared, nodes, deps, dependents, completedTasks>>
<1>1. DispatchFrom(ready, waiting, status, blockReason, Staffed, batch)
      /\ UNCHANGED <<declared, nodes, deps, dependents, completedTasks>>
  BY DEF DispatchReady, graphVars
<1>2. {t \in ready : ~CanTransition(status[t], IF t \in Staffed THEN "RUNNING" ELSE "BLOCKED")} = {}
  BY TransitionFacts DEF QueuesHold
<1>3. LoopOutcomes(ready, {}) = {[done |-> ready, hit |-> {}]}
  BY SMT DEF LoopOutcomes
<1>4. PICK o \in {[done |-> ready, hit |-> {}]} :
        /\ ready' = ready \ (o.done \union o.hit) /\ waiting' = waiting \union (o.done \ Staffed)
        /\ status' = [t \in Tasks |-> IF t \in o.done \intersect Staffed THEN "RUNNING"
                                      ELSE IF t \in o.done \ Staffed THEN "BLOCKED" ELSE status[t]]
        /\ batch = IF o.hit = {} THEN o.done \intersect Staffed ELSE {}
  BY <1>1, <1>2, <1>3 DEF DispatchFrom
<1>5. o.done = ready /\ o.hit = {}
  BY SMT
<1> QED BY <1>1, <1>4, <1>5

(* complete_task and fail_task of t as their effect on each task: own is   *)
(* the state t ends in, closed dependents fail and leave the queues, the   *)
(* released ones no longer wait for t, and those freed become ready.       *)
EndsWith(t, own, closed, released, freed) ==
    /\ closed \subseteq dependents[t] /\ released \subseteq dependents[t]
    /\ freed \subseteq released \intersect waiting
    /\ \A x \in closed : status[x] # "SUCCESS" /\ x \notin released
    /\ \A x \in freed : deps[x] \subseteq {t}
    /\ own = "FAILED" => \A x \in released : FailMode(t, x) \in Permissive
    /\ status' = [x \in Tasks |-> IF x = t THEN own ELSE IF x \in closed THEN "FAILED"
                                  ELSE IF x \in freed THEN "READY" ELSE status[x]]
    /\ deps' = [x \in Tasks |-> IF x \in released THEN deps[x] \ {t} ELSE deps[x]]
    /\ waiting' = waiting \ (closed \union freed)
    /\ ready' = (ready \ closed) \union freed
    /\ completedTasks' = IF own = "SUCCESS" THEN completedTasks \union {t} ELSE completedTasks
    /\ UNCHANGED <<declared, nodes, dependents>>

(* No released dependent raises: what waits is pending or blocked.         *)
LEMMA NoneRaises ==
    ASSUME QueuesHold, NEW t, NEW S
    PROVE  RaisesOnRelease(t, S) = {}
BY TransitionFacts DEF RaisesOnRelease, Freed, QueuesHold

(* complete_task of t.                                                     *)
LEMMA CompleteEffect ==
    ASSUME Typed, QueuesHold, NEW t \in Tasks, CompleteTask(t)
    PROVE  \E closed, released, freed \in SUBSET Tasks : EndsWith(t, "SUCCESS", closed, released, freed)
<1> DEFINE S == dependents[t]
           F == Freed(t, S)
<1>1. LoopOutcomes(S, RaisesOnRelease(t, S)) = {[done |-> S, hit |-> {}]}
  BY NoneRaises, SMT DEF LoopOutcomes
<1>2. /\ status' = [Moved(F, "READY") EXCEPT ![t] = "SUCCESS"]
      /\ deps' = Resolved(t, S)
      /\ waiting' = waiting \ F
      /\ ready' = ready \union F
      /\ completedTasks' = completedTasks \union {t}
      /\ UNCHANGED <<declared, nodes, dependents>>
  <2>1. PICK o \in {[done |-> S, hit |-> {}]} :
          /\ status' = [Moved(Freed(t, o.done), "READY") EXCEPT ![t] = "SUCCESS"]
          /\ deps' = Resolved(t, o.done \union o.hit)
          /\ waiting' = waiting \ (Freed(t, o.done) \union o.hit)
          /\ ready' = ready \union Freed(t, o.done)
          /\ completedTasks' = completedTasks \union {t}
          /\ UNCHANGED <<declared, nodes, dependents>>
    BY <1>1 DEF CompleteTask
  <2>2. o.done = S /\ o.hit = {}
    BY SMT
  <2>3. S \union {} = S /\ Freed(t, S) \union {} = Freed(t, S)
    OBVIOUS
  <2> QED BY <2>1, <2>2, <2>3
<1>3. S \in SUBSET Tasks /\ F \in SUBSET S /\ F \subseteq waiting /\ \A x \in F : deps[x] \subseteq {t}
  BY DEF Freed, Typed
<1> HIDE DEF F
<1>4. EndsWith(t, "SUCCESS", {}, S, F)
  BY <1>2, <1>3 DEF EndsWith, Moved, Resolved
<1> QED BY <1>3, <1>4

(* fail_task of t, which the loop over the dependents may end half way.    *)
LEMMA FailEffect ==
    ASSUME Typed, QueuesHold, NEW t \in Tasks, FailTask(t, "FAILED", FailOnce(t))
    PROVE  \E closed, released, freed \in SUBSET Tasks : EndsWith(t, "FAILED", closed, released, freed)
<1>1. PICK o \in FailOnce(t) :
        LET closed == o.done \intersect FailClosed(t)
            opened == o.done \intersect FailOpen(t)
            hit    == o.hit \intersect FailOpen(t)
            freed  == Freed(t, opened) IN
        /\ status' = [x \in Tasks |-> IF x = t THEN "FAILED" ELSE IF x \in closed THEN "FAILED"
                                       ELSE IF x \in freed THEN "READY" ELSE status[x]]
        /\ deps' = Resolved(t, opened \union hit)
        /\ waiting' = waiting \ (closed \union freed \union hit)
        /\ ready' = (ready \ closed) \union freed
        /\ UNCHANGED <<declared, nodes, dependents, completedTasks>>
  BY DEF FailTask
<1> DEFINE closed == o.done \intersect FailClosed(t)
           opened == o.done \intersect FailOpen(t)
           freed  == Freed(t, opened)
<1>2. RaisesOnFail(t) = {x \in FailClosed(t) : ~CanTransition(status[x], "FAILED")}
  BY NoneRaises DEF RaisesOnFail
<1>3. o.done \subseteq dependents[t] \ RaisesOnFail(t) /\ o.hit \subseteq RaisesOnFail(t)
  BY SMT DEF FailOnce, LoopOutcomes
<1>4. o.hit \intersect FailOpen(t) = {}
  BY <1>2, <1>3 DEF FailClosed, FailOpen, Permissive
<1>5. /\ closed \subseteq dependents[t] /\ opened \subseteq dependents[t]
      /\ freed \subseteq opened \intersect waiting
      /\ \A x \in freed : deps[x] \subseteq {t}
      /\ \A x \in opened : FailMode(t, x) \in Permissive
  BY <1>3 DEF Freed, FailOpen
<1>6. \A x \in closed : status[x] # "SUCCESS" /\ x \notin opened
  BY <1>2, <1>3, TransitionFacts DEF FailClosed, FailOpen, Permissive
<1>7. /\ status' = [x \in Tasks |-> IF x = t THEN "FAILED" ELSE IF x \in closed THEN "FAILED"
                                    ELSE IF x \in freed THEN "READY" ELSE status[x]]
      /\ deps' = [x \in Tasks |-> IF x \in opened THEN deps[x] \ {t} ELSE deps[x]]
      /\ waiting' = waiting \ (closed \union freed)
      /\ ready' = (ready \ closed) \union freed
      /\ UNCHANGED <<declared, nodes, dependents, completedTasks>>
  BY <1>1, <1>4 DEF Resolved
<1> HIDE DEF closed, opened, freed
<1>8. EndsWith(t, "FAILED", closed, opened, freed)
  BY <1>5, <1>6, <1>7 DEF EndsWith
<1>9. dependents[t] \subseteq Tasks
  BY DEF Typed
<1> QED BY <1>5, <1>8, <1>9

(* save_task of x after a step that leaves the memory well typed.          *)
LEMMA PersistFacts ==
    ASSUME NEW x \in Tasks, Persist({x}), rows \in [Tasks -> SavedRows \union {Absent}],
           status'[x] \in TaskStatus, declared'[x] \in SUBSET Tasks, attempt'[x] \in Nat,
           patches'[x] \in SUBSET Nat, base'[x] \in Works
    PROVE  /\ rows' \in [Tasks -> SavedRows \union {Absent}] /\ rows'[x] # Absent
           /\ rows'[x].state = status'[x] /\ rows'[x].deps = declared'[x] /\ rows'[x].attempt = attempt'[x]
           /\ \A y \in Tasks : y # x => rows'[y] = rows[y]
<1>1. rows' = [y \in Tasks |-> IF y = x THEN Row(x)' ELSE rows[y]]
  BY DEF Persist
<1>2. Row(x)' = [state |-> status'[x], deps |-> declared'[x], attempt |-> attempt'[x],
                 patches |-> patches'[x], base |-> base'[x]]
  BY DEF Row
<1>3. Row(x)' \in SavedRows
  BY <1>2, SMT DEF SavedRows
<1>4. rows'[x].state # "absent"
  BY <1>1, <1>2, TransitionFacts, SMT
<1>5. Absent.state = "absent"
  BY DEF Absent
<1> QED BY <1>1, <1>2, <1>3, <1>4, <1>5, SMT

(* What a sequence holds.                                                  *)
LEMMA SeqElements ==
    ASSUME NEW S, NEW s \in Seq(S)
    PROVE  /\ DOMAIN s = 1..Len(s) /\ Len(s) \in Nat
           /\ \A i \in DOMAIN s : s[i] \in S
BY SMT

(* The ids of a pair are tasks.                                            *)
LEMMA PairFacts == \A i \in DOMAIN Pairs : Pairs[i].tester \in Tasks /\ Pairs[i].repair \in Tasks
<1>1. Pairs \in Seq([repair : Tasks, tester : Tasks])
  BY IdsAreFresh
<1>2. \A i \in DOMAIN Pairs : Pairs[i] \in [repair : Tasks, tester : Tasks]
  BY <1>1, SeqElements
<1> QED BY <1>2

(* Dependencies stay settled as long as ended rows stay as they are.       *)
LEMMA SettledStays ==
    ASSUME Typed, DepsSettled, UNCHANGED <<declared, nodes, deps, dependents, completedTasks>>,
           \A d \in Tasks : rows[d].state \in Ended => rows'[d].state = rows[d].state
    PROVE  DepsSettled'
<1>1. \A d, x \in Tasks : Settled(d, x) => Settled(d, x)'
  BY DEF Settled, Ended, FailMode
<1>2. \A x \in nodes : x \in Tasks /\ declared[x] \subseteq Tasks
  BY DEF Typed
<1>3. \A x \in nodes' : \A d \in declared'[x] \ deps'[x] : Settled(d, x)'
  BY <1>1, <1>2 DEF DepsSettled
<1>4. \A d \in completedTasks' : rows'[d].state = "SUCCESS"
  BY DEF DepsSettled, Typed, Ended
<1>5. \A d \in Tasks : \A x \in dependents'[d] :
          x \in nodes' /\ (d \in deps'[x] \/ rows'[d].state \in Ended)
  BY DEF DepsSettled
<1> QED BY <1>3, <1>4, <1>5 DEF DepsSettled

-----------------------------------------------------------------------------
(* A step of the attempt of t: at most its own row changes, to the state   *)
(* RUNNING and the number of the attempt.                                  *)
LEMMA AttemptStepKeeps ==
    ASSUME IndInv, NEW t \in Tasks, NEW p \in Executing, Free, exec[t] \in Executing,
           exec' = [exec EXCEPT ![t] = p], turn' = IF p = "recorded" THEN t ELSE turn,
           UNCHANGED <<kernelVars, todo, base, commit, up>>,
           attempt' \in [Tasks -> Nat], \A u \in Tasks \ {t} : attempt'[u] = attempt[u],
           patches' \in [Tasks -> SUBSET Nat],
           (rows' = rows /\ attempt' = attempt) \/ Persist({t}),
           workspaces' \in Works, AttemptsSaved'
    PROVE  IndInv'
<1>1. UNCHANGED <<status, declared, nodes, deps, dependents, ready, waiting, completedTasks, todo, base, commit, up>>
  BY DEF kernelVars, graphVars, queueVars
<1>2. /\ t \in nodes /\ status[t] = "RUNNING" /\ status[t] \in TaskStatus /\ t \notin ready /\ t \notin waiting
      /\ rows[t] # Absent /\ rows[t].attempt = attempt[t] /\ rows[t].state \notin Ended
      /\ up /\ turn = Nobody /\ Nobody \notin Tasks /\ todo = <<>> /\ exec[t] \notin InTurn
      /\ deps[t] = {}
  <2>1. t \in nodes /\ status[t] = "RUNNING" /\ deps[t] = {}
    BY DEF IndInv, QueuesHold, Executing
  <2>2. up /\ turn = Nobody /\ Nobody \notin Tasks
    BY WorkflowIsTyped DEF Free
  <2>3. exec[t] \notin InTurn /\ todo = <<>>
    BY <2>2 DEF IndInv, TurnHeld, InTurn
  <2>4. rows[t] # Absent /\ rows[t].attempt = attempt[t] /\ rows[t].state \notin Ended
    BY <2>1, TransitionFacts DEF IndInv, RowsAgree
  <2> QED BY <2>1, <2>2, <2>3, <2>4, TransitionFacts DEF IndInv, QueuesHold, Executing
<1>3. /\ rows' \in [Tasks -> SavedRows \union {Absent}]
      /\ rows'[t] # Absent /\ rows'[t].attempt = attempt'[t] /\ rows'[t].state \notin Ended
      /\ \A u \in Tasks : u # t => rows'[u] = rows[u]
  <2>1. CASE rows' = rows /\ attempt' = attempt
    BY <2>1, <1>2 DEF IndInv, Typed
  <2>2. CASE Persist({t})
    <3>1. /\ rows \in [Tasks -> SavedRows \union {Absent}] /\ status'[t] \in TaskStatus
          /\ declared'[t] \in SUBSET Tasks /\ attempt'[t] \in Nat /\ patches'[t] \in SUBSET Nat
          /\ base'[t] \in Works
      BY <1>1, <1>2 DEF IndInv, Typed
    <3> QED BY <2>2, <3>1, <1>1, <1>2, PersistFacts, TransitionFacts, ZenonT(60)
  <2> QED BY <2>1, <2>2
<1>4. exec' \in [Tasks -> Places] /\ exec'[t] = p /\ \A u \in Tasks : u # t => exec'[u] = exec[u]
  BY DEF IndInv, Typed, Places
<1>5. Typed'
  <2>1. turn' \in Tasks \union {Nobody}
    BY <1>2
  <2> QED BY <1>1, <1>3, <1>4, <2>1 DEF IndInv, Typed
<1>6. TurnHeld'
  <2>1. \A u \in Tasks : exec'[u] \in InTurn <=> turn' = u
    BY <1>2, <1>4 DEF IndInv, TurnHeld, InTurn, Executing
  <2> QED BY <2>1, <1>1, <1>2, SMT DEF TurnHeld
<1>7. QueuesHold'
  BY <1>1, <1>2, <1>4, SMTT(30) DEF IndInv, QueuesHold, Executing
<1>8. RowsAgree'
  BY <1>1, <1>2, <1>3, <1>4, SMT DEF IndInv, RowsAgree, Executing, Typed
<1>9. IdsUnused'
  <2>1. CASE t = Root
    <3>1. rows[Root].state # "SUCCESS" /\ rows'[Root].state # "SUCCESS" /\ todo' = <<>>
      BY <2>1, <1>1, <1>2, <1>3 DEF Ended
    <3>2. \A u \in Tasks \ {Root} : rows[u] = Absent /\ rows'[u] = Absent
      BY <2>1, <3>1, <1>3 DEF IndInv, IdsUnused
    <3>3. \A i \in DOMAIN Pairs : Pairs[i].tester \in Tasks \ {Root}
      BY PairFacts, IdsAreFresh
    <3>4. \A k \in 1..Len(todo') : FALSE
      BY <3>1, SMT
    <3> QED BY <3>1, <3>2, <3>3, <3>4 DEF IdsUnused, TodoFresh
  <2>2. CASE t # Root
    <3>1. rows[Root].state = "SUCCESS" /\ exec[Root] # "handling"
      BY <2>2, <1>2 DEF IndInv, IdsUnused
    <3>2. \A u \in Tasks : rows'[u] # Absent <=> rows[u] # Absent
      BY <1>2, <1>3
    <3>4. Root \in Tasks /\ rows'[Root] = rows[Root] /\ exec'[Root] = exec[Root] /\ todo' = <<>>
      BY <2>2, <1>1, <1>2, <1>3, <1>4, WorkflowIsTyped
    <3>5. \A k \in 1..Len(todo') : FALSE
      BY <3>4, SMT
    <3> QED BY <3>1, <3>2, <3>4, <3>5, PairFacts DEF IndInv, IdsUnused, TodoFresh
  <2> QED BY <2>1, <2>2
<1>10. DepsSettled'
  BY <1>1, <1>2, <1>3, SettledStays DEF IndInv
<1>11. RowsKnown'
  BY <1>1, <1>2, <1>3, WorkflowIsTyped DEF IndInv, RowsKnown
<1> QED BY <1>5, <1>6, <1>7, <1>8, <1>9, <1>10, <1>11 DEF IndInv

(* A row that is absent has attempt 0.                                     *)
LEMMA SavedAttempts ==
    ASSUME Typed
    PROVE  \A u \in Tasks : rows[u].attempt \in Nat
BY SMT DEF Typed, SavedRows, Absent

(* A step that only writes the row of a task it knows, with the same or a  *)
(* higher number, saves all attempts.                                      *)
LEMMA SavedStays ==
    ASSUME Typed, AttemptsSaved, UNCHANGED workspaces,
           \A u \in Tasks : /\ rows'[u].attempt \in Nat /\ rows'[u].attempt >= rows[u].attempt
                            /\ exec'[u] \in {"begun", "leased"} =>
                                   exec[u] \in {"begun", "leased"} /\ attempt'[u] = attempt[u]
    PROVE  AttemptsSaved'
<1>1. \A w \in workspaces : w[1] \in Tasks /\ w[2] \in Nat
  BY DEF Typed, Works
<1>2. \A u \in Tasks : rows[u].attempt \in Nat
  BY SavedAttempts
<1>3. \A w \in workspaces' : w[2] <= rows'[w[1]].attempt
  BY <1>1, <1>2, SMT DEF AttemptsSaved
<1> QED BY <1>3 DEF AttemptsSaved

LEMMA SavedKept ==
    ASSUME Typed, AttemptsSaved, UNCHANGED workspaces,
           \A u \in Tasks : /\ rows'[u].attempt = rows[u].attempt
                            /\ exec'[u] \in {"begun", "leased"} =>
                                   exec[u] \in {"begun", "leased"} /\ attempt'[u] = attempt[u]
    PROVE  AttemptsSaved'
<1>1. \A u \in Tasks : rows'[u].attempt \in Nat /\ rows'[u].attempt >= rows[u].attempt
  BY SavedAttempts, SMT
<1> QED BY <1>1, SavedStays

(* The steps of an attempt.                                                *)
LEMMA AttemptKeeps ==
    ASSUME IndInv, NEW t \in Tasks,
           Begin(t) \/ TakeLease(t) \/ OpenWorkspace(t) \/ AttemptFails(t) \/ RecordPatch(t)
    PROVE  IndInv'
<1>1. /\ Typed /\ AttemptsSaved /\ attempt \in [Tasks -> Nat] /\ attempt[t] \in Nat
      /\ patches \in [Tasks -> SUBSET Nat] /\ workspaces \in Works
      /\ rows \in [Tasks -> SavedRows \union {Absent}]
      /\ \A u \in Tasks : rows[u].attempt \in Nat
  <2>1. \A u \in Tasks : rows[u].attempt \in Nat
    BY SavedAttempts DEF IndInv
  <2> QED BY <2>1 DEF IndInv, Typed
<1>2. exec[t] \in Executing /\ Free
  BY DEF Begin, TakeLease, OpenWorkspace, AttemptFails, RecordPatch, Executing
<1>3. t \in nodes /\ rows[t].attempt = attempt[t]
  BY <1>2 DEF IndInv, QueuesHold, RowsAgree, Executing
<1>4. WithPatch(t) \in [Tasks -> SUBSET Nat]
  BY <1>1 DEF WithPatch
<1>5. \A u \in Tasks : u # t => (exec' = [exec EXCEPT ![t] = exec'[t]] => exec'[u] = exec[u])
  BY DEF IndInv, Typed
<1>6. ASSUME Persist({t}), UNCHANGED <<status, declared, base>>, attempt'[t] \in Nat, patches'[t] \in SUBSET Nat
      PROVE  rows'[t].attempt = attempt'[t] /\ \A u \in Tasks : u # t => rows'[u] = rows[u]
  BY <1>6, PersistFacts DEF IndInv, Typed
<1>7. CASE Begin(t)
  <2>1. /\ exec' = [exec EXCEPT ![t] = "begun"] /\ attempt' = [attempt EXCEPT ![t] = @ + 1]
        /\ UNCHANGED <<kernelVars, patches, base, turn, todo, commit, up, workspaces>> /\ Persist({t})
    BY <1>7 DEF Begin
  <2>2. attempt' \in [Tasks -> Nat] /\ attempt'[t] = attempt[t] + 1 /\ \A u \in Tasks \ {t} : attempt'[u] = attempt[u]
    BY <2>1, <1>1, SMT
  <2>3. rows'[t].attempt = attempt[t] + 1 /\ \A u \in Tasks : u # t => rows'[u] = rows[u]
    <3>1. UNCHANGED <<status, declared, base>> /\ attempt'[t] \in Nat /\ patches'[t] \in SUBSET Nat
      BY <2>1, <2>2, <1>1 DEF kernelVars, graphVars
    <3> QED BY <3>1, <2>1, <2>2, <1>6
  <2>4. AttemptsSaved'
    <3>1. \A w \in workspaces : w[1] \in Tasks /\ w[2] \in Nat /\ w[2] <= rows[w[1]].attempt
      BY <1>1 DEF Works, AttemptsSaved
    <3>2. \A w \in workspaces' : w[2] <= rows'[w[1]].attempt
      BY <3>1, <2>1, <2>3, <1>1, <1>3, SMT
    <3>3. <<t, attempt[t] + 1>> \notin workspaces
      BY <3>1, <1>1, <1>3, SMT
    <3>4. \A u \in Tasks : exec'[u] \in {"begun", "leased"} => <<u, attempt'[u]>> \notin workspaces'
      BY <3>3, <2>1, <2>2, <1>5 DEF IndInv, Typed, AttemptsSaved
    <3> QED BY <3>2, <3>4 DEF AttemptsSaved
  <2> QED BY <1>1, <1>2, <2>1, <2>2, <2>4, AttemptStepKeeps DEF Executing
<1>8. CASE TakeLease(t)
  <2>1. /\ exec[t] = "begun" /\ exec' = [exec EXCEPT ![t] = "leased"]
        /\ UNCHANGED <<kernelVars, attempt, patches, base, turn, todo, commit, up, rows, workspaces>>
    BY <1>8 DEF TakeLease
  <2>2. AttemptsSaved'
    BY <2>1, <1>1 DEF IndInv, Typed, AttemptsSaved
  <2> QED BY <1>1, <1>2, <2>1, <2>2, AttemptStepKeeps DEF Executing
<1>9. CASE OpenWorkspace(t)
  <2>1. /\ exec' = [exec EXCEPT ![t] = "working"] /\ workspaces' = workspaces \union {<<t, attempt[t]>>}
        /\ UNCHANGED <<kernelVars, attempt, patches, base, turn, todo, commit, up, rows>>
    BY <1>9 DEF OpenWorkspace
  <2>2. workspaces' \in Works
    BY <2>1, <1>1, SMT DEF Works
  <2>3. AttemptsSaved'
    <3>1. \A w \in workspaces' : w[2] <= rows'[w[1]].attempt
      BY <2>1, <1>1, <1>3, SMT DEF AttemptsSaved
    <3>2. \A u \in Tasks : exec'[u] \in {"begun", "leased"} => u # t /\ exec[u] \in {"begun", "leased"}
      BY <2>1 DEF IndInv, Typed
    <3>3. \A u \in Tasks : exec'[u] \in {"begun", "leased"} => <<u, attempt'[u]>> \notin workspaces'
      BY <3>2, <2>1, <1>1 DEF AttemptsSaved
    <3> QED BY <3>1, <3>3 DEF AttemptsSaved
  <2> QED BY <1>1, <1>2, <2>1, <2>2, <2>3, AttemptStepKeeps DEF Executing
<1>10. CASE AttemptFails(t)
  <2>1. /\ exec' = [exec EXCEPT ![t] = "queued"] /\ (patches' = patches \/ patches' = WithPatch(t))
        /\ UNCHANGED <<kernelVars, attempt, base, turn, todo, commit, up, rows, workspaces>>
    BY <1>10 DEF AttemptFails, KeepPartialPatch
  <2>2. AttemptsSaved'
    BY <2>1, <1>1 DEF IndInv, Typed, AttemptsSaved
  <2>3. patches' \in [Tasks -> SUBSET Nat]
    BY <2>1, <1>1, <1>4
  <2> QED BY <1>1, <1>2, <2>1, <2>2, <2>3, AttemptStepKeeps DEF Executing
<1>11. CASE RecordPatch(t)
  <2>1. /\ exec' = [exec EXCEPT ![t] = "recorded"] /\ turn' = t /\ (patches' = patches \/ patches' = WithPatch(t))
        /\ UNCHANGED <<kernelVars, attempt, base, todo, commit, up, workspaces>> /\ Persist({t})
    BY <1>11 DEF RecordPatch
  <2>2. patches' \in [Tasks -> SUBSET Nat]
    BY <2>1, <1>1, <1>4
  <2>3. rows'[t].attempt = attempt[t] /\ \A u \in Tasks : u # t => rows'[u] = rows[u]
    <3>1. UNCHANGED <<status, declared, base>> /\ attempt'[t] \in Nat /\ patches'[t] \in SUBSET Nat
      BY <2>1, <2>2, <1>1 DEF kernelVars, graphVars
    <3> QED BY <3>1, <2>1, <1>6
  <2>4. \A u \in Tasks : rows'[u].attempt = rows[u].attempt
    BY <2>3, <1>3
  <2>5. \A u \in Tasks : exec'[u] \in {"begun", "leased"} => exec[u] \in {"begun", "leased"}
    BY <2>1 DEF IndInv, Typed
  <2>6. AttemptsSaved'
    BY <2>1, <2>4, <2>5, <1>1, SavedStays, SMT
  <2> QED BY <1>1, <1>2, <2>1, <2>2, <2>6, AttemptStepKeeps DEF Executing
<1> QED BY <1>7, <1>8, <1>9, <1>10, <1>11

-----------------------------------------------------------------------------
(* A new task, or one of a plan, is enqueued and saved.                    *)
LEMMA EnqueueKeeps ==
    ASSUME IndInv, NEW x \in Tasks, NEW D \in SUBSET Tasks, rows[x] = Absent, up,
           Enqueue(x, D), Persist({x}),
           UNCHANGED <<exec, attempt, patches, base, turn, commit, up, workspaces>>,
           todo' \in Seq(Tasks \X SUBSET Tasks), todo' # <<>> => todo # <<>>, IdsUnused'
    PROVE  IndInv'
<1> DEFINE open == D \ completedTasks
<1>1. Typed /\ TurnHeld /\ QueuesHold /\ RowsAgree /\ AttemptsSaved /\ DepsSettled /\ RowsKnown
  BY DEF IndInv
<1>2. /\ nodes' = nodes \union {x} /\ UNCHANGED completedTasks
      /\ declared' = [declared EXCEPT ![x] = D]
      /\ deps' = [deps EXCEPT ![x] = open]
      /\ dependents' = [d \in Tasks |-> IF d \in D \intersect nodes
                                        THEN dependents[d] \union {x} ELSE dependents[d]]
      /\ status' = [status EXCEPT ![x] = IF open = {} THEN "READY" ELSE "PENDING"]
      /\ ready' = IF open = {} THEN ready \union {x} ELSE ready
      /\ waiting' = IF open = {} THEN waiting ELSE waiting \union {x}
  BY DEF Enqueue
<1> HIDE DEF open
<1>3. /\ x \notin nodes /\ exec[x] = "none" /\ attempt[x] = 0 /\ x \notin ready /\ x \notin waiting
      /\ rows[x].state = "absent" /\ rows[x].attempt = 0 /\ open \subseteq Tasks
  BY <1>1, SMTT(30) DEF RowsAgree, QueuesHold, Absent, open
<1>4. /\ status' \in [Tasks -> TaskStatus] /\ nodes' \in SUBSET Tasks
      /\ declared' \in [Tasks -> SUBSET Tasks] /\ deps' \in [Tasks -> SUBSET Tasks]
      /\ dependents' \in [Tasks -> SUBSET Tasks] /\ completedTasks' \in SUBSET Tasks
  BY <1>1, <1>2, <1>3, TransitionFacts DEF Typed
<1>5. /\ rows' \in [Tasks -> SavedRows \union {Absent}] /\ rows'[x] # Absent
      /\ rows'[x].state = status'[x] /\ rows'[x].deps = declared'[x] /\ rows'[x].attempt = attempt[x]
      /\ \A y \in Tasks : y # x => rows'[y] = rows[y]
  BY <1>1, <1>4, PersistFacts DEF Typed
<1>6. status'[x] \in {"READY", "PENDING"} /\ \A y \in Tasks : y # x => status'[y] = status[y]
  BY <1>1, <1>2 DEF Typed
<1>7. deps'[x] = open /\ declared'[x] = D
      /\ \A y \in Tasks : y # x => deps'[y] = deps[y] /\ declared'[y] = declared[y]
  BY <1>1, <1>2 DEF Typed
<1>8. Typed'
  BY <1>1, <1>4, <1>5 DEF Typed
<1>9. TurnHeld'
  BY <1>1 DEF TurnHeld
<1>10. QueuesHold'
  <2>1. ready' \union waiting' \subseteq nodes'
    BY <1>1, <1>2 DEF QueuesHold
  <2>2. \A y \in ready' : status'[y] = "READY" /\ deps'[y] = {} /\ exec'[y] = "none"
    BY <1>1, <1>2, <1>3, <1>6, <1>7, SMT DEF QueuesHold, Typed
  <2>3. \A y \in waiting' : status'[y] \in {"PENDING", "BLOCKED"} /\ exec'[y] = "none"
    BY <1>1, <1>2, <1>3, <1>6, SMT DEF QueuesHold, Typed
  <2>4. \A y \in Tasks :
        /\ exec'[y] # "none" => y \in nodes' /\ deps'[y] = {}
        /\ exec'[y] \in Executing => status'[y] = "RUNNING"
        /\ y \notin nodes' => attempt'[y] = 0 /\ status'[y] # "RUNNING"
    BY <1>1, <1>2, <1>3, <1>6, <1>7, ZenonT(30) DEF QueuesHold, Executing
  <2> QED BY <2>1, <2>2, <2>3, <2>4 DEF QueuesHold
<1>11. RowsAgree'
  <2>1. \A y \in nodes' :
        /\ rows'[y] # Absent /\ rows'[y].attempt = attempt'[y]
        /\ rows'[y].state \in Ended =>
               status'[y] = rows'[y].state /\ exec'[y] \in {"none", "handling", "creating"}
    BY <1>1, <1>2, <1>3, <1>5, <1>6, SMTT(30) DEF RowsAgree, Typed, Ended
  <2>2. \A y \in Tasks : exec'[y] \in {"handling", "creating"} => rows'[y].state = status'[y] /\ status'[y] \in Ended
    BY <1>1, <1>3, <1>5, <1>6 DEF RowsAgree
  <2> QED BY <2>1, <2>2 DEF RowsAgree
<1>12. AttemptsSaved'
  <2>1. \A u \in Tasks : rows'[u].attempt = rows[u].attempt /\ rows'[u].attempt \in Nat
    BY <1>1, <1>3, <1>5, SavedAttempts
  <2> QED BY <2>1, <1>1, SavedKept
<1>13. DepsSettled'
  <2>1. \A d \in Tasks : rows[d].state \in Ended => d # x /\ rows'[d] = rows[d]
    BY <1>3, <1>5 DEF Ended
  <2>2. \A d \in completedTasks : d \in Tasks /\ rows'[d].state = "SUCCESS"
    BY <1>1, <2>1 DEF DepsSettled, Typed, Ended
  <2>3. \A d, y \in Tasks : Settled(d, y) => Settled(d, y)'
    BY <2>1 DEF Settled, Ended, FailMode
  <2>4. \A y \in nodes' : \A d \in declared'[y] \ deps'[y] : Settled(d, y)'
    <3>1. \A d \in D \ open : Settled(d, x)'
      BY <2>2 DEF Settled, open
    <3>2. \A y \in nodes : y \in Tasks /\ y # x /\ declared[y] \subseteq Tasks
      BY <1>1, <1>3 DEF Typed
    <3> QED BY <3>1, <3>2, <2>3, <1>1, <1>2, <1>7 DEF DepsSettled
  <2>5. \A d \in Tasks : \A y \in dependents'[d] :
            y \in nodes' /\ (d \in deps'[y] \/ rows'[d].state \in Ended)
    <3> SUFFICES ASSUME NEW d \in Tasks, NEW y \in dependents'[d]
                 PROVE  y \in nodes' /\ (d \in deps'[y] \/ rows'[d].state \in Ended)
      OBVIOUS
    <3>1. CASE y \in dependents[d]
      <4>1. y \in nodes /\ y \in Tasks /\ y # x /\ (d \in deps[y] \/ rows[d].state \in Ended)
        BY <3>1, <1>1, <1>3 DEF DepsSettled, Typed
      <4> QED BY <4>1, <1>2, <1>7, <2>1
    <3>2. CASE y = x /\ d \in D
      BY <3>2, <1>2, <1>7, <2>2 DEF open, Ended
    <3> QED BY <3>1, <3>2, <1>2
  <2> QED BY <1>2, <2>2, <2>4, <2>5 DEF DepsSettled
<1>14. RowsKnown'
  BY <1>1, <1>2, <1>5, WorkflowIsTyped DEF RowsKnown
<1> QED BY <1>8, <1>9, <1>10, <1>11, <1>12, <1>13, <1>14 DEF IndInv

(* submit_task for the root: nothing else has been created.                *)
LEMMA SubmitKeeps ==
    ASSUME IndInv, Submit
    PROVE  IndInv'
<1>1. /\ up /\ turn = Nobody /\ rows[Root] = Absent /\ Enqueue(Root, {}) /\ Persist({Root})
      /\ UNCHANGED <<exec, attempt, patches, base, turn, todo, commit, up, workspaces>>
  BY DEF Submit, Free, memory
<1>2. Root \in Tasks /\ Nobody \notin Tasks /\ Absent.state = "absent" /\ {} \in SUBSET Tasks
  BY WorkflowIsTyped DEF Absent
<1>3. todo = <<>> /\ exec[Root] \notin InTurn /\ todo' \in Seq(Tasks \X SUBSET Tasks)
  BY <1>1, <1>2 DEF IndInv, TurnHeld, InTurn, Typed
<1>4. \A u \in Tasks \ {Root} : rows[u] = Absent
  BY <1>1, <1>2 DEF IndInv, IdsUnused
<1>5. \A u \in Tasks \ {Root} : rows'[u] = rows[u]
  BY DEF Persist, Submit
<1>6. IdsUnused'
  <2>1. \A i \in DOMAIN Pairs : Pairs[i].tester \in Tasks \ {Root}
    BY PairFacts, IdsAreFresh
  <2>2. TodoFresh'
    BY <1>1, <1>3, NothingTodo
  <2> QED BY <1>1, <1>3, <1>4, <1>5, <2>1, <2>2 DEF IdsUnused, InTurn
<1> QED BY <1>1, <1>2, <1>3, <1>6, EnqueueKeeps

(* The next task of a handler.                                             *)
LEMMA CreateNextKeeps ==
    ASSUME IndInv, NEW t \in Tasks, CreateNext(t)
    PROVE  IndInv'
<1>1. /\ up /\ exec[t] = "creating" /\ todo # <<>> /\ todo' = Tail(todo)
      /\ Enqueue(Head(todo)[1], Head(todo)[2]) /\ Persist({Head(todo)[1]})
      /\ UNCHANGED <<exec, attempt, patches, base, turn, commit, up, workspaces>>
  BY DEF CreateNext
<1>2. todo \in Seq(Tasks \X SUBSET Tasks)
  BY DEF IndInv, Typed
<1>3. /\ Len(todo) \in Nat /\ Len(todo) >= 1 /\ todo' \in Seq(Tasks \X SUBSET Tasks)
      /\ Len(todo') = Len(todo) - 1 /\ \A k \in 1..Len(todo') : todo'[k] = todo[k + 1]
  BY <1>1, <1>2, SMT
<1>4. todo[1] \in Tasks \X SUBSET Tasks /\ Head(todo) = todo[1]
  BY <1>2, <1>3, SMT
<1>5. PICK x \in Tasks, D \in SUBSET Tasks :
          x = todo[1][1] /\ x = Head(todo)[1] /\ D = Head(todo)[2]
  BY <1>4
<1>5a. Enqueue(x, D) /\ Persist({x})
  BY <1>1, <1>5
<1>6. IdsUnused /\ TodoFresh /\ RowsAgree /\ QueuesHold /\ TurnHeld /\ Typed
  BY DEF IndInv, IdsUnused
<1>7. x # Root /\ rows[x] = Absent
  BY <1>3, <1>5, <1>6, SMTT(30) DEF TodoFresh
<1>8. rows'[x] # Absent /\ \A y \in Tasks : y # x => rows'[y] = rows[y]
  <2>1. rows' = [y \in Tasks |-> IF y = x THEN Row(x)' ELSE rows[y]]
    BY <1>5a DEF Persist
  <2>2. Row(x)'.state = status'[x] /\ status'[x] \in {"READY", "PENDING"}
    BY <1>5a, <1>6 DEF Row, Enqueue, Typed
  <2> QED BY <2>1, <2>2, <1>5, SMT DEF Absent
<1>9. rows[Root].state = "SUCCESS" /\ exec[Root] # "handling" /\ rows'[Root] = rows[Root]
  <2>1. Root \in Tasks
    BY WorkflowIsTyped
  <2>2. exec[Root] # "handling"
    BY <2>1, <1>1, <1>6 DEF TurnHeld, InTurn
  <2>3. t # Root => rows[t] # Absent
    BY <1>1, <1>6 DEF QueuesHold, RowsAgree
  <2>4. rows[Root].state = "SUCCESS"
    BY <2>2, <2>3, <1>1, <1>6, SMTT(30) DEF IdsUnused
  <2> QED BY <2>1, <2>2, <2>4, <1>7, <1>8
<1>10. \A y \in Tasks : rows[y] # Absent => rows'[y] # Absent
  BY <1>7, <1>8
<1>11. \A i \in DOMAIN Pairs : rows'[Pairs[i].tester] # Absent => rows'[Pairs[i].repair] # Absent
  <2> SUFFICES ASSUME NEW i \in DOMAIN Pairs, rows'[Pairs[i].tester] # Absent
               PROVE  rows'[Pairs[i].repair] # Absent
    OBVIOUS
  <2>1. CASE rows[Pairs[i].tester] # Absent
    BY <2>1, <1>6, <1>10, PairFacts DEF IdsUnused
  <2>2. CASE x = Pairs[i].tester
    <3>1. rows[Pairs[i].repair] # Absent
      <4>1. 1 \in 1..Len(todo) /\ ~(1 > 1) /\ todo[1][1] = Pairs[i].tester
        BY <2>2, <1>3, <1>5, SMT
      <4> QED BY <4>1, <1>6 DEF TodoFresh
    <3> QED BY <3>1, <1>10, PairFacts
  <2> QED BY <2>1, <2>2, <1>8, PairFacts
<1>12. TodoFresh'
  <2> SUFFICES ASSUME NEW k \in 1..Len(todo')
               PROVE  /\ todo'[k][1] # Root /\ rows'[todo'[k][1]] = Absent
                      /\ \A j \in 1..Len(todo') : todo'[j][1] = todo'[k][1] => j = k
                      /\ \A i \in DOMAIN Pairs : todo'[k][1] = Pairs[i].tester =>
                             \/ rows'[Pairs[i].repair] # Absent
                             \/ k > 1 /\ todo'[k - 1][1] = Pairs[i].repair
    BY DEF TodoFresh
  <2>1. k + 1 \in 1..Len(todo) /\ k + 1 # 1 /\ todo'[k] = todo[k + 1] /\ 1 \in 1..Len(todo)
    BY <1>3, SMT
  <2>2. /\ todo[k + 1][1] # Root /\ rows[todo[k + 1][1]] = Absent /\ todo[k + 1][1] # x
        /\ \A j \in 1..Len(todo) : todo[j][1] = todo[k + 1][1] => j = k + 1
        /\ \A i \in DOMAIN Pairs : todo[k + 1][1] = Pairs[i].tester =>
               \/ rows[Pairs[i].repair] # Absent
               \/ k + 1 > 1 /\ todo[k + 1 - 1][1] = Pairs[i].repair
    BY <2>1, <1>5, <1>6, SMT DEF TodoFresh
  <2>3. todo[k + 1] \in Tasks \X SUBSET Tasks
    BY <2>1, <1>2, SMT
  <2>4. rows'[todo'[k][1]] = Absent
    BY <2>1, <2>2, <2>3, <1>8
  <2>5. \A j \in 1..Len(todo') : todo'[j][1] = todo'[k][1] => j = k
    <3> SUFFICES ASSUME NEW j \in 1..Len(todo'), todo'[j][1] = todo'[k][1]
                 PROVE  j = k
      OBVIOUS
    <3>1. j + 1 \in 1..Len(todo) /\ todo'[j] = todo[j + 1]
      BY <1>3, SMT
    <3>2. j + 1 = k + 1
      BY <3>1, <2>1, <2>2
    <3> QED BY <3>2, SMT
  <2>6. ASSUME NEW i \in DOMAIN Pairs, todo'[k][1] = Pairs[i].tester, rows'[Pairs[i].repair] = Absent
        PROVE  k > 1 /\ todo'[k - 1][1] = Pairs[i].repair
    <3>1. rows[Pairs[i].repair] = Absent
      BY <2>6, <1>10, PairFacts
    <3>2. k + 1 - 1 = k
      BY SMT
    <3>3. todo[k][1] = Pairs[i].repair
      BY <2>1, <2>2, <2>6, <3>1, <3>2
    <3>4. k # 1
      BY <3>3, <2>6, <1>5, <1>8
    <3>5. k > 1 /\ k - 1 \in 1..Len(todo') /\ k - 1 + 1 = k
      BY <3>4, <1>3, SMT
    <3>6. todo'[k - 1] = todo[k]
      BY <3>5, <1>3
    <3> QED BY <3>3, <3>5, <3>6
  <2> QED BY <2>1, <2>2, <2>4, <2>5, <2>6
<1>13. IdsUnused'
  BY <1>1, <1>9, <1>11, <1>12 DEF IdsUnused
<1> QED BY <1>1, <1>3, <1>5a, <1>7, <1>13, EnqueueKeeps

-----------------------------------------------------------------------------
(* A handler of t has decided which tasks to create.                       *)
LEMMA HandleStepKeeps ==
    ASSUME IndInv, NEW t \in Tasks, exec[t] = "handling", exec' = [exec EXCEPT ![t] = "creating"],
           UNCHANGED <<kernelVars, attempt, patches, turn, up, rows, workspaces>>,
           base' \in [Tasks -> Works], commit' \in Works, todo' \in Seq(Tasks \X SUBSET Tasks),
           t = Root => todo' = <<>> \/ status[t] = "SUCCESS", TodoFresh'
    PROVE  IndInv'
<1>1. UNCHANGED <<status, declared, nodes, deps, dependents, ready, waiting, completedTasks>>
  BY DEF kernelVars, graphVars, queueVars
<1>2. /\ t \in nodes /\ turn = t /\ rows[t].state = status[t] /\ status[t] \in Ended
      /\ t \notin ready /\ t \notin waiting /\ deps[t] = {} /\ up
  BY DEF IndInv, QueuesHold, RowsAgree, TurnHeld, InTurn
<1>3. exec' \in [Tasks -> Places] /\ exec'[t] = "creating" /\ \A u \in Tasks : u # t => exec'[u] = exec[u]
  BY DEF IndInv, Typed, Places, InTurn
<1>4. Typed'
  BY <1>1, <1>3 DEF IndInv, Typed
<1>5. TurnHeld'
  BY <1>1, <1>2, <1>3 DEF IndInv, TurnHeld, InTurn
<1>6. QueuesHold'
  BY <1>1, <1>2, <1>3, SMT DEF IndInv, QueuesHold, Executing
<1>7. RowsAgree'
  BY <1>1, <1>2, <1>3 DEF IndInv, RowsAgree, Typed
<1>8. AttemptsSaved'
  BY <1>3 DEF IndInv, AttemptsSaved
<1>9. IdsUnused'
  <2>1. Root \in Tasks
    BY WorkflowIsTyped
  <2>2. exec'[Root] = "handling" => exec[Root] = "handling"
    BY <2>1, <1>3
  <2>3. exec'[Root] = "creating" => t = Root
    BY <2>1, <1>2, <1>3 DEF IndInv, TurnHeld, InTurn
  <2> QED BY <2>2, <2>3, <1>2 DEF IndInv, IdsUnused
<1>10. DepsSettled'
  BY <1>1, SettledStays DEF IndInv
<1>11. RowsKnown'
  BY <1>1 DEF IndInv, RowsKnown
<1> QED BY <1>4, <1>5, <1>6, <1>7, <1>8, <1>9, <1>10, <1>11 DEF IndInv

(* The children of a valid plan are distinct tasks of the plan.            *)
LEMMA ChildrenFacts ==
    ASSUME NEW p \in Plans, ValidPlan(p)
    PROVE  /\ Children(p) \in Seq(Tasks \X SUBSET Tasks)
           /\ \A k \in 1..Len(Children(p)) :
                /\ Children(p)[k][1] \in Tasks \ {Root}
                /\ \A i \in DOMAIN Pairs : Children(p)[k][1] # Pairs[i].tester
                /\ \A j \in 1..Len(Children(p)) : Children(p)[j][1] = Children(p)[k][1] => j = k
<1> DEFINE n == Len(p.order)
           o == p.order
           ids == {p.order[i] : i \in DOMAIN p.order}
<1>1. /\ o \in Seq(Tasks)
      /\ \A k \in DOMAIN o : o[k] # Root /\ \A i \in DOMAIN Pairs : o[k] # Pairs[i].tester
  BY IdsAreFresh
<1>2. n \in Nat /\ DOMAIN o = 1..n /\ \A k \in 1..n : o[k] \in Tasks
  BY <1>1, SMT
<1>3. (\A j, k \in DOMAIN o : o[j] = o[k] => j = k) /\ \A x \in ids : p.deps[x] \subseteq ids
  BY DEF ValidPlan
<1>4. ids \subseteq Tasks
  BY <1>2
<1>5. \A j, k \in 1..n : o[j] = o[k] => j = k
  BY <1>2, <1>3
<1>6. \A k \in 1..n : <<o[k], p.deps[o[k]]>> \in Tasks \X SUBSET Tasks
  BY <1>2, <1>3, <1>4
<1>7. Children(p) = [k \in 1..n |-> <<o[k], p.deps[o[k]]>>]
  BY <1>2 DEF Children
<1>8. Children(p) \in [1..n -> Tasks \X SUBSET Tasks] /\ \A k \in 1..n : Children(p)[k][1] = o[k]
  BY <1>6, <1>7, SMT
<1>9. Children(p) \in Seq(Tasks \X SUBSET Tasks) /\ Len(Children(p)) = n
  BY <1>2, <1>8, SMT
<1> HIDE DEF n, o, ids
<1> QED BY <1>1, <1>2, <1>5, <1>8, <1>9, SMT

(* _materialize_planner, _integrate_root_patches and the creation of a     *)
(* repair: what is to be created is new.                                   *)
LEMMA HandleKeeps ==
    ASSUME IndInv, NEW t \in Tasks, Handle(t)
    PROVE  IndInv'
<1>1. /\ up /\ exec[t] = "handling" /\ exec' = [exec EXCEPT ![t] = "creating"]
      /\ UNCHANGED <<kernelVars, attempt, patches, turn, up, rows, workspaces>>
  BY DEF Handle
<1>2. /\ base \in [Tasks -> Works] /\ commit \in Works /\ patches \in [Tasks -> SUBSET Nat]
      /\ nodes \in SUBSET Tasks /\ <<>> \in Seq(Tasks \X SUBSET Tasks) /\ IdsUnused
  BY SMT DEF IndInv, Typed
<1>3. ASSUME todo' = <<>>, base' \in [Tasks -> Works], commit' \in Works
      PROVE  IndInv'
  <2>1. TodoFresh'
    BY <1>3, NothingTodo
  <2> QED BY <1>1, <1>2, <1>3, <2>1, HandleStepKeeps
<1>4. CASE status[t] = "SUCCESS" /\ t = Root
  <2>1. MaterializePlanner
    BY <1>4 DEF Handle
  <2>2. UNCHANGED <<base, commit>> /\ \E p \in Plans : todo' = IF ValidPlan(p) THEN Children(p) ELSE <<>>
    BY <2>1 DEF MaterializePlanner
  <2>3. PICK p \in Plans : todo' = IF ValidPlan(p) THEN Children(p) ELSE <<>>
    BY <2>2
  <2>4. CASE ValidPlan(p)
    <3>1. \A u \in Tasks \ {Root} : rows'[u] = Absent
      BY <1>1, <1>2, <1>4 DEF IdsUnused
    <3>2. TodoFresh' /\ todo' \in Seq(Tasks \X SUBSET Tasks)
      BY <3>1, <2>3, <2>4, ChildrenFacts DEF TodoFresh
    <3> QED BY <1>1, <1>2, <1>4, <2>2, <3>2, HandleStepKeeps
  <2>5. CASE ~ValidPlan(p)
    BY <2>2, <2>3, <2>5, <1>2, <1>3
  <2> QED BY <2>4, <2>5
<1>5. CASE status[t] = "SUCCESS" /\ t # Root /\ Role[t] \in Code
  <2>1. IntegrateRootPatches
    BY <1>5 DEF Handle
  <2>2. todo' = <<>> /\ base' = base /\ (commit' = commit \/ commit' = commit \union (Found \ commit))
    BY <2>1 DEF IntegrateRootPatches, Integrated
  <2>3. Found \in Works
    BY <1>2, SMT DEF Found, PatchesOf, CodeTasks, Works
  <2> QED BY <2>2, <2>3, <1>2, <1>3 DEF Works
<1>6. CASE status[t] = "SUCCESS" /\ t # Root /\ Role[t] \notin Code
  BY <1>2, <1>3, <1>6 DEF Handle
<1>7. CASE status[t] # "SUCCESS"
  <2> DEFINE unused == {i \in DOMAIN Pairs : rows[Pairs[i].repair] = Absent}
             c == CHOOSE i \in unused : TRUE
  <2>1. CreateRepair(t)
    BY <1>7 DEF Handle
  <2>2. CASE ~(Role[t] = "tester" /\ MayRepair /\ unused # {} /\ Pairs[c].repair \in Staffed)
    <3>1. todo' = <<>> /\ UNCHANGED <<base, commit>>
      BY <2>1, <2>2 DEF CreateRepair
    <3> QED BY <3>1, <1>2, <1>3
  <2>3. CASE Role[t] = "tester" /\ MayRepair /\ unused # {} /\ Pairs[c].repair \in Staffed
    <3>1. /\ todo' = <<<<Pairs[c].repair, {}>>, <<Pairs[c].tester, {Pairs[c].repair}>>>>
          /\ base' = [x \in Tasks |-> IF x \in {Pairs[c].repair, Pairs[c].tester} /\ commit # {}
                                      THEN commit ELSE base[x]]
          /\ commit' = commit
      BY <2>1, <2>3 DEF CreateRepair, Round
    <3>2. c \in unused
      BY <2>3
    <3> HIDE DEF c
    <3>3. PICK i \in DOMAIN Pairs : i = c /\ rows[Pairs[i].repair] = Absent
      BY <3>2
    <3>4. base' \in [Tasks -> Works]
      BY <3>1, <1>2
    <3>5. /\ Pairs[i].repair \in Tasks /\ Pairs[i].tester \in Tasks /\ rows[Pairs[i].tester] = Absent
          /\ Pairs[i].repair # Root /\ Pairs[i].tester # Root /\ Pairs[i].repair # Pairs[i].tester
          /\ \A j \in DOMAIN Pairs : /\ Pairs[i].repair # Pairs[j].tester
                                     /\ Pairs[i].tester = Pairs[j].tester => i = j
      BY <3>3, <1>2, PairFacts, IdsAreFresh DEF IdsUnused
    <3>6. /\ todo' = <<<<Pairs[i].repair, {}>>, <<Pairs[i].tester, {Pairs[i].repair}>>>>
          /\ Len(todo') = 2 /\ 1..2 = {1, 2}
          /\ todo'[1][1] = Pairs[i].repair /\ todo'[2][1] = Pairs[i].tester
      BY <3>1, <3>3, SMT
    <3>7. todo' \in Seq(Tasks \X SUBSET Tasks)
      BY <3>5, <3>6, SMT
    <3>8. TodoFresh'
      <4>1. \A k \in {1, 2} : todo'[k][1] # Root /\ rows'[todo'[k][1]] = Absent
        BY <3>3, <3>5, <3>6, <1>1
      <4>2. \A j, k \in {1, 2} : todo'[j][1] = todo'[k][1] => j = k
        BY <3>5, <3>6
      <4>3. \A j \in DOMAIN Pairs : todo'[1][1] # Pairs[j].tester
        BY <3>5, <3>6
      <4>4. \A j \in DOMAIN Pairs : todo'[2][1] = Pairs[j].tester => todo'[2 - 1][1] = Pairs[j].repair
        BY <3>5, <3>6, SMT
      <4> QED BY <4>1, <4>2, <4>3, <4>4, <3>6, SMT DEF TodoFresh
    <3>9. t # Root
      BY <2>3, WorkflowIsTyped
    <3> QED BY <1>1, <1>2, <3>1, <3>4, <3>7, <3>8, <3>9, HandleStepKeeps
  <2> QED BY <2>2, <2>3
<1> QED BY <1>4, <1>5, <1>6, <1>7

-----------------------------------------------------------------------------
(* The execution of t ends, well or badly, and its row says so.            *)
LEMMA EndsKeeps ==
    ASSUME IndInv, NEW t \in Tasks, NEW own \in Ended, NEW closed \in SUBSET Tasks,
           NEW released \in SUBSET Tasks, NEW freed \in SUBSET Tasks,
           EndsWith(t, own, closed, released, freed), up,
           exec[t] = "recorded" \/ (exec[t] = "working" /\ turn = Nobody),
           exec' = [exec EXCEPT ![t] = "handling"], turn' = t, Persist({t}),
           patches' \in [Tasks -> SUBSET Nat],
           UNCHANGED <<attempt, base, todo, commit, up, workspaces>>
    PROVE  IndInv'
<1>1. /\ Typed /\ TurnHeld /\ QueuesHold /\ RowsAgree /\ AttemptsSaved /\ IdsUnused
      /\ DepsSettled /\ RowsKnown
  BY DEF IndInv
<1>2. t \in nodes /\ deps[t] = {} /\ rows[t] # Absent /\ rows[t].state \notin Ended
      /\ rows[t].attempt = attempt[t] /\ t \notin ready /\ t \notin waiting
  BY <1>1, TransitionFacts DEF QueuesHold, RowsAgree, Executing
<1>3. /\ todo = <<>> /\ Nobody \notin Tasks
      /\ \A u \in Tasks : u # t => exec[u] \notin InTurn
  BY <1>1, WorkflowIsTyped DEF TurnHeld, InTurn
<1>4. \A x \in dependents[t] : x \in Tasks /\ x \in nodes /\ x # t /\ exec[x] = "none"
  BY <1>1, <1>2 DEF DepsSettled, QueuesHold, Typed
<1>5. /\ closed \subseteq dependents[t] /\ released \subseteq dependents[t]
      /\ freed \subseteq released /\ freed \subseteq waiting
      /\ \A x \in closed : status[x] # "SUCCESS" /\ x \notin released
      /\ \A x \in freed : deps[x] \subseteq {t}
      /\ own = "FAILED" => \A x \in released : FailMode(t, x) \in Permissive
      /\ waiting' = waiting \ (closed \union freed)
      /\ ready' = (ready \ closed) \union freed
      /\ completedTasks' = IF own = "SUCCESS" THEN completedTasks \union {t} ELSE completedTasks
      /\ UNCHANGED <<declared, nodes, dependents>>
  BY DEF EndsWith
<1>6. /\ status' \in [Tasks -> TaskStatus] /\ status'[t] = own /\ t \notin closed /\ t \notin freed
      /\ \A x \in closed : status'[x] = "FAILED"
      /\ \A x \in freed : status'[x] = "READY"
      /\ \A x \in Tasks : x # t /\ x \notin closed /\ x \notin freed => status'[x] = status[x]
  <2>1. status' = [x \in Tasks |-> IF x = t THEN own ELSE IF x \in closed THEN "FAILED"
                                   ELSE IF x \in freed THEN "READY" ELSE status[x]]
    BY DEF EndsWith
  <2>2. \A x \in freed : x \notin closed
    BY <1>5
  <2> QED BY <2>1, <2>2, <1>1, <1>4, <1>5, TransitionFacts DEF Typed, Ended
<1>7. /\ deps' \in [Tasks -> SUBSET Tasks]
      /\ \A x \in Tasks : deps'[x] = IF x \in released THEN deps[x] \ {t} ELSE deps[x]
  BY <1>1 DEF EndsWith, Typed
<1>8. /\ rows' \in [Tasks -> SavedRows \union {Absent}] /\ rows'[t] # Absent
      /\ rows'[t].state = own /\ rows'[t].attempt = attempt[t]
      /\ \A y \in Tasks : y # t => rows'[y] = rows[y]
  BY <1>1, <1>5, <1>6, PersistFacts DEF Typed
<1>9. exec' \in [Tasks -> Places] /\ exec'[t] = "handling" /\ \A u \in Tasks : u # t => exec'[u] = exec[u]
  BY <1>1 DEF Typed, Places, InTurn
<1>10. Typed'
  BY <1>1, <1>5, <1>6, <1>7, <1>8, <1>9, ZenonT(60) DEF Typed
<1>11. TurnHeld'
  <2>1. \A u \in Tasks : exec'[u] \in InTurn <=> turn' = u
    BY <1>3, <1>9 DEF InTurn
  <2> QED BY <2>1, <1>3 DEF TurnHeld
<1>12. QueuesHold'
  <2>1. ready' \union waiting' \subseteq nodes'
    BY <1>1, <1>5 DEF QueuesHold
  <2>2. \A x \in ready' : status'[x] = "READY" /\ deps'[x] = {} /\ exec'[x] = "none"
    <3>1. \A x \in freed : status'[x] = "READY" /\ deps'[x] = {} /\ exec'[x] = "none"
      BY <1>4, <1>5, <1>6, <1>7, <1>9
    <3>2. \A x \in ready \ closed : x \notin freed =>
              status'[x] = "READY" /\ deps'[x] = {} /\ exec'[x] = "none"
      <4>1. \A x \in ready : x \in Tasks /\ x # t /\ status[x] = "READY" /\ deps[x] = {} /\ exec[x] = "none"
        BY <1>1, <1>2 DEF QueuesHold, Typed
      <4> QED BY <4>1, <1>6, <1>7, <1>9
    <3> QED BY <3>1, <3>2, <1>5
  <2>3. \A x \in waiting' : status'[x] \in {"PENDING", "BLOCKED"} /\ exec'[x] = "none"
    BY <1>1, <1>2, <1>5, <1>6, <1>9, ZenonT(30) DEF QueuesHold, Typed
  <2>4. \A x \in Tasks : exec'[x] # "none" => x \in nodes' /\ deps'[x] = {}
    BY <1>1, <1>2, <1>5, <1>7, <1>9, ZenonT(60) DEF QueuesHold
  <2>5. \A x \in Tasks : exec'[x] \in Executing => status'[x] = "RUNNING"
    <3> SUFFICES ASSUME NEW x \in Tasks, exec'[x] \in Executing PROVE status'[x] = "RUNNING"
      OBVIOUS
    <3>1. x # t /\ exec[x] \in Executing /\ exec[x] # "none"
      BY <1>9 DEF Executing
    <3>2. x \notin closed /\ x \notin freed
      BY <3>1, <1>4, <1>5
    <3> QED BY <3>1, <3>2, <1>1, <1>6 DEF QueuesHold
  <2>6. \A x \in Tasks : x \notin nodes' => attempt'[x] = 0 /\ status'[x] # "RUNNING"
    BY <1>1, <1>2, <1>4, <1>5, <1>6, ZenonT(60) DEF QueuesHold
  <2> QED BY <2>1, <2>2, <2>3, <2>4, <2>5, <2>6 DEF QueuesHold
<1>13. RowsAgree'
  <2>1. \A x \in nodes' : rows'[x] # Absent /\ rows'[x].attempt = attempt'[x]
    BY <1>1, <1>5, <1>8, ZenonT(30) DEF RowsAgree, Typed
  <2>2. \A x \in nodes' : rows'[x].state \in Ended =>
            status'[x] = rows'[x].state /\ exec'[x] \in {"none", "handling", "creating"}
    <3> SUFFICES ASSUME NEW x \in nodes', rows'[x].state \in Ended, x # t
                 PROVE  status'[x] = rows'[x].state /\ exec'[x] \in {"none", "handling", "creating"}
      BY <1>6, <1>8, <1>9
    <3>1. x \in nodes /\ x \in Tasks /\ rows'[x] = rows[x] /\ exec'[x] = exec[x]
      BY <1>1, <1>5, <1>8, <1>9 DEF Typed
    <3>2. status[x] = rows[x].state /\ exec[x] \in {"none", "handling", "creating"}
      BY <3>1, <1>1 DEF RowsAgree
    <3>3. x \notin freed
      BY <3>1, <3>2, <1>1, <1>5, ZenonT(60) DEF QueuesHold, Ended
    <3>4. x \in closed => status[x] = "FAILED"
      BY <3>1, <3>2, <1>5 DEF Ended
    <3> QED BY <3>1, <3>2, <3>3, <3>4, <1>6
  <2>3. \A x \in Tasks : exec'[x] \in {"handling", "creating"} =>
            rows'[x].state = status'[x] /\ status'[x] \in Ended
    BY <1>3, <1>6, <1>8, <1>9, SMTT(30) DEF InTurn
  <2> QED BY <2>1, <2>2, <2>3 DEF RowsAgree
<1>14. AttemptsSaved'
  <2>1. \A u \in Tasks : rows'[u].attempt = rows[u].attempt /\ rows'[u].attempt \in Nat
    <3>1. \A u \in Tasks : rows[u].attempt \in Nat
      BY <1>1, SavedAttempts
    <3> QED BY <3>1, <1>2, <1>8
  <2>2. \A u \in Tasks : exec'[u] \in {"begun", "leased"} => exec[u] \in {"begun", "leased"}
    BY <1>9
  <2> QED BY <2>1, <2>2, <1>1, SavedKept
<1>15. IdsUnused'
  <2>1. TodoFresh'
    BY <1>3, NothingTodo
  <2>2. \A u \in Tasks : rows'[u] # Absent <=> rows[u] # Absent
    BY <1>2, <1>8
  <2>3. \A i \in DOMAIN Pairs : rows'[Pairs[i].tester] # Absent => rows'[Pairs[i].repair] # Absent
    BY <2>2, <1>1, PairFacts DEF IdsUnused
  <2>4. Root \in Tasks
    BY WorkflowIsTyped
  <2>5. CASE t = Root
    <3>1. \A u \in Tasks \ {Root} : rows[u] = Absent
      BY <2>5, <1>1, <1>2 DEF IdsUnused, Ended
    <3> QED BY <2>1, <2>2, <2>3, <2>5, <3>1, <1>3 DEF IdsUnused
  <2>6. CASE t # Root
    <3>1. rows[Root].state = "SUCCESS" /\ exec[Root] # "handling"
      BY <2>6, <1>1, <1>2 DEF IdsUnused
    <3> QED BY <2>1, <2>3, <2>4, <2>6, <3>1, <1>3, <1>8, <1>9 DEF IdsUnused
  <2> QED BY <2>5, <2>6
<1>16. DepsSettled'
  <2>1. \A d \in Tasks : rows[d].state \in Ended => d # t /\ rows'[d] = rows[d]
    BY <1>2, <1>8
  <2>2. \A d, x \in Tasks : Settled(d, x) => Settled(d, x)'
    BY <2>1 DEF Settled, Ended, FailMode
  <2>3. \A x \in released : Settled(t, x)'
    BY <1>5, <1>8 DEF Settled, Ended, FailMode
  <2>4. \A d \in completedTasks' : rows'[d].state = "SUCCESS"
    BY <1>1, <1>5, <1>8, <2>1, SMT DEF DepsSettled, Typed, Ended
  <2>5. \A x \in nodes' : \A d \in declared'[x] \ deps'[x] : Settled(d, x)'
    <3> SUFFICES ASSUME NEW x \in nodes, NEW d \in declared[x] \ deps'[x]
                 PROVE  Settled(d, x)'
      BY <1>5
    <3>1. x \in Tasks /\ d \in Tasks
      BY <1>1 DEF Typed
    <3>2. d \notin deps[x] \/ (x \in released /\ d = t)
      BY <3>1, <1>7
    <3> QED BY <3>1, <3>2, <2>2, <2>3, <1>1 DEF DepsSettled
  <2>6. \A d \in Tasks : \A x \in dependents'[d] :
            x \in nodes' /\ (d \in deps'[x] \/ rows'[d].state \in Ended)
    <3> SUFFICES ASSUME NEW d \in Tasks, NEW x \in dependents[d]
                 PROVE  x \in nodes /\ (d \in deps'[x] \/ rows'[d].state \in Ended)
      BY <1>5
    <3>1. x \in Tasks /\ x \in nodes /\ (d \in deps[x] \/ rows[d].state \in Ended)
      BY <1>1 DEF DepsSettled, Typed
    <3> QED BY <3>1, <2>1, <1>7, <1>8
  <2> QED BY <2>4, <2>5, <2>6 DEF DepsSettled
<1>17. RowsKnown'
  BY <1>1, <1>2, <1>5, <1>8, WorkflowIsTyped DEF RowsKnown
<1> QED BY <1>10, <1>11, <1>12, <1>13, <1>14, <1>15, <1>16, <1>17 DEF IndInv

(* The two ways an execution ends.                                         *)
LEMMA OutcomeKeeps ==
    ASSUME IndInv, NEW t \in Tasks, Succeed(t) \/ Fail(t)
    PROVE  IndInv'
<1>2. Typed /\ QueuesHold /\ TurnHeld /\ patches \in [Tasks -> SUBSET Nat] /\ attempt \in [Tasks -> Nat]
  BY DEF IndInv, Typed
<1>3. CASE Succeed(t)
  <2>1. /\ up /\ exec[t] = "recorded" /\ CompleteTask(t) /\ exec' = [exec EXCEPT ![t] = "handling"]
        /\ Persist({t}) /\ UNCHANGED <<patches, turn>>
        /\ UNCHANGED <<attempt, base, todo, commit, up, workspaces>>
    BY <1>3 DEF Succeed
  <2>2. turn' = t
    BY <2>1, <1>2 DEF TurnHeld, InTurn
  <2>3. PICK closed, released, freed \in SUBSET Tasks : EndsWith(t, "SUCCESS", closed, released, freed)
    BY <2>1, <1>2, CompleteEffect
  <2>4. {"SUCCESS", "FAILED"} \subseteq Ended /\ patches' \in [Tasks -> SUBSET Nat]
    BY <2>1, <2>2, <1>2 DEF Ended
  <2>5. exec[t] = "recorded" \/ (exec[t] = "working" /\ turn = Nobody)
    BY <2>1
  <2> QED BY <2>1, <2>2, <2>3, <2>4, <2>5, EndsKeeps
<1>4. CASE Fail(t)
  <2>1. /\ up /\ turn = Nobody /\ exec[t] = "working" /\ FailTask(t, "FAILED", FailOnce(t))
        /\ exec' = [exec EXCEPT ![t] = "handling"] /\ turn' = t
        /\ (patches' = patches \/ patches' = WithPatch(t))
        /\ Persist({t}) /\ UNCHANGED <<attempt, base, todo, commit, up, workspaces>>
    BY <1>4 DEF Fail, Free, KeepPartialPatch
  <2>2. patches' \in [Tasks -> SUBSET Nat]
    BY <2>1, <1>2, SMT DEF WithPatch
  <2>3. PICK closed, released, freed \in SUBSET Tasks : EndsWith(t, "FAILED", closed, released, freed)
    BY <2>1, <1>2, FailEffect
  <2>4. {"SUCCESS", "FAILED"} \subseteq Ended /\ patches' \in [Tasks -> SUBSET Nat]
    BY <2>1, <2>2, <1>2 DEF Ended
  <2> QED BY <2>1, <2>2, <2>3, <2>4, EndsKeeps
<1> QED BY <1>3, <1>4

(* The finally block saves once more what was saved.                       *)
LEMMA EndExecutionKeeps ==
    ASSUME IndInv, NEW t \in Tasks, EndExecution(t)
    PROVE  IndInv'
<1>1. /\ up /\ exec[t] = "creating" /\ todo = <<>> /\ exec' = [exec EXCEPT ![t] = "none"]
      /\ turn' = Nobody /\ Persist({t})
      /\ UNCHANGED <<kernelVars, attempt, patches, base, todo, commit, up, workspaces>>
  BY DEF EndExecution
<1>2. UNCHANGED <<status, declared, nodes, deps, dependents, ready, waiting, completedTasks>>
  BY <1>1 DEF kernelVars, graphVars, queueVars
<1>3. /\ t \in nodes /\ turn = t /\ rows[t] # Absent /\ rows[t].attempt = attempt[t]
      /\ rows[t].state = status[t] /\ status[t] \in Ended /\ Nobody \notin Tasks
      /\ t \notin ready /\ t \notin waiting
  BY <1>1, WorkflowIsTyped DEF IndInv, QueuesHold, RowsAgree, TurnHeld, InTurn
<1>4. exec' \in [Tasks -> Places] /\ exec'[t] = "none" /\ \A u \in Tasks : u # t => exec'[u] = exec[u]
  BY <1>1 DEF IndInv, Typed, Places
<1>5. /\ rows' \in [Tasks -> SavedRows \union {Absent}] /\ rows'[t] # Absent
      /\ rows'[t].state = rows[t].state /\ rows'[t].attempt = rows[t].attempt
      /\ \A y \in Tasks : y # t => rows'[y] = rows[y]
  BY <1>1, <1>2, <1>3, PersistFacts DEF IndInv, Typed
<1>6. Typed'
  BY <1>1, <1>2, <1>4, <1>5 DEF IndInv, Typed
<1>7. TurnHeld'
  BY <1>1, <1>2, <1>3, <1>4 DEF IndInv, TurnHeld, InTurn
<1>8. QueuesHold'
  <2>1. QueuesHold
    BY DEF IndInv
  <2>2. \A u \in ready : u # t /\ exec'[u] = "none"
    BY <1>3, <1>4, <2>1, <1>2 DEF QueuesHold, IndInv, Typed
  <2>3. \A u \in waiting : u # t /\ exec'[u] = "none"
    BY <1>3, <1>4, <2>1, <1>2 DEF QueuesHold, IndInv, Typed
  <2>4. \A u \in Tasks : exec'[u] # "none" => u # t /\ exec'[u] = exec[u]
    BY <1>4
  <2>5. "none" \notin Executing
    BY DEF Executing
  <2> QED BY <1>1, <1>2, <2>1, <2>2, <2>3, <2>4, <2>5 DEF QueuesHold
<1>9. RowsAgree'
  <2>1. \A x \in nodes' : rows'[x] # Absent /\ rows'[x].attempt = attempt'[x]
    BY <1>1, <1>2, <1>3, <1>5 DEF IndInv, RowsAgree, Typed
  <2>2. \A x \in nodes' : rows'[x].state \in Ended =>
            status'[x] = rows'[x].state /\ exec'[x] \in {"none", "handling", "creating"}
    BY <1>2, <1>3, <1>4, <1>5, ZenonT(60) DEF IndInv, RowsAgree, Typed
  <2>3. \A x \in Tasks : exec'[x] \in {"handling", "creating"} =>
            rows'[x].state = status'[x] /\ status'[x] \in Ended
    BY <1>2, <1>4, <1>5 DEF IndInv, RowsAgree
  <2> QED BY <2>1, <2>2, <2>3 DEF RowsAgree
<1>10. AttemptsSaved'
  <2>1. \A u \in Tasks : rows[u].attempt \in Nat
    BY SavedAttempts DEF IndInv
  <2>2. \A u \in Tasks : rows'[u].attempt = rows[u].attempt /\ rows'[u].attempt \in Nat
    BY <2>1, <1>5
  <2> QED BY <2>2, <1>1, <1>4, SavedKept DEF IndInv
<1>11. IdsUnused'
  <2>1. TodoFresh'
    BY <1>1, NothingTodo
  <2>2. \A u \in Tasks : (rows'[u] # Absent <=> rows[u] # Absent) /\ rows'[u].state = rows[u].state
    BY <1>3, <1>5
  <2>3. Root \in Tasks /\ (exec'[Root] = "handling" => exec[Root] = "handling")
    BY <1>4, WorkflowIsTyped
  <2> QED BY <2>1, <2>2, <2>3, <1>1, PairFacts DEF IndInv, IdsUnused
<1>12. DepsSettled'
  BY <1>2, <1>5, SettledStays DEF IndInv
<1>13. RowsKnown'
  BY <1>1, <1>2, <1>3, <1>5, WorkflowIsTyped DEF IndInv, RowsKnown
<1> QED BY <1>6, <1>7, <1>8, <1>9, <1>10, <1>11, <1>12, <1>13 DEF IndInv

(* A turn of the scheduling loop.                                          *)
LEMMA DispatchKeeps ==
    ASSUME IndInv, Dispatch
    PROVE  IndInv'
<1>1. /\ Typed /\ TurnHeld /\ QueuesHold /\ RowsAgree /\ AttemptsSaved /\ IdsUnused
      /\ DepsSettled /\ RowsKnown
  BY DEF IndInv
<1>2. /\ up /\ turn = Nobody /\ ready # {}
      /\ UNCHANGED <<attempt, patches, base, turn, todo, commit, up, rows, workspaces>>
  BY DEF Dispatch, Free, disk
<1>3. PICK batch \in SUBSET Tasks :
          /\ DispatchReady(Staffed, batch)
          /\ exec' = [t \in Tasks |-> IF t \in batch THEN "queued" ELSE exec[t]]
  BY DEF Dispatch
<1>4. /\ batch \subseteq ready
      /\ ready' = {} /\ waiting' = waiting \union (ready \ batch)
      /\ status' = [t \in Tasks |-> IF t \in batch THEN "RUNNING"
                                    ELSE IF t \in ready \ batch THEN "BLOCKED" ELSE status[t]]
      /\ UNCHANGED <<declared, nodes, deps, dependents, completedTasks>>
  BY <1>1, <1>2, <1>3, DispatchEffect
<1>5. \A t \in ready : t \in Tasks /\ t \in nodes /\ status[t] = "READY" /\ deps[t] = {} /\ exec[t] = "none"
                       /\ rows[t].state \notin Ended
  BY <1>1 DEF QueuesHold, Typed, RowsAgree, Ended
<1>6. /\ exec' \in [Tasks -> Places] /\ \A t \in batch : exec'[t] = "queued"
      /\ \A t \in Tasks : t \notin batch => exec'[t] = exec[t]
  BY <1>1, <1>3 DEF Typed, Places, Executing
<1>7. /\ status' \in [Tasks -> TaskStatus] /\ \A t \in batch : status'[t] = "RUNNING"
      /\ \A t \in ready : t \notin batch => status'[t] = "BLOCKED"
      /\ \A t \in Tasks : t \notin ready => status'[t] = status[t]
  BY <1>1, <1>4, <1>5, TransitionFacts DEF Typed
<1>8. Typed'
  BY <1>1, <1>2, <1>4, <1>6, <1>7 DEF Typed
<1>9. TurnHeld'
  <2>1. todo = <<>>
    BY <1>1, <1>2, WorkflowIsTyped DEF TurnHeld, InTurn
  <2>2. \A t \in Tasks : exec'[t] \in InTurn <=> turn' = t
    BY <1>1, <1>2, <1>4, <1>5, <1>6 DEF TurnHeld, InTurn
  <2> QED BY <2>1, <2>2, <1>2 DEF TurnHeld
<1>10. QueuesHold'
  <2>1. \A t \in waiting' : status'[t] \in {"PENDING", "BLOCKED"} /\ exec'[t] = "none"
    <3> SUFFICES ASSUME NEW t \in waiting'
                 PROVE  status'[t] \in {"PENDING", "BLOCKED"} /\ exec'[t] = "none"
      OBVIOUS
    <3>1. CASE t \in ready \ batch
      BY <3>1, <1>5, <1>6, <1>7
    <3>2. CASE t \in waiting /\ t \notin ready
      BY <3>2, <1>1, <1>4, <1>6, <1>7, SMT DEF QueuesHold, Typed
    <3>3. t \notin waiting \/ t \notin ready
      BY <1>1 DEF QueuesHold
    <3> QED BY <3>1, <3>2, <3>3, <1>4
  <2>2. \A t \in Tasks :
        /\ exec'[t] # "none" => t \in nodes' /\ deps'[t] = {}
        /\ exec'[t] \in Executing => status'[t] = "RUNNING"
        /\ t \notin nodes' => attempt'[t] = 0 /\ status'[t] # "RUNNING"
    <3> SUFFICES ASSUME NEW t \in Tasks
                 PROVE  /\ exec'[t] # "none" => t \in nodes /\ deps[t] = {}
                        /\ exec'[t] \in Executing => status'[t] = "RUNNING"
                        /\ t \notin nodes => attempt[t] = 0 /\ status'[t] # "RUNNING"
      BY <1>2, <1>4
    <3>1. CASE t \in batch
      BY <3>1, <1>4, <1>5, <1>7
    <3>2. CASE t \in ready \ batch
      BY <3>2, <1>5, <1>6 DEF Executing
    <3>3. CASE t \notin ready
      BY <3>3, <1>1, <1>4, <1>6, <1>7, SMT DEF QueuesHold
    <3> QED BY <3>1, <3>2, <3>3
  <2> QED BY <2>1, <2>2, <1>1, <1>4 DEF QueuesHold
<1>11. RowsAgree'
  <2>1. \A t \in nodes : rows[t].state \in Ended => t \notin ready /\ t \in Tasks /\ t \notin batch
    BY <1>1, <1>4, <1>5 DEF Typed
  <2>2. \A t \in Tasks : exec'[t] \in {"handling", "creating"} => t \notin ready /\ exec[t] = exec'[t]
    BY <1>4, <1>5, <1>6
  <2> QED BY <2>1, <2>2, <1>1, <1>2, <1>4, <1>6, <1>7, ZenonT(60) DEF RowsAgree
<1>12. AttemptsSaved'
  BY <1>1, <1>2, <1>6 DEF AttemptsSaved
<1>13. IdsUnused'
  <2>1. Root \in Tasks /\ (exec'[Root] = "handling" => exec[Root] = "handling")
        /\ (exec'[Root] = "creating" => exec[Root] = "creating")
    BY <1>6, WorkflowIsTyped
  <2>2. TodoFresh'
    BY <1>1, <1>2 DEF IdsUnused, TodoFresh
  <2> QED BY <2>1, <2>2, <1>1, <1>2 DEF IdsUnused
<1>14. DepsSettled'
  BY <1>1, <1>2, <1>4, SettledStays
<1>15. RowsKnown'
  BY <1>1, <1>2, <1>4 DEF RowsKnown
<1> QED BY <1>8, <1>9, <1>10, <1>11, <1>12, <1>13, <1>14, <1>15 DEF IndInv

-----------------------------------------------------------------------------
(* What recovery writes: the state of tasks that had not ended.            *)
LEMMA RequeueFacts ==
    ASSUME Typed, NEW S \in SUBSET Recovered, rows' = Requeued(S)
    PROVE  /\ rows' \in [Tasks -> SavedRows \union {Absent}]
           /\ \A t \in Tasks :
                /\ rows'[t] # Absent <=> rows[t] # Absent
                /\ rows'[t].attempt = rows[t].attempt /\ rows'[t].attempt \in Nat
                /\ rows'[t].deps = rows[t].deps
                /\ rows[t].state \in Ended <=> rows'[t].state \in Ended
                /\ rows[t].state \in Ended => rows'[t].state = rows[t].state
                /\ t \in S => rows'[t].state = "READY" /\ rows[t] # Absent /\ rows[t] \in SavedRows
                /\ t \notin S => rows'[t] = rows[t]
<1>1. \A t \in S : rows[t] \in SavedRows /\ rows[t].state \in {"RUNNING", "READY", "PENDING"}
  <2>1. \A t \in S : t \in Tasks /\ rows[t].state \in {"RUNNING", "READY", "PENDING"}
    BY DEF Recovered
  <2> QED BY <2>1, SMT DEF Typed, Absent
<1>2. rows' = [t \in Tasks |-> IF t \in S THEN [rows[t] EXCEPT !.state = "READY"] ELSE rows[t]]
  BY DEF Requeued
<1>3. \A t \in S : /\ t \in Tasks /\ rows'[t] \in SavedRows /\ rows'[t].state = "READY"
                   /\ rows'[t].attempt = rows[t].attempt /\ rows'[t].deps = rows[t].deps
  <2> SUFFICES ASSUME NEW t \in S
               PROVE  /\ t \in Tasks /\ rows'[t] \in SavedRows /\ rows'[t].state = "READY"
                      /\ rows'[t].attempt = rows[t].attempt /\ rows'[t].deps = rows[t].deps
    OBVIOUS
  <2>1. t \in Tasks /\ rows'[t] = [rows[t] EXCEPT !.state = "READY"] /\ rows[t] \in SavedRows
    BY <1>1, <1>2 DEF Recovered
  <2>2. "READY" \in TaskStatus
    BY TransitionFacts
  <2> QED BY <2>1, <2>2 DEF SavedRows
<1>4. \A t \in Tasks : t \notin S => rows'[t] = rows[t]
  BY <1>2
<1>5. \A r \in SavedRows : r # Absent /\ r.attempt \in Nat
  BY TransitionFacts, SMT DEF SavedRows, Absent
<1>6. rows' \in [Tasks -> SavedRows \union {Absent}]
  BY <1>2, <1>3, <1>4 DEF Typed
<1>7. \A t \in Tasks : rows[t].attempt \in Nat
  BY SMT DEF Typed, SavedRows, Absent
<1> QED BY <1>1, <1>3, <1>4, <1>5, <1>6, <1>7 DEF Ended

(* The process dies.                                                       *)
LEMMA CrashKeeps ==
    ASSUME IndInv, Crash
    PROVE  IndInv'
<1>1. /\ up' = FALSE /\ UNCHANGED <<rows, workspaces>> /\ nodes' = {}
      /\ status' = [t \in Tasks |-> "PENDING"] /\ exec' = [t \in Tasks |-> "none"]
      /\ declared' = [t \in Tasks |-> {}] /\ deps' = [t \in Tasks |-> {}]
      /\ dependents' = [t \in Tasks |-> {}] /\ patches' = [t \in Tasks |-> {}]
      /\ base' = [t \in Tasks |-> {}] /\ attempt' = [t \in Tasks |-> 0]
      /\ ready' = {} /\ waiting' = {} /\ completedTasks' = {} /\ commit' = {}
      /\ turn' = Nobody /\ todo' = <<>>
  BY DEF Crash, Forget, Empty, Zero, disk
<1>2. Typed'
  BY <1>1, TransitionFacts, SMT DEF IndInv, Typed, Places, Works
<1>3. TurnHeld'
  BY <1>1, WorkflowIsTyped DEF TurnHeld, InTurn
<1>4. QueuesHold'
  BY <1>1 DEF QueuesHold, Executing
<1>5. RowsAgree'
  BY <1>1 DEF RowsAgree
<1>6. AttemptsSaved'
  BY <1>1 DEF IndInv, AttemptsSaved
<1>7. IdsUnused'
  <2>1. TodoFresh' /\ Root \in Tasks
    BY <1>1, WorkflowIsTyped, NothingTodo
  <2> QED BY <2>1, <1>1 DEF IndInv, IdsUnused
<1>8. DepsSettled'
  BY <1>1 DEF DepsSettled
<1>9. RowsKnown'
  BY <1>1 DEF RowsKnown
<1> QED BY <1>2, <1>3, <1>4, <1>5, <1>6, <1>7, <1>8, <1>9 DEF IndInv

(* It dies again in the middle of recover_tasks.                           *)
LEMMA CrashInRecoveryKeeps ==
    ASSUME IndInv, CrashInRecovery
    PROVE  IndInv'
<1>1. /\ ~up /\ UNCHANGED <<status, declared, nodes, deps, dependents, ready, waiting, completedTasks>>
      /\ UNCHANGED <<exec, attempt, patches, base, turn, todo, commit, up, workspaces>>
  BY DEF CrashInRecovery, kernelVars, graphVars, queueVars, memory
<1>2. PICK S \in SUBSET Recovered : rows' = Requeued(S)
  BY DEF CrashInRecovery
<1>3. /\ rows' \in [Tasks -> SavedRows \union {Absent}]
      /\ \A t \in Tasks : /\ rows'[t] # Absent <=> rows[t] # Absent
                          /\ rows'[t].attempt = rows[t].attempt /\ rows'[t].attempt \in Nat
                          /\ rows[t].state \in Ended <=> rows'[t].state \in Ended
                          /\ rows[t].state \in Ended => rows'[t].state = rows[t].state
  BY <1>2, RequeueFacts DEF IndInv
<1>4. Typed'
  BY <1>1, <1>3 DEF IndInv, Typed
<1>5. TurnHeld' /\ QueuesHold'
  BY <1>1 DEF IndInv, TurnHeld, QueuesHold
<1>6. nodes = {} /\ \A t \in Tasks : exec[t] = "none"
  BY <1>1 DEF IndInv, TurnHeld
<1>7. RowsAgree'
  BY <1>1, <1>6 DEF RowsAgree
<1>8. AttemptsSaved'
  BY <1>1, <1>3, SavedKept DEF IndInv
<1>9. IdsUnused'
  <2>1. todo = <<>>
    BY <1>6 DEF IndInv, TurnHeld
  <2>2. TodoFresh' /\ Root \in Tasks
    BY <1>1, <2>1, WorkflowIsTyped, NothingTodo
  <2>3. rows'[Root].state # "SUCCESS" => rows[Root].state # "SUCCESS"
    BY <2>2, <1>3 DEF Ended
  <2> QED BY <2>1, <2>2, <2>3, <1>1, <1>3, PairFacts DEF IndInv, IdsUnused
<1>10. DepsSettled'
  BY <1>1, <1>3, SettledStays DEF IndInv
<1>11. RowsKnown'
  BY <1>1 DEF RowsKnown
<1> QED BY <1>4, <1>5, <1>7, <1>8, <1>9, <1>10, <1>11 DEF IndInv

(* A new daemon takes up what the store has as unfinished.                 *)
LEMMA RestartKeeps ==
    ASSUME IndInv, Restart
    PROVE  IndInv'
<1> DEFINE back == Recovered \intersect Staffed
           now  == {t \in back : rows[t].deps = {}}
<1>1. /\ ~up /\ up' = TRUE /\ rows' = Requeued(Recovered) /\ nodes' = back
      /\ declared' = [t \in Tasks |-> IF t \in back THEN rows[t].deps ELSE {}]
      /\ deps' = [t \in Tasks |-> IF t \in back THEN rows[t].deps ELSE {}]
      /\ dependents' = [d \in Tasks |-> {t \in back : d \in back /\ d \in rows[t].deps}]
      /\ ready' = now /\ waiting' = back \ now
      /\ status' = [t \in Tasks |-> IF t \in now THEN "READY" ELSE "PENDING"]
      /\ attempt' = [t \in Tasks |-> IF t \in back THEN rows[t].attempt ELSE 0]
      /\ patches' = [t \in Tasks |-> IF t \in back THEN rows[t].patches ELSE {}]
      /\ base' = [t \in Tasks |-> IF t \in back THEN rows[t].base ELSE {}]
      /\ UNCHANGED <<completedTasks, exec, turn, todo, commit, workspaces>>
  BY DEF Restart
<1>2. back \subseteq Tasks /\ now \subseteq back /\ back \subseteq Recovered /\ back \subseteq Staffed
  BY DEF Recovered
<1>3. \A t \in now : rows[t].deps = {}
  OBVIOUS
<1> HIDE DEF back, now
<1>4. /\ rows' \in [Tasks -> SavedRows \union {Absent}]
      /\ \A t \in Tasks :
           /\ rows'[t] # Absent <=> rows[t] # Absent
           /\ rows'[t].attempt = rows[t].attempt /\ rows'[t].attempt \in Nat
           /\ rows'[t].deps = rows[t].deps
           /\ rows[t].state \in Ended <=> rows'[t].state \in Ended
           /\ rows[t].state \in Ended => rows'[t].state = rows[t].state
           /\ t \in Recovered => rows'[t].state = "READY" /\ rows[t] # Absent /\ rows[t] \in SavedRows
           /\ t \notin Recovered => rows'[t] = rows[t]
  BY <1>1, RequeueFacts DEF IndInv
<1>5. \A t \in back : /\ rows[t] \in SavedRows /\ rows[t].deps \in SUBSET Tasks
                      /\ rows[t].attempt \in Nat /\ rows[t].patches \in SUBSET Nat /\ rows[t].base \in Works
  BY <1>2, <1>4 DEF SavedRows
<1>6. /\ nodes = {} /\ completedTasks = {} /\ commit = {} /\ \A t \in Tasks : exec[t] = "none"
  BY <1>1 DEF IndInv, TurnHeld
<1>7. todo = <<>>
  BY <1>6 DEF IndInv, TurnHeld
<1>8. Typed'
  <2>1. status' \in [Tasks -> TaskStatus] /\ nodes' \in SUBSET Tasks /\ dependents' \in [Tasks -> SUBSET Tasks]
    BY <1>1, <1>2, TransitionFacts
  <2>2. /\ declared' \in [Tasks -> SUBSET Tasks] /\ deps' \in [Tasks -> SUBSET Tasks]
        /\ attempt' \in [Tasks -> Nat] /\ patches' \in [Tasks -> SUBSET Nat] /\ base' \in [Tasks -> Works]
    BY <1>1, <1>5 DEF Works
  <2> QED BY <2>1, <2>2, <1>1, <1>4 DEF IndInv, Typed
<1>9. TurnHeld'
  BY <1>1, <1>6, <1>7 DEF IndInv, TurnHeld
<1>10. QueuesHold'
  <2>1. ready' \union waiting' \subseteq nodes'
    BY <1>1, <1>2
  <2>2. \A t \in ready' : status'[t] = "READY" /\ deps'[t] = {} /\ exec'[t] = "none"
    BY <1>1, <1>2, <1>3, <1>6
  <2>3. \A t \in waiting' : status'[t] \in {"PENDING", "BLOCKED"} /\ exec'[t] = "none"
    BY <1>1, <1>2, <1>6
  <2>4. \A t \in Tasks : exec'[t] = "none" /\ (t \notin nodes' => attempt'[t] = 0) /\ status'[t] # "RUNNING"
    BY <1>1, <1>6
  <2> QED BY <2>1, <2>2, <2>3, <2>4 DEF QueuesHold, Executing
<1>11. RowsAgree'
  <2>1. \A t \in back : rows'[t] # Absent /\ rows'[t].attempt = attempt'[t] /\ rows'[t].state \notin Ended
    BY <1>1, <1>2, <1>4 DEF Ended
  <2> QED BY <2>1, <1>1, <1>6 DEF RowsAgree
<1>12. AttemptsSaved'
  BY <1>1, <1>4, <1>6, SavedKept DEF IndInv
<1>13. IdsUnused'
  <2>1. TodoFresh' /\ Root \in Tasks
    BY <1>1, <1>7, WorkflowIsTyped, NothingTodo
  <2>2. rows'[Root].state # "SUCCESS" => rows[Root].state # "SUCCESS"
    BY <2>1, <1>4 DEF Ended
  <2> QED BY <2>1, <2>2, <1>1, <1>4, <1>7, PairFacts DEF IndInv, IdsUnused
<1>14. DepsSettled'
  <2>1. \A t \in nodes' : declared'[t] = deps'[t]
    BY <1>1, <1>2
  <2>2. \A d \in Tasks : \A t \in dependents'[d] : t \in nodes' /\ d \in deps'[t]
    BY <1>1, <1>2
  <2> QED BY <2>1, <2>2, <1>1, <1>6 DEF DepsSettled
<1>15. RowsKnown'
  <2> SUFFICES ASSUME NEW t \in Staffed,
                      rows'[t].state \in {"READY", "RUNNING"} \/ (rows'[t].state = "PENDING" /\ rows'[t].deps = {})
               PROVE  t \in nodes'
    BY DEF RowsKnown
  <2>1. t \in Tasks
    BY WorkflowIsTyped
  <2>2. t \in Recovered
    BY <2>1, <1>4 DEF Recovered
  <2> QED BY <2>2, <1>1 DEF back
<1> QED BY <1>8, <1>9, <1>10, <1>11, <1>12, <1>13, <1>14, <1>15 DEF IndInv

-----------------------------------------------------------------------------
(* Every step preserves the invariant.                                     *)
LEMMA NextKeeps ==
    ASSUME IndInv, [Next]_vars
    PROVE  IndInv'
<1>1. ASSUME NEW t \in Tasks, Execute(t)
      PROVE  IndInv'
  BY <1>1, AttemptKeeps, OutcomeKeeps, HandleKeeps, CreateNextKeeps, EndExecutionKeeps DEF Execute
<1>2. CASE UNCHANGED vars
  <2>1. /\ UNCHANGED <<status, declared, nodes, deps, dependents, ready, waiting, completedTasks>>
        /\ UNCHANGED <<exec, attempt, patches, base, turn, todo, commit, up, rows, workspaces>>
    BY <1>2 DEF vars, kernelVars, graphVars, queueVars, memory, disk
  <2>2. Typed' /\ TurnHeld' /\ QueuesHold' /\ RowsAgree'
    BY <2>1 DEF IndInv, Typed, TurnHeld, QueuesHold, RowsAgree
  <2>3. AttemptsSaved' /\ IdsUnused' /\ RowsKnown'
    BY <2>1 DEF IndInv, AttemptsSaved, IdsUnused, TodoFresh, RowsKnown
  <2>4. DepsSettled'
    BY <2>1, SettledStays DEF IndInv
  <2> QED BY <2>2, <2>3, <2>4 DEF IndInv
<1> QED BY <1>1, <1>2, SubmitKeeps, DispatchKeeps, CrashKeeps, RestartKeeps, CrashInRecoveryKeeps DEF Next

(* The invariant holds in every reachable state.                           *)
THEOREM Invariance == Spec => []IndInv
<1>1. Init => IndInv
  <2> SUFFICES ASSUME Init PROVE IndInv
    OBVIOUS
  <2>1. /\ up = TRUE /\ rows = [t \in Tasks |-> Absent] /\ workspaces = {} /\ nodes = {}
        /\ status = [t \in Tasks |-> "PENDING"] /\ exec = [t \in Tasks |-> "none"]
        /\ declared = [t \in Tasks |-> {}] /\ deps = [t \in Tasks |-> {}]
        /\ dependents = [t \in Tasks |-> {}] /\ patches = [t \in Tasks |-> {}]
        /\ base = [t \in Tasks |-> {}] /\ attempt = [t \in Tasks |-> 0]
        /\ ready = {} /\ waiting = {} /\ completedTasks = {} /\ commit = {}
        /\ turn = Nobody /\ todo = <<>>
    BY DEF Init, KernelInit, MemoryInit
  <2>2. Typed
    BY <2>1, TransitionFacts, SMT DEF Typed, Places, Works
  <2>3. TurnHeld /\ QueuesHold /\ RowsAgree /\ AttemptsSaved /\ DepsSettled
    BY <2>1, WorkflowIsTyped DEF TurnHeld, InTurn, QueuesHold, Executing, RowsAgree, AttemptsSaved, DepsSettled
  <2>4. IdsUnused
    BY <2>1, PairFacts, WorkflowIsTyped, SMTT(30) DEF IdsUnused, TodoFresh
  <2>5. RowsKnown
    BY <2>1, WorkflowIsTyped DEF RowsKnown, Absent
  <2> QED BY <2>2, <2>3, <2>4, <2>5 DEF IndInv
<1> QED BY <1>1, NextKeeps, PTL DEF Spec

(* No attempt of any execution ever meets a worktree of an earlier one,    *)
(* however often the daemon dies between saving the number and using it.   *)
THEOREM AttemptAlwaysFresh == Spec => []AttemptIsFresh
<1>1. IndInv => AttemptIsFresh
  BY DEF IndInv, AttemptsSaved, AttemptIsFresh
<1> QED BY <1>1, Invariance, PTL

(* No dependent runs ahead of a dependency that the store does not have as *)
(* finished.                                                               *)
THEOREM RunsOnlyAfterDependencies == Spec => []RunsAfterDependencies
<1>1. IndInv => RunsAfterDependencies
  BY DEF IndInv, QueuesHold, DepsSettled, Settled, RunsAfterDependencies
<1> QED BY <1>1, Invariance, PTL

(* A daemon that runs knows every unfinished task of its store that it has *)
(* an agent for and that recover_tasks takes up.                           *)
THEOREM UnfinishedAlwaysRecovered == Spec => []UnfinishedIsRecovered
<1>1. IndInv => UnfinishedIsRecovered
  BY DEF IndInv, RowsKnown, UnfinishedIsRecovered
<1> QED BY <1>1, Invariance, PTL

(* What a step may do to the rows of ended tasks, and which tasks it adds. *)
LEMMA RowsOfEnded ==
    ASSUME IndInv, [Next]_vars
    PROVE  /\ \A x \in Tasks : rows[x].state \in Ended => rows'[x].state = rows[x].state
           /\ \A x \in nodes' \ nodes : up => rows[x] = Absent
<1>1. Typed /\ rows \in [Tasks -> SavedRows \union {Absent}] /\ Absent.state \notin Ended
  BY DEF IndInv, Typed, Absent, Ended
<1>2. ASSUME NEW t \in Tasks, Persist({t}), rows[t].state \notin Ended
      PROVE  \A x \in Tasks : rows[x].state \in Ended => rows'[x].state = rows[x].state
  BY <1>2 DEF Persist
<1>3. CASE Submit
  <2>1. Root \in Tasks /\ rows[Root] = Absent /\ Persist({Root}) /\ nodes' = nodes \union {Root}
    BY <1>3, WorkflowIsTyped DEF Submit, Enqueue
  <2> QED BY <2>1, <1>1, <1>2
<1>4. ASSUME NEW t \in Tasks, CreateNext(t)
      PROVE  /\ \A x \in Tasks : rows[x].state \in Ended => rows'[x].state = rows[x].state
             /\ \A x \in nodes' \ nodes : rows[x] = Absent
  <2>1. todo # <<>> /\ Persist({Head(todo)[1]}) /\ nodes' = nodes \union {Head(todo)[1]}
    BY <1>4 DEF CreateNext, Enqueue
  <2>2. todo \in Seq(Tasks \X SUBSET Tasks) /\ TodoFresh
    BY DEF IndInv, Typed, IdsUnused
  <2>3. 1 \in 1..Len(todo) /\ Head(todo) = todo[1] /\ todo[1] \in Tasks \X SUBSET Tasks
    BY <2>1, <2>2, SMT
  <2>4. PICK y \in Tasks : y = Head(todo)[1]
    BY <2>3
  <2>5. rows[y] = Absent
    BY <2>2, <2>3, <2>4 DEF TodoFresh
  <2> QED BY <2>1, <2>4, <2>5, <1>1, <1>2
<1>5. ASSUME NEW t \in Tasks, Begin(t) \/ RecordPatch(t) \/ Succeed(t) \/ Fail(t)
      PROVE  /\ \A x \in Tasks : rows[x].state \in Ended => rows'[x].state = rows[x].state
             /\ nodes' = nodes
  <2>1. exec[t] \in Executing /\ Persist({t}) /\ nodes' = nodes
    BY <1>5 DEF Begin, RecordPatch, Succeed, Fail, CompleteTask, FailTask, Executing, kernelVars, graphVars
  <2>2. rows[t].state \notin Ended
    BY <2>1 DEF IndInv, QueuesHold, RowsAgree, Executing
  <2> QED BY <2>1, <2>2, <1>2
<1>6. ASSUME NEW t \in Tasks, TakeLease(t) \/ OpenWorkspace(t) \/ AttemptFails(t) \/ Handle(t)
      PROVE  rows' = rows /\ nodes' = nodes
  BY <1>6 DEF TakeLease, OpenWorkspace, AttemptFails, Handle, kernelVars, graphVars
<1>7. ASSUME NEW t \in Tasks, EndExecution(t)
      PROVE  /\ \A x \in Tasks : rows[x].state \in Ended => rows'[x].state = rows[x].state
             /\ nodes' = nodes
  <2>1. /\ exec[t] = "creating" /\ nodes' = nodes /\ status' = status
        /\ rows' = [x \in Tasks |-> IF x \in {t} THEN Row(x)' ELSE rows[x]]
    BY <1>7 DEF EndExecution, Persist, kernelVars, graphVars
  <2>2. rows[t].state = status[t]
    BY <2>1 DEF IndInv, RowsAgree
  <2>3. rows'[t].state = status'[t]
    BY <2>1 DEF Row
  <2> QED BY <2>1, <2>2, <2>3
<1>8. CASE Dispatch
  <2>1. nodes' = nodes /\ rows' = rows
    BY <1>8 DEF Dispatch, DispatchReady, graphVars, disk
  <2> QED BY <2>1
<1>9. CASE Crash
  BY <1>9 DEF Crash, Forget, disk
<1>10. CASE Restart
  BY <1>1, <1>10, RequeueFacts DEF Restart
<1>11. CASE CrashInRecovery
  BY <1>1, <1>11, RequeueFacts DEF CrashInRecovery, kernelVars, graphVars
<1>12. CASE UNCHANGED vars
  BY <1>12 DEF vars, kernelVars, graphVars, disk
<1> QED BY <1>3, <1>4, <1>5, <1>6, <1>7, <1>8, <1>9, <1>10, <1>11, <1>12 DEF Next, Execute

(* What the store has as SUCCESS stays so and is not run again.            *)
THEOREM SuccessIsForever == Spec => SuccessIsDurable
<1>1. IndInv /\ IndInv' /\ [Next]_vars =>
        [\A t \in Tasks : rows[t].state = "SUCCESS" => rows'[t].state = "SUCCESS" /\ status'[t] # "RUNNING"]_vars
  <2> SUFFICES ASSUME IndInv, IndInv', [Next]_vars, NEW t \in Tasks, rows[t].state = "SUCCESS"
               PROVE  rows'[t].state = "SUCCESS" /\ status'[t] # "RUNNING"
    OBVIOUS
  <2>1. rows'[t].state = "SUCCESS"
    BY RowsOfEnded DEF Ended
  <2>2. CASE t \in nodes'
    BY <2>1, <2>2 DEF IndInv, RowsAgree, Ended
  <2>3. CASE t \notin nodes'
    BY <2>1, <2>3 DEF IndInv, QueuesHold
  <2> QED BY <2>2, <2>3
<1> QED BY <1>1, Invariance, PTL DEF Spec, SuccessIsDurable

(* Nothing but a start of the daemon enqueues a task that has a row.       *)
THEOREM EachIsCreatedOnce == Spec => CreatedOnce
<1>1. IndInv /\ [Next]_vars => [\A t \in nodes' \ nodes : up => rows[t] = Absent]_vars
  BY RowsOfEnded
<1> QED BY <1>1, Invariance, PTL DEF Spec, CreatedOnce
-----------------------------------------------------------------------------
(* The commit holds the patches of the code tasks that have succeeded,     *)
(* except one whose handler has not got to them yet; and a tester at work  *)
(* has those it depends on before it.                                      *)
Done(S) == {t \in S : Role[t] \in Code /\ status[t] = "SUCCESS"}
CommitFollows ==
    ~refused =>
        /\ commit = PatchesOf({t \in Done(nodes) : exec[t] # "handling"})
        /\ \A t \in Tasks : exec[t] = "working" /\ Role[t] = "tester" =>
               PatchesOf(Done(declared[t] \intersect nodes)) \subseteq seen[t]


(* The patches of a set of tasks, and of the tasks whose patches are due   *)
(* in the commit.                                                          *)
PatchSet(S, p) == UNION {{<<t, n>> : n \in p[t]} : t \in S}
Due == {t \in Done(nodes) : exec[t] # "handling"}

(* What a patch set holds.                                                 *)
LEMMA PatchSetHolds ==
    ASSUME NEW S, NEW p, NEW w
    PROVE  w \in PatchSet(S, p) <=> \E t \in S : \E n \in p[t] : w = <<t, n>>
BY SMT DEF PatchSet

(* It depends on the patches of S only.                                    *)
LEMMA PatchSetSame ==
    ASSUME NEW S, NEW p, NEW q, \A t \in S : p[t] = q[t]
    PROVE  PatchSet(S, p) = PatchSet(S, q)
<1>1. \A w : w \in PatchSet(S, p) <=> w \in PatchSet(S, q)
  BY PatchSetHolds, SMT
<1> QED BY <1>1

(* CommitFollows in these terms.                                           *)
LEMMA CommitFollowsIs ==
    /\ CommitFollows <=>
         (~refused =>
            /\ commit = PatchSet(Due, patches)
            /\ \A t \in Tasks : exec[t] = "working" /\ Role[t] = "tester" =>
                   PatchSet(Done(declared[t] \intersect nodes), patches) \subseteq seen[t])
    /\ Found = PatchSet(Done(nodes), patches)
<1>1. \A S : PatchesOf(S) = PatchSet(S, patches)
  BY DEF PatchesOf, PatchSet
<1>2. {t \in CodeTasks : status[t] = "SUCCESS"} = Done(nodes)
  BY DEF CodeTasks, Done
<1> QED BY <1>1, <1>2 DEF CommitFollows, Due, Found

(* A step that leaves the commit alone, ends no code task for good and     *)
(* opens no tester's worktree.                                             *)
LEMMA CommitStays ==
    ASSUME CommitFollows, UNCHANGED <<commit, refused>>, Due' = Due,
           \A x \in Due : patches'[x] = patches[x],
           \A t \in Tasks : exec'[t] = "working" /\ Role[t] = "tester" =>
               /\ exec[t] = "working" /\ seen'[t] = seen[t]
               /\ Done(declared[t] \intersect nodes)' = Done(declared[t] \intersect nodes)
               /\ \A x \in Done(declared[t] \intersect nodes) : patches'[x] = patches[x]
    PROVE  CommitFollows'
<1>1. CommitFollows' <=>
         (~refused' =>
            /\ commit' = PatchSet(Due', patches')
            /\ \A t \in Tasks : exec'[t] = "working" /\ Role[t] = "tester" =>
                   PatchSet(Done(declared[t] \intersect nodes)', patches') \subseteq seen'[t])
  <2>1. \A S : PatchSet(S, patches') = UNION {{<<t, n>> : n \in patches'[t]} : t \in S}
    BY DEF PatchSet
  <2> QED BY <2>1, ZenonT(60) DEF CommitFollows, PatchesOf, Due
<1>2. PatchSet(Due, patches') = PatchSet(Due, patches)
  BY PatchSetSame
<1>3. \A t \in Tasks : exec'[t] = "working" /\ Role[t] = "tester" =>
          PatchSet(Done(declared[t] \intersect nodes), patches') = PatchSet(Done(declared[t] \intersect nodes), patches)
  <2> SUFFICES ASSUME NEW t \in Tasks, exec'[t] = "working", Role[t] = "tester"
               PROVE  PatchSet(Done(declared[t] \intersect nodes), patches')
                          = PatchSet(Done(declared[t] \intersect nodes), patches)
    OBVIOUS
  <2>1. \A x \in Done(declared[t] \intersect nodes) : patches'[x] = patches[x]
    OBVIOUS
  <2> QED BY <2>1, PatchSetSame
<1> QED BY <1>1, <1>2, <1>3, CommitFollowsIs

(* What a tester at work depends on has ended, so no step changes which of *)
(* it has succeeded.                                                       *)
LEMMA TesterDepsStay ==
    ASSUME IndInv, IndInv', [Next]_vars, up, nodes \subseteq nodes',
           NEW t \in Tasks, exec[t] = "working", declared'[t] = declared[t]
    PROVE  Done(declared[t] \intersect nodes)' = Done(declared[t] \intersect nodes)
<1>1. t \in nodes /\ deps[t] = {} /\ declared[t] \subseteq Tasks
  BY DEF IndInv, QueuesHold, Typed
<1>2. \A d \in declared[t] : rows[d].state \in Ended /\ rows'[d].state = rows[d].state
  <2>1. \A d \in declared[t] : d \in Tasks /\ rows[d].state \in Ended
    BY <1>1 DEF IndInv, DepsSettled, Settled, Ended
  <2> QED BY <2>1, RowsOfEnded
<1>3. \A d \in declared[t] : d \in nodes' <=> d \in nodes
  <2>1. Absent.state \notin Ended
    BY DEF Absent, Ended
  <2> QED BY <2>1, <1>2, RowsOfEnded
<1>4. \A d \in declared[t] : d \in nodes => status[d] = rows[d].state /\ status'[d] = rows'[d].state
  BY <1>2, <1>3 DEF IndInv, RowsAgree
<1> QED BY <1>2, <1>3, <1>4 DEF Done

(* Nearly every step leaves the commit alone for these reasons.            *)
LEMMA MostStepsKeepCommit ==
    ASSUME IndInv, IndInv', CommitFollows, [Next]_vars, up, nodes \subseteq nodes',
           UNCHANGED <<commit, refused>>,
           \A x \in Tasks :
               (x \in nodes' /\ status'[x] = "SUCCESS" /\ Role[x] \in Code /\ exec'[x] # "handling")
                   <=> (x \in nodes /\ status[x] = "SUCCESS" /\ Role[x] \in Code /\ exec[x] # "handling"),
           \A x \in Tasks : status[x] = "SUCCESS" => patches'[x] = patches[x],
           \A t \in Tasks : exec'[t] = "working" =>
               exec[t] = "working" /\ seen'[t] = seen[t] /\ declared'[t] = declared[t]
    PROVE  CommitFollows'
<1>1. nodes \subseteq Tasks /\ nodes' \subseteq Tasks
  BY DEF IndInv, Typed
<1>2. Due' = Due
  BY <1>1 DEF Due, Done
<1>3. \A x \in Due : patches'[x] = patches[x]
  BY <1>1 DEF Due, Done
<1>4. \A t \in Tasks : exec'[t] = "working" /\ Role[t] = "tester" =>
          /\ exec[t] = "working" /\ seen'[t] = seen[t]
          /\ Done(declared[t] \intersect nodes)' = Done(declared[t] \intersect nodes)
          /\ \A x \in Done(declared[t] \intersect nodes) : patches'[x] = patches[x]
  <2> SUFFICES ASSUME NEW t \in Tasks, exec'[t] = "working", Role[t] = "tester"
               PROVE  /\ exec[t] = "working" /\ seen'[t] = seen[t]
                      /\ Done(declared[t] \intersect nodes)' = Done(declared[t] \intersect nodes)
                      /\ \A x \in Done(declared[t] \intersect nodes) : patches'[x] = patches[x]
    OBVIOUS
  <2>1. exec[t] = "working" /\ seen'[t] = seen[t] /\ declared'[t] = declared[t]
    OBVIOUS
  <2>2. Done(declared[t] \intersect nodes)' = Done(declared[t] \intersect nodes)
    BY <2>1, TesterDepsStay
  <2>3. \A x \in Done(declared[t] \intersect nodes) : patches'[x] = patches[x]
    BY <1>1 DEF Done
  <2> QED BY <2>1, <2>2, <2>3
<1> QED BY <1>2, <1>3, <1>4, CommitStays

-----------------------------------------------------------------------------
(* A new task has not succeeded and no tester that works is new.           *)
LEMMA EnqueueKeepsCommit ==
    ASSUME IndInv, IndInv', CommitFollows, [Next]_vars, up,
           NEW y \in Tasks, y \notin nodes, NEW D \in SUBSET Tasks, Enqueue(y, D),
           UNCHANGED <<commit, refused, exec, seen, patches>>
    PROVE  CommitFollows'
<1>1. /\ nodes' = nodes \union {y} /\ declared' = [declared EXCEPT ![y] = D]
      /\ \A x \in Tasks : x # y => status'[x] = status[x]
      /\ status'[y] # "SUCCESS"
  BY DEF Enqueue, IndInv, Typed
<1>2. \A t \in Tasks : exec'[t] = "working" => t # y /\ declared'[t] = declared[t]
  BY <1>1, SMTT(30) DEF IndInv, QueuesHold, Typed
<1> QED BY <1>1, <1>2, MostStepsKeepCommit

(* The steps of an attempt that open no worktree.                          *)
LEMMA AttemptKeepsCommit ==
    ASSUME IndInv, IndInv', CommitFollows, [Next]_vars, NEW t \in Tasks,
           Begin(t) \/ TakeLease(t) \/ AttemptFails(t) \/ RecordPatch(t)
    PROVE  CommitFollows'
<1>1. /\ up /\ exec[t] \in Executing /\ UNCHANGED <<commit, refused, status, nodes, declared, seen>>
      /\ (patches' = patches \/ patches' = WithPatch(t))
      /\ exec' = [exec EXCEPT ![t] = exec'[t]] /\ exec'[t] \in Executing \ {"working"}
  BY DEF Begin, TakeLease, AttemptFails, RecordPatch, Free, KeepPartialPatch, kernelVars, graphVars,
         Executing, IndInv, Typed
<1>2. status[t] = "RUNNING" /\ \A x \in Tasks : x # t => exec'[x] = exec[x] /\ patches'[x] = patches[x]
  BY <1>1, SMTT(30) DEF IndInv, QueuesHold, Typed, WithPatch
<1>3. /\ nodes \subseteq nodes'
      /\ \A x \in Tasks :
               (x \in nodes' /\ status'[x] = "SUCCESS" /\ Role[x] \in Code /\ exec'[x] # "handling")
                   <=> (x \in nodes /\ status[x] = "SUCCESS" /\ Role[x] \in Code /\ exec[x] # "handling")
      /\ \A x \in Tasks : status[x] = "SUCCESS" => patches'[x] = patches[x]
      /\ \A x \in Tasks : exec'[x] = "working" =>
               exec[x] = "working" /\ seen'[x] = seen[x] /\ declared'[x] = declared[x]
  BY <1>1, <1>2
<1> QED BY <1>1, <1>3, MostStepsKeepCommit

(* An execution that ends hands its task to its handler first.             *)
LEMMA OutcomeKeepsCommit ==
    ASSUME IndInv, IndInv', CommitFollows, [Next]_vars, NEW t \in Tasks,
           Succeed(t) \/ Fail(t)
    PROVE  CommitFollows'
<1>1. Typed /\ QueuesHold
  BY DEF IndInv
<1>2. /\ up /\ exec[t] \in Executing /\ UNCHANGED <<commit, refused, seen>>
      /\ (patches' = patches \/ patches' = WithPatch(t))
      /\ exec' = [exec EXCEPT ![t] = "handling"]
  BY DEF Succeed, Fail, Free, KeepPartialPatch, Executing
<1>3. PICK own \in Ended, closed, released, freed \in SUBSET Tasks : EndsWith(t, own, closed, released, freed)
  <2>1. CASE Succeed(t)
    BY <2>1, <1>1, CompleteEffect DEF Succeed, Ended
  <2>2. CASE Fail(t)
    BY <2>2, <1>1, FailEffect DEF Fail, Ended
  <2> QED BY <2>1, <2>2
<1>4. UNCHANGED <<nodes, declared>>
  BY <1>3 DEF EndsWith
<1>5. \A x \in Tasks : x # t => (status'[x] = "SUCCESS" <=> status[x] = "SUCCESS")
  <2>1. \A x \in freed : status[x] # "SUCCESS"
    BY <1>1, <1>3 DEF EndsWith, QueuesHold
  <2> QED BY <1>3, <2>1 DEF EndsWith
<1>6. status[t] = "RUNNING" /\ exec'[t] = "handling"
      /\ \A x \in Tasks : x # t => exec'[x] = exec[x] /\ patches'[x] = patches[x]
  BY <1>1, <1>2 DEF QueuesHold, Typed, WithPatch
<1>7. /\ nodes \subseteq nodes'
      /\ \A x \in Tasks :
               (x \in nodes' /\ status'[x] = "SUCCESS" /\ Role[x] \in Code /\ exec'[x] # "handling")
                   <=> (x \in nodes /\ status[x] = "SUCCESS" /\ Role[x] \in Code /\ exec[x] # "handling")
      /\ \A x \in Tasks : status[x] = "SUCCESS" => patches'[x] = patches[x]
      /\ \A x \in Tasks : exec'[x] = "working" =>
               exec[x] = "working" /\ seen'[x] = seen[x] /\ declared'[x] = declared[x]
  BY <1>2, <1>4, <1>5, <1>6
<1> QED BY <1>2, <1>7, MostStepsKeepCommit

(* A turn of the scheduling loop starts ready tasks or blocks them.        *)
LEMMA DispatchKeepsCommit ==
    ASSUME IndInv, IndInv', CommitFollows, [Next]_vars, Dispatch
    PROVE  CommitFollows'
<1>1. Typed /\ QueuesHold
  BY DEF IndInv
<1>2. PICK batch \in SUBSET Tasks :
        /\ DispatchReady(Staffed, batch)
        /\ exec' = [t \in Tasks |-> IF t \in batch THEN "queued" ELSE exec[t]]
  BY DEF Dispatch
<1>3. up /\ ready # {} /\ UNCHANGED <<commit, refused, seen, patches>>
  BY DEF Dispatch, Free
<1>4. /\ batch \subseteq ready /\ UNCHANGED <<declared, nodes>>
      /\ status' = [t \in Tasks |-> IF t \in batch THEN "RUNNING"
                                    ELSE IF t \in ready \ Staffed THEN "BLOCKED" ELSE status[t]]
  BY <1>1, <1>2, <1>3, DispatchEffect
<1>5. \A x \in ready : status[x] # "SUCCESS"
  BY <1>1 DEF QueuesHold
<1>6. /\ nodes \subseteq nodes'
      /\ \A x \in Tasks :
               (x \in nodes' /\ status'[x] = "SUCCESS" /\ Role[x] \in Code /\ exec'[x] # "handling")
                   <=> (x \in nodes /\ status[x] = "SUCCESS" /\ Role[x] \in Code /\ exec[x] # "handling")
      /\ \A x \in Tasks : status[x] = "SUCCESS" => patches'[x] = patches[x]
      /\ \A x \in Tasks : exec'[x] = "working" =>
               exec[x] = "working" /\ seen'[x] = seen[x] /\ declared'[x] = declared[x]
  BY <1>2, <1>3, <1>4, <1>5
<1> QED BY <1>3, <1>6, MostStepsKeepCommit

(* The finally block ends what its handler has dealt with.                 *)
LEMMA EndExecutionKeepsCommit ==
    ASSUME IndInv, IndInv', CommitFollows, [Next]_vars, DOMAIN seen = Tasks,
           NEW t \in Tasks, EndExecution(t)
    PROVE  CommitFollows'
<1>1. /\ up /\ exec[t] = "creating" /\ exec' = [exec EXCEPT ![t] = "none"]
      /\ seen' = [seen EXCEPT ![t] = {}]
      /\ UNCHANGED <<commit, refused, status, nodes, declared, patches>>
  BY DEF EndExecution, kernelVars, graphVars
<1>2. exec'[t] = "none" /\ \A x \in Tasks : x # t => exec'[x] = exec[x] /\ seen'[x] = seen[x]
  BY <1>1 DEF IndInv, Typed
<1>3. /\ nodes \subseteq nodes'
      /\ \A x \in Tasks :
               (x \in nodes' /\ status'[x] = "SUCCESS" /\ Role[x] \in Code /\ exec'[x] # "handling")
                   <=> (x \in nodes /\ status[x] = "SUCCESS" /\ Role[x] \in Code /\ exec[x] # "handling")
      /\ \A x \in Tasks : status[x] = "SUCCESS" => patches'[x] = patches[x]
      /\ \A x \in Tasks : exec'[x] = "working" =>
               exec[x] = "working" /\ seen'[x] = seen[x] /\ declared'[x] = declared[x]
  BY <1>1, <1>2
<1> QED BY <1>1, <1>3, MostStepsKeepCommit

(* The worktree a tester gets is made from a commit that holds all there   *)
(* is: no handler is under way when it is opened.                          *)
LEMMA OpenKeepsCommit ==
    ASSUME IndInv, CommitFollows, DOMAIN seen = Tasks, NEW t \in Tasks, OpenWorkspace(t)
    PROVE  CommitFollows'
<1> SUFFICES ASSUME ~refused
             PROVE  /\ commit' = PatchSet(Due', patches')
                    /\ \A u \in Tasks : exec'[u] = "working" /\ Role[u] = "tester" =>
                         PatchSet(Done(declared[u] \intersect nodes)', patches') \subseteq seen'[u]
  <2>1. refused' = refused
    BY DEF OpenWorkspace
  <2>2. \A S : PatchSet(S, patches') = UNION {{<<x, n>> : n \in patches'[x]} : x \in S}
    BY DEF PatchSet
  <2> QED BY <2>1, <2>2 DEF CommitFollows, PatchesOf, Due
<1>1. /\ up /\ turn = Nobody /\ exec[t] = "leased" /\ exec' = [exec EXCEPT ![t] = "working"]
      /\ seen' = [seen EXCEPT ![t] = BaseOf(t)]
      /\ UNCHANGED <<commit, status, nodes, declared, patches>>
  BY DEF OpenWorkspace, Free, kernelVars, graphVars
<1>2. \A x \in Tasks : exec[x] # "handling" /\ exec'[x] # "handling"
  BY <1>1, WorkflowIsTyped DEF IndInv, TurnHeld, InTurn, Typed
<1>3. Due = Done(nodes) /\ Due' = Done(nodes)
  BY <1>1, <1>2 DEF Due, Done, IndInv, Typed
<1>4. commit = PatchSet(Done(nodes), patches)
  BY <1>3, CommitFollowsIs
<1>5. \A u \in Tasks : PatchSet(Done(declared[u] \intersect nodes), patches) \subseteq commit
  BY <1>4, SMT DEF PatchSet, Done
<1>6. \A u \in Tasks : Done(declared[u] \intersect nodes)' = Done(declared[u] \intersect nodes)
  BY <1>1 DEF Done
<1>7. ASSUME NEW u \in Tasks, exec'[u] = "working", Role[u] = "tester"
      PROVE  PatchSet(Done(declared[u] \intersect nodes), patches) \subseteq seen'[u]
  <2>1. CASE u = t
    <3>1. commit \subseteq BaseOf(t)
      BY <1>7, <2>1 DEF BaseOf
    <3> QED BY <3>1, <2>1, <1>1, <1>5
  <2>2. CASE u # t
    <3>1. exec[u] = "working" /\ seen'[u] = seen[u]
      BY <2>2, <1>7, <1>1 DEF IndInv, Typed
    <3> QED BY <3>1, <1>7, CommitFollowsIs
  <2> QED BY <2>1, <2>2
<1> QED BY <1>1, <1>3, <1>4, <1>6, <1>7

(* The handler of a code task that has succeeded brings the commit up to   *)
(* date, or gives an integration up.                                       *)
LEMMA IntegrateKeepsCommit ==
    ASSUME IndInv, IndInv', CommitFollows, [Next]_vars, NEW t \in Tasks, Handle(t),
           status[t] = "SUCCESS", t # Root, Role[t] \in Code
    PROVE  CommitFollows'
<1>1. /\ up /\ exec[t] = "handling" /\ IntegrateRootPatches /\ exec' = [exec EXCEPT ![t] = "creating"]
      /\ UNCHANGED <<status, nodes, declared, patches, seen, turn>>
  BY DEF Handle, kernelVars, graphVars
<1> SUFFICES ASSUME ~refused'
             PROVE  /\ commit' = PatchSet(Due', patches')
                    /\ \A u \in Tasks : exec'[u] = "working" /\ Role[u] = "tester" =>
                         PatchSet(Done(declared[u] \intersect nodes)', patches') \subseteq seen'[u]
  <2>1. \A S : PatchSet(S, patches') = UNION {{<<x, n>> : n \in patches'[x]} : x \in S}
    BY DEF PatchSet
  <2> QED BY <2>1 DEF CommitFollows, PatchesOf, Due
<1>2. ~refused
  BY <1>1 DEF IntegrateRootPatches
<1>3. \A x \in Tasks : exec'[x] # "handling"
  <2>1. \A x \in Tasks : exec[x] = "handling" => x = t
    BY <1>1 DEF IndInv, TurnHeld, InTurn
  <2> QED BY <2>1, <1>1 DEF IndInv, Typed
<1>4. Due' = Done(nodes)
  BY <1>1, <1>3 DEF Due, Done, IndInv, Typed
<1>5. commit = PatchSet(Due, patches) /\ Found = PatchSet(Done(nodes), patches)
  BY <1>2, CommitFollowsIs
<1>6. commit \subseteq Found
  BY <1>5, SMT DEF PatchSet, Due
<1>7. commit' = Found
  BY <1>1, <1>2, <1>6 DEF IntegrateRootPatches, Integrated
<1>8. \A u \in Tasks : Done(declared[u] \intersect nodes)' = Done(declared[u] \intersect nodes)
  BY <1>1 DEF Done
<1>9. \A u \in Tasks : exec'[u] = "working" => exec[u] = "working"
  BY <1>1 DEF IndInv, Typed
<1> QED BY <1>1, <1>2, <1>4, <1>5, <1>7, <1>8, <1>9, CommitFollowsIs

(* The other handlers leave the commit to it.                              *)
LEMMA HandleKeepsCommit ==
    ASSUME IndInv, IndInv', CommitFollows, [Next]_vars, NEW t \in Tasks, Handle(t)
    PROVE  CommitFollows'
<1>1. CASE status[t] = "SUCCESS" /\ t # Root /\ Role[t] \in Code
  BY <1>1, IntegrateKeepsCommit
<1>2. CASE ~(status[t] = "SUCCESS" /\ Role[t] \in Code)
  <2>1. /\ up /\ exec[t] = "handling" /\ exec' = [exec EXCEPT ![t] = "creating"]
        /\ UNCHANGED <<status, nodes, declared, patches, seen>>
    BY DEF Handle, kernelVars, graphVars
  <2>2. UNCHANGED <<commit, refused>>
    <3>1. CASE status[t] = "SUCCESS" /\ t = Root
      BY <3>1 DEF Handle, MaterializePlanner
    <3>2. CASE status[t] = "SUCCESS" /\ t # Root
      BY <3>2, <1>2 DEF Handle
    <3>3. CASE status[t] # "SUCCESS"
      BY <3>3 DEF Handle, CreateRepair
    <3> QED BY <3>1, <3>2, <3>3
  <2>3. exec'[t] = "creating" /\ \A x \in Tasks : x # t => exec'[x] = exec[x]
    BY <2>1 DEF IndInv, Typed
  <2>4. /\ nodes \subseteq nodes'
        /\ \A x \in Tasks :
               (x \in nodes' /\ status'[x] = "SUCCESS" /\ Role[x] \in Code /\ exec'[x] # "handling")
                   <=> (x \in nodes /\ status[x] = "SUCCESS" /\ Role[x] \in Code /\ exec[x] # "handling")
        /\ \A x \in Tasks : status[x] = "SUCCESS" => patches'[x] = patches[x]
        /\ \A x \in Tasks : exec'[x] = "working" =>
               exec[x] = "working" /\ seen'[x] = seen[x] /\ declared'[x] = declared[x]
    BY <2>1, <2>3, <1>2
  <2> QED BY <2>1, <2>2, <2>4, MostStepsKeepCommit
<1>3. t = Root => Role[t] \notin Code
  BY WorkflowIsTyped DEF Code
<1> QED BY <1>1, <1>2, <1>3

(* A daemon that has died has neither commit nor tasks, and one that has   *)
(* just started has none that has succeeded or works.                      *)
LEMMA CrashKeepsCommit ==
    ASSUME IndInv, CommitFollows, Crash \/ Restart \/ CrashInRecovery
    PROVE  CommitFollows'
<1>1. ASSUME commit' = {}, Done(nodes)' = {}, \A t \in Tasks : exec'[t] = "none"
      PROVE  CommitFollows'
  BY <1>1 DEF CommitFollows, PatchesOf
<1>2. CASE Crash
  <2>1. commit' = {} /\ nodes' = {} /\ exec' = [t \in Tasks |-> "none"]
    BY <1>2 DEF Crash, Forget
  <2>2. Done(nodes)' = {}
    BY <2>1 DEF Done
  <2> QED BY <2>1, <2>2, <1>1
<1>3. CASE Restart \/ CrashInRecovery
  <2>1. ~up /\ commit' = commit /\ exec' = exec
    BY <1>3 DEF Restart, CrashInRecovery, memory
  <2>2. commit = {} /\ nodes = {} /\ \A t \in Tasks : exec[t] = "none"
    BY <2>1 DEF IndInv, TurnHeld
  <2>3. Done(nodes)' = {}
    <3>1. CASE Restart
      <4>1. nodes' \subseteq Tasks /\ \A t \in Tasks : status'[t] # "SUCCESS"
        BY <3>1 DEF Restart, Recovered
      <4> QED BY <4>1 DEF Done
    <3>2. CASE CrashInRecovery
      BY <3>2, <2>2 DEF CrashInRecovery, kernelVars, graphVars, Done
    <3> QED BY <3>1, <3>2, <1>3
  <2> QED BY <2>1, <2>2, <2>3, <1>1
<1> QED BY <1>2, <1>3

(* The worktrees are known by task.                                        *)
SeenByTask == DOMAIN seen = Tasks

(* No step loses one.                                                      *)
LEMMA SeenOfEveryTask ==
    ASSUME SeenByTask, [Next]_vars
    PROVE  SeenByTask'
<1> USE DEF SeenByTask
<1>1. ASSUME NEW t \in Tasks, Execute(t)
      PROVE  SeenByTask'
  BY <1>1 DEF Execute, Begin, TakeLease, OpenWorkspace, AttemptFails, RecordPatch, Succeed, Fail, Handle,
             CreateNext, EndExecution
<1>2. CASE Submit \/ Dispatch \/ Crash \/ Restart \/ CrashInRecovery
  BY <1>2 DEF Submit, Dispatch, Crash, Forget, Empty, Restart, CrashInRecovery, memory
<1>3. CASE UNCHANGED vars
  BY <1>3 DEF vars, memory
<1> QED BY <1>1, <1>2, <1>3 DEF Next

(* One case per action of Next.                                            *)
LEMMA NextKeepsCommit ==
    ASSUME IndInv, IndInv', CommitFollows, SeenByTask, [Next]_vars
    PROVE  CommitFollows'
<1>1. CASE Submit
  <2>1. Root \in Tasks /\ up /\ Root \notin nodes /\ Enqueue(Root, {})
        /\ UNCHANGED <<commit, refused, exec, seen, patches>>
    BY <1>1, WorkflowIsTyped DEF Submit, Free, memory
  <2>2. {} \in SUBSET Tasks
    OBVIOUS
  <2> QED BY <2>1, <2>2, EnqueueKeepsCommit
<1>2. ASSUME NEW t \in Tasks, CreateNext(t)
      PROVE  CommitFollows'
  <2>1. up /\ todo # <<>> /\ Enqueue(Head(todo)[1], Head(todo)[2])
        /\ UNCHANGED <<commit, refused, exec, seen, patches>>
    BY <1>2 DEF CreateNext
  <2>2. todo \in Seq(Tasks \X SUBSET Tasks) /\ TodoFresh
    BY DEF IndInv, Typed, IdsUnused
  <2>3. 1 \in 1..Len(todo) /\ Head(todo) = todo[1] /\ todo[1] \in Tasks \X SUBSET Tasks
    BY <2>1, <2>2, SMT
  <2>4. PICK y \in Tasks, D \in SUBSET Tasks : y = Head(todo)[1] /\ D = Head(todo)[2]
    BY <2>3
  <2>5. y \notin nodes
    BY <2>2, <2>3, <2>4, SMTT(30) DEF TodoFresh, IndInv, RowsAgree
  <2> QED BY <2>1, <2>4, <2>5, EnqueueKeepsCommit
<1>3. ASSUME NEW t \in Tasks, Execute(t)
      PROVE  CommitFollows'
  BY <1>2, <1>3, AttemptKeepsCommit, OpenKeepsCommit, OutcomeKeepsCommit, HandleKeepsCommit,
     EndExecutionKeepsCommit DEF Execute, SeenByTask
<1>4. CASE UNCHANGED vars
  BY <1>4, SMTT(30) DEF vars, kernelVars, graphVars, memory, CommitFollows, PatchesOf, Done
<1> QED BY <1>1, <1>3, <1>4, DispatchKeepsCommit, CrashKeepsCommit DEF Next

(* CommitFollows holds in every reachable state.                           *)
THEOREM CommitInvariance == Spec => []CommitFollows
<1>1. Init => SeenByTask
  BY DEF Init, MemoryInit, SeenByTask
<1>2. Init => CommitFollows
  <2> SUFFICES ASSUME Init PROVE CommitFollows
    OBVIOUS
  <2>1. commit = {} /\ nodes = {} /\ exec = [t \in Tasks |-> "none"]
    BY DEF Init, KernelInit, MemoryInit
  <2> QED BY <2>1 DEF CommitFollows, PatchesOf, Done
<1>3. Spec => []SeenByTask
  BY <1>1, SeenOfEveryTask, PTL DEF Spec
<1> QED BY <1>2, <1>3, Invariance, NextKeepsCommit, PTL DEF Spec

(* Between two turns of the event loop the integration commit holds the    *)
(* patches of all the code tasks that have succeeded, unless               *)
(* _integrate_root_patches gave one up.                                    *)
THEOREM CommitAlwaysComplete == Spec => []CommitIsComplete
<1>1. IndInv /\ CommitFollows => CommitIsComplete
  <2> SUFFICES ASSUME IndInv, CommitFollows, turn = Nobody, ~refused
               PROVE  commit = Found
    BY DEF CommitIsComplete, Found
  <2>1. \A t \in Tasks : exec[t] # "handling"
    BY WorkflowIsTyped DEF IndInv, TurnHeld, InTurn
  <2>2. Due = Done(nodes)
    BY <2>1 DEF Due, Done, IndInv, Typed
  <2> QED BY <2>2, CommitFollowsIs
<1> QED BY <1>1, Invariance, CommitInvariance, PTL

(* A tester works on the results of the code tasks it depends on.  The     *)
(* proof does not use that the daemon has not died: what had succeeded     *)
(* before is not known to the new scheduler, and a tester that depends on  *)
(* it waits.                                                               *)
THEOREM TestersAlwaysSeeWork == Spec => []TestersSeeWork
<1>1. CommitFollows => TestersSeeWork
  <2>1. \A t \in Tasks : {d \in declared[t] \intersect CodeTasks : status[d] = "SUCCESS"}
                            = Done(declared[t] \intersect nodes)
    BY DEF CodeTasks, Done
  <2> QED BY <2>1 DEF CommitFollows, TestersSeeWork
<1> QED BY <1>1, CommitInvariance, PTL
=============================================================================
