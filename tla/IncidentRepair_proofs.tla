----------------------- MODULE IncidentRepair_proofs -----------------------
(***************************************************************************)
(* Proofs about IncidentRepair, for any plans, rounds, crashes and tasks:  *)
(* a run that reports SUCCESS was tested and approved on its final commit, *)
(* coders build on what they depend on, and a bad verdict is final.  The   *)
(* inductive invariant says what holds at each node of a graph that has    *)
(* not failed, and how the runner's copy of the state follows the graph's. *)
(* The executions of codex that the coders and the reviewer stand for come *)
(* first: an answer is of the try that returns it, a success was earned,   *)
(* and the tries take turns.                                               *)
(***************************************************************************)
EXTENDS IncidentRepair, CodexExecution, TLAPS, NaturalsInduction, WellFoundedInduction

-----------------------------------------------------------------------------
(* An execution of codex: every variable has its type.                     *)
AllAnswers == [by : 0..Retries, valid : BOOLEAN]
TryStatuses == {"NONE", "SUCCESS", "FAILED", "TIMEOUT"}
Places == ExecOver \union {"new", "prepared", "spawning", "announcing", "waiting", "term",
                          "kill", "draining", "drainingLate", "backoff"}
Typed ==
    /\ host \in {"worker", "direct"} /\ role \in {"coder", "reviewer"} /\ confined \in BOOLEAN
    /\ pc \in Places /\ tries \in 0..Retries
    /\ leader \in [Tries -> Gone \union {"none", "alive"}] /\ child \in [Tries -> BOOLEAN]
    /\ transient \in BOOLEAN
    /\ final \in AllAnswers
    /\ result \in [status : TryStatuses, output : AllAnswers]

(* A try is counted when execute begins it, and there is one left when it  *)
(* backs off to begin another.                                             *)
TriesCounted ==
    /\ pc \in {"new", "prepared"} => tries = 0
    /\ pc \notin ExecOver \union {"new", "prepared"} => tries > 0
    /\ pc = "backoff" => tries < Retries

(* Codex of a try to come has not been started, that of an earlier one is  *)
(* gone, and that of this one is gone where execute has awaited it.        *)
LeadersInTurn ==
    /\ \A i \in Tries : i > tries => leader[i] = "none"
    /\ \A i \in Tries : i < tries => /\ leader[i] # "alive"
                                     /\ host = "worker" => leader[i] # "exit0"
    /\ pc = "spawning" => leader[tries] = "none"
    /\ pc \in {"announcing", "waiting", "term"} => leader[tries] # "none"
    /\ pc \in {"kill", "draining", "drainingLate", "backoff", "returned"} =>
           tries > 0 /\ leader[tries] \in Gone
    /\ pc = "backoff" /\ host = "worker" => leader[tries] # "exit0"

(* final.json is of this try or not there, and so is what is returned.     *)
Current == {NoFile} \union Answers(tries)
AnswersCurrent ==
    /\ tries = 0 => final = NoFile
    /\ final \in Current
    /\ pc = "returned" => result.output \in Current
    /\ pc = "returned" /\ result.status = "SUCCESS" =>
           \/ leader[tries] = "exit0"
           \/ host = "direct" /\ role = "reviewer" /\ result.output \in Answers(tries)

CodexInv == Typed /\ TriesCounted /\ LeadersInTurn /\ AnswersCurrent

(* What a try can come to is of this try, and is SUCCESS only after exit 0. *)
LEMMA ResultsFacts ==
    ASSUME Typed, AnswersCurrent, tries > 0, NEW late \in BOOLEAN, NEW r \in TryResults(late)
    PROVE  /\ r \in [status : TryStatuses \ {"NONE"}, output : AllAnswers]
           /\ r.output \in Current
           /\ r.status = "SUCCESS" => leader[tries] = "exit0"
           /\ r.status = "FAILED" => leader[tries] # "exit0"
<1>1. PICK o \in Outputs(late) : r = [status |-> StatusOf(late), output |-> o]
  BY DEF TryResults
<1>2. final \in AllAnswers /\ tries \in 0..Retries /\ host \in {"worker", "direct"} /\ final \in Current
  BY DEF Typed, AnswersCurrent
<1>3. NoFile \in AllAnswers /\ \A a \in Answers(tries) : a \in AllAnswers
  BY <1>2, CodexIsTyped DEF NoFile, AllAnswers, Answers
<1>4. Outputs(late) \subseteq Current
  BY <1>2 DEF Outputs, Current
<1>5. o \in Current /\ o \in AllAnswers
  BY <1>1, <1>2, <1>3, <1>4 DEF Current
<1>6. /\ StatusOf(late) \in TryStatuses \ {"NONE"}
      /\ StatusOf(late) = "SUCCESS" => leader[tries] = "exit0"
      /\ StatusOf(late) = "FAILED" => leader[tries] # "exit0"
  BY DEF StatusOf, TryStatuses
<1> QED BY <1>1, <1>5, <1>6

(* The judgement of a direct review keeps the output, and finds SUCCESS    *)
(* only in an answer of this try.                                          *)
LEMMA JudgedFacts ==
    ASSUME NEW r \in [status : TryStatuses, output : AllAnswers], r.output \in Current
    PROVE  /\ Judged(r) \in [status : TryStatuses, output : AllAnswers]
           /\ Judged(r).output = r.output
           /\ Judged(r).status = "SUCCESS" =>
                  \/ r.status = "SUCCESS"
                  \/ host = "direct" /\ role = "reviewer" /\ r.output \in Answers(tries)
BY DEF Judged, Current, NoFile, TryStatuses, AllAnswers

(* Settling a try whose codex is gone preserves the invariant.             *)
LEMMA SettleKeeps ==
    ASSUME CodexInv, tries > 0, leader[tries] \in Gone,
           NEW late \in BOOLEAN, NEW r \in TryResults(late), Settle(r)
    PROVE  CodexInv'
<1>1. /\ r \in [status : TryStatuses \ {"NONE"}, output : AllAnswers]
      /\ r.output \in Current
      /\ r.status = "SUCCESS" => leader[tries] = "exit0"
      /\ r.status = "FAILED" => leader[tries] # "exit0"
  BY ResultsFacts DEF CodexInv
<1>2. /\ Judged(r) \in [status : TryStatuses, output : AllAnswers]
      /\ Judged(r).output = r.output
      /\ Judged(r).status = "SUCCESS" =>
             \/ r.status = "SUCCESS"
             \/ host = "direct" /\ role = "reviewer" /\ r.output \in Answers(tries)
  BY <1>1, JudgedFacts
<1>3. UNCHANGED <<host, role, confined, tries, leader, child, transient, final>>
  BY DEF Settle, Fixed, procs
<1>4. Current' = Current /\ Answers(tries)' = Answers(tries)
  BY <1>3 DEF Current, Answers
<1>5. CASE Retryable(r) /\ TriesLeft
  <2>1. pc' = "backoff" /\ result' = r /\ tries < Retries
    BY <1>5 DEF Settle, TriesLeft
  <2>2. host = "worker" => leader[tries] # "exit0"
    BY <1>1, <1>5 DEF Retryable, TryStatuses, CodexInv, Typed
  <2>3. Typed'
    BY <1>1, <1>3, <2>1 DEF CodexInv, Typed, Places
  <2>4. TriesCounted' /\ LeadersInTurn'
    BY <1>3, <2>1, <2>2 DEF CodexInv, TriesCounted, LeadersInTurn, ExecOver
  <2> QED BY <1>3, <1>4, <2>1, <2>3, <2>4 DEF CodexInv, AnswersCurrent
<1>6. CASE ~(Retryable(r) /\ TriesLeft)
  <2>1. pc' = "returned" /\ result' = Judged(r)
    BY <1>6 DEF Settle
  <2>2. Typed'
    BY <1>2, <1>3, <2>1 DEF CodexInv, Typed, Places, ExecOver
  <2>3. TriesCounted' /\ LeadersInTurn'
    BY <1>3, <2>1 DEF CodexInv, TriesCounted, LeadersInTurn, ExecOver
  <2>4. AnswersCurrent'
    BY <1>1, <1>2, <1>3, <1>4, <2>1 DEF CodexInv, AnswersCurrent
  <2> QED BY <2>2, <2>3, <2>4 DEF CodexInv
<1> QED BY <1>5, <1>6

(* A step that only moves execute to another place preserves the invariant *)
(* if what holds of that place is true already.                            *)
LEMMA GoesKeeps ==
    ASSUME CodexInv, NEW to \in Places \ {"spawning", "backoff", "returned"}, Goes(to),
           to \in {"new", "prepared"} => tries = 0,
           to \notin ExecOver \union {"new", "prepared"} => tries > 0,
           to \in {"announcing", "waiting", "term"} => leader[tries] # "none",
           to \in {"kill", "draining", "drainingLate"} => leader[tries] \in Gone
    PROVE  CodexInv'
<1>1. pc' = to /\ UNCHANGED <<host, role, confined, tries, leader, child, transient, final, result>>
  BY DEF Goes, Fixed, procs
<1>2. Typed'
  BY <1>1 DEF CodexInv, Typed
<1>3. TriesCounted'
  BY <1>1 DEF CodexInv, TriesCounted
<1>4. LeadersInTurn'
  BY <1>1 DEF CodexInv, LeadersInTurn, ExecOver
<1>5. AnswersCurrent'
  BY <1>1 DEF CodexInv, AnswersCurrent, Current, Answers
<1> QED BY <1>2, <1>3, <1>4, <1>5 DEF CodexInv

(* A process that ends, or starts a command, preserves it.                 *)
LEMMA ProcessesKeep ==
    ASSUME CodexInv,
           UNCHANGED <<host, role, confined, pc, tries, final, result>>,
           transient' \in BOOLEAN, child' \in [Tries -> BOOLEAN],
           leader' \in [Tries -> Gone \union {"none", "alive"}],
           \A i \in Tries : leader[i] # "alive" => leader'[i] = leader[i],
           \A i \in Tries : leader[i] = "alive" => leader'[i] \in Gone \union {"alive"}
    PROVE  CodexInv'
<1>1. Typed'
  BY DEF CodexInv, Typed
<1>2. TriesCounted'
  BY DEF CodexInv, TriesCounted
<1>3. tries > 0 => tries \in Tries
  BY CodexIsTyped DEF CodexInv, Typed, Tries
<1>4. LeadersInTurn'
  <2>1. \A i \in Tries : i > tries => leader'[i] = "none"
    BY DEF CodexInv, LeadersInTurn
  <2>2. \A i \in Tries : i < tries => leader'[i] = leader[i]
    BY DEF CodexInv, LeadersInTurn
  <2>3. pc \in {"spawning", "announcing", "waiting", "term"} => tries > 0
    BY DEF CodexInv, TriesCounted, ExecOver
  <2>4. pc \in {"spawning", "kill", "draining", "drainingLate", "backoff", "returned"} =>
            leader'[tries] = leader[tries]
    BY <1>3, <2>3 DEF CodexInv, LeadersInTurn, Gone
  <2>5. pc \in {"announcing", "waiting", "term"} => leader'[tries] # "none"
    BY <1>3, <2>3 DEF CodexInv, LeadersInTurn, Gone
  <2> QED BY <2>1, <2>2, <2>4, <2>5 DEF CodexInv, LeadersInTurn
<1>5. AnswersCurrent'
  <2>1. pc = "returned" => leader'[tries] = leader[tries]
    BY <1>3 DEF CodexInv, LeadersInTurn, Gone
  <2> QED BY <2>1 DEF CodexInv, AnswersCurrent, Current, Answers
<1> QED BY <1>1, <1>2, <1>4, <1>5 DEF CodexInv

-----------------------------------------------------------------------------
(* Codex and its command, and the cgroup kill, change nothing the          *)
(* invariant speaks of but processes that were there.                      *)
LEMMA ProcessSteps ==
    ASSUME CodexInv, CgroupKill \/ \E i \in Tries : CodexExits(i) \/ CommandStarts(i) \/ CommandEnds(i)
    PROVE  CodexInv'
<1>1. /\ leader \in [Tries -> Gone \union {"none", "alive"}] /\ child \in [Tries -> BOOLEAN]
      /\ transient \in BOOLEAN
  BY DEF CodexInv, Typed
<1>2. CASE CgroupKill
  <2>1. PICK killed \in SUBSET Tries, stopped \in SUBSET Tries :
            /\ leader' = [i \in Tries |-> IF i \in killed /\ leader[i] = "alive" THEN "killed" ELSE leader[i]]
            /\ child' = [i \in Tries |-> i \notin stopped /\ child[i]]
    BY <1>2, Zenon DEF CgroupKill
  <2>2. child' \in [Tries -> BOOLEAN]
    BY <2>1, Zenon
  <2>3. leader' \in [Tries -> Gone \union {"none", "alive"}]
    BY <1>1, <2>1 DEF Gone
  <2>4. \A i \in Tries : /\ leader[i] # "alive" => leader'[i] = leader[i]
                         /\ leader[i] = "alive" => leader'[i] \in Gone \union {"alive"}
    BY <2>1 DEF Gone
  <2>5. UNCHANGED <<host, role, confined, pc, tries, transient, final, result>>
    BY <1>2, Zenon DEF CgroupKill, Fixed
  <2> QED BY <1>1, <2>2, <2>3, <2>4, <2>5, ProcessesKeep
<1>3. ASSUME NEW i \in Tries, CodexExits(i) PROVE CodexInv'
  BY <1>1, <1>3, ProcessesKeep DEF CodexExits, Fixed, Gone
<1>4. ASSUME NEW i \in Tries, CommandStarts(i) \/ CommandEnds(i) PROVE CodexInv'
  BY <1>1, <1>4, ProcessesKeep, Zenon DEF CommandStarts, CommandEnds, Fixed
<1> QED BY <1>2, <1>3, <1>4

(* An answer is written by the codex of the current try.                   *)
LEMMA AnswerKeeps ==
    ASSUME CodexInv, NEW i \in Tries, CodexAnswers(i)
    PROVE  CodexInv'
<1>1. /\ final' \in Answers(i) /\ leader[i] = "alive"
      /\ UNCHANGED <<host, role, confined, pc, tries, leader, child, transient, result>>
  BY DEF CodexAnswers, Fixed, procs
<1>2. i = tries /\ tries > 0
  BY <1>1, CodexIsTyped DEF CodexInv, Typed, LeadersInTurn, Tries
<1>3. final' \in AllAnswers
  BY <1>1, CodexIsTyped DEF Answers, AllAnswers, Tries
<1>4. Typed'
  BY <1>1, <1>3 DEF CodexInv, Typed
<1>5. TriesCounted' /\ LeadersInTurn'
  BY <1>1 DEF CodexInv, TriesCounted, LeadersInTurn
<1>6. AnswersCurrent'
  BY <1>1, <1>2 DEF CodexInv, AnswersCurrent, Current, Answers
<1> QED BY <1>4, <1>5, <1>6 DEF CodexInv

(* A try begins without a file, and with an unused process.                *)
LEMMA StartTryKeeps ==
    ASSUME CodexInv, StartTry
    PROVE  CodexInv'
<1>1. /\ pc \in {"prepared", "backoff"} /\ pc' = "spawning"
      /\ tries' = tries + 1 /\ final' = NoFile /\ transient' = FALSE
      /\ UNCHANGED <<host, role, confined, leader, child, result>>
  BY DEF StartTry, Unlinked, Fixed
<1>2. tries' \in 1..Retries /\ tries \in Nat
  BY <1>1, CodexIsTyped DEF CodexInv, Typed, TriesCounted
<1>3. NoFile \in AllAnswers
  BY CodexIsTyped DEF NoFile, AllAnswers
<1>4. Typed'
  <2>1. tries' \in 0..Retries
    BY <1>2, CodexIsTyped
  <2> QED BY <1>1, <1>3, <2>1, Zenon DEF CodexInv, Typed, Places
<1>5. TriesCounted'
  BY <1>1, <1>2 DEF TriesCounted, ExecOver
<1>6. LeadersInTurn'
  <2>1. \A j \in Tries : j > tries' => leader'[j] = "none"
    BY <1>1, <1>2, CodexIsTyped DEF CodexInv, LeadersInTurn, Tries
  <2>2. leader'[tries'] = "none"
    BY <1>1, <1>2 DEF CodexInv, LeadersInTurn, Tries
  <2>3. ASSUME NEW j \in Tries, j < tries'
        PROVE  leader'[j] # "alive" /\ (host' = "worker" => leader'[j] # "exit0")
    <3>1. CASE j < tries
      BY <1>1, <3>1 DEF CodexInv, LeadersInTurn
    <3>2. CASE j = tries
      <4>1. pc = "backoff"
        BY <1>1, <3>2 DEF CodexInv, TriesCounted, Tries
      <4> QED BY <1>1, <3>2, <4>1 DEF CodexInv, LeadersInTurn, Gone
    <3> QED BY <1>1, <1>2, <2>3, <3>1, <3>2, CodexIsTyped DEF Tries
  <2> QED BY <1>1, <2>1, <2>2, <2>3 DEF LeadersInTurn
<1>7. AnswersCurrent'
  BY <1>1 DEF AnswersCurrent, Current
<1> QED BY <1>4, <1>5, <1>6, <1>7 DEF CodexInv

(* The process of the try that just began is started.                      *)
LEMMA SpawnKeeps ==
    ASSUME CodexInv, Spawn
    PROVE  CodexInv'
<1>1. /\ pc = "spawning" /\ leader' = [leader EXCEPT ![tries] = "alive"]
      /\ pc' \in {"announcing", "waiting"}
      /\ UNCHANGED <<host, role, confined, tries, child, transient, final, result>>
  BY DEF Spawn, Fixed
<1>2. tries \in Tries /\ tries > 0
  BY <1>1, CodexIsTyped DEF CodexInv, Typed, TriesCounted, Tries, ExecOver
<1>3. Typed'
  BY <1>1, <1>2 DEF CodexInv, Typed, Places
<1>4. TriesCounted'
  BY <1>1, <1>2 DEF TriesCounted
<1>5. LeadersInTurn'
  BY <1>1, <1>2, CodexIsTyped DEF CodexInv, Typed, LeadersInTurn, Tries
<1>6. AnswersCurrent'
  BY <1>1 DEF CodexInv, AnswersCurrent, Current, Answers
<1> QED BY <1>3, <1>4, <1>5, <1>6 DEF CodexInv

(* SIGKILL takes the codex of this try, if it is still there.              *)
LEMMA GiveUpKeeps ==
    ASSUME CodexInv, GiveUp
    PROVE  CodexInv'
<1>1. /\ pc = "term" /\ pc' = "kill"
      /\ leader' = [leader EXCEPT ![tries] = IF @ = "alive" THEN "killed" ELSE @]
      /\ child' = [child EXCEPT ![tries] = FALSE]
      /\ transient' \in BOOLEAN
      /\ UNCHANGED <<host, role, confined, tries, final, result>>
  BY DEF GiveUp, Printed, Fixed, CodexInv, Typed
<1>2. tries \in Tries /\ tries > 0
  BY <1>1, CodexIsTyped DEF CodexInv, Typed, TriesCounted, Tries, ExecOver
<1>3. Typed'
  <2>1. /\ leader \in [Tries -> Gone \union {"none", "alive"}] /\ child \in [Tries -> BOOLEAN]
        /\ "killed" \in Gone
    BY DEF CodexInv, Typed, Gone
  <2>2. leader' \in [Tries -> Gone \union {"none", "alive"}] /\ child' \in [Tries -> BOOLEAN]
    BY <1>1, <2>1, Zenon
  <2> QED BY <1>1, <2>2 DEF CodexInv, Typed, Places
<1>4. TriesCounted'
  BY <1>1, <1>2 DEF TriesCounted
<1>5. leader'[tries] \in Gone
  BY <1>1, <1>2 DEF CodexInv, Typed, LeadersInTurn, Gone
<1>6. LeadersInTurn'
  BY <1>1, <1>2, <1>5, CodexIsTyped DEF CodexInv, Typed, LeadersInTurn, Tries
<1>7. AnswersCurrent'
  BY <1>1 DEF CodexInv, AnswersCurrent, Current, Answers
<1> QED BY <1>3, <1>4, <1>6, <1>7 DEF CodexInv

-----------------------------------------------------------------------------
(* Every step preserves the invariant.                                     *)
LEMMA CodexNextKeeps ==
    ASSUME CodexInv, [CodexNext]_codexVars
    PROVE  CodexInv'
<1>1. /\ {"new", "prepared", "waiting", "term", "draining", "drainingLate",
          "raised", "cancelled", "died"} \subseteq Places \ {"spawning", "backoff", "returned"}
      /\ {"raised", "cancelled", "died"} \subseteq ExecOver
  BY DEF Places, ExecOver
<1>2. pc \notin ExecOver \union {"new", "prepared"} => tries > 0
  BY DEF CodexInv, TriesCounted
<1>3. pc \in {"announcing", "waiting", "term"} => leader[tries] # "none"
  BY DEF CodexInv, LeadersInTurn
<1>4. CASE Prepare
  BY <1>1, <1>4, GoesKeeps DEF Prepare, CodexInv, TriesCounted
<1>5. CASE StartTry
  BY <1>5, StartTryKeeps
<1>6. CASE Spawn
  BY <1>6, SpawnKeeps
<1>7. CASE Announced \/ Timeout
  <2>1. pc \in {"announcing", "waiting"} /\ (Goes("waiting") \/ Goes("term"))
    BY <1>7 DEF Announced, Timeout
  <2>2. tries > 0 /\ leader[tries] # "none"
    BY <1>2, <1>3, <2>1 DEF ExecOver
  <2> QED BY <1>1, <2>1, <2>2, GoesKeeps
<1>8. CASE Exited \/ Terminated
  <2>1. /\ pc \in {"waiting", "term", "kill"} /\ (Goes("draining") \/ Goes("drainingLate"))
        /\ leader[tries] \in Gone
    BY <1>8 DEF Exited, Terminated, WaitIsOver, CodexIsOver
  <2>2. tries > 0
    BY <1>2, <2>1 DEF ExecOver
  <2> QED BY <1>1, <2>1, <2>2, GoesKeeps
<1>9. CASE Communicated
  <2>1. /\ pc \in {"waiting", "term", "kill"} /\ leader[tries] \in Gone
        /\ \E r \in TryResults(pc # "waiting") : Settle(r)
    BY <1>9 DEF Communicated, WaitIsOver, CodexIsOver
  <2>2. tries > 0 /\ (pc # "waiting") \in BOOLEAN
    BY <1>2, <2>1 DEF ExecOver
  <2> QED BY <2>1, <2>2, SettleKeeps, Zenon
<1>10. CASE Drained
  <2>1. /\ pc \in {"draining", "drainingLate"}
        /\ \E r \in TryResults(pc = "drainingLate") : Settle(r)
    BY <1>10 DEF Drained
  <2>2. tries > 0 /\ leader[tries] \in Gone /\ (pc = "drainingLate") \in BOOLEAN
    BY <2>1 DEF CodexInv, LeadersInTurn
  <2> QED BY <2>1, <2>2, SettleKeeps, Zenon
<1>11. CASE GiveUp
  BY <1>11, GiveUpKeeps
<1>12. CASE SpawnRaises \/ EmitRaises \/ PatchRaises \/ Cancel \/ WorkerDies
  <2>1. Goes("raised") \/ Goes("cancelled") \/ Goes("died")
    BY <1>12 DEF SpawnRaises, EmitRaises, PatchRaises, Cancel, WorkerDies
  <2> QED BY <1>1, <2>1, GoesKeeps
<1>13. CASE CgroupKill \/ \E i \in Tries : CodexExits(i) \/ CommandStarts(i) \/ CommandEnds(i)
  BY <1>13, ProcessSteps
<1>14. CASE \E i \in Tries : CodexAnswers(i)
  BY <1>14, AnswerKeeps
<1>15. CASE UNCHANGED codexVars
  <2>1. UNCHANGED <<host, role, confined, pc, tries, leader, child, transient, final, result>>
    BY <1>15 DEF codexVars, procs
  <2> QED BY <2>1, ProcessesKeep DEF CodexInv, Typed
<1> QED
  BY <1>4, <1>5, <1>6, <1>7, <1>8, <1>9, <1>10, <1>11, <1>12, <1>13, <1>14, <1>15 DEF CodexNext, ExecStep

(* The invariant holds in every reachable state of an execution of codex.  *)
THEOREM CodexInvariance == CodexSpec => []CodexInv
<1>1. CodexInit => CodexInv
  <2> SUFFICES ASSUME CodexInit PROVE CodexInv
    OBVIOUS
  <2>1. NoFile \in AllAnswers /\ 0 \in 0..Retries
    BY CodexIsTyped DEF NoFile, AllAnswers
  <2>2. Typed
    BY <2>1, CodexIsTyped, Zenon DEF CodexInit, Typed, Places, TryStatuses, NoResult
  <2>3. TriesCounted /\ LeadersInTurn /\ AnswersCurrent
    BY CodexIsTyped DEF CodexInit, TriesCounted, LeadersInTurn, AnswersCurrent, Current, ExecOver, Tries
  <2> QED BY <2>2, <2>3 DEF CodexInv
<1>2. CodexInv /\ [CodexNext]_codexVars => CodexInv'
  BY CodexNextKeeps
<1> QED BY <1>1, <1>2, PTL DEF CodexSpec

(* Whatever the retries, no more than CODEX_EXEC_RETRIES processes are     *)
(* started, one per try, and final.json is of one of them.                 *)
THEOREM TypeCorrect == CodexSpec => []CodexTypeOK
<1>1. CodexInv => CodexTypeOK
  <2> SUFFICES ASSUME CodexInv PROVE CodexTypeOK
    OBVIOUS
  <2>1. tries > 0 => tries \in Tries
    BY CodexIsTyped DEF CodexInv, Typed, Tries
  <2>2. final \in {NoFile} \union (UNION {Answers(i) : i \in Tries})
    <3> DEFINE Written == UNION {Answers(i) : i \in Tries}
    <3>1. \A i \in Tries : \A a \in Answers(i) : a \in Written
      BY Zenon
    <3>2. tries = 0 => final = NoFile
      BY DEF CodexInv, AnswersCurrent
    <3>3. final \in {NoFile} \union Answers(tries)
      BY DEF CodexInv, AnswersCurrent, Current
    <3>4. tries = 0 \/ tries \in Tries
      BY <2>1, CodexIsTyped DEF CodexInv, Typed
    <3> HIDE DEF Written
    <3>5. final \in {NoFile} \union Written
      BY <3>1, <3>2, <3>3, <3>4
    <3> QED BY <3>5 DEF Written
  <2>3. tries = 0 => pc \in ExecOver \union {"new", "prepared"}
    BY DEF CodexInv, TriesCounted
  <2> QED BY <2>2, <2>3 DEF CodexInv, Typed, CodexTypeOK, Places, TryStatuses
<1> QED BY <1>1, CodexInvariance, PTL

(* However often execute retries, the answer it returns is one of the last *)
(* try: the file of an earlier one was removed, and nobody is left to      *)
(* write it again.                                                         *)
THEOREM AnswerIsNeverStale == CodexSpec => []OutputIsCurrent
<1>1. CodexInv => OutputIsCurrent
  BY DEF CodexInv, AnswersCurrent, OutputIsCurrent, Current, NoFile, Answers
<1> QED BY <1>1, CodexInvariance, PTL

(* Two codex processes never work in the same workspace, and none works    *)
(* behind an execution that returned or is about to try again.             *)
THEOREM OneCodexAtATime == CodexSpec => []NoCodexOutlives
<1>1. CodexInv => NoCodexOutlives
  <2> SUFFICES ASSUME CodexInv, NEW i \in Tries, leader[i] = "alive"
               PROVE  /\ i = tries
                      /\ pc \in {"announcing", "waiting", "term", "raised", "cancelled", "died"}
    BY DEF NoCodexOutlives
  <2>1. i = tries /\ tries > 0
    BY CodexIsTyped DEF CodexInv, Typed, LeadersInTurn, Tries
  <2> QED BY <2>1 DEF CodexInv, Typed, TriesCounted, LeadersInTurn, Places, ExecOver, Gone
<1> QED BY <1>1, CodexInvariance, PTL

(* SUCCESS stands for exit code 0 in the last try, or for the well-formed  *)
(* answer of a direct reviewer, and the backend never runs codex again     *)
(* after it succeeded.                                                     *)
THEOREM SuccessAlwaysEarned == CodexSpec => []SuccessIsEarned
<1>1. CodexInv => SuccessIsEarned
  BY DEF CodexInv, AnswersCurrent, LeadersInTurn, SuccessIsEarned
<1> QED BY <1>1, CodexInvariance, PTL

-----------------------------------------------------------------------------
(* The run of an incident repair: the fields of IncidentState that the     *)
(* model keeps.                                                            *)
Fields == {"status", "plan", "done", "active", "step", "refs", "pending", "commit", "test",
           "review", "round"}

(* Both copies of the graph state have all fields, and while the graph     *)
(* runs they differ only in the lists that the runner overwrites.          *)
CopiesAgree ==
    /\ DOMAIN g = Fields /\ DOMAIN file = Fields
    /\ run = "running" =>
        /\ \A f \in Fields \ {"refs", "pending"} : file[f] = g[f]
        /\ file.refs \subseteq g.refs

(* The daemon may have gone astray: its integration need not be the commit *)
(* of the graph any more.                                                  *)
Off == mode = "runtime" /\ astray

(* The graph exists only while it runs.  A call works on the commit that   *)
(* was integrated when it started, unless the daemon chose another one for *)
(* a tester or reviewer.                                                   *)
Working == {"planner", "coder", "tester", "repair", "reviewer"}
CallIsCurrent ==
    /\ mode \in {"runtime", "direct"}
    /\ {"phase", "key", "base"} \subseteq DOMAIN call
    /\ call.phase # "idle" =>
        /\ node \in Working /\ call.key = KeyOf(node)
        /\ call.base = g.commit \/ (node \in {"tester", "reviewer"} /\ (g.status = "FAILED" \/ Off))
    /\ run # "running" => node = "planner" /\ call = Idle /\ g = Fresh

Built(s) == \A c \in s.done : \E p \in s.commit : p.by = c
Integrating == {"integrate_coder", "integrate_repair"}
AllBuilt == {"tester", "reviewer", "repair", "integrate_repair", "success", "end"}

(* What holds at each node of a graph that has not failed; off says that   *)
(* the daemon may have gone astray.                                        *)
Progress(n, s, off) ==
    /\ s.status = "SUCCESS" <=> n = "end"
    /\ s.refs \subseteq s.commit \union s.pending
    /\ n \notin Integrating => s.pending = {}
    /\ n # "integrate_coder" => Built(s)
    /\ n = "integrate_coder" => s.pending = {} \/ (Built(s) /\ \E p \in s.pending : p.by = s.active)
    /\ n \in AllBuilt => s.plan.coders \subseteq s.done
    /\ n \in {"reviewer", "success", "end"} => s.test.is = "pass" /\ (s.test.on = s.commit \/ off)
    /\ n \in {"success", "end"} => s.review.is = "approved" /\ (s.review.on = s.commit \/ off)
    /\ n = "coder" => s.plan.deps[s.active] \subseteq s.done

(* FAILED is never left: neither a coder nor success comes after it.       *)
GraphSound ==
    /\ g.status \in {"PENDING", "FAILED", "SUCCESS"}
    /\ g.plan.coders \subseteq Nat \ {0}
    /\ node \in {"coder", "success"} => g.status # "FAILED"
    /\ g.status # "FAILED" => Progress(node, g, Off)

Verified(s, off) ==
    /\ s.test.is = "pass" /\ s.review.is = "approved"
    /\ (s.test.on = s.commit /\ s.review.on = s.commit) \/ off
    /\ s.refs \subseteq s.commit
    /\ \A c \in s.plan.coders : \E p \in s.commit : p.by = c

(* What is on disk once the graph is gone, and what it was answered from.  *)
RecordSound ==
    /\ file.status = "SUCCESS" => Verified(file, Off)
    /\ {"status", "test", "review"} \subseteq DOMAIN summary
    /\ summary.status = "SUCCESS" =>
        file.status \in {"SUCCESS", "FAILED"} /\ summary.test = "pass" /\ summary.review = "approved"
    /\ summary.status \in {"FAILED", "INTERRUPTED"} => file.status = summary.status
    /\ told \in {"FAILED", "INTERRUPTED"} => run = "deleted" \/ file.status = told
    /\ run = "none" => told = "none"

GraphInv == CopiesAgree /\ CallIsCurrent /\ GraphSound /\ RecordSound

(* The daemon has no task of a run that does not exist yet or that does    *)
(* everything in place.                                                    *)
NoTask ==
    /\ threads = {} /\ execs = {} /\ known = {} /\ DOMAIN rt = {} /\ DOMAIN rows = {}
    /\ merged = {}
Quiet == run = "none" \/ mode = "direct" => NoTask

(* While a graph has not failed and the daemon has not gone astray, the    *)
(* integration of the daemon holds the patches of the graph, with that of  *)
(* the coder or repair that has ended and not yet returned.  Of the coder  *)
(* and repair tasks, only that of the current call can be under way.       *)
GraphCode == {"coder", "repair"}
Landed ==
    /\ call.phase = "waiting" /\ call.key[1] \in GraphCode
    /\ call.key \in known /\ rt[call.key] = "SUCCESS"
Applied(k) ==
    /\ k \notin execs /\ (k \in threads => call.phase = "submitting" /\ k = call.key)
    /\ k \in DOMAIN rt => rt[k] = "SUCCESS" /\ PatchOf(k) \in merged
UnderWay(k) ==
    /\ call.phase = "waiting" /\ k = call.key /\ k \notin threads
    /\ k \in execs => k \in DOMAIN rt /\ rt[k] # "SUCCESS"
Followed ==
    /\ merged = (g.commit \union g.pending) \union (IF Landed THEN {PatchOf(call.key)} ELSE {})
    /\ \A k \in threads \union execs \union DOMAIN rt : k[1] \in GraphCode => Applied(k) \/ UnderWay(k)
    /\ known \subseteq DOMAIN rt
    /\ \A k \in known : k[1] = "own_repair" => rt[k] # "SUCCESS"
Following == run = "running" /\ mode = "runtime" /\ ~astray /\ g.status # "FAILED"

IndInv == GraphInv /\ Quiet /\ (Following => Followed)

-----------------------------------------------------------------------------
(* Most steps are first-order reasoning about sets and functions: Zenon    *)
(* proves them, and the steps that need more say SMT.                      *)
USE Zenon

(* min of a set of ids is one of them.                                     *)
LEMMA MinIsMember ==
    ASSUME NEW S \in SUBSET Nat, S # {}
    PROVE  Min(S) \in S
<1>1. PICK x \in S : \A y \in S : ~(<<y, x>> \in OpToRel(<, Nat))
  BY NatLessThanWellFounded, WFMin
<1>2. ASSUME NEW y \in S PROVE x <= y
  <2>1. <<y, x>> \in Nat \X Nat /\ <<y, x>>[1] = y /\ <<y, x>>[2] = x /\ x \in Nat /\ y \in Nat
    OBVIOUS
  <2>2. ~(y < x)
    BY <1>1, <2>1 DEF OpToRel
  <2> QED BY <2>1, <2>2, SMT
<1> QED BY <1>2 DEF Min

(* The runner overwrites the fields a node returns and keeps the others.   *)
LEMMA OverwrittenFields ==
    ASSUME NEW s, NEW u, DOMAIN s = Fields, DOMAIN u \subseteq Fields
    PROVE  /\ DOMAIN Overwritten(s, u) = Fields
           /\ \A f \in Fields : Overwritten(s, u)[f] = IF f \in DOMAIN u THEN u[f] ELSE s[f]
<1>1. Fields = DOMAIN s \union DOMAIN u
  OBVIOUS
<1> QED BY <1>1 DEF Overwritten, With

(* What the update of a node does to both copies of the state.             *)
LEMMA UpdateFields ==
    ASSUME CopiesAgree, run = "running", NEW n, NEW u, DOMAIN u \subseteq Fields, Update(n, u)
    PROVE  /\ CopiesAgree' /\ mode' = mode /\ call' = Idle
           /\ \A f \in Fields \ {"refs", "pending"} : g'[f] = IF f \in DOMAIN u THEN u[f] ELSE g[f]
           /\ g'["refs"] = IF "refs" \in DOMAIN u THEN g.refs \union u["refs"] ELSE g.refs
           /\ g'["pending"] = IF "pending" \notin DOMAIN u THEN g.pending
                              ELSE IF u["pending"] = {} THEN {} ELSE g.pending \union u["pending"]
           /\ node' = Route(n, g') /\ run' = "running" /\ summary' = summary /\ told' = told
<1>1. /\ g' = Merged(g, u) /\ file' = Overwritten(file, u) /\ node' = Route(n, g') /\ call' = Idle
      /\ run' = "running" /\ summary' = summary /\ told' = told /\ mode' = mode
  BY DEF Update
<1>2. DOMAIN g = Fields /\ DOMAIN file = Fields /\ "refs" \in Fields /\ "pending" \in Fields
  BY DEF CopiesAgree, Fields
<1>3. /\ DOMAIN g' = Fields
      /\ \A f \in Fields : g'[f] =
            IF f \notin DOMAIN u THEN g[f]
            ELSE IF f = "refs" \/ (f = "pending" /\ u[f] # {}) THEN g[f] \union u[f] ELSE u[f]
  BY <1>1, <1>2 DEF Merged
<1>4. \A f \in Fields \ {"refs", "pending"} : g'[f] = IF f \in DOMAIN u THEN u[f] ELSE g[f]
  BY <1>3
<1>5. g'["refs"] = IF "refs" \in DOMAIN u THEN g.refs \union u["refs"] ELSE g.refs
  BY <1>2, <1>3
<1>6. g'["pending"] = IF "pending" \notin DOMAIN u THEN g.pending
                      ELSE IF u["pending"] = {} THEN {} ELSE g.pending \union u["pending"]
  BY <1>2, <1>3
<1>7. DOMAIN file' = Fields /\ \A f \in Fields : file'[f] = IF f \in DOMAIN u THEN u[f] ELSE file[f]
  BY <1>1, <1>2, OverwrittenFields, SMTT(30)
<1>8. \A f \in Fields \ {"refs", "pending"} : file'[f] = g'[f]
  BY <1>4, <1>7 DEF CopiesAgree
<1>9. file'["refs"] \subseteq g'["refs"]
  BY <1>2, <1>5, <1>7 DEF CopiesAgree
<1>10. CopiesAgree'
  BY <1>3, <1>7, <1>8, <1>9 DEF CopiesAgree
<1> QED BY <1>1, <1>4, <1>5, <1>6, <1>10

(* What the update u of node n makes of each field of the graph's state.   *)
After(f, u) == IF f \in DOMAIN u THEN u[f] ELSE g[f]
Advance(n, u) ==
    /\ g'.status = After("status", u) /\ g'.plan = After("plan", u)
    /\ g'.done = After("done", u) /\ g'.active = After("active", u)
    /\ g'.commit = After("commit", u) /\ g'.test = After("test", u)
    /\ g'.review = After("review", u)
    /\ g'.refs = IF "refs" \in DOMAIN u THEN g.refs \union u["refs"] ELSE g.refs
    /\ g'.pending = IF "pending" \notin DOMAIN u THEN g.pending
                    ELSE IF u["pending"] = {} THEN {} ELSE g.pending \union u["pending"]
    /\ node' = Route(n, g')

LEMMA UpdateAdvances ==
    ASSUME GraphInv, NEW n, AtNode(n), NEW u, DOMAIN u \subseteq Fields, Update(n, u)
    PROVE  Advance(n, u)
<1>1. run = "running" /\ CopiesAgree
  BY DEF GraphInv, AtNode
<1>2. \A f \in Fields \ {"refs", "pending"} : g'[f] = After(f, u)
  BY <1>1, UpdateFields DEF After
<1>3. /\ g'.refs = IF "refs" \in DOMAIN u THEN g.refs \union u["refs"] ELSE g.refs
      /\ g'.pending = IF "pending" \notin DOMAIN u THEN g.pending
                      ELSE IF u["pending"] = {} THEN {} ELSE g.pending \union u["pending"]
      /\ node' = Route(n, g')
  BY <1>1, UpdateFields
<1> QED BY <1>2, <1>3 DEF Advance, Fields

(* The commit and the pending patches of a graph that has not failed, seen *)
(* together, only ever gain the patch of a coder or repair that succeeded. *)
Carried(n) ==
    /\ n \in GraphCode => Landed
    /\ g'.commit \union g'.pending =
        (g.commit \union g.pending) \union (IF n \in GraphCode THEN {PatchOf(call.key)} ELSE {})
Carries(n) == g'.status # "FAILED" => g.status # "FAILED" /\ (mode = "runtime" => Carried(n))

(* A failed graph starts no coder and does not get to success.             *)
LEMMA FailedRoute ==
    ASSUME NEW n, NEW s, s.status = "FAILED"
    PROVE  Route(n, s) \notin {"coder", "success"}
<1>1. RouteAfterSelect(s) = "failed" /\ UnlessFailed(s, "integrate_coder") = "failed"
      /\ UnlessFailed(s, "integrate_repair") = "failed" /\ RouteAfterReview(s) = "failed"
  BY DEF RouteAfterSelect, UnlessFailed, RouteAfterReview
<1>2. RouteAfterTest(s) \in {"reviewer", "repair", "failed"}
  BY DEF RouteAfterTest
<1> QED BY <1>1, <1>2 DEF Route

(* What is left to show of the update of a node: that it makes progress    *)
(* if the graph has not failed.                                            *)
LEMMA UpdateKeeps ==
    ASSUME GraphInv, NEW n, AtNode(n), n # "end", NEW u, DOMAIN u \subseteq Fields, Update(n, u),
           UNCHANGED daemon,
           "status" \in DOMAIN u => u.status = "FAILED" \/ (n = "success" /\ u.status = "SUCCESS"),
           "plan" \in DOMAIN u => u.plan \in Plans,
           g.status # "FAILED" /\ g'.status # "FAILED" /\ Progress(n, g, Off) =>
                Progress(node', g', Off) /\ (mode = "runtime" => Carried(n))
    PROVE  GraphInv' /\ Carries(n)
<1>1. /\ run = "running" /\ node = n
      /\ CopiesAgree /\ CallIsCurrent /\ GraphSound /\ RecordSound
  BY DEF GraphInv, AtNode
<1>2. /\ CopiesAgree' /\ mode' = mode /\ call' = Idle
      /\ \A f \in Fields \ {"refs", "pending"} : g'[f] = IF f \in DOMAIN u THEN u[f] ELSE g[f]
      /\ node' = Route(n, g') /\ run' = "running" /\ summary' = summary /\ told' = told
  BY <1>1, UpdateFields
<1>3. /\ g'["status"] = IF "status" \in DOMAIN u THEN u["status"] ELSE g["status"]
      /\ g'["plan"] = IF "plan" \in DOMAIN u THEN u["plan"] ELSE g["plan"]
  BY <1>2 DEF Fields
<1>4. g.status = "FAILED" => g'.status = "FAILED"
  BY <1>1, <1>3 DEF GraphSound
<1>5. Off' = Off
  BY <1>2 DEF Off, daemon, service
<1>6. GraphSound'
  <2>1. g'.status \in {"PENDING", "FAILED", "SUCCESS"}
    BY <1>1, <1>3 DEF GraphSound
  <2>2. g'.plan.coders \subseteq Nat \ {0}
    BY <1>1, <1>3, IncidentIsTyped DEF GraphSound
  <2>3. node' \in {"coder", "success"} => g'.status # "FAILED"
    BY <1>2, FailedRoute
  <2>4. g'.status # "FAILED" => Progress(node', g', Off')
    BY <1>1, <1>4, <1>5 DEF GraphSound
  <2> QED BY <2>1, <2>2, <2>3, <2>4 DEF GraphSound
<1>7. RecordSound'
  <2>1. file.status = g.status /\ file'.status = g'.status
    BY <1>1, <1>2 DEF CopiesAgree, Fields
  <2>2. g.status # "SUCCESS" /\ g.status # "INTERRUPTED"
    BY <1>1 DEF GraphSound, Progress
  <2>3. file'.status = "SUCCESS" => Verified(file', Off')
    <3> SUFFICES ASSUME g'.status = "SUCCESS" PROVE Verified(file', Off')
      BY <2>1
    <3>1. Progress("end", g', Off')
      BY <1>6 DEF GraphSound, Progress
    <3>2. Verified(g', Off')
      BY <3>1 DEF Progress, Verified, Built, AllBuilt, Integrating
    <3>3. /\ file'.test = g'.test /\ file'.review = g'.review /\ file'.commit = g'.commit
          /\ file'.plan = g'.plan /\ file'.refs \subseteq g'.refs
      BY <1>2 DEF CopiesAgree, Fields
    <3> QED BY <3>2, <3>3 DEF Verified
  <2> QED BY <1>1, <1>2, <1>4, <2>1, <2>2, <2>3 DEF RecordSound
<1>8. CallIsCurrent'
  BY <1>1, <1>2 DEF CallIsCurrent, Idle
<1>9. Carries(n)
  BY <1>1, <1>4 DEF Carries, GraphSound
<1> QED BY <1>2, <1>6, <1>7, <1>8, <1>9 DEF GraphInv

-----------------------------------------------------------------------------
(* One lemma for each node of the graph: its update makes progress.        *)
LEMMA KeyParts ==
    ASSUME NEW n
    PROVE  /\ KeyOf(n)[1] = n /\ KeyOf(n)[4] = g.commit
           /\ n = "coder" => KeyOf(n)[3] = g.active
BY SMT DEF KeyOf

LEMMA PatchParts == ASSUME NEW k PROVE PatchOf(k).by = k[3]
BY SMT DEF PatchOf

LEMMA PlannerKeeps ==
    ASSUME GraphInv, NEW st, PlannerReturns(st)
    PROVE  GraphInv' /\ Carries("planner")
<1>1. PICK u : /\ AtNode("planner") /\ Update("planner", u) /\ UNCHANGED daemon
               /\ \/ \E p \in Plans : u = [plan |-> p] \/ u = [status |-> "FAILED", plan |-> p]
                  \/ u = Failed
  BY DEF PlannerReturns, Returned
<1>2. /\ DOMAIN u \subseteq Fields /\ DOMAIN u \subseteq {"plan", "status"}
      /\ ("status" \in DOMAIN u => u.status = "FAILED") /\ ("plan" \in DOMAIN u => u.plan \in Plans)
  BY <1>1, SMT DEF Failed, Fields
<1>3. ASSUME g'.status # "FAILED", Progress("planner", g, Off)
      PROVE  Progress(node', g', Off) /\ (mode = "runtime" => Carried("planner"))
  <2>1. Advance("planner", u)
    BY <1>1, <1>2, UpdateAdvances
  <2>2. /\ g'.status = g.status /\ g'.done = g.done /\ g'.commit = g.commit /\ g'.refs = g.refs
        /\ g'.pending = g.pending /\ node' = "select_coder"
    BY <1>2, <1>3, <2>1 DEF Advance, After, Route
  <2>3. Progress(node', g', Off)
    BY <1>3, <2>2 DEF Progress, Built, Integrating, AllBuilt
  <2> QED BY <2>2, <2>3 DEF Carried, GraphCode
<1> QED BY <1>1, <1>2, <1>3, UpdateKeeps

LEMMA SelectKeeps ==
    ASSUME GraphInv, SelectCoder
    PROVE  GraphInv' /\ Carries("select_coder")
<1>1. /\ AtNode("select_coder") /\ Update("select_coder", Selected) /\ UNCHANGED daemon
      /\ g.plan.coders \subseteq Nat \ {0}
  BY DEF SelectCoder, GraphInv, GraphSound
<1>2. PICK u : /\ u = Selected
               /\ \/ u = [active |-> 0] /\ (g.status = "FAILED" \/ Remaining = {})
                  \/ u = [status |-> "FAILED", active |-> 0]
                  \/ \E c \in ReadyCoders : u = [active |-> c, step |-> g.step + 1]
  <2>1. ReadyCoders \in SUBSET Nat
    BY <1>1 DEF ReadyCoders, Remaining
  <2>2. ReadyCoders # {} => Min(ReadyCoders) \in ReadyCoders
    BY <2>1, MinIsMember
  <2>3. CASE g.status = "FAILED" \/ Remaining = {}
    BY <2>3 DEF Selected
  <2>4. CASE g.status # "FAILED" /\ Remaining # {} /\ ReadyCoders = {}
    BY <2>4 DEF Selected
  <2>5. CASE g.status # "FAILED" /\ Remaining # {} /\ ReadyCoders # {}
    BY <2>2, <2>5 DEF Selected
  <2> QED BY <2>3, <2>4, <2>5
<1>3. /\ DOMAIN u \subseteq Fields /\ DOMAIN u \subseteq {"active", "status", "step"}
      /\ "status" \in DOMAIN u => u.status = "FAILED"
  BY <1>2, SMT DEF Fields
<1>4. ASSUME g.status # "FAILED", g'.status # "FAILED", Progress("select_coder", g, Off)
      PROVE  Progress(node', g', Off) /\ (mode = "runtime" => Carried("select_coder"))
  <2>1. Advance("select_coder", u)
    BY <1>1, <1>2, <1>3, UpdateAdvances
  <2>2. /\ g'.status = g.status /\ g'.plan = g.plan /\ g'.done = g.done /\ g'.commit = g.commit
        /\ g'.refs = g.refs /\ g'.pending = g.pending /\ node' = RouteAfterSelect(g')
        /\ g'.active = u["active"] /\ "status" \notin DOMAIN u
    BY <1>2, <1>3, <1>4, <2>1 DEF Advance, After, Route
  <2>3. ASSUME Remaining = {}, u = [active |-> 0]
        PROVE  Progress(node', g', Off)
    <3>1. node' = "tester" /\ g.plan.coders \subseteq g.done
      BY <1>4, <2>2, <2>3 DEF RouteAfterSelect, Remaining
    <3> QED BY <1>4, <2>2, <3>1 DEF Progress, Built, Integrating, AllBuilt
  <2>4. ASSUME NEW c \in ReadyCoders, u = [active |-> c, step |-> g.step + 1]
        PROVE  Progress(node', g', Off)
    <3>1. g'.active = c /\ c # 0 /\ g.plan.deps[c] \subseteq g.done
      BY <1>1, <2>2, <2>4 DEF ReadyCoders, Remaining
    <3>2. node' = "coder"
      BY <1>4, <2>2, <3>1 DEF RouteAfterSelect
    <3> QED BY <1>4, <2>2, <3>1, <3>2 DEF Progress, Built, Integrating, AllBuilt
  <2>5. u # [status |-> "FAILED", active |-> 0]
    BY <2>2, SMTT(30)
  <2>6. Progress(node', g', Off)
    BY <1>2, <1>4, <2>3, <2>4, <2>5
  <2> QED BY <2>2, <2>6 DEF Carried, GraphCode
<1> QED BY <1>1, <1>2, <1>3, <1>4, UpdateKeeps

LEMMA CoderKeeps ==
    ASSUME GraphInv, NEW st, CoderReturns(st)
    PROVE  GraphInv' /\ Carries("coder")
<1>1. PICK u : /\ AtNode("coder") /\ Update("coder", u) /\ UNCHANGED daemon /\ call.phase = "waiting"
               /\ \/ u = Contributed(PatchOf(call.key)) /\ st = "SUCCESS" /\ st \in Results
                  \/ u = [done |-> g.done \union {g.active}, active |-> 0] /\ mode = "direct"
                  \/ u = Failed
  BY DEF CoderReturns, Returned
<1>2. /\ DOMAIN u \subseteq Fields /\ "plan" \notin DOMAIN u
      /\ "status" \in DOMAIN u => u.status = "FAILED"
  BY <1>1, SMTT(30) DEF Fields, Failed, Contributed
<1>3. ASSUME g.status # "FAILED", g'.status # "FAILED", Progress("coder", g, Off)
      PROVE  Progress(node', g', Off) /\ (mode = "runtime" => Carried("coder"))
  <2>1. Advance("coder", u)
    BY <1>1, <1>2, UpdateAdvances
  <2>2. u # Failed /\ node' = "integrate_coder"
    BY <1>3, <2>1, SMT DEF Advance, After, Route, UnlessFailed, Failed
  <2>3. ASSUME u = Contributed(PatchOf(call.key)), st = "SUCCESS", st \in Results
        PROVE  Progress(node', g', Off) /\ (mode = "runtime" => Carried("coder"))
    <3>1. PICK p : p = PatchOf(call.key) /\ p.by = g.active /\ call.key[1] = "coder"
      <4>1. call.key = KeyOf("coder")
        BY <1>1 DEF GraphInv, CallIsCurrent, AtNode
      <4>2. call.key[3] = g.active /\ call.key[1] = "coder"
        BY <4>1, KeyParts
      <4> QED BY <4>2, PatchParts
    <3>2. u = [refs |-> {p}, pending |-> {p}]
      BY <2>3, <3>1 DEF Contributed
    <3>3. /\ g'.status = g.status /\ g'.plan = g.plan /\ g'.commit = g.commit /\ g'.done = g.done
          /\ g'.active = g.active /\ g'.refs = g.refs \union {p} /\ g'.pending = g.pending \union {p}
      BY <2>1, <3>2 DEF Advance, After
    <3>4. Progress(node', g', Off)
      BY <1>3, <2>2, <3>1, <3>3 DEF Progress, Built, Integrating, AllBuilt
    <3>5. mode = "runtime" => Landed
      BY <1>1, <2>3, <3>1 DEF Results, Landed, GraphCode
    <3>6. g'.commit \union g'.pending = (g.commit \union g.pending) \union {PatchOf(call.key)}
      BY <3>1, <3>3
    <3> QED BY <3>4, <3>5, <3>6 DEF Carried, GraphCode
  <2>4. ASSUME u = [done |-> g.done \union {g.active}, active |-> 0], mode = "direct"
        PROVE  Progress(node', g', Off) /\ (mode = "runtime" => Carried("coder"))
    <3>1. g'.status = g.status /\ g'.commit = g.commit /\ g'.refs = g.refs /\ g'.pending = g.pending
      BY <2>1, <2>4 DEF Advance, After
    <3> QED BY <1>3, <2>2, <2>4, <3>1 DEF Progress, Integrating, AllBuilt
  <2> QED BY <1>1, <2>2, <2>3, <2>4
<1> QED BY <1>1, <1>2, <1>3, UpdateKeeps

LEMMA IntegrateCoderKeeps ==
    ASSUME GraphInv, IntegrateCoder
    PROVE  GraphInv' /\ Carries("integrate_coder")
<1>1. PICK r \in Integrations, b \in BOOLEAN :
        /\ AtNode("integrate_coder") /\ Update("integrate_coder", IntegratedCoder(r, b))
        /\ UNCHANGED daemon
  BY DEF IntegrateCoder
<1>2. PICK u :
        /\ u = IntegratedCoder(r, b)
        /\ \/ u = [active |-> 0] /\ g.status = "FAILED"
           \/ u = Failed
           \/ /\ g.pending # {} /\ DOMAIN u = {"commit", "pending", "done", "active"}
              /\ u["commit"] = g.commit \union g.pending /\ u["pending"] = {}
              /\ u["done"] = g.done \union {g.active}
  <2> DEFINE v == [commit |-> g.commit \union g.pending, pending |-> {}]
             w == With(v, [done |-> g.done \union {g.active}, active |-> 0])
  <2>1. CASE g.status = "FAILED"
    BY <2>1 DEF IntegratedCoder
  <2>2. CASE g.status # "FAILED" /\ b /\ g.pending # {}
    BY <2>2 DEF IntegratedCoder
  <2>3. CASE g.status # "FAILED" /\ ~(b /\ g.pending # {})
    <3>1. IntegratedCoder(r, b) = IF IntegratePendingPatches(r) = Failed THEN Failed
              ELSE With(IntegratePendingPatches(r), [done |-> g.done \union {g.active}, active |-> 0])
      BY <2>3 DEF IntegratedCoder
    <3>2. /\ DOMAIN w = {"commit", "pending", "done", "active"} /\ w["commit"] = g.commit \union g.pending
          /\ w["pending"] = {} /\ w["done"] = g.done \union {g.active}
      BY DEF With
    <3> QED BY <3>1, <3>2 DEF IntegratePendingPatches
  <2> QED BY <2>1, <2>2, <2>3
<1>3. /\ DOMAIN u \subseteq Fields /\ "plan" \notin DOMAIN u
      /\ "status" \in DOMAIN u => u.status = "FAILED"
  BY <1>2, SMTT(30) DEF Fields, Failed
<1>4. ASSUME g.status # "FAILED", g'.status # "FAILED", Progress("integrate_coder", g, Off)
      PROVE  Progress(node', g', Off) /\ (mode = "runtime" => Carried("integrate_coder"))
  <2>1. Advance("integrate_coder", u)
    BY <1>1, <1>2, <1>3, UpdateAdvances
  <2>2. u # Failed /\ node' = "select_coder"
    BY <1>4, <2>1, SMT DEF Advance, After, Route, Failed
  <2>3. /\ g.pending # {} /\ g'.status = g.status /\ g'.commit = g.commit \union g.pending
        /\ g'.pending = {} /\ g'.done = g.done \union {g.active} /\ g'.refs = g.refs
    BY <1>2, <1>4, <2>1, <2>2 DEF Advance, After
  <2>4. Built(g')
    BY <1>4, <2>3 DEF Progress, Built
  <2>5. Progress(node', g', Off)
    BY <1>4, <2>2, <2>3, <2>4 DEF Progress, Integrating, AllBuilt
  <2> QED BY <2>3, <2>5 DEF Carried, GraphCode
<1> QED BY <1>1, <1>2, <1>3, <1>4, UpdateKeeps

LEMMA RepairKeeps ==
    ASSUME GraphInv, NEW st, RepairReturns(st)
    PROVE  GraphInv' /\ Carries("repair")
<1>1. PICK v : /\ AtNode("repair") /\ Update("repair", Repaired(v)) /\ UNCHANGED daemon
               /\ call.phase = "waiting"
               /\ (v = Contributed(PatchOf(call.key)) /\ st = "SUCCESS" /\ st \in Results) \/ v = Failed
  BY DEF RepairReturns, Returned
<1>2. \/ v = [refs |-> {PatchOf(call.key)}, pending |-> {PatchOf(call.key)}] /\ st = "SUCCESS" /\ st \in Results
      \/ v = [status |-> "FAILED"]
  BY <1>1 DEF Contributed, Failed
<1>3. PICK u : /\ u = Repaired(v) /\ DOMAIN u = DOMAIN v \union {"round"}
               /\ \A f \in DOMAIN v \ {"round"} : u[f] = v[f]
  <2>1. DOMAIN [round |-> g.round + 1] = {"round"}
    OBVIOUS
  <2>2. DOMAIN Repaired(v) = DOMAIN v \union {"round"}
    BY <2>1 DEF Repaired, With
  <2>3. \A f \in DOMAIN v \ {"round"} : Repaired(v)[f] = v[f]
    BY <2>1 DEF Repaired, With
  <2> QED BY <2>2, <2>3
<1>4. /\ DOMAIN u \subseteq Fields /\ "plan" \notin DOMAIN u
      /\ "status" \in DOMAIN u => u.status = "FAILED"
  BY <1>2, <1>3, SMTT(30) DEF Fields
<1>5. ASSUME g.status # "FAILED", g'.status # "FAILED", Progress("repair", g, Off)
      PROVE  Progress(node', g', Off) /\ (mode = "runtime" => Carried("repair"))
  <2>1. Advance("repair", u)
    BY <1>1, <1>3, <1>4, UpdateAdvances
  <2>2. "status" \notin DOMAIN u /\ node' = "integrate_repair"
    BY <1>4, <1>5, <2>1 DEF Advance, After, Route, UnlessFailed
  <2>3. PICK p : /\ p = PatchOf(call.key) /\ v = [refs |-> {p}, pending |-> {p}]
                 /\ st = "SUCCESS" /\ st \in Results
    BY <1>2, <1>3, <2>2
  <2>4. /\ DOMAIN u = {"refs", "pending", "round"} /\ u["refs"] = {p} /\ u["pending"] = {p}
    BY <1>3, <2>3
  <2>5. /\ g'.status = g.status /\ g'.plan = g.plan /\ g'.commit = g.commit /\ g'.done = g.done
        /\ g'.refs = g.refs \union {p} /\ g'.pending = g.pending \union {p}
    BY <2>1, <2>4 DEF Advance, After
  <2>6. Progress(node', g', Off)
    BY <1>5, <2>2, <2>5 DEF Progress, Built, Integrating, AllBuilt
  <2>7. mode = "runtime" => Landed
    <3>1. call.key = KeyOf("repair")
      BY <1>1 DEF GraphInv, CallIsCurrent, AtNode
    <3>2. call.key[1] = "repair"
      BY <3>1, KeyParts
    <3> QED BY <1>1, <2>3, <3>2 DEF Results, Landed, GraphCode
  <2>8. g'.commit \union g'.pending = (g.commit \union g.pending) \union {PatchOf(call.key)}
    BY <2>3, <2>5
  <2> QED BY <2>6, <2>7, <2>8 DEF Carried, GraphCode
<1> QED BY <1>1, <1>3, <1>4, <1>5, UpdateKeeps

LEMMA IntegrateRepairKeeps ==
    ASSUME GraphInv, IntegrateRepair
    PROVE  GraphInv' /\ Carries("integrate_repair")
<1>1. PICK u :
        /\ AtNode("integrate_repair") /\ Update("integrate_repair", u) /\ UNCHANGED daemon
        /\ u = [commit |-> g.commit \union g.pending, pending |-> {}] \/ u = Failed
  BY DEF IntegrateRepair, IntegratePendingPatches
<1>2. /\ DOMAIN u \subseteq Fields /\ "plan" \notin DOMAIN u
      /\ "status" \in DOMAIN u => u.status = "FAILED"
  BY <1>1, SMTT(30) DEF Fields, Failed
<1>3. ASSUME g.status # "FAILED", g'.status # "FAILED", Progress("integrate_repair", g, Off)
      PROVE  Progress(node', g', Off) /\ (mode = "runtime" => Carried("integrate_repair"))
  <2>1. Advance("integrate_repair", u)
    BY <1>1, <1>2, UpdateAdvances
  <2>2. u # Failed /\ node' = "tester"
    BY <1>3, <2>1, SMTT(30) DEF Advance, After, Route, Failed
  <2>3. /\ g'.status = g.status /\ g'.plan = g.plan /\ g'.commit = g.commit \union g.pending
        /\ g'.pending = {} /\ g'.done = g.done /\ g'.refs = g.refs
    BY <1>1, <2>1, <2>2, SMTT(30) DEF Advance, After
  <2>4. Progress(node', g', Off)
    BY <1>3, <2>2, <2>3 DEF Progress, Built, Integrating, AllBuilt
  <2> QED BY <2>3, <2>4 DEF Carried, GraphCode
<1> QED BY <1>1, <1>2, <1>3, UpdateKeeps

LEMMA TesterKeeps ==
    ASSUME GraphInv, AtNode("tester"), call.phase = "waiting", NEW v \in {"pass", "fail"},
           Update("tester", Tested(v)), UNCHANGED daemon
    PROVE  GraphInv' /\ Carries("tester")
<1>1. PICK u : u = Tested(v) /\ u = [test |-> [is |-> v, on |-> call.base]]
  BY DEF Tested
<1>2. DOMAIN u = {"test"} /\ DOMAIN u \subseteq Fields
  BY <1>1 DEF Fields
<1>3. ASSUME g.status # "FAILED", Progress("tester", g, Off)
      PROVE  Progress(node', g', Off) /\ (mode = "runtime" => Carried("tester"))
  <2>1. Advance("tester", u)
    BY <1>1, <1>2, UpdateAdvances
  <2>2. /\ g'.status = g.status /\ g'.plan = g.plan /\ g'.commit = g.commit /\ g'.refs = g.refs
        /\ g'.pending = g.pending /\ g'.done = g.done /\ node' = RouteAfterTest(g')
        /\ g'.test = [is |-> v, on |-> call.base]
    BY <1>1, <1>2, <2>1, SMT DEF Advance, After, Route
  <2>3. node' \in {"repair", "failed"} \/ (node' = "reviewer" /\ v = "pass")
    BY <2>2, SMT DEF RouteAfterTest
  <2>4. g'.test.is = v /\ (g'.test.on = g'.commit \/ Off)
    <3>1. call.base = g.commit \/ Off
      BY <1>3 DEF GraphInv, CallIsCurrent
    <3>2. g'.test.is = v /\ g'.test.on = call.base
      BY <2>2, SMT
    <3> QED BY <2>2, <3>1, <3>2
  <2>5. Progress(node', g', Off)
    BY <1>3, <2>2, <2>3, <2>4 DEF Progress, Built, Integrating, AllBuilt
  <2> QED BY <2>2, <2>5 DEF Carried, GraphCode
<1> QED BY <1>1, <1>2, <1>3, UpdateKeeps

LEMMA ReviewerKeeps ==
    ASSUME GraphInv, NEW st, ReviewerReturns(st)
    PROVE  GraphInv' /\ Carries("reviewer")
<1>1. PICK u :
        /\ AtNode("reviewer") /\ Update("reviewer", u) /\ UNCHANGED daemon
        /\ (\E v \in {"approved", "rejected"} : u = [review |-> [is |-> v, on |-> call.base]]) \/ u = Failed
  BY DEF ReviewerReturns, Returned
<1>2. /\ DOMAIN u \subseteq Fields /\ DOMAIN u \subseteq {"review", "status"}
      /\ "status" \in DOMAIN u => u.status = "FAILED"
  BY <1>1, SMT DEF Fields, Failed
<1>3. ASSUME g.status # "FAILED", g'.status # "FAILED", Progress("reviewer", g, Off)
      PROVE  Progress(node', g', Off) /\ (mode = "runtime" => Carried("reviewer"))
  <2>1. Advance("reviewer", u)
    BY <1>1, <1>2, UpdateAdvances
  <2>2. u # Failed
    BY <1>3, <2>1, SMTT(30) DEF Advance, After, Failed
  <2>3. PICK v \in {"approved", "rejected"} : u = [review |-> [is |-> v, on |-> call.base]]
    BY <1>1, <2>2
  <2>4. /\ g'.status = g.status /\ g'.plan = g.plan /\ g'.commit = g.commit /\ g'.refs = g.refs
        /\ g'.pending = g.pending /\ g'.done = g.done /\ g'.test = g.test
        /\ node' = RouteAfterReview(g') /\ g'.review = [is |-> v, on |-> call.base]
    BY <2>1, <2>3 DEF Advance, After, Route
  <2>5. node' \in {"repair", "failed"} \/ (node' = "success" /\ v = "approved")
    BY <2>4, SMT DEF RouteAfterReview
  <2>6. g'.review.is = v /\ (g'.review.on = g'.commit \/ Off)
    <3>1. call.base = g.commit \/ Off
      BY <1>3 DEF ReviewerReturns, Returned, GraphInv, CallIsCurrent
    <3>2. g'.review.is = v /\ g'.review.on = call.base
      BY <2>4, SMT
    <3> QED BY <2>4, <3>1, <3>2
  <2>7. Progress(node', g', Off)
    BY <1>3, <2>4, <2>5, <2>6 DEF Progress, Built, Integrating, AllBuilt
  <2> QED BY <2>4, <2>7 DEF Carried, GraphCode
<1> QED BY <1>1, <1>2, <1>3, UpdateKeeps

LEMMA EndNodesKeep ==
    ASSUME GraphInv, SuccessNode \/ FailedNode
    PROVE  GraphInv' /\ (Carries("success") \/ g'.status = "FAILED")
<1>1. CASE SuccessNode
  <2>1. PICK u : u = [status |-> "SUCCESS"] /\ AtNode("success") /\ Update("success", u) /\ UNCHANGED daemon
    BY <1>1 DEF SuccessNode
  <2>2. DOMAIN u = {"status"} /\ DOMAIN u \subseteq Fields /\ u.status = "SUCCESS"
    BY <2>1 DEF Fields
  <2>3. ASSUME Progress("success", g, Off)
        PROVE  Progress(node', g', Off) /\ (mode = "runtime" => Carried("success"))
    <3>1. Advance("success", u)
      BY <2>1, <2>2, UpdateAdvances
    <3>2. /\ g'.status = "SUCCESS" /\ g'.plan = g.plan /\ g'.commit = g.commit /\ g'.refs = g.refs
          /\ g'.pending = g.pending /\ g'.done = g.done /\ g'.test = g.test /\ g'.review = g.review
          /\ node' = "end"
      BY <2>2, <3>1 DEF Advance, After, Route
    <3>3. Progress(node', g', Off)
      BY <2>3, <3>2 DEF Progress, Built, Integrating, AllBuilt
    <3> QED BY <3>2, <3>3 DEF Carried, GraphCode
  <2> QED BY <2>1, <2>2, <2>3, UpdateKeeps
<1>2. CASE FailedNode
  <2>1. PICK u : u = [status |-> "FAILED"] /\ AtNode("failed") /\ Update("failed", u) /\ UNCHANGED daemon
    BY <1>2 DEF FailedNode, Failed
  <2>2. DOMAIN u = {"status"} /\ DOMAIN u \subseteq Fields /\ u.status = "FAILED"
    BY <2>1 DEF Fields
  <2>3. g'.status = "FAILED"
    BY <2>1, <2>2, UpdateAdvances DEF Advance, After
  <2> QED BY <2>1, <2>2, <2>3, UpdateKeeps
<1> QED BY <1>1, <1>2

-----------------------------------------------------------------------------
(* The steps of the run around its graph.                                  *)
LEMMA CreateKeeps == ASSUME GraphInv, CreateRun PROVE GraphInv'
<1>1. /\ run = "none" /\ run' = "running" /\ file' = Fresh /\ summary' = Created
      /\ UNCHANGED <<mode, node, call, g, told>> /\ node = "planner" /\ call = Idle /\ g = Fresh
      /\ told = "none"
  BY DEF CreateRun, graph, GraphInv, CallIsCurrent, RecordSound
<1>2. CopiesAgree'
  BY <1>1 DEF CopiesAgree, Fresh, Fields
<1>3. CallIsCurrent'
  BY <1>1 DEF GraphInv, CallIsCurrent, Idle
<1>4. GraphSound'
  BY <1>1 DEF GraphSound, Progress, Fresh, Integrating, AllBuilt, Built
<1>5. RecordSound'
  BY <1>1 DEF RecordSound, Fresh, Created
<1> QED BY <1>2, <1>3, <1>4, <1>5 DEF GraphInv

(* Calls start, learn that their task was created and are given a base,    *)
(* whatever the tasks of the daemon do; the state of the graph and its     *)
(* record stay.                                                            *)
LEMMA CallKeeps ==
    ASSUME GraphInv, UNCHANGED <<mode, run, node, g, file, summary, told>>, astray => astray',
           \/ call' = call
           \/ /\ run = "running" /\ node \in Working
              /\ \E ph : call' = [phase |-> ph, key |-> KeyOf(node), base |-> g.commit]
           \/ call.phase # "idle" /\ \E ph : call' = [call EXCEPT !.phase = ph]
           \/ /\ call.phase # "idle"
              /\ \E b : /\ call' = [call EXCEPT !.base = b]
                        /\ \/ b = call.base \/ b = g.commit
                           \/ node \in {"tester", "reviewer"} /\ (g.status = "FAILED" \/ Off)
    PROVE  GraphInv'
<1>1. Off => Off'
  BY DEF Off
<1>2. KeyOf(node)' = KeyOf(node) /\ CallIsCurrent
  BY DEF KeyOf, Step, GraphInv
<1>3. Idle.phase = "idle"
  BY SMT DEF Idle
<1>4. CallIsCurrent'
  <2>1. CASE call' = call
    BY <1>1, <1>2, <2>1 DEF CallIsCurrent
  <2>2. ASSUME run = "running", node \in Working, NEW ph,
               call' = [phase |-> ph, key |-> KeyOf(node), base |-> g.commit]
        PROVE  CallIsCurrent'
    <3>1. DOMAIN call' = {"phase", "key", "base"} /\ call'.key = KeyOf(node) /\ call'.base = g.commit
      BY <2>2
    <3> QED BY <1>2, <2>2, <3>1 DEF CallIsCurrent
  <2>3. ASSUME call.phase # "idle", NEW ph, call' = [call EXCEPT !.phase = ph] PROVE CallIsCurrent'
    <3>1. DOMAIN call' = DOMAIN call /\ call'["key"] = call["key"] /\ call'["base"] = call["base"]
      <4>1. "key" \in DOMAIN call /\ "base" \in DOMAIN call
        BY <1>2 DEF CallIsCurrent
      <4> QED BY <2>3, <4>1
    <3>2. run = "running"
      BY <1>2, <1>3, <2>3 DEF CallIsCurrent
    <3> QED BY <1>1, <1>2, <2>3, <3>1, <3>2 DEF CallIsCurrent
  <2>4. ASSUME call.phase # "idle", NEW b, call' = [call EXCEPT !.base = b],
               \/ b = call.base \/ b = g.commit
               \/ node \in {"tester", "reviewer"} /\ (g.status = "FAILED" \/ Off)
        PROVE  CallIsCurrent'
    <3>1. DOMAIN call' = DOMAIN call /\ call'["key"] = call["key"] /\ call'["base"] = b
      <4>1. "key" \in DOMAIN call /\ "base" \in DOMAIN call
        BY <1>2 DEF CallIsCurrent
      <4> QED BY <2>4, <4>1
    <3>2. run = "running"
      BY <1>2, <1>3, <2>4 DEF CallIsCurrent
    <3> QED BY <1>1, <1>2, <2>4, <3>1, <3>2 DEF CallIsCurrent
  <2> QED BY <2>1, <2>2, <2>3, <2>4
<1>5. CopiesAgree'
  BY DEF GraphInv, CopiesAgree
<1>6. GraphSound'
  BY <1>1 DEF GraphInv, GraphSound, Progress
<1>7. RecordSound'
  BY <1>1 DEF GraphInv, RecordSound, Verified
<1> QED BY <1>4, <1>5, <1>6, <1>7 DEF GraphInv

LEMMA CallStays ==
    ASSUME CallIsCurrent, UNCHANGED <<mode, node, call, g, astray>>, run = "running" => run' = "running"
    PROVE  CallIsCurrent'
<1>1. KeyOf(node)' = KeyOf(node) /\ Off' = Off
  BY DEF KeyOf, Step, Off
<1> QED BY <1>1 DEF CallIsCurrent

(* The graph ends, one way or another.                                     *)
LEMMA GoneKeeps ==
    ASSUME GraphInv, GraphGone, run' # "running", run' # "none", RecordSound', DOMAIN file' = Fields
    PROVE  GraphInv'
<1>1. node' = "planner" /\ call' = Idle /\ g' = Fresh /\ mode' = mode
  BY DEF GraphGone
<1>2. CopiesAgree' /\ CallIsCurrent'
  BY <1>1 DEF GraphInv, CopiesAgree, CallIsCurrent, Fresh, Fields, Idle
<1>3. GraphSound'
  BY <1>1 DEF GraphSound, Progress, Fresh, Integrating, AllBuilt, Built
<1> QED BY <1>2, <1>3 DEF GraphInv

LEMMA ClosingKeeps ==
    ASSUME GraphInv, run = "running", NEW status, Closing(status), astray' = astray,
           status = "FAILED" \/ status = file.status
    PROVE  GraphInv'
<1>1. /\ file' = [file EXCEPT !.status = status] /\ UNCHANGED <<summary, told>> /\ run' = "closing"
      /\ GraphGone /\ Off' = Off
  BY DEF Closing, GraphGone, Off
<1>2. DOMAIN file = Fields /\ file.status = g.status /\ g.status \in {"PENDING", "FAILED", "SUCCESS"}
  BY DEF GraphInv, CopiesAgree, GraphSound, Fields
<1>3. /\ DOMAIN file' = Fields /\ file'.status = status
      /\ \A f \in Fields \ {"status"} : file'[f] = file[f]
  BY <1>1, <1>2 DEF Fields
<1>4. Verified(file, Off) => Verified(file', Off)
  <2>1. /\ file'.test = file.test /\ file'.review = file.review /\ file'.commit = file.commit
        /\ file'.refs = file.refs /\ file'.plan = file.plan
    BY <1>3 DEF Fields
  <2> QED BY <2>1 DEF Verified
<1>5. RecordSound'
  BY <1>1, <1>2, <1>3, <1>4 DEF GraphInv, RecordSound
<1> QED BY <1>1, <1>3, <1>5, GoneKeeps

LEMMA SummarizeKeeps == ASSUME GraphInv, Summarize PROVE GraphInv'
<1>1. /\ run = "closing" /\ run' = "done" /\ summary' = SummaryOf(file, Created)
      /\ UNCHANGED <<mode, node, call, g, file, told, astray>> /\ Off' = Off
  BY DEF Summarize, graph, daemon, service, Off
<1>2. CopiesAgree' /\ CallIsCurrent' /\ GraphSound'
  BY <1>1, CallStays DEF GraphInv, CopiesAgree, GraphSound
<1>3. RecordSound'
  BY <1>1, SMTT(30) DEF GraphInv, RecordSound, SummaryOf, Verified
<1> QED BY <1>2, <1>3 DEF GraphInv

(* A poll answers FAILED and INTERRUPTED only out of graph_state.json, or  *)
(* writes INTERRUPTED there as it answers it.                              *)
LEMMA GetKeeps ==
    ASSUME GraphInv, GetRun
    PROVE  GraphInv' /\ (told \in {"FAILED", "INTERRUPTED"} => told' = told)
<1>1. /\ run \notin {"none", "closing", "deleted"} /\ UNCHANGED <<mode, node, call, g, run, astray>>
      /\ file' = IF Lost THEN [file EXCEPT !.status = "INTERRUPTED"] ELSE file
      /\ summary' = IF Lost THEN [Shown EXCEPT !.status = "INTERRUPTED"] ELSE Shown
      /\ told' = IF summary'.status \in Over THEN summary'.status ELSE told
      /\ DOMAIN file = Fields /\ Off' = Off
  BY DEF GetRun, Serving, graph, daemon, service, Off, GraphInv, CopiesAgree
<1>2. /\ {"status", "test", "review"} \subseteq DOMAIN Shown
      /\ file.status \in Over => Shown.status = file.status
      /\ file.status \notin Over => Shown = summary
  BY DEF Shown, SummaryOf, GraphInv, RecordSound
<1>3. Shown.status = "SUCCESS" =>
        file.status = "SUCCESS" /\ Shown.test = "pass" /\ Shown.review = "approved"
  BY SMTT(30) DEF Shown, SummaryOf, Verified, GraphInv, RecordSound, Over
<1>4. Shown.status \in {"FAILED", "INTERRUPTED"} => file.status = Shown.status
  BY <1>2 DEF GraphInv, RecordSound, Over
<1>5. CASE Lost
  <2>1. /\ Shown.status = "CREATED" /\ run # "running" /\ DOMAIN file' = Fields
        /\ file'.status = "INTERRUPTED" /\ summary'.status = "INTERRUPTED"
        /\ {"status", "test", "review"} \subseteq DOMAIN summary'
    BY <1>1, <1>2, <1>5 DEF Lost, Fields
  <2>2. told' = "INTERRUPTED" /\ told \notin {"FAILED", "INTERRUPTED"}
    BY <1>1, <1>2, <2>1 DEF Over, GraphInv, RecordSound
  <2>3. CopiesAgree' /\ CallIsCurrent' /\ GraphSound'
    BY <1>1, <2>1, CallStays DEF GraphInv, CopiesAgree, GraphSound
  <2>4. RecordSound'
    BY <1>1, <2>1, <2>2 DEF RecordSound
  <2> QED BY <2>2, <2>3, <2>4 DEF GraphInv
<1>6. CASE ~Lost
  <2>1. file' = file /\ summary' = Shown
    BY <1>1, <1>6
  <2>2. told \in {"FAILED", "INTERRUPTED"} => told' = told
    BY <1>1, <1>2, <2>1 DEF GraphInv, RecordSound, Over
  <2>3. told' \in {"FAILED", "INTERRUPTED"} => file.status = told'
    BY <1>1, <1>4, <2>1 DEF GraphInv, RecordSound, Over
  <2>4. CopiesAgree' /\ CallIsCurrent' /\ GraphSound'
    BY <1>1, <2>1, CallStays DEF GraphInv, CopiesAgree, GraphSound
  <2>5. RecordSound'
    BY <1>1, <1>2, <1>3, <1>4, <2>1, <2>3 DEF GraphInv, RecordSound
  <2> QED BY <2>2, <2>4, <2>5 DEF GraphInv
<1> QED BY <1>5, <1>6

(* Cancellation, deletion and a crash leave the record alone or remove it. *)
LEMMA LeaveKeeps ==
    ASSUME GraphInv, CancelRun \/ PurgeCancelled \/ DeleteRun \/ Crash
    PROVE  GraphInv' /\ told' = told
<1>1. CASE CancelRun \/ Crash
  <2>1. /\ GraphGone /\ UNCHANGED <<file, summary, told>> /\ run' \notin {"running", "none"}
        /\ (run = "deleted" => run' = "deleted") /\ Off' = Off
    <3>1. mode' = mode /\ astray' = astray
      BY <1>1 DEF CancelRun, Crash, daemon, service, GraphGone
    <3> QED BY <1>1, <3>1 DEF CancelRun, Crash, store, Off
  <2>2. RecordSound' /\ DOMAIN file' = Fields
    BY <2>1 DEF GraphInv, RecordSound, CopiesAgree
  <2> QED BY <2>1, <2>2, GoneKeeps
<1>2. CASE PurgeCancelled \/ DeleteRun
  <2>1. /\ UNCHANGED <<mode, node, call, g, told, astray>> /\ Off' = Off
        /\ run \in {"cancelling", "done", "cancelled", "lost"}
        /\ \/ UNCHANGED <<file, summary>> /\ run' \in {"lost", "cancelled"}
           \/ run' = "deleted" /\ file' = Fresh /\ summary' = Created
    <3>1. /\ UNCHANGED <<mode, node, call, g, told, astray>>
          /\ run \in {"cancelling", "done", "cancelled", "lost"}
      BY <1>2 DEF PurgeCancelled, DeleteRun, Purge, graph, service
    <3>2. \/ UNCHANGED <<file, summary>> /\ run' \in {"lost", "cancelled"}
          \/ run' = "deleted" /\ file' = Fresh /\ summary' = Created
      BY <1>2 DEF PurgeCancelled, DeleteRun, Purge, PurgeAll, PurgeStops, store
    <3> QED BY <3>1, <3>2 DEF Off
  <2>2. CopiesAgree' /\ CallIsCurrent' /\ GraphSound'
    BY <2>1, CallStays DEF GraphInv, CopiesAgree, GraphSound, Fresh, Fields
  <2>3. CASE UNCHANGED <<file, summary>>
    BY <2>1, <2>2, <2>3 DEF GraphInv, RecordSound
  <2>4. CASE run' = "deleted" /\ file' = Fresh /\ summary' = Created
    BY <2>1, <2>2, <2>4 DEF GraphInv, RecordSound, Fresh, Created
  <2> QED BY <2>1, <2>3, <2>4
<1> QED BY <1>1, <1>2

-----------------------------------------------------------------------------
(* A task starts: a tester or reviewer of a graph that the daemon follows  *)
(* is given the commit of that graph.                                      *)
LEMMA DispatchKeeps == ASSUME IndInv, NEW k \in DOMAIN rt, Dispatch(k) PROVE GraphInv'
<1>1. /\ UNCHANGED <<mode, run, node, g, file, summary, told, astray>>
      /\ call' = IF call.phase = "waiting" /\ call.key = k THEN [call EXCEPT !.base = WorksOn(k, call.base)]
                 ELSE call
      /\ GraphInv /\ CallIsCurrent
  BY DEF Dispatch, KeepRest, store, service, IndInv, GraphInv
<1>2. CASE ~(call.phase = "waiting" /\ call.key = k)
  BY <1>1, <1>2, CallKeeps
<1>3. CASE call.phase = "waiting" /\ call.key = k
  <2> DEFINE b == WorksOn(k, call.base)
  <2>1. call' = [call EXCEPT !.base = b] /\ call.phase # "idle"
    BY <1>1, <1>3
  <2>2. k[1] = node /\ run = "running"
    <3>1. k = KeyOf(node)
      BY <1>1, <1>3 DEF CallIsCurrent
    <3>2. Idle.phase = "idle"
      BY SMT DEF Idle
    <3> QED BY <1>1, <1>3, <3>1, <3>2, KeyParts DEF CallIsCurrent
  <2>3. b = call.base \/ (b = merged /\ node \in {"tester", "reviewer"})
    BY <2>2 DEF WorksOn
  <2>4. ASSUME node \in {"tester", "reviewer"}, g.status # "FAILED", ~Off PROVE merged = g.commit
    <3>1. mode = "runtime"
      BY <1>1 DEF CallIsCurrent, IndInv, Quiet, NoTask
    <3>2. Followed
      BY <2>2, <2>4, <3>1 DEF IndInv, Following, Off
    <3>3. ~Landed
      BY <1>3, <2>2, <2>4 DEF Landed, GraphCode
    <3>4. g.pending = {}
      BY <1>1, <2>4 DEF GraphInv, GraphSound, Progress, Integrating
    <3> QED BY <3>2, <3>3, <3>4 DEF Followed
  <2>5. \/ b = call.base \/ b = g.commit
        \/ node \in {"tester", "reviewer"} /\ (g.status = "FAILED" \/ Off)
    BY <2>3, <2>4
  <2> HIDE DEF b
  <2> QED BY <1>1, <2>1, <2>5, CallKeeps
<1> QED BY <1>2, <1>3

LEMMA TaskStepKeeps == ASSUME IndInv, TaskStep PROVE GraphInv' /\ told' = told
<1>1. PICK k \in DOMAIN rt :
        \/ Dispatch(k) \/ AttemptFails(k) \/ Retry(k) \/ FinishCancelled(k)
        \/ Succeed(k) \/ Fail(k) \/ CreateRepair(k)
  BY DEF TaskStep
<1>2. UNCHANGED <<mode, run, node, g, file, summary, told>> /\ (Dispatch(k) \/ call' = call)
  BY <1>1 DEF Dispatch, AttemptFails, Retry, FinishCancelled, Succeed, Fail, CreateRepair, Ends,
              KeepRest, store
<1>3. astray => astray'
  BY <1>1 DEF Dispatch, AttemptFails, Retry, FinishCancelled, Succeed, Fail, CreateRepair, service
<1> QED BY <1>2, <1>3, DispatchKeeps, CallKeeps DEF IndInv

-----------------------------------------------------------------------------
(* The daemon follows the graph: one lemma for each kind of step that can  *)
(* change what Followed speaks of.                                         *)
LEMMA UpdateFollows ==
    ASSUME IndInv, NEW n, AtNode(n), n \in Working => call.phase = "waiting", NEW u, Update(n, u),
           UNCHANGED daemon, Carries(n), Following'
    PROVE  Followed'
<1>1. /\ call' = Idle /\ mode = "runtime" /\ run = "running" /\ node = n /\ CallIsCurrent
      /\ UNCHANGED <<merged, threads, execs, rt, known>> /\ ~astray
  BY DEF Update, AtNode, daemon, service, Following, IndInv, GraphInv
<1>2. g.status # "FAILED" /\ Carried(n) /\ Followed
  BY <1>1 DEF Carries, Following, IndInv
<1>3. Idle.phase = "idle"
  BY SMT DEF Idle
<1>4. call.phase # "submitting" /\ (call.phase = "waiting" => call.key[1] = n)
  <2>1. call.phase # "idle" => n \in Working /\ call.key = KeyOf(n)
    BY <1>1 DEF CallIsCurrent
  <2>2. "submitting" # "idle" /\ "submitting" # "waiting" /\ "waiting" # "idle"
    OBVIOUS
  <2> QED BY <2>1, <2>2, KeyParts
<1>5. n \in GraphCode <=> Landed
  BY <1>2, <1>4 DEF Carried, Landed
<1>6. merged' = g'.commit \union g'.pending
  BY <1>1, <1>2, <1>5 DEF Carried, Followed
<1>7. ~Landed'
  BY <1>1, <1>3 DEF Landed
<1>8. ASSUME NEW k \in threads \union execs \union DOMAIN rt, k[1] \in GraphCode PROVE Applied(k)'
  <2>1. Applied(k) \/ UnderWay(k)
    BY <1>2, <1>8 DEF Followed
  <2>2. CASE Applied(k)
    BY <1>1, <1>4, <2>2 DEF Applied
  <2>3. CASE UnderWay(k)
    <3>1. Landed /\ k = call.key /\ k \notin threads
      BY <1>4, <1>5, <1>8, <2>3 DEF UnderWay
    <3>2. rt[k] = "SUCCESS" /\ k \notin execs /\ PatchOf(k) \in merged
      BY <1>2, <2>3, <3>1 DEF UnderWay, Landed, Followed
    <3> QED BY <1>1, <3>1, <3>2 DEF Applied
  <2> QED BY <2>1, <2>2, <2>3
<1> QED BY <1>1, <1>2, <1>6, <1>7, <1>8 DEF Followed

(* A call starts, and its task is created.                                 *)
LEMMA StartFollows == ASSUME IndInv, StartCall, Following' PROVE Followed'
<1>1. /\ UNCHANGED <<g, merged, execs, rt, known>> /\ mode = "runtime" /\ call.phase = "idle"
      /\ call'.phase = "submitting" /\ threads' = threads \union {call'.key} /\ Followed
  <2>1. Idle.phase = "idle"
    BY SMT DEF Idle
  <2>2. /\ UNCHANGED <<g, merged, execs, rt, known, astray, mode, run>> /\ call = Idle /\ mode = "runtime"
    BY DEF StartCall, service, Following
  <2>3. /\ call' = [phase |-> "submitting", key |-> KeyOf(node), base |-> g.commit]
        /\ threads' = threads \union {KeyOf(node)}
    BY <2>2, SMT DEF StartCall
  <2>4. call'.phase = "submitting" /\ call'.key = KeyOf(node)
    BY <2>3, SMT
  <2> QED BY <2>1, <2>2, <2>3, <2>4 DEF IndInv, Following
<1>2. ~Landed /\ ~Landed'
  BY <1>1 DEF Landed
<1>3. ASSUME NEW k, k \in (threads \union execs \union DOMAIN rt)', k[1] \in GraphCode
      PROVE  Applied(k)'
  <2>1. CASE k \in threads \union execs \union DOMAIN rt
    <3>1. Applied(k) /\ k \notin threads
      BY <1>1, <1>3, <2>1 DEF Followed, UnderWay, Applied
    <3> QED BY <1>1, <3>1 DEF Applied
  <2>2. CASE k \notin threads \union execs \union DOMAIN rt
    BY <1>1, <1>3, <2>2 DEF Applied
  <2> QED BY <2>1, <2>2
<1> QED BY <1>1, <1>2, <1>3 DEF Followed

LEMMA CreatedFollows ==
    ASSUME IndInv, NEW k \in threads, TaskCreated(k), Following'
    PROVE  Followed'
<1>1. /\ UNCHANGED <<g, merged, execs>> /\ threads' = threads \ {k} /\ known' = known \union {k}
      /\ DOMAIN rt' = DOMAIN rt \union {k} /\ rt'[k] = "READY"
      /\ \A j \in DOMAIN rt \ {k} : rt'[j] = rt[j]
      /\ Followed /\ CallIsCurrent
  BY DEF TaskCreated, service, With, Following, IndInv, GraphInv
<1>2. IF call.phase = "submitting" /\ call.key = k THEN call'.phase = "waiting" /\ call'.key = k
      ELSE call' = call
  <2>1. "phase" \in DOMAIN call /\ "key" \in DOMAIN call /\ "phase" # "key"
    BY <1>1 DEF CallIsCurrent
  <2>2. ASSUME call' = [call EXCEPT !["phase"] = "waiting"] PROVE call'["phase"] = "waiting" /\ call'["key"] = call["key"]
    BY <2>1, <2>2
  <2> QED BY <2>2 DEF TaskCreated
<1>3. k[1] \in GraphCode => call.phase = "submitting" /\ call.key = k
  BY <1>1 DEF Followed, Applied, UnderWay
<1>4. Landed' <=> Landed
  BY <1>1, <1>2, <1>3 DEF Landed, Followed
<1>5. ASSUME NEW j, j \in (threads \union execs \union DOMAIN rt)', j[1] \in GraphCode
      PROVE  Applied(j)' \/ UnderWay(j)'
  <2>1. CASE j = k
    <3>1. call'.phase = "waiting" /\ call'.key = k /\ k \notin threads' /\ k \in DOMAIN rt' /\ rt'[k] # "SUCCESS"
      BY <1>1, <1>2, <1>3, <1>5, <2>1
    <3> QED BY <2>1, <3>1 DEF UnderWay
  <2>2. CASE j # k
    <3>1. Applied(j) \/ UnderWay(j)
      BY <1>1, <1>5, <2>2 DEF Followed
    <3>2. CASE Applied(j)
      BY <1>1, <1>2, <2>2, <3>2 DEF Applied
    <3>3. CASE UnderWay(j)
      BY <1>1, <1>2, <2>2, <3>3 DEF UnderWay
    <3> QED BY <3>1, <3>2, <3>3
  <2> QED BY <2>1, <2>2
<1>6. ASSUME NEW j \in known', j[1] = "own_repair" PROVE rt'[j] # "SUCCESS"
  BY <1>1, <1>6 DEF Followed
<1>7. merged' = (g'.commit \union g'.pending) \union (IF Landed' THEN {PatchOf(call'.key)} ELSE {})
  BY <1>1, <1>2, <1>4 DEF Followed, Landed
<1>8. known' \subseteq DOMAIN rt'
  BY <1>1 DEF Followed
<1> QED BY <1>5, <1>6, <1>7, <1>8 DEF Followed

(* A task k moves on, or ends without an integration; other tasks of the   *)
(* graph stay as they are.                                                 *)
LEMMA TaskFollows ==
    ASSUME Followed, UNCHANGED <<g, merged, threads>>, call'.phase = call.phase, call'.key = call.key,
           NEW k \in DOMAIN rt,
           DOMAIN rt \subseteq DOMAIN rt', execs' \subseteq execs \union {k}, execs \subseteq execs' \union {k},
           known' \subseteq DOMAIN rt',
           \A j \in DOMAIN rt' : j[1] \in GraphCode => j \in DOMAIN rt /\ (j \in known' <=> j \in known),
           \A j \in DOMAIN rt \ {k} : j[1] \in GraphCode => (rt'[j] = "SUCCESS" <=> rt[j] = "SUCCESS"),
           k[1] \in GraphCode => (k \in execs \/ rt[k] # "SUCCESS") /\ rt'[k] # "SUCCESS",
           \A j \in known' : j[1] = "own_repair" => rt'[j] # "SUCCESS"
    PROVE  Followed'
<1>1. k[1] \in GraphCode => UnderWay(k) /\ rt[k] # "SUCCESS"
  BY DEF Followed, Applied, UnderWay
<1>2. Landed' <=> Landed
  <2>1. call.key \in known => call.key \in DOMAIN rt
    BY DEF Followed
  <2> QED BY <1>1, <2>1 DEF Landed
<1>3. merged' = (g'.commit \union g'.pending) \union (IF Landed' THEN {PatchOf(call'.key)} ELSE {})
  BY <1>2 DEF Followed
<1>4. ASSUME NEW j, j \in (threads \union execs \union DOMAIN rt)', j[1] \in GraphCode
      PROVE  Applied(j)' \/ UnderWay(j)'
  <2>1. CASE j = k
    BY <1>1, <1>4, <2>1 DEF UnderWay
  <2>2. CASE j # k
    <3>1. j \in threads \union execs \union DOMAIN rt
      BY <1>4, <2>2
    <3>2. Applied(j) \/ UnderWay(j)
      BY <1>4, <3>1 DEF Followed
    <3>3. CASE Applied(j)
      BY <1>4, <2>2, <3>3 DEF Applied
    <3>4. CASE UnderWay(j)
      BY <1>4, <2>2, <3>4 DEF UnderWay
    <3> QED BY <3>2, <3>3, <3>4
  <2> QED BY <2>1, <2>2
<1> QED BY <1>3, <1>4 DEF Followed

(* What Settled makes of the statuses of the tasks.                        *)
LEMMA SettledStatuses ==
    ASSUME NEW k \in DOMAIN rt, NEW st, NEW d \in {"READY", "FAILED"}
    PROVE  /\ DOMAIN Settled(k, st, d) = DOMAIN rt /\ Settled(k, st, d)[k] = st
           /\ \A j \in DOMAIN rt \ {k} : Settled(k, st, d)[j] = "SUCCESS" <=> rt[j] = "SUCCESS"
<1>1. DOMAIN Settled(k, st, d) = DOMAIN rt /\ Settled(k, st, d)[k] = st
  BY DEF Settled
<1>2. \A j \in DOMAIN rt \ {k} : Settled(k, st, d)[j] = IF Awaits(j, k) THEN d ELSE rt[j]
  BY DEF Settled
<1>3. \A j : Awaits(j, k) => rt[j] # "SUCCESS"
  BY DEF Awaits
<1> QED BY <1>1, <1>2, <1>3

LEMMA MoveFollows ==
    ASSUME IndInv, NEW k \in DOMAIN rt, Following',
           Dispatch(k) \/ AttemptFails(k) \/ Retry(k) \/ FinishCancelled(k) \/ Fail(k)
    PROVE  Followed'
<1>1. /\ UNCHANGED <<g, merged, threads, known>> /\ Followed /\ CallIsCurrent
      /\ execs' \subseteq execs \union {k} /\ execs \subseteq execs' \union {k}
  BY DEF Dispatch, AttemptFails, Retry, FinishCancelled, Fail, Ends, KeepRest, service, Following,
         IndInv, GraphInv
<1>2. call'.phase = call.phase /\ call'.key = call.key
  <2>1. call' = call \/ \E b : call' = [call EXCEPT !["base"] = b]
    BY DEF Dispatch, AttemptFails, Retry, FinishCancelled, Fail, Ends
  <2>2. "phase" \in DOMAIN call /\ "key" \in DOMAIN call /\ "phase" # "base" /\ "key" # "base"
    BY <1>1 DEF CallIsCurrent
  <2>3. ASSUME NEW b, call' = [call EXCEPT !["base"] = b]
        PROVE  call'["phase"] = call["phase"] /\ call'["key"] = call["key"]
    BY <2>2, <2>3
  <2> QED BY <2>1, <2>3
<1>3. /\ DOMAIN rt' = DOMAIN rt /\ rt'[k] # "SUCCESS" /\ (k \in execs \/ rt[k] # "SUCCESS")
      /\ \A j \in DOMAIN rt \ {k} : rt'[j] = "SUCCESS" <=> rt[j] = "SUCCESS"
  <2>1. CASE Fail(k)
    <3>1. rt' = Settled(k, "FAILED", "FAILED") /\ k \in execs
      BY <2>1 DEF Fail, Ends
    <3> QED BY <3>1, SettledStatuses, SMT
  <2>2. CASE AttemptFails(k)
    BY <2>2 DEF AttemptFails
  <2>3. CASE Dispatch(k) \/ Retry(k) \/ FinishCancelled(k)
    BY <2>3 DEF Dispatch, Retry, FinishCancelled, Ends
  <2> QED BY <2>1, <2>2, <2>3
<1>4. \A j \in known' : j[1] = "own_repair" => rt'[j] # "SUCCESS"
  BY <1>1, <1>3 DEF Followed
<1>5. known' \subseteq DOMAIN rt'
  BY <1>1, <1>3 DEF Followed
<1> QED BY <1>1, <1>2, <1>3, <1>4, <1>5, TaskFollows

LEMMA OwnKeys == ASSUME NEW n PROVE OwnRepair(n)[1] = "own_repair" /\ OwnTester(n)[1] = "own_tester"
BY SMT DEF OwnRepair, OwnTester

(* A failed tester makes the daemon start a round of its own.              *)
LEMMA RoundFollows ==
    ASSUME IndInv, NEW k \in DOMAIN rt, CreateRepair(k), Following'
    PROVE  Followed'
<1> DEFINE n == crashes * MaxOwnRounds + own + 1
           r == OwnRepair(n)
           t == OwnTester(n)
           settled == Settled(k, "FAILED", "FAILED")
<1>1. /\ UNCHANGED <<g, merged, threads, call>> /\ Followed /\ k[1] \in {"tester", "own_tester"}
      /\ execs' \subseteq execs \union {k} /\ execs \subseteq execs' \union {k}
      /\ known' = known \union {r, t}
  BY DEF CreateRepair, Ends, KeepRest, Following, IndInv
<1>2. rt' = With(settled, [j \in {r, t} |-> IF j = r THEN "READY" ELSE "PENDING"])
  BY DEF CreateRepair
<1>3. r[1] = "own_repair" /\ t[1] = "own_tester"
  BY OwnKeys
<1>4. /\ DOMAIN settled = DOMAIN rt /\ settled[k] = "FAILED"
      /\ \A j \in DOMAIN rt \ {k} : settled[j] = "SUCCESS" <=> rt[j] = "SUCCESS"
  BY SettledStatuses, SMT
<1> HIDE DEF n, r, t, settled
<1>5. /\ DOMAIN rt' = DOMAIN rt \union {r, t}
      /\ \A j \in DOMAIN rt \ {r, t} : rt'[j] = settled[j]
      /\ rt'[r] # "SUCCESS" /\ rt'[t] # "SUCCESS"
  BY <1>2, <1>4 DEF With
<1>6. ASSUME NEW j \in known', j[1] = "own_repair" PROVE rt'[j] # "SUCCESS"
  BY <1>1, <1>4, <1>5, <1>6 DEF Followed
<1>7. known' \subseteq DOMAIN rt'
  BY <1>1, <1>5 DEF Followed
<1>8. /\ \A j \in DOMAIN rt' : j[1] \in GraphCode => j \in DOMAIN rt /\ (j \in known' <=> j \in known)
      /\ \A j \in DOMAIN rt \ {k} : j[1] \in GraphCode => (rt'[j] = "SUCCESS" <=> rt[j] = "SUCCESS")
      /\ k[1] \notin GraphCode
  BY <1>1, <1>3, <1>4, <1>5 DEF GraphCode
<1> QED BY <1>1, <1>5, <1>6, <1>7, <1>8, TaskFollows

(* A task succeeds; the patch of a coder or repair goes into the           *)
(* integration of the daemon, or the daemon has gone astray.               *)
LEMMA SucceedFollows ==
    ASSUME IndInv, NEW k \in DOMAIN rt, Succeed(k), Following'
    PROVE  Followed'
<1>1. /\ UNCHANGED <<g, call, threads, known, run>> /\ Followed /\ CallIsCurrent /\ run = "running"
      /\ k \in execs /\ execs' = execs \ {k} /\ rt[k] = "RUNNING" /\ rt' = Settled(k, "SUCCESS", "READY")
  BY DEF Succeed, Ends, KeepRest, Following, IndInv, GraphInv
<1>2. /\ DOMAIN rt' = DOMAIN rt /\ rt'[k] = "SUCCESS"
      /\ \A j \in DOMAIN rt \ {k} : rt'[j] = "SUCCESS" <=> rt[j] = "SUCCESS"
  BY <1>1, SettledStatuses, SMT
<1>3. CASE k[1] \notin Code
  <2>1. merged' = merged
    BY <1>3 DEF Succeed
  <2>2. k[1] \notin GraphCode /\ k[1] # "own_repair"
    BY <1>3 DEF Code, GraphCode
  <2>3. \A j \in known' : j[1] = "own_repair" => rt'[j] # "SUCCESS"
    BY <1>1, <1>2, <2>2 DEF Followed
  <2>4. known' \subseteq DOMAIN rt'
    BY <1>1, <1>2 DEF Followed
  <2> QED BY <1>1, <1>2, <2>1, <2>2, <2>3, <2>4, TaskFollows
<1>4. CASE k[1] \in Code
  <2>1. /\ merged' \in IntegrateRootPatches(k, Unapplied(rt')) /\ merged' # merged /\ k[1] # "own_repair"
    BY <1>1, <1>4 DEF Succeed, Following
  <2>2. k[1] \in GraphCode
    BY <1>4, <2>1 DEF Code, GraphCode
  <2>3. UnderWay(k) /\ k = call.key /\ call.phase = "waiting"
    BY <1>1, <2>2 DEF Followed, Applied, UnderWay
  <2>4. merged = g.commit \union g.pending /\ k[4] = g.commit
    <3>1. ~Landed
      BY <1>1, <2>3 DEF Landed
    <3>2. k = KeyOf(node)
      BY <1>1, <2>3 DEF CallIsCurrent
    <3> QED BY <1>1, <3>1, <3>2, KeyParts DEF Followed
  <2>5. Unapplied(rt') \subseteq {PatchOf(k)} /\ (Unapplied(rt') # {} => k \in known)
    <3> SUFFICES ASSUME NEW p \in Unapplied(rt') PROVE p = PatchOf(k) /\ k \in known
      OBVIOUS
    <3>1. PICK j \in known : j[1] \in Code /\ rt'[j] = "SUCCESS" /\ p = PatchOf(j) /\ p \notin merged
      BY DEF Unapplied
    <3>2. ASSUME j # k PROVE FALSE
      <4>1. j \in DOMAIN rt /\ rt[j] = "SUCCESS"
        BY <1>1, <1>2, <3>1, <3>2 DEF Followed
      <4>2. j[1] \in GraphCode
        BY <1>1, <3>1, <4>1 DEF Followed, Code, GraphCode
      <4> QED BY <1>1, <2>3, <3>1, <3>2, <4>1, <4>2 DEF Followed, Applied, UnderWay
    <3> QED BY <3>1, <3>2
  <2>6. Unapplied(rt') # {} /\ (merged' = merged \union Unapplied(rt') \/ (merged = {} /\ merged' = g.commit \union Unapplied(rt')))
    <3> DEFINE base == IF merged # {} THEN merged ELSE k[4]
    <3>1. Unapplied(rt') # {} /\ merged' = base \union Unapplied(rt')
      BY <2>1 DEF IntegrateRootPatches
    <3> QED BY <2>4, <3>1
  <2>7. Unapplied(rt') = {PatchOf(k)} /\ k \in known
    BY <2>5, <2>6
  <2>8. merged' = (g.commit \union g.pending) \union {PatchOf(k)}
    BY <2>4, <2>6, <2>7
  <2>9. Landed'
    BY <1>1, <1>2, <2>2, <2>3, <2>7 DEF Landed
  <2>10. merged' = (g'.commit \union g'.pending) \union (IF Landed' THEN {PatchOf(call'.key)} ELSE {})
    BY <1>1, <2>3, <2>8, <2>9
  <2>11. ASSUME NEW j, j \in (threads \union execs \union DOMAIN rt)', j[1] \in GraphCode
         PROVE  Applied(j)' \/ UnderWay(j)'
    <3>1. CASE j = k
      BY <1>1, <2>3, <3>1 DEF UnderWay
    <3>2. CASE j # k
      <4>1. Applied(j)
        BY <1>1, <1>2, <2>3, <2>11, <3>2 DEF Followed, UnderWay
      <4> QED BY <1>1, <1>2, <2>4, <2>8, <3>2, <4>1 DEF Applied
    <3> QED BY <3>1, <3>2
  <2>12. \A j \in known' : j[1] = "own_repair" => rt'[j] # "SUCCESS"
    BY <1>1, <1>2, <2>1 DEF Followed
  <2>13. known' \subseteq DOMAIN rt'
    BY <1>1, <1>2 DEF Followed
  <2> QED BY <2>10, <2>11, <2>12, <2>13 DEF Followed
<1> QED BY <1>3, <1>4

-----------------------------------------------------------------------------
(* The nodes of the graph keep the invariant, and the daemon follows them. *)
LEMMA ReturnsKeep ==
    ASSUME IndInv, NEW s \in Statuses,
           PlannerReturns(s) \/ CoderReturns(s) \/ RepairReturns(s) \/ TesterReturns(s) \/ ReviewerReturns(s)
    PROVE  GraphInv' /\ (Following' => Followed') /\ told' = told
<1>1. GraphInv /\ told' = told
  BY DEF IndInv, PlannerReturns, CoderReturns, RepairReturns, TesterReturns, ReviewerReturns, Update
<1>2. PICK n \in Working : \E u : /\ AtNode(n) /\ call.phase = "waiting" /\ Update(n, u) /\ UNCHANGED daemon
                                  /\ GraphInv' /\ Carries(n)
  <2>1. CASE PlannerReturns(s)
    <3>1. \E u : AtNode("planner") /\ call.phase = "waiting" /\ Update("planner", u) /\ UNCHANGED daemon
      BY <2>1 DEF PlannerReturns, Returned
    <3> QED BY <1>1, <2>1, <3>1, PlannerKeeps DEF Working
  <2>2. CASE CoderReturns(s)
    <3>1. \E u : AtNode("coder") /\ call.phase = "waiting" /\ Update("coder", u) /\ UNCHANGED daemon
      BY <2>2 DEF CoderReturns, Returned
    <3> QED BY <1>1, <2>2, <3>1, CoderKeeps DEF Working
  <2>3. CASE RepairReturns(s)
    <3>1. \E u : AtNode("repair") /\ call.phase = "waiting" /\ Update("repair", u) /\ UNCHANGED daemon
      BY <2>3 DEF RepairReturns, Returned
    <3> QED BY <1>1, <2>3, <3>1, RepairKeeps DEF Working
  <2>4. CASE TesterReturns(s)
    <3>1. PICK v \in {"pass", "fail"} :
            AtNode("tester") /\ call.phase = "waiting" /\ Update("tester", Tested(v)) /\ UNCHANGED daemon
      BY <2>4 DEF TesterReturns, Returned
    <3> QED BY <1>1, <3>1, TesterKeeps DEF Working
  <2>5. CASE ReviewerReturns(s)
    <3>1. \E u : AtNode("reviewer") /\ call.phase = "waiting" /\ Update("reviewer", u) /\ UNCHANGED daemon
      BY <2>5 DEF ReviewerReturns, Returned
    <3> QED BY <1>1, <2>5, <3>1, ReviewerKeeps DEF Working
  <2> QED BY <2>1, <2>2, <2>3, <2>4, <2>5
<1> QED BY <1>1, <1>2, UpdateFollows

LEMMA NodesKeep ==
    ASSUME IndInv,
           SelectCoder \/ IntegrateCoder \/ IntegrateRepair \/ SuccessNode \/ FailedNode \/ TesterGivesUp
    PROVE  GraphInv' /\ (Following' => Followed') /\ told' = told
<1>1. GraphInv /\ told' = told
  BY DEF IndInv, SelectCoder, IntegrateCoder, IntegrateRepair, SuccessNode, FailedNode, TesterGivesUp, Update
<1>2. CASE TesterGivesUp
  <2>1. AtNode("tester") /\ call.phase = "waiting" /\ Update("tester", Tested("fail")) /\ UNCHANGED daemon
    BY <1>2 DEF TesterGivesUp
  <2>2. GraphInv' /\ Carries("tester")
    BY <1>1, <2>1, TesterKeeps
  <2> QED BY <1>1, <2>1, <2>2, UpdateFollows
<1>3. CASE SelectCoder \/ IntegrateCoder \/ IntegrateRepair
  <2>1. PICK n \in {"select_coder", "integrate_coder", "integrate_repair"} :
          \E u : AtNode(n) /\ Update(n, u) /\ UNCHANGED daemon /\ GraphInv' /\ Carries(n)
    <3>1. SelectCoder => \E u : AtNode("select_coder") /\ Update("select_coder", u) /\ UNCHANGED daemon
      BY DEF SelectCoder
    <3>2. IntegrateCoder => \E u : AtNode("integrate_coder") /\ Update("integrate_coder", u) /\ UNCHANGED daemon
      BY DEF IntegrateCoder
    <3>3. IntegrateRepair => \E u : AtNode("integrate_repair") /\ Update("integrate_repair", u) /\ UNCHANGED daemon
      BY DEF IntegrateRepair
    <3> QED BY <1>1, <1>3, <3>1, <3>2, <3>3, SelectKeeps, IntegrateCoderKeeps, IntegrateRepairKeeps
  <2>2. n \notin Working
    BY <2>1 DEF Working
  <2> QED BY <1>1, <2>1, <2>2, UpdateFollows
<1>4. CASE SuccessNode \/ FailedNode
  <2>1. GraphInv' /\ (Carries("success") \/ g'.status = "FAILED")
    BY <1>1, <1>4, EndNodesKeep
  <2>2. CASE g'.status = "FAILED"
    BY <1>1, <2>1, <2>2 DEF Following
  <2>3. CASE SuccessNode /\ g'.status # "FAILED"
    <3>1. AtNode("success") /\ Update("success", [status |-> "SUCCESS"]) /\ UNCHANGED daemon
      BY <2>3 DEF SuccessNode
    <3>2. "success" \notin Working
      BY DEF Working
    <3> QED BY <1>1, <2>1, <2>3, <3>1, <3>2, UpdateFollows
  <2>4. CASE FailedNode
    <3>1. GraphInv /\ AtNode("failed") /\ Update("failed", Failed)
      BY <1>1, <2>4 DEF FailedNode
    <3>2. DOMAIN Failed = {"status"} /\ Failed.status = "FAILED" /\ DOMAIN Failed \subseteq Fields
      BY DEF Failed, Fields
    <3>3. g'.status = "FAILED"
      BY <3>1, <3>2, UpdateAdvances DEF Advance, After
    <3> QED BY <2>2, <3>3
  <2> QED BY <1>4, <2>2, <2>3, <2>4
<1> QED BY <1>2, <1>3, <1>4

LEMMA TaskStepFollows == ASSUME IndInv, TaskStep, Following' PROVE Followed'
<1>1. PICK k \in DOMAIN rt :
        \/ Dispatch(k) \/ AttemptFails(k) \/ Retry(k) \/ FinishCancelled(k)
        \/ Succeed(k) \/ Fail(k) \/ CreateRepair(k)
  BY DEF TaskStep
<1> QED BY <1>1, MoveFollows, RoundFollows, SucceedFollows

(* Before there is a run, and in a direct run, the daemon has no tasks.    *)
LEMMA QuietKeeps == ASSUME IndInv, [Next]_vars PROVE Quiet'
<1> SUFFICES ASSUME run' = "none" \/ mode' = "direct"
             PROVE  NoTask'
  BY DEF Quiet
<1>1. CASE TaskStep
  <2>1. run' = run /\ mode' = mode /\ DOMAIN rt # {}
    BY <1>1 DEF TaskStep, Dispatch, AttemptFails, Retry, FinishCancelled, Succeed, Fail, CreateRepair,
                Ends, KeepRest
  <2> QED BY <2>1 DEF IndInv, Quiet, NoTask
<1>2. ASSUME NEW k \in threads, TaskCreated(k) PROVE FALSE
  BY <1>2 DEF TaskCreated, IndInv, Quiet, NoTask
<1>3. CASE StartCall
  <2>1. mode = "direct" /\ threads' = threads /\ UNCHANGED <<execs, known, rt, rows, merged>>
    BY <1>3 DEF StartCall, service, IndInv, GraphInv, CallIsCurrent
  <2> QED BY <2>1 DEF IndInv, Quiet, NoTask
<1>4. CASE CallRaises
  <2>1. mode = "direct" /\ threads' \subseteq threads /\ UNCHANGED <<execs, known, rt, rows, merged>>
    BY <1>4 DEF CallRaises, Closing, GraphGone, service
  <2> QED BY <2>1 DEF IndInv, Quiet, NoTask
<1>5. CASE Crash
  <2>1. mode = "direct"
    BY <1>5 DEF Crash, GraphGone
  <2>2. DOMAIN rows = {}
    BY <2>1 DEF IndInv, Quiet, NoTask
  <2>3. threads' = {} /\ execs' = {} /\ merged' = {} /\ DOMAIN rt' = known' /\ DOMAIN rows' = DOMAIN rows
    BY <1>5 DEF Crash
  <2>4. known' = {rows[i].key : i \in {j \in DOMAIN rows : rows[j].status \in {"READY", "RUNNING"}}}
    BY <1>5 DEF Crash
  <2>5. known' = {}
    BY <2>2, <2>4
  <2> QED BY <2>2, <2>3, <2>5 DEF NoTask
<1>6. CASE PurgeCancelled \/ DeleteRun
  <2>1. Purge /\ run' # "none"
    BY <1>6 DEF PurgeCancelled, DeleteRun, Purge, PurgeAll, PurgeStops
  <2>2. mode = "direct" /\ UNCHANGED <<threads, execs, merged>>
    BY <2>1 DEF Purge, graph, service
  <2>3. DOMAIN rt = {} /\ DOMAIN rows = {} /\ threads = {} /\ execs = {} /\ merged = {}
    BY <2>2 DEF IndInv, Quiet, NoTask
  <2>4. PurgeAll
    <3>1. {i \in DOMAIN rows : rows[i].key \in known /\ rt[rows[i].key] = "RUNNING"} = {}
      BY <2>3
    <3> QED BY <2>1, <3>1 DEF Purge
  <2>5. DOMAIN rt' = {} /\ known' = {}
    BY <2>3, <2>4 DEF PurgeAll, Stopped
  <2>6. DOMAIN rows' = {}
    <3>1. rows' = <<>>
      BY <2>4 DEF PurgeAll
    <3> QED BY <3>1, SMT
  <2> QED BY <2>2, <2>3, <2>5, <2>6 DEF NoTask
<1>7. ASSUME \/ CreateRun \/ SelectCoder \/ IntegrateCoder \/ IntegrateRepair \/ SuccessNode \/ FailedNode
             \/ TesterGivesUp \/ GraphEnds \/ Snapshot \/ Summarize \/ WorkflowTimeout \/ GetRun \/ CancelRun
             \/ UNCHANGED vars
             \/ \E s \in Statuses :
                PlannerReturns(s) \/ CoderReturns(s) \/ RepairReturns(s) \/ TesterReturns(s) \/ ReviewerReturns(s)
      PROVE  NoTask'
  <2>1. UNCHANGED daemon
    BY <1>7 DEF CreateRun, SelectCoder, IntegrateCoder, IntegrateRepair, SuccessNode, FailedNode,
                TesterGivesUp, GraphEnds, Snapshot, Summarize, WorkflowTimeout, GetRun, CancelRun, vars,
                PlannerReturns, CoderReturns, RepairReturns, TesterReturns, ReviewerReturns, Returned
  <2>2. mode' = mode
    BY <1>7 DEF CreateRun, SelectCoder, IntegrateCoder, IntegrateRepair, SuccessNode, FailedNode,
                TesterGivesUp, GraphEnds, Snapshot, Summarize, WorkflowTimeout, GetRun, CancelRun, vars,
                PlannerReturns, CoderReturns, RepairReturns, TesterReturns, ReviewerReturns, Update,
                Closing, GraphGone, graph
  <2>3. run' = "none" => run = "none"
    BY <1>7 DEF CreateRun, SelectCoder, IntegrateCoder, IntegrateRepair, SuccessNode, FailedNode,
                TesterGivesUp, GraphEnds, Snapshot, Summarize, WorkflowTimeout, GetRun, CancelRun, vars,
                PlannerReturns, CoderReturns, RepairReturns, TesterReturns, ReviewerReturns, Update,
                Closing
  <2>4. NoTask
    BY <2>2, <2>3 DEF IndInv, Quiet
  <2> QED BY <2>1, <2>4 DEF daemon, service, NoTask
<1> QED BY <1>1, <1>2, <1>3, <1>4, <1>5, <1>6, <1>7 DEF Next, GraphStep

(* Every step keeps the invariant, and a bad verdict once it is told.      *)
LEMMA NextKeeps ==
    ASSUME IndInv, [Next]_vars
    PROVE  IndInv' /\ (told \in {"FAILED", "INTERRUPTED"} => told' = told)
<1> DEFINE Keeps == GraphInv' /\ (Following' => Followed') /\ told' = told
<1>1. GraphInv
  BY DEF IndInv
<1>2. ASSUME NEW s \in Statuses,
             PlannerReturns(s) \/ CoderReturns(s) \/ RepairReturns(s) \/ TesterReturns(s) \/ ReviewerReturns(s)
      PROVE  Keeps
  BY <1>2, ReturnsKeep
<1>3. ASSUME SelectCoder \/ IntegrateCoder \/ IntegrateRepair \/ SuccessNode \/ FailedNode \/ TesterGivesUp
      PROVE  Keeps
  BY <1>3, NodesKeep
<1>4. ASSUME CallRaises \/ GraphEnds \/ WorkflowTimeout PROVE Keeps
  <2>1. run = "running" /\ astray' = astray /\ (Closing("FAILED") \/ Closing(file.status))
    BY <1>4 DEF CallRaises, Raises, GraphEnds, AtNode, WorkflowTimeout, daemon, service
  <2>2. told' = told /\ run' # "running"
    BY <2>1 DEF Closing
  <2> QED BY <1>1, <2>1, <2>2, ClosingKeeps DEF Following
<1>5. ASSUME CreateRun PROVE Keeps
  <2>1. /\ told' = told /\ UNCHANGED <<mode, call, g, threads, execs, rt, known, merged>> /\ run = "none"
        /\ call = Idle /\ g = Fresh
    BY <1>5 DEF CreateRun, graph, daemon, service, IndInv, GraphInv, CallIsCurrent
  <2>2. Idle.phase = "idle" /\ Fresh.commit = {} /\ Fresh.pending = {}
    BY SMT DEF Idle, Fresh
  <2>3. threads = {} /\ execs = {} /\ DOMAIN rt = {} /\ merged = {} /\ known = {}
    BY <2>1 DEF IndInv, Quiet, NoTask
  <2>4. ~Landed'
    BY <2>1, <2>2 DEF Landed
  <2>5. Followed'
    BY <2>1, <2>2, <2>3, <2>4 DEF Followed
  <2> QED BY <1>1, <1>5, <2>1, <2>5, CreateKeeps
<1>6. ASSUME StartCall PROVE Keeps
  <2>1. /\ UNCHANGED <<mode, run, node, g, file, summary, told, astray>> /\ run = "running"
        /\ node \in Working
        /\ \E ph : call' = [phase |-> ph, key |-> KeyOf(node), base |-> g.commit]
    BY <1>6 DEF StartCall, store, service, Working
  <2> QED BY <1>1, <1>6, <2>1, CallKeeps, StartFollows
<1>7. ASSUME NEW k \in threads, TaskCreated(k) PROVE Keeps
  <2>1. /\ UNCHANGED <<mode, run, node, g, file, summary, told, astray>>
        /\ call' = call \/ (call.phase # "idle" /\ \E ph : call' = [call EXCEPT !.phase = ph])
    BY <1>7 DEF TaskCreated, store, service
  <2> QED BY <1>1, <1>7, <2>1, CallKeeps, CreatedFollows
<1>8. ASSUME TaskStep PROVE Keeps
  BY <1>8, TaskStepKeeps, TaskStepFollows
<1>9. ASSUME Summarize PROVE Keeps
  <2>1. told' = told /\ run' # "running"
    BY <1>9 DEF Summarize
  <2> QED BY <1>1, <1>9, <2>1, SummarizeKeeps DEF Following
<1>10. ASSUME CancelRun \/ PurgeCancelled \/ DeleteRun \/ Crash PROVE Keeps
  <2>1. run' # "running"
    BY <1>10 DEF CancelRun, PurgeCancelled, DeleteRun, Crash, Purge, PurgeAll, PurgeStops
  <2> QED BY <1>1, <1>10, <2>1, LeaveKeeps DEF Following
<1>11. ASSUME Snapshot \/ GetRun \/ UNCHANGED vars PROVE Following' => Followed'
  <2>1. UNCHANGED <<mode, run, call, g, threads, execs, rt, known, merged, astray>>
    BY <1>11 DEF Snapshot, GetRun, vars, graph, daemon, service
  <2> QED BY <2>1 DEF IndInv, Following, Followed, Landed, Applied, UnderWay
<1>12. ASSUME Snapshot \/ UNCHANGED vars PROVE Keeps
  <2>1. UNCHANGED <<mode, run, node, g, file, summary, told, call, astray>>
    BY <1>12 DEF Snapshot, vars, graph, store, daemon, service
  <2> QED BY <1>1, <1>11, <1>12, <2>1, CallKeeps
<1>13. ASSUME GetRun
       PROVE  /\ GraphInv' /\ (Following' => Followed')
              /\ told \in {"FAILED", "INTERRUPTED"} => told' = told
  BY <1>1, <1>11, <1>13, GetKeeps
<1>14. /\ GraphInv' /\ (Following' => Followed')
       /\ told \in {"FAILED", "INTERRUPTED"} => told' = told
  BY <1>2, <1>3, <1>4, <1>5, <1>6, <1>7, <1>8, <1>9, <1>10, <1>12, <1>13 DEF Next, GraphStep
<1> QED BY <1>14, QuietKeeps DEF IndInv

(* The inductive invariant holds from create_demo_run on.                  *)
THEOREM Invariance == Spec => []IndInv
<1>1. Init => IndInv
  <2> SUFFICES ASSUME Init PROVE IndInv
    OBVIOUS
  <2>1. CopiesAgree
    BY DEF Init, CopiesAgree, Fresh, Fields
  <2>2. CallIsCurrent
    BY IncidentIsTyped DEF Init, CallIsCurrent, Idle
  <2>3. GraphSound
    BY DEF Init, GraphSound, Progress, Fresh, Integrating, AllBuilt, Built
  <2>4. RecordSound
    BY DEF Init, RecordSound, Fresh, Created
  <2>5. Quiet
    <3>1. DOMAIN NoTasks = {} /\ DOMAIN <<>> = {}
      BY SMT DEF NoTasks
    <3> QED BY <3>1 DEF Init, Quiet, NoTask
  <2>6. ~Following
    BY DEF Init, Following
  <2> QED BY <2>1, <2>2, <2>3, <2>4, <2>5, <2>6 DEF IndInv, GraphInv
<1>2. IndInv /\ [Next]_vars => IndInv'
  BY NextKeeps
<1> QED BY <1>1, <1>2, PTL DEF Spec

(* A run that reports SUCCESS passed its tests and its review, and its     *)
(* commit holds a patch of every planned coder and every patch             *)
(* contributed.  Tests and review were of that commit: always in a direct  *)
(* run, and in a runtime run as long as every patch went into the daemon's *)
(* own integration and no repair of its own did.                           *)
THEOREM SuccessVerified == Spec => []SuccessIsVerified
<1>1. IndInv => SuccessIsVerified
  <2> SUFFICES ASSUME IndInv PROVE SuccessIsVerified
    OBVIOUS
  <2>1. file.status = "SUCCESS" => Verified(file, Off)
    BY DEF IndInv, GraphInv, RecordSound
  <2>2. g.status = "SUCCESS" => Verified(g, Off)
    BY DEF IndInv, GraphInv, GraphSound, Progress, Verified, Built, Integrating, AllBuilt
  <2>3. summary.status = "SUCCESS" => summary.test = "pass" /\ summary.review = "approved"
    BY DEF IndInv, GraphInv, RecordSound
  <2> QED BY <2>1, <2>2, <2>3 DEF SuccessIsVerified, Verified, Off
<1> QED BY <1>1, Invariance, PTL

(* A coder works on a commit with the patches of every coder that its task *)
(* depends on, whatever plan validate_coder_plan accepted.                 *)
THEOREM CodersBuild == Spec => []CodersBuildOnDependencies
<1>1. IndInv => CodersBuildOnDependencies
  BY DEF IndInv, GraphInv, CodersBuildOnDependencies, CallIsCurrent, GraphSound, Progress, Built
<1> QED BY <1>1, Invariance, PTL

(* Once get_demo_run has answered FAILED or INTERRUPTED, it never answers  *)
(* otherwise: polls, late results, cancellation and crashes included.      *)
THEOREM VerdictStays == Spec => VerdictIsFinal
<1>1. IndInv /\ [Next]_vars => [~(told \in {"FAILED", "INTERRUPTED"})]_told
  BY NextKeeps
<1> QED BY <1>1, Invariance, PTL DEF Spec, VerdictIsFinal

=============================================================================
