--------------------------- MODULE CodexExecution ---------------------------
(***************************************************************************)
(* One execution of the codex command line: by CodexCLIBackend in a worker *)
(* of the daemon, or by DirectCodexExecutor for a direct run.  Each try is *)
(* a process group of its own: codex, the leader, and a command it may     *)
(* leave behind with the pipes of the group still open.  Codex answers in  *)
(* the file of --output-last-message, final.json.  An answer is known by   *)
(* the try it stems from.                                                  *)
(***************************************************************************)
EXTENDS Naturals

CONSTANTS
    Hosts,      \* who runs codex, within {"worker", "direct"}
    Retries     \* CODEX_EXEC_RETRIES, at least 1

ASSUME CodexIsTyped == Hosts \subseteq {"worker", "direct"} /\ Retries \in Nat \ {0}

VARIABLES
    host,       \* who runs codex
    role,       \* the role it works for
    confined,   \* the worker is bound to a cgroup
    pc,         \* where execute stands
    tries,      \* tries so far
    leader,     \* leader[i]: codex of try i
    child,      \* child[i]: its command that still holds the pipes
    transient,  \* codex printed the text of a transient failure in this try
    final,      \* final.json
    result      \* what the last try, and in the end the execution, came to

procs == <<leader, child, transient>>
codexVars == <<host, role, confined, pc, tries, procs, final, result>>

Tries == 1..Retries
NoFile == [by |-> 0, valid |-> FALSE]
Answers(i) == {[by |-> i, valid |-> v] : v \in BOOLEAN}
NoResult == [status |-> "NONE", output |-> NoFile]
Gone == {"exit0", "exit1", "killed"}
ExecOver == {"returned", "raised", "cancelled", "died"}

CodexInit ==
    /\ host \in Hosts /\ role \in {"coder", "reviewer"} /\ confined \in BOOLEAN
    /\ pc = "new" /\ tries = 0
    /\ leader = [i \in Tries |-> "none"] /\ child = [i \in Tries |-> FALSE]
    /\ transient = FALSE /\ final = NoFile /\ result = NoResult

Fixed == UNCHANGED <<host, role, confined>>
Goes(to) == pc' = to /\ Fixed /\ UNCHANGED <<tries, procs, final, result>>

-----------------------------------------------------------------------------
(* Codex and its command, which do as they like.                           *)
CodexAnswers(i) ==
    /\ leader[i] = "alive" /\ final' \in Answers(i)
    /\ Fixed /\ UNCHANGED <<pc, tries, procs, result>>
CodexExits(i) ==
    /\ leader[i] = "alive"
    /\ \E code \in {"exit0", "exit1"} : leader' = [leader EXCEPT ![i] = code]
    /\ transient' \in IF i = tries THEN BOOLEAN ELSE {transient}
    /\ Fixed /\ UNCHANGED <<pc, tries, child, final, result>>
CommandStarts(i) ==
    /\ leader[i] = "alive" /\ ~child[i] /\ child' = [child EXCEPT ![i] = TRUE]
    /\ Fixed /\ UNCHANGED <<pc, tries, leader, transient, final, result>>
CommandEnds(i) ==
    /\ child[i] /\ child' = [child EXCEPT ![i] = FALSE]
    /\ Fixed /\ UNCHANGED <<pc, tries, leader, transient, final, result>>

-----------------------------------------------------------------------------
(* prepare of the backend, or the workspace and the codex home of a direct *)
(* call; either may raise.                                                 *)
Prepare == pc = "new" /\ \E to \in {"prepared", "raised"} : Goes(to)

(* A turn of the loop in execute begins by removing the old final.json.    *)
UnlinkedNot == final
Unlinked == NoFile
StartTry ==
    /\ pc \in {"prepared", "backoff"} /\ pc' = "spawning"
    /\ tries' = tries + 1 /\ final' = Unlinked /\ transient' = FALSE
    /\ Fixed /\ UNCHANGED <<leader, child, result>>

(* create_subprocess_exec.  The backend then tells the daemon, before it   *)
(* starts to wait.                                                         *)
Spawn ==
    /\ pc = "spawning" /\ leader' = [leader EXCEPT ![tries] = "alive"]
    /\ pc' = IF host = "worker" THEN "announcing" ELSE "waiting"
    /\ Fixed /\ UNCHANGED <<tries, child, transient, final, result>>
SpawnRaises == pc = "spawning" /\ Goes("raised")
Announced == pc = "announcing" /\ Goes("waiting")

(* emit_event raises on a lost connection: when the backend tells of a     *)
(* start or of a retry, or in the reader of the events; that reader also   *)
(* raises on an overlong line.                                             *)
EmitRaises ==
    /\ host = "worker" /\ pc \in {"announcing", "draining", "drainingLate", "backoff"} /\ Goes("raised")

-----------------------------------------------------------------------------
(* What execute waits for: the backend for the exit of codex, the direct   *)
(* executor, in communicate, for the end of both pipes as well.            *)
CodexIsOverOnSignal == leader[tries] \in Gone \/ pc = "term"
CodexIsOver == leader[tries] \in Gone
WaitIsOver == CodexIsOver /\ (host = "direct" => ~child[tries])

(* _is_retryable_failure.  A timeout of the backend has no text to look    *)
(* at; that of the direct executor has what codex printed until then.      *)
Retryable(r) == transient /\ r.status # "SUCCESS" /\ (r.status = "TIMEOUT" => host = "direct")

(* A direct reviewer is judged by its answer, whatever became of codex.    *)
Judged(r) ==
    IF host = "direct" /\ role = "reviewer"
    THEN [r EXCEPT !.status = IF r.output.valid THEN "SUCCESS" ELSE "FAILED"] ELSE r
TriesLeft == tries < Retries
Settle(r) ==
    /\ IF Retryable(r) /\ TriesLeft
       THEN pc' = "backoff" /\ result' = r
       ELSE pc' = "returned" /\ result' = Judged(r)
    /\ Fixed /\ UNCHANGED <<tries, procs, final>>

(* The output of a direct call is final.json or else the last message on   *)
(* stdout; that of the backend is final.json, unless it timed out.         *)
Outputs(late) ==
    CASE host = "direct" /\ final = NoFile -> {NoFile} \union Answers(tries)
      [] host = "worker" /\ late -> {NoFile}
      [] OTHER -> {final}
StatusOf(late) ==
    CASE late -> "TIMEOUT"
      [] ~late /\ leader[tries] = "exit0" -> "SUCCESS"
      [] OTHER -> "FAILED"
TryResults(late) == {[status |-> StatusOf(late), output |-> o] : o \in Outputs(late)}

(* The wait is over in time; the backend still reads its pipes to the end. *)
Exited == host = "worker" /\ pc = "waiting" /\ WaitIsOver /\ Goes("draining")
Communicated ==
    /\ host = "direct" /\ pc \in {"waiting", "term", "kill"} /\ WaitIsOver
    /\ \E r \in TryResults(pc # "waiting") : Settle(r)

(* It is not: SIGTERM to the group, and SIGKILL three seconds later, if by *)
(* then what execute waits for has not happened.  What codex had printed   *)
(* before it was killed is in the pipes.                                   *)
Timeout == pc = "waiting" /\ ~WaitIsOver /\ Goes("term")
Printed == IF leader[tries] = "alive" THEN BOOLEAN ELSE {transient}
GiveUpOnLeader ==
    /\ pc = "term" /\ ~WaitIsOver /\ pc' = "kill"
    /\ leader' = [leader EXCEPT ![tries] = IF @ = "alive" THEN "killed" ELSE @] /\ transient' \in Printed
    /\ Fixed /\ UNCHANGED <<tries, child, final, result>>
GiveUp ==
    /\ pc = "term" /\ ~WaitIsOver /\ pc' = "kill"
    /\ leader' = [leader EXCEPT ![tries] = IF @ = "alive" THEN "killed" ELSE @] /\ transient' \in Printed
    /\ child' = [child EXCEPT ![tries] = FALSE]
    /\ Fixed /\ UNCHANGED <<tries, final, result>>
Terminated == host = "worker" /\ pc \in {"term", "kill"} /\ WaitIsOver /\ Goes("drainingLate")

Drained ==
    /\ pc \in {"draining", "drainingLate"} /\ ~child[tries]
    /\ \E r \in TryResults(pc = "drainingLate") : Settle(r)

(* create_patch_artifact of a direct call raises when git fails.           *)
PatchRaises == host = "direct" /\ role = "coder" /\ pc = "returned" /\ Goes("raised")

-----------------------------------------------------------------------------
(* The execution is cancelled, by cancel_task of the daemon on its own     *)
(* timeout or with the direct run: only a timeout of wait_for terminates   *)
(* the group, so codex goes on.                                            *)
Cancel == pc \notin ExecOver /\ Goes("cancelled")

(* After a grace period the daemon kills what is in the cgroup of the      *)
(* worker and does not look whether that worked: the write to cgroup.kill  *)
(* may fail, and without that file the processes are killed one by one up  *)
(* to the first that is gone already.                                      *)
CgroupKill ==
    /\ host = "worker" /\ confined /\ pc = "cancelled"
    /\ \E killed, stopped \in SUBSET Tries :
        /\ leader' = [i \in Tries |-> IF i \in killed /\ leader[i] = "alive" THEN "killed" ELSE leader[i]]
        /\ child' = [i \in Tries |-> i \notin stopped /\ child[i]]
    /\ Fixed /\ UNCHANGED <<pc, tries, transient, final, result>>

(* The worker dies, and codex, in a session of its own, does not.          *)
WorkerDies == host = "worker" /\ pc \notin ExecOver /\ Goes("died")

ExecStep ==
    \/ Prepare \/ StartTry \/ Spawn \/ Announced \/ Exited \/ Communicated
    \/ Timeout \/ GiveUp \/ Terminated \/ Drained
CodexNext ==
    \/ ExecStep \/ SpawnRaises \/ EmitRaises \/ PatchRaises \/ Cancel \/ CgroupKill \/ WorkerDies
    \/ \E i \in Tries : CodexAnswers(i) \/ CodexExits(i) \/ CommandStarts(i) \/ CommandEnds(i)

CodexSpec == CodexInit /\ [][CodexNext]_codexVars
CodexFairSpec == CodexSpec /\ WF_codexVars(ExecStep)

-----------------------------------------------------------------------------
(* Every variable stays within its type.  No more than CODEX_EXEC_RETRIES  *)
(* processes are ever started.                                             *)
CodexTypeOK ==
    /\ pc \in ExecOver \union {"new", "prepared", "spawning", "announcing", "waiting", "term",
                              "kill", "draining", "drainingLate", "backoff"}
    /\ tries \in 0..Retries /\ (tries = 0 => pc \in ExecOver \union {"new", "prepared"})
    /\ leader \in [Tries -> Gone \union {"none", "alive"}] /\ child \in [Tries -> BOOLEAN]
    /\ final \in {NoFile} \union (UNION {Answers(i) : i \in Tries})
    /\ result.status \in {"NONE", "SUCCESS", "FAILED", "TIMEOUT"}

(* The answer that is returned, above all the review that decides a direct *)
(* run, was given in the last try, never left over from an earlier one     *)
(* (execute removes final.json; an earlier codex is no longer there).      *)
OutputIsCurrent == pc = "returned" => result.output.by \in {0, tries}

(* No codex runs beside another one in the same workspace, nor behind an   *)
(* execution that returned or waits to try again; one is left running only *)
(* when the execution was cancelled, raised, or lost its worker.           *)
NoCodexOutlives ==
    \A i \in Tries : leader[i] = "alive" =>
        /\ i = tries
        /\ pc \in {"announcing", "waiting", "term", "raised", "cancelled", "died"}

(* SUCCESS means that codex exited with 0 in the last try, or, of a direct *)
(* review, that its answer is well-formed; and the backend never starts    *)
(* codex again on a workspace where it has succeeded.                      *)
SuccessIsEarned ==
    /\ pc = "returned" /\ result.status = "SUCCESS" =>
        \/ leader[tries] = "exit0"
        \/ host = "direct" /\ role = "reviewer" /\ result.output \in Answers(tries)
    /\ host = "worker" => \A i \in Tries : i < tries => leader[i] # "exit0"

(* An execution ends by its own timeouts, however stubborn codex and its   *)
(* command are, with one exception: the backend of a worker can wait for   *)
(* ever for the end of pipes that a command of codex still holds, codex    *)
(* itself being gone; only a cancellation by the daemon ends that wait.    *)
ExecutionEnds ==
    \/ <>(pc \in ExecOver)
    \/ <>[](host = "worker" /\ pc \in {"draining", "drainingLate"} /\ CodexIsOver /\ child[tries])
=============================================================================
