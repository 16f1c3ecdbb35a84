----------------------------- MODULE TaskRecord -----------------------------
(***************************************************************************)
(* The task record of internal/taskmgr and what each manager operation     *)
(* does to it.  Everything here is a pure function of a record; the        *)
(* modules TaskManager (persistence, crashes) and Dispatch (worker pool,   *)
(* retries) are built from these operators.                                *)
(*                                                                         *)
(* Data abstraction.  Descriptions, assignments, timestamps, error texts   *)
(* and HTTP details are left out.  An output is identified by the dispatch *)
(* attempt that produced it: 0 is the empty string, n in 1..AttemptBound   *)
(* the text of attempt n, Direct the text recorded without an attempt      *)
(* (node agents call CompleteSubtask directly).                            *)
(***************************************************************************)
EXTENDS Naturals, Sequences, FiniteSets

CONSTANTS Subtasks,      \* the subtask ids of a task
          DependsOn,     \* Subtask.DependsOn
          HasFinalizer,  \* SetFinalizer was called: the orchestrator, not a node
          AttemptBound   \* model bound on dispatch attempts per subtask

ASSUME SubtasksAssumption == /\ Subtasks # {}
                             /\ IsFiniteSet(Subtasks)
ASSUME DependsOnAssumption == DependsOn \in [Subtasks -> SUBSET Subtasks]
ASSUME FinalizerAssumption == HasFinalizer \in BOOLEAN
ASSUME AttemptBoundAssumption == AttemptBound \in Nat

-----------------------------------------------------------------------------
\* StatusPending is only ever the status of a subtask: every task is created
\* running.

TaskStatus == {"running", "synthesizing", "awaiting_approval",
               "completed", "failed", "cancelled"}

SubtaskStatus == {"pending", "running", "completed", "failed", "cancelled"}

Unfinished == {"pending", "running"}

Terminal == {"completed", "failed", "cancelled"}

AttemptStatus == {"running", "succeeded", "failed"}

Direct == AttemptBound + 1

Outputs == 0 .. Direct

Task == [status    : TaskStatus,
         sub       : [Subtasks -> SubtaskStatus],
         output    : [Subtasks -> Outputs],
         attempts  : [Subtasks -> Seq(AttemptStatus)],
         resumable : BOOLEAN,
         approval  : BOOLEAN]

\* A checkpoint keeps the status, the non-empty outputs and the frontier.
Checkpoint == [status : TaskStatus, done : SUBSET Subtasks, frontier : SUBSET Subtasks]

AllCompleted(task) == \A s \in Subtasks : task.sub[s] = "completed"

AnyCompleted(task) == \E s \in Subtasks : task.sub[s] = "completed"

NoneUnfinished(task) == \A s \in Subtasks : task.sub[s] \notin Unfinished

-----------------------------------------------------------------------------
(***************************************************************************)
(* Lifecycle operations (lifecycle.go, checkpoint.go)                      *)
(***************************************************************************)

NewTask(approval) ==
  [status    |-> "running",
   sub       |-> [s \in Subtasks |-> "pending"],
   output    |-> [s \in Subtasks |-> 0],
   attempts  |-> [s \in Subtasks |-> << >>],
   resumable |-> TRUE,
   approval  |-> approval]

\* Mutant: a completed task can be cancelled.
CanCancelCompleted(task) == task.status \notin {"failed", "cancelled"}

CanCancel(task) == task.status \notin Terminal

\* Mutant: the subtasks are left to notice the cancelled context.
CancelledTaskOnly(task) ==
  [task EXCEPT !.status = "cancelled", !.resumable = AnyCompleted(task)]

Cancelled(task) ==
  [task EXCEPT !.status = "cancelled",
               !.sub = [s \in Subtasks |-> IF @[s] \in Unfinished
                                           THEN "cancelled" ELSE @[s]],
               !.resumable = AnyCompleted(task)]

\* StartSubtaskChecked: silently ignored on a cancelled task, refused on a
\* finished subtask.
CanStart(task, s) == task.status # "cancelled" /\ task.sub[s] \in Unfinished

Started(task, s) == [task EXCEPT !.sub[s] = "running"]

\* Mutant: only a failed subtask counts as finished.
OnlyFailedIsFinished(task, s) == task.sub[s] = "failed"

subtaskFinished(task, s) == task.sub[s] \notin Unfinished

\* The status of a task all of whose subtasks have finished.
RolledUp(sub, approval) ==
  IF \E s \in Subtasks : sub[s] = "failed" THEN "failed"
  ELSE IF approval THEN "awaiting_approval"
  ELSE IF HasFinalizer THEN "synthesizing"
  ELSE "completed"

\* Mutant: a running sibling is not waited for.
CompleteIgnoringRunning(task, s, ok, out) ==
  LET sub     == [task.sub EXCEPT ![s] = IF ok THEN "completed" ELSE "failed"]
      allDone == \A x \in Subtasks : sub[x] # "pending"
      status  == IF allDone THEN RolledUp(sub, task.approval) ELSE task.status
  IN  [task EXCEPT !.sub = sub, !.output[s] = IF ok THEN out ELSE @,
                   !.status = status, !.resumable = status # "completed"]

completeSubtask(task, s, ok, out) ==
  LET sub     == [task.sub EXCEPT ![s] = IF ok THEN "completed" ELSE "failed"]
      allDone == \A x \in Subtasks : sub[x] \notin Unfinished
      status  == IF allDone THEN RolledUp(sub, task.approval) ELSE task.status
  IN  [task EXCEPT !.sub = sub,
                   !.output[s] = IF ok THEN out ELSE @,
                   !.status = status,
                   !.resumable = ~ (allDone /\ status = "completed")]

CanApprove(task) == task.status = "awaiting_approval"

Approved(task) ==
  IF HasFinalizer THEN [task EXCEPT !.status = "synthesizing"]
                  ELSE [task EXCEPT !.status = "completed", !.resumable = FALSE]

\* Mutant: an empty or failed answer is logged and the status left alone.
SynthesizedOnlyIfOk(task, ok) ==
  IF ok THEN [task EXCEPT !.status = "completed", !.resumable = FALSE] ELSE task

\* The finalizer's answer: an error and an empty text both fail the task.
Synthesized(task, ok) ==
  [task EXCEPT !.status = IF ok THEN "completed" ELSE "failed",
               !.resumable = ~ ok]

CanResume(task) == /\ task.status # "completed"
                   /\ task.resumable
                   /\ task.status \in {"failed", "cancelled"}

Resumed(task) ==
  [task EXCEPT !.status = "running",
               !.sub = [s \in Subtasks |-> IF @[s] = "completed"
                                           THEN "completed" ELSE "pending"]]

-----------------------------------------------------------------------------
(***************************************************************************)
(* Dispatch attempts (dispatch_attempts.go)                                *)
(***************************************************************************)

CanBegin(task, s) == task.sub[s] = "running"

BegunAttempt(task, s) ==
  [task EXCEPT !.attempts[s] = Append(@, "running")]

AttemptRunning(task, s, n) ==
  n \in DOMAIN task.attempts[s] /\ task.attempts[s][n] = "running"

\* Mutant: the subtask's status vocabulary is written into the attempt.
FinishedWithTaskStatus(task, s, n, status) == [task EXCEPT !.attempts[s][n] = "completed"]

FinishedAttempt(task, s, n, status) == [task EXCEPT !.attempts[s][n] = status]

\* A success wins unless the task was cancelled or the subtask is not running.
WinsSubtask(task, s) == task.status # "cancelled" /\ task.sub[s] = "running"

\* Mutant: the winning output is recorded without its attempt.
CompletedWithoutAttempt(task, s, n, out) ==
  IF WinsSubtask(task, s) THEN completeSubtask(task, s, TRUE, out)
                          ELSE FinishedAttempt(task, s, n, "succeeded")

CompletedAttempt(task, s, n, out) ==
  LET recorded == FinishedAttempt(task, s, n, "succeeded")
  IN  IF WinsSubtask(task, s) THEN completeSubtask(recorded, s, TRUE, out)
                              ELSE recorded

-----------------------------------------------------------------------------
(***************************************************************************)
(* Snapshots, checkpoints and restart recovery (checkpoint.go, recovery.go) *)
(***************************************************************************)

collectOutputs(task) == {s \in Subtasks : task.sub[s] = "completed" /\ task.output[s] # 0}

computeFrontier(task) ==
  LET completed == {s \in Subtasks : task.sub[s] = "completed"}
  IN  {s \in Subtasks \ completed : DependsOn[s] \subseteq completed}

checkpointForTask(task) == [status   |-> task.status,
                            done     |-> collectOutputs(task),
                            frontier |-> computeFrontier(task)]

\* checkpointForTask also overwrites the snapshot's Resumable flag.
CheckpointedSnapshot(task) == [task EXCEPT !.resumable = task.status # "completed"]

AttemptsChanged(task) ==
  \E s \in Subtasks : \E n \in DOMAIN task.attempts[s] : task.attempts[s][n] = "running"

Interrupted(task) == task.status \in {"running", "synthesizing"}

\* load(): what a restart makes of a stored task.
Recovered(task) ==
  [task EXCEPT
     !.attempts = [s \in Subtasks |-> [n \in DOMAIN @[s] |->
                     IF @[s][n] = "running" THEN "failed" ELSE @[s][n]]],
     !.status = IF Interrupted(task) THEN "failed" ELSE @,
     !.sub = [s \in Subtasks |-> IF Interrupted(task) /\ @[s] \in Unfinished
                                 THEN "failed" ELSE @[s]],
     !.resumable = \/ Interrupted(task)
                   \/ task.status = "awaiting_approval"
                   \/ task.status \in {"cancelled", "failed"} /\ AnyCompleted(task)
                   \/ @]

-----------------------------------------------------------------------------
(***************************************************************************)
(* What no later version of a task may undo: a completed task stays        *)
(* completed, a completed subtask stays completed with the same output, a  *)
(* recorded attempt is never lost and a finished attempt never changes.    *)
(***************************************************************************)

Extends(old, new) ==
  /\ new.approval = old.approval
  /\ old.status = "completed" => new.status = "completed"
  /\ \A s \in Subtasks :
       /\ old.sub[s] = "completed" => /\ new.sub[s] = "completed"
                                      /\ new.output[s] = old.output[s]
       /\ Len(old.attempts[s]) <= Len(new.attempts[s])
       /\ \A n \in 1 .. Len(old.attempts[s]) :
            old.attempts[s][n] # "running" => new.attempts[s][n] = old.attempts[s][n]

\* The task status agrees with the subtasks it summarises.
StatusAgrees(task) ==
  /\ task.status \in {"synthesizing", "awaiting_approval", "completed"} => AllCompleted(task)
  /\ task.status \in {"failed", "cancelled"} => NoneUnfinished(task)
  /\ task.status # "cancelled" => \A s \in Subtasks : task.sub[s] # "cancelled"

\* An output credited to an attempt is the output of a succeeded attempt of a
\* completed subtask.
OutputEarned(task) ==
  \A s \in Subtasks :
    task.output[s] \in 1 .. AttemptBound =>
      /\ task.sub[s] = "completed"
      /\ task.output[s] \in DOMAIN task.attempts[s]
      /\ task.attempts[s][task.output[s]] = "succeeded"
=============================================================================
