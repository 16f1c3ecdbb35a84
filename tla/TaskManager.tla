----------------------------- MODULE TaskManager -----------------------------
(***************************************************************************)
(* internal/taskmgr: the durable task manager of an orchestrator.          *)
(*                                                                         *)
(* Locking.  An update holds the task's persistMu from the change of the   *)
(* in-memory record to the end of the store write; Manager.mu is released  *)
(* during the write.  saving[t] is that window: its snapshot is what is    *)
(* being written, no other update of t (and no Wait) can run meanwhile,    *)
(* and plain readers already see the new record.  An update is therefore   *)
(* two steps: the change (the action named after the Go method) and the    *)
(* end of the write (SaveOk or SaveFail).                                  *)
(*                                                                         *)
(* A crash loses memory and keeps the store.  Restart is load(): it        *)
(* rewrites the interrupted tasks one store write at a time, and a failed  *)
(* write fails the whole open.                                             *)
(***************************************************************************)
EXTENDS TaskRecord

CONSTANTS MaxTasks,      \* model bound on the number of ids handed out
          NoTask,        \* no task under this id
          StoreMayFail   \* store writes may return an error

ASSUME MaxTasksAssumption == MaxTasks \in Nat \ {0}
ASSUME NoTaskAssumption == NoTask \notin Task /\ NoTask \notin Checkpoint
ASSUME StoreMayFailAssumption == StoreMayFail \in BOOLEAN

Ids == 1 .. MaxTasks

VARIABLES phase,       \* "down", "loading" (inside load()) or "serving"
          seq,         \* Manager.seq, the number in the last id handed out
          tasks,       \* Manager.tasks
          saving,      \* the store write in progress for each task
          finalizing,  \* finalizer calls in flight for each task
          store,       \* the tasks bucket
          ckpts,       \* the "latest:" entries of the checkpoints bucket
          answered     \* tasks some Wait caller was told are completed

vars == <<phase, seq, tasks, saving, finalizing, store, ckpts, answered>>

\* What happens once the write succeeds: nothing more, the new task becomes
\* visible, or the finalizer is called.
Continuations == {"none", "create", "finalize"}

Idle == [snap |-> NoTask, ckpt |-> FALSE, then |-> "none"]

Write(task, ckpt, then) ==
  [snap |-> IF ckpt THEN CheckpointedSnapshot(task) ELSE task,
   ckpt |-> ckpt,
   then |-> then]

Init == /\ phase = "serving"
        /\ seq = 0
        /\ tasks = [t \in Ids |-> NoTask]
        /\ saving = [t \in Ids |-> Idle]
        /\ finalizing = [t \in Ids |-> 0]
        /\ store = [t \in Ids |-> NoTask]
        /\ ckpts = [t \in Ids |-> NoTask]
        /\ answered = {}

-----------------------------------------------------------------------------
\* lockTaskForUpdate succeeds.
Lockable(t) == /\ phase = "serving"
               /\ tasks[t] # NoTask
               /\ saving[t] = Idle

\* Change the record and start writing it.
Update(t, new, ckpt, then) ==
  /\ tasks' = [tasks EXCEPT ![t] = new]
  /\ saving' = [saving EXCEPT ![t] = Write(new, ckpt, then)]
  /\ UNCHANGED <<phase, seq, finalizing, store, ckpts, answered>>

\* The id is taken before the write; the task is visible only after it.
Create(approval) ==
  /\ phase = "serving"
  /\ seq < MaxTasks
  /\ seq' = seq + 1
  /\ saving' = [saving EXCEPT ![seq + 1] = Write(NewTask(approval), TRUE, "create")]
  /\ UNCHANGED <<phase, tasks, finalizing, store, ckpts, answered>>

Cancel(t) == /\ Lockable(t)
             /\ CanCancel(tasks[t])
             /\ Update(t, Cancelled(tasks[t]), TRUE, "none")

StartSubtask(t, s) == /\ Lockable(t)
                      /\ CanStart(tasks[t], s)
                      /\ Update(t, Started(tasks[t], s), FALSE, "none")

\* Only the assignment changes, which the record abstracts; the write is real.
ReassignSubtask(t, s) == /\ Lockable(t)
                         /\ tasks[t].sub[s] \in Unfinished
                         /\ Update(t, tasks[t], FALSE, "none")

\* completeSubtaskLocked hands a finalizer to its caller exactly when it has
\* put the task into synthesis.
AfterCompletion(new) == IF new.status = "synthesizing" THEN "finalize" ELSE "none"

CompleteSubtask(t, s, ok, out) ==
  /\ Lockable(t)
  /\ tasks[t].status # "cancelled"
  /\ ~ subtaskFinished(tasks[t], s)
  /\ LET new == completeSubtask(tasks[t], s, ok, out)
     IN  Update(t, new, TRUE, AfterCompletion(new))

BeginDispatchAttempt(t, s) ==
  /\ Lockable(t)
  /\ CanBegin(tasks[t], s)
  /\ Len(tasks[t].attempts[s]) < AttemptBound
  /\ Update(t, BegunAttempt(tasks[t], s), FALSE, "none")

FinishDispatchAttempt(t, s, n, status) ==
  /\ Lockable(t)
  /\ AttemptRunning(tasks[t], s, n)
  /\ Update(t, FinishedAttempt(tasks[t], s, n, status), FALSE, "none")

CompleteDispatchAttempt(t, s, n) ==
  /\ Lockable(t)
  /\ AttemptRunning(tasks[t], s, n)
  /\ LET new == CompletedAttempt(tasks[t], s, n, n)
         won == WinsSubtask(tasks[t], s)
     IN  Update(t, new, won, IF won THEN AfterCompletion(new) ELSE "none")

\* Mutant: the caller of the approval forgets to run the finalizer.
ApproveWithoutFinalizer(t) ==
  /\ Lockable(t)
  /\ CanApprove(tasks[t])
  /\ Update(t, Approved(tasks[t]), TRUE, "none")

Approve(t) ==
  /\ Lockable(t)
  /\ CanApprove(tasks[t])
  /\ LET new == Approved(tasks[t])
     IN  Update(t, new, TRUE, AfterCompletion(new))

\* The finalizer returns.  Its answer is dropped if the task has left synthesis.
FinishSynthesis(t, ok) ==
  /\ Lockable(t)
  /\ finalizing[t] > 0
  /\ finalizing' = [finalizing EXCEPT ![t] = @ - 1]
  /\ IF tasks[t].status = "synthesizing"
     THEN LET new == Synthesized(tasks[t], ok)
          IN  /\ tasks' = [tasks EXCEPT ![t] = new]
              /\ saving' = [saving EXCEPT ![t] = Write(new, TRUE, "none")]
     ELSE UNCHANGED <<tasks, saving>>
  /\ UNCHANGED <<phase, seq, store, ckpts, answered>>

ResumeTask(t) == /\ Lockable(t)
                 /\ CanResume(tasks[t])
                 /\ Update(t, Resumed(tasks[t]), TRUE, "none")

\* Mutant: Wait reads under Manager.mu only.
WaitUnderMu(t) == /\ phase = "serving"
                  /\ tasks[t] # NoTask
                  /\ tasks[t].status = "completed"
                  /\ answered' = answered \cup {t}
                  /\ UNCHANGED <<phase, seq, tasks, saving, finalizing, store, ckpts>>

\* Wait reads under persistMu.
Wait(t) == /\ Lockable(t)
           /\ tasks[t].status = "completed"
           /\ answered' = answered \cup {t}
           /\ UNCHANGED <<phase, seq, tasks, saving, finalizing, store, ckpts>>

-----------------------------------------------------------------------------
\* The store transaction: the task and, with it, its checkpoint.
Commit(t) ==
  /\ store' = [store EXCEPT ![t] = saving[t].snap]
  /\ ckpts' = IF saving[t].ckpt
              THEN [ckpts EXCEPT ![t] = checkpointForTask(saving[t].snap)]
              ELSE ckpts

\* A checkpointing write hands its Resumable flag back to the record.
SaveOk(t) ==
  /\ phase # "down"
  /\ saving[t] # Idle
  /\ Commit(t)
  /\ tasks' = IF saving[t].then = "create" THEN [tasks EXCEPT ![t] = saving[t].snap]
              ELSE IF saving[t].ckpt
                   THEN [tasks EXCEPT ![t].resumable = saving[t].snap.resumable]
                   ELSE tasks
  /\ finalizing' = IF saving[t].then = "finalize"
                   THEN [finalizing EXCEPT ![t] = @ + 1] ELSE finalizing
  /\ saving' = [saving EXCEPT ![t] = Idle]
  /\ UNCHANGED <<phase, seq, answered>>

Lost == /\ tasks' = [t \in Ids |-> NoTask]
        /\ saving' = [t \in Ids |-> Idle]
        /\ finalizing' = [t \in Ids |-> 0]
        /\ seq' = 0
        /\ phase' = "down"
        /\ UNCHANGED <<store, ckpts, answered>>

\* Mutant: checkpoint and task are written one after the other, and the second
\* write fails.
SaveFailHalfway(t) ==
  /\ StoreMayFail
  /\ phase = "serving"
  /\ saving[t] # Idle
  /\ saving' = [saving EXCEPT ![t] = Idle]
  /\ ckpts' = IF saving[t].ckpt
              THEN [ckpts EXCEPT ![t] = checkpointForTask(saving[t].snap)] ELSE ckpts
  /\ UNCHANGED <<phase, seq, tasks, finalizing, store, answered>>

\* The record keeps the change that was not written, the new task is dropped,
\* the finalizer is not called; inside load() the open fails.
SaveFail(t) ==
  /\ StoreMayFail
  /\ saving[t] # Idle
  /\ \/ /\ phase = "serving"
        /\ saving' = [saving EXCEPT ![t] = Idle]
        /\ UNCHANGED <<phase, seq, tasks, finalizing, store, ckpts, answered>>
     \/ /\ phase = "loading"
        /\ Lost

Crash == phase # "down" /\ Lost

\* Mutant: a restart rewrites interrupted tasks only.
LoadWriteInterruptedOnly(task) ==
  IF task # NoTask /\ Interrupted(task) THEN Write(Recovered(task), TRUE, "none") ELSE Idle

\* The write load() makes for a stored task, if any: with a checkpoint when the
\* task was interrupted, of the task alone when only attempts were.
LoadWrite(task) ==
  IF task # NoTask /\ (Interrupted(task) \/ AttemptsChanged(task))
  THEN Write(Recovered(task), Interrupted(task), "none")
  ELSE Idle

\* Mutant: Manager.seq restarts from zero.
RestartFromZero ==
  /\ phase = "down"
  /\ phase' = "loading"
  /\ tasks' = [t \in Ids |-> IF store[t] = NoTask THEN NoTask ELSE Recovered(store[t])]
  /\ saving' = [t \in Ids |-> LoadWrite(store[t])]
  /\ seq' = 0
  /\ UNCHANGED <<finalizing, store, ckpts, answered>>

\* load() up to its first write; Manager.seq restarts from the stored ids.
Restart ==
  /\ phase = "down"
  /\ phase' = "loading"
  /\ tasks' = [t \in Ids |-> IF store[t] = NoTask THEN NoTask ELSE Recovered(store[t])]
  /\ saving' = [t \in Ids |-> LoadWrite(store[t])]
  /\ seq' \in 0 .. MaxTasks
  /\ \A t \in Ids : store[t] # NoTask => t <= seq'
  /\ seq' # 0 => store[seq'] # NoTask
  /\ UNCHANGED <<finalizing, store, ckpts, answered>>

Serve == /\ phase = "loading"
         /\ \A t \in Ids : saving[t] = Idle
         /\ phase' = "serving"
         /\ UNCHANGED <<seq, tasks, saving, finalizing, store, ckpts, answered>>

-----------------------------------------------------------------------------
SubtaskStep(t, s) ==
  \/ StartSubtask(t, s)
  \/ ReassignSubtask(t, s)
  \/ CompleteSubtask(t, s, FALSE, 0)
  \/ \E out \in {0, Direct} : CompleteSubtask(t, s, TRUE, out)
  \/ BeginDispatchAttempt(t, s)
  \/ \E n \in 1 .. AttemptBound :
       \/ \E status \in {"succeeded", "failed"} : FinishDispatchAttempt(t, s, n, status)
       \/ CompleteDispatchAttempt(t, s, n)

TaskStep(t) ==
  \/ Cancel(t) \/ Approve(t) \/ ResumeTask(t) \/ Wait(t)
  \/ \E ok \in BOOLEAN : FinishSynthesis(t, ok)
  \/ \E s \in Subtasks : SubtaskStep(t, s)
  \/ SaveOk(t) \/ SaveFail(t)

Next == \/ \E approval \in BOOLEAN : Create(approval)
        \/ \E t \in Ids : TaskStep(t)
        \/ Crash \/ Restart \/ Serve

Spec == Init /\ [][Next]_vars

\* A store write ends, and a finalizer returns (it runs under the task's
\* context and a model timeout); every other step is up to callers and crashes.
FairSpec == /\ Spec
            /\ \A t \in Ids : /\ WF_vars(SaveOk(t) \/ SaveFail(t))
                              /\ WF_vars(\E ok \in BOOLEAN : FinishSynthesis(t, ok))
            /\ WF_vars(Restart)
            /\ WF_vars(Serve)

-----------------------------------------------------------------------------
SaveRecord == [snap : Task \cup {NoTask}, ckpt : BOOLEAN, then : Continuations]

\* Type invariant: what Manager and the bolt buckets hold.
TypeOK == /\ phase \in {"down", "loading", "serving"}
          /\ seq \in 0 .. MaxTasks
          /\ tasks \in [Ids -> Task \cup {NoTask}]
          /\ saving \in [Ids -> SaveRecord]
          /\ finalizing \in [Ids -> Nat]
          /\ store \in [Ids -> Task \cup {NoTask}]
          /\ ckpts \in [Ids -> Checkpoint \cup {NoTask}]
          /\ answered \in SUBSET Ids

\* In memory and in the store, a task's status agrees with its subtasks
\* whatever mix of cancellation, resumption, late outcomes, failed writes and
\* restarts produced it (completeSubtaskLocked, CancelAndSnapshotChecked,
\* ResumeTaskChecked and load each maintain the roll-up by hand).
RollUpConsistent ==
  \A t \in Ids : /\ tasks[t] # NoTask => StatusAgrees(tasks[t])
                 /\ store[t] # NoTask => StatusAgrees(store[t])

\* An output credited to a dispatch attempt belongs to a completed subtask and
\* to an attempt recorded as succeeded, in memory and in the store: a crash or a
\* failed write never separates CompleteDispatchAttempt's attempt row from the
\* output it won with ("atomically persists a successful attempt and its
\* subtask output in one task snapshot").
OutputsEarned ==
  \A t \in Ids : /\ tasks[t] # NoTask => OutputEarned(tasks[t])
                 /\ store[t] # NoTask => OutputEarned(store[t])

\* At most one finalizer call or finalizer-bound write exists per task: no
\* sequence of approvals, cancellations, resumptions and late completions
\* makes the manager synthesize a task twice at once.
OneFinalizer ==
  \A t \in Ids :
    finalizing[t] + (IF saving[t].then = "finalize" THEN 1 ELSE 0) <= 1

\* When store writes succeed, a task in synthesis always has somebody to take
\* it out: its write is still in progress or its finalizer is running.
SynthesisOwned ==
  StoreMayFail \/ \A t \in Ids :
    phase = "serving" /\ tasks[t] # NoTask /\ tasks[t].status = "synthesizing" =>
      finalizing[t] > 0 \/ saving[t].then = "finalize"

\* The latest checkpoint never runs ahead of the stored task: what it lists as
\* output is completed in the store, and nothing in its frontier waits for a
\* prerequisite the store has not completed.
CheckpointBehindStore ==
  \A t \in Ids : ckpts[t] # NoTask =>
    /\ store[t] # NoTask
    /\ \A s \in ckpts[t].done : store[t].sub[s] = "completed" /\ store[t].output[s] # 0
    /\ \A s \in ckpts[t].frontier : \A d \in DependsOn[s] : store[t].sub[d] = "completed"

\* waitSnapshot "serializes terminal-state reads with durable task updates so
\* Wait cannot report completion before the corresponding checkpoint is saved":
\* a completion some Wait caller was told about is in the store from then on,
\* and so is its checkpoint.
ReportedCompletionIsDurable ==
  \A t \in answered : /\ store[t] # NoTask
                      /\ store[t].status = "completed"
                      /\ ckpts[t] # NoTask
                      /\ ckpts[t].status = "completed"

\* Durable progress: no step, be it an update, a restart's rewrite or the reuse
\* of an id after a restart, replaces a stored task by one that has lost a
\* completion, an output or a finished attempt.
DurableProgress ==
  [][\A t \in Ids : store[t] # NoTask =>
        store'[t] # NoTask /\ Extends(store[t], store'[t])]_vars

\* A manager that starts serving after a restart has no live work left over:
\* every task it knows is stored as it is in memory, none is running or in
\* synthesis, and no attempt is still recorded as running.
CleanRestart ==
  [][phase = "loading" /\ phase' = "serving" =>
       \A t \in Ids :
         /\ tasks'[t] # NoTask <=> store'[t] # NoTask
         /\ store'[t] # NoTask =>
              /\ [store'[t] EXCEPT !.resumable = TRUE] = [tasks'[t] EXCEPT !.resumable = TRUE]
              /\ ~ Interrupted(store'[t])
              /\ ~ AttemptsChanged(store'[t])]_vars

\* The manager implements the ledger it promises: the store is the ledger.
Ledger == INSTANCE TaskLedger WITH ledger <- store

ImplementsLedger == Ledger!LedgerSpec

\* A task in synthesis leaves it, if only because a restart interrupts it.
SynthesisEnds ==
  \A t \in Ids : (tasks[t] # NoTask /\ tasks[t].status = "synthesizing")
                 ~> (tasks[t] = NoTask \/ tasks[t].status # "synthesizing")
=============================================================================
