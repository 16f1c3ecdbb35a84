-------------------------- MODULE TaskManagerProofs --------------------------
(***************************************************************************)
(* Theorems about TaskManager, for every set of subtasks and dependencies  *)
(* and every value of the bounds.                                          *)
(***************************************************************************)
EXTENDS TaskManager, SequenceTheorems, TLAPS

-----------------------------------------------------------------------------
(***************************************************************************)
(* The operations on task records                                          *)
(***************************************************************************)

\* The two properties of a record that every operation maintains.
Good(task) == StatusAgrees(task) /\ OutputEarned(task)

\* A version that keeps the type and the record properties and undoes nothing.
Sound(old, new) == new \in Task /\ Good(new) /\ Extends(old, new)

\* A version extends itself.
LEMMA ExtendsReflexive ==
  ASSUME NEW x \in Task
  PROVE  Extends(x, x)
BY DEF Extends, Task

\* Extension composes: what survives one step after another survives both.
LEMMA ExtendsTransitive ==
  ASSUME NEW x \in Task, NEW y \in Task, NEW z \in Task,
         Extends(x, y), Extends(y, z)
  PROVE  Extends(x, z)
<1>1. \A s \in Subtasks : /\ Len(x.attempts[s]) \in Nat
                          /\ Len(y.attempts[s]) \in Nat
                          /\ Len(z.attempts[s]) \in Nat
  BY DEF Task
<1>2. ASSUME NEW s \in Subtasks, NEW n \in 1 .. Len(x.attempts[s]),
             x.attempts[s][n] # "running"
      PROVE  z.attempts[s][n] = x.attempts[s][n]
  <2>1. n \in 1 .. Len(y.attempts[s])
    BY <1>1 DEF Extends
  <2>2. y.attempts[s][n] = x.attempts[s][n]
    BY <1>2 DEF Extends
  <2> QED
    BY <1>2, <2>1, <2>2 DEF Extends
<1>3. \A s \in Subtasks : Len(x.attempts[s]) <= Len(z.attempts[s])
  BY <1>1 DEF Extends
<1> QED
  BY <1>2, <1>3 DEF Extends

\* A new task is a well-typed record with nothing to its credit.
LEMMA NewTaskGood ==
  ASSUME NEW approval \in BOOLEAN
  PROVE  NewTask(approval) \in Task /\ Good(NewTask(approval))
BY AttemptBoundAssumption
DEF NewTask, Task, Good, StatusAgrees, OutputEarned, TaskStatus, SubtaskStatus, Outputs,
    Direct, AllCompleted, NoneUnfinished

\* Cancellation (CancelAndSnapshotChecked) undoes nothing.
LEMMA CancelledSound ==
  ASSUME NEW task \in Task, Good(task), CanCancel(task)
  PROVE  Sound(task, Cancelled(task))
<1> DEFINE new == Cancelled(task)
<1>1. /\ new.status = "cancelled" /\ new.output = task.output
      /\ new.attempts = task.attempts /\ new.approval = task.approval
      /\ new.sub = [s \in Subtasks |-> IF task.sub[s] \in Unfinished THEN "cancelled"
                                       ELSE task.sub[s]]
  BY DEF Cancelled, Task
<1>2. new \in Task
  BY Zenon DEF Cancelled, Task, TaskStatus, SubtaskStatus, AnyCompleted
<1>3. Good(new)
  BY <1>1 DEF Good, StatusAgrees, OutputEarned, NoneUnfinished, Unfinished, Task, CanCancel
<1>4. Extends(task, new)
  BY <1>1 DEF Extends, CanCancel, Terminal, Unfinished, Task
<1> QED
  BY <1>2, <1>3, <1>4 DEF Sound

\* Starting a subtask undoes nothing.
LEMMA StartedSound ==
  ASSUME NEW task \in Task, Good(task), NEW s \in Subtasks, CanStart(task, s)
  PROVE  Sound(task, Started(task, s))
<1> DEFINE new == Started(task, s)
<1>1. /\ new.status = task.status /\ new.output = task.output
      /\ new.attempts = task.attempts /\ new.approval = task.approval
      /\ new.sub = [task.sub EXCEPT ![s] = "running"]
  BY DEF Started, Task
<1>2. new \in Task
  BY Zenon DEF Started, Task, TaskStatus, SubtaskStatus
<1>3. Good(new)
  BY <1>1 DEF Good, StatusAgrees, OutputEarned, NoneUnfinished, AllCompleted, Unfinished,
              Task, CanStart, TaskStatus
<1>4. Extends(task, new)
  BY <1>1 DEF Extends, CanStart, Unfinished, Task
<1> QED
  BY <1>2, <1>3, <1>4 DEF Sound

\* Recording a subtask's outcome undoes nothing, provided an output credited to
\* an attempt names a succeeded one.
LEMMA CompleteSubtaskSound ==
  ASSUME NEW task \in Task, Good(task), NEW s \in Subtasks, NEW ok \in BOOLEAN,
         NEW out \in Outputs,
         task.status # "cancelled", task.sub[s] \in Unfinished,
         out \in 1 .. AttemptBound => /\ out \in DOMAIN task.attempts[s]
                                      /\ task.attempts[s][out] = "succeeded"
  PROVE  Sound(task, completeSubtask(task, s, ok, out))
<1> DEFINE new == completeSubtask(task, s, ok, out)
           sub == [task.sub EXCEPT ![s] = IF ok THEN "completed" ELSE "failed"]
           allDone == \A x \in Subtasks : sub[x] \notin Unfinished
           status == IF allDone THEN RolledUp(sub, task.approval) ELSE task.status
<1>1. /\ new.status = status /\ new.sub = sub
      /\ new.output = [task.output EXCEPT ![s] = IF ok THEN out ELSE @]
      /\ new.attempts = task.attempts /\ new.approval = task.approval
      /\ new.resumable \in BOOLEAN
  BY DEF completeSubtask, Task
<1>2. sub \in [Subtasks -> SubtaskStatus] /\ status \in TaskStatus
  BY DEF Task, SubtaskStatus, TaskStatus, RolledUp
<1>3. new \in Task
  BY Zenon, <1>2 DEF completeSubtask, Task
<1>4. task.status = "running"
  BY DEF Good, StatusAgrees, AllCompleted, NoneUnfinished, Unfinished, Task, TaskStatus
<1>5. \A x \in Subtasks : task.sub[x] # "cancelled"
  BY <1>4 DEF Good, StatusAgrees
<1>6. StatusAgrees(new)
  <2>1. \A x \in Subtasks : sub[x] # "cancelled"
    BY <1>5 DEF Task
  <2>2. CASE allDone
    <3>1. \A x \in Subtasks : sub[x] \in {"completed", "failed"}
      BY <1>2, <2>1, <2>2 DEF SubtaskStatus, Unfinished
    <3> QED
      BY <1>1, <2>1, <2>2, <3>1
      DEF RolledUp, StatusAgrees, AllCompleted, NoneUnfinished, Unfinished
  <2>3. CASE ~ allDone
    BY <1>1, <1>4, <2>1, <2>3 DEF StatusAgrees
  <2> QED
    BY <2>2, <2>3
<1>7. OutputEarned(new)
  BY <1>1 DEF Good, OutputEarned, Task, Unfinished, Outputs
<1>8. Extends(task, new)
  BY <1>1, <1>4 DEF Extends, Unfinished, Task
<1> QED
  BY <1>3, <1>6, <1>7, <1>8 DEF Sound, Good

\* Approval undoes nothing.
LEMMA ApprovedSound ==
  ASSUME NEW task \in Task, Good(task), CanApprove(task)
  PROVE  Sound(task, Approved(task))
<1> DEFINE new == Approved(task)
<1>1. /\ new.status \in {"synthesizing", "completed"} /\ new.output = task.output
      /\ new.attempts = task.attempts /\ new.approval = task.approval
      /\ new.sub = task.sub
  BY DEF Approved, Task
<1>2. new \in Task
  BY Zenon DEF Approved, Task, TaskStatus
<1>3. Good(new)
  BY <1>1 DEF Good, StatusAgrees, OutputEarned, AllCompleted, CanApprove
<1>4. Extends(task, new)
  BY <1>1 DEF Extends, CanApprove, Task
<1> QED
  BY <1>2, <1>3, <1>4 DEF Sound

\* Applying the finalizer's answer undoes nothing.
LEMMA SynthesizedSound ==
  ASSUME NEW task \in Task, Good(task), NEW ok \in BOOLEAN, task.status = "synthesizing"
  PROVE  Sound(task, Synthesized(task, ok))
<1> DEFINE new == Synthesized(task, ok)
<1>1. /\ new.status \in {"failed", "completed"} /\ new.output = task.output
      /\ new.attempts = task.attempts /\ new.approval = task.approval
      /\ new.sub = task.sub
  BY DEF Synthesized, Task
<1>2. new \in Task
  BY Zenon DEF Synthesized, Task, TaskStatus
<1>3. Good(new)
  BY <1>1 DEF Good, StatusAgrees, OutputEarned, AllCompleted, NoneUnfinished, Unfinished
<1>4. Extends(task, new)
  BY <1>1 DEF Extends, Task
<1> QED
  BY <1>2, <1>3, <1>4 DEF Sound

\* Resumption keeps what is completed.
LEMMA ResumedSound ==
  ASSUME NEW task \in Task, Good(task), CanResume(task)
  PROVE  Sound(task, Resumed(task))
<1> DEFINE new == Resumed(task)
<1>1. /\ new.status = "running" /\ new.output = task.output
      /\ new.attempts = task.attempts /\ new.approval = task.approval
      /\ new.sub = [s \in Subtasks |-> IF task.sub[s] = "completed" THEN "completed"
                                       ELSE "pending"]
  BY DEF Resumed, Task
<1>2. new \in Task
  BY Zenon DEF Resumed, Task, TaskStatus, SubtaskStatus
<1>3. Good(new)
  BY <1>1 DEF Good, StatusAgrees, OutputEarned, Task
<1>4. Extends(task, new)
  BY <1>1 DEF Extends, CanResume, Task
<1> QED
  BY <1>2, <1>3, <1>4 DEF Sound

\* Opening an attempt only lengthens the history.
LEMMA BegunAttemptSound ==
  ASSUME NEW task \in Task, Good(task), NEW s \in Subtasks
  PROVE  Sound(task, BegunAttempt(task, s))
<1> DEFINE new == BegunAttempt(task, s)
<1>1. /\ new.status = task.status /\ new.output = task.output
      /\ new.attempts = [task.attempts EXCEPT ![s] = Append(task.attempts[s], "running")]
      /\ new.approval = task.approval /\ new.sub = task.sub
  BY DEF BegunAttempt, Task
<1>2. new \in Task
  <2>1. Append(task.attempts[s], "running") \in Seq(AttemptStatus)
    BY AppendProperties DEF Task, AttemptStatus
  <2>2. new.attempts \in [Subtasks -> Seq(AttemptStatus)]
    BY <1>1, <2>1 DEF Task
  <2> QED
    BY Zenon, <2>2 DEF BegunAttempt, Task
<1>3. \A x \in Subtasks :
        /\ Len(task.attempts[x]) <= Len(new.attempts[x])
        /\ \A n \in 1 .. Len(task.attempts[x]) : new.attempts[x][n] = task.attempts[x][n]
        /\ DOMAIN task.attempts[x] = 1 .. Len(task.attempts[x])
        /\ DOMAIN new.attempts[x] = 1 .. Len(new.attempts[x])
        /\ Len(new.attempts[x]) \in Nat /\ Len(task.attempts[x]) \in Nat
  <2> TAKE x \in Subtasks
  <2>1. task.attempts[x] \in Seq(AttemptStatus) /\ "running" \in AttemptStatus
    BY DEF Task, AttemptStatus
  <2>2. new.attempts[x] = IF x = s THEN Append(task.attempts[x], "running") ELSE task.attempts[x]
    BY <1>1 DEF Task
  <2> QED
    BY <2>1, <2>2
<1>4. Good(new)
  <2>1. StatusAgrees(new)
    BY <1>1 DEF Good, StatusAgrees, AllCompleted, NoneUnfinished
  <2>2. OutputEarned(new)
    BY <1>1, <1>3 DEF Good, OutputEarned
  <2> QED
    BY <2>1, <2>2 DEF Good
<1>5. Extends(task, new)
  BY <1>1, <1>3 DEF Extends, Task
<1> QED
  BY <1>2, <1>4, <1>5 DEF Sound

\* Closing a running attempt undoes nothing.
LEMMA FinishedAttemptSound ==
  ASSUME NEW task \in Task, Good(task), NEW s \in Subtasks, NEW n,
         AttemptRunning(task, s, n), NEW status \in {"succeeded", "failed"}
  PROVE  /\ Sound(task, FinishedAttempt(task, s, n, status))
         /\ FinishedAttempt(task, s, n, status).attempts[s][n] = status
         /\ n \in DOMAIN FinishedAttempt(task, s, n, status).attempts[s]
<1> DEFINE new == FinishedAttempt(task, s, n, status)
<1>1. /\ new.status = task.status /\ new.output = task.output
      /\ new.attempts = [task.attempts EXCEPT ![s] = [task.attempts[s] EXCEPT ![n] = status]]
      /\ new.approval = task.approval /\ new.sub = task.sub
  BY DEF FinishedAttempt, Task
<1>2. n \in DOMAIN task.attempts[s] /\ task.attempts[s][n] = "running"
  BY DEF AttemptRunning
<1>3. new \in Task
  <2>1. [task.attempts[s] EXCEPT ![n] = status] \in Seq(AttemptStatus)
    BY <1>2, ExceptSeq DEF Task, AttemptStatus
  <2>2. new.attempts \in [Subtasks -> Seq(AttemptStatus)]
    BY <1>1, <2>1 DEF Task
  <2> QED
    BY Zenon, <2>2 DEF FinishedAttempt, Task
<1>4. \A x \in Subtasks :
        /\ Len(new.attempts[x]) = Len(task.attempts[x])
        /\ \A k \in DOMAIN task.attempts[x] :
             task.attempts[x][k] # "running" => new.attempts[x][k] = task.attempts[x][k]
        /\ DOMAIN task.attempts[x] = 1 .. Len(task.attempts[x])
        /\ DOMAIN new.attempts[x] = DOMAIN task.attempts[x]
        /\ Len(task.attempts[x]) \in Nat
  <2> TAKE x \in Subtasks
  <2>1. task.attempts[x] \in Seq(AttemptStatus)
    BY DEF Task
  <2>2. new.attempts[x] = IF x = s THEN [task.attempts[x] EXCEPT ![n] = status]
                          ELSE task.attempts[x]
    BY <1>1 DEF Task
  <2>3. new.attempts[x] \in Seq(AttemptStatus)
    BY <1>3 DEF Task
  <2>4. DOMAIN new.attempts[x] = DOMAIN task.attempts[x]
    BY <2>2
  <2>5. Len(new.attempts[x]) = Len(task.attempts[x])
    BY <2>1, <2>3, <2>4
  <2>6. ASSUME NEW k \in DOMAIN task.attempts[x], task.attempts[x][k] # "running"
        PROVE  new.attempts[x][k] = task.attempts[x][k]
    BY <1>2, <2>2, <2>6
  <2> QED
    BY <2>1, <2>4, <2>5, <2>6
<1>5. Good(new)
  <2>1. StatusAgrees(new)
    BY SMTT(30), <1>1 DEF Good, StatusAgrees, AllCompleted, NoneUnfinished
  <2>2. OutputEarned(new)
    BY <1>1, <1>4 DEF Good, OutputEarned
  <2> QED
    BY <2>1, <2>2 DEF Good
<1>6. Extends(task, new)
  BY <1>1, <1>4 DEF Extends, Task
<1>7. new.attempts[s][n] = status /\ n \in DOMAIN new.attempts[s]
  BY <1>1, <1>2, <1>4 DEF Task
<1> QED
  BY <1>3, <1>5, <1>6, <1>7 DEF Sound

\* A successful attempt, winning or late, undoes nothing.
LEMMA CompletedAttemptSound ==
  ASSUME NEW task \in Task, Good(task), NEW s \in Subtasks, NEW n \in 1 .. AttemptBound,
         AttemptRunning(task, s, n)
  PROVE  Sound(task, CompletedAttempt(task, s, n, n))
<1> DEFINE recorded == FinishedAttempt(task, s, n, "succeeded")
<1>1. /\ Sound(task, recorded)
      /\ recorded.attempts[s][n] = "succeeded" /\ n \in DOMAIN recorded.attempts[s]
  BY FinishedAttemptSound
<1>2. recorded.status = task.status /\ recorded.sub = task.sub
  BY DEF FinishedAttempt, Task
<1>3. CASE WinsSubtask(task, s)
  <2>1. Sound(recorded, completeSubtask(recorded, s, TRUE, n))
    <3>1. n \in Outputs
      BY AttemptBoundAssumption DEF Outputs, Direct
    <3>2. recorded \in Task /\ Good(recorded)
      BY <1>1 DEF Sound
    <3>3. recorded.status # "cancelled" /\ recorded.sub[s] \in Unfinished
      BY <1>2, <1>3 DEF WinsSubtask, Unfinished
    <3> HIDE DEF recorded
    <3> QED
      BY Zenon, <1>1, <3>1, <3>2, <3>3, CompleteSubtaskSound
  <2>2. CompletedAttempt(task, s, n, n) = completeSubtask(recorded, s, TRUE, n)
    BY <1>3 DEF CompletedAttempt
  <2> HIDE DEF recorded
  <2> QED
    BY Zenon, <1>1, <2>1, <2>2, ExtendsTransitive DEF Sound
<1>4. CASE ~ WinsSubtask(task, s)
  BY <1>1, <1>4 DEF CompletedAttempt
<1> QED
  BY <1>3, <1>4

\* What load() makes of a stored task undoes nothing in it.
LEMMA RecoveredSound ==
  ASSUME NEW task \in Task, Good(task)
  PROVE  Sound(task, Recovered(task))
<1> DEFINE new == Recovered(task)
           closed(q) == [n \in DOMAIN q |-> IF q[n] = "running" THEN "failed" ELSE q[n]]
<1>1. /\ new.status = (IF Interrupted(task) THEN "failed" ELSE task.status)
      /\ new.output = task.output /\ new.approval = task.approval
      /\ new.attempts = [s \in Subtasks |-> closed(task.attempts[s])]
      /\ new.sub = [s \in Subtasks |-> IF Interrupted(task) /\ task.sub[s] \in Unfinished
                                       THEN "failed" ELSE task.sub[s]]
  BY DEF Recovered, Task
<1>2. ASSUME NEW s \in Subtasks
      PROVE  /\ closed(task.attempts[s]) \in Seq(AttemptStatus)
             /\ Len(closed(task.attempts[s])) = Len(task.attempts[s])
             /\ DOMAIN closed(task.attempts[s]) = DOMAIN task.attempts[s]
             /\ DOMAIN task.attempts[s] = 1 .. Len(task.attempts[s])
             /\ Len(task.attempts[s]) \in Nat
  <2>1. task.attempts[s] \in Seq(AttemptStatus)
    BY DEF Task
  <2>2. DOMAIN task.attempts[s] = 1 .. Len(task.attempts[s]) /\ Len(task.attempts[s]) \in Nat
    BY <2>1
  <2>3. closed(task.attempts[s]) \in [1 .. Len(task.attempts[s]) -> AttemptStatus]
    BY <2>1, <2>2 DEF AttemptStatus
  <2>4. closed(task.attempts[s]) \in Seq(AttemptStatus)
    BY <2>2, <2>3, SeqDef
  <2>5. DOMAIN closed(task.attempts[s]) = DOMAIN task.attempts[s]
    OBVIOUS
  <2>6. Len(closed(task.attempts[s])) = Len(task.attempts[s])
    <3> DEFINE c == closed(task.attempts[s])
    <3>1. c \in Seq(AttemptStatus) /\ DOMAIN c = 1 .. Len(task.attempts[s])
      BY <2>2, <2>4, <2>5
    <3> HIDE DEF c
    <3> QED
      BY <2>2, <3>1
  <2> QED
    BY <2>2, <2>4, <2>5, <2>6
<1>3. new \in Task
  <2>1. new.attempts \in [Subtasks -> Seq(AttemptStatus)]
    BY <1>1, <1>2
  <2>2. new.sub \in [Subtasks -> SubtaskStatus]
    BY <1>1 DEF Task, SubtaskStatus
  <2>3. new.status \in TaskStatus
    BY <1>1 DEF Task, TaskStatus
  <2>4. new.resumable \in BOOLEAN
    BY DEF Recovered, Task
  <2> QED
    BY Zenon, <2>1, <2>2, <2>3, <2>4 DEF Recovered, Task
<1>4. StatusAgrees(new)
  BY <1>1 DEF Good, StatusAgrees, Interrupted, AllCompleted, NoneUnfinished, Unfinished, Task,
              TaskStatus, SubtaskStatus
<1>5. \A s \in Subtasks : \A n \in DOMAIN task.attempts[s] :
        task.attempts[s][n] # "running" => new.attempts[s][n] = task.attempts[s][n]
  BY <1>1
<1>6. \A s \in Subtasks : /\ DOMAIN new.attempts[s] = DOMAIN task.attempts[s]
                          /\ Len(new.attempts[s]) = Len(task.attempts[s])
  BY SMTT(30), <1>1, <1>2
<1>7. OutputEarned(new)
  <2>1. \A s \in Subtasks : task.sub[s] = "completed" => new.sub[s] = "completed"
    BY SMTT(30), <1>1 DEF Unfinished
  <2> QED
    BY <1>1, <1>5, <1>6, <2>1 DEF Good, OutputEarned
<1>8. Extends(task, new)
  <2>1. \A s \in Subtasks : task.sub[s] = "completed" => new.sub[s] = "completed"
    BY <1>1 DEF Unfinished
  <2>2. task.status = "completed" => new.status = "completed"
    BY <1>1 DEF Interrupted
  <2> QED
    BY <1>1, <1>2, <1>5, <1>6, <2>1, <2>2 DEF Extends
<1> QED
  BY <1>3, <1>4, <1>7, <1>8 DEF Sound, Good

\* Two versions that differ in the Resumable flag only.
SameButResumable(x, y) == /\ x.status = y.status /\ x.sub = y.sub /\ x.output = y.output
                          /\ x.attempts = y.attempts /\ x.approval = y.approval

\* The flag plays no part in what a version records.
LEMMA ResumableIrrelevant ==
  ASSUME NEW x \in Task, NEW y \in Task, SameButResumable(x, y)
  PROVE  /\ Good(x) <=> Good(y)
         /\ \A z \in Task : /\ Extends(z, x) => Extends(z, y)
                            /\ Extends(x, z) => Extends(y, z)
BY DEF SameButResumable, Good, StatusAgrees, OutputEarned, Extends, AllCompleted, NoneUnfinished

\* The snapshot a checkpointing write takes differs in the flag only.
LEMMA SnapshotSame ==
  ASSUME NEW x \in Task
  PROVE  /\ CheckpointedSnapshot(x) \in Task
         /\ SameButResumable(CheckpointedSnapshot(x), x)
BY Zenon DEF CheckpointedSnapshot, SameButResumable, Task

-----------------------------------------------------------------------------
(***************************************************************************)
(* The inductive invariant                                                 *)
(***************************************************************************)

\* A process that is down has no memory; otherwise ids above Manager.seq are
\* unused everywhere, so that Create overwrites nothing.
Fresh ==
  /\ phase = "down" => \A t \in Ids : /\ tasks[t] = NoTask /\ saving[t] = Idle
                                      /\ finalizing[t] = 0
  /\ phase # "down" => \A t \in Ids : t > seq => /\ tasks[t] = NoTask /\ saving[t] = Idle
                                                /\ store[t] = NoTask

\* A known task is stored, and memory is ahead of the store.
MemoryAhead(t) ==
  /\ store[t] # NoTask => Good(store[t])
  /\ tasks[t] # NoTask => /\ store[t] # NoTask
                          /\ Extends(store[t], tasks[t])
                          /\ Good(tasks[t])

\* A write in progress carries the record it was started for.
WriteCurrent(t) ==
  saving[t] # Idle =>
    IF saving[t].then = "create"
    THEN /\ tasks[t] = NoTask /\ store[t] = NoTask
         /\ \E approval \in BOOLEAN : saving[t].snap = NewTask(approval)
    ELSE /\ tasks[t] # NoTask /\ saving[t].snap # NoTask
         /\ SameButResumable(saving[t].snap, tasks[t])

\* A finalizer, in flight or about to be called, belongs to a task all of whose
\* subtasks are completed and which no approval can send into synthesis again.
FinalizerOwned(t) ==
  /\ finalizing[t] <= 1
  /\ finalizing[t] > 0 => /\ tasks[t] # NoTask /\ AllCompleted(tasks[t])
                         /\ tasks[t].status # "awaiting_approval"
                         /\ saving[t].then # "finalize"
  /\ saving[t].then = "finalize" => /\ tasks[t] # NoTask /\ AllCompleted(tasks[t])
                                   /\ tasks[t].status = "synthesizing"

IInv == /\ TypeOK
        /\ Fresh
        /\ \A t \in Ids : MemoryAhead(t) /\ WriteCurrent(t) /\ FinalizerOwned(t)

\* Writes are well-typed.
LEMMA WriteType ==
  ASSUME NEW x \in Task, NEW ckpt \in BOOLEAN, NEW then \in Continuations
  PROVE  /\ Write(x, ckpt, then) \in SaveRecord
         /\ Write(x, ckpt, then).snap \in Task
         /\ Write(x, ckpt, then).then = then
         /\ Write(x, ckpt, then).ckpt = ckpt
         /\ SameButResumable(Write(x, ckpt, then).snap, x)
         /\ Write(x, ckpt, then) # Idle
<1>1. SameButResumable(x, x)
  BY DEF SameButResumable
<1> QED
  BY <1>1, SnapshotSame, NoTaskAssumption DEF Write, SaveRecord, Idle

\* An idle record is well-typed, and has no continuation.
LEMMA IdleType == Idle \in SaveRecord /\ Idle.then = "none" /\ Idle.snap = NoTask
BY DEF Idle, SaveRecord, Continuations

\* The initial state satisfies the invariant.
LEMMA InitIInv == Init => IInv
<1> SUFFICES ASSUME Init PROVE IInv
  OBVIOUS
<1>1. TypeOK
  BY IdleType, MaxTasksAssumption DEF Init, TypeOK, Ids
<1>2. Fresh
  BY DEF Init, Fresh
<1>3. ASSUME NEW t \in Ids
      PROVE  MemoryAhead(t) /\ WriteCurrent(t) /\ FinalizerOwned(t)
  BY IdleType DEF Init, MemoryAhead, WriteCurrent, FinalizerOwned
<1> QED
  BY <1>1, <1>2, <1>3 DEF IInv

\* Every update of a record by a sound version preserves the invariant.
LEMMA UpdateIInv ==
  ASSUME IInv, NEW t \in Ids, Lockable(t), NEW new, NEW ckpt \in BOOLEAN,
         NEW then \in {"none", "finalize"}, Update(t, new, ckpt, then),
         Sound(tasks[t], new),
         finalizing[t] > 0 => /\ AllCompleted(new) /\ new.status # "awaiting_approval"
                              /\ then # "finalize",
         then = "finalize" => AllCompleted(new) /\ new.status = "synthesizing"
  PROVE  IInv'
<1> USE DEF Update
<1>1. new \in Task /\ Good(new) /\ Extends(tasks[t], new) /\ new # NoTask
  BY NoTaskAssumption DEF Sound
<1>2. /\ tasks[t] \in Task /\ store[t] \in Task /\ Extends(store[t], tasks[t])
      /\ store[t] # NoTask /\ tasks[t] # NoTask
  BY DEF IInv, TypeOK, MemoryAhead, Lockable
<1>3. /\ Write(new, ckpt, then) \in SaveRecord
      /\ Write(new, ckpt, then).snap \in Task
      /\ Write(new, ckpt, then).then = then
      /\ SameButResumable(Write(new, ckpt, then).snap, new)
  BY <1>1, WriteType DEF Continuations
<1>4. TypeOK'
  BY <1>1, <1>3 DEF IInv, TypeOK
<1>5. Fresh'
  BY <1>2 DEF IInv, TypeOK, Fresh, Lockable
<1>6. ASSUME NEW u \in Ids
      PROVE  (MemoryAhead(u) /\ WriteCurrent(u) /\ FinalizerOwned(u))'
  <2>1. CASE u # t
    BY <2>1 DEF IInv, TypeOK, MemoryAhead, WriteCurrent, FinalizerOwned
  <2>2. CASE u = t
    <3>1. tasks'[u] = new /\ saving'[u] = Write(new, ckpt, then) /\ store'[u] = store[t]
      BY SMTT(30), <2>2 DEF IInv, TypeOK
    <3>2. MemoryAhead(u)'
      BY SMTT(30), <1>1, <1>2, <3>1, ExtendsTransitive, <2>2 DEF MemoryAhead, IInv
    <3>3. WriteCurrent(u)'
      BY SMTT(30), <1>1, <1>3, <3>1, NoTaskAssumption DEF WriteCurrent
    <3>4. FinalizerOwned(u)'
      BY <1>1, <1>3, <3>1, <2>2 DEF FinalizerOwned, IInv
    <3> QED
      BY <3>2, <3>3, <3>4
  <2> QED
    BY SMTT(30), <2>1, <2>2
<1> QED
  BY <1>4, <1>5, <1>6 DEF IInv

\* A record in synthesis has all its subtasks completed, so the continuation
\* completeSubtaskLocked and ApproveChecked choose is the right one.
LEMMA AfterCompletionOwned ==
  ASSUME NEW new \in Task, Good(new)
  PROVE  /\ AfterCompletion(new) \in {"none", "finalize"}
         /\ AfterCompletion(new) = "finalize" => AllCompleted(new) /\ new.status = "synthesizing"
BY DEF AfterCompletion, Good, StatusAgrees

\* The record an update starts from.
LEMMA LockedRecord ==
  ASSUME IInv, NEW t \in Ids, Lockable(t)
  PROVE  /\ tasks[t] \in Task /\ Good(tasks[t])
         /\ finalizing[t] > 0 => /\ AllCompleted(tasks[t])
                                /\ tasks[t].status # "awaiting_approval"
BY DEF IInv, TypeOK, MemoryAhead, FinalizerOwned, Lockable

\* The operations that change a record preserve the invariant.
LEMMA OperationIInv ==
  ASSUME IInv, NEW t \in Ids,
         \/ Cancel(t) \/ Approve(t) \/ ResumeTask(t)
         \/ \E s \in Subtasks : SubtaskStep(t, s)
  PROVE  IInv'
<1> DEFINE rec == tasks[t]
<1>1. CASE Cancel(t)
  <2>1. Lockable(t) /\ CanCancel(rec) /\ Update(t, Cancelled(rec), TRUE, "none")
    BY Zenon, <1>1 DEF Cancel
  <2>2. Sound(rec, Cancelled(rec))
    BY <2>1, LockedRecord, CancelledSound
  <2>3. AllCompleted(rec) => AllCompleted(Cancelled(rec))
    BY <2>1, LockedRecord DEF AllCompleted, Cancelled, Task, Unfinished
  <2>4. Cancelled(rec).status = "cancelled"
    BY <2>1, LockedRecord DEF Cancelled, Task
  <2> QED
    BY Zenon, <2>1, <2>2, <2>3, <2>4, LockedRecord, UpdateIInv
<1>2. CASE Approve(t)
  <2>1. /\ Lockable(t) /\ CanApprove(rec)
        /\ Update(t, Approved(rec), TRUE, AfterCompletion(Approved(rec)))
    BY Zenon, <1>2 DEF Approve
  <2>2. Sound(rec, Approved(rec))
    BY <2>1, LockedRecord, ApprovedSound
  <2>3. ~ (finalizing[t] > 0)
    BY <2>1, LockedRecord DEF CanApprove
  <2> QED
    BY Zenon, <2>1, <2>2, <2>3, AfterCompletionOwned, UpdateIInv DEF Sound
<1>3. CASE ResumeTask(t)
  <2>1. Lockable(t) /\ CanResume(rec) /\ Update(t, Resumed(rec), TRUE, "none")
    BY Zenon, <1>3 DEF ResumeTask
  <2>2. Sound(rec, Resumed(rec))
    BY <2>1, LockedRecord, ResumedSound
  <2>3. AllCompleted(rec) => AllCompleted(Resumed(rec))
    BY <2>1, LockedRecord DEF AllCompleted, Resumed, Task
  <2>4. Resumed(rec).status = "running"
    BY <2>1, LockedRecord DEF Resumed, Task
  <2> QED
    BY Zenon, <2>1, <2>2, <2>3, <2>4, LockedRecord, UpdateIInv
<1>4. ASSUME NEW s \in Subtasks, SubtaskStep(t, s)
      PROVE  IInv'
  <2>1. CASE StartSubtask(t, s)
    <3>1. Lockable(t) /\ CanStart(rec, s) /\ Update(t, Started(rec, s), FALSE, "none")
      BY Zenon, <2>1 DEF StartSubtask
    <3>2. Sound(rec, Started(rec, s))
      BY <3>1, LockedRecord, StartedSound
    <3>3. ~ (finalizing[t] > 0)
      BY <3>1, LockedRecord DEF CanStart, AllCompleted, Unfinished
    <3> QED
      BY Zenon, <3>1, <3>2, <3>3, UpdateIInv
  <2>2. CASE ReassignSubtask(t, s)
    <3>1. Lockable(t) /\ Update(t, rec, FALSE, "none")
      BY Zenon, <2>2 DEF ReassignSubtask
    <3>2. Sound(rec, rec)
      BY <3>1, LockedRecord, ExtendsReflexive DEF Sound
    <3> QED
      BY Zenon, <3>1, <3>2, LockedRecord, UpdateIInv
  <2>3. ASSUME NEW ok \in BOOLEAN, NEW out \in {0, Direct}, CompleteSubtask(t, s, ok, out)
        PROVE  IInv'
    <3> DEFINE new == completeSubtask(rec, s, ok, out)
    <3>1. /\ Lockable(t) /\ rec.status # "cancelled" /\ rec.sub[s] \in Unfinished
          /\ Update(t, new, TRUE, AfterCompletion(new))
      BY Zenon, <2>3 DEF CompleteSubtask, subtaskFinished
    <3>2. out \in Outputs /\ out \notin 1 .. AttemptBound
      BY SMTT(30), AttemptBoundAssumption DEF Outputs, Direct
    <3>3. Sound(rec, new)
      BY SMTT(30), <3>1, <3>2, LockedRecord, CompleteSubtaskSound
    <3>4. ~ (finalizing[t] > 0)
      BY <3>1, LockedRecord DEF AllCompleted, Unfinished
    <3> HIDE DEF new
    <3> QED
      BY Zenon, <3>1, <3>3, <3>4, AfterCompletionOwned, UpdateIInv DEF Sound
  <2>4. CASE BeginDispatchAttempt(t, s)
    <3>1. Lockable(t) /\ CanBegin(rec, s) /\ Update(t, BegunAttempt(rec, s), FALSE, "none")
      BY Zenon, <2>4 DEF BeginDispatchAttempt
    <3>2. Sound(rec, BegunAttempt(rec, s))
      BY SMTT(30), <3>1, LockedRecord, BegunAttemptSound
    <3>3. ~ (finalizing[t] > 0)
      BY <3>1, LockedRecord DEF CanBegin, AllCompleted
    <3> QED
      BY Zenon, <3>1, <3>2, <3>3, UpdateIInv
  <2>5. ASSUME NEW n \in 1 .. AttemptBound, NEW status \in {"succeeded", "failed"},
               FinishDispatchAttempt(t, s, n, status)
        PROVE  IInv'
    <3> DEFINE new == FinishedAttempt(rec, s, n, status)
    <3>1. Lockable(t) /\ AttemptRunning(rec, s, n) /\ Update(t, new, FALSE, "none")
      BY Zenon, <2>5 DEF FinishDispatchAttempt
    <3>2. Sound(rec, new)
      BY <3>1, LockedRecord, FinishedAttemptSound
    <3>3. new.status = rec.status /\ (AllCompleted(rec) => AllCompleted(new))
      BY <3>1, LockedRecord DEF FinishedAttempt, AllCompleted, Task
    <3> HIDE DEF new
    <3> QED
      BY Zenon, <3>1, <3>2, <3>3, LockedRecord, UpdateIInv
  <2>6. ASSUME NEW n \in 1 .. AttemptBound, CompleteDispatchAttempt(t, s, n)
        PROVE  IInv'
    <3> DEFINE new == CompletedAttempt(rec, s, n, n)
               won == WinsSubtask(rec, s)
    <3>1. /\ Lockable(t) /\ AttemptRunning(rec, s, n)
          /\ Update(t, new, won, IF won THEN AfterCompletion(new) ELSE "none")
      BY SMTT(30), <2>6 DEF CompleteDispatchAttempt
    <3>2. Sound(rec, new)
      BY SMTT(30), <3>1, LockedRecord, CompletedAttemptSound
    <3>3. won => ~ (finalizing[t] > 0)
      BY <3>1, LockedRecord DEF WinsSubtask, AllCompleted
    <3>4. ~ won => new.status = rec.status /\ (AllCompleted(rec) => AllCompleted(new))
      BY <3>1, LockedRecord DEF CompletedAttempt, FinishedAttempt, AllCompleted, Task
    <3>5. won \in BOOLEAN
      BY SMTT(30) DEF WinsSubtask
    <3> HIDE DEF new, won
    <3>6. CASE won
      BY ZenonT(30), <3>1, <3>2, <3>3, <3>5, <3>6, AfterCompletionOwned, UpdateIInv DEF Sound
    <3>7. CASE ~ won
      BY <3>1, <3>2, <3>4, <3>5, <3>7, LockedRecord, UpdateIInv
    <3> QED
      BY <3>6, <3>7
  <2>7. 0 \in {0, Direct} /\ FALSE \in BOOLEAN /\ TRUE \in BOOLEAN
    OBVIOUS
  <2> QED
    BY Zenon, <1>4, <2>1, <2>2, <2>3, <2>4, <2>5, <2>6, <2>7 DEF SubtaskStep
<1> QED
  BY <1>1, <1>2, <1>3, <1>4

\* Creating a task takes an id nothing uses.
LEMMA CreateIInv ==
  ASSUME IInv, NEW approval \in BOOLEAN, Create(approval)
  PROVE  IInv'
<1> DEFINE t == seq + 1
<1>1. /\ t \in Ids /\ seq \in Nat /\ phase = "serving"
      /\ tasks[t] = NoTask /\ store[t] = NoTask /\ saving[t] = Idle
  BY MaxTasksAssumption DEF IInv, TypeOK, Fresh, Create, Ids
<1>2. NewTask(approval) \in Task /\ NewTask(approval) # NoTask
  BY NewTaskGood, NoTaskAssumption
<1>3. /\ Write(NewTask(approval), TRUE, "create") \in SaveRecord
      /\ Write(NewTask(approval), TRUE, "create").then = "create"
      /\ Write(NewTask(approval), TRUE, "create").snap = NewTask(approval)
  <2>1. CheckpointedSnapshot(NewTask(approval)) = NewTask(approval)
    <3>1. [NewTask(approval) EXCEPT !.resumable = TRUE] = NewTask(approval)
      <4>1. \A x \in Task : x.resumable = TRUE => [x EXCEPT !.resumable = TRUE] = x
        BY DEF Task
      <4>2. NewTask(approval).resumable = TRUE
        BY DEF NewTask
      <4> QED
        BY <1>2, <4>1, <4>2
    <3>2. (NewTask(approval).status # "completed") = TRUE
      BY DEF NewTask
    <3> QED
      BY <3>1, <3>2, Zenon DEF CheckpointedSnapshot
  <2>2. Write(NewTask(approval), TRUE, "create").snap = NewTask(approval)
    BY <2>1 DEF Write
  <2>3. "create" \in Continuations
    BY DEF Continuations
  <2> QED
    BY Zenon, <1>2, <2>2, <2>3, WriteType
<1>4. TypeOK'
  <2>1. seq' \in 0 .. MaxTasks
    BY <1>1, MaxTasksAssumption DEF Create
  <2>2. saving' \in [Ids -> SaveRecord]
    BY Zenon, <1>1, <1>3 DEF Create, IInv, TypeOK
  <2> QED
    BY Zenon, <2>1, <2>2 DEF IInv, TypeOK, Create
<1>5. Fresh'
  <2>1. \A u \in Ids : u > seq + 1 => u > seq /\ u # t
    BY <1>1 DEF Ids
  <2>2. \A u \in Ids : u # t => saving'[u] = saving[u]
    BY DEF Create, IInv, TypeOK
  <2> QED
    BY Zenon, <1>1, <2>1, <2>2 DEF IInv, Fresh, Create
<1>6. ASSUME NEW u \in Ids
      PROVE  (MemoryAhead(u) /\ WriteCurrent(u) /\ FinalizerOwned(u))'
  <2>1. MemoryAhead(u)'
    BY SMTT(30) DEF IInv, MemoryAhead, Create
  <2>2. CASE u # t
    BY <2>1, <2>2 DEF IInv, TypeOK, WriteCurrent, FinalizerOwned, Create
  <2>3. CASE u = t
    <3>1. saving'[u] = Write(NewTask(approval), TRUE, "create")
      BY <1>1, <2>3 DEF IInv, TypeOK, Create
    <3>2. WriteCurrent(u)'
      BY Zenon, <1>1, <1>3, <2>3, <3>1 DEF WriteCurrent, Create
    <3>3. FinalizerOwned(u)'
      BY Zenon, <1>1, <1>3, <2>3, <3>1 DEF FinalizerOwned, IInv, Create
    <3> QED
      BY <2>1, <3>2, <3>3
  <2> QED
    BY <2>2, <2>3
<1> QED
  BY <1>4, <1>5, <1>6 DEF IInv

\* The finalizer's return preserves the invariant, applied or dropped.
LEMMA FinishSynthesisIInv ==
  ASSUME IInv, NEW t \in Ids, NEW ok \in BOOLEAN, FinishSynthesis(t, ok)
  PROVE  IInv'
<1>1. Lockable(t) /\ finalizing[t] = 1 /\ finalizing' = [finalizing EXCEPT ![t] = @ - 1]
  BY DEF FinishSynthesis, IInv, TypeOK, FinalizerOwned
<1>2. finalizing' \in [Ids -> Nat] /\ finalizing'[t] = 0
      /\ \A u \in Ids : u # t => finalizing'[u] = finalizing[u]
  BY SMTT(30), <1>1 DEF IInv, TypeOK
<1>3. CASE tasks[t].status # "synthesizing"
  <2>1. UNCHANGED <<phase, seq, tasks, saving, store, ckpts, answered>>
    BY <1>3 DEF FinishSynthesis
  <2> QED
    BY <1>1, <1>2, <2>1
    DEF IInv, TypeOK, Fresh, MemoryAhead, WriteCurrent, FinalizerOwned, Lockable, Idle
<1>4. CASE tasks[t].status = "synthesizing"
  <2> DEFINE new == Synthesized(tasks[t], ok)
             w == Write(new, TRUE, "none")
  <2>1. /\ tasks' = [tasks EXCEPT ![t] = new] /\ saving' = [saving EXCEPT ![t] = w]
        /\ UNCHANGED <<phase, seq, store, ckpts, answered>>
    BY ZenonT(30), <1>4 DEF FinishSynthesis
  <2>2. /\ new \in Task /\ Good(new) /\ Extends(tasks[t], new) /\ new # NoTask
        /\ tasks[t] \in Task /\ tasks[t] # NoTask
    BY <1>1, <1>4, LockedRecord, SynthesizedSound, NoTaskAssumption DEF Sound
  <2>3. store[t] \in Task /\ Extends(store[t], tasks[t]) /\ store[t] # NoTask
    BY <2>2 DEF IInv, TypeOK, MemoryAhead
  <2>4. w \in SaveRecord /\ w.snap \in Task /\ w.then = "none" /\ SameButResumable(w.snap, new)
    BY Zenon, <2>2, WriteType DEF Continuations
  <2> HIDE DEF new, w
  <2>5. TypeOK'
    BY <1>2, <2>1, <2>2, <2>4 DEF IInv, TypeOK
  <2>6. Fresh'
    BY <1>1, <2>1, <2>2 DEF IInv, TypeOK, Fresh, Lockable
  <2>7. ASSUME NEW u \in Ids
        PROVE  (MemoryAhead(u) /\ WriteCurrent(u) /\ FinalizerOwned(u))'
    <3>1. CASE u # t
      BY <1>2, <2>1, <3>1 DEF IInv, TypeOK, MemoryAhead, WriteCurrent, FinalizerOwned
    <3>2. CASE u = t
      <4>1. tasks'[u] = new /\ saving'[u] = w /\ store'[u] = store[t] /\ finalizing'[u] = 0
        BY <1>2, <2>1, <3>2 DEF IInv, TypeOK
      <4>2. MemoryAhead(u)'
        BY Zenon, <2>2, <2>3, <3>2, <4>1, ExtendsTransitive DEF MemoryAhead, IInv
      <4>3. WriteCurrent(u)'
        BY <2>2, <2>4, <4>1, NoTaskAssumption DEF WriteCurrent
      <4>4. FinalizerOwned(u)'
        BY SMTT(30), <2>4, <4>1 DEF FinalizerOwned
      <4> QED
        BY <4>2, <4>3, <4>4
    <3> QED
      BY SMTT(30), <3>1, <3>2
  <2> QED
    BY <2>5, <2>6, <2>7 DEF IInv
<1> QED
  BY <1>3, <1>4

\* The end of a write: the store catches up with memory.
LEMMA SaveOkIInv ==
  ASSUME IInv, NEW t \in Ids, SaveOk(t)
  PROVE  /\ IInv'
         /\ store[t] # NoTask => store'[t] # NoTask /\ Extends(store[t], store'[t])
<1> DEFINE snap == saving[t].snap
<1>1. /\ saving[t] # Idle /\ phase # "down" /\ saving' = [saving EXCEPT ![t] = Idle]
      /\ store' = [store EXCEPT ![t] = snap]
      /\ UNCHANGED <<phase, seq, answered>>
  BY SMTT(30) DEF SaveOk, Commit
<1>2. /\ snap \in Task /\ Good(snap) /\ snap # NoTask
      /\ store[t] # NoTask => Extends(store[t], snap)
  <2>1. CASE saving[t].then = "create"
    BY SMTT(30), <1>1, <2>1, NewTaskGood, NoTaskAssumption DEF IInv, WriteCurrent
  <2>2. CASE saving[t].then # "create"
    <3>1. /\ tasks[t] # NoTask /\ snap # NoTask /\ SameButResumable(snap, tasks[t])
          /\ tasks[t] \in Task /\ snap \in Task /\ store[t] \in Task
          /\ Good(tasks[t]) /\ Extends(store[t], tasks[t])
      BY SMTT(30), <1>1, <2>2 DEF IInv, TypeOK, WriteCurrent, MemoryAhead, SaveRecord
    <3>2. SameButResumable(tasks[t], snap)
      BY SMTT(30), <3>1 DEF SameButResumable
    <3> HIDE DEF snap
    <3> QED
      BY SMTT(30), <3>1, <3>2, ResumableIrrelevant
  <2> QED
    BY SMTT(30), <2>1, <2>2
<1>3. /\ tasks' \in [Ids -> Task \cup {NoTask}]
      /\ \A u \in Ids : u # t => tasks'[u] = tasks[u]
      /\ tasks'[t] \in Task /\ SameButResumable(snap, tasks'[t])
      /\ tasks[t] # NoTask => SameButResumable(tasks[t], tasks'[t])
  <2>1. CASE saving[t].then = "create"
    <3>1. tasks' = [tasks EXCEPT ![t] = snap] /\ tasks[t] = NoTask
      BY SMTT(30), <1>1, <2>1 DEF SaveOk, IInv, WriteCurrent
    <3> QED
      BY <1>2, <3>1 DEF SameButResumable, IInv, TypeOK
  <2>2. CASE saving[t].then # "create"
    <3>1. tasks[t] # NoTask /\ tasks[t] \in Task /\ SameButResumable(snap, tasks[t])
      BY <1>1, <2>2 DEF IInv, TypeOK, WriteCurrent
    <3>2. \/ tasks' = tasks
          \/ tasks' = [tasks EXCEPT ![t].resumable = snap.resumable]
      BY SMTT(30), <2>2 DEF SaveOk
    <3>3. snap.resumable \in BOOLEAN
      BY <1>2 DEF Task
    <3>4. tasks'[t] \in Task /\ SameButResumable(tasks[t], tasks'[t])
      BY <3>1, <3>2, <3>3 DEF IInv, TypeOK, SameButResumable, Task
    <3>5. \A u \in Ids : u # t => tasks'[u] = tasks[u]
      BY <3>2 DEF IInv, TypeOK
    <3>6. tasks' \in [Ids -> Task \cup {NoTask}]
      BY <3>2, <3>4, <3>5 DEF IInv, TypeOK
    <3> QED
      BY <3>1, <3>4, <3>5, <3>6 DEF SameButResumable
  <2> QED
    BY SMTT(30), <2>1, <2>2
<1>4. checkpointForTask(snap) \in Checkpoint
  <2>1. collectOutputs(snap) \in SUBSET Subtasks
    BY DEF collectOutputs
  <2>2. computeFrontier(snap) \in SUBSET Subtasks
    BY SMTT(30) DEF computeFrontier
  <2>3. snap.status \in TaskStatus
    BY <1>2 DEF Task
  <2> QED
    BY <2>1, <2>2, <2>3 DEF checkpointForTask, Checkpoint
<1>5. finalizing' \in [Ids -> Nat] /\ \A u \in Ids : u # t => finalizing'[u] = finalizing[u]
  BY DEF SaveOk, IInv, TypeOK
<1>6. TypeOK'
  <2>1. ckpts' \in [Ids -> Checkpoint \cup {NoTask}]
    BY <1>4 DEF SaveOk, Commit, IInv, TypeOK
  <2> QED
    BY Zenon, <1>1, <1>2, <1>3, <1>5, <2>1, IdleType DEF IInv, TypeOK
<1>7. Fresh'
  BY <1>1, <1>3 DEF IInv, TypeOK, Fresh
<1>8. ASSUME NEW u \in Ids
      PROVE  (MemoryAhead(u) /\ WriteCurrent(u) /\ FinalizerOwned(u))'
  <2>1. CASE u # t
    BY <1>1, <1>3, <1>5, <2>1 DEF IInv, TypeOK, MemoryAhead, WriteCurrent, FinalizerOwned
  <2>2. CASE u = t
    <3>1. store'[u] = snap /\ saving'[u] = Idle
      BY SMTT(30), <1>1, <2>2 DEF IInv, TypeOK
    <3>2. MemoryAhead(u)'
      <4>1. Extends(snap, tasks'[t]) /\ Good(tasks'[t])
        BY SMTT(30), <1>2, <1>3, ResumableIrrelevant, ExtendsReflexive
      <4> QED
        BY SMTT(30), <1>2, <2>2, <3>1, <4>1 DEF MemoryAhead
    <3>3. WriteCurrent(u)'
      BY <3>1 DEF WriteCurrent
    <3>4. FinalizerOwned(u)'
      <4>1. tasks'[t] # NoTask
        BY SMTT(30), <1>3, NoTaskAssumption
      <4>2. tasks[t] # NoTask /\ AllCompleted(tasks[t]) => AllCompleted(tasks'[t])
        BY <1>3 DEF AllCompleted, SameButResumable
      <4>3. CASE saving[t].then = "finalize"
        BY SMTT(30), <1>3, <2>2, <3>1, <4>1, <4>2, <4>3, IdleType
        DEF FinalizerOwned, SaveOk, IInv, TypeOK, SameButResumable
      <4>4. CASE saving[t].then # "finalize"
        BY <1>3, <2>2, <3>1, <4>1, <4>2, <4>4, IdleType
        DEF FinalizerOwned, SaveOk, IInv, TypeOK, SameButResumable
      <4> QED
        BY <4>3, <4>4
    <3> QED
      BY <3>2, <3>3, <3>4
  <2> QED
    BY SMTT(30), <2>1, <2>2
<1>9. store[t] # NoTask => store'[t] # NoTask /\ Extends(store[t], store'[t])
  BY <1>1, <1>2 DEF IInv, TypeOK
<1> QED
  BY <1>6, <1>7, <1>8, <1>9 DEF IInv

\* Losing memory leaves the invariant in place: it constrains the store alone.
LEMMA LostIInv ==
  ASSUME IInv, Lost
  PROVE  IInv'
<1>1. TypeOK'
  BY IdleType, MaxTasksAssumption DEF IInv, TypeOK, Lost
<1>2. Fresh'
  BY SMTT(30) DEF Fresh, Lost
<1>3. ASSUME NEW u \in Ids
      PROVE  (MemoryAhead(u) /\ WriteCurrent(u) /\ FinalizerOwned(u))'
  BY IdleType DEF IInv, MemoryAhead, WriteCurrent, FinalizerOwned, Lost
<1> QED
  BY <1>1, <1>2, <1>3 DEF IInv

\* A failed write preserves the invariant.
LEMMA SaveFailIInv ==
  ASSUME IInv, NEW t \in Ids, SaveFail(t)
  PROVE  IInv'
<1>1. CASE Lost
  BY <1>1, LostIInv
<1>2. CASE /\ phase = "serving" /\ saving' = [saving EXCEPT ![t] = Idle]
           /\ UNCHANGED <<phase, seq, tasks, finalizing, store, ckpts, answered>>
  <2>1. TypeOK'
    BY <1>2, IdleType DEF IInv, TypeOK
  <2>2. \A u \in Ids : saving'[u] = saving[u] \/ saving'[u] = Idle
    BY SMTT(30), <1>2 DEF IInv, TypeOK
  <2>3. Fresh'
    BY <1>2, <2>2 DEF IInv, Fresh
  <2>4. ASSUME NEW u \in Ids
        PROVE  (MemoryAhead(u) /\ WriteCurrent(u) /\ FinalizerOwned(u))'
    BY Zenon, <1>2, <2>2, IdleType DEF IInv, MemoryAhead, WriteCurrent, FinalizerOwned
  <2> QED
    BY <2>1, <2>3, <2>4 DEF IInv
<1> QED
  BY <1>1, <1>2 DEF SaveFail

\* load() rebuilds memory from the store.
LEMMA RestartIInv ==
  ASSUME IInv, Restart
  PROVE  IInv'
<1>1. ASSUME NEW t \in Ids, store[t] # NoTask
      PROVE  /\ store[t] \in Task /\ Good(store[t])
             /\ Recovered(store[t]) \in Task /\ Recovered(store[t]) # NoTask
             /\ Good(Recovered(store[t])) /\ Extends(store[t], Recovered(store[t]))
  BY SMTT(30), <1>1, RecoveredSound, NoTaskAssumption DEF IInv, TypeOK, MemoryAhead, Sound
<1>2. ASSUME NEW t \in Ids
      PROVE  /\ tasks'[t] = IF store[t] = NoTask THEN NoTask ELSE Recovered(store[t])
             /\ saving'[t] = LoadWrite(store[t])
             /\ finalizing'[t] = 0 /\ store'[t] = store[t]
  BY DEF Restart, IInv, Fresh
<1>3. ASSUME NEW t \in Ids
      PROVE  /\ LoadWrite(store[t]) \in SaveRecord
             /\ LoadWrite(store[t]).then = "none"
             /\ LoadWrite(store[t]) # Idle =>
                  /\ store[t] # NoTask /\ LoadWrite(store[t]).snap \in Task
                  /\ SameButResumable(LoadWrite(store[t]).snap, Recovered(store[t]))
  <2>1. CASE store[t] # NoTask /\ (Interrupted(store[t]) \/ AttemptsChanged(store[t]))
    <3>1. Interrupted(store[t]) \in BOOLEAN /\ "none" \in Continuations
      BY DEF Interrupted, Continuations
    <3>2. LoadWrite(store[t]) = Write(Recovered(store[t]), Interrupted(store[t]), "none")
      BY SMTT(30), <2>1 DEF LoadWrite
    <3> QED
      BY <1>1, <2>1, <3>1, <3>2, WriteType
  <2>2. CASE ~ (store[t] # NoTask /\ (Interrupted(store[t]) \/ AttemptsChanged(store[t])))
    BY <2>2, IdleType DEF LoadWrite
  <2> QED
    BY SMTT(30), <2>1, <2>2
<1>4. TypeOK'
  <2>1. tasks' \in [Ids -> Task \cup {NoTask}]
    BY <1>1 DEF Restart
  <2>2. saving' \in [Ids -> SaveRecord]
    BY <1>3 DEF Restart
  <2> QED
    BY <2>1, <2>2 DEF Restart, IInv, TypeOK
<1>5. Fresh'
  <2>1. ASSUME NEW t \in Ids, t > seq'
        PROVE  store[t] = NoTask
    <3>1. t \in Nat /\ seq' \in Nat
      BY MaxTasksAssumption DEF Ids, Restart
    <3> QED
      BY <2>1, <3>1 DEF Restart
  <2>2. phase' # "down"
    BY DEF Restart
  <2>3. LoadWrite(NoTask) = Idle
    BY DEF LoadWrite
  <2> QED
    BY <1>2, <2>1, <2>2, <2>3 DEF Fresh
<1>6. ASSUME NEW u \in Ids
      PROVE  (MemoryAhead(u) /\ WriteCurrent(u) /\ FinalizerOwned(u))'
  <2>1. MemoryAhead(u)'
    BY SMTT(30), <1>1, <1>2 DEF MemoryAhead
  <2>2. WriteCurrent(u)'
    BY SMTT(30), <1>1, <1>2, <1>3, NoTaskAssumption DEF WriteCurrent
  <2>3. FinalizerOwned(u)'
    BY SMTT(30), <1>2, <1>3 DEF FinalizerOwned
  <2> QED
    BY SMTT(30), <2>1, <2>2, <2>3
<1> QED
  BY <1>4, <1>5, <1>6 DEF IInv

\* Every step preserves the invariant and extends every stored task.
LEMMA NextIInv ==
  ASSUME IInv, [Next]_vars
  PROVE  /\ IInv'
         /\ \A t \in Ids : store[t] # NoTask =>
                             store'[t] # NoTask /\ Extends(store[t], store'[t])
<1> DEFINE Kept == \A t \in Ids : store[t] # NoTask =>
                                  store'[t] # NoTask /\ Extends(store[t], store'[t])
<1>0. store' = store => Kept
  BY ExtendsReflexive DEF IInv, TypeOK
<1>1. ASSUME NEW approval \in BOOLEAN, Create(approval)
      PROVE  IInv' /\ Kept
  BY ZenonT(30), <1>0, <1>1, CreateIInv DEF Create
<1>2. ASSUME NEW t \in Ids, TaskStep(t)
      PROVE  IInv' /\ Kept
  <2>1. CASE \/ Cancel(t) \/ Approve(t) \/ ResumeTask(t)
             \/ \E s \in Subtasks : SubtaskStep(t, s)
    <3>1. store' = store
      BY Zenon, <2>1 DEF Cancel, Approve, ResumeTask, SubtaskStep, StartSubtask, ReassignSubtask,
                  CompleteSubtask, BeginDispatchAttempt, FinishDispatchAttempt,
                  CompleteDispatchAttempt, Update
    <3> QED
      BY SMTT(30), <1>0, <2>1, <3>1, OperationIInv
  <2>2. CASE Wait(t)
    <3>1. answered' \in SUBSET Ids
      BY <2>2 DEF Wait, IInv, TypeOK
    <3>2. IInv'
      BY Zenon, <2>2, <3>1 DEF Wait, IInv, TypeOK, Fresh, MemoryAhead, WriteCurrent, FinalizerOwned
    <3> QED
      BY <1>0, <2>2, <3>2 DEF Wait
  <2>3. ASSUME NEW ok \in BOOLEAN, FinishSynthesis(t, ok)
        PROVE  IInv' /\ Kept
    BY Zenon, <1>0, <2>3, FinishSynthesisIInv DEF FinishSynthesis
  <2>4. CASE SaveOk(t)
    <3>1. \A u \in Ids : u # t => store'[u] = store[u]
      BY <2>4 DEF SaveOk, Commit, IInv, TypeOK
    <3>2. \A u \in Ids : store[u] # NoTask => Extends(store[u], store[u])
      BY ExtendsReflexive DEF IInv, TypeOK
    <3> QED
      BY SMTT(30), <2>4, <3>1, <3>2, SaveOkIInv
  <2>5. CASE SaveFail(t)
    BY <1>0, <2>5, SaveFailIInv DEF SaveFail, Lost
  <2> QED
    BY <1>2, <2>1, <2>2, <2>3, <2>4, <2>5 DEF TaskStep
<1>3. CASE Crash
  BY <1>0, <1>3, LostIInv DEF Crash, Lost
<1>4. CASE Restart
  BY <1>0, <1>4, RestartIInv DEF Restart
<1>5. CASE Serve
  <2>1. IInv'
    BY Zenon, <1>5 DEF Serve, IInv, TypeOK, Fresh, MemoryAhead, WriteCurrent, FinalizerOwned
  <2> QED
    BY <1>0, <1>5, <2>1 DEF Serve
<1>6. CASE UNCHANGED vars
  <2>1. IInv'
    BY Zenon, <1>6 DEF vars, IInv, TypeOK, Fresh, MemoryAhead, WriteCurrent, FinalizerOwned
  <2> QED
    BY <1>0, <1>6, <2>1 DEF vars
<1> QED
  BY <1>1, <1>2, <1>3, <1>4, <1>5, <1>6 DEF Next

-----------------------------------------------------------------------------
\* The invariant holds in every reachable state.
LEMMA IInvHolds == Spec => []IInv
<1>1. Init => IInv
  BY InitIInv
<1>2. IInv /\ [Next]_vars => IInv'
  BY NextIInv
<1> QED
  BY <1>1, <1>2, PTL DEF Spec

\* The manager and the store hold only well-typed records, whatever writes fail
\* and whenever the process crashes.
THEOREM TypeCorrect == Spec => []TypeOK
<1>1. IInv => TypeOK
  BY DEF IInv
<1> QED
  BY <1>1, IInvHolds, PTL

\* Task status and subtask statuses agree in memory and in the store.
THEOREM RollUp == Spec => []RollUpConsistent
<1>1. IInv => RollUpConsistent
  BY DEF IInv, MemoryAhead, Good, RollUpConsistent
<1> QED
  BY <1>1, IInvHolds, PTL

\* No crash or failed write separates an output from the attempt that won it.
THEOREM OutputsBelongToAttempts == Spec => []OutputsEarned
<1>1. IInv => OutputsEarned
  BY DEF IInv, MemoryAhead, Good, OutputsEarned
<1> QED
  BY <1>1, IInvHolds, PTL

\* A task is never synthesized twice at once.
THEOREM SingleFinalizer == Spec => []OneFinalizer
<1>1. IInv => OneFinalizer
  BY DEF IInv, TypeOK, FinalizerOwned, OneFinalizer
<1> QED
  BY <1>1, IInvHolds, PTL

\* No stored completion, output or finished attempt is ever lost or replaced.
THEOREM StoredProgressIsKept == Spec => DurableProgress
<1>1. IInv /\ [Next]_vars =>
        \A t \in Ids : store[t] # NoTask =>
           store'[t] # NoTask /\ Extends(store[t], store'[t])
  BY NextIInv
<1> QED
  BY <1>1, IInvHolds, PTL DEF Spec, DurableProgress
=============================================================================
