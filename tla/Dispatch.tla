------------------------------ MODULE Dispatch ------------------------------
(***************************************************************************)
(* The orchestrator's dispatch of subtasks: admission by the create and    *)
(* resume handlers (task_planning.go, api_task_handlers.go), the FIFO      *)
(* worker pool (dispatcher_component.go over internal/workpool), and the   *)
(* retry loop each pool worker runs for a subtask (dispatcher_execution.go, *)
(* dispatch_retry.go, runCandidateSeries).                                 *)
(*                                                                         *)
(* Manager operations are atomic here: every one runs under the task's     *)
(* persistMu from the change to the end of the write (module TaskManager   *)
(* models the write and its failures).  A checkpointing operation also     *)
(* recomputes the Resumable flag.  Hedging is off, its default.  A pair is *)
(* a node/model pair; which untried pair the scheduler picks is left open. *)
(***************************************************************************)
EXTENDS TaskRecord

CONSTANTS Tasks, NoTask,
          Free,         \* a worker without a job
          Workers,      \* the pool's goroutines
          Pairs,        \* node/model pairs the scheduler can assign
          Order,        \* the scheduler's topological order of the subtasks
          maxAttempts,  \* dispatchRetryPolicy.maxAttempts
          MaxRetries,   \* Subtask.MaxRetries
          QueueLimit,   \* capacity of the pool's jobs channel
          MaxResumes    \* model bound on resumptions of a task

ASSUME OrderAssumption ==
  /\ Order \in [1 .. Cardinality(Subtasks) -> Subtasks]
  /\ \A s \in Subtasks : \E i \in DOMAIN Order : Order[i] = s
  /\ \A i, j \in DOMAIN Order : Order[i] \in DependsOn[Order[j]] => i < j
ASSUME LimitsAssumption == /\ maxAttempts \in Nat \ {0}
                           /\ MaxRetries \in Nat
                           /\ QueueLimit \in Nat
                           /\ MaxResumes \in Nat

VARIABLES tasks,     \* the manager's records
          gen,       \* which of its contexts a task has: resuming replaces it
          live,      \* that context is not cancelled
          admits,    \* what each admission loop (one per context) has left to submit
          queue,     \* the pool's jobs channel
          job,       \* what each pool worker is doing
          rows,      \* the pair of every dispatch attempt of a subtask
          assigned,  \* SubtaskResult.Assignment
          healthy    \* the pairs whose node the registry reports healthy

vars == <<tasks, gen, live, admits, queue, job, rows, assigned, healthy>>

Submission == [task : Tasks, sub : Subtasks, pair : Pairs]

Steps == {"deps", "history", "reassign", "loop", "reserve", "start", "begin",
          "execute", "record", "retry", "fail", "finalize"}

Job == [pc : Steps, task : Tasks, sub : Subtasks, pair : Pairs,
        gen : 0 .. MaxResumes,                 \* the context taken at the start
        tried : SUBSET Pairs, attempt : Nat,   \* alreadyTried, attempt
        vtry : 0 .. MaxRetries, n : Nat,       \* validationAttempt, attemptNumber
        result : {"ok", "retryable", "fatal"},
        expired : BOOLEAN]                     \* the dispatch deadline has passed

Init == /\ tasks = [t \in Tasks |-> NoTask]
        /\ gen = [t \in Tasks |-> 0]
        /\ live = [t \in Tasks |-> TRUE]
        /\ admits = [t \in Tasks |-> [g \in 0 .. MaxResumes |-> << >>]]
        /\ queue = << >>
        /\ job = [w \in Workers |-> Free]
        /\ rows = [t \in Tasks |-> [s \in Subtasks |-> << >>]]
        /\ assigned \in [Tasks -> [Subtasks -> Pairs]]
        /\ healthy = Pairs

-----------------------------------------------------------------------------
(***************************************************************************)
(* Clients and the environment                                             *)
(***************************************************************************)


\* What an admission loop goes through: the given subtasks in task order, each
\* with the assignment of the snapshot it was given.
Submissions(t, subs) ==
  LET inSubs(s) == s \in subs
      order     == SelectSeq(Order, inSubs)
  IN  [i \in DOMAIN order |-> [task |-> t, sub |-> order[i], pair |-> assigned[t][order[i]]]]

createTask(t) ==
  /\ tasks[t] = NoTask
  /\ tasks' = [tasks EXCEPT ![t] = NewTask(FALSE)]
  /\ admits' = [admits EXCEPT ![t][0] = Submissions(t, Subtasks)]
  /\ UNCHANGED <<gen, live, queue, job, rows, assigned, healthy>>

handleCancelTask(t) ==
  /\ tasks[t] # NoTask
  /\ CanCancel(tasks[t])
  /\ tasks' = [tasks EXCEPT ![t] = CheckpointedSnapshot(Cancelled(@))]
  /\ live' = [live EXCEPT ![t] = FALSE]
  /\ UNCHANGED <<gen, admits, queue, job, rows, assigned, healthy>>

\* ResumeTaskChecked cancels the old context and installs a new one; the
\* handler then submits what the resumed snapshot shows as pending.
handleResumeTask(t) ==
  /\ tasks[t] # NoTask
  /\ CanResume(tasks[t])
  /\ gen[t] < MaxResumes
  /\ LET resumed == CheckpointedSnapshot(Resumed(tasks[t]))
         pending == {s \in Subtasks : resumed.sub[s] = "pending"}
     IN  /\ tasks' = [tasks EXCEPT ![t] = resumed]
         /\ admits' = [admits EXCEPT ![t][gen[t] + 1] = Submissions(t, pending)]
  /\ gen' = [gen EXCEPT ![t] = @ + 1]
  /\ live' = [live EXCEPT ![t] = TRUE]
  /\ UNCHANGED <<queue, job, rows, assigned, healthy>>

\* The registry learns that a pair's node came up or went down.
HealthChange(p) ==
  /\ healthy' = IF p \in healthy THEN healthy \ {p} ELSE healthy \cup {p}
  /\ UNCHANGED <<tasks, gen, live, admits, queue, job, rows, assigned>>

\* Mutant: a late failure overwrites a finished subtask.
FailedAgain(task, s) ==
  IF task.status = "cancelled" THEN task
  ELSE CheckpointedSnapshot(completeSubtask(task, s, FALSE, 0))

\* CompleteSubtask(taskID, subtaskID, "", err): ignored on a cancelled task and
\* on a finished subtask.
Failed(task, s) ==
  IF task.status = "cancelled" \/ subtaskFinished(task, s)
  THEN task
  ELSE CheckpointedSnapshot(completeSubtask(task, s, FALSE, 0))


\* One submitDispatch of an admission loop: refused when the task's present
\* context is cancelled or the channel is full, and then failed on the spot.
submitDispatch(t, g) ==
  /\ admits[t][g] # << >>
  /\ admits' = [admits EXCEPT ![t][g] = Tail(@)]
  /\ IF live[t] /\ Len(queue) < QueueLimit
     THEN /\ queue' = Append(queue, Head(admits[t][g]))
          /\ UNCHANGED tasks
     ELSE /\ tasks' = [tasks EXCEPT ![t] = Failed(@, Head(admits[t][g]).sub)]
          /\ UNCHANGED queue
  /\ UNCHANGED <<gen, live, job, rows, assigned, healthy>>

-----------------------------------------------------------------------------
(***************************************************************************)
(* dispatchWithContext, one action per step of worker w                    *)
(***************************************************************************)

At(w, pc) == job[w] # Free /\ job[w].pc = pc

\* dispatchCtx.Err() # nil: the context the worker took was cancelled (a resume
\* cancels it too) or the dispatch deadline has passed.
CtxDone(w) == \/ job[w].expired
              \/ gen[job[w].task] # job[w].gen
              \/ ~ live[job[w].task]

Goto(w, pc) == /\ job' = [job EXCEPT ![w].pc = pc]
               /\ UNCHANGED <<tasks, gen, live, admits, queue, rows, assigned, healthy>>

Return(w) == job' = [job EXCEPT ![w] = Free]

\* A pool worker takes the oldest job and reloads the task's present context.
Take(w) ==
  /\ job[w] = Free
  /\ queue # << >>
  /\ queue' = Tail(queue)
  /\ LET next == Head(queue)
     IN  job' = [job EXCEPT ![w] =
           [pc |-> "deps", task |-> next.task, sub |-> next.sub, pair |-> next.pair,
            gen |-> gen[next.task], tried |-> {}, attempt |-> 0, vtry |-> 0, n |-> 0,
            result |-> "ok", expired |-> FALSE]]
  /\ UNCHANGED <<tasks, gen, live, admits, rows, assigned, healthy>>

\* The deadline is set once the prerequisites are there.
Expire(w) ==
  /\ job[w] # Free
  /\ job[w].pc \notin {"deps", "fail", "finalize"}
  /\ ~ job[w].expired
  /\ job' = [job EXCEPT ![w].expired = TRUE]
  /\ UNCHANGED <<tasks, gen, live, admits, queue, rows, assigned, healthy>>

\* Mutant: a prerequisite that has ended in any way is enough.
DependenciesEnded(task, s) == \A d \in DependsOn[s] : task.sub[d] \notin Unfinished

DependenciesReady(task, s) == \A d \in DependsOn[s] : task.sub[d] = "completed"

\* WaitForDependencies: no step while a prerequisite is unfinished.
WaitForDependencies(w) ==
  /\ At(w, "deps")
  /\ LET task == tasks[job[w].task]
         deps == DependsOn[job[w].sub]
     IN  \/ /\ \/ CtxDone(w)
               \/ task.status = "cancelled"
               \/ \E d \in deps : task.sub[d] \in {"failed", "cancelled"}
            /\ Goto(w, "fail")
         \/ /\ ~ CtxDone(w)
            /\ task.status # "cancelled"
            /\ DependenciesReady(task, job[w].sub)
            /\ Goto(w, "history")

\* retryAssignment: some healthy pair not yet tried, else the dispatch fails.
retryAssignment(w, tried, attempt) ==
  LET eligible == IF CtxDone(w) THEN {} ELSE healthy \ tried
  IN  IF eligible = {}
      THEN Goto(w, "fail")
      ELSE /\ \E p \in eligible :
                job' = [job EXCEPT ![w].pc = "reassign", ![w].pair = p,
                                   ![w].tried = tried, ![w].attempt = attempt]
           /\ UNCHANGED <<tasks, gen, live, admits, queue, rows, assigned, healthy>>

\* Mutant: a dispatch forgets the attempts of earlier dispatches.
PriorForgotten(t, s) == << >>

PriorAttempts(t, s) == rows[t][s]

\* The attempts recorded so far count against the limit and their pairs are
\* excluded.
ReadHistory(w) ==
  /\ At(w, "history")
  /\ LET prior == PriorAttempts(job[w].task, job[w].sub)
         tried == {prior[i] : i \in DOMAIN prior}
     IN  IF Len(prior) >= maxAttempts THEN Goto(w, "fail")
         ELSE IF job[w].pair \in tried THEN retryAssignment(w, tried, Len(prior))
         ELSE /\ job' = [job EXCEPT ![w].pc = "loop", ![w].tried = tried,
                                    ![w].attempt = Len(prior)]
              /\ UNCHANGED <<tasks, gen, live, admits, queue, rows, assigned, healthy>>

\* reassignForRetry: refused for a finished subtask.
Reassign(w) ==
  /\ At(w, "reassign")
  /\ LET t == job[w].task
         s == job[w].sub
     IN  IF tasks[t].sub[s] \notin Unfinished THEN Goto(w, "fail")
         ELSE /\ assigned' = [assigned EXCEPT ![t][s] = job[w].pair]
              /\ job' = [job EXCEPT ![w].pc = "loop"]
              /\ UNCHANGED <<tasks, gen, live, admits, queue, rows, healthy>>

\* The head of the retry loop.  A loop that has used up its iterations ends
\* without completing the subtask.
LoopHead(w) ==
  /\ At(w, "loop")
  /\ IF job[w].attempt >= maxAttempts
     THEN /\ Return(w)
          /\ UNCHANGED <<tasks, gen, live, admits, queue, rows, assigned, healthy>>
     ELSE IF CtxDone(w) THEN Goto(w, "fail")
     ELSE IF job[w].pair \in healthy THEN Goto(w, "reserve")
     ELSE retryAssignment(w, job[w].tried \cup {job[w].pair}, job[w].attempt + 1)

\* reserveTaskCapacity returns a reservation, or an error when the context ends
\* or the node is no longer available (module CapacityGate).
Reserve(w) ==
  /\ At(w, "reserve")
  /\ \/ CtxDone(w) /\ Goto(w, "fail")
     \/ job[w].pair \in healthy /\ Goto(w, "start")
     \/ /\ job[w].pair \notin healthy /\ ~ CtxDone(w)
        /\ retryAssignment(w, job[w].tried \cup {job[w].pair}, job[w].attempt + 1)

\* StartSubtaskChecked: silent on a cancelled task, an error on a finished subtask.
StartSubtask(w) ==
  /\ At(w, "start")
  /\ LET t == job[w].task
         s == job[w].sub
     IN  \/ /\ tasks[t].status = "cancelled"
            /\ job' = [job EXCEPT ![w].pc = "begin", ![w].vtry = 0]
            /\ UNCHANGED <<tasks, gen, live, admits, queue, rows, assigned, healthy>>
         \/ /\ CanStart(tasks[t], s)
            /\ tasks' = [tasks EXCEPT ![t] = Started(@, s)]
            /\ job' = [job EXCEPT ![w].pc = "begin", ![w].vtry = 0]
            /\ UNCHANGED <<gen, live, admits, queue, rows, assigned, healthy>>
         \/ /\ tasks[t].status # "cancelled" /\ ~ CanStart(tasks[t], s)
            /\ Goto(w, "fail")

\* InputForSubtask, then the head of runCandidateSeries.
BeginAttempt(w) ==
  /\ At(w, "begin")
  /\ LET t == job[w].task
         s == job[w].sub
     IN  IF /\ CanBegin(tasks[t], s)
            /\ DependenciesReady(tasks[t], s)
         THEN /\ tasks' = [tasks EXCEPT ![t] = BegunAttempt(@, s)]
              /\ rows' = [rows EXCEPT ![t][s] = Append(@, job[w].pair)]
              /\ job' = [job EXCEPT ![w].pc = "execute", ![w].n = Len(rows'[t][s])]
              /\ UNCHANGED <<gen, live, admits, queue, assigned, healthy>>
         ELSE Goto(w, "fail")

\* The request to the node returns.  Once the context is done the outcome is a
\* failure that is not retried, whatever the node answered.
Execute(w) ==
  /\ At(w, "execute")
  /\ \E r \in IF CtxDone(w) THEN {"fatal"} ELSE {"ok", "retryable", "fatal"} :
       job' = [job EXCEPT ![w].pc = "record", ![w].result = r]
  /\ UNCHANGED <<tasks, gen, live, admits, queue, rows, assigned, healthy>>

\* Mutant: one validation retry too many.
SeriesEndsLate(w) ==
  job[w].result = "retryable" \/ job[w].vtry > MaxRetries \/ CtxDone(w)

\* A failed series of attempts on one pair is not continued.
SeriesEnds(w) ==
  job[w].result = "retryable" \/ job[w].vtry >= MaxRetries \/ CtxDone(w)

\* The tail of runCandidateSeries.  A success ends the dispatch, won or not; a
\* failure that is not retryable is repeated on the same pair up to MaxRetries.
RecordAttempt(w) ==
  /\ At(w, "record")
  /\ LET t == job[w].task
         s == job[w].sub
         won == WinsSubtask(tasks[t], s)
         new == CompletedAttempt(tasks[t], s, job[w].n, job[w].n)
     IN  \/ /\ job[w].result = "ok"
            /\ tasks' = [tasks EXCEPT ![t] = IF won THEN CheckpointedSnapshot(new) ELSE new]
            /\ assigned' = IF won THEN [assigned EXCEPT ![t][s] = job[w].pair] ELSE assigned
            /\ IF won /\ new.status = "synthesizing"
               THEN job' = [job EXCEPT ![w].pc = "finalize"]
               ELSE Return(w)
         \/ /\ job[w].result # "ok"
            /\ tasks' = [tasks EXCEPT ![t] = FinishedAttempt(@, s, job[w].n, "failed")]
            /\ IF SeriesEnds(w)
               THEN job' = [job EXCEPT ![w].pc = "retry"]
               ELSE job' = [job EXCEPT ![w].pc = "begin", ![w].vtry = @ + 1]
            /\ UNCHANGED assigned
  /\ UNCHANGED <<gen, live, admits, queue, rows, healthy>>

\* canRetry, the backoff and the choice of the next pair.
Retry(w) ==
  /\ At(w, "retry")
  /\ IF job[w].result = "retryable" /\ job[w].attempt + 1 < maxAttempts /\ ~ CtxDone(w)
     THEN retryAssignment(w, job[w].tried \cup {job[w].pair}, job[w].attempt + 1)
     ELSE Goto(w, "fail")

\* Mutant: an error return forgets CompleteSubtask.
FailSilently(w) ==
  /\ At(w, "fail")
  /\ Return(w)
  /\ UNCHANGED <<tasks, gen, live, admits, queue, rows, assigned, healthy>>

\* Every error return completes the subtask with the failure.
Fail(w) ==
  /\ At(w, "fail")
  /\ tasks' = [tasks EXCEPT ![job[w].task] = Failed(@, job[w].sub)]
  /\ Return(w)
  /\ UNCHANGED <<gen, live, admits, queue, rows, assigned, healthy>>

\* The winner of the last subtask runs the finalizer on its pool worker.
Finalize(w) ==
  /\ At(w, "finalize")
  /\ LET t == job[w].task
     IN  IF tasks[t].status = "synthesizing"
         THEN \E ok \in BOOLEAN :
                tasks' = [tasks EXCEPT ![t] = CheckpointedSnapshot(Synthesized(@, ok))]
         ELSE UNCHANGED tasks
  /\ Return(w)
  /\ UNCHANGED <<gen, live, admits, queue, rows, assigned, healthy>>

WorkerStep(w) ==
  \/ Take(w) \/ WaitForDependencies(w) \/ ReadHistory(w) \/ Reassign(w)
  \/ LoopHead(w) \/ Reserve(w) \/ StartSubtask(w) \/ BeginAttempt(w)
  \/ Execute(w) \/ RecordAttempt(w) \/ Retry(w) \/ Fail(w) \/ Finalize(w)

Admission(t) == \E g \in 0 .. MaxResumes : submitDispatch(t, g)

Next == \/ \E t \in Tasks : createTask(t) \/ handleCancelTask(t) \/ handleResumeTask(t)
                            \/ Admission(t)
        \/ \E w \in Workers : WorkerStep(w) \/ Expire(w)
        \/ \E p \in Pairs : HealthChange(p)

Spec == Init /\ [][Next]_vars

\* Goroutines run, requests to nodes return (dispatchTimeout bounds them) and a
\* reservation is granted or its wait cut off by the deadline.  Clients, node
\* health and the deadline itself are not fair.
FairSpec == /\ Spec
            /\ \A t \in Tasks : WF_vars(Admission(t))
            /\ \A w \in Workers : WF_vars(WorkerStep(w))

-----------------------------------------------------------------------------
\* Type invariant: the dispatcher's queue, jobs and history.
TypeOK == /\ tasks \in [Tasks -> Task \cup {NoTask}]
          /\ gen \in [Tasks -> 0 .. MaxResumes]
          /\ live \in [Tasks -> BOOLEAN]
          /\ admits \in [Tasks -> [0 .. MaxResumes -> Seq(Submission)]]
          /\ queue \in Seq(Submission)
          /\ job \in [Workers -> Job \cup {Free}]
          /\ rows \in [Tasks -> [Subtasks -> Seq(Pairs)]]
          /\ assigned \in [Tasks -> [Subtasks -> Pairs]]
          /\ healthy \in SUBSET Pairs

Running(t) == tasks[t] # NoTask /\ tasks[t].status = "running"

\* Subtask s of t is in somebody's hands.
Owned(t, s) ==
  \/ \E g \in 0 .. MaxResumes : \E i \in DOMAIN admits[t][g] : admits[t][g][i].sub = s
  \/ \E i \in DOMAIN queue : queue[i].task = t /\ queue[i].sub = s
  \/ \E w \in Workers : job[w] # Free /\ job[w].task = t /\ job[w].sub = s

\* No subtask is dropped: while a task runs, each of its unfinished subtasks is
\* still to be submitted, queued, or being dispatched by some worker, so some
\* step will finish it.  Every early return of dispatchWithContext, every
\* refused submission and every result that loses to another must preserve it.
NoSubtaskDropped ==
  \A t \in Tasks : Running(t) =>
    \A s \in Subtasks : tasks[t].sub[s] \in Unfinished => Owned(t, s)

\* The dispatcher keeps the manager's records consistent however late or stale
\* the outcomes it reports are: the roll-up agrees with the subtasks, and each
\* output is that of an attempt recorded as succeeded.
RecordsConsistent ==
  \A t \in Tasks : tasks[t] # NoTask => StatusAgrees(tasks[t]) /\ OutputEarned(tasks[t])

\* "A dependent subtask waits for every prerequisite": past WaitForDependencies
\* a worker's prerequisites are completed and stay so, across cancel and resume.
PrerequisitesFirst ==
  \A w \in Workers : job[w] # Free /\ job[w].pc \notin {"deps", "fail"} =>
    \A d \in DependsOn[job[w].sub] : tasks[job[w].task].sub[d] = "completed"

\* With a single worker and no validation retries, no node/model pair is tried
\* twice and no more than maxAttempts attempts are made, over all the dispatches
\* of a subtask and not only within one: "up to five total assignment attempts".
EachPairOnce ==
  \A t \in Tasks : \A s \in Subtasks :
    /\ Len(rows[t][s]) <= maxAttempts
    /\ \A i, j \in DOMAIN rows[t][s] : rows[t][s][i] = rows[t][s][j] => i = j

\* No dispatch attempt is begun for a task that is cancelled, although the
\* worker may have passed its last context check before the cancellation.
NoAttemptOnceCancelled ==
  [][\A t \in Tasks : tasks[t] # NoTask /\ tasks[t].status = "cancelled" =>
       rows'[t] = rows[t]]_vars

\* "Unhealthy-node checks and capacity reservation can cause reassignment before
\* a worker request is sent; those preflight moves are not worker attempts": a
\* retry loop runs out of iterations only once maxAttempts attempts were made.
PreflightMovesAreFree ==
  \A w \in Workers : At(w, "loop") /\ job[w].attempt >= maxAttempts =>
    Len(rows[job[w].task][job[w].sub]) >= maxAttempts

\* "A one-worker integration test verifies progress": a worker waiting for
\* prerequisites is released.
WaitersReleased == \A w \in Workers : At(w, "deps") ~> ~ At(w, "deps")

\* A running task stops running: each of its dispatches comes to an end, and the
\* last one rolls the task up ("restores an interrupted or failed task to running
\* state from its last consistent checkpoint" says ResumeTaskChecked, which is
\* only of use if a restored task runs to an end).
RunningTaskSettles == \A t \in Tasks : Running(t) ~> ~ Running(t)


=============================================================================
