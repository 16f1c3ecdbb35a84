------------------------------ MODULE WorkPool ------------------------------
(***************************************************************************)
(* internal/workpool.Pool: the bounded queue and workers behind the        *)
(* orchestrator's and the node agents' dispatch, and its shutdown.         *)
(*                                                                         *)
(* Every submitter submits one job, named after it, by Submit or TrySubmit. *)
(* p.submissions is a Go RWMutex: a waiting writer keeps new readers out.  *)
(* A select with several ready cases takes any of them.                    *)
(***************************************************************************)
EXTENDS Naturals, Sequences, FiniteSets

CONSTANTS Submitters, Workers, NoJob,
          QueueCaps   \* the queue capacities pools are made with

ASSUME PoolAssumption == QueueCaps \subseteq Nat /\ NoJob \notin Submitters

VARIABLES submitter,  \* where each submission is, and its outcome
          waits,      \* submissions made by Submit, which waits for room
          cancelled,  \* submitters whose context is done
          cap,        \* cap(p.jobs), fixed when the pool is made; 0 is unbuffered
          queue,      \* p.jobs
          worker,     \* what each worker goroutine is doing
          closer,     \* where Close is
          handled     \* jobs whose handler has been called, as often as it was

vars == <<submitter, waits, cancelled, cap, queue, worker, closer, handled>>

Outcomes == {"accepted", "closed", "cancelled", "full"}

Init == /\ submitter = [s \in Submitters |-> "idle"]
        /\ waits = {}
        /\ cancelled = {}
        /\ cap \in QueueCaps
        /\ queue = << >>
        /\ worker = [w \in Workers |-> [pc |-> "select", job |-> NoJob]]
        /\ closer = "open"
        /\ handled = [s \in Submitters |-> 0]

\* p.ctx is done.
PoolDone == closer # "open"

Readers == {s \in Submitters : submitter[s] = "sending"}

-----------------------------------------------------------------------------
\* Submit or TrySubmit is called and asks for the read lock.
Call(s, wait) ==
  /\ submitter[s] = "idle"
  /\ submitter' = [submitter EXCEPT ![s] = "entering"]
  /\ waits' = IF wait THEN waits \cup {s} ELSE waits
  /\ UNCHANGED <<cap, cancelled, queue, worker, closer, handled>>

\* The read lock is taken and both contexts are looked at.
Enter(s) ==
  /\ submitter[s] = "entering"
  /\ closer \notin {"locking", "draining"}
  /\ submitter' = [submitter EXCEPT ![s] = IF PoolDone THEN "closed"
                                           ELSE IF s \in cancelled THEN "cancelled"
                                           ELSE "sending"]
  /\ UNCHANGED <<cap, waits, cancelled, queue, worker, closer, handled>>

\* Mutant: off by one.
RoomInclusive(s) == Len(queue) <= cap

Room(s) == Len(queue) < cap

\* The send case of the select.
Send(s) ==
  /\ submitter[s] = "sending"
  /\ Room(s)
  /\ queue' = Append(queue, s)
  /\ submitter' = [submitter EXCEPT ![s] = "accepted"]
  /\ UNCHANGED <<cap, waits, cancelled, worker, closer, handled>>

\* The send case on an unbuffered channel: a worker must be receiving.
Handoff(s, w) ==
  /\ submitter[s] = "sending"
  /\ cap = 0
  /\ worker[w].pc = "select"
  /\ worker' = [worker EXCEPT ![w] = [pc |-> "received", job |-> s]]
  /\ submitter' = [submitter EXCEPT ![s] = "accepted"]
  /\ UNCHANGED <<cap, waits, cancelled, queue, closer, handled>>

Receiving == \E w \in Workers : worker[w].pc = "select"

\* Mutant: a waiting Submit does not watch the pool's context.
GiveUpDeaf(s) ==
  /\ submitter[s] = "sending"
  /\ s \in cancelled
  /\ submitter' = [submitter EXCEPT ![s] = "cancelled"]
  /\ UNCHANGED <<cap, waits, cancelled, queue, worker, closer, handled>>

\* Mutant: TrySubmit returns nil when nothing is ready.
GiveUpPretending(s) ==
  /\ submitter[s] = "sending"
  /\ s \notin waits
  /\ ~ Room(s)
  /\ submitter' = [submitter EXCEPT ![s] = "accepted"]
  /\ UNCHANGED <<cap, waits, cancelled, queue, worker, closer, handled>>

\* The other cases: the pool closes, the submitter's context ends, or, for
\* TrySubmit, nothing else is ready.
GiveUp(s) ==
  /\ submitter[s] = "sending"
  /\ \/ /\ PoolDone
        /\ submitter' = [submitter EXCEPT ![s] = "closed"]
     \/ /\ s \in cancelled
        /\ submitter' = [submitter EXCEPT ![s] = "cancelled"]
     \/ /\ s \notin waits
        /\ ~ PoolDone /\ s \notin cancelled
        /\ ~ Room(s) /\ ~ (cap = 0 /\ Receiving)
        /\ submitter' = [submitter EXCEPT ![s] = "full"]
  /\ UNCHANGED <<cap, waits, cancelled, queue, worker, closer, handled>>

CancelSubmitter(s) ==
  /\ s \notin cancelled
  /\ submitter[s] \in {"idle", "entering", "sending"}
  /\ cancelled' = cancelled \cup {s}
  /\ UNCHANGED <<cap, submitter, waits, queue, worker, closer, handled>>

-----------------------------------------------------------------------------
\* The worker's select: a job is received, or the pool's context is done.
Receive(w) ==
  /\ worker[w].pc = "select"
  /\ queue # << >>
  /\ worker' = [worker EXCEPT ![w] = [pc |-> "received", job |-> Head(queue)]]
  /\ queue' = Tail(queue)
  /\ UNCHANGED <<cap, submitter, waits, cancelled, closer, handled>>

Exit(w) ==
  /\ worker[w].pc = "select"
  /\ PoolDone
  /\ worker' = [worker EXCEPT ![w].pc = "exited"]
  /\ UNCHANGED <<cap, submitter, waits, cancelled, queue, closer, handled>>

\* A job received after the pool was cancelled is dropped and the worker exits.
Run(w) ==
  /\ worker[w].pc = "received"
  /\ IF PoolDone
     THEN /\ worker' = [worker EXCEPT ![w] = [pc |-> "exited", job |-> NoJob]]
          /\ UNCHANGED handled
     ELSE /\ worker' = [worker EXCEPT ![w].pc = "handling"]
          /\ handled' = [handled EXCEPT ![worker[w].job] = @ + 1]
  /\ UNCHANGED <<cap, submitter, waits, cancelled, queue, closer>>

Handled(w) ==
  /\ worker[w].pc = "handling"
  /\ worker' = [worker EXCEPT ![w] = [pc |-> "select", job |-> NoJob]]
  /\ UNCHANGED <<cap, submitter, waits, cancelled, queue, closer, handled>>

-----------------------------------------------------------------------------
\* Close: cancel, wait for the workers, take the write lock, drain.
Close ==
  /\ closer = "open"
  /\ closer' = "joining"
  /\ UNCHANGED <<cap, submitter, waits, cancelled, queue, worker, handled>>

Joined ==
  /\ closer = "joining"
  /\ \A w \in Workers : worker[w].pc = "exited"
  /\ closer' = "locking"
  /\ UNCHANGED <<cap, submitter, waits, cancelled, queue, worker, handled>>

\* Mutant: the queue is drained without the lock.
LockedUnguarded ==
  /\ closer = "locking"
  /\ closer' = "draining"
  /\ UNCHANGED <<cap, submitter, waits, cancelled, queue, worker, handled>>

Locked ==
  /\ closer = "locking"
  /\ Readers = {}
  /\ closer' = "draining"
  /\ UNCHANGED <<cap, submitter, waits, cancelled, queue, worker, handled>>

Drain ==
  /\ closer = "draining"
  /\ IF queue = << >>
     THEN closer' = "closed" /\ UNCHANGED queue
     ELSE queue' = Tail(queue) /\ UNCHANGED closer
  /\ UNCHANGED <<cap, submitter, waits, cancelled, worker, handled>>

SubmitStep(s) == Enter(s) \/ Send(s) \/ GiveUp(s) \/ \E w \in Workers : Handoff(s, w)

WorkerStep(w) == Receive(w) \/ Exit(w) \/ Run(w) \/ Handled(w)

CloseStep == Joined \/ Locked \/ Drain

Next == \/ \E s \in Submitters : \/ \E wait \in BOOLEAN : Call(s, wait)
                                 \/ SubmitStep(s) \/ CancelSubmitter(s)
        \/ \E w \in Workers : WorkerStep(w)
        \/ Close \/ CloseStep

Spec == Init /\ [][Next]_vars

\* Goroutines run and handlers return (they are given a context that Close
\* cancels); whether anybody calls Close or cancels is open.
FairSpec == /\ Spec
            /\ \A s \in Submitters : WF_vars(SubmitStep(s))
            /\ \A w \in Workers : WF_vars(WorkerStep(w))
            /\ WF_vars(CloseStep)

-----------------------------------------------------------------------------
\* Type invariant.
TypeOK == /\ submitter \in [Submitters -> {"idle", "entering", "sending"} \cup Outcomes]
          /\ waits \in SUBSET Submitters
          /\ cancelled \in SUBSET Submitters
          /\ queue \in Seq(Submitters) /\ Len(queue) <= cap
          /\ cap \in QueueCaps
          /\ worker \in [Workers -> [pc : {"select", "received", "handling", "exited"},
                                     job : Submitters \cup {NoJob}]]
          /\ closer \in {"open", "joining", "locking", "draining", "closed"}
          /\ handled \in [Submitters -> Nat]

InPool(s) == \/ \E i \in DOMAIN queue : queue[i] = s
             \/ \E w \in Workers : worker[w].job = s /\ worker[w].pc = "received"

\* A job is in one place: handled at most once, only if it was accepted, and
\* while the pool is open an accepted job is handled or still in the pool.
JobsAccounted ==
  \A s \in Submitters :
    /\ handled[s] + (IF InPool(s) THEN 1 ELSE 0) <= 1
    /\ handled[s] > 0 \/ InPool(s) => submitter[s] = "accepted"
    /\ submitter[s] = "accepted" /\ ~ PoolDone => handled[s] = 1 \/ InPool(s)

\* Once Close has returned nothing is left behind: no queued job keeps its
\* context and payload alive, no handler runs, and none will be accepted.
ClosedIsQuiet ==
  closer = "closed" => /\ queue = << >>
                       /\ \A w \in Workers : worker[w].pc = "exited"
                       /\ Readers = {}

\* No job is handled once the pool's workers have been joined, nor accepted once
\* the queue is being drained.
NothingAfterClose ==
  [][/\ closer \in {"locking", "draining", "closed"} => handled' = handled
     /\ closer \in {"draining", "closed"} =>
          \A s \in Submitters : submitter'[s] = "accepted" => submitter[s] = "accepted"]_vars

\* Close returns, whoever is waiting to submit and whatever is queued.
CloseReturns == closer = "joining" ~> closer = "closed"

\* A submission is answered, and an accepted job is handled unless the pool is
\* closed.
SubmissionsAnswered ==
  \A s \in Submitters :
    /\ submitter[s] = "entering" ~> submitter[s] \in Outcomes
    /\ submitter[s] = "accepted" ~> handled[s] > 0 \/ PoolDone
=============================================================================
