-------------------------------- MODULE Hedge --------------------------------
(***************************************************************************)
(* Speculative hedging (dispatcher_hedging.go): executeCandidateWithHedge  *)
(* runs the assigned pair and, if that takes longer than usual, a second   *)
(* pair beside it; the first success wins the subtask and cancels the      *)
(* other.  Each element of Runs is one call, with its main goroutine, the  *)
(* goroutines of the primary and of the hedge, and the goroutine waiting   *)
(* for the hedge's reservation.  All calls share hedgeSlots.               *)
(*                                                                         *)
(* A runCandidateSeries is abstracted to its end: it fails, or its success *)
(* is recorded by CompleteDispatchAttemptWithAssignmentChecked, which      *)
(* names the winner under the task's lock and calls onWinner after it.     *)
(* Its store writes succeed here; module TaskManager lets them fail.       *)
(* The result a goroutine has sent stays in its buffered channel until the *)
(* main goroutine takes it.                                                *)
(***************************************************************************)
EXTENDS Naturals, FiniteSets

CONSTANTS Runs,
          MaxHedges   \* cap(d.hedgeSlots)

ASSUME HedgeAssumption == IsFiniteSet(Runs) /\ MaxHedges \in Nat

VARIABLES main,       \* where executeCandidateWithHedge is
          slot,       \* slotHeld
          primary, secondary,   \* the two candidate series
          lost,       \* series whose context was cancelled: {"primary", "secondary"}
          winner,     \* the atomic: 0, 1 (primary) or 2 (hedge)
          armed,      \* cancelHedge # nil
          resv,       \* the hedge's reservation
          ctxDone,    \* calls whose dispatch context is done
          sub,        \* the subtask's status
          answer      \* the result returned

vars == <<main, slot, primary, secondary, lost, winner, armed, resv, ctxDone, sub, answer>>

\* "off" not started; "run" in progress; "ok" a success not yet recorded; "won"
\* the subtask is won and onWinner is about to be called; "cancelling" between
\* its two halves; then the result: a win, a late success, or a failure.
Ended == {"win", "late", "fail"}
Series == {"off", "run", "ok", "won", "cancelling"} \cup Ended

Init == /\ main = [r \in Runs |-> "start"]
        /\ slot = [r \in Runs |-> FALSE]
        /\ primary = [r \in Runs |-> "off"]
        /\ secondary = [r \in Runs |-> "off"]
        /\ lost = [r \in Runs |-> {}]
        /\ winner = [r \in Runs |-> 0]
        /\ armed = [r \in Runs |-> FALSE]
        /\ resv = [r \in Runs |-> "none"]
        /\ ctxDone = {}
        /\ sub = [r \in Runs |-> "running"]
        /\ answer = [r \in Runs |-> "none"]

\* The dispatch context ends: the task was cancelled, or the deadline passed.
EndContext(r) ==
  /\ r \notin ctxDone
  /\ main[r] # "returned"
  /\ ctxDone' = ctxDone \cup {r}
  /\ sub' \in {sub, [sub EXCEPT ![r] = IF @ = "running" THEN "cancelled" ELSE @]}
  /\ UNCHANGED <<main, slot, primary, secondary, lost, winner, armed, resv, answer>>

-----------------------------------------------------------------------------
(***************************************************************************)
(* The candidate series                                                    *)
(***************************************************************************)

\* A node answers.  An answer that arrives after the context is done counts as
\* a failure; a success is looked at once, before it is recorded.
Answers(r, name, before, after) ==
  /\ before = "run"
  /\ \/ after = "fail"
     \/ after = "ok" /\ r \notin ctxDone /\ name \notin lost[r]

\* CompleteDispatchAttemptWithAssignmentChecked: the first success wins.
Records(r, before, after) ==
  /\ before = "ok"
  /\ after = IF sub[r] = "running" THEN "won" ELSE "late"
  /\ sub' = [sub EXCEPT ![r] = IF @ = "running" THEN "completed" ELSE @]

PrimaryEnds(r) ==
  /\ \E after \in Series :
       /\ \/ Answers(r, "primary", primary[r], after) /\ UNCHANGED sub
          \/ Records(r, primary[r], after)
       /\ primary' = [primary EXCEPT ![r] = after]
  /\ UNCHANGED <<main, slot, secondary, lost, winner, armed, resv, ctxDone, answer>>

SecondaryEnds(r) ==
  /\ \E after \in Series :
       /\ \/ Answers(r, "secondary", secondary[r], after) /\ UNCHANGED sub
          \/ Records(r, secondary[r], after)
       /\ secondary' = [secondary EXCEPT ![r] = after]
  /\ UNCHANGED <<main, slot, primary, lost, winner, armed, resv, ctxDone, answer>>

\* onPrimaryWinner: the compare-and-swap...
PrimarySwap(r) ==
  /\ primary[r] = "won"
  /\ winner' = [winner EXCEPT ![r] = IF @ = 0 THEN 1 ELSE @]
  /\ primary' = [primary EXCEPT ![r] = IF winner[r] = 0 THEN "cancelling" ELSE "win"]
  /\ UNCHANGED <<main, slot, secondary, lost, armed, resv, ctxDone, sub, answer>>

\* ... and then cancelHedge, if the main goroutine has set it.
PrimaryCancels(r) ==
  /\ primary[r] = "cancelling"
  /\ lost' = [lost EXCEPT ![r] = IF armed[r] THEN @ \cup {"secondary"} ELSE @]
  /\ primary' = [primary EXCEPT ![r] = "win"]
  /\ UNCHANGED <<main, slot, secondary, winner, armed, resv, ctxDone, sub, answer>>

\* onSecondaryWinner.
SecondaryWins(r) ==
  /\ secondary[r] = "won"
  /\ winner' = [winner EXCEPT ![r] = IF @ = 0 THEN 2 ELSE @]
  /\ lost' = [lost EXCEPT ![r] = IF winner[r] = 0 THEN @ \cup {"primary"} ELSE @]
  /\ secondary' = [secondary EXCEPT ![r] = "win"]
  /\ UNCHANGED <<main, slot, primary, armed, resv, ctxDone, sub, answer>>

\* The goroutine that reserves capacity for the hedge (module CapacityGate).
ReservationEnds(r) ==
  /\ resv[r] = "pending"
  /\ resv' \in {[resv EXCEPT ![r] = "granted"], [resv EXCEPT ![r] = "refused"]}
  /\ UNCHANGED <<main, slot, primary, secondary, lost, winner, armed, ctxDone, sub, answer>>

-----------------------------------------------------------------------------
(***************************************************************************)
(* The main goroutine                                                      *)
(***************************************************************************)

SlotsHeld == Cardinality({r \in Runs : slot[r]})

Goto(r, pc) == main' = [main EXCEPT ![r] = pc]

\* Return a result; the deferred calls free the slot and release the reservation.
Return(r, result) ==
  /\ main' = [main EXCEPT ![r] = "returned"]
  /\ answer' = [answer EXCEPT ![r] = result]
  /\ slot' = [slot EXCEPT ![r] = FALSE]

\* Mutant: the slot is taken without looking at the capacity of hedgeSlots.
StartUnbounded(r) ==
  /\ main[r] = "start"
  /\ Goto(r, "timer")
  /\ slot' = [slot EXCEPT ![r] = TRUE]
  /\ primary' = [primary EXCEPT ![r] = "run"]
  /\ UNCHANGED <<secondary, lost, winner, armed, resv, ctxDone, sub, answer>>

\* Hedging is off for this attempt, or a slot is taken; either way the primary starts.
Start(r) ==
  /\ main[r] = "start"
  /\ \/ Goto(r, "primary") /\ UNCHANGED slot
     \/ /\ SlotsHeld < MaxHedges
        /\ Goto(r, "timer")
        /\ slot' = [slot EXCEPT ![r] = TRUE]
  /\ primary' = [primary EXCEPT ![r] = "run"]
  /\ UNCHANGED <<secondary, lost, winner, armed, resv, ctxDone, sub, answer>>

\* return <-primaryResults
AwaitPrimary(r) ==
  /\ main[r] = "primary"
  /\ primary[r] \in Ended
  /\ Return(r, primary[r])
  /\ UNCHANGED <<primary, secondary, lost, winner, armed, resv, ctxDone, sub>>

\* The primary takes longer than its 95th percentile, unless it ends first.
Timer(r) ==
  /\ main[r] = "timer"
  /\ \/ primary[r] \in Ended /\ Return(r, primary[r])
     \/ /\ r \in ctxDone \/ winner[r] # 0
        /\ Goto(r, "primary") /\ UNCHANGED <<slot, answer>>
     \/ /\ primary[r] \notin Ended /\ winner[r] = 0
        /\ Goto(r, "assign") /\ UNCHANGED <<slot, answer>>
  /\ UNCHANGED <<primary, secondary, lost, winner, armed, resv, ctxDone, sub>>

\* hedgeAssignment finds another node, and the wait for its capacity begins.
Assign(r) ==
  /\ main[r] = "assign"
  /\ \/ /\ Goto(r, "primary")
        /\ slot' = [slot EXCEPT ![r] = FALSE]
        /\ UNCHANGED <<resv, answer>>
     \/ /\ r \notin ctxDone /\ primary[r] \in Ended
        /\ Return(r, primary[r]) /\ UNCHANGED resv
     \/ /\ r \notin ctxDone /\ primary[r] \notin Ended
        /\ Goto(r, "reserve")
        /\ resv' = [resv EXCEPT ![r] = "pending"]
        /\ UNCHANGED <<slot, answer>>
  /\ UNCHANGED <<primary, secondary, lost, winner, armed, ctxDone, sub>>

\* Mutant: the cancelled reservation is not waited for.
ReserveAbandoned(r) ==
  /\ main[r] = "reserve"
  /\ primary[r] \in Ended
  /\ Return(r, primary[r])
  /\ UNCHANGED <<primary, secondary, lost, winner, armed, resv, ctxDone, sub>>

\* The select on the primary, the reservation and the context.
Reserve(r) ==
  /\ main[r] = "reserve"
  /\ \/ /\ primary[r] \in Ended \/ r \in ctxDone
        /\ Goto(r, "unreserve") /\ UNCHANGED <<slot, resv>>
     \/ /\ resv[r] = "granted"
        /\ Goto(r, "reserved")
        /\ resv' = [resv EXCEPT ![r] = "held"]
        /\ UNCHANGED slot
     \/ /\ resv[r] = "refused"
        /\ Goto(r, "primary")
        /\ slot' = [slot EXCEPT ![r] = FALSE]
        /\ UNCHANGED resv
  /\ UNCHANGED <<primary, secondary, lost, winner, armed, ctxDone, sub, answer>>

\* Mutant: only a granted reservation is expected.
UnreserveDeaf(r) ==
  /\ main[r] = "unreserve"
  /\ resv[r] = "granted"
  /\ resv' = [resv EXCEPT ![r] = "released"]
  /\ Goto(r, "primary")
  /\ UNCHANGED <<slot, primary, secondary, lost, winner, armed, ctxDone, sub, answer>>

\* cancelReserve, and whatever the reservation goroutine still got is released.
Unreserve(r) ==
  /\ main[r] = "unreserve"
  /\ resv[r] \in {"granted", "refused"}
  /\ resv' = [resv EXCEPT ![r] = "released"]
  /\ Goto(r, "primary")
  /\ UNCHANGED <<slot, primary, secondary, lost, winner, armed, ctxDone, sub, answer>>

\* The primary may have ended or won while capacity was reserved.
Reserved(r) ==
  /\ main[r] = "reserved"
  /\ IF primary[r] \in Ended \/ winner[r] # 0
     THEN resv' = [resv EXCEPT ![r] = "released"] /\ Goto(r, "primary")
     ELSE Goto(r, "arm") /\ UNCHANGED resv
  /\ UNCHANGED <<slot, primary, secondary, lost, winner, armed, ctxDone, sub, answer>>

\* cancelHedge is set under cancelMu.
Arm(r) ==
  /\ main[r] = "arm"
  /\ armed' = [armed EXCEPT ![r] = TRUE]
  /\ Goto(r, "armed")
  /\ UNCHANGED <<slot, primary, secondary, lost, winner, resv, ctxDone, sub, answer>>

\* Mutant: the winner is not looked at again once cancelHedge is set.
ArmedUnchecked(r) ==
  /\ main[r] = "armed"
  /\ Goto(r, "both")
  /\ secondary' = [secondary EXCEPT ![r] = "run"]
  /\ UNCHANGED <<slot, primary, lost, winner, armed, resv, ctxDone, sub, answer>>

\* A primary that won before it could see cancelHedge is noticed here.
Armed(r) ==
  /\ main[r] = "armed"
  /\ IF winner[r] = 1
     THEN /\ resv' = [resv EXCEPT ![r] = "released"]
          /\ Goto(r, "primary")
          /\ UNCHANGED secondary
     ELSE /\ secondary' = [secondary EXCEPT ![r] = "run"]
          /\ Goto(r, "both")
          /\ UNCHANGED resv
  /\ UNCHANGED <<slot, primary, lost, winner, armed, ctxDone, sub, answer>>

\* Mutant: the primary's result is preferred, won or not.
ChosenPrimary(p, s) == p

\* The winner's result if there is one, else the primary's.
Chosen(p, s) == IF p = "win" THEN p ELSE IF s = "win" THEN s ELSE p

\* Both results are collected; the reservation is released by a deferred call.
Both(r) ==
  /\ main[r] = "both"
  /\ primary[r] \in Ended /\ secondary[r] \in Ended
  /\ Return(r, Chosen(primary[r], secondary[r]))
  /\ resv' = [resv EXCEPT ![r] = "released"]
  /\ UNCHANGED <<primary, secondary, lost, winner, armed, ctxDone, sub>>

SeriesStep(r) ==
  \/ PrimaryEnds(r) \/ PrimarySwap(r) \/ PrimaryCancels(r)
  \/ SecondaryEnds(r) \/ SecondaryWins(r) \/ ReservationEnds(r)

MainStep(r) ==
  \/ Start(r) \/ AwaitPrimary(r) \/ Timer(r) \/ Assign(r) \/ Reserve(r)
  \/ Unreserve(r) \/ Reserved(r) \/ Arm(r) \/ Armed(r) \/ Both(r)

Next == \E r \in Runs : EndContext(r) \/ SeriesStep(r) \/ MainStep(r)

Spec == Init /\ [][Next]_vars

\* Goroutines run, timers fire, and requests to nodes and reservations end.
FairSpec == /\ Spec
            /\ \A r \in Runs : /\ WF_vars(MainStep(r))
                               /\ WF_vars(PrimaryEnds(r)) /\ WF_vars(SecondaryEnds(r))
                               /\ WF_vars(PrimarySwap(r)) /\ WF_vars(PrimaryCancels(r))
                               /\ WF_vars(SecondaryWins(r)) /\ WF_vars(ReservationEnds(r))

-----------------------------------------------------------------------------
\* Type invariant.
TypeOK ==
  /\ main \in [Runs -> {"start", "primary", "timer", "assign", "reserve", "unreserve",
                        "reserved", "arm", "armed", "both", "returned"}]
  /\ slot \in [Runs -> BOOLEAN] /\ SlotsHeld <= MaxHedges
  /\ primary \in [Runs -> Series] /\ secondary \in [Runs -> Series]
  /\ lost \in [Runs -> SUBSET {"primary", "secondary"}]
  /\ winner \in [Runs -> 0 .. 2] /\ armed \in [Runs -> BOOLEAN]
  /\ resv \in [Runs -> {"none", "pending", "granted", "refused", "held", "released"}]
  /\ ctxDone \in SUBSET Runs
  /\ sub \in [Runs -> {"running", "completed", "cancelled"}]
  /\ answer \in [Runs -> Ended \cup {"none"}]

\* A call leaves nothing behind when it returns, whichever of its many returns
\* it takes: no candidate or reservation goroutine still runs, the hedge's
\* capacity is released and its slot is free.
NothingLeftBehind ==
  \A r \in Runs : main[r] = "returned" =>
    /\ primary[r] \in Ended
    /\ secondary[r] \in Ended \cup {"off"}
    /\ resv[r] \in {"none", "refused", "released"}
    /\ ~ slot[r]

\* A win is always reported, so the dispatch loop never retries or fails a
\* subtask that one of its own candidates has won.
WinReported ==
  \A r \in Runs : main[r] = "returned" /\ sub[r] = "completed" => answer[r] = "win"

\* Once a winner's callback is over, the other candidate is not running with a
\* live context: either it was cancelled or it is never started.
LoserCancelled ==
  \A r \in Runs :
    /\ primary[r] = "win" /\ secondary[r] = "run" => "secondary" \in lost[r]
    /\ secondary[r] = "win" /\ primary[r] = "run" => "primary" \in lost[r]

\* The call returns.
CallReturns == \A r \in Runs : main[r] = "start" ~> main[r] = "returned"
=============================================================================
