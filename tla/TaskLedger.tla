----------------------------- MODULE TaskLedger -----------------------------
(***************************************************************************)
(* What the task manager promises its callers about durable tasks, with    *)
(* locks, snapshots, crashes and recovery left out: a ledger of tasks to   *)
(* which admitted tasks are added, whose entries are only ever replaced by *)
(* entries that extend them, and a caller who is told that a task is       *)
(* completed is told so only once the ledger says it.                      *)
(***************************************************************************)
EXTENDS TaskRecord

CONSTANTS Ids,     \* task ids
          NoTask   \* the entry of an id that is not in use

VARIABLES ledger,    \* ledger[t]: the durable entry of task t
          answered   \* the tasks some Wait caller was told are completed

LedgerInit == /\ ledger = [t \in Ids |-> NoTask]
              /\ answered = {}

\* A fresh entry: nothing of the task has happened yet.
Admit(t) == /\ ledger[t] = NoTask
            /\ \E approval \in BOOLEAN :
                 ledger' = [ledger EXCEPT ![t] = NewTask(approval)]
            /\ UNCHANGED answered

Record(t) == /\ ledger[t] # NoTask
             /\ ledger'[t] # NoTask
             /\ Extends(ledger[t], ledger'[t])
             /\ ledger' = [ledger EXCEPT ![t] = ledger'[t]]
             /\ UNCHANGED answered

Report(t) == /\ ledger[t] # NoTask
             /\ ledger[t].status = "completed"
             /\ answered' = answered \cup {t}
             /\ UNCHANGED ledger

LedgerNext == \E t \in Ids : Admit(t) \/ Record(t) \/ Report(t)

LedgerSpec == LedgerInit /\ [][LedgerNext]_<<ledger, answered>>
=============================================================================
