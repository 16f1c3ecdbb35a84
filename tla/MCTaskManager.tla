--------------------------- MODULE MCTaskManager ---------------------------
(* Instances of TaskManager for TLC. *)
EXTENDS TaskManager

CONSTANTS a, b

Chain == [s \in Subtasks |-> IF s = b THEN {a} ELSE {}]

Independent == [s \in Subtasks |-> {}]
=============================================================================
