---------------------------- MODULE MCSupervisor ----------------------------
(* Instances of Supervisor for TLC. *)
EXTENDS Supervisor

(* (a+b) * c cut at height 1, and (a+b) * (c-d) / e: two or three subtrees *)
(* to send, with lone operands and operators between them.                 *)
OneTask == <<"task", "item", "item">>
TwoTasks == <<"task", "item", "item", "task", "item">>
ThreeTasks == <<"task", "task", "item", "task", "item">>
=============================================================================
