-------------------------- MODULE MCToolExecution --------------------------
(***************************************************************************)
(* Two calls, either of them created by the graph or waiting for approval, *)
(* and two tasks: enough for both kinds to be under way at every statement *)
(* of one closing transaction.                                             *)
(***************************************************************************)
EXTENDS ToolExecution
=============================================================================
