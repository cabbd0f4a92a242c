--------------------------- MODULE MCToolRegistry ---------------------------
(***************************************************************************)
(* Instance of ToolRegistry for TLC: two names, two toolsets, a probe that *)
(* tools may share, two threads that register and remove, and one agent.   *)
(* Nothing needs a bound: entries are values and calls replace each other. *)
(***************************************************************************)
EXTENDS ToolRegistry
=============================================================================
