-------------------------- MODULE MCAgentLifecycle --------------------------
(***************************************************************************)
(* Two tasks that share an agent, and a thread that stops it.            *)
(***************************************************************************)
EXTENDS AgentLifecycle

CONSTANTS c1, c2, t1

MCTasks == {c1, c2}
OneThread == {t1}
=============================================================================
