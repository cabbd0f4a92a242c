-------------------------- MODULE MCInterruptSignal --------------------------
(***************************************************************************)
(* Two tasks that wait and a thread that sets the signal.                  *)
(***************************************************************************)
EXTENDS InterruptSignal

CONSTANTS w1, w2, t1

MCTasks == {w1, w2}
OneThread == {t1}
=============================================================================
