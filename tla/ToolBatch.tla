------------------------------ MODULE ToolBatch ------------------------------
(***************************************************************************)
(* What execute_tool_calls promises the round that awaits it: every call   *)
(* of the batch is answered exactly once, in call order, with an answer    *)
(* its arguments and the stop signal account for - unless an exception or  *)
(* a cancellation leaves the executor, and then no answer is used.         *)
(***************************************************************************)
EXTENDS ToolCalls

CONSTANT Batches  \* the batches a round may hand over

VARIABLES
  batch,     \* the valid calls of the reply
  answers,   \* the answers recorded so far
  status,    \* "open", "complete" or "aborted"
  stopSeen   \* a stop was requested at some time since the batch began

vars == <<batch, answers, status, stopSeen>>

Init ==
  /\ batch \in Batches
  /\ answers = <<>>
  /\ status = "open"
  /\ stopSeen \in BOOLEAN

\* The stop may come at any time.
StopComes ==
  /\ status = "open"
  /\ stopSeen' = TRUE
  /\ UNCHANGED <<batch, answers, status>>

\* The next calls in order get their answers.
Answer ==
  /\ status = "open"
  /\ \E n \in 1 .. Len(batch) - Len(answers) :
       \E chunk \in [1 .. n -> Answers] :
         /\ \A k \in 1 .. n : chunk[k] \in MayAnswer(batch[Len(answers) + k], stopSeen)
         /\ answers' = answers \o chunk
  /\ UNCHANGED <<batch, status, stopSeen>>

Complete ==
  /\ status = "open"
  /\ Len(answers) = Len(batch)
  /\ status' = "complete"
  /\ UNCHANGED <<batch, answers, stopSeen>>

Abort ==
  /\ status = "open"
  /\ status' = "aborted"
  /\ UNCHANGED <<batch, answers, stopSeen>>

Next == StopComes \/ Answer \/ Complete \/ Abort

Spec == Init /\ [][Next]_vars
=============================================================================
