------------------------------ MODULE StopSignal ------------------------------
(***************************************************************************)
(* What InterruptSignal promises whoever waits for a stop: a wait reports  *)
(* a stop only if one was requested while it lasted, and reports that its  *)
(* time is up only if no stop stood from its beginning to its end.         *)
(***************************************************************************)
CONSTANT Tasks  \* tasks that wait

VARIABLES
  flag,     \* a stop is requested
  verdict,  \* per task: what its last wait returned, or "waiting"
  seen,     \* per task: a stop was requested at some time in its wait
  held      \* per task: a stop was requested all through its wait

vars == <<flag, verdict, seen, held>>

Waiting(w) == verdict[w] = "waiting"

Init ==
  /\ flag = FALSE
  /\ verdict = [w \in Tasks |-> "none"]
  /\ seen = [w \in Tasks |-> FALSE]
  /\ held = [w \in Tasks |-> FALSE]

Request ==
  /\ flag' = TRUE
  /\ seen' = [w \in Tasks |-> seen[w] \/ Waiting(w)]
  /\ UNCHANGED <<verdict, held>>

Withdraw ==
  /\ flag' = FALSE
  /\ held' = [w \in Tasks |-> FALSE]
  /\ UNCHANGED <<verdict, seen>>

Begin(w) ==
  /\ ~Waiting(w)
  /\ verdict' = [verdict EXCEPT ![w] = "waiting"]
  /\ seen' = [seen EXCEPT ![w] = flag]
  /\ held' = [held EXCEPT ![w] = flag]
  /\ UNCHANGED flag

End(w, how) ==
  /\ Waiting(w)
  /\ how = "stopped" => seen[w]
  /\ how = "elapsed" => ~held[w]
  /\ verdict' = [verdict EXCEPT ![w] = how]
  /\ UNCHANGED <<flag, seen, held>>

Next ==
  \/ Request \/ Withdraw
  \/ \E w \in Tasks : Begin(w) \/ \E how \in {"stopped", "elapsed", "cancelled"} : End(w, how)

Spec == Init /\ [][Next]_vars
=============================================================================
