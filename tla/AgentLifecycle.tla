--------------------------- MODULE AgentLifecycle ---------------------------
(***************************************************************************)
(* core.Agent around its turns: tasks that call run_conversation on one    *)
(* agent, stop requests from tasks and from threads, the signal's reset at *)
(* the end of a turn, the final event, and the closing of the client.      *)
(*                                                                         *)
(* Tasks share the event loop, so their code is atomic between awaits; a   *)
(* thread may run between any two steps.  Of a turn only its model calls   *)
(* and its way of ending are kept; ConversationTurn has the rest.          *)
(***************************************************************************)
EXTENDS Naturals

CONSTANTS
  Tasks,     \* tasks that call run_conversation
  Threads,   \* threads that call interrupt
  MaxTurns   \* bound of the model: turns begun

ASSUME MaxTurnsAssumption == MaxTurns \in Nat

VARIABLES
  at,          \* per task: "out" of run_conversation, in the "turn", past a "call" of it,
               \* or leaving: "ended", "clearing", "emitting"
  running,     \* Agent._running
  flag,        \* the flag of Agent._interrupt
  closed,      \* the model client is closed
  turn,        \* turns begun
  asking,      \* per thread: the turn it found running and is about to stop, or 0
  aimedAt,     \* history variable: the turn the flag was raised for, or 0
  late,        \* history variable: a thread raised the flag when the turn it is for was over
  noticed,     \* what the turn noticed of stops: the turn such a stop was raised for, or 0
  outcome,     \* per turn: "none", "completed", "stopped", "failed" or "raised"
  reports      \* per turn: the final events delivered for it

vars == <<at, running, flag, closed, turn, asking, aimedAt, late, noticed, outcome, reports>>

Turns == 1 .. MaxTurns

\* No task is between two awaits: the loop may run any of them.
LoopIsFree == \A c \in Tasks : at[c] \in {"out", "turn", "call"}

Init ==
  /\ at = [c \in Tasks |-> "out"]
  /\ running = FALSE
  /\ flag = FALSE
  /\ closed = FALSE
  /\ turn = 0
  /\ asking = [t \in Threads |-> 0]
  /\ aimedAt = 0
  /\ late = FALSE
  /\ noticed = 0
  /\ outcome = [n \in Turns |-> "none"]
  /\ reports = [n \in Turns |-> {}]
-----------------------------------------------------------------------------
\* run_conversation, up to the first await.  A second caller is refused with
\* AgentBusyError and changes nothing.
Enter(c) ==
  /\ LoopIsFree
  /\ at[c] = "out"
  /\ ~running
  /\ turn < MaxTurns
  /\ running' = TRUE
  /\ turn' = turn + 1
  /\ at' = [at EXCEPT ![c] = "turn"]
  /\ noticed' = 0
  /\ UNCHANGED <<flag, closed, asking, aimedAt, late, outcome, reports>>

\* A model call of the turn; ModelClient._ensure_open lets it through.
CallModel(c) ==
  /\ LoopIsFree
  /\ at[c] \in {"turn", "call"}
  /\ ~closed
  /\ at' = [at EXCEPT ![c] = "call"]
  /\ UNCHANGED <<running, flag, closed, turn, asking, aimedAt, late, noticed, outcome, reports>>

EndsAs(c, how) ==
  /\ LoopIsFree
  /\ at[c] \in {"turn", "call"}
  /\ at' = [at EXCEPT ![c] = "ended"]
  /\ outcome' = [outcome EXCEPT ![turn] = how]
  /\ UNCHANGED <<running, flag, closed, turn, asking, aimedAt, late, noticed, reports>>

Completes(c) == at[c] = "call" /\ EndsAs(c, "completed")

\* The turn reads the flag, or its wait for a stop is woken.
NoticeStop(c) ==
  /\ at[c] \in {"turn", "call"}
  /\ flag
  /\ noticed' = aimedAt
  /\ UNCHANGED <<at, running, flag, closed, turn, asking, aimedAt, late, outcome, reports>>

\* A stop that was noticed ends the turn even if it is withdrawn by then.
Stops(c) == noticed # 0 /\ EndsAs(c, "stopped")

\* A model or local error that becomes a result.
Fails(c) == ~closed /\ EndsAs(c, "failed")

\* _ensure_open refuses the call.  handle_api_error takes that for a failure not
\* worth a retry, and the turn ends with a failed result.
FailsClosed(c) == closed /\ EndsAs(c, "failed")

\* ModelInputError, an unknown error, or the task's cancellation.
Raises(c) == EndsAs(c, "raised")
-----------------------------------------------------------------------------
\* The finally block, then the final event of a turn that has a result.

\* Mutant of Leave: the busy flag is reset on the normal way out only.
LeaveIfReturned(c) ==
  /\ at[c] = "ended"
  /\ running' = (outcome[turn] = "raised")
  /\ at' = [at EXCEPT ![c] = "clearing"]
  /\ UNCHANGED <<flag, closed, turn, asking, aimedAt, late, noticed, outcome, reports>>

Leave(c) ==
  /\ at[c] = "ended"
  /\ running' = FALSE
  /\ at' = [at EXCEPT ![c] = "clearing"]
  /\ UNCHANGED <<flag, closed, turn, asking, aimedAt, late, noticed, outcome, reports>>

LowerFlag == flag' = FALSE /\ aimedAt' = 0 /\ late' = FALSE

\* Mutant of ClearSignal: the signal is left as it is.
ClearSignalNot(c) ==
  /\ at[c] = "clearing"
  /\ at' = [at EXCEPT ![c] = IF outcome[turn] = "raised" THEN "out" ELSE "emitting"]
  /\ UNCHANGED <<running, flag, closed, turn, asking, aimedAt, late, noticed, outcome, reports>>

ClearSignal(c) ==
  /\ at[c] = "clearing"
  /\ LowerFlag
  /\ at' = [at EXCEPT ![c] = IF outcome[turn] = "raised" THEN "out" ELSE "emitting"]
  /\ UNCHANGED <<running, closed, turn, asking, noticed, outcome, reports>>

\* Mutants of FinalEvent: failures are not told apart; or the outcome is the event.
FinalEventNoFailure(how) == IF how = "stopped" THEN "RunStopped" ELSE "RunCompleted"
FinalEventAsIs(how) == how

\* _final_event
FinalEvent(how) ==
  CASE how = "stopped" -> "RunStopped"
    [] how = "failed" -> "RunFailed"
    [] OTHER -> "RunCompleted"

EmitFinalEvent(c) ==
  /\ at[c] = "emitting"
  /\ reports' = [reports EXCEPT ![turn] = @ \cup {FinalEvent(outcome[turn])}]
  /\ at' = [at EXCEPT ![c] = "out"]
  /\ UNCHANGED <<running, flag, closed, turn, asking, aimedAt, late, noticed, outcome>>
-----------------------------------------------------------------------------
\* interrupt: reads _running, then sets the signal.  From a task that is one step.

RaiseFlag(n) == flag' = TRUE /\ aimedAt' = n /\ late' = ~(running /\ turn = n)

InterruptFromTask ==
  /\ LoopIsFree
  /\ running
  /\ RaiseFlag(turn)
  /\ UNCHANGED <<at, running, closed, turn, asking, noticed, outcome, reports>>

FindRunning(t) ==
  /\ asking[t] = 0
  /\ running
  /\ asking' = [asking EXCEPT ![t] = turn]
  /\ UNCHANGED <<at, running, flag, closed, turn, aimedAt, late, noticed, outcome, reports>>

SetSignal(t) ==
  /\ asking[t] # 0
  /\ RaiseFlag(asking[t])
  /\ asking' = [asking EXCEPT ![t] = 0]
  /\ UNCHANGED <<at, running, closed, turn, noticed, outcome, reports>>

ClearInterrupt ==
  /\ LoopIsFree
  /\ flag
  /\ LowerFlag
  /\ UNCHANGED <<at, running, closed, turn, asking, noticed, outcome, reports>>

\* aclose of an agent that owns its client.
Close ==
  /\ LoopIsFree
  /\ ~closed
  /\ closed' = TRUE
  /\ UNCHANGED <<at, running, flag, turn, asking, aimedAt, late, noticed, outcome, reports>>

TurnStep(c) ==
  \/ CallModel(c) \/ NoticeStop(c) \/ Completes(c) \/ Stops(c) \/ Fails(c) \/ FailsClosed(c) \/ Raises(c)

LeavingStep(c) == Leave(c) \/ ClearSignal(c) \/ EmitFinalEvent(c)

Next ==
  \/ \E c \in Tasks : Enter(c) \/ TurnStep(c) \/ LeavingStep(c)
  \/ \E t \in Threads : FindRunning(t) \/ SetSignal(t)
  \/ InterruptFromTask \/ ClearInterrupt \/ Close

Spec == Init /\ [][Next]_vars

-----------------------------------------------------------------------------
\* Properties.

Inside(c) == at[c] \in {"turn", "call", "ended"}

\* The caller of the n-th turn has it back.
Over(n) == n < turn \/ (n = turn /\ \A c \in Tasks : at[c] = "out")

TypeOK ==
  /\ at \in [Tasks -> {"out", "turn", "call", "ended", "clearing", "emitting"}]
  /\ running \in BOOLEAN
  /\ flag \in BOOLEAN
  /\ closed \in BOOLEAN
  /\ turn \in 0 .. MaxTurns
  /\ asking \in [Threads -> 0 .. MaxTurns]
  /\ aimedAt \in 0 .. MaxTurns
  /\ late \in BOOLEAN
  /\ noticed \in 0 .. MaxTurns
  /\ outcome \in [Turns -> {"none", "completed", "stopped", "failed", "raised"}]
  /\ reports \in [Turns -> SUBSET {"RunCompleted", "RunStopped", "RunFailed"}]

\* However many tasks call run_conversation, one of them at most is in a turn, and
\* the busy flag says so exactly; no exit leaves the agent busy for ever.
OneTurnAtATime ==
  /\ \A c, d \in Tasks : at[c] # "out" /\ at[d] # "out" => c = d
  /\ running <=> \E c \in Tasks : Inside(c)

\* A turn that ended with a result is reported once, as what it was, and before
\* the next turn begins; one still running is not reported.
ReportsAreTrue ==
  \A n \in Turns :
    /\ "RunCompleted" \in reports[n] => outcome[n] = "completed"
    /\ "RunStopped" \in reports[n] => outcome[n] = "stopped"
    /\ "RunFailed" \in reports[n] => outcome[n] = "failed"
    /\ Over(n) /\ outcome[n] # "raised" => reports[n] # {}

\* A stop that was raised while its turn ran is gone before the next turn begins:
\* whatever way the turn ends, and whoever raised it, no later turn can notice it.
InTimeStopDies ==
  flag /\ ~late => aimedAt = turn /\ \E c \in Tasks : Inside(c) \/ at[c] = "clearing"

\* core.py:197: "A stop request applies to one turn; it must not leak into the next."
StopStaysInItsTurn ==
  [][\A c \in Tasks : Stops(c) => noticed = turn]_vars
=============================================================================
