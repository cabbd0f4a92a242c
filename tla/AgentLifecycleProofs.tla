------------------------ MODULE AgentLifecycleProofs ------------------------
(***************************************************************************)
(* The agent's busy flag, the life of a stop request and the final event   *)
(* of each turn, for any number of tasks, threads and turns.               *)
(***************************************************************************)
EXTENDS AgentLifecycle, TLAPS

\* The busy flag is down between the end of a turn and its final event, so it cannot
\* keep a second caller out by itself: that the event loop is not given back then is
\* part of the argument.
Exclusive == TypeOK /\ OneTurnAtATime

\* The agent starts with nobody in it.
LEMMA InitExclusive == Init => Exclusive
<1> SUFFICES ASSUME Init
             PROVE  Exclusive
  OBVIOUS
<1>1. TypeOK
  <2>1. 0 \in 0 .. MaxTurns
    BY MaxTurnsAssumption
  <2>2. at \in [Tasks -> {"out", "turn", "call", "ended", "clearing", "emitting"}]
    BY DEF Init
  <2>3. asking \in [Threads -> 0 .. MaxTurns]
    BY <2>1 DEF Init
  <2>4. outcome \in [Turns -> {"none", "completed", "stopped", "failed", "raised"}]
    BY DEF Init
  <2>5. reports \in [Turns -> SUBSET {"RunCompleted", "RunStopped", "RunFailed"}]
    BY DEF Init
  <2> QED BY <2>1, <2>2, <2>3, <2>4, <2>5 DEF Init, TypeOK
<1>2. OneTurnAtATime
  BY DEF Init, OneTurnAtATime, Inside
<1> QED BY <1>1, <1>2 DEF Exclusive

\* Every step keeps the variables in their types.
LEMMA StepType == TypeOK /\ [Next]_vars => TypeOK'
<1> SUFFICES ASSUME TypeOK, [Next]_vars
             PROVE  TypeOK'
  OBVIOUS
<1>0. 0 \in 0 .. MaxTurns
  BY MaxTurnsAssumption
<1>1. ASSUME NEW c \in Tasks, Enter(c)
      PROVE  TypeOK'
  <2>1. turn' \in 0 .. MaxTurns
    BY <1>1, MaxTurnsAssumption DEF Enter, TypeOK
  <2> QED BY <1>0, <1>1, <2>1 DEF Enter, TypeOK
<1>2. ASSUME NEW c \in Tasks, TurnStep(c)
      PROVE  TypeOK'
  <2>1. CASE CallModel(c) \/ NoticeStop(c)
    BY <2>1 DEF CallModel, NoticeStop, TypeOK
  <2>2. ASSUME NEW how \in {"completed", "stopped", "failed", "raised"}, EndsAs(c, how)
        PROVE  TypeOK'
    BY <2>2 DEF EndsAs, TypeOK
  <2> QED BY <1>2, <2>1, <2>2 DEF TurnStep, Completes, Stops, Fails, FailsClosed, Raises
<1>3. ASSUME NEW c \in Tasks, LeavingStep(c)
      PROVE  TypeOK'
  <2>1. CASE Leave(c)
    BY <2>1 DEF Leave, TypeOK
  <2>2. CASE ClearSignal(c)
    <3>1. at' \in [Tasks -> {"out", "turn", "call", "ended", "clearing", "emitting"}]
      BY <2>2 DEF ClearSignal, TypeOK
    <3> QED BY <1>0, <2>2, <3>1 DEF ClearSignal, LowerFlag, TypeOK
  <2>3. CASE EmitFinalEvent(c)
    <3>1. \A how : FinalEvent(how) \in {"RunCompleted", "RunStopped", "RunFailed"}
      BY DEF FinalEvent
    <3>2. reports' \in [Turns -> SUBSET {"RunCompleted", "RunStopped", "RunFailed"}]
      <4>1. reports' = [reports EXCEPT ![turn] = reports[turn] \cup {FinalEvent(outcome[turn])}]
        BY <2>3 DEF EmitFinalEvent
      <4>2. {FinalEvent(outcome[turn])} \subseteq {"RunCompleted", "RunStopped", "RunFailed"}
        BY <3>1
      <4>3. ASSUME NEW n \in Turns
            PROVE  reports'[n] \in SUBSET {"RunCompleted", "RunStopped", "RunFailed"}
        <5>1. reports[n] \subseteq {"RunCompleted", "RunStopped", "RunFailed"}
          BY DEF TypeOK
        <5>2. reports'[n] \subseteq reports[n] \cup {FinalEvent(outcome[turn])}
          BY <4>1 DEF TypeOK
        <5> QED BY <4>2, <5>1, <5>2
      <4> QED BY <4>1, <4>3 DEF TypeOK
    <3> QED BY <2>3, <3>2 DEF EmitFinalEvent, TypeOK
  <2> QED BY <1>3, <2>1, <2>2, <2>3 DEF LeavingStep
<1>4. ASSUME NEW t \in Threads, FindRunning(t)
      PROVE  TypeOK'
  BY <1>4 DEF FindRunning, TypeOK
<1>5. ASSUME NEW t \in Threads, SetSignal(t)
      PROVE  TypeOK'
  BY <1>0, <1>5 DEF SetSignal, RaiseFlag, TypeOK
<1>6. CASE InterruptFromTask
  BY <1>6 DEF InterruptFromTask, RaiseFlag, TypeOK
<1>7. CASE ClearInterrupt
  BY <1>0, <1>7 DEF ClearInterrupt, LowerFlag, TypeOK
<1>8. CASE Close
  BY <1>8 DEF Close, TypeOK
<1>9. CASE UNCHANGED vars
  BY <1>9 DEF vars, TypeOK
<1> QED BY <1>1, <1>2, <1>3, <1>4, <1>5, <1>6, <1>7, <1>8, <1>9 DEF Next

\* Every step keeps the other tasks out.
LEMMA StepExclusive == Exclusive /\ [Next]_vars => Exclusive'
<1> SUFFICES ASSUME Exclusive, [Next]_vars
             PROVE  OneTurnAtATime'
  BY StepType DEF Exclusive
<1> USE DEF TypeOK, OneTurnAtATime, Inside
<1>1. TypeOK /\ OneTurnAtATime
  BY DEF Exclusive
<1>2. ASSUME NEW c \in Tasks, Enter(c)
      PROVE  OneTurnAtATime'
  <2>1. \A d \in Tasks : at[d] = "out"
    BY <1>1, <1>2 DEF Enter, LoopIsFree
  <2> QED BY <1>1, <1>2, <2>1 DEF Enter
<1>3. ASSUME NEW c \in Tasks, TurnStep(c)
      PROVE  OneTurnAtATime'
  <2>1. /\ at[c] \in {"turn", "call"}
        /\ at' = at \/ \E place \in {"call", "ended"} : at' = [at EXCEPT ![c] = place]
        /\ UNCHANGED running
    BY <1>3 DEF TurnStep, CallModel, NoticeStop, Completes, Stops, Fails, FailsClosed, Raises, EndsAs
  <2> QED BY <1>1, <2>1
<1>4. ASSUME NEW c \in Tasks, LeavingStep(c)
      PROVE  OneTurnAtATime'
  <2>1. CASE Leave(c)
    BY <1>1, <2>1 DEF Leave
  <2>2. CASE ClearSignal(c)
    BY <1>1, <2>2 DEF ClearSignal
  <2>3. CASE EmitFinalEvent(c)
    BY <1>1, <2>3 DEF EmitFinalEvent
  <2> QED BY <1>4, <2>1, <2>2, <2>3 DEF LeavingStep
<1>5. CASE UNCHANGED <<at, running>>
  BY <1>1, <1>5
<1>6. ASSUME NEW t \in Threads, FindRunning(t) \/ SetSignal(t)
      PROVE  UNCHANGED <<at, running>>
  BY <1>6 DEF FindRunning, SetSignal
<1>7. InterruptFromTask \/ ClearInterrupt \/ Close \/ UNCHANGED vars => UNCHANGED <<at, running>>
  BY DEF InterruptFromTask, ClearInterrupt, Close, vars
<1> QED BY <1>2, <1>3, <1>4, <1>5, <1>6, <1>7 DEF Next

\* However many tasks call run_conversation on one agent, one at most is in a turn, and
\* the busy flag says so exactly, whatever way the turn ends.
THEOREM OneTurn == Spec => []OneTurnAtATime
<1>1. Exclusive => OneTurnAtATime
  BY DEF Exclusive
<1> QED BY <1>1, InitExclusive, StepExclusive, PTL DEF Spec

\* The agent's state is well formed in every execution.
THEOREM AgentTypeCorrect == Spec => []TypeOK
<1>1. Exclusive => TypeOK
  BY DEF Exclusive
<1> QED BY <1>1, InitExclusive, StepExclusive, PTL DEF Spec
-----------------------------------------------------------------------------
\* The agent starts with its flag down.
LEMMA InitInTime == Init => InTimeStopDies
BY DEF Init, InTimeStopDies

\* A flag that is up, and was raised in time, keeps its turn in the agent: the flag is
\* raised in time only inside the turn, and the turn lowers it on its way out.
LEMMA StepInTime ==
  Exclusive /\ InTimeStopDies /\ [Next]_vars => InTimeStopDies'
<1> SUFFICES ASSUME Exclusive, InTimeStopDies, [Next]_vars,
                    flag' /\ ~late'
             PROVE  aimedAt' = turn' /\ \E c \in Tasks : Inside(c)' \/ at'[c] = "clearing"
  BY DEF InTimeStopDies
<1>1. TypeOK /\ OneTurnAtATime
  BY DEF Exclusive
<1>2. ASSUME NEW c \in Tasks, Enter(c)
      PROVE  FALSE
  <2>1. \A d \in Tasks : at[d] = "out"
    BY <1>1, <1>2 DEF Enter, LoopIsFree, OneTurnAtATime, Inside, TypeOK
  <2>2. flag /\ ~late
    BY <1>2 DEF Enter
  <2> QED BY <2>1, <2>2 DEF InTimeStopDies, Inside
<1>3. ASSUME NEW c \in Tasks, TurnStep(c)
      PROVE  aimedAt' = turn' /\ Inside(c)'
  <2>1. /\ at[c] \in {"turn", "call"}
        /\ at' = at \/ \E place \in {"call", "ended"} : at' = [at EXCEPT ![c] = place]
        /\ UNCHANGED <<flag, late, aimedAt, turn>>
    BY <1>3 DEF TurnStep, CallModel, NoticeStop, Completes, Stops, Fails, FailsClosed, Raises, EndsAs
  <2> QED BY <1>1, <2>1 DEF InTimeStopDies, Inside, TypeOK
<1>4. ASSUME NEW c \in Tasks, Leave(c)
      PROVE  aimedAt' = turn' /\ at'[c] = "clearing"
  BY <1>1, <1>4 DEF Leave, InTimeStopDies, TypeOK
<1>5. ASSUME NEW c \in Tasks, ClearSignal(c)
      PROVE  FALSE
  BY <1>5 DEF ClearSignal, LowerFlag
<1>6. ASSUME NEW c \in Tasks, EmitFinalEvent(c)
      PROVE  FALSE
  <2>1. PICK d \in Tasks : Inside(d) \/ at[d] = "clearing"
    BY <1>6 DEF EmitFinalEvent, InTimeStopDies
  <2>2. at[c] = "emitting" /\ at[d] # "out" /\ at[d] # "emitting"
    BY <1>6, <2>1 DEF EmitFinalEvent, Inside
  <2> QED BY <1>1, <2>2 DEF OneTurnAtATime
<1>7. ASSUME NEW n, RaiseFlag(n), UNCHANGED <<at, running, turn>>
      PROVE  aimedAt' = turn' /\ \E c \in Tasks : Inside(c)' \/ at'[c] = "clearing"
  <2>1. running /\ turn = n
    BY <1>7 DEF RaiseFlag
  <2> QED BY <1>1, <1>7, <2>1 DEF RaiseFlag, OneTurnAtATime, Inside
<1>8. ASSUME NEW t \in Threads, SetSignal(t)
      PROVE  RaiseFlag(asking[t]) /\ UNCHANGED <<at, running, turn>>
  BY <1>8 DEF SetSignal
<1>9. CASE InterruptFromTask
  BY <1>7, <1>9 DEF InterruptFromTask
<1>10. CASE ClearInterrupt
  BY <1>10 DEF ClearInterrupt, LowerFlag
<1>11. ASSUME UNCHANGED <<at, flag, late, aimedAt, turn>>
       PROVE  aimedAt' = turn' /\ \E c \in Tasks : Inside(c)' \/ at'[c] = "clearing"
  BY <1>11 DEF InTimeStopDies, Inside
<1>12. ASSUME NEW t \in Threads, FindRunning(t)
       PROVE  UNCHANGED <<at, flag, late, aimedAt, turn>>
  BY <1>12 DEF FindRunning
<1>13. Close \/ UNCHANGED vars => UNCHANGED <<at, flag, late, aimedAt, turn>>
  BY DEF Close, vars
<1> QED
  BY <1>2, <1>3, <1>4, <1>5, <1>6, <1>7, <1>8, <1>9, <1>10, <1>11, <1>12, <1>13
  DEF Next, LeavingStep

\* Whoever stops a turn while it runs, and whatever way the turn ends, the request is
\* gone before another turn begins: a later turn can only notice a request that was
\* late, as the violation run shows it does.
THEOREM InTimeStopsDie == Spec => []InTimeStopDies
BY InitExclusive, StepExclusive, InitInTime, StepInTime, PTL DEF Spec
-----------------------------------------------------------------------------
\* A turn has its outcome when it ends and its report when it is given back: what is
\* known of them from where its task is.
TurnKnown ==
  /\ \A n \in Turns : n > turn => outcome[n] = "none" /\ reports[n] = {}
  /\ \A c \in Tasks : at[c] # "out" => turn \in Turns /\ reports[turn] = {}
  /\ \A c \in Tasks : at[c] \in {"turn", "call"} => outcome[turn] = "none"
  /\ \A c \in Tasks : at[c] \in {"ended", "clearing"} => outcome[turn] # "none"
  /\ \A c \in Tasks :
       at[c] = "emitting" => outcome[turn] \in {"completed", "stopped", "failed"}

ReportsKnown == TurnKnown /\ ReportsAreTrue

LEMMA InitReports == Init => ReportsKnown
<1> SUFFICES ASSUME Init
             PROVE  ReportsKnown
  OBVIOUS
<1>1. TurnKnown
  BY DEF Init, TurnKnown
<1>2. ReportsAreTrue
  BY MaxTurnsAssumption DEF Init, ReportsAreTrue, Over, Turns
<1> QED BY <1>1, <1>2 DEF ReportsKnown

\* A step that keeps the task where it is, and the turn's outcome and reports, keeps what
\* is known of them.
LEMMA ReportsFrame ==
  ASSUME ReportsKnown, UNCHANGED <<at, turn, outcome, reports>>
  PROVE  ReportsKnown'
BY DEF ReportsKnown, TurnKnown, ReportsAreTrue, Over

LEMMA EnterReports ==
  ASSUME Exclusive, ReportsKnown, NEW c \in Tasks, Enter(c)
  PROVE  ReportsKnown'
<1>1. /\ turn \in Nat /\ turn' = turn + 1 /\ turn' \in Turns
      /\ at' = [at EXCEPT ![c] = "turn"] /\ UNCHANGED <<outcome, reports>>
  BY MaxTurnsAssumption DEF Enter, Exclusive, TypeOK, Turns
<1>2. \A d \in Tasks : at[d] = "out"
  BY DEF Enter, LoopIsFree, Exclusive, OneTurnAtATime, Inside
<1>3. \A d \in Tasks : at'[d] \in {"out", "turn"}
  BY <1>1, <1>2 DEF Exclusive, TypeOK
<1>4. outcome[turn'] = "none" /\ reports[turn'] = {}
  BY <1>1 DEF ReportsKnown, TurnKnown
<1>5. TurnKnown'
  <2>1. \A n \in Turns : n > turn' => n > turn
    BY <1>1 DEF Turns
  <2> QED BY <1>1, <1>3, <1>4, <2>1 DEF ReportsKnown, TurnKnown
<1>6. ReportsAreTrue'
  <2>1. ASSUME NEW n \in Turns, Over(n)'
        PROVE  Over(n)
    <3>1. at'[c] # "out"
      BY <1>1 DEF Exclusive, TypeOK
    <3>2. n < turn + 1
      BY <1>1, <2>1, <3>1 DEF Over
    <3> QED BY <1>1, <1>2, <3>2 DEF Over, Turns
  <2> QED BY <1>1, <2>1 DEF ReportsKnown, ReportsAreTrue
<1> QED BY <1>5, <1>6 DEF ReportsKnown

LEMMA EndsReports ==
  ASSUME Exclusive, ReportsKnown, NEW c \in Tasks,
         NEW how \in {"completed", "stopped", "failed", "raised"}, EndsAs(c, how)
  PROVE  ReportsKnown'
<1>1. /\ at[c] \in {"turn", "call"} /\ at' = [at EXCEPT ![c] = "ended"]
      /\ outcome' = [outcome EXCEPT ![turn] = how] /\ UNCHANGED <<turn, reports>>
  BY DEF EndsAs
<1>2. turn \in Turns /\ turn \in Nat
  BY <1>1, MaxTurnsAssumption DEF ReportsKnown, TurnKnown, Exclusive, TypeOK
<1>3. \A d \in Tasks : d # c => at'[d] = "out"
  BY <1>1 DEF Exclusive, OneTurnAtATime, TypeOK
<1>4. at'[c] = "ended"
  BY <1>1 DEF Exclusive, TypeOK
<1>5. outcome'[turn] = how /\ \A n \in Turns : n # turn => outcome'[n] = outcome[n]
  BY <1>1, <1>2 DEF Exclusive, TypeOK
<1>6. reports[turn] = {}
  BY <1>1 DEF ReportsKnown, TurnKnown
<1>7. TurnKnown'
  <2>1. \A n \in Turns : n > turn => n # turn
    BY <1>2
  <2> QED BY <1>1, <1>2, <1>3, <1>4, <1>5, <1>6, <2>1 DEF ReportsKnown, TurnKnown
<1>8. ReportsAreTrue'
  <2>1. ~Over(turn)'
    BY <1>1, <1>2, <1>4 DEF Over
  <2>2. \A n \in Turns : Over(n)' => n # turn /\ Over(n)
    BY <1>1, <2>1 DEF Over
  <2> QED BY <1>1, <1>5, <1>6, <2>2 DEF ReportsKnown, ReportsAreTrue
<1> QED BY <1>7, <1>8 DEF ReportsKnown

\* On its way out the task keeps the turn's outcome, until it reports it.
LEMMA LeavingReports ==
  ASSUME Exclusive, ReportsKnown, NEW c \in Tasks, LeavingStep(c)
  PROVE  ReportsKnown'
<1>1. at[c] \in {"ended", "clearing", "emitting"} /\ UNCHANGED <<turn, outcome>>
  BY DEF LeavingStep, Leave, ClearSignal, EmitFinalEvent
<1>2. turn \in Turns /\ turn \in Nat /\ reports[turn] = {}
  BY <1>1, MaxTurnsAssumption DEF ReportsKnown, TurnKnown, Exclusive, TypeOK
<1>3. \A d \in Tasks : d # c => at[d] = "out"
  BY <1>1 DEF Exclusive, OneTurnAtATime
<1>4. \A n \in Turns : Over(n) <=> n < turn
  BY <1>1, <1>2 DEF Over, Turns
<1>5. outcome[turn] \in {"none", "completed", "stopped", "failed", "raised"}
  BY <1>2 DEF Exclusive, TypeOK
<1>6. CASE Leave(c) \/ ClearSignal(c)
  <2>1. /\ \A d \in Tasks : d # c => at'[d] = "out"
        /\ \/ at[c] = "ended" /\ at'[c] = "clearing"
           \/ at[c] = "clearing" /\ at'[c] = "out" /\ outcome[turn] = "raised"
           \/ at[c] = "clearing" /\ at'[c] = "emitting" /\ outcome[turn] # "raised"
        /\ UNCHANGED reports
    BY <1>3, <1>6 DEF Leave, ClearSignal, Exclusive, TypeOK
  <2>2. TurnKnown'
    BY <1>1, <1>2, <1>5, <2>1 DEF ReportsKnown, TurnKnown
  <2>3. \A n \in Turns : Over(n)' => Over(n) \/ (n = turn /\ outcome[turn] = "raised")
    BY <1>1, <1>2, <1>4, <2>1 DEF Over
  <2>4. ReportsAreTrue'
    BY <1>1, <2>1, <2>3 DEF ReportsKnown, ReportsAreTrue
  <2> QED BY <2>2, <2>4 DEF ReportsKnown
<1>7. CASE EmitFinalEvent(c)
  <2>1. /\ at[c] = "emitting" /\ \A d \in Tasks : at'[d] = "out"
        /\ reports' = [reports EXCEPT ![turn] = reports[turn] \cup {FinalEvent(outcome[turn])}]
    BY <1>3, <1>7 DEF EmitFinalEvent, Exclusive, TypeOK
  <2>2. /\ reports'[turn] = {FinalEvent(outcome[turn])}
        /\ \A n \in Turns : n # turn => reports'[n] = reports[n]
    BY <1>2, <2>1 DEF Exclusive, TypeOK
  <2>3. outcome[turn] \in {"completed", "stopped", "failed"}
    BY <2>1 DEF ReportsKnown, TurnKnown
  <2>4. /\ FinalEvent(outcome[turn]) = "RunCompleted" => outcome[turn] = "completed"
        /\ FinalEvent(outcome[turn]) = "RunStopped" => outcome[turn] = "stopped"
        /\ FinalEvent(outcome[turn]) = "RunFailed" => outcome[turn] = "failed"
    BY <2>3 DEF FinalEvent
  <2>5. TurnKnown'
    <3>1. \A n \in Turns : n > turn => n # turn
      BY <1>2
    <3> QED BY <1>1, <2>1, <2>2, <3>1 DEF ReportsKnown, TurnKnown
  <2>6. ReportsAreTrue'
    <3>1. \A n \in Turns : n # turn /\ Over(n)' => Over(n)
      BY <1>1 DEF Over
    <3> QED BY <1>1, <2>2, <2>4, <3>1 DEF ReportsKnown, ReportsAreTrue
  <2> QED BY <2>5, <2>6 DEF ReportsKnown
<1> QED BY <1>6, <1>7 DEF LeavingStep

\* Within the turn nothing is known yet.
LEMMA TurnStepReports ==
  ASSUME Exclusive, ReportsKnown, NEW c \in Tasks, TurnStep(c)
  PROVE  ReportsKnown'
<1>1. CASE CallModel(c)
  <2>1. /\ at[c] \in {"turn", "call"} /\ at' = [at EXCEPT ![c] = "call"]
        /\ UNCHANGED <<turn, outcome, reports>>
    BY <1>1 DEF CallModel
  <2>2. /\ at'[c] = "call" /\ \A d \in Tasks : d # c => at'[d] = at[d]
    BY <2>1 DEF Exclusive, TypeOK
  <2>3. TurnKnown'
    BY <2>1, <2>2 DEF ReportsKnown, TurnKnown
  <2>4. \A n \in Turns : Over(n)' => Over(n)
    BY <2>1, <2>2 DEF Over
  <2> QED BY <2>1, <2>3, <2>4 DEF ReportsKnown, ReportsAreTrue
<1>2. CASE NoticeStop(c)
  BY <1>2, ReportsFrame DEF NoticeStop
<1> QED BY <1>1, <1>2, EndsReports DEF TurnStep, Completes, Stops, Fails, FailsClosed, Raises

LEMMA StepReports == Exclusive /\ ReportsKnown /\ [Next]_vars => ReportsKnown'
<1> SUFFICES ASSUME Exclusive, ReportsKnown, [Next]_vars
             PROVE  ReportsKnown'
  OBVIOUS
<1>1. ASSUME NEW t \in Threads, FindRunning(t) \/ SetSignal(t)
      PROVE  ReportsKnown'
  BY <1>1, ReportsFrame DEF FindRunning, SetSignal
<1>2. CASE InterruptFromTask \/ ClearInterrupt \/ Close \/ UNCHANGED vars
  BY <1>2, ReportsFrame DEF InterruptFromTask, ClearInterrupt, Close, vars
<1> QED BY EnterReports, TurnStepReports, LeavingReports, <1>1, <1>2, Zenon DEF Next

\* Every turn that ends with a result is reported as what it was, once, before the agent
\* is given back; a running one is not.
THEOREM ReportsTrue == Spec => []ReportsAreTrue
<1>1. ReportsKnown => ReportsAreTrue
  BY DEF ReportsKnown
<1> QED BY <1>1, InitExclusive, StepExclusive, InitReports, StepReports, PTL DEF Spec
=============================================================================
