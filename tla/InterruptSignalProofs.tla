------------------------- MODULE InterruptSignalProofs -------------------------
(***************************************************************************)
(* InterruptSignal loses no wake-up, forgets no waiter and implements      *)
(* StopSignal, for any number of tasks, threads and waits.                 *)
(***************************************************************************)
EXTENDS InterruptSignal, TLAPS

\* A wake-up of w's current wait is queued, at its loop or in a thread.
Called(w) == Waiter(w) \in posted \/ \E t \in Threads : Waiter(w) \in todo[t]

\* Nothing is registered or queued for a wait that has not begun.
Numbered ==
  /\ \A x \in waiters \cup posted : x[2] <= count[x[1]]
  /\ \A t \in Threads : \A x \in todo[t] : x[2] <= count[x[1]]

WaitingPlaces == {"entered", "registering", "checking", "waiting", "woken"}

\* A wait has its verdict once it is on its way out.
VerdictsMatch == \A w \in Tasks : verdict[w] = "waiting" <=> at[w] \in WaitingPlaces

\* Whatever may end a wait as stopped is evidence of a stop during the wait.
StopsAreSeen ==
  \A w \in Tasks :
    verdict[w] = "waiting" /\ (flag \/ at[w] = "woken" \/ Called(w)) => seen[w]

\* A coroutine sleeps only if it once found the flag down.
SleepsUnheld ==
  /\ \A w \in Tasks : at[w] \in {"waiting", "woken"} => ~held[w]
  /\ ~flag => \A w \in Tasks : ~held[w]

LockMeansFlag == lock # NoThread => flag

\* A wait that is under way has its number.
Begun == \A w \in Tasks : at[w] \in WaitingPlaces => count[w] >= 1

\* The inductive invariant.
SInv ==
  /\ TypeOK
  /\ WaitersAreExact
  /\ NoLostWakeUp
  /\ Numbered
  /\ VerdictsMatch
  /\ StopsAreSeen
  /\ SleepsUnheld
  /\ LockMeansFlag
  /\ Begun
-----------------------------------------------------------------------------

\* Nothing has begun.
LEMMA InitSInv == Init => SInv
<1> SUFFICES ASSUME Init PROVE SInv
  OBVIOUS
<1>1. TypeOK
  <2>1. /\ flag \in BOOLEAN
        /\ lock \in Threads \cup {NoThread}
        /\ waiters \subseteq WaiterIds
        /\ posted \subseteq WaiterIds
        /\ todo \in [Threads -> SUBSET WaiterIds]
    BY DEF Init
  <2>2. /\ at \in [Tasks -> Places]
        /\ count \in [Tasks -> 0 .. MaxWaits]
    BY MaxWaitsAssumption DEF Init, Places
  <2>3. /\ timed \in [Tasks -> BOOLEAN]
        /\ verdict \in [Tasks -> {"none", "waiting", "stopped", "elapsed", "cancelled"}]
        /\ seen \in [Tasks -> BOOLEAN]
        /\ held \in [Tasks -> BOOLEAN]
    BY DEF Init
  <2>. QED
    BY <2>1, <2>2, <2>3 DEF TypeOK
<1>2. WaitersAreExact
  <2>1. {v \in Tasks : at[v] \in {"checking", "waiting", "woken", "leaving"}} = {}
    BY DEF Init
  <2>. QED
    BY <2>1 DEF Init, WaitersAreExact
<1>3. NoLostWakeUp /\ Numbered /\ LockMeansFlag
  BY ThreadsAssumption DEF Init, NoLostWakeUp, Numbered, LockMeansFlag
<1>4. VerdictsMatch /\ StopsAreSeen /\ SleepsUnheld /\ Begun
  BY DEF Init, VerdictsMatch, StopsAreSeen, SleepsUnheld, Begun, WaitingPlaces
<1>. QED
  BY <1>1, <1>2, <1>3, <1>4 DEF SInv

\* Every step keeps the types.
LEMMA TypeStep ==
  ASSUME TypeOK, Begun, [Next]_vars
  PROVE  TypeOK'
<1> USE DEF TypeOK, Begun, WaitingPlaces, Places, WaiterIds, vars, signalVars,
            historyVars, Waiter
<1>1. ASSUME NEW t \in Threads, Raise(t)
      PROVE  TypeOK'
  BY <1>1 DEF Raise
<1>2. ASSUME NEW t \in Threads, Collect(t)
      PROVE  TypeOK'
  BY <1>2 DEF Collect
<1>3. ASSUME NEW t \in Threads, NEW x \in todo[t], Notify(t, x)
      PROVE  TypeOK'
  BY <1>3 DEF Notify
<1>4. ASSUME NEW w \in Tasks, Enter(w)
      PROVE  TypeOK'
  BY <1>4, MaxWaitsAssumption DEF Enter
<1>5. ASSUME NEW w \in Tasks, Register(w)
      PROVE  TypeOK'
  BY <1>5 DEF Register
<1>6. ASSUME NEW w \in Tasks, CloseLoop(w)
      PROVE  TypeOK'
  BY <1>6 DEF CloseLoop
<1>7. ASSUME NEW w \in Tasks, FirstCheck(w) \/ SecondCheck(w) \/ Resume(w) \/ Expire(w)
             \/ Cancel(w) \/ Leave(w) \/ Return(w)
      PROVE  TypeOK'
  BY <1>7 DEF FirstCheck, EndAs, Proceed, SecondCheck, Resume, Expire, Cancel, Leave,
     Return
<1>8. ASSUME NEW x \in posted, Deliver(x)
      PROVE  TypeOK'
  BY <1>8 DEF Deliver
<1>9. CASE Clear \/ UNCHANGED vars
  BY <1>9 DEF Clear
<1>. QED
  BY <1>1, <1>2, <1>3, <1>4, <1>5, <1>6, <1>7, <1>8, <1>9 DEF Next, SetStep, WaitStep,
     CodeStep

\* Every step keeps the registry exact: only a wait changes its own entry.
LEMMA ExactStep ==
  ASSUME TypeOK, WaitersAreExact, [Next]_vars
  PROVE  WaitersAreExact'
<1> USE DEF TypeOK, WaitersAreExact, Places, WaiterIds, vars, signalVars, historyVars,
            Waiter
<1>1. ASSUME NEW t \in Threads,
             Raise(t) \/ Collect(t) \/ \E x \in todo[t] : Notify(t, x)
      PROVE  WaitersAreExact'
  BY <1>1 DEF Raise, Collect, Notify
<1>2. ASSUME NEW w \in Tasks, Enter(w)
      PROVE  WaitersAreExact'
  BY <1>2 DEF Enter
<1>3. ASSUME NEW w \in Tasks, Register(w)
      PROVE  WaitersAreExact'
  BY <1>3 DEF Register
<1>4. ASSUME NEW w \in Tasks, SecondCheck(w)
      PROVE  WaitersAreExact'
  BY <1>4 DEF SecondCheck, EndAs, Proceed
<1>5. ASSUME NEW w \in Tasks, Leave(w)
      PROVE  WaitersAreExact'
  BY <1>5 DEF Leave
<1>6. ASSUME NEW w \in Tasks, CloseLoop(w)
      PROVE  WaitersAreExact'
  BY <1>6 DEF CloseLoop
<1>7. ASSUME NEW w \in Tasks, FirstCheck(w) \/ Resume(w) \/ Expire(w) \/ Cancel(w) \/
             Return(w)
      PROVE  WaitersAreExact'
  BY <1>7 DEF FirstCheck, EndAs, Proceed, Resume, Expire, Cancel, Return
<1>8. ASSUME NEW x \in posted, Deliver(x)
      PROVE  WaitersAreExact'
  BY <1>8 DEF Deliver
<1>9. CASE Clear \/ UNCHANGED vars
  BY <1>9 DEF Clear
<1>. QED
  BY <1>1, <1>2, <1>3, <1>4, <1>5, <1>6, <1>7, <1>8, <1>9 DEF Next, SetStep, WaitStep,
     CodeStep

\* Nothing is queued for a wait to come.
LEMMA NumberedStep ==
  ASSUME TypeOK, WaitersAreExact, Numbered, [Next]_vars
  PROVE  Numbered'
<1> USE DEF TypeOK, WaitersAreExact, Numbered, Places, WaiterIds, vars, signalVars,
            historyVars, Waiter
<1>1. ASSUME NEW t \in Threads, Collect(t)
      PROVE  Numbered'
  BY <1>1 DEF Collect
<1>2. ASSUME NEW t \in Threads, NEW x \in todo[t], Notify(t, x)
      PROVE  Numbered'
  BY <1>2 DEF Notify
<1>3. ASSUME NEW t \in Threads, Raise(t)
      PROVE  Numbered'
  BY <1>3 DEF Raise
<1>4. ASSUME NEW w \in Tasks, Enter(w)
      PROVE  Numbered'
  BY <1>4 DEF Enter
<1>5. ASSUME NEW w \in Tasks, Register(w)
      PROVE  Numbered'
  BY <1>5 DEF Register
<1>6. ASSUME NEW w \in Tasks, Leave(w)
      PROVE  Numbered'
  BY <1>6 DEF Leave
<1>7. ASSUME NEW w \in Tasks, CloseLoop(w)
      PROVE  Numbered'
  BY <1>7 DEF CloseLoop
<1>8. ASSUME NEW w \in Tasks, FirstCheck(w) \/ SecondCheck(w) \/ Resume(w) \/ Expire(w)
             \/ Cancel(w) \/ Return(w)
      PROVE  Numbered'
  BY <1>8 DEF FirstCheck, EndAs, Proceed, SecondCheck, Resume, Expire, Cancel, Return
<1>9. ASSUME NEW x \in posted, Deliver(x)
      PROVE  Numbered'
  BY <1>9 DEF Deliver
<1>10. CASE Clear \/ UNCHANGED vars
  BY <1>10 DEF Clear
<1>. QED
  BY <1>1, <1>2, <1>3, <1>4, <1>5, <1>6, <1>7, <1>8, <1>9, <1>10 DEF Next, SetStep,
     WaitStep, CodeStep

\* A wait keeps its verdict open for as long as it is under way.
LEMMA VerdictStep ==
  ASSUME TypeOK, VerdictsMatch, [Next]_vars
  PROVE  VerdictsMatch'
<1> USE DEF TypeOK, VerdictsMatch, WaitingPlaces, Places, vars, signalVars, historyVars,
            Waiter
<1>1. ASSUME NEW t \in Threads,
             Raise(t) \/ Collect(t) \/ \E x \in todo[t] : Notify(t, x)
      PROVE  VerdictsMatch'
  BY <1>1 DEF Raise, Collect, Notify
<1>2. ASSUME NEW w \in Tasks, Enter(w)
      PROVE  VerdictsMatch'
  BY <1>2 DEF Enter
<1>3. ASSUME NEW w \in Tasks, FirstCheck(w)
      PROVE  VerdictsMatch'
  BY <1>3 DEF FirstCheck, EndAs, Proceed
<1>4. ASSUME NEW w \in Tasks, SecondCheck(w)
      PROVE  VerdictsMatch'
  BY <1>4 DEF SecondCheck, EndAs, Proceed
<1>5. ASSUME NEW w \in Tasks, Register(w) \/ Resume(w) \/ Expire(w) \/ Cancel(w) \/
             Leave(w) \/ Return(w) \/ CloseLoop(w)
      PROVE  VerdictsMatch'
  BY <1>5 DEF Register, Resume, EndAs, Expire, Cancel, Leave, Return, Proceed, CloseLoop
<1>6. ASSUME NEW x \in posted, Deliver(x)
      PROVE  VerdictsMatch'
  BY <1>6 DEF Deliver
<1>7. CASE Clear \/ UNCHANGED vars
  BY <1>7 DEF Clear
<1>. QED
  BY <1>1, <1>2, <1>3, <1>4, <1>5, <1>6, <1>7 DEF Next, SetStep, WaitStep, CodeStep

\* Only a set holds the lock over a step.
LEMMA LockStep ==
  ASSUME TypeOK, LockMeansFlag, [Next]_vars
  PROVE  LockMeansFlag'
<1> USE DEF TypeOK, LockMeansFlag, vars, signalVars, historyVars, Waiter
<1>1. ASSUME NEW t \in Threads, Raise(t)
      PROVE  LockMeansFlag'
  BY <1>1 DEF Raise
<1>2. ASSUME NEW t \in Threads, Collect(t) \/ \E x \in todo[t] : Notify(t, x)
      PROVE  LockMeansFlag'
  BY <1>2 DEF Collect, Notify
<1>3. ASSUME NEW w \in Tasks, Enter(w) \/ FirstCheck(w) \/ Register(w) \/ SecondCheck(w)
             \/ Resume(w) \/ Expire(w) \/ Cancel(w) \/ Leave(w) \/ Return(w) \/
             CloseLoop(w)
      PROVE  LockMeansFlag'
  BY <1>3 DEF Enter, FirstCheck, EndAs, Proceed, Register, SecondCheck, Resume, Expire,
     Cancel, Leave, Return, CloseLoop
<1>4. ASSUME NEW x \in posted, Deliver(x)
      PROVE  LockMeansFlag'
  BY <1>4 DEF Deliver
<1>5. CASE Clear
  BY <1>5 DEF Clear
<1>6. CASE UNCHANGED vars
  BY <1>6
<1>. QED
  BY <1>1, <1>2, <1>3, <1>4, <1>5, <1>6 DEF Next, SetStep, WaitStep, CodeStep

\* A wait under way keeps its number.
LEMMA BegunStep ==
  ASSUME TypeOK, Begun, [Next]_vars
  PROVE  Begun'
<1> USE DEF TypeOK, Begun, WaitingPlaces, Places, vars, signalVars, historyVars, Waiter
<1>1. ASSUME NEW t \in Threads,
             Raise(t) \/ Collect(t) \/ \E x \in todo[t] : Notify(t, x)
      PROVE  Begun'
  BY <1>1 DEF Raise, Collect, Notify
<1>2. ASSUME NEW w \in Tasks, Enter(w)
      PROVE  Begun'
  BY <1>2 DEF Enter
<1>3. ASSUME NEW w \in Tasks, FirstCheck(w) \/ Register(w) \/ SecondCheck(w) \/
             Resume(w) \/ Expire(w) \/ Cancel(w) \/ Leave(w) \/ Return(w) \/
             CloseLoop(w)
      PROVE  Begun'
  BY <1>3 DEF FirstCheck, EndAs, Proceed, Register, SecondCheck, Resume, Expire, Cancel,
     Leave, Return, CloseLoop
<1>4. ASSUME NEW x \in posted, Deliver(x)
      PROVE  Begun'
  BY <1>4 DEF Deliver
<1>5. CASE Clear \/ UNCHANGED vars
  BY <1>5 DEF Clear
<1>. QED
  BY <1>1, <1>2, <1>3, <1>4, <1>5 DEF Next, SetStep, WaitStep, CodeStep

\* A sleeper keeps having found the flag down.
LEMMA UnheldStep ==
  ASSUME TypeOK, SleepsUnheld, LockMeansFlag, [Next]_vars
  PROVE  SleepsUnheld'
<1> USE DEF TypeOK, SleepsUnheld, LockMeansFlag, vars, signalVars, historyVars, Waiter
<1>1. ASSUME NEW t \in Threads, Raise(t)
      PROVE  SleepsUnheld'
  BY <1>1 DEF Raise
<1>2. ASSUME NEW t \in Threads, Collect(t) \/ \E x \in todo[t] : Notify(t, x)
      PROVE  SleepsUnheld'
  BY <1>2 DEF Collect, Notify
<1>3. ASSUME NEW w \in Tasks, Enter(w)
      PROVE  SleepsUnheld'
  BY <1>3 DEF Enter
<1>4. ASSUME NEW w \in Tasks, SecondCheck(w)
      PROVE  SleepsUnheld'
  BY <1>4 DEF SecondCheck, EndAs, Proceed
<1>5. ASSUME NEW w \in Tasks, FirstCheck(w) \/ Register(w) \/ Resume(w) \/ Expire(w) \/
             Cancel(w) \/ Leave(w) \/ Return(w) \/ CloseLoop(w)
      PROVE  SleepsUnheld'
  BY <1>5 DEF FirstCheck, EndAs, Proceed, Register, Resume, Expire, Cancel, Leave,
     Return, CloseLoop
<1>6. ASSUME NEW x \in posted, Deliver(x)
      PROVE  SleepsUnheld'
  BY <1>6 DEF Deliver
<1>7. CASE Clear
  BY <1>7 DEF Clear
<1>8. CASE UNCHANGED vars
  BY <1>8
<1>. QED
  BY <1>1, <1>2, <1>3, <1>4, <1>5, <1>6, <1>7, <1>8 DEF Next, SetStep, WaitStep,
     CodeStep

\* Evidence of a stop is evidence for the wait it was gathered in only.
LEMMA SeenStep ==
  ASSUME TypeOK, WaitersAreExact, Numbered, VerdictsMatch, StopsAreSeen, LockMeansFlag,
         [Next]_vars
  PROVE  StopsAreSeen'
<1> USE DEF TypeOK, WaitersAreExact, Numbered, VerdictsMatch, StopsAreSeen,
            LockMeansFlag, Called, WaitingPlaces, WaiterIds, vars, signalVars,
            historyVars, Waiter
<1>1. ASSUME NEW t \in Threads, Raise(t)
      PROVE  StopsAreSeen'
  BY <1>1, ThreadsAssumption DEF Raise
<1>2. ASSUME NEW t \in Threads, Collect(t)
      PROVE  StopsAreSeen'
  BY <1>2, ThreadsAssumption DEF Collect
<1>3. ASSUME NEW t \in Threads, NEW x \in todo[t], Notify(t, x)
      PROVE  StopsAreSeen'
  BY <1>3 DEF Notify
<1>4. ASSUME NEW w \in Tasks, Enter(w)
      PROVE  StopsAreSeen'
  BY <1>4 DEF Enter
<1>5. ASSUME NEW w \in Tasks, Register(w)
      PROVE  StopsAreSeen'
  BY <1>5 DEF Register
<1>6. ASSUME NEW w \in Tasks, SecondCheck(w)
      PROVE  StopsAreSeen'
  BY <1>6 DEF SecondCheck, EndAs, Proceed
<1>7. ASSUME NEW w \in Tasks, CloseLoop(w)
      PROVE  StopsAreSeen'
  BY <1>7 DEF CloseLoop
<1>8. ASSUME NEW w \in Tasks, FirstCheck(w) \/ Resume(w) \/ Expire(w) \/ Cancel(w) \/
             Leave(w) \/ Return(w)
      PROVE  StopsAreSeen'
  BY <1>8 DEF FirstCheck, EndAs, Proceed, Resume, Expire, Cancel, Leave, Return
<1>9. ASSUME NEW x \in posted, Deliver(x)
      PROVE  StopsAreSeen'
  BY <1>9 DEF Deliver
<1>10. CASE Clear
  BY <1>10 DEF Clear
<1>11. CASE UNCHANGED vars
  BY <1>11
<1>. QED
  BY <1>1, <1>2, <1>3, <1>4, <1>5, <1>6, <1>7, <1>8, <1>9, <1>10, <1>11 DEF Next,
     SetStep, WaitStep, CodeStep

\* No step loses a wake-up: set collects every waiter that is asleep.
LEMMA WakeUpStep ==
  ASSUME TypeOK, WaitersAreExact, Numbered, NoLostWakeUp, [Next]_vars
  PROVE  NoLostWakeUp'
<1> USE DEF TypeOK, WaitersAreExact, Numbered, NoLostWakeUp, WakeUpPending, WaiterIds,
            vars, signalVars, historyVars, Waiter
<1>1. ASSUME NEW t \in Threads, Raise(t)
      PROVE  NoLostWakeUp'
  BY <1>1, ThreadsAssumption DEF Raise
<1>2. ASSUME NEW t \in Threads, Collect(t)
      PROVE  NoLostWakeUp'
  BY <1>2, ThreadsAssumption DEF Collect
<1>3. ASSUME NEW t \in Threads, NEW x \in todo[t], Notify(t, x)
      PROVE  NoLostWakeUp'
  BY <1>3 DEF Notify
<1>4. ASSUME NEW w \in Tasks, Enter(w)
      PROVE  NoLostWakeUp'
  BY <1>4 DEF Enter
<1>5. ASSUME NEW w \in Tasks, SecondCheck(w)
      PROVE  NoLostWakeUp'
  BY <1>5 DEF SecondCheck, EndAs, Proceed
<1>6. ASSUME NEW w \in Tasks, CloseLoop(w)
      PROVE  NoLostWakeUp'
  BY <1>6 DEF CloseLoop
<1>7. ASSUME NEW w \in Tasks, FirstCheck(w) \/ Register(w) \/ Resume(w) \/ Expire(w) \/
             Cancel(w) \/ Leave(w) \/ Return(w)
      PROVE  NoLostWakeUp'
  BY <1>7 DEF FirstCheck, EndAs, Proceed, Register, Resume, Expire, Cancel, Leave,
     Return
<1>8. ASSUME NEW x \in posted, Deliver(x)
      PROVE  NoLostWakeUp'
  BY <1>8 DEF Deliver
<1>9. CASE Clear
  BY <1>9 DEF Clear
<1>10. CASE UNCHANGED vars
  BY <1>10
<1>. QED
  BY <1>1, <1>2, <1>3, <1>4, <1>5, <1>6, <1>7, <1>8, <1>9, <1>10 DEF Next, SetStep,
     WaitStep, CodeStep

\* The inductive invariant is one.
LEMMA SignalInvariance == Spec => []SInv
<1>1. SInv /\ [Next]_vars => SInv'
  BY TypeStep, ExactStep, NumberedStep, VerdictStep, LockStep, BegunStep, UnheldStep, SeenStep,
     WakeUpStep DEF SInv
<1>. QED
  BY InitSInv, <1>1, PTL DEF Spec

\* The signal's state is well formed in every execution.
THEOREM SignalTypeCorrect == Spec => []TypeOK
<1>1. SInv => TypeOK
  BY DEF SInv
<1>. QED
  BY SignalInvariance, <1>1, PTL

\* Whatever order its two checks, the registration and any number of set and clear
\* come in, no wait sleeps through a stop.
THEOREM NoWakeUpIsLost == Spec => []NoLostWakeUp
<1>1. SInv => NoLostWakeUp
  BY DEF SInv
<1>. QED
  BY SignalInvariance, <1>1, PTL

\* The waits that are under way are the ones set knows of.
THEOREM RegistryIsExact == Spec => []WaitersAreExact
<1>1. SInv => WaitersAreExact
  BY DEF SInv
<1>. QED
  BY SignalInvariance, <1>1, PTL
-----------------------------------------------------------------------------
\* The refinement.

\* A step of the signal is a step of the promise or leaves its variables alone.
LEMMA PromiseStep ==
  ASSUME SInv, [Next]_vars
  PROVE  [Promise!Next]_(Promise!vars)
<1> USE DEF SInv, Promise!vars, vars, signalVars, historyVars
<1>1. CASE \E t \in Threads : Raise(t)
  BY <1>1 DEF Raise, Promise!Next, Promise!Request, Promise!Waiting
<1>2. CASE Clear
  BY <1>2 DEF Clear, Promise!Next, Promise!Withdraw
<1>3. CASE \E w \in Tasks : Enter(w)
  <2>1. PICK w \in Tasks : Enter(w)
    BY <1>3
  <2>2. Promise!Begin(w)
    BY <2>1 DEF Enter, Promise!Begin, Promise!Waiting, VerdictsMatch, WaitingPlaces
  <2>. QED
    BY <2>2 DEF Promise!Next
<1>4. ASSUME NEW w \in Tasks, FirstCheck(w) \/ SecondCheck(w)
      PROVE  [Promise!Next]_(Promise!vars)
  <2>1. CASE flag
    <3>1. Promise!End(w, "stopped")
      BY <1>4, <2>1 DEF FirstCheck, SecondCheck, EndAs, Promise!End, Promise!Waiting,
         VerdictsMatch, WaitingPlaces, StopsAreSeen
    <3>. QED
      BY <3>1 DEF Promise!Next
  <2>2. CASE ~flag
    BY <1>4, <2>2 DEF FirstCheck, SecondCheck, Proceed
  <2>. QED
    BY <2>1, <2>2
<1>5. ASSUME NEW w \in Tasks, Resume(w)
      PROVE  [Promise!Next]_(Promise!vars)
  <2>1. Promise!End(w, "stopped")
    BY <1>5 DEF Resume, EndAs, Promise!End, Promise!Waiting, VerdictsMatch, WaitingPlaces,
       StopsAreSeen
  <2>. QED
    BY <2>1 DEF Promise!Next
<1>6. ASSUME NEW w \in Tasks, Expire(w)
      PROVE  [Promise!Next]_(Promise!vars)
  <2>1. Promise!End(w, "elapsed")
    BY <1>6 DEF Expire, EndAs, Promise!End, Promise!Waiting, VerdictsMatch, WaitingPlaces,
       SleepsUnheld
  <2>. QED
    BY <2>1 DEF Promise!Next
<1>7. ASSUME NEW w \in Tasks, Cancel(w)
      PROVE  [Promise!Next]_(Promise!vars)
  <2>1. Promise!End(w, "cancelled")
    BY <1>7 DEF Cancel, EndAs, Promise!End, Promise!Waiting, VerdictsMatch, WaitingPlaces
  <2>. QED
    BY <2>1 DEF Promise!Next
<1>8. ASSUME NEW t \in Threads, Collect(t) \/ \E x \in todo[t] : Notify(t, x)
      PROVE  [Promise!Next]_(Promise!vars)
  BY <1>8 DEF Collect, Notify
<1>9. ASSUME NEW w \in Tasks, Register(w) \/ Leave(w) \/ Return(w) \/ CloseLoop(w)
      PROVE  [Promise!Next]_(Promise!vars)
  BY <1>9 DEF Register, Leave, Return, CloseLoop, Proceed
<1>10. ASSUME NEW x \in posted, Deliver(x)
       PROVE  [Promise!Next]_(Promise!vars)
  BY <1>10 DEF Deliver
<1>11. CASE UNCHANGED vars
  BY <1>11
<1>. QED
  BY <1>1, <1>2, <1>3, <1>4, <1>5, <1>6, <1>7, <1>8, <1>9, <1>10, <1>11
  DEF Next, SetStep, WaitStep, CodeStep

\* InterruptSignal implements StopSignal: a wait reports a stop only if there was one
\* while it lasted, and a timeout only if none stood all the while.
THEOREM SignalKeepsPromise == Spec => KeepsPromise
<1>1. Init => Promise!Init
  BY DEF Init, Promise!Init
<1>2. SInv /\ [Next]_vars => [Promise!Next]_(Promise!vars)
  BY PromiseStep
<1>. QED
  BY <1>1, <1>2, SignalInvariance, PTL DEF Spec, KeepsPromise, Promise!Spec
==============================================================================
