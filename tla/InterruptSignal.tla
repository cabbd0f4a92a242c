--------------------------- MODULE InterruptSignal ---------------------------
(***************************************************************************)
(* interrupt.py: a stop request that any thread may set or withdraw while  *)
(* coroutines, each on its own event loop, wait for it.                    *)
(*                                                                         *)
(* The flag is read without the lock, so a wait reads it twice: before and *)
(* after it registers.  One action is one access to what threads share.    *)
(***************************************************************************)
EXTENDS Naturals

CONSTANTS
  Tasks,    \* tasks that wait, each on a loop of its own
  Threads,  \* threads that call set and clear
  NoThread, \* nobody holds the lock
  MaxWaits  \* bound of the model: waits per task

ASSUME ThreadsAssumption == NoThread \notin Threads
ASSUME MaxWaitsAssumption == MaxWaits \in Nat

VARIABLES
  flag,     \* _flag
  lock,     \* the thread between the two steps of set, or NoThread
  waiters,  \* _waiters
  todo,     \* per thread: the waiters its set has yet to wake
  posted,   \* waiters whose event.set is queued on their loop
  at,       \* per task: "idle", "entered", "registering", "checking", "waiting", "woken",
            \* "leaving" or "returning" the verdict; "closed" when its loop is
  timed,    \* per task: its wait has a timeout
  count,    \* per task: waits begun
  verdict,  \* per task: what its last wait returned, or "waiting"
  seen,     \* history variable, per task: a stop was requested at some time in its wait
  held      \* history variable, per task: a stop was requested all through its wait

signalVars == <<flag, lock, waiters, todo, posted>>
historyVars == <<seen, held>>
vars == <<signalVars, at, timed, count, verdict, historyVars>>

\* Mutant of Waiter: one event per task, used for all its waits.
WaiterOfTask(w) == <<w, 1>>

\* A wait registers an event of its own: here, the task and the wait's number.
Waiter(w) == <<w, count[w]>>

Init ==
  /\ flag = FALSE
  /\ lock = NoThread
  /\ waiters = {}
  /\ todo = [t \in Threads |-> {}]
  /\ posted = {}
  /\ at = [w \in Tasks |-> "idle"]
  /\ timed = [w \in Tasks |-> FALSE]
  /\ count = [w \in Tasks |-> 0]
  /\ verdict = [w \in Tasks |-> "none"]
  /\ seen = [w \in Tasks |-> FALSE]
  /\ held = [w \in Tasks |-> FALSE]
-----------------------------------------------------------------------------
\* set and clear.

Raise(t) ==
  /\ lock = NoThread
  /\ todo[t] = {}
  /\ lock' = t
  /\ flag' = TRUE
  /\ seen' = [w \in Tasks |-> seen[w] \/ verdict[w] = "waiting"]
  /\ UNCHANGED <<waiters, todo, posted, at, timed, count, verdict, held>>

\* The waiters registered by now are copied and the lock is released.
Collect(t) ==
  /\ lock = t
  /\ todo' = [todo EXCEPT ![t] = waiters]
  /\ lock' = NoThread
  /\ UNCHANGED <<flag, waiters, posted, at, timed, count, verdict, historyVars>>

\* Mutant of Notify: a closed loop ends the round of notifications.
NotifyUntilClosed(t, x) ==
  /\ x \in todo[t]
  /\ todo' = [todo EXCEPT ![t] = IF at[x[1]] = "closed" THEN {} ELSE @ \ {x}]
  /\ posted' = IF at[x[1]] = "closed" THEN posted ELSE posted \cup {x}
  /\ UNCHANGED <<flag, lock, waiters, at, timed, count, verdict, historyVars>>

\* call_soon_threadsafe, in no particular order: a closed loop raises RuntimeError,
\* which is suppressed.
Notify(t, x) ==
  /\ x \in todo[t]
  /\ todo' = [todo EXCEPT ![t] = @ \ {x}]
  /\ posted' = IF at[x[1]] = "closed" THEN posted ELSE posted \cup {x}
  /\ UNCHANGED <<flag, lock, waiters, at, timed, count, verdict, historyVars>>

Clear ==
  /\ lock = NoThread
  /\ flag
  /\ flag' = FALSE
  /\ held' = [w \in Tasks |-> FALSE]
  /\ UNCHANGED <<lock, waiters, todo, posted, at, timed, count, verdict, seen>>
-----------------------------------------------------------------------------
\* wait.

Enter(w) ==
  /\ at[w] = "idle"
  /\ count[w] < MaxWaits
  /\ at' = [at EXCEPT ![w] = "entered"]
  /\ \E b \in BOOLEAN : timed' = [timed EXCEPT ![w] = b]
  /\ count' = [count EXCEPT ![w] = @ + 1]
  /\ verdict' = [verdict EXCEPT ![w] = "waiting"]
  /\ seen' = [seen EXCEPT ![w] = flag]
  /\ held' = [held EXCEPT ![w] = flag]
  /\ UNCHANGED signalVars

EndAs(w, how, next) ==
  /\ verdict' = [verdict EXCEPT ![w] = how]
  /\ at' = [at EXCEPT ![w] = next]
  /\ UNCHANGED <<signalVars, timed, count, historyVars>>

Proceed(w, next) ==
  /\ at' = [at EXCEPT ![w] = next]
  /\ UNCHANGED <<signalVars, timed, count, verdict, historyVars>>

FirstCheck(w) ==
  /\ at[w] = "entered"
  /\ IF flag THEN EndAs(w, "stopped", "returning") ELSE Proceed(w, "registering")

\* Mutant of Register: the tuple of the next wait is registered.
RegisterNext(w) ==
  /\ at[w] = "registering"
  /\ lock = NoThread
  /\ waiters' = waiters \cup {<<w, count[w] + 1>>}
  /\ at' = [at EXCEPT ![w] = "checking"]
  /\ UNCHANGED <<flag, lock, todo, posted, timed, count, verdict, historyVars>>

Register(w) ==
  /\ at[w] = "registering"
  /\ lock = NoThread
  /\ waiters' = waiters \cup {Waiter(w)}
  /\ at' = [at EXCEPT ![w] = "checking"]
  /\ UNCHANGED <<flag, lock, todo, posted, timed, count, verdict, historyVars>>

\* Mutant of SecondCheck: the flag is not read again.
SecondCheckNot(w) == at[w] = "checking" /\ Proceed(w, "waiting")

SecondCheck(w) ==
  /\ at[w] = "checking"
  /\ IF flag THEN EndAs(w, "stopped", "leaving") ELSE Proceed(w, "waiting")

\* The loop runs a queued event.set while no coroutine does.  Only the wait that
\* registered the event is woken by it.
Deliver(x) ==
  /\ x \in posted
  /\ at[x[1]] \in {"idle", "waiting", "woken"}
  /\ posted' = posted \ {x}
  /\ at' = [at EXCEPT ![x[1]] = IF @ = "waiting" /\ x = Waiter(x[1]) THEN "woken" ELSE @]
  /\ UNCHANGED <<flag, lock, waiters, todo, timed, count, verdict, historyVars>>

Resume(w) == at[w] = "woken" /\ EndAs(w, "stopped", "leaving")

\* wait_for gives the timeout precedence until the coroutine has resumed.
Expire(w) == at[w] \in {"waiting", "woken"} /\ timed[w] /\ EndAs(w, "elapsed", "leaving")

\* The task that waits is cancelled.
Cancel(w) == at[w] \in {"waiting", "woken"} /\ EndAs(w, "cancelled", "leaving")

\* Mutant of Leave: the waiter stays registered.
LeaveRegistered(w) ==
  /\ at[w] = "leaving"
  /\ lock = NoThread
  /\ Proceed(w, "idle")

\* The finally block.
Leave(w) ==
  /\ at[w] = "leaving"
  /\ lock = NoThread
  /\ waiters' = waiters \ {Waiter(w)}
  /\ at' = [at EXCEPT ![w] = "idle"]
  /\ UNCHANGED <<flag, lock, todo, posted, timed, count, verdict, historyVars>>

Return(w) == at[w] = "returning" /\ Proceed(w, "idle")

\* asyncio.run is over: the loop closes and forgets its callbacks.
CloseLoop(w) ==
  /\ at[w] = "idle"
  /\ at' = [at EXCEPT ![w] = "closed"]
  /\ posted' = {x \in posted : x[1] # w}
  /\ UNCHANGED <<flag, lock, waiters, todo, timed, count, verdict, historyVars>>
-----------------------------------------------------------------------------
SetStep(t) == Raise(t) \/ Collect(t) \/ \E x \in todo[t] : Notify(t, x)

\* What a coroutine does between two awaits.
CodeStep(w) ==
  FirstCheck(w) \/ Register(w) \/ SecondCheck(w) \/ Resume(w) \/ Leave(w) \/ Return(w)

WaitStep(w) == Enter(w) \/ CodeStep(w) \/ Expire(w) \/ Cancel(w) \/ CloseLoop(w)

Next ==
  \/ Clear
  \/ \E t \in Threads : SetStep(t)
  \/ \E w \in Tasks : WaitStep(w)
  \/ \E x \in posted : Deliver(x)

Spec == Init /\ [][Next]_vars

\* A thread inside set goes on, a loop runs what is queued on it, and a coroutine goes
\* on to its next await: threads that keep taking the lock do not starve it.
FairSpec ==
  /\ Spec
  /\ \A t \in Threads : WF_vars(Collect(t)) /\ WF_vars(\E x \in todo[t] : Notify(t, x))
  /\ \A w \in Tasks : SF_vars(CodeStep(w))
  /\ \A w \in Tasks : WF_vars(\E x \in posted : x[1] = w /\ Deliver(x))
-----------------------------------------------------------------------------
\* Properties.

Places == {"idle", "entered", "registering", "checking", "waiting", "woken",
           "leaving", "returning", "closed"}
WaiterIds == Tasks \X (1 .. MaxWaits)

TypeOK ==
  /\ flag \in BOOLEAN
  /\ lock \in Threads \cup {NoThread}
  /\ waiters \subseteq WaiterIds
  /\ todo \in [Threads -> SUBSET WaiterIds]
  /\ posted \subseteq WaiterIds
  /\ at \in [Tasks -> Places]
  /\ timed \in [Tasks -> BOOLEAN]
  /\ count \in [Tasks -> 0 .. MaxWaits]
  /\ verdict \in [Tasks -> {"none", "waiting", "stopped", "elapsed", "cancelled"}]
  /\ seen \in [Tasks -> BOOLEAN]
  /\ held \in [Tasks -> BOOLEAN]

\* Exactly the waits under way are registered: none is missed by a set, and none
\* is left behind by a timeout or a cancellation.
WaitersAreExact ==
  waiters = {Waiter(w) : w \in {v \in Tasks : at[v] \in {"checking", "waiting", "woken", "leaving"}}}

\* A wake-up for the wait is on its way.
WakeUpPending(w) ==
  \/ lock # NoThread
  \/ Waiter(w) \in posted
  \/ \E t \in Threads : Waiter(w) \in todo[t]

\* No coroutine sleeps through a stop: if one is requested, whoever waits is going to
\* be woken, whatever order the two checks, the registration and set came in.
NoLostWakeUp == \A w \in Tasks : flag /\ at[w] = "waiting" => WakeUpPending(w)

\* Waits report what happened while they lasted; a wake-up that comes late is not
\* taken for a stop by the task's next wait.
Promise == INSTANCE StopSignal
KeepsPromise == Promise!Spec

\* A stop that is not withdrawn ends every wait, whichever loops close meanwhile.
StopEndsWaits ==
  \A w \in Tasks : (verdict[w] = "waiting" /\ flag) ~> (verdict[w] # "waiting" \/ ~flag)
=============================================================================
