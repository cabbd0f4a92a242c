------------------------- MODULE SearchWorkerProofs -------------------------
(***************************************************************************)
(* Proofs about one search: its type invariant, that its answer is true,   *)
(* and that it leaves no orphan behind.                                    *)
(***************************************************************************)
EXTENDS SearchWorker, TLAPS

\* The two kinds of variables, which the provers take apart.
FlagsOK ==
  /\ grandchild \in BOOLEAN /\ expired \in BOOLEAN /\ cutShort \in BOOLEAN
  /\ stop \in BOOLEAN /\ stopSeen \in BOOLEAN

ValuesOK ==
  /\ pc \in {"ready", "spawning", "checking", "polling", "ending", "reaping", "over"}
  /\ ending \in {"none", "finished", "stopped", "expired", "cancelled"}
  /\ outcome \in {"none", "hits", "failed", "timed out", "interrupted", "refused", "cancelled"}
  /\ child \in {"none", "running", "dead", "reaped"}
  /\ output \in {"none", "hits", "else"}
  /\ communicate \in {"none", "pending", "done", "cancelled"}

\* Nothing is signalled before the polling has ended.
StageInv ==
  /\ stage \in {0, 1, 2}
  /\ pc \in {"ready", "spawning", "checking", "polling"} => stage = 0
  /\ pc = "reaping" => stage # 0

\* A child that runs was sent the signals that were tried.
SignalsInv ==
  /\ signals \subseteq {"terminate", "kill"}
  /\ child = "running" /\ stage # 0 => "terminate" \in signals
  /\ child = "running" /\ stage = 2 => "kill" \in signals

\* What is known of the child and of the task that reads it, place by place.
PlacesInv ==
  /\ pc \in {"ready", "spawning"} => child = "none" /\ communicate = "none"
  /\ pc = "checking" => communicate = "pending"
  /\ pc \in {"polling", "ending", "reaping"} => communicate \in {"pending", "done"}
  /\ communicate = "done" => child = "reaped"

\* What the reason for the end of the polling is founded on.
ReasonInv ==
  /\ pc \in {"ending", "reaping"} => ending # "none"
  /\ ending = "finished" => communicate = "done"
  /\ ending = "expired" => expired
  /\ ending = "stopped" => stopSeen
  /\ stop /\ pc # "over" => stopSeen

IInv ==
  /\ FlagsOK /\ ValuesOK /\ StageInv /\ SignalsInv /\ PlacesInv /\ ReasonInv
  /\ AnswersAreTrue /\ NoOrphanRemains

LEMMA SearchInit == Init => IInv
<1> SUFFICES ASSUME Init
             PROVE  IInv
  OBVIOUS
<1>1. FlagsOK
  BY Zenon DEF Init, FlagsOK
<1>2. ValuesOK /\ PlacesInv
  BY DEF Init, ValuesOK, PlacesInv
<1>4. StageInv /\ SignalsInv
  BY DEF Init, StageInv, SignalsInv
<1>5. AnswersAreTrue /\ NoOrphanRemains
  BY DEF Init, AnswersAreTrue, NoOrphanRemains
<1>3. ReasonInv
  BY DEF Init, ReasonInv
<1> QED BY <1>1, <1>2, <1>3, <1>4, <1>5 DEF IInv

\* Every step keeps the flags.
LEMMA FlagsStep == IInv /\ [Next]_vars => FlagsOK'
<1> SUFFICES ASSUME IInv, [Next]_vars
             PROVE  FlagsOK'
  OBVIOUS
<1> USE DEF FlagsOK
<1>0. FlagsOK
  BY Zenon DEF IInv
<1>1. CASE ToolInterrupted
  BY <1>0, <1>1, Zenon DEF ToolInterrupted, Return, parentVars, childVars, stopVars
<1>2. CASE Refuse
  BY <1>0, <1>2, Zenon DEF Refuse, Return, parentVars, childVars, stopVars
<1>3. CASE AskForChild
  BY <1>0, <1>3, Zenon DEF AskForChild, parentVars, childVars, stopVars
<1>4. CASE Check
  BY <1>0, <1>4, Zenon DEF Check, EndPolling, parentVars, childVars, stopVars
<1>5. CASE PollFinds
  BY <1>0, <1>5, Zenon DEF PollFinds, EndPolling, parentVars, childVars, stopVars
<1>6. CASE Escalate
  BY <1>0, <1>6, Zenon DEF Escalate, Signal, parentVars, childVars, stopVars
<1>7. CASE Close
  BY <1>0, <1>7, Zenon DEF Close, OutcomeOf, MayClose, Return, parentVars, childVars, stopVars
<1>8. CASE Spawned
  BY <1>0, <1>8, Zenon DEF Spawned, parentVars, childVars, stopVars
<1>9. CASE SpawnFails
  BY <1>0, <1>9, Zenon DEF SpawnFails, Return, parentVars, childVars, stopVars
<1>10. CASE PollElapses
  BY <1>0, <1>10, Zenon DEF PollElapses, parentVars, childVars, stopVars
<1>11. CASE Resume
  BY <1>0, <1>11, Zenon DEF Resume, parentVars, childVars, stopVars
<1>12. CASE CancelSpawning
  BY <1>0, <1>12, Zenon DEF CancelSpawning, Return, parentVars, childVars, stopVars
<1>13. CASE CancelPolling
  BY <1>0, <1>13, Zenon DEF CancelPolling, EndPolling, parentVars, childVars, stopVars
<1>14. CASE CancelReaping
  BY <1>0, <1>14, Zenon DEF CancelReaping, Return, parentVars, childVars, stopVars
<1>15. CASE StartGrandchild
  BY <1>0, <1>15, Zenon DEF StartGrandchild, parentVars, childVars, stopVars
<1>16. CASE GrandchildExits
  BY <1>0, <1>16, Zenon DEF GrandchildExits, parentVars, childVars, stopVars
<1>17. CASE ChildExits
  BY <1>0, <1>17, Zenon DEF ChildExits, parentVars, childVars, stopVars
<1>18. CASE Reap
  BY <1>0, <1>18, Zenon DEF Reap, LoopIsFree, parentVars, childVars, stopVars
<1>19. CASE Communicated
  BY <1>0, <1>19, Zenon DEF Communicated, LoopIsFree, parentVars, childVars, stopVars
<1>20. CASE DeadlinePasses
  BY <1>0, <1>20, Zenon DEF DeadlinePasses, parentVars, childVars, stopVars
<1>21. CASE Interrupt
  BY <1>0, <1>21, Zenon DEF Interrupt, parentVars, childVars, stopVars
<1>22. CASE ClearInterrupt
  BY <1>0, <1>22, Zenon DEF ClearInterrupt, parentVars, childVars, stopVars
<1>23. CASE UNCHANGED vars
  BY <1>0, <1>23, Zenon DEF vars, parentVars, childVars, stopVars
<1> QED BY <1>1, <1>2, <1>3, <1>4, <1>5, <1>6, <1>7, <1>8, <1>9, <1>10, <1>11, <1>12,
           <1>13, <1>14, <1>15, <1>16, <1>17, <1>18, <1>19, <1>20, <1>21, <1>22, <1>23,
           Zenon
       DEF Next, SearchStep, SpawnStep, Cancel, ChildStep

\* A step that leaves the variables alone leaves their types.
LEMMA ValuesFrame ==
  ASSUME ValuesOK, UNCHANGED <<pc, ending, outcome, child, output, communicate>>
  PROVE  ValuesOK'
<1>1. pc' \in {"ready", "spawning", "checking", "polling", "ending", "reaping", "over"}
  BY DEF ValuesOK
<1>2. ending' \in {"none", "finished", "stopped", "expired", "cancelled"}
  BY DEF ValuesOK
<1>3. outcome' \in
        {"none", "hits", "failed", "timed out", "interrupted", "refused", "cancelled"}
  BY DEF ValuesOK
<1>4. child' \in {"none", "running", "dead", "reaped"}
  BY DEF ValuesOK
<1>5. output' \in {"none", "hits", "else"}
  BY DEF ValuesOK
<1>6. communicate' \in {"none", "pending", "done", "cancelled"}
  BY DEF ValuesOK
<1> QED BY <1>1, <1>2, <1>3, <1>4, <1>5, <1>6 DEF ValuesOK

\* Every step keeps the types of the other variables.
LEMMA ValuesStep == IInv /\ [Next]_vars => ValuesOK'
<1> SUFFICES ASSUME IInv, [Next]_vars
             PROVE  ValuesOK'
  OBVIOUS
<1> USE DEF ValuesOK
<1>0. ValuesOK
  BY Zenon DEF IInv
<1>1. CASE ToolInterrupted
  BY <1>0, <1>1 DEF ToolInterrupted, Return, parentVars, childVars, stopVars
<1>2. CASE Refuse
  BY <1>0, <1>2 DEF Refuse, Return, parentVars, childVars, stopVars
<1>3. CASE AskForChild
  BY <1>0, <1>3 DEF AskForChild, parentVars, childVars, stopVars
<1>4. CASE Check
  BY <1>0, <1>4 DEF Check, EndPolling, parentVars, childVars, stopVars
<1>5. CASE PollFinds
  BY <1>0, <1>5 DEF PollFinds, EndPolling, parentVars, childVars, stopVars
<1>6. CASE Escalate
  BY <1>0, <1>6 DEF Escalate, Signal, parentVars, childVars, stopVars
<1>7. CASE Close
  <2>1. ending # "none"
    BY <1>7 DEF Close, IInv, ReasonInv
  <2>2. outcome' = OutcomeOf(ending) /\ pc' = "over" /\ communicate' \in {"done", "cancelled"}
    BY <1>7 DEF Close, Return
  <2>3. outcome' \in {"hits", "failed", "timed out", "interrupted", "cancelled"}
    BY <1>0, <2>1, <2>2 DEF OutcomeOf
  <2>4. UNCHANGED <<ending, child, output>>
    BY <1>7 DEF Close, childVars
  <2> QED BY <1>0, <2>2, <2>3, <2>4
<1>8. CASE Spawned
  BY <1>0, <1>8 DEF Spawned, parentVars, childVars, stopVars
<1>9. CASE SpawnFails
  BY <1>0, <1>9 DEF SpawnFails, Return, parentVars, childVars, stopVars
<1>10. CASE PollElapses
  BY <1>0, <1>10 DEF PollElapses, parentVars, childVars, stopVars
<1>11. CASE Resume
  BY <1>0, <1>11 DEF Resume, parentVars, childVars, stopVars
<1>12. CASE CancelSpawning
  BY <1>0, <1>12 DEF CancelSpawning, Return, parentVars, childVars, stopVars
<1>13. CASE CancelPolling
  BY <1>0, <1>13 DEF CancelPolling, EndPolling, parentVars, childVars, stopVars
<1>14. CASE CancelReaping
  BY <1>0, <1>14 DEF CancelReaping, Return, parentVars, childVars, stopVars
<1>15. CASE StartGrandchild
  <2>1. UNCHANGED <<pc, ending, outcome, child, output, communicate>>
    BY <1>15 DEF StartGrandchild, parentVars, childVars
  <2> QED BY <1>0, <2>1, ValuesFrame
<1>16. CASE GrandchildExits
  <2>1. UNCHANGED <<pc, ending, outcome, child, output, communicate>>
    BY <1>16 DEF GrandchildExits, parentVars, childVars
  <2> QED BY <1>0, <2>1, ValuesFrame
<1>17. CASE ChildExits
  BY <1>0, <1>17 DEF ChildExits, parentVars, childVars, stopVars
<1>18. CASE Reap
  BY <1>0, <1>18 DEF Reap, LoopIsFree, parentVars, childVars, stopVars
<1>19. CASE Communicated
  BY <1>0, <1>19 DEF Communicated, LoopIsFree, parentVars, childVars, stopVars
<1>20. CASE DeadlinePasses
  <2>1. UNCHANGED <<pc, ending, outcome, child, output, communicate>>
    BY <1>20 DEF DeadlinePasses, parentVars, childVars
  <2> QED BY <1>0, <2>1, ValuesFrame
<1>21. CASE Interrupt
  <2>1. UNCHANGED <<pc, ending, outcome, child, output, communicate>>
    BY <1>21 DEF Interrupt, parentVars, childVars
  <2> QED BY <1>0, <2>1, ValuesFrame
<1>22. CASE ClearInterrupt
  <2>1. UNCHANGED <<pc, ending, outcome, child, output, communicate>>
    BY <1>22 DEF ClearInterrupt, parentVars, childVars
  <2> QED BY <1>0, <2>1, ValuesFrame
<1>23. CASE UNCHANGED vars
  <2>1. UNCHANGED <<pc, ending, outcome, child, output, communicate>>
    BY <1>23 DEF vars, parentVars, childVars
  <2> QED BY <1>0, <2>1, ValuesFrame
<1> QED BY <1>1, <1>2, <1>3, <1>4, <1>5, <1>6, <1>7, <1>8, <1>9, <1>10, <1>11, <1>12,
           <1>13, <1>14, <1>15, <1>16, <1>17, <1>18, <1>19, <1>20, <1>21, <1>22, <1>23,
           Zenon
       DEF Next, SearchStep, SpawnStep, Cancel, ChildStep

\* Every step keeps the count of signals tried.
LEMMA StageStep == IInv /\ [Next]_vars => StageInv'
<1> SUFFICES ASSUME IInv, [Next]_vars
             PROVE  StageInv'
  OBVIOUS
<1> USE DEF StageInv
<1>0. StageInv
  BY Zenon DEF IInv
<1>1. CASE ToolInterrupted
  BY <1>0, <1>1 DEF ToolInterrupted, Return, parentVars, childVars, stopVars
<1>2. CASE Refuse
  BY <1>0, <1>2 DEF Refuse, Return, parentVars, childVars, stopVars
<1>3. CASE AskForChild
  BY <1>0, <1>3 DEF AskForChild, parentVars, childVars, stopVars
<1>4. CASE Check
  BY <1>0, <1>4 DEF Check, EndPolling, parentVars, childVars, stopVars
<1>5. CASE PollFinds
  BY <1>0, <1>5 DEF PollFinds, EndPolling, parentVars, childVars, stopVars
<1>6. CASE Escalate
  <2>1. stage \in {0, 1} /\ stage' = stage + 1 /\ pc' = "reaping"
    BY <1>0, <1>6 DEF Escalate
  <2> QED BY <2>1
<1>7. CASE Close
  BY <1>0, <1>7 DEF Close, OutcomeOf, MayClose, Return, parentVars, childVars, stopVars
<1>8. CASE Spawned
  BY <1>0, <1>8 DEF Spawned, parentVars, childVars, stopVars
<1>9. CASE SpawnFails
  BY <1>0, <1>9 DEF SpawnFails, Return, parentVars, childVars, stopVars
<1>10. CASE PollElapses
  BY <1>0, <1>10 DEF PollElapses, parentVars, childVars, stopVars
<1>11. CASE Resume
  BY <1>0, <1>11 DEF Resume, parentVars, childVars, stopVars
<1>12. CASE CancelSpawning
  BY <1>0, <1>12 DEF CancelSpawning, Return, parentVars, childVars, stopVars
<1>13. CASE CancelPolling
  BY <1>0, <1>13 DEF CancelPolling, EndPolling, parentVars, childVars, stopVars
<1>14. CASE CancelReaping
  BY <1>0, <1>14 DEF CancelReaping, Return, parentVars, childVars, stopVars
<1>15. CASE StartGrandchild
  BY <1>0, <1>15 DEF StartGrandchild, parentVars, childVars, stopVars
<1>16. CASE GrandchildExits
  BY <1>0, <1>16 DEF GrandchildExits, parentVars, childVars, stopVars
<1>17. CASE ChildExits
  BY <1>0, <1>17 DEF ChildExits, parentVars, childVars, stopVars
<1>18. CASE Reap
  BY <1>0, <1>18 DEF Reap, LoopIsFree, parentVars, childVars, stopVars
<1>19. CASE Communicated
  BY <1>0, <1>19 DEF Communicated, LoopIsFree, parentVars, childVars, stopVars
<1>20. CASE DeadlinePasses
  BY <1>0, <1>20 DEF DeadlinePasses, parentVars, childVars, stopVars
<1>21. CASE Interrupt
  BY <1>0, <1>21 DEF Interrupt, parentVars, childVars, stopVars
<1>22. CASE ClearInterrupt
  BY <1>0, <1>22 DEF ClearInterrupt, parentVars, childVars, stopVars
<1>23. CASE UNCHANGED vars
  BY <1>0, <1>23, Zenon DEF vars, parentVars, childVars, stopVars
<1> QED BY <1>1, <1>2, <1>3, <1>4, <1>5, <1>6, <1>7, <1>8, <1>9, <1>10, <1>11, <1>12,
           <1>13, <1>14, <1>15, <1>16, <1>17, <1>18, <1>19, <1>20, <1>21, <1>22, <1>23,
           Zenon
       DEF Next, SearchStep, SpawnStep, Cancel, ChildStep

\* Every step keeps the signals those that were tried.
LEMMA SignalsStep == IInv /\ [Next]_vars => SignalsInv'
<1> SUFFICES ASSUME IInv, [Next]_vars
             PROVE  SignalsInv'
  OBVIOUS
<1> USE DEF StageInv, SignalsInv
<1>0. StageInv /\ SignalsInv
  BY Zenon DEF IInv
<1>1. CASE ToolInterrupted
  BY <1>0, <1>1 DEF ToolInterrupted, Return, parentVars, childVars, stopVars
<1>2. CASE Refuse
  BY <1>0, <1>2 DEF Refuse, Return, parentVars, childVars, stopVars
<1>3. CASE AskForChild
  BY <1>0, <1>3 DEF AskForChild, parentVars, childVars, stopVars
<1>4. CASE Check
  BY <1>0, <1>4 DEF Check, EndPolling, parentVars, childVars, stopVars
<1>5. CASE PollFinds
  BY <1>0, <1>5 DEF PollFinds, EndPolling, parentVars, childVars, stopVars
<1>6. CASE Escalate
  <2>1. (stage = 0 /\ stage' = 1) \/ (stage = 1 /\ stage' = 2)
    BY <1>0, <1>6 DEF Escalate
  <2>2. child' = child
    BY <1>6 DEF Escalate
  <2>3. CASE child = "running"
    <3>1. signals' = signals \cup {Signal}
      BY <1>6, <2>3 DEF Escalate
    <3>2. CASE stage = 0
      <4>1. Signal = "terminate" /\ stage' = 1
        BY <2>1, <3>2 DEF Signal
      <4> QED BY <1>0, <3>1, <4>1
    <3>3. CASE stage = 1
      <4>1. Signal = "kill" /\ stage' = 2
        BY <2>1, <3>3 DEF Signal
      <4>2. "terminate" \in signals
        BY <1>0, <2>3, <3>3
      <4> QED BY <1>0, <3>1, <4>1, <4>2
    <3> QED BY <2>1, <3>2, <3>3
  <2>4. CASE child # "running"
    <3>1. signals' = signals
      BY <1>6, <2>4 DEF Escalate
    <3> QED BY <1>0, <2>2, <2>4, <3>1
  <2> QED BY <2>3, <2>4
<1>7. CASE Close
  BY <1>0, <1>7 DEF Close, OutcomeOf, MayClose, Return, parentVars, childVars, stopVars
<1>8. CASE Spawned
  <2>1. stage = 0 /\ stage' = stage /\ signals' = signals
    BY <1>0, <1>8 DEF Spawned
  <2> QED BY <1>0, <2>1
<1>9. CASE SpawnFails
  BY <1>0, <1>9 DEF SpawnFails, Return, parentVars, childVars, stopVars
<1>10. CASE PollElapses
  BY <1>0, <1>10 DEF PollElapses, parentVars, childVars, stopVars
<1>11. CASE Resume
  BY <1>0, <1>11 DEF Resume, parentVars, childVars, stopVars
<1>12. CASE CancelSpawning
  BY <1>0, <1>12 DEF CancelSpawning, Return, parentVars, childVars, stopVars
<1>13. CASE CancelPolling
  BY <1>0, <1>13 DEF CancelPolling, EndPolling, parentVars, childVars, stopVars
<1>14. CASE CancelReaping
  BY <1>0, <1>14 DEF CancelReaping, Return, parentVars, childVars, stopVars
<1>15. CASE StartGrandchild
  BY <1>0, <1>15 DEF StartGrandchild, parentVars, childVars, stopVars
<1>16. CASE GrandchildExits
  BY <1>0, <1>16 DEF GrandchildExits, parentVars, childVars, stopVars
<1>17. CASE ChildExits
  BY <1>0, <1>17 DEF ChildExits, parentVars, childVars, stopVars
<1>18. CASE Reap
  BY <1>0, <1>18 DEF Reap, LoopIsFree, parentVars, childVars, stopVars
<1>19. CASE Communicated
  BY <1>0, <1>19 DEF Communicated, LoopIsFree, parentVars, childVars, stopVars
<1>20. CASE DeadlinePasses
  BY <1>0, <1>20 DEF DeadlinePasses, parentVars, childVars, stopVars
<1>21. CASE Interrupt
  BY <1>0, <1>21 DEF Interrupt, parentVars, childVars, stopVars
<1>22. CASE ClearInterrupt
  BY <1>0, <1>22 DEF ClearInterrupt, parentVars, childVars, stopVars
<1>23. CASE UNCHANGED vars
  BY <1>0, <1>23, Zenon DEF vars, parentVars, childVars, stopVars
<1> QED BY <1>1, <1>2, <1>3, <1>4, <1>5, <1>6, <1>7, <1>8, <1>9, <1>10, <1>11, <1>12,
           <1>13, <1>14, <1>15, <1>16, <1>17, <1>18, <1>19, <1>20, <1>21, <1>22, <1>23,
           Zenon
       DEF Next, SearchStep, SpawnStep, Cancel, ChildStep

\* Every step keeps the child and its reader where the code expects them.
LEMMA PlacesStep == IInv /\ [Next]_vars => PlacesInv'
<1> SUFFICES ASSUME IInv, [Next]_vars
             PROVE  PlacesInv'
  OBVIOUS
<1> USE DEF ValuesOK, PlacesInv
<1>0. ValuesOK /\ PlacesInv
  BY Zenon DEF IInv
<1>1. CASE ToolInterrupted
  BY <1>0, <1>1 DEF ToolInterrupted, Return, parentVars, childVars, stopVars
<1>2. CASE Refuse
  BY <1>0, <1>2 DEF Refuse, Return, parentVars, childVars, stopVars
<1>3. CASE AskForChild
  BY <1>0, <1>3 DEF AskForChild, parentVars, childVars, stopVars
<1>4. CASE Check
  BY <1>0, <1>4 DEF Check, EndPolling, parentVars, childVars, stopVars
<1>5. CASE PollFinds
  BY <1>0, <1>5 DEF PollFinds, EndPolling, parentVars, childVars, stopVars
<1>6. CASE Escalate
  <2>1. pc = "ending" /\ pc' = "reaping" /\ UNCHANGED <<communicate, child>>
    BY <1>6 DEF Escalate
  <2> QED BY <1>0, <2>1
<1>7. CASE Close
  BY <1>0, <1>7 DEF Close, OutcomeOf, MayClose, Return, parentVars, childVars, stopVars
<1>8. CASE Spawned
  <2>1. pc' = "checking" /\ child' = "running" /\ communicate' = "pending"
    BY <1>8 DEF Spawned
  <2> QED BY <1>0, <2>1
<1>9. CASE SpawnFails
  BY <1>0, <1>9 DEF SpawnFails, Return, parentVars, childVars, stopVars
<1>10. CASE PollElapses
  BY <1>0, <1>10 DEF PollElapses, parentVars, childVars, stopVars
<1>11. CASE Resume
  BY <1>0, <1>11 DEF Resume, parentVars, childVars, stopVars
<1>12. CASE CancelSpawning
  BY <1>0, <1>12 DEF CancelSpawning, Return, parentVars, childVars, stopVars
<1>13. CASE CancelPolling
  BY <1>0, <1>13 DEF CancelPolling, EndPolling, parentVars, childVars, stopVars
<1>14. CASE CancelReaping
  BY <1>0, <1>14 DEF CancelReaping, Return, parentVars, childVars, stopVars
<1>15. CASE StartGrandchild
  BY <1>0, <1>15 DEF StartGrandchild, parentVars, childVars, stopVars
<1>16. CASE GrandchildExits
  BY <1>0, <1>16 DEF GrandchildExits, parentVars, childVars, stopVars
<1>17. CASE ChildExits
  BY <1>0, <1>17 DEF ChildExits, parentVars, childVars, stopVars
<1>18. CASE Reap
  BY <1>0, <1>18 DEF Reap, LoopIsFree, parentVars, childVars, stopVars
<1>19. CASE Communicated
  BY <1>0, <1>19 DEF Communicated, LoopIsFree, parentVars, childVars, stopVars
<1>20. CASE DeadlinePasses
  BY <1>0, <1>20 DEF DeadlinePasses, parentVars, childVars, stopVars
<1>21. CASE Interrupt
  BY <1>0, <1>21 DEF Interrupt, parentVars, childVars, stopVars
<1>22. CASE ClearInterrupt
  BY <1>0, <1>22 DEF ClearInterrupt, parentVars, childVars, stopVars
<1>23. CASE UNCHANGED vars
  BY <1>0, <1>23, Zenon DEF vars, parentVars, childVars, stopVars
<1> QED BY <1>1, <1>2, <1>3, <1>4, <1>5, <1>6, <1>7, <1>8, <1>9, <1>10, <1>11, <1>12,
           <1>13, <1>14, <1>15, <1>16, <1>17, <1>18, <1>19, <1>20, <1>21, <1>22, <1>23,
           Zenon
       DEF Next, SearchStep, SpawnStep, Cancel, ChildStep

\* Every step keeps the reason founded.
LEMMA ReasonStep == IInv /\ [Next]_vars => ReasonInv'
<1> SUFFICES ASSUME IInv, [Next]_vars
             PROVE  ReasonInv'
  OBVIOUS
<1> USE DEF PlacesInv, ReasonInv
<1>0. PlacesInv /\ ReasonInv
  BY Zenon DEF IInv
<1>1. CASE ToolInterrupted
  BY <1>0, <1>1 DEF ToolInterrupted, Return, parentVars, childVars, stopVars
<1>2. CASE Refuse
  BY <1>0, <1>2 DEF Refuse, Return, parentVars, childVars, stopVars
<1>3. CASE AskForChild
  BY <1>0, <1>3 DEF AskForChild, parentVars, childVars, stopVars
<1>4. CASE Check
  <2>1. pc = "checking" /\ UNCHANGED <<communicate, expired, stop, stopSeen>>
    BY <1>4 DEF Check, EndPolling, stopVars
  <2>2. CASE ending' = ending /\ pc' = "polling"
    BY <1>0, <2>1, <2>2
  <2>3. CASE stop /\ ending' = "stopped" /\ pc' = "ending"
    BY <1>0, <2>1, <2>3
  <2>4. CASE expired /\ ending' = "expired" /\ pc' = "ending"
    BY <1>0, <2>1, <2>4
  <2> QED BY <1>4, <2>2, <2>3, <2>4 DEF Check, EndPolling
<1>5. CASE PollFinds
  BY <1>0, <1>5 DEF PollFinds, EndPolling, parentVars, childVars, stopVars
<1>6. CASE Escalate
  BY <1>0, <1>6 DEF Escalate, Signal, parentVars, childVars, stopVars
<1>7. CASE Close
  BY <1>0, <1>7 DEF Close, OutcomeOf, MayClose, Return, parentVars, childVars, stopVars
<1>8. CASE Spawned
  BY <1>0, <1>8 DEF Spawned, parentVars, childVars, stopVars
<1>9. CASE SpawnFails
  BY <1>0, <1>9 DEF SpawnFails, Return, parentVars, childVars, stopVars
<1>10. CASE PollElapses
  BY <1>0, <1>10 DEF PollElapses, parentVars, childVars, stopVars
<1>11. CASE Resume
  BY <1>0, <1>11 DEF Resume, parentVars, childVars, stopVars
<1>12. CASE CancelSpawning
  BY <1>0, <1>12 DEF CancelSpawning, Return, parentVars, childVars, stopVars
<1>13. CASE CancelPolling
  BY <1>0, <1>13 DEF CancelPolling, EndPolling, parentVars, childVars, stopVars
<1>14. CASE CancelReaping
  BY <1>0, <1>14 DEF CancelReaping, Return, parentVars, childVars, stopVars
<1>15. CASE StartGrandchild
  BY <1>0, <1>15 DEF StartGrandchild, parentVars, childVars, stopVars
<1>16. CASE GrandchildExits
  BY <1>0, <1>16 DEF GrandchildExits, parentVars, childVars, stopVars
<1>17. CASE ChildExits
  BY <1>0, <1>17 DEF ChildExits, parentVars, childVars, stopVars
<1>18. CASE Reap
  BY <1>0, <1>18 DEF Reap, LoopIsFree, parentVars, childVars, stopVars
<1>19. CASE Communicated
  BY <1>0, <1>19 DEF Communicated, LoopIsFree, parentVars, childVars, stopVars
<1>20. CASE DeadlinePasses
  BY <1>0, <1>20 DEF DeadlinePasses, parentVars, childVars, stopVars
<1>21. CASE Interrupt
  BY <1>0, <1>21 DEF Interrupt, parentVars, childVars, stopVars
<1>22. CASE ClearInterrupt
  BY <1>0, <1>22 DEF ClearInterrupt, parentVars, childVars, stopVars
<1>23. CASE UNCHANGED vars
  BY <1>0, <1>23, Zenon DEF vars, parentVars, childVars, stopVars
<1> QED BY <1>1, <1>2, <1>3, <1>4, <1>5, <1>6, <1>7, <1>8, <1>9, <1>10, <1>11, <1>12,
           <1>13, <1>14, <1>15, <1>16, <1>17, <1>18, <1>19, <1>20, <1>21, <1>22, <1>23,
           Zenon
       DEF Next, SearchStep, SpawnStep, Cancel, ChildStep

\* Every step keeps the answer true.
LEMMA AnswersStep == IInv /\ [Next]_vars => AnswersAreTrue'
<1> SUFFICES ASSUME IInv, [Next]_vars
             PROVE  AnswersAreTrue'
  OBVIOUS
<1> USE DEF ValuesOK, StageInv, PlacesInv, ReasonInv, AnswersAreTrue
<1>0. ValuesOK /\ StageInv /\ PlacesInv /\ ReasonInv /\ AnswersAreTrue
  BY Zenon DEF IInv
<1>1. CASE ToolInterrupted
  BY <1>0, <1>1 DEF ToolInterrupted, Return, parentVars, childVars, stopVars
<1>2. CASE Refuse
  BY <1>0, <1>2 DEF Refuse, Return, parentVars, childVars, stopVars
<1>3. CASE AskForChild
  BY <1>0, <1>3 DEF AskForChild, parentVars, childVars, stopVars
<1>4. CASE Check
  BY <1>0, <1>4 DEF Check, EndPolling, parentVars, childVars, stopVars
<1>5. CASE PollFinds
  BY <1>0, <1>5 DEF PollFinds, EndPolling, parentVars, childVars, stopVars
<1>6. CASE Escalate
  BY <1>0, <1>6 DEF Escalate, Signal, parentVars, childVars, stopVars
<1>7. CASE Close
  <2>1. outcome' = OutcomeOf(ending) /\ pc' = "over"
    BY <1>7 DEF Close, Return
  <2>2. UNCHANGED <<ending, child, output, expired, stopSeen>>
    BY <1>7 DEF Close, childVars, stopVars
  <2>3. communicate = "done" => communicate' = "done"
    BY <1>7 DEF Close
  <2>4. ending \in {"finished", "stopped", "expired", "cancelled"}
    BY <1>0, <1>7 DEF Close, ValuesOK
  <2>5. outcome' = "hits" => ending = "finished" /\ output = "hits"
    BY <2>1, <2>4 DEF OutcomeOf
  <2>6. outcome' = "timed out" => ending = "expired"
    BY <2>1, <2>4 DEF OutcomeOf
  <2>7. outcome' = "interrupted" => ending = "stopped"
    BY <2>1, <2>4 DEF OutcomeOf
  <2> QED BY <1>0, <2>1, <2>2, <2>3, <2>5, <2>6, <2>7
<1>8. CASE Spawned
  BY <1>0, <1>8 DEF Spawned, parentVars, childVars, stopVars
<1>9. CASE SpawnFails
  BY <1>0, <1>9 DEF SpawnFails, Return, parentVars, childVars, stopVars
<1>10. CASE PollElapses
  BY <1>0, <1>10 DEF PollElapses, parentVars, childVars, stopVars
<1>11. CASE Resume
  <2>1. stage # 0 /\ stage' = stage
    BY <1>0, <1>11 DEF Resume, parentVars
  <2>2. pc' = "ending" /\ UNCHANGED <<outcome, output, child, communicate, expired, stopSeen>>
    BY <1>11 DEF Resume, childVars, stopVars
  <2> QED BY <1>0, <2>1, <2>2
<1>12. CASE CancelSpawning
  BY <1>0, <1>12 DEF CancelSpawning, Return, parentVars, childVars, stopVars
<1>13. CASE CancelPolling
  BY <1>0, <1>13 DEF CancelPolling, EndPolling, parentVars, childVars, stopVars
<1>14. CASE CancelReaping
  BY <1>0, <1>14 DEF CancelReaping, Return, parentVars, childVars, stopVars
<1>15. CASE StartGrandchild
  BY <1>0, <1>15 DEF StartGrandchild, parentVars, childVars, stopVars
<1>16. CASE GrandchildExits
  BY <1>0, <1>16 DEF GrandchildExits, parentVars, childVars, stopVars
<1>17. CASE ChildExits
  BY <1>0, <1>17 DEF ChildExits, parentVars, childVars, stopVars
<1>18. CASE Reap
  BY <1>0, <1>18 DEF Reap, LoopIsFree, parentVars, childVars, stopVars
<1>19. CASE Communicated
  BY <1>0, <1>19 DEF Communicated, LoopIsFree, parentVars, childVars, stopVars
<1>20. CASE DeadlinePasses
  BY <1>0, <1>20 DEF DeadlinePasses, parentVars, childVars, stopVars
<1>21. CASE Interrupt
  BY <1>0, <1>21 DEF Interrupt, parentVars, childVars, stopVars
<1>22. CASE ClearInterrupt
  BY <1>0, <1>22 DEF ClearInterrupt, parentVars, childVars, stopVars
<1>23. CASE UNCHANGED vars
  BY <1>0, <1>23, Zenon DEF vars, parentVars, childVars, stopVars
<1> QED BY <1>1, <1>2, <1>3, <1>4, <1>5, <1>6, <1>7, <1>8, <1>9, <1>10, <1>11, <1>12,
           <1>13, <1>14, <1>15, <1>16, <1>17, <1>18, <1>19, <1>20, <1>21, <1>22, <1>23,
           Zenon
       DEF Next, SearchStep, SpawnStep, Cancel, ChildStep

\* Every step keeps the search clear of orphans.
LEMMA OrphanStep == IInv /\ [Next]_vars => NoOrphanRemains'
<1> SUFFICES ASSUME IInv, [Next]_vars
             PROVE  NoOrphanRemains'
  OBVIOUS
<1> USE DEF SignalsInv, PlacesInv, NoOrphanRemains
<1>0. SignalsInv /\ PlacesInv /\ NoOrphanRemains
  BY Zenon DEF IInv
<1>1. CASE ToolInterrupted
  BY <1>0, <1>1 DEF ToolInterrupted, Return, parentVars, childVars, stopVars
<1>2. CASE Refuse
  BY <1>0, <1>2 DEF Refuse, Return, parentVars, childVars, stopVars
<1>3. CASE AskForChild
  BY <1>0, <1>3 DEF AskForChild, parentVars, childVars, stopVars
<1>4. CASE Check
  BY <1>0, <1>4 DEF Check, EndPolling, parentVars, childVars, stopVars
<1>5. CASE PollFinds
  BY <1>0, <1>5 DEF PollFinds, EndPolling, parentVars, childVars, stopVars
<1>6. CASE Escalate
  BY <1>0, <1>6 DEF Escalate, Signal, parentVars, childVars, stopVars
<1>7. CASE Close
  <2>1. child' = child /\ signals' = signals /\ communicate' \in {"done", "cancelled"}
    BY <1>7 DEF Close, childVars
  <2>2. child = "running" => stage = 2
    BY <1>7 DEF Close, MayClose
  <2>3. child = "running" => "terminate" \in signals /\ "kill" \in signals
    BY <1>0, <2>2
  <2>4. signals \subseteq {"terminate", "kill"}
    BY <1>0
  <2> QED BY <2>1, <2>3, <2>4
<1>8. CASE Spawned
  BY <1>0, <1>8 DEF Spawned, parentVars, childVars, stopVars
<1>9. CASE SpawnFails
  BY <1>0, <1>9 DEF SpawnFails, Return, parentVars, childVars, stopVars
<1>10. CASE PollElapses
  BY <1>0, <1>10 DEF PollElapses, parentVars, childVars, stopVars
<1>11. CASE Resume
  BY <1>0, <1>11 DEF Resume, parentVars, childVars, stopVars
<1>12. CASE CancelSpawning
  BY <1>0, <1>12 DEF CancelSpawning, Return, parentVars, childVars, stopVars
<1>13. CASE CancelPolling
  BY <1>0, <1>13 DEF CancelPolling, EndPolling, parentVars, childVars, stopVars
<1>14. CASE CancelReaping
  BY <1>0, <1>14 DEF CancelReaping, Return, parentVars, childVars, stopVars
<1>15. CASE StartGrandchild
  BY <1>0, <1>15 DEF StartGrandchild, parentVars, childVars, stopVars
<1>16. CASE GrandchildExits
  BY <1>0, <1>16 DEF GrandchildExits, parentVars, childVars, stopVars
<1>17. CASE ChildExits
  BY <1>0, <1>17 DEF ChildExits, parentVars, childVars, stopVars
<1>18. CASE Reap
  BY <1>0, <1>18 DEF Reap, LoopIsFree, parentVars, childVars, stopVars
<1>19. CASE Communicated
  BY <1>0, <1>19 DEF Communicated, LoopIsFree, parentVars, childVars, stopVars
<1>20. CASE DeadlinePasses
  BY <1>0, <1>20 DEF DeadlinePasses, parentVars, childVars, stopVars
<1>21. CASE Interrupt
  BY <1>0, <1>21 DEF Interrupt, parentVars, childVars, stopVars
<1>22. CASE ClearInterrupt
  BY <1>0, <1>22 DEF ClearInterrupt, parentVars, childVars, stopVars
<1>23. CASE UNCHANGED vars
  BY <1>0, <1>23, Zenon DEF vars, parentVars, childVars, stopVars
<1> QED BY <1>1, <1>2, <1>3, <1>4, <1>5, <1>6, <1>7, <1>8, <1>9, <1>10, <1>11, <1>12,
           <1>13, <1>14, <1>15, <1>16, <1>17, <1>18, <1>19, <1>20, <1>21, <1>22, <1>23,
           Zenon
       DEF Next, SearchStep, SpawnStep, Cancel, ChildStep

\* The invariant holds in every state.
LEMMA SearchInvariant == Spec => []IInv
<1>1. IInv /\ [Next]_vars => IInv'
  BY FlagsStep, ValuesStep, StageStep, SignalsStep, PlacesStep, ReasonStep,
     AnswersStep, OrphanStep
  DEF IInv
<1> QED BY SearchInit, <1>1, PTL DEF Spec

\* Every variable of the search keeps its type.
THEOREM SearchTypeCorrect == Spec => []TypeOK
<1>1. IInv => TypeOK
  <2> SUFFICES ASSUME IInv
               PROVE  TypeOK
    OBVIOUS
  <2>1. FlagsOK /\ ValuesOK
    BY DEF IInv
  <2>2. stage \in 0 .. 2 /\ signals \subseteq {"terminate", "kill"}
    BY DEF IInv, StageInv, SignalsInv
  <2> QED BY <2>1, <2>2, Zenon DEF FlagsOK, ValuesOK, TypeOK
<1> QED BY SearchInvariant, <1>1, PTL

\* What the tool returns is what became of the search.
THEOREM AnswersTrue == Spec => []AnswersAreTrue
<1>1. IInv => AnswersAreTrue
  BY DEF IInv
<1> QED BY SearchInvariant, <1>1, PTL

\* However a search ends, unless it is cancelled while it reaps, its child is dead or
\* has been killed, and its reader is gone.
THEOREM NoOrphan == Spec => []NoOrphanRemains
<1>1. IInv => NoOrphanRemains
  BY DEF IInv
<1> QED BY SearchInvariant, <1>1, PTL
=============================================================================
