------------------------- MODULE ToolExecutorProofs -------------------------
(***************************************************************************)
(* The executor for every batch and any number of workers: its workers,    *)
(* its plan, its answers, and that it implements ToolBatch.                *)
(***************************************************************************)
EXTENDS ToolExecutor, SequenceTheorems, TLAPS

Alive == {k \in DOMAIN batch : worker[k] \in {"queued", "running"}}

WorkersOK ==
  /\ pc \in {"planning", "next", "running", "polling", "grace", "complete", "aborted"}
  /\ worker \in [DOMAIN batch -> {"none", "queued", "running", "returned", "raised",
                                  "cancelled", "abandoned"}]
  /\ stop \in BOOLEAN /\ stopSeen \in BOOLEAN

\* Who is alive, place by place: nobody between segments, one call in a sequential
\* segment, and only the segment's own calls in a parallel one.
AliveInv ==
  /\ pc \in {"planning", "next", "complete", "aborted"} => Alive = {}
  /\ pc = "running" => Alive \subseteq {Cursor}
  /\ InParallel => Alive \subseteq HereCalls

\* Nobody is given up but in a turn that is cancelled or after a stop.
StopInv ==
  /\ stop => stopSeen
  /\ pc = "grace" => stopSeen
  /\ (\E k \in DOMAIN batch : worker[k] = "abandoned") => stopSeen \/ pc = "aborted"

WInv == WorkersOK /\ AliveInv /\ StopInv

Segments == [kind : {"sequential", "parallel"}, calls : Seq(Nat)]

\* InRun, of any sequence of calls.
InRunOf(calls, k) ==
  /\ Admitted(calls[k])
  /\ \/ k > 1 /\ Admitted(calls[k - 1])
     \/ k < Len(calls) /\ Admitted(calls[k + 1])

\* A plan covers the first n calls: in one piece and in order, each in the segment of
\* its kind.
Covers(calls, plan, n) ==
  /\ plan \in Seq(Segments)
  /\ \A s \in DOMAIN plan :
       /\ plan[s].calls # <<>>
       /\ \A i \in DOMAIN plan[s].calls :
            /\ plan[s].calls[i] \in 1 .. n
            /\ plan[s].calls[i] = plan[s].calls[1] + i - 1
            /\ plan[s].kind = "parallel" <=> InRunOf(calls, plan[s].calls[i])
  /\ \A k \in 1 .. n : \E s \in DOMAIN plan : \E i \in DOMAIN plan[s].calls :
       plan[s].calls[i] = k
  /\ \A s, t \in DOMAIN plan : s < t =>
       \A i \in DOMAIN plan[s].calls, j \in DOMAIN plan[t].calls :
         plan[s].calls[i] < plan[t].calls[j]
  /\ \A s \in DOMAIN plan : s > 1 => plan[s].kind # plan[s - 1].kind

BatchOK ==
  batch # <<>> /\ batch \in Seq([name : KnownTools, args : ValidJson])

\* The planner has put all calls before the run it has come to into segments, and that
\* run begins after a call that is not admitted.
PlannerInv ==
  /\ planned \in 0 .. Len(batch)
  /\ current \in Seq(Nat) /\ Len(current) <= planned
  /\ Covers(batch, segments, planned - Len(current))
  /\ \A i \in DOMAIN current :
       current[i] = planned - Len(current) + i /\ Admitted(batch[current[i]])
  /\ planned > Len(current) => ~Admitted(batch[planned - Len(current)])

PlanInv == IF pc = "planning" THEN PlannerInv ELSE Covers(batch, segments, Len(batch))

\* A parallel segment is entered at its first call.
PlaceInv ==
  /\ answers \in Seq(Answers) /\ Len(answers) <= Len(batch)
  /\ pc = "planning" => answers = <<>>
  /\ pc \in {"running", "polling", "grace"} => Cursor <= Len(batch)
  /\ pc = "running" => segments[Here].kind = "sequential"
  /\ InParallel => segments[Here].kind = "parallel"
  /\ pc \in {"next", "polling", "grace"} /\ Cursor <= Len(batch)
       /\ segments[Here].kind = "parallel" => segments[Here].calls[1] = Cursor

\* Whose handler was started, and what the answers say of it.
StartedInv ==
  /\ started \subseteq DOMAIN batch
  /\ \A k \in started :
       /\ batch[k].args = "object"
       /\ k <= Len(answers) \/ (Cursor <= Len(batch) /\ k \in HereCalls)
  /\ pc \in {"planning", "next", "complete"} => \A k \in started : k <= Len(answers)
  /\ pc = "running" => Cursor \in started /\ \A k \in started : k <= Cursor
  /\ \A k \in DOMAIN batch :
       /\ worker[k] = "queued" => batch[k].args = "object"
       /\ worker[k] \in {"running", "returned", "raised", "abandoned"} => k \in started
  /\ \A k \in DOMAIN answers :
       /\ answers[k] = "result" => worker[k] = "returned"
       /\ answers[k] = "error" => batch[k].args # "object"

IInv == WInv /\ BatchOK /\ PlanInv /\ PlaceInv /\ StartedInv

LEMMA WorkersInit == Init => WInv
<1> SUFFICES ASSUME Init
             PROVE  WInv
  OBVIOUS
<1>1. WorkersOK
  BY DEF Init, WorkersOK
<1>2. AliveInv
  BY DEF Init, AliveInv, Alive, InParallel
<1>3. StopInv
  BY DEF Init, StopInv
<1> QED BY <1>1, <1>2, <1>3 DEF WInv

\* A segment is where it was as long as the plan stands.
LEMMA SameSegment ==
  ASSUME segments' = segments
  PROVE  /\ \A k : SegmentOf(k)' = SegmentOf(k)
         /\ answers' = answers => Here' = Here /\ HereCalls' = HereCalls /\ Cursor' = Cursor
<1>1. \A k : SegmentOf(k)' = SegmentOf(k)
  BY DEF SegmentOf
<1>2. ASSUME answers' = answers
      PROVE  Here' = Here /\ HereCalls' = HereCalls /\ Cursor' = Cursor
  <2>1. Cursor' = Cursor
    BY <1>2 DEF Cursor
  <2>2. Here' = Here
    BY <2>1 DEF Here, SegmentOf
  <2> QED BY <2>1, <2>2 DEF HereCalls
<1> QED BY <1>1, <1>2

\* Cancelling ends whoever is alive.
LEMMA CancelledWorkers ==
  ASSUME WorkersOK, batch' = batch, worker' = Cancelled(worker)
  PROVE  /\ worker' \in [DOMAIN batch -> {"none", "queued", "running", "returned", "raised",
                                          "cancelled", "abandoned"}]
         /\ Alive' = {}
         /\ \A k \in DOMAIN batch :
              worker'[k] = "abandoned" => worker[k] \in {"running", "abandoned"}
<1>1. ASSUME NEW k \in DOMAIN batch
      PROVE  /\ worker[k] = "queued" => worker'[k] = "cancelled"
             /\ worker[k] = "running" => worker'[k] = "abandoned"
             /\ worker[k] \notin {"queued", "running"} => worker'[k] = worker[k]
  <2>1. worker'[k] = CASE worker[k] = "queued" -> "cancelled"
                       [] worker[k] = "running" -> "abandoned"
                       [] OTHER -> worker[k]
    BY DEF Cancelled, WorkersOK
  <2> QED BY <2>1
<1>2. DOMAIN worker' = DOMAIN batch
  BY DEF Cancelled, WorkersOK
<1>3. \A k \in DOMAIN batch :
        worker'[k] \in {"none", "returned", "raised", "cancelled", "abandoned"}
  BY <1>1 DEF WorkersOK
<1> QED BY <1>1, <1>2, <1>3 DEF WorkersOK, Alive, Cancelled

\* A step that leaves the workers and the place alone.
LEMMA SameWorkers ==
  ASSUME WInv, UNCHANGED <<batch, planVars, pc, worker>>,
         answers' = answers \/ pc = "next",
         stop' \in BOOLEAN, stopSeen' \in BOOLEAN,
         stop' => stopSeen', stopSeen => stopSeen'
  PROVE  WInv'
<1>1. WorkersOK'
  BY DEF WInv, WorkersOK
<1>2. AliveInv'
  BY SameSegment DEF planVars, WInv, AliveInv, Alive, InParallel
<1>3. StopInv'
  BY DEF WInv, StopInv
<1> QED BY <1>1, <1>2, <1>3 DEF WInv

\* A step that ends a worker, starts one or queues it.
LEMMA PlanStepWorkers == WInv /\ PlanStep => WInv'
<1> SUFFICES ASSUME WInv, PlanStep
             PROVE  WInv'
  OBVIOUS
<1>1. /\ pc = "planning" /\ pc' \in {"planning", "next"}
      /\ UNCHANGED <<batch, worker, stop, stopSeen>>
  BY DEF PlanStep, SingleSegment, JoinRun, PlanBarrier, EndPlan, Planning
<1>2. Alive' = {}
  BY <1>1 DEF WInv, AliveInv, Alive
<1> QED BY <1>1, <1>2 DEF WInv, WorkersOK, AliveInv, InParallel, StopInv

LEMMA LoopStepWorkers == WInv /\ LoopStep => WInv'
<1> SUFFICES ASSUME WInv, LoopStep
             PROVE  WInv'
  OBVIOUS
<1>1. CASE SkipRest \/ RefuseArguments
  BY <1>1, SameWorkers DEF SkipRest, RefuseArguments, AtSegment, WInv, WorkersOK, StopInv
<1>2. CASE StartCall
  <2>1. /\ pc = "next" /\ pc' = "running" /\ worker' = [worker EXCEPT ![Cursor] = "running"]
        /\ UNCHANGED <<batch, segments, answers, stop, stopSeen>>
    BY <1>2 DEF StartCall, AtSegment, planVars
  <2>2. WorkersOK'
    BY <2>1 DEF WInv, WorkersOK
  <2>3. AliveInv'
    <3>1. Alive' \subseteq {Cursor}
      BY <2>1 DEF WInv, WorkersOK, AliveInv, Alive
    <3> QED BY <2>1, <3>1, SameSegment DEF planVars, AliveInv, InParallel
  <2>4. StopInv'
    BY <2>1 DEF WInv, WorkersOK, StopInv
  <2> QED BY <2>2, <2>3, <2>4 DEF WInv
<1>3. CASE SpawnWorkers
  <2>1. /\ pc = "next" /\ pc' = "polling"
        /\ worker' = [k \in DOMAIN batch |->
              IF k \in HereCalls /\ batch[k].args = "object" THEN "queued" ELSE worker[k]]
        /\ UNCHANGED <<batch, segments, answers, stop, stopSeen>>
    BY <1>3 DEF SpawnWorkers, AtSegment, planVars
  <2>2. \A k \in DOMAIN batch :
          worker'[k] = worker[k] \/ (k \in HereCalls /\ worker'[k] = "queued")
    BY <2>1
  <2>3. WorkersOK'
    BY <2>1 DEF WInv, WorkersOK
  <2>4. AliveInv'
    <3>1. Alive' \subseteq HereCalls
      BY <2>1, <2>2 DEF WInv, AliveInv, Alive
    <3> QED BY <2>1, <3>1, SameSegment DEF planVars, AliveInv, InParallel
  <2>5. StopInv'
    BY <2>1, <2>2 DEF WInv, StopInv
  <2> QED BY <2>3, <2>4, <2>5 DEF WInv
<1>4. CASE Finish
  <2>1. pc = "next" /\ pc' = "complete" /\ UNCHANGED <<batch, worker, stop, stopSeen>>
    BY <1>4 DEF Finish
  <2> QED BY <2>1 DEF WInv, WorkersOK, AliveInv, Alive, InParallel, StopInv
<1> QED BY PlanStepWorkers, <1>1, <1>2, <1>3, <1>4 DEF LoopStep

\* The timers: the grace period, and the end of a segment, which nobody survives.
LEMMA TimerStepWorkers == WInv /\ TimerStep => WInv'
<1> SUFFICES ASSUME WInv, TimerStep
             PROVE  WInv'
  OBVIOUS
<1>1. CASE NoticeStop
  <2>1. /\ pc = "polling" /\ pc' = "grace" /\ stop
        /\ UNCHANGED <<batch, segments, answers, worker, stop, stopSeen>>
    BY <1>1 DEF NoticeStop, planVars
  <2> QED BY <2>1, SameSegment DEF planVars, WInv, WorkersOK, AliveInv, Alive, InParallel, StopInv
<1>2. CASE CollectResults
  <2>1. /\ InParallel /\ (Pending = {} \/ pc = "grace") /\ pc' = "next"
        /\ worker' = Cancelled(worker) /\ UNCHANGED <<batch, stop, stopSeen>>
    BY <1>2 DEF CollectResults
  <2>2. WorkersOK /\ AliveInv /\ StopInv
    BY DEF WInv
  <2>3. WorkersOK'
    BY <2>1, <2>2, CancelledWorkers DEF WorkersOK
  <2>4. AliveInv'
    BY <2>1, <2>2, CancelledWorkers DEF AliveInv, InParallel
  <2>5. StopInv'
    <3>1. Pending = {} => \A k \in DOMAIN batch : worker[k] # "running"
      BY <2>1, <2>2 DEF AliveInv, Alive, Pending
    <3>2. pc # "aborted"
      BY <2>1 DEF InParallel
    <3> QED BY <2>1, <2>2, <3>1, <3>2, CancelledWorkers DEF StopInv
  <2> QED BY <2>3, <2>4, <2>5 DEF WInv
<1> QED BY <1>1, <1>2 DEF TimerStep

\* A worker starts, ends, or comes to the end of its thread.
LEMMA WorkerSteps ==
  ASSUME WInv, NEW k \in DOMAIN batch, NEW place,
         worker' = [worker EXCEPT ![k] = place],
         \/ InParallel /\ worker[k] = "queued" /\ place = "running"
         \/ worker[k] = "running" /\ place \in {"returned", "raised"}
         \/ worker[k] = "abandoned" /\ place = "cancelled",
         UNCHANGED <<batch, planVars, pc, answers, stop, stopSeen>>
  PROVE  WInv'
<1>1. WorkersOK'
  BY DEF WInv, WorkersOK
<1>2. Alive' \subseteq Alive
  BY DEF WInv, WorkersOK, Alive
<1>3. AliveInv'
  BY <1>2, SameSegment DEF planVars, WInv, AliveInv, InParallel
<1>4. \A j \in DOMAIN batch : worker'[j] = "abandoned" => worker[j] = "abandoned"
  BY DEF WInv, WorkersOK
<1>5. StopInv'
  BY <1>4 DEF WInv, StopInv
<1> QED BY <1>1, <1>3, <1>5 DEF WInv

\* The call of a sequential segment ends: no other was alive.
LEMMA SequentialEnds ==
  ASSUME WInv, pc = "running", NEW end \in {"returned", "raised"},
         worker' = [worker EXCEPT ![Cursor] = end], pc' \in {"next", "aborted"},
         UNCHANGED <<batch, stop, stopSeen>>
  PROVE  WInv'
<1>1. WorkersOK'
  BY DEF WInv, WorkersOK
<1>2. Alive' = {}
  <2>1. \A k \in DOMAIN batch : k # Cursor => worker[k] \notin {"queued", "running"}
    BY DEF WInv, AliveInv, Alive
  <2>2. \A k \in DOMAIN batch : worker'[k] \notin {"queued", "running"}
    BY <2>1 DEF WInv, WorkersOK
  <2> QED BY <2>2 DEF Alive
<1>3. AliveInv'
  BY <1>2 DEF AliveInv, InParallel
<1>4. \A j \in DOMAIN batch : worker'[j] = "abandoned" => worker[j] = "abandoned"
  BY DEF WInv, WorkersOK
<1>5. StopInv'
  BY <1>4 DEF WInv, StopInv
<1> QED BY <1>1, <1>3, <1>5 DEF WInv

LEMMA WorkersStep == WInv /\ [Next]_vars => WInv'
<1> SUFFICES ASSUME WInv, [Next]_vars
             PROVE  WInv'
  OBVIOUS
<1>0. WorkersOK /\ StopInv
  BY DEF WInv
<1>1. CASE Interrupt \/ ClearInterrupt \/ UNCHANGED vars
  <2>1. /\ UNCHANGED <<batch, planVars, pc, worker, answers>>
        /\ stop' \in BOOLEAN /\ stopSeen' \in BOOLEAN
        /\ stop' => stopSeen'
        /\ stopSeen => stopSeen'
    <3>1. CASE Interrupt
      BY <3>1 DEF Interrupt
    <3>2. CASE ClearInterrupt
      BY <1>0, <3>2 DEF ClearInterrupt, WorkersOK
    <3>3. CASE UNCHANGED vars
      BY <1>0, <3>3 DEF vars, WorkersOK, StopInv
    <3> QED BY <1>1, <3>1, <3>2, <3>3
  <2> QED BY <2>1, SameWorkers
<1>2. CASE CancelTurn
  <2>1. /\ pc' = "aborted" /\ worker' = Cancelled(worker) /\ UNCHANGED <<batch, stop, stopSeen>>
    BY <1>2 DEF CancelTurn
  <2>2. WorkersOK' /\ Alive' = {}
    BY <1>0, <2>1, CancelledWorkers DEF WorkersOK
  <2> QED BY <1>0, <2>1, <2>2 DEF WInv, AliveInv, InParallel, StopInv
<1>3. CASE CallReturns
  BY <1>3, SequentialEnds DEF CallReturns
<1>4. CASE CallRaises
  BY <1>4, SequentialEnds DEF CallRaises
<1>5. ASSUME NEW k \in DOMAIN batch, WorkerStarts(k) \/ WorkerEnds(k) \/ AbandonedEnds(k)
      PROVE  WInv'
  BY <1>5, WorkerSteps DEF WorkerStarts, WorkerEnds, AbandonedEnds
<1> QED BY LoopStepWorkers, TimerStepWorkers, <1>1, <1>2, <1>3, <1>4, <1>5, Zenon
        DEF Next, HandlerStep
-----------------------------------------------------------------------------
\* The plan.

\* A segment's calls are those from its first to its last.
LEMMA SegmentCalls ==
  ASSUME NEW plan, NEW n \in Nat, Covers(batch, plan, n), NEW s \in DOMAIN plan
  PROVE  /\ plan[s].calls \in Seq(Nat) /\ Len(plan[s].calls) \in Nat \ {0}
         /\ plan[s].kind \in {"sequential", "parallel"}
         /\ DOMAIN plan[s].calls = 1 .. Len(plan[s].calls)
         /\ Last(plan[s].calls) = plan[s].calls[1] + Len(plan[s].calls) - 1
         /\ plan[s].calls[1] \in 1 .. n /\ Last(plan[s].calls) \in 1 .. n
         /\ ToSet(plan[s].calls) = plan[s].calls[1] .. Last(plan[s].calls)
<1>1. plan[s] \in Segments
  BY DEF Covers
<1>2. plan[s].calls \in Seq(Nat) /\ plan[s].kind \in {"sequential", "parallel"}
  BY <1>1 DEF Segments
<1> DEFINE c == plan[s].calls
<1>3. c # <<>> /\ \A i \in DOMAIN c : c[i] \in 1 .. n /\ c[i] = c[1] + i - 1
  BY DEF Covers
<1>4. Len(c) \in Nat \ {0} /\ DOMAIN c = 1 .. Len(c)
  BY <1>2, <1>3
<1>5. Last(c) = c[1] + Len(c) - 1 /\ c[1] \in 1 .. n /\ Last(c) \in 1 .. n
  <2>1. 1 \in DOMAIN c /\ Len(c) \in DOMAIN c
    BY <1>4
  <2>2. Last(c) = c[Len(c)]
    BY DEF Last
  <2> HIDE DEF c
  <2> QED BY <1>3, <2>1, <2>2
<1>6. ToSet(c) = c[1] .. Last(c)
  <2>1. ASSUME NEW k \in ToSet(c)
        PROVE  k \in c[1] .. Last(c)
    BY <1>3, <1>4, <1>5, <2>1 DEF ToSet
  <2>2. ASSUME NEW k \in c[1] .. Last(c)
        PROVE  k \in ToSet(c)
    <3>1. k - c[1] + 1 \in DOMAIN c
      BY <1>4, <1>5, <2>2
    <3>2. c[k - c[1] + 1] = c[1] + (k - c[1] + 1) - 1
      BY <1>3, <3>1
    <3>3. c[k - c[1] + 1] = k
      BY <3>2, <1>5, <2>2
    <3> QED BY <3>1, <3>3 DEF ToSet
  <2> QED BY <2>1, <2>2
<1> QED BY <1>2, <1>4, <1>5, <1>6

\* Every call has its segment, and no other.
LEMMA OneSegment ==
  ASSUME NEW n \in Nat, Covers(batch, segments, n), NEW k \in 1 .. n
  PROVE  /\ SegmentOf(k) \in DOMAIN segments
         /\ k \in ToSet(segments[SegmentOf(k)].calls)
         /\ \A s \in DOMAIN segments : k \in ToSet(segments[s].calls) => s = SegmentOf(k)
<1>1. \E s \in DOMAIN segments : k \in ToSet(segments[s].calls)
  <2>1. PICK s \in DOMAIN segments :
          \E i \in DOMAIN segments[s].calls : segments[s].calls[i] = k
    BY DEF Covers
  <2> QED BY <2>1 DEF ToSet
<1>2. SegmentOf(k) \in DOMAIN segments /\ k \in ToSet(segments[SegmentOf(k)].calls)
  BY <1>1 DEF SegmentOf
<1>3. ASSUME NEW s \in DOMAIN segments, NEW t \in DOMAIN segments, s < t,
             k \in ToSet(segments[s].calls), k \in ToSet(segments[t].calls)
      PROVE  FALSE
  <2>1. PICK i \in DOMAIN segments[s].calls : segments[s].calls[i] = k
    BY <1>3 DEF ToSet
  <2>2. PICK j \in DOMAIN segments[t].calls : segments[t].calls[j] = k
    BY <1>3 DEF ToSet
  <2>3. segments[s].calls[i] < segments[t].calls[j]
    BY <1>3 DEF Covers
  <2> QED BY <2>1, <2>2, <2>3
<1>4. DOMAIN segments \subseteq Int
  BY DEF Covers
<1> QED BY <1>2, <1>3, <1>4

\* Calls of an earlier segment come before those of a later one.
LEMMA EarlierSegment ==
  ASSUME NEW n \in Nat, Covers(batch, segments, n), NEW j \in 1 .. n, NEW k \in 1 .. n,
         SegmentOf(j) < SegmentOf(k)
  PROVE  j < k
<1>1. PICK a \in DOMAIN segments[SegmentOf(j)].calls : segments[SegmentOf(j)].calls[a] = j
  BY OneSegment DEF ToSet
<1>2. PICK b \in DOMAIN segments[SegmentOf(k)].calls : segments[SegmentOf(k)].calls[b] = k
  BY OneSegment DEF ToSet
<1>3. segments[SegmentOf(j)].calls[a] < segments[SegmentOf(k)].calls[b]
  BY OneSegment DEF Covers
<1> QED BY <1>1, <1>2, <1>3

\* Where the segment changes, the new one begins.
LEMMA SegmentStart ==
  ASSUME NEW n \in Nat, Covers(batch, segments, n), NEW k \in 1 .. n,
         k > 1 => SegmentOf(k - 1) # SegmentOf(k)
  PROVE  segments[SegmentOf(k)].calls[1] = k
<1> DEFINE c == segments[SegmentOf(k)].calls
<1>1. SegmentOf(k) \in DOMAIN segments /\ k \in ToSet(c)
  BY OneSegment
<1>2. ToSet(c) = c[1] .. Last(c) /\ c[1] \in 1 .. n /\ Last(c) \in 1 .. n
  BY <1>1, SegmentCalls
<1>3. ASSUME c[1] # k
      PROVE  FALSE
  <2>1. k - 1 \in ToSet(c) /\ k - 1 \in 1 .. n
    BY <1>1, <1>2, <1>3
  <2> QED BY <1>1, <2>1, OneSegment
<1> QED BY <1>3

\* The last segment ends with the last call.
LEMMA LastSegment ==
  ASSUME NEW plan, NEW n \in Nat, Covers(batch, plan, n)
  PROVE  /\ plan = <<>> <=> n = 0
         /\ n > 0 => Last(plan[Len(plan)].calls) = n
<1>1. plan \in Seq(Segments) /\ Len(plan) \in Nat /\ DOMAIN plan = 1 .. Len(plan)
  BY DEF Covers
<1>2. ASSUME plan # <<>>
      PROVE  n > 0
  <2>1. 1 \in DOMAIN plan
    BY <1>1, <1>2
  <2> QED BY <2>1, SegmentCalls
<1>3. ASSUME n > 0
      PROVE  plan # <<>> /\ Last(plan[Len(plan)].calls) = n
  <2>1. PICK s \in DOMAIN plan : \E i \in DOMAIN plan[s].calls : plan[s].calls[i] = n
    BY <1>3 DEF Covers
  <2>2. Len(plan) \in DOMAIN plan
    BY <1>1, <2>1
  <2> DEFINE c == plan[Len(plan)].calls
  <2>3. /\ Len(c) \in Nat \ {0} /\ DOMAIN c = 1 .. Len(c) /\ Last(c) = c[1] + Len(c) - 1
        /\ c[1] \in 1 .. n /\ Last(c) \in 1 .. n
    BY <2>2, SegmentCalls
  <2>4. ASSUME s # Len(plan)
        PROVE  FALSE
    <3>1. s < Len(plan) /\ 1 \in DOMAIN c
      BY <1>1, <2>3, <2>4
    <3>2. \A i \in DOMAIN plan[s].calls : plan[s].calls[i] < c[1]
      BY <2>2, <3>1 DEF Covers
    <3> QED BY <2>1, <2>3, <3>2
  <2>5. PICK i \in DOMAIN c : c[i] = n
    BY <2>1, <2>4
  <2>6. c[i] = c[1] + i - 1
    BY <2>2 DEF Covers
  <2>7. Last(c) = n
    BY <2>3, <2>5, <2>6
  <2> QED BY <1>1, <2>1, <2>7
<1> QED BY <1>2, <1>3

\* What the planner hands over next: the calls after the n-th, up to the m-th.
Follows(calls, n, m) ==
  /\ calls \in Seq(Nat) /\ calls # <<>>
  /\ m = n + Len(calls)
  /\ \A i \in DOMAIN calls : calls[i] = n + i

LEMMA FollowingCalls ==
  ASSUME NEW n \in Nat, NEW calls, NEW m, Follows(calls, n, m)
  PROVE  /\ calls \in Seq(Nat) /\ Len(calls) \in Nat \ {0} /\ DOMAIN calls = 1 .. Len(calls)
         /\ m \in Nat /\ m = n + Len(calls)
         /\ \A i \in DOMAIN calls :
              calls[i] \in n + 1 .. m /\ calls[i] = n + i /\ calls[i] = calls[1] + i - 1
         /\ \A k \in n + 1 .. m : k - n \in DOMAIN calls /\ calls[k - n] = k
<1>1. /\ calls \in Seq(Nat) /\ Len(calls) \in Nat \ {0} /\ DOMAIN calls = 1 .. Len(calls)
      /\ m \in Nat /\ m = n + Len(calls)
  BY DEF Follows
<1>2. \A i \in DOMAIN calls : calls[i] = n + i
  BY DEF Follows
<1>3. 1 \in DOMAIN calls /\ calls[1] = n + 1
  BY <1>1, <1>2
<1>4. ASSUME NEW i \in DOMAIN calls
      PROVE  calls[i] \in n + 1 .. m /\ calls[i] = n + i /\ calls[i] = calls[1] + i - 1
  <2>1. calls[i] = n + i /\ i \in 1 .. Len(calls)
    BY <1>1, <1>2
  <2> QED BY <1>1, <1>3, <2>1
<1>5. ASSUME NEW k \in n + 1 .. m
      PROVE  k - n \in DOMAIN calls /\ calls[k - n] = k
  <2>1. k - n \in DOMAIN calls
    BY <1>1
  <2>2. calls[k - n] = n + (k - n)
    BY <1>2, <2>1
  <2> QED BY <2>1, <2>2
<1> QED BY <1>1, <1>4, <1>5

\* A segment of another kind is put after the plan.
LEMMA AppendSegment ==
  ASSUME NEW plan, NEW n \in Nat, Covers(batch, plan, n), NEW calls, NEW m, Follows(calls, n, m),
         NEW kind \in {"sequential", "parallel"},
         \A i \in DOMAIN calls : kind = "parallel" <=> InRunOf(batch, calls[i]),
         plan # <<>> => plan[Len(plan)].kind # kind
  PROVE  Covers(batch, Append(plan, Segment(kind, calls)), m)
<1> DEFINE new == Append(plan, Segment(kind, calls))
           last == Len(plan) + 1
<1>1. /\ plan \in Seq(Segments) /\ Len(plan) \in Nat /\ DOMAIN plan = 1 .. Len(plan)
      /\ calls \in Seq(Nat) /\ Len(calls) \in Nat \ {0} /\ DOMAIN calls = 1 .. Len(calls)
      /\ m = n + Len(calls) /\ m \in Nat
  BY DEF Covers, Follows
<1>2. Segment(kind, calls) \in Segments
  BY <1>1 DEF Segment, Segments
<1>3. /\ new \in Seq(Segments) /\ DOMAIN new = 1 .. last
      /\ \A s \in DOMAIN plan : new[s] = plan[s]
      /\ new[last].kind = kind /\ new[last].calls = calls
  BY <1>1, <1>2 DEF Segment
<1> HIDE DEF new
<1>4. \A s \in DOMAIN new : s \in DOMAIN plan \/ s = last
  BY <1>1, <1>3
<1>5. \A i \in DOMAIN calls : calls[i] \in n + 1 .. m /\ calls[i] = calls[1] + i - 1
  BY FollowingCalls
<1>6. \A s \in DOMAIN plan : \A i \in DOMAIN plan[s].calls : plan[s].calls[i] \in 1 .. n
  BY DEF Covers
<1>7. ASSUME NEW s \in DOMAIN new
      PROVE  /\ new[s].calls # <<>>
             /\ \A i \in DOMAIN new[s].calls :
                  /\ new[s].calls[i] \in 1 .. m
                  /\ new[s].calls[i] = new[s].calls[1] + i - 1
                  /\ new[s].kind = "parallel" <=> InRunOf(batch, new[s].calls[i])
  <2>1. CASE s \in DOMAIN plan
    <3>1. new[s] = plan[s]
      BY <1>3, <2>1
    <3>2. \A i \in 1 .. n : i \in 1 .. m
      BY <1>1
    <3> QED BY <2>1, <3>1, <3>2 DEF Covers
  <2>2. CASE s = last
    <3>1. calls # <<>> /\ \A i \in n + 1 .. m : i \in 1 .. m
      BY <1>1
    <3> QED BY <1>3, <1>5, <2>2, <3>1
  <2> QED BY <1>4, <2>1, <2>2
<1>8. ASSUME NEW k \in 1 .. m
      PROVE  \E s \in DOMAIN new : \E i \in DOMAIN new[s].calls : new[s].calls[i] = k
  <2>1. CASE k <= n
    <3>1. PICK s \in DOMAIN plan : \E i \in DOMAIN plan[s].calls : plan[s].calls[i] = k
      BY <2>1 DEF Covers
    <3>2. s \in DOMAIN new /\ new[s] = plan[s]
      BY <1>1, <1>3
    <3> QED BY <3>1, <3>2
  <2>2. CASE k > n
    <3>1. k - n \in DOMAIN calls /\ last \in DOMAIN new
      BY <1>1, <1>3, <2>2
    <3>2. calls[k - n] = k
      BY <1>1, <2>2, FollowingCalls
    <3> QED BY <1>3, <3>1, <3>2
  <2> QED BY <2>1, <2>2
<1>9. ASSUME NEW s \in DOMAIN new, NEW t \in DOMAIN new, s < t,
             NEW i \in DOMAIN new[s].calls, NEW j \in DOMAIN new[t].calls
      PROVE  new[s].calls[i] < new[t].calls[j]
  <2>1. s \in DOMAIN plan /\ new[s] = plan[s]
    BY <1>1, <1>3, <1>4, <1>9
  <2>2. CASE t \in DOMAIN plan
    BY <1>3, <1>9, <2>1, <2>2 DEF Covers
  <2>3. CASE t = last
    <3>1. plan[s].calls[i] \in 1 .. n
      BY <1>6, <2>1
    <3>2. new[t].calls[j] \in n + 1 .. m
      BY <1>3, <1>5, <2>3
    <3> QED BY <2>1, <3>1, <3>2
  <2> QED BY <1>4, <2>2, <2>3
<1>10. ASSUME NEW s \in DOMAIN new, s > 1
       PROVE  new[s].kind # new[s - 1].kind
  <2>1. CASE s \in DOMAIN plan
    <3>1. s - 1 \in DOMAIN plan
      BY <1>1, <1>10, <2>1
    <3> QED BY <1>3, <1>10, <2>1, <3>1 DEF Covers
  <2>2. CASE s = last
    <3>1. s - 1 = Len(plan) /\ Len(plan) \in DOMAIN plan /\ plan # <<>>
      BY <1>1, <1>10, <2>2
    <3> QED BY <1>3, <2>2, <3>1
  <2> QED BY <1>4, <2>1, <2>2
<1>11. Covers(batch, new, m)
  BY <1>3, <1>7, <1>8, <1>9, <1>10 DEF Covers
<1> QED BY <1>11 DEF new

\* Calls of no run are put at the end of the plan's last segment.
LEMMA ExtendLast ==
  ASSUME NEW plan, NEW n \in Nat, Covers(batch, plan, n), NEW calls, NEW m, Follows(calls, n, m),
         plan # <<>>, plan[Len(plan)].kind = "sequential",
         \A i \in DOMAIN calls : ~InRunOf(batch, calls[i])
  PROVE  Covers(batch, [plan EXCEPT ![Len(plan)].calls = @ \o calls], m)
<1> DEFINE last == Len(plan)
           old == plan[last].calls
           c == old \o calls
           new == [plan EXCEPT ![last].calls = @ \o calls]
<1>1. /\ plan \in Seq(Segments) /\ last \in DOMAIN plan /\ DOMAIN plan = 1 .. last /\ last \in Nat
      /\ calls \in Seq(Nat) /\ Len(calls) \in Nat \ {0} /\ DOMAIN calls = 1 .. Len(calls)
      /\ m = n + Len(calls) /\ m \in Nat /\ n > 0
  <2>1. n > 0
    BY LastSegment
  <2>2. /\ plan \in Seq(Segments) /\ last \in DOMAIN plan /\ DOMAIN plan = 1 .. last
        /\ last \in Nat
    BY DEF Covers
  <2> QED BY <2>1, <2>2, FollowingCalls
<1>2. /\ old \in Seq(Nat) /\ Len(old) \in Nat \ {0} /\ DOMAIN old = 1 .. Len(old)
      /\ Last(old) = old[1] + Len(old) - 1 /\ Last(old) = n /\ old[1] \in 1 .. n
  BY <1>1, SegmentCalls, LastSegment
<1> HIDE DEF old
<1>3. c \in Seq(Nat) /\ Len(c) = Len(old) + Len(calls) /\ DOMAIN c = 1 .. Len(c)
  BY <1>1, <1>2
<1>4. /\ \A i \in DOMAIN old : c[i] = old[i]
      /\ \A i \in DOMAIN c : i \notin DOMAIN old =>
           i - Len(old) \in DOMAIN calls /\ c[i] = calls[i - Len(old)]
  BY <1>1, <1>2, <1>3
<1>5. /\ new \in Seq(Segments) /\ DOMAIN new = DOMAIN plan
      /\ \A s \in DOMAIN plan : s # last => new[s] = plan[s]
      /\ new[last].kind = "sequential" /\ new[last].calls = c
  <2>1. plan[last] \in Segments
    BY <1>1
  <2>2. [plan[last] EXCEPT !.calls = c] \in Segments
    BY <1>3, <2>1 DEF Segments
  <2>3. new = [plan EXCEPT ![last] = [plan[last] EXCEPT !.calls = c]]
    BY <1>1 DEF old
  <2>4. \A s \in DOMAIN plan :
          new[s] = IF s = last THEN [plan[last] EXCEPT !.calls = c] ELSE plan[s]
    BY <1>1, <2>3
  <2>5. DOMAIN new = DOMAIN plan
    BY <2>3
  <2>6. new \in Seq(Segments)
    <3> HIDE DEF c, last, new
    <3> QED BY <1>1, <2>2, <2>3, ExceptSeq
  <2> HIDE DEF new, c
  <2> QED BY <1>1, <2>1, <2>4, <2>5, <2>6 DEF Segments
<1> HIDE DEF new, c, last
<1>0. /\ m \in Nat /\ n \in Nat /\ Len(old) \in Nat \ {0} /\ Len(calls) \in Nat \ {0}
      /\ m = n + Len(calls) /\ Len(c) = Len(old) + Len(calls)
      /\ DOMAIN c = 1 .. Len(c) /\ DOMAIN old = 1 .. Len(old)
      /\ DOMAIN calls = 1 .. Len(calls) /\ old[1] \in 1 .. n /\ n = old[1] + Len(old) - 1
  BY <1>1, <1>2, <1>3
<1>6. \A i \in DOMAIN old : old[i] \in 1 .. n /\ old[i] = old[1] + i - 1 /\ ~InRunOf(batch, old[i])
  BY <1>1 DEF Covers, old, last
<1>7. \A i \in DOMAIN c : c[i] \in 1 .. m /\ c[i] = c[1] + i - 1 /\ ~InRunOf(batch, c[i])
  <2>1. 1 \in DOMAIN old /\ c[1] = old[1]
    BY <1>2, <1>4
  <2>2. ASSUME NEW i \in DOMAIN c, i \in DOMAIN old
        PROVE  c[i] \in 1 .. m /\ c[i] = c[1] + i - 1 /\ ~InRunOf(batch, c[i])
    BY <1>1, <1>2, <1>4, <1>6, <2>1, <2>2
  <2>3. ASSUME NEW i \in DOMAIN c, i \notin DOMAIN old
        PROVE  c[i] \in 1 .. m /\ c[i] = c[1] + i - 1 /\ ~InRunOf(batch, c[i])
    <3> DEFINE j == i - Len(old)
    <3>1. j \in DOMAIN calls /\ c[i] = calls[j] /\ i \in Nat /\ j \in 1 .. Len(calls)
      BY <1>1, <1>2, <1>3, <1>4, <2>3
    <3>2. i = j + Len(old) /\ j \in Nat
      BY <1>1, <1>2, <3>1
    <3> HIDE DEF j
    <3>3. c[i] = n + j /\ ~InRunOf(batch, c[i])
      BY <3>1, FollowingCalls
    <3>4. c[i] \in 1 .. m
      BY <1>0, <3>1, <3>2, <3>3
    <3>5. c[i] = c[1] + i - 1
      BY <1>0, <2>1, <3>2, <3>3
    <3> QED BY <3>3, <3>4, <3>5
  <2> QED BY <2>2, <2>3
<1>8. c # <<>> /\ \A s \in DOMAIN plan : s = last \/ s < last
  <2>1. Len(c) # 0
    BY <1>1, <1>2, <1>3
  <2>2. c # <<>>
    BY <1>3, <2>1
  <2> QED BY <1>1, <2>2
<1>9. ASSUME NEW s \in DOMAIN new
      PROVE  /\ new[s].calls # <<>>
             /\ \A i \in DOMAIN new[s].calls :
                  /\ new[s].calls[i] \in 1 .. m
                  /\ new[s].calls[i] = new[s].calls[1] + i - 1
                  /\ new[s].kind = "parallel" <=> InRunOf(batch, new[s].calls[i])
  <2>1. CASE s = last
    BY <1>5, <1>7, <1>8, <2>1
  <2>2. CASE s # last
    <3>1. \A i \in 1 .. n : i \in 1 .. m
      BY <1>1
    <3>2. s \in DOMAIN plan /\ new[s] = plan[s]
      BY <1>5, <2>2
    <3> QED BY <3>1, <3>2 DEF Covers
  <2> QED BY <2>1, <2>2
<1>10. ASSUME NEW k \in 1 .. m
       PROVE  \E s \in DOMAIN new : \E i \in DOMAIN new[s].calls : new[s].calls[i] = k
  <2>1. CASE k <= n
    <3>1. PICK s \in DOMAIN plan : \E i \in DOMAIN plan[s].calls : plan[s].calls[i] = k
      BY <2>1 DEF Covers
    <3>2. CASE s = last
      <4>1. PICK i \in DOMAIN old : old[i] = k
        BY <3>1, <3>2 DEF old
      <4>2. i \in DOMAIN c /\ c[i] = k
        BY <1>0, <1>4, <4>1
      <4> QED BY <1>1, <1>5, <4>2
    <3>3. CASE s # last
      BY <1>5, <3>1, <3>3
    <3> QED BY <3>2, <3>3
  <2>2. CASE k > n
    <3>1. Len(old) + (k - n) \in DOMAIN c /\ Len(old) + (k - n) \notin DOMAIN old
      <4> DEFINE i == k - n
                 a == Len(old)
                 b == Len(calls)
      <4>1. a \in Nat /\ b \in Nat /\ DOMAIN old = 1 .. a /\ DOMAIN c = 1 .. a + b
        BY <1>0
      <4>2. i \in 1 .. b
        BY <1>0, <2>2
      <4> HIDE DEF i, a, b
      <4>3. a + i \in 1 .. a + b /\ a + i \notin 1 .. a
        BY <4>1, <4>2
      <4> QED BY <4>1, <4>3 DEF i, a
    <3>2. c[Len(old) + (k - n)] = calls[k - n] /\ k - n \in DOMAIN calls
      <4>1. (Len(old) + (k - n)) - Len(old) = k - n
        BY <1>0
      <4> QED BY <1>4, <3>1, <4>1
    <3>3. calls[k - n] = k
      BY <1>1, <2>2, FollowingCalls
    <3> QED BY <1>1, <1>5, <3>1, <3>2, <3>3
  <2> QED BY <2>1, <2>2
<1>11. ASSUME NEW s \in DOMAIN new, NEW t \in DOMAIN new, s < t,
              NEW i \in DOMAIN new[s].calls, NEW j \in DOMAIN new[t].calls
       PROVE  new[s].calls[i] < new[t].calls[j]
  <2>1. s \in DOMAIN plan /\ new[s] = plan[s] /\ i \in DOMAIN plan[s].calls
    BY <1>1, <1>5, <1>8, <1>11
  <2>2. CASE t # last
    BY <1>5, <1>11, <2>1, <2>2 DEF Covers
  <2>3. CASE t = last
    <3>1. j \in DOMAIN c /\ new[t].calls[j] = c[j]
      BY <1>5, <1>11, <2>3
    <3>2. CASE j \in DOMAIN old
      <4>1. plan[s].calls[i] < old[j]
        BY <1>1, <1>5, <1>11, <2>1, <2>3, <3>2 DEF Covers, old
      <4> QED BY <1>4, <2>1, <3>1, <3>2, <4>1
    <3>3. CASE j \notin DOMAIN old
      <4>1. plan[s].calls[i] \in 1 .. n
        BY <2>1 DEF Covers
      <4>2. j - Len(old) \in DOMAIN calls /\ c[j] = n + (j - Len(old))
        BY <1>4, <3>1, <3>3, FollowingCalls
      <4> QED BY <1>0, <2>1, <3>1, <4>1, <4>2
    <3> QED BY <3>2, <3>3
  <2> QED BY <2>2, <2>3
<1>12. ASSUME NEW s \in DOMAIN new, s > 1
       PROVE  new[s].kind # new[s - 1].kind
  <2>1. \A t \in DOMAIN plan : new[t].kind = plan[t].kind
    BY <1>5 DEF last
  <2>2. s \in DOMAIN plan /\ s - 1 \in DOMAIN plan
    BY <1>1, <1>5, <1>12
  <2> QED BY <1>12, <2>1, <2>2 DEF Covers
<1>13. Covers(batch, new, m)
  BY <1>5, <1>9, <1>10, <1>11, <1>12 DEF Covers
<1> QED BY <1>13 DEF new, last

\* Calls of no run may always follow, in a segment of their own or in the last.
LEMMA ExtendCovers ==
  ASSUME NEW plan, NEW n \in Nat, Covers(batch, plan, n), NEW calls, NEW m,
         Follows(calls, n, m), \A i \in DOMAIN calls : ~InRunOf(batch, calls[i])
  PROVE  Covers(batch, ExtendSequential(plan, calls), m)
<1>1. CASE plan # <<>> /\ plan[Len(plan)].kind = "sequential"
  <2>1. ExtendSequential(plan, calls) = [plan EXCEPT ![Len(plan)].calls = @ \o calls]
    BY <1>1 DEF ExtendSequential
  <2>2. Covers(batch, [plan EXCEPT ![Len(plan)].calls = @ \o calls], m)
    BY <1>1, ExtendLast
  <2> QED BY <2>1, <2>2
<1>2. CASE ~(plan # <<>> /\ plan[Len(plan)].kind = "sequential")
  <2>1. ExtendSequential(plan, calls) = Append(plan, Segment("sequential", calls))
    BY <1>2 DEF ExtendSequential
  <2> QED BY <1>2, <2>1, AppendSegment
<1> QED BY <1>1, <1>2

\* The run the planner has gathered, once it can gather no more, becomes a parallel
\* segment or goes with the sequential calls.
LEMMA CloseCovers ==
  ASSUME BatchOK, PlannerInv, planned = Len(batch) \/ ~Admitted(batch[planned + 1])
  PROVE  Covers(batch, CloseParallel(segments, current), planned)
<1> DEFINE n == planned - Len(current)
<1>1. /\ planned \in 0 .. Len(batch) /\ current \in Seq(Nat) /\ Len(current) <= planned
      /\ Covers(batch, segments, n)
      /\ \A i \in DOMAIN current : current[i] = n + i /\ Admitted(batch[current[i]])
      /\ n > 0 => ~Admitted(batch[n])
  BY DEF PlannerInv
<1>2. /\ Len(batch) \in Nat /\ Len(current) \in Nat /\ n \in Nat /\ planned \in Nat
      /\ DOMAIN current = 1 .. Len(current) /\ planned = n + Len(current)
  BY <1>1 DEF BatchOK
<1> HIDE DEF n
<1>3. current # <<>> => Follows(current, n, planned)
  BY <1>1, <1>2 DEF Follows
<1>4. CASE Len(current) >= 2
  <2>1. ASSUME NEW i \in DOMAIN current
        PROVE  InRunOf(batch, current[i])
    <3>1. Admitted(batch[current[i]]) /\ current[i] = n + i /\ i \in 1 .. Len(current)
      BY <1>1, <1>2
    <3>2. CASE i < Len(current)
      <4>1. i + 1 \in DOMAIN current
        BY <1>2, <3>1, <3>2
      <4>2. Admitted(batch[current[i] + 1]) /\ current[i] < Len(batch)
        <5>1. current[i + 1] = n + (i + 1) /\ Admitted(batch[current[i + 1]])
          BY <1>1, <4>1
        <5>2. current[i + 1] = current[i] + 1 /\ current[i] < planned
          BY <1>2, <3>1, <3>2, <5>1
        <5> QED BY <1>1, <1>2, <3>1, <5>1, <5>2
      <4> QED BY <3>1, <4>2 DEF InRunOf
    <3>3. CASE i = Len(current)
      <4>1. i - 1 \in DOMAIN current
        BY <1>2, <1>4, <3>3
      <4>2. Admitted(batch[current[i] - 1]) /\ current[i] > 1
        <5>1. current[i - 1] = n + (i - 1) /\ Admitted(batch[current[i - 1]])
          BY <1>1, <4>1
        <5>2. current[i - 1] = current[i] - 1 /\ current[i] > 1
          BY <1>2, <1>4, <3>1, <3>3, <5>1
        <5> QED BY <5>1, <5>2
      <4> QED BY <3>1, <4>2 DEF InRunOf
    <3> QED BY <3>1, <3>2, <3>3, <1>2
  <2>2. segments # <<>> => segments[Len(segments)].kind # "parallel"
    <3>1. SUFFICES ASSUME segments # <<>>, segments[Len(segments)].kind = "parallel"
                   PROVE  FALSE
      OBVIOUS
    <3> DEFINE c == segments[Len(segments)].calls
    <3>2. n > 0 /\ Last(c) = n /\ Len(segments) \in DOMAIN segments
      <4>1. n > 0 /\ Last(c) = n
        BY <1>1, <1>2, <3>1, LastSegment
      <4>2. segments \in Seq(Segments)
        BY <1>1 DEF Covers
      <4> QED BY <3>1, <4>1, <4>2
    <3>3. Len(c) \in DOMAIN c /\ Last(c) = c[Len(c)]
      BY <1>1, <1>2, <3>2, SegmentCalls DEF Last
    <3>4. InRunOf(batch, n)
      BY <1>1, <3>1, <3>2, <3>3 DEF Covers
    <3> QED BY <1>1, <3>2, <3>4 DEF InRunOf
  <2>3. Covers(batch, Append(segments, Segment("parallel", current)), planned)
    <3>1. current # <<>>
      BY <1>4
    <3> QED BY <1>1, <1>2, <1>3, <2>1, <2>2, <3>1, AppendSegment
  <2> QED BY <1>4, <2>3 DEF CloseParallel
<1>5. CASE Len(current) < 2 /\ current # <<>>
  <2>1. Len(current) = 1 /\ DOMAIN current = {1} /\ current[1] = planned /\ planned = n + 1
    BY <1>1, <1>2, <1>5
  <2>2. ~InRunOf(batch, planned)
    <3>1. planned > 1 => ~Admitted(batch[planned - 1])
      BY <1>1, <1>2, <2>1
    <3>2. planned < Len(batch) => ~Admitted(batch[planned + 1])
      BY <1>2
    <3> QED BY <3>1, <3>2 DEF InRunOf
  <2>3. Covers(batch, ExtendSequential(segments, current), planned)
    BY <1>1, <1>2, <1>3, <1>5, <2>1, <2>2, ExtendCovers
  <2> QED BY <1>5, <2>1, <2>3 DEF CloseParallel
<1>6. CASE current = <<>>
  <2>1. Len(current) = 0
    BY <1>6
  <2> QED BY <1>1, <1>2, <1>6, <2>1 DEF CloseParallel
<1> QED BY <1>2, <1>4, <1>5, <1>6

LEMMA PlanInit == Init => BatchOK /\ PlanInv
<1> SUFFICES ASSUME Init
             PROVE  BatchOK /\ PlanInv
  OBVIOUS
<1>1. BatchOK
  BY BatchesAssumption DEF Init, BatchOK
<1>2. pc = "planning" /\ segments = <<>> /\ current = <<>> /\ planned = 0
  BY DEF Init
<1>3. Covers(batch, <<>>, 0)
  <2>1. <<>> \in Seq(Segments) /\ DOMAIN <<>> = {}
    OBVIOUS
  <2> QED BY <2>1 DEF Covers
<1>4. Len(current) = 0 /\ DOMAIN current = {} /\ Len(batch) \in Nat
  BY <1>1, <1>2 DEF BatchOK
<1> QED BY <1>1, <1>2, <1>3, <1>4 DEF PlanInv, PlannerInv

LEMMA PlanStepPlan ==
  ASSUME BatchOK, pc = "planning", PlanInv, PlanStep
  PROVE  PlanInv'
<1>1. PlannerInv /\ batch' = batch /\ Len(batch) \in Nat \ {0} /\ DOMAIN batch = 1 .. Len(batch)
  BY DEF PlanInv, PlanStep, SingleSegment, JoinRun, PlanBarrier, EndPlan, Planning, BatchOK
<1>2. /\ planned \in 0 .. Len(batch) /\ current \in Seq(Nat) /\ Len(current) <= planned
      /\ Covers(batch, segments, planned - Len(current))
      /\ Len(current) \in Nat /\ DOMAIN current = 1 .. Len(current)
  BY <1>1 DEF PlannerInv
<1>3. CASE SingleSegment
  <2>1. pc' = "next" /\ Len(batch) = 1
        /\ segments' = <<Segment("sequential", [k \in DOMAIN batch |-> k])>>
    BY <1>1, <1>3 DEF SingleSegment
  <2> DEFINE c == [k \in DOMAIN batch |-> k]
  <2>2. Follows(c, 0, 1)
    BY <1>1, <2>1 DEF Follows
  <2>3. \A i \in DOMAIN c : ~InRunOf(batch, c[i])
    BY <1>1, <2>1 DEF InRunOf
  <2>4. Covers(batch, <<>>, 0)
    <3>1. <<>> \in Seq(Segments) /\ DOMAIN <<>> = {}
      OBVIOUS
    <3> QED BY <3>1 DEF Covers
  <2>5. Covers(batch, ExtendSequential(<<>>, c), 1)
    BY <2>2, <2>3, <2>4, ExtendCovers
  <2>6. ExtendSequential(<<>>, c) = <<Segment("sequential", c)>>
    BY DEF ExtendSequential
  <2> QED BY <1>1, <2>1, <2>5, <2>6 DEF PlanInv
<1>4. CASE JoinRun
  <2>1. /\ pc' = "planning" /\ segments' = segments /\ planned < Len(batch)
        /\ Admitted(batch[planned + 1])
        /\ current' = Append(current, planned + 1) /\ planned' = planned + 1
    BY <1>4 DEF JoinRun, Planning
  <2>2. /\ current' \in Seq(Nat) /\ Len(current') = Len(current) + 1
        /\ \A i \in DOMAIN current : current'[i] = current[i]
        /\ current'[Len(current) + 1] = planned + 1
        /\ DOMAIN current' = 1 .. Len(current) + 1
    BY <1>2, <2>1
  <2>3. planned' - Len(current') = planned - Len(current)
    BY <1>2, <2>1, <2>2
  <2>4. \A i \in DOMAIN current' :
          current'[i] = planned' - Len(current') + i /\ Admitted(batch'[current'[i]])
    <3> TAKE i \in DOMAIN current'
    <3>1. CASE i \in DOMAIN current
      BY <1>1, <2>2, <2>3, <3>1 DEF PlannerInv
    <3>2. CASE i = Len(current) + 1
      BY <1>1, <1>2, <2>1, <2>2, <2>3, <3>2
    <3> QED BY <1>2, <2>2, <3>1, <3>2
  <2>5. planned' > Len(current') => ~Admitted(batch'[planned' - Len(current')])
    <3>1. planned' > Len(current') => planned > Len(current)
      BY <1>2, <2>1, <2>2
    <3> QED BY <1>1, <2>3, <3>1 DEF PlannerInv
  <2>6. planned' \in 0 .. Len(batch') /\ Len(current') <= planned'
    BY <1>1, <1>2, <2>1, <2>2
  <2>7. Covers(batch', segments', planned' - Len(current'))
    BY <1>1, <1>2, <2>1, <2>3
  <2>8. PlannerInv'
    BY <2>2, <2>4, <2>5, <2>6, <2>7 DEF PlannerInv
  <2> QED BY <2>1, <2>8 DEF PlanInv
<1>5. CASE PlanBarrier
  <2>1. /\ pc' = "planning" /\ planned < Len(batch) /\ ~Admitted(batch[planned + 1])
        /\ segments' = ExtendSequential(CloseParallel(segments, current), <<planned + 1>>)
        /\ current' = <<>> /\ planned' = planned + 1
    BY <1>5 DEF PlanBarrier, Planning
  <2>2. Covers(batch, CloseParallel(segments, current), planned)
    BY <1>1, <2>1, CloseCovers
  <2>3. Follows(<<planned + 1>>, planned, planned + 1)
    BY <1>2 DEF Follows
  <2>4. \A i \in DOMAIN <<planned + 1>> : ~InRunOf(batch, <<planned + 1>>[i])
    BY <2>1 DEF InRunOf
  <2>5. Covers(batch, segments', planned')
    BY <1>2, <2>1, <2>2, <2>3, <2>4, ExtendCovers
  <2>6. /\ Len(current') = 0 /\ DOMAIN current' = {} /\ current' \in Seq(Nat)
        /\ planned' - Len(current') = planned' /\ planned' \in 0 .. Len(batch')
        /\ Len(current') <= planned'
    BY <1>1, <1>2, <2>1
  <2>7. PlannerInv'
    BY <1>1, <2>1, <2>5, <2>6 DEF PlannerInv
  <2> QED BY <2>1, <2>7 DEF PlanInv
<1>6. CASE EndPlan
  <2>1. /\ pc' = "next" /\ planned = Len(batch)
        /\ segments' = CloseParallel(segments, current)
    BY <1>6 DEF EndPlan
  <2> QED BY <1>1, <2>1, CloseCovers DEF PlanInv
<1> QED BY <1>3, <1>4, <1>5, <1>6 DEF PlanStep
-----------------------------------------------------------------------------
\* The answers.

Covered == BatchOK /\ Covers(batch, segments, Len(batch))

\* The segment at hand.
LEMMA AtHand ==
  ASSUME Covered, answers \in Seq(Answers), Cursor <= Len(batch)
  PROVE  /\ Len(answers) \in Nat /\ Len(batch) \in Nat /\ DOMAIN batch = 1 .. Len(batch)
         /\ Cursor = Len(answers) + 1 /\ Cursor \in 1 .. Len(batch) /\ Cursor \in HereCalls
         /\ Here \in DOMAIN segments /\ Here = SegmentOf(Cursor)
         /\ segments[Here].calls \in Seq(Nat)
         /\ DOMAIN segments[Here].calls = 1 .. Len(segments[Here].calls)
         /\ Len(segments[Here].calls) \in Nat \ {0}
         /\ segments[Here].calls[1] \in 1 .. Len(batch)
         /\ Last(segments[Here].calls) \in Cursor .. Len(batch)
         /\ Last(segments[Here].calls)
              = segments[Here].calls[1] + Len(segments[Here].calls) - 1
         /\ HereCalls = segments[Here].calls[1] .. Last(segments[Here].calls)
         /\ HereCalls \subseteq 1 .. Len(batch)
<1>1. /\ Len(answers) \in Nat /\ Len(batch) \in Nat /\ DOMAIN batch = 1 .. Len(batch)
      /\ Cursor = Len(answers) + 1 /\ Cursor \in 1 .. Len(batch)
      /\ Covers(batch, segments, Len(batch))
  BY DEF Covered, BatchOK, Cursor
<1>2. Here = SegmentOf(Cursor) /\ HereCalls = ToSet(segments[Here].calls)
  BY DEF Here, HereCalls
<1>3. Here \in DOMAIN segments /\ Cursor \in HereCalls
  BY <1>1, <1>2, OneSegment
<1> DEFINE c == segments[Here].calls
<1>4. /\ c \in Seq(Nat) /\ DOMAIN c = 1 .. Len(c) /\ Len(c) \in Nat \ {0}
      /\ c[1] \in 1 .. Len(batch) /\ Last(c) \in 1 .. Len(batch)
      /\ Last(c) = c[1] + Len(c) - 1 /\ HereCalls = c[1] .. Last(c)
  BY <1>1, <1>2, <1>3, SegmentCalls
<1> HIDE DEF c
<1>5. Last(c) \in Cursor .. Len(batch) /\ HereCalls \subseteq 1 .. Len(batch)
  BY <1>1, <1>3, <1>4
<1> QED BY <1>1, <1>2, <1>3, <1>4, <1>5 DEF c

\* After an answer the executor is in the same sequential segment or at the start of one.
LEMMA PlaceAfter ==
  ASSUME Covered, answers \in Seq(Answers), Cursor <= Len(batch),
         UNCHANGED <<batch, segments>>, pc' = "next", answers' \in Seq(Answers),
         \/ Len(answers') = Last(segments[Here].calls)
         \/ Len(answers') = Cursor /\ segments[Here].kind = "sequential"
  PROVE  PlaceInv'
<1> DEFINE k == Len(answers') + 1
<1>1. /\ Len(batch) \in Nat /\ Cursor \in 1 .. Len(batch) /\ Len(answers') \in Nat
      /\ Here \in DOMAIN segments
      /\ Len(answers') \in 1 .. Len(batch) /\ Len(answers') \in HereCalls
  BY AtHand
<1>2. Cursor' = k /\ Here' = SegmentOf(k)
  BY DEF Cursor, Here, SegmentOf
<1>3. SegmentOf(Len(answers')) = Here
  BY <1>1, OneSegment DEF HereCalls, Covered
<1>4. ASSUME k <= Len(batch), segments[SegmentOf(k)].kind = "parallel"
      PROVE  segments[SegmentOf(k)].calls[1] = k
  <2>1. k \in 1 .. Len(batch) /\ k - 1 = Len(answers')
    BY <1>1, <1>4
  <2>2. SegmentOf(k) # Here
    <3>1. CASE Len(answers') = Last(segments[Here].calls)
      <4>1. k \notin HereCalls
        BY <1>1, <3>1, AtHand
      <4>2. k \in ToSet(segments[SegmentOf(k)].calls)
        BY <1>1, <2>1, OneSegment DEF Covered
      <4> QED BY <4>1, <4>2 DEF HereCalls
    <3>2. CASE segments[Here].kind = "sequential"
      BY <1>4, <3>2
    <3> QED BY <3>1, <3>2
  <2> QED BY <1>1, <1>3, <2>1, <2>2, SegmentStart DEF Covered
<1>5. k <= Len(batch) /\ segments'[Here'].kind = "parallel" => segments'[Here'].calls[1] = k
  BY <1>2, <1>4
<1> QED BY <1>1, <1>2, <1>5 DEF PlaceInv, InParallel

\* A row of answers after those there are.
LEMMA MoreAnswers ==
  ASSUME answers \in Seq(Answers), NEW chunk \in Seq(Answers), answers' = answers \o chunk
  PROVE  /\ answers' \in Seq(Answers) /\ Len(answers') = Len(answers) + Len(chunk)
         /\ Len(answers) \in Nat /\ Len(chunk) \in Nat
         /\ \A k \in DOMAIN answers' :
              \/ k \in DOMAIN answers /\ answers'[k] = answers[k]
              \/ /\ k - Len(answers) \in DOMAIN chunk /\ k > Len(answers)
                 /\ answers'[k] = chunk[k - Len(answers)]
OBVIOUS

\* What the answers say of the calls stands as long as what returned has returned.
LEMMA StartedAfter ==
  ASSUME BatchOK, WorkersOK, StartedInv, batch' = batch, started' = started,
         answers \in Seq(Answers), answers' \in Seq(Answers), pc' = "next",
         Len(answers') >= Len(answers),
         \A k \in started : k <= Len(answers'),
         \A k \in DOMAIN batch :
           /\ worker[k] = "returned" => worker'[k] = "returned"
           /\ worker'[k] = "queued" => worker[k] = "queued"
           /\ worker'[k] \in {"running", "returned", "raised", "abandoned"} => k \in started,
         \A k \in DOMAIN answers' :
           \/ k \in DOMAIN answers /\ k \in DOMAIN batch /\ answers'[k] = answers[k]
           \/ /\ answers'[k] = "result" => worker'[k] = "returned"
              /\ answers'[k] = "error" => batch[k].args # "object"
  PROVE  StartedInv'
<1>1. \A k \in DOMAIN answers' :
        /\ answers'[k] = "result" => worker'[k] = "returned"
        /\ answers'[k] = "error" => batch[k].args # "object"
  BY DEF StartedInv
<1>2. /\ started \subseteq DOMAIN batch
      /\ \A k \in started : batch[k].args = "object"
      /\ \A k \in DOMAIN batch : worker'[k] = "queued" => batch[k].args = "object"
  BY DEF StartedInv
<1> QED BY <1>1, <1>2 DEF StartedInv

\* An answer of the executor is one ToolBatch allows, if its calls account for it.
LEMMA AnswerStep ==
  ASSUME pc \notin {"complete", "aborted"}, pc' \notin {"complete", "aborted"},
         NEW chunk \in Seq(Answers), Len(chunk) \in 1 .. Len(batch) - Len(answers),
         \A k \in 1 .. Len(chunk) : chunk[k] \in MayAnswer(batch[Len(answers) + k], stopSeen),
         answers' = answers \o chunk, UNCHANGED <<batch, stopSeen>>
  PROVE  Promise!Answer
<1>1. chunk \in [1 .. Len(chunk) -> Promise!Answers]
  BY DEF Answers, Promise!Answers
<1>2. \A k \in 1 .. Len(chunk) :
        chunk[k] \in Promise!MayAnswer(batch[Len(answers) + k], stopSeen)
  BY DEF MayAnswer, Promise!MayAnswer, Runnable, Promise!Runnable, Known, Promise!Known
<1> QED BY <1>1, <1>2 DEF Promise!Answer

\* A call that reaches the executor is known.
LEMMA BatchCalls ==
  ASSUME BatchOK, NEW k \in DOMAIN batch
  PROVE  Known(batch[k]) /\ batch[k].args \in ValidJson
<1>1. batch[k] \in [name : KnownTools, args : ValidJson]
  <2>1. /\ batch \in Seq([name : KnownTools, args : ValidJson])
        /\ k \in 1 .. Len(batch)
    BY DEF BatchOK
  <2> QED BY <2>1, ElementOfSeq
<1> QED BY <1>1 DEF Known

LEMMA SkipRestAnswers ==
  ASSUME IInv, SkipRest
  PROVE  PlaceInv' /\ StartedInv' /\ Promise!Answer
<1>1. /\ pc = "next" /\ pc' = "next" /\ stop /\ Len(answers) < Len(batch)
      /\ UNCHANGED <<batch, segments, worker, stopSeen, started>>
      /\ answers' = answers \o [k \in 1 .. Last(segments[Here].calls) - Len(answers) |-> "skipped"]
  BY DEF SkipRest, AtSegment, planVars
<1>2. Covered /\ PlaceInv /\ StartedInv /\ BatchOK /\ WorkersOK /\ stopSeen
      /\ answers \in Seq(Answers)
  BY <1>1 DEF IInv, WInv, StopInv, Covered, PlanInv, PlaceInv
<1>3. Cursor <= Len(batch) /\ Len(answers) \in Nat
  BY <1>1, <1>2 DEF Cursor, BatchOK
<1> DEFINE n == Last(segments[Here].calls) - Len(answers)
           chunk == [k \in 1 .. n |-> "skipped"]
<1>4. n \in 1 .. Len(batch) - Len(answers) /\ Last(segments[Here].calls) \in Nat
  BY <1>2, <1>3, AtHand
<1>5. answers' = answers \o chunk
  BY <1>1
<1> HIDE DEF n
<1>6. chunk \in Seq(Answers) /\ Len(chunk) = n /\ \A k \in 1 .. n : chunk[k] = "skipped"
  BY <1>4 DEF Answers
<1> HIDE DEF chunk
<1>7. Len(answers') = Last(segments[Here].calls) /\ answers' \in Seq(Answers)
  <2>1. answers' \in Seq(Answers) /\ Len(answers') = Len(answers) + n
    BY <1>2, <1>5, <1>6, MoreAnswers
  <2>2. Len(answers) + n = Last(segments[Here].calls)
    BY <1>3, <1>4 DEF n
  <2> QED BY <2>1, <2>2
<1>8. PlaceInv'
  BY <1>1, <1>2, <1>3, <1>7, PlaceAfter
<1>9. StartedInv'
  <2>1. Len(answers') >= Len(answers)
    BY <1>2, <1>5, <1>6, MoreAnswers
  <2>2. \A k \in started : k <= Len(answers')
    <3>1. \A k \in started : k <= Len(answers)
      BY <1>1, <1>2 DEF StartedInv
    <3>2. started \subseteq Nat /\ Len(answers') \in Nat
      BY <1>2, <1>7 DEF StartedInv, BatchOK
    <3> QED BY <1>3, <2>1, <3>1, <3>2
  <2>3. \A k \in DOMAIN answers : k \in DOMAIN batch
    BY <1>2 DEF PlaceInv, BatchOK
  <2>4. \A k \in DOMAIN answers' :
          \/ k \in DOMAIN answers /\ k \in DOMAIN batch /\ answers'[k] = answers[k]
          \/ answers'[k] = "skipped"
    BY <1>2, <1>5, <1>6, <2>3, MoreAnswers
  <2>5. \A k \in DOMAIN batch :
          worker[k] \in {"running", "returned", "raised", "abandoned"} => k \in started
    BY <1>2 DEF StartedInv
  <2> QED BY <1>1, <1>2, <1>7, <2>1, <2>2, <2>4, <2>5, StartedAfter
<1>10. Promise!Answer
  <2>1. ASSUME NEW k \in 1 .. n
        PROVE  chunk[k] \in MayAnswer(batch[Len(answers) + k], stopSeen)
    <3>1. Len(answers) + k \in DOMAIN batch
      BY <1>2, <1>3, <1>4 DEF BatchOK
    <3> QED BY <1>2, <1>6, <3>1, BatchCalls DEF MayAnswer
  <2> QED BY <1>1, <1>4, <1>5, <1>6, <2>1, AnswerStep
<1> QED BY <1>8, <1>9, <1>10

\* A sequential call is answered: its arguments were refused, or its handler returned.
LEMMA OneAnswer ==
  ASSUME IInv, UNCHANGED <<batch, segments, stopSeen, started>>, pc' = "next",
         Cursor <= Len(batch), segments[Here].kind = "sequential",
         NEW answer \in Answers, answers' = Append(answers, answer),
         \/ /\ pc = "next" /\ worker' = worker
            /\ answer = "error" /\ batch[Cursor].args # "object"
         \/ /\ pc = "running" /\ worker' = [worker EXCEPT ![Cursor] = "returned"]
            /\ answer = "result"
  PROVE  PlaceInv' /\ StartedInv' /\ Promise!Answer
<1>1. /\ Covered /\ PlaceInv /\ StartedInv /\ BatchOK /\ WorkersOK
      /\ answers \in Seq(Answers) /\ Len(answers) \in Nat /\ Cursor = Len(answers) + 1
      /\ Cursor \in DOMAIN batch /\ Len(batch) \in Nat
  BY DEF IInv, WInv, Covered, PlanInv, PlaceInv, Cursor, BatchOK
<1>2. answers' = answers \o <<answer>> /\ <<answer>> \in Seq(Answers) /\ Len(<<answer>>) = 1
  BY <1>1
<1>3. /\ answers' \in Seq(Answers) /\ Len(answers') = Cursor
      /\ \A k \in DOMAIN answers' :
           \/ k \in DOMAIN answers /\ answers'[k] = answers[k]
           \/ k = Cursor /\ answers'[k] = answer
  BY <1>1
<1>4. PlaceInv'
  BY <1>1, <1>3, PlaceAfter
<1>5. StartedInv'
  <2>1. \A k \in started : k <= Len(answers')
    BY <1>1, <1>3 DEF StartedInv, BatchOK
  <2>2. \A k \in DOMAIN batch :
          /\ worker[k] = "returned" => worker'[k] = "returned"
          /\ worker'[k] = "queued" => worker[k] = "queued"
          /\ worker'[k] \in {"running", "returned", "raised", "abandoned"} => k \in started
    BY <1>1 DEF StartedInv, WorkersOK
  <2>3. \A k \in DOMAIN answers : k \in DOMAIN batch
    BY <1>1 DEF PlaceInv, BatchOK
  <2>4. /\ answer = "result" => worker'[Cursor] = "returned"
        /\ answer = "error" => batch[Cursor].args # "object"
    BY <1>1 DEF WorkersOK
  <2> QED BY <1>1, <1>3, <2>1, <2>2, <2>3, <2>4, StartedAfter
<1>6. Promise!Answer
  <2>1. answer \in MayAnswer(batch[Cursor], stopSeen)
    BY <1>1, BatchCalls DEF MayAnswer, Runnable, StartedInv
  <2>2. \A k \in 1 .. 1 : <<answer>>[k] \in MayAnswer(batch[Len(answers) + k], stopSeen)
    BY <1>1, <2>1
  <2>3. 1 \in 1 .. Len(batch) - Len(answers)
    BY <1>1
  <2> HIDE DEF MayAnswer
  <2> QED BY <1>1, <1>2, <2>2, <2>3, AnswerStep
<1> QED BY <1>4, <1>5, <1>6

LEMMA CollectAnswers ==
  ASSUME IInv, CollectResults
  PROVE  PlaceInv' /\ StartedInv' /\ Promise!Answer
<1> DEFINE c == segments[Here].calls
           chunk == [i \in DOMAIN c |-> ParallelAnswer(c[i])]
<1>1. /\ pc \in {"polling", "grace"} /\ pc' = "next"
      /\ UNCHANGED <<batch, segments, stopSeen, started>>
      /\ worker' = Cancelled(worker) /\ answers' = answers \o chunk
  BY DEF CollectResults, InParallel, planVars
<1>2. /\ Covered /\ PlaceInv /\ StartedInv /\ BatchOK /\ WorkersOK
      /\ answers \in Seq(Answers) /\ Len(answers) \in Nat /\ Cursor = Len(answers) + 1
      /\ Cursor <= Len(batch) /\ Len(batch) \in Nat /\ DOMAIN batch = 1 .. Len(batch)
      /\ segments[Here].kind = "parallel" /\ c[1] = Cursor
  BY <1>1 DEF IInv, WInv, Covered, PlanInv, PlaceInv, Cursor, BatchOK, InParallel
<1>3. /\ Here \in DOMAIN segments /\ c \in Seq(Nat) /\ DOMAIN c = 1 .. Len(c)
      /\ Len(c) \in Nat \ {0} /\ Last(c) = Len(answers) + Len(c) /\ Last(c) <= Len(batch)
      /\ HereCalls = Cursor .. Last(c)
  <2>1. /\ Here \in DOMAIN segments /\ c \in Seq(Nat) /\ DOMAIN c = 1 .. Len(c)
        /\ Len(c) \in Nat \ {0} /\ Last(c) = c[1] + Len(c) - 1 /\ Last(c) \in Cursor .. Len(batch)
        /\ HereCalls = c[1] .. Last(c)
    BY <1>2, AtHand
  <2> HIDE DEF c
  <2> QED BY <1>2, <2>1
<1>4. \A i \in DOMAIN c : c[i] = Len(answers) + i /\ Admitted(batch[c[i]])
  <2>1. \A i \in DOMAIN c : c[i] = c[1] + i - 1 /\ InRunOf(batch, c[i])
    BY <1>2, <1>3 DEF Covered, Covers
  <2> HIDE DEF c
  <2>2. \A i \in DOMAIN c : c[i] = Len(answers) + i
    BY <1>2, <1>3, <2>1
  <2>3. \A i \in DOMAIN c : Admitted(batch[c[i]])
    BY <2>1 DEF InRunOf
  <2> QED BY <2>2, <2>3
<1> HIDE DEF c
<1>5. /\ chunk \in Seq(Answers) /\ Len(chunk) = Len(c) /\ DOMAIN chunk = 1 .. Len(c)
      /\ \A i \in DOMAIN c : chunk[i] = ParallelAnswer(Len(answers) + i)
  BY <1>3, <1>4 DEF ParallelAnswer, Answers
<1> HIDE DEF chunk
<1>6. Len(answers') = Last(c) /\ answers' \in Seq(Answers)
  BY <1>1, <1>2, <1>3, <1>5, MoreAnswers
<1>7. PlaceInv'
  BY <1>1, <1>2, <1>6, PlaceAfter DEF c
<1>8. /\ worker' \in [DOMAIN batch -> {"none", "queued", "running", "returned", "raised",
                                       "cancelled", "abandoned"}]
      /\ \A k \in DOMAIN batch :
           /\ worker'[k] \notin {"queued", "running"}
           /\ worker[k] = "returned" <=> worker'[k] = "returned"
           /\ worker'[k] \in {"raised", "abandoned"} =>
                worker[k] \in {"running", "raised", "abandoned"}
  BY <1>1, <1>2 DEF Cancelled, WorkersOK
<1>9. StartedInv'
  <2>1. Len(answers') >= Len(answers)
    BY <1>2, <1>3, <1>6
  <2>2. \A k \in started : k <= Len(answers')
    BY <1>2, <1>3, <1>6 DEF StartedInv
  <2>3. \A k \in DOMAIN batch :
          /\ worker[k] = "returned" => worker'[k] = "returned"
          /\ worker'[k] = "queued" => worker[k] = "queued"
          /\ worker'[k] \in {"running", "returned", "raised", "abandoned"} => k \in started
    BY <1>2, <1>8 DEF StartedInv
  <2>4. ASSUME NEW k \in DOMAIN answers'
        PROVE  \/ k \in DOMAIN answers /\ k \in DOMAIN batch /\ answers'[k] = answers[k]
               \/ /\ answers'[k] = "result" => worker'[k] = "returned"
                  /\ answers'[k] = "error" => batch[k].args # "object"
    <3>1. CASE k \in DOMAIN answers /\ answers'[k] = answers[k]
      BY <1>2, <1>3, <3>1
    <3>2. CASE /\ k - Len(answers) \in DOMAIN chunk /\ k > Len(answers)
               /\ answers'[k] = chunk[k - Len(answers)]
      <4>1. k \in Nat /\ Len(answers) + (k - Len(answers)) = k
        BY <1>2, <1>6
      <4>2. answers'[k] = ParallelAnswer(k) /\ k \in DOMAIN batch
        BY <1>2, <1>3, <1>5, <3>2, <4>1
      <4> QED BY <1>8, <4>2 DEF ParallelAnswer
    <3> QED BY <1>1, <1>2, <1>5, <3>1, <3>2, MoreAnswers
  <2> QED BY <1>1, <1>2, <1>6, <2>1, <2>2, <2>3, <2>4, StartedAfter
<1>10. Promise!Answer
  <2>1. Len(chunk) \in 1 .. Len(batch) - Len(answers)
    BY <1>2, <1>3, <1>5
  <2>2. ASSUME NEW i \in 1 .. Len(chunk)
        PROVE  chunk[i] \in MayAnswer(batch[Len(answers) + i], stopSeen)
    <3> DEFINE k == Len(answers) + i
    <3>1. k \in DOMAIN batch /\ i \in DOMAIN c /\ chunk[i] = ParallelAnswer(k)
      <4>1. i \in 1 .. Len(c) /\ i \in DOMAIN c
        BY <1>3, <1>5
      <4>2. k \in 1 .. Len(batch)
        BY <1>2, <1>3, <4>1
      <4>3. chunk[i] = ParallelAnswer(k)
        BY <1>5, <4>1
      <4> QED BY <1>2, <4>1, <4>2, <4>3
    <3>2. Admitted(batch[k]) /\ Known(batch[k])
      BY <1>2, <1>4, <3>1, BatchCalls
    <3>3. worker[k] = "returned" => batch[k].args = "object"
      BY <1>2, <3>1 DEF StartedInv
    <3> HIDE DEF k
    <3> QED BY <3>1, <3>2, <3>3 DEF ParallelAnswer, MayAnswer, Runnable, Admitted, k
  <2> QED BY <1>1, <1>5, <2>1, <2>2, AnswerStep
<1> QED BY <1>7, <1>9, <1>10
-----------------------------------------------------------------------------
\* The invariant.

\* The workers move on while the answers stand.
LEMMA StartedStands ==
  ASSUME StartedInv, UNCHANGED <<batch, segments, answers, started>>,
         \/ pc' = pc
         \/ pc' = "aborted"
         \/ pc' = "complete" /\ pc = "next"
         \/ pc' \in {"polling", "grace"},
         \A k \in DOMAIN batch :
           /\ worker'[k] = "queued" => batch[k].args = "object"
           /\ worker'[k] \in {"running", "returned", "raised", "abandoned"} => k \in started
           /\ worker[k] = "returned" => worker'[k] = "returned",
         DOMAIN answers \subseteq DOMAIN batch
  PROVE  StartedInv'
<1>1. Cursor' = Cursor /\ HereCalls' = HereCalls
  BY SameSegment
<1>2. \A k \in DOMAIN answers :
        /\ answers[k] = "result" => worker'[k] = "returned"
        /\ answers[k] = "error" => batch[k].args # "object"
  BY DEF StartedInv
<1> QED BY <1>1, <1>2 DEF StartedInv

\* A handler starts, of a call of the segment at hand.
LEMMA StartedGrows ==
  ASSUME StartedInv, PlaceInv, BatchOK, WorkersOK, UNCHANGED <<batch, segments, answers>>,
         NEW k \in DOMAIN batch, Cursor <= Len(batch), k \in HereCalls,
         started' = started \cup {k}, worker' = [worker EXCEPT ![k] = "running"],
         batch[k].args = "object",
         \/ InParallel /\ pc' = pc /\ worker[k] = "queued"
         \/ pc = "next" /\ pc' = "running" /\ k = Cursor
  PROVE  StartedInv'
<1>1. Cursor' = Cursor /\ HereCalls' = HereCalls
  BY SameSegment
<1>2. Cursor = Len(answers) + 1 /\ Len(answers) \in Nat /\ DOMAIN answers = 1 .. Len(answers)
  BY DEF PlaceInv, Cursor
<1>3. \A j \in DOMAIN batch : j # k => worker'[j] = worker[j]
  BY DEF WorkersOK
<1>4. worker'[k] = "running"
  BY DEF WorkersOK
<1>5. pc' = "running" => Cursor \in started' /\ \A j \in started' : j <= Cursor
  <2>1. pc' = "running" => pc = "next" /\ k = Cursor
    BY DEF InParallel
  <2>2. ASSUME pc = "next"
        PROVE  \A j \in started : j <= Len(answers)
    BY <2>2 DEF StartedInv
  <2>3. started \subseteq Nat
    BY DEF StartedInv, BatchOK
  <2> QED BY <1>2, <2>1, <2>2, <2>3
<1>6. pc' \notin {"planning", "next", "complete"}
  BY DEF InParallel
<1>7. \A j \in DOMAIN batch :
        /\ worker'[j] = "queued" => batch[j].args = "object"
        /\ worker'[j] \in {"running", "returned", "raised", "abandoned"} => j \in started'
  BY <1>3, <1>4 DEF StartedInv
<1>8. ASSUME NEW j \in DOMAIN answers
      PROVE  /\ answers[j] = "result" => worker'[j] = "returned"
             /\ answers[j] = "error" => batch[j].args # "object"
  <2>1. worker[k] = "returned" => k = Cursor
    BY DEF InParallel
  <2>2. j # Cursor /\ j \in DOMAIN batch
    BY <1>2 DEF PlaceInv, BatchOK
  <2> QED BY <1>3, <2>1, <2>2 DEF StartedInv
<1>9. started' \subseteq DOMAIN batch /\ \A j \in started' :
        /\ batch[j].args = "object"
        /\ j <= Len(answers) \/ (Cursor <= Len(batch) /\ j \in HereCalls)
  BY DEF StartedInv
<1> QED BY <1>1, <1>5, <1>6, <1>7, <1>8, <1>9 DEF StartedInv

\* What holds of a segment's execution.
LEMMA InSegment ==
  ASSUME IInv, pc \in {"running", "polling", "grace"} \/ AtSegment("sequential")
                 \/ AtSegment("parallel")
  PROVE  /\ Covered /\ PlaceInv /\ StartedInv /\ BatchOK /\ WorkersOK /\ AliveInv
         /\ answers \in Seq(Answers) /\ Len(answers) \in Nat /\ Cursor = Len(answers) + 1
         /\ Cursor <= Len(batch) /\ Cursor \in DOMAIN batch /\ Cursor \in HereCalls
         /\ DOMAIN answers \subseteq DOMAIN batch /\ Cursor \notin DOMAIN answers
         /\ HereCalls \subseteq DOMAIN batch
<1>1. /\ Covered /\ PlaceInv /\ StartedInv /\ BatchOK /\ WorkersOK /\ AliveInv
      /\ answers \in Seq(Answers) /\ Len(answers) \in Nat /\ Cursor = Len(answers) + 1
  BY DEF IInv, WInv, Covered, PlanInv, PlaceInv, Cursor, AtSegment
<1>2. Len(batch) \in Nat /\ DOMAIN batch = 1 .. Len(batch)
  BY <1>1 DEF BatchOK
<1>3. Cursor <= Len(batch)
  BY <1>1, <1>2 DEF PlaceInv, AtSegment
<1>4. DOMAIN answers = 1 .. Len(answers)
  BY <1>1
<1> QED BY <1>1, <1>2, <1>3, <1>4, AtHand

LEMMA LoopStepPlace ==
  ASSUME IInv, RefuseArguments \/ StartCall \/ SpawnWorkers \/ Finish
  PROVE  PlaceInv' /\ StartedInv'
<1>1. CASE RefuseArguments
  <2>1. /\ AtSegment("sequential") /\ pc = "next" /\ pc' = "next" /\ worker' = worker
        /\ UNCHANGED <<batch, segments, stopSeen, started>>
        /\ segments[Here].kind = "sequential" /\ answers' = Append(answers, "error")
        /\ batch[Cursor].args # "object" /\ "error" \in Answers
    BY <1>1 DEF RefuseArguments, AtSegment, planVars, Answers
  <2>2. Cursor <= Len(batch)
    BY <2>1, InSegment
  <2> QED BY <2>1, <2>2, OneAnswer
<1>2. CASE StartCall
  <2>1. /\ AtSegment("sequential") /\ pc = "next" /\ pc' = "running"
        /\ UNCHANGED <<batch, segments, answers>> /\ segments[Here].kind = "sequential"
        /\ batch[Cursor].args = "object" /\ started' = started \cup {Cursor}
        /\ worker' = [worker EXCEPT ![Cursor] = "running"]
    BY <1>2 DEF StartCall, AtSegment, planVars
  <2>2. PlaceInv'
    BY <2>1, InSegment, SameSegment DEF PlaceInv, InParallel
  <2>3. StartedInv'
    BY <2>1, InSegment, StartedGrows
  <2> QED BY <2>2, <2>3
<1>3. CASE SpawnWorkers
  <2>1. /\ AtSegment("parallel") /\ pc = "next" /\ pc' = "polling"
        /\ UNCHANGED <<batch, segments, answers, started>> /\ segments[Here].kind = "parallel"
        /\ worker' = [k \in DOMAIN batch |->
              IF k \in HereCalls /\ batch[k].args = "object" THEN "queued" ELSE worker[k]]
    BY <1>3 DEF SpawnWorkers, AtSegment, planVars
  <2>2. PlaceInv'
    BY <2>1, InSegment, SameSegment DEF PlaceInv, InParallel
  <2>3. ASSUME NEW k \in DOMAIN batch
        PROVE  /\ worker'[k] = "queued" => batch[k].args = "object"
               /\ worker'[k] \in {"running", "returned", "raised", "abandoned"} => k \in started
               /\ worker[k] = "returned" => worker'[k] = "returned"
    <3>1. k \in HereCalls => worker[k] # "returned"
      <4>1. k \in started => k <= Len(answers)
        BY <2>1, InSegment DEF StartedInv
      <4>2. k \in HereCalls => k >= Cursor
        <5>1. segments[Here].calls[1] = Cursor
          BY <2>1, InSegment DEF PlaceInv
        <5> QED BY <2>1, <5>1, InSegment, AtHand
      <4>3. worker[k] = "returned" => k \in started
        BY InSegment, <2>1 DEF StartedInv
      <4>4. k \in Nat /\ Len(answers) \in Nat /\ Cursor = Len(answers) + 1
        BY <2>1, InSegment DEF BatchOK
      <4> QED BY <4>1, <4>2, <4>3, <4>4
    <3>2. \/ worker'[k] = worker[k]
          \/ k \in HereCalls /\ worker'[k] = "queued" /\ batch[k].args = "object"
      BY <2>1
    <3> QED BY <2>1, <3>1, <3>2, InSegment DEF StartedInv
  <2>4. StartedInv'
    BY <2>1, <2>3, InSegment, StartedStands
  <2> QED BY <2>2, <2>4
<1>4. CASE Finish
  <2>1. pc = "next" /\ pc' = "complete" /\ UNCHANGED <<batch, segments, answers, started, worker>>
    BY <1>4 DEF Finish, planVars
  <2>2. PlaceInv /\ StartedInv /\ DOMAIN answers \subseteq DOMAIN batch
    BY DEF IInv, PlaceInv, BatchOK
  <2>3. PlaceInv'
    BY <2>1, <2>2 DEF PlaceInv, InParallel
  <2>4. StartedInv'
    BY <2>1, <2>2, StartedStands DEF StartedInv
  <2> QED BY <2>3, <2>4
<1> QED BY <1>1, <1>2, <1>3, <1>4

LEMMA PlanStepPlace ==
  ASSUME IInv, pc = "planning", PlanInv', PlanStep
  PROVE  PlaceInv' /\ StartedInv'
<1>1. pc' \in {"planning", "next"} /\ UNCHANGED <<batch, answers, worker, started>>
  BY DEF PlanStep, SingleSegment, JoinRun, PlanBarrier, EndPlan, Planning
<1>2. /\ answers = <<>> /\ PlaceInv /\ StartedInv /\ BatchOK /\ WorkersOK /\ Len(answers) = 0
      /\ Cursor' = 1
  BY <1>1 DEF IInv, WInv, PlaceInv, Cursor
<1>3. Len(batch) \in Nat \ {0} /\ started = {}
  <2>1. started \subseteq Nat \ {0} /\ \A k \in started : k <= 0
    BY <1>2 DEF StartedInv, BatchOK
  <2> QED BY <1>2, <2>1 DEF BatchOK
<1>4. StartedInv'
  BY <1>1, <1>2, <1>3 DEF StartedInv
<1>5. pc' = "next" => segments'[Here'].calls[1] = 1
  <2>1. SUFFICES ASSUME pc' = "next"
                 PROVE  segments'[Here'].calls[1] = 1
    OBVIOUS
  <2>2. Covers(batch, segments', Len(batch))
    BY <1>1, <2>1 DEF PlanInv
  <2>3. PICK s \in DOMAIN segments' : \E i \in DOMAIN segments'[s].calls :
          segments'[s].calls[i] = 1
    BY <1>3, <2>2 DEF Covers
  <2>4. Here' \in DOMAIN segments' /\ 1 \in ToSet(segments'[Here'].calls)
    <3>1. 1 \in ToSet(segments'[s].calls)
      BY <2>3 DEF ToSet
    <3>2. Here' = CHOOSE t \in DOMAIN segments' : 1 \in ToSet(segments'[t].calls)
      BY <1>2 DEF Here, SegmentOf
    <3> QED BY <3>1, <3>2
  <2>5. /\ segments'[Here'].calls[1] \in 1 .. Len(batch)
        /\ ToSet(segments'[Here'].calls)
             = segments'[Here'].calls[1] .. Last(segments'[Here'].calls)
    BY <1>3, <2>2, <2>4, SegmentCalls
  <2> QED BY <1>3, <2>4, <2>5
<1>6. PlaceInv'
  BY <1>1, <1>2, <1>3, <1>5 DEF PlaceInv, InParallel
<1> QED BY <1>4, <1>6

\* A handler that returns, raises or is given up, and a worker that starts or ends.
LEMMA WorkerStepPlace ==
  ASSUME IInv,
         \/ NoticeStop \/ CallReturns \/ CallRaises \/ CancelTurn
         \/ \E k \in DOMAIN batch : WorkerStarts(k) \/ WorkerEnds(k) \/ AbandonedEnds(k)
  PROVE  PlaceInv' /\ StartedInv'
<1>0. /\ PlaceInv /\ StartedInv /\ BatchOK /\ WorkersOK /\ AliveInv
      /\ DOMAIN answers \subseteq DOMAIN batch
  BY DEF IInv, WInv, PlaceInv, BatchOK
<1>1. CASE CallReturns
  <2>1. /\ pc = "running" /\ pc' = "next" /\ UNCHANGED <<batch, segments, stopSeen, started>>
        /\ worker' = [worker EXCEPT ![Cursor] = "returned"]
        /\ answers' = Append(answers, "result") /\ "result" \in Answers
    BY <1>1 DEF CallReturns, planVars, Answers
  <2>2. Cursor <= Len(batch) /\ segments[Here].kind = "sequential"
    BY <1>0, <2>1 DEF PlaceInv
  <2> QED BY <2>1, <2>2, OneAnswer
<1>2. CASE NoticeStop
  <2>1. /\ pc = "polling" /\ pc' = "grace"
        /\ UNCHANGED <<batch, segments, answers, worker, started>>
    BY <1>2 DEF NoticeStop, planVars
  <2>2. PlaceInv'
    BY <1>0, <2>1, SameSegment DEF PlaceInv, InParallel
  <2>3. StartedInv'
    BY <1>0, <2>1, StartedStands DEF StartedInv
  <2> QED BY <2>2, <2>3
<1>3. CASE CallRaises
  <2>1. /\ pc = "running" /\ pc' = "aborted" /\ UNCHANGED <<batch, segments, answers, started>>
        /\ worker' = [worker EXCEPT ![Cursor] = "raised"]
    BY <1>3 DEF CallRaises, planVars
  <2>2. PlaceInv'
    BY <1>0, <2>1 DEF PlaceInv, InParallel
  <2>3. StartedInv'
    <3>1. Cursor \in started /\ Cursor \in DOMAIN batch
      BY <1>0, <2>1 DEF StartedInv
    <3>2. worker[Cursor] # "returned" \/ Cursor \notin DOMAIN answers
      BY <1>0 DEF PlaceInv, Cursor
    <3>3. /\ \A k \in DOMAIN batch : k # Cursor => worker'[k] = worker[k]
          /\ worker'[Cursor] = "raised"
      BY <1>0, <2>1, <3>1 DEF WorkersOK
    <3>4. \A k \in DOMAIN answers :
            /\ answers[k] = "result" => worker'[k] = "returned"
            /\ answers[k] = "error" => batch[k].args # "object"
      <4>1. Cursor \notin DOMAIN answers
        BY <1>0 DEF PlaceInv, Cursor
      <4> QED BY <1>0, <3>3, <4>1 DEF StartedInv
    <3>5. Cursor' = Cursor /\ HereCalls' = HereCalls
      BY <2>1, SameSegment
    <3>6. \A k \in DOMAIN batch :
            /\ worker'[k] = "queued" => batch[k].args = "object"
            /\ worker'[k] \in {"running", "returned", "raised", "abandoned"} => k \in started
      BY <1>0, <3>1, <3>3 DEF StartedInv
    <3>7. /\ started \subseteq DOMAIN batch
          /\ \A k \in started :
               /\ batch[k].args = "object"
               /\ k <= Len(answers) \/ (Cursor <= Len(batch) /\ k \in HereCalls)
      BY <1>0 DEF StartedInv
    <3> QED BY <2>1, <3>4, <3>5, <3>6, <3>7 DEF StartedInv
  <2> QED BY <2>2, <2>3
<1>4. CASE CancelTurn
  <2>1. /\ pc' = "aborted" /\ UNCHANGED <<batch, segments, answers, started>>
        /\ worker' = Cancelled(worker)
    BY <1>4 DEF CancelTurn, planVars
  <2>2. PlaceInv'
    BY <1>0, <2>1 DEF PlaceInv, InParallel
  <2>3. \A k \in DOMAIN batch :
          /\ worker'[k] # "queued"
          /\ worker[k] = "returned" => worker'[k] = "returned"
          /\ worker'[k] \in {"running", "returned", "raised", "abandoned"} =>
               worker[k] \in {"running", "returned", "raised", "abandoned"}
    BY <1>0, <2>1 DEF Cancelled, WorkersOK
  <2>4. StartedInv'
    BY <1>0, <2>1, <2>3, StartedStands DEF StartedInv
  <2> QED BY <2>2, <2>4
<1>5. ASSUME NEW k \in DOMAIN batch, WorkerStarts(k) \/ WorkerEnds(k) \/ AbandonedEnds(k)
      PROVE  PlaceInv' /\ StartedInv'
  <2>1. pc' = pc /\ UNCHANGED <<batch, segments, answers>>
    BY <1>5 DEF WorkerStarts, WorkerEnds, AbandonedEnds, planVars
  <2>2. PlaceInv'
    BY <1>0, <2>1, SameSegment DEF PlaceInv, InParallel
  <2>3. CASE WorkerStarts(k)
    <3>1. /\ InParallel /\ worker[k] = "queued" /\ started' = started \cup {k}
          /\ worker' = [worker EXCEPT ![k] = "running"]
      BY <2>3 DEF WorkerStarts
    <3>2. k \in HereCalls /\ Cursor <= Len(batch) /\ batch[k].args = "object"
      BY <1>0, <3>1 DEF AliveInv, Alive, PlaceInv, StartedInv, InParallel
    <3>3. StartedInv'
      BY <1>0, <2>1, <3>1, <3>2, StartedGrows
    <3> QED BY <2>2, <3>3
  <2>4. CASE WorkerEnds(k) \/ AbandonedEnds(k)
    <3>1. PICK end \in {"returned", "raised", "cancelled"} :
            /\ worker' = [worker EXCEPT ![k] = end] /\ started' = started
            /\ worker[k] = "running" \/ (worker[k] = "abandoned" /\ end = "cancelled")
      BY <2>4 DEF WorkerEnds, AbandonedEnds
    <3>2. /\ \A j \in DOMAIN batch : j # k => worker'[j] = worker[j]
          /\ worker'[k] = end
      BY <1>0, <3>1 DEF WorkersOK
    <3>3. StartedInv'
      BY <1>0, <2>1, <3>1, <3>2, StartedStands DEF StartedInv
    <3> QED BY <2>2, <3>3
  <2> QED BY <1>5, <2>3, <2>4
<1> QED BY <1>1, <1>2, <1>3, <1>4, <1>5

LEMMA InvariantStep == IInv /\ [Next]_vars => IInv'
<1> SUFFICES ASSUME IInv, [Next]_vars
             PROVE  IInv'
  OBVIOUS
<1>0. WInv' /\ BatchOK /\ PlanInv /\ PlaceInv /\ StartedInv /\ batch' = batch
  <2>1. batch' = batch
    BY DEF Next, vars, Interrupt, ClearInterrupt, CancelTurn, LoopStep, PlanStep,
       SingleSegment, JoinRun, PlanBarrier, EndPlan, SkipRest, RefuseArguments, StartCall,
       SpawnWorkers, Finish, TimerStep, NoticeStop, CollectResults, HandlerStep, CallReturns,
       CallRaises, WorkerEnds, WorkerStarts, AbandonedEnds
  <2> QED BY <2>1, WorkersStep DEF IInv
<1>1. BatchOK'
  BY <1>0 DEF BatchOK
<1>2. CASE PlanStep
  <2>1. pc = "planning"
    BY <1>2 DEF PlanStep, SingleSegment, JoinRun, PlanBarrier, EndPlan, Planning
  <2>2. PlanInv'
    BY <1>0, <1>2, <2>1, PlanStepPlan
  <2> QED BY <1>0, <1>1, <1>2, <2>1, <2>2, PlanStepPlace DEF IInv
<1>3. CASE Interrupt \/ ClearInterrupt \/ UNCHANGED vars
  <2>1. UNCHANGED <<batch, planVars, pc, answers, worker, started>>
    BY <1>3 DEF Interrupt, ClearInterrupt, vars
  <2>2. PlanInv'
    BY <1>0, <2>1 DEF PlanInv, PlannerInv, planVars
  <2>3. PlaceInv' /\ StartedInv'
    BY <1>0, <2>1, SameSegment DEF PlaceInv, StartedInv, InParallel, planVars
  <2> QED BY <1>0, <1>1, <2>2, <2>3 DEF IInv
<1>4. CASE Next /\ ~PlanStep /\ ~Interrupt /\ ~ClearInterrupt
  <2>1. UNCHANGED planVars
    BY <1>4 DEF Next, CancelTurn, LoopStep, SkipRest, RefuseArguments, StartCall,
       SpawnWorkers, Finish, TimerStep, NoticeStop, CollectResults, HandlerStep, CallReturns,
       CallRaises, WorkerEnds, WorkerStarts, AbandonedEnds
  <2>2. \/ pc = "planning" /\ pc' = "planning"
        \/ pc # "planning" /\ pc' # "planning"
    BY <1>4 DEF Next, CancelTurn, LoopStep, SkipRest, RefuseArguments, StartCall,
       SpawnWorkers, Finish, TimerStep, NoticeStop, CollectResults, HandlerStep, CallReturns,
       CallRaises, WorkerEnds, WorkerStarts, AbandonedEnds, AtSegment, InParallel
  <2>3. PlanInv'
    BY <1>0, <2>1, <2>2 DEF PlanInv, PlannerInv, planVars
  <2>4. PlaceInv' /\ StartedInv'
    BY <1>4, LoopStepPlace, WorkerStepPlace, SkipRestAnswers, CollectAnswers
       DEF Next, LoopStep, TimerStep, HandlerStep
  <2> QED BY <1>0, <1>1, <2>3, <2>4 DEF IInv
<1> QED BY <1>2, <1>3, <1>4

\* The executor's invariant: who is alive, what the plan covers, and what the answers say.
THEOREM ExecutorInvariant == Spec => []IInv
<1>1. Init => IInv
  <2> SUFFICES ASSUME Init
               PROVE  IInv
    OBVIOUS
  <2>1. WInv /\ BatchOK /\ PlanInv
    BY WorkersInit, PlanInit
  <2>2. PlaceInv
    BY <2>1 DEF Init, PlaceInv, InParallel, BatchOK
  <2>3. StartedInv
    BY <2>1 DEF Init, StartedInv, BatchOK
  <2> QED BY <2>1, <2>2, <2>3 DEF IInv
<1> QED BY <1>1, InvariantStep, PTL DEF Spec
-----------------------------------------------------------------------------
\* The properties.

\* However a batch ends or a segment is left, no task is alive then.
THEOREM NoWorkerLeft == Spec => []NoWorkerLeftBehind
<1>1. IInv => NoWorkerLeftBehind
  BY DEF IInv, WInv, AliveInv, Alive, NoWorkerLeftBehind
<1> QED BY <1>1, ExecutorInvariant, PTL

\* An answer tells what became of its own call.
THEOREM AnswersMatch == Spec => []AnswersMatchCalls
<1>1. IInv => AnswersMatchCalls
  <2> SUFFICES ASSUME IInv, NEW k \in DOMAIN answers
               PROVE  /\ answers[k] = "result" => k \in started /\ worker[k] = "returned"
                      /\ answers[k] = "error" => k \notin started
    BY DEF AnswersMatchCalls
  <2>1. k \in DOMAIN batch
    BY DEF IInv, PlaceInv, BatchOK
  <2> QED BY <2>1 DEF IInv, StartedInv
<1> QED BY <1>1, ExecutorInvariant, PTL

\* A batch of any length is cut into its maximal runs of admitted calls and what lies
\* between them.
THEOREM PlanMaximal == Spec => []PlanIsMaximal
<1>1. IInv => PlanIsMaximal
  <2> SUFFICES ASSUME IInv, pc # "planning"
               PROVE  PlanIsMaximal
    BY DEF PlanIsMaximal
  <2>1. Covers(batch, segments, Len(batch)) /\ Len(batch) \in Nat /\ DOMAIN batch = 1 .. Len(batch)
    BY DEF IInv, PlanInv, BatchOK
  <2>2. UNION {ToSet(segments[s].calls) : s \in DOMAIN segments} = DOMAIN batch
    <3>1. \A s \in DOMAIN segments : ToSet(segments[s].calls) \subseteq DOMAIN batch
      BY <2>1 DEF Covers, ToSet
    <3>2. \A k \in DOMAIN batch : \E s \in DOMAIN segments : k \in ToSet(segments[s].calls)
      BY <2>1, OneSegment
    <3> QED BY <3>1, <3>2
  <2>3. ASSUME NEW s \in DOMAIN segments, NEW t \in DOMAIN segments,
               NEW i \in DOMAIN segments[s].calls, NEW j \in DOMAIN segments[t].calls,
               s < t \/ (s = t /\ i < j)
        PROVE  segments[s].calls[i] < segments[t].calls[j]
    <3>1. CASE s < t
      BY <2>1, <3>1 DEF Covers
    <3>2. CASE s = t /\ i < j
      <4> DEFINE c == segments[s].calls
      <4>1. c[i] = c[1] + i - 1 /\ c[j] = c[1] + j - 1 /\ c[i] \in Nat /\ c[j] \in Nat
        BY <2>1, <3>2 DEF Covers
      <4>2. i \in Nat /\ j \in Nat /\ c[1] \in Nat
        BY <2>1, <3>2, SegmentCalls
      <4> HIDE DEF c
      <4>3. c[i] < c[j]
        BY <3>2, <4>1, <4>2
      <4> QED BY <3>2, <4>3 DEF c
    <3> QED BY <2>3, <3>1, <3>2
  <2>4. \A s \in DOMAIN segments : \A k \in ToSet(segments[s].calls) :
          (segments[s].kind = "parallel") <=> InRun(k)
    BY <2>1 DEF Covers, ToSet, InRun, InRunOf
  <2>5. \A s \in DOMAIN segments : s > 1 => segments[s].kind # segments[s - 1].kind
    BY <2>1 DEF Covers
  <2> QED BY <2>2, <2>3, <2>4, <2>5 DEF PlanIsMaximal
<1> QED BY <1>1, ExecutorInvariant, PTL

\* No handler of a segment starts before all calls of the segments before it are answered,
\* and none runs beside another segment's unless it was given up.
THEOREM Barriers == Spec => []BarriersHold
<1>1. IInv => BarriersHold
  <2> SUFFICES ASSUME IInv
               PROVE  BarriersHold
    OBVIOUS
  <2>1. /\ PlaceInv /\ StartedInv /\ BatchOK /\ AliveInv /\ StopInv
        /\ WorkersOK /\ answers \in Seq(Answers) /\ Len(answers) \in Nat
        /\ Cursor = Len(answers) + 1 /\ Len(batch) \in Nat /\ DOMAIN batch = 1 .. Len(batch)
        /\ pc # "planning" => Covered
    BY DEF IInv, WInv, PlaceInv, BatchOK, Cursor, PlanInv, Covered
  <2>2. ASSUME NEW j \in Busy, NEW k \in Busy
        PROVE  SegmentOf(j) = SegmentOf(k)
    <3>1. j \in Alive /\ k \in Alive /\ j \in DOMAIN batch /\ k \in DOMAIN batch
      BY DEF Busy, Alive
    <3>2. CASE pc = "running"
      BY <2>1, <3>1, <3>2 DEF AliveInv
    <3>3. CASE InParallel
      <4>1. j \in HereCalls /\ k \in HereCalls /\ Covered /\ Cursor <= Len(batch)
        BY <2>1, <3>1, <3>3 DEF AliveInv, InParallel, PlaceInv
      <4>2. Here \in DOMAIN segments
        BY <2>1, <4>1, AtHand
      <4> QED BY <2>1, <3>1, <4>1, <4>2, OneSegment DEF HereCalls, Covered
    <3> QED BY <2>1, <3>1, <3>2, <3>3 DEF AliveInv, InParallel, WorkersOK
  <2>3. ASSUME NEW k \in started, NEW j \in 1 .. k, SegmentOf(j) < SegmentOf(k)
        PROVE  j <= Len(answers)
    <3>1. pc # "planning"
      <4>1. pc = "planning" => k <= Len(answers) /\ Len(answers) = 0
        BY <2>1 DEF StartedInv, PlaceInv
      <4> QED BY <2>1, <4>1 DEF StartedInv
    <3>2. k \in 1 .. Len(batch) /\ j \in 1 .. Len(batch)
      BY <2>1 DEF StartedInv
    <3>3. j < k
      BY <2>1, <2>3, <3>1, <3>2, EarlierSegment DEF Covered
    <3>4. CASE k <= Len(answers)
      BY <2>1, <3>2, <3>3, <3>4
    <3>5. CASE Cursor <= Len(batch) /\ k \in HereCalls
      <4>1. /\ Here \in DOMAIN segments /\ Cursor \in 1 .. Len(batch)
            /\ SegmentOf(Cursor) = Here
        BY <2>1, <3>1, <3>5, AtHand
      <4>2. SegmentOf(k) = Here
        BY <2>1, <3>1, <3>2, <3>5, <4>1, OneSegment DEF HereCalls, Covered
      <4>3. j < Cursor
        BY <2>1, <2>3, <3>1, <3>2, <4>1, <4>2, EarlierSegment DEF Covered
      <4> QED BY <2>1, <3>2, <4>3
    <3> QED BY <2>1, <3>4, <3>5 DEF StartedInv
  <2> QED BY <2>1, <2>2, <2>3 DEF BarriersHold, StopInv
<1> QED BY <1>1, ExecutorInvariant, PTL

-----------------------------------------------------------------------------
\* The promise: every step answers the next calls, hears of a stop, ends the batch, or is
\* none of the round's business.
LEMMA PromiseStep == IInv /\ [Next]_vars => [Promise!Next]_(Promise!vars)
<1> SUFFICES ASSUME IInv, [Next]_vars
             PROVE  [Promise!Next]_(Promise!vars)
  OBVIOUS
<1> DEFINE status == IF pc \in {"complete", "aborted"} THEN pc ELSE "open"
<1>1. ASSUME UNCHANGED <<batch, answers, stopSeen>>, status' = status
      PROVE  UNCHANGED Promise!vars
  BY <1>1 DEF Promise!vars
<1>2. CASE SkipRest \/ CollectResults
  BY <1>2, SkipRestAnswers, CollectAnswers DEF Promise!Next
<1>3. CASE RefuseArguments
  <2>1. /\ AtSegment("sequential") /\ pc = "next" /\ pc' = "next" /\ worker' = worker
        /\ UNCHANGED <<batch, segments, stopSeen, started>>
        /\ segments[Here].kind = "sequential" /\ answers' = Append(answers, "error")
        /\ batch[Cursor].args # "object" /\ "error" \in Answers
    BY <1>3 DEF RefuseArguments, AtSegment, planVars, Answers
  <2>2. Promise!Answer
    BY <2>1, InSegment, OneAnswer
  <2> QED BY <2>2 DEF Promise!Next
<1>4. CASE CallReturns
  <2>1. /\ pc = "running" /\ pc' = "next" /\ UNCHANGED <<batch, segments, stopSeen, started>>
        /\ worker' = [worker EXCEPT ![Cursor] = "returned"]
        /\ answers' = Append(answers, "result") /\ "result" \in Answers
    BY <1>4 DEF CallReturns, planVars, Answers
  <2>2. Cursor <= Len(batch) /\ segments[Here].kind = "sequential"
    BY <2>1 DEF IInv, PlaceInv
  <2>3. Promise!Answer
    BY <2>1, <2>2, OneAnswer
  <2> QED BY <2>3 DEF Promise!Next
<1>5. CASE Interrupt
  <2>1. Promise!StopComes
    BY <1>5 DEF Interrupt, Promise!StopComes
  <2> QED BY <2>1 DEF Promise!Next
<1>6. CASE Finish
  <2>1. Promise!Complete
    BY <1>6 DEF Finish, Promise!Complete
  <2> QED BY <2>1 DEF Promise!Next
<1>7. CASE CallRaises \/ CancelTurn
  <2>1. Promise!Abort
    BY <1>7 DEF CallRaises, CancelTurn, Promise!Abort
  <2> QED BY <2>1 DEF Promise!Next
<1>8. CASE PlanStep \/ ClearInterrupt \/ StartCall \/ SpawnWorkers \/ NoticeStop
  <2>1. UNCHANGED <<batch, answers, stopSeen>> /\ status' = status
    BY <1>8 DEF PlanStep, SingleSegment, JoinRun, PlanBarrier, EndPlan, Planning,
       ClearInterrupt, StartCall, SpawnWorkers, NoticeStop, AtSegment
  <2> QED BY <1>1, <2>1
<1>9. ASSUME NEW k \in DOMAIN batch, WorkerStarts(k) \/ WorkerEnds(k) \/ AbandonedEnds(k)
      PROVE  UNCHANGED Promise!vars
  <2>1. UNCHANGED <<batch, answers, stopSeen, pc>>
    BY <1>9 DEF WorkerStarts, WorkerEnds, AbandonedEnds
  <2> QED BY <1>1, <2>1
<1>10. CASE UNCHANGED vars
  BY <1>1, <1>10 DEF vars
<1> QED BY <1>2, <1>3, <1>4, <1>5, <1>6, <1>7, <1>8, <1>9, <1>10
        DEF Next, LoopStep, TimerStep, HandlerStep

\* The executor implements ToolBatch: what the round is told of a batch, and when, is what
\* that promises.
THEOREM ExecutorKeepsPromise == Spec => KeepsPromise
<1>1. Init => Promise!Init
  BY DEF Init, Promise!Init
<1> QED BY <1>1, ExecutorInvariant, PromiseStep, PTL DEF Spec, KeepsPromise, Promise!Spec

\* What the promise is worth to the round: the answers so far are ones their calls and the
\* stop account for, and a complete batch has one for each call.
Accounted ==
  /\ \A k \in DOMAIN answers : answers[k] \in MayAnswer(batch[k], stopSeen)
  /\ pc = "complete" => Len(answers) = Len(batch)

LEMMA AccountedStep ==
  ASSUME IInv, Accounted, [Promise!Next]_(Promise!vars)
  PROVE  Accounted'
<1> DEFINE status == IF pc \in {"complete", "aborted"} THEN pc ELSE "open"
<1>0. answers \in Seq(Answers) /\ (status = "complete" <=> pc = "complete")
      /\ (status' = "complete" <=> pc' = "complete")
  BY DEF IInv, PlaceInv
<1>1. CASE Promise!StopComes
  <2>1. /\ stopSeen' = TRUE /\ UNCHANGED <<batch, answers>> /\ status' = status
    BY <1>1 DEF Promise!StopComes
  <2>2. \A k \in DOMAIN answers : answers[k] \in MayAnswer(batch[k], TRUE)
    BY DEF Accounted, MayAnswer
  <2> QED BY <1>0, <2>1, <2>2 DEF Accounted
<1>2. CASE Promise!Answer
  <2>1. PICK n \in 1 .. Len(batch) - Len(answers) : \E chunk \in [1 .. n -> Promise!Answers] :
          /\ \A k \in 1 .. n :
               chunk[k] \in Promise!MayAnswer(batch[Len(answers) + k], stopSeen)
          /\ answers' = answers \o chunk
    BY <1>2 DEF Promise!Answer
  <2>2. PICK chunk \in [1 .. n -> Promise!Answers] :
          /\ \A k \in 1 .. n :
               chunk[k] \in Promise!MayAnswer(batch[Len(answers) + k], stopSeen)
          /\ answers' = answers \o chunk
    BY <2>1
  <2>3. UNCHANGED <<batch, stopSeen>> /\ status' = "open"
    BY <1>2 DEF Promise!Answer
  <2>4. n \in Nat
    BY <1>0, <2>1 DEF IInv, BatchOK
  <2>5. chunk \in Seq(Answers) /\ Len(chunk) = n /\ DOMAIN chunk = 1 .. n
    BY <2>4 DEF Answers, Promise!Answers
  <2>6. \A k \in 1 .. n : chunk[k] \in MayAnswer(batch[Len(answers) + k], stopSeen)
    BY <2>2 DEF MayAnswer, Promise!MayAnswer, Runnable, Promise!Runnable, Known, Promise!Known
  <2>7. ASSUME NEW k \in DOMAIN answers'
        PROVE  answers'[k] \in MayAnswer(batch[k], stopSeen)
    <3>1. CASE k \in DOMAIN answers /\ answers'[k] = answers[k]
      BY <3>1 DEF Accounted
    <3>2. CASE /\ k - Len(answers) \in DOMAIN chunk /\ k > Len(answers)
               /\ answers'[k] = chunk[k - Len(answers)]
      <4>1. k \in Nat /\ Len(answers) \in Nat
        BY <1>0, <2>2, <2>5, MoreAnswers
      <4>2. Len(answers) + (k - Len(answers)) = k
        BY <4>1
      <4>3. chunk[k - Len(answers)]
              \in MayAnswer(batch[Len(answers) + (k - Len(answers))], stopSeen)
        BY <2>5, <2>6, <3>2
      <4> QED BY <3>2, <4>2, <4>3
    <3> QED BY <1>0, <2>2, <2>5, <3>1, <3>2, MoreAnswers
  <2> QED BY <1>0, <2>3, <2>7 DEF Accounted
<1>3. CASE Promise!Complete
  <2>1. Len(answers) = Len(batch) /\ UNCHANGED <<batch, answers, stopSeen>>
    BY <1>3 DEF Promise!Complete
  <2> QED BY <2>1 DEF Accounted
<1>4. CASE Promise!Abort \/ UNCHANGED Promise!vars
  <2>1. UNCHANGED <<batch, answers, stopSeen>> /\ (status' = "complete" => status = "complete")
    BY <1>4 DEF Promise!Abort, Promise!vars
  <2> QED BY <1>0, <2>1 DEF Accounted
<1> QED BY <1>1, <1>2, <1>3, <1>4 DEF Promise!Next

\* A batch that ends without an exception or a cancellation has exactly one answer for each
\* call, in the order of the calls, of the kinds the turn loop is modelled to receive.
THEOREM EveryCallAnswered ==
  Spec => [](pc = "complete" =>
               /\ DOMAIN answers = DOMAIN batch
               /\ \A k \in DOMAIN batch : answers[k] \in MayAnswer(batch[k], stopSeen))
<1>1. Init => Accounted
  BY DEF Init, Accounted
<1>2. IInv /\ Accounted /\ [Next]_vars => Accounted'
  BY PromiseStep, AccountedStep
<1>3. IInv /\ Accounted =>
        (pc = "complete" =>
           /\ DOMAIN answers = DOMAIN batch
           /\ \A k \in DOMAIN batch : answers[k] \in MayAnswer(batch[k], stopSeen))
  <2> SUFFICES ASSUME IInv, Accounted, pc = "complete"
               PROVE  /\ DOMAIN answers = DOMAIN batch
                      /\ \A k \in DOMAIN batch : answers[k] \in MayAnswer(batch[k], stopSeen)
    OBVIOUS
  <2>1. DOMAIN answers = DOMAIN batch
    BY DEF IInv, BatchOK, PlaceInv, Accounted
  <2> QED BY <2>1 DEF Accounted
<1> QED BY <1>1, <1>2, <1>3, ExecutorInvariant, PTL DEF Spec
=============================================================================
