---------------------------- MODULE ToolExecutor ----------------------------
(***************************************************************************)
(* tool_executor.py: one batch of valid tool calls, cut into sequential    *)
(* and parallel segments; the workers of a parallel segment behind a       *)
(* semaphore; a stop request met by polling and a grace period.            *)
(***************************************************************************)
EXTENDS ToolCalls, SequencesExt

CONSTANTS
  Batches,    \* the batches a round may hand over
  MaxWorkers  \* _MAX_TOOL_WORKERS = 8

ASSUME MaxWorkersAssumption == MaxWorkers \in Nat \ {0}

\* What reaches the executor: at least one call, of known tools, with arguments that
\* json.loads accepted.
ASSUME BatchesAssumption ==
  \A b \in Batches :
    b # <<>> /\ b \in Seq([name : KnownTools, args : ValidJson])

\* _batch_admission: json.loads admits NaN, so a "nonfinite" object passes.
Admitted(call) == call.name \in ParallelTools /\ call.args \in {"object", "nonfinite"}

\* A call stands in a segment by its place in the batch.
Segment(kind, calls) == [kind |-> kind, calls |-> calls]

\* Mutant of ExtendSequential: a segment for each call.
ExtendSequentialUnmerged(plan, calls) == Append(plan, Segment("sequential", calls))

\* _extend_sequential: adjacent sequential segments merge.
ExtendSequential(plan, calls) ==
  IF plan # <<>> /\ plan[Len(plan)].kind = "sequential"
  THEN [plan EXCEPT ![Len(plan)].calls = @ \o calls]
  ELSE Append(plan, Segment("sequential", calls))

\* _close_parallel: a run shorter than two calls is sequential.
CloseParallel(plan, run) ==
  IF Len(run) >= 2 THEN Append(plan, Segment("parallel", run))
  ELSE IF run # <<>> THEN ExtendSequential(plan, run)
  ELSE plan

VARIABLES
  batch,
  segments,   \* the plan of the batch
  current,    \* the run of admitted calls the planner has come to
  planned,    \* calls the planner has seen
  pc,         \* "planning", "next" before a call or segment, "running" a sequential
              \* call, "polling" or "grace" in a parallel segment, "complete" or "aborted"
  answers,    \* answers appended to the round's list
  worker,     \* per call of the batch: "none", "queued" at the semaphore, "running",
              \* "returned", "raised", "cancelled", or "abandoned" while its handler goes on
  stop,       \* the signal's flag
  stopSeen,   \* history variable: the flag was set at some time in the batch
  started     \* history variable: the calls whose handler was started

planVars == <<segments, current, planned>>
vars == <<batch, planVars, pc, answers, worker, stop, stopSeen, started>>

SegmentOf(k) == CHOOSE s \in DOMAIN segments : k \in ToSet(segments[s].calls)

\* The call a sequential segment has come to, or the first of a parallel one: within that
\* nothing is appended before its end.
Cursor == Len(answers) + 1

\* The segment the next answer belongs to.
Here == SegmentOf(Cursor)

HereCalls == ToSet(segments[Here].calls)

InParallel == pc \in {"polling", "grace"}

Pending == {k \in HereCalls : worker[k] \in {"queued", "running"}}

Init ==
  /\ batch \in Batches
  /\ segments = <<>> /\ current = <<>> /\ planned = 0
  /\ pc = "planning"
  /\ answers = <<>>
  /\ worker = [k \in DOMAIN batch |-> "none"]
  /\ stop \in BOOLEAN
  /\ stopSeen = stop
  /\ started = {}

\* A stop requested or withdrawn from any thread.
Interrupt ==
  /\ pc \notin {"complete", "aborted"}
  /\ ~stop
  /\ stop' = TRUE
  /\ stopSeen' = TRUE
  /\ UNCHANGED <<batch, planVars, pc, answers, worker, started>>

ClearInterrupt ==
  /\ pc \notin {"complete", "aborted"}
  /\ stop
  /\ stop' = FALSE
  /\ UNCHANGED <<batch, planVars, pc, answers, worker, stopSeen, started>>

-----------------------------------------------------------------------------
\* _plan_tool_batch_segments, one step for each round of its loop.

\* A batch of one call needs no plan.
SingleSegment ==
  /\ pc = "planning"
  /\ Len(batch) <= 1
  /\ segments' = <<Segment("sequential", [k \in DOMAIN batch |-> k])>>
  /\ pc' = "next"
  /\ UNCHANGED <<batch, current, planned, answers, worker, stop, stopSeen, started>>

Planning == pc = "planning" /\ Len(batch) > 1

JoinRun ==
  /\ Planning
  /\ planned < Len(batch) /\ Admitted(batch[planned + 1])
  /\ current' = Append(current, planned + 1)
  /\ planned' = planned + 1
  /\ UNCHANGED <<batch, segments, pc, answers, worker, stop, stopSeen, started>>

\* A call that is not admitted is a barrier.
PlanBarrier ==
  /\ Planning
  /\ planned < Len(batch) /\ ~Admitted(batch[planned + 1])
  /\ segments' = ExtendSequential(CloseParallel(segments, current), <<planned + 1>>)
  /\ current' = <<>>
  /\ planned' = planned + 1
  /\ UNCHANGED <<batch, pc, answers, worker, stop, stopSeen, started>>

EndPlan ==
  /\ Planning
  /\ planned = Len(batch)
  /\ segments' = CloseParallel(segments, current)
  /\ current' = <<>>
  /\ pc' = "next"
  /\ UNCHANGED <<batch, planned, answers, worker, stop, stopSeen, started>>

PlanStep == SingleSegment \/ JoinRun \/ PlanBarrier \/ EndPlan
-----------------------------------------------------------------------------
AtSegment(kind) ==
  /\ pc = "next"
  /\ Len(answers) < Len(batch)
  /\ segments[Here].kind = kind

\* Mutant of SkipRest: it fills up the whole segment, not what is left of it.
SkipRestWhole ==
  /\ AtSegment("sequential") \/ AtSegment("parallel")
  /\ stop
  /\ answers' = answers \o [k \in 1 .. Len(segments[Here].calls) |-> "skipped"]
  /\ UNCHANGED <<batch, planVars, pc, worker, stop, stopSeen, started>>

\* Both executors answer what is left of the segment when they see the stop: the
\* sequential one before each call, the concurrent one before any.
SkipRest ==
  /\ AtSegment("sequential") \/ AtSegment("parallel")
  /\ stop
  /\ answers' = answers \o [k \in 1 .. Last(segments[Here].calls) - Len(answers) |-> "skipped"]
  /\ UNCHANGED <<batch, planVars, pc, worker, stop, stopSeen, started>>
-----------------------------------------------------------------------------
\* execute_tool_calls_sequential

RefuseArguments ==
  /\ AtSegment("sequential")
  /\ ~stop
  /\ batch[Cursor].args # "object"
  /\ answers' = Append(answers, "error")
  /\ UNCHANGED <<batch, planVars, pc, worker, stop, stopSeen, started>>

StartCall ==
  /\ AtSegment("sequential")
  /\ ~stop
  /\ batch[Cursor].args = "object"
  /\ worker' = [worker EXCEPT ![Cursor] = "running"]
  /\ started' = started \cup {Cursor}
  /\ pc' = "running"
  /\ UNCHANGED <<batch, planVars, answers, stop, stopSeen>>

CallReturns ==
  /\ pc = "running"
  /\ answers' = Append(answers, "result")
  /\ worker' = [worker EXCEPT ![Cursor] = "returned"]
  /\ pc' = "next"
  /\ UNCHANGED <<batch, planVars, stop, stopSeen, started>>

\* An exception that dispatch does not turn into a result leaves the executor.
CallRaises ==
  /\ pc = "running"
  /\ worker' = [worker EXCEPT ![Cursor] = "raised"]
  /\ pc' = "aborted"
  /\ UNCHANGED <<batch, planVars, answers, stop, stopSeen, started>>
-----------------------------------------------------------------------------
\* execute_tool_calls_concurrent

\* One task per call with object arguments; none runs before the next await.
SpawnWorkers ==
  /\ AtSegment("parallel")
  /\ ~stop
  /\ worker' = [k \in DOMAIN batch |->
                  IF k \in HereCalls /\ batch[k].args = "object" THEN "queued" ELSE worker[k]]
  /\ pc' = "polling"
  /\ UNCHANGED <<batch, planVars, answers, stop, stopSeen, started>>

\* Mutant of Busy: a worker that raises keeps its place.
BusyLeaks == {k \in DOMAIN batch : worker[k] \in {"running", "raised"}}

\* The calls that hold the semaphore.
Busy == {k \in DOMAIN batch : worker[k] = "running"}

\* The semaphore admits its waiters in order.
WorkerStarts(k) ==
  /\ InParallel
  /\ worker[k] = "queued"
  /\ \A j \in HereCalls : worker[j] = "queued" => k <= j
  /\ Cardinality(Busy) < MaxWorkers
  /\ worker' = [worker EXCEPT ![k] = "running"]
  /\ started' = started \cup {k}
  /\ UNCHANGED <<batch, planVars, pc, answers, stop, stopSeen>>

\* _worker ends: with a result, or with an exception nobody retrieves.
WorkerEnds(k) ==
  /\ InParallel
  /\ worker[k] = "running"
  /\ \E end \in {"returned", "raised"} : worker' = [worker EXCEPT ![k] = end]
  /\ UNCHANGED <<batch, planVars, pc, answers, stop, stopSeen, started>>

\* Mutant of NoticeStop: the grace period starts without a stop.
NoticeStopUnasked ==
  /\ pc = "polling"
  /\ Pending # {}
  /\ Pending = Busy \/ Cardinality(Busy) = MaxWorkers
  /\ pc' = "grace"
  /\ UNCHANGED <<batch, planVars, answers, worker, stop, stopSeen, started>>

\* _await_batch: a poll that finds the stop grants the grace period.  A poll lasts
\* long enough for every worker that finds the semaphore free to have started.
NoticeStop ==
  /\ pc = "polling"
  /\ Pending # {}
  /\ Pending = Busy \/ Cardinality(Busy) = MaxWorkers
  /\ stop
  /\ pc' = "grace"
  /\ UNCHANGED <<batch, planVars, answers, worker, stop, stopSeen, started>>

\* A cancelled task: one at the semaphore ends, one in its handler is given up,
\* and the handler may go on in its thread.
Cancelled(workers) ==
  [k \in DOMAIN workers |->
     CASE workers[k] = "queued" -> "cancelled"
       [] workers[k] = "running" -> "abandoned"
       [] OTHER -> workers[k]]

\* Mutant of ParallelAnswer: every worker that is done has a result.
ParallelAnswerIfDone(k) ==
  IF batch[k].args # "object" THEN "error"
  ELSE IF worker[k] \in {"returned", "raised"} THEN "result" ELSE "skipped"

\* Refused arguments are answered first, then what the workers returned; what is
\* still missing gets the cancellation text.
ParallelAnswer(k) ==
  IF batch[k].args # "object" THEN "error"
  ELSE IF worker[k] = "returned" THEN "result" ELSE "skipped"

\* Mutants of CollectResults: the tasks still pending are not cancelled; or they are
\* awaited for ever.
CollectResultsOnly ==
  /\ InParallel
  /\ Pending = {} \/ pc = "grace"
  /\ answers' = answers \o [i \in DOMAIN segments[Here].calls |->
                              ParallelAnswer(segments[Here].calls[i])]
  /\ pc' = "next"
  /\ UNCHANGED <<batch, planVars, worker, stop, stopSeen, started>>

CollectResultsOfAll ==
  /\ InParallel
  /\ Pending = {}
  /\ answers' = answers \o [i \in DOMAIN segments[Here].calls |->
                              ParallelAnswer(segments[Here].calls[i])]
  /\ worker' = Cancelled(worker)
  /\ pc' = "next"
  /\ UNCHANGED <<batch, planVars, stop, stopSeen, started>>

\* All workers are done, or the grace period is over.
CollectResults ==
  /\ InParallel
  /\ Pending = {} \/ pc = "grace"
  /\ answers' = answers \o [i \in DOMAIN segments[Here].calls |->
                              ParallelAnswer(segments[Here].calls[i])]
  /\ worker' = Cancelled(worker)
  /\ pc' = "next"
  /\ UNCHANGED <<batch, planVars, stop, stopSeen, started>>

\* The thread of an abandoned call comes to its end.
AbandonedEnds(k) ==
  /\ worker[k] = "abandoned"
  /\ worker' = [worker EXCEPT ![k] = "cancelled"]
  /\ UNCHANGED <<batch, planVars, pc, answers, stop, stopSeen, started>>
-----------------------------------------------------------------------------
\* The caller's task is cancelled while it awaits the batch.
CancelTurn ==
  /\ pc \in {"running", "polling", "grace"}
  /\ worker' = Cancelled(worker)
  /\ pc' = "aborted"
  /\ UNCHANGED <<batch, planVars, answers, stop, stopSeen, started>>

Finish ==
  /\ pc = "next"
  /\ Len(answers) = Len(batch)
  /\ pc' = "complete"
  /\ UNCHANGED <<batch, planVars, answers, worker, stop, stopSeen, started>>

LoopStep == PlanStep \/ SkipRest \/ RefuseArguments \/ StartCall \/ SpawnWorkers \/ Finish
TimerStep == NoticeStop \/ CollectResults
HandlerStep == CallReturns \/ CallRaises \/ \E k \in DOMAIN batch : WorkerEnds(k)

Next ==
  \/ Interrupt \/ ClearInterrupt \/ CancelTurn
  \/ LoopStep \/ TimerStep \/ HandlerStep
  \/ \E k \in DOMAIN batch : WorkerStarts(k) \/ AbandonedEnds(k)

Spec == Init /\ [][Next]_vars

\* The event loop runs, its timers fire and the semaphore wakes a waiter when it has
\* room; a handler may hang.
FairSpec ==
  /\ Spec
  /\ WF_vars(LoopStep) /\ WF_vars(TimerStep) /\ WF_vars(\E k \in DOMAIN batch : WorkerStarts(k))

\* The handlers that were started return.
HandlersReturn == WF_vars(HandlerStep)
-----------------------------------------------------------------------------
\* Properties.

\* The executor keeps the promise the round relies on.
Promise == INSTANCE ToolBatch WITH
  status <- IF pc \in {"complete", "aborted"} THEN pc ELSE "open"
KeepsPromise == Promise!Spec

\* An answer tells what became of its own call: a result stands for a handler that
\* was started and returned, an error for one that never was.
AnswersMatchCalls ==
  \A k \in DOMAIN answers :
    /\ answers[k] = "result" => k \in started /\ worker[k] = "returned"
    /\ answers[k] = "error" => k \notin started

\* Segments are barriers: a handler still running beside one of another segment is
\* one that was abandoned after a stop.
BarriersHold ==
  /\ \A j, k \in Busy : SegmentOf(j) = SegmentOf(k)
  /\ (\E k \in DOMAIN batch : worker[k] = "abandoned") => stopSeen \/ pc = "aborted"
  /\ \A k \in started : \A j \in 1 .. k : SegmentOf(j) < SegmentOf(k) => j <= Len(answers)

\* No task of an ended batch is left behind.
NoWorkerLeftBehind ==
  pc \in {"next", "complete", "aborted"} =>
    \A k \in DOMAIN batch : worker[k] \notin {"queued", "running"}

\* The plan: every call, in their order, and a segment is parallel exactly when it is a
\* maximal run of at least two admitted calls.
InRun(k) ==
  /\ Admitted(batch[k])
  /\ \/ k > 1 /\ Admitted(batch[k - 1])
     \/ k < Len(batch) /\ Admitted(batch[k + 1])
PlanIsMaximal ==
  pc # "planning" =>
    /\ UNION {ToSet(segments[s].calls) : s \in DOMAIN segments} = DOMAIN batch
    /\ \A s, t \in DOMAIN segments :
         \A i \in DOMAIN segments[s].calls, j \in DOMAIN segments[t].calls :
           s < t \/ (s = t /\ i < j) => segments[s].calls[i] < segments[t].calls[j]
    /\ \A s \in DOMAIN segments : \A k \in ToSet(segments[s].calls) :
         (segments[s].kind = "parallel") <=> InRun(k)
    /\ \A s \in DOMAIN segments : s > 1 => segments[s].kind # segments[s - 1].kind

\* Every batch ends if handlers do, however long its queue at the semaphore is.
BatchEnds == HandlersReturn => <>(pc \in {"complete", "aborted"})

\* A stop ends a parallel segment, or is withdrawn, even if its handlers hang.
StopEndsSegment == (InParallel /\ stop) ~> (~InParallel \/ ~stop)
=============================================================================
