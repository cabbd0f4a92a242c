# TLA+ models of mertina-agent

mertina-agent is a Python agent loop: a caller hands `Agent.run_conversation` a
question and a history, and the agent alternates between asking a model and running
the tools the model calls until the model answers, something fails, the budget is
spent or somebody asks it to stop. The code is asyncio on one event loop per turn;
stop requests may come from any thread.

This directory holds TLA+ modules for the parts of the agent whose correctness depends
on order, interruption and failure, the TLC configurations that check them on small
instances, and proofs that TLAPS checks for all instances. Paths below are relative to
`src/mertina_agent/`.

    tlc -config TurnSafety.cfg MCConversationTurn     # any run: <cfg> <MC module>
    tlapm ConversationTurnProofs.tla                  # any *Proofs module

## The system

| Component | State | Operations | Talks to |
|---|---|---|---|
| Agent facade (`agent/core.py`, `agent/events.py`) | `_running`, the signal, whether the client is closed | `run_conversation`, `interrupt`, `clear_interrupt`, `aclose` | turn loop; caller's tasks and threads |
| Turn loop (`agent/conversation_loop.py` and the `turn_*.py` phases) | messages, call counter, budget, strikes, exit reason, flags | begin, iterate, request, retry, take a reply, run a round, finalize | model client, executor, signal |
| History (`message_sanitization.py`, `turn_loop_errors.py`, `turn_failure_copy.py`) | the list of messages | close an open tail | turn loop; the caller keeps it between turns |
| Tool validation (`turn_tool_validation.py`) | two strike counters | judge a batch | turn loop |
| Tool executor (`agent/tool_executor.py`) | segments, worker tasks, results | plan, run in sequence, run in parallel, abandon | registry, signal |
| Interrupt signal (`agent/interrupt.py`) | flag, lock, waiters | `set`, `clear`, `wait` | every await of a turn; other threads |
| Streamed replies (`transports/chat_completions.py`, `ModelClient.stream`) | slots of tool calls, text, finish reason, usage, `_stream_options_unsupported` | feed a chunk, finish, ask again without the option | endpoint; turn loop's callbacks |
| Model client (`agent/model_client.py`) | open or closed | `complete`, `stream`, `aclose` | endpoint |
| Tool registry (`tools/registry.py`, `tools/model_tools.py`) | name to entry, a lock | `register`, `deregister`, list the tools of some toolsets, `dispatch` | facade's constructor, executor, other threads |
| Web search (`plugins/web/`, `tools/web_tools.py`) | a child process per search | start, poll, terminate, kill, reap | registry, signal |
| Retry delays, settings, prompts | none after start-up | pure functions | turn loop, facade |

What is hard to get right, and hard to test:

- *Every exit leaves another history.* A turn may end between any two awaits, by answer,
  failure, refusal, stop, spent budget or exception. The caller passes back what it got,
  so calls without answers, questions without a reply or a tail on a tool result break
  the next turn, not this one.
- *A stop races everything.* It may arrive before a call, with the reply, in a backoff,
  while tools run, after the turn is over, or be withdrawn; it may come from a thread.
- *Two kinds of counters, one loop.* Iterations, retries, two kinds of strikes and the
  summary's own retry together bound how often a model is asked.
- *Parallel tools.* Workers queue for a semaphore, outlive a grace period, raise, or are
  cancelled with their turn, and results must still line up with the calls.
- *Streams end anywhere.* What has arrived must not pass for what was meant.
- *A registry read in pieces.* A listing takes the lock once per toolset and once more for
  the declarations, while other threads register and deregister.
- *A child nobody may wait for.* A search's process may hang, ignore a signal or leave its
  output open, and the deadline, a stop, a cancellation and its answer all come at once.

`PROJECT.json` lists these as hazards, each at its line, with the properties that look
for it.

## The modules

**ConversationTurn** (with **History**, **ToolCalls**, **ToolValidation**) is the turn
loop. `pc` is the place of the loop: the code between two awaits is one action, except
that an action ends where the stop flag is read, since a thread may set it between two
reads. The await points are `calling` (a model request), `backoff`, `tools` and `summary`.
`stopSeen` records that the flag was raised during the present await: a waiter registered
then is woken even if the request is withdrawn at once, which is what `interrupt.py` does.
The actions follow the phase modules: `StopBeforeCall` and `BeginIteration` are the two
outcomes of `begin_iteration`; `SendRequest`, `ReplyArrives` and `AbandonCall` those of
`perform_api_call`; `CallFails...`, `RetriesExhausted`, `ScheduleRetry` and `Backoff...`
those of `handle_api_error`; `RefuseFiltered` and `ReturnTruncated` the intake;
`AskAgain`, `GiveUpOnCalls`, `StartTools`, `FinishTools` a tool round, whose answers
`InCallOrder` takes one by one from those of the executor and puts between the errors for
unknown tools; `LocalError` the outer error handler; `RequestSummary`, `Summary...` and
`Finalize` the finalizer. `Return` is the only way out with a result and performs what
both callers do on it: close a failed turn's tail and reset the signal. `RaiseOut` is an
exception or a cancellation that leaves `run_conversation`. A row of the history is its
role, the ids of the calls it makes or answers, and who wrote its text.

**ToolValidation** is `validate_tool_calls` as an operator on a batch and the two strike
counters. A call's arguments have a kind, which says what they are and how their text ends:
an object, an array or another JSON value, a number JSON does not have, text written whole
that is no JSON and ends in a bracket or not, text that was cut off after a nested bracket or
elsewhere, or text so deep that the parser raises something other than a decoding error. The
code cannot see what was cut off: `Truncated` is its guess from the last character
(`LooksCut`), which misses a cut after a nested bracket (`cutnested`) and takes arguments
written whole for cut (`stray`, and `scalar` beside a broken call of the same tool).
**ToolStrikes** feeds it the replies of one turn, with the trail of what they really were.

**ToolExecutor** is `execute_tool_calls`. The planner goes through the batch one call at a
time (`JoinRun`, `PlanBarrier`, `EndPlan`; `SingleSegment` for a batch of one), `current`
being the run it has gathered, and a segment holds the places its calls have in the batch.
Sequential segments then run call by call; a parallel one has one task per call,
`MaxWorkers` places at the semaphore (`Busy`), the poll that notices a stop, the grace
period, and the `finally` that cancels what is left. Which segment is at hand (`Here`)
follows from how many answers there are. A call abandoned in a thread stays `abandoned`
until the thread ends. **ToolBatch** is the promise a round relies on:
each call is answered once, in order, by an answer its arguments and the stop account for,
or the whole batch is aborted. `KeepsPromise` says that the first implements the second.
ConversationTurn uses the executor through that promise (`FinishTools`, `ToolsRaise`).

**InterruptSignal** has one action per access to shared state of `set`, `clear` and
`wait`: the first look at the flag, registration under the lock, the second look, the
sleep, the wake-up posted to the waiter's own loop, timeout, cancellation, and leaving.
`Raise` and `Collect` are the two halves of what `set` does under its lock, because the
flag is read without it. **StopSignal** is what a wait promises: it reports a stop only if
one was requested while it lasted, and a timeout only if no stop stood all through it.

**AgentLifecycle** is the facade: tasks that call `run_conversation` on one agent, the
busy flag, threads that call `interrupt` in its two steps, the `finally` block, the final
event, and closing. Tasks share a loop, so `LoopIsFree` keeps them atomic between awaits;
threads are not bound by it. Of a turn it keeps the model calls and the way it ended.

**StreamedReply** is `ModelClient.stream` with its accumulator. The endpoint is external:
it means to send one of the `Plans`, numbers its calls by an index of their own or by one
shared index (the two ways the accumulator is written for), repeats ids and names, leaves
ids out, cuts the reply short, closes the connection or fails at any moment. A chunk with
several deltas stands for as many steps. Whitespace is not text in the model; a refusal is
left out, being merged like text and never shown. An endpoint refuses `stream_options` when it
refuses the request, before its first chunk, so `DropOption` has nothing to mix with the second
attempt; that it asks nothing again after text was shown is a guard of the code
(`agent/model_client.py:290`) and of the action.

**ToolRegistry** is `ToolRegistry` with the functions of `tools/model_tools.py`. `register`
is two steps under its lock (`Look`, then `Store` or `RefuseShadow`), every other access
one step that needs the lock free. An agent's listing is `Resolve` (the toolsets), one
`Collect` for each toolset, `TakeEntries` and one `Consider` for each name, with what the
probes said kept for the length of the listing; `KeepTools` is the line of
`Agent.__init__` that keeps the list. A call of its model is refused, or looked up anew
and run, and `Normalized` is what `dispatch` makes of what the handler returned. Of an
entry the model keeps its toolset and its probe. Names are considered in any order, where
the code sorts them. The history variables `gone` and `removed` say which names were
missing at some moment, so that the properties can except exactly these.

**SearchWorker** is one call of `web_search` with the ddgs provider: `pc` names the await
(`spawning`, `polling`, `reaping`), `Check` is the head of the polling loop, `Escalate`,
`Resume` and `Close` are `_terminate_and_reap` with what follows it, and every await may be
cancelled. The child, a process it may have started, asyncio's reaping and its
`communicate`, the deadline and stops are actions of their own. A `ToolExecutor`
call that runs it sees a handler that returns.

The MC modules give these their instances. Definitions called *Mutant of X* are altered
forms of X, a plausible slip each; they are used in no specification and serve to show
that a property notices the slip.

## The runs

| Run | Instance | What it shows |
|---|---|---|
| `TurnSafety` | two turns, two iterations, two attempts, ten replies, two strikes | requests are replayable, returned histories are closed and only grow, counters and flags agree, requests are bounded, a stopped turn asks no more, a failed turn's boundary is honest |
| `TurnLive` | one turn of the same | a turn ends if the model answers or fails each request; a stop ends the loop even if it never does |
| `Strikes` | all batches of one or two calls, six replies | strikes are counted and repeats bounded; cut arguments never run, and end the turn if the cut shows |
| `Tools` | all batches of up to four calls, two workers | the executor implements ToolBatch; answers match calls, segments are barriers, no worker is left behind, the plan is maximal; a batch ends if its handlers return, and a stop ends a parallel segment even if they hang |
| `Agent` | two tasks, a thread, two turns | one turn at a time, true reports, a stop raised while its turn ran is gone before the next |
| `Signal` | two tasks with two waits each, one thread | no wake-up is lost, the registry is exact, the signal implements StopSignal; a stop ends every wait it finds |
| `Stream` | five replies of up to three calls, two streams | nothing is misfiled and each call is announced once, a response not marked as cut is whole as far as it goes, what is shown is a beginning of the text |
| `Registry` | two threads, two names, two toolsets, one probe, one agent | no tool is replaced by one of another toolset, a listing offers the available tools of its toolsets and no others but for names that went missing meanwhile, a call reaches the tool that was offered unless its name was removed since |
| `Search` | one search | its outcome has its cause, no child is left that was not killed, and it ends whatever the child does |

Three runs are expected to find a violation. Each checks one statement the repository
makes about itself against what the code does:

| Run | Statement | What happens |
|---|---|---|
| `LeakedStop` | `agent/core.py:197`, a stop must not leak into the next turn | `interrupt` from a thread checks and sets in two steps |
| `DroppedStream` | `transports/chat_completions.py:393`, a stream without a finish reason is no answer | one that drops after a whole call is |
| `HungGrandchild` | `plugins/web/ddgs/provider.py:137`, terminate and kill also reach a hung grandchild | they signal the child alone, not its process group |

`Agent` and `LeakedStop` have the same instance and together say how far a stop reaches:
one raised while its turn runs never meets another turn (also proved), one that a thread
raises after its turn is over may.

Other statements the models behave differently from are milder, follow from one or two
lines, and have no run of their own:

- `agent/turn_result.py:26`: `api_calls` counts iterations; a retried request is not
  counted again (`BeginIteration`, `SendRequest`).
- `agent/message_sanitization.py:33`: the summary request is a user row that usually
  follows a tool row (`RequestSummary`).
- `agent/turn_tool_validation.py:35`: strikes for malformed arguments outlive a batch of
  unknown tools, so they are not consecutive (`UnknownVerdict`).
- `agent/core.py:207`: calls that queue for a worker may start during the grace period
  that follows a noticed stop (`StartCall`).
- `agent/core.py:223`: a stop withdrawn after it woke the turn's wait still ends the turn
  (`stopSeen`).
- `agent/core.py:168`: a closed client makes the turn return a failed result, not raise
  (`FailsClosed`).
- `agent/core.py:206`: a stop does not abandon the summary request of a spent budget,
  which is awaited without the signal (`RequestSummary`, `agent/turn_finalizer.py:72`).
- `agent/turn_failure_copy.py:29`: TRUNCATED_RESPONSE, "Nothing was changed", is appended by
  `_partial_exit` (`agent/turn_tool_validation.py:96`, called at line 206) exactly when the
  history ends on a tool's answer, so when an earlier round may have changed something; the
  tail it closes is then no longer one that gets the honest boundary of `failed_turn_notice`
  (`GiveUpOnCalls`, the body `unchanged`). `NoticeIsHonest` holds of the two boundaries
  without exception and excepts this text for the exit `invalid_tool_calls` only. The same
  text is what the caller is shown when a reply with calls ends at the length limit
  (`agent/turn_response_intake.py:117`), but the history then gets the honest boundary.
- `agent/turn_tool_validation.py:118`: arguments cut off are said to be refused outright rather
  than retried; those cut after a nested bracket are retried without a record (`BadJsonVerdict`,
  lines 209-214), and arguments written whole that end in no bracket are refused as cut
  (`Truncated`, lines 192-198). Neither ever runs (`CutCallsNeverRun`).
- `agent/tool_executor.py:43`: the text for calls never started also answers a call that
  ran and was abandoned (`ParallelAnswer`, line 304).
- `agent/events.py:5`: a turn that raises ends without a final event (`Raises`).
- `tools/model_tools.py:96`: a tool the model was not offered is reached by its name if
  the offered one was deregistered and the name given to another toolset (`LookUp`); the
  same in the middle of a listing offers a tool of a toolset that was not selected.
- `tools/registry.py:308` and `tools/model_tools.py:102`: an error text nested too deep for
  the parser raises out of `dispatch` (`Normalized`).
- `plugins/web/ddgs/provider.py:106`: a search cancelled while it waits for its child to
  give in to the first signal leaves it without the second (`CancelReaping`).

**Bounds.** Two iterations and two attempts are the least with a first and a last of each;
the second turn starts from every history the first can leave, which is the only
channel between turns. The strikes are two in the turn runs, so that both the tolerated
and the final strike fall within two iterations, and three, as in the code, in
`Strikes`, where six replies let every run of strikes be broken and restarted. Two
workers make the third call of a segment queue; four calls allow two segments
of two kinds on both sides of another. Two waits per task let the wake-up of one arrive in
the next. Three calls are the least with a slot between two others. The bounds are
constants (`MaxTurns`, `MaxReplies`, `MaxWaits`, `MaxStreams`) or code parameters
(`MaxIterations`, `MaxAttempts`, `MaxStrikes`, `MaxWorkers`). One thread is enough for
a stop to meet every step of a wait, its own withdrawal and a second stop; the proofs
cover any number. `TurnLive` has one turn, since nothing but a history passes to the next.
`Registry` and `Search` have no bound but their sets: two threads and two names
are the least for a race on one name beside a change of another, and a search is made once;
one agent is enough because agents share nothing but the table. Runs of a turn, a batch, a
stream or an agent whose bound is used up stop there, so deadlock is not checked in those;
`Signal`, `Registry` and `Search` check it.

**Fairness.** `ConversationTurn!FairSpec` has weak fairness on the loop's own steps, on
the delivery of a stop to a wait, on timers and on the tools: asyncio runs what is ready,
and `execute_tool_calls` ends once handlers return (`BatchEnds`). It assumes nothing of the
model; that a request is answered or fails is the premise `ModelAnswers` of `TurnEnds`,
justified by the timeout `llm_timeout_s` that `ModelClient` passes to the SDK, and
`StopEndsLoop` does without it. `ToolExecutor!FairSpec` assumes that timers fire and that
the semaphore wakes a waiter when it has room; that started handlers return is the premise
`HandlersReturn` of `BatchEnds`, and `StopEndsSegment` does without it.
`InterruptSignal!FairSpec` asks strong fairness of a coroutine's own steps, because its
lock is taken again and again by threads and a `threading.Lock` held for two statements is
not withheld from one waiter for ever; a thread inside `set` goes on, and a loop runs what
was posted to it. ToolRegistry states no fairness: its properties are of safety, and that
a listing ends would rest on its probes, which run synchronously and without a timeout
(`_run_check_fn`). `SearchWorker!FairSpec` has weak
fairness on the code, on its timers and on the start of a process, which succeeds or fails;
of the child, its exit and its reaping nothing is assumed. No run assumes that anybody asks
for a stop, or that nobody does.

## The proofs

`ConversationTurnProofs` begins with lemmas on the operators of History: a row that opens
no call, a whole batch with its answers, a closed tail and a closed failed turn each keep a
history replayable, and answering the open calls of a batch just recorded completes it.

It then proves `TypeOK`, `RequestsAreReplayable` and `HistoryIsClosed` for
every set of replies and every bound, from the invariant `IInv == TypeOK /\ RowsOK`. TypeOK
is not inductive: `AnswerOpenCalls` looks for the newest row that is not a tool's, and finds
one only because there is a batch to answer or nothing to answer. RowsOK says so: the
caller's history is closed, the working copy is replayable outside `tools`, and in `tools`
it is a replayable history followed by the batch under way.

Next come `BudgetMatchesCalls`, `ResultIsConsistent`, `RequestsAreBounded` and
`StoppedTurnAsksNoMore`, from `OInv`, which ties the number of requests to iterations and
attempts place by place (`pc` by `pc`), and the flags to the exit reason; the summary's two
requests fit into the bound only because a turn that is summarised has spent its iterations,
which is why the budget is part of it. `HistoryOnlyGrows` and `NoticeIsHonest` follow from
`GInv`: the working copy is the caller's history, the question and rows of the turn, of
which one holds a call if a tool may have run; none of them says that nothing was processed,
and only a turn that is given up for its calls gets leave to end on a row that says that
nothing was changed. A turn that completes needs no closing row because it ends on an answer,
which `OInv` supplies. That a round's answers follow its calls is `RoundRows`: a known call is as
far among the known calls as its answer is among the executor's (`CallsTakeTheirOwn`), which
takes the library's theorems on cardinalities.

`ToolStrikesProofs` proves the three properties of `ToolStrikes` for every batch and every
limit: each counter is the length of the run of replies it stands for at the end of the
trail, or more than that for malformed arguments, whose strikes a reply of unknown tools
keeps. `CutNeverRun` follows from `BadJson`, which a cut call of a known tool is always
part of, and from `Truncated` for the cut that shows. `SoundBatches` adds that a batch
`Validate` lets through has a known call and none whose arguments the parser refuses,
which is `BatchesAssumption` of ToolExecutor.

`ToolExecutorProofs` proves all the safety of the executor for every batch and every number
of workers: `NoWorkerLeftBehind`, `PlanIsMaximal`, `BarriersHold`, `AnswersMatchCalls` and
`KeepsPromise`, the refinement of ToolBatch. The invariant has a part for each stage.

- `WInv`, on workers: they are under way only while their segment is, and one is given up
  only after a stop or with its turn.
- `PlanInv`, on the plan: `Covers(calls, plan, n)` says that a plan holds the first n calls
  in one piece and in order, each in a segment of its kind. It is not inductive for the
  calls the planner has seen, because whether a call belongs to a run depends on the one
  after it. It holds of the calls before the run in `current`, given that this run begins
  after a call that is not admitted; `CloseCovers` is the step that settles the run.
- `PlaceInv`, on places: a parallel segment is entered at its first call. This is what makes
  the answers of a segment fall to its own calls, as the code never looks at an index.
- `StartedInv`, on handlers: each that was started is of a call already answered or of the
  segment at hand, and had arguments to run with.

From it `SkipRestAnswers`, `OneAnswer` and `CollectAnswers` show of each way to append
answers that it is a step of ToolBatch; every other step is one of its own or a stutter.
`EveryCallAnswered` then says what the promise is worth: a complete batch has exactly one
answer for each call, of the kinds `FinishTools` of ConversationTurn takes. With
`SoundBatches` this joins the models at both ends of the executor: what it assumes of a batch
and what the turn loop assumes of its answers are both proved.

`StreamedReplyProofs` proves `NothingIsMisfiled`, `AnswersAreWhole` and `ShownIsABeginning`
for any number of calls and pieces, from one fact that both ways of numbering have in
common: the k-th call is filed in slot k - 1 (`SlotsInv`). `RouteInv` says why. An index of
its own is the slot and is never redirected, since the only id it has seen is its call's; a
shared index points at the last call begun, and a new id moves it to the next slot. `OwnSlot`
derives the slot of a chunk from it. A response is whole because arguments that parse are
the whole of some call's and, being filed with their own, the whole of that one
(`ParsedAreWhole`), and empty arguments are taken as meant only when a reason was given,
which the endpoint gives when all is sent (`EndInv`). That the entries are the slots in their
order is a fact on ranks in finite sets (`Ranked`), proved with the pigeonhole theorem of the
library.

`SearchWorkerProofs` proves `TypeOK`, `AnswersAreTrue` and `NoOrphanRemains`. The invariant
says for each place what the child and the task that reads it may be, that the number of
signals tried is what was sent unless the child was dead, and that the loop gives a search
up only while its output is not in.

`ToolRegistryProofs` proves `TypeOK`, `NoShadowing`, `OffersAreTrue` and
`CallsReachTheirTool` for any number of threads, agents, names and toolsets. What a thread
looked up is still so while it holds the lock; a name that was not missing since a listing
began has kept its toolset since; and the same of a name that was offered and not removed.

`InterruptSignalProofs` proves the signal's `TypeOK`, `WaitersAreExact`, `NoLostWakeUp` and
that it implements `StopSignal`. The invariant adds that waits are numbered, so that a
wake-up is never taken for another wait's; that a set lock means a set flag; that a
standing flag has been seen by every wait under way; that no wait sleeps through a stop
that stood since it began; and that a verdict agrees with where its wait is.

`AgentLifecycleProofs` proves `OneTurnAtATime` and `TypeOK` from the exclusion of tasks
in a turn, and from it `InTimeStopDies` and `ReportsAreTrue`, for any number of tasks,
threads and turns. The
busy flag is down between a turn's end and its final event, so exclusion needs the tasks'
places and not the flag alone.

The proofs assume what the modules assume of their constants: `RepliesAssumption`,
`BoundsAssumption`, `BatchesAssumption`, `PlansAssumption`, `MaxStrikesAssumption` and the
bounds being numbers, a thread not being `NoThread`, and the null values of ToolRegistry
being none of the others. Each is checked by TLC on the instances.

Every invariant, action property and refinement that the passing runs check is proved too.
What is only model-checked is liveness (`TurnEnds`, `StopEndsLoop`, `BatchEnds`,
`StopEndsSegment`, `StopEndsWaits`, `SearchEnds`): fairness and ENABLED are
out of the prover's reach here. The disagreements above are counterexamples, so there is
nothing to prove of them.

## Not modelled

- Message and schema conversion (`transports/`): copying and validating fields; the
  contract of a normalized reply enters as `RepliesAssumption`.
- `usage` sums, timing texts, previews and error wording.
- Progress events other than the final one, and the reason text of a stop.
- A second cancellation of a task that is already being cancelled (one that arrives while
  `agent/turn_api_call.py:108` awaits the request it gave up is swallowed), and handler threads
  that outlive an abandoned call, beyond the fact that they do.
- Settings, prompts and the rest of the assembly of an agent: they change no state
  afterwards.
- What `plugins/web/_common.py` and `agent/web_search_provider.py` hold: builders of
  dictionaries and an abstract class.
- The retry delays (`agent/retry_utils.py`): pure arithmetic that unit tests reach. That a
  delay may be stopped is in ConversationTurn.
- Surrogates and other damage in the text of a message.

## Plan

The order is by what a mistake would cost.

1. Done: ToolCalls, ToolValidation, ToolStrikes, History, ConversationTurn, ToolBatch,
   ToolExecutor, StopSignal, InterruptSignal, AgentLifecycle, StreamedReply, SearchWorker,
   ToolRegistry, and the proofs above.
2. *RetryDelay* (`retry_utils.py`, `compute_error_backoff`): operators checked against
   their documented bounds over boundary values.
3. *AgentRuns*: AgentLifecycle composed with ConversationTurn, so that a stop from a
   thread meets a turn in all its places.
4. Proofs: what the round makes of a batch with unknown calls, by composing ToolExecutor
   with `run_tool_round`, so that `EveryCallAnswered` is used and not only cited.
