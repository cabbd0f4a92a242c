-------------------------- MODULE ConversationTurn --------------------------
(***************************************************************************)
(* The turn loop of conversation_loop.py with its phase modules: a caller  *)
(* runs one turn after another, each on the history the last one returned. *)
(*                                                                         *)
(* One action is what the loop does between two awaits, or a part of that  *)
(* which ends where the stop flag is read: a stop may be requested or      *)
(* withdrawn from another thread at any moment.                            *)
(***************************************************************************)
EXTENDS History, ToolValidation

CONSTANTS
  CallIds,        \* ids of tool calls
  Replies,        \* the replies the model may give, see RepliesAssumption
  MaxIterations,  \* settings.max_iterations
  MaxAttempts,    \* RetryPolicy.max_attempts
  MaxTurns        \* bound of the model: turns the caller runs

\* A reply keeps its finish reason ("length", "content_filter" or any "other"),
\* whether it has visible text, and its calls.  A reply with neither text nor
\* calls carries a refusal, or NormalizedResponse would have rejected it.
Calls == [id : CallIds, name : STRING, args : ArgumentKinds]

ASSUME RepliesAssumption ==
  \A r \in Replies :
    /\ r.finish \in {"other", "length", "content_filter"}
    /\ r.text \in BOOLEAN
    /\ r.calls \in Seq(Calls)

ASSUME BoundsAssumption ==
  /\ MaxIterations \in Nat \ {0}
  /\ MaxAttempts \in Nat \ {0}
  /\ MaxTurns \in Nat

NoReply == [finish |-> "none", text |-> FALSE, calls |-> <<>>]

VARIABLES
  pc,           \* where the turn is; "idle" between turns
  history,      \* what the caller holds: the messages of the last result
  messages,     \* the turn's working copy
  userIdx,      \* current_turn_user_idx
  stop,         \* the flag of the agent's InterruptSignal
  stopSeen,     \* the flag was set during the await the turn is in
  apiCalls,     \* api_call_count
  used,         \* IterationBudget._used
  attempts,     \* retry_count, or the summary's own api_calls
  toolStrikes,  \* invalid_tool_retries
  jsonStrikes,  \* invalid_json_retries
  reply,        \* response
  exit,         \* turn_exit_reason, without its parameters
  answered,     \* final_response is not None
  interrupted,
  failed,
  result,       \* how the last turn ended
  turns,        \* turns begun
  requests,     \* history variable: requests the turn sent to the model
  mayHaveRun    \* history variable: a tool handler may have run in this turn

loopVars == <<apiCalls, used, toolStrikes, jsonStrikes>>
outcomeVars == <<exit, answered, interrupted, failed>>
callerVars == <<history, result, turns>>
turnVars == <<userIdx, mayHaveRun>>
signalVars == <<stop, stopSeen>>
vars == <<pc, messages, attempts, reply, requests,
          signalVars, loopVars, outcomeVars, callerVars, turnVars>>

Running == pc # "idle"

\* Awaits during which the turn may be stopped, abandoned or cancelled.
Awaiting == pc \in {"calling", "backoff", "tools", "summary"}

NoResult == [outcome |-> "none", exit |-> "unknown", completed |-> FALSE, failed |-> FALSE,
             interrupted |-> FALSE, partial |-> FALSE, apiCalls |-> 0]

ResultOf(reason, completed, hasFailed, wasInterrupted, partial, calls) ==
  [outcome |-> "returned", exit |-> reason, completed |-> completed, failed |-> hasFailed,
   interrupted |-> wasInterrupted, partial |-> partial, apiCalls |-> calls]

Init ==
  /\ pc = "idle"
  /\ history = <<>>
  /\ messages = <<>>
  /\ userIdx = 0
  /\ stop = FALSE
  /\ stopSeen = FALSE
  /\ apiCalls = 0
  /\ used = 0
  /\ attempts = 0
  /\ toolStrikes = 0
  /\ jsonStrikes = 0
  /\ reply = NoReply
  /\ exit = "unknown"
  /\ answered = FALSE
  /\ interrupted = FALSE
  /\ failed = FALSE
  /\ result = NoResult
  /\ turns = 0
  /\ requests = 0
  /\ mayHaveRun = FALSE
-----------------------------------------------------------------------------
\* The prologue and the end of a turn.

\* Agent.run_conversation, build_turn_context and the fresh _LoopState and budget.
BeginTurn ==
  /\ pc = "idle"
  /\ turns < MaxTurns
  /\ turns' = turns + 1
  /\ messages' = Append(history, UserRow("ask"))
  /\ userIdx' = Len(history) + 1
  /\ pc' = "iterate"
  /\ apiCalls' = 0 /\ used' = 0 /\ toolStrikes' = 0 /\ jsonStrikes' = 0
  /\ exit' = "unknown" /\ answered' = FALSE /\ interrupted' = FALSE /\ failed' = FALSE
  /\ requests' = 0 /\ mayHaveRun' = FALSE /\ result' = NoResult
  /\ UNCHANGED <<history, attempts, reply, signalVars>>

\* Every result leaves through run_conversation, which closes a failed turn's
\* history, and through Agent.run_conversation, which clears the signal.
Return(rows, res) ==
  /\ history' = CloseFailedTurn(rows, userIdx, res.completed)
  /\ result' = res
  /\ messages' = <<>> /\ reply' = NoReply /\ attempts' = 0
  /\ stop' = FALSE /\ stopSeen' = FALSE
  /\ pc' = "idle"
  /\ UNCHANGED <<loopVars, outcomeVars, turnVars, turns>>

\* Mutant of RaiseOut: the turn worked on the caller's own list.
RaiseOutShared ==
  /\ Awaiting
  /\ history' = messages
  /\ result' = [NoResult EXCEPT !.outcome = "raised"]
  /\ messages' = <<>> /\ reply' = NoReply /\ attempts' = 0
  /\ stop' = FALSE /\ stopSeen' = FALSE
  /\ pc' = "idle"
  /\ UNCHANGED <<requests, loopVars, outcomeVars, turnVars, turns>>

\* An exception the loop does not turn into a result: ModelInputError, an error
\* unknown to the retry loop, or the cancellation of the caller's task.  The
\* working copy is dropped and the caller keeps the history it had.
RaiseOut ==
  /\ Awaiting
  /\ result' = [NoResult EXCEPT !.outcome = "raised"]
  /\ messages' = <<>> /\ reply' = NoReply /\ attempts' = 0
  /\ stop' = FALSE /\ stopSeen' = FALSE
  /\ pc' = "idle"
  /\ UNCHANGED <<history, requests, loopVars, outcomeVars, turnVars, turns>>
-----------------------------------------------------------------------------
\* The stop request, from any thread or task while a turn runs.

\* Mutant of Interrupt: the flag is set and nobody is woken.
InterruptUnheard ==
  /\ Running
  /\ stop' = TRUE
  /\ UNCHANGED <<stopSeen, pc, messages, attempts, reply, requests,
                 loopVars, outcomeVars, callerVars, turnVars>>

\* InterruptSignal.set: a waiter registered now is woken even if the request is
\* withdrawn before the wake-up is delivered.
Interrupt ==
  /\ Running
  /\ stop' = TRUE
  /\ stopSeen' = (stopSeen \/ Awaiting)
  /\ UNCHANGED <<pc, messages, attempts, reply, requests,
                 loopVars, outcomeVars, callerVars, turnVars>>

\* Agent.clear_interrupt
ClearInterrupt ==
  /\ Running
  /\ stop
  /\ stop' = FALSE
  /\ UNCHANGED <<stopSeen, pc, messages, attempts, reply, requests,
                 loopVars, outcomeVars, callerVars, turnVars>>
-----------------------------------------------------------------------------
\* The head of the loop.

MayIterate == apiCalls < MaxIterations /\ MaxIterations - used > 0

\* Mutant of StopBeforeCall: the stop is noted and the call made all the same.
StopBeforeCallGoesOn ==
  /\ pc = "iterate"
  /\ MayIterate
  /\ stop
  /\ interrupted' = TRUE
  /\ exit' = "interrupted_by_user"
  /\ pc' = "send"
  /\ UNCHANGED <<messages, attempts, reply, requests, answered, failed,
                 signalVars, loopVars, callerVars, turnVars>>

\* begin_iteration sees the stop.
StopBeforeCall ==
  /\ pc = "iterate"
  /\ MayIterate
  /\ stop
  /\ interrupted' = TRUE
  /\ exit' = "interrupted_by_user"
  /\ pc' = "finalize"
  /\ UNCHANGED <<messages, attempts, reply, requests, answered, failed,
                 signalVars, loopVars, callerVars, turnVars>>

\* Mutant of BeginIteration: the budget is not spent.
BeginIterationUnbudgeted ==
  /\ pc = "iterate"
  /\ MayIterate
  /\ ~stop
  /\ apiCalls' = apiCalls + 1
  /\ attempts' = 0
  /\ reply' = NoReply
  /\ pc' = "send"
  /\ UNCHANGED <<messages, requests, used, toolStrikes, jsonStrikes,
                 signalVars, outcomeVars, callerVars, turnVars>>

\* begin_iteration counts and budgets the call.  The budget is the turn's own,
\* so consume() succeeds whenever the loop's condition has just held.
BeginIteration ==
  /\ pc = "iterate"
  /\ MayIterate
  /\ ~stop
  /\ apiCalls' = apiCalls + 1
  /\ used' = used + 1
  /\ attempts' = 0
  /\ reply' = NoReply
  /\ pc' = "send"
  /\ UNCHANGED <<messages, requests, toolStrikes, jsonStrikes,
                 signalVars, outcomeVars, callerVars, turnVars>>

\* Mutants of LeaveLoop: the loop is left once the budget is overdrawn; or it is left
\* with an exit reason of its own.
LeaveLoopLate ==
  /\ pc = "iterate"
  /\ ~MayIterate
  /\ used > MaxIterations
  /\ pc' = "finalize"
  /\ UNCHANGED <<messages, attempts, reply, requests,
                 signalVars, loopVars, outcomeVars, callerVars, turnVars>>

LeaveLoopNamed ==
  /\ pc = "iterate"
  /\ ~MayIterate
  /\ exit' = "budget_exhausted"
  /\ pc' = "finalize"
  /\ UNCHANGED <<messages, attempts, reply, requests, answered, interrupted, failed,
                 signalVars, loopVars, callerVars, turnVars>>

LeaveLoop ==
  /\ pc = "iterate"
  /\ ~MayIterate
  /\ pc' = "finalize"
  /\ UNCHANGED <<messages, attempts, reply, requests,
                 signalVars, loopVars, outcomeVars, callerVars, turnVars>>
-----------------------------------------------------------------------------
\* One model call with its retries: perform_api_call races the request with the
\* signal, and handle_api_error decides what a failure means.

SendRequest ==
  /\ pc = "send"
  /\ requests' = requests + 1
  /\ stopSeen' = stop
  /\ pc' = "calling"
  /\ UNCHANGED <<messages, attempts, reply, stop, loopVars, outcomeVars, callerVars, turnVars>>

\* A reply that arrives together with the stop request is still used.
ReplyArrives(r) ==
  /\ pc = "calling"
  /\ reply' = r
  /\ pc' = "intake"
  /\ UNCHANGED <<messages, attempts, requests,
                 signalVars, loopVars, outcomeVars, callerVars, turnVars>>

\* handle_api_interrupt keeps what was streamed so far.
AbandonCall ==
  /\ pc = "calling"
  /\ stopSeen
  /\ messages' \in {messages, Append(messages, AssistantRow(<<>>, "partial"))}
  /\ interrupted' = TRUE
  /\ exit' = "interrupted_during_api_call"
  /\ answered' = TRUE
  /\ pc' = "finalize"
  /\ UNCHANGED <<attempts, reply, requests, failed, signalVars, loopVars, callerVars, turnVars>>

\* abort_turn_on_interrupt
AbortOnStop ==
  /\ Return(CloseToolTail(messages, "closing"),
            ResultOf("interrupted_during_retry", FALSE, FALSE, TRUE, FALSE, apiCalls))
  /\ UNCHANGED requests

\* The failed call of a stopped turn is not retried.
CallFailsWhenStopped ==
  /\ pc = "calling"
  /\ stop
  /\ AbortOnStop

\* A failure _is_retryable refuses: most of HTTP 4xx, or a closed client.
CallFailsForGood ==
  /\ pc = "calling"
  /\ ~stop
  /\ Return(messages, ResultOf("model_request_failed", FALSE, TRUE, FALSE, FALSE, apiCalls))
  /\ UNCHANGED requests

RetriesExhausted ==
  /\ pc = "calling"
  /\ ~stop
  /\ attempts + 1 >= MaxAttempts
  /\ Return(messages, ResultOf("all_retries_exhausted", FALSE, TRUE, FALSE, FALSE, apiCalls))
  /\ UNCHANGED requests

\* Mutant of ScheduleRetry: one attempt too many.
ScheduleRetryLate ==
  /\ pc = "calling"
  /\ ~stop
  /\ attempts < MaxAttempts
  /\ attempts' = attempts + 1
  /\ stopSeen' = FALSE
  /\ pc' = "backoff"
  /\ UNCHANGED <<messages, reply, requests, stop, loopVars, outcomeVars, callerVars, turnVars>>

ScheduleRetry ==
  /\ pc = "calling"
  /\ ~stop
  /\ attempts + 1 < MaxAttempts
  /\ attempts' = attempts + 1
  /\ stopSeen' = FALSE
  /\ pc' = "backoff"
  /\ UNCHANGED <<messages, reply, requests, stop, loopVars, outcomeVars, callerVars, turnVars>>

\* interruptible_backoff_sleep: the timeout may win over a stop set meanwhile.
BackoffElapses ==
  /\ pc = "backoff"
  /\ pc' = "send"
  /\ UNCHANGED <<messages, attempts, reply, requests,
                 signalVars, loopVars, outcomeVars, callerVars, turnVars>>

BackoffStopped ==
  /\ pc = "backoff"
  /\ stopSeen
  /\ AbortOnStop
-----------------------------------------------------------------------------
\* A reply in hand: normalize_model_response, then run_tool_round or
\* finish_text_response.

RefuseFiltered ==
  /\ pc = "intake"
  /\ reply.finish = "content_filter"
  /\ Return(messages, ResultOf("content_policy_blocked", FALSE, TRUE, FALSE, FALSE, apiCalls))
  /\ UNCHANGED requests

\* Truncated text is kept as the answer; truncated calls are not recorded.
ReturnTruncated ==
  /\ pc = "intake"
  /\ reply.finish = "length"
  /\ Return(IF reply.calls = <<>> /\ reply.text
            THEN Append(messages, AssistantRow(<<>>, "model"))
            ELSE messages,
            ResultOf("length_truncated", FALSE, FALSE, FALSE, TRUE, apiCalls))
  /\ UNCHANGED requests

FinishText ==
  /\ pc = "intake"
  /\ reply.finish = "other"
  /\ reply.calls = <<>>
  /\ messages' = Append(messages, AssistantRow(<<>>, "model"))
  /\ answered' = TRUE
  /\ exit' = "text_response"
  /\ pc' = "finalize"
  /\ UNCHANGED <<attempts, reply, requests, interrupted, failed,
                 signalVars, loopVars, callerVars, turnVars>>

HasCalls == pc = "intake" /\ reply.finish = "other" /\ reply.calls # <<>>

Checked == Validate(reply.calls, toolStrikes, jsonStrikes)

ReplyIds == [k \in DOMAIN reply.calls |-> reply.calls[k].id]

\* The model is asked again, with error results for the batch or with nothing.
AskAgain ==
  /\ HasCalls
  /\ Checked.action = "continue"
  /\ messages' = IF Checked.record
                 THEN Append(messages, AssistantRow(ReplyIds, "model"))
                        \o ToolRows(ReplyIds, [k \in DOMAIN ReplyIds |-> "error"])
                 ELSE messages
  /\ toolStrikes' = Checked.toolStrikes
  /\ jsonStrikes' = Checked.jsonStrikes
  /\ pc' = "iterate"
  /\ UNCHANGED <<attempts, reply, requests, apiCalls, used,
                 signalVars, outcomeVars, callerVars, turnVars>>

\* _partial_exit.  What is said of arguments that look cut, that nothing was changed,
\* closes a tool tail, too, though the tools of that tail may have run.
GiveUpOnCalls ==
  /\ HasCalls
  /\ Checked.action = "return"
  /\ Return(CloseToolTail(messages, IF Truncated(reply.calls) THEN "unchanged" ELSE "closing"),
            ResultOf("invalid_tool_calls", FALSE, FALSE, FALSE, TRUE, apiCalls))
  /\ UNCHANGED requests

\* handle_outer_loop_error
LocalError ==
  /\ messages' = AnswerOpenCalls(messages)
  /\ answered' = TRUE
  /\ exit' = "local_processing_error"
  /\ failed' = TRUE
  /\ pc' = "finalize"
  /\ UNCHANGED <<attempts, reply, requests, interrupted,
                 signalVars, loopVars, callerVars, turnVars>>

ValidationRaises ==
  /\ HasCalls
  /\ Checked.action = "raise"
  /\ LocalError

\* run_tool_round records the batch, then awaits execute_tool_calls.
StartTools ==
  /\ HasCalls
  /\ Checked.action = "ok"
  /\ messages' = Append(messages, AssistantRow(ReplyIds, "model"))
  /\ stopSeen' = stop
  /\ mayHaveRun' = (mayHaveRun \/ \E k \in DOMAIN reply.calls : Runnable(reply.calls[k]))
  /\ pc' = "tools"
  /\ UNCHANGED <<attempts, reply, requests, stop, userIdx, loopVars, outcomeVars, callerVars>>

\* How many valid calls there are up to the k-th call, and which is the n-th.
ValidUpTo(calls, k) == Cardinality({j \in 1 .. k : Known(calls[j])})

ValidCall(calls, n) == CHOOSE k \in DOMAIN calls : Known(calls[k]) /\ ValidUpTo(calls, k) = n

\* executed: the executor answers each valid call once, in order.
Executed(calls, answers) ==
  [n \in 1 .. ValidUpTo(calls, Len(calls)) |->
     ToolRow(calls[ValidCall(calls, n)].id, answers[ValidCall(calls, n)])]

\* Mutant of InCallOrder: the errors of unknown calls come first.
ErrorsFirst(calls, executed) ==
  LET unknown == SelectSeq(calls, LAMBDA call : ~Known(call))
  IN  [k \in DOMAIN unknown |-> ToolRow(unknown[k].id, "error")] \o executed

\* The rows of a round: a valid call takes the executor's next, an unknown one an error.
InCallOrder(calls, executed) ==
  [k \in DOMAIN calls |->
     IF Known(calls[k]) THEN executed[ValidUpTo(calls, k)] ELSE ToolRow(calls[k].id, "error")]

FinishTools ==
  /\ pc = "tools"
  /\ \E answers \in [DOMAIN reply.calls -> Answers] :
       /\ \A k \in DOMAIN reply.calls : answers[k] \in MayAnswer(reply.calls[k], stopSeen)
       /\ messages' = messages \o InCallOrder(reply.calls, Executed(reply.calls, answers))
  /\ toolStrikes' = Checked.toolStrikes
  /\ jsonStrikes' = Checked.jsonStrikes
  /\ pc' = "iterate"
  /\ UNCHANGED <<attempts, reply, requests, apiCalls, used,
                 signalVars, outcomeVars, callerVars, turnVars>>

\* An exception leaves the executor: no result of the round is kept.
ToolsRaise ==
  /\ pc = "tools"
  /\ LocalError
-----------------------------------------------------------------------------
\* finalize_turn, with handle_max_iterations.

BudgetExhausted == apiCalls >= MaxIterations \/ MaxIterations - used <= 0

WantsSummary ==
  /\ ~answered
  /\ BudgetExhausted
  /\ ~interrupted
  /\ ~failed
  /\ exit \in {"unknown", "budget_exhausted"}

\* The first of at most two requests, made without tools and without the signal.
RequestSummary ==
  /\ pc = "finalize"
  /\ WantsSummary
  /\ exit' = "max_iterations_reached"
  /\ messages' = Append(messages, UserRow("summary"))
  /\ attempts' = 1
  /\ requests' = requests + 1
  /\ stopSeen' = stop
  /\ pc' = "summary"
  /\ UNCHANGED <<reply, stop, answered, interrupted, failed, loopVars, callerVars, turnVars>>

\* A reply without text is asked for once more.
SummaryBlank ==
  /\ pc = "summary"
  /\ attempts < 2
  /\ attempts' = attempts + 1
  /\ requests' = requests + 1
  /\ UNCHANGED <<pc, messages, reply, signalVars, loopVars, outcomeVars, callerVars, turnVars>>

\* The summary arrives; or there is none: the second reply is blank, a reply is
\* empty past its think block, or the model fails.
SummaryEnds ==
  /\ pc = "summary"
  /\ messages' \in {messages, Append(messages, AssistantRow(<<>>, "model"))}
  /\ answered' = TRUE
  /\ apiCalls' = apiCalls + attempts
  /\ pc' = "close"
  /\ UNCHANGED <<attempts, reply, requests, used, toolStrikes, jsonStrikes,
                 exit, interrupted, failed, signalVars, callerVars, turnVars>>

\* _close_transcript_tail
CloseTranscript(rows) ==
  IF interrupted THEN CloseToolTail(rows, "closing")
  ELSE IF answered /\ ~TailIs(rows, {"assistant"})
       THEN Append(rows, AssistantRow(<<>>, "closing"))
       ELSE rows

\* Mutant of Completed: a local error has a text, too.
CompletedThoughFailed ==
  /\ answered
  /\ ~interrupted
  /\ apiCalls < MaxIterations \/ exit = "text_response"

Completed ==
  /\ answered
  /\ ~failed
  /\ ~interrupted
  /\ apiCalls < MaxIterations \/ exit = "text_response"

Finalize ==
  /\ pc = "close" \/ (pc = "finalize" /\ ~WantsSummary)
  /\ Return(CloseTranscript(messages),
            ResultOf(exit, Completed, failed, interrupted, FALSE, apiCalls))
  /\ UNCHANGED requests
-----------------------------------------------------------------------------
\* Steps that need nothing but the event loop.
LoopStep ==
  \/ StopBeforeCall \/ BeginIteration \/ LeaveLoop \/ SendRequest
  \/ RefuseFiltered \/ ReturnTruncated \/ FinishText
  \/ AskAgain \/ GiveUpOnCalls \/ ValidationRaises \/ StartTools
  \/ RequestSummary \/ Finalize

\* An await that returns because of the stop.
StopStep == AbandonCall \/ BackoffStopped

\* What the model, the timer and the tools do in their own time.
ModelStep ==
  \/ \E r \in Replies : ReplyArrives(r)
  \/ CallFailsWhenStopped \/ CallFailsForGood \/ RetriesExhausted \/ ScheduleRetry
SummaryStep == SummaryBlank \/ SummaryEnds
ToolStep == FinishTools \/ ToolsRaise

Next ==
  \/ BeginTurn \/ RaiseOut \/ Interrupt \/ ClearInterrupt
  \/ LoopStep \/ StopStep \/ ModelStep \/ BackoffElapses \/ ToolStep \/ SummaryStep

Spec == Init /\ [][Next]_vars

\* The event loop runs, a stop wakes the wait it was set for, a timer fires and
\* tool handlers return.  Nothing is said of the model.
FairSpec ==
  /\ Spec
  /\ WF_vars(LoopStep) /\ WF_vars(StopStep) /\ WF_vars(BackoffElapses) /\ WF_vars(ToolStep)

\* The model, too, replies or fails: the SDK's request timeout sees to it.
ModelAnswers == WF_vars(ModelStep) /\ WF_vars(SummaryStep)
-----------------------------------------------------------------------------
\* Properties.

Bodies == UserBodies \cup AssistantBodies \cup Answers
Exits == {"unknown", "interrupted_by_user", "interrupted_during_api_call",
          "interrupted_during_retry", "model_request_failed", "all_retries_exhausted",
          "content_policy_blocked", "length_truncated", "text_response",
          "invalid_tool_calls", "local_processing_error", "max_iterations_reached"}
Results == [outcome : {"none", "returned", "raised"}, exit : Exits, completed : BOOLEAN,
            failed : BOOLEAN, interrupted : BOOLEAN, partial : BOOLEAN, apiCalls : Nat]

TypeOK ==
  /\ pc \in {"idle", "iterate", "send", "calling", "backoff", "intake", "tools",
             "finalize", "summary", "close"}
  /\ history \in Seq(Row(CallIds))
  /\ messages \in Seq(Row(CallIds))
  /\ userIdx \in Nat
  /\ stop \in BOOLEAN
  /\ stopSeen \in BOOLEAN
  /\ apiCalls \in Nat
  /\ used \in Nat
  /\ attempts \in Nat
  /\ toolStrikes \in Nat
  /\ jsonStrikes \in Nat
  /\ reply \in Replies \cup {NoReply}
  /\ exit \in Exits
  /\ answered \in BOOLEAN
  /\ interrupted \in BOOLEAN
  /\ failed \in BOOLEAN
  /\ result \in Results
  /\ turns \in Nat
  /\ requests \in Nat
  /\ mayHaveRun \in BOOLEAN

\* Every request carries a history in which each tool call has its answer, in
\* order, and each answer its call: the rows a provider would refuse otherwise.
RequestsAreReplayable == pc \in {"calling", "summary"} => Replayable(messages)

\* Whatever way a turn ends, the caller holds a history the next turn can start
\* from: no open call, no tool or user row at its end.
HistoryIsClosed == Closed(history)

\* A turn never rewrites what the caller held: a returned history is the old one,
\* the turn's question and at least one row after it.
HistoryOnlyGrows ==
  [][history' # history =>
       /\ Len(history') > Len(history) + 1
       /\ SubSeq(history', 1, Len(history)) = history
       /\ history'[Len(history) + 1] = UserRow("ask")]_vars

\* The turn's own budget and its call counter never drift apart while the loop
\* runs, and retries do not spend the budget.
BudgetMatchesCalls ==
  pc \notin {"idle", "close"} => used = apiCalls /\ used <= MaxIterations

\* However calls fail, are retried or summarised, a turn is bounded.
RequestsAreBounded == requests <= MaxIterations * MaxAttempts + 2

\* A turn ends in one way, and "completed" is said of a model's own final text
\* only, which is then the last row of the history.
ResultIsConsistent ==
  /\ ~(result.completed /\ (result.failed \/ result.interrupted \/ result.partial))
  /\ ~(result.failed /\ (result.interrupted \/ result.partial))
  /\ ~(result.interrupted /\ result.partial)
  /\ result.completed => result.exit = "text_response" /\ Last(history).body = "model"

\* A turn whose tools may have run does not close on words that deny it.  The boundary of
\* a failed turn never does.  TRUNCATED_RESPONSE, "Nothing was changed", does so in one
\* case that the code has and this excepts: a turn given up for arguments that look cut.
NoticeIsHonest ==
  result.outcome = "returned" /\ mayHaveRun =>
    /\ Last(history).body # "unprocessed"
    /\ Last(history).body = "unchanged" => result.exit = "invalid_tool_calls"

\* Once the turn is marked as stopped it asks the model for nothing more, not even
\* for the summary of a spent budget.
StoppedTurnAsksNoMore == [][interrupted /\ Running => requests' = requests]_vars

\* A turn ends if the model answers or fails each time, however stops come and go.
TurnEnds == ModelAnswers => (Running ~> ~Running)

\* A stop ends the loop, or is withdrawn, even if the model never answers again.
StopEndsLoop == (Running /\ stop) ~> (~Running \/ ~stop \/ pc = "summary")
=============================================================================
