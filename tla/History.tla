------------------------------- MODULE History -------------------------------
(***************************************************************************)
(* The conversation history a turn works on: a list of chat rows, kept by  *)
(* the agent's caller between turns and sent to the model as it is.        *)
(*                                                                         *)
(* A row keeps what the loop's correctness depends on: its role, the ids   *)
(* of the tool calls it makes (assistant) or answers (tool), and who       *)
(* wrote its text.  The text itself is left out.                           *)
(***************************************************************************)
EXTENDS ToolCalls, SequencesExt

\* Who wrote a row.  A user row is the caller's message ("ask") or the loop's
\* request for a summary.  An assistant row is the model's ("model"), the part
\* of an abandoned reply that was streamed ("partial"), or a text of the loop
\* that closes the turn: "unprocessed" and "halfway" are the two boundaries of a
\* failed turn, "unchanged" is TRUNCATED_RESPONSE, which says that nothing was
\* changed, and "closing" any other.  A tool row carries one of the Answers.
UserBodies == {"ask", "summary"}
AssistantBodies == {"model", "partial", "closing", "unchanged", "unprocessed", "halfway"}

Row(Ids) == [role : {"user", "assistant", "tool"}, ids : Seq(Ids),
             body : UserBodies \cup AssistantBodies \cup Answers]

UserRow(body) == [role |-> "user", ids |-> <<>>, body |-> body]

AssistantRow(ids, body) == [role |-> "assistant", ids |-> ids, body |-> body]

ToolRow(id, answer) == [role |-> "tool", ids |-> <<id>>, body |-> answer]

\* One tool row per call, in call order.
ToolRows(ids, answers) == [k \in DOMAIN ids |-> ToolRow(ids[k], answers[k])]

TailIs(messages, roles) == messages # <<>> /\ Last(messages).role \in roles

\* close_interrupted_tool_sequence: a history that ends on a tool result gets a
\* closing assistant row with the text that answers the caller.
CloseToolTail(messages, text) ==
  IF TailIs(messages, {"tool"})
  THEN Append(messages, AssistantRow(<<>>, text))
  ELSE messages

\* The newest row that is not a tool result: where handle_outer_loop_error's
\* backward scan stops.
NewestBatch(messages) ==
  CHOOSE i \in DOMAIN messages :
    /\ messages[i].role # "tool"
    /\ \A j \in DOMAIN messages : j > i => messages[j].role = "tool"

\* handle_outer_loop_error: the calls of the newest batch that have no answer
\* get an error.  The code tells them by their ids; a round records its answers
\* in call order, so they are the calls past the answers already there.
AnswerOpenCalls(messages) ==
  LET i == NewestBatch(messages)
      open == SubSeq(messages[i].ids, Len(messages) - i + 1, Len(messages[i].ids))
  IN  IF messages[i].role = "assistant"
      THEN messages \o ToolRows(open, [k \in DOMAIN open |-> "error"])
      ELSE messages

\* Mutant of FailureNotice: every row must be one of a tool.
FailureNoticeIfAll(turnRows) ==
  IF \A i \in DOMAIN turnRows : turnRows[i].role = "tool" THEN "halfway" ELSE "unprocessed"

\* failed_turn_notice: "not processed" is claimed only when the turn's rows hold
\* neither a tool result nor a tool call.
FailureNotice(turnRows) ==
  IF \E i \in DOMAIN turnRows :
       \/ turnRows[i].role = "tool"
       \/ turnRows[i].role = "assistant" /\ turnRows[i].ids # <<>>
  THEN "halfway"
  ELSE "unprocessed"

\* Mutant of CloseFailedTurn: only one of the two open tails is closed.
CloseFailedTurnUserOnly(messages, userIdx, completed) ==
  IF ~completed /\ TailIs(messages, {"user"})
  THEN Append(messages, AssistantRow(<<>>, "unprocessed"))
  ELSE messages

\* _close_durable_failed_turn: an incomplete turn never leaves a user or a tool
\* row as the tail.
CloseFailedTurn(messages, userIdx, completed) ==
  IF ~completed /\ TailIs(messages, {"user", "tool"})
  THEN Append(messages,
              AssistantRow(<<>>, FailureNotice(SubSeq(messages, userIdx, Len(messages)))))
  ELSE messages
-----------------------------------------------------------------------------
\* What a provider requires of the rows of a request.

\* The calls of row i are answered by the rows that follow it, one each, in order.
AnsweredAt(messages, i) ==
  messages[i].role = "assistant" =>
    \A k \in DOMAIN messages[i].ids :
      /\ i + k \in DOMAIN messages
      /\ messages[i + k].role = "tool"
      /\ messages[i + k].ids = <<messages[i].ids[k]>>

\* Row j, if a tool result, answers a call of the batch it belongs to.
AnchoredAt(messages, j) ==
  messages[j].role = "tool" =>
    \E i \in DOMAIN messages :
      /\ i < j
      /\ messages[i].role = "assistant"
      /\ j - i <= Len(messages[i].ids)

\* Every tool call has exactly its answers and every answer has its call.
Replayable(messages) ==
  \A i \in DOMAIN messages : AnsweredAt(messages, i) /\ AnchoredAt(messages, i)

\* A history the next turn can start from: replayable, and the last word is an
\* assistant's with no call left open.
Closed(messages) ==
  /\ Replayable(messages)
  /\ messages # <<>> => Last(messages).role = "assistant" /\ Last(messages).ids = <<>>
=============================================================================
