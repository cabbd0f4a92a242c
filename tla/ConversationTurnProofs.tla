----------------------- MODULE ConversationTurnProofs -----------------------
(***************************************************************************)
(* Invariants of ConversationTurn for every set of replies, every bound    *)
(* and any number of turns: first the rows of the history, then what a     *)
(* turn spends and how it may end.                                         *)
(***************************************************************************)
EXTENDS ConversationTurn, SequenceTheorems, FiniteSetTheorems, TLAPS

-----------------------------------------------------------------------------
\* What the operators of History keep: each way the loop extends a replayable history
\* leaves it replayable.

\* The rows History builds are rows.
LEMMA RowTypes ==
  ASSUME NEW Ids
  PROVE  /\ \A body \in UserBodies : UserRow(body) \in Row(Ids)
         /\ \A ids \in Seq(Ids), body \in AssistantBodies : AssistantRow(ids, body) \in Row(Ids)
         /\ \A id \in Ids, answer \in Answers : ToolRow(id, answer) \in Row(Ids)
<1>1. \A body \in UserBodies : UserRow(body) \in Row(Ids)
  BY DEF UserRow, Row
<1>2. \A ids \in Seq(Ids), body \in AssistantBodies : AssistantRow(ids, body) \in Row(Ids)
  BY DEF AssistantRow, Row
<1>3. \A id \in Ids, answer \in Answers : ToolRow(id, answer) \in Row(Ids)
  BY DEF ToolRow, Row
<1> QED BY <1>1, <1>2, <1>3

\* ToolRows makes one tool row per call, in call order.
LEMMA ToolRowsType ==
  ASSUME NEW Ids, NEW ids \in Seq(Ids), NEW answers \in [DOMAIN ids -> Answers]
  PROVE  /\ ToolRows(ids, answers) \in Seq(Row(Ids))
         /\ Len(ToolRows(ids, answers)) = Len(ids)
         /\ \A k \in DOMAIN ids : ToolRows(ids, answers)[k] = ToolRow(ids[k], answers[k])
<1>1. \A k \in 1 .. Len(ids) : ToolRow(ids[k], answers[k]) \in Row(Ids)
  BY RowTypes
<1>2. ToolRows(ids, answers) = [k \in 1 .. Len(ids) |-> ToolRow(ids[k], answers[k])]
  BY DEF ToolRows
<1>3. Len(ids) \in Nat
  OBVIOUS
<1> QED BY <1>1, <1>2, <1>3

\* A row that opens no call and answers none can follow any replayable history.
LEMMA AppendPlain ==
  ASSUME NEW Ids, NEW m \in Seq(Row(Ids)), Replayable(m),
         NEW r \in Row(Ids), r.role # "tool", r.ids = <<>>
  PROVE  Replayable(Append(m, r))
<1> DEFINE n == Append(m, r)
<1>1. /\ n \in Seq(Row(Ids))
      /\ Len(n) = Len(m) + 1
      /\ n[Len(m) + 1] = r
      /\ \A i \in 1 .. Len(m) : n[i] = m[i]
  OBVIOUS
<1>2. DOMAIN n = 1 .. Len(m) + 1 /\ DOMAIN m = 1 .. Len(m) /\ Len(m) \in Nat
  BY <1>1
<1> HIDE DEF n
<1>3. ASSUME NEW i \in 1 .. Len(m)
      PROVE  AnsweredAt(n, i)
  <2>1. AnsweredAt(m, i)
    BY <1>2 DEF Replayable
  <2> QED BY <2>1, <1>1, <1>2 DEF AnsweredAt
<1>4. ASSUME NEW i \in 1 .. Len(m)
      PROVE  AnchoredAt(n, i)
  <2>1. AnchoredAt(m, i)
    BY <1>2 DEF Replayable
  <2> QED BY <2>1, <1>1, <1>2 DEF AnchoredAt
<1>5. AnsweredAt(n, Len(m) + 1) /\ AnchoredAt(n, Len(m) + 1)
  BY <1>1, <1>2 DEF AnsweredAt, AnchoredAt
<1>6. \A i \in DOMAIN n : i \in 1 .. Len(m) \/ i = Len(m) + 1
  BY <1>2
<1> QED BY <1>3, <1>4, <1>5, <1>6 DEF Replayable, n

\* A batch of calls with one answer each, in order, can follow any replayable history.
LEMMA AppendBatch ==
  ASSUME NEW Ids, NEW m \in Seq(Row(Ids)), Replayable(m),
         NEW ids \in Seq(Ids), NEW body \in AssistantBodies,
         NEW answers \in [DOMAIN ids -> Answers]
  PROVE  /\ Append(m, AssistantRow(ids, body)) \o ToolRows(ids, answers) \in Seq(Row(Ids))
         /\ Replayable(Append(m, AssistantRow(ids, body)) \o ToolRows(ids, answers))
<1> DEFINE a == AssistantRow(ids, body)
           t == ToolRows(ids, answers)
           n == Append(m, a) \o t
           L == Len(m)
           C == Len(ids)
<1>1. /\ t \in Seq(Row(Ids)) /\ Len(t) = C
      /\ \A k \in 1 .. C : t[k] = ToolRow(ids[k], answers[k])
  BY ToolRowsType
<1>2. a \in Row(Ids) /\ a.role = "assistant" /\ a.ids = ids
  BY RowTypes DEF AssistantRow
<1>3. L \in Nat /\ C \in Nat /\ DOMAIN m = 1 .. L /\ DOMAIN ids = 1 .. C
  OBVIOUS
<1> HIDE DEF a, t
<1>4. /\ Append(m, a) \in Seq(Row(Ids)) /\ Len(Append(m, a)) = L + 1
      /\ Append(m, a)[L + 1] = a
      /\ \A i \in 1 .. L : Append(m, a)[i] = m[i]
  BY <1>2
<1>5. n \in Seq(Row(Ids)) /\ Len(n) = L + 1 + C /\ DOMAIN n = 1 .. L + 1 + C
  BY <1>1, <1>3, <1>4
<1>6. \A i \in 1 .. L : n[i] = m[i]
  BY <1>1, <1>3, <1>4
<1>7. n[L + 1] = a
  BY <1>1, <1>3, <1>4
<1>8. \A k \in 1 .. C : n[L + 1 + k] = ToolRow(ids[k], answers[k])
  <2> TAKE k \in 1 .. C
  <2>1. n[L + 1 + k] = t[k]
    BY <1>1, <1>3, <1>4
  <2> QED BY <2>1, <1>1
<1> HIDE DEF n, L, C
<1>9. ASSUME NEW i \in 1 .. L
      PROVE  AnsweredAt(n, i) /\ AnchoredAt(n, i)
  <2>1. AnsweredAt(m, i) /\ AnchoredAt(m, i)
    BY <1>3 DEF Replayable
  <2>2. AnsweredAt(n, i)
    BY <2>1, <1>3, <1>5, <1>6 DEF AnsweredAt
  <2>3. AnchoredAt(n, i)
    <3> SUFFICES ASSUME n[i].role = "tool"
                 PROVE  \E j \in DOMAIN n : /\ j < i
                                           /\ n[j].role = "assistant"
                                           /\ i - j <= Len(n[j].ids)
      BY DEF AnchoredAt
    <3>1. PICK j \in 1 .. L : j < i /\ m[j].role = "assistant" /\ i - j <= Len(m[j].ids)
      BY <2>1, <1>3, <1>6 DEF AnchoredAt
    <3>2. n[j] = m[j] /\ j \in DOMAIN n
      BY <1>3, <1>5, <1>6
    <3> QED BY <3>1, <3>2
  <2> QED BY <2>2, <2>3
<1>10. AnsweredAt(n, L + 1) /\ AnchoredAt(n, L + 1)
  <2>1. AnsweredAt(n, L + 1)
    <3>1. DOMAIN n[L + 1].ids = 1 .. C /\ n[L + 1].ids = ids
      BY <1>2, <1>3, <1>7
    <3>2. ASSUME NEW k \in 1 .. C
          PROVE  /\ L + 1 + k \in DOMAIN n
                 /\ n[L + 1 + k].role = "tool"
                 /\ n[L + 1 + k].ids = <<ids[k]>>
      <4>1. L + 1 + k \in DOMAIN n
        BY <1>3, <1>5
      <4>2. n[L + 1 + k] = ToolRow(ids[k], answers[k])
        BY <1>8
      <4> QED BY <4>1, <4>2 DEF ToolRow
    <3> QED BY <3>1, <3>2 DEF AnsweredAt
  <2>2. AnchoredAt(n, L + 1)
    BY <1>2, <1>7 DEF AnchoredAt
  <2> QED BY <2>1, <2>2
<1>11. ASSUME NEW k \in 1 .. C
       PROVE  AnsweredAt(n, L + 1 + k) /\ AnchoredAt(n, L + 1 + k)
  <2>1. n[L + 1 + k].role = "tool"
    <3>1. n[L + 1 + k] = ToolRow(ids[k], answers[k])
      BY <1>8
    <3> QED BY <3>1 DEF ToolRow
  <2>2. L + 1 \in DOMAIN n /\ L + 1 < L + 1 + k /\ (L + 1 + k) - (L + 1) <= C
    BY <1>3, <1>5
  <2>3. Len(n[L + 1].ids) = C
    BY <1>2, <1>7 DEF C
  <2>4. AnchoredAt(n, L + 1 + k)
    BY <2>1, <2>2, <2>3, <1>2, <1>7 DEF AnchoredAt
  <2> QED BY <2>1, <2>4 DEF AnsweredAt
<1>12. \A i \in DOMAIN n : i \in 1 .. L \/ i = L + 1 \/ \E k \in 1 .. C : i = L + 1 + k
  <2> TAKE i \in DOMAIN n
  <2>1. i \in 1 .. L \/ i = L + 1 \/ i - (L + 1) \in 1 .. C
    BY <1>3, <1>5
  <2>2. i = L + 1 + (i - (L + 1))
    BY <1>3, <1>5
  <2> QED BY <2>1, <2>2
<1>13. Replayable(n)
  BY <1>9, <1>10, <1>11, <1>12 DEF Replayable
<1> QED BY <1>5, <1>13 DEF n, a, t

\* A replayable history that ends on an assistant row leaves no call open.
LEMMA TailHasNoCalls ==
  ASSUME NEW Ids, NEW m \in Seq(Row(Ids)), Replayable(m), TailIs(m, {"assistant"})
  PROVE  Last(m).ids = <<>>
<1>1. Len(m) \in Nat /\ Len(m) \in DOMAIN m /\ Last(m) = m[Len(m)]
  BY DEF TailIs, Last
<1>2. m[Len(m)] \in Row(Ids)
  BY <1>1
<1>3. AnsweredAt(m, Len(m))
  BY <1>1 DEF Replayable
<1>4. \A k \in DOMAIN m[Len(m)].ids : Len(m) + k \in DOMAIN m
  BY <1>1, <1>3 DEF AnsweredAt, TailIs
<1>5. m[Len(m)].ids \in Seq(Ids)
  BY <1>2 DEF Row
<1>6. DOMAIN m = 1 .. Len(m) /\ DOMAIN m[Len(m)].ids = 1 .. Len(m[Len(m)].ids)
  BY <1>5
<1>7. Len(m[Len(m)].ids) = 0
  <2>1. Len(m[Len(m)].ids) \in Nat
    BY <1>5
  <2>2. 1 \notin 1 .. Len(m[Len(m)].ids)
    BY <1>1, <1>4, <1>6
  <2> QED BY <2>1, <2>2
<1> QED BY <1>1, <1>5, <1>7

\* The closing row of an interrupted tool sequence keeps the history replayable.
LEMMA CloseToolTailKeeps ==
  ASSUME NEW Ids, NEW m \in Seq(Row(Ids)), Replayable(m), NEW text \in AssistantBodies
  PROVE  CloseToolTail(m, text) \in Seq(Row(Ids)) /\ Replayable(CloseToolTail(m, text))
<1>1. AssistantRow(<<>>, text) \in Row(Ids)
  <2>1. <<>> \in Seq(Ids)
    OBVIOUS
  <2> QED BY <2>1, RowTypes
<1>2. AssistantRow(<<>>, text).role # "tool" /\ AssistantRow(<<>>, text).ids = <<>>
  BY DEF AssistantRow
<1>3. Replayable(Append(m, AssistantRow(<<>>, text)))
  BY <1>1, <1>2, AppendPlain
<1> QED BY <1>1, <1>3 DEF CloseToolTail

\* What run_conversation returns are rows.
LEMMA CloseFailedTurnType ==
  ASSUME NEW Ids, NEW m \in Seq(Row(Ids)), NEW first, NEW completed \in BOOLEAN
  PROVE  CloseFailedTurn(m, first, completed) \in Seq(Row(Ids))
<1> DEFINE body == FailureNotice(SubSeq(m, first, Len(m)))
<1>1. body \in AssistantBodies
  BY DEF FailureNotice, AssistantBodies
<1>2. <<>> \in Seq(Ids)
  OBVIOUS
<1> HIDE DEF body
<1>3. AssistantRow(<<>>, body) \in Row(Ids)
  BY <1>1, <1>2, RowTypes
<1>4. Append(m, AssistantRow(<<>>, body)) \in Seq(Row(Ids))
  BY <1>3
<1> QED BY <1>4 DEF CloseFailedTurn, body

\* What run_conversation returns is closed, if a completed turn ends on an
\* assistant row.
LEMMA CloseFailedTurnCloses ==
  ASSUME NEW Ids, NEW m \in Seq(Row(Ids)), Replayable(m), NEW first, NEW completed \in BOOLEAN,
         completed => TailIs(m, {"assistant"})
  PROVE  Closed(CloseFailedTurn(m, first, completed))
<1> DEFINE notice == AssistantRow(<<>>, FailureNotice(SubSeq(m, first, Len(m))))
<1>1. CASE ~completed /\ TailIs(m, {"user", "tool"})
  <2>1. FailureNotice(SubSeq(m, first, Len(m))) \in AssistantBodies
    BY DEF FailureNotice, AssistantBodies
  <2>2. notice \in Row(Ids) /\ notice.role = "assistant" /\ notice.ids = <<>>
    <3>1. <<>> \in Seq(Ids)
      OBVIOUS
    <3>2. notice \in Row(Ids)
      BY <2>1, <3>1, RowTypes
    <3> QED BY <3>2 DEF AssistantRow
  <2> HIDE DEF notice
  <2>3. Append(m, notice) \in Seq(Row(Ids)) /\ Last(Append(m, notice)) = notice
    BY <2>2 DEF Last
  <2>4. Replayable(Append(m, notice))
    BY <2>2, AppendPlain
  <2>5. CloseFailedTurn(m, first, completed) = Append(m, notice)
    BY <1>1 DEF CloseFailedTurn, notice
  <2> QED BY <2>2, <2>3, <2>4, <2>5 DEF Closed
<1>2. CASE ~(~completed /\ TailIs(m, {"user", "tool"}))
  <2>1. CloseFailedTurn(m, first, completed) = m
    BY <1>2 DEF CloseFailedTurn
  <2>2. m # <<>> => TailIs(m, {"assistant"})
    <3>1. m # <<>> => Last(m) \in Row(Ids)
      BY DEF Last
    <3>2. m # <<>> => Last(m).role \in {"user", "assistant", "tool"}
      BY <3>1 DEF Row
    <3> QED BY <1>2, <3>2 DEF TailIs
  <2>3. m # <<>> => Last(m).role = "assistant" /\ Last(m).ids = <<>>
    BY <2>2, TailHasNoCalls DEF TailIs
  <2> QED BY <2>1, <2>3 DEF Closed
<1> QED BY <1>1, <1>2

\* The scan of handle_outer_loop_error stops at the only row that is not a tool
\* result and has none but tool results after it.
LEMMA NewestBatchIs ==
  ASSUME NEW Ids, NEW m \in Seq(Row(Ids)), NEW i \in DOMAIN m,
         m[i].role # "tool", \A j \in DOMAIN m : j > i => m[j].role = "tool"
  PROVE  NewestBatch(m) = i
<1> DEFINE P(n) == /\ m[n].role # "tool"
                   /\ \A j \in DOMAIN m : j > n => m[j].role = "tool"
<1>1. NewestBatch(m) = CHOOSE n \in DOMAIN m : P(n)
  BY DEF NewestBatch
<1>2. P(i)
  OBVIOUS
<1>3. \A n \in DOMAIN m : P(n) => n = i
  <2> SUFFICES ASSUME NEW n \in DOMAIN m, P(n)
               PROVE  n = i
    OBVIOUS
  <2>1. DOMAIN m \subseteq Nat
    OBVIOUS
  <2>2. ~(n < i) /\ ~(i < n)
    BY <1>2
  <2> QED BY <2>1, <2>2
<1> HIDE DEF P
<1> QED BY <1>1, <1>2, <1>3

\* Nothing is answered twice: a history without an open call is left as it is.
LEMMA NothingToAnswer ==
  ASSUME NEW Ids, NEW m \in Seq(Row(Ids)), Replayable(m), m # <<>>
  PROVE  AnswerOpenCalls(m) = m
<1> DEFINE L == Len(m)
<1>1. L \in Nat /\ L \in DOMAIN m /\ DOMAIN m = 1 .. L
  OBVIOUS
<1>2. AnsweredAt(m, L) /\ AnchoredAt(m, L)
  BY <1>1 DEF Replayable
<1>3. PICK i \in DOMAIN m : /\ m[i].role # "tool"
                            /\ \A j \in DOMAIN m : j > i => m[j].role = "tool"
                            /\ m[i].role = "assistant" => L - i >= Len(m[i].ids)
  <2>1. CASE m[L].role = "tool"
    <3>1. PICK i \in DOMAIN m : i < L /\ m[i].role = "assistant" /\ L - i <= Len(m[i].ids)
      BY <1>2, <2>1 DEF AnchoredAt
    <3>2. AnsweredAt(m, i)
      BY DEF Replayable
    <3>3. m[i].ids \in Seq(Ids)
      <4>1. m[i] \in Row(Ids)
        OBVIOUS
      <4> QED BY <4>1 DEF Row
    <3>4. \A k \in 1 .. Len(m[i].ids) : i + k \in DOMAIN m /\ m[i + k].role = "tool"
      BY <3>1, <3>2, <3>3 DEF AnsweredAt
    <3>5. ASSUME NEW j \in DOMAIN m, j > i
          PROVE  m[j].role = "tool"
      <4>1. j - i \in 1 .. Len(m[i].ids)
        BY <1>1, <3>1, <3>3, <3>5
      <4>2. j = i + (j - i)
        BY <1>1
      <4> QED BY <3>4, <4>1, <4>2
    <3>6. L - i >= Len(m[i].ids)
      <4>1. Len(m[i].ids) \in Nat
        BY <3>3
      <4>2. CASE Len(m[i].ids) = 0
        BY <4>2, <1>1
      <4>3. CASE Len(m[i].ids) # 0
        BY <4>1, <4>3, <3>4, <1>1
      <4> QED BY <4>2, <4>3
    <3> QED BY <3>1, <3>5, <3>6
  <2>2. CASE m[L].role # "tool"
    <3>1. m[L].role = "assistant" => m[L].ids = <<>>
      BY TailHasNoCalls DEF TailIs, Last
    <3>2. L - L >= Len(<<>>)
      BY <1>1
    <3>3. \A j \in DOMAIN m : ~(j > L)
      BY <1>1
    <3> QED BY <1>1, <2>2, <3>1, <3>2, <3>3
  <2> QED BY <2>1, <2>2
<1>4. NewestBatch(m) = i
  BY <1>3, NewestBatchIs
<1>5. CASE m[i].role = "assistant"
  <2> DEFINE open == SubSeq(m[i].ids, L - i + 1, Len(m[i].ids))
  <2>1. m[i].ids \in Seq(Ids)
    <3>1. m[i] \in Row(Ids)
      OBVIOUS
    <3> QED BY <3>1 DEF Row
  <2>2. L - i + 1 > Len(m[i].ids) /\ L - i + 1 \in Int /\ Len(m[i].ids) \in Nat
    BY <1>1, <1>3, <1>5, <2>1
  <2>3. open = <<>>
    BY <2>1, <2>2
  <2> HIDE DEF open
  <2>4. ToolRows(open, [k \in DOMAIN open |-> "error"]) = <<>>
    BY <2>3 DEF ToolRows
  <2>5. AnswerOpenCalls(m) = m \o ToolRows(open, [k \in DOMAIN open |-> "error"])
    BY <1>4, <1>5 DEF AnswerOpenCalls, open
  <2> QED BY <2>4, <2>5
<1>6. CASE m[i].role # "assistant"
  BY <1>4, <1>6 DEF AnswerOpenCalls
<1> QED BY <1>5, <1>6

\* The calls of a batch that was just recorded are all open, and all get an error.
LEMMA AnswersWholeBatch ==
  ASSUME NEW Ids, NEW m \in Seq(Row(Ids)), NEW ids \in Seq(Ids), NEW body \in AssistantBodies
  PROVE  AnswerOpenCalls(Append(m, AssistantRow(ids, body)))
           = Append(m, AssistantRow(ids, body)) \o ToolRows(ids, [k \in DOMAIN ids |-> "error"])
<1> DEFINE a == AssistantRow(ids, body)
           n == Append(m, a)
           L == Len(m) + 1
<1>1. a \in Row(Ids) /\ a.role = "assistant" /\ a.ids = ids
  BY RowTypes DEF AssistantRow
<1> HIDE DEF a
<1>2. n \in Seq(Row(Ids)) /\ L \in Nat /\ Len(n) = L /\ DOMAIN n = 1 .. L /\ L \in DOMAIN n /\ n[L] = a
  BY <1>1
<1> HIDE DEF n, L
<1>3. NewestBatch(n) = L
  <2>1. \A j \in DOMAIN n : ~(j > L)
    BY <1>2
  <2>2. n[L].role # "tool"
    BY <1>1, <1>2
  <2> QED BY <1>2, <2>1, <2>2, NewestBatchIs
<1>4. SubSeq(ids, L - L + 1, Len(ids)) = ids
  <2>1. L - L + 1 = 1
    BY <1>2
  <2> QED BY <2>1, SubSeqFull
<1>5. AnswerOpenCalls(n) = n \o ToolRows(ids, [k \in DOMAIN ids |-> "error"])
  BY <1>1, <1>2, <1>3, <1>4 DEF AnswerOpenCalls
<1> QED BY <1>5 DEF n, a
-----------------------------------------------------------------------------
\* The rows between the steps of a turn.  Everything is replayable but the batch a
\* round has recorded and not answered yet, and that batch is the whole difference:
\* it is why an exception of the executor can be repaired by answering it.
RowsOK ==
  /\ Closed(history)
  /\ pc \notin {"idle", "tools"} => Replayable(messages) /\ messages # <<>>
  /\ pc = "tools" =>
       \E m \in Seq(Row(CallIds)) :
         Replayable(m) /\ messages = Append(m, AssistantRow(ReplyIds, "model"))

\* TypeOK is not inductive by itself: AnswerOpenCalls yields rows only because there
\* is a batch to answer, or nothing to answer.
IInv == TypeOK /\ RowsOK

-----------------------------------------------------------------------------
\* Types of what the steps build.

\* The ids of a reply are ids, one per call.
LEMMA ReplyIdsType ==
  ASSUME TypeOK
  PROVE  /\ ReplyIds \in Seq(CallIds) /\ DOMAIN ReplyIds = DOMAIN reply.calls
         /\ reply.calls \in Seq(Calls)
<1>1. reply.calls \in Seq(Calls)
  <2>1. <<>> \in Seq(Calls)
    OBVIOUS
  <2>2. CASE reply \in Replies
    BY <2>2, RepliesAssumption
  <2>3. CASE reply = NoReply
    BY <2>1, <2>3 DEF NoReply
  <2> QED BY <2>2, <2>3 DEF TypeOK
<1>2. ASSUME NEW k \in DOMAIN reply.calls
      PROVE  reply.calls[k].id \in CallIds
  <2>1. reply.calls[k] \in Calls
    BY <1>1
  <2> QED BY <2>1 DEF Calls
<1> QED BY <1>1, <1>2 DEF ReplyIds

\* A result made of values of the right kinds is one, and keeps its completed flag.
LEMMA ResultType ==
  ASSUME NEW reason \in Exits, NEW completed \in BOOLEAN, NEW hasFailed \in BOOLEAN,
         NEW wasInterrupted \in BOOLEAN, NEW partial \in BOOLEAN, NEW calls \in Nat
  PROVE  /\ ResultOf(reason, completed, hasFailed, wasInterrupted, partial, calls) \in Results
         /\ ResultOf(reason, completed, hasFailed, wasInterrupted, partial, calls).completed
              = completed
BY DEF ResultOf, Results

\* The counters validation hands back count.
LEMMA ValidateType ==
  ASSUME NEW calls, NEW ts \in Nat, NEW js \in Nat
  PROVE  Validate(calls, ts, js).toolStrikes \in Nat /\ Validate(calls, ts, js).jsonStrikes \in Nat
BY DEF Validate, UnknownVerdict, BadJsonVerdict, Verdict

\* Rows without calls that the loop adds.
LEMMA PlainRows ==
  /\ \A body \in UserBodies : /\ UserRow(body) \in Row(CallIds)
                              /\ UserRow(body).role # "tool" /\ UserRow(body).ids = <<>>
  /\ \A body \in AssistantBodies : /\ AssistantRow(<<>>, body) \in Row(CallIds)
                                   /\ AssistantRow(<<>>, body).role = "assistant"
                                   /\ AssistantRow(<<>>, body).ids = <<>>
<1>1. <<>> \in Seq(CallIds)
  OBVIOUS
<1>2. \A body \in UserBodies : UserRow(body) \in Row(CallIds)
  BY RowTypes
<1>3. \A body \in AssistantBodies : AssistantRow(<<>>, body) \in Row(CallIds)
  BY <1>1, RowTypes
<1> QED BY <1>2, <1>3 DEF UserRow, AssistantRow

\* A valid call takes the answer the executor has for it, whatever unknown calls are
\* around it: it is as far among the valid calls as its answer is among the answers.
LEMMA CallsTakeTheirOwn ==
  ASSUME NEW calls \in Seq(Calls), NEW answers, NEW k \in DOMAIN calls, Known(calls[k])
  PROVE  Executed(calls, answers)[ValidUpTo(calls, k)] = ToolRow(calls[k].id, answers[k])
<1> DEFINE L == Len(calls)
           upTo(i) == {j \in 1 .. i : Known(calls[j])}
<1>1. L \in Nat /\ DOMAIN calls = 1 .. L /\ k \in 1 .. L
  OBVIOUS
<1>2. \A i \in 1 .. L : /\ IsFiniteSet(upTo(i)) /\ Cardinality(upTo(i)) \in Nat
                        /\ ValidUpTo(calls, i) = Cardinality(upTo(i))
  <2> TAKE i \in 1 .. L
  <2>1. IsFiniteSet(1 .. i) /\ upTo(i) \in SUBSET (1 .. i)
    BY <1>1, FS_Interval
  <2> QED BY <2>1, FS_Subset, FS_CardinalityType DEF ValidUpTo
<1>3. ASSUME NEW i \in 1 .. L, NEW j \in 1 .. L, i < j, Known(calls[j])
      PROVE  ValidUpTo(calls, i) < ValidUpTo(calls, j)
  <2>1. upTo(i) \in SUBSET upTo(j) /\ j \in upTo(j) /\ j \notin upTo(i)
    BY <1>1, <1>3
  <2>2. Cardinality(upTo(i)) <= Cardinality(upTo(j)) /\ Cardinality(upTo(i)) # Cardinality(upTo(j))
    BY <1>2, <2>1, FS_Subset
  <2> HIDE DEF upTo
  <2>3. /\ Cardinality(upTo(i)) \in Nat /\ ValidUpTo(calls, i) = Cardinality(upTo(i))
        /\ Cardinality(upTo(j)) \in Nat /\ ValidUpTo(calls, j) = Cardinality(upTo(j))
    BY <1>2
  <2> QED BY <2>2, <2>3
<1> HIDE DEF upTo
<1>4. ValidCall(calls, ValidUpTo(calls, k)) = k
  <2>1. ASSUME NEW i \in DOMAIN calls, Known(calls[i]), ValidUpTo(calls, i) = ValidUpTo(calls, k)
        PROVE  i = k
    <3>1. ~(i < k) /\ ~(k < i)
      BY <1>1, <1>2, <1>3, <2>1
    <3> QED BY <1>1, <3>1
  <2> QED BY <2>1 DEF ValidCall
<1>5. ValidUpTo(calls, k) \in 1 .. ValidUpTo(calls, L)
  <2>1. k \in upTo(k) /\ L \in 1 .. L
    BY <1>1 DEF upTo
  <2>2. ValidUpTo(calls, k) \in Nat /\ ValidUpTo(calls, k) # 0
    BY <1>1, <1>2, <2>1, FS_EmptySet
  <2>3. ValidUpTo(calls, k) <= ValidUpTo(calls, L)
    <3>1. upTo(k) \in SUBSET upTo(L)
      BY <1>1 DEF upTo
    <3> QED BY <1>1, <1>2, <2>1, <3>1, FS_Subset
  <2> QED BY <1>2, <2>1, <2>2, <2>3
<1> QED BY <1>4, <1>5 DEF Executed

\* A round is answered in the order of its calls, each by a row of its own.
LEMMA RoundRows ==
  ASSUME TypeOK, FinishTools
  PROVE  \E answers \in [DOMAIN ReplyIds -> Answers] :
           messages' = messages \o ToolRows(ReplyIds, answers)
<1>1. ReplyIds \in Seq(CallIds) /\ DOMAIN ReplyIds = DOMAIN reply.calls /\ reply.calls \in Seq(Calls)
  BY ReplyIdsType
<1>2. PICK given \in [DOMAIN reply.calls -> Answers] :
        messages' = messages \o InCallOrder(reply.calls, Executed(reply.calls, given))
  BY DEF FinishTools
<1> DEFINE answers == [k \in DOMAIN ReplyIds |-> IF Known(reply.calls[k]) THEN given[k] ELSE "error"]
<1>3. answers \in [DOMAIN ReplyIds -> Answers]
  BY <1>1 DEF Answers
<1>4. ASSUME NEW k \in DOMAIN reply.calls
      PROVE  (IF Known(reply.calls[k])
              THEN Executed(reply.calls, given)[ValidUpTo(reply.calls, k)]
              ELSE ToolRow(reply.calls[k].id, "error")) = ToolRow(ReplyIds[k], answers[k])
  <2>1. ReplyIds[k] = reply.calls[k].id
    BY DEF ReplyIds
  <2>2. CASE Known(reply.calls[k])
    BY <1>1, <2>1, <2>2, CallsTakeTheirOwn
  <2>3. CASE ~Known(reply.calls[k])
    BY <1>1, <2>1, <2>3
  <2> QED BY <2>2, <2>3
<1> HIDE DEF answers
<1>5. InCallOrder(reply.calls, Executed(reply.calls, given)) = ToolRows(ReplyIds, answers)
  BY <1>1, <1>4 DEF InCallOrder, ToolRows
<1> QED BY <1>2, <1>3, <1>5

\* A recorded batch, with or without the errors that answer it.
LEMMA BatchRows ==
  ASSUME TypeOK
  PROVE  /\ Append(messages, AssistantRow(ReplyIds, "model")) \in Seq(Row(CallIds))
         /\ \A answers \in [DOMAIN ReplyIds -> Answers] :
              messages \o ToolRows(ReplyIds, answers) \in Seq(Row(CallIds))
         /\ \A answers \in [DOMAIN ReplyIds -> Answers] :
              Append(messages, AssistantRow(ReplyIds, "model")) \o ToolRows(ReplyIds, answers)
                \in Seq(Row(CallIds))
         /\ [k \in DOMAIN ReplyIds |-> "error"] \in [DOMAIN ReplyIds -> Answers]
<1>1. AssistantRow(ReplyIds, "model") \in Row(CallIds)
  BY ReplyIdsType, RowTypes DEF AssistantBodies
<1>2. \A answers \in [DOMAIN ReplyIds -> Answers] : ToolRows(ReplyIds, answers) \in Seq(Row(CallIds))
  BY ReplyIdsType, ToolRowsType
<1>3. [k \in DOMAIN ReplyIds |-> "error"] \in [DOMAIN ReplyIds -> Answers]
  BY DEF Answers
<1>4. messages \in Seq(Row(CallIds))
  BY DEF TypeOK
<1> QED BY <1>1, <1>2, <1>3, <1>4
-----------------------------------------------------------------------------
\* Types.

\* What leaves through Return is typed if the rows and the result are.
LEMMA ReturnType ==
  ASSUME TypeOK, NEW rows \in Seq(Row(CallIds)), NEW res \in Results,
         history' = CloseFailedTurn(rows, userIdx, res.completed), result' = res,
         messages' = <<>>, reply' = NoReply, attempts' = 0, stop' = FALSE, stopSeen' = FALSE,
         pc' = "idle", requests' \in Nat,
         UNCHANGED <<loopVars, outcomeVars, turnVars, turns>>
  PROVE  TypeOK'
<1>1. res.completed \in BOOLEAN
  BY DEF Results
<1>2. history' \in Seq(Row(CallIds))
  BY <1>1, CloseFailedTurnType
<1>3. messages' \in Seq(Row(CallIds))
  OBVIOUS
<1> QED BY <1>2, <1>3 DEF TypeOK, loopVars, outcomeVars, turnVars

\* What the event loop does keeps the types.
LEMMA LoopStepType ==
  ASSUME IInv, LoopStep
  PROVE  TypeOK'
<1> USE DEF loopVars, outcomeVars, callerVars, turnVars, signalVars
<1>1. TypeOK
  BY DEF IInv
<1>2. CASE StopBeforeCall
  BY <1>1, <1>2 DEF StopBeforeCall, TypeOK, Exits
<1>3. CASE BeginIteration
  BY <1>1, <1>3 DEF BeginIteration, TypeOK
<1>4. CASE LeaveLoop
  BY <1>1, <1>4 DEF LeaveLoop, TypeOK
<1>5. CASE SendRequest
  BY <1>1, <1>5 DEF SendRequest, TypeOK
<1>6. CASE RefuseFiltered
  <2>1. ResultOf("content_policy_blocked", FALSE, TRUE, FALSE, FALSE, apiCalls) \in Results
    <3>1. "content_policy_blocked" \in Exits /\ apiCalls \in Nat
      BY <1>1 DEF TypeOK, Exits
    <3> QED BY <3>1, ResultType
  <2> QED BY <1>1, <1>6, <2>1, ReturnType DEF RefuseFiltered, Return, TypeOK
<1>7. CASE ReturnTruncated
  <2>1. ResultOf("length_truncated", FALSE, FALSE, FALSE, TRUE, apiCalls) \in Results
    <3>1. "length_truncated" \in Exits /\ apiCalls \in Nat
      BY <1>1 DEF TypeOK, Exits
    <3> QED BY <3>1, ResultType
  <2>2. Append(messages, AssistantRow(<<>>, "model")) \in Seq(Row(CallIds))
    BY <1>1, PlainRows DEF TypeOK, AssistantBodies
  <2> QED BY <1>1, <1>7, <2>1, <2>2, ReturnType DEF ReturnTruncated, Return, TypeOK
<1>8. CASE FinishText
  <2>1. Append(messages, AssistantRow(<<>>, "model")) \in Seq(Row(CallIds))
    BY <1>1, PlainRows DEF TypeOK, AssistantBodies
  <2> QED BY <1>1, <1>8, <2>1 DEF FinishText, TypeOK, Exits
<1>9. CASE AskAgain
  <2>1. Checked.toolStrikes \in Nat /\ Checked.jsonStrikes \in Nat
    BY <1>1, ValidateType DEF Checked, TypeOK
  <2>2. messages' \in Seq(Row(CallIds))
    BY <1>1, <1>9, BatchRows DEF AskAgain, TypeOK
  <2> QED BY <1>1, <1>9, <2>1, <2>2 DEF AskAgain, TypeOK
<1>10. CASE GiveUpOnCalls
  <2>1. ResultOf("invalid_tool_calls", FALSE, FALSE, FALSE, TRUE, apiCalls) \in Results
    <3>1. "invalid_tool_calls" \in Exits /\ apiCalls \in Nat
      BY <1>1 DEF TypeOK, Exits
    <3> QED BY <3>1, ResultType
  <2>2. \A text \in {"unchanged", "closing"} : CloseToolTail(messages, text) \in Seq(Row(CallIds))
    BY <1>1, PlainRows DEF TypeOK, CloseToolTail, AssistantBodies
  <2> QED BY <1>1, <1>10, <2>1, <2>2, ReturnType DEF GiveUpOnCalls, Return, TypeOK
<1>11. CASE ValidationRaises
  <2>1. messages' = messages
    BY <1>1, <1>11, NothingToAnswer DEF ValidationRaises, LocalError, HasCalls, IInv, RowsOK, TypeOK
  <2> QED BY <1>1, <1>11, <2>1 DEF ValidationRaises, LocalError, TypeOK, Exits
<1>12. CASE StartTools
  <2>1. messages' \in Seq(Row(CallIds))
    BY <1>1, <1>12, BatchRows DEF StartTools, TypeOK
  <2>2. mayHaveRun' \in BOOLEAN
    BY <1>1, <1>12 DEF StartTools, TypeOK
  <2> QED BY <1>1, <1>12, <2>1, <2>2 DEF StartTools, TypeOK
<1>13. CASE RequestSummary
  <2>1. Append(messages, UserRow("summary")) \in Seq(Row(CallIds))
    BY <1>1, PlainRows DEF TypeOK, UserBodies
  <2> QED BY <1>1, <1>13, <2>1 DEF RequestSummary, TypeOK, Exits
<1>14. CASE Finalize
  <2>1. Completed \in BOOLEAN
    BY <1>1 DEF Completed, TypeOK
  <2>2. ResultOf(exit, Completed, failed, interrupted, FALSE, apiCalls) \in Results
    BY <1>1, <2>1, ResultType DEF TypeOK
  <2>3. CloseTranscript(messages) \in Seq(Row(CallIds))
    BY <1>1, PlainRows DEF TypeOK, CloseTranscript, CloseToolTail, AssistantBodies
  <2> QED BY <1>1, <1>14, <2>2, <2>3, ReturnType DEF Finalize, Return, TypeOK
<1> QED BY <1>2, <1>3, <1>4, <1>5, <1>6, <1>7, <1>8, <1>9, <1>10, <1>11, <1>12, <1>13, <1>14
        DEF LoopStep
\* What a model call does keeps the types.
LEMMA ModelStepType ==
  ASSUME IInv, StopStep \/ ModelStep \/ BackoffElapses
  PROVE  TypeOK'
<1> USE DEF loopVars, outcomeVars, callerVars, turnVars, signalVars
<1>1. TypeOK
  BY DEF IInv
<1>2. ASSUME NEW r \in Replies, ReplyArrives(r)
      PROVE  TypeOK'
  BY <1>1, <1>2 DEF ReplyArrives, TypeOK
<1>3. CASE AbandonCall
  <2>1. Append(messages, AssistantRow(<<>>, "partial")) \in Seq(Row(CallIds))
    BY <1>1, PlainRows DEF TypeOK, AssistantBodies
  <2>2. messages' \in Seq(Row(CallIds))
    BY <1>1, <1>3, <2>1 DEF AbandonCall, TypeOK
  <2> QED BY <1>1, <1>3, <2>2 DEF AbandonCall, TypeOK, Exits
<1>4. ASSUME AbortOnStop
      PROVE  TypeOK'
  <2>1. ResultOf("interrupted_during_retry", FALSE, FALSE, TRUE, FALSE, apiCalls) \in Results
    <3>1. "interrupted_during_retry" \in Exits /\ apiCalls \in Nat
      BY <1>1 DEF TypeOK, Exits
    <3> QED BY <3>1, ResultType
  <2>2. CloseToolTail(messages, "closing") \in Seq(Row(CallIds))
    BY <1>1, PlainRows DEF TypeOK, CloseToolTail, AssistantBodies
  <2> QED BY <1>1, <1>4, <2>1, <2>2, ReturnType DEF AbortOnStop, Return, TypeOK
<1>5. CASE BackoffStopped
  BY <1>4, <1>5 DEF BackoffStopped
<1>6. CASE CallFailsWhenStopped
  BY <1>4, <1>6 DEF CallFailsWhenStopped
<1>7. CASE CallFailsForGood
  <2>1. ResultOf("model_request_failed", FALSE, TRUE, FALSE, FALSE, apiCalls) \in Results
    <3>1. "model_request_failed" \in Exits /\ apiCalls \in Nat
      BY <1>1 DEF TypeOK, Exits
    <3> QED BY <3>1, ResultType
  <2> QED BY <1>1, <1>7, <2>1, ReturnType DEF CallFailsForGood, Return, TypeOK
<1>8. CASE RetriesExhausted
  <2>1. ResultOf("all_retries_exhausted", FALSE, TRUE, FALSE, FALSE, apiCalls) \in Results
    <3>1. "all_retries_exhausted" \in Exits /\ apiCalls \in Nat
      BY <1>1 DEF TypeOK, Exits
    <3> QED BY <3>1, ResultType
  <2> QED BY <1>1, <1>8, <2>1, ReturnType DEF RetriesExhausted, Return, TypeOK
<1>9. CASE ScheduleRetry
  <2>1. attempts' \in Nat
    BY <1>1, <1>9 DEF ScheduleRetry, TypeOK
  <2>2. stopSeen' = FALSE /\ pc' = "backoff"
    BY <1>9 DEF ScheduleRetry
  <2>3. UNCHANGED <<messages, reply, requests, stop, loopVars, outcomeVars, callerVars, turnVars>>
    BY <1>9 DEF ScheduleRetry
  <2> QED BY <1>1, <2>1, <2>2, <2>3 DEF TypeOK
<1>10. CASE BackoffElapses
  BY <1>1, <1>10 DEF BackoffElapses, TypeOK
<1> QED BY <1>2, <1>3, <1>5, <1>6, <1>7, <1>8, <1>9, <1>10 DEF StopStep, ModelStep

\* What the caller, the tools, a stop and the summary do keeps the types.
LEMMA OtherStepType ==
  ASSUME IInv, BeginTurn \/ RaiseOut \/ Interrupt \/ ClearInterrupt \/ ToolStep \/ SummaryStep
  PROVE  TypeOK'
<1> USE DEF loopVars, outcomeVars, callerVars, turnVars, signalVars
<1>1. TypeOK
  BY DEF IInv
<1>2. CASE BeginTurn
  <2>1. messages' \in Seq(Row(CallIds))
    BY <1>1, <1>2, PlainRows DEF BeginTurn, TypeOK, UserBodies
  <2>2. result' \in Results /\ exit' \in Exits
    BY <1>2 DEF BeginTurn, NoResult, Results, Exits
  <2>3. userIdx' \in Nat /\ turns' \in Nat
    BY <1>1, <1>2 DEF BeginTurn, TypeOK
  <2>4. /\ pc' = "iterate"
        /\ apiCalls' = 0 /\ used' = 0 /\ toolStrikes' = 0 /\ jsonStrikes' = 0 /\ requests' = 0
        /\ answered' = FALSE /\ interrupted' = FALSE /\ failed' = FALSE /\ mayHaveRun' = FALSE
        /\ UNCHANGED <<history, attempts, reply, signalVars>>
    BY <1>2 DEF BeginTurn
  <2> QED BY <1>1, <2>1, <2>2, <2>3, <2>4 DEF TypeOK
<1>3. CASE RaiseOut
  <2>1. result' \in Results
    BY <1>3 DEF RaiseOut, NoResult, Results, Exits
  <2>2. messages' \in Seq(Row(CallIds))
    BY <1>3 DEF RaiseOut
  <2> QED BY <1>1, <1>3, <2>1, <2>2 DEF RaiseOut, TypeOK
<1>4. CASE Interrupt
  BY <1>1, <1>4 DEF Interrupt, Awaiting, TypeOK
<1>5. CASE ClearInterrupt
  BY <1>1, <1>5 DEF ClearInterrupt, TypeOK
<1>6. CASE FinishTools
  <2>1. Checked.toolStrikes \in Nat /\ Checked.jsonStrikes \in Nat
    BY <1>1, ValidateType DEF Checked, TypeOK
  <2>2. messages' \in Seq(Row(CallIds))
    <3>1. PICK answers \in [DOMAIN ReplyIds -> Answers] :
            messages' = messages \o ToolRows(ReplyIds, answers)
      BY <1>1, <1>6, RoundRows
    <3> QED BY <1>1, <3>1, ReplyIdsType, BatchRows
  <2> QED BY <1>1, <1>6, <2>1, <2>2 DEF FinishTools, TypeOK
<1>7. CASE ToolsRaise
  <2>1. messages' \in Seq(Row(CallIds))
    <3>1. PICK m \in Seq(Row(CallIds)) : messages = Append(m, AssistantRow(ReplyIds, "model"))
      BY <1>7 DEF ToolsRaise, IInv, RowsOK
    <3>2. messages' = messages \o ToolRows(ReplyIds, [k \in DOMAIN ReplyIds |-> "error"])
      <4>1. messages' = AnswerOpenCalls(messages)
        BY <1>7 DEF ToolsRaise, LocalError
      <4>2. ReplyIds \in Seq(CallIds) /\ "model" \in AssistantBodies
        BY <1>1, ReplyIdsType DEF AssistantBodies
      <4> HIDE DEF ReplyIds
      <4> QED BY <3>1, <4>1, <4>2, AnswersWholeBatch
    <3> QED BY <1>1, <3>2, BatchRows
  <2> QED BY <1>1, <1>7, <2>1 DEF ToolsRaise, LocalError, TypeOK, Exits
<1>8. CASE SummaryBlank
  BY <1>1, <1>8 DEF SummaryBlank, TypeOK
<1>9. CASE SummaryEnds
  <2>1. Append(messages, AssistantRow(<<>>, "model")) \in Seq(Row(CallIds))
    BY <1>1, PlainRows DEF TypeOK, AssistantBodies
  <2>2. messages' \in Seq(Row(CallIds))
    BY <1>1, <1>9, <2>1 DEF SummaryEnds, TypeOK
  <2> QED BY <1>1, <1>9, <2>2 DEF SummaryEnds, TypeOK
<1> QED BY <1>2, <1>3, <1>4, <1>5, <1>6, <1>7, <1>8, <1>9 DEF ToolStep, SummaryStep
-----------------------------------------------------------------------------
\* Rows.

\* A turn that returns replayable rows returns a closed history.
LEMMA ReturnRows ==
  ASSUME NEW rows \in Seq(Row(CallIds)), Replayable(rows), NEW completed \in BOOLEAN,
         completed => TailIs(rows, {"assistant"}),
         history' = CloseFailedTurn(rows, userIdx, completed), pc' = "idle"
  PROVE  RowsOK'
<1>1. Closed(CloseFailedTurn(rows, userIdx, completed))
  BY CloseFailedTurnCloses
<1>2. Closed(history')
  BY <1>1
<1> QED BY <1>2 DEF RowsOK

\* A step between awaits that leaves the rows replayable.
LEMMA KeptRows ==
  ASSUME RowsOK, UNCHANGED history, pc' \notin {"idle", "tools"},
         Replayable(messages'), messages' # <<>>
  PROVE  RowsOK'
BY DEF RowsOK

\* RowsOK outlives a step that leaves the rows, the reply and the history alone and neither
\* enters nor leaves a tool round or a turn.
LEMMA StutterRows ==
  ASSUME RowsOK, UNCHANGED <<history, messages, reply>>,
         pc' = pc \/ {pc, pc'} \cap {"idle", "tools"} = {}
  PROVE  RowsOK'
<1>1. ReplyIds' = ReplyIds
  BY DEF ReplyIds
<1> QED BY <1>1 DEF RowsOK

\* What the event loop does keeps the rows of the working copy in order.
LEMMA LoopStepRows ==
  ASSUME IInv, LoopStep
  PROVE  RowsOK'
<1>1. /\ messages \in Seq(Row(CallIds)) /\ userIdx \in Nat
      /\ pc \notin {"idle", "tools"} => Replayable(messages) /\ messages # <<>>
      /\ RowsOK /\ TypeOK
  BY DEF IInv, RowsOK, TypeOK
<1>2. CASE StopBeforeCall
  BY <1>1, <1>2, StutterRows DEF StopBeforeCall, callerVars
<1>3. CASE BeginIteration
  BY <1>1, <1>3, KeptRows DEF BeginIteration, callerVars
<1>4. CASE LeaveLoop
  BY <1>1, <1>4, StutterRows DEF LeaveLoop, callerVars
<1>5. CASE SendRequest
  BY <1>1, <1>5, StutterRows DEF SendRequest, callerVars
<1>6. CASE RefuseFiltered
  BY <1>1, <1>6, ReturnRows DEF RefuseFiltered, Return, ResultOf
<1>7. CASE ReturnTruncated
  <2>1. /\ Append(messages, AssistantRow(<<>>, "model")) \in Seq(Row(CallIds))
        /\ Replayable(Append(messages, AssistantRow(<<>>, "model")))
    BY <1>1, <1>7, PlainRows, AppendPlain DEF ReturnTruncated, AssistantBodies
  <2> QED BY <1>1, <1>7, <2>1, ReturnRows DEF ReturnTruncated, Return, ResultOf
<1>8. CASE FinishText
  <2>1. Replayable(Append(messages, AssistantRow(<<>>, "model")))
    BY <1>1, <1>8, PlainRows, AppendPlain DEF FinishText, AssistantBodies
  <2>2. Append(messages, AssistantRow(<<>>, "model")) # <<>>
    BY <1>1
  <2> QED BY <1>1, <1>8, <2>1, <2>2, KeptRows DEF FinishText, callerVars
<1>9. CASE AskAgain
  <2> DEFINE errors == [k \in DOMAIN ReplyIds |-> "error"]
             batch == Append(messages, AssistantRow(ReplyIds, "model")) \o ToolRows(ReplyIds, errors)
  <2>1. errors \in [DOMAIN ReplyIds -> Answers]
    BY <1>1, BatchRows
  <2> HIDE DEF errors
  <2>2. Replayable(batch)
    BY <1>1, <1>9, <2>1, ReplyIdsType, AppendBatch DEF AskAgain, HasCalls, AssistantBodies
  <2>3. batch # <<>>
    <3>1. ToolRows(ReplyIds, errors) \in Seq(Row(CallIds))
      BY <1>1, <2>1, ReplyIdsType, ToolRowsType
    <3>2. AssistantRow(ReplyIds, "model") \in Row(CallIds)
      BY <1>1, ReplyIdsType, RowTypes DEF AssistantBodies
    <3> QED BY <1>1, <3>1, <3>2
  <2> QED BY <1>1, <1>9, <2>2, <2>3, KeptRows DEF AskAgain, HasCalls, callerVars, errors
<1>10. CASE GiveUpOnCalls
  <2>1. \A text \in {"unchanged", "closing"} :
          CloseToolTail(messages, text) \in Seq(Row(CallIds)) /\ Replayable(CloseToolTail(messages, text))
    BY <1>1, <1>10, CloseToolTailKeeps DEF GiveUpOnCalls, HasCalls, AssistantBodies
  <2> QED BY <1>1, <1>10, <2>1, ReturnRows DEF GiveUpOnCalls, Return, ResultOf
<1>11. CASE ValidationRaises
  <2>1. messages' = messages
    BY <1>1, <1>11, NothingToAnswer DEF ValidationRaises, LocalError, HasCalls
  <2> QED BY <1>1, <1>11, <2>1, KeptRows DEF ValidationRaises, LocalError, HasCalls, callerVars
<1>12. CASE StartTools
  <2>1. ReplyIds' = ReplyIds
    BY <1>12 DEF StartTools, ReplyIds
  <2>2. pc' = "tools" /\ messages' = Append(messages, AssistantRow(ReplyIds', "model"))
    BY <1>12, <2>1 DEF StartTools
  <2>3. Closed(history')
    BY <1>1, <1>12 DEF StartTools, callerVars, RowsOK
  <2> QED BY <1>1, <1>12, <2>2, <2>3 DEF StartTools, HasCalls, RowsOK
<1>13. CASE RequestSummary
  <2>1. Replayable(Append(messages, UserRow("summary")))
    BY <1>1, <1>13, PlainRows, AppendPlain DEF RequestSummary, UserBodies
  <2>2. Append(messages, UserRow("summary")) # <<>>
    BY <1>1
  <2> QED BY <1>1, <1>13, <2>1, <2>2, KeptRows DEF RequestSummary, callerVars
<1>14. CASE Finalize
  <2> DEFINE rows == CloseTranscript(messages)
             closing == AssistantRow(<<>>, "closing")
  <2>1. Replayable(messages)
    BY <1>1, <1>14 DEF Finalize
  <2>2. /\ Append(messages, closing) \in Seq(Row(CallIds))
        /\ Replayable(Append(messages, closing))
        /\ TailIs(Append(messages, closing), {"assistant"})
    <3>1. closing \in Row(CallIds) /\ closing.role = "assistant" /\ closing.ids = <<>>
      BY PlainRows DEF AssistantBodies
    <3> HIDE DEF closing
    <3>2. Replayable(Append(messages, closing))
      BY <1>1, <2>1, <3>1, AppendPlain
    <3> QED BY <1>1, <3>1, <3>2 DEF TailIs, Last
  <2>3. rows \in Seq(Row(CallIds)) /\ Replayable(rows)
    BY <1>1, <2>1, <2>2, CloseToolTailKeeps DEF CloseTranscript, AssistantBodies
  <2>4. Completed => TailIs(rows, {"assistant"})
    BY <2>2 DEF Completed, CloseTranscript
  <2>5. Completed \in BOOLEAN
    BY <1>1 DEF Completed, TypeOK
  <2> HIDE DEF rows
  <2>6. history' = CloseFailedTurn(rows, userIdx, Completed) /\ pc' = "idle"
    BY <1>14 DEF Finalize, Return, ResultOf, rows
  <2> QED BY <2>3, <2>4, <2>5, <2>6, ReturnRows
<1> QED BY <1>2, <1>3, <1>4, <1>5, <1>6, <1>7, <1>8, <1>9, <1>10, <1>11, <1>12, <1>13, <1>14
        DEF LoopStep

\* What a model call does keeps them in order.
LEMMA ModelStepRows ==
  ASSUME IInv, StopStep \/ ModelStep \/ BackoffElapses
  PROVE  RowsOK'
<1>1. /\ messages \in Seq(Row(CallIds)) /\ userIdx \in Nat
      /\ pc \notin {"idle", "tools"} => Replayable(messages) /\ messages # <<>>
      /\ RowsOK /\ TypeOK
  BY DEF IInv, RowsOK, TypeOK
<1>2. ASSUME NEW r \in Replies, ReplyArrives(r)
      PROVE  RowsOK'
  BY <1>1, <1>2, KeptRows DEF ReplyArrives, callerVars
<1>3. CASE AbandonCall
  <2>1. Replayable(Append(messages, AssistantRow(<<>>, "partial")))
    BY <1>1, <1>3, PlainRows, AppendPlain DEF AbandonCall, AssistantBodies
  <2>2. Append(messages, AssistantRow(<<>>, "partial")) # <<>>
    BY <1>1
  <2>3. Replayable(messages') /\ messages' # <<>>
    BY <1>1, <1>3, <2>1, <2>2 DEF AbandonCall
  <2> QED BY <1>1, <1>3, <2>3, KeptRows DEF AbandonCall, callerVars
<1>4. ASSUME AbortOnStop, pc \notin {"idle", "tools"}
      PROVE  RowsOK'
  <2>1. CloseToolTail(messages, "closing") \in Seq(Row(CallIds)) /\ Replayable(CloseToolTail(messages, "closing"))
    BY <1>1, <1>4, CloseToolTailKeeps DEF AssistantBodies
  <2> QED BY <1>1, <1>4, <2>1, ReturnRows DEF AbortOnStop, Return, ResultOf
<1>5. CASE BackoffStopped
  BY <1>4, <1>5 DEF BackoffStopped
<1>6. CASE CallFailsWhenStopped
  BY <1>4, <1>6 DEF CallFailsWhenStopped
<1>7. CASE CallFailsForGood
  BY <1>1, <1>7, ReturnRows DEF CallFailsForGood, Return, ResultOf
<1>8. CASE RetriesExhausted
  BY <1>1, <1>8, ReturnRows DEF RetriesExhausted, Return, ResultOf
<1>9. CASE ScheduleRetry
  BY <1>1, <1>9, StutterRows DEF ScheduleRetry, callerVars
<1>10. CASE BackoffElapses
  BY <1>1, <1>10, StutterRows DEF BackoffElapses, callerVars
<1> QED BY <1>2, <1>3, <1>5, <1>6, <1>7, <1>8, <1>9, <1>10 DEF StopStep, ModelStep

\* What the caller, the tools, a stop and the summary do keeps them in order.
LEMMA OtherStepRows ==
  ASSUME IInv, BeginTurn \/ RaiseOut \/ Interrupt \/ ClearInterrupt \/ ToolStep \/ SummaryStep
  PROVE  RowsOK'
<1>1. /\ messages \in Seq(Row(CallIds)) /\ history \in Seq(Row(CallIds)) /\ Closed(history)
      /\ pc \notin {"idle", "tools"} => Replayable(messages) /\ messages # <<>>
      /\ RowsOK /\ TypeOK
  BY DEF IInv, RowsOK, TypeOK
<1>2. CASE BeginTurn
  <2>1. Replayable(Append(history, UserRow("ask")))
    BY <1>1, PlainRows, AppendPlain DEF Closed, UserBodies
  <2>2. Append(history, UserRow("ask")) # <<>>
    BY <1>1
  <2> QED BY <1>1, <1>2, <2>1, <2>2, KeptRows DEF BeginTurn
<1>3. CASE RaiseOut
  BY <1>1, <1>3 DEF RaiseOut, RowsOK
<1>4. CASE Interrupt
  BY <1>1, <1>4, StutterRows DEF Interrupt, callerVars
<1>5. CASE ClearInterrupt
  BY <1>1, <1>5, StutterRows DEF ClearInterrupt, callerVars
<1>6. ASSUME ToolStep
      PROVE  RowsOK'
  <2>1. pc = "tools" /\ pc' \notin {"idle", "tools"} /\ UNCHANGED history
    BY <1>6 DEF ToolStep, FinishTools, ToolsRaise, LocalError, callerVars
  <2>2. PICK m \in Seq(Row(CallIds)) :
          Replayable(m) /\ messages = Append(m, AssistantRow(ReplyIds, "model"))
    BY <1>1, <2>1 DEF RowsOK
  <2>3. ReplyIds \in Seq(CallIds) /\ DOMAIN ReplyIds = DOMAIN reply.calls
    BY <1>1, ReplyIdsType
  <2>4. PICK answers \in [DOMAIN ReplyIds -> Answers] :
          messages' = messages \o ToolRows(ReplyIds, answers)
    <3>1. CASE FinishTools
      BY <1>1, <3>1, RoundRows
    <3>2. CASE ToolsRaise
      <4>1. messages' = messages \o ToolRows(ReplyIds, [k \in DOMAIN ReplyIds |-> "error"])
        BY <3>2, <2>2, <2>3, AnswersWholeBatch DEF ToolsRaise, LocalError, AssistantBodies
      <4> QED BY <4>1, <1>1, BatchRows
    <3> QED BY <1>6, <3>1, <3>2 DEF ToolStep
  <2>5. Replayable(messages')
    BY <2>2, <2>3, <2>4, AppendBatch DEF AssistantBodies
  <2>6. messages' # <<>>
    <3>1. ToolRows(ReplyIds, answers) \in Seq(Row(CallIds))
      BY <2>3, <2>4, ToolRowsType
    <3>2. messages # <<>>
      BY <2>2
    <3> QED BY <1>1, <2>4, <3>1, <3>2
  <2> QED BY <1>1, <2>1, <2>5, <2>6, KeptRows
<1>7. CASE SummaryBlank
  BY <1>1, <1>7, StutterRows DEF SummaryBlank, callerVars
<1>8. CASE SummaryEnds
  <2>1. Replayable(Append(messages, AssistantRow(<<>>, "model")))
    BY <1>1, <1>8, PlainRows, AppendPlain DEF SummaryEnds, AssistantBodies
  <2>2. Append(messages, AssistantRow(<<>>, "model")) # <<>>
    BY <1>1
  <2>3. Replayable(messages') /\ messages' # <<>>
    BY <1>1, <1>8, <2>1, <2>2 DEF SummaryEnds
  <2> QED BY <1>1, <1>8, <2>3, KeptRows DEF SummaryEnds, callerVars
<1> QED BY <1>2, <1>3, <1>4, <1>5, <1>6, <1>7, <1>8 DEF SummaryStep
-----------------------------------------------------------------------------
\* The inductive invariant.

\* The first state has no rows.
LEMMA InitIInv == Init => IInv
<1> SUFFICES ASSUME Init
             PROVE  IInv
  OBVIOUS
<1>1. history = <<>> /\ messages = <<>> /\ pc = "idle"
  BY DEF Init
<1>2. history \in Seq(Row(CallIds)) /\ messages \in Seq(Row(CallIds))
  BY <1>1
<1>3. exit \in Exits /\ result \in Results
  BY DEF Init, NoResult, Exits, Results
<1>4. TypeOK
  BY <1>2, <1>3 DEF Init, TypeOK
<1>5. Closed(history)
  BY <1>1 DEF Closed, Replayable
<1> QED BY <1>1, <1>4, <1>5 DEF IInv, RowsOK

\* Every step keeps the inductive invariant.
LEMMA StepIInv == IInv /\ [Next]_vars => IInv'
<1> SUFFICES ASSUME IInv, [Next]_vars
             PROVE  IInv'
  OBVIOUS
<1>1. CASE LoopStep
  BY <1>1, LoopStepType, LoopStepRows DEF IInv
<1>2. CASE StopStep \/ ModelStep \/ BackoffElapses
  BY <1>2, ModelStepType, ModelStepRows DEF IInv
<1>3. CASE BeginTurn \/ RaiseOut \/ Interrupt \/ ClearInterrupt \/ ToolStep \/ SummaryStep
  BY <1>3, OtherStepType, OtherStepRows DEF IInv
<1>4. CASE UNCHANGED vars
  <2>1. TypeOK'
    BY <1>4 DEF IInv, TypeOK, vars, loopVars, outcomeVars, callerVars, turnVars, signalVars
  <2>2. RowsOK'
    BY <1>4, StutterRows DEF IInv, vars, callerVars
  <2> QED BY <2>1, <2>2 DEF IInv
<1> QED BY <1>1, <1>2, <1>3, <1>4 DEF Next

\* So it holds in every execution.
LEMMA Invariance == Spec => []IInv
BY InitIInv, StepIInv, PTL DEF Spec

\* Every state is one its variables' meaning allows, whatever the replies: in
\* particular the rows a turn builds are chat rows with known call ids.
THEOREM TypeCorrect == Spec => []TypeOK
<1>1. IInv => TypeOK
  BY DEF IInv
<1> QED BY <1>1, Invariance, PTL

\* No request carries a tool call without its answers or an answer without its call:
\* not after a refused batch, an executor that raised, or an abandoned reply.
THEOREM RequestsReplayable == Spec => []RequestsAreReplayable
<1>1. IInv => RequestsAreReplayable
  BY DEF IInv, RowsOK, RequestsAreReplayable
<1> QED BY <1>1, Invariance, PTL

\* However a turn ends - text, error, stop, exception or spent budget - the caller
\* holds a history the next turn can start from.
THEOREM HistoryClosed == Spec => []HistoryIsClosed
<1>1. IInv => HistoryIsClosed
  BY DEF IInv, RowsOK, HistoryIsClosed
<1> QED BY <1>1, Invariance, PTL

(***************************************************************************)
(* What a turn spends and how it may end.                                  *)
(***************************************************************************)

InLoop == pc \in {"iterate", "send", "calling", "backoff", "intake", "tools"}

\* How the flags of the ending stand while the turn is in a phase.
OutcomeOK ==
  /\ InLoop => exit = "unknown" /\ ~answered /\ ~interrupted /\ ~failed
  /\ pc = "finalize" =>
       /\ ~(failed /\ interrupted)
       /\ answered /\ ~failed /\ ~interrupted =>
            /\ exit = "text_response"
            /\ TailIs(messages, {"assistant"})
            /\ Last(messages).body = "model"
  /\ pc \in {"summary", "close"} =>
       exit = "max_iterations_reached" /\ ~interrupted /\ ~failed /\ apiCalls >= MaxIterations

\* What the requests sent so far are accounted to, in each phase.
RequestsOK ==
  /\ pc \notin {"idle", "summary", "close"} => apiCalls \in 0 .. MaxIterations
  /\ pc \in {"iterate", "intake", "tools", "finalize"} => requests <= apiCalls * MaxAttempts
  /\ pc \in {"send", "backoff", "calling"} => apiCalls > 0 /\ attempts < MaxAttempts
  /\ pc \in {"send", "backoff"} => requests <= (apiCalls - 1) * MaxAttempts + attempts
  /\ pc = "calling" => requests <= (apiCalls - 1) * MaxAttempts + attempts + 1
  /\ pc = "summary" => attempts <= 2 /\ requests <= MaxIterations * MaxAttempts + attempts
  /\ pc \in {"idle", "close"} => requests <= MaxIterations * MaxAttempts + 2

\* The invariants together are inductive: the outcome needs the budget to tell that a
\* summarised turn has spent its iterations.
OInv == IInv /\ BudgetMatchesCalls /\ OutcomeOK /\ ResultIsConsistent /\ RequestsOK

\* The counters and the bounds are natural numbers.
LEMMA Counters ==
  ASSUME OInv
  PROVE  /\ apiCalls \in Nat /\ used \in Nat /\ attempts \in Nat /\ requests \in Nat
         /\ MaxIterations \in Nat \ {0} /\ MaxAttempts \in Nat \ {0}
BY BoundsAssumption DEF OInv, IInv, TypeOK

\* Every step keeps the budget and the counter of calls together.
LEMMA BudgetStep == OInv /\ [Next]_vars => BudgetMatchesCalls'
<1> SUFFICES ASSUME OInv, [Next]_vars
             PROVE  BudgetMatchesCalls'
  OBVIOUS
<1> USE DEF loopVars, outcomeVars, callerVars, turnVars, signalVars
<1>1. BudgetMatchesCalls /\ apiCalls \in Nat /\ used \in Nat /\ MaxIterations \in Nat \ {0}
  BY Counters DEF OInv
<1>2. CASE BeginTurn
  BY <1>1, <1>2 DEF BeginTurn, BudgetMatchesCalls
<1>3. CASE RaiseOut \/ Interrupt \/ ClearInterrupt
  BY <1>1, <1>3 DEF RaiseOut, Interrupt, ClearInterrupt, Awaiting, Running, BudgetMatchesCalls
<1>4. CASE LoopStep
  <2>1. CASE StopBeforeCall \/ LeaveLoop \/ SendRequest
    BY <1>1, <2>1 DEF StopBeforeCall, LeaveLoop, SendRequest, BudgetMatchesCalls
  <2>2. CASE BeginIteration
    BY <1>1, <2>2 DEF BeginIteration, MayIterate, BudgetMatchesCalls
  <2>3. CASE RefuseFiltered \/ ReturnTruncated \/ GiveUpOnCalls \/ Finalize
    BY <2>3 DEF RefuseFiltered, ReturnTruncated, GiveUpOnCalls, Finalize, Return, BudgetMatchesCalls
  <2>4. CASE FinishText \/ AskAgain \/ ValidationRaises \/ StartTools
    BY <1>1, <2>4 DEF FinishText, AskAgain, ValidationRaises, StartTools, HasCalls, LocalError,
                      BudgetMatchesCalls
  <2>5. CASE RequestSummary
    BY <1>1, <2>5 DEF RequestSummary, BudgetMatchesCalls
  <2> QED BY <1>4, <2>1, <2>2, <2>3, <2>4, <2>5 DEF LoopStep
<1>5. CASE StopStep
  BY <1>1, <1>5 DEF StopStep, AbandonCall, BackoffStopped, AbortOnStop, Return, BudgetMatchesCalls
<1>6. CASE ModelStep
  BY <1>1, <1>6 DEF ModelStep, ReplyArrives, CallFailsWhenStopped, AbortOnStop, CallFailsForGood,
                    RetriesExhausted, ScheduleRetry, Return, BudgetMatchesCalls
<1>7. CASE BackoffElapses \/ ToolStep \/ SummaryStep
  BY <1>1, <1>7 DEF BackoffElapses, ToolStep, FinishTools, ToolsRaise, LocalError, SummaryStep,
                    SummaryBlank, SummaryEnds, BudgetMatchesCalls
<1>8. CASE UNCHANGED vars
  BY <1>1, <1>8 DEF vars, BudgetMatchesCalls
<1> QED BY <1>2, <1>3, <1>4, <1>5, <1>6, <1>7, <1>8 DEF Next

\* Every step keeps the flags of the outcome and the place in the turn together.
LEMMA OutcomeStep == OInv /\ [Next]_vars => OutcomeOK'
<1> SUFFICES ASSUME OInv, [Next]_vars
             PROVE  OutcomeOK'
  OBVIOUS
<1> USE DEF loopVars, outcomeVars, callerVars, turnVars, signalVars, InLoop
<1>1. /\ OutcomeOK /\ BudgetMatchesCalls
      /\ apiCalls \in Nat /\ used \in Nat /\ attempts \in Nat /\ MaxIterations \in Nat \ {0}
  BY Counters DEF OInv
<1>2. CASE BeginTurn
  BY <1>2 DEF BeginTurn, OutcomeOK
<1>3. CASE RaiseOut \/ Interrupt \/ ClearInterrupt
  BY <1>1, <1>3 DEF RaiseOut, Interrupt, ClearInterrupt, OutcomeOK
<1>4. CASE LoopStep
  <2>1. CASE StopBeforeCall \/ BeginIteration \/ LeaveLoop \/ SendRequest
    BY <1>1, <2>1 DEF StopBeforeCall, BeginIteration, LeaveLoop, SendRequest, OutcomeOK
  <2>2. CASE RefuseFiltered \/ ReturnTruncated \/ GiveUpOnCalls \/ Finalize
    BY <2>2 DEF RefuseFiltered, ReturnTruncated, GiveUpOnCalls, Finalize, Return, OutcomeOK
  <2>3. CASE FinishText
    <3>1. /\ TailIs(messages', {"assistant"})
          /\ Last(messages').body = "model"
      <4>1. messages \in Seq(Row(CallIds))
        BY DEF OInv, IInv, TypeOK
      <4>2. messages' = Append(messages, AssistantRow(<<>>, "model"))
        BY <2>3 DEF FinishText
      <4>3. Last(messages') = AssistantRow(<<>>, "model") /\ messages' # <<>>
        BY <4>1, <4>2 DEF Last
      <4> QED BY <4>3 DEF TailIs, AssistantRow
    <3> QED BY <1>1, <2>3, <3>1 DEF FinishText, OutcomeOK
  <2>4. CASE AskAgain \/ ValidationRaises \/ StartTools
    BY <1>1, <2>4 DEF AskAgain, ValidationRaises, StartTools, HasCalls, LocalError, OutcomeOK
  <2>5. CASE RequestSummary
    BY <1>1, <2>5 DEF RequestSummary, WantsSummary, BudgetExhausted, BudgetMatchesCalls, OutcomeOK
  <2> QED BY <1>4, <2>1, <2>2, <2>3, <2>4, <2>5 DEF LoopStep
<1>5. CASE StopStep
  <2>1. CASE AbandonCall
    <3>1. pc' = "finalize" /\ interrupted' /\ ~failed'
      BY <1>1, <2>1 DEF AbandonCall, OutcomeOK
    <3> QED BY <3>1 DEF OutcomeOK
  <2>2. CASE BackoffStopped
    <3>1. pc' = "idle"
      BY <2>2 DEF BackoffStopped, AbortOnStop, Return
    <3> QED BY <3>1 DEF OutcomeOK
  <2> QED BY <1>5, <2>1, <2>2 DEF StopStep
<1>6. CASE ModelStep
  <2>1. ASSUME NEW r \in Replies, ReplyArrives(r)
        PROVE  OutcomeOK'
    BY <1>1, <2>1 DEF ReplyArrives, OutcomeOK
  <2>2. CASE ScheduleRetry
    BY <1>1, <2>2 DEF ScheduleRetry, OutcomeOK
  <2>3. CASE CallFailsWhenStopped \/ CallFailsForGood \/ RetriesExhausted
    <3>1. pc' = "idle"
      BY <2>3 DEF CallFailsWhenStopped, AbortOnStop, CallFailsForGood, RetriesExhausted, Return
    <3> QED BY <3>1 DEF OutcomeOK
  <2> QED BY <1>6, <2>1, <2>2, <2>3 DEF ModelStep
<1>7. CASE BackoffElapses \/ ToolStep \/ SummaryStep
  BY <1>1, <1>7 DEF BackoffElapses, ToolStep, FinishTools, ToolsRaise, LocalError, SummaryStep,
                    SummaryBlank, SummaryEnds, OutcomeOK
<1>8. CASE UNCHANGED vars
  BY <1>1, <1>8 DEF vars, OutcomeOK
<1> QED BY <1>2, <1>3, <1>4, <1>5, <1>6, <1>7, <1>8 DEF Next

\* A turn that is returned as completed ends on the model's own last word.
LEMMA ResultStep == OInv /\ [Next]_vars => ResultIsConsistent'
<1> SUFFICES ASSUME OInv, [Next]_vars
             PROVE  ResultIsConsistent'
  OBVIOUS
<1>1. ResultIsConsistent /\ OutcomeOK /\ TypeOK
  BY DEF OInv, IInv
<1>2. CASE UNCHANGED <<history, result>>
  BY <1>1, <1>2 DEF ResultIsConsistent
<1>3. CASE BeginTurn \/ RaiseOut
  <2>1. /\ ~result'.completed /\ ~result'.failed
        /\ ~result'.interrupted /\ ~result'.partial
    BY <1>3 DEF BeginTurn, RaiseOut, NoResult
  <2> QED BY <2>1 DEF ResultIsConsistent
<1>4. ASSUME NEW reason, NEW hasFailed \in BOOLEAN, NEW wasInterrupted \in BOOLEAN,
             NEW partial \in BOOLEAN, NEW calls,
             result' = ResultOf(reason, FALSE, hasFailed, wasInterrupted, partial, calls),
             ~(hasFailed /\ (wasInterrupted \/ partial)), ~(wasInterrupted /\ partial)
      PROVE  ResultIsConsistent'
  BY <1>4 DEF ResultOf, ResultIsConsistent
<1>5. CASE RefuseFiltered \/ ReturnTruncated \/ GiveUpOnCalls
  BY <1>4, <1>5 DEF RefuseFiltered, ReturnTruncated, GiveUpOnCalls, Return
<1>6. CASE CallFailsWhenStopped \/ BackoffStopped \/ CallFailsForGood \/ RetriesExhausted
  BY <1>4, <1>6 DEF CallFailsWhenStopped, BackoffStopped, AbortOnStop, CallFailsForGood,
                    RetriesExhausted, Return
<1>7. CASE Finalize
  <2>1. result' = ResultOf(exit, Completed, failed, interrupted, FALSE, apiCalls)
    BY <1>7 DEF Finalize, Return
  <2>2. ~(failed /\ interrupted) /\ failed \in BOOLEAN /\ interrupted \in BOOLEAN
    BY <1>1, <1>7 DEF Finalize, OutcomeOK, TypeOK
  <2>3. CASE ~Completed
    <3>1. result' = ResultOf(exit, FALSE, failed, interrupted, FALSE, apiCalls)
      BY <1>1, <2>1, <2>3 DEF Completed, TypeOK
    <3> QED BY <1>4, <2>2, <3>1
  <2>4. CASE Completed
    <3>1. pc = "finalize" /\ answered /\ ~failed /\ ~interrupted
      <4>1. pc = "close" => ~(apiCalls < MaxIterations) /\ exit # "text_response"
        BY <1>1, BoundsAssumption DEF OutcomeOK, TypeOK
      <4> QED BY <1>7, <2>4, <4>1 DEF Finalize, Completed
    <3>2. exit = "text_response" /\ TailIs(messages, {"assistant"}) /\ Last(messages).body = "model"
      BY <1>1, <3>1 DEF OutcomeOK
    <3>3. CloseTranscript(messages) = messages
      BY <3>1, <3>2 DEF CloseTranscript
    <3>4. history' = CloseFailedTurn(CloseTranscript(messages), userIdx, Completed)
      BY <1>7 DEF Finalize, Return, ResultOf
    <3>5. history' = messages
      BY <2>4, <3>3, <3>4 DEF CloseFailedTurn
    <3>6. /\ ~result'.failed /\ ~result'.interrupted /\ ~result'.partial
          /\ result'.exit = "text_response"
      BY <2>1, <3>1, <3>2 DEF ResultOf
    <3> QED BY <3>2, <3>5, <3>6 DEF ResultIsConsistent
  <2> QED BY <2>3, <2>4
<1>8. \/ UNCHANGED <<history, result>> \/ BeginTurn \/ RaiseOut
      \/ RefuseFiltered \/ ReturnTruncated \/ GiveUpOnCalls
      \/ CallFailsWhenStopped \/ BackoffStopped \/ CallFailsForGood \/ RetriesExhausted
      \/ Finalize
  <2> USE DEF callerVars
  <2>1. CASE LoopStep
    BY <2>1 DEF LoopStep, StopBeforeCall, BeginIteration, LeaveLoop, SendRequest, FinishText,
                AskAgain, ValidationRaises, LocalError, StartTools, RequestSummary
  <2>2. CASE StopStep
    BY <2>2 DEF StopStep, AbandonCall
  <2>3. CASE ModelStep
    BY <2>3 DEF ModelStep, ReplyArrives, ScheduleRetry
  <2>4. CASE Interrupt \/ ClearInterrupt \/ BackoffElapses \/ ToolStep \/ SummaryStep
    BY <2>4 DEF Interrupt, ClearInterrupt, BackoffElapses, ToolStep, FinishTools, ToolsRaise,
                LocalError, SummaryStep, SummaryBlank, SummaryEnds
  <2>5. CASE UNCHANGED vars
    BY <2>5 DEF vars
  <2> QED BY <2>1, <2>2, <2>3, <2>4, <2>5 DEF Next
<1> QED BY <1>2, <1>3, <1>5, <1>6, <1>7, <1>8

\* The arithmetic of requests: one more iteration allows MaxAttempts more requests.
LEMMA Multiples ==
  ASSUME NEW a \in Nat, NEW b \in Nat, NEW n \in Nat, a <= b
  PROVE  a * n \in Nat /\ (a + 1) * n = a * n + n /\ a * n <= b * n
<1>1. a * n \in Nat /\ (b - a) * n >= 0
  OBVIOUS
<1>2. b * n = a * n + (b - a) * n
  OBVIOUS
<1> QED BY <1>1, <1>2

\* Whatever the phase, the requests stay within the bound.
LEMMA RequestsWithinBound ==
  ASSUME OInv
  PROVE  RequestsAreBounded
<1> DEFINE top == MaxIterations * MaxAttempts
           spent == apiCalls * MaxAttempts
<1>1. /\ RequestsOK /\ apiCalls \in Nat /\ attempts \in Nat /\ requests \in Nat
      /\ MaxIterations \in Nat /\ MaxAttempts \in Nat
  BY Counters DEF OInv
<1>2. top \in Nat /\ (apiCalls <= MaxIterations => spent \in Nat /\ spent <= top)
  BY <1>1, Multiples
<1>3. pc \in {"send", "backoff", "calling"} => requests <= spent
  <2> SUFFICES ASSUME pc \in {"send", "backoff", "calling"}
               PROVE  requests <= spent
    OBVIOUS
  <2>1. apiCalls - 1 \in Nat /\ (apiCalls - 1) + 1 = apiCalls
    BY <1>1 DEF RequestsOK
  <2>2. spent = (apiCalls - 1) * MaxAttempts + MaxAttempts /\ (apiCalls - 1) * MaxAttempts \in Nat
    BY <1>1, <2>1, Multiples
  <2> HIDE DEF spent
  <2> QED BY <1>1, <2>2 DEF RequestsOK
<1> HIDE DEF top, spent
<1>4. requests <= top + 2
  <2>1. CASE pc \in {"idle", "summary", "close"}
    BY <1>1, <1>2, <2>1 DEF RequestsOK, top
  <2>2. CASE pc \notin {"idle", "summary", "close"}
    <3>1. requests <= spent
      BY <1>1, <1>3, <2>2 DEF RequestsOK, OInv, IInv, TypeOK, spent
    <3> QED BY <1>1, <1>2, <2>2, <3>1 DEF RequestsOK
  <2> QED BY <2>1, <2>2
<1> QED BY <1>4 DEF RequestsAreBounded, top

\* Each request is one of the attempts its iteration grants, or one of the summary's.
LEMMA RequestsStep == OInv /\ [Next]_vars => RequestsOK'
<1> SUFFICES ASSUME OInv, [Next]_vars
             PROVE  RequestsOK'
  OBVIOUS
<1> USE DEF loopVars, outcomeVars, callerVars, turnVars, signalVars
<1>1. RequestsOK /\ BudgetMatchesCalls
  BY DEF OInv
<1>2. /\ apiCalls \in Nat /\ used \in Nat /\ attempts \in Nat /\ requests \in Nat
      /\ MaxIterations \in Nat /\ MaxAttempts \in Nat \ {0}
  BY Counters
<1> DEFINE top == MaxIterations * MaxAttempts
           spent == apiCalls * MaxAttempts
           before == (apiCalls - 1) * MaxAttempts
<1>3. top \in Nat
  BY <1>2, Multiples
<1>4. apiCalls <= MaxIterations => spent \in Nat /\ spent <= top
  BY <1>2, Multiples
<1>5. apiCalls > 0 => before \in Nat /\ spent = before + MaxAttempts
  <2> SUFFICES ASSUME apiCalls > 0
               PROVE  before \in Nat /\ spent = before + MaxAttempts
    OBVIOUS
  <2>1. apiCalls - 1 \in Nat /\ (apiCalls - 1) + 1 = apiCalls
    BY <1>2
  <2>2. /\ (apiCalls - 1) * MaxAttempts \in Nat
        /\ ((apiCalls - 1) + 1) * MaxAttempts = (apiCalls - 1) * MaxAttempts + MaxAttempts
    BY <1>2, <2>1, Multiples
  <2> QED BY <2>1, <2>2
<1>6. requests <= top + 2
  BY RequestsWithinBound DEF RequestsAreBounded
<1>7. ASSUME pc' = "idle", UNCHANGED requests
      PROVE  RequestsOK'
  BY <1>6, <1>7 DEF RequestsOK
<1> HIDE DEF top, spent, before
<1>8. CASE BeginTurn
  <2>1. 0 * MaxAttempts = 0
    BY <1>2
  <2> QED BY <1>2, <1>8, <2>1 DEF BeginTurn, RequestsOK
<1>9. CASE BeginIteration
  <2>1. requests' <= (apiCalls' - 1) * MaxAttempts + attempts'
    <3>1. (apiCalls' - 1) = apiCalls /\ attempts' = 0 /\ requests' = requests
      BY <1>2, <1>9 DEF BeginIteration
    <3>2. requests <= spent
      BY <1>1, <1>9 DEF BeginIteration, RequestsOK, spent
    <3>3. requests <= spent + 0
      <4>1. spent \in Nat
        BY <1>1, <1>4, <1>9, <1>2 DEF BeginIteration, RequestsOK
      <4> QED BY <1>2, <3>2, <4>1
    <3> QED BY <3>1, <3>3 DEF spent
  <2>2. apiCalls' \in 0 .. MaxIterations /\ apiCalls' > 0 /\ attempts' < MaxAttempts /\ pc' = "send"
    BY <1>2, <1>9 DEF BeginIteration, MayIterate
  <2> QED BY <2>1, <2>2 DEF RequestsOK
<1>10. CASE SendRequest
  <2>1. requests <= before + attempts /\ before \in Nat
    BY <1>1, <1>2, <1>5, <1>10 DEF SendRequest, RequestsOK, before
  <2>2. requests' <= before + attempts + 1
    BY <1>2, <1>10, <2>1 DEF SendRequest
  <2>3. UNCHANGED <<apiCalls, attempts>> /\ pc' = "calling" /\ pc = "send"
    BY <1>10 DEF SendRequest
  <2> QED BY <1>1, <2>2, <2>3 DEF RequestsOK, before
\* The call ends, one way or the other: its attempts are within its iteration.
<1>11. ASSUME pc = "calling", pc' \in {"intake", "finalize"}, UNCHANGED <<apiCalls, requests>>
       PROVE  RequestsOK'
  <2>1. requests <= before + attempts + 1 /\ attempts < MaxAttempts /\ apiCalls > 0
    BY <1>1, <1>11 DEF RequestsOK, before
  <2>2. requests <= spent
    BY <1>2, <1>5, <2>1
  <2> QED BY <1>1, <1>11, <2>2 DEF RequestsOK, spent
<1>12. CASE ScheduleRetry
  <2>1. requests <= before + attempts + 1 /\ apiCalls > 0 /\ before \in Nat
    BY <1>1, <1>5, <1>12 DEF ScheduleRetry, RequestsOK, before
  <2>2. requests <= before + (attempts + 1)
    BY <1>2, <2>1
  <2>3. /\ attempts' = attempts + 1 /\ attempts' < MaxAttempts /\ pc' = "backoff" /\ pc = "calling"
        /\ UNCHANGED <<apiCalls, requests>>
    BY <1>12 DEF ScheduleRetry
  <2> QED BY <1>1, <2>1, <2>2, <2>3 DEF RequestsOK, before
<1>13. CASE RequestSummary
  <2>1. requests <= top
    BY <1>1, <1>2, <1>3, <1>4, <1>13 DEF RequestSummary, RequestsOK, spent
  <2>2. requests' <= top + attempts' /\ attempts' <= 2 /\ pc' = "summary"
    BY <1>2, <1>3, <1>13, <2>1 DEF RequestSummary
  <2> QED BY <2>2 DEF RequestsOK, top
<1>14. CASE SummaryBlank
  <2>1. requests <= top + attempts
    BY <1>1, <1>14 DEF SummaryBlank, RequestsOK, top
  <2>2. requests' <= top + attempts' /\ attempts' <= 2 /\ pc' = "summary"
    BY <1>2, <1>3, <1>14, <2>1 DEF SummaryBlank
  <2> QED BY <2>2 DEF RequestsOK, top
<1>15. CASE SummaryEnds
  BY <1>6, <1>15 DEF SummaryEnds, RequestsOK, top
\* The other steps send nothing and stay in the loop, or reach its end.
<1>16. ASSUME pc \in {"iterate", "intake", "tools"}, pc' \in {"iterate", "intake", "tools", "finalize"},
              UNCHANGED <<apiCalls, requests>>
       PROVE  RequestsOK'
  BY <1>1, <1>16 DEF RequestsOK
<1>17. CASE pc' = pc /\ UNCHANGED <<apiCalls, requests, attempts>>
  BY <1>1, <1>17 DEF RequestsOK
<1>18. CASE LoopStep
  <2>1. CASE StopBeforeCall \/ LeaveLoop \/ FinishText \/ AskAgain \/ ValidationRaises \/ StartTools
    BY <1>16, <2>1 DEF StopBeforeCall, LeaveLoop, FinishText, AskAgain, ValidationRaises, StartTools,
                       HasCalls, LocalError
  <2>2. CASE RefuseFiltered \/ ReturnTruncated \/ GiveUpOnCalls \/ Finalize
    BY <1>7, <2>2 DEF RefuseFiltered, ReturnTruncated, GiveUpOnCalls, Finalize, Return
  <2> QED BY <1>9, <1>10, <1>13, <1>18, <2>1, <2>2 DEF LoopStep
<1>19. CASE StopStep \/ ModelStep
  <2>1. CASE BackoffStopped \/ CallFailsWhenStopped \/ CallFailsForGood \/ RetriesExhausted
    BY <1>7, <2>1 DEF BackoffStopped, CallFailsWhenStopped, AbortOnStop, CallFailsForGood,
                      RetriesExhausted, Return
  <2>2. CASE AbandonCall \/ \E r \in Replies : ReplyArrives(r)
    BY <1>11, <2>2 DEF AbandonCall, ReplyArrives
  <2> QED BY <1>12, <1>19, <2>1, <2>2 DEF StopStep, ModelStep
<1>20. CASE BackoffElapses
  BY <1>1, <1>20 DEF BackoffElapses, RequestsOK
<1>21. CASE ToolStep
  BY <1>16, <1>21 DEF ToolStep, FinishTools, ToolsRaise, LocalError
<1>22. CASE RaiseOut
  BY <1>7, <1>22 DEF RaiseOut
<1>23. CASE Interrupt \/ ClearInterrupt \/ UNCHANGED vars
  BY <1>17, <1>23 DEF Interrupt, ClearInterrupt, vars
<1> QED BY <1>8, <1>14, <1>15, <1>18, <1>19, <1>20, <1>21, <1>22, <1>23 DEF Next, SummaryStep
-----------------------------------------------------------------------------
\* The first state has no outcome.
LEMMA InitOInv == Init => OInv
<1> SUFFICES ASSUME Init
             PROVE  OInv
  OBVIOUS
<1>1. IInv
  BY InitIInv
<1>2. pc = "idle" /\ requests = 0 /\ result = NoResult
  BY DEF Init
<1>3. MaxIterations * MaxAttempts \in Nat
  BY Multiples, BoundsAssumption
<1>4. ResultIsConsistent
  BY <1>2 DEF ResultIsConsistent, NoResult
<1>5. RequestsOK
  BY <1>2, <1>3 DEF RequestsOK
<1> QED BY <1>1, <1>2, <1>4, <1>5 DEF OInv, BudgetMatchesCalls, OutcomeOK, InLoop

\* Every step keeps the inductive invariant.
LEMMA StepOInv == OInv /\ [Next]_vars => OInv'
<1>1. OInv /\ [Next]_vars => IInv'
  BY StepIInv DEF OInv
<1> QED BY <1>1, BudgetStep, OutcomeStep, ResultStep, RequestsStep DEF OInv

\* So it holds in every execution.
LEMMA OutcomeInvariance == Spec => []OInv
BY InitOInv, StepOInv, PTL DEF Spec

\* The budget object and the loop's own counter count the same thing: retries spend
\* neither, and neither outruns settings.max_iterations.
THEOREM BudgetFollowsCalls == Spec => []BudgetMatchesCalls
<1>1. OInv => BudgetMatchesCalls
  BY DEF OInv
<1> QED BY <1>1, OutcomeInvariance, PTL

\* A result has one way of ending, and is "completed" only on the model's own text.
THEOREM ResultConsistent == Spec => []ResultIsConsistent
<1>1. OInv => ResultIsConsistent
  BY DEF OInv
<1> QED BY <1>1, OutcomeInvariance, PTL

\* A turn sends at most MaxIterations * MaxAttempts requests and two for its summary.
THEOREM RequestsBounded == Spec => []RequestsAreBounded
<1>1. OInv => RequestsAreBounded
  BY RequestsWithinBound
<1> QED BY <1>1, OutcomeInvariance, PTL

(***************************************************************************)
(* What a turn adds to the caller's history, and what it says of itself.   *)
(***************************************************************************)

\* What a row of a turn may say: never that nothing was processed and, without leave, not
\* that nothing was changed.
Says(row, leave) == row.body # "unprocessed" /\ (row.body = "unchanged" => leave)

\* The rows continue a history h: its rows, the turn's question, and then rows of the
\* turn, which say what they may and hold a call if a tool may have run.
Continues(h, ran, leave, rows) ==
  /\ Len(rows) > Len(h)
  /\ \A i \in 1 .. Len(h) : rows[i] = h[i]
  /\ rows[Len(h) + 1] = UserRow("ask")
  /\ \A i \in Len(h) + 1 .. Len(rows) : Says(rows[i], leave)
  /\ ran => \E i \in Len(h) + 1 .. Len(rows) : rows[i].role = "assistant" /\ rows[i].ids # <<>>

GrowthOK ==
  /\ pc # "idle" => /\ userIdx = Len(history) + 1
                    /\ result.outcome # "returned"
                    /\ Continues(history, mayHaveRun, FALSE, messages)
  /\ NoticeIsHonest

\* OInv is a part of it: a completed turn needs no closing row, as it ends on an answer.
GInv == OInv /\ GrowthOK

\* Rows that follow those of a turn continue the history, too.
LEMMA ContinuesOn ==
  ASSUME NEW h \in Seq(Row(CallIds)), NEW leave, NEW ran, NEW ranNow,
         NEW rows \in Seq(Row(CallIds)), NEW more \in Seq(Row(CallIds)), Continues(h, ran, leave, rows),
         \A i \in 1 .. Len(more) : Says(more[i], leave),
         ranNow => ran \/ \E i \in 1 .. Len(more) :
                            more[i].role = "assistant" /\ more[i].ids # <<>>
  PROVE  Continues(h, ranNow, leave, rows \o more)
<1> DEFINE all == rows \o more
<1>1. /\ Len(h) \in Nat /\ Len(rows) \in Nat /\ Len(more) \in Nat
      /\ Len(all) = Len(rows) + Len(more)
      /\ \A i \in 1 .. Len(rows) : all[i] = rows[i]
      /\ \A i \in 1 .. Len(more) : all[Len(rows) + i] = more[i]
  OBVIOUS
<1> HIDE DEF all
<1>2. /\ Len(all) > Len(h)
      /\ \A i \in 1 .. Len(h) : all[i] = h[i]
      /\ all[Len(h) + 1] = UserRow("ask")
  BY <1>1 DEF Continues
<1>3. ASSUME NEW i \in Len(h) + 1 .. Len(all)
      PROVE  Says(all[i], leave)
  <2>1. CASE i <= Len(rows)
    <3>1. i \in 1 .. Len(rows) /\ i \in Len(h) + 1 .. Len(rows)
      BY <1>1, <2>1
    <3>2. all[i] = rows[i] /\ Says(rows[i], leave)
      BY <1>1, <3>1 DEF Continues
    <3> QED BY <3>2
  <2>2. CASE i > Len(rows)
    <3> DEFINE k == i - Len(rows)
    <3>1. k \in 1 .. Len(more) /\ i = Len(rows) + k
      BY <1>1, <2>2
    <3> HIDE DEF k
    <3>2. all[i] = more[k] /\ Says(more[k], leave)
      BY <1>1, <3>1
    <3> QED BY <3>2
  <2> QED BY <1>1, <2>1, <2>2
<1>4. ASSUME ranNow
      PROVE  \E i \in Len(h) + 1 .. Len(all) : all[i].role = "assistant" /\ all[i].ids # <<>>
  <2>1. CASE ran
    <3>1. PICK i \in Len(h) + 1 .. Len(rows) : rows[i].role = "assistant" /\ rows[i].ids # <<>>
      BY <2>1 DEF Continues
    <3>2. i \in 1 .. Len(rows) /\ i \in Len(h) + 1 .. Len(all)
      BY <1>1
    <3> QED BY <1>1, <3>1, <3>2
  <2>2. CASE ~ran
    <3>1. PICK i \in 1 .. Len(more) : more[i].role = "assistant" /\ more[i].ids # <<>>
      BY <1>4, <2>2
    <3>2. Len(rows) + i \in Len(h) + 1 .. Len(all)
      BY <1>1 DEF Continues
    <3> QED BY <1>1, <3>1, <3>2
  <2> QED BY <2>1, <2>2
<1> QED BY <1>2, <1>3, <1>4 DEF Continues, all

\* One row that disclaims nothing may follow.
LEMMA ContinuesByRow ==
  ASSUME NEW h \in Seq(Row(CallIds)), NEW leave, NEW ran, NEW ranNow, NEW rows \in Seq(Row(CallIds)),
         NEW r \in Row(CallIds), Continues(h, ran, leave, rows), Says(r, leave),
         ranNow => ran \/ (r.role = "assistant" /\ r.ids # <<>>)
  PROVE  Continues(h, ranNow, leave, Append(rows, r))
<1>1. <<r>> \in Seq(Row(CallIds)) /\ Len(<<r>>) = 1 /\ <<r>>[1] = r
  OBVIOUS
<1>2. Append(rows, r) = rows \o <<r>>
  OBVIOUS
<1>3. Continues(h, ranNow, leave, rows \o <<r>>)
  <2>1. \A i \in 1 .. Len(<<r>>) : Says(<<r>>[i], leave)
    BY <1>1
  <2>2. ranNow => ran \/ \E i \in 1 .. Len(<<r>>) :
                           <<r>>[i].role = "assistant" /\ <<r>>[i].ids # <<>>
    BY <1>1
  <2> QED BY <1>1, <2>1, <2>2, ContinuesOn
<1> QED BY <1>2, <1>3

\* So may the answers of a batch.
LEMMA ContinuesByAnswers ==
  ASSUME NEW h \in Seq(Row(CallIds)), NEW leave, NEW ran, NEW rows \in Seq(Row(CallIds)),
         NEW ids \in Seq(CallIds), NEW answers \in [DOMAIN ids -> Answers], Continues(h, ran, leave, rows)
  PROVE  Continues(h, ran, leave, rows \o ToolRows(ids, answers))
<1> DEFINE more == ToolRows(ids, answers)
<1>1. /\ more \in Seq(Row(CallIds)) /\ Len(more) = Len(ids)
      /\ \A i \in DOMAIN ids : more[i] = ToolRow(ids[i], answers[i])
  BY ToolRowsType
<1> HIDE DEF more
<1>2. \A i \in 1 .. Len(more) : Says(more[i], leave)
  <2> SUFFICES ASSUME NEW i \in 1 .. Len(more)
               PROVE  Says(more[i], leave)
    OBVIOUS
  <2>1. i \in DOMAIN ids /\ answers[i] \in Answers
    BY <1>1
  <2>2. more[i] = ToolRow(ids[i], answers[i])
    BY <1>1, <2>1
  <2>3. more[i].body = answers[i]
    BY <2>2 DEF ToolRow
  <2> QED BY <2>1, <2>3 DEF Answers, Says
<1> QED BY <1>1, <1>2, ContinuesOn DEF more

\* The rows the loop itself adds disclaim nothing without leave.
LEMMA PlainContinues ==
  ASSUME NEW h \in Seq(Row(CallIds)), NEW leave, NEW ran, NEW rows \in Seq(Row(CallIds)),
         Continues(h, ran, leave, rows)
  PROVE  /\ \A body \in {"model", "partial", "closing"} :
              Continues(h, ran, leave, Append(rows, AssistantRow(<<>>, body)))
         /\ Continues(h, ran, leave, Append(rows, UserRow("summary")))
         /\ Continues(h, ran, leave, CloseToolTail(rows, "closing"))
         /\ leave => Continues(h, ran, leave, CloseToolTail(rows, "unchanged"))
<1>1. ASSUME NEW body \in {"model", "partial", "closing"}
      PROVE  Continues(h, ran, leave, Append(rows, AssistantRow(<<>>, body)))
  <2>1. AssistantRow(<<>>, body) \in Row(CallIds)
    BY PlainRows DEF AssistantBodies
  <2>2. Says(AssistantRow(<<>>, body), leave)
    BY DEF AssistantRow, Says
  <2> QED BY <2>1, <2>2, ContinuesByRow
<1>2. Continues(h, ran, leave, Append(rows, UserRow("summary")))
  <2>1. UserRow("summary") \in Row(CallIds)
    BY PlainRows DEF UserBodies
  <2>2. Says(UserRow("summary"), leave)
    BY DEF UserRow, Says
  <2> QED BY <2>1, <2>2, ContinuesByRow
<1>3. Continues(h, ran, leave, CloseToolTail(rows, "closing"))
  BY <1>1 DEF CloseToolTail
<1>4. ASSUME leave
      PROVE  Continues(h, ran, leave, CloseToolTail(rows, "unchanged"))
  <2>1. AssistantRow(<<>>, "unchanged") \in Row(CallIds)
    BY PlainRows DEF AssistantBodies
  <2>2. Says(AssistantRow(<<>>, "unchanged"), leave)
    BY <1>4 DEF AssistantRow, Says
  <2>3. Continues(h, ran, leave, Append(rows, AssistantRow(<<>>, "unchanged")))
    BY <2>1, <2>2, ContinuesByRow
  <2> QED BY <2>3 DEF CloseToolTail
<1> QED BY <1>1, <1>2, <1>3, <1>4

\* What a caller gets back: its history, the question and more.
Grown(h, new) ==
  /\ Len(new) > Len(h) + 1
  /\ \A i \in 1 .. Len(h) : new[i] = h[i]
  /\ new[Len(h) + 1] = UserRow("ask")

\* Its last word, if it denies what tools may have done, has leave to.
Truthful(ran, leave, new) ==
  ran => Last(new).body # "unprocessed" /\ (Last(new).body = "unchanged" => leave)

LEMMA ReturnGrows ==
  ASSUME NEW h \in Seq(Row(CallIds)), NEW leave, NEW ran, NEW rows \in Seq(Row(CallIds)),
         NEW completed \in BOOLEAN, Continues(h, ran, leave, rows),
         completed => TailIs(rows, {"assistant"})
  PROVE  /\ Grown(h, CloseFailedTurn(rows, Len(h) + 1, completed))
         /\ Truthful(ran, leave, CloseFailedTurn(rows, Len(h) + 1, completed))
<1> DEFINE turnRows == SubSeq(rows, Len(h) + 1, Len(rows))
           notice == AssistantRow(<<>>, FailureNotice(turnRows))
<1>1. Len(h) \in Nat /\ Len(rows) \in Nat /\ rows # <<>> /\ Len(rows) \in Len(h) + 1 .. Len(rows)
  BY DEF Continues
<1>2. Last(rows) = rows[Len(rows)] /\ Last(rows) \in Row(CallIds)
  BY <1>1 DEF Last
<1>3. CASE ~completed /\ TailIs(rows, {"user", "tool"})
  <2>1. CloseFailedTurn(rows, Len(h) + 1, completed) = Append(rows, notice)
    BY <1>3 DEF CloseFailedTurn
  <2>2. ran => notice.body = "halfway"
    <3> SUFFICES ASSUME ran
                 PROVE  notice.body = "halfway"
      OBVIOUS
    <3>1. PICK i \in Len(h) + 1 .. Len(rows) : rows[i].role = "assistant" /\ rows[i].ids # <<>>
      BY DEF Continues
    <3>2. /\ i - Len(h) \in DOMAIN turnRows
          /\ turnRows[i - Len(h)] = rows[i]
      <4>1. /\ Len(turnRows) = Len(rows) - Len(h)
            /\ \A j \in 1 .. Len(rows) - Len(h) : turnRows[j] = rows[Len(h) + j]
            /\ DOMAIN turnRows = 1 .. Len(rows) - Len(h)
        BY <1>1, SubSeqProperties
      <4>2. i - Len(h) \in 1 .. Len(rows) - Len(h) /\ Len(h) + (i - Len(h)) = i
        BY <1>1
      <4> QED BY <4>1, <4>2
    <3>3. FailureNotice(turnRows) = "halfway"
      BY <3>1, <3>2 DEF FailureNotice
    <3> QED BY <3>3 DEF AssistantRow
  <2> HIDE DEF notice
  <2> DEFINE new == Append(rows, notice)
  <2>3. /\ Len(new) = Len(rows) + 1
        /\ Last(new) = notice
        /\ \A i \in 1 .. Len(rows) : new[i] = rows[i]
    BY <1>1 DEF Last
  <2> HIDE DEF new
  <2>4. Len(rows) > Len(h) /\ \A i \in 1 .. Len(h) + 1 : new[i] = rows[i]
    BY <1>1, <2>3
  <2>5. /\ Len(new) > Len(h) + 1
        /\ \A i \in 1 .. Len(h) : new[i] = h[i]
        /\ new[Len(h) + 1] = UserRow("ask")
    BY <1>1, <2>3, <2>4 DEF Continues
  <2> QED BY <2>1, <2>2, <2>3, <2>5 DEF Grown, Truthful, new
<1>4. CASE ~(~completed /\ TailIs(rows, {"user", "tool"}))
  <2>1. CloseFailedTurn(rows, Len(h) + 1, completed) = rows
    BY <1>4 DEF CloseFailedTurn
  <2>2. Last(rows).role = "assistant"
    <3>1. Last(rows).role \in {"user", "assistant", "tool"}
      BY <1>2 DEF Row
    <3> QED BY <1>1, <1>4, <3>1 DEF TailIs
  <2>3. Len(rows) > Len(h) + 1
    <3>1. rows[Len(h) + 1].role = "user"
      BY DEF Continues, UserRow
    <3> QED BY <1>1, <1>2, <2>2, <3>1
  <2>4. Says(Last(rows), leave)
    BY <1>1, <1>2 DEF Continues
  <2> QED BY <2>1, <2>3, <2>4 DEF Continues, Grown, Truthful, Says
<1> QED BY <1>3, <1>4

\* Steps of a turn that leave its rows alone.
LEMMA StutterGrowth ==
  ASSUME GrowthOK, pc # "idle", pc' # "idle",
         UNCHANGED <<history, messages, userIdx, result, mayHaveRun>>
  PROVE  GrowthOK'
BY DEF GrowthOK, NoticeIsHonest

\* Steps of a turn that add to its rows.
LEMMA KeptGrowth ==
  ASSUME GrowthOK, pc # "idle", pc' # "idle", UNCHANGED <<history, userIdx, result>>,
         Continues(history, mayHaveRun', FALSE, messages')
  PROVE  GrowthOK'
BY DEF GrowthOK, NoticeIsHonest

\* The turn returns what continued the caller's history, and only a turn that gives up on
\* its calls has leave to say that nothing was changed.
LEMMA ReturnGrowth ==
  ASSUME GInv, pc # "idle", NEW rows \in Seq(Row(CallIds)), NEW res, res.completed \in BOOLEAN,
         NEW leave, Continues(history, mayHaveRun, leave, rows),
         leave => res.exit = "invalid_tool_calls",
         res.completed => TailIs(rows, {"assistant"}),
         Return(rows, res)
  PROVE  GrowthOK' /\ Grown(history, history')
<1>1. history \in Seq(Row(CallIds)) /\ userIdx = Len(history) + 1
  BY DEF GInv, OInv, IInv, TypeOK, GrowthOK
<1>2. history' = CloseFailedTurn(rows, Len(history) + 1, res.completed)
  BY <1>1 DEF Return
<1>3. Grown(history, history') /\ Truthful(mayHaveRun, leave, history')
  BY <1>1, <1>2, ReturnGrows
<1>4. pc' = "idle" /\ mayHaveRun' = mayHaveRun /\ result' = res
  BY DEF Return, turnVars
<1>5. NoticeIsHonest'
  BY <1>3, <1>4 DEF Truthful, NoticeIsHonest
<1> QED BY <1>3, <1>4, <1>5 DEF GrowthOK

\* What a step of a turn does to the rows and to the caller.
Grows == history' # history => Grown(history, history')

\* Most ways out do not claim to have completed.
LEMMA FailureGrows ==
  ASSUME GInv, pc # "idle", NEW rows \in Seq(Row(CallIds)), NEW leave,
         Continues(history, mayHaveRun, leave, rows), NEW reason, leave => reason = "invalid_tool_calls",
         NEW hasFailed, NEW wasInterrupted, NEW partial, NEW calls,
         Return(rows, ResultOf(reason, FALSE, hasFailed, wasInterrupted, partial, calls))
  PROVE  GrowthOK' /\ Grows
<1> DEFINE res == ResultOf(reason, FALSE, hasFailed, wasInterrupted, partial, calls)
<1>1. res.completed = FALSE /\ res.exit = reason
  BY DEF ResultOf
<1>2. Return(rows, res)
  OBVIOUS
<1> HIDE DEF res
<1>3. res.completed \in BOOLEAN /\ (res.completed => TailIs(rows, {"assistant"}))
  BY <1>1
<1>4. GrowthOK' /\ Grown(history, history')
  BY <1>1, <1>2, <1>3, ReturnGrowth
<1> QED BY <1>4 DEF Grows

\* The event loop's steps.
LEMMA LoopStepGrows ==
  ASSUME GInv, LoopStep
  PROVE  GrowthOK' /\ Grows
<1> USE DEF callerVars, turnVars
<1>1. /\ messages \in Seq(Row(CallIds)) /\ history \in Seq(Row(CallIds)) /\ TypeOK
      /\ GrowthOK /\ OutcomeOK /\ RowsOK
  BY DEF GInv, OInv, IInv, TypeOK
<1>2. pc # "idle" => Continues(history, mayHaveRun, FALSE, messages)
  BY <1>1 DEF GrowthOK
<1>3. CASE StopBeforeCall \/ BeginIteration \/ LeaveLoop \/ SendRequest
  BY <1>1, <1>3, StutterGrowth DEF StopBeforeCall, BeginIteration, LeaveLoop, SendRequest, Grows
<1>4. CASE RefuseFiltered
  BY <1>1, <1>2, <1>4, FailureGrows DEF RefuseFiltered
<1>5. CASE ReturnTruncated
  <2> DEFINE rows == IF reply.calls = <<>> /\ reply.text
                     THEN Append(messages, AssistantRow(<<>>, "model"))
                     ELSE messages
  <2>0. pc # "idle" /\ Continues(history, mayHaveRun, FALSE, messages)
    BY <1>2, <1>5 DEF ReturnTruncated
  <2>1. rows \in Seq(Row(CallIds)) /\ Continues(history, mayHaveRun, FALSE, rows)
    <3>1. AssistantRow(<<>>, "model") \in Row(CallIds)
      BY PlainRows DEF AssistantBodies
    <3>2. Continues(history, mayHaveRun, FALSE, Append(messages, AssistantRow(<<>>, "model")))
      BY <1>1, <2>0, PlainContinues
    <3>3. Append(messages, AssistantRow(<<>>, "model")) \in Seq(Row(CallIds))
      BY <1>1, <3>1
    <3>4. CASE reply.calls = <<>> /\ reply.text
      BY <3>2, <3>3, <3>4
    <3>5. CASE ~(reply.calls = <<>> /\ reply.text)
      BY <1>1, <2>0, <3>5
    <3> QED BY <3>4, <3>5
  <2>2. /\ Return(rows, ResultOf("length_truncated", FALSE, FALSE, FALSE, TRUE, apiCalls))
        /\ pc # "idle"
    BY <1>5 DEF ReturnTruncated
  <2> HIDE DEF rows
  <2> QED BY <2>1, <2>2, FailureGrows
<1>6. CASE FinishText
  BY <1>1, <1>2, <1>6, PlainContinues, KeptGrowth DEF FinishText, Grows
<1>7. CASE AskAgain
  <2>1. CASE ~Checked.record
    BY <1>1, <1>7, <2>1, StutterGrowth DEF AskAgain, HasCalls, Grows
  <2>2. CASE Checked.record
    <3> DEFINE batch == Append(messages, AssistantRow(ReplyIds, "model"))
    <3>1. batch \in Seq(Row(CallIds)) /\ [k \in DOMAIN ReplyIds |-> "error"] \in [DOMAIN ReplyIds -> Answers]
      BY <1>1, BatchRows
    <3>2. Continues(history, mayHaveRun, FALSE, batch)
      <4>1. AssistantRow(ReplyIds, "model") \in Row(CallIds)
        BY <1>1, ReplyIdsType, RowTypes DEF AssistantBodies
      <4>2. Says(AssistantRow(ReplyIds, "model"), FALSE)
        BY DEF AssistantRow, Says
      <4> QED BY <1>1, <1>2, <1>7, <4>1, <4>2, ContinuesByRow DEF AskAgain, HasCalls
    <3>3. Continues(history, mayHaveRun, FALSE,
                    batch \o ToolRows(ReplyIds, [k \in DOMAIN ReplyIds |-> "error"]))
      BY <1>1, <3>1, <3>2, ReplyIdsType, ContinuesByAnswers
    <3>4. messages' = batch \o ToolRows(ReplyIds, [k \in DOMAIN ReplyIds |-> "error"])
      BY <1>7, <2>2 DEF AskAgain
    <3> HIDE DEF batch
    <3>5. Continues(history, mayHaveRun', FALSE, messages')
      BY <1>7, <3>3, <3>4 DEF AskAgain
    <3> QED BY <1>1, <1>7, <3>5, KeptGrowth DEF AskAgain, HasCalls, Grows
  <2> QED BY <2>1, <2>2
<1>8. CASE GiveUpOnCalls
  <2> DEFINE text == IF Truncated(reply.calls) THEN "unchanged" ELSE "closing"
             rows == CloseToolTail(messages, text)
  <2>1. pc \notin {"idle", "tools"} /\ text \in AssistantBodies
    BY <1>8 DEF GiveUpOnCalls, HasCalls, AssistantBodies
  <2>2. Continues(history, mayHaveRun, TRUE, messages)
    BY <1>2, <2>1 DEF Continues, Says
  <2>3. rows \in Seq(Row(CallIds)) /\ Continues(history, mayHaveRun, TRUE, rows)
    BY <1>1, <2>1, <2>2, CloseToolTailKeeps, PlainContinues DEF RowsOK
  <2>4. Return(rows, ResultOf("invalid_tool_calls", FALSE, FALSE, FALSE, TRUE, apiCalls))
    BY <1>8 DEF GiveUpOnCalls
  <2> HIDE DEF rows
  <2> QED BY <2>1, <2>3, <2>4, FailureGrows
<1>9. CASE ValidationRaises
  <2>1. messages' = messages
    BY <1>1, <1>9, NothingToAnswer DEF ValidationRaises, LocalError, HasCalls, RowsOK
  <2> QED BY <1>1, <1>9, <2>1, StutterGrowth DEF ValidationRaises, LocalError, HasCalls, Grows
<1>10. CASE StartTools
  <2>1. ReplyIds \in Seq(CallIds) /\ DOMAIN ReplyIds = DOMAIN reply.calls
    BY <1>1, ReplyIdsType
  <2>2. AssistantRow(ReplyIds, "model") \in Row(CallIds)
    BY <2>1, RowTypes DEF AssistantBodies
  <2>3. /\ AssistantRow(ReplyIds, "model").role = "assistant"
        /\ AssistantRow(ReplyIds, "model").ids = ReplyIds
        /\ Says(AssistantRow(ReplyIds, "model"), FALSE)
    BY DEF AssistantRow, Says
  <2>4. mayHaveRun' => mayHaveRun \/ ReplyIds # <<>>
    <3>1. mayHaveRun' => mayHaveRun \/ \E k \in DOMAIN ReplyIds : Runnable(reply.calls[k])
      BY <1>10, <2>1 DEF StartTools
    <3> HIDE DEF ReplyIds
    <3>2. ReplyIds = <<>> => DOMAIN ReplyIds = {}
      BY <2>1
    <3> QED BY <3>1, <3>2
  <2>5. Continues(history, mayHaveRun', FALSE, Append(messages, AssistantRow(ReplyIds, "model")))
    <3> HIDE DEF ReplyIds
    <3>1. pc # "idle"
      BY <1>10 DEF StartTools, HasCalls
    <3> QED BY <1>1, <1>2, <2>2, <2>3, <2>4, <3>1, ContinuesByRow
  <2>6. Continues(history, mayHaveRun', FALSE, messages')
    BY <1>10, <2>5 DEF StartTools
  <2> QED BY <1>1, <1>10, <2>6, KeptGrowth DEF StartTools, HasCalls, Grows
<1>11. CASE RequestSummary
  BY <1>1, <1>2, <1>11, PlainContinues, KeptGrowth DEF RequestSummary, outcomeVars, Grows
<1>12. CASE Finalize
  <2> DEFINE rows == CloseTranscript(messages)
             res == ResultOf(exit, Completed, failed, interrupted, FALSE, apiCalls)
  <2>1. pc # "idle" /\ Return(rows, res) /\ pc \notin {"idle", "tools"}
    BY <1>12 DEF Finalize
  <2>2. Continues(history, mayHaveRun, FALSE, rows)
    BY <1>1, <1>2, <2>1, PlainContinues DEF CloseTranscript
  <2>3. rows \in Seq(Row(CallIds))
    BY <1>1, <2>1, CloseToolTailKeeps, PlainRows DEF CloseTranscript, RowsOK, AssistantBodies
  <2>4. res.completed = Completed /\ Completed \in BOOLEAN
    BY <1>1 DEF ResultOf, Completed, TypeOK
  <2>5. Completed => TailIs(rows, {"assistant"})
    <3> SUFFICES ASSUME Completed
                 PROVE  TailIs(rows, {"assistant"})
      OBVIOUS
    <3>1. CASE TailIs(messages, {"assistant"})
      BY <3>1 DEF Completed, CloseTranscript
    <3>2. CASE ~TailIs(messages, {"assistant"})
      <4>1. rows = Append(messages, AssistantRow(<<>>, "closing"))
        BY <3>2 DEF Completed, CloseTranscript
      <4>2. AssistantRow(<<>>, "closing") \in Row(CallIds) /\ AssistantRow(<<>>, "closing").role = "assistant"
        BY PlainRows DEF AssistantBodies
      <4> QED BY <1>1, <4>1, <4>2 DEF TailIs, Last
    <3> QED BY <3>1, <3>2
  <2> HIDE DEF rows, res
  <2>6. res.completed \in BOOLEAN /\ (res.completed => TailIs(rows, {"assistant"}))
    BY <2>4, <2>5
  <2>7. pc # "idle" /\ Return(rows, res)
    BY <2>1
  <2> DEFINE leave == FALSE
  <2>8. Continues(history, mayHaveRun, leave, rows) /\ (leave => res.exit = "invalid_tool_calls")
    BY <2>2
  <2> HIDE DEF leave
  <2>9. GrowthOK' /\ Grown(history, history')
    BY <2>3, <2>6, <2>7, <2>8, ReturnGrowth
  <2> QED BY <2>9 DEF Grows
<1> QED BY <1>3, <1>4, <1>5, <1>6, <1>7, <1>8, <1>9, <1>10, <1>11, <1>12 DEF LoopStep

\* What a model call does.
LEMMA ModelStepGrows ==
  ASSUME GInv, StopStep \/ ModelStep \/ BackoffElapses
  PROVE  GrowthOK' /\ Grows
<1> USE DEF callerVars, turnVars
<1>1. /\ messages \in Seq(Row(CallIds)) /\ history \in Seq(Row(CallIds))
      /\ GrowthOK /\ RowsOK
  BY DEF GInv, OInv, IInv, TypeOK
<1>2. pc # "idle" => Continues(history, mayHaveRun, FALSE, messages)
  BY <1>1 DEF GrowthOK
<1>3. ASSUME NEW r \in Replies, ReplyArrives(r)
      PROVE  GrowthOK' /\ Grows
  BY <1>1, <1>3, StutterGrowth DEF ReplyArrives, Grows
<1>4. CASE ScheduleRetry \/ BackoffElapses
  BY <1>1, <1>4, StutterGrowth DEF ScheduleRetry, BackoffElapses, Grows
<1>5. CASE AbandonCall
  <2>1. Continues(history, mayHaveRun, FALSE, messages')
    BY <1>1, <1>2, <1>5, PlainContinues DEF AbandonCall
  <2> QED BY <1>1, <1>5, <2>1, KeptGrowth DEF AbandonCall, Grows
<1>6. CASE BackoffStopped \/ CallFailsWhenStopped
  <2>1. pc \notin {"idle", "tools"} /\ AbortOnStop
    BY <1>6 DEF BackoffStopped, CallFailsWhenStopped
  <2>2. /\ CloseToolTail(messages, "closing") \in Seq(Row(CallIds))
        /\ Continues(history, mayHaveRun, FALSE, CloseToolTail(messages, "closing"))
    BY <1>1, <1>2, <2>1, CloseToolTailKeeps, PlainContinues DEF RowsOK, AssistantBodies
  <2> QED BY <2>1, <2>2, FailureGrows DEF AbortOnStop
<1>7. CASE CallFailsForGood \/ RetriesExhausted
  BY <1>1, <1>2, <1>7, FailureGrows DEF CallFailsForGood, RetriesExhausted
<1> QED BY <1>3, <1>4, <1>5, <1>6, <1>7 DEF StopStep, ModelStep

\* What the caller, the tools, a stop and the summary do.
LEMMA OtherStepGrows ==
  ASSUME GInv, BeginTurn \/ RaiseOut \/ Interrupt \/ ClearInterrupt \/ ToolStep \/ SummaryStep
  PROVE  GrowthOK' /\ Grows
<1> USE DEF callerVars, turnVars
<1>1. /\ messages \in Seq(Row(CallIds)) /\ history \in Seq(Row(CallIds))
      /\ GrowthOK /\ RowsOK /\ TypeOK
  BY DEF GInv, OInv, IInv, TypeOK
<1>2. pc # "idle" => Continues(history, mayHaveRun, FALSE, messages)
  BY <1>1 DEF GrowthOK
<1>3. CASE BeginTurn
  <2> DEFINE ask == UserRow("ask")
  <2>1. ask \in Row(CallIds) /\ Says(ask, FALSE)
    BY PlainRows DEF UserBodies, UserRow, Says
  <2>2. Continues(history, FALSE, FALSE, Append(history, ask))
    <3> HIDE DEF ask
    <3>1. /\ Len(history) \in Nat /\ Len(Append(history, ask)) = Len(history) + 1
          /\ Append(history, ask)[Len(history) + 1] = ask
          /\ \A i \in 1 .. Len(history) : Append(history, ask)[i] = history[i]
      BY <1>1, <2>1
    <3>2. \A i \in Len(history) + 1 .. Len(Append(history, ask)) :
             Says(Append(history, ask)[i], FALSE)
      <4> TAKE i \in Len(history) + 1 .. Len(Append(history, ask))
      <4>1. i = Len(history) + 1
        BY <3>1
      <4> QED BY <2>1, <3>1, <4>1
    <3>3. ask = UserRow("ask")
      BY DEF ask
    <3> QED BY <3>1, <3>2, <3>3 DEF Continues, Says
  <2>3. userIdx' = Len(history') + 1 /\ result'.outcome # "returned" /\ history' = history
    BY <1>3 DEF BeginTurn, NoResult
  <2>4. Continues(history', mayHaveRun', FALSE, messages')
    BY <1>3, <2>2, <2>3 DEF BeginTurn
  <2> QED BY <2>3, <2>4 DEF GrowthOK, NoticeIsHonest, Grows
<1>4. CASE RaiseOut
  <2>1. pc' = "idle" /\ result'.outcome # "returned" /\ history' = history
    BY <1>4 DEF RaiseOut, NoResult
  <2> QED BY <2>1 DEF GrowthOK, NoticeIsHonest, Grows
<1>5. CASE Interrupt \/ ClearInterrupt
  BY <1>1, <1>5, StutterGrowth DEF Interrupt, ClearInterrupt, Running, Grows
<1>6. CASE ToolStep
  <2>1. pc = "tools" /\ pc' # "idle" /\ UNCHANGED <<history, userIdx, result, mayHaveRun>>
    BY <1>6 DEF ToolStep, FinishTools, ToolsRaise, LocalError
  <2>2. ReplyIds \in Seq(CallIds) /\ DOMAIN ReplyIds = DOMAIN reply.calls
    BY <1>1, ReplyIdsType
  <2>3. PICK answers \in [DOMAIN ReplyIds -> Answers] :
          messages' = messages \o ToolRows(ReplyIds, answers)
    <3>1. CASE FinishTools
      BY <1>1, <3>1, RoundRows
    <3>2. CASE ToolsRaise
      <4>1. PICK m \in Seq(Row(CallIds)) : messages = Append(m, AssistantRow(ReplyIds, "model"))
        BY <1>1, <2>1 DEF RowsOK
      <4>2. messages' = messages \o ToolRows(ReplyIds, [k \in DOMAIN ReplyIds |-> "error"])
        BY <3>2, <2>2, <4>1, AnswersWholeBatch DEF ToolsRaise, LocalError, AssistantBodies
      <4> QED BY <4>2, <1>1, BatchRows
    <3> QED BY <1>6, <3>1, <3>2 DEF ToolStep
  <2>4. Continues(history, mayHaveRun, FALSE, messages')
    BY <1>1, <1>2, <2>1, <2>2, <2>3, ContinuesByAnswers
  <2> QED BY <1>1, <2>1, <2>4, KeptGrowth DEF Grows
<1>7. CASE SummaryBlank
  BY <1>1, <1>7, StutterGrowth DEF SummaryBlank, Grows
<1>8. CASE SummaryEnds
  <2>1. Continues(history, mayHaveRun, FALSE, messages')
    BY <1>1, <1>2, <1>8, PlainContinues DEF SummaryEnds
  <2> QED BY <1>1, <1>8, <2>1, KeptGrowth DEF SummaryEnds, Grows
<1> QED BY <1>3, <1>4, <1>5, <1>6, <1>7, <1>8 DEF SummaryStep

\* Every step keeps the invariant, and what it returns has grown.
LEMMA StepGInv == GInv /\ [Next]_vars => GInv' /\ Grows
<1> SUFFICES ASSUME GInv, [Next]_vars
             PROVE  GInv' /\ Grows
  OBVIOUS
<1>1. OInv'
  BY StepOInv DEF GInv
<1>2. GrowthOK' /\ Grows
  <2>1. CASE UNCHANGED vars
    BY <2>1 DEF GInv, GrowthOK, NoticeIsHonest, Grows, vars, callerVars, turnVars
  <2>2. CASE Next
    BY <2>2, LoopStepGrows, ModelStepGrows, OtherStepGrows DEF Next
  <2> QED BY <2>1, <2>2
<1> QED BY <1>1, <1>2 DEF GInv

\* So it holds in every execution.
LEMMA GrowthInvariance == Spec => []GInv
<1>1. Init => GInv
  <2>1. Init => pc = "idle" /\ result.outcome # "returned"
    BY DEF Init, NoResult
  <2> QED BY <2>1, InitOInv DEF GInv, GrowthOK, NoticeIsHonest
<1>2. GInv /\ [Next]_vars => GInv'
  BY StepGInv
<1> QED BY <1>1, <1>2, PTL DEF Spec

\* A turn never rewrites what the caller held, and never swallows the question.
THEOREM HistoryGrows == Spec => HistoryOnlyGrows
<1> DEFINE Extends == history' # history =>
             /\ Len(history') > Len(history) + 1
             /\ SubSeq(history', 1, Len(history)) = history
             /\ history'[Len(history) + 1] = UserRow("ask")
<1>1. GInv /\ GInv' /\ [Next]_vars => [Extends]_vars
  <2> SUFFICES ASSUME GInv, GInv', [Next]_vars, history' # history
               PROVE  Extends
    OBVIOUS
  <2>1. history \in Seq(Row(CallIds)) /\ history' \in Seq(Row(CallIds))
    BY DEF GInv, OInv, IInv, TypeOK
  <2>2. Grown(history, history')
    BY StepGInv DEF Grows
  <2>3. SubSeq(history', 1, Len(history)) = history
    <3> DEFINE start == SubSeq(history', 1, Len(history))
    <3>1. Len(history) \in Nat /\ Len(history') \in Nat /\ Len(history') > Len(history)
      BY <2>1, <2>2 DEF Grown
    <3>2. /\ start \in Seq(Row(CallIds)) /\ Len(start) = Len(history)
          /\ \A i \in 1 .. Len(history) : start[i] = history'[i]
      BY <2>1, <3>1
    <3>3. \A i \in 1 .. Len(history) : start[i] = history[i]
      BY <2>2, <3>2 DEF Grown
    <3> HIDE DEF start
    <3> QED BY <2>1, <3>2, <3>3, SeqEqual DEF start
  <2> QED BY <2>2, <2>3 DEF Grown
<1> QED BY <1>1, GrowthInvariance, PTL DEF Spec, HistoryOnlyGrows

\* The boundary of a failed turn says "not processed" only if no tool can have run, since any
\* batch that was handed to the executor is among the rows it is made from; and only a turn
\* given up for its calls ends on "nothing was changed" after tools may have run.
THEOREM NoticeHonest == Spec => []NoticeIsHonest
<1>1. GInv => NoticeIsHonest
  BY DEF GInv, GrowthOK
<1> QED BY <1>1, GrowthInvariance, PTL

\* A turn that is marked as stopped has left the loop, and a stopped turn gets no summary.
THEOREM StoppedAsksNoMore == Spec => StoppedTurnAsksNoMore
<1> DEFINE AsksNothing == interrupted /\ Running => requests' = requests
<1>1. OInv /\ [Next]_vars => [AsksNothing]_vars
  <2> SUFFICES ASSUME OInv, Next, interrupted, Running
               PROVE  requests' = requests
    BY DEF vars
  <2>1. pc = "finalize"
    BY DEF OInv, IInv, TypeOK, OutcomeOK, InLoop, Running
  <2>2. Interrupt \/ ClearInterrupt \/ RequestSummary \/ Finalize
    BY <2>1 DEF Next, BeginTurn, RaiseOut, Awaiting, LoopStep, StopBeforeCall, BeginIteration,
         LeaveLoop, SendRequest, RefuseFiltered, ReturnTruncated, FinishText, AskAgain,
         GiveUpOnCalls, ValidationRaises, StartTools, HasCalls, StopStep, AbandonCall,
         BackoffStopped, ModelStep, ReplyArrives, CallFailsWhenStopped, CallFailsForGood,
         RetriesExhausted, ScheduleRetry, BackoffElapses, ToolStep, FinishTools, ToolsRaise,
         SummaryStep, SummaryBlank, SummaryEnds
  <2> QED BY <2>2 DEF Interrupt, ClearInterrupt, RequestSummary, WantsSummary, Finalize
<1> QED BY <1>1, OutcomeInvariance, PTL DEF Spec, StoppedTurnAsksNoMore
=============================================================================
