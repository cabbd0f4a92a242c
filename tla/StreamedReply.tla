---------------------------- MODULE StreamedReply ----------------------------
(***************************************************************************)
(* ModelClient.stream with the accumulator of chat_completions.py: chunks  *)
(* of a reply are merged as they come, text is shown while it may still be *)
(* the answer, and the end of the stream decides what the whole is worth.  *)
(*                                                                         *)
(* The endpoint is external.  It numbers its tool calls in one of the two  *)
(* ways the accumulator is written for: an index of its "own" for each     *)
(* call, or one "shared" index with calls told apart by their ids.         *)
(***************************************************************************)
EXTENDS SequencesExt

CONSTANTS
  Plans,      \* the replies the endpoint may mean to send, see PlansAssumption
  MaxStreams  \* bound of the model: calls of stream()

\* A reply is a number of pieces of text (a refusal is treated like text that is never
\* shown, and is left out) and, call by call, the number of pieces its arguments come
\* in; a call of no piece takes no arguments.
ASSUME PlansAssumption ==
  /\ \A p \in Plans : p.text \in Nat /\ p.pieces \in Seq(Nat)
  /\ MaxStreams \in Nat

VARIABLES
  phase,        \* "idle", "asking" or "streaming"
  streams,      \* calls of stream() begun
  strict,       \* the endpoint knows no stream_options
  unsupported,  \* _stream_options_unsupported
  plan,         \* what the endpoint means to send
  numbering,    \* how it numbers its calls
  sent,         \* pieces of each call's arguments it has sent
  begun,        \* calls it has sent anything of
  slots,        \* slot -> [id, name, pieces], with calls for ids and names, 0 for none
  lastId,       \* _last_id_at_index
  active,       \* _active_slot_by_index
  announced,    \* the names on_tool_started was called with
  content,      \* pieces of text received
  shown,        \* pieces of text on_text_delta was called with
  finish,       \* _finish_reason
  usage,        \* a usage count came
  result        \* how the last stream() ended

clientVars == <<streams, strict, unsupported>>
planVars == <<plan, numbering>>
callVars == <<sent, begun, slots, lastId, active, announced>>
textVars == <<content, shown>>
endVars == <<finish, usage>>
vars == <<phase, clientVars, planVars, callVars, textVars, endVars, result>>

NoResult == [kind |-> "none", finish |-> "none", calls |-> <<>>, text |-> 0]
Failure == [NoResult EXCEPT !.kind = "error"]

NoEntry == [id |-> 0, name |-> 0, pieces |-> <<>>]

PlanCalls == 1 .. Len(plan.pieces)
Whole(k) == [p \in 1 .. plan.pieces[k] |-> <<k, p>>]

Init ==
  /\ phase = "idle"
  /\ streams = 0
  /\ strict \in BOOLEAN
  /\ unsupported = FALSE
  /\ plan \in Plans
  /\ numbering \in {"own", "shared"}
  /\ sent = [k \in PlanCalls |-> 0] /\ begun = {}
  /\ slots = <<>> /\ lastId = <<>> /\ active = <<>> /\ announced = <<>>
  /\ content = 0 /\ shown = <<>>
  /\ finish = "none" /\ usage = FALSE
  /\ result = NoResult
-----------------------------------------------------------------------------
\* The request.

\* stream() with its fresh accumulator; the endpoint makes up its mind.
Begin ==
  /\ phase = "idle"
  /\ streams < MaxStreams
  /\ streams' = streams + 1
  /\ phase' = "asking"
  /\ plan' \in Plans
  /\ numbering' \in {"own", "shared"}
  /\ sent' = [k \in 1 .. Len(plan'.pieces) |-> 0] /\ begun' = {}
  /\ slots' = <<>> /\ lastId' = <<>> /\ active' = <<>> /\ announced' = <<>>
  /\ content' = 0 /\ shown' = <<>>
  /\ finish' = "none" /\ usage' = FALSE
  /\ result' = NoResult
  /\ UNCHANGED <<strict, unsupported>>

Refused == strict /\ ~unsupported

\* The endpoint names stream_options as unknown: ask again without it, unless text was
\* shown.  The SDK reports a status before the first chunk or not at all, so a stream
\* under way cannot be refused in this way, and nothing was gathered yet.
DropOption ==
  /\ phase = "asking"
  /\ Refused
  /\ shown = <<>>
  /\ unsupported' = TRUE
  /\ UNCHANGED <<phase, streams, strict, planVars, callVars, textVars, endVars, result>>

Accept ==
  /\ phase = "asking"
  /\ ~Refused
  /\ phase' = "streaming"
  /\ UNCHANGED <<clientVars, planVars, callVars, textVars, endVars, result>>

\* A timeout, a lost connection, another status, an error event or a malformed chunk.
Fail ==
  /\ phase \in {"asking", "streaming"}
  /\ phase' = "idle"
  /\ result' = Failure
  /\ UNCHANGED <<clientVars, planVars, callVars, textVars, endVars>>
-----------------------------------------------------------------------------
\* _ToolCallAccumulator.feed, given a delta [index, id, name, piece].

SlotOf(d) == IF d.index \in DOMAIN active THEN active[d.index] ELSE d.index

\* A new id at an index that already had one stands for another call.
IsRedirected(d) == d.id # 0 /\ d.index \in DOMAIN lastId /\ lastId[d.index] # d.id

\* Mutant of ChosenSlot: ids are ignored.
ChosenSlotByIndex(d) == SlotOf(d)

ChosenSlot(d) == IF IsRedirected(d) THEN Max(DOMAIN slots \cup {-1}) + 1 ELSE SlotOf(d)

EntryAt(s) == IF s \in DOMAIN slots THEN slots[s] ELSE NoEntry

\* Later fields replace earlier ones, pieces of the arguments are appended.
Merged(entry, d) ==
  [id |-> IF d.id # 0 THEN d.id ELSE entry.id,
   name |-> IF d.name # 0 THEN d.name ELSE entry.name,
   pieces |-> entry.pieces \o d.piece]

\* A call is announced the first time its name is known.
Announce(before, d) ==
  IF before.name = 0 /\ d.name # 0 THEN Append(announced, d.name) ELSE announced

\* dict[key] = value
Put(dict, key, value) ==
  [k \in DOMAIN dict \cup {key} |-> IF k = key THEN value ELSE dict[k]]

Feed(d) ==
  LET s == ChosenSlot(d)
  IN /\ active' = Put(active, d.index, s)
     /\ lastId' = IF d.id = 0 THEN lastId ELSE Put(lastId, d.index, d.id)
     /\ slots' = Put(slots, s, Merged(EntryAt(s), d))
     /\ announced' = Announce(EntryAt(s), d)
-----------------------------------------------------------------------------
\* The chunks.  One that carries several deltas stands for as many steps, its text
\* last, which is the order in which feed() takes them.

Open == phase = "streaming" /\ finish = "none" /\ ~usage

\* With a shared index the calls come one after another.
IsTurnOf(k) ==
  numbering = "shared" =>
    /\ \A j \in 1 .. k - 1 : j \in begun /\ sent[j] = plan.pieces[j]
    /\ begun \subseteq 1 .. k

\* An id may be repeated or, where the index tells the calls apart, missing; a name
\* may come late or be repeated; the pieces come in order.
CallChunk(k) ==
  /\ Open
  /\ IsTurnOf(k)
  /\ \E hasId, hasName, hasPiece \in BOOLEAN :
       /\ hasId \/ hasName \/ hasPiece
       /\ numbering = "shared" /\ k \notin begun => hasId
       /\ hasPiece => sent[k] < plan.pieces[k]
       /\ sent' = IF hasPiece THEN [sent EXCEPT ![k] = @ + 1] ELSE sent
       /\ Feed([index |-> IF numbering = "own" THEN k - 1 ELSE 0,
                id |-> IF hasId THEN k ELSE 0,
                name |-> IF hasName THEN k ELSE 0,
                piece |-> IF hasPiece THEN <<<<k, sent[k] + 1>>>> ELSE <<>>])
  /\ begun' = begun \cup {k}
  /\ UNCHANGED <<phase, clientVars, planVars, textVars, endVars, result>>

\* Mutant of IsVisible: a finished call no longer withholds the text.
IsVisibleBetweenCalls == \A s \in DOMAIN slots : \E k \in PlanCalls : slots[s].pieces = Whole(k)

\* Text that follows the start of a call is kept and not shown.
IsVisible == DOMAIN slots = {}

TextChunk ==
  /\ Open
  /\ content < plan.text
  /\ content' = content + 1
  /\ shown' = IF IsVisible THEN Append(shown, content + 1) ELSE shown
  /\ UNCHANGED <<phase, clientVars, planVars, callVars, endVars, result>>

AllSent ==
  /\ content = plan.text
  /\ \A k \in PlanCalls : k \in begun /\ sent[k] = plan.pieces[k]

\* The endpoint says why it stops: it is done, or it cuts the reply short.
FinishChunk ==
  /\ Open
  /\ \/ AllSent /\ finish' = "stop"
     \/ finish' \in {"length", "content_filter"}
  /\ UNCHANGED <<phase, usage, clientVars, planVars, callVars, textVars, result>>

\* The count of tokens follows the whole reply; some endpoints give no reason before.
UsageChunk ==
  /\ phase = "streaming"
  /\ ~usage
  /\ finish # "none" \/ AllSent
  /\ usage' = TRUE
  /\ UNCHANGED <<phase, finish, clientVars, planVars, callVars, textVars, result>>
-----------------------------------------------------------------------------
\* ChatCompletionsStreamAccumulator.finish.

Entries == [i \in 1 .. Cardinality(DOMAIN slots) |->
              slots[CHOOSE s \in DOMAIN slots :
                      Cardinality({t \in DOMAIN slots : t < s}) = i - 1]]

\* The arguments of a call are an object: no part of them is JSON, nor are two of them.
Parses(pieces) == \E k \in PlanCalls : pieces = Whole(k)

\* Arguments were cut off; none at all may be meant once a reason has been given.
IsCut(pieces) == IF pieces = <<>> THEN finish = "none" ELSE ~Parses(pieces)

Truncated == \E s \in DOMAIN slots : IsCut(slots[s].pieces)

\* Mutant of IsDropped: text without a reason is accepted as it is.
IsDroppedInCall ==
  finish = "none" /\ (Truncated \/ (content = 0 /\ DOMAIN slots = {}))

\* No reason was given and nothing else proves that the stream was complete.
IsDropped ==
  finish = "none" /\ (Truncated \/ (DOMAIN slots = {} /\ (content = 0 \/ ~usage)))

\* ToolCall wants an id and a name, NormalizedResponse something to show or a reason
\* why there is nothing.
IsWellFormed ==
  /\ \A s \in DOMAIN slots : slots[s].id # 0 /\ slots[s].name # 0
  /\ content > 0 \/ DOMAIN slots # {} \/ finish \in {"length", "content_filter"}

Response ==
  [kind |-> "response",
   finish |-> IF Truncated THEN "length" ELSE IF finish = "none" THEN "stop" ELSE finish,
   calls |-> Entries, text |-> content]

\* The connection closes, whether or not the reply was complete.
End ==
  /\ phase = "streaming"
  /\ phase' = "idle"
  /\ result' = IF IsDropped \/ ~IsWellFormed THEN Failure ELSE Response
  /\ UNCHANGED <<clientVars, planVars, callVars, textVars, endVars>>

Next ==
  \/ Begin \/ DropOption \/ Accept \/ Fail
  \/ \E k \in PlanCalls : CallChunk(k)
  \/ TextChunk \/ FinishChunk \/ UsageChunk \/ End

Spec == Init /\ [][Next]_vars
-----------------------------------------------------------------------------
\* Properties.

\* What came of a call so far.
Pieces(k) == [p \in 1 .. sent[k] |-> <<k, p>>]

\* Whatever the order, the numbering and the repetitions of the chunks, each call begun
\* has one slot of its own, which holds exactly what came of that call and of no other,
\* and is announced once, as soon as its name has come.
NothingIsMisfiled ==
  /\ Cardinality(DOMAIN slots) = Cardinality(begun)
  /\ \A k \in begun : \E s \in DOMAIN slots :
       slots[s].pieces = Pieces(k) /\ slots[s].id \in {0, k} /\ slots[s].name \in {0, k}
  /\ IsInjective(announced)
  /\ ToSet(announced) = {slots[s].name : s \in DOMAIN slots} \ {0}

\* A response that is not marked as cut short is whole as far as it goes: its calls are
\* calls of the endpoint in their order, none with part of its arguments, and without a
\* call its text is the entire reply.
AnswersAreWhole ==
  result.kind = "response" /\ result.finish = "stop" =>
    /\ \A i \in 1 .. Len(result.calls) :
         LET c == result.calls[i] IN c.name = c.id /\ c.pieces = Whole(c.id)
    /\ \A i, j \in 1 .. Len(result.calls) : i < j => result.calls[i].id < result.calls[j].id
    /\ result.calls = <<>> => AllSent

\* What was shown is a beginning of the text: it never skips a piece, so the text an
\* interrupted turn keeps is one the model wrote.
ShownIsABeginning == \A i \in 1 .. Len(shown) : shown[i] = i

\* The docstring of the accumulator: a stream that ends without a finish reason is never
\* reported as a normal answer.  A usage count is taken as proof that it was complete.
DroppedIsNoAnswer == result.kind = "response" => finish # "none" \/ usage
=============================================================================
