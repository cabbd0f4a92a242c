------------------------- MODULE ToolStrikesProofs -------------------------
(***************************************************************************)
(* The strikes of one turn, for every set of batches, every number of      *)
(* strikes and any number of replies.                                      *)
(***************************************************************************)
EXTENDS ToolStrikes, SequenceTheorems, TLAPS

Kinds == {"unknown", "crash", "cut", "cutnested", "malformed", "sound"}

Entry == [kind : Kinds, record : BOOLEAN, ran : BOOLEAN]

\* Kinds of replies that the loop may answer with the same request.
Retried == {"cutnested", "malformed"}

\* The positions of replies that strike, and of those that leave no record.
UnknownReplies == {i \in DOMAIN trail : trail[i].kind = "unknown"}
Unrecorded == {i \in DOMAIN trail : ~trail[i].record}

\* The last run of positions in T, counted back from the newest reply, has length r.
IsRun(r, T) ==
  /\ r \in 0 .. Len(trail)
  /\ \A i \in Len(trail) - r + 1 .. Len(trail) : i \in T
  /\ r < Len(trail) => Len(trail) - r \notin T

CountersOK ==
  /\ trail \in Seq(Entry)
  /\ toolStrikes \in 0 .. MaxStrikes - 1
  /\ jsonStrikes \in 0 .. MaxStrikes - 1
  /\ ending \in {"none", "refused", "raised"}

\* The counters are the lengths of the runs they stand for.  A json strike may be older
\* than the last run, because a reply of unknown tools keeps it.
RunsInv ==
  ending = "none" =>
    /\ IsRun(toolStrikes, UnknownReplies)
    /\ \E r \in 0 .. jsonStrikes : IsRun(r, Unrecorded)

IInv == CountersOK /\ RunsInv /\ CutCallsNeverRun
-----------------------------------------------------------------------------
\* What validate_tool_calls decides, kind by kind.
LEMMA Verdicts ==
  ASSUME NEW calls, NEW t \in 0 .. MaxStrikes - 1, NEW j \in 0 .. MaxStrikes - 1
  PROVE  LET v == Validate(calls, t, j)
             k == KindOf(calls)
         IN
           \/ k = "unknown" /\ v = Verdict("return", FALSE, 0, j)
           \/ k = "unknown" /\ v = Verdict("continue", TRUE, t + 1, j) /\ t + 1 < MaxStrikes
           \/ k = "crash" /\ v = Verdict("raise", FALSE, t, j)
           \/ k \in {"cut"} \cup Retried /\ v = Verdict("return", FALSE, 0, 0)
           \/ k \in Retried /\ v = Verdict("continue", FALSE, 0, j + 1) /\ j + 1 < MaxStrikes
           \/ k \in Retried /\ v = Verdict("continue", TRUE, 0, 0)
           \/ k = "sound" /\ v = Verdict("ok", FALSE, 0, 0)
<1> DEFINE v == Validate(calls, t, j)
           k == KindOf(calls)
           crashes == \E i \in DOMAIN calls : calls[i].args = "crash"
<1>1. CASE AllUnknown(calls)
  <2>1. k = "unknown" /\ v = UnknownVerdict(t, j)
    BY <1>1 DEF KindOf, Validate
  <2>2. CASE t + 1 >= MaxStrikes
    BY <2>1, <2>2 DEF UnknownVerdict
  <2>3. CASE ~(t + 1 >= MaxStrikes)
    <3>1. t + 1 < MaxStrikes
      BY <2>3, MaxStrikesAssumption
    <3> QED BY <2>1, <2>3, <3>1 DEF UnknownVerdict
  <2> QED BY <2>2, <2>3
<1>2. CASE ~AllUnknown(calls) /\ crashes
  BY <1>2 DEF KindOf, Validate
<1>3. CASE ~AllUnknown(calls) /\ ~crashes /\ Has(calls, {"cut"})
  <2>1. PICK i \in DOMAIN calls : Known(calls[i]) /\ calls[i].args = "cut"
    BY <1>3 DEF Has
  <2>2. i \in BadJson(calls)
    BY <2>1 DEF BadJson, NoJson
  <2>3. calls[i].name \in BadNames(calls)
    BY <2>2 DEF BadNames
  <2>4. Truncated(calls)
    BY <2>1, <2>3 DEF Truncated, LooksCut
  <2>5. v = BadJsonVerdict(calls, j)
    BY <1>3, <2>2 DEF Validate
  <2> QED BY <1>3, <2>4, <2>5 DEF KindOf, BadJsonVerdict
<1>4. CASE ~AllUnknown(calls) /\ ~crashes /\ ~Has(calls, {"cut"}) /\ BadJson(calls) # {}
  <2>1. Has(calls, {"cutnested"}) \/ Has(calls, {"malformed", "stray"})
    BY <1>4 DEF Has, BadJson, NoJson
  <2>2. k \in Retried /\ v = BadJsonVerdict(calls, j)
    BY <1>4, <2>1 DEF KindOf, Validate, Retried
  <2> QED BY <2>2 DEF BadJsonVerdict
<1>5. CASE ~AllUnknown(calls) /\ ~crashes /\ ~Has(calls, {"cut"}) /\ BadJson(calls) = {}
  <2>1. ~Has(calls, {"cutnested"}) /\ ~Has(calls, {"malformed", "stray"})
    BY <1>5 DEF Has, BadJson, NoJson
  <2> QED BY <1>5, <2>1 DEF KindOf, Validate
<1> QED BY <1>1, <1>2, <1>3, <1>4, <1>5

\* The last run as the properties define it.
LEMMA UnknownRun ==
  ASSUME NEW r, IsRun(r, UnknownReplies), trail \in Seq(Entry)
  PROVE  LastRun(LAMBDA entry : entry.kind = "unknown") = r
<1> DEFINE S == {n \in 0 .. Len(trail) :
                   \A i \in Len(trail) - n + 1 .. Len(trail) : trail[i].kind = "unknown"}
<1>1. Len(trail) \in Nat /\ DOMAIN trail = 1 .. Len(trail)
  OBVIOUS
<1>2. r \in S
  BY <1>1 DEF IsRun, UnknownReplies
<1>3. \A n \in S : n <= r
  BY <1>1 DEF IsRun, UnknownReplies
<1>4. \A x \in S : (\A y \in S : x >= y) => x = r
  BY <1>1, <1>2, <1>3
<1>5. Max(S) = r
  <2>1. r \in S /\ \A y \in S : r >= y
    BY <1>1, <1>2, <1>3
  <2> HIDE DEF S
  <2> QED BY <2>1, <1>4 DEF Max
<1> QED BY <1>5 DEF LastRun

LEMMA UnrecordedRun ==
  ASSUME NEW r, IsRun(r, Unrecorded), trail \in Seq(Entry)
  PROVE  LastRun(LAMBDA entry : ~entry.record) = r
<1> DEFINE S == {n \in 0 .. Len(trail) :
                   \A i \in Len(trail) - n + 1 .. Len(trail) : ~trail[i].record}
<1>1. Len(trail) \in Nat /\ DOMAIN trail = 1 .. Len(trail)
  OBVIOUS
<1>2. r \in S
  BY <1>1 DEF IsRun, Unrecorded
<1>3. \A n \in S : n <= r
  BY <1>1 DEF IsRun, Unrecorded
<1>4. \A x \in S : (\A y \in S : x >= y) => x = r
  BY <1>1, <1>2, <1>3
<1>5. Max(S) = r
  <2>1. r \in S /\ \A y \in S : r >= y
    BY <1>1, <1>2, <1>3
  <2> HIDE DEF S
  <2> QED BY <2>1, <1>4 DEF Max
<1> QED BY <1>5 DEF LastRun
-----------------------------------------------------------------------------
LEMMA StrikesInit == Init => IInv
<1> SUFFICES ASSUME Init
             PROVE  IInv
  OBVIOUS
<1>1. CountersOK
  BY MaxStrikesAssumption DEF Init, CountersOK
<1>2. RunsInv
  BY DEF Init, RunsInv, IsRun
<1>3. CutCallsNeverRun
  BY DEF Init, CutCallsNeverRun
<1> QED BY <1>1, <1>2, <1>3 DEF IInv

\* A reply appended to the trail lengthens a run by one or ends it.
LEMMA RunGrows ==
  ASSUME trail \in Seq(Entry), NEW e \in Entry, trail' = Append(trail, e)
  PROVE  /\ e.kind = "unknown" =>
              \A r : IsRun(r, UnknownReplies) => IsRun(r + 1, UnknownReplies)'
         /\ e.kind # "unknown" => IsRun(0, UnknownReplies)'
         /\ ~e.record => \A r : IsRun(r, Unrecorded) => IsRun(r + 1, Unrecorded)'
         /\ e.record => IsRun(0, Unrecorded)'
<1>1. /\ Len(trail) \in Nat /\ Len(trail') = Len(trail) + 1
      /\ DOMAIN trail = 1 .. Len(trail) /\ DOMAIN trail' = 1 .. Len(trail) + 1
      /\ trail'[Len(trail) + 1] = e
      /\ \A i \in 1 .. Len(trail) : trail'[i] = trail[i]
  OBVIOUS
<1>2. \A i \in 1 .. Len(trail) :
        /\ i \in UnknownReplies' <=> i \in UnknownReplies
        /\ i \in Unrecorded' <=> i \in Unrecorded
  BY <1>1 DEF UnknownReplies, Unrecorded
<1>3. /\ Len(trail) + 1 \in UnknownReplies' <=> e.kind = "unknown"
      /\ Len(trail) + 1 \in Unrecorded' <=> ~e.record
  BY <1>1 DEF UnknownReplies, Unrecorded
<1>4. ASSUME NEW T, NEW U, NEW r, IsRun(r, T), Len(trail) + 1 \in U,
             \A i \in 1 .. Len(trail) : i \in U <=> i \in T
      PROVE  /\ r + 1 \in 0 .. Len(trail')
             /\ \A i \in Len(trail') - (r + 1) + 1 .. Len(trail') : i \in U
             /\ r + 1 < Len(trail') => Len(trail') - (r + 1) \notin U
  BY <1>1, <1>4 DEF IsRun
<1>5. ASSUME NEW r, IsRun(r, UnknownReplies), e.kind = "unknown"
      PROVE  IsRun(r + 1, UnknownReplies)'
  BY <1>2, <1>3, <1>4, <1>5 DEF IsRun
<1>6. ASSUME NEW r, IsRun(r, Unrecorded), ~e.record
      PROVE  IsRun(r + 1, Unrecorded)'
  BY <1>2, <1>3, <1>4, <1>6 DEF IsRun
<1>7. e.kind # "unknown" => IsRun(0, UnknownReplies)'
  BY <1>1, <1>3 DEF IsRun
<1>8. e.record => IsRun(0, Unrecorded)'
  BY <1>1, <1>3 DEF IsRun
<1> QED BY <1>5, <1>6, <1>7, <1>8

LEMMA StrikesStep == IInv /\ [Next]_vars => IInv'
<1> SUFFICES ASSUME IInv, [Next]_vars
             PROVE  IInv'
  OBVIOUS
<1>1. CASE UNCHANGED vars
  BY <1>1 DEF vars, IInv, CountersOK, RunsInv, IsRun, UnknownReplies, Unrecorded,
              CutCallsNeverRun
<1>2. ASSUME NEW calls \in Batches, TakeReply(calls)
      PROVE  IInv'
  <2> DEFINE v == Validate(calls, toolStrikes, jsonStrikes)
             e == [kind |-> KindOf(calls), record |-> v.record \/ v.action = "ok",
                   ran |-> v.action = "ok"]
  <2>1. /\ trail \in Seq(Entry)
        /\ toolStrikes \in 0 .. MaxStrikes - 1
        /\ jsonStrikes \in 0 .. MaxStrikes - 1
    BY DEF IInv, CountersOK
  <2>2. /\ ending = "none"
        /\ IsRun(toolStrikes, UnknownReplies)
        /\ \E r \in 0 .. jsonStrikes : IsRun(r, Unrecorded)
    BY <1>2 DEF TakeReply, IInv, RunsInv
  <2>3. /\ toolStrikes' = v.toolStrikes /\ jsonStrikes' = v.jsonStrikes
        /\ trail' = Append(trail, e)
    BY <1>2 DEF TakeReply
  <2>9. /\ v.action = "return" => ending' = "refused"
        /\ v.action = "raise" => ending' = "raised"
        /\ v.action # "return" /\ v.action # "raise" => ending' = "none"
    <3>1. ending' = CASE v.action = "return" -> "refused"
                      [] v.action = "raise" -> "raised"
                      [] OTHER -> "none"
      BY <1>2, Zenon DEF TakeReply
    <3>2. "return" # "raise"
      OBVIOUS
    <3> HIDE DEF v
    <3> QED BY <3>1, <3>2, Zenon
  <2> DEFINE k == KindOf(calls)
             Goes(kind, record, ran, ts, js, how) ==
               /\ e = [kind |-> kind, record |-> record, ran |-> ran]
               /\ toolStrikes' = ts /\ jsonStrikes' = js /\ ending' = how
  <2>4. \/ Goes("unknown", FALSE, FALSE, 0, jsonStrikes, "refused")
        \/ /\ Goes("unknown", TRUE, FALSE, toolStrikes + 1, jsonStrikes, "none")
           /\ toolStrikes + 1 < MaxStrikes
        \/ Goes("crash", FALSE, FALSE, toolStrikes, jsonStrikes, "raised")
        \/ \E kind \in {"cut"} \cup Retried : Goes(kind, FALSE, FALSE, 0, 0, "refused")
        \/ \E kind \in Retried :
             /\ Goes(kind, FALSE, FALSE, 0, jsonStrikes + 1, "none")
             /\ jsonStrikes + 1 < MaxStrikes
        \/ \E kind \in Retried : Goes(kind, TRUE, FALSE, 0, 0, "none")
        \/ Goes("sound", TRUE, TRUE, 0, 0, "none")
    <3>1. CASE k = "unknown" /\ v = Verdict("return", FALSE, 0, jsonStrikes)
      <4>1. /\ v.action = "return" /\ v.record = FALSE
            /\ v.toolStrikes = 0 /\ v.jsonStrikes = jsonStrikes
        BY <3>1 DEF Verdict
      <4>2. (v.record \/ v.action = "ok") = FALSE /\ (v.action = "ok") = FALSE
        BY <4>1
      <4>3. e = [kind |-> "unknown", record |-> FALSE, ran |-> FALSE]
        BY <3>1, <4>2
      <4>4. Goes("unknown", FALSE, FALSE, 0, jsonStrikes, "refused")
        BY <2>3, <2>9, <4>1, <4>3
      <4> HIDE DEF Goes, v, k, e
      <4> QED BY <3>1, <4>4
    <3>2. CASE k = "unknown" /\ v = Verdict("continue", TRUE, toolStrikes + 1, jsonStrikes)
                 /\ toolStrikes + 1 < MaxStrikes
      <4>1. /\ v.action = "continue" /\ v.record = TRUE
            /\ v.toolStrikes = toolStrikes + 1 /\ v.jsonStrikes = jsonStrikes
        BY <3>2 DEF Verdict
      <4>2. (v.record \/ v.action = "ok") = TRUE /\ (v.action = "ok") = FALSE
        BY <4>1
      <4>3. e = [kind |-> "unknown", record |-> TRUE, ran |-> FALSE]
        BY <3>2, <4>2
      <4>4. Goes("unknown", TRUE, FALSE, toolStrikes + 1, jsonStrikes, "none")
        BY <2>3, <2>9, <4>1, <4>3
      <4> HIDE DEF Goes, v, k, e
      <4> QED BY <3>2, <4>4
    <3>3. CASE k = "crash" /\ v = Verdict("raise", FALSE, toolStrikes, jsonStrikes)
      <4>1. /\ v.action = "raise" /\ v.record = FALSE
            /\ v.toolStrikes = toolStrikes /\ v.jsonStrikes = jsonStrikes
        BY <3>3 DEF Verdict
      <4>2. (v.record \/ v.action = "ok") = FALSE /\ (v.action = "ok") = FALSE
        BY <4>1
      <4>3. e = [kind |-> "crash", record |-> FALSE, ran |-> FALSE]
        BY <3>3, <4>2
      <4>4. Goes("crash", FALSE, FALSE, toolStrikes, jsonStrikes, "raised")
        BY <2>3, <2>9, <4>1, <4>3
      <4> HIDE DEF Goes, v, k, e
      <4> QED BY <3>3, <4>4
    <3>4. CASE k \in {"cut"} \cup Retried /\ v = Verdict("return", FALSE, 0, 0)
      <4>1. /\ v.action = "return" /\ v.record = FALSE
            /\ v.toolStrikes = 0 /\ v.jsonStrikes = 0
        BY <3>4 DEF Verdict
      <4>2. (v.record \/ v.action = "ok") = FALSE /\ (v.action = "ok") = FALSE
        BY <4>1
      <4>3. e = [kind |-> k, record |-> FALSE, ran |-> FALSE]
        BY <3>4, <4>2
      <4>4. Goes(k, FALSE, FALSE, 0, 0, "refused")
        BY <2>3, <2>9, <4>1, <4>3
      <4> HIDE DEF Goes, v, k, e
      <4> QED BY <3>4, <4>4
    <3>5. CASE k \in Retried /\ v = Verdict("continue", FALSE, 0, jsonStrikes + 1)
                 /\ jsonStrikes + 1 < MaxStrikes
      <4>1. /\ v.action = "continue" /\ v.record = FALSE
            /\ v.toolStrikes = 0 /\ v.jsonStrikes = jsonStrikes + 1
        BY <3>5 DEF Verdict
      <4>2. (v.record \/ v.action = "ok") = FALSE /\ (v.action = "ok") = FALSE
        BY <4>1
      <4>3. e = [kind |-> k, record |-> FALSE, ran |-> FALSE]
        BY <3>5, <4>2
      <4>4. Goes(k, FALSE, FALSE, 0, jsonStrikes + 1, "none")
        BY <2>3, <2>9, <4>1, <4>3
      <4> HIDE DEF Goes, v, k, e
      <4> QED BY <3>5, <4>4
    <3>6. CASE k \in Retried /\ v = Verdict("continue", TRUE, 0, 0)
      <4>1. /\ v.action = "continue" /\ v.record = TRUE
            /\ v.toolStrikes = 0 /\ v.jsonStrikes = 0
        BY <3>6 DEF Verdict
      <4>2. (v.record \/ v.action = "ok") = TRUE /\ (v.action = "ok") = FALSE
        BY <4>1
      <4>3. e = [kind |-> k, record |-> TRUE, ran |-> FALSE]
        BY <3>6, <4>2
      <4>4. Goes(k, TRUE, FALSE, 0, 0, "none")
        BY <2>3, <2>9, <4>1, <4>3
      <4> HIDE DEF Goes, v, k, e
      <4> QED BY <3>6, <4>4
    <3>7. CASE k = "sound" /\ v = Verdict("ok", FALSE, 0, 0)
      <4>1. /\ v.action = "ok" /\ v.record = FALSE
            /\ v.toolStrikes = 0 /\ v.jsonStrikes = 0
        BY <3>7 DEF Verdict
      <4>2. (v.record \/ v.action = "ok") = TRUE /\ (v.action = "ok") = TRUE
        BY <4>1
      <4>3. e = [kind |-> "sound", record |-> TRUE, ran |-> TRUE]
        BY <3>7, <4>2
      <4>4. Goes("sound", TRUE, TRUE, 0, 0, "none")
        BY <2>3, <2>9, <4>1, <4>3
      <4> HIDE DEF Goes, v, k, e
      <4> QED BY <3>7, <4>4
    <3> QED BY <2>1, <3>1, <3>2, <3>3, <3>4, <3>5, <3>6, <3>7, Verdicts, Zenon
  <2> HIDE DEF v, e
  <2>5. e \in Entry
    <3>1. ASSUME NEW kind \in Kinds, NEW record \in BOOLEAN, NEW ran \in BOOLEAN,
                 NEW ts, NEW js, NEW how, Goes(kind, record, ran, ts, js, how)
          PROVE  e \in Entry
      BY <3>1 DEF Entry
    <3>2. {"cut"} \cup Retried \subseteq Kinds /\ {"unknown", "crash", "sound"} \subseteq Kinds
      BY DEF Kinds, Retried
    <3> HIDE DEF Goes
    <3> QED BY <2>4, <3>1, <3>2
  <2>6. CountersOK'
    <3>1. trail' \in Seq(Entry)
      BY <2>1, <2>3, <2>5
    <3> QED BY <2>1, <2>4, <3>1, MaxStrikesAssumption DEF CountersOK
  <2>7. RunsInv'
    <3> SUFFICES ASSUME ending' = "none"
                 PROVE  /\ IsRun(toolStrikes, UnknownReplies)'
                        /\ \E r \in 0 .. jsonStrikes' : IsRun(r, Unrecorded)'
      BY DEF RunsInv
    <3>1. PICK r \in 0 .. jsonStrikes : IsRun(r, Unrecorded)
      BY <2>2
    <3>2. CASE Goes("unknown", TRUE, FALSE, toolStrikes + 1, jsonStrikes, "none")
      <4>1. PICK t : t = toolStrikes /\ IsRun(t, UnknownReplies)
        BY <2>2
      <4>2. IsRun(t + 1, UnknownReplies)' /\ IsRun(0, Unrecorded)'
        BY <2>1, <2>3, <2>5, <3>2, <4>1, RunGrows
      <4> QED BY <2>1, <3>2, <4>1, <4>2
    <3>3. CASE \E kind \in Retried : Goes(kind, FALSE, FALSE, 0, jsonStrikes + 1, "none")
      <4>1. IsRun(0, UnknownReplies)' /\ IsRun(r + 1, Unrecorded)'
        BY <2>1, <2>3, <2>5, <3>1, <3>3, RunGrows DEF Retried
      <4> QED BY <2>1, <3>1, <3>3, <4>1
    <3>4. CASE \E kind \in Retried \cup {"sound"}, ran \in BOOLEAN :
                 Goes(kind, TRUE, ran, 0, 0, "none")
      <4>1. IsRun(0, UnknownReplies)' /\ IsRun(0, Unrecorded)'
        BY <2>1, <2>3, <2>5, <3>4, RunGrows DEF Retried
      <4> QED BY <3>4, <4>1
    <3>5. "refused" # "none" /\ "raised" # "none"
      OBVIOUS
    <3>6. "sound" \in Retried \cup {"sound"} /\ TRUE \in BOOLEAN /\ FALSE \in BOOLEAN
      OBVIOUS
    <3>7. \A kind \in Retried : kind \in Retried \cup {"sound"}
      OBVIOUS
    <3> QED BY <2>4, <3>2, <3>3, <3>4, <3>5, <3>6, <3>7, Zenon
  <2>8. CutCallsNeverRun'
    <3>1. \A i \in 1 .. Len(trail) :
            /\ trail[i].kind # "cut"
            /\ trail[i].kind = "cutnested" => ~trail[i].ran
      BY <2>1, <2>2 DEF IInv, CutCallsNeverRun
    <3>2. /\ e.kind \in {"cut", "cutnested"} => ~e.ran
          /\ e.kind = "cut" => ending' = "refused"
      BY <2>4 DEF Retried
    <3>3. \A i \in DOMAIN trail' : i = Len(trail') \/ i \in 1 .. Len(trail)
      BY <2>1, <2>3
    <3>4. /\ trail'[Len(trail')] = e
          /\ \A i \in 1 .. Len(trail) : trail'[i] = trail[i]
      BY <2>1, <2>3
    <3> QED BY <3>1, <3>2, <3>3, <3>4 DEF CutCallsNeverRun
  <2> QED BY <2>6, <2>7, <2>8 DEF IInv
<1> QED BY <1>1, <1>2 DEF Next

LEMMA StrikesInvariant == Spec => []IInv
BY StrikesInit, StrikesStep, PTL DEF Spec

\* Strikes are consecutive replies of unknown tools, whatever comes between.
THEOREM Consecutive == Spec => []StrikesAreConsecutive
<1>1. IInv => StrikesAreConsecutive
  <2> SUFFICES ASSUME IInv, ending = "none"
               PROVE  toolStrikes = LastRun(LAMBDA entry : entry.kind = "unknown")
    BY DEF StrikesAreConsecutive
  <2> QED BY UnknownRun DEF IInv, CountersOK, RunsInv
<1> QED BY <1>1, StrikesInvariant, PTL

\* A turn that goes on has not sent the same request MaxStrikes times in a row.
THEOREM RepeatsBounded == Spec => []RepeatsAreBounded
<1>1. IInv => RepeatsAreBounded
  <2> SUFFICES ASSUME IInv, ending = "none"
               PROVE  LastRun(LAMBDA entry : ~entry.record) < MaxStrikes
    BY DEF RepeatsAreBounded
  <2>1. PICK r \in 0 .. jsonStrikes : IsRun(r, Unrecorded)
    BY DEF IInv, RunsInv
  <2>2. LastRun(LAMBDA entry : ~entry.record) = r
    BY <2>1, UnrecordedRun DEF IInv, CountersOK
  <2> QED BY <2>1, <2>2, MaxStrikesAssumption DEF IInv, CountersOK
<1> QED BY <1>1, StrikesInvariant, PTL

\* A batch in which a known tool's arguments were cut off never runs, and ends the turn if
\* the last character of one of them shows the cut.
THEOREM CutNeverRun == Spec => []CutCallsNeverRun
<1>1. IInv => CutCallsNeverRun
  BY DEF IInv
<1> QED BY <1>1, StrikesInvariant, PTL

\* What validation lets through, without its unknown calls, is what the executor assumes of
\* a batch: there is a call, and its arguments are ones that json.loads accepts.
THEOREM SoundBatches ==
  ASSUME NEW calls, \A k \in DOMAIN calls : calls[k].args \in ArgumentKinds,
         NEW tools, NEW jsons,
         Validate(calls, tools, jsons).action = "ok"
  PROVE  /\ \E k \in DOMAIN calls : Known(calls[k])
         /\ \A k \in DOMAIN calls :
              Known(calls[k]) => calls[k].args \in ValidJson
<1>1. UnknownVerdict(tools, jsons).action # "ok"
  BY DEF UnknownVerdict, Verdict
<1>2. BadJsonVerdict(calls, jsons).action # "ok"
  BY DEF BadJsonVerdict, Verdict
<1>3. Verdict("raise", FALSE, tools, jsons).action = "raise"
  BY DEF Verdict
<1>4. ~AllUnknown(calls)
  BY <1>1 DEF Validate
<1>5. ~\E k \in DOMAIN calls : calls[k].args = "crash"
  BY <1>3, <1>4 DEF Validate
<1>6. BadJson(calls) = {}
  BY <1>2, <1>4, <1>5 DEF Validate
<1>7. \E k \in DOMAIN calls : Known(calls[k])
  BY <1>4 DEF AllUnknown, Unknown
<1> QED BY <1>5, <1>6, <1>7 DEF BadJson, NoJson, ArgumentKinds, ValidJson
=============================================================================
