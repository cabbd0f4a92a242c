----------------------------- MODULE ToolStrikes -----------------------------
(***************************************************************************)
(* The strikes of validate_tool_calls over the replies of one turn: which  *)
(* degenerate replies are tolerated, and for how long.                     *)
(***************************************************************************)
EXTENDS ToolValidation, SequencesExt

CONSTANTS
  Batches,    \* the calls a reply may carry
  MaxReplies  \* replies of the turn: settings.max_iterations

ASSUME MaxRepliesAssumption == MaxReplies \in Nat

VARIABLES
  toolStrikes,  \* invalid_tool_retries
  jsonStrikes,  \* invalid_json_retries
  ending,       \* "none" while the turn goes on, else how it ended
  trail         \* history variable: per reply its kind, whether it left a record and ran

vars == <<toolStrikes, jsonStrikes, ending, trail>>

Has(calls, kinds) == \E k \in DOMAIN calls : Known(calls[k]) /\ calls[k].args \in kinds

\* What is wrong with a batch, if anything.  A batch in which a known tool's arguments were
\* cut off is of kind "cut" if one of them shows it and "cutnested" if none does.
KindOf(calls) ==
  CASE AllUnknown(calls) -> "unknown"
    [] ~AllUnknown(calls) /\ (\E k \in DOMAIN calls : calls[k].args = "crash") -> "crash"
    [] OTHER ->
         IF Has(calls, {"cut"}) THEN "cut"
         ELSE IF Has(calls, {"cutnested"}) THEN "cutnested"
         ELSE IF Has(calls, {"malformed", "stray"}) THEN "malformed" ELSE "sound"

Init ==
  /\ toolStrikes = 0
  /\ jsonStrikes = 0
  /\ ending = "none"
  /\ trail = <<>>

\* The loop takes a reply with tool calls: run_tool_round validates it and, when
\* sound, records and runs it; the turn then asks the model again or ends.
TakeReply(calls) ==
  LET verdict == Validate(calls, toolStrikes, jsonStrikes) IN
  /\ ending = "none"
  /\ Len(trail) < MaxReplies
  /\ toolStrikes' = verdict.toolStrikes
  /\ jsonStrikes' = verdict.jsonStrikes
  /\ ending' = CASE verdict.action = "return" -> "refused"
                 [] verdict.action = "raise" -> "raised"
                 [] OTHER -> "none"
  /\ trail' = Append(trail, [kind |-> KindOf(calls),
                             record |-> verdict.record \/ verdict.action = "ok",
                             ran |-> verdict.action = "ok"])

Next == \E calls \in Batches : TakeReply(calls)

Spec == Init /\ [][Next]_vars
-----------------------------------------------------------------------------
\* Properties.

\* How many of the last replies satisfy the test, counted back from the newest.
LastRun(Test(_)) ==
  Max({n \in 0 .. Len(trail) :
         \A i \in Len(trail) - n + 1 .. Len(trail) : Test(trail[i])})

\* "Consecutive all-invalid tool batches": a strike is one such reply, and any other
\* reply, even one that runs nothing, wipes the strikes out.
StrikesAreConsecutive ==
  ending = "none" => toolStrikes = LastRun(LAMBDA entry : entry.kind = "unknown")

\* A turn never sends the same request more than MaxStrikes times in a row, however
\* the two kinds of degenerate replies alternate.
RepeatsAreBounded == LastRun(LAMBDA entry : ~entry.record) < MaxStrikes \/ ending # "none"

\* No batch in which a known tool's arguments were cut off ever runs, whatever else it
\* holds; and one whose last character shows the cut is not retried either but ends the
\* turn.  A cut after a nested bracket does not show: the code retries it like malformed
\* arguments, against the docstring of validate_tool_calls.
CutCallsNeverRun ==
  \A i \in DOMAIN trail :
    /\ trail[i].kind \in {"cut", "cutnested"} => ~trail[i].ran
    /\ trail[i].kind = "cut" => i = Len(trail) /\ ending = "refused"
=============================================================================
