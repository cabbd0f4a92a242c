--------------------------- MODULE ToolValidation ---------------------------
(***************************************************************************)
(* validate_tool_calls: what is decided about a reply's tool calls before  *)
(* any of them runs (turn_tool_validation.py).                             *)
(***************************************************************************)
EXTENDS ToolCalls

CONSTANT MaxStrikes  \* MAX_INVALID_TOOL_RETRIES = MAX_INVALID_JSON_RETRIES = 3

ASSUME MaxStrikesAssumption == MaxStrikes \in Nat \ {0}

Unknown(calls) == {k \in DOMAIN calls : ~Known(calls[k])}

AllUnknown(calls) == Unknown(calls) = DOMAIN calls

\* Arguments json.loads refuses, whatever made them so.
NoJson == {"malformed", "stray", "cut", "cutnested"}

\* Mutant of BadJson: an unknown call excuses the arguments of the whole batch.
BadJsonUnlessMixed(calls) ==
  IF Unknown(calls) # {} THEN {} ELSE {k \in DOMAIN calls : calls[k].args \in NoJson}

\* invalid_json_args: an unknown call of a mixed batch never executes, so its
\* arguments do not count.
BadJson(calls) == {k \in DOMAIN calls : Known(calls[k]) /\ calls[k].args \in NoJson}

\* invalid_names: the tools, not the calls, with invalid arguments.
BadNames(calls) == {calls[k].name : k \in BadJson(calls)}

\* Arguments that end in neither "}" nor "]".
LooksCut(call) == call.args \in {"scalar", "stray", "cut"}

\* truncated: a guess from the last character, made of every call of such a tool,
\* including one whose own arguments are valid.
Truncated(calls) == \E k \in DOMAIN calls : calls[k].name \in BadNames(calls) /\ LooksCut(calls[k])

Verdict(action, record, toolStrikes, jsonStrikes) ==
  [action |-> action,            \* "ok", "continue", "return", or "raise" when json.loads does
   record |-> record,            \* whether the batch and its error answers are recorded
   toolStrikes |-> toolStrikes,  \* invalid_tool_retries
   jsonStrikes |-> jsonStrikes]  \* invalid_json_retries

UnknownVerdict(toolStrikes, jsonStrikes) ==
  IF toolStrikes + 1 >= MaxStrikes
  THEN Verdict("return", FALSE, 0, jsonStrikes)
  ELSE Verdict("continue", TRUE, toolStrikes + 1, jsonStrikes)

\* Mutant of BadJsonVerdict: nothing is recorded with the last strike.
BadJsonVerdictSilent(calls, jsonStrikes) ==
  IF Truncated(calls) THEN Verdict("return", FALSE, 0, 0)
  ELSE Verdict("continue", FALSE, 0, (jsonStrikes + 1) % MaxStrikes)

BadJsonVerdict(calls, jsonStrikes) ==
  IF Truncated(calls) THEN Verdict("return", FALSE, 0, 0)
  ELSE IF jsonStrikes + 1 < MaxStrikes THEN Verdict("continue", FALSE, 0, jsonStrikes + 1)
  ELSE Verdict("continue", TRUE, 0, 0)

\* Mutant of Validate: a sound batch does not wipe the strikes out.
ValidateNoReset(calls, toolStrikes, jsonStrikes) ==
  CASE AllUnknown(calls) -> UnknownVerdict(toolStrikes, jsonStrikes)
    [] ~AllUnknown(calls) /\ BadJson(calls) # {} -> BadJsonVerdict(calls, jsonStrikes)
    [] OTHER -> Verdict("ok", FALSE, toolStrikes, jsonStrikes)

\* An exception leaves the counters of the loop as they were.
Validate(calls, toolStrikes, jsonStrikes) ==
  CASE AllUnknown(calls) -> UnknownVerdict(toolStrikes, jsonStrikes)
    [] ~AllUnknown(calls) /\ (\E k \in DOMAIN calls : calls[k].args = "crash") ->
         Verdict("raise", FALSE, toolStrikes, jsonStrikes)
    [] OTHER ->
         IF BadJson(calls) # {} THEN BadJsonVerdict(calls, jsonStrikes)
         ELSE Verdict("ok", FALSE, 0, 0)
=============================================================================
