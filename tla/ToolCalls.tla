------------------------------ MODULE ToolCalls ------------------------------
(***************************************************************************)
(* What the loop tells apart in a tool call, and the answers a call may    *)
(* get from the executor.                                                  *)
(***************************************************************************)
EXTENDS Naturals, Sequences

CONSTANTS
  KnownTools,    \* names offered to the model (valid_tool_names)
  ParallelTools  \* _PARALLEL_SAFE_TOOLS

\* What a call's arguments are, and how their text ends, which is all the loop goes by:
\*   object     a JSON object; empty arguments are normalized to "{}"
\*   nonfinite  an object to json.loads that holds NaN or Infinity, which the
\*              executor does not accept
\*   array      a JSON array
\*   scalar     any other JSON value, which ends in neither "}" nor "]"
\*   malformed  written whole, no JSON, ends in "}" or "]"
\*   stray      written whole, no JSON, ends in neither
\*   cut        cut off by the provider, ends in neither
\*   cutnested  cut off just after a nested "}" or "]"
\*   crash      makes json.loads raise something else than JSONDecodeError
\*              (nesting too deep, an integer of too many digits)
ArgumentKinds ==
  {"object", "nonfinite", "array", "scalar", "malformed", "stray", "cut", "cutnested", "crash"}

\* Those json.loads takes, so that validation lets the call pass.
ValidJson == {"object", "nonfinite", "array", "scalar"}

\* The row a call ends up with: what its handler returned, an error written
\* without running it, or the cancellation text.
Answers == {"result", "error", "skipped"}

Known(call) == call.name \in KnownTools

\* Calls a handler is started for, unless a stop comes first.
Runnable(call) == Known(call) /\ call.args = "object"

\* A call is skipped once a stop was seen; a worker of a parallel segment that
\* raises leaves the same answer without one.
MayAnswer(call, stopSeen) ==
  (IF Runnable(call) THEN {"result"} ELSE {"error"})
    \cup (IF Known(call) /\ (stopSeen \/ call.name \in ParallelTools) THEN {"skipped"} ELSE {})
=============================================================================
