--------------------------- MODULE MCToolExecutor ---------------------------
(***************************************************************************)
(* Every batch of up to four calls over a parallel tool and a sequential   *)
(* one, with each kind of arguments the executor tells apart.              *)
(***************************************************************************)
EXTENDS ToolExecutor

MCKnownTools == {"web_search", "lookup"}
MCParallelTools == {"web_search"}

MCCalls == {
  [name |-> "web_search", args |-> "object"],
  [name |-> "web_search", args |-> "nonfinite"],
  [name |-> "lookup", args |-> "object"],
  [name |-> "lookup", args |-> "scalar"]}

MCBatches == UNION {[1 .. k -> MCCalls] : k \in 1 .. 4}
=============================================================================
