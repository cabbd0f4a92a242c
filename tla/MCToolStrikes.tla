---------------------------- MODULE MCToolStrikes ----------------------------
(***************************************************************************)
(* Every batch of one or two calls over two known tools and an unknown one *)
(* with every kind of arguments.                                           *)
(***************************************************************************)
EXTENDS ToolStrikes

MCKnownTools == {"web_search", "lookup"}
MCParallelTools == {"web_search"}

MCCalls == [name : MCKnownTools \cup {"ghost"}, args : ArgumentKinds]
MCBatches == {<<c>> : c \in MCCalls} \cup (MCCalls \X MCCalls)
=============================================================================
