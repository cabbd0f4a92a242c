-------------------------- MODULE MCConversationTurn --------------------------
(***************************************************************************)
(* Instances of ConversationTurn: two tools, one of which may run in       *)
(* parallel, and a reply of each kind the loop tells apart.                *)
(***************************************************************************)
EXTENDS ConversationTurn

MCKnownTools == {"web_search", "lookup"}
MCParallelTools == {"web_search"}
MCCallIds == {"a", "b", "c"}

Call(id, name, args) == [id |-> id, name |-> name, args |-> args]
Says(finish, text, calls) == [finish |-> finish, text |-> text, calls |-> calls]
Asks(calls) == Says("other", FALSE, calls)

\* Replies that end the turn.
LastWords == {
  Says("other", TRUE, <<>>),
  Says("length", TRUE, <<>>),
  Says("length", FALSE, <<Call("a", "lookup", "object")>>),
  Says("content_filter", FALSE, <<>>)}

\* Batches that run, whole or in part.
Rounds == {
  Asks(<<Call("a", "web_search", "scalar")>>),
  Asks(<<Call("a", "lookup", "object"), Call("b", "ghost", "cut"),
         Call("c", "web_search", "object")>>)}

\* Batches that do not.
Degenerate == {
  Asks(<<Call("a", "ghost", "object")>>),
  Asks(<<Call("a", "lookup", "cutnested"), Call("b", "web_search", "object")>>),
  Asks(<<Call("a", "lookup", "malformed"), Call("b", "lookup", "scalar")>>),
  Asks(<<Call("a", "lookup", "crash")>>)}

MCReplies == LastWords \cup Rounds \cup Degenerate
===============================================================================
