--------------------------- MODULE MCStreamedReply ---------------------------
(***************************************************************************)
(* Replies of up to three calls, of text alone, and of text and calls.     *)
(***************************************************************************)
EXTENDS StreamedReply

MCPlans ==
  {[text |-> 2, pieces |-> <<>>],
   [text |-> 1, pieces |-> <<2, 1>>],
   [text |-> 2, pieces |-> <<1>>],
   [text |-> 0, pieces |-> <<1, 0, 1>>],
   [text |-> 0, pieces |-> <<0, 2>>]}

MCTwoCalls == {[text |-> 1, pieces |-> <<1, 1>>]}
=============================================================================
