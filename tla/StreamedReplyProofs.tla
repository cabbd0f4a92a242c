------------------------- MODULE StreamedReplyProofs -------------------------
(***************************************************************************)
(* The accumulator for every reply an endpoint may mean to send, however   *)
(* many calls and pieces it has: nothing is misfiled, and what is returned *)
(* as an answer is one.                                                    *)
(***************************************************************************)
EXTENDS StreamedReply, FunctionTheorems, FiniteSetTheorems, SequenceTheorems, TLAPS

Entry == [id : Nat, name : Nat, pieces : Seq(Nat \X Nat)]

TypeOK ==
  /\ phase \in {"idle", "asking", "streaming"}
  /\ streams \in Nat /\ strict \in BOOLEAN /\ unsupported \in BOOLEAN
  /\ plan \in Plans /\ numbering \in {"own", "shared"}
  /\ sent \in [PlanCalls -> Nat] /\ begun \subseteq PlanCalls
  /\ content \in Nat /\ shown \in Seq(Nat)
  /\ finish \in {"none", "stop", "length", "content_filter"} /\ usage \in BOOLEAN
  /\ result.kind \in {"none", "error", "response"}

\* No more is sent of a call than there is.
SentInv ==
  \A k \in PlanCalls : sent[k] <= plan.pieces[k] /\ (k \notin begun => sent[k] = 0)

\* The k-th call is filed in slot k - 1, and its fields and its pieces with it.
SlotsInv ==
  /\ DOMAIN slots = {k - 1 : k \in begun}
  /\ \A k \in begun :
       /\ slots[k - 1].pieces = Pieces(k)
       /\ slots[k - 1].id \in {0, k} /\ slots[k - 1].name \in {0, k}

\* What leads the next chunk to its slot.  An index of its own always means the same call;
\* a shared one means the last call begun.
RouteInv ==
  /\ numbering = "own" =>
       /\ \A i \in DOMAIN active : active[i] = i
       /\ \A i \in DOMAIN lastId : lastId[i] = i + 1
  /\ numbering = "shared" =>
       \E n \in Nat :
         /\ begun = 1 .. n
         /\ DOMAIN active = (IF n = 0 THEN {} ELSE {0}) /\ DOMAIN lastId = DOMAIN active
         /\ n > 0 => active[0] = n - 1 /\ lastId[0] = n

\* Exactly the calls whose names have come were announced.
AnnouncedInv ==
  /\ announced \in Seq(Nat)
  /\ IsInjective(announced)
  /\ ToSet(announced) = {slots[s].name : s \in DOMAIN slots} \ {0}

\* The text is shown up to the first call.
ShownInv ==
  /\ \A i \in DOMAIN shown : shown[i] = i
  /\ Len(shown) <= content
  /\ DOMAIN slots = {} => Len(shown) = content

\* What proves that the reply was complete.
EndInv ==
  /\ finish = "stop" => AllSent
  /\ finish = "none" /\ usage => AllSent

\* A response is the result of a stream that has ended.
ResultInv ==
  /\ result.kind = "response" => phase = "idle"
  /\ AnswersAreWhole

IInv ==
  /\ TypeOK /\ SentInv /\ SlotsInv /\ RouteInv /\ AnnouncedInv
  /\ ShownInv /\ EndInv /\ ResultInv
-----------------------------------------------------------------------------
\* The operators.

\* A plan has its calls in a row, each of a number of pieces.
LEMMA PlanTypes ==
  ASSUME plan \in Plans
  PROVE  /\ plan.text \in Nat /\ plan.pieces \in Seq(Nat) /\ Len(plan.pieces) \in Nat
         /\ PlanCalls = 1 .. Len(plan.pieces) /\ DOMAIN plan.pieces = PlanCalls
         /\ \A k \in PlanCalls : k \in Nat \ {0} /\ plan.pieces[k] \in Nat
BY PlansAssumption DEF PlanCalls

\* The first n pieces of the k-th call's arguments.
Upto(k, n) == [p \in 1 .. n |-> <<k, p>>]

\* What came of a call is a beginning of its arguments.
LEMMA PiecesAreUpto ==
  \A k : Pieces(k) = Upto(k, sent[k]) /\ Whole(k) = Upto(k, plan.pieces[k])
BY DEF Pieces, Whole, Upto

LEMMA UptoType ==
  ASSUME NEW k \in Nat, NEW n \in Nat
  PROVE  /\ Upto(k, n) \in Seq(Nat \X Nat) /\ Len(Upto(k, n)) = n
         /\ \A p \in 1 .. n : Upto(k, n)[p] = <<k, p>>
         /\ Upto(k, n) = <<>> <=> n = 0
<1>1. /\ Upto(k, n) \in Seq(Nat \X Nat) /\ Len(Upto(k, n)) = n
      /\ \A p \in 1 .. n : Upto(k, n)[p] = <<k, p>>
  BY DEF Upto
<1> QED BY <1>1

\* The next piece makes it longer.
LEMMA UptoGrows ==
  ASSUME NEW k \in Nat, NEW n \in Nat
  PROVE  Upto(k, n) \o <<<<k, n + 1>>>> = Upto(k, n + 1)
<1> DEFINE u == Upto(k, n) \o <<<<k, n + 1>>>>
<1>0. /\ Upto(k, n) \in Seq(Nat \X Nat) /\ Len(Upto(k, n)) = n
      /\ \A p \in 1 .. n : Upto(k, n)[p] = <<k, p>>
  BY UptoType, Zenon
<1>1. /\ u \in Seq(Nat \X Nat) /\ Len(u) = n + 1 /\ u[n + 1] = <<k, n + 1>>
      /\ \A p \in 1 .. n : u[p] = <<k, p>>
  BY <1>0
<1>2. /\ Upto(k, n + 1) \in Seq(Nat \X Nat) /\ Len(Upto(k, n + 1)) = n + 1
      /\ \A p \in 1 .. n + 1 : Upto(k, n + 1)[p] = <<k, p>>
  <2>1. n + 1 \in Nat
    OBVIOUS
  <2> QED BY <2>1, UptoType, Zenon
<1> HIDE DEF u
<1>3. \A p \in 1 .. n + 1 : p \in 1 .. n \/ p = n + 1
  OBVIOUS
<1>4. \A p \in 1 .. Len(u) : u[p] = Upto(k, n + 1)[p]
  BY <1>1, <1>2, <1>3
<1>5. u = Upto(k, n + 1)
  BY <1>1, <1>2, <1>4, SeqEqual
<1> QED BY <1>5 DEF u
-----------------------------------------------------------------------------
\* A chunk of a call.

\* What the endpoint may send of the k-th call.
DeltaOf(k, d) ==
  /\ d.index = (IF numbering = "own" THEN k - 1 ELSE 0)
  /\ d.id \in {0, k} /\ d.name \in {0, k}
  /\ numbering = "shared" /\ k \notin begun => d.id = k
  /\ d.piece \in {<<>>, <<<<k, sent[k] + 1>>>>}

\* A call is filed in its own slot, whichever way the endpoint numbers its calls.
LEMMA OwnSlot ==
  ASSUME IInv, NEW k \in PlanCalls, IsTurnOf(k), NEW d, DeltaOf(k, d)
  PROVE  ChosenSlot(d) = k - 1
<1>1. k \in Nat \ {0}
  BY PlanTypes DEF IInv, TypeOK
<1>2. CASE numbering = "own"
  <2>1. SlotOf(d) = k - 1
    BY <1>2 DEF IInv, RouteInv, SlotOf, DeltaOf
  <2>2. ~IsRedirected(d)
    BY <1>1, <1>2 DEF IInv, RouteInv, IsRedirected, DeltaOf
  <2> QED BY <2>1, <2>2 DEF ChosenSlot
<1>3. CASE numbering = "shared"
  <2>1. PICK n \in Nat :
          /\ begun = 1 .. n
          /\ DOMAIN active = (IF n = 0 THEN {} ELSE {0}) /\ DOMAIN lastId = DOMAIN active
          /\ n > 0 => active[0] = n - 1 /\ lastId[0] = n
    BY <1>3 DEF IInv, RouteInv
  <2>2. d.index = 0
    BY <1>3 DEF DeltaOf
  <2>3. CASE k \in begun
    <3>1. n = k
      BY <1>1, <1>3, <2>1, <2>3 DEF IsTurnOf
    <3> QED BY <1>1, <2>1, <2>2, <3>1 DEF DeltaOf, ChosenSlot, IsRedirected, SlotOf
  <2>4. CASE k \notin begun
    <3>1. n = k - 1
      <4>1. \A j \in 1 .. k - 1 : j \in 1 .. n
        BY <1>3, <2>1 DEF IsTurnOf
      <4>2. k > n
        BY <1>1, <2>1, <2>4
      <4>3. k - 1 > 0 => k - 1 \in 1 .. n
        BY <1>1, <4>1
      <4> QED BY <1>1, <4>2, <4>3
    <3>2. d.id = k /\ k # 0
      BY <1>1, <1>3, <2>4 DEF DeltaOf
    <3>3. CASE n = 0
      BY <1>1, <2>1, <2>2, <3>1, <3>3 DEF ChosenSlot, IsRedirected, SlotOf
    <3>4. CASE n > 0
      <4>1. IsRedirected(d)
        BY <1>1, <2>1, <2>2, <3>1, <3>2, <3>4 DEF IsRedirected
      <4>2. DOMAIN slots = {j - 1 : j \in 1 .. n}
        BY <2>1 DEF IInv, SlotsInv
      <4>3. \A x \in DOMAIN slots \cup {-1} : x \in Int /\ n - 1 >= x
        BY <3>4, <4>2
      <4>4. n - 1 \in DOMAIN slots \cup {-1}
        BY <3>4, <4>2
      <4>5. Max(DOMAIN slots \cup {-1}) = n - 1
        BY <4>3, <4>4 DEF Max
      <4> QED BY <1>1, <3>1, <4>1, <4>5 DEF ChosenSlot
    <3> QED BY <3>3, <3>4
  <2> QED BY <2>3, <2>4
<1> QED BY <1>2, <1>3 DEF IInv, TypeOK

\* The entry a delta is merged into is the call's own, or a new one.
LEMMA OwnEntry ==
  ASSUME IInv, NEW k \in PlanCalls
  PROVE  /\ k \in begun <=> k - 1 \in DOMAIN slots
         /\ EntryAt(k - 1).pieces = Pieces(k)
         /\ EntryAt(k - 1).id \in {0, k} /\ EntryAt(k - 1).name \in {0, k}
         /\ k - 1 \in DOMAIN slots => EntryAt(k - 1) = slots[k - 1]
         /\ k - 1 \notin DOMAIN slots => EntryAt(k - 1).name = 0
<1>1. begun \subseteq Nat /\ k \in Nat
  BY PlanTypes DEF IInv, TypeOK
<1>2. k \in begun <=> k - 1 \in DOMAIN slots
  <2>1. ASSUME NEW j \in begun, k - 1 = j - 1
        PROVE  k = j
    BY <1>1, <2>1
  <2> QED BY <2>1 DEF IInv, SlotsInv
<1>3. CASE k \in begun
  BY <1>2, <1>3 DEF IInv, SlotsInv, EntryAt
<1>4. CASE k \notin begun
  <2>1. sent[k] = 0
    BY <1>4 DEF IInv, SentInv
  <2>2. Pieces(k) = <<>>
    BY <1>1, <2>1, PiecesAreUpto, UptoType
  <2> QED BY <1>2, <1>4, <2>2 DEF EntryAt, NoEntry
<1> QED BY <1>2, <1>3, <1>4

\* What a chunk of the k-th call does: its delta goes to the call's slot.
LEMMA ChunkFiled ==
  ASSUME IInv, NEW k \in PlanCalls, CallChunk(k)
  PROVE  \E d :
           /\ DeltaOf(k, d)
           /\ sent' = (IF d.piece = <<>> THEN sent ELSE [sent EXCEPT ![k] = @ + 1])
           /\ d.piece # <<>> => sent[k] < plan.pieces[k]
           /\ active' = Put(active, d.index, k - 1)
           /\ lastId' = (IF d.id = 0 THEN lastId ELSE Put(lastId, d.index, d.id))
           /\ slots' = Put(slots, k - 1, Merged(EntryAt(k - 1), d))
           /\ announced' = Announce(EntryAt(k - 1), d)
<1>1. PICK hasId \in BOOLEAN, hasName \in BOOLEAN, hasPiece \in BOOLEAN :
        /\ numbering = "shared" /\ k \notin begun => hasId
        /\ hasPiece => sent[k] < plan.pieces[k]
        /\ sent' = IF hasPiece THEN [sent EXCEPT ![k] = @ + 1] ELSE sent
        /\ Feed([index |-> IF numbering = "own" THEN k - 1 ELSE 0,
                 id |-> IF hasId THEN k ELSE 0,
                 name |-> IF hasName THEN k ELSE 0,
                 piece |-> IF hasPiece THEN <<<<k, sent[k] + 1>>>> ELSE <<>>])
  BY DEF CallChunk
<1> DEFINE d == [index |-> IF numbering = "own" THEN k - 1 ELSE 0,
                 id |-> IF hasId THEN k ELSE 0,
                 name |-> IF hasName THEN k ELSE 0,
                 piece |-> IF hasPiece THEN <<<<k, sent[k] + 1>>>> ELSE <<>>]
<1>2. DeltaOf(k, d)
  BY <1>1 DEF DeltaOf
<1>3. d.piece = <<>> <=> ~hasPiece
  OBVIOUS
<1>4. Feed(d)
  BY <1>1
<1> HIDE DEF d
<1>5. ChosenSlot(d) = k - 1
  BY <1>2, OwnSlot DEF CallChunk
<1> QED BY <1>1, <1>2, <1>3, <1>4, <1>5 DEF Feed

\* A chunk of a call keeps everything of the invariant.
LEMMA CallChunkKeeps ==
  ASSUME IInv, NEW k \in PlanCalls, CallChunk(k)
  PROVE  IInv'
<1>1. PICK d :
        /\ DeltaOf(k, d)
        /\ sent' = (IF d.piece = <<>> THEN sent ELSE [sent EXCEPT ![k] = @ + 1])
        /\ d.piece # <<>> => sent[k] < plan.pieces[k]
        /\ active' = Put(active, d.index, k - 1)
        /\ lastId' = (IF d.id = 0 THEN lastId ELSE Put(lastId, d.index, d.id))
        /\ slots' = Put(slots, k - 1, Merged(EntryAt(k - 1), d))
        /\ announced' = Announce(EntryAt(k - 1), d)
  BY ChunkFiled
<1>2. /\ TypeOK /\ SentInv /\ SlotsInv /\ RouteInv /\ AnnouncedInv /\ ShownInv
      /\ EndInv /\ ResultInv
  BY DEF IInv
<1>3. /\ phase = "streaming" /\ finish = "none" /\ ~usage /\ IsTurnOf(k)
      /\ begun' = begun \cup {k}
      /\ UNCHANGED <<phase, clientVars, planVars, textVars, endVars, result>>
  BY DEF CallChunk, Open
<1>4. /\ UNCHANGED <<phase, streams, strict, unsupported, plan, numbering, content, shown,
                     finish, usage, result>>
      /\ PlanCalls' = PlanCalls
  BY <1>3 DEF clientVars, planVars, textVars, endVars, PlanCalls
<1>5. /\ k \in Nat \ {0} /\ sent[k] \in Nat /\ plan.pieces[k] \in Nat
      /\ begun \subseteq Nat \ {0} /\ sent \in [PlanCalls -> Nat]
  BY <1>2, PlanTypes DEF TypeOK
<1>6. /\ \A j \in PlanCalls : j # k => sent'[j] = sent[j]
      /\ sent'[k] = IF d.piece = <<>> THEN sent[k] ELSE sent[k] + 1
      /\ sent' \in [PlanCalls -> Nat]
  BY <1>1, <1>5
<1> DEFINE entry == EntryAt(k - 1)
           merged == Merged(entry, d)
<1>7. /\ DOMAIN slots' = DOMAIN slots \cup {k - 1}
      /\ slots'[k - 1] = merged
      /\ \A s \in DOMAIN slots : s # k - 1 => slots'[s] = slots[s]
  BY <1>1 DEF Put
<1>8. /\ merged.id \in {0, k} /\ merged.name \in {0, k} /\ merged.pieces = Pieces(k)'
      /\ merged.name = IF d.name # 0 THEN d.name ELSE entry.name
  <2>1. entry.pieces = Pieces(k) /\ entry.id \in {0, k} /\ entry.name \in {0, k}
    BY OwnEntry
  <2>2. /\ merged.id = IF d.id # 0 THEN d.id ELSE entry.id
        /\ merged.name = IF d.name # 0 THEN d.name ELSE entry.name
        /\ merged.pieces = entry.pieces \o d.piece
    BY DEF Merged
  <2>3. Pieces(k)' = Upto(k, sent'[k]) /\ Pieces(k) = Upto(k, sent[k])
    BY DEF Pieces, Upto
  <2>4. entry.pieces \in Seq(Nat \X Nat)
    <3>1. k \in Nat /\ sent[k] \in Nat
      BY <1>5
    <3>2. Upto(k, sent[k]) \in Seq(Nat \X Nat)
      BY <3>1, UptoType, Zenon
    <3> QED BY <2>1, <2>3, <3>2
  <2> HIDE DEF entry, merged
  <2>6. CASE d.piece = <<>>
    <3>1. entry.pieces \o d.piece = entry.pieces
      BY <2>4, <2>6
    <3> QED BY <1>1, <1>6, <2>1, <2>2, <2>3, <2>6, <3>1 DEF DeltaOf
  <2>7. CASE d.piece = <<<<k, sent[k] + 1>>>> /\ d.piece # <<>>
    <3>1. entry.pieces \o d.piece = Upto(k, sent[k] + 1)
      BY <1>5, <2>1, <2>3, <2>7, UptoGrows
    <3> QED BY <1>1, <1>6, <2>1, <2>2, <2>3, <2>7, <3>1 DEF DeltaOf
  <2> QED BY <1>1, <2>6, <2>7 DEF DeltaOf
<1>9. entry.name \in {0, k} /\ (k - 1 \in DOMAIN slots => entry = slots[k - 1])
      /\ (k - 1 \notin DOMAIN slots => entry.name = 0) /\ (k \in begun <=> k - 1 \in DOMAIN slots)
  BY OwnEntry
<1> HIDE DEF entry, merged
<1>10. TypeOK'
  BY <1>2, <1>3, <1>4, <1>6 DEF TypeOK
<1>11. SentInv'
  <2> SUFFICES ASSUME NEW j \in PlanCalls
               PROVE  sent'[j] <= plan.pieces[j] /\ (j \notin begun' => sent'[j] = 0)
    BY <1>4 DEF SentInv
  <2>1. CASE j = k
    BY <1>1, <1>2, <1>3, <1>5, <1>6, <2>1 DEF SentInv
  <2>2. CASE j # k
    BY <1>2, <1>3, <1>6, <2>2 DEF SentInv
  <2> QED BY <2>1, <2>2
<1>12. SlotsInv'
  <2>1. DOMAIN slots' = {j - 1 : j \in begun'}
    BY <1>2, <1>3, <1>7 DEF SlotsInv
  <2>2. ASSUME NEW j \in begun'
        PROVE  /\ slots'[j - 1].pieces = Pieces(j)'
               /\ slots'[j - 1].id \in {0, j} /\ slots'[j - 1].name \in {0, j}
    <3>1. CASE j = k
      BY <1>7, <1>8, <3>1
    <3>2. CASE j # k
      <4>1. j \in begun /\ j - 1 \in DOMAIN slots /\ j - 1 # k - 1 /\ j \in PlanCalls
        BY <1>2, <1>3, <1>5, <3>2 DEF SlotsInv, TypeOK
      <4>2. Pieces(j)' = Pieces(j)
        BY <1>6, <3>2, <4>1 DEF Pieces
      <4> QED BY <1>2, <1>7, <4>1, <4>2 DEF SlotsInv
    <3> QED BY <3>1, <3>2
  <2> QED BY <2>1, <2>2 DEF SlotsInv
<1>13. RouteInv'
  <2>1. ASSUME numbering = "own"
        PROVE  /\ \A i \in DOMAIN active' : active'[i] = i
               /\ \A i \in DOMAIN lastId' : lastId'[i] = i + 1
    <3>1. d.index = k - 1 /\ d.id \in {0, k}
      BY <1>1, <2>1 DEF DeltaOf
    <3>2. \A i \in DOMAIN active' : active'[i] = i
      BY <1>1, <1>2, <2>1, <3>1 DEF RouteInv, Put
    <3>3. \A i \in DOMAIN lastId' : lastId'[i] = i + 1
      BY <1>1, <1>2, <1>5, <2>1, <3>1 DEF RouteInv, Put
    <3> QED BY <3>2, <3>3
  <2>2. ASSUME numbering = "shared"
        PROVE  \E n \in Nat :
                 /\ begun' = 1 .. n
                 /\ DOMAIN active' = (IF n = 0 THEN {} ELSE {0}) /\ DOMAIN lastId' = DOMAIN active'
                 /\ n > 0 => active'[0] = n - 1 /\ lastId'[0] = n
    <3>1. PICK n \in Nat :
            /\ begun = 1 .. n
            /\ DOMAIN active = (IF n = 0 THEN {} ELSE {0}) /\ DOMAIN lastId = DOMAIN active
            /\ n > 0 => active[0] = n - 1 /\ lastId[0] = n
      BY <1>2, <2>2 DEF RouteInv
    <3>2. d.index = 0 /\ d.id \in {0, k} /\ (k \notin begun => d.id = k)
      BY <1>1, <2>2 DEF DeltaOf
    <3>3. begun' = 1 .. k
      <4>1. \A j \in 1 .. k - 1 : j \in begun
        BY <1>3, <2>2 DEF IsTurnOf
      <4>2. begun \subseteq 1 .. k
        BY <1>3, <2>2 DEF IsTurnOf
      <4>3. \A j \in 1 .. k : j \in 1 .. k - 1 \/ j = k
        BY <1>5
      <4>4. k \in 1 .. k
        BY <1>5
      <4>5. begun' \subseteq 1 .. k /\ 1 .. k \subseteq begun'
        BY <1>3, <4>1, <4>2, <4>3, <4>4
      <4> QED BY <4>5
    <3>4. k \in begun => n = k
      BY <1>3, <1>5, <2>2, <3>1 DEF IsTurnOf
    <3>5. DOMAIN active' = {0} /\ active'[0] = k - 1
      BY <1>1, <3>1, <3>2 DEF Put
    <3>6. DOMAIN lastId' = {0} /\ lastId'[0] = k
      <4>1. CASE d.id = 0
        BY <1>1, <1>5, <3>1, <3>2, <3>4, <4>1
      <4>2. CASE d.id = k
        BY <1>1, <1>5, <3>1, <3>2, <4>2 DEF Put
      <4> QED BY <3>2, <4>1, <4>2
    <3>7. k \in Nat /\ k # 0
      BY <1>5
    <3> QED BY <3>3, <3>5, <3>6, <3>7
  <2> QED BY <1>4, <2>1, <2>2 DEF RouteInv
<1>14. AnnouncedInv'
  <2> DEFINE names == {slots[s].name : s \in DOMAIN slots} \ {0}
  <2>1. announced \in Seq(Nat) /\ IsInjective(announced) /\ ToSet(announced) = names
    BY <1>2 DEF AnnouncedInv
  <2>2. CASE entry.name = 0 /\ d.name # 0
    <3>1. d.name = k /\ announced' = Append(announced, k)
      BY <1>1, <2>2 DEF DeltaOf, Announce, entry
    <3>2. k \notin ToSet(announced)
      <4>1. ASSUME NEW s \in DOMAIN slots, slots[s].name = k
            PROVE  FALSE
        <5>1. PICK j \in begun : s = j - 1
          BY <1>2 DEF SlotsInv
        <5>2. slots[s].name \in {0, j}
          BY <1>2, <5>1 DEF SlotsInv
        <5>3. j = k
          BY <1>5, <4>1, <5>2
        <5> QED BY <1>5, <1>9, <2>2, <4>1, <5>1, <5>3
      <4> QED BY <2>1, <4>1
    <3>3. /\ announced' \in Seq(Nat) /\ Len(announced') = Len(announced) + 1
          /\ \A i \in 1 .. Len(announced) : announced'[i] = announced[i]
          /\ announced'[Len(announced) + 1] = k
      BY <1>5, <2>1, <3>1
    <3>4. /\ DOMAIN announced = 1 .. Len(announced) /\ Len(announced) \in Nat
          /\ DOMAIN announced' = DOMAIN announced \cup {Len(announced) + 1}
      BY <2>1, <3>3
    <3>5. IsInjective(announced')
      BY <2>1, <3>2, <3>3, <3>4 DEF IsInjective, ToSet
    <3>6. ToSet(announced') = ToSet(announced) \cup {k}
      BY <3>3, <3>4 DEF ToSet
    <3>7. {slots'[s].name : s \in DOMAIN slots'} \ {0} = names \cup {k}
      <4>1. merged.name = k
        BY <1>8, <2>2, <3>1
      <4>2. k - 1 \in DOMAIN slots => slots[k - 1].name = 0
        BY <1>9, <2>2
      <4> QED BY <1>5, <1>7, <4>1, <4>2
    <3> QED BY <2>1, <3>3, <3>5, <3>6, <3>7 DEF AnnouncedInv
  <2>3. CASE ~(entry.name = 0 /\ d.name # 0)
    <3>1. announced' = announced
      BY <1>1, <2>3 DEF Announce, entry
    <3>2. merged.name = entry.name
      BY <1>1, <1>8, <1>9, <2>3 DEF DeltaOf
    <3>3. {slots'[s].name : s \in DOMAIN slots'} \ {0} = names
      BY <1>7, <1>9, <3>2
    <3> QED BY <2>1, <3>1, <3>3 DEF AnnouncedInv
  <2> QED BY <2>2, <2>3
<1>15. ShownInv'
  BY <1>2, <1>4, <1>7 DEF ShownInv
<1>16. EndInv'
  BY <1>3, <1>4 DEF EndInv
<1>17. ResultInv'
  BY <1>2, <1>3, <1>4 DEF ResultInv, AnswersAreWhole
<1> QED BY <1>10, <1>11, <1>12, <1>13, <1>14, <1>15, <1>16, <1>17 DEF IInv
-----------------------------------------------------------------------------
\* The end of a stream.

\* A fresh accumulator.
Fresh ==
  /\ plan \in Plans /\ numbering \in {"own", "shared"}
  /\ sent = [k \in PlanCalls |-> 0] /\ begun = {}
  /\ slots = <<>> /\ lastId = <<>> /\ active = <<>> /\ announced = <<>>
  /\ content = 0 /\ shown = <<>>
  /\ finish = "none" /\ usage = FALSE
  /\ result = NoResult

LEMMA FreshKeeps ==
  Fresh => /\ SentInv /\ SlotsInv /\ RouteInv /\ AnnouncedInv /\ ShownInv /\ EndInv /\ ResultInv
           /\ sent \in [PlanCalls -> Nat] /\ begun \subseteq PlanCalls
           /\ content \in Nat /\ shown \in Seq(Nat) /\ result.kind = "none"
<1> SUFFICES ASSUME Fresh
             PROVE  /\ SentInv /\ SlotsInv /\ RouteInv /\ AnnouncedInv /\ ShownInv
                    /\ EndInv /\ ResultInv
                    /\ sent \in [PlanCalls -> Nat] /\ begun \subseteq PlanCalls
                    /\ content \in Nat /\ shown \in Seq(Nat) /\ result.kind = "none"
  OBVIOUS
<1>1. SentInv
  BY PlanTypes DEF Fresh, SentInv
<1>2. SlotsInv
  BY DEF Fresh, SlotsInv
<1>3. RouteInv
  <2>1. begun = 1 .. 0 /\ DOMAIN active = {} /\ DOMAIN lastId = {}
    BY DEF Fresh
  <2> QED BY <2>1 DEF RouteInv
<1>4. AnnouncedInv
  <2>1. announced \in Seq(Nat) /\ DOMAIN announced = {} /\ DOMAIN slots = {}
    BY DEF Fresh
  <2> QED BY <2>1 DEF AnnouncedInv, IsInjective, ToSet
<1>5. ShownInv /\ EndInv
  BY DEF Fresh, ShownInv, EndInv
<1>6. ResultInv /\ result.kind = "none"
  BY DEF Fresh, NoResult, ResultInv, AnswersAreWhole
<1> QED BY <1>1, <1>2, <1>3, <1>4, <1>5, <1>6 DEF Fresh

LEMMA NextFresh ==
  Fresh' => (/\ SentInv /\ SlotsInv /\ RouteInv /\ AnnouncedInv /\ ShownInv /\ EndInv /\ ResultInv
             /\ sent \in [PlanCalls -> Nat] /\ begun \subseteq PlanCalls
             /\ content \in Nat /\ shown \in Seq(Nat) /\ result.kind = "none")'
BY FreshKeeps, PTL

\* Slots are numbers, and there are finitely many of them, as many as calls were begun.
LEMMA SlotCount ==
  ASSUME TypeOK, SlotsInv
  PROVE  /\ DOMAIN slots \subseteq Nat /\ IsFiniteSet(DOMAIN slots)
         /\ Cardinality(DOMAIN slots) = Cardinality(begun) /\ Cardinality(begun) \in Nat
<1>1. /\ begun \subseteq 1 .. Len(plan.pieces) /\ Len(plan.pieces) \in Nat
  BY PlanTypes DEF TypeOK
<1>2. IsFiniteSet(begun)
  <2>1. IsFiniteSet(1 .. Len(plan.pieces))
    BY <1>1, FS_Interval
  <2> QED BY <1>1, <2>1, FS_Subset
<1>3. DOMAIN slots \subseteq Nat
  BY <1>1 DEF SlotsInv
<1> DEFINE f == [k \in begun |-> k - 1]
<1>4. f \in Bijection(begun, DOMAIN slots)
  <2>1. f \in [begun -> DOMAIN slots]
    BY DEF SlotsInv
  <2>2. \A j, k \in begun : f[j] = f[k] => j = k
    BY <1>1
  <2>3. \A s \in DOMAIN slots : \E k \in begun : f[k] = s
    BY DEF SlotsInv
  <2> HIDE DEF f
  <2> QED BY <2>1, <2>2, <2>3, Fun_IsBij
<1>5. ExistsBijection(begun, DOMAIN slots)
  BY <1>4 DEF ExistsBijection
<1> QED BY <1>2, <1>3, <1>5, FS_Bijection, FS_CardinalityType

\* The slots below one.
Below(s) == {t \in DOMAIN slots : t < s}

\* In a finite set of numbers there is one of each rank.
LEMMA Ranked ==
  ASSUME DOMAIN slots \subseteq Nat, IsFiniteSet(DOMAIN slots),
         NEW i \in 1 .. Cardinality(DOMAIN slots)
  PROVE  \E s \in DOMAIN slots : Cardinality(Below(s)) = i - 1
<1> DEFINE S == DOMAIN slots
           n == Cardinality(S)
           T == 0 .. n - 1
           rank == [s \in S |-> Cardinality(Below(s))]
<1>1. n \in Nat
  BY FS_CardinalityType
<1>2. \A s \in S : IsFiniteSet(Below(s)) /\ Cardinality(Below(s)) \in Nat
  <2> TAKE s \in S
  <2>1. Below(s) \in SUBSET S
    BY DEF Below
  <2> QED BY <2>1, FS_Subset, FS_CardinalityType
<1>3. ASSUME NEW s \in S, NEW t \in S, s < t
      PROVE  Cardinality(Below(s)) < Cardinality(Below(t))
  <2>1. Below(s) \in SUBSET Below(t) /\ s \in Below(t) /\ s \notin Below(s)
    BY <1>3 DEF Below
  <2>2. /\ Cardinality(Below(s)) <= Cardinality(Below(t))
        /\ Cardinality(Below(s)) # Cardinality(Below(t))
    BY <1>2, <2>1, FS_Subset
  <2> QED BY <1>2, <2>2
<1>4. ASSUME NEW s \in S
      PROVE  Cardinality(Below(s)) \in T
  <2>1. Below(s) \in SUBSET S /\ s \in S /\ s \notin Below(s)
    BY DEF Below
  <2>2. Cardinality(Below(s)) <= n /\ Cardinality(Below(s)) # n
    BY <2>1, FS_Subset
  <2> HIDE DEF n, S
  <2> QED BY <1>1, <1>2, <2>2
<1>5. rank \in Injection(S, T)
  <2>1. rank \in [S -> T]
    BY <1>4
  <2>2. ASSUME NEW s \in S, NEW t \in S, rank[s] = rank[t]
        PROVE  s = t
    <3>1. Cardinality(Below(s)) = Cardinality(Below(t))
      BY <2>2
    <3>2. ~(s < t) /\ ~(t < s)
      BY <1>2, <1>3, <3>1
    <3> QED BY <3>2
  <2> HIDE DEF rank, S, T
  <2> QED BY <2>1, <2>2, Fun_IsInj
<1>6. IsFiniteSet(T) /\ Cardinality(T) = n
  <2>1. IsFiniteSet(T) /\ Cardinality(T) = IF 0 > n - 1 THEN 0 ELSE n - 1 - 0 + 1
    <3>1. 0 \in Int /\ n - 1 \in Int
      BY <1>1
    <3> HIDE DEF n
    <3> QED BY <3>1, FS_Interval
  <2> HIDE DEF n, T
  <2> QED BY <1>1, <2>1
<1>7. rank \in Surjection(S, T)
  <2> HIDE DEF rank, T
  <2> QED BY <1>5, <1>6, FS_Injection
<1>8. i - 1 \in T
  <2> HIDE DEF n
  <2> QED BY <1>1 DEF n
<1>9. \E s \in S : rank[s] = i - 1
  BY <1>7, <1>8 DEF Surjection
<1> QED BY <1>9

\* The entries are the slots in their order.
LEMMA EntriesInOrder ==
  ASSUME TypeOK, SlotsInv
  PROVE  /\ Len(Entries) = Cardinality(DOMAIN slots) /\ Len(Entries) \in Nat
         /\ \A i \in 1 .. Len(Entries) : \E s \in DOMAIN slots :
              Entries[i] = slots[s] /\ Cardinality(Below(s)) = i - 1
         /\ \A s, t \in DOMAIN slots : Cardinality(Below(s)) < Cardinality(Below(t)) => s < t
<1> DEFINE n == Cardinality(DOMAIN slots)
           place(i) == CHOOSE s \in DOMAIN slots :
                         Cardinality({t \in DOMAIN slots : t < s}) = i - 1
<1>1. n \in Nat /\ DOMAIN slots \subseteq Nat /\ IsFiniteSet(DOMAIN slots)
  BY SlotCount
<1>2. Entries = [i \in 1 .. n |-> slots[place(i)]]
  BY DEF Entries
<1>3. ASSUME NEW i \in 1 .. n
      PROVE  place(i) \in DOMAIN slots /\ Cardinality(Below(place(i))) = i - 1
  <2>1. \E s \in DOMAIN slots : Cardinality({t \in DOMAIN slots : t < s}) = i - 1
    BY <1>1, Ranked DEF Below
  <2>2. place(i) \in DOMAIN slots /\ Cardinality({t \in DOMAIN slots : t < place(i)}) = i - 1
    BY <2>1
  <2> QED BY <2>2 DEF Below
<1> HIDE DEF n, place
<1>4. Len(Entries) = n /\ \A i \in 1 .. n : Entries[i] = slots[place(i)]
  BY <1>1, <1>2
<1>5. ASSUME NEW s \in DOMAIN slots, NEW t \in DOMAIN slots,
             Cardinality(Below(s)) < Cardinality(Below(t))
      PROVE  s < t
  <2>1. IsFiniteSet(Below(s)) /\ Cardinality(Below(s)) \in Nat /\ Cardinality(Below(t)) \in Nat
    <3>1. Below(s) \in SUBSET DOMAIN slots /\ Below(t) \in SUBSET DOMAIN slots
      BY DEF Below
    <3> QED BY <1>1, <3>1, FS_Subset, FS_CardinalityType
  <2>2. ASSUME t <= s
        PROVE  FALSE
    <3>1. Below(t) \in SUBSET Below(s)
      BY <1>1, <2>2 DEF Below
    <3>2. Cardinality(Below(t)) <= Cardinality(Below(s))
      BY <2>1, <3>1, FS_Subset
    <3> QED BY <1>5, <2>1, <3>2
  <2> QED BY <1>1, <2>2
<1> QED BY <1>1, <1>3, <1>4, <1>5 DEF n

\* Arguments that parse are the whole of their own call's.
LEMMA ParsedAreWhole ==
  ASSUME TypeOK, NEW k \in PlanCalls, Pieces(k) # <<>>, Parses(Pieces(k))
  PROVE  Pieces(k) = Whole(k)
<1>1. PICK j \in PlanCalls : Pieces(k) = Whole(j)
  BY DEF Parses
<1>2. /\ k \in Nat /\ j \in Nat /\ sent[k] \in Nat /\ plan.pieces[j] \in Nat
      /\ Pieces(k) = Upto(k, sent[k]) /\ Whole(j) = Upto(j, plan.pieces[j])
  BY PlanTypes, PiecesAreUpto DEF TypeOK
<1>3. /\ Len(Upto(k, sent[k])) = sent[k]
      /\ \A p \in 1 .. sent[k] : Upto(k, sent[k])[p] = <<k, p>>
      /\ Upto(k, sent[k]) = <<>> <=> sent[k] = 0
  BY <1>2, UptoType, Zenon
<1>4. /\ Len(Upto(j, plan.pieces[j])) = plan.pieces[j]
      /\ \A p \in 1 .. plan.pieces[j] : Upto(j, plan.pieces[j])[p] = <<j, p>>
  BY <1>2, UptoType, Zenon
<1>5. sent[k] = plan.pieces[j] /\ sent[k] # 0
  BY <1>1, <1>2, <1>3, <1>4
<1>6. 1 \in 1 .. sent[k] /\ 1 \in 1 .. plan.pieces[j]
  BY <1>2, <1>5
<1>7. Pieces(k)[1] = <<k, 1>> /\ Whole(j)[1] = <<j, 1>>
  BY <1>2, <1>3, <1>4, <1>6
<1> QED BY <1>1, <1>7

\* A response that is not marked as cut short is whole as far as it goes.
LEMMA EndWhole ==
  ASSUME IInv, End
  PROVE  ResultInv'
<1>1. /\ TypeOK /\ SentInv /\ SlotsInv /\ EndInv
      /\ phase' = "idle" /\ UNCHANGED <<plan, sent, begun, slots, content, finish, usage>>
      /\ result' = IF IsDropped \/ ~IsWellFormed THEN Failure ELSE Response
  BY DEF IInv, End, clientVars, planVars, callVars, textVars, endVars
<1> SUFFICES ASSUME result'.kind = "response" /\ result'.finish = "stop"
             PROVE  AnswersAreWhole'
  BY <1>1 DEF ResultInv, AnswersAreWhole
<1>2. result' = Response /\ ~IsDropped /\ IsWellFormed
  BY <1>1 DEF Failure, NoResult
<1>3. /\ result'.calls = Entries /\ ~Truncated /\ finish \in {"none", "stop"}
  BY <1>2 DEF Response
<1>4. finish = "stop" => AllSent
  BY <1>1 DEF EndInv
<1>5. ASSUME NEW s \in DOMAIN slots
      PROVE  /\ slots[s].id = s + 1 /\ slots[s].name = s + 1
             /\ slots[s].pieces = Whole(s + 1) /\ s \in Nat
  <2>1. PICK k \in begun : s = k - 1
    BY <1>1 DEF SlotsInv
  <2>2. k \in PlanCalls /\ k \in Nat /\ s \in Nat /\ s + 1 = k
    BY <1>1, <2>1, PlanTypes DEF TypeOK
  <2>3. slots[s].pieces = Pieces(k) /\ slots[s].id \in {0, k} /\ slots[s].name \in {0, k}
    BY <1>1, <2>1 DEF SlotsInv
  <2>4. slots[s].id = k /\ slots[s].name = k
    BY <1>2, <2>3 DEF IsWellFormed
  <2>5. ~IsCut(slots[s].pieces)
    BY <1>3 DEF Truncated
  <2>6. Pieces(k) = Whole(k)
    <3>1. CASE Pieces(k) = <<>>
      <4>1. AllSent
        BY <1>3, <1>4, <2>3, <2>5, <3>1 DEF IsCut
      <4>2. sent[k] = plan.pieces[k]
        BY <2>2, <4>1 DEF AllSent
      <4> QED BY <4>2 DEF Pieces, Whole
    <3>2. CASE Pieces(k) # <<>>
      BY <1>1, <2>2, <2>3, <2>5, <3>2, ParsedAreWhole DEF IsCut
    <3> QED BY <3>1, <3>2
  <2> QED BY <2>2, <2>3, <2>4, <2>6
<1>6. \A i \in 1 .. Len(Entries) : \E s \in DOMAIN slots :
        Entries[i] = slots[s] /\ Cardinality(Below(s)) = i - 1
  BY <1>1, EntriesInOrder
<1>7. ASSUME NEW i \in 1 .. Len(Entries)
      PROVE  Entries[i].name = Entries[i].id /\ Entries[i].pieces = Whole(Entries[i].id)
  BY <1>5, <1>6
<1>8. ASSUME NEW i \in 1 .. Len(Entries), NEW j \in 1 .. Len(Entries), i < j
      PROVE  Entries[i].id < Entries[j].id
  <2>1. PICK s \in DOMAIN slots : Entries[i] = slots[s] /\ Cardinality(Below(s)) = i - 1
    BY <1>6
  <2>2. PICK t \in DOMAIN slots : Entries[j] = slots[t] /\ Cardinality(Below(t)) = j - 1
    BY <1>6
  <2>3. i \in Nat /\ j \in Nat
    BY <1>1, EntriesInOrder
  <2>4. s < t
    BY <1>1, <1>8, <2>1, <2>2, <2>3, EntriesInOrder
  <2> QED BY <1>5, <2>1, <2>2, <2>4
<1>9. Entries = <<>> => AllSent
  <2>1. ASSUME Entries = <<>>
        PROVE  DOMAIN slots = {}
    <3>1. Cardinality(DOMAIN slots) = 0
      BY <1>1, <2>1, EntriesInOrder
    <3> QED BY <1>1, <3>1, SlotCount, FS_EmptySet
  <2>2. finish = "none" /\ DOMAIN slots = {} => usage
    BY <1>2 DEF IsDropped
  <2> QED BY <1>1, <1>3, <1>4, <2>1, <2>2 DEF EndInv
<1>10. /\ \A k : Whole(k)' = Whole(k)
       /\ AllSent' = AllSent
  BY <1>1 DEF Whole, AllSent, PlanCalls
<1> QED BY <1>3, <1>7, <1>8, <1>9, <1>10 DEF AnswersAreWhole
-----------------------------------------------------------------------------
\* The invariant.

\* Text, once a call has begun, is not shown any more.
LEMMA TextChunkKeeps ==
  ASSUME IInv, TextChunk
  PROVE  IInv'
<1>1. /\ TypeOK /\ SentInv /\ SlotsInv /\ RouteInv /\ AnnouncedInv /\ ShownInv
      /\ EndInv /\ ResultInv
  BY DEF IInv
<1>2. /\ phase = "streaming" /\ finish = "none" /\ ~usage /\ content' = content + 1
      /\ shown' = IF DOMAIN slots = {} THEN Append(shown, content + 1) ELSE shown
      /\ UNCHANGED <<phase, streams, strict, unsupported, plan, numbering, sent, begun, slots,
                     lastId, active, announced, finish, usage, result>>
  BY DEF TextChunk, Open, IsVisible, clientVars, planVars, callVars, endVars
<1>3. PlanCalls' = PlanCalls /\ \A k : Pieces(k)' = Pieces(k)
  BY <1>2 DEF PlanCalls, Pieces
<1>4. content \in Nat /\ shown \in Seq(Nat)
  BY <1>1 DEF TypeOK
<1>5. shown' \in Seq(Nat)
  BY <1>2, <1>4
<1>6. TypeOK'
  BY <1>1, <1>2, <1>3, <1>5 DEF TypeOK
<1>7. ShownInv'
  <2>1. CASE DOMAIN slots = {}
    <3>1. shown' = Append(shown, content + 1) /\ Len(shown) = content
      BY <1>1, <1>2, <2>1 DEF ShownInv
    <3>2. /\ Len(shown') = content + 1 /\ DOMAIN shown' = 1 .. content + 1
          /\ shown'[content + 1] = content + 1
          /\ \A i \in 1 .. content : shown'[i] = shown[i]
      BY <1>4, <3>1
    <3>3. \A i \in 1 .. content : shown[i] = i
      BY <1>1, <1>4, <3>1 DEF ShownInv
    <3>4. \A i \in 1 .. content + 1 : i \in 1 .. content \/ i = content + 1
      BY <1>4
    <3> QED BY <1>2, <1>4, <3>2, <3>3, <3>4 DEF ShownInv
  <2>2. CASE DOMAIN slots # {}
    <3>1. shown' = shown /\ Len(shown) \in Nat /\ Len(shown) <= content
      BY <1>1, <1>2, <1>4, <2>2 DEF ShownInv
    <3> QED BY <1>1, <1>2, <1>4, <2>2, <3>1 DEF ShownInv
  <2> QED BY <2>1, <2>2
<1>8. EndInv' /\ ResultInv'
  BY <1>1, <1>2 DEF EndInv, ResultInv, AnswersAreWhole
<1>9. SentInv' /\ SlotsInv' /\ RouteInv' /\ AnnouncedInv'
  BY <1>1, <1>2, <1>3 DEF SentInv, SlotsInv, RouteInv, AnnouncedInv
<1> QED BY <1>6, <1>7, <1>8, <1>9 DEF IInv

\* The steps that leave what was received alone.
LEMMA OtherStepsKeep ==
  ASSUME IInv, DropOption \/ Accept \/ Fail \/ FinishChunk \/ UsageChunk \/ End \/ UNCHANGED vars
  PROVE  IInv'
<1>1. /\ TypeOK /\ SentInv /\ SlotsInv /\ RouteInv /\ AnnouncedInv /\ ShownInv
      /\ EndInv /\ ResultInv
  BY DEF IInv
<1>2. UNCHANGED <<streams, strict, plan, numbering, sent, begun, slots, lastId, active,
                  announced, content, shown>>
  BY DEF DropOption, Accept, Fail, FinishChunk, UsageChunk, End, vars,
         clientVars, planVars, callVars, textVars
<1>3. PlanCalls' = PlanCalls /\ (\A k : Pieces(k)' = Pieces(k)) /\ AllSent' = AllSent
      /\ \A k : Whole(k)' = Whole(k)
  BY <1>2 DEF PlanCalls, Pieces, AllSent, Whole
<1>4. SentInv' /\ SlotsInv' /\ RouteInv' /\ AnnouncedInv' /\ ShownInv'
  BY <1>1, <1>2, <1>3 DEF SentInv, SlotsInv, RouteInv, AnnouncedInv, ShownInv
<1>5. TypeOK'
  <2>1. /\ phase' \in {"idle", "asking", "streaming"} /\ unsupported' \in BOOLEAN
        /\ finish' \in {"none", "stop", "length", "content_filter"} /\ usage' \in BOOLEAN
    BY <1>1 DEF TypeOK, DropOption, Accept, Fail, FinishChunk, UsageChunk, End, vars,
       clientVars, endVars
  <2>2. result' = result \/ result' = Failure \/ result' = Response
    BY DEF DropOption, Accept, Fail, FinishChunk, UsageChunk, End, vars
  <2>3. Failure.kind = "error" /\ Response.kind = "response"
    BY DEF Failure, NoResult, Response
  <2>4. result'.kind \in {"none", "error", "response"}
    BY <1>1, <2>2, <2>3 DEF TypeOK
  <2> QED BY <1>1, <1>2, <1>3, <2>1, <2>4 DEF TypeOK
<1>6. EndInv'
  BY <1>1, <1>3 DEF EndInv, DropOption, Accept, Fail, FinishChunk, UsageChunk, End, Open, vars,
     endVars
<1>7. ResultInv'
  <2>1. CASE End
    BY <2>1, EndWhole
  <2>2. CASE Fail
    <3>1. result'.kind = "error"
      BY <2>2 DEF Fail, Failure, NoResult
    <3> QED BY <3>1 DEF ResultInv, AnswersAreWhole
  <2>3. CASE UNCHANGED vars
    <3>1. result' = result /\ phase' = phase
      BY <2>3 DEF vars
    <3> QED BY <1>1, <1>3, <3>1 DEF ResultInv, AnswersAreWhole
  <2>4. CASE DropOption \/ Accept \/ FinishChunk \/ UsageChunk
    <3>1. result' = result /\ phase # "idle"
      BY <2>4 DEF DropOption, Accept, FinishChunk, UsageChunk, Open
    <3> QED BY <1>1, <3>1 DEF ResultInv, AnswersAreWhole
  <2> QED BY <2>1, <2>2, <2>3, <2>4
<1> QED BY <1>4, <1>5, <1>6, <1>7 DEF IInv

\* The accumulator's invariant.
THEOREM AccumulatorInvariant == Spec => []IInv
<1>1. Init => IInv
  <2> SUFFICES ASSUME Init
               PROVE  IInv
    OBVIOUS
  <2>1. Fresh
    BY DEF Init, Fresh
  <2> QED BY <2>1, FreshKeeps DEF Init, IInv, TypeOK
<1>2. IInv /\ [Next]_vars => IInv'
  <2> SUFFICES ASSUME IInv, [Next]_vars
               PROVE  IInv'
    OBVIOUS
  <2>1. CASE Begin
    <3>1. Fresh'
      BY <2>1 DEF Begin, Fresh, PlanCalls
    <3>2. phase' = "asking" /\ streams' = streams + 1 /\ UNCHANGED <<strict, unsupported>>
      BY <2>1 DEF Begin
    <3>3. /\ (sent \in [PlanCalls -> Nat])' /\ (begun \subseteq PlanCalls)'
          /\ content' \in Nat /\ shown' \in Seq(Nat) /\ result'.kind = "none"
      BY <3>1, NextFresh
    <3>4. TypeOK'
      <4>1. /\ plan' \in Plans /\ numbering' \in {"own", "shared"}
            /\ finish' = "none" /\ usage' = FALSE
        BY <3>1 DEF Fresh
      <4>2. streams' \in Nat /\ strict' \in BOOLEAN /\ unsupported' \in BOOLEAN
        BY <3>2 DEF IInv, TypeOK
      <4> QED BY <3>2, <3>3, <4>1, <4>2 DEF TypeOK
    <3> QED BY <3>1, <3>4, NextFresh DEF IInv
  <2> QED BY <2>1, CallChunkKeeps, TextChunkKeeps, OtherStepsKeep DEF Next
<1> QED BY <1>1, <1>2, PTL DEF Spec

\* However its chunks come, nothing of a call is filed under another.
THEOREM Filing == Spec => []NothingIsMisfiled
<1>1. IInv => NothingIsMisfiled
  <2> SUFFICES ASSUME IInv
               PROVE  NothingIsMisfiled
    OBVIOUS
  <2>1. Cardinality(DOMAIN slots) = Cardinality(begun)
    BY SlotCount DEF IInv
  <2>2. \A k \in begun : \E s \in DOMAIN slots :
          slots[s].pieces = Pieces(k) /\ slots[s].id \in {0, k} /\ slots[s].name \in {0, k}
    BY DEF IInv, SlotsInv
  <2> QED BY <2>1, <2>2 DEF IInv, AnnouncedInv, NothingIsMisfiled
<1> QED BY <1>1, AccumulatorInvariant, PTL

\* What is not marked as cut short is whole.
THEOREM WholeAnswers == Spec => []AnswersAreWhole
<1>1. IInv => AnswersAreWhole
  BY DEF IInv, ResultInv
<1> QED BY <1>1, AccumulatorInvariant, PTL

\* What was shown is a beginning of the text.
THEOREM Shown == Spec => []ShownIsABeginning
<1>1. IInv => ShownIsABeginning
  BY DEF IInv, TypeOK, ShownInv, ShownIsABeginning
<1> QED BY <1>1, AccumulatorInvariant, PTL
=============================================================================
