------------------------- MODULE ToolRegistryProofs -------------------------
(***************************************************************************)
(* Proofs about the registry of tools: its type invariant, that a name is  *)
(* never taken over by another toolset, that an agent's listing is true    *)
(* although it reads the registry several times, and that a call reaches   *)
(* the tool that was offered.                                              *)
(*                                                                         *)
(* Steps are of three kinds: of threads, which leave agents as they are;   *)
(* of other agents, which leave the table and the agent as they are; and   *)
(* of the agent itself, which leave the table as it is.                    *)
(***************************************************************************)
EXTENDS ToolRegistry, TLAPS

RegistryStep ==
  \/ \E r \in Threads, n \in Names, e \in Entry : Look(r, n, e)
  \/ \E r \in Threads : ThreadStep(r)
  \/ \E n \in Names : Deregister(n)

AgentStep(a) == ListingStep(a) \/ CallStep(a)

AllVars ==
  <<table, lock, request, pc, selected, left, names, entries, answers, offered, call,
    gone, removed>>

LEMMA StepKinds ==
  ASSUME [Next]_vars
  PROVE  RegistryStep \/ (\E a \in Agents : AgentStep(a)) \/ UNCHANGED AllVars
BY Zenon DEF Next, RegistryStep, AgentStep, vars, AllVars, registryVars, listingVars
-----------------------------------------------------------------------------
\* Types.

RegistryTypeOK ==
  /\ table \in Table
  /\ lock \in Threads \cup {Nobody}
  /\ request \in [Threads -> Request \cup {NoRequest}]

ListingTypeOK ==
  /\ pc \in [Agents -> {"new", "selecting", "probing", "ready", "misconfigured"}]
  /\ selected \in [Agents -> SUBSET Toolsets]
  /\ left \in [Agents -> SUBSET Toolsets]
  /\ names \in [Agents -> SUBSET Names]
  /\ entries \in [Agents -> Table]
  /\ answers \in [Agents -> [Probes -> {"unasked", "yes", "no"}]]
  /\ offered \in [Agents -> Table]
  /\ gone \in [Agents -> SUBSET Names]
  /\ removed \in [Agents -> SUBSET Names]

CallTypeOK == call \in [Agents -> Call \cup {NoCall}]

\* The empty table and the answers before any probe are tables and answers.
LEMMA EmptyTypes == NoTable \in Table /\ Unasked \in [Probes -> {"unasked", "yes", "no"}]
BY DEF NoTable, Table, Unasked

LEMMA TypeInit == Init => TypeOK
<1> SUFFICES ASSUME Init
             PROVE  RegistryTypeOK /\ ListingTypeOK /\ CallTypeOK
  BY Zenon DEF TypeOK, RegistryTypeOK, ListingTypeOK, CallTypeOK
<1>1. RegistryTypeOK
  BY EmptyTypes DEF Init, RegistryTypeOK
<1>2. ListingTypeOK
  BY EmptyTypes DEF Init, ListingTypeOK
<1>3. CallTypeOK
  BY DEF Init, CallTypeOK
<1> QED BY <1>1, <1>2, <1>3

\* Threads keep the types.
LEMMA RegistryStepTypes == TypeOK /\ RegistryStep => TypeOK'
<1> SUFFICES ASSUME RegistryTypeOK, ListingTypeOK, CallTypeOK, RegistryStep
             PROVE  RegistryTypeOK' /\ ListingTypeOK' /\ CallTypeOK'
  BY Zenon DEF TypeOK, RegistryTypeOK, ListingTypeOK, CallTypeOK
<1>1. ASSUME NEW r \in Threads, NEW n \in Names, NEW e \in Entry, Look(r, n, e)
      PROVE  RegistryTypeOK' /\ ListingTypeOK' /\ CallTypeOK'
  <2>1. table[n] \in Entry \cup {NoEntry}
    BY DEF RegistryTypeOK, Table
  <2>2. [name |-> n, entry |-> e, existing |-> table[n]] \in Request
    BY <2>1 DEF Request
  <2>3. RegistryTypeOK'
    BY <1>1, <2>2 DEF Look, RegistryTypeOK
  <2> QED BY <1>1, <2>3 DEF Look, ListingTypeOK, CallTypeOK, listingVars
<1>2. ASSUME NEW r \in Threads, Store(r)
      PROVE  RegistryTypeOK' /\ ListingTypeOK' /\ CallTypeOK'
  <2>1. request[r] \in Request
    BY <1>2 DEF Store, RegistryTypeOK
  <2>2. request[r].name \in Names /\ request[r].entry \in Entry
    BY <2>1 DEF Request
  <2>3. table' \in Table
    BY <1>2, <2>2 DEF Store, RegistryTypeOK, Table
  <2>4. RegistryTypeOK'
    BY <1>2, <2>3 DEF Store, RegistryTypeOK
  <2> QED BY <1>2, <2>4 DEF Store, ListingTypeOK, CallTypeOK, listingVars
<1>3. ASSUME NEW r \in Threads, RefuseShadow(r)
      PROVE  RegistryTypeOK' /\ ListingTypeOK' /\ CallTypeOK'
  BY <1>3 DEF RefuseShadow, RegistryTypeOK, ListingTypeOK, CallTypeOK, listingVars
<1>4. ASSUME NEW n \in Names, Deregister(n)
      PROVE  RegistryTypeOK' /\ ListingTypeOK' /\ CallTypeOK'
  <2>1. table' \in Table
    BY <1>4 DEF Deregister, RegistryTypeOK, Table
  <2>2. RegistryTypeOK'
    BY <1>4, <2>1 DEF Deregister, RegistryTypeOK
  <2>3. gone' \in [Agents -> SUBSET Names] /\ removed' \in [Agents -> SUBSET Names]
    BY <1>4 DEF Deregister, ListingTypeOK
  <2>4. ListingTypeOK'
    BY <1>4, <2>3 DEF Deregister, ListingTypeOK, listingVars
  <2> QED BY <1>4, <2>2, <2>4 DEF Deregister, CallTypeOK
<1> QED BY <1>1, <1>2, <1>3, <1>4, Zenon DEF RegistryStep, ThreadStep

\* Listing keeps the types.
LEMMA ListingStepTypes ==
  ASSUME NEW a \in Agents, TypeOK, ListingStep(a)
  PROVE  TypeOK'
<1> SUFFICES ASSUME RegistryTypeOK, ListingTypeOK, CallTypeOK
             PROVE  RegistryTypeOK' /\ ListingTypeOK' /\ CallTypeOK'
  BY Zenon DEF TypeOK, RegistryTypeOK, ListingTypeOK, CallTypeOK
<1> USE DEF RegistryTypeOK, CallTypeOK, registryVars
<1>1. ASSUME NEW enabled \in SUBSET Toolsets, NEW disabled \in SUBSET Toolsets,
             Resolve(a, enabled, disabled)
      PROVE  RegistryTypeOK' /\ ListingTypeOK' /\ CallTypeOK'
  <2>1. Absent \in SUBSET Names
    BY DEF Absent
  <2>2. enabled \ disabled \in SUBSET Toolsets
    OBVIOUS
  <2>3. /\ pc' \in [Agents -> {"new", "selecting", "probing", "ready", "misconfigured"}]
        /\ selected' \in [Agents -> SUBSET Toolsets]
        /\ left' \in [Agents -> SUBSET Toolsets]
        /\ gone' \in [Agents -> SUBSET Names]
    <3>1. CASE enabled \cup disabled \subseteq Known
      <4> DEFINE chosen == enabled \ disabled
      <4>1. /\ pc' = [pc EXCEPT ![a] = "selecting"]
            /\ selected' = [selected EXCEPT ![a] = chosen]
            /\ left' = [left EXCEPT ![a] = chosen]
            /\ gone' = [gone EXCEPT ![a] = Absent]
        BY <1>1, <3>1 DEF Resolve
      <4>2. chosen \in SUBSET Toolsets
        BY <2>2
      <4> HIDE DEF chosen
      <4> QED BY <2>1, <4>1, <4>2 DEF ListingTypeOK
    <3>2. CASE ~(enabled \cup disabled \subseteq Known)
      BY <1>1, <3>2 DEF Resolve, ListingTypeOK
    <3> QED BY <3>1, <3>2
  <2> QED BY <1>1, <2>3 DEF Resolve, ListingTypeOK
<1>2. ASSUME NEW t \in Toolsets, Collect(a, t)
      PROVE  RegistryTypeOK' /\ ListingTypeOK' /\ CallTypeOK'
  <2>1. InToolset(t) \in SUBSET Names
    BY DEF InToolset
  <2> QED BY <1>2, <2>1 DEF Collect, ListingTypeOK
<1>3. ASSUME TakeEntries(a)
      PROVE  RegistryTypeOK' /\ ListingTypeOK' /\ CallTypeOK'
  BY <1>3 DEF TakeEntries, ListingTypeOK
<1>4. ASSUME NEW n \in Names, Consider(a, n)
      PROVE  RegistryTypeOK' /\ ListingTypeOK' /\ CallTypeOK'
  <2>1. entries[a][n] \in Entry \cup {NoEntry}
    BY DEF ListingTypeOK, Table
  <2>2. [offered[a] EXCEPT ![n] = entries[a][n]] \in Table
    BY <2>1 DEF ListingTypeOK, Table
  <2>3. offered' \in [Agents -> Table]
    BY <1>4, <2>2 DEF Consider, SkipMissing, Offer, ListingTypeOK
  <2>4. answers' \in [Agents -> [Probes -> {"unasked", "yes", "no"}]]
    <3>1. CASE answers' = answers
      BY <3>1 DEF ListingTypeOK
    <3>2. ASSUME NEW said \in {"yes", "no"}, entries[a][n] # NoEntry,
                 entries[a][n].probe # NoProbe,
                 answers' = [answers EXCEPT ![a][entries[a][n].probe] = said]
          PROVE  answers' \in [Agents -> [Probes -> {"unasked", "yes", "no"}]]
      <4>1. entries[a][n].probe \in Probes
        BY <2>1, <3>2 DEF Entry
      <4> QED BY <3>2, <4>1 DEF ListingTypeOK
    <3> QED BY <1>4, <3>1, <3>2 DEF Consider, SkipMissing, Offer
  <2>5. names' \in [Agents -> SUBSET Names]
    BY <1>4 DEF Consider, ListingTypeOK
  <2> QED BY <1>4, <2>3, <2>4, <2>5 DEF Consider, ListingTypeOK
<1>5. ASSUME KeepTools(a)
      PROVE  RegistryTypeOK' /\ ListingTypeOK' /\ CallTypeOK'
  BY <1>5, EmptyTypes DEF KeepTools, ListingTypeOK
<1> QED BY <1>1, <1>2, <1>3, <1>4, <1>5, Zenon DEF ListingStep

\* Calls keep the types.
LEMMA CallStepTypes ==
  ASSUME NEW a \in Agents, TypeOK, CallStep(a)
  PROVE  TypeOK'
<1> SUFFICES ASSUME RegistryTypeOK, ListingTypeOK, CallTypeOK
             PROVE  RegistryTypeOK' /\ ListingTypeOK' /\ CallTypeOK'
  BY Zenon DEF TypeOK, RegistryTypeOK, ListingTypeOK, CallTypeOK
<1> DEFINE Unchanged == UNCHANGED <<registryVars, pc, listingVars, offered, gone, removed>>
<1>1. ASSUME Unchanged, CallTypeOK'
      PROVE  RegistryTypeOK' /\ ListingTypeOK' /\ CallTypeOK'
  BY <1>1 DEF registryVars, listingVars, RegistryTypeOK, ListingTypeOK
<1>2. ASSUME NEW n \in Names, RefuseCall(a, n)
      PROVE  Unchanged /\ CallTypeOK'
  <2>1. [name |-> n, entry |-> NoEntry, answer |-> "refused"] \in Call
    BY DEF Call, Answers
  <2> QED BY <1>2, <2>1 DEF RefuseCall, CallTypeOK
<1>3. ASSUME NEW n \in Names, LookUp(a, n)
      PROVE  Unchanged /\ CallTypeOK'
  <2>1. table[n] \in Entry \cup {NoEntry}
    BY DEF RegistryTypeOK, Table
  <2>2. [name |-> n, entry |-> table[n],
         answer |-> IF table[n] = NoEntry THEN "unknown" ELSE "none"] \in Call
    BY <2>1 DEF Call, Answers
  <2> QED BY <1>3, <2>2 DEF LookUp, CallTypeOK
<1>4. ASSUME NEW how \in Answers, Runs(a), Answer(a, how)
      PROVE  CallTypeOK'
  <2>1. call[a] \in Call
    BY <1>4 DEF Runs, CallTypeOK
  <2>2. [call[a] EXCEPT !.entry = NoEntry, !.answer = how] \in Call
    BY <2>1 DEF Call
  <2>3. call' = [call EXCEPT ![a] = [call[a] EXCEPT !.entry = NoEntry, !.answer = how]]
    BY <1>4, <2>1 DEF Answer, CallTypeOK
  <2> QED BY <2>2, <2>3 DEF CallTypeOK
<1>5. CASE HandlerReturns(a)
  <2>1. PICK result \in {"text", "too deep", "no text"} : Answer(a, Normalized(result))
    BY <1>5 DEF HandlerReturns
  <2>2. Normalized(result) \in Answers
    BY DEF Normalized, Answers
  <2>3. CallTypeOK'
    BY <1>4, <1>5, <2>1, <2>2 DEF HandlerReturns
  <2> QED BY <1>1, <1>5, <2>3 DEF HandlerReturns
<1>6. CASE HandlerRaises(a) \/ CancelCall(a)
  BY <1>1, <1>4, <1>6 DEF HandlerRaises, CancelCall, Answers
<1> QED BY <1>1, <1>2, <1>3, <1>5, <1>6, Zenon DEF CallStep

LEMMA TypeStep == TypeOK /\ [Next]_vars => TypeOK'
<1> SUFFICES ASSUME TypeOK, [Next]_vars
             PROVE  TypeOK'
  OBVIOUS
<1>1. CASE UNCHANGED AllVars
  BY <1>1 DEF AllVars, TypeOK
<1> QED BY <1>1, StepKinds, RegistryStepTypes, ListingStepTypes, CallStepTypes, Zenon
        DEF AgentStep

\* Every variable of the registry and of its agents keeps its type.
THEOREM RegistryTypeCorrect == Spec => []TypeOK
BY TypeInit, TypeStep, PTL DEF Spec
-----------------------------------------------------------------------------
\* The invariant.

\* A thread that is between its look and its store holds the lock, and what it saw is
\* still so.
LockInv ==
  \A r \in Threads : request[r] # NoRequest =>
    lock = r /\ request[r].existing = table[request[r].name]

\* n is registered, with the toolset of e.
Keeps(n, e) == table[n] # NoEntry /\ table[n].toolset = e.toolset

\* What an agent has taken from the registry keeps its toolset there, until the name is
\* removed.
OfferAt(a, n) ==
  /\ pc[a] # "ready" => call[a] = NoCall
  /\ ~HasEntries(a) => offered[a][n] = NoEntry
  /\ HasEntries(a) /\ n \notin removed[a] /\ offered[a][n] # NoEntry => Keeps(n, offered[a][n])
  /\ pc[a] = "probing" /\ n \notin removed[a] /\ entries[a][n] # NoEntry =>
       Keeps(n, entries[a][n])

OfferInv == \A a \in Agents, n \in Names : OfferAt(a, n)

\* The names a listing has collected are those of the selected toolsets it has been
\* through, but for names that were absent.
CollectAt(a, n) ==
  /\ pc[a] = "new" => names[a] = {}
  /\ pc[a] = "probing" => left[a] = {}
  /\ left[a] \subseteq selected[a]
  /\ Lists(a) /\ n \notin gone[a] =>
       /\ table[n] # NoEntry
       /\ n \in names[a] => table[n].toolset \in selected[a]
  /\ pc[a] = "selecting" /\ n \notin gone[a] /\ table[n].toolset \in selected[a] \ left[a] =>
       n \in names[a]

CollectInv == \A a \in Agents, n \in Names : CollectAt(a, n)

\* The probe of a name was asked, and the name is offered if it is available.
Decided(a, n) ==
  /\ entries[a][n].probe # NoProbe => answers[a][entries[a][n].probe] # "unasked"
  /\ Available(a, n) => offered[a][n] # NoEntry

\* What a listing has decided of the names it has considered stays true of its snapshot.
DecideAt(a, n) ==
  pc[a] = "probing" =>
    /\ n \notin gone[a] => entries[a][n] # NoEntry /\ Keeps(n, entries[a][n])
    /\ n \notin gone[a] /\ table[n].toolset \in selected[a] /\ n \notin names[a] => Decided(a, n)
    /\ offered[a][n] # NoEntry =>
         /\ offered[a][n] = entries[a][n] /\ Available(a, n)
         /\ n \notin gone[a] => entries[a][n].toolset \in selected[a]

DecideInv == \A a \in Agents, n \in Names : DecideAt(a, n)

\* CallsReachTheirTool, of one agent.
CallAt(a) ==
  call[a] # NoCall =>
    LET n == call[a].name IN
      /\ call[a].entry # NoEntry =>
           /\ offered[a][n] # NoEntry
           /\ n \notin removed[a] => call[a].entry.toolset = offered[a][n].toolset
      /\ call[a].answer = "unknown" => n \in removed[a]

CallInv == \A a \in Agents : CallAt(a)

IInv == TypeOK /\ LockInv /\ OfferInv /\ CollectInv /\ DecideInv /\ CallInv

LEMMA RegistryInit == Init => IInv
<1> SUFFICES ASSUME Init
             PROVE  IInv
  OBVIOUS
<1> USE DEF Init, NoTable, HasEntries, Lists
<1>1. TypeOK
  BY TypeInit
<1>2. LockInv
  BY DEF LockInv
<1>3. OfferInv
  BY DEF OfferInv, OfferAt
<1>4. CollectInv
  BY DEF CollectInv, CollectAt
<1>5. DecideInv
  BY DEF DecideInv, DecideAt
<1>6. CallInv
  BY DEF CallInv, CallAt
<1> QED BY <1>1, <1>2, <1>3, <1>4, <1>5, <1>6 DEF IInv
-----------------------------------------------------------------------------
\* What each kind of step leaves alone.

\* An agent does nothing to the registry, nor to another agent.
LEMMA AgentFrame ==
  ASSUME NEW b \in Agents, TypeOK, AgentStep(b)
  PROVE  /\ UNCHANGED <<table, lock, request>>
         /\ \A a \in Agents \ {b} :
              UNCHANGED <<pc[a], selected[a], left[a], names[a], entries[a], answers[a],
                          offered[a], call[a], gone[a], removed[a]>>
<1> USE DEF registryVars, listingVars, ListingTypeOK, CallTypeOK
<1>0. ListingTypeOK /\ CallTypeOK
  BY Zenon DEF TypeOK
<1> HIDE DEF CallTypeOK
<1> DEFINE Frame ==
      /\ UNCHANGED <<table, lock, request>>
      /\ \A a \in Agents \ {b} :
           UNCHANGED <<pc[a], selected[a], left[a], names[a], entries[a], answers[a],
                       offered[a], call[a], gone[a], removed[a]>>
<1>1. ASSUME NEW enabled \in SUBSET Toolsets, NEW disabled \in SUBSET Toolsets,
             Resolve(b, enabled, disabled)
      PROVE  Frame
  BY <1>0, <1>1 DEF Resolve
<1>2. ASSUME NEW t \in Toolsets, Collect(b, t)
      PROVE  Frame
  BY <1>0, <1>2 DEF Collect
<1>3. ASSUME TakeEntries(b)
      PROVE  Frame
  BY <1>0, <1>3 DEF TakeEntries
<1>4. ASSUME NEW n \in Names, Consider(b, n)
      PROVE  Frame
  BY <1>0, <1>4 DEF Consider, SkipMissing, Offer
<1>5. ASSUME KeepTools(b)
      PROVE  Frame
  BY <1>0, <1>5 DEF KeepTools
<1>6. ASSUME NEW n \in Names, RefuseCall(b, n) \/ LookUp(b, n)
      PROVE  Frame
  BY <1>0, <1>6 DEF RefuseCall, LookUp, CallTypeOK
<1>7. ASSUME HandlerReturns(b) \/ HandlerRaises(b) \/ CancelCall(b)
      PROVE  Frame
  BY <1>0, <1>7 DEF HandlerReturns, HandlerRaises, CancelCall, Answer, CallTypeOK
<1> QED BY <1>1, <1>2, <1>3, <1>4, <1>5, <1>6, <1>7, Zenon
        DEF AgentStep, ListingStep, CallStep

\* A thread does nothing to an agent but to add to its history.
LEMMA RegistryFrame ==
  ASSUME TypeOK, RegistryStep
  PROVE  /\ UNCHANGED <<pc, selected, left, names, entries, answers, offered, call>>
         /\ \A a \in Agents : gone[a] \subseteq gone'[a] /\ removed[a] \subseteq removed'[a]
<1>1. ListingTypeOK
  BY Zenon DEF TypeOK, ListingTypeOK
<1>2. ASSUME NEW r \in Threads, NEW n \in Names, NEW e \in Entry, Look(r, n, e)
      PROVE  UNCHANGED <<pc, listingVars, offered, call, gone, removed>>
  BY <1>2 DEF Look
<1>3. ASSUME NEW r \in Threads, ThreadStep(r)
      PROVE  UNCHANGED <<pc, listingVars, offered, call, gone, removed>>
  BY <1>3 DEF ThreadStep, Store, RefuseShadow
<1>4. ASSUME NEW n \in Names, Deregister(n)
      PROVE  /\ UNCHANGED <<pc, listingVars, offered, call>>
             /\ \A a \in Agents : gone[a] \subseteq gone'[a] /\ removed[a] \subseteq removed'[a]
  BY <1>1, <1>4 DEF Deregister, ListingTypeOK
<1> QED BY <1>2, <1>3, <1>4 DEF RegistryStep, listingVars

\* Nobody takes the lock from a thread, nor changes the name it has looked up.
LEMMA LockStep == TypeOK /\ LockInv /\ [Next]_vars => LockInv'
<1> SUFFICES ASSUME TypeOK, LockInv, [Next]_vars
             PROVE  LockInv'
  OBVIOUS
<1> USE NullAssumption DEF LockInv
<1>0. RegistryTypeOK
  BY Zenon DEF TypeOK, RegistryTypeOK
<1>1. ASSUME NEW r \in Threads, NEW n \in Names, NEW e \in Entry, Look(r, n, e)
      PROVE  LockInv'
  <2>1. \A q \in Threads : request[q] = NoRequest
    BY <1>0, <1>1 DEF Look
  <2>2. \A q \in Threads : q # r => request'[q] = NoRequest
    BY <1>0, <1>1, <2>1 DEF Look, RegistryTypeOK
  <2>3. /\ request'[r] = [name |-> n, entry |-> e, existing |-> table[n]]
        /\ lock' = r /\ table' = table
    BY <1>0, <1>1 DEF Look, RegistryTypeOK
  <2> QED BY <2>2, <2>3
<1>2. ASSUME NEW r \in Threads, ThreadStep(r)
      PROVE  LockInv'
  <2>1. \A q \in Threads : q # r => request[q] = NoRequest
    BY <1>2 DEF ThreadStep, Store, RefuseShadow
  <2>2. request' = [request EXCEPT ![r] = NoRequest]
    BY <1>2 DEF ThreadStep, Store, RefuseShadow
  <2>3. \A q \in Threads : request'[q] = NoRequest
    BY <1>0, <2>1, <2>2 DEF RegistryTypeOK
  <2> QED BY <2>3
<1>3. ASSUME NEW n \in Names, Deregister(n)
      PROVE  LockInv'
  <2>1. \A q \in Threads : request[q] = NoRequest
    BY <1>3 DEF Deregister
  <2> QED BY <1>3, <2>1 DEF Deregister
<1>4. ASSUME NEW a \in Agents, AgentStep(a)
      PROVE  LockInv'
  BY <1>4, AgentFrame
<1>5. CASE UNCHANGED AllVars
  BY <1>5 DEF AllVars
<1> QED BY StepKinds, <1>1, <1>2, <1>3, <1>4, <1>5, Zenon DEF RegistryStep

\* A registered name keeps its toolset or is removed, and those who list or have listed
\* it are told.
LEMMA TableStep ==
  ASSUME TypeOK, LockInv, [Next]_vars, NEW n \in Names, table[n] # NoEntry
  PROVE  \/ table'[n] # NoEntry /\ table'[n].toolset = table[n].toolset
         \/ /\ table'[n] = NoEntry
            /\ \A a \in Agents :
                 (Lists(a) => n \in gone'[a]) /\ (HasEntries(a) => n \in removed'[a])
<1> DEFINE Same == table'[n] # NoEntry /\ table'[n].toolset = table[n].toolset
<1>0. RegistryTypeOK /\ ListingTypeOK
  BY Zenon DEF TypeOK, RegistryTypeOK, ListingTypeOK
<1>1. ASSUME table' = table
      PROVE  Same
  BY <1>1
<1>2. ASSUME NEW r \in Threads, Store(r)
      PROVE  Same
  <2>1. request[r] \in Request /\ request[r].existing = table[request[r].name]
    BY <1>0, <1>2 DEF Store, RegistryTypeOK, LockInv
  <2>2. request[r].entry \in Entry /\ request[r].name \in Names
    BY <2>1 DEF Request
  <2>3. CASE request[r].name = n
    <3>1. table'[n] = request[r].entry
      BY <1>0, <1>2, <2>3 DEF Store, RegistryTypeOK, Table
    <3>2. table[n].toolset = request[r].entry.toolset
      BY <1>2, <2>1, <2>3 DEF Store, Shadows
    <3> QED BY <2>2, <3>1, <3>2, NullAssumption
  <2>4. CASE request[r].name # n
    BY <1>0, <1>2, <2>2, <2>4 DEF Store, RegistryTypeOK, Table
  <2> QED BY <2>3, <2>4
<1>3. ASSUME NEW m \in Names, Deregister(m)
      PROVE  \/ Same
             \/ /\ table'[n] = NoEntry
                /\ \A a \in Agents :
                     (Lists(a) => n \in gone'[a]) /\ (HasEntries(a) => n \in removed'[a])
  <2>1. CASE m = n
    BY <1>0, <1>3, <2>1 DEF Deregister, RegistryTypeOK, Table, ListingTypeOK
  <2>2. CASE m # n
    BY <1>0, <1>3, <2>2 DEF Deregister, RegistryTypeOK, Table
  <2> QED BY <2>1, <2>2
<1>4. ASSUME NEW r \in Threads, NEW m \in Names, NEW e \in Entry, Look(r, m, e)
      PROVE  table' = table
  BY <1>4 DEF Look
<1>5. ASSUME NEW r \in Threads, RefuseShadow(r)
      PROVE  table' = table
  BY <1>5 DEF RefuseShadow
<1>6. ASSUME NEW a \in Agents, AgentStep(a)
      PROVE  table' = table
  BY <1>6, AgentFrame
<1>7. CASE UNCHANGED AllVars
  BY <1>1, <1>7 DEF AllVars
<1> HIDE DEF Same
<1>8. CASE RegistryStep
  BY <1>8, <1>1, <1>2, <1>3, <1>4, <1>5, Zenon DEF RegistryStep, ThreadStep, Same
<1> QED BY StepKinds, <1>1, <1>6, <1>7, <1>8, Zenon DEF Same
-----------------------------------------------------------------------------
\* The invariant, kept by each kind of step.

\* What an agent has taken keeps its toolset under a thread's step.
LEMMA OfferRegistryStep ==
  ASSUME TypeOK, LockInv, OfferInv, RegistryStep, NEW a \in Agents, NEW n \in Names
  PROVE  OfferAt(a, n)'
<1>1. [Next]_vars
  BY Zenon DEF Next, RegistryStep
<1>2. OfferAt(a, n)
  BY DEF OfferInv
<1>3. /\ UNCHANGED <<pc, entries, offered, call>>
      /\ removed[a] \subseteq removed'[a]
  BY RegistryFrame
<1>4. ASSUME NEW e, HasEntries(a), n \notin removed'[a], Keeps(n, e)
      PROVE  Keeps(n, e)'
  BY <1>1, <1>4, TableStep DEF Keeps
<1> QED BY <1>2, <1>3, <1>4 DEF OfferAt, HasEntries

\* And under a step of the agent.
LEMMA OfferAgentStep ==
  ASSUME TypeOK, OfferInv, NEW a \in Agents, NEW n \in Names, AgentStep(a)
  PROVE  OfferAt(a, n)'
<1>0. ListingTypeOK /\ CallTypeOK
  BY Zenon DEF TypeOK, ListingTypeOK, CallTypeOK
<1>1. OfferAt(a, n)
  BY DEF OfferInv
<1>2. table' = table
  BY AgentFrame
<1> USE DEF OfferAt, HasEntries, Keeps, listingVars
<1>3. ASSUME NEW enabled \in SUBSET Toolsets, NEW disabled \in SUBSET Toolsets,
             Resolve(a, enabled, disabled)
      PROVE  OfferAt(a, n)'
  <2>1. pc[a] = "new" /\ pc'[a] \in {"selecting", "misconfigured"} /\ UNCHANGED <<offered, call>>
    BY <1>0, <1>3 DEF Resolve, ListingTypeOK
  <2> QED BY <1>1, <2>1
<1>4. ASSUME NEW t \in Toolsets, Collect(a, t)
      PROVE  OfferAt(a, n)'
  BY <1>1, <1>2, <1>4 DEF Collect
<1>5. ASSUME TakeEntries(a)
      PROVE  OfferAt(a, n)'
  <2>1. /\ pc[a] = "selecting" /\ pc'[a] = "probing" /\ entries'[a] = table
        /\ UNCHANGED <<offered, call, removed>>
    BY <1>0, <1>5 DEF TakeEntries, ListingTypeOK
  <2> QED BY <1>1, <1>2, <2>1
<1>6. ASSUME NEW m \in Names, Consider(a, m)
      PROVE  OfferAt(a, n)'
  <2>1. pc[a] = "probing" /\ UNCHANGED <<pc, entries, call, removed>>
    BY <1>6 DEF Consider
  <2>2. offered'[a][n] \in {offered[a][n], entries[a][n]}
    BY <1>0, <1>6 DEF Consider, SkipMissing, Offer, ListingTypeOK, Table
  <2> QED BY <1>1, <1>2, <2>1, <2>2
<1>7. ASSUME KeepTools(a)
      PROVE  OfferAt(a, n)'
  <2>1. /\ pc[a] = "probing" /\ pc'[a] = "ready"
        /\ UNCHANGED <<offered, call, removed>>
    BY <1>0, <1>7 DEF KeepTools, Listed, ListingTypeOK
  <2> QED BY <1>1, <1>2, <2>1
<1>8. ASSUME CallStep(a)
      PROVE  OfferAt(a, n)'
  <2>1. UNCHANGED <<pc, entries, offered, removed>>
    BY <1>8 DEF CallStep, RefuseCall, LookUp, HandlerReturns, HandlerRaises, CancelCall
  <2>2. pc[a] = "ready"
    BY <1>1, <1>8 DEF CallStep, RefuseCall, LookUp, HandlerReturns, HandlerRaises, CancelCall, Runs
  <2> QED BY <1>1, <1>2, <2>1, <2>2
<1> QED BY <1>3, <1>4, <1>5, <1>6, <1>7, <1>8, Zenon DEF AgentStep, ListingStep

LEMMA OfferStep == IInv /\ [Next]_vars => OfferInv'
<1> SUFFICES ASSUME TypeOK, LockInv, OfferInv, [Next]_vars, NEW a \in Agents, NEW n \in Names
             PROVE  OfferAt(a, n)'
  BY DEF IInv, OfferInv
<1>1. OfferAt(a, n)
  BY DEF OfferInv
<1>2. ASSUME NEW b \in Agents, AgentStep(b), b # a
      PROVE  OfferAt(a, n)'
  BY <1>1, <1>2, AgentFrame DEF OfferAt, HasEntries, Keeps
<1>3. CASE UNCHANGED AllVars
  BY <1>1, <1>3 DEF AllVars, OfferAt, HasEntries, Keeps
<1> QED BY StepKinds, OfferRegistryStep, OfferAgentStep, <1>2, <1>3, Zenon

\* The collected names stay true under a thread's step.
LEMMA CollectRegistryStep ==
  ASSUME TypeOK, LockInv, CollectInv, RegistryStep, NEW a \in Agents, NEW n \in Names
  PROVE  CollectAt(a, n)'
<1>1. [Next]_vars
  BY Zenon DEF Next, RegistryStep
<1>2. CollectAt(a, n)
  BY DEF CollectInv
<1>3. UNCHANGED <<pc, selected, left, names>> /\ gone[a] \subseteq gone'[a]
  BY RegistryFrame
<1>4. ASSUME Lists(a), n \notin gone'[a]
      PROVE  table[n] # NoEntry /\ table'[n] # NoEntry /\ table'[n].toolset = table[n].toolset
  BY <1>1, <1>2, <1>3, <1>4, TableStep DEF CollectAt
<1> QED BY <1>2, <1>3, <1>4 DEF CollectAt, Lists

\* And under a step of the agent.
LEMMA CollectAgentStep ==
  ASSUME TypeOK, CollectInv, NEW a \in Agents, NEW n \in Names, AgentStep(a)
  PROVE  CollectAt(a, n)'
<1>0. ListingTypeOK /\ CallTypeOK /\ RegistryTypeOK
  BY Zenon DEF TypeOK, ListingTypeOK, CallTypeOK, RegistryTypeOK
<1>1. CollectAt(a, n)
  BY DEF CollectInv
<1>2. table' = table
  BY AgentFrame
<1> USE DEF CollectAt, Lists, listingVars
<1>3. ASSUME NEW enabled \in SUBSET Toolsets, NEW disabled \in SUBSET Toolsets,
             Resolve(a, enabled, disabled)
      PROVE  CollectAt(a, n)'
  <2>1. CASE enabled \cup disabled \subseteq Known
    <3>1. /\ pc[a] = "new" /\ pc'[a] = "selecting" /\ gone'[a] = Absent
          /\ left'[a] = selected'[a] /\ names' = names
      BY <1>0, <1>3, <2>1 DEF Resolve, ListingTypeOK
    <3>2. n \notin gone'[a] => table'[n] # NoEntry
      BY <1>2, <3>1 DEF Absent
    <3> QED BY <1>1, <3>1, <3>2
  <2>2. CASE ~(enabled \cup disabled \subseteq Known)
    BY <1>0, <1>1, <1>3, <2>2 DEF Resolve, ListingTypeOK
  <2> QED BY <2>1, <2>2
<1>4. ASSUME NEW t \in Toolsets, Collect(a, t)
      PROVE  CollectAt(a, n)'
  <2>1. /\ pc[a] = "selecting" /\ t \in left[a]
        /\ left'[a] = left[a] \ {t} /\ names'[a] = names[a] \cup InToolset(t)
        /\ UNCHANGED <<pc, selected, gone>>
    BY <1>0, <1>4 DEF Collect, ListingTypeOK
  <2>2. n \in InToolset(t) <=> table[n] # NoEntry /\ table[n].toolset = t
    BY DEF InToolset
  <2> QED BY <1>1, <1>2, <2>1, <2>2
<1>5. ASSUME TakeEntries(a)
      PROVE  CollectAt(a, n)'
  <2>1. /\ pc[a] = "selecting" /\ left[a] = {} /\ pc'[a] = "probing"
        /\ UNCHANGED <<selected, left, names, gone>>
    BY <1>0, <1>5 DEF TakeEntries, ListingTypeOK
  <2> QED BY <1>1, <1>2, <2>1
<1>6. ASSUME NEW m \in Names, Consider(a, m)
      PROVE  CollectAt(a, n)'
  <2>1. /\ pc[a] = "probing" /\ names'[a] \subseteq names[a]
        /\ UNCHANGED <<pc, selected, left, gone>>
    BY <1>0, <1>6 DEF Consider, ListingTypeOK
  <2> QED BY <1>1, <1>2, <2>1
<1>7. ASSUME KeepTools(a)
      PROVE  CollectAt(a, n)'
  <2>1. pc[a] = "probing" /\ pc'[a] = "ready" /\ left' = left
    BY <1>0, <1>7 DEF KeepTools, Listed, ListingTypeOK
  <2> QED BY <1>1, <2>1
<1>8. ASSUME CallStep(a)
      PROVE  CollectAt(a, n)'
  <2>1. UNCHANGED <<pc, selected, left, names, gone>>
    BY <1>8 DEF CallStep, RefuseCall, LookUp, HandlerReturns, HandlerRaises, CancelCall
  <2> QED BY <1>1, <1>2, <2>1
<1> QED BY <1>3, <1>4, <1>5, <1>6, <1>7, <1>8, Zenon DEF AgentStep, ListingStep

LEMMA CollectStep == IInv /\ [Next]_vars => CollectInv'
<1> SUFFICES ASSUME TypeOK, LockInv, CollectInv, [Next]_vars, NEW a \in Agents, NEW n \in Names
             PROVE  CollectAt(a, n)'
  BY DEF IInv, CollectInv
<1>1. CollectAt(a, n)
  BY DEF CollectInv
<1>2. ASSUME NEW b \in Agents, AgentStep(b), b # a
      PROVE  CollectAt(a, n)'
  BY <1>1, <1>2, AgentFrame DEF CollectAt, Lists
<1>3. CASE UNCHANGED AllVars
  BY <1>1, <1>3 DEF AllVars, CollectAt, Lists
<1> QED BY StepKinds, CollectRegistryStep, CollectAgentStep, <1>2, <1>3, Zenon
-----------------------------------------------------------------------------
\* What was decided of a snapshot stays true of it under a thread's step.
LEMMA DecideRegistryStep ==
  ASSUME TypeOK, LockInv, CollectInv, DecideInv, RegistryStep, NEW a \in Agents, NEW n \in Names
  PROVE  DecideAt(a, n)'
<1>1. [Next]_vars
  BY Zenon DEF Next, RegistryStep
<1>2. CollectAt(a, n) /\ DecideAt(a, n)
  BY DEF CollectInv, DecideInv
<1>3. UNCHANGED <<pc, selected, names, entries, answers, offered>> /\ gone[a] \subseteq gone'[a]
  BY RegistryFrame
<1>4. ASSUME pc[a] = "probing", n \notin gone'[a]
      PROVE  table'[n] # NoEntry /\ table'[n].toolset = table[n].toolset
  BY <1>1, <1>2, <1>3, <1>4, TableStep DEF CollectAt, Lists
<1>5. Decided(a, n)' <=> Decided(a, n)
  BY <1>3 DEF Decided, Available
<1>6. Available(a, n)' <=> Available(a, n)
  BY <1>3 DEF Available
<1> HIDE DEF Available, Decided
<1> QED BY <1>2, <1>3, <1>4, <1>5, <1>6 DEF DecideAt, Keeps

\* Considering a name changes the answer of no probe that was asked, and decides the name.
LEMMA ConsiderStep ==
  ASSUME TypeOK, DecideInv, NEW a \in Agents, NEW m \in Names, Consider(a, m),
         NEW n \in Names
  PROVE  /\ pc[a] = "probing"
         /\ UNCHANGED <<pc, selected, entries, gone>>
         /\ names'[a] = names[a] \ {m}
         /\ \A p \in Probes : answers[a][p] # "unasked" => answers'[a][p] = answers[a][p]
         /\ m # n => offered'[a][n] = offered[a][n]
         /\ entries[a][m] = NoEntry => offered'[a][m] = offered[a][m]
         /\ entries[a][m] # NoEntry => Decided(a, m)'
         /\ offered'[a][m] = offered[a][m]
              \/ (offered'[a][m] = entries[a][m] /\ Available(a, m)')
<1>0. ListingTypeOK
  BY Zenon DEF TypeOK, ListingTypeOK
<1>1. /\ pc[a] = "probing"
      /\ UNCHANGED <<pc, selected, entries, gone>>
      /\ names'[a] = names[a] \ {m}
  BY <1>0 DEF Consider, ListingTypeOK
<1>2. CASE entries[a][m] = NoEntry
  <2>1. UNCHANGED <<answers, offered>>
    BY <1>2 DEF Consider, SkipMissing
  <2> QED BY <1>1, <1>2, <2>1
<1>3. CASE entries[a][m] # NoEntry /\ entries[a][m].probe = NoProbe
  <2>1. offered' = [offered EXCEPT ![a][m] = entries[a][m]] /\ answers' = answers
    BY <1>3 DEF Consider, SkipMissing, Offer
  <2>2. offered'[a][m] = entries[a][m] /\ (m # n => offered'[a][n] = offered[a][n])
    BY <1>0, <2>1 DEF ListingTypeOK, Table
  <2> QED BY <1>1, <1>3, <2>1, <2>2 DEF Decided, Available
<1>4. CASE entries[a][m] # NoEntry /\ entries[a][m].probe # NoProbe
  <2> DEFINE probe == entries[a][m].probe
  <2>1. probe \in Probes
    BY <1>0, <1>4 DEF ListingTypeOK, Table, Entry
  <2>2. PICK said \in {"yes", "no"} :
          /\ answers[a][probe] \in {"unasked", said}
          /\ answers' = [answers EXCEPT ![a][probe] = said]
          /\ IF said = "yes" THEN Offer(a, m) ELSE UNCHANGED offered
    BY <1>4 DEF Consider, SkipMissing, MaySay
  <2>3. answers'[a][probe] = said
    BY <1>0, <2>1, <2>2 DEF ListingTypeOK
  <2>4. \A p \in Probes : answers[a][p] # "unasked" => answers'[a][p] = answers[a][p]
    BY <1>0, <2>1, <2>2 DEF ListingTypeOK
  <2>5. CASE said = "yes"
    <3>1. offered' = [offered EXCEPT ![a][m] = entries[a][m]]
      BY <2>2, <2>5 DEF Offer
    <3>2. offered'[a][m] = entries[a][m] /\ (m # n => offered'[a][n] = offered[a][n])
      BY <1>0, <3>1 DEF ListingTypeOK, Table
    <3> QED BY <1>1, <1>4, <2>3, <2>4, <2>5, <3>2 DEF Decided, Available
  <2>6. CASE said = "no"
    <3>1. offered' = offered
      BY <2>2, <2>6
    <3> QED BY <1>1, <1>4, <2>3, <2>4, <2>6, <3>1 DEF Decided, Available
  <2> QED BY <2>5, <2>6
<1> QED BY <1>2, <1>3, <1>4

\* And under a step of the agent.
LEMMA DecideAgentStep ==
  ASSUME TypeOK, OfferInv, CollectInv, DecideInv, NEW a \in Agents, NEW n \in Names, AgentStep(a)
  PROVE  DecideAt(a, n)'
<1>0. ListingTypeOK /\ RegistryTypeOK
  BY Zenon DEF TypeOK, ListingTypeOK, RegistryTypeOK
<1>1. OfferAt(a, n) /\ CollectAt(a, n) /\ DecideAt(a, n)
  BY DEF OfferInv, CollectInv, DecideInv
<1>2. table' = table
  BY AgentFrame
<1>3. ASSUME NEW enabled \in SUBSET Toolsets, NEW disabled \in SUBSET Toolsets,
             Resolve(a, enabled, disabled)
      PROVE  DecideAt(a, n)'
  <2>1. pc'[a] \in {"selecting", "misconfigured"}
    BY <1>0, <1>3 DEF Resolve, ListingTypeOK
  <2> QED BY <2>1 DEF DecideAt
<1>4. ASSUME NEW t \in Toolsets, Collect(a, t)
      PROVE  DecideAt(a, n)'
  <2>1. pc'[a] = "selecting"
    BY <1>4 DEF Collect
  <2> QED BY <2>1 DEF DecideAt
<1>5. ASSUME TakeEntries(a)
      PROVE  DecideAt(a, n)'
  <2>1. /\ pc[a] = "selecting" /\ left[a] = {} /\ entries'[a] = table
        /\ UNCHANGED <<selected, names, offered, gone>>
    BY <1>0, <1>5 DEF TakeEntries, ListingTypeOK, listingVars
  <2>2. offered'[a][n] = NoEntry
    BY <1>1, <2>1 DEF OfferAt, HasEntries
  <2>3. n \notin gone'[a] => table[n] # NoEntry /\ Keeps(n, entries[a][n])'
    BY <1>1, <1>2, <2>1 DEF CollectAt, Lists, Keeps
  <2>4. n \notin gone'[a] /\ table'[n].toolset \in selected'[a] => n \in names'[a]
    BY <1>1, <1>2, <2>1 DEF CollectAt
  <2> QED BY <1>2, <2>1, <2>2, <2>3, <2>4 DEF DecideAt, Keeps
<1>6. ASSUME NEW m \in Names, Consider(a, m)
      PROVE  DecideAt(a, n)'
  <2>1. /\ pc[a] = "probing"
        /\ UNCHANGED <<pc, selected, entries, gone>>
        /\ names'[a] = names[a] \ {m} /\ m \in names[a]
    BY <1>6, ConsiderStep DEF Consider
  <2>2. n \notin gone'[a] => entries'[a][n] # NoEntry /\ Keeps(n, entries[a][n])'
    BY <1>1, <1>2, <2>1 DEF DecideAt, Keeps
  <2>3. entries[a][n] # NoEntry /\ entries[a][n].probe # NoProbe => entries[a][n].probe \in Probes
    BY <1>0 DEF ListingTypeOK, Table, Entry
  <2>4. Available(a, n) => Available(a, n)'
    BY <1>6, <2>1, <2>3, ConsiderStep DEF Available
  <2>5. CASE m = n
    <3>1. n \notin gone[a] => Decided(a, n)'
      BY <1>1, <1>6, <2>1, <2>5, ConsiderStep DEF DecideAt
    <3>2. n \notin gone[a] => table[n].toolset \in selected[a] /\ Keeps(n, entries[a][n])
      BY <1>1, <2>1, <2>5 DEF DecideAt, CollectAt, Lists
    <3>3. offered'[a][n] # NoEntry => offered'[a][n] = entries[a][n] /\ Available(a, n)'
      BY <1>1, <1>6, <2>1, <2>4, <2>5, ConsiderStep DEF DecideAt
    <3> HIDE DEF Available, Decided
    <3> QED BY <2>1, <2>2, <3>1, <3>2, <3>3 DEF DecideAt, Keeps
  <2>6. CASE m # n
    <3>1. offered'[a][n] = offered[a][n]
      BY <1>6, <2>6, ConsiderStep
    <3>2. Decided(a, n) /\ entries[a][n] # NoEntry => Decided(a, n)'
      <4>1. CASE entries[a][n].probe = NoProbe
        BY <2>1, <3>1, <4>1 DEF Decided, Available
      <4>2. ASSUME entries[a][n].probe # NoProbe, Decided(a, n), entries[a][n] # NoEntry
            PROVE  Decided(a, n)'
        <5>1. answers'[a][entries[a][n].probe] = answers[a][entries[a][n].probe]
          BY <1>6, <2>3, <4>2, ConsiderStep DEF Decided
        <5> QED BY <2>1, <3>1, <4>2, <5>1 DEF Decided, Available
      <4> QED BY <4>1, <4>2
    <3> HIDE DEF Available, Decided
    <3> QED BY <1>1, <1>2, <2>1, <2>2, <2>4, <2>6, <3>1, <3>2 DEF DecideAt
  <2> QED BY <2>5, <2>6
<1>7. ASSUME KeepTools(a)
      PROVE  DecideAt(a, n)'
  <2>1. pc'[a] = "ready"
    BY <1>0, <1>7 DEF KeepTools, ListingTypeOK
  <2> QED BY <2>1 DEF DecideAt
<1>8. ASSUME CallStep(a)
      PROVE  DecideAt(a, n)'
  <2>1. pc[a] = "ready" /\ pc' = pc
    BY <1>1, <1>8 DEF CallStep, RefuseCall, LookUp, HandlerReturns, HandlerRaises, CancelCall,
                      Runs, OfferAt
  <2> QED BY <2>1 DEF DecideAt
<1> QED BY <1>3, <1>4, <1>5, <1>6, <1>7, <1>8, Zenon DEF AgentStep, ListingStep

LEMMA DecideStep == IInv /\ [Next]_vars => DecideInv'
<1> SUFFICES ASSUME TypeOK, LockInv, OfferInv, CollectInv, DecideInv, [Next]_vars,
                    NEW a \in Agents, NEW n \in Names
             PROVE  DecideAt(a, n)'
  BY DEF IInv, DecideInv
<1>1. DecideAt(a, n)
  BY DEF DecideInv
<1>2. ASSUME NEW b \in Agents, AgentStep(b), b # a
      PROVE  DecideAt(a, n)'
  BY <1>1, <1>2, AgentFrame DEF DecideAt, Decided, Available, Keeps
<1>3. CASE UNCHANGED AllVars
  BY <1>1, <1>3 DEF AllVars, DecideAt, Decided, Available, Keeps
<1> QED BY StepKinds, DecideRegistryStep, DecideAgentStep, <1>2, <1>3, Zenon

\* A call keeps reaching its tool.
LEMMA CallStepInv == IInv /\ [Next]_vars => CallInv'
<1> SUFFICES ASSUME TypeOK, OfferInv, CallInv, [Next]_vars, NEW a \in Agents
             PROVE  CallAt(a)'
  BY DEF IInv, CallInv
<1>0. ListingTypeOK /\ CallTypeOK /\ RegistryTypeOK
  BY Zenon DEF TypeOK, ListingTypeOK, CallTypeOK, RegistryTypeOK
<1>1. CallAt(a)
  BY DEF CallInv
<1>2. CASE RegistryStep
  <2>1. UNCHANGED <<offered, call>> /\ removed[a] \subseteq removed'[a]
    BY <1>2, RegistryFrame
  <2> QED BY <1>1, <2>1 DEF CallAt
<1>3. ASSUME NEW b \in Agents, AgentStep(b), b # a
      PROVE  CallAt(a)'
  BY <1>1, <1>3, AgentFrame DEF CallAt
<1>4. ASSUME ListingStep(a)
      PROVE  CallAt(a)'
  <2>1. pc[a] # "ready" /\ call' = call
    BY <1>4 DEF ListingStep, Resolve, Collect, TakeEntries, Consider, KeepTools, Listed
  <2>2. ASSUME NEW n \in Names
        PROVE  call[a] = NoCall
    BY <2>1, <2>2 DEF OfferInv, OfferAt
  <2>3. call[a] # NoCall => call[a].name \in Names
    BY <1>0 DEF CallTypeOK, Call
  <2> QED BY <2>1, <2>2, <2>3 DEF CallAt
<1>5. ASSUME NEW n \in Names, RefuseCall(a, n)
      PROVE  CallAt(a)'
  <2>1. call'[a] = [name |-> n, entry |-> NoEntry, answer |-> "refused"]
    BY <1>0, <1>5 DEF RefuseCall, CallTypeOK
  <2> QED BY <2>1 DEF CallAt
<1>6. ASSUME NEW n \in Names, LookUp(a, n)
      PROVE  CallAt(a)'
  <2>1. /\ call'[a] = [name |-> n, entry |-> table[n],
                       answer |-> IF table[n] = NoEntry THEN "unknown" ELSE "none"]
        /\ pc[a] = "ready" /\ offered[a][n] # NoEntry
        /\ UNCHANGED <<offered, removed>>
    BY <1>0, <1>6 DEF LookUp, CallTypeOK
  <2>2. n \notin removed[a] => table[n] # NoEntry /\ table[n].toolset = offered[a][n].toolset
    BY <2>1 DEF OfferInv, OfferAt, HasEntries, Keeps
  <2> QED BY <2>1, <2>2 DEF CallAt
<1>7. ASSUME NEW how \in Answers \ {"unknown"}, Runs(a), Answer(a, how)
      PROVE  CallAt(a)'
  <2>1. call[a] \in Call
    BY <1>0, <1>7 DEF Runs, CallTypeOK
  <2>2. call'[a] = [call[a] EXCEPT !.entry = NoEntry, !.answer = how]
    BY <1>0, <1>7 DEF Answer, CallTypeOK
  <2>3. call'[a].entry = NoEntry /\ call'[a].answer = how
    BY <2>1, <2>2 DEF Call
  <2> QED BY <2>3 DEF CallAt
<1>8. ASSUME HandlerReturns(a) \/ HandlerRaises(a) \/ CancelCall(a)
      PROVE  CallAt(a)'
  <2>1. \A result \in {"text", "too deep", "no text"} : Normalized(result) \in Answers \ {"unknown"}
    BY DEF Normalized, Answers
  <2>2. "error" \in Answers \ {"unknown"} /\ "cancelled" \in Answers \ {"unknown"}
    BY DEF Answers
  <2> QED BY <1>7, <1>8, <2>1, <2>2, Zenon DEF HandlerReturns, HandlerRaises, CancelCall
<1>9. CASE UNCHANGED AllVars
  BY <1>1, <1>9 DEF AllVars, CallAt
<1> QED BY StepKinds, <1>2, <1>3, <1>4, <1>5, <1>6, <1>8, <1>9, Zenon DEF AgentStep, CallStep

\* The invariant holds in every state.
LEMMA RegistryInvariant == Spec => []IInv
<1>1. IInv /\ [Next]_vars => IInv'
  BY TypeStep, LockStep, OfferStep, CollectStep, DecideStep, CallStepInv DEF IInv
<1> QED BY RegistryInit, <1>1, PTL DEF Spec
-----------------------------------------------------------------------------
\* The theorems.

\* Whatever threads register at the same time, no tool is replaced by one of another
\* toolset while it is registered.
THEOREM NoTakeover == Spec => NoShadowing
<1> DEFINE KeepsToolsets ==
      \A n \in Names :
        table[n] # NoEntry /\ table'[n] # NoEntry => table'[n].toolset = table[n].toolset
<1>1. IInv /\ [Next]_vars => [KeepsToolsets]_vars
  BY TableStep DEF IInv
<1> QED BY <1>1, RegistryInvariant, PTL DEF Spec, NoShadowing

\* A finished listing offers what it should, although it reads the registry several times
\* while threads write it.
THEOREM ListingsTrue == Spec => []OffersAreTrue
<1>1. IInv => OffersAreTrue
  <2> SUFFICES ASSUME IInv, NEW a \in Agents, NEW n \in Names, Listed(a)
               PROVE  /\ offered[a][n] # NoEntry => Available(a, n)
                      /\ offered[a][n] # NoEntry /\ n \notin gone[a] =>
                           offered[a][n].toolset \in selected[a]
                      /\ n \notin gone[a] /\ table[n].toolset \in selected[a] /\ Available(a, n) =>
                           offered[a][n] # NoEntry
    BY Zenon DEF OffersAreTrue
  <2>1. DecideAt(a, n)
    BY DEF IInv, DecideInv
  <2> QED BY <2>1 DEF Listed, DecideAt, Decided
<1> QED BY <1>1, RegistryInvariant, PTL

\* A call runs a tool of the toolset it was offered from, or the name was removed.
THEOREM CallsReach == Spec => []CallsReachTheirTool
<1>1. IInv => CallsReachTheirTool
  BY DEF IInv, CallInv, CallAt, CallsReachTheirTool
<1> QED BY <1>1, RegistryInvariant, PTL
=============================================================================
