---------------------------- MODULE ToolRegistry ----------------------------
(***************************************************************************)
(* The registry of tools.  Threads declare tools in it and remove them; an *)
(* agent lists those of the toolsets it is configured with when it is      *)
(* made, offers them to its model, and later runs the ones the model calls *)
(* by looking their names up again.                                        *)
(*                                                                         *)
(* A lock guards every access to the table, but a listing takes it several *)
(* times: once to know the toolsets, once for each toolset it selects and  *)
(* once for the declarations.                                              *)
(***************************************************************************)
CONSTANTS
  Names,      \* names of tools
  Toolsets,   \* groups of tools
  Probes,     \* availability checks, which tools may share
  NoProbe,    \* a tool without one
  NoEntry,    \* a name nobody registered
  Threads,    \* threads that register tools
  Nobody,     \* the holder of a free lock
  Agents,     \* agents that use the registry
  NoRequest,  \* a thread that registers nothing
  NoCall      \* an agent whose model has called nothing yet

\* A declaration: of its schema and handler nothing matters here but whose they are.
Entry == [toolset : Toolsets, probe : Probes \cup {NoProbe}]
Table == [Names -> Entry \cup {NoEntry}]
Request == [name : Names, entry : Entry, existing : Entry \cup {NoEntry}]
Answers == {"none", "result", "error", "unknown", "refused", "raised", "cancelled"}
Call == [name : Names, entry : Entry \cup {NoEntry}, answer : Answers]

ASSUME NullAssumption ==
  /\ NoEntry \notin Entry /\ NoRequest \notin Request /\ NoCall \notin Call
  /\ Nobody \notin Threads /\ NoProbe \notin Probes

VARIABLES
  table,     \* the entry of each name
  lock,      \* the thread that holds the lock across two steps, or Nobody
  request,   \* the registration each thread is at
  pc,        \* where an agent is: "new", "selecting", "probing"; then "ready",
             \* or "misconfigured" for ever
  selected,  \* the toolsets its listing selects
  left,      \* those whose names it has still to collect
  names,     \* the names collected and not yet considered
  entries,   \* the snapshot it reads declarations from
  answers,   \* what the probes it has run said
  offered,   \* the tools it offers
  call,      \* the last call of its model
  gone,      \* history variable: names absent at some moment since its listing began
  removed    \* history variable: names deregistered since it took its snapshot

registryVars == <<table, lock, request>>
listingVars == <<selected, left, names, entries, answers>>
vars == <<registryVars, pc, listingVars, offered, call, gone, removed>>

NoTable == [n \in Names |-> NoEntry]
Unasked == [p \in Probes |-> "unasked"]

Init ==
  /\ table = NoTable
  /\ lock = Nobody
  /\ request = [r \in Threads |-> NoRequest]
  /\ pc = [a \in Agents |-> "new"]
  /\ selected = [a \in Agents |-> {}]
  /\ left = [a \in Agents |-> {}]
  /\ names = [a \in Agents |-> {}]
  /\ entries = [a \in Agents |-> NoTable]
  /\ answers = [a \in Agents |-> Unasked]
  /\ offered = [a \in Agents |-> NoTable]
  /\ call = [a \in Agents |-> NoCall]
  /\ gone = [a \in Agents |-> {}]
  /\ removed = [a \in Agents |-> {}]

InToolset(t) == {n \in Names : table[n] # NoEntry /\ table[n].toolset = t}
Known == {t \in Toolsets : InToolset(t) # {}}
Absent == {n \in Names : table[n] = NoEntry}

\* An agent is at its listing; it has taken the snapshot its tools come from.
Lists(a) == pc[a] \in {"selecting", "probing"}
HasEntries(a) == pc[a] \in {"probing", "ready"}
-----------------------------------------------------------------------------
\* Threads: register and deregister.  A malformed declaration is refused before the lock
\* is taken and changes nothing.

\* Mutant of Look: the name is looked up outside the lock.
LookUnlocked(r, n, e) ==
  /\ request[r] = NoRequest
  /\ request' = [request EXCEPT ![r] = [name |-> n, entry |-> e, existing |-> table[n]]]
  /\ UNCHANGED <<table, lock, pc, listingVars, offered, call, gone, removed>>

Look(r, n, e) ==
  /\ lock = Nobody
  /\ lock' = r
  /\ request' = [request EXCEPT ![r] = [name |-> n, entry |-> e, existing |-> table[n]]]
  /\ UNCHANGED <<table, pc, listingVars, offered, call, gone, removed>>

Shadows(q) == q.existing # NoEntry /\ q.existing.toolset # q.entry.toolset

Store(r) ==
  /\ request[r] # NoRequest
  /\ ~Shadows(request[r])
  /\ table' = [table EXCEPT ![request[r].name] = request[r].entry]
  /\ lock' = Nobody
  /\ request' = [request EXCEPT ![r] = NoRequest]
  /\ UNCHANGED <<pc, listingVars, offered, call, gone, removed>>

RefuseShadow(r) ==
  /\ request[r] # NoRequest
  /\ Shadows(request[r])
  /\ lock' = Nobody
  /\ request' = [request EXCEPT ![r] = NoRequest]
  /\ UNCHANGED <<table, pc, listingVars, offered, call, gone, removed>>

Deregister(n) ==
  /\ lock = Nobody
  /\ table[n] # NoEntry
  /\ table' = [table EXCEPT ![n] = NoEntry]
  /\ gone' = [a \in Agents |-> IF Lists(a) THEN gone[a] \cup {n} ELSE gone[a]]
  /\ removed' = [a \in Agents |-> IF HasEntries(a) THEN removed[a] \cup {n} ELSE removed[a]]
  /\ UNCHANGED <<lock, request, pc, listingVars, offered, call>>
-----------------------------------------------------------------------------
\* An agent lists its tools: select_tool_names and get_definitions.

Resolve(a, enabled, disabled) ==
  /\ pc[a] = "new"
  /\ lock = Nobody
  /\ IF enabled \cup disabled \subseteq Known
       THEN /\ pc' = [pc EXCEPT ![a] = "selecting"]
            /\ selected' = [selected EXCEPT ![a] = enabled \ disabled]
            /\ left' = [left EXCEPT ![a] = enabled \ disabled]
            /\ gone' = [gone EXCEPT ![a] = Absent]
       ELSE /\ pc' = [pc EXCEPT ![a] = "misconfigured"]
            /\ UNCHANGED <<selected, left, gone>>
  /\ UNCHANGED <<registryVars, names, entries, answers, offered, call, removed>>

Collect(a, t) ==
  /\ pc[a] = "selecting"
  /\ lock = Nobody
  /\ t \in left[a]
  /\ left' = [left EXCEPT ![a] = @ \ {t}]
  /\ names' = [names EXCEPT ![a] = @ \cup InToolset(t)]
  /\ UNCHANGED <<registryVars, pc, selected, entries, answers, offered, call, gone, removed>>

TakeEntries(a) ==
  /\ pc[a] = "selecting"
  /\ lock = Nobody
  /\ left[a] = {}
  /\ pc' = [pc EXCEPT ![a] = "probing"]
  /\ entries' = [entries EXCEPT ![a] = table]
  /\ UNCHANGED <<registryVars, selected, left, names, answers, offered, call, gone, removed>>

\* Mutant of MaySay: what a probe said is not kept.
MaySayAgain(a, p, said) == said \in {"yes", "no"}

\* A probe runs once in a listing; raising is a no.
MaySay(a, p, said) == said \in {"yes", "no"} /\ answers[a][p] \in {"unasked", said}

Offer(a, n) == offered' = [offered EXCEPT ![a][n] = entries[a][n]]

\* A name deregistered since it was collected is passed over.
SkipMissing(a, n) == entries[a][n] = NoEntry /\ UNCHANGED <<answers, offered>>

Consider(a, n) ==
  /\ pc[a] = "probing"
  /\ n \in names[a]
  /\ names' = [names EXCEPT ![a] = @ \ {n}]
  /\ \/ SkipMissing(a, n)
     \/ /\ entries[a][n] # NoEntry
        /\ entries[a][n].probe = NoProbe
        /\ Offer(a, n)
        /\ UNCHANGED answers
     \/ /\ entries[a][n] # NoEntry
        /\ entries[a][n].probe # NoProbe
        /\ \E said \in {"yes", "no"} :
             /\ MaySay(a, entries[a][n].probe, said)
             /\ answers' = [answers EXCEPT ![a][entries[a][n].probe] = said]
             /\ IF said = "yes" THEN Offer(a, n) ELSE UNCHANGED offered
  /\ UNCHANGED <<registryVars, pc, selected, left, entries, call, gone, removed>>

Listed(a) == pc[a] = "probing" /\ names[a] = {}

\* Agent.__init__ keeps the list, and the rest of the listing is forgotten.
KeepTools(a) ==
  /\ Listed(a)
  /\ pc' = [pc EXCEPT ![a] = "ready"]
  /\ selected' = [selected EXCEPT ![a] = {}]
  /\ entries' = [entries EXCEPT ![a] = NoTable]
  /\ answers' = [answers EXCEPT ![a] = Unasked]
  /\ gone' = [gone EXCEPT ![a] = {}]
  /\ UNCHANGED <<registryVars, left, names, offered, call, removed>>
-----------------------------------------------------------------------------
\* Its model calls a tool: handle_function_call and dispatch.

Runs(a) == call[a] # NoCall /\ call[a].answer = "none"

Answer(a, how) == call' = [call EXCEPT ![a].entry = NoEntry, ![a].answer = how]

RefuseCall(a, n) ==
  /\ pc[a] = "ready" /\ ~Runs(a)
  /\ offered[a][n] = NoEntry
  /\ call' = [call EXCEPT ![a] = [name |-> n, entry |-> NoEntry, answer |-> "refused"]]
  /\ UNCHANGED <<registryVars, pc, listingVars, offered, gone, removed>>

\* Mutant of LookUp: the name is looked up without asking whether it was offered.
LookUpAny(a, n) ==
  /\ pc[a] = "ready" /\ ~Runs(a)
  /\ lock = Nobody
  /\ call' = [call EXCEPT ![a] =
       [name |-> n, entry |-> table[n],
        answer |-> IF table[n] = NoEntry THEN "unknown" ELSE "none"]]
  /\ UNCHANGED <<registryVars, pc, listingVars, offered, gone, removed>>

LookUp(a, n) ==
  /\ pc[a] = "ready" /\ ~Runs(a)
  /\ lock = Nobody
  /\ offered[a][n] # NoEntry
  /\ call' = [call EXCEPT ![a] =
       [name |-> n, entry |-> table[n],
        answer |-> IF table[n] = NoEntry THEN "unknown" ELSE "none"]]
  /\ UNCHANGED <<registryVars, pc, listingVars, offered, gone, removed>>

\* What dispatch makes of what a handler returned: text passes, an error text nested too
\* deep for the parser raises past it, anything else is an error.
Normalized(result) ==
  CASE result = "text" -> "result"
    [] result = "too deep" -> "raised"
    [] result = "no text" -> "error"

HandlerReturns(a) ==
  /\ Runs(a)
  /\ \E result \in {"text", "too deep", "no text"} : Answer(a, Normalized(result))
  /\ UNCHANGED <<registryVars, pc, listingVars, offered, gone, removed>>

HandlerRaises(a) ==
  /\ Runs(a)
  /\ Answer(a, "error")
  /\ UNCHANGED <<registryVars, pc, listingVars, offered, gone, removed>>

CancelCall(a) ==
  /\ Runs(a)
  /\ Answer(a, "cancelled")
  /\ UNCHANGED <<registryVars, pc, listingVars, offered, gone, removed>>
-----------------------------------------------------------------------------
ThreadStep(r) == Store(r) \/ RefuseShadow(r)

ListingStep(a) ==
  \/ \E enabled, disabled \in SUBSET Toolsets : Resolve(a, enabled, disabled)
  \/ \E t \in Toolsets : Collect(a, t)
  \/ TakeEntries(a)
  \/ \E n \in Names : Consider(a, n)
  \/ KeepTools(a)

CallStep(a) ==
  \/ \E n \in Names : RefuseCall(a, n) \/ LookUp(a, n)
  \/ HandlerReturns(a) \/ HandlerRaises(a) \/ CancelCall(a)

Next ==
  \/ \E r \in Threads, n \in Names, e \in Entry : Look(r, n, e)
  \/ \E r \in Threads : ThreadStep(r)
  \/ \E n \in Names : Deregister(n)
  \/ \E a \in Agents : ListingStep(a) \/ CallStep(a)

Spec == Init /\ [][Next]_vars
-----------------------------------------------------------------------------
\* Properties.

TypeOK ==
  /\ table \in Table
  /\ lock \in Threads \cup {Nobody}
  /\ request \in [Threads -> Request \cup {NoRequest}]
  /\ pc \in [Agents -> {"new", "selecting", "probing", "ready", "misconfigured"}]
  /\ selected \in [Agents -> SUBSET Toolsets]
  /\ left \in [Agents -> SUBSET Toolsets]
  /\ names \in [Agents -> SUBSET Names]
  /\ entries \in [Agents -> Table]
  /\ answers \in [Agents -> [Probes -> {"unasked", "yes", "no"}]]
  /\ offered \in [Agents -> Table]
  /\ call \in [Agents -> Call \cup {NoCall}]
  /\ gone \in [Agents -> SUBSET Names]
  /\ removed \in [Agents -> SUBSET Names]

\* register's refusal: whatever threads register at the same time, a tool is never
\* replaced by one of another toolset while it is registered.
NoShadowing ==
  [][\A n \in Names :
       table[n] # NoEntry /\ table'[n] # NoEntry => table'[n].toolset = table[n].toolset]_vars

Available(a, n) ==
  /\ entries[a][n] # NoEntry
  /\ entries[a][n].probe # NoProbe => answers[a][entries[a][n].probe] = "yes"

\* What an agent is made with, though it reads the registry several times while threads
\* write it: only tools of the toolsets it selects and, of those, every available one,
\* but for names that were missing from the registry at some moment of the listing; and
\* tools that share a probe are offered together.
OffersAreTrue ==
  \A a \in Agents, n \in Names : Listed(a) =>
    /\ offered[a][n] # NoEntry => Available(a, n)
    /\ offered[a][n] # NoEntry /\ n \notin gone[a] => offered[a][n].toolset \in selected[a]
    /\ n \notin gone[a] /\ table[n].toolset \in selected[a] /\ Available(a, n) =>
         offered[a][n] # NoEntry

\* A call runs a tool that was offered, and the toolset whose handler runs is the one the
\* offer came from; unless the name was deregistered after it was offered, which is the
\* only reason for a tool to be unknown.
CallsReachTheirTool ==
  \A a \in Agents : call[a] # NoCall =>
    LET n == call[a].name IN
      /\ call[a].entry # NoEntry =>
           /\ offered[a][n] # NoEntry
           /\ n \notin removed[a] => call[a].entry.toolset = offered[a][n].toolset
      /\ call[a].answer = "unknown" => n \in removed[a]
=============================================================================
