---------------------------- MODULE SearchWorker ----------------------------
(***************************************************************************)
(* One call of the web_search tool with the ddgs provider: a search runs   *)
(* in a child process that the parent polls, under a deadline and a stop,  *)
(* and terminates, kills and reaps when it is over.                        *)
(*                                                                         *)
(* The parent's code is atomic between its awaits; the child, the process  *)
(* it may have started, timers and whoever asks for a stop are not bound   *)
(* by that.                                                                *)
(***************************************************************************)
EXTENDS Naturals

VARIABLES
  pc,          \* the await of the search: "ready", "spawning", "polling", "reaping" or
               \* "over"; "checking" and "ending" are places of its code between awaits
  ending,      \* why the polling ended: "none", "finished", "stopped", "expired", "cancelled"
  outcome,     \* what the tool returned: "none", "hits", "failed", "timed out", "interrupted",
               \* "refused"; or "cancelled" when it raised
  stage,       \* signals tried by _terminate_and_reap, 2 of them at most
  child,       \* "none", "running", "dead", or "reaped": its return code is known
  output,      \* what the child wrote: "none", "hits", or anything "else"
  grandchild,  \* a process the child started runs and holds the child's output open
  signals,     \* the signals the child was sent
  communicate, \* the task that reads the output: "none", "pending", "done", "cancelled"
  expired,     \* the deadline is past
  stop,        \* the interrupt flag
  stopSeen,    \* history variable: a stop was requested at some time in the search
  cutShort     \* history variable: the search was cancelled while it reaped its child

parentVars == <<pc, ending, outcome, stage, communicate>>
childVars == <<child, output, grandchild, signals>>
stopVars == <<stop, stopSeen>>
vars == <<parentVars, childVars, expired, stopVars, cutShort>>

\* The event loop is free to run callbacks and other tasks.
LoopIsFree == pc \in {"ready", "spawning", "polling", "reaping", "over"}

Init ==
  /\ pc = "ready" /\ ending = "none" /\ outcome = "none" /\ stage = 0
  /\ child = "none" /\ output = "none" /\ grandchild = FALSE /\ signals = {}
  /\ communicate = "none"
  /\ expired = FALSE
  /\ stop \in BOOLEAN
  /\ stopSeen = stop
  /\ cutShort = FALSE

Return(how) == pc' = "over" /\ outcome' = how
-----------------------------------------------------------------------------
\* web_search_tool and search, up to the start of the child.

ToolInterrupted ==
  /\ pc = "ready"
  /\ stop
  /\ Return("interrupted")
  /\ UNCHANGED <<ending, stage, communicate, childVars, expired, stopVars, cutShort>>

\* The query is not text, or ddgs is not installed.
Refuse ==
  /\ pc = "ready"
  /\ ~stop
  /\ Return("refused")
  /\ UNCHANGED <<ending, stage, communicate, childVars, expired, stopVars, cutShort>>

AskForChild ==
  /\ pc = "ready"
  /\ ~stop
  /\ pc' = "spawning"
  /\ UNCHANGED <<ending, outcome, stage, communicate, childVars, expired, stopVars, cutShort>>

Spawned ==
  /\ pc = "spawning"
  /\ child' = "running"
  /\ communicate' = "pending"
  /\ pc' = "checking"
  /\ UNCHANGED <<ending, outcome, stage, output, grandchild, signals, expired, stopVars, cutShort>>

SpawnFails ==
  /\ pc = "spawning"
  /\ Return("failed")
  /\ UNCHANGED <<ending, stage, communicate, childVars, expired, stopVars, cutShort>>
-----------------------------------------------------------------------------
\* _run_ddgs_search_bounded: the loop.

EndPolling(why) ==
  /\ pc' = "ending"
  /\ ending' = why
  /\ UNCHANGED <<outcome, stage, communicate, childVars, expired, stopVars>>

\* The head of the loop: the stop first, then the deadline.
Check ==
  /\ pc = "checking"
  /\ \/ stop /\ EndPolling("stopped")
     \/ ~stop /\ expired /\ EndPolling("expired")
     \/ /\ ~stop /\ ~expired
        /\ pc' = "polling"
        /\ UNCHANGED <<ending, outcome, stage, communicate, childVars, expired, stopVars>>
  /\ UNCHANGED cutShort

\* asyncio.wait returns what is done, also when its time is up as well.
PollFinds ==
  /\ pc = "polling"
  /\ communicate = "done"
  /\ EndPolling("finished")
  /\ UNCHANGED cutShort

\* Mutant of PollElapses: the time being up is looked at alone.
PollElapsesAnyway ==
  /\ pc = "polling"
  /\ pc' = "checking"
  /\ UNCHANGED <<ending, outcome, stage, communicate, childVars, expired, stopVars, cutShort>>

\* The poll interval or what is left of the deadline.
PollElapses ==
  /\ pc = "polling"
  /\ communicate # "done"
  /\ pc' = "checking"
  /\ UNCHANGED <<ending, outcome, stage, communicate, childVars, expired, stopVars, cutShort>>

CancelPolling ==
  /\ pc = "polling"
  /\ EndPolling("cancelled")
  /\ UNCHANGED cutShort

\* asyncio kills and reaps the child of a start that is cancelled.
CancelSpawning ==
  /\ pc = "spawning"
  /\ Return("cancelled")
  /\ UNCHANGED <<ending, stage, communicate, childVars, expired, stopVars, cutShort>>
-----------------------------------------------------------------------------
\* _terminate_and_reap, and what follows it.

Signal == IF stage = 0 THEN "terminate" ELSE "kill"

\* The child is signalled, not what it has started.
Escalate ==
  /\ pc = "ending"
  /\ child # "reaped"
  /\ stage < 2
  /\ signals' = IF child = "running" THEN signals \cup {Signal} ELSE signals
  /\ stage' = stage + 1
  /\ pc' = "reaping"
  /\ UNCHANGED <<ending, outcome, communicate, child, output, grandchild, expired, stopVars, cutShort>>

\* Mutant of Resume: the child is waited for without a limit.
ResumeWhenReaped ==
  /\ pc = "reaping"
  /\ child = "reaped"
  /\ pc' = "ending"
  /\ UNCHANGED <<ending, outcome, stage, communicate, childVars, expired, stopVars, cutShort>>

\* The child is reaped or the grace is over: the next turn of the loop tells which.
Resume ==
  /\ pc = "reaping"
  /\ pc' = "ending"
  /\ UNCHANGED <<ending, outcome, stage, communicate, childVars, expired, stopVars, cutShort>>

CancelReaping ==
  /\ pc = "reaping"
  /\ Return("cancelled")
  /\ cutShort' = TRUE
  /\ UNCHANGED <<ending, stage, communicate, childVars, expired, stopVars>>

\* Mutant of MayClose: the signal to terminate is enough.
MayCloseTerminated == child \in {"dead", "reaped"} \/ stage >= 1

\* A dead child may be missed by the signal, which ends the reaping as well.
MayClose == child \in {"dead", "reaped"} \/ stage = 2

OutcomeOf(why) ==
  CASE why = "stopped" -> "interrupted"
    [] why = "expired" -> "timed out"
    [] why = "cancelled" -> "cancelled"
    [] why = "finished" -> IF output = "hits" THEN "hits" ELSE "failed"

Close ==
  /\ pc = "ending"
  /\ MayClose
  /\ communicate' = IF communicate = "done" THEN "done" ELSE "cancelled"
  /\ Return(OutcomeOf(ending))
  /\ UNCHANGED <<ending, stage, childVars, expired, stopVars, cutShort>>
-----------------------------------------------------------------------------
\* The child, its own child, timers, stops.

\* A killed process may take its time to die, but runs no more of its code.
StartGrandchild ==
  /\ child = "running"
  /\ "kill" \notin signals
  /\ grandchild' = TRUE
  /\ UNCHANGED <<parentVars, child, output, signals, expired, stopVars, cutShort>>

GrandchildExits ==
  /\ grandchild
  /\ grandchild' = FALSE
  /\ UNCHANGED <<parentVars, child, output, signals, expired, stopVars, cutShort>>

\* It is done, or gives in to a signal, having written its hits or nothing of use.
ChildExits ==
  /\ child = "running"
  /\ child' = "dead"
  /\ output' \in {"hits", "else"}
  /\ UNCHANGED <<parentVars, grandchild, signals, expired, stopVars, cutShort>>

\* The loop learns the return code.
Reap ==
  /\ child = "dead"
  /\ LoopIsFree
  /\ child' = "reaped"
  /\ UNCHANGED <<parentVars, output, grandchild, signals, expired, stopVars, cutShort>>

\* Process.communicate ends with the process and with the last writer of its output.
Communicated ==
  /\ communicate = "pending"
  /\ LoopIsFree
  /\ child = "reaped"
  /\ ~grandchild
  /\ communicate' = "done"
  /\ UNCHANGED <<pc, ending, outcome, stage, childVars, expired, stopVars, cutShort>>

DeadlinePasses ==
  /\ child # "none"
  /\ ~expired
  /\ expired' = TRUE
  /\ UNCHANGED <<parentVars, childVars, stopVars, cutShort>>

Interrupt ==
  /\ ~stop
  /\ stop' = TRUE
  /\ stopSeen' = (stopSeen \/ pc # "over")
  /\ UNCHANGED <<parentVars, childVars, expired, cutShort>>

ClearInterrupt ==
  /\ stop
  /\ stop' = FALSE
  /\ UNCHANGED <<parentVars, childVars, expired, stopSeen, cutShort>>

SearchStep ==
  \/ ToolInterrupted \/ Refuse \/ AskForChild \/ Check \/ PollFinds \/ Escalate \/ Close

\* create_subprocess_exec returns or raises.
SpawnStep == Spawned \/ SpawnFails

Cancel == CancelSpawning \/ CancelPolling \/ CancelReaping

ChildStep == StartGrandchild \/ GrandchildExits \/ ChildExits

Next ==
  \/ SearchStep \/ SpawnStep \/ PollElapses \/ Resume \/ Cancel
  \/ ChildStep \/ Reap \/ Communicated \/ DeadlinePasses \/ Interrupt \/ ClearInterrupt

Spec == Init /\ [][Next]_vars

\* The event loop runs and its timers fire.  Of the child nothing is assumed.
FairSpec ==
  /\ Spec
  /\ WF_vars(SearchStep) /\ WF_vars(SpawnStep)
  /\ WF_vars(PollElapses) /\ WF_vars(Resume) /\ WF_vars(DeadlinePasses)
-----------------------------------------------------------------------------
\* Properties.

TypeOK ==
  /\ pc \in {"ready", "spawning", "checking", "polling", "ending", "reaping", "over"}
  /\ ending \in {"none", "finished", "stopped", "expired", "cancelled"}
  /\ outcome \in {"none", "hits", "failed", "timed out", "interrupted", "refused", "cancelled"}
  /\ stage \in 0 .. 2
  /\ child \in {"none", "running", "dead", "reaped"}
  /\ output \in {"none", "hits", "else"}
  /\ grandchild \in BOOLEAN
  /\ signals \subseteq {"terminate", "kill"}
  /\ communicate \in {"none", "pending", "done", "cancelled"}
  /\ expired \in BOOLEAN
  /\ stop \in BOOLEAN /\ stopSeen \in BOOLEAN
  /\ cutShort \in BOOLEAN

\* The tool says what became of the search: hits are those of a child that wrote them
\* all and exited, a timeout or a stop is not reported without a cause, and the search
\* does not give up on an answer that is in.
AnswersAreTrue ==
  /\ outcome = "hits" => output = "hits" /\ child = "reaped" /\ communicate = "done"
  /\ outcome = "timed out" => expired
  /\ outcome = "interrupted" => stopSeen
  /\ pc = "ending" /\ stage = 0 /\ ending \in {"stopped", "expired"} => communicate = "pending"

\* "wait so no orphan remains": whatever way a search ends, its child has exited or has
\* been sent the kill it cannot ignore, and nobody reads its output any more, unless the
\* search was cancelled while it waited for the child.
NoOrphanRemains ==
  pc = "over" /\ ~cutShort =>
    /\ child = "running" => signals = {"terminate", "kill"}
    /\ communicate # "pending"

\* A search ends whatever the child does: it may hang, ignore the signal to terminate,
\* survive the kill, or leave its output open.
SearchEnds == <>(pc = "over")

\* provider.py:137: "Own session / process group so terminate and kill also reach a hung
\* grandchild of the ddgs HTTP stack."
GrandchildIsReached ==
  pc = "over" /\ ~cutShort /\ "kill" \in signals /\ child = "reaped" => ~grandchild
=============================================================================
