--------------------------- MODULE WorkflowTriggers ---------------------------
(***************************************************************************)
(* What starts workflows (cli/src/setup/workflows.ts): a user, a model's   *)
(* workflow_run, a changed file, and the completion of another workflow;   *)
(* and the mirror of their schedules in the schedule store.                *)
(*                                                                         *)
(* Every asynchronous function under way is a call: one that wants to run  *)
(* a workflow, or one that reacts to a completion and runs several, one    *)
(* after the other.  The run itself is module WorkflowDag: here it ends.   *)
(***************************************************************************)
EXTENDS Naturals, Sequences, SequencesExt

CONSTANTS
  Workflows,  \* names
  Graphs,     \* what each may list under on.afterWorkflow
  Scheduled,  \* those with an on.schedule
  Watching,   \* those with an on.fileChanged
  NumCalls,   \* bound on the calls under way
  MaxAsks     \* bound on what users, models and files do

TriggersAssumption ==
  /\ Scheduled \subseteq Workflows /\ Watching \subseteq Workflows
  /\ {NumCalls, MaxAsks} \subseteq Nat

Calls == 1..NumCalls

VARIABLES
  after,     \* on.afterWorkflow of each workflow
  enabled,   \* the workflows that are enabled
  stored,    \* those that are in the store
  inFlight,  \* runNow's set
  calls,     \* the calls under way
  ready,     \* how far onReady is: "sync", "watch", "done" or "failed"
  sync,      \* what each syncSchedules under way has left: by onReady, by a user
  mirror,    \* workflows whose schedule is in the schedule store
  timers,    \* watched workflows whose debounce timer runs
  watched,   \* workflows with a file watcher
  asks

vars == <<after, enabled, stored, inFlight, calls, ready, sync, mirror, timers, watched, asks>>

triggers == <<ready, sync, mirror, timers, watched>>

\* `todo' is what the call still wants to run, the head being under way.
NoCall == [at |-> "free", by |-> "auto", done |-> "", todo |-> <<>>]
Running == {"run", "deliver"}

-----------------------------------------------------------------------------
(***************************************************************************)
(* runNow.                                                                 *)
(***************************************************************************)

FreeCall == CHOOSE i \in Calls : calls[i].at = "free"
SomeCallFree == \E i \in Calls : calls[i].at = "free"

Wanted(by, w) == [at |-> "get", by |-> by, done |-> "", todo |-> <<w>>]

\* The call after the head of its list is dealt with.
Advanced(c) ==
  IF Len(c.todo) = 1 THEN NoCall ELSE [c EXCEPT !.at = "get", !.todo = Tail(@)]

\* Mutant: whether the workflow runs is looked at before the store is asked.
BeginStale(i) ==
  LET w == Head(calls[i].todo) IN
  /\ calls[i].at = "get" /\ w \in stored
  /\ calls' = [calls EXCEPT ![i].at = "run"]
  /\ inFlight' = IF calls[i].by = "auto" THEN inFlight \cup {w} ELSE inFlight
  /\ UNCHANGED <<after, enabled, stored, triggers, asks>>

\* The store has answered: from here to the executor's start nothing comes
\* between.  workflow_run starts a run of its own without runNow.
Begin(i) ==
  LET w == Head(calls[i].todo) IN
  /\ calls[i].at = "get" /\ w \in stored
  /\ calls[i].by = "auto" => w \notin inFlight
  /\ calls' = [calls EXCEPT ![i].at = "run"]
  /\ inFlight' = IF calls[i].by = "auto" THEN inFlight \cup {w} ELSE inFlight
  /\ UNCHANGED <<after, enabled, stored, triggers, asks>>

\* It is gone, or runs already.
Refuse(i) ==
  LET w == Head(calls[i].todo) IN
  /\ calls[i].at = "get"
  /\ w \notin stored \/ (calls[i].by = "auto" /\ w \in inFlight)
  /\ calls' = [calls EXCEPT ![i] = Advanced(@)]
  /\ UNCHANGED <<after, enabled, stored, inFlight, triggers, asks>>

\* The executor reaches the end of a good run: its event goes to the log, and
\* the subscriber reacts to it while the run's result is still on its way.
Complete(i) ==
  /\ calls[i].at = "run" /\ SomeCallFree
  /\ calls' = [calls EXCEPT
       ![i].at = "deliver",
       ![FreeCall] = [at |-> "list", by |-> "auto", done |-> Head(calls[i].todo), todo |-> <<>>]]
  /\ UNCHANGED <<after, enabled, stored, inFlight, triggers, asks>>

\* A run that fails has another event, which nothing reacts to.
Fail(i) ==
  /\ calls[i].at = "run"
  /\ calls' = [calls EXCEPT ![i].at = "deliver"]
  /\ UNCHANGED <<after, enabled, stored, inFlight, triggers, asks>>

\* The result is in the inbox, or the executor threw: the `finally'.
End(i, ok) ==
  /\ IF ok THEN calls[i].at = "deliver" ELSE calls[i].at = "run"
  /\ calls' = [calls EXCEPT ![i] = Advanced(@)]
  /\ inFlight' = IF calls[i].by = "auto" THEN inFlight \ {Head(calls[i].todo)} ELSE inFlight
  /\ UNCHANGED <<after, enabled, stored, triggers, asks>>

-----------------------------------------------------------------------------
(***************************************************************************)
(* The triggers.                                                           *)
(***************************************************************************)

\* Mutant: a workflow that lists itself follows itself.
FollowsItself(w, done) == w \in stored \cap enabled /\ done \in after[w]

Follows(w, done) == w \in stored \cap enabled /\ done \in after[w] /\ w # done

\* The reaction to a completion reads the store's list once.
List(i) ==
  /\ calls[i].at = "list"
  /\ LET done == calls[i].done IN
     \E todo \in SetToSeqs({w \in Workflows : Follows(w, done)}) :
       calls' = [calls EXCEPT ![i] =
         IF todo = <<>> THEN NoCall ELSE [Wanted("auto", todo[1]) EXCEPT !.todo = todo]]
  /\ UNCHANGED <<after, enabled, stored, inFlight, triggers, asks>>

Asks == asks < MaxAsks /\ asks' = asks + 1

\* `/workflows run' (by runNow), or a model's workflow_run.
Ask(by, w) ==
  /\ Asks /\ SomeCallFree
  /\ calls' = [calls EXCEPT ![FreeCall] = Wanted(by, w)]
  /\ UNCHANGED <<after, enabled, stored, inFlight, triggers>>

\* A watched file changes: the timer starts anew.
FileChanges(w) ==
  /\ w \in watched
  /\ Asks
  /\ timers' = timers \cup {w}
  /\ UNCHANGED <<after, enabled, stored, inFlight, calls, ready, sync, mirror, watched>>

TimerFires(w) ==
  /\ w \in timers /\ SomeCallFree
  /\ timers' = timers \ {w}
  /\ calls' = [calls EXCEPT ![FreeCall] = Wanted("auto", w)]
  /\ UNCHANGED <<after, enabled, stored, inFlight, ready, sync, mirror, watched, asks>>

-----------------------------------------------------------------------------
(***************************************************************************)
(* Changes of the store, and the mirror of the schedules.                  *)
(***************************************************************************)

NoSync == [on |-> FALSE, left |-> {}]

\* Create, save, setEnabled and delete each end with onChanged.
Change(w, there, on) ==
  /\ ready \in {"done", "failed"} /\ ~sync["user"].on
  /\ Asks
  /\ stored' = IF there THEN stored \cup {w} ELSE stored \ {w}
  /\ enabled' = IF on THEN enabled \cup {w} ELSE enabled \ {w}
  /\ sync' = [sync EXCEPT !["user"] = [on |-> TRUE, left |-> stored']]
  /\ UNCHANGED <<after, inFlight, calls, ready, mirror, timers, watched>>

\* syncWorkflowSchedule of one workflow.  The entry for a schedule has an
\* empty id, which the store's schema does not admit: the call throws.
SyncOne(who, w) ==
  /\ sync[who].on /\ w \in sync[who].left
  /\ IF w \in Scheduled \cap enabled
       THEN /\ sync' = [sync EXCEPT ![who] = NoSync]
            /\ ready' = IF who = "boot" THEN "failed" ELSE ready
            /\ UNCHANGED mirror
       ELSE /\ sync' = [sync EXCEPT ![who].left = @ \ {w}]
            /\ mirror' = mirror \ {w}
            /\ UNCHANGED ready
  /\ UNCHANGED <<after, enabled, stored, inFlight, calls, timers, watched, asks>>

SyncEnds(who) ==
  /\ sync[who].on /\ sync[who].left = {}
  /\ sync' = [sync EXCEPT ![who] = NoSync]
  /\ ready' = IF who = "boot" THEN "watch" ELSE ready
  /\ UNCHANGED <<after, enabled, stored, inFlight, calls, mirror, timers, watched, asks>>

startFileWatchers ==
  /\ ready = "watch"
  /\ ready' = "done"
  /\ watched' = Watching \cap stored \cap enabled
  /\ UNCHANGED <<after, enabled, stored, inFlight, calls, sync, mirror, timers, asks>>

-----------------------------------------------------------------------------
Init ==
  /\ after \in Graphs
  /\ enabled \in SUBSET Workflows
  /\ stored = Workflows
  /\ inFlight = {}
  /\ calls = [i \in Calls |-> NoCall]
  /\ ready = "sync"
  /\ sync = [boot |-> [on |-> TRUE, left |-> Workflows], user |-> NoSync]
  /\ mirror = {} /\ timers = {} /\ watched = {}
  /\ asks = 0

Works ==
  \/ \E i \in Calls : Begin(i) \/ Refuse(i) \/ Complete(i) \/ Fail(i) \/ End(i, TRUE) \/ End(i, FALSE) \/ List(i)
  \/ \E w \in Workflows : TimerFires(w) \/ \E who \in {"boot", "user"} : SyncOne(who, w)
  \/ \E who \in {"boot", "user"} : SyncEnds(who)
  \/ startFileWatchers

Next ==
  \/ Works
  \/ \E w \in Workflows :
       \/ Ask("auto", w) \/ Ask("tool", w) \/ FileChanges(w)
       \/ \E there, on \in BOOLEAN : Change(w, there, on)

Spec == Init /\ [][Next]_vars

\* The event loop goes on and every run ends; users and files need not act.
FairSpec == Spec /\ WF_vars(Works)

-----------------------------------------------------------------------------
(***************************************************************************)
(* Properties.                                                             *)
(***************************************************************************)

\* runNow's guard: the set of runs in flight is what it says.  No two runs it
\* starts are of one workflow, although it asks the store before it looks; and
\* a workflow whose run has ended, well, badly or by an exception, can run
\* again: no name stays in the set without a run of its.
InFlightIsExact ==
  \A w \in Workflows :
    Cardinality({i \in Calls : /\ calls[i].at \in Running /\ calls[i].by = "auto"
                              /\ Head(calls[i].todo) = w})
      = IF w \in inFlight THEN 1 ELSE 0

\* afterWorkflow: if no cycle leads through two workflows, what one request
\* sets off comes to an end, a workflow that lists itself included.
Quiet == \A i \in Calls : calls[i].at = "free"

CascadeEnds == <>[]Quiet

\* store.ts: the mirror has the schedule of every enabled workflow.  The code
\* does not keep this.
ScheduledIsMirrored ==
  ready \in {"done", "failed"} /\ ~sync["user"].on =>
    Scheduled \cap enabled \cap stored \subseteq mirror

=============================================================================
