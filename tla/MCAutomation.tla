---------------------------- MODULE MCAutomation ----------------------------
(***************************************************************************)
(* The two components that start work without a user, for one run of TLC:  *)
(* the scheduler and the triggers of workflows.  They share no state here, *)
(* so a behaviour is one of one component: `part' says of which, and what  *)
(* the other would use keeps the value Unused.                             *)
(***************************************************************************)
EXTENDS TLC, Naturals

CONSTANTS
  Procs, Skills, NoSkill, Period, MaxTime, MaxEntries, MaxOps, MaxFaults,  \* Scheduler
  w1, w2, w3, NumCalls, MaxAsks,                                           \* WorkflowTriggers
  MaxBeside   \* bound of TLC: minutes and entries while several processes live

VARIABLES
  part,
  sync,                                                      \* both
  now, file, life, cache, jobs, applied, faults,             \* Scheduler
  skill, tick, hand, made, ops, shots, gone,
  enabled, stored, inFlight, calls, after, ready, mirror, timers, watched, asks

Unused == {}

\* Two workflows that list themselves, and a third that follows both.
SelfAndFork == (w1 :> {w1}) @@ (w2 :> {w2}) @@ (w3 :> {w1, w2})

Sched == INSTANCE Scheduler
\* Small enough for liveness.
One == CHOOSE p \in Procs : TRUE
Due == INSTANCE Scheduler WITH Procs <- {One}, MaxEntries <- 1
Trig == INSTANCE WorkflowTriggers
  WITH Workflows <- {w1, w2, w3}, Graphs <- {SelfAndFork}, Scheduled <- {w3},
       Watching <- {w1}

ASSUME SchedulerConstants == Sched!SchedulerAssumption
ASSUME TriggersConstants == Trig!TriggersAssumption

schedVars == <<now, file, life, cache, jobs, applied, faults, skill, tick, hand, made, ops,
               shots, gone>>
trigVars == <<enabled, stored, inFlight, calls, after, ready, mirror, timers, watched, asks>>
allVars == <<part, sync, schedVars, trigVars>>

NoSchedules ==
  now = Unused /\ file = Unused /\ life = Unused /\ cache = Unused
  /\ jobs = Unused /\ applied = Unused /\ faults = Unused
  /\ skill = Unused /\ tick = Unused /\ hand = Unused /\ made = Unused
  /\ ops = Unused /\ shots = Unused /\ gone = Unused
NoWorkflows ==
  enabled = Unused /\ stored = Unused /\ inFlight = Unused /\ calls = Unused
  /\ after = Unused /\ ready = Unused /\ mirror = Unused /\ timers = Unused
  /\ watched = Unused /\ asks = Unused

AInit ==
  \/ part = "schedule" /\ Sched!Init /\ NoWorkflows
  \/ part = "due" /\ Due!Init /\ NoWorkflows
  \/ part = "workflow" /\ Trig!Init /\ NoSchedules

\* A step A of the one leaves the other alone.
OfSchedule(A) == part = "schedule" /\ A /\ UNCHANGED <<part, trigVars>>
OfDue(A) == part = "due" /\ A /\ UNCHANGED <<part, trigVars>>
OfWorkflow(A) == part = "workflow" /\ A /\ UNCHANGED <<part, schedVars>>

\* Several processes live only up to a minute and an entry; no bound at all if
\* MaxBeside is MaxTime and MaxEntries or more.
Small == (now <= MaxBeside /\ made <= MaxBeside) \/ \A p \in Procs \ {One} : life[p] = "down"

ANext == OfSchedule(Sched!Next /\ Small') \/ OfDue(Due!Next) \/ OfWorkflow(Trig!Next)

ASpec ==
  /\ AInit /\ [][ANext]_allVars
  /\ WF_allVars(OfDue(Due!Works(One)))
  /\ WF_allVars(OfWorkflow(Trig!Works))

\* The components' properties, each where its component runs.
OneShotOnce == part = "schedule" => Sched!OneShotOnce
DeletedStaysDeleted == part = "schedule" => Sched!DeletedStaysDeleted
Waiting(i) == part = "due" /\ Due!Due(cache[One], i) /\ life[One] = "up"
DueIsRun == \A i \in Due!Ids : Waiting(i) ~> ~Waiting(i)
InFlightIsExact == part = "workflow" => Trig!InFlightIsExact
CascadeEnds == <>[](part = "workflow" => Trig!Quiet)
=============================================================================
