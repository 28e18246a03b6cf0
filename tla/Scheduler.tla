------------------------------ MODULE Scheduler ------------------------------
(***************************************************************************)
(* Scheduled prompts (plugin-scheduler): the store of schedules with its   *)
(* cache, its write mutex and its file, the poller, `schedule_run_now`,    *)
(* and the reconciliation with the schedules that skills carry.            *)
(*                                                                         *)
(* Several processes of one user share the file (a terminal session, the   *)
(* daemon, a `moxxy schedule add`): each has a cache of its own, read once *)
(* when it boots.  Ids are numbers in the order of creation, which is the  *)
(* order of the file.  The time of a cron expression's next match is the   *)
(* next multiple of Period; module CronSearch has the real search.         *)
(***************************************************************************)
EXTENDS Integers, Sequences, FiniteSets

CONSTANTS
  Procs,       \* processes that load the scheduler plugin
  Skills,      \* skills whose frontmatter may carry a schedule
  NoSkill,     \* the `skill' of a manual entry
  Period,      \* distance of a cron expression's matches
  MaxTime,     \* bound of the clock, for TLC
  MaxEntries,  \* bound on the schedules ever made, for TLC
  MaxOps,      \* bound on what users and skill files do, for TLC
  MaxFaults    \* bound on crashes and failed writes, for TLC

SchedulerAssumption ==
  /\ NoSkill \notin Skills
  /\ Period \in Nat \ {0}
  /\ {MaxTime, MaxEntries, MaxOps, MaxFaults} \subseteq Nat

VARIABLES
  now,      \* the clock
  file,     \* schedules.json
  skill,    \* what each skill's frontmatter asks for
  life,     \* per process: down, booting, up, stopping
  cache,    \* per process: the store's copy of the file
  jobs,     \* per process: the mutex's queue of mutations
  applied,  \* per process: the first of them has changed the cache
  tick,     \* per process: the poller's walk over the entries it found due
  hand,     \* per process: a run by schedule_run_now
  sync,     \* per process: what a reconciliation has left to do
  made, ops, faults,   \* counters of the bounds
  shots,    \* history, per process: runs its poller began since an entry was armed
  gone      \* history, per process: ids whose removal it has written, and that
            \* no other process has written back

vars == <<now, file, skill, life, cache, jobs, applied, tick, hand, sync,
          made, ops, faults, shots, gone>>

counters == <<made, ops, faults>>
history == <<shots, gone>>

Time == 0..MaxTime
Never == -1
Ids == 1..MaxEntries

Entry == [cron: BOOLEAN, runAt: Time, enabled: BOOLEAN, createdAt: Time,
          lastRunAt: Time \cup {Never}, skill: Skills \cup {NoSkill}]
\* The part of an entry that a user or a skill writes.
Draft == [cron: BOOLEAN, runAt: Time, enabled: BOOLEAN]
Drafts == {[cron |-> c, runAt |-> 1, enabled |-> TRUE] : c \in BOOLEAN}
\* toEntryDraft of a skill without `cron' and `runAt'.
NoDraft == [cron |-> FALSE, runAt |-> 0, enabled |-> FALSE]

Store == UNION {[D -> Entry] : D \in SUBSET Ids}

-----------------------------------------------------------------------------
(***************************************************************************)
(* Entries.                                                                *)
(***************************************************************************)

NewEntry(draft, s) ==
  [cron |-> draft.cron, runAt |-> draft.runAt, enabled |-> draft.enabled,
   createdAt |-> now, lastRunAt |-> Never, skill |-> s]

nextFireTime(t) == Period * (t \div Period + 1)

isDue(e, t) ==
  /\ e.enabled
  /\ IF e.cron
       THEN nextFireTime(IF e.lastRunAt = Never THEN e.createdAt ELSE e.lastRunAt) <= t
       ELSE e.runAt <= t

Patched(e, patch) == [f \in DOMAIN e |-> IF f \in DOMAIN patch THEN patch[f] ELSE e[f]]

\* What a mutation makes of the entries; an id that is not there is let be.
Mutated(c, job) ==
  CASE job.op = "create" -> [i \in DOMAIN c \cup {job.id} |-> IF i = job.id THEN job.with ELSE c[i]]
    [] job.op = "update" -> [i \in DOMAIN c |-> IF i = job.id THEN Patched(c[i], job.with) ELSE c[i]]
    [] job.op = "delete" -> [i \in DOMAIN c \ {job.id} |-> c[i]]

Job(by, op, id, with) == [by |-> by, op |-> op, id |-> id, with |-> with]

\* Mutant: the outcome is put back as the whole entry the run began with.
OutcomePuts(by, run) ==
  Job(by, "create", run.id, Patched(run.entry, [lastRunAt |-> now, enabled |-> run.entry.cron]))

\* The update that ends a run: a one-shot is disabled.
Outcome(by, run) ==
  Job(by, "update", run.id,
      IF run.entry.cron THEN [lastRunAt |-> now] ELSE [lastRunAt |-> now, enabled |-> FALSE])

Waits(p, by) == \E n \in DOMAIN jobs[p] : jobs[p][n].by = by

Enqueue(p, job) == jobs' = [jobs EXCEPT ![p] = Append(@, job)]

\* A job by which a user makes an entry, or makes it ready to run again; the
\* history of the process starts anew for it.
Arms(job) == job.op = "create" \/ (job.by = "user" /\ job.op = "update" /\ job.with.enabled)

-----------------------------------------------------------------------------
(***************************************************************************)
(* The store's mutations: one at a time, first the cache, then the file.   *)
(***************************************************************************)

NoRun == [id |-> 0]
IdleTick == [pc |-> "idle", todo |-> <<>>]
OffTick == [pc |-> "off", todo |-> <<>>]

Apply(p) ==
  /\ jobs[p] # <<>> /\ ~applied[p]
  /\ LET job == Head(jobs[p]) IN
       /\ cache' = [cache EXCEPT ![p] = Mutated(@, job)]
       /\ shots' = IF Arms(job) THEN [shots EXCEPT ![p][job.id] = 0] ELSE shots
  /\ applied' = [applied EXCEPT ![p] = TRUE]
  /\ UNCHANGED <<now, file, skill, life, jobs, tick, hand, sync, counters, gone>>

\* Mutant: a failed update ends the poller.
ReturnUnlessFailed(p, job, ok) ==
  /\ jobs' = [jobs EXCEPT ![p] = Tail(@)]
  /\ applied' = [applied EXCEPT ![p] = FALSE]
  /\ tick' = IF job.by # "poller" \/ ~ok THEN tick ELSE [tick EXCEPT ![p] = IdleTick]
  /\ UNCHANGED <<hand, sync>>

\* The caller goes on: the poller to its next entry, the reconciliation to
\* its next job, or to its end if this one failed.
Return(p, job, ok) ==
  /\ jobs' = [jobs EXCEPT ![p] = Tail(@)]
  /\ applied' = [applied EXCEPT ![p] = FALSE]
  /\ tick' = IF job.by # "poller" THEN tick
             ELSE [tick EXCEPT ![p] = IF Len(@.todo) = 1 THEN IdleTick
                                      ELSE [pc |-> "next", todo |-> Tail(@.todo)]]
  /\ hand' = IF job.by # "hand" THEN hand ELSE [hand EXCEPT ![p] = NoRun]
  /\ sync' = IF job.by # "sync" THEN sync
             ELSE [sync EXCEPT ![p] = IF ok THEN @ ELSE {}]

Write(p) ==
  /\ applied[p]
  /\ LET job == Head(jobs[p]) IN
       /\ file' = cache[p]
       /\ gone' = [q \in Procs |->
                     IF q # p THEN gone[q] \ DOMAIN file'
                     ELSE IF job.op = "delete" THEN gone[q] \cup {job.id} ELSE gone[q]]
       /\ Return(p, job, TRUE)
  /\ UNCHANGED <<now, skill, life, cache, counters, shots>>

\* The write fails: the caller gets the error, the cache keeps the change.
WriteFails(p) ==
  /\ applied[p] /\ faults < MaxFaults
  /\ faults' = faults + 1
  /\ Return(p, Head(jobs[p]), FALSE)
  /\ UNCHANGED <<now, file, skill, life, cache, made, ops, history>>

-----------------------------------------------------------------------------
(***************************************************************************)
(* The poller.  A tick takes the entries that are due at its start, in the *)
(* order of the store, and runs one after the other; the timer's next      *)
(* ticks wait for it.                                                      *)
(***************************************************************************)

DueIds(p) == {i \in DOMAIN cache[p] : isDue(cache[p][i], now)}

Walk(p) ==
  [n \in 1..Cardinality(DueIds(p)) |->
     LET i == CHOOSE i \in DueIds(p) : Cardinality({j \in DueIds(p) : j <= i}) = n
     IN  [id |-> i, entry |-> cache[p][i]]]

\* Mutant: a timer's tick does not wait for the one that runs.
BeginTickBeside(p) ==
  /\ life[p] = "up" /\ tick[p].pc \in {"idle", "run"} /\ DueIds(p) # {}
  /\ tick' = [tick EXCEPT ![p] = [pc |-> "next", todo |-> Walk(p)]]
  /\ UNCHANGED <<now, file, skill, life, cache, jobs, applied, hand, sync, counters, history>>

BeginTick(p) ==
  /\ life[p] = "up" /\ tick[p].pc = "idle" /\ DueIds(p) # {}
  /\ tick' = [tick EXCEPT ![p] = [pc |-> "next", todo |-> Walk(p)]]
  /\ UNCHANGED <<now, file, skill, life, cache, jobs, applied, hand, sync, counters, history>>

\* runSchedule: the prompt's turn begins, with the entry as the tick read it.
PollerRuns(p) ==
  /\ tick[p].pc = "next"
  /\ tick' = [tick EXCEPT ![p].pc = "run"]
  /\ shots' = [shots EXCEPT ![p][Head(tick[p].todo).id] = IF @ = 2 THEN 2 ELSE @ + 1]
  /\ UNCHANGED <<now, file, skill, life, cache, jobs, applied, hand, sync, counters, gone>>

\* The turn has ended, well or not, and its outcome goes to the store.
PollerRecords(p) ==
  /\ tick[p].pc = "run"
  /\ tick' = [tick EXCEPT ![p].pc = "record"]
  /\ Enqueue(p, Outcome("poller", Head(tick[p].todo)))
  /\ UNCHANGED <<now, file, skill, life, cache, applied, hand, sync, counters, history>>

-----------------------------------------------------------------------------
(***************************************************************************)
(* The tools and commands that users and models call.                      *)
(***************************************************************************)

Operates == ops < MaxOps /\ ops' = ops + 1

Create(p, draft) ==
  /\ life[p] = "up" /\ ~Waits(p, "user") /\ made < MaxEntries
  /\ Operates
  /\ made' = made + 1
  /\ Enqueue(p, Job("user", "create", made + 1, NewEntry(draft, NoSkill)))
  /\ UNCHANGED <<now, file, skill, life, cache, applied, tick, hand, sync, faults, history>>

SetEnabled(p, i, enabled) ==
  /\ life[p] = "up" /\ ~Waits(p, "user")
  /\ Operates
  /\ Enqueue(p, Job("user", "update", i, [enabled |-> enabled]))
  /\ UNCHANGED <<now, file, skill, life, cache, applied, tick, hand, sync, made, faults, history>>

Delete(p, i) ==
  /\ life[p] = "up" /\ ~Waits(p, "user")
  /\ Operates
  /\ Enqueue(p, Job("user", "delete", i, <<>>))
  /\ UNCHANGED <<now, file, skill, life, cache, applied, tick, hand, sync, made, faults, history>>

\* schedule_run_now: beside the poller, whatever the entry's time.
RunNow(p, i) ==
  /\ life[p] = "up" /\ hand[p] = NoRun /\ ~Waits(p, "hand")
  /\ i \in DOMAIN cache[p]
  /\ Operates
  /\ hand' = [hand EXCEPT ![p] = [id |-> i, entry |-> cache[p][i]]]
  /\ UNCHANGED <<now, file, skill, life, cache, jobs, applied, tick, sync, made, faults, history>>

HandRecords(p) ==
  /\ hand[p] # NoRun /\ ~Waits(p, "hand")
  /\ Enqueue(p, Outcome("hand", hand[p]))
  /\ UNCHANGED <<now, file, skill, life, cache, applied, tick, hand, sync, counters, history>>

-----------------------------------------------------------------------------
(***************************************************************************)
(* syncSkillSchedules: what the skills want against the store as it was    *)
(* read at the start; one mutation after the other.                        *)
(***************************************************************************)

\* The row of a skill: of several the last one counts.
RowOf(c, s) ==
  LET rows == {i \in DOMAIN c : c[i].skill = s}
  IN  IF rows = {} THEN 0 ELSE CHOOSE i \in rows : \A j \in rows : j <= i

Differs(e, draft) == <<e.cron, e.runAt, e.enabled>> # <<draft.cron, draft.runAt, draft.enabled>>

\* Rows of skills that have no schedule any more go first.
Plan(c, wants) ==
  {Job("sync", "delete", RowOf(c, s), <<>>) :
     s \in {x \in Skills : wants[x] = NoDraft /\ RowOf(c, x) # 0}}
  \cup {Job("sync", "create", 0, NewEntry(wants[s], s)) :
     s \in {x \in Skills : wants[x] # NoDraft /\ RowOf(c, x) = 0}}
  \cup {Job("sync", "update", RowOf(c, s), wants[s]) :
     s \in {x \in Skills : wants[x] # NoDraft /\ RowOf(c, x) # 0
                          /\ Differs(c[RowOf(c, x)], wants[x])}}

Synced(p) == sync[p] = {} /\ ~Waits(p, "sync")

\* A skill was synthesized: it is in the registry, and its event starts a sync.
SkillCreated(p, s, draft) ==
  /\ life[p] = "up" /\ Synced(p) /\ made < MaxEntries
  /\ Operates
  /\ skill' = [skill EXCEPT ![s] = draft]
  /\ sync' = [sync EXCEPT ![p] = Plan(cache[p], skill')]
  /\ UNCHANGED <<now, file, life, cache, jobs, applied, tick, hand, made, faults, history>>

\* A skill file is edited or removed: nothing looks at it until the next sync.
SkillEdited(s, draft) ==
  /\ made < MaxEntries
  /\ skill[s] # draft
  /\ Operates
  /\ skill' = [skill EXCEPT ![s] = draft]
  /\ UNCHANGED <<now, file, life, cache, jobs, applied, tick, hand, sync, made, faults, history>>

SyncStep(p) ==
  /\ ~Waits(p, "sync")
  /\ \E job \in sync[p] :
       /\ job.op # "delete" => \A other \in sync[p] : other.op # "delete"
       /\ sync' = [sync EXCEPT ![p] = @ \ {job}]
       /\ IF job.op = "create"
            THEN /\ made < MaxEntries
                 /\ made' = made + 1
                 /\ Enqueue(p, [job EXCEPT !.id = made + 1, !.with.createdAt = now])
            ELSE made' = made /\ Enqueue(p, job)
  /\ UNCHANGED <<now, file, skill, life, cache, applied, tick, hand, ops, faults, history>>

-----------------------------------------------------------------------------
(***************************************************************************)
(* Lives of a process.                                                     *)
(***************************************************************************)

\* onInit: the sync reads the file into the cache and reconciles.  What the
\* file has enabled the process may run.
Boot(p) ==
  /\ life[p] = "down"
  /\ life' = [life EXCEPT ![p] = "booting"]
  /\ cache' = [cache EXCEPT ![p] = file]
  /\ sync' = [sync EXCEPT ![p] = Plan(file, skill)]
  /\ shots' = [shots EXCEPT ![p] =
       [i \in Ids |-> IF i \in DOMAIN file /\ ~file[i].enabled THEN shots[p][i] ELSE 0]]
  /\ UNCHANGED <<now, file, skill, jobs, applied, tick, hand, counters, gone>>

\* poller.start, whether the sync went well or not.
Start(p) ==
  /\ life[p] = "booting" /\ Synced(p)
  /\ life' = [life EXCEPT ![p] = "up"]
  /\ tick' = [tick EXCEPT ![p] = IdleTick]
  /\ UNCHANGED <<now, file, skill, cache, jobs, applied, hand, sync, counters, history>>

\* poller.stop: no tick begins any more, the one that runs goes on to its end.
Stop(p) ==
  /\ life[p] = "up"
  /\ life' = [life EXCEPT ![p] = "stopping"]
  /\ UNCHANGED <<now, file, skill, cache, jobs, applied, tick, hand, sync, counters, history>>

\* The process is gone: what the file does not say has not happened.
Dies(p) ==
  /\ life' = [life EXCEPT ![p] = "down"]
  /\ cache' = [cache EXCEPT ![p] = <<>>]
  /\ jobs' = [jobs EXCEPT ![p] = <<>>]
  /\ applied' = [applied EXCEPT ![p] = FALSE]
  /\ tick' = [tick EXCEPT ![p] = OffTick]
  /\ hand' = [hand EXCEPT ![p] = NoRun]
  /\ sync' = [sync EXCEPT ![p] = {}]
  /\ UNCHANGED <<now, file, skill, made, ops, history>>

\* stop() has seen the tick end, and exits.
Exit(p) ==
  /\ life[p] = "stopping" /\ tick[p].pc = "idle"
  /\ Dies(p)
  /\ UNCHANGED faults

Crash(p) ==
  /\ life[p] # "down" /\ faults < MaxFaults
  /\ faults' = faults + 1
  /\ Dies(p)

Tick ==
  /\ now < MaxTime
  /\ now' = now + 1
  /\ UNCHANGED <<file, skill, life, cache, jobs, applied, tick, hand, sync, counters, history>>

-----------------------------------------------------------------------------
Init ==
  /\ now = 0
  /\ file = <<>>
  /\ skill = [s \in Skills |-> NoDraft]
  /\ life = [p \in Procs |-> "down"]
  /\ cache = [p \in Procs |-> <<>>]
  /\ jobs = [p \in Procs |-> <<>>]
  /\ applied = [p \in Procs |-> FALSE]
  /\ tick = [p \in Procs |-> OffTick]
  /\ hand = [p \in Procs |-> NoRun]
  /\ sync = [p \in Procs |-> {}]
  /\ made = 0 /\ ops = 0 /\ faults = 0
  /\ shots = [p \in Procs |-> [i \in Ids |-> 0]]
  /\ gone = [p \in Procs |-> {}]

\* What the program does by itself.
Works(p) ==
  \/ Apply(p) \/ Write(p) \/ BeginTick(p) \/ PollerRuns(p) \/ PollerRecords(p)
  \/ HandRecords(p) \/ SyncStep(p) \/ Start(p) \/ Exit(p)

Uses(p) ==
  \/ \E draft \in Drafts : Create(p, draft) \/ \E s \in Skills : SkillCreated(p, s, draft)
  \/ \E i \in 1..made : Delete(p, i) \/ RunNow(p, i) \/ \E b \in BOOLEAN : SetEnabled(p, i, b)

Next ==
  \/ \E p \in Procs : Works(p) \/ Uses(p) \/ Boot(p) \/ Stop(p) \/ Crash(p) \/ WriteFails(p)
  \/ \E s \in Skills, draft \in Drafts \cup {NoDraft} : SkillEdited(s, draft)
  \/ Tick

Spec == Init /\ [][Next]_vars

\* The event loop runs what is ready, timers fire, a turn ends.
Fairness == \A p \in Procs : WF_vars(Works(p))

FairSpec == Spec /\ Fairness

-----------------------------------------------------------------------------
(***************************************************************************)
(* Properties.                                                             *)
(***************************************************************************)

\* Types of the variables.
TypeOK ==
  /\ now \in Time
  /\ file \in Store
  /\ skill \in [Skills -> Drafts \cup {NoDraft}]
  /\ life \in [Procs -> {"down", "booting", "up", "stopping"}]
  /\ \A p \in Procs :
       /\ cache[p] \in Store
       /\ applied[p] => jobs[p] # <<>>
       /\ tick[p].pc \in {"off", "idle", "next", "run", "record"}
       /\ tick[p].pc \in {"next", "run", "record"} <=> tick[p].todo # <<>>
       /\ \A job \in sync[p] : job.by = "sync"
  /\ shots \in [Procs -> [Ids -> 0..2]] /\ gone \in [Procs -> SUBSET Ids]

\* runSchedule and the chain of ticks: from the time a user makes or enables a
\* one-shot in a process, or the process reads it from the file enabled, its
\* poller runs it once, however ticks, runs by hand, changes of the store and
\* the other processes' writes interleave.
OneShotOnce ==
  \A p \in Procs : \A i \in DOMAIN cache[p] :
    ~cache[p][i].cron /\ cache[p][i].skill = NoSkill => shots[p][i] <= 1

\* The same for every one-shot, those of skills too ("disabled after their
\* single run so the poller stops considering them").  The code does not keep
\* this: a reconciliation finds that the row is disabled and the skill is not.
SingleRun ==
  \A p \in Procs : \A i \in DOMAIN cache[p] : ~cache[p][i].cron => shots[p][i] <= 1

\* The same of all processes together.  The code does not keep this: each has
\* its own poller, and its own copy of the entry.
OnePollerRuns ==
  \A p, q \in Procs : \A i \in DOMAIN cache[p] \cap DOMAIN cache[q] :
    p # q /\ ~cache[p][i].cron /\ cache[p][i].skill = NoSkill
      => shots[p][i] + shots[q][i] <= 1

\* delete: what a process removed stays removed, in its cache and in the file,
\* although a run that began before still ends with an update, a reconciliation
\* works from a list it read before, and the process may crash and come back;
\* until another process, whose cache still has it, writes the file.
DeletedStaysDeleted ==
  \A p \in Procs : gone[p] \cap (DOMAIN file \cup DOMAIN cache[p]) = {}

\* What is removed from the file by one process stays so.  The code does not
\* keep this: another writes its whole cache.
RemovalLasts == [][\A p \in Procs : gone[p] \subseteq gone'[p]]_vars

Due(c, i) == i \in DOMAIN c /\ isDue(c[i], now)

\* What the poller is for: an entry its process knows of and that is due gets
\* run, unless it is disabled or removed or the process stops.
DueIsRun ==
  \A p \in Procs, i \in Ids :
    Due(cache[p], i) /\ life[p] = "up" ~> ~Due(cache[p], i) \/ life[p] # "up"

\* What a user of several processes expects of the file ("the daemon polls
\* them on an interval and dispatches each due entry").  The code does not keep
\* this: a process looks into the file when it boots and never again.
FileIsServed ==
  \A p \in Procs, i \in Ids :
    Due(file, i) /\ life[p] = "up" ~> ~Due(file, i) \/ life[p] # "up"

=============================================================================
