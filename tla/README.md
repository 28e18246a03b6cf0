# Moxxy in TLA+

Moxxy is an agent runtime in TypeScript: a session keeps an event log, a mode
lets a model and its tools take turns on it, a runner serves one session to
several clients (terminal, desktop, Telegram, HTTP), and workflows, schedules
and webhooks start turns of their own. This directory holds TLA+ modules for
the parts whose correctness depends on an order of events, the TLC instances
that check them, and the theorems TLAPS proves about them. `PROJECT.json`
lists the runs, the source lines of every definition, the findings, the hazards
and the theorems. Everything is translated from the code under `src/`; paths
below are relative to `src/packages/`.

    tlc -config RunnerShared.cfg MCRunner.tla       # any run of PROJECT.json
    tlapm RunnerProofs.tla                          # any module named *Proofs

## 1. Inventory

| component | its state | operations | talks to | hard because |
|---|---|---|---|---|
| event log (`core/src/events`) | the events, their seq, the listeners | `append`, `ingest`, `clear`, `subscribe` | persistence, hooks, runner server, turn driver | `append` awaits its listeners, so what comes after an await may be overtaken |
| turn driver (`core/src/run-turn.ts`) | one queue per turn | start, drain, abort | log, mode, hooks | several turns on one session |
| tool-use mode (`mode-tool-use`, `sdk/src/tool-dispatch.ts`) | iteration, batch, guard, abort signal | request, dispatch, cancel | provider, tools, hooks, resolver, log | aborts, denials and throws between any two awaits; every announced call needs exactly one result |
| projection and compaction (`sdk/src/mode-helpers.ts`, `compactor-summarize`) | none: functions of the log | fold the log to messages, pick a range to summarize | mode | a provider refuses a conversation in which a call has no result right after it |
| runner server (`runner/src/server.ts`) | clients, turns in flight, their scopes | attach, run turn, abort, ask, broadcast, disconnect | log, session, links | replay against broadcast; clients that leave |
| remote session (`runner/src/remote-session.ts`) | mirror of the log, streams, completions | attach, ingest, run turn, answer | link | replies, events and completions in any order |
| link (`runner/src/jsonrpc.ts`, `unix-socket.ts`) | pending requests, the path | request, notify, close; reclaim, bind, unlink | server, client, supervisor | close while requests are pending; a path two processes want |
| lifecycle hooks (`core/src/plugins/lifecycle.ts`) | the plugins | `onEvent`, tool and provider hooks | log, mode | a hook may suspend for up to 5 s |
| session persistence (`core/src/sessions/persistence.ts`) | mutex queue, sidecar timer, files | attach, append, index, restore | log, disk | crashes, torn lines, writes the disk refuses, resumes |
| workflow executor (`plugin-workflows/src/executor/dag.ts`) | step states, wave, signal | passes, waves, attempts, result | schema, step runners | retries, failures and aborts of parallel steps |
| workflow schema (`plugin-workflows/src/schema.ts`) | none | parse, `findCycle` | executor, store | the executor has no check of its own |
| workflow store and triggers (`cli/src/setup/workflows.ts`) | files, watchers, runs in flight | sync of schedules, `afterWorkflow` | scheduler, executor, log | triggers that trigger each other |
| runner supervisor (`desktop-host/src/runner-supervisor.ts`) | child, session, phase, back-off | attempt, restart, stop | `moxxy serve` processes, the path | every await of `attempt` races `stop`, `restart`, exits and foreign runners, of the same protocol or another |
| session driver, ask broker (`desktop-host`) | drivers, windows, parked questions | bind and unbind a window, run and abort a turn, ask, answer, cancel | supervisor, runner server, windows | questions and turns that outlive their window or their link |
| runner pool (`desktop-host`) | supervisors per desk | get or create, stop | supervisor | |
| permission engine (`core/src/permissions`) | policy | check, add, remove | mode, disk | policy in memory before it is on disk |
| scheduler (`plugin-scheduler`) | schedules, their copy per process, poller | tick, run, create, change, delete, reconcile with skills | session, inbox, skills | a tick's list is old when it is used; crash between a run and its record; several processes with a copy each |
| webhooks (`plugin-webhooks`) | triggers, seen keys, queue | receive, deduplicate, answer, fire, count | session | repeated and simultaneous deliveries; the key is recorded before the run |
| self-update (`plugin-self-update`) | transaction journals, snapshots, the clone of moxxy | begin, verify, apply, roll back, escalate; overlay, restore | disk, plugin host | crashes between copies, repeated tries, states that outlive what they were about |
| MCP (`plugin-mcp`) | attachments, lazy connections, the catalog | attach, detach, add, remove, refresh, call | servers, tool registry | detach during a connect or a permission prompt |
| subagents, other modes, Telegram, isolators | children; phases; pending questions; workers with timeouts | spawn; plan; ask; call | mode, log | parallel children, timeouts |
| plugin host, skills, memory, vault, providers, browser, tools, CLI, terminal, desktop UI, docs | files, registries, wire formats | mostly I/O | | little interleaving |

`PROJECT.json` lists every component with its status. Under *hazards* it names
what is hard to test in this code, each at its line, with the properties that
cover it; those with none say why.

## 2. Modules

| module | models | kind |
|---|---|---|
| `SharedLog` | what the runner promises: a log and, per client, a view that is a beginning of it | abstract |
| `Runner` | event log, runner server, links, remote sessions, one turn driver per turn | detailed; implements `SharedLog` |
| `RunnerProofs`, `MCRunner` | theorems; symmetric instances | proofs, TLC |
| `TaskGraph` | what an executor promises: a step settles once, after what it needs | abstract |
| `WorkflowDag` | `runExecutor` with passes, waves, retries, abort, result | detailed; implements `TaskGraph` |
| `WorkflowSchema` | the schema's test of the graph, `findCycle` step by step, and the executor behind it | detailed; composes `WorkflowDag` |
| `WorkflowDagProofs`, `MCWorkflowDag` | theorems about search and executor; all graphs of a size | proofs, TLC |
| `WorkflowTriggers` | what starts workflows: users, models, files, other workflows; the mirror of their schedules | detailed |
| `Scheduler` | the store of schedules, the poller, runs by hand, the reconciliation with skills | detailed |
| `CronSearch` | `parseField` and the search of `nextFireTime`, over a calendar that is a parameter | algorithm, one step per jump |
| `CronSearchProofs`, `MCCronSearch` | theorem; a small calendar | proofs, TLC |
| `MCAutomation`, `AutomationProofs` | `Scheduler` and `WorkflowTriggers` in one run; theorems about both | TLC, proofs |
| `SessionPersistence` | log, mutex, file and sidecar over the lives of a session | detailed |
| `SessionPersistenceProofs`, `MCPersistence` | theorems about file, log and resumed sessions; two instances in one run | proofs, TLC |
| `RunnerSupervisor`, `RunnerSupervisorProofs` | the loop of a supervisor, and the processes that want its socket; theorems | detailed, proofs |
| `DesktopSession` | drivers, windows, turns and questions of a desk, and the server's end of the questions | detailed |
| `Projection` | `projectMessages`, the range of a compaction, what a provider accepts | algorithm |
| `ToolTurn` | turns of the tool-use mode on one log; composes `Projection` | detailed |
| `ToolTurnProofs`, `MCToolTurn` | theorems; the symmetric instance | proofs, TLC |
| `MCToolChain`, `MCToolTurns` | the part with compactions the provider's requests are looked at in; with three more instances in one run | TLC |
| `Webhooks` | a trigger's deliveries, the cache of keys, the store, crash and start | detailed |
| `SelfUpdate` | transactions around a change to a plugin, with what the plugin host does in them | detailed |
| `CoreUpdate` | patches of moxxy's own packages: build, overlay, restore, boot | detailed |
| `Mcp` | attachments, lazy connections, calls and administration of one server | detailed |
| `MCServices`, `ServicesProofs` | `CronSearch`, `Webhooks`, `SelfUpdate`, `CoreUpdate`, `Mcp` and `DesktopSession` in one run; theorems about the last five | TLC, proofs |

`MCPersistence`, `MCToolTurns`, `MCAutomation` and `MCServices` are sums: a
variable `part`, chosen by the initial state, says which component or instance a
behaviour is one of, and what only the others use stays `Unused`. The parts
share no state; each property names the part it is about.

### How state and actions correspond to the code

**Runner.** A client has a state of its connection and a FIFO in each
direction; a frame is a record with a kind. One action is one handler between
two awaits: `OnAttach` sends the replay and subscribes in one step because the
code does so without an await; `AppendEvent`, the wait for the `onEvent` hooks
and the broadcast are three steps because `append` awaits every listener. A
turn is asked for, runs, may ask for permission, and completes; `OnDisconnect`
is the whole of the server's handler (abort of the turns, rejection of pending
requests). `Delayed` and `Clears` say whether hooks suspend and whether a
client clears its view, so that what holds without them is told from what holds
always.

**WorkflowDag.** The loop has a program counter, each step a status and an
attempt. A pass walks over the steps that were pending when it began, in order;
`EndPass` starts another if one was skipped. `StartWave` takes the first
`concurrency` ready steps and remembers which outputs their scope holds.
`RunStep` is the asynchronous part: attempts of the steps in flight succeed,
fail, retry and give up in any order, beside the signal.

**WorkflowSchema.** A call of `visit` is a step's place on the stack and in the
list of its needs; what it does with an id, before its loop or instead of it, is
one action (`Pass`, `Enter`, `Close`). A workflow carries the lists as they are in
its file, in which an id may be repeated or name no step, and the sets of steps
the executor looks up. The executor takes its first step when the search is
over and nothing was reported.

**WorkflowTriggers.** A call is an asynchronous function under way: one that
wants to run a workflow, or a reaction to a completion that runs several, one
after the other. `runNow` is three steps (the store is asked, the guard and the
set of runs, the end), a watcher is a debounce timer per workflow, `onReady` and
`syncSchedules` go through the scheduled workflows one await at a time. The run
itself is an outcome: well, badly or by an exception.

**Scheduler.** Each process has the store's copy of the file, a queue of
mutations (the mutex), a poller that walks over the entries it found due, a run
by hand and a reconciliation; any number of processes share the file. A mutation
changes the copy and writes the whole of it to the file in two steps, and the
second may fail. Two histories are kept per process: `shots`, how often its
poller ran an entry since it was armed there, and `gone`, what it removed and no
other process has written back. An entry is a cron, whose next time is a
multiple of `Period` here (a clock that is never set back), or a one-shot.

**CronSearch.** A step is one turn of the loop of `nextFireTime`: a match, or a
jump over a month, a day, an hour or a minute. `Zone` gives the clock face the
expression is about; every step moves the hands of the host's clock
(`ThisMinute`, `NextMinute`, `NextHour`, `NextDay`, `MonthStart`), whose setters
take a time that the clock shows twice for the first of the two.

**SessionPersistence.** The log of a process, the hooks that have not ended,
the queue of the mutex, the file as a sequence of lines (a line may be torn,
and a line appended to a torn one is lost with it), the sidecar with its timer.
The disk may refuse any write: `FailLine` is the append's swallowed rejection,
after which the mutex goes on with the next line. A write of the sidecar is
three steps, because `writeIndex` waits for the directory before it takes the
meta and for the file after it (`IndexFires`, `IndexReads`, `IndexLands`), so
two may overlap and end in the other order, and each may fail (`IndexFails`).
`Crash`, `Exit` and `Start` divide the lives; `Start` restores the log as
`restoreEvents` does. The histories `failed`, `holed` and `spoilt` say which
appends of this life were refused, whether anything was written after one, and
whether the last write of the sidecar failed or ran beside another.

**RunnerSupervisor.** The loop's program counter has one value per await of
`run` and `attempt`; `Restart` and `Stop` may come between any two. Processes
boot, probe the path, reclaim, bind, serve, shut down and unlink, as
`unix-socket.ts` and `serve.ts` do, whether the supervisor spawned them or not.
A runner that was there before, or is started by someone, may speak another
protocol (`old`). An attach to it begins a hunt of four awaits: the client's
recovery (`remote-session.ts:617-733`) and then the supervisor's own
`killForeignRunner` each ask lsof for a process with this socket (`HuntFinds`,
`HuntMisses`), send it a SIGTERM and 400 ms later a SIGKILL (`HuntKills`), and
unlink the path (`Sweep`). `stop` sends a SIGTERM and waits (`Stop`), for the
exit (`StopSeesExit`) or for the end of its grace and a SIGKILL
(`StopGraceEnds`); either signal may fail, which the code swallows (`missed`).
A SIGTERM may be ignored; a process that got a SIGKILL takes no step of its own
and ends by `HandleSigkill`.

**DesktopSession.** A link is open, ending (`close()` was called) or closed.
Drivers are kept in the order they were made, because a session's resolvers are
those of the last one made for it, disposed of or not, and its `onClose`
disposes of all of them. A turn has the pump's state on the desktop and its run
on the server, a question the places it goes through: sent, parked in the
broker, replied or lost, decided. `cancelAsksFor` takes every question of the
desk. Connect, close, `connected` again, and the window's opening and closing
may come between any two of these.

**Projection and ToolTurn.** The log is one sequence for all turns of the
session, an event has a kind, a turn and, if it has one, its call. A turn's
program counter has one value per await of `runToolUseMode`, `dispatchToolCall`
and `runCompactionIfNeeded`, so that another turn, an abort or a crash may come
between any two. `projectMessages` is a fold over the log with the messages,
the pending calls and the compactions already told, as in the code. Events that
neither the projection nor the compactor looks into are left out of the log.

**Webhooks.** A request is checked, remembered, answered and dispatched; the
count of a fire is a mutation of the store, again a change of the copy and a
write. The cache of keys is a sequence with ages, swept and cut as `dedupe.ts`
does.

**SelfUpdate, CoreUpdate.** A directory is a version, a copy takes two steps and
a crash between them leaves a part. A call of a tool is a program counter with
what the call has read of the journal; journal writes, copies, the unload and
the reload of the plugin, builds, tests and the renames of an overlay are steps
of their own. The disk may refuse any of them (`DiskFails`, `OverlayFails`,
`RestoreFails`): the call throws, except that an apply whose restore fails goes
on to say that it has restored (`GaveUp`). After a second rename that fails a
package has no dist.

**Mcp.** An attachment is a closure with the promise of a connection; `entry` is
what `runtimes` holds for the name, a sentinel until the first call connects. A
call keeps the tool it looked up while the user is asked; an add, a refresh, a
detach or a failure may come at any await.

## 3. Runs

Each run's question is its `about` in `PROJECT.json`. Four runs expect a
violation: each shows a place where the code does not do what a document or a
comment of the repository says. Section 6 describes them and the other
disagreements that were found, with the instance that shows each.

| run | instance | distinct states | properties |
|---|---|---|---|
| `RunnerShared` | 2 clients and 1 turn, or 1 client and 2 turns; 3 events | 1 008 000 | `CaughtUp AskNotLost EndedStreamIsWhole` |
| `RunnerLive` | 1 client, 1 turn, 3 events, slow hooks, cleared views | 22 000 | `ImplementsSharedLog StreamInOrder OrphanEnds CallEnds EventReachesMirrors` |
| `WorkflowDag` | all graphs of 3 steps, in all orders, with unknown ids; runs of those that are accepted | 535 000 | `NeverStalls ErrorNamesCulprit ImplementsTaskGraph RunEnds` |
| `Persistence` | 3 events, 3 lives with prompt hooks; 2 events, 2 lives with slow hooks, clears and overlapping index writes; torn lines and refused writes in both | 997 000 | `PromptLinesInOrder PromptReadable LogIsSafe DiskCatchesUp` |
| `Supervisor` | 6 processes, 1 fault | 371 000 | `OwnsWorkspace SparesOthers StopKillsChild Heals` |
| `ToolTurn` | 2 turns at once; batches with denials and aborts; 2 turns with compactions; the same with crashes | 198 000 | `AnsweredOnce EndedIsAnswered EndIsTold ChainIsWellFormed CompactionsAreDisjoint LiveTurnEnds` |
| `Automation` | 2 processes, 2 schedules, 2 changes, 1 fault; 3 workflows, 3 calls | 1 483 000 | `OneShotOnce DeletedStaysDeleted DueIsRun InFlightIsExact CascadeEnds` |
| `Services` | see below | 1 382 000 | `FirstFire CountIsExact DedupeIsAWindow UndoIsThere UndoneIsUndone UndoRestores OneConnectionEach DetachedIsClosed DenialHasAReason` |
| `ToolKeepRecent`, violated | 2 turns after each other, compactions, 1 turn kept | | `OwnPromptIsSent` |
| `CronZone`, violated | the small calendar, a zone 2 minutes ahead of the host | | `FirstFire` |
| `SkillOneShot`, violated | 1 process, a skill with a one-shot | | `SingleRun` |
| `CoreTested`, violated | 2 packages, 2 transactions, 2 edits | | `LiveIsTested` |

**Bounds, and why they are enough.** Two clients are needed for what one does to
another (a late attach, a broadcast to the other), two turns for what turns do
to each other; `Small` in `MCRunner` leaves out having both. Three events let a
gap have something before and after it. Three steps are the fewest with a chain,
a diamond's half and independent steps with a wave smaller than what is ready;
wider and deeper graphs are the business of the theorems, which are for any set
of steps. Three lives let an event be written in one, restored in the next and
followed by new ones in the third; with slow hooks two events and two index
writes at a time can each overtake the other. Six processes are a spawned one, a
replacement, a foreign one, one of another protocol, one that is shutting down
and one to heal with. In `ToolTurn` two calls are a batch one of which can be
done when the abort comes, two turns give one something to compact; `KeepRecent
= 1` makes a turn that is kept and one that is not out of two.

In `Automation` two entries let a tick walk on after the first. Two processes
let one write back, remove or run what the other knows; more than one lives only
up to the first minute and the first entry (`MaxBeside`), after which the rest
of the bounds apply. The theorems hold for every value of `MaxBeside`.
`DueIsRun`, a liveness property, is checked on one process and one entry. Of the
three workflows two list themselves and the third follows both, which is the
smallest graph with a self-trigger and a cascade that meets in one workflow. In
`Services`: three keys against a cache of two, so that one can be evicted, with
a life of one tick; two requests at a time and three deliveries; two
transactions, one edit and four calls, so that one transaction can be verified
after another was undone and a cap of tries can be passed; one crash, and one
old transaction kept; two packages, one of which builds no dist, and five calls;
two calls on an MCP server with two attachments and three connections, so that
each attachment can have one and one can fail; one turn with one question, two
sessions and two windows of a desk. The calendar of `MCCronSearch` has hours of
two minutes, days of two hours, weeks of three days and months of two, one and
two days, so that every kind of jump crosses every kind of end; it covers all
expressions of its fields.

The counters that are bounded for TLC only are constants with a comment that
says so (`MaxEvents`, `MaxLives`, `MaxFaults`, `MaxBatch`, `MaxTxns`, `MaxConns`,
...); those of the code (`concurrency`, retries, `MaxIterations`, the compaction
budget, the cap of failed verifies, the cache's size and window) are part of
the model. `CHECK_DEADLOCK FALSE` is set where a system that has nothing left to
do stops.

**Fairness.** Weak fairness only, and only for steps that the program takes by
itself: the event loops of the two ends of a link deliver what is queued, hooks
end (5 s), a started turn goes on until its end or its abort, the mutex runs its
queue, the disk answers (if only by refusing), a timer fires, the loop of the
supervisor goes on, a process that boots binds or exits, a SIGKILL ends a
process, the poller's chain of ticks and the runs of schedules and workflows go
on (`Due!Works`, `Trig!Works`). Users and files are not fair: nobody needs to
connect, to answer while connected, to abort, to restart, to change a file, and
no process needs to obey a SIGTERM; where an answer is needed the property is
about clients that have left. A step's call, a tool and the provider are assumed
to come back, since the code waits for them without a limit. No strong fairness
is assumed. The liveness properties are `RunEnds`, `OrphanEnds`, `CallEnds`,
`EventReachesMirrors`, `DiskCatchesUp`, `StopKillsChild`, `Heals`,
`LiveTurnEnds`, `DueIsRun` and `CascadeEnds`.

## 4. Proofs

TLAPS proves the following for every value of the constants that satisfies the
named assumptions of the modules, and the hypotheses a theorem states itself. It
covers every safety property and every action property of the passing runs. Some
properties (the type invariants, `MirrorIsPrefix`, `NoGap`, `SeesItsNeeds`,
`LinesInOrder` with prompt hooks, and others) are proved and listed by no run:
the runs check what is not proved, or what the proofs need to be confirmed on.

* **Runner** (`RunnerProofs`). `TypeCorrect`. `MirrorCorrect`: a mirror is a
  beginning of the log, whatever hooks delay and views clear, because `Ingest`
  takes an event only at the position of its seq and a frame carries the event
  the log has there. `NoGapWhenPrompt` and `CaughtUpWhenPrompt` assume that hooks
  do not suspend and views are not cleared (section 6 shows that they must not);
  the inductive invariant says that mirror, frames on the link and the log's rest
  line up without a hole. `OrphanCorrect`: a turn whose client's close was
  handled is told to stop. `RunnerImplementsSharedLog`: initial states map to
  initial states, a step to a step or a stutter. `AskCorrect` (`AskNotLost`): a
  pending question is in the queue to its owner, with the owner, in the queue
  back, or its connection is ending (`Held`), so what takes it from one place
  puts it into the next. `StreamsInOrder` needs more: a client asks once to
  attach and once for each turn (`Once`, `Requested`), so no replay is to come
  after the request of a turn, and what is on the link of a turn's owner is in
  order, above what its stream and mirror had, and below what is being sent
  (`Ordered`). `EndedStreamWholeWhenPrompt`, with prompt hooks and views that are not
  cleared: the frame that completes a turn stands behind the events of the turn
  that the mirror misses (`After`), so a stream that ends has them (`Whole`).
* **WorkflowDag** (`WorkflowDagProofs`). The inductive invariant is the type
  invariant with four facts: who is in flight (`Running`), how retries are
  counted (`Counted`), when a run is doomed (`Doomed`), and how it ended (`Ended`).
  Of the search (`SearchInv`): the steps being visited are the stack, which is a
  path of needs (`Path`), what a loop is past is done or is next on the stack
  (`Looked`), what is done needs only what is done, and of every set of such steps
  one needs no other of the set (`DoneIsAcyclic`). So `SearchCorrect`: a cycle is
  found just if there is one; and `ReportCorrect`: what is reported is one. The
  executor runs only what was accepted, so a set of pending steps has one that
  is ready, and the stalled branch is never taken (`StallFree`); on this the rest
  depends, since a stall would fail a run without a culprit: `ErrorCorrect` and the
  refinement `DagImplementsTaskGraph`. `ScopeCorrect`, `WaveCorrect`,
  `DoomedStartsNothing` follow from `Running` and `Doomed`. `OkCorrect`: an ok run
  that no one aborted settled every step, so section 6's `OkReachedTheEnd` is the
  abort's doing alone.
* **SessionPersistence** (`SessionPersistenceProofs`). `TypeCorrect`. `LogSafe`
  (`LogIsSafe`): with slow hooks, cut lines, resumed lives and `/new`, an event
  of a living log that is in neither file, queue nor hooks is one whose append
  the disk refused in this life, as long as every line has its newline.
  `FileInOrder` under the assumption that no hook suspends: the lines of the
  file are sorted, the queue rises, and the log's newest event is above both.
  Without the assumption it is false (section 6). `ResumedReadable`, with
  neither slow hooks nor `/new`: while no line was garbled and nothing was
  written after a refused append of the same life, the number of an event is its
  line in the file (`Numbered`), so a resumed log has no hole. Section 6 shows
  that both conditions are needed. `PromptFileInOrder` and
  `PromptResumedReadable` carry both to the pair of sessions of `MCPersistence`,
  in which the other session may have slow hooks.
* **RunnerSupervisor** (`RunnerSupervisorProofs`). The inductive invariant adds to
  the types who started whom (`Kin`: the children are the supervisor's, runners
  of another protocol are others'), that a workspace's path goes to the first
  child and stays with the children (`Alone`), and that there is no hunt without
  a runner of another protocol (`Spare`); from it follow `WorkspaceIsOwned`,
  `RemoteCorrect` and `OthersAreSpared`. The last one has to speak of a workspace
  or of runners of one protocol: a hunt may hit anyone (`OnlyStaleKilled`,
  section 6).
* **CronSearch** (`CronSearchProofs`). `SearchFindsFirst`, for any calendar in
  which the steps, those of a minute too, move on the zone's own clock and that
  clock is never set back (`ZoneIsHost`), and expressions
  name a month that exists (`MonthsAreNamed`): nothing that fires lies between
  the start and the cursor, since every step passes only over times whose
  month, day, hour or minute does not match; so what is found is the first. TLC
  evaluates both assumptions on the small calendar. The first is needed in both
  of its parts: `CronZone` shows it for the zone and `LiesAhead` (section 6) for a
  clock that is set back. A host with summer time satisfies it except for
  searches that meet the hour which is shown twice.
* **ToolTurn** (`ToolTurnProofs`), with any number of turns at once, compactions and
  crashes. A call is *past* when its turn has gone beyond it and *owed* while
  the turn has yet to answer it, or never will because it died or the guard
  ended it. The inductive invariant (`CallInv`) says that results are of past
  calls and unique, that each stands behind its request, that what a turn is about
  to answer has been announced, and that every request is owed or answered; from
  it follow `AnsweredOnceCorrect` and `EndedIsAnsweredCorrect`. `TypeCorrect` needs that
  a compaction replaces what stands before it and that the compactor's
  beginning of the log still has something to replace when it is done.
  `CompactionsAreDisjointCorrect` assumes `~Concurrent`: then nothing is appended
  while a compactor works, so it knows all earlier compactions. `EndIsToldCorrect`:
  the last a turn that is over says of itself, compactions aside, is its end
  (`ToldInv`). `RequestIsWellFormedCorrect` says of the messages made from the log
  that each call in them is answered right after it. `projectMessages` is a fold,
  written as a recursive function of the length of the log, and an induction
  over that number is had from its least counterexample (`LeastNumber`). The
  log is grouped (`Grouped`, part of the inductive invariant `Kept`): between the
  request of a call and its result stand only events of the same turn's calls,
  no request behind a result (`Burst`), and no end of a range that a compaction
  replaces (`Uncut`). For such a log the fold keeps that its pending calls wait
  for their first result (`PendingWait`), that a call which a message announced
  and none has answered is still to come, right after it (`LacksAreDue`), and that
  each result to come is of such a call (`DueAreExpected`); so `FoldStep`, and at
  the end `flush` makes up what is missing (`MadeUpFacts`, `QuietFlush`). The
  hypotheses, one turn at a time, no crash, no text beside calls, are those
  section 6 shows necessary.
  `ChainIsWellFormedCorrect` is the same for the part of the run that checks it.
  `OwnPromptCorrect` (`OwnPromptIsSpared`, with `~Concurrent`) is what the code keeps of
  section 6's `OwnPromptIsSent`: the first `KeepRecent` compactions of a turn leave its
  prompt among the messages, and the run shows one that takes it as the next.
  A running turn begins with its prompt, and what comes after is its own or a
  compaction (`Begins`), so the turns that begin after the prompt are at most
  those of the compactions; and a compaction covers its turn to the end
  (`Whole`), so a later one does not reach past the prompt through it
  (`CompactionSpares`). A prompt that nothing replaces is told by the fold
  (`PromptIsTold`).
* **Services** (`ServicesProofs`), each component with its inductive invariant. The
  theorems are stated of the sum `MCServices`, whose constants are those of the
  components, so they hold for every value of these.
  - *Webhooks* (`HookInv`): the cache of keys is in the order of the last checks
    (`InOrder`), and what a history of all checks says of a key agrees with it for
    the keys it has (`Present`) and for those it lost (`Absent`); so `DedupeCorrect`, by
    which eviction and sweep together are a window in time and number, and
    `CountIsExactCorrect`.
  - *SelfUpdate* (`PluginInv`): journals and copies agree with the target at the
    beginning of their transaction (`Journalled`), before a begin has journalled
    (`Beginning`) and at each await of what undoes (`Undoing`); so
    `UndoIsThereCorrect` and `UndoneIsUndoneCorrect`. The second excepts the refusal
    that takes an earlier rollback for its own (`TakesForUndone`): section 6 shows
    with `RefusedIsUndone` that it undoes nothing.
  - *CoreUpdate* (`CoreInv`): the copies of a transaction that was overlaid once
    are the first dists (`Copies`), an overlay has copied what it puts in and not
    touched the others (`Overlaying`, `Copied`), and a restoration has put the
    copies back of what is done (`Restoring`), wherever an earlier one failed; so
    `UndoRestoresCorrect`, of every restore that comes to its end. Of one that
    fails nothing is claimed: section 6.
  - *Mcp* (`McpInv`): the connection of a closure is its own and the only one it
    keeps alive (`Promised`), and what a detach leaves is closing or strayed in one
    of the two ways of section 6 (`EntrysClient`, `Detached`); so
    `OneConnectionEachCorrect` and `DetachedIsClosedCorrect`.
  - *DesktopSession* (`DeskInv`): one session is up at a time (`OneLink`), the current
    driver serves it and the open window (`CurrentServes`), a turn that goes on is
    the driver's or aborted (`Abortable`), a question belongs to a turn (`Asked`); so
    `DenialCorrect`.
* **Automation** (`AutomationProofs`), stated of the sum `MCAutomation`.
  - *WorkflowTriggers* (`TrigInv`), for the three workflows of that module and any
    number of calls: a name is in the set in flight exactly if a call runs it, and
    no two do (`Tracked`); so `InFlightIsExactCorrect`.
  - *Scheduler* (`SchedInv`, for each process on the file): ids come from one
    counter (`Numbered`); all that the file and any process's cache, walk, run by
    hand and queue hold under an id (`Known`) is of one owner and kind
    (`AllAlike`), and a reconciliation changes rows of skills only
    (`SyncIsSkilled`); what a process removed has no creation behind it in its
    queue (`Removed`); the poller's one mutation is of the head of its walk
    (`Walking`); a one-shot of a user that is enabled and not running, or waits in
    the walk, has not been run (`Once`). A step of one process leaves what the
    others have as it is, and of what they removed it can only put something back
    (`Others`); what is known under an id after it is like what was known before
    (`KnownThen`). From these follow `OneShotOnceCorrect` and
    `DeletedStaysDeletedCorrect`, for any number of processes, without a
    hypothesis. Both are about what a process does itself: that a one-shot is run
    by one process only, and that a removal is not undone by another's write, is
    not so (`OnePollerRuns`, `RemovalLasts`, section 6), since each process writes
    the whole file from the copy it read when it first needed it.

**Only model-checked.** Liveness under fairness and whatever needs ENABLED
(`RunEnds`, `OrphanEnds`, `CallEnds`, `EventReachesMirrors`, `DiskCatchesUp`,
`StopKillsChild`, `Heals`, `DueIsRun`, `CascadeEnds`, `LiveTurnEnds`), which the
provers do not do. The properties that section 6 shows violated are, of course,
not proved.

## 5. What is not modelled

Within the modelled parts: the registries' one-request-one-reply facades, and in
`Runner` the versions of the protocol (`RunnerSupervisor` has them); templates,
nested workflows and `when` conditions that do not parse; the listing of
sessions and two processes on one session id; `setCwd` of a supervisor, what the
recovery from a mismatch ends on port 4040, Windows (where there is no hunt, so
a runner of another protocol is refused for ever), and an lsof that names
several processes (the CLI that is found is assumed to speak the desktop's
protocol); elision of old tool output (it changes texts, not the order of
messages), near-equal calls in the guard, rewrites of a call's input by hooks;
the inbox; signatures, filters and tunnels of webhooks (a verdict); what a build
or a test looks at (an outcome); transports of MCP, a detach of a server that is
no longer in the catalog (`remove.ts:29`), the shutdown of its plugin
(`admin/index.ts:137-146`), and the connection an eager add leaves open when its
listing of tools fails; the focus widget, a second window on the main window's
driver. Contents of messages, texts and names are model values throughout.

Of the rest of section 1: the runner pool is a map of supervisors; subagents,
the other modes, the permission engine, the Telegram channel's pending
questions and the isolators' timeouts have state and an order of events, and
are left (section 7); the plugin loader, skills, memory, vault, providers,
browser, tools, the CLI, the terminal and the desktop's renderer, which are most
of the code's lines, are I/O, rendering or translation between formats, in which
no order of events decides about correctness.

## 6. Where the code and its documents disagree

Each property below is defined in the module named, and TLC finds it violated by
the specification translated from the code. Those of the four runs are listed
first; the others are reproduced by naming the property as the INVARIANT of the
configuration given, with the changes given. A module with no configuration of
its own is checked with its own `Spec` and its constants in the one named.

| property | module, configuration | what happens | what is said |
|---|---|---|---|
| `OwnPromptIsSent` | run `ToolKeepRecent` | several compactions in one turn replace that turn's own prompt: a compaction is an event of an older turn (`compactor-summarize/src/index.ts:80`) and is counted as one to keep (50). Shown with one turn to keep; with the default of three it takes the fourth compaction of a turn, and no fewer do it (`OwnPromptCorrect`) | `apps/docs/.../compactor-summarize.md:32` "always keep the last 3 turns verbatim" |
| `FirstFire` | run `CronZone` | fields are read in the given zone, jumps go to the start of the host's month, day or hour and pass over times that match | `plugin-scheduler/src/cron.ts:115-121` "Operates in the caller-supplied IANA timezone" |
| `SingleRun` | run `SkillOneShot` | a skill's one-shot that has run is disabled; the next reconciliation sees a difference to the file and enables it again | `plugin-scheduler/src/runner.ts:71-72` "get disabled after their single run" |
| `LiveIsTested` | run `CoreTested` | a verify that fails leaves `verified` from an earlier one, and apply overlays the build that failed | `plugin-self-update/src/index.ts:555` "Requires a prior successful self_update_core_verify" |
| `LiesAhead` | `MCCronSearch`, `CronZone` with `Offset = 0`, `Back = 18` | where the host's clock is set back, the setters go to the first of two equal times: the search begins an hour early and finds a time that is past, also in the host's own zone | `cron.ts:116` "walk forward from `after` (exclusive)" |
| `RefusedIsUndone` | `SelfUpdate`, constants of `Services` (`MaxCalls` is its `MaxPluginCalls`) | after two failed verifies, a rollback and another edit a verify refuses, and escalate restores nothing because the journal says `rolled_back` (`index.ts:629`) | `plugin-self-update/src/index.ts:215` "Rolled back to a clean state" |
| `SaidIsBack` | `CoreUpdate`, constants of `Services` (`MaxCalls` is its `MaxCoreCalls`) | the restore after a failed overlay fails itself, which is swallowed (`index.ts:572`) | `plugin-self-update/src/index.ts:573` "overlay failed and was rolled back" |
| `NoneIsMissing` | the same | the second rename of the swap fails and nothing undoes the first: the package has no dist | `plugin-self-update/src/core-update.ts:385` "Stage the new dist on the same fs, then swap atomically" |
| `VerifiedIsLoaded` | `SelfUpdate`, constants of `Services` | where a plugin's directory is not named like its package the unload does nothing and the reload keeps the old module | `plugin-self-update/src/index.ts:330` "The change is already live (loaded during verify)" |
| `ScheduledIsMirrored` | `WorkflowTriggers`, instance of `Automation` | `syncSchedules` passes `id: ''`, which the store's schema refuses: the first scheduled workflow ends the sync | `plugin-scheduler/src/store.ts:171-177` "mirror a workflow's `on.schedule` into the shared poller" |
| `FileIsServed` | `Scheduler` with `FairSpec` as the specification, the property as a PROPERTY, two processes, one entry, one change | a process reads the file once: what another adds is not run, and is overwritten by the next write | `apps/docs/.../guides/scheduler.md:6-8` |
| `OnePollerRuns` | `Scheduler` with `Spec`, two processes, `MaxTime = 1`, `MaxEntries = 1`, `MaxOps = 2`, `MaxFaults = 0` | each process loads a poller (`cli/src/setup/builtins.ts:367`) with a copy of its own, and both run a one-shot that both have read | `runner.ts:71-72` "get disabled after their single run" |
| `RemovalLasts` | the same, as a PROPERTY | a process writes its whole copy, with what another has removed | `plugin-scheduler/src/tools.ts:127` "Permanently remove a schedule by id" |
| `AskIsShown` | `DesktopSession`, constants of `Services` | the window closes while a question is on its way: the disposed driver's resolver parks it with no window, for ever if the session lives | `desktop-host/src/ask-broker.ts:26-27` "so the runner never blocks forever on an unanswerable prompt" |
| `NotApprovedUnasked` | the same | the link drops during an approval: the server takes the default option, `approve` in plan-execute and developer mode | `desktop-host/src/session-driver.ts:97-99` "a vanished sheet never silently green-lights a risky step" |
| `NoGap` | `MCRunner`, `RunnerShared` with `AsyncHooks = TRUE` | two turns and one slow `onEvent` hook: a later event is broadcast first, and the mirror refuses everything from there on | `core/src/events/log.ts:86` "A gap can't happen over the reliable in-order transport" |
| `NoGap` | `MCRunner`, `RunnerShared` with `ClearMirrors = TRUE` | `/new` on an attached client empties its mirror while the runner's seq goes on | `runner/src/remote-session.ts:250` "resets THIS client's view (used by /new) without touching the runner's shared history" |
| `ScopedAskNeverFallsBack` | `MCRunner`, `RunnerShared` | a question of a turn whose client has just left goes to the host's resolver | `runner/src/server.ts:66-69` "delivered back to exactly the client that asked for the turn" |
| `OkReachedTheEnd` | `MCWorkflowDag`, `WorkflowDag` | an abort between two waves ends the loop without `aborted`, so the run is ok with steps that never ran; without an abort it holds (`OkCorrect`) | `dag.ts:194` "A run is \"ok\" when it reached the end without a hard abort" |
| `LinesInOrder` | `SessionPersistence`, constants of the slow part of `MCPersistence` | lines are written in the order in which hooks end | `persistence.ts:64-66` "append-ordered even when events arrive faster than the disk can flush" |
| `ResumedIsReadable` | `SessionPersistence`, constants of the prompt part, `Tear = FALSE`, 2 lives | an append that the disk refuses is swallowed (`persistence.ts:139`) and the next is written: the resumed log has a hole in its seqs, although every line parses | `persistence.ts:238` "a single corrupted append shouldn't make the rest of the conversation unreadable" |
| `ResumedIsReadable` | the same with `Tear = TRUE`, `Fails = FALSE`, 3 lives | a torn line leaves a hole in the seqs of a resumed log, and no client can mirror it beyond the hole | `persistence.ts:238` "a single corrupted append shouldn't make the rest of the conversation unreadable" |
| `ResumedIsReadable` | the same with `Tear = FALSE`, `Fails = FALSE`, `Clears = TRUE` | after `/new` the file has two events with seq 0 | `log.ts:81` "seq === index" |
| `CrashLosesAtMostOne` | the prompt part, `Fails = FALSE` | nothing waits for the queue of writes | `persistence.ts:16` "lose at most the last in-flight event on a crash" |
| `LabelIsFirstPrompt` | the prompt part, `Fails = FALSE` | after a resume the sidecar names a later prompt | `persistence.ts:31` "First 80 chars of the first user_prompt" |
| `IndexInSync` | the prompt part with `FairSpec`, `MaxIndex = 2`, `Tear = FALSE`, `Fails = FALSE`, as a PROPERTY | of two index writes that overlap the older may replace the sidecar last | `persistence.ts:53-54` "keeps the index in sync" |
| `FinalIndexWritten` | the prompt part, `Fails = FALSE` | the last index write is on an unref'ed timer that an exit does not wait for | `persistence.ts:105` "Flush a final index write so lastActivity reflects the close time" |
| `OneRunner` | `RunnerSupervisor`, `Supervisor` | a wait for the socket that gives up is followed by a second spawn while the first child boots | `runner-pool.ts:2` "one supervised `moxxy serve` per workspace" |
| `StoppedIsStopped` | the same | `stop()` during the probe of `attempt()` resolves, then `attempt()` spawns | `runner-pool.ts:90` "Stop & forget one workspace's runner" |
| `ReplacedIsKilled` | the same | a foreign runner loses its path and is not killed | `runner-supervisor.ts:228` "Kill the foreign serve if one is on the socket" |
| `OnlyStaleKilled` | the same | after a mismatch lsof is asked twice who has the socket by then, so a runner of the right protocol, even one another application has just started, gets the signals | `runner-supervisor.ts:281` "killing stale runner and respawning" |
| `RequestIsWellFormed` | `MCToolTurn`, `ToolKeepRecent` with `Speaks = TRUE` | the text of a response stands between its calls and their results | `mode-helpers.ts:209` "a clean assistant→tool-result chain" |
| `RequestIsWellFormed` | the same with `Concurrent = TRUE` | two turns on one session tear each other's calls from their results | `run-turn.ts:15` "hosts like the HTTP channel that serve multiple turns in parallel" |
| `RequestIsWellFormed` | the same with `Crashes = TRUE` | a crash between a denial and its result leaves a call that counts as resolved and has no message | `mode-helpers.ts:185-189` the fallback is for "an aborted process" |
| `NoOrphans` | the same with `MaxBatch = 2`, `RepeatThreshold = 2` | the guard ends the turn in the middle of announcing a batch; the projection makes up for it | `turn-iterator.ts:213` "the event log can't end with orphan tool_call_requested events" |

Two more were met without a property: the filter `<package>...` of pnpm
(`plugin-self-update/src/core-update.ts:307`) selects dependencies where the
comment says dependents, and the poller never calls the reconciliation with
skills that `plugin-scheduler/src/skill-sync.ts:13-15` says it calls on every
tick.

Some properties of the runs say what they leave out, because the code does not
keep more. `EventReachesMirrors` is for one turn: with two whose slow hooks
overlap a mirror stops for good, as `NoGap` shows. `CascadeEnds` is for graphs
without a cycle of two or more workflows: two that list each other run for ever,
since `afterWorkflow` excludes only the direct self-trigger. `DetachedIsClosed`
names the two ways in which a connection outlives its server: a call that was
held in its permission prompt connects after the detachment, or a new attachment
is given the client of the old one. `OneShotOnce` counts anew from what a
process reads, so a run whose outcome a crash lost is not counted, and it is
about the poller of one process, as `DeletedStaysDeleted` is about what a
process removed until another writes it back. `LogIsSafe` excepts events whose
append the disk refused in this life: the process keeps them in memory and no
one hears of it. `DiskCatchesUp` leaves the sidecar behind if its last write
failed or ran beside another. `SparesOthers` says nothing of a shared path on
which a runner of another protocol was; `StopKillsChild` excepts a signal that
could not be sent. `UndoneIsUndone` excepts the refusal of `RefusedIsUndone`.
`UndoRestores` is about a restore that comes to its end, of a package that had a
dist, in a transaction that was overlaid once and whose copy was not cut short
by a crash or a full disk: a second overlay copies what the first had put there.
A webhook is answered before its trigger has run, so a crash in between loses
the delivery (`plugin-webhooks/src/server.ts:178`).

## 7. Plan

Modelled: runner and log, workflow executor with its schema and triggers,
persistence, supervisor, desktop sessions, tool-use mode with projection,
scheduler and cron, webhooks, both tiers of self-update, MCP. What is left, in
this order:

1. Proofs: the refinement of the abstract transaction of item 2.
2. An abstract specification of a transaction (the target is the old or the new
   version, and an undo gives the old) that both `SelfUpdate` and `CoreUpdate`
   implement.
3. Subagents (parallel children whose events are copied to the parent's log), the
   goal loop, the permission engine's policy in memory and on disk, Telegram's
   resolver, the isolators' timeouts.
4. Pure algorithms: the order in which plugins load, elision.
