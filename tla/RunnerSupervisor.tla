--------------------------- MODULE RunnerSupervisor ---------------------------
(***************************************************************************)
(* The desktop's supervisor of one runner                                  *)
(* (packages/desktop-host/src/runner-supervisor.ts): a loop that resolves  *)
(* the CLI, adopts the runner that listens on its socket or spawns one,    *)
(* attaches to it, waits for the link to drop, backs off and tries again;  *)
(* restart() and stop() run between any two of the loop's awaits.  A       *)
(* runner of another protocol that answers is hunted with lsof and two     *)
(* signals, by the client (packages/runner/src/remote-session.ts) and      *)
(* again by the supervisor, and the path is swept.                         *)
(*                                                                         *)
(* With it the life of `moxxy serve` as far as the socket's path is        *)
(* concerned (packages/runner/src/unix-socket.ts,                          *)
(* packages/cli/src/commands/serve.ts): a runner reclaims a stale path,    *)
(* binds it, and unlinks it when it shuts down, whoever's it is by then.   *)
(* A path bound to a workspace is used by this supervisor only, but for    *)
(* what an earlier desktop left there; on the shared path any user may     *)
(* start a runner.                                                         *)
(***************************************************************************)
EXTENDS Naturals, FiniteSets

CONSTANTS
  MaxProcs,   \* bound: runner processes ever started
  MaxFaults   \* bound: crashes, slow boots, restarts of the supervisor

ASSUME SupervisorAssumption == MaxProcs \in Nat \ {0} /\ MaxFaults \in Nat

Procs == 1..MaxProcs
None == 0

-----------------------------------------------------------------------------
VARIABLES
  workspace, \* cwd # null: the socket is a workspace's own
  cli,       \* a moxxy CLI can be found
  pc,        \* where the loop of run() and attempt() is
  adopt,     \* attempt(): the probe found a listener
  watched,   \* attempt(): the child waitForSocket looks after
  held,      \* attempt(): the session it waits on, by its runner
  hangup,    \* the supervisor has closed that session
  session,   \* this.session, by its runner
  child,     \* this.child
  stop,      \* stop(): "no", "terminating" or "done"
  dying,     \* the child stop() terminates
  missed,    \* a signal of stop() to that child could not be sent
  old,       \* the runners that speak another protocol
  prey,      \* the process a hunt has found and sent a SIGTERM
  proc,      \* proc[p]: the life of a runner process
  path,      \* whose socket file the path is
  spawned,   \* the runners this supervisor started
  signalled, \* the runners that got a SIGTERM
  killed,    \* the runners that got a SIGKILL
  faults     \* faults so far

loopVars == <<pc, adopt, watched, held>>
callVars == <<stop, dying, missed>>
huntVars == <<prey, killed>>
procVars == <<proc, path, old>>
vars == <<workspace, cli, loopVars, hangup, session, child, callVars, huntVars, procVars,
          spawned, signalled, faults>>

\* The awaits after a mismatch: the client's lsof and unlink, then the
\* supervisor's own.
Hunting == {"recovering", "sweeping", "replacing", "clearing"}

ProcState == {"none", "booting", "reclaiming", "binding", "bound", "closing", "dead"}

TypeOK ==
  /\ workspace \in BOOLEAN /\ cli \in BOOLEAN
  /\ pc \in {"start", "probing", "probed", "waiting", "attaching", "connected", "backoff", "over"}
           \cup Hunting
  /\ adopt \in BOOLEAN
  /\ watched \in Procs \cup {None} /\ held \in Procs \cup {None}
  /\ hangup \in BOOLEAN
  /\ session \in Procs \cup {None} /\ child \in Procs \cup {None}
  /\ stop \in {"no", "terminating", "done"}
  /\ dying \in Procs \cup {None} /\ missed \in BOOLEAN
  /\ stop = "terminating" => dying # None
  /\ old \in SUBSET Procs /\ prey \in Procs \cup {None} /\ killed \in SUBSET Procs
  /\ proc \in [Procs -> ProcState]
  /\ path \in Procs \cup {None}
  /\ spawned \in SUBSET Procs /\ signalled \in SUBSET Procs
  /\ faults \in 0..MaxFaults

\* The path may be free, or hold a runner, which may be of another protocol,
\* or the stale socket of one.
Init ==
  /\ workspace \in BOOLEAN /\ cli \in BOOLEAN
  /\ pc = "start" /\ adopt = FALSE
  /\ watched = None /\ held = None /\ hangup = FALSE
  /\ session = None /\ child = None
  /\ stop = "no" /\ dying = None /\ missed = FALSE
  /\ \E first \in {"none", "bound", "dead"} :
       /\ proc = [p \in Procs |-> IF p = 1 THEN first ELSE "none"]
       /\ path = IF first = "none" THEN None ELSE 1
       /\ old \in IF first = "bound" THEN SUBSET {1} ELSE {{}}
  /\ prey = None /\ killed = {}
  /\ spawned = {} /\ signalled = {} /\ faults = 0

\* Processes are numbered in the order they start in.
Fresh(p) == proc[p] = "none" /\ \A q \in Procs : q < p => proc[q] # "none"

Live(p) == proc[p] \notin {"none", "dead"}

\* A connection to the path is accepted.
Listening == path # None /\ proc[path] = "bound"

Fault == faults < MaxFaults /\ faults' = faults + 1

\* ChildProcess.kill().
Kill(p) == IF p = None THEN signalled ELSE signalled \cup {p}

-----------------------------------------------------------------------------
(* The loop.                                                               *)

StartAttempt ==
  /\ pc = "start"
  /\ pc' = IF cli THEN "probing" ELSE "backoff"
  /\ UNCHANGED <<workspace, cli, adopt, watched, held, hangup, session, child, callVars,
                 huntVars, procVars, spawned, signalled, faults>>

\* What a probe finds is used for the shared path only.
Probe ==
  /\ pc = "probing"
  /\ pc' = "probed"
  /\ adopt' = (~workspace /\ Listening)
  /\ UNCHANGED <<workspace, cli, watched, held, hangup, session, child, callVars, huntVars,
                 procVars, spawned, signalled, faults>>

Adopt ==
  /\ pc = "probed" /\ adopt
  /\ pc' = "waiting"
  /\ watched' = child
  /\ UNCHANGED <<workspace, cli, adopt, held, hangup, session, child, callVars, huntVars,
                 procVars, spawned, signalled, faults>>

\* Mutant: a path that answers is left alone.
SpawnBeside ==
  /\ pc = "probed" /\ ~adopt
  /\ \E p \in Procs :
       /\ Fresh(p)
       /\ proc' = [proc EXCEPT ![p] = "booting"]
       /\ spawned' = spawned \cup {p}
       /\ child' = p /\ watched' = p
  /\ path' = IF Listening THEN path ELSE None
  /\ pc' = "waiting"
  /\ UNCHANGED <<workspace, cli, adopt, held, hangup, session, callVars, huntVars, old,
                 signalled, faults>>

\* cleanupStaleSocket unlinks whatever is at the path, then a runner is
\* spawned; an earlier child is forgotten.
Spawn ==
  /\ pc = "probed" /\ ~adopt
  /\ \E p \in Procs :
       /\ Fresh(p)
       /\ proc' = [proc EXCEPT ![p] = "booting"]
       /\ spawned' = spawned \cup {p}
       /\ child' = p /\ watched' = p
  /\ path' = None
  /\ pc' = "waiting"
  /\ UNCHANGED <<workspace, cli, adopt, held, hangup, session, callVars, huntVars, old,
                 signalled, faults>>

SocketIsUp ==
  /\ pc = "waiting" /\ Listening
  /\ pc' = "attaching"
  /\ UNCHANGED <<workspace, cli, adopt, watched, held, hangup, session, child, callVars,
                 huntVars, procVars, spawned, signalled, faults>>

GiveUpAttempt ==
  /\ pc' = "backoff"
  /\ UNCHANGED <<workspace, cli, adopt, watched, held, hangup, session, child, callVars,
                 huntVars, procVars, spawned, signalled>>

\* The child died before it bound; its handle is kept.
ChildExited ==
  /\ pc = "waiting" /\ ~Listening
  /\ watched # None /\ proc[watched] = "dead"
  /\ GiveUpAttempt
  /\ UNCHANGED faults

\* 20 s are over: a runner that still boots is too slow, any other will
\* never answer.
WaitTimesOut ==
  /\ pc = "waiting" /\ ~Listening
  /\ IF \E p \in Procs : proc[p] \in {"booting", "reclaiming", "binding"}
     THEN Fault ELSE UNCHANGED faults
  /\ GiveUpAttempt

Attach ==
  /\ pc = "attaching" /\ Listening /\ path \notin old
  /\ pc' = "connected"
  /\ held' = path /\ session' = path /\ hangup' = FALSE
  /\ UNCHANGED <<workspace, cli, adopt, watched, child, callVars, huntVars, procVars,
                 spawned, signalled, faults>>

AttachFails ==
  /\ pc = "attaching" /\ ~Listening
  /\ GiveUpAttempt
  /\ UNCHANGED faults

\* Mutant: a mismatch is a failed attach like any other.
MismatchJustFails ==
  /\ pc = "attaching" /\ Listening /\ path \in old
  /\ GiveUpAttempt
  /\ UNCHANGED faults

\* The runner refuses the client for its protocol.
Mismatch ==
  /\ pc = "attaching" /\ Listening /\ path \in old
  /\ pc' = "recovering"
  /\ UNCHANGED <<workspace, cli, adopt, watched, held, hangup, session, child, callVars,
                 huntVars, procVars, spawned, signalled, faults>>

AfterHunt == [recovering |-> "sweeping", sweeping |-> "replacing",
              replacing |-> "clearing", clearing |-> "backoff"]

\* lsof names a process with a socket of this name, whoever it is by now.
HuntFinds ==
  /\ pc \in {"recovering", "replacing"} /\ prey = None
  /\ \E p \in Procs :
       /\ proc[p] \in {"bound", "closing"}
       /\ prey' = p /\ signalled' = Kill(p)
  /\ UNCHANGED <<workspace, cli, loopVars, hangup, session, child, callVars, killed, procVars,
                 spawned, faults>>

\* There is no lsof, it finds nobody, or one that may not be signalled.
HuntMisses ==
  /\ pc \in {"recovering", "replacing"} /\ prey = None
  /\ pc' = AfterHunt[pc]
  /\ UNCHANGED <<workspace, cli, adopt, watched, held, hangup, session, child, callVars,
                 huntVars, procVars, spawned, signalled, faults>>

\* 400 ms later a SIGKILL, if it is still alive.
HuntKills ==
  /\ pc \in {"recovering", "replacing"} /\ prey # None
  /\ killed' = IF Live(prey) THEN killed \cup {prey} ELSE killed
  /\ prey' = None
  /\ pc' = AfterHunt[pc]
  /\ UNCHANGED <<workspace, cli, adopt, watched, held, hangup, session, child, callVars,
                 procVars, spawned, signalled, faults>>

\* Whatever is at the path is unlinked.
Sweep ==
  /\ pc \in {"sweeping", "clearing"}
  /\ path' = None
  /\ pc' = AfterHunt[pc]
  /\ UNCHANGED <<workspace, cli, adopt, watched, held, hangup, session, child, callVars,
                 huntVars, proc, old, spawned, signalled, faults>>

\* Mutant: the runner the session was with is killed.
DropKillsHeld ==
  /\ pc = "connected" /\ (hangup \/ proc[held] # "bound")
  /\ pc' = "backoff"
  /\ held' = None /\ session' = None /\ hangup' = FALSE
  /\ signalled' = Kill(held) /\ child' = None
  /\ UNCHANGED <<workspace, cli, adopt, watched, callVars, huntVars, procVars,
                 spawned, faults>>

\* The link is down, closed by either end.
LinkDrops ==
  /\ pc = "connected" /\ (hangup \/ proc[held] # "bound")
  /\ pc' = "backoff"
  /\ held' = None /\ session' = None /\ hangup' = FALSE
  /\ signalled' = Kill(child) /\ child' = None
  /\ UNCHANGED <<workspace, cli, adopt, watched, callVars, huntVars, procVars,
                 spawned, faults>>

\* The back-off of 2 s, cut short by forceRetry() or stop().
Retry ==
  /\ pc = "backoff"
  /\ pc' = IF stop = "no" THEN "start" ELSE "over"
  /\ UNCHANGED <<workspace, cli, adopt, watched, held, hangup, session, child, callVars,
                 huntVars, procVars, spawned, signalled, faults>>

LoopStep ==
  \/ StartAttempt \/ Probe \/ Adopt \/ Spawn \/ SocketIsUp \/ ChildExited
  \/ Attach \/ AttachFails \/ LinkDrops \/ Retry
  \/ Mismatch \/ HuntFinds \/ HuntMisses \/ HuntKills \/ Sweep

-----------------------------------------------------------------------------
(* The calls.                                                              *)

\* restart(): nothing it awaits lets the loop in between.
Restart ==
  /\ stop = "no" /\ Fault
  /\ hangup' = (hangup \/ session # None) /\ session' = None
  /\ signalled' = Kill(child) /\ child' = None
  /\ UNCHANGED <<workspace, cli, loopVars, callVars, huntVars, procVars, spawned>>

\* stop() up to its wait: the link is closed and the child gets a SIGTERM,
\* unless it has exited or the signal cannot be sent, which ends the wait at
\* once.  The end of the link comes to the loop only later.
Stop ==
  /\ stop = "no"
  /\ hangup' = (hangup \/ session # None) /\ session' = None
  /\ dying' = child
  /\ IF child = None \/ proc[child] = "dead"
     THEN stop' = "done" /\ child' = None /\ UNCHANGED <<signalled, missed, faults>>
     ELSE \/ /\ stop' = "terminating"
             /\ signalled' = Kill(child)
             /\ UNCHANGED <<child, missed, faults>>
          \/ /\ Fault
             /\ stop' = "done" /\ child' = None /\ missed' = TRUE
             /\ UNCHANGED signalled
  /\ UNCHANGED <<workspace, cli, loopVars, huntVars, procVars, spawned>>

\* The child's exit ends the wait; a child that the loop has started by then
\* is forgotten.
StopSeesExit ==
  /\ stop = "terminating" /\ proc[dying] = "dead"
  /\ stop' = "done" /\ child' = None
  /\ UNCHANGED <<workspace, cli, loopVars, hangup, session, dying, missed, huntVars, procVars,
                 spawned, signalled, faults>>

\* Mutant: the grace ends without a SIGKILL.
StopGraceJustEnds ==
  /\ stop = "terminating" /\ proc[dying] # "dead"
  /\ stop' = "done" /\ child' = None
  /\ UNCHANGED <<workspace, cli, loopVars, hangup, session, dying, missed, huntVars, procVars,
                 spawned, signalled, faults>>

\* The grace of 2 s ends: a SIGKILL, for whose effect nothing waits and whose
\* failure is swallowed.
StopGraceEnds ==
  /\ stop = "terminating" /\ proc[dying] # "dead"
  /\ stop' = "done" /\ child' = None
  /\ \/ killed' = killed \cup {dying} /\ UNCHANGED <<missed, faults>>
     \/ Fault /\ missed' = TRUE /\ UNCHANGED killed
  /\ UNCHANGED <<workspace, cli, loopVars, hangup, session, dying, prey, procVars, spawned,
                 signalled>>

\* The CLI is installed.
Install ==
  /\ ~cli /\ cli' = TRUE
  /\ UNCHANGED <<workspace, loopVars, hangup, session, child, callVars, huntVars, procVars,
                 spawned, signalled, faults>>

-----------------------------------------------------------------------------
(* Runner processes.                                                       *)

Becomes(p, state) ==
  /\ proc' = [proc EXCEPT ![p] = state]
  /\ UNCHANGED <<workspace, cli, loopVars, hangup, session, child, callVars, huntVars, spawned,
                 signalled>>

\* Someone starts a runner on the shared path, of this protocol or another.
StartForeign(p) ==
  /\ ~workspace /\ Fresh(p) /\ Fault
  /\ Becomes(p, "booting")
  /\ old' \in {old, old \cup {p}}
  /\ UNCHANGED path

\* reclaimStaleSocket: a path that does not answer is going to be unlinked.
ProbePath(p) ==
  /\ proc[p] = "booting"
  /\ Becomes(p, IF path # None /\ ~Listening THEN "reclaiming" ELSE "binding")
  /\ UNCHANGED <<path, old, faults>>

Reclaim(p) ==
  /\ proc[p] = "reclaiming"
  /\ Becomes(p, "binding")
  /\ path' = None
  /\ UNCHANGED <<old, faults>>

\* The address in use ends the process.
Bind(p) ==
  /\ proc[p] = "binding"
  /\ IF path = None THEN Becomes(p, "bound") /\ path' = p
     ELSE Becomes(p, "dead") /\ UNCHANGED path
  /\ UNCHANGED <<old, faults>>

\* A runner shuts down once its handlers are installed, else it just ends.
HandleSigterm(p) ==
  /\ p \in signalled /\ proc[p] \in {"booting", "reclaiming", "binding", "bound"}
  /\ \/ Becomes(p, "dead")
     \/ proc[p] = "bound" /\ Becomes(p, "closing")
  /\ UNCHANGED <<path, old, faults>>

\* All connections have ended: close() unlinks the path.
Unlink(p) ==
  /\ proc[p] = "closing" /\ held # p
  /\ Becomes(p, "dead")
  /\ path' = None
  /\ UNCHANGED <<old, faults>>

\* A crash, a kill from outside.
Die(p) ==
  /\ Live(p) /\ Fault
  /\ Becomes(p, "dead")
  /\ UNCHANGED <<path, old>>

\* A SIGKILL leaves a process no further step of its own.
HandleSigkill(p) ==
  /\ p \in killed /\ Live(p)
  /\ Becomes(p, "dead")
  /\ UNCHANGED <<path, old, faults>>

BootStep(p) == p \notin killed /\ (ProbePath(p) \/ Reclaim(p) \/ Bind(p))
StepDown(p) == p \notin killed /\ (HandleSigterm(p) \/ Unlink(p))

ProcStep(p) == BootStep(p) \/ StepDown(p) \/ HandleSigkill(p)

Next ==
  \/ LoopStep \/ WaitTimesOut
  \/ Restart \/ Stop \/ StopSeesExit \/ StopGraceEnds \/ Install
  \/ \E p \in Procs : StartForeign(p) \/ ProcStep(p) \/ Die(p)

Spec == Init /\ [][Next]_vars

\* Timers fire, processes boot, a SIGKILL ends one.  Nobody owes a restart, a
\* stop, an installation or a crash, and a runner need not obey a SIGTERM.
FairSpec ==
  /\ Spec
  /\ WF_vars(LoopStep) /\ WF_vars(WaitTimesOut) /\ WF_vars(StopSeesExit \/ StopGraceEnds)
  /\ \A p \in Procs : WF_vars(BootStep(p)) /\ WF_vars(HandleSigkill(p))

-----------------------------------------------------------------------------
(* Properties.                                                             *)

\* "If a workspace is bound, we MUST own the runner" (runner-supervisor.ts:
\* 221): the desktop never works in a runner it has not started itself.
OwnsWorkspace == workspace /\ session # None => session \in spawned

\* remote() hands out the session the loop is waiting on, never one that is
\* closed or has been replaced.
RemoteIsCurrent == session # None => pc = "connected" /\ session = held /\ ~hangup

\* On a workspace's path, and wherever all runners speak its protocol, the
\* desktop signals only what it has started, whatever it has adopted or
\* found: the hunt for an old runner (runner-supervisor.ts:399) is let loose
\* by a real mismatch alone.
SparesOthers == workspace \/ old = {} => signalled \cup killed \subseteq spawned

\* "a wedged `moxxy serve` can't survive as a zombie" (runner-supervisor.ts:
\* 507): the child that stop() saw comes to its end though it ignores the
\* SIGTERM, unless a signal to it could not be sent.
StopKillsChild == (dying # None) ~> (missed \/ dying \in {p \in Procs : proc[p] = "dead"})

\* "if the connection drops or the spawned child dies, we transition to
\* `reconnecting` and loop back" (runner-supervisor.ts:13): the desktop gets
\* to a runner again and again, once there is a CLI and unless it is stopped.
Heals == []<>(session # None \/ ~cli \/ stop # "no")

\* "one supervised `moxxy serve` per workspace" (runner-pool.ts:2): of the
\* runners it started at most one has not been told to end.
OneRunner == Cardinality({p \in spawned \ signalled : Live(p)}) <= 1

\* "Stop & forget one workspace's runner" (runner-pool.ts:90): when stop()
\* has resolved none of its runners is left.
StoppedIsStopped == stop = "done" => \A p \in spawned : ~Live(p)

\* "Kill the foreign serve if one is on the socket so we can take over"
\* (runner-supervisor.ts:228): a runner that was replaced is gone.
ReplacedIsKilled ==
  workspace /\ session # None => \A p \in Procs \ spawned : ~Live(p)

\* "killing stale runner and respawning" (runner-supervisor.ts:281): the
\* runners of others that get a signal are those of another protocol.
OnlyStaleKilled == signalled \ spawned \subseteq old
=============================================================================
