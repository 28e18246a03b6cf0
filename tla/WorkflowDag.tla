----------------------------- MODULE WorkflowDag -----------------------------
(***************************************************************************)
(* The default workflow executor, a parallel DAG runner                    *)
(* (packages/plugin-workflows/src/executor/dag.ts, function runExecutor):  *)
(* a loop of a pass that skips the steps whose condition is false, and a   *)
(* wave of at most `concurrency` ready steps that run together, each with  *)
(* its retries.  An AbortSignal may fire at any time.                      *)
(*                                                                         *)
(* Steps are numbered in the order of the document.  What a tool, an agent *)
(* or a nested workflow does is the environment's: an attempt returns an   *)
(* output or throws, with or without the signal.  Conditions are those the *)
(* schema accepts, which never throw; their verdict may depend on any      *)
(* output, so each evaluation chooses it anew.                             *)
(***************************************************************************)
EXTENDS Naturals, FiniteSets, Sequences

CONSTANTS
  NumSteps,   \* bound: the number of steps of a workflow
  Workflows   \* the workflows that may be in the files

Steps == 1..NumSteps

\* Every set of steps has one that needs no other of the set.  The executor
\* relies on it; see WorkflowSchema, whose search establishes it.
Acyclic(needs) ==
  \A S \in SUBSET Steps : S # {} => \E s \in S : needs[s] \cap S = {}

\* A workflow with the fields workflowSchema accepts.  `lists` has the ids each
\* step needs as they are written, `needs` the steps among them.  `tolerant`
\* are the steps with onError "continue": "retry" is treated like "fail" by the
\* executor.  `guarded` are the steps that have a `when`.
ValidWorkflow(w) ==
  /\ w.lists \in [Steps -> Seq(Nat)]
  /\ w.needs = [s \in Steps |-> {w.lists[s][i] : i \in DOMAIN w.lists[s]} \cap Steps]
  /\ w.tolerant \in SUBSET Steps
  /\ w.guarded \in SUBSET Steps
  /\ w.retries \in [Steps -> 0..3]
  /\ w.concurrency \in 1..8

ASSUME WorkflowAssumption ==
  /\ NumSteps \in Nat
  /\ \A w \in Workflows : ValidWorkflow(w)

NoStep == 0

Output == {"empty", "text"}

-----------------------------------------------------------------------------
VARIABLES
  wf,         \* the workflow that runs
  signal,     \* deps.signal.aborted
  at,         \* where the loop is: "top", "pass", "gather", "wave" or "end"
  visiting,   \* the step the pass looks at next
  skippedSomething,
  status,     \* states[s].status
  output,     \* states[s].output
  scope,      \* the outputs the wave's templates see
  phase,      \* phase[s] in the wave: "idle", "ready" for an attempt or "trying"
  attempts,   \* attempts[s] begun
  aborted,    \* the loop's own flag
  culprit,    \* the step abortReason names
  result      \* "none", then "ok" or "failed"

loopVars == <<at, visiting, skippedSomething>>
stepVars == <<status, output, phase, attempts>>
failVars == <<aborted, culprit>>
vars == <<wf, signal, loopVars, stepVars, scope, failVars, result>>

TypeOK ==
  /\ wf \in Workflows
  /\ signal \in BOOLEAN
  /\ at \in {"top", "pass", "gather", "wave", "end"}
  /\ visiting \in 1..(NumSteps + 1)
  /\ skippedSomething \in BOOLEAN
  /\ status \in [Steps -> {"pending", "completed", "skipped", "failed"}]
  /\ output \in [Steps -> Output]
  /\ scope \in [Steps -> Output]
  /\ phase \in [Steps -> {"idle", "ready", "trying"}]
  /\ attempts \in [Steps -> 0..4]
  /\ aborted \in BOOLEAN
  /\ culprit \in Steps \cup {NoStep}
  /\ result \in {"none", "ok", "failed"}

Init ==
  /\ wf \in Workflows
  /\ signal = FALSE
  /\ at = "top"
  /\ visiting = 1
  /\ skippedSomething = FALSE
  /\ status = [s \in Steps |-> "pending"]
  /\ output = [s \in Steps |-> "empty"]
  /\ scope = [s \in Steps |-> "empty"]
  /\ phase = [s \in Steps |-> "idle"]
  /\ attempts = [s \in Steps |-> 0]
  /\ aborted = FALSE
  /\ culprit = NoStep
  /\ result = "none"

-----------------------------------------------------------------------------
(* The loop.                                                               *)

Settled(s) == status[s] \in {"completed", "skipped", "failed"}

\* A pending step whose needs are settled.
Waiting(s) == status[s] = "pending" /\ \A n \in wf.needs[s] : Settled(n)

\* The signal has fired before the caller calls, or fires while it runs.
Abort ==
  /\ ~signal /\ at # "end"
  /\ signal' = TRUE
  /\ UNCHANGED <<wf, loopVars, stepVars, scope, failVars, result>>

End(ok) ==
  /\ at' = "end"
  /\ result' = IF ok THEN "ok" ELSE "failed"
  /\ UNCHANGED <<wf, signal, visiting, skippedSomething, stepVars, scope, culprit>>

\* A fired signal breaks out of the loop and leaves `aborted` as it is.
LeaveLoop ==
  /\ at = "top" /\ (aborted \/ signal)
  /\ End(~aborted)
  /\ UNCHANGED aborted

StartPass ==
  /\ at' = "pass"
  /\ visiting' = 1
  /\ skippedSomething' = FALSE

EnterLoop ==
  /\ at = "top" /\ ~aborted /\ ~signal
  /\ StartPass
  /\ UNCHANGED <<wf, signal, stepVars, scope, failVars, result>>

\* The pass leaves a step alone: not waiting, unguarded, or to be kept.
PassOver ==
  /\ at = "pass" /\ visiting <= NumSteps
  /\ visiting' = visiting + 1
  /\ UNCHANGED <<wf, signal, at, skippedSomething, stepVars, scope, failVars, result>>

Skip ==
  /\ at = "pass" /\ visiting <= NumSteps
  /\ visiting \in wf.guarded /\ Waiting(visiting)
  /\ status' = [status EXCEPT ![visiting] = "skipped"]
  /\ visiting' = visiting + 1
  /\ skippedSomething' = TRUE
  /\ UNCHANGED <<wf, signal, at, output, phase, attempts, scope, failVars, result>>

\* Mutant: the flag of a pass is never reset.
EndPassForever ==
  /\ at = "pass" /\ visiting = NumSteps + 1
  /\ IF skippedSomething THEN visiting' = 1 /\ UNCHANGED <<at, skippedSomething>>
     ELSE at' = "gather" /\ UNCHANGED <<visiting, skippedSomething>>
  /\ UNCHANGED <<wf, signal, stepVars, scope, failVars, result>>

\* A pass that skipped something is done again.
EndPass ==
  /\ at = "pass" /\ visiting = NumSteps + 1
  /\ IF skippedSomething THEN StartPass
     ELSE at' = "gather" /\ UNCHANGED <<visiting, skippedSomething>>
  /\ UNCHANGED <<wf, signal, stepVars, scope, failVars, result>>

Ready == {s \in Steps : Waiting(s)}

\* The first `concurrency` ready steps.
Wave == {s \in Ready : Cardinality({r \in Ready : r < s}) < wf.concurrency}

\* Nothing is ready: all steps are settled, or the workflow is "stalled".
Finish ==
  /\ at = "gather" /\ Ready = {}
  /\ LET stalled == \E s \in Steps : status[s] = "pending" IN
       /\ End(~stalled)
       /\ aborted' = (aborted \/ stalled)

StartWave ==
  /\ at = "gather" /\ Ready # {}
  /\ at' = "wave"
  /\ scope' = output
  /\ phase' = [s \in Steps |-> IF s \in Wave THEN "ready" ELSE phase[s]]
  /\ UNCHANGED <<wf, signal, visiting, skippedSomething, status, output, attempts,
                 failVars, result>>

\* Promise.all: the loop goes on when every step of the wave is settled.
EndWave ==
  /\ at = "wave" /\ \A s \in Steps : phase[s] = "idle"
  /\ at' = "top"
  /\ UNCHANGED <<wf, signal, visiting, skippedSomething, stepVars, scope, failVars, result>>

-----------------------------------------------------------------------------
(* A step of a wave.                                                       *)

BeginAttempt(s) ==
  /\ phase[s] = "ready" /\ ~signal
  /\ phase' = [phase EXCEPT ![s] = "trying"]
  /\ attempts' = [attempts EXCEPT ![s] = @ + 1]
  /\ UNCHANGED <<wf, signal, loopVars, status, output, scope, failVars, result>>

\* Mutant: the last failure decides whether the run is doomed.
FailOverwrites(s) ==
  /\ status' = [status EXCEPT ![s] = "failed"]
  /\ phase' = [phase EXCEPT ![s] = "idle"]
  /\ aborted' = (s \notin wf.tolerant)
  /\ culprit' = IF s \in wf.tolerant THEN culprit ELSE s
  /\ UNCHANGED <<wf, signal, loopVars, output, attempts, scope, result>>

\* Mutant: the reason is that of the last failure, tolerated or not.
FailBlamesLast(s) ==
  /\ status' = [status EXCEPT ![s] = "failed"]
  /\ phase' = [phase EXCEPT ![s] = "idle"]
  /\ aborted' = (aborted \/ s \notin wf.tolerant)
  /\ culprit' = s
  /\ UNCHANGED <<wf, signal, loopVars, output, attempts, scope, result>>

\* A step that is not tolerant dooms the run; the last one names the reason.
Fail(s) ==
  /\ status' = [status EXCEPT ![s] = "failed"]
  /\ phase' = [phase EXCEPT ![s] = "idle"]
  /\ aborted' = (aborted \/ s \notin wf.tolerant)
  /\ culprit' = IF s \in wf.tolerant THEN culprit ELSE s
  /\ UNCHANGED <<wf, signal, loopVars, output, attempts, scope, result>>

\* The signal fired before the next attempt.
GiveUp(s) ==
  /\ phase[s] = "ready" /\ signal
  /\ Fail(s)

Succeed(s) ==
  /\ phase[s] = "trying"
  /\ phase' = [phase EXCEPT ![s] = "idle"]
  /\ status' = [status EXCEPT ![s] = "completed"]
  /\ \E text \in Output : output' = [output EXCEPT ![s] = text]
  /\ UNCHANGED <<wf, signal, loopVars, attempts, scope, failVars, result>>

\* An attempt that throws is followed by another while retries are left.
Retry(s) ==
  /\ phase[s] = "trying" /\ attempts[s] <= wf.retries[s]
  /\ phase' = [phase EXCEPT ![s] = "ready"]
  /\ UNCHANGED <<wf, signal, loopVars, status, output, attempts, scope, failVars, result>>

RunOut(s) ==
  /\ phase[s] = "trying" /\ attempts[s] > wf.retries[s]
  /\ Fail(s)

-----------------------------------------------------------------------------
LoopStep ==
  LeaveLoop \/ EnterLoop \/ PassOver \/ Skip \/ EndPass \/ Finish \/ StartWave \/ EndWave

RunStep(s) == BeginAttempt(s) \/ GiveUp(s) \/ Succeed(s) \/ Retry(s) \/ RunOut(s)

Next == Abort \/ LoopStep \/ \E s \in Steps : RunStep(s)

Spec == Init /\ [][Next]_vars

-----------------------------------------------------------------------------
(* Properties.                                                             *)

\* The executor does nothing to the statuses and to the result of a run that
\* the abstract task graph does not do: steps are settled once and in the
\* order of their needs, whatever waves, retries and signals do, and a run
\* ends well exactly if no step failed that was not meant to be tolerated.
Graph == INSTANCE TaskGraph WITH
           Tasks <- Steps, needs <- wf.needs, tolerated <- wf.tolerant

ImplementsTaskGraph == Graph!Spec

\* The "workflow stalled" branch is never taken for a workflow the schema
\* has accepted (WorkflowSchema): failures and skips unblock what waits for them.
NeverStalls ==
  at = "gather" /\ Ready = {} => \A s \in Steps : status[s] # "pending"

\* A step renders its templates with the final outputs of all it needs,
\* although the scope is made once for the whole wave.
SeesItsNeeds ==
  \A s \in Steps : phase[s] # "idle" =>
    \A n \in wf.needs[s] : Settled(n) /\ scope[n] = output[n]

\* No more than `concurrency` steps run together.
WaveBounded == Cardinality({s \in Steps : phase[s] # "idle"}) <= wf.concurrency

\* Once a failure has doomed the run no further step starts, and once the
\* signal has fired no attempt begins.
NoStartWhenDoomed ==
  [][/\ aborted => \A s \in Steps : phase[s] = "idle" => phase'[s] = "idle"
     /\ signal => attempts' = attempts]_vars

\* A failed run's error names a step that failed and was not tolerated.
ErrorNamesCulprit ==
  result = "failed" =>
    culprit \in Steps /\ status[culprit] = "failed" /\ culprit \notin wf.tolerant

\* "A run is "ok" when it reached the end without a hard abort" (dag.ts:194).
OkReachedTheEnd == result = "ok" => \A s \in Steps : status[s] # "pending"

\* What the code keeps of it: an ok run that no one aborted settled all steps.
OkUnlessAborted == ~signal => OkReachedTheEnd
=============================================================================
