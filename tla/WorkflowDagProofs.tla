-------------------------- MODULE WorkflowDagProofs --------------------------
(***************************************************************************)
(* Theorems about WorkflowDag and the search of WorkflowSchema, for every  *)
(* number of steps and every set of workflows.                             *)
(***************************************************************************)
EXTENDS WorkflowSchema, FiniteSetTheorems, WellFoundedInduction, TLAPS

\* What runs is in a wave, was pending, and had its needs settled before.
Running(s) ==
  phase[s] # "idle" =>
    /\ at = "wave" /\ status[s] = "pending"
    /\ \A n \in wf.needs[s] : Settled(n) /\ scope[n] = output[n]

\* The attempts of a step are counted before they are begun.
Counted(s) ==
  /\ attempts[s] <= 1 + wf.retries[s]
  /\ phase[s] = "ready" => attempts[s] <= wf.retries[s]
  /\ phase[s] = "idle" /\ status[s] = "pending" => attempts[s] = 0

\* A failure that the workflow does not tolerate.
Blamed(s) == status[s] = "failed" /\ s \notin wf.tolerant

\* The flag is up exactly if some failure was not tolerated, and then the
\* loop is in the wave that failed, just after it, or over.
Doomed ==
  /\ aborted => culprit \in Steps /\ Blamed(culprit) /\ at \in {"wave", "top", "end"}
  /\ ~aborted => \A s \in Steps : ~Blamed(s)

\* The executor is at its end just when there is a result.
Ended ==
  /\ at = "end" <=> result # "none"
  /\ result = "ok" => ~aborted
  /\ result = "failed" => aborted

\* The inductive invariant.
IInv ==
  /\ TypeOK
  /\ \A s \in Steps : Running(s) /\ Counted(s)
  /\ Doomed
  /\ Ended

-----------------------------------------------------------------------------
\* What the proofs use of the workflow that runs.
LEMMA Validated ==
  ASSUME TypeOK
  PROVE  /\ wf.needs \in [Steps -> SUBSET Steps] /\ wf.lists \in [Steps -> Seq(Nat)]
         /\ \A s \in Steps : wf.needs[s] = {wf.lists[s][i] : i \in DOMAIN wf.lists[s]} \cap Steps
         /\ wf.retries \in [Steps -> 0..3]
         /\ wf.guarded \in SUBSET Steps /\ wf.tolerant \in SUBSET Steps
  <1>1. wf \in Workflows
    BY DEF TypeOK
  <1>2. ValidWorkflow(wf)
    BY <1>1, WorkflowAssumption
  <1>3. wf.needs \in [Steps -> SUBSET Steps]
    BY <1>2, Zenon DEF ValidWorkflow
  <1> QED BY <1>2, <1>3 DEF ValidWorkflow

\* A step is settled just if it is not pending.
LEMMA PendingOrSettled ==
  ASSUME TypeOK
  PROVE  \A s \in Steps : Settled(s) <=> status[s] # "pending"
  BY DEF TypeOK, Settled

\* A pass with nothing ready has nothing pending: of the pending steps, one
\* needs no other of them, and so it would be ready.
LEMMA SomethingIsReady ==
  ASSUME TypeOK, Acyclic(wf.needs), NEW s \in Steps, status[s] = "pending"
  PROVE  Ready # {}
  <1> DEFINE P == {p \in Steps : status[p] = "pending"}
  <1>1. P \in SUBSET Steps /\ P # {}
    OBVIOUS
  <1>2. PICK p \in P : wf.needs[p] \cap P = {}
    BY <1>1, Validated DEF Acyclic
  <1>3. p \in Steps /\ wf.needs[p] \in SUBSET Steps
    BY Validated
  <1>4. \A n \in wf.needs[p] : Settled(n)
    BY <1>2, <1>3, PendingOrSettled
  <1>5. Waiting(p)
    BY <1>4 DEF Waiting
  <1> QED BY <1>3, <1>5 DEF Ready

\* The invariant holds at the start.
LEMMA Initially == Init => IInv
  <1> SUFFICES ASSUME Init PROVE IInv
    OBVIOUS
  <1>1. TypeOK
    <2>1. NumSteps \in Nat
      BY WorkflowAssumption
    <2>2. 1 \in 1..(NumSteps + 1)
      BY <2>1
    <2>3. "empty" \in Output
      BY DEF Output
    <2>4. status \in [Steps -> {"pending", "completed", "skipped", "failed"}]
      BY DEF Init
    <2>5. output \in [Steps -> Output] /\ scope \in [Steps -> Output]
      BY <2>3 DEF Init
    <2>6. phase \in [Steps -> {"idle", "ready", "trying"}] /\ attempts \in [Steps -> 0..4]
      BY DEF Init
    <2> QED BY <2>2, <2>4, <2>5, <2>6 DEF Init, TypeOK
  <1>2. \A s \in Steps : Running(s) /\ Counted(s)
    <2> TAKE s \in Steps
    <2>1. phase[s] = "idle" /\ attempts[s] = 0 /\ wf.retries[s] \in 0..3
      BY <1>1, Validated DEF Init
    <2> QED BY <2>1 DEF Running, Counted
  <1>3. Doomed /\ Ended
    BY DEF Init, Doomed, Blamed, Ended
  <1> QED BY <1>1, <1>2, <1>3 DEF IInv

-----------------------------------------------------------------------------
(* One lemma per action that disturbs more than one part of the invariant. *)

\* The start of a wave keeps it.
LEMMA StartWaveStep == IInv /\ StartWave => IInv'
  <1> SUFFICES ASSUME IInv, StartWave PROVE IInv'
    OBVIOUS
  <1> USE DEF IInv
  <1>1. ~aborted /\ at = "gather"
    BY DEF Doomed, StartWave
  <1>2. TypeOK'
    BY DEF StartWave, TypeOK, failVars
  <1>3. ASSUME NEW s \in Steps PROVE Running(s)' /\ Counted(s)'
    <2>1. /\ phase[s] = "idle" /\ wf' = wf
          /\ attempts'[s] = attempts[s] /\ status'[s] = status[s]
      BY <1>1, <1>3 DEF Running, StartWave, TypeOK
    <2>2. CASE s \notin Wave
      <3>1. phase'[s] = "idle"
        BY <2>1, <2>2, <1>3 DEF StartWave
      <3> QED BY <3>1, <2>1 DEF Running, Counted
    <2>3. CASE s \in Wave
      <3>1. phase'[s] = "ready"
        BY <2>3, <1>3 DEF StartWave
      <3>2. Waiting(s)
        BY <2>3 DEF Wave, Ready
      <3>3. wf.needs[s] \in SUBSET Steps
        BY Validated
      <3>4. Running(s)'
        BY <3>2, <3>3 DEF Running, Waiting, Settled, StartWave
      <3>5. attempts[s] = 0 /\ wf.retries[s] \in 0..3
        BY <2>1, <3>2, Validated DEF Waiting, Counted
      <3> QED BY <3>1, <3>4, <3>5, <2>1 DEF Counted
    <2> QED BY <2>2, <2>3
  <1>4. Doomed' /\ Ended'
    BY <1>1 DEF StartWave, Doomed, Blamed, Ended, failVars
  <1> QED BY <1>2, <1>3, <1>4
\* A step of the loop that leaves the steps alone.
LEMMA LoopMoves ==
  ASSUME IInv, TypeOK', UNCHANGED <<wf, stepVars, scope, failVars>>, Ended',
         at = "wave" => at' = "wave" \/ \A s \in Steps : phase[s] = "idle",
         aborted => at' \in {"wave", "top", "end"}
  PROVE  IInv'
  <1> USE DEF IInv
  <1>1. ASSUME NEW s \in Steps PROVE Running(s)' /\ Counted(s)'
    <2>1. Running(s) /\ Counted(s)
      BY <1>1
    <2> QED BY <2>1, <1>1 DEF Running, Counted, Settled, stepVars
  <1>2. Doomed'
    BY DEF Doomed, Blamed, stepVars, failVars
  <1> QED BY <1>1, <1>2

\* A step that is skipped keeps it.
LEMMA SkipStep == IInv /\ Skip => IInv'
  <1> SUFFICES ASSUME IInv, Skip PROVE IInv'
    OBVIOUS
  <1> USE DEF IInv
  <1>1. ~aborted /\ at = "pass" /\ visiting \in Steps /\ NumSteps \in Nat
    BY WorkflowAssumption DEF Doomed, Skip, TypeOK, Steps
  <1>2. TypeOK'
    <2>1. visiting' \in 1..(NumSteps + 1)
      BY <1>1 DEF Skip, TypeOK
    <2> QED BY <2>1, <1>1 DEF Skip, TypeOK, failVars
  <1>3. ASSUME NEW s \in Steps PROVE Running(s)' /\ Counted(s)'
    <2>1. /\ phase[s] = "idle" /\ wf' = wf /\ phase' = phase /\ attempts' = attempts
          /\ status'[s] = "pending" => status[s] = "pending"
      BY <1>1, <1>3 DEF Running, Skip, TypeOK
    <2> QED BY <2>1, <1>3 DEF Running, Counted
  <1>4. Doomed' /\ Ended'
    BY <1>1 DEF Skip, Doomed, Blamed, Ended, failVars, TypeOK
  <1> QED BY <1>2, <1>3, <1>4

\* Settling a step does not disturb the steps that run beside it.
LEMMA OthersRun ==
  ASSUME IInv, NEW s \in Steps, phase[s] # "idle", NEW r \in Steps, r # s,
         wf' = wf, at' = at, scope' = scope,
         phase'[r] = phase[r], status'[r] = status[r], attempts'[r] = attempts[r],
         \A n \in Steps : n # s => status'[n] = status[n] /\ output'[n] = output[n]
  PROVE  Running(r)' /\ Counted(r)'
  <1>1. Running(r) /\ Counted(r) /\ TypeOK /\ status[s] = "pending"
    BY DEF IInv, Running
  <1>2. wf.needs[r] \in SUBSET Steps
    BY <1>1, Validated
  <1>3. phase[r] # "idle" => s \notin wf.needs[r]
    BY <1>1 DEF Running, Settled
  <1> QED BY <1>1, <1>2, <1>3 DEF Running, Counted, Settled

\* A step that fails keeps it.
LEMMA FailStep ==
  ASSUME IInv, NEW s \in Steps, phase[s] # "idle", Fail(s)
  PROVE  IInv'
  <1> USE DEF IInv
  <1>1. at = "wave" /\ status[s] = "pending" /\ Counted(s)
    BY DEF Running
  <1>2. TypeOK'
    <2>1. aborted' \in BOOLEAN
      BY DEF Fail
    <2>2. culprit' \in Steps \cup {NoStep}
      BY DEF Fail, TypeOK
    <2> QED BY <2>1, <2>2 DEF Fail, TypeOK, loopVars
  <1>3. ASSUME NEW r \in Steps PROVE Running(r)' /\ Counted(r)'
    <2>1. CASE r = s
      <3>1. phase'[r] = "idle" /\ status'[r] = "failed" /\ attempts' = attempts /\ wf' = wf
        BY <2>1 DEF Fail, TypeOK
      <3> QED BY <3>1, <2>1, <1>1 DEF Running, Counted
    <2>2. CASE r # s
      BY <2>2, OthersRun DEF Fail, TypeOK, loopVars
    <2> QED BY <2>1, <2>2
  <1>4. Doomed'
    <2>1. /\ wf' = wf /\ at' = "wave" /\ status'[s] = "failed"
          /\ \A r \in Steps : r # s => status'[r] = status[r]
      BY <1>1 DEF Fail, TypeOK, loopVars
    <2>2. CASE s \in wf.tolerant
      <3>1. /\ aborted' <=> aborted
            /\ culprit' = culprit
        BY <2>2 DEF Fail
      <3>2. \A r \in Steps : Blamed(r)' <=> Blamed(r)
        BY <2>1, <2>2, <1>1 DEF Blamed
      <3> QED BY <3>1, <3>2, <2>1 DEF Doomed
    <2>3. CASE s \notin wf.tolerant
      <3>1. aborted' /\ culprit' = s
        BY <2>3 DEF Fail
      <3>2. Blamed(s)'
        BY <2>1, <2>3 DEF Blamed
      <3>3. culprit' \in Steps /\ Blamed(culprit)' /\ at' \in {"wave", "top", "end"}
        BY <3>1, <3>2, <2>1 DEF Blamed
      <3> QED BY <3>1, <3>3 DEF Doomed
    <2> QED BY <2>2, <2>3
  <1>5. Ended'
    BY <1>1 DEF Fail, Ended, loopVars
  <1> QED BY <1>2, <1>3, <1>4, <1>5
\* A step that stays in its wave: it begins an attempt or gets another.
LEMMA AttemptStep ==
  ASSUME IInv, NEW s \in Steps, BeginAttempt(s) \/ Retry(s)
  PROVE  IInv'
  <1> USE DEF IInv
  <1>1. /\ at = "wave" /\ status[s] = "pending" /\ Running(s) /\ Counted(s)
        /\ wf.retries[s] \in 0..3 /\ attempts[s] \in 0..4
    BY Validated DEF Running, BeginAttempt, Retry, TypeOK
  <1>2. /\ wf' = wf /\ at' = at /\ status' = status /\ output' = output /\ scope' = scope
        /\ aborted' = aborted /\ culprit' = culprit /\ result' = result
    BY DEF BeginAttempt, Retry, loopVars, failVars
  <1>3. /\ attempts'[s] \in 0..4 /\ phase'[s] \in {"ready", "trying"}
        /\ attempts'[s] <= 1 + wf.retries[s]
        /\ phase'[s] = "ready" => attempts'[s] <= wf.retries[s]
        /\ \A r \in Steps : r # s => attempts'[r] = attempts[r] /\ phase'[r] = phase[r]
    <2>1. CASE BeginAttempt(s)
      BY <2>1, <1>1 DEF BeginAttempt, TypeOK, Counted
    <2>2. CASE Retry(s)
      BY <2>2, <1>1 DEF Retry, TypeOK, Counted
    <2> QED BY <2>1, <2>2
  <1>4. TypeOK'
    <2>1. attempts' \in [Steps -> 0..4] /\ phase' \in [Steps -> {"idle", "ready", "trying"}]
      BY <1>3 DEF BeginAttempt, Retry, TypeOK
    <2> QED BY <2>1 DEF BeginAttempt, Retry, TypeOK, loopVars, failVars
  <1>5. ASSUME NEW r \in Steps PROVE Running(r)' /\ Counted(r)'
    <2>1. CASE r = s
      <3>1. phase[s] # "idle"
        BY DEF BeginAttempt, Retry
      <3> QED BY <3>1, <2>1, <1>1, <1>2, <1>3 DEF Running, Counted, Settled
    <2>2. CASE r # s
      <3>1. phase[s] # "idle"
        BY DEF BeginAttempt, Retry
      <3> QED BY <3>1, <2>2, <1>2, <1>3, OthersRun
    <2> QED BY <2>1, <2>2
  <1>6. Doomed' /\ Ended'
    BY <1>2 DEF Doomed, Blamed, Ended
  <1> QED BY <1>4, <1>5, <1>6

\* A step that succeeds keeps it.
LEMMA SucceedStep ==
  ASSUME IInv, NEW s \in Steps, Succeed(s)
  PROVE  IInv'
  <1> USE DEF IInv
  <1>1. at = "wave" /\ status[s] = "pending" /\ phase[s] = "trying" /\ Counted(s)
    BY DEF Running, Succeed
  <1>2. PICK text \in Output : output' = [output EXCEPT ![s] = text]
    BY DEF Succeed
  <1>3. TypeOK'
    <2>1. output' \in [Steps -> Output]
      BY <1>2 DEF TypeOK
    <2> QED BY <2>1 DEF Succeed, TypeOK, loopVars, failVars
  <1>4. ASSUME NEW r \in Steps PROVE Running(r)' /\ Counted(r)'
    <2>1. CASE r = s
      <3>1. phase'[r] = "idle" /\ status'[r] = "completed" /\ attempts' = attempts /\ wf' = wf
        BY <2>1 DEF Succeed, TypeOK
      <3> QED BY <3>1, <2>1, <1>1 DEF Running, Counted
    <2>2. CASE r # s
      BY <1>1, <1>2, <2>2, OthersRun DEF Succeed, TypeOK, loopVars
    <2> QED BY <2>1, <2>2
  <1>5. Doomed' /\ Ended'
    <2>1. \A r \in Steps : Blamed(r)' <=> Blamed(r)
      BY <1>1 DEF Blamed, Succeed, TypeOK
    <2> QED BY <2>1 DEF Doomed, Ended, Succeed, loopVars, failVars
  <1> QED BY <1>3, <1>4, <1>5

\* The loop between the waves keeps it.
LEMMA LoopKeeps == Acyclic(wf.needs) /\ IInv /\ LoopStep => IInv'
  <1> SUFFICES ASSUME Acyclic(wf.needs), IInv, LoopStep PROVE IInv'
    OBVIOUS
  <1> USE DEF IInv
  <1>0. NumSteps \in Nat
    BY WorkflowAssumption
  <1>1. CASE LeaveLoop
    <2>1. TypeOK'
      BY <1>1 DEF LeaveLoop, End, TypeOK, stepVars
    <2>2. Ended'
      BY <1>1 DEF LeaveLoop, End, Ended
    <2> QED BY <1>1, <2>1, <2>2, LoopMoves DEF LeaveLoop, End, failVars
  <1>2. CASE EnterLoop
    <2>1. TypeOK'
      <3>1. visiting' \in 1..(NumSteps + 1)
        BY <1>0, <1>2 DEF EnterLoop, StartPass
      <3>2. skippedSomething' \in BOOLEAN
        BY <1>2 DEF EnterLoop, StartPass
      <3> QED BY <1>2, <3>1, <3>2 DEF EnterLoop, StartPass, TypeOK, stepVars, failVars
    <2>2. Ended'
      BY <1>2 DEF EnterLoop, StartPass, Ended, failVars
    <2> QED BY <1>2, <2>1, <2>2, LoopMoves DEF EnterLoop, StartPass
  <1>3. CASE PassOver
    <2>1. TypeOK'
      BY <1>0, <1>3 DEF PassOver, TypeOK, stepVars, failVars
    <2>2. Ended' /\ ~aborted
      BY <1>3 DEF PassOver, Ended, Doomed, failVars
    <2> QED BY <1>3, <2>1, <2>2, LoopMoves DEF PassOver
  <1>4. CASE Skip
    BY <1>4, SkipStep
  <1>5. CASE EndPass
    <2>1. TypeOK'
      <3>1. visiting' \in 1..(NumSteps + 1)
        BY <1>0, <1>5 DEF EndPass, StartPass, TypeOK
      <3>2. skippedSomething' \in BOOLEAN /\ at' \in {"pass", "gather"}
        BY <1>5 DEF EndPass, StartPass, TypeOK
      <3> QED BY <1>5, <3>1, <3>2 DEF EndPass, TypeOK, stepVars, failVars
    <2>2. Ended' /\ ~aborted
      BY <1>5 DEF EndPass, StartPass, Ended, Doomed, failVars
    <2> QED BY <1>5, <2>1, <2>2, LoopMoves DEF EndPass, StartPass
  <1>6. CASE Finish
    <2>1. at = "gather" /\ ~aborted /\ End(TRUE) /\ UNCHANGED aborted
      BY <1>6, SomethingIsReady DEF Finish, Doomed, TypeOK
    <2>2. TypeOK'
      BY <2>1 DEF End, TypeOK, stepVars
    <2>3. Ended'
      BY <2>1 DEF End, Ended
    <2> QED BY <2>1, <2>2, <2>3, LoopMoves DEF End, failVars
  <1>7. CASE StartWave
    BY <1>7, StartWaveStep
  <1>8. CASE EndWave
    <2>1. TypeOK'
      BY <1>8 DEF EndWave, TypeOK, stepVars, failVars
    <2>2. Ended'
      BY <1>8 DEF EndWave, Ended, failVars
    <2> QED BY <1>8, <2>1, <2>2, LoopMoves DEF EndWave
  <1> QED BY <1>1, <1>2, <1>3, <1>4, <1>5, <1>6, <1>7, <1>8 DEF LoopStep

\* Every step keeps it, if the workflow is without a cycle.
LEMMA Inductive ==
  IInv /\ [Next]_vars /\ (Acyclic(wf.needs) \/ UNCHANGED vars) => IInv'
  <1> SUFFICES ASSUME IInv, [Next]_vars, Acyclic(wf.needs) \/ UNCHANGED vars PROVE IInv'
    OBVIOUS
  <1>1. CASE Abort
    <2>1. TypeOK' /\ Ended'
      BY <1>1 DEF IInv, Abort, TypeOK, Ended, loopVars, stepVars, failVars
    <2>2. aborted => at \in {"wave", "top", "end"}
      BY DEF IInv, Doomed
    <2> QED BY <1>1, <2>1, <2>2, LoopMoves DEF Abort, loopVars
  <1>2. CASE Acyclic(wf.needs) /\ LoopStep
    BY <1>2, LoopKeeps
  <1>3. ASSUME NEW s \in Steps, RunStep(s) PROVE IInv'
    <2>1. CASE BeginAttempt(s) \/ Retry(s)
      BY <2>1, AttemptStep
    <2>2. CASE GiveUp(s) \/ RunOut(s)
      BY <2>2, FailStep DEF GiveUp, RunOut
    <2>3. CASE Succeed(s)
      BY <2>3, SucceedStep
    <2> QED BY <1>3, <2>1, <2>2, <2>3 DEF RunStep
  <1>4. CASE UNCHANGED vars
    <2>1. TypeOK' /\ Ended'
      BY <1>4 DEF IInv, vars, TypeOK, Ended, loopVars, stepVars, failVars
    <2>2. aborted => at \in {"wave", "top", "end"}
      BY DEF IInv, Doomed
    <2> QED BY <1>4, <2>1, <2>2, LoopMoves DEF vars, loopVars
  <1> QED BY <1>1, <1>2, <1>3, <1>4 DEF Next

-----------------------------------------------------------------------------
(* The search for a cycle.                                                 *)

SearchTypeOK ==
  /\ colour \in [Steps -> {"new", "visiting", "done"}]
  /\ stack \in Seq(Steps)
  /\ place \in [Steps -> Nat \ {0}]
  /\ root \in 1..(NumSteps + 1)
  /\ cycle \in Seq(Steps)

\* The steps being visited are those on the stack, each once, and each is
\* needed by the one before it.
Path ==
  /\ \A s \in Steps : colour[s] = "visiting" <=> \E i \in DOMAIN stack : stack[i] = s
  /\ \A i, j \in DOMAIN stack : stack[i] = stack[j] => i = j
  /\ \A i \in DOMAIN stack : i + 1 \in DOMAIN stack => Edge(stack[i], stack[i + 1])

\* What the loop of a step on the stack is past is done, or is the next on
\* the stack.
Looked ==
  /\ \A s \in Steps : colour[s] = "new" => place[s] = 1
  /\ cycle = <<>> =>
       \A i \in DOMAIN stack : \A j \in DOMAIN wf.lists[stack[i]] :
         LET d == wf.lists[stack[i]][j] IN
         j < place[stack[i]] /\ d \in Steps =>
           colour[d] = "done" \/ (i + 1 \in DOMAIN stack /\ stack[i + 1] = d)

Done == {s \in Steps : colour[s] = "done"}

\* What is done needs only what is done, and has no cycle.
DoneIsAcyclic ==
  /\ \A s \in Done : wf.needs[s] \subseteq Done
  /\ \A S \in SUBSET Done : S # {} => \E s \in S : wf.needs[s] \cap S = {}

Rooted == \A s \in Steps : s < root => colour[s] # "new"

SearchInv == SearchTypeOK /\ Path /\ Looked /\ DoneIsAcyclic /\ Rooted /\ ReportedIsCycle

\* The search begins with nothing looked at.
LEMMA SearchInitially == SearchInit => SearchInv
  <1> SUFFICES ASSUME SearchInit PROVE SearchInv
    OBVIOUS
  <1>1. SearchTypeOK
    <2>1. root \in 1..(NumSteps + 1)
      BY WorkflowAssumption DEF SearchInit
    <2>2. <<>> \in Seq(Steps)
      OBVIOUS
    <2> QED BY <2>1, <2>2 DEF SearchInit, SearchTypeOK
  <1>2. Path /\ Looked
    BY DEF SearchInit, Path, Looked
  <1>3. DoneIsAcyclic
    <2>1. Done = {}
      BY DEF SearchInit, Done
    <2> QED BY <2>1 DEF DoneIsAcyclic
  <1>4. Rooted /\ ReportedIsCycle
    BY DEF SearchInit, Rooted, ReportedIsCycle, Steps
  <1> QED BY <1>1, <1>2, <1>3, <1>4 DEF SearchInv

\* A step that was seen changes nothing but the loop that met it.
LEMMA PassKeeps ==
  ASSUME TypeOK, SearchInv, wf' = wf, NEW id \in Nat, Pass(id)
  PROVE  Path' /\ DoneIsAcyclic' /\ ReportedIsCycle'
  <1>1. UNCHANGED <<colour, stack, cycle, wf>>
    BY DEF Pass
  <1>2. Done' = Done
    BY <1>1 DEF Done
  <1>3. \A s, d : Edge(s, d)' <=> Edge(s, d)
    BY <1>1 DEF Edge
  <1> QED BY <1>1, <1>2, <1>3 DEF SearchInv, Path, DoneIsAcyclic, ReportedIsCycle

\* A step that is entered is new, and the top of the stack needs it.
LEMMA EnterKeeps ==
  ASSUME TypeOK, SearchInv, wf' = wf, cycle = <<>>, NEW id \in Nat, Enter(id),
         stack # <<>> => Edge(Top, id)
  PROVE  Path' /\ DoneIsAcyclic' /\ ReportedIsCycle' /\ stack' \in Seq(Steps)
  <1> DEFINE n == Len(stack)
  <1>1. /\ id \in Steps /\ colour[id] = "new" /\ cycle' = <<>>
        /\ colour \in [Steps -> {"new", "visiting", "done"}]
        /\ colour' = [colour EXCEPT ![id] = "visiting"] /\ stack' = Append(stack, id)
    BY DEF Enter, SearchInv, SearchTypeOK
  <1>2. /\ stack \in Seq(Steps) /\ n \in Nat /\ DOMAIN stack = 1..n
        /\ stack' \in Seq(Steps) /\ DOMAIN stack' = 1..(n + 1)
        /\ stack'[n + 1] = id /\ \A i \in 1..n : stack'[i] = stack[i]
    BY <1>1 DEF SearchInv, SearchTypeOK
  <1>3. \A i \in 1..n : stack[i] # id
    BY <1>1, <1>2 DEF SearchInv, Path
  <1>4. \A s, d : Edge(s, d)' <=> Edge(s, d)
    BY DEF Edge
  <1>5. Path'
    <2>1. ASSUME NEW s \in Steps PROVE colour'[s] = "visiting" <=> \E i \in DOMAIN stack' : stack'[i] = s
      BY <1>1, <1>2 DEF SearchInv, Path
    <2>2. \A i, j \in DOMAIN stack' : stack'[i] = stack'[j] => i = j
      BY <1>2, <1>3 DEF SearchInv, Path
    <2>3. ASSUME NEW i \in DOMAIN stack', i + 1 \in DOMAIN stack'
          PROVE  Edge(stack'[i], stack'[i + 1])
      <3>1. CASE i < n
        BY <1>2, <2>3, <3>1 DEF SearchInv, Path
      <3>2. CASE i = n
        <4>1. stack # <<>> /\ stack'[i] = Top /\ stack'[i + 1] = id
          BY <1>2, <2>3, <3>2 DEF Top
        <4> QED BY <4>1
      <3> QED BY <1>2, <2>3, <3>1, <3>2
    <2> QED BY <1>4, <2>1, <2>2, <2>3 DEF Path
  <1>6. Done' = Done
    BY <1>1 DEF Done
  <1>7. DoneIsAcyclic'
    BY <1>6 DEF SearchInv, DoneIsAcyclic
  <1>8. ReportedIsCycle'
    BY <1>1 DEF ReportedIsCycle
  <1> QED BY <1>2, <1>5, <1>7, <1>8

\* The part of the stack from a step the top needs is a cycle.
LEMMA CloseKeeps ==
  ASSUME TypeOK, SearchInv, wf' = wf, NEW id \in Nat, Close(id), stack # <<>>, Edge(Top, id)
  PROVE  Path' /\ DoneIsAcyclic' /\ ReportedIsCycle' /\ cycle' \in Seq(Steps) /\ cycle' # <<>>
  <1> DEFINE n == Len(stack)
  <1>1. UNCHANGED <<colour, stack, wf>>
    BY DEF Close
  <1>2. Done' = Done
    BY <1>1 DEF Done
  <1>3. \A s, d : Edge(s, d)' <=> Edge(s, d)
    BY <1>1 DEF Edge
  <1>4. Path' /\ DoneIsAcyclic'
    BY <1>1, <1>2, <1>3 DEF SearchInv, Path, DoneIsAcyclic
  <1>5. stack \in Seq(Steps) /\ n \in Nat /\ n > 0 /\ DOMAIN stack = 1..n
    BY DEF SearchInv, SearchTypeOK
  <1>6. PICK from \in 1..n : id \in Steps /\ stack[from] = id /\ cycle' = Append(SubSeq(stack, from, n), id)
    BY <1>5 DEF Close
  <1> DEFINE rest == SubSeq(stack, from, n)
  <1>7. /\ rest \in Seq(Steps) /\ Len(rest) = n - from + 1
        /\ \A i \in 1..(n - from + 1) : rest[i] = stack[from + i - 1]
    <2>1. \A i \in from..n : stack[i] \in Steps
      BY <1>5
    <2>2. Len(rest) = n - from + 1 /\ rest \in Seq(Steps)
      BY <1>5, <1>6, <2>1
    <2>3. \A i \in 1..(n - from + 1) : rest[i] = stack[from + i - 1]
      BY <1>5, <1>6
    <2> QED BY <2>2, <2>3
  <1>8. /\ cycle' \in Seq(Steps) /\ Len(cycle') = n - from + 2
        /\ cycle'[n - from + 2] = id
        /\ \A i \in 1..(n - from + 1) : cycle'[i] = stack[from + i - 1]
    BY <1>5, <1>6, <1>7
  <1> HIDE DEF n, rest
  <1>9. ASSUME NEW i \in 1..(Len(cycle') - 1) PROVE Edge(cycle'[i], cycle'[i + 1])
    <2>1. CASE i < n - from + 1
      <3>1. /\ from + i - 1 \in DOMAIN stack /\ (from + i - 1) + 1 \in DOMAIN stack
            /\ cycle'[i] = stack[from + i - 1] /\ cycle'[i + 1] = stack[(from + i - 1) + 1]
        BY <1>5, <1>6, <1>8, <2>1
      <3> QED BY <3>1 DEF SearchInv, Path
    <2>2. CASE i = n - from + 1
      <3>1. cycle'[i] = Top /\ cycle'[i + 1] = id
        BY <1>5, <1>6, <1>8, <2>2 DEF Top, n
      <3> QED BY <3>1
    <2> QED BY <1>5, <1>6, <1>8, <2>1, <2>2
  <1>10. Len(cycle') > 1 /\ cycle'[1] = cycle'[Len(cycle')] /\ cycle' # <<>>
    <2>1. Len(cycle') = n - from + 2 /\ n - from + 2 > 1 /\ 1 \in 1..(n - from + 1)
      BY <1>5, <1>6, <1>8
    <2>2. cycle'[1] = stack[from + 1 - 1] /\ from + 1 - 1 = from
      BY <1>6, <1>8, <2>1
    <2> QED BY <1>6, <1>8, <2>1, <2>2
  <1> QED BY <1>3, <1>4, <1>8, <1>9, <1>10 DEF ReportedIsCycle

\* The root of a search is a step, and no step waits on the stack.
LEMMA RootKeeps == TypeOK /\ SearchInv /\ wf' = wf /\ NextRoot => SearchInv'
  <1> SUFFICES ASSUME TypeOK, SearchInv, wf' = wf, NextRoot PROVE SearchInv'
    OBVIOUS
  <1>1. /\ root \in Nat /\ root \in Steps /\ NumSteps \in Nat /\ root' = root + 1
        /\ stack = <<>> /\ cycle = <<>> /\ place' = place
    BY WorkflowAssumption DEF NextRoot, SearchInv, SearchTypeOK, Steps
  <1>2. /\ colour \in [Steps -> {"new", "visiting", "done"}]
        /\ place \in [Steps -> Nat \ {0}] /\ root' \in 1..(NumSteps + 1)
    BY <1>1 DEF SearchInv, SearchTypeOK, Steps
  <1>3. CASE Pass(root)
    <2>1. Path' /\ DoneIsAcyclic' /\ ReportedIsCycle'
      BY <1>1, <1>3, PassKeeps
    <2>2. UNCHANGED <<colour, stack, cycle>> /\ colour[root] = "done"
      BY <1>1, <1>3 DEF Pass
    <2>3. SearchTypeOK'
      BY <1>1, <1>2, <2>2 DEF SearchInv, SearchTypeOK
    <2>4. Looked'
      BY <1>1, <2>2 DEF SearchInv, Looked
    <2>5. Rooted'
      BY <1>1, <2>2 DEF SearchInv, Rooted, Steps
    <2> QED BY <2>1, <2>3, <2>4, <2>5 DEF SearchInv
  <1>4. CASE Enter(root)
    <2>1. Path' /\ DoneIsAcyclic' /\ ReportedIsCycle' /\ stack' \in Seq(Steps)
      BY <1>1, <1>4, EnterKeeps
    <2>2. /\ colour' = [colour EXCEPT ![root] = "visiting"] /\ cycle' = <<>>
          /\ colour[root] = "new" /\ stack' = <<root>>
      BY <1>1, <1>4 DEF Enter
    <2>3. SearchTypeOK'
      BY <1>1, <1>2, <2>1, <2>2 DEF SearchTypeOK
    <2>4. Looked'
      <3>1. DOMAIN stack' = {1} /\ stack'[1] = root /\ place'[root] = 1
        BY <1>1, <2>2 DEF SearchInv, Looked
      <3>2. wf.lists[root] \in Seq(Nat)
        BY <1>1, Validated
      <3>3. \A j \in DOMAIN wf.lists[root] : ~(j < 1)
        BY <3>2
      <3>4. \A s \in Steps : colour'[s] = "new" => place'[s] = 1
        BY <1>1, <1>2, <2>2 DEF SearchInv, Looked
      <3> QED BY <3>1, <3>3, <3>4 DEF Looked
    <2>5. Rooted'
      BY <1>1, <1>2, <2>2 DEF SearchInv, Rooted, Steps
    <2> QED BY <2>1, <2>3, <2>4, <2>5 DEF SearchInv
  <1> QED BY <1>3, <1>4 DEF NextRoot
\* The top of the stack looks at its next need.
LEMMA NeedKeeps == TypeOK /\ SearchInv /\ wf' = wf /\ NextNeed => SearchInv'
  <1> SUFFICES ASSUME TypeOK, SearchInv, wf' = wf, NextNeed PROVE SearchInv'
    OBVIOUS
  <1> DEFINE n == Len(stack)
             t == stack[n]
             id == wf.lists[t][place[t]]
  <1>1. /\ stack \in Seq(Steps) /\ n \in Nat /\ n > 0 /\ DOMAIN stack = 1..n /\ n \in DOMAIN stack
        /\ t = Top /\ t \in Steps /\ stack # <<>> /\ cycle = <<>>
    BY DEF NextNeed, SearchInv, SearchTypeOK, Top
  <1>2. /\ colour \in [Steps -> {"new", "visiting", "done"}] /\ place \in [Steps -> Nat \ {0}]
        /\ root' = root /\ place' = [place EXCEPT ![t] = @ + 1]
        /\ place' \in [Steps -> Nat \ {0}]
    BY <1>1 DEF NextNeed, SearchInv, SearchTypeOK, Top
  <1>3. place[t] \in DOMAIN wf.lists[t] /\ id \in Nat /\ Edge(t, id)
    <2>1. wf.lists[t] \in Seq(Nat) /\ place[t] \in 1..Len(wf.lists[t])
      BY <1>1, <1>2, Validated DEF NextNeed, Top
    <2> QED BY <2>1 DEF Edge
  <1>4. Pass(id) \/ Enter(id) \/ Close(id)
    BY DEF NextNeed, Top
  <1>5. colour[t] = "visiting"
    BY <1>1 DEF SearchInv, Path
  <1>6. \A i \in 1..n : stack[i] = t => i = n
    BY <1>1 DEF SearchInv, Path
  <1>7. \A i \in 1..n : stack[i] \in Steps
    BY <1>1
  <1>8. \A s \in Steps : colour[s] = "new" => place'[s] = 1
    BY <1>1, <1>2, <1>5 DEF SearchInv, Looked
  <1>9. \A j \in DOMAIN wf.lists[t] :
          j < place[t] /\ wf.lists[t][j] \in Steps => colour[wf.lists[t][j]] = "done"
    <2>1. n + 1 \notin DOMAIN stack
      BY <1>1
    <2> QED BY <1>1, <2>1 DEF SearchInv, Looked
  <1>10. \A i \in 1..n : \A j \in DOMAIN wf.lists[stack[i]] :
          i # n /\ j < place'[stack[i]] /\ wf.lists[stack[i]][j] \in Steps =>
            \/ colour[wf.lists[stack[i]][j]] = "done"
            \/ i + 1 \in 1..n /\ stack[i + 1] = wf.lists[stack[i]][j]
    <2> SUFFICES ASSUME NEW i \in 1..n, NEW j \in DOMAIN wf.lists[stack[i]], i # n,
                        j < place'[stack[i]], wf.lists[stack[i]][j] \in Steps
                 PROVE  \/ colour[wf.lists[stack[i]][j]] = "done"
                        \/ i + 1 \in 1..n /\ stack[i + 1] = wf.lists[stack[i]][j]
      OBVIOUS
    <2>1. stack[i] \in Steps /\ stack[i] # t
      BY <1>6, <1>7
    <2>2. place'[stack[i]] = place[stack[i]]
      BY <1>2, <2>1
    <2> QED BY <1>1, <2>2 DEF SearchInv, Looked
  <1>11. \A j \in DOMAIN wf.lists[t] : j < place'[t] => j < place[t] \/ j = place[t]
    BY <1>1, <1>2, <1>3, Validated
  <1> HIDE DEF n, t, id
  <1>12. CASE Pass(id)
    <2>1. Path' /\ DoneIsAcyclic' /\ ReportedIsCycle'
      BY <1>3, <1>12, PassKeeps
    <2>2. UNCHANGED <<colour, stack, cycle>> /\ (id \in Steps => colour[id] = "done")
      BY <1>12 DEF Pass
    <2>3. SearchTypeOK'
      BY <1>2, <2>2 DEF SearchInv, SearchTypeOK
    <2>4. Looked'
      <3>1. \A j \in DOMAIN wf.lists[t] :
              j < place'[t] /\ wf.lists[t][j] \in Steps => colour[wf.lists[t][j]] = "done"
        BY <1>9, <1>11, <2>2 DEF id
      <3>2. ASSUME NEW i \in 1..n, NEW j \in DOMAIN wf.lists[stack[i]],
                   j < place'[stack[i]], wf.lists[stack[i]][j] \in Steps
            PROVE  \/ colour[wf.lists[stack[i]][j]] = "done"
                   \/ i + 1 \in 1..n /\ stack[i + 1] = wf.lists[stack[i]][j]
        <4>1. CASE i = n
          BY <3>1, <3>2, <4>1 DEF t
        <4> QED BY <1>10, <3>2, <4>1
      <3> QED BY <1>1, <1>8, <2>2, <3>2 DEF Looked
    <2>5. Rooted'
      BY <1>2, <2>2 DEF SearchInv, Rooted
    <2> QED BY <2>1, <2>3, <2>4, <2>5 DEF SearchInv
  <1>13. CASE Enter(id)
    <2>1. Path' /\ DoneIsAcyclic' /\ ReportedIsCycle' /\ stack' \in Seq(Steps)
      BY <1>1, <1>3, <1>13, EnterKeeps
    <2>2. /\ id \in Steps /\ colour[id] = "new" /\ cycle' = cycle
          /\ colour' = [colour EXCEPT ![id] = "visiting"] /\ stack' = Append(stack, id)
      BY <1>13 DEF Enter
    <2>3. SearchTypeOK'
      BY <1>2, <2>1, <2>2 DEF SearchInv, SearchTypeOK
    <2>4. /\ DOMAIN stack' = 1..(n + 1) /\ stack'[n + 1] = id
          /\ \A i \in 1..n : stack'[i] = stack[i]
      BY <1>1, <2>2 DEF n
    <2>5. /\ \A s \in Steps : colour'[s] = "new" => colour[s] = "new"
          /\ \A s \in Steps : colour[s] = "done" => colour'[s] = "done"
      BY <1>2, <2>2
    <2>6. place'[id] = 1 /\ \A j \in DOMAIN wf.lists[id] : ~(j < 1)
      <3>1. wf.lists[id] \in Seq(Nat)
        BY <2>2, Validated
      <3> QED BY <1>8, <2>2, <3>1
    <2>7. Looked'
      <3>1. ASSUME NEW i \in 1..(n + 1), NEW j \in DOMAIN wf.lists[stack'[i]],
                   j < place'[stack'[i]], wf.lists[stack'[i]][j] \in Steps
            PROVE  \/ colour'[wf.lists[stack'[i]][j]] = "done"
                   \/ i + 1 \in 1..(n + 1) /\ stack'[i + 1] = wf.lists[stack'[i]][j]
        <4>1. CASE i = n + 1
          BY <2>4, <2>6, <3>1, <4>1
        <4>2. CASE i = n
          <5>1. stack'[i] = t /\ stack'[i + 1] = id /\ i + 1 \in 1..(n + 1)
            BY <1>1, <2>4, <4>2 DEF t
          <5>2. j < place[t] \/ wf.lists[t][j] = id
            BY <1>11, <3>1, <5>1 DEF id
          <5> QED BY <1>9, <2>5, <3>1, <5>1, <5>2
        <4>3. CASE i \in 1..n /\ i # n
          <5>1. stack'[i] = stack[i] /\ i + 1 \in 1..n /\ stack'[i + 1] = stack[i + 1]
            BY <1>1, <2>4, <4>3
          <5>2. \/ colour[wf.lists[stack[i]][j]] = "done"
                \/ stack[i + 1] = wf.lists[stack[i]][j]
            BY <1>10, <3>1, <4>3, <5>1
          <5>3. i + 1 \in 1..(n + 1)
            BY <1>1, <4>3
          <5> QED BY <2>5, <3>1, <5>1, <5>2, <5>3
        <4> QED BY <1>1, <4>1, <4>2, <4>3
      <3> QED BY <1>8, <2>4, <2>5, <3>1 DEF Looked
    <2>8. Rooted'
      BY <1>2, <2>2 DEF SearchInv, Rooted
    <2> QED BY <2>1, <2>3, <2>7, <2>8 DEF SearchInv
  <1>14. CASE Close(id)
    <2>1. Path' /\ DoneIsAcyclic' /\ ReportedIsCycle' /\ cycle' \in Seq(Steps) /\ cycle' # <<>>
      BY <1>1, <1>3, <1>14, CloseKeeps
    <2>2. UNCHANGED <<colour, stack>>
      BY <1>14 DEF Close
    <2>3. SearchTypeOK'
      BY <1>2, <2>1, <2>2 DEF SearchInv, SearchTypeOK
    <2>4. Looked' /\ Rooted'
      BY <1>2, <1>8, <2>1, <2>2 DEF SearchInv, Looked, Rooted
    <2> QED BY <2>1, <2>3, <2>4 DEF SearchInv
  <1> QED BY <1>4, <1>12, <1>13, <1>14

\* The top of the stack leaves it when all it needs is done.
LEMMA LeaveKeeps == TypeOK /\ SearchInv /\ wf' = wf /\ Leave => SearchInv'
  <1> SUFFICES ASSUME TypeOK, SearchInv, wf' = wf, Leave PROVE SearchInv'
    OBVIOUS
  <1> DEFINE n == Len(stack)
             t == stack[n]
  <1>1. /\ stack \in Seq(Steps) /\ n \in Nat /\ n > 0 /\ DOMAIN stack = 1..n /\ n \in DOMAIN stack
        /\ t = Top /\ t \in Steps /\ stack # <<>> /\ cycle = <<>>
    BY DEF Leave, SearchInv, SearchTypeOK, Top
  <1>2. /\ colour \in [Steps -> {"new", "visiting", "done"}] /\ place \in [Steps -> Nat \ {0}]
        /\ colour' = [colour EXCEPT ![t] = "done"] /\ stack' = SubSeq(stack, 1, n - 1)
        /\ UNCHANGED <<place, root, cycle>>
    BY <1>1 DEF Leave, SearchInv, SearchTypeOK, Top
  <1>3. /\ stack' \in Seq(Steps) /\ DOMAIN stack' = 1..(n - 1)
        /\ \A i \in 1..(n - 1) : stack'[i] = stack[i]
    <2>1. n - 1 \in Nat /\ \A i \in 1..(n - 1) : i \in 1..n /\ stack[i] \in Steps
      BY <1>1
    <2> QED BY <1>1, <1>2, <2>1
  <1>4. colour[t] = "visiting"
    BY <1>1 DEF SearchInv, Path
  <1>5. \A i \in 1..n : stack[i] = t => i = n
    BY <1>1 DEF SearchInv, Path
  <1>6. wf.needs[t] \subseteq Done
    <2> SUFFICES ASSUME NEW d \in wf.needs[t] PROVE d \in Done
      OBVIOUS
    <2>1. d \in Steps /\ wf.lists[t] \in Seq(Nat) /\ \E j \in DOMAIN wf.lists[t] : wf.lists[t][j] = d
      BY <1>1, Validated
    <2>2. PICK j \in DOMAIN wf.lists[t] : wf.lists[t][j] = d
      BY <2>1
    <2>3. place[t] > Len(wf.lists[t])
      BY <1>1 DEF Leave, Top
    <2>4. j < place[t]
      BY <1>1, <1>2, <2>1, <2>2, <2>3
    <2>5. n + 1 \notin DOMAIN stack
      BY <1>1
    <2>6. colour[d] = "done"
      BY <1>1, <2>1, <2>2, <2>4, <2>5 DEF SearchInv, Looked
    <2> QED BY <2>1, <2>6 DEF Done
  <1> HIDE DEF n, t
  <1>7. Done' = Done \cup {t} /\ t \notin Done
    BY <1>1, <1>2, <1>4 DEF Done
  <1>8. DoneIsAcyclic'
    <2>1. \A s \in Done : wf.needs[s] \subseteq Done
      BY DEF SearchInv, DoneIsAcyclic
    <2>2. \A s \in Done' : wf'.needs[s] \subseteq Done'
      BY <1>6, <1>7, <2>1
    <2>3. ASSUME NEW S \in SUBSET (Done'), S # {} PROVE \E s \in S : wf.needs[s] \cap S = {}
      <3>1. CASE S = {t}
        BY <1>6, <1>7, <3>1
      <3>2. CASE S # {t}
        <4>1. S \ {t} \in SUBSET Done /\ S \ {t} # {}
          BY <1>7, <2>3, <3>2
        <4>2. PICK s \in S \ {t} : wf.needs[s] \cap (S \ {t}) = {}
          BY <4>1 DEF SearchInv, DoneIsAcyclic
        <4>3. t \notin wf.needs[s]
          BY <1>7, <2>1, <4>1, <4>2
        <4> QED BY <4>2, <4>3
      <3> QED BY <3>1, <3>2
    <2> QED BY <2>2, <2>3 DEF DoneIsAcyclic
  <1>9. SearchTypeOK'
    BY <1>1, <1>2, <1>3 DEF SearchInv, SearchTypeOK
  <1>10. Path'
    <2>1. ASSUME NEW s \in Steps
          PROVE  colour'[s] = "visiting" <=> \E i \in DOMAIN stack' : stack'[i] = s
      <3>1. CASE s = t
        BY <1>1, <1>2, <1>3, <1>5, <3>1
      <3>2. CASE s # t
        <4>1. colour'[s] = colour[s]
          BY <1>2, <3>2
        <4>2. ASSUME NEW i \in 1..n, stack[i] = s PROVE i \in 1..(n - 1)
          BY <1>1, <3>2, <4>2 DEF t
        <4>3. \A i \in 1..(n - 1) : i \in 1..n
          BY <1>1
        <4> QED BY <1>1, <1>3, <4>1, <4>2, <4>3 DEF SearchInv, Path
      <3> QED BY <3>1, <3>2
    <2>2. \A i, j \in DOMAIN stack' : stack'[i] = stack'[j] => i = j
      BY <1>1, <1>3 DEF SearchInv, Path
    <2>3. ASSUME NEW i \in DOMAIN stack', i + 1 \in DOMAIN stack'
          PROVE  Edge(stack'[i], stack'[i + 1])
      BY <1>1, <1>3, <2>3 DEF SearchInv, Path
    <2>4. \A s, d : Edge(s, d)' <=> Edge(s, d)
      BY DEF Edge
    <2> QED BY <2>1, <2>2, <2>3, <2>4 DEF Path
  <1>11. Looked'
    <2>1. \A s \in Steps : colour'[s] = "new" => place'[s] = 1
      BY <1>2 DEF SearchInv, Looked
    <2>2. ASSUME NEW i \in 1..(n - 1), NEW j \in DOMAIN wf.lists[stack'[i]],
                 j < place'[stack'[i]], wf.lists[stack'[i]][j] \in Steps
          PROVE  \/ colour'[wf.lists[stack'[i]][j]] = "done"
                 \/ i + 1 \in 1..(n - 1) /\ stack'[i + 1] = wf.lists[stack'[i]][j]
      <3>1. i \in 1..n /\ stack'[i] = stack[i] /\ place' = place
        BY <1>1, <1>2, <1>3
      <3>2. \/ colour[wf.lists[stack[i]][j]] = "done"
            \/ i + 1 \in 1..n /\ stack[i + 1] = wf.lists[stack[i]][j]
        BY <1>1, <2>2, <3>1 DEF SearchInv, Looked
      <3>3. CASE colour[wf.lists[stack[i]][j]] = "done"
        BY <1>2, <2>2, <3>1, <3>3
      <3>4. CASE i + 1 \in 1..(n - 1) /\ stack[i + 1] = wf.lists[stack[i]][j]
        BY <1>3, <3>1, <3>4
      <3>5. CASE i + 1 = n /\ stack[i + 1] = wf.lists[stack[i]][j]
        <4>1. wf.lists[stack'[i]][j] = t
          BY <3>1, <3>5 DEF t
        <4> QED BY <1>2, <1>1, <4>1
      <3> QED BY <1>1, <3>2, <3>3, <3>4, <3>5
    <2> QED BY <1>3, <2>1, <2>2 DEF Looked
  <1>12. Rooted' /\ ReportedIsCycle'
    BY <1>1, <1>2 DEF SearchInv, Rooted, ReportedIsCycle
  <1> QED BY <1>8, <1>9, <1>10, <1>11, <1>12 DEF SearchInv

\* Every step of the search keeps its invariant.
LEMMA SearchKeeps ==
  TypeOK /\ SearchInv /\ wf' = wf /\ (Search \/ UNCHANGED searchVars) => SearchInv'
  <1> SUFFICES ASSUME TypeOK, SearchInv, wf' = wf, Search \/ UNCHANGED searchVars
               PROVE  SearchInv'
    OBVIOUS
  <1>1. CASE UNCHANGED searchVars
    <2>1. Done' = Done /\ \A s, d : Edge(s, d)' <=> Edge(s, d)
      BY <1>1 DEF searchVars, Done, Edge
    <2> QED BY <1>1, <2>1 DEF searchVars, SearchInv, SearchTypeOK, Path, Looked, DoneIsAcyclic,
                              Rooted, ReportedIsCycle
  <1> QED BY <1>1, RootKeeps, NeedKeeps, LeaveKeeps DEF Search

\* What is reported has no first step.
LEMMA ReportedIsCyclic == TypeOK /\ SearchInv /\ cycle # <<>> => ~Acyclic(wf.needs)
  <1> SUFFICES ASSUME TypeOK, SearchInv, cycle # <<>>, Acyclic(wf.needs) PROVE FALSE
    OBVIOUS
  <1> DEFINE n == Len(cycle) - 1
             S == {cycle[i] : i \in 1..n}
  <1>1. /\ cycle \in Seq(Steps) /\ n \in Nat /\ n > 0 /\ cycle[1] = cycle[n + 1]
        /\ \A i \in 1..n : Edge(cycle[i], cycle[i + 1])
    BY DEF SearchInv, SearchTypeOK, ReportedIsCycle
  <1>2. \A i \in 1..n : cycle[i] \in Steps
    BY <1>1
  <1>3. cycle[1] \in S /\ S \in SUBSET Steps
    BY <1>1, <1>2
  <1>4. PICK s \in S : wf.needs[s] \cap S = {}
    BY <1>3 DEF Acyclic
  <1>5. PICK i \in 1..n : s = cycle[i]
    BY <1>4
  <1>6. cycle[i + 1] \in S
    <2>1. CASE i = n
      BY <1>1, <1>3, <2>1
    <2>2. CASE i # n
      <3>1. i + 1 \in 1..n
        BY <1>1, <2>2
      <3> QED BY <3>1
    <2> QED BY <2>1, <2>2
  <1> HIDE DEF n, S
  <1>7. Edge(s, cycle[i + 1]) /\ cycle[i + 1] \in Steps /\ s \in Steps
    BY <1>1, <1>3, <1>5, <1>4, <1>6
  <1>8. cycle[i + 1] \in wf.needs[s]
    BY <1>7, Validated DEF Edge
  <1> QED BY <1>4, <1>6, <1>8

\* When the search is over every step is done.
LEMMA SearchIsRight == TypeOK /\ SearchInv => SearchIsExact
  <1> SUFFICES ASSUME TypeOK, SearchInv, Searched, cycle = <<>> PROVE Acyclic(wf.needs)
    BY ReportedIsCyclic DEF SearchIsExact
  <1>1. stack = <<>> /\ root = NumSteps + 1 /\ NumSteps \in Nat
    BY WorkflowAssumption DEF Searched, SearchInv, SearchTypeOK
  <1>2. ASSUME NEW s \in Steps PROVE s \in Done
    <2>1. colour[s] # "new"
      BY <1>1 DEF SearchInv, Rooted, Steps
    <2>2. colour[s] # "visiting"
      BY <1>1 DEF SearchInv, Path
    <2> QED BY <2>1, <2>2 DEF SearchInv, SearchTypeOK, Done
  <1>3. Done = Steps
    BY <1>2 DEF Done
  <1> QED BY <1>3 DEF SearchInv, DoneIsAcyclic, Acyclic

-----------------------------------------------------------------------------
(* The theorems.                                                           *)

\* The invariant of search and executor: nothing begins with a cycle.
Kept == IInv /\ SearchInv /\ (at = "top" \/ Acyclic(wf.needs))

\* The workflow stays the same.
LEMMA SameWorkflow == [Next]_vars => wf' = wf
  BY DEF Next, Abort, LoopStep, LeaveLoop, EnterLoop, PassOver, Skip, EndPass, Finish,
         StartWave, EndWave, End, RunStep, BeginAttempt, GiveUp, Succeed, Retry, RunOut, Fail, vars

\* A step of the whole is one of the executor or none, and it runs only what
\* the search has accepted.
LEMMA ParsedStep ==
  Kept /\ [ParsedNext]_parsedVars => [Next]_vars /\ (Acyclic(wf.needs) \/ UNCHANGED vars)
  <1> SUFFICES ASSUME Kept, [ParsedNext]_parsedVars
               PROVE  [Next]_vars /\ (Acyclic(wf.needs) \/ UNCHANGED vars)
    OBVIOUS
  <1>1. CASE Search
    BY <1>1 DEF Search
  <1>2. CASE Run(Next)
    BY <1>2, SearchIsRight DEF Kept, IInv, Run, Accepted, SearchIsExact
  <1>3. CASE UNCHANGED parsedVars
    BY <1>3 DEF parsedVars
  <1> QED BY <1>1, <1>2, <1>3 DEF ParsedNext

\* The inductive invariant holds in every reachable state.
THEOREM Invariant == ParsedSpec => []Kept
  <1>1. ParsedInit => Kept
    BY Initially, SearchInitially DEF ParsedInit, Init, Kept
  <1>2. ASSUME Kept, [ParsedNext]_parsedVars PROVE Kept'
    <2>1. [Next]_vars /\ (Acyclic(wf.needs) \/ UNCHANGED vars)
      BY <1>2, ParsedStep
    <2>2. IInv' /\ wf' = wf
      BY <1>2, <2>1, Inductive, SameWorkflow DEF Kept
    <2>3. SearchInv'
      BY <1>2, <2>2, SearchKeeps DEF Kept, IInv, ParsedNext, Run, parsedVars
    <2>4. at' = "top" \/ Acyclic(wf'.needs)
      BY <1>2, <2>1, <2>2 DEF Kept, vars, loopVars
    <2> QED BY <2>2, <2>3, <2>4 DEF Kept, Acyclic
  <1> QED BY <1>1, <1>2, PTL DEF ParsedSpec

\* findCycle finds a cycle just if there is one, in whatever order the needs are
\* listed and although it looks at no step twice.
THEOREM SearchCorrect == ParsedSpec => []SearchIsExact
  <1>1. Kept => SearchIsExact
    BY SearchIsRight DEF Kept, IInv
  <1> QED BY <1>1, Invariant, PTL

\* What the search reports as a cycle is a path of needs back to its start.
THEOREM ReportCorrect == ParsedSpec => []ReportedIsCycle
  <1>1. Kept => ReportedIsCycle
    BY DEF Kept, SearchInv
  <1> QED BY <1>1, Invariant, PTL

\* An accepted workflow never takes the "stalled" branch.
THEOREM StallFree == ParsedSpec => []NeverStalls
  <1>1. Kept => NeverStalls
    <2> SUFFICES ASSUME Kept, at = "gather", Ready = {}, NEW s \in Steps
                 PROVE  status[s] # "pending"
      BY DEF NeverStalls
    <2>1. TypeOK /\ Acyclic(wf.needs)
      BY DEF Kept, IInv
    <2> QED BY <2>1, SomethingIsReady
  <1> QED BY <1>1, Invariant, PTL

\* Every variable has its type: no step begins more attempts than its
\* retries allow.
THEOREM TypeCorrect == ParsedSpec => []TypeOK
  <1>1. Kept => TypeOK
    BY DEF Kept, IInv
  <1> QED BY <1>1, Invariant, PTL

\* A run that ends well has settled every step, unless the signal has fired:
\* only the signal leaves the loop before its end without a failure.
THEOREM OkCorrect == ParsedSpec => []OkUnlessAborted
  <1>1. ParsedInit => OkUnlessAborted
    BY DEF ParsedInit, Init, OkUnlessAborted, OkReachedTheEnd
  <1>2. ASSUME Kept, OkUnlessAborted, [ParsedNext]_parsedVars PROVE OkUnlessAborted'
    <2> SUFFICES ASSUME result' = "ok", ~signal' PROVE \A s \in Steps : status'[s] # "pending"
      BY DEF OkUnlessAborted, OkReachedTheEnd
    <2>1. IInv /\ [Next]_vars /\ (Acyclic(wf.needs) \/ UNCHANGED vars)
      BY <1>2, ParsedStep DEF Kept
    <2>2. CASE LeaveLoop
      BY <2>2 DEF LeaveLoop, End
    <2>3. CASE Finish
      <3>1. \A s \in Steps : status[s] # "pending"
        BY <2>3 DEF Finish, End
      <3> QED BY <2>3, <3>1 DEF Finish, End, stepVars
    <2>4. CASE Abort \/ EnterLoop \/ PassOver \/ Skip \/ EndPass \/ StartWave \/ EndWave
      <3>1. at # "end" /\ result' = result
        BY <2>4 DEF Abort, EnterLoop, PassOver, Skip, EndPass, StartWave, EndWave
      <3> QED BY <2>1, <3>1 DEF IInv, Ended
    <2>5. ASSUME NEW s \in Steps, RunStep(s) PROVE FALSE
      <3>1. phase[s] # "idle" /\ result' = result
        BY <2>5 DEF RunStep, BeginAttempt, GiveUp, Succeed, Retry, RunOut, Fail
      <3> QED BY <2>1, <3>1 DEF IInv, Running, Ended
    <2>6. CASE UNCHANGED vars
      BY <1>2, <2>6 DEF vars, stepVars, OkUnlessAborted, OkReachedTheEnd
    <2> QED BY <2>1, <2>2, <2>3, <2>4, <2>5, <2>6 DEF Next, LoopStep
  <1> QED BY <1>1, <1>2, Invariant, PTL DEF ParsedSpec

\* The scope made once for a wave holds the final outputs its steps need.
THEOREM ScopeCorrect == ParsedSpec => []SeesItsNeeds
  <1>1. Kept => SeesItsNeeds
    BY DEF Kept, IInv, Running, SeesItsNeeds
  <1> QED BY <1>1, Invariant, PTL

\* The error of a failed run names a step whose failure was not tolerated.
THEOREM ErrorCorrect == ParsedSpec => []ErrorNamesCulprit
  <1>1. Kept => ErrorNamesCulprit
    BY DEF Kept, IInv, Doomed, Blamed, Ended, ErrorNamesCulprit
  <1> QED BY <1>1, Invariant, PTL

\* No step starts once the run is doomed, no attempt begins once the signal
\* has fired.
THEOREM DoomedStartsNothing == ParsedSpec => NoStartWhenDoomed
  <1>1. ASSUME IInv, [Next]_vars
        PROVE  [/\ aborted => \A s \in Steps : phase[s] = "idle" => phase'[s] = "idle"
                /\ signal => attempts' = attempts]_vars
    <2>1. CASE StartWave
      <3>1. ~aborted
        BY <1>1, <2>1 DEF IInv, Doomed, StartWave
      <3> QED BY <2>1, <3>1 DEF StartWave
    <2>2. CASE Abort \/ (LoopStep /\ ~StartWave)
      <3>1. phase' = phase /\ attempts' = attempts
        BY <2>2 DEF Abort, LoopStep, LeaveLoop, EnterLoop, PassOver, Skip, EndPass, Finish,
                    EndWave, End, stepVars
      <3> QED BY <3>1
    <2>3. ASSUME NEW s \in Steps, RunStep(s)
          PROVE  /\ \A r \in Steps : phase[r] = "idle" => phase'[r] = "idle"
                 /\ signal => attempts' = attempts
      <3>1. phase[s] # "idle" /\ phase \in [Steps -> {"idle", "ready", "trying"}]
        BY <1>1, <2>3 DEF RunStep, BeginAttempt, GiveUp, Succeed, Retry, RunOut, IInv, TypeOK
      <3>2. \A r \in Steps : r # s => phase'[r] = phase[r]
        BY <2>3, <3>1 DEF RunStep, BeginAttempt, GiveUp, Succeed, Retry, RunOut, Fail
      <3>3. signal => attempts' = attempts
        BY <2>3 DEF RunStep, BeginAttempt, GiveUp, Succeed, Retry, RunOut, Fail
      <3> QED BY <3>1, <3>2, <3>3
    <2>4. CASE UNCHANGED vars
      BY <2>4
    <2> QED BY <1>1, <2>1, <2>2, <2>3, <2>4 DEF Next
  <1>2. Kept /\ [ParsedNext]_parsedVars => IInv /\ [Next]_vars
    BY ParsedStep DEF Kept
  <1> QED BY <1>1, <1>2, Invariant, PTL DEF ParsedSpec, NoStartWhenDoomed

-----------------------------------------------------------------------------
(* The executor implements the task graph.                                 *)

\* The executor starts as the graph does.
LEMMA GraphInit == Init => Graph!Init
  <1> SUFFICES ASSUME Init PROVE Graph!Init
    OBVIOUS
  <1>1. TypeOK
    BY Initially DEF IInv
  <1> QED BY <1>1, Validated DEF Init, Graph!Init

\* A step that is settled is one of the graph.
LEMMA SettleStep ==
  ASSUME IInv, NEW s \in Steps, NEW how \in {"completed", "skipped", "failed"},
         status[s] = "pending", \A n \in wf.needs[s] : Settled(n), at # "end",
         wf' = wf, result' = result, status' = [status EXCEPT ![s] = how]
  PROVE  Graph!Next
  <1>1. result = "none"
    BY DEF IInv, TypeOK, Ended
  <1>2. \A n \in wf.needs[s] : status[n] # "pending"
    BY DEF Settled
  <1>3. Graph!Settle(s, how)
    BY <1>1, <1>2 DEF Graph!Settle
  <1> QED BY <1>3 DEF Graph!Next

\* The run is blamed on some step exactly if the executor's flag is up.
LEMMA EndStep ==
  ASSUME IInv, at # "end", End(~aborted)
  PROVE  Graph!Next
  <1>1. result = "none" /\ wf' = wf /\ status' = status
    BY DEF IInv, TypeOK, Ended, End, stepVars
  <1>2. aborted <=> Graph!Blamed # {}
    BY DEF IInv, Doomed, Blamed, Graph!Blamed
  <1>3. result' = IF Graph!Blamed = {} THEN "ok" ELSE "failed"
    BY <1>2 DEF End
  <1> QED BY <1>1, <1>3 DEF Graph!Next, Graph!End

\* Every step of the executor is one of the graph, or none.
LEMMA GraphStep ==
  IInv /\ [Next]_vars /\ (Acyclic(wf.needs) \/ UNCHANGED vars)
    => [Graph!Next]_(Graph!graphVars)
  <1> SUFFICES ASSUME IInv, [Next]_vars, Acyclic(wf.needs) \/ UNCHANGED vars
               PROVE  [Graph!Next]_(Graph!graphVars)
    OBVIOUS
  <1>1. CASE LeaveLoop
    BY <1>1, EndStep DEF LeaveLoop
  <1>2. CASE Acyclic(wf.needs) /\ Finish
    <2>1. ~aborted /\ End(TRUE)
      BY <1>2, SomethingIsReady DEF IInv, Doomed, Finish
    <2> QED BY <1>2, <2>1, EndStep DEF Finish, End
  <1>3. CASE Skip
    <2>1. visiting \in Steps
      BY <1>3, WorkflowAssumption DEF IInv, TypeOK, Skip, Steps
    <2> QED BY <1>3, <2>1, SettleStep DEF Skip, Waiting
  <1>4. CASE Abort \/ EnterLoop \/ PassOver \/ EndPass \/ StartWave \/ EndWave \/ UNCHANGED vars
    <2>1. wf' = wf /\ status' = status /\ result' = result
      BY <1>4 DEF Abort, EnterLoop, PassOver, EndPass, StartWave, EndWave, vars, stepVars
    <2> QED BY <2>1 DEF Graph!graphVars
  <1>5. ASSUME NEW s \in Steps, RunStep(s) PROVE [Graph!Next]_(Graph!graphVars)
    <2>1. CASE BeginAttempt(s) \/ Retry(s)
      BY <2>1 DEF BeginAttempt, Retry, Graph!graphVars
    <2>2. CASE GiveUp(s) \/ RunOut(s) \/ Succeed(s)
      <3>1. /\ phase[s] # "idle" /\ wf' = wf /\ result' = result
            /\ \E how \in {"completed", "skipped", "failed"} : status' = [status EXCEPT ![s] = how]
        BY <2>2 DEF GiveUp, RunOut, Succeed, Fail
      <3>2. at = "wave" /\ status[s] = "pending" /\ \A n \in wf.needs[s] : Settled(n)
        BY <3>1 DEF IInv, Running
      <3> QED BY <3>1, <3>2, SettleStep
    <2> QED BY <1>5, <2>1, <2>2 DEF RunStep
  <1> QED BY <1>1, <1>2, <1>3, <1>4, <1>5 DEF Next, LoopStep

\* The executor settles each step once, after its needs, and its result is
\* the one the statuses call for.
THEOREM DagImplementsTaskGraph == ParsedSpec => ImplementsTaskGraph
  <1>1. ParsedInit => Graph!Init
    BY GraphInit DEF ParsedInit
  <1>2. Kept /\ [ParsedNext]_parsedVars => [Graph!Next]_(Graph!graphVars)
    BY ParsedStep, GraphStep DEF Kept
  <1> QED BY <1>1, <1>2, Invariant, PTL DEF ParsedSpec, ImplementsTaskGraph, Graph!Spec

-----------------------------------------------------------------------------
(* The bound on a wave.                                                    *)

\* A nonempty set of steps has a last one: the naturals are well-founded,
\* and so are their distances to the end.
LEMMA LastStep ==
  ASSUME NEW W \in SUBSET Steps, W # {}
  PROVE  \E m \in W : \A w \in W : w <= m
  <1> DEFINE less == OpToRel(<, Nat)
             T == {NumSteps - w : w \in W}
  <1>1. NumSteps \in Nat /\ \A w \in W : w \in Nat /\ NumSteps - w \in Nat
    BY WorkflowAssumption DEF Steps
  <1>2. \A x, y \in Nat : x < y => <<x, y>> \in less
    BY DEF OpToRel
  <1>3. T \subseteq Nat /\ T # {}
    BY <1>1
  <1>4. IsWellFoundedOn(less, Nat)
    BY NatLessThanWellFounded
  <1> HIDE DEF less
  <1>5. \E x \in T : \A y \in T : ~(<<y, x>> \in less)
    <2> HIDE DEF T
    <2> QED BY <1>3, <1>4, WFMin
  <1>6. PICK m \in W : \A y \in T : ~(<<y, NumSteps - m>> \in less)
    BY <1>5
  <1>7. ASSUME NEW w \in W PROVE w <= m
    <2>1. ~(NumSteps - w < NumSteps - m)
      BY <1>1, <1>2, <1>6
    <2> QED BY <2>1, <1>1
  <1> QED BY <1>7

\* Sets of steps are finite.
LEMMA StepSetsFinite ==
  ASSUME NEW S \in SUBSET Steps
  PROVE  IsFiniteSet(S) /\ Cardinality(S) \in Nat
  <1>1. IsFiniteSet(Steps)
    BY WorkflowAssumption, FS_Interval DEF Steps
  <1> QED BY <1>1, FS_Subset, FS_CardinalityType

\* Before the last step of a wave there are fewer than `concurrency`.
LEMMA WaveSize == TypeOK => Cardinality(Wave) <= wf.concurrency
  <1> SUFFICES ASSUME TypeOK PROVE Cardinality(Wave) <= wf.concurrency
    OBVIOUS
  <1>1. wf.concurrency \in 1..8
    BY WorkflowAssumption DEF TypeOK, ValidWorkflow
  <1>2. Wave \in SUBSET Steps
    BY DEF Wave, Ready
  <1>3. CASE Wave = {}
    BY <1>1, <1>3, FS_EmptySet
  <1>4. CASE Wave # {}
    <2>1. PICK m \in Wave : \A w \in Wave : w <= m
      BY <1>2, <1>4, LastStep
    <2> DEFINE B == {r \in Ready : r < m}
    <2>2. B \in SUBSET Steps /\ Cardinality(B) < wf.concurrency
      BY <2>1 DEF Wave, Ready
    <2>3. Wave \ {m} \in SUBSET B
      <3>1. \A w \in Wave : w \in Ready /\ w \in Nat
        BY <1>2, WorkflowAssumption DEF Wave, Steps
      <3> QED BY <2>1, <3>1
    <2> HIDE DEF B
    <2>4. IsFiniteSet(B) /\ Cardinality(B) \in Nat
      BY <2>2, StepSetsFinite
    <2>5. Cardinality(Wave \ {m}) <= Cardinality(B)
      BY <2>3, <2>4, FS_Subset
    <2>6. Cardinality(Wave \ {m}) = Cardinality(Wave) - 1
      BY <1>2, <2>1, StepSetsFinite, FS_RemoveElement
    <2>7. Cardinality(Wave) \in Nat
      BY <1>2, StepSetsFinite
    <2> QED BY <1>1, <2>2, <2>4, <2>5, <2>6, <2>7
  <1> QED BY <1>3, <1>4

\* The steps that run.
Busy == {s \in Steps : phase[s] # "idle"}

\* Steps only leave a wave that has begun.
LEMMA BusyStep ==
  ASSUME IInv, WaveBounded, [Next]_vars
  PROVE  WaveBounded'
  <1>1. wf' = wf
    BY SameWorkflow
  <1>2. wf.concurrency \in 1..8
    BY WorkflowAssumption DEF IInv, TypeOK, ValidWorkflow
  <1>3. CASE StartWave
    <2>1. \A s \in Steps : phase[s] = "idle"
      BY <1>3 DEF IInv, Running, StartWave
    <2>2. Busy' = Wave
      BY <1>3, <2>1 DEF StartWave, Busy, Wave, Ready
    <2> QED BY <1>1, <2>2, WaveSize DEF IInv, WaveBounded, Busy
  <1>4. CASE ~StartWave
    <2>1. Busy' \subseteq Busy
      <3>1. CASE Abort \/ LoopStep \/ UNCHANGED vars
        BY <1>4, <3>1 DEF Abort, LoopStep, LeaveLoop, EnterLoop, PassOver, Skip, EndPass, Finish,
             EndWave, End, stepVars, vars, Busy
      <3>2. ASSUME NEW s \in Steps, RunStep(s) PROVE Busy' \subseteq Busy
        <4>1. s \in Busy
          BY <3>2 DEF RunStep, BeginAttempt, GiveUp, Succeed, Retry, RunOut, Busy
        <4>2. \A r \in Steps : r # s => phase'[r] = phase[r]
          BY <3>2 DEF RunStep, BeginAttempt, GiveUp, Succeed, Retry, RunOut, Fail, IInv, TypeOK
        <4> QED BY <4>1, <4>2 DEF Busy
      <3> QED BY <3>1, <3>2 DEF Next
    <2>2. Busy \in SUBSET Steps /\ Busy' \in SUBSET Steps
      BY DEF Busy
    <2>3. Cardinality(Busy) <= wf.concurrency
      BY DEF WaveBounded, Busy
    <2>4. Cardinality(Busy') <= Cardinality(Busy)
      BY <2>1, <2>2, StepSetsFinite, FS_Subset
    <2>5. Cardinality(Busy) \in Nat /\ Cardinality(Busy') \in Nat
      BY <2>2, StepSetsFinite
    <2>6. Cardinality(Busy') <= wf'.concurrency
      BY <1>1, <1>2, <2>3, <2>4, <2>5
    <2> QED BY <2>6 DEF WaveBounded, Busy
  <1> QED BY <1>3, <1>4

\* No more than `concurrency` steps run at a time.
THEOREM WaveCorrect == ParsedSpec => []WaveBounded
  <1>1. Init => WaveBounded
    <2> SUFFICES ASSUME Init PROVE WaveBounded
      OBVIOUS
    <2>1. {s \in Steps : phase[s] # "idle"} = {}
      BY DEF Init
    <2>2. TypeOK
      BY Initially DEF IInv
    <2>3. wf.concurrency \in 1..8
      BY <2>2, WorkflowAssumption DEF TypeOK, ValidWorkflow
    <2> QED BY <2>1, <2>3, FS_EmptySet DEF WaveBounded
  <1>2. ParsedInit => WaveBounded
    BY <1>1 DEF ParsedInit
  <1>3. Kept /\ WaveBounded /\ [ParsedNext]_parsedVars => WaveBounded'
    BY ParsedStep, BusyStep DEF Kept
  <1> QED BY <1>2, <1>3, Invariant, PTL DEF ParsedSpec
=============================================================================
