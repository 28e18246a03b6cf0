------------------------ MODULE RunnerSupervisorProofs ------------------------
(***************************************************************************)
(* Proofs about the desktop's runner supervisor, for any number of runner  *)
(* processes and of faults.                                                *)
(***************************************************************************)
EXTENDS RunnerSupervisor, TLAPS

-----------------------------------------------------------------------------
(* Types.                                                                  *)

\* The initial values have their types.
LEMMA TypeInit == Init => TypeOK
<1> SUFFICES ASSUME Init PROVE TypeOK
  OBVIOUS
<1>1. PICK first \in {"none", "bound", "dead"} :
        /\ proc = [p \in Procs |-> IF p = 1 THEN first ELSE "none"]
        /\ path = IF first = "none" THEN None ELSE 1
        /\ old \in IF first = "bound" THEN SUBSET {1} ELSE {{}}
  BY DEF Init
<1>2. 1 \in Procs
  BY SupervisorAssumption DEF Procs
<1>3. proc \in [Procs -> ProcState] /\ path \in Procs \cup {None} /\ old \in SUBSET Procs
  BY <1>1, <1>2 DEF ProcState
<1>4. faults \in 0..MaxFaults
  BY SupervisorAssumption DEF Init
<1>5. QED
  BY <1>3, <1>4 DEF Init, TypeOK

\* Every variable keeps its type.
THEOREM TypeCorrect == Spec => []TypeOK
<1>1. Init => TypeOK
  BY TypeInit
<1>2. TypeOK /\ [Next]_vars => TypeOK'
  <2> SUFFICES ASSUME TypeOK, [Next]_vars PROVE TypeOK'
    OBVIOUS
  <2> USE DEF TypeOK, Hunting, loopVars, callVars, huntVars, procVars
  <2>1. CASE UNCHANGED vars
    BY <2>1 DEF vars
  <2>2. CASE LoopStep
    <3>1. CASE StartAttempt
      BY <3>1 DEF StartAttempt
    <3>2. CASE Probe
      BY <3>2 DEF Probe, Listening
    <3>3. CASE Adopt
      BY <3>3 DEF Adopt
    <3>4. CASE Spawn
      BY <3>4 DEF Spawn, ProcState
    <3>5. CASE SocketIsUp
      BY <3>5 DEF SocketIsUp
    <3>6. CASE ChildExited
      BY <3>6 DEF ChildExited, GiveUpAttempt
    <3>7. CASE Attach
      BY <3>7 DEF Attach, Listening
    <3>8. CASE AttachFails
      BY <3>8 DEF AttachFails, GiveUpAttempt
    <3>9. CASE LinkDrops
      BY <3>9 DEF LinkDrops, Kill
    <3>10. CASE Retry
      BY <3>10 DEF Retry
    <3>11. CASE Mismatch
      BY <3>11 DEF Mismatch
    <3>12. CASE HuntFinds
      BY <3>12 DEF HuntFinds, Kill
    <3>13. CASE HuntMisses
      BY <3>13 DEF HuntMisses, AfterHunt
    <3>14. CASE HuntKills
      BY <3>14 DEF HuntKills, AfterHunt
    <3>15. CASE Sweep
      BY <3>15 DEF Sweep, AfterHunt
    <3>16. QED
      BY <2>2, <3>1, <3>2, <3>3, <3>4, <3>5, <3>6, <3>7, <3>8, <3>9, <3>10, <3>11, <3>12, <3>13,
         <3>14, <3>15 DEF LoopStep
  <2>3. CASE WaitTimesOut
    BY <2>3, SupervisorAssumption DEF WaitTimesOut, GiveUpAttempt, Fault
  <2>4. CASE Restart
    BY <2>4, SupervisorAssumption DEF Restart, Fault, Kill
  <2>5. CASE Stop
    <3>1. faults' \in 0..MaxFaults
      BY <2>5, SupervisorAssumption DEF Stop, Fault
    <3>2. missed' \in BOOLEAN /\ signalled' \in SUBSET Procs /\ child' \in Procs \cup {None}
      BY <2>5 DEF Stop, Kill
    <3>3. stop' \in {"terminating", "done"} /\ (stop' = "terminating" => dying' # None)
      BY <2>5 DEF Stop
    <3>4. QED
      BY <2>5, <3>1, <3>2, <3>3 DEF Stop
  <2>6. CASE StopSeesExit \/ StopGraceEnds
    <3>1. faults' \in 0..MaxFaults
      BY <2>6, SupervisorAssumption DEF StopSeesExit, StopGraceEnds, Fault
    <3>2. missed' \in BOOLEAN /\ killed' \in SUBSET Procs
      BY <2>6 DEF StopSeesExit, StopGraceEnds
    <3>3. QED
      BY <2>6, <3>1, <3>2 DEF StopSeesExit, StopGraceEnds
  <2>7. CASE Install
    BY <2>7 DEF Install
  <2>8. ASSUME NEW p \in Procs, StartForeign(p) \/ ProcStep(p) \/ Die(p) PROVE TypeOK'
    <3> USE DEF Becomes, ProcState
    <3>1. CASE StartForeign(p)
      BY <3>1, SupervisorAssumption DEF StartForeign, Fault
    <3>2. CASE ProbePath(p)
      BY <3>2 DEF ProbePath
    <3>3. CASE Reclaim(p)
      BY <3>3 DEF Reclaim
    <3>4. CASE Bind(p)
      BY <3>4 DEF Bind
    <3>5. CASE HandleSigterm(p)
      BY <3>5 DEF HandleSigterm
    <3>6. CASE Unlink(p)
      BY <3>6 DEF Unlink
    <3>7. CASE Die(p)
      BY <3>7, SupervisorAssumption DEF Die, Fault
    <3>8. CASE HandleSigkill(p)
      BY <3>8 DEF HandleSigkill
    <3>9. QED
      BY <2>8, <3>1, <3>2, <3>3, <3>4, <3>5, <3>6, <3>7, <3>8 DEF ProcStep, BootStep, StepDown
  <2>9. QED
    BY <2>1, <2>2, <2>3, <2>4, <2>5, <2>6, <2>7, <2>8 DEF Next
<1>3. QED
  BY <1>1, <1>2, PTL DEF Spec

-----------------------------------------------------------------------------
(* The invariant.                                                          *)

\* The children are the supervisor's own; runners of another protocol are
\* others'.
Kin ==
  /\ child \in spawned \cup {None} /\ dying \in spawned \cup {None}
  /\ old \cap spawned = {}
  /\ \A p \in old \cup spawned : proc[p] # "none"

\* On a workspace's path a runner of someone else was there from the start:
\* it listens or is dead, and it loses the path to the first child.
Alone ==
  workspace =>
    /\ ~adopt
    /\ \A p \in Procs \ spawned : proc[p] \in {"none", "bound", "dead"}
    /\ spawned # {} => path \in spawned \cup {None}
    /\ pc \in {"waiting", "attaching", "connected"} => spawned # {}
    /\ session # None => session \in spawned

\* Without a runner of another protocol there is no hunt.
Spare ==
  workspace \/ old = {} => pc \notin Hunting /\ signalled \cup killed \subseteq spawned

IInv == TypeOK /\ Kin /\ Alone /\ Spare /\ RemoteIsCurrent

\* A child is started from nothing, and so is a runner of others.
LEMMA KinStep == TypeOK /\ Kin /\ [Next]_vars => Kin'
<1> SUFFICES ASSUME TypeOK, Kin, [Next]_vars PROVE Kin'
  OBVIOUS
<1> USE DEF Kin, TypeOK, loopVars, callVars, huntVars, procVars
<1>1. CASE Spawn
  BY <1>1 DEF Spawn, Fresh
<1>2. CASE LoopStep /\ ~Spawn
  BY <1>2 DEF LoopStep, StartAttempt, Probe, Adopt, SocketIsUp, ChildExited, Attach, AttachFails,
              GiveUpAttempt, LinkDrops, Retry, Mismatch, HuntFinds, HuntMisses, HuntKills, Sweep
<1>3. CASE WaitTimesOut
  BY <1>3 DEF WaitTimesOut, GiveUpAttempt
<1>4. CASE Restart \/ Stop \/ StopSeesExit \/ StopGraceEnds \/ Install
  BY <1>4 DEF Restart, Stop, StopSeesExit, StopGraceEnds, Install
<1>5. ASSUME NEW p \in Procs, StartForeign(p) PROVE Kin'
  BY <1>5 DEF StartForeign, Fresh, Becomes
<1>6. ASSUME NEW p \in Procs, ProcStep(p) \/ Die(p) PROVE Kin'
  <2>1. UNCHANGED <<child, dying, old, spawned>>
    BY <1>6 DEF ProcStep, BootStep, StepDown, ProbePath, Reclaim, Bind, HandleSigterm,
                HandleSigkill, Unlink, Die, Becomes
  <2>2. \A q \in Procs : proc'[q] = "none" => proc[q] = "none"
    BY <1>6 DEF ProcStep, BootStep, StepDown, ProbePath, Reclaim, Bind, HandleSigterm,
                HandleSigkill, Unlink, Die, Becomes
  <2>3. QED
    BY <2>1, <2>2
<1>7. CASE UNCHANGED vars
  BY <1>7 DEF vars
<1>8. QED
  BY <1>1, <1>2, <1>3, <1>4, <1>5, <1>6, <1>7 DEF Next

\* A runner of another protocol answers on the shared path only.
LEMMA MismatchIsShared == Kin /\ Alone /\ Mismatch => ~workspace /\ old # {}
  BY DEF Kin, Alone, Mismatch, Listening

\* Outside of a hunt only children are signalled.
LEMMA SpareStep == TypeOK /\ Kin /\ Alone /\ Spare /\ [Next]_vars => Spare'
<1> SUFFICES ASSUME TypeOK, Kin, Alone, Spare, [Next]_vars PROVE Spare'
  OBVIOUS
<1> USE DEF Spare, Hunting, loopVars, callVars, huntVars, procVars
<1>1. CASE Mismatch
  BY <1>1, MismatchIsShared DEF Mismatch
<1>2. CASE HuntFinds \/ HuntMisses \/ HuntKills \/ Sweep
  BY <1>2 DEF HuntFinds, HuntMisses, HuntKills, Sweep
<1>3. CASE LinkDrops
  BY <1>3 DEF LinkDrops, Kill, Kin
<1>4. CASE StartAttempt \/ Probe \/ Adopt \/ Spawn \/ SocketIsUp \/ ChildExited \/ Attach
           \/ AttachFails \/ Retry
  BY <1>4 DEF StartAttempt, Probe, Adopt, Spawn, SocketIsUp, ChildExited, Attach, AttachFails,
              GiveUpAttempt, Retry
<1>5. CASE WaitTimesOut
  BY <1>5 DEF WaitTimesOut, GiveUpAttempt
<1>6. CASE Restart \/ StopSeesExit \/ StopGraceEnds \/ Install
  BY <1>6 DEF Restart, StopSeesExit, StopGraceEnds, Install, Kill, Kin, TypeOK
<1>7. CASE Stop
  BY <1>7 DEF Stop, Kill, Kin
<1>8. ASSUME NEW p \in Procs, StartForeign(p) \/ ProcStep(p) \/ Die(p) PROVE Spare'
  BY <1>8 DEF StartForeign, ProcStep, BootStep, StepDown, ProbePath, Reclaim, Bind, HandleSigterm,
              HandleSigkill, Unlink, Die, Becomes
<1>9. CASE UNCHANGED vars
  BY <1>9 DEF vars
<1>10. QED
  BY <1>1, <1>2, <1>3, <1>4, <1>5, <1>6, <1>7, <1>8, <1>9 DEF Next, LoopStep

\* A workspace's path stays with the runners started for it.
LEMMA AloneStep == TypeOK /\ Kin /\ Alone /\ Spare /\ [Next]_vars => Alone'
<1> SUFFICES ASSUME TypeOK, Kin, Alone, Spare, [Next]_vars, workspace' PROVE Alone'
  BY DEF Alone
<1> USE DEF loopVars, callVars, huntVars, procVars
<1>0. workspace
  BY DEF vars, Next, LoopStep, StartAttempt, Probe, Adopt, Spawn, SocketIsUp, ChildExited, Attach,
         AttachFails, GiveUpAttempt, LinkDrops, Retry, Mismatch, HuntFinds, HuntMisses, HuntKills,
         Sweep, WaitTimesOut, Restart, Stop, StopSeesExit, StopGraceEnds, Install, StartForeign,
         ProcStep, BootStep, StepDown, ProbePath, Reclaim, Bind, HandleSigterm, HandleSigkill, Unlink,
         Die, Becomes
<1>a. ~Mismatch /\ ~HuntFinds /\ ~HuntMisses /\ ~HuntKills /\ ~Sweep
  BY <1>0, MismatchIsShared DEF Spare, Hunting, HuntFinds, HuntMisses, HuntKills, Sweep
<1> USE <1>0 DEF Alone
<1>1. CASE LoopStep
  <2>1. CASE StartAttempt \/ Probe \/ Adopt \/ SocketIsUp \/ ChildExited \/ AttachFails \/ Retry
    <3>1. UNCHANGED <<proc, path, spawned, session>>
      BY <2>1 DEF StartAttempt, Probe, Adopt, SocketIsUp, ChildExited, AttachFails, GiveUpAttempt, Retry
    <3>2. ~adopt'
      BY <2>1 DEF StartAttempt, Probe, Adopt, SocketIsUp, ChildExited, AttachFails, GiveUpAttempt, Retry
    <3>3. pc' \in {"waiting", "attaching", "connected"} => pc \in {"waiting", "attaching", "connected"}
      BY <2>1 DEF StartAttempt, Probe, Adopt, SocketIsUp, ChildExited, AttachFails, GiveUpAttempt, Retry
    <3>4. QED
      BY <3>1, <3>2, <3>3
  <2>2. CASE Spawn
    <3>1. PICK p \in Procs : /\ proc[p] = "none"
                             /\ proc' = [proc EXCEPT ![p] = "booting"]
                             /\ spawned' = spawned \cup {p}
      BY <2>2 DEF Spawn, Fresh
    <3>2. /\ path' = None /\ UNCHANGED <<adopt, session>>
      BY <2>2 DEF Spawn
    <3>3. \A q \in Procs \ spawned' : proc'[q] = proc[q]
      BY <3>1 DEF TypeOK
    <3>4. QED
      BY <3>1, <3>2, <3>3
  <2>3. CASE Attach
    <3>1. path \in spawned
      BY <2>3 DEF Attach, Listening
    <3>2. QED
      BY <2>3, <3>1 DEF Attach
  <2>4. CASE LinkDrops
    BY <2>4 DEF LinkDrops
  <2>5. QED
    BY <1>1, <1>a, <2>1, <2>2, <2>3, <2>4 DEF LoopStep
<1>2. CASE WaitTimesOut
  BY <1>2 DEF WaitTimesOut, GiveUpAttempt
<1>3. CASE Restart \/ Stop \/ StopSeesExit \/ StopGraceEnds \/ Install
  BY <1>3 DEF Restart, Stop, StopSeesExit, StopGraceEnds, Install
<1>5. ASSUME NEW p \in Procs, StartForeign(p) \/ ProcStep(p) \/ Die(p) PROVE Alone'
  <2>0. UNCHANGED <<workspace, adopt, pc, session, spawned>>
    BY <1>5 DEF StartForeign, ProcStep, BootStep, StepDown, ProbePath, Reclaim, Bind,
                HandleSigterm, HandleSigkill, Unlink, Die, Becomes
  <2>1. ~StartForeign(p)
    BY DEF StartForeign
  <2>2. CASE ProbePath(p) \/ Reclaim(p) \/ Unlink(p)
    BY <2>0, <2>2 DEF ProbePath, Reclaim, Unlink, Becomes, TypeOK
  <2>3. CASE Bind(p)
    <3>1. p \in spawned
      BY <2>3 DEF Bind
    <3>2. QED
      BY <2>0, <2>3, <3>1 DEF Bind, Becomes, TypeOK
  <2>4. CASE HandleSigterm(p)
    <3>1. p \in spawned
      BY <2>4 DEF HandleSigterm, Spare
    <3>2. QED
      BY <2>0, <2>4, <3>1 DEF HandleSigterm, Becomes, TypeOK
  <2>5. CASE Die(p) \/ HandleSigkill(p)
    BY <2>0, <2>5 DEF Die, HandleSigkill, Becomes, TypeOK
  <2>6. QED
    BY <1>5, <2>1, <2>2, <2>3, <2>4, <2>5 DEF ProcStep, BootStep, StepDown
<1>6. CASE UNCHANGED vars
  BY <1>6 DEF vars
<1>7. QED
  BY <1>1, <1>2, <1>3, <1>5, <1>6 DEF Next

\* this.session is the session the loop waits on, or nothing.
LEMMA RemoteStep == TypeOK /\ RemoteIsCurrent /\ [Next]_vars => RemoteIsCurrent'
<1> SUFFICES ASSUME TypeOK, RemoteIsCurrent, [Next]_vars PROVE RemoteIsCurrent'
  OBVIOUS
<1> USE DEF RemoteIsCurrent, loopVars, callVars, huntVars, procVars
<1>1. CASE LoopStep
  BY <1>1 DEF LoopStep, StartAttempt, Probe, Adopt, Spawn, SocketIsUp, ChildExited, Attach,
              AttachFails, GiveUpAttempt, LinkDrops, Retry, Mismatch, HuntFinds, HuntMisses,
              HuntKills, Sweep
<1>2. CASE WaitTimesOut
  BY <1>2 DEF WaitTimesOut, GiveUpAttempt
<1>3. CASE Restart \/ Stop
  BY <1>3 DEF Restart, Stop
<1>4. CASE StopSeesExit \/ StopGraceEnds \/ Install
  BY <1>4 DEF StopSeesExit, StopGraceEnds, Install
<1>5. ASSUME NEW p \in Procs, StartForeign(p) \/ ProcStep(p) \/ Die(p) PROVE RemoteIsCurrent'
  BY <1>5 DEF StartForeign, ProcStep, BootStep, StepDown, ProbePath, Reclaim, Bind, HandleSigterm,
              HandleSigkill, Unlink, Die, Becomes
<1>6. CASE UNCHANGED vars
  BY <1>6 DEF vars
<1>7. QED
  BY <1>1, <1>2, <1>3, <1>4, <1>5, <1>6 DEF Next

\* The inductive invariant holds throughout.
THEOREM Invariant == Spec => []IInv
<1>1. Init => IInv
  <2> SUFFICES ASSUME Init PROVE IInv
    OBVIOUS
  <2>1. PICK first \in {"none", "bound", "dead"} :
          /\ proc = [p \in Procs |-> IF p = 1 THEN first ELSE "none"]
          /\ old \in IF first = "bound" THEN SUBSET {1} ELSE {{}}
    BY DEF Init
  <2>a. 1 \in Procs
    BY SupervisorAssumption DEF Procs
  <2>b. Kin
    BY <2>1, <2>a DEF Init, Kin
  <2>c. Spare /\ RemoteIsCurrent
    BY DEF Init, Spare, Hunting, RemoteIsCurrent
  <2>2. Alone
    BY DEF Init, Alone
  <2>3. QED
    BY <2>b, <2>c, <2>2, TypeInit DEF IInv
<1>2. IInv /\ [Next]_vars /\ TypeOK' => IInv'
  BY KinStep, AloneStep, SpareStep, RemoteStep DEF IInv
<1>3. QED
  BY <1>1, <1>2, TypeCorrect, PTL DEF Spec

-----------------------------------------------------------------------------
(* The results.                                                            *)

\* On a workspace's path the desktop never works in a runner it has not
\* started itself, whatever dies, restarts or is unlinked on the way.
THEOREM WorkspaceIsOwned == Spec => []OwnsWorkspace
<1>1. IInv => OwnsWorkspace
  BY DEF IInv, Alone, OwnsWorkspace
<1>2. QED
  BY <1>1, Invariant, PTL

\* remote() never hands out a closed or replaced session.
THEOREM RemoteCorrect == Spec => []RemoteIsCurrent
<1>1. IInv => RemoteIsCurrent
  BY DEF IInv
<1>2. QED
  BY <1>1, Invariant, PTL

\* No signal goes to a runner that others have started, on a workspace's path
\* and wherever no runner of another protocol has been met.
THEOREM OthersAreSpared == Spec => []SparesOthers
<1>1. IInv => SparesOthers
  BY DEF IInv, Spare, SparesOthers
<1>2. QED
  BY <1>1, Invariant, PTL
=============================================================================
