----------------------------- MODULE MCToolTurns -----------------------------
(* ToolTurn for TLC in four parts, one for each question that needs bounds   *)
(* of its own; all are smaller than the constants of the cfg, which the      *)
(* properties are read with.                                                 *)
EXTENDS MCToolChain

FirstTurn == CHOOSE t \in Turns : TRUE

\* Two turns at once, and a process that may die.
Beside == INSTANCE ToolTurn
  WITH Inputs <- OneInput, MaxIterations <- 1, MaxBatch <- 1, Compacts <- FALSE

\* One turn after the other, each with a response of two calls.
Batch == INSTANCE ToolTurn
  WITH MaxIterations <- 1, Concurrent <- FALSE, Compacts <- FALSE, Crashes <- FALSE

\* With compactions, short enough for liveness, and with a process that may die.
Live == INSTANCE ToolTurn
  WITH Inputs <- OneInput, MaxIterations <- 1, MaxBatch <- 1, Concurrent <- FALSE

TInit == Init /\ part \in {"beside", "batch", "chain", "live"}

\* Turns that follow one another are alike: which one is first is left out.
InTurn ==
  part \in {"batch", "chain"} /\ pc'[FirstTurn] = "idle" => \A t \in Turns : pc'[t] = "idle"

TNext ==
  /\ \/ part = "beside" /\ Beside!Next
     \/ part = "batch" /\ Batch!Next
     \/ part = "chain" /\ ChainNext
     \/ part = "live" /\ Live!Next
  /\ UNCHANGED part
  /\ InTurn

TSpec ==
  /\ TInit /\ [][TNext]_allVars
  /\ \A t \in Turns : WF_allVars(part = "live" /\ Live!TurnStep(t) /\ UNCHANGED part)

\* A turn comes to its end, or dies with its process.
LiveTurnEnds == \A t \in Turns : part = "live" /\ Running(t) ~> ~Running(t)
=============================================================================
