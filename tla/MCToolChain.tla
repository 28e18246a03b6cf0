----------------------------- MODULE MCToolChain -----------------------------
(* The behaviours of ToolTurn with one turn after the other, none of which   *)
(* dies, for what is sent to the provider.  They are one part of those that  *)
(* MCToolTurns gives to TLC; in its other parts anything goes.               *)
EXTENDS ToolTurn

VARIABLE part  \* which part

allVars == <<vars, part>>

OneInput == {CHOOSE x \in Inputs : TRUE}

\* Bound: one call in a response.
OneCall == \A t \in Turns : batch[t] = <<>> \/ batch[t] \in [{1} -> OneInput]

OneByOne == \A t, u \in Turns : Running(t) /\ Running(u) => t = u
NoneDied == \A t \in Turns : pc[t] # "crashed"

ChainNext == UNCHANGED part /\ (part = "chain" => Next /\ (OneCall /\ OneByOne /\ NoneDied)')

ChainSpec == Init /\ [][ChainNext]_allVars

\* What is about to be sent to the provider is a conversation it accepts, if
\* turns follow one another and none has died (see ToolTurn).
ChainIsWellFormed == part = "chain" => RequestIsWellFormed
=============================================================================
