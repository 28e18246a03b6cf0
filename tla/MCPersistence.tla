---------------------------- MODULE MCPersistence ----------------------------
(* Two instances of SessionPersistence for TLC: more lives with prompt hooks *)
(* and an unbroken log, and fewer with slow hooks, `/new` and index writes   *)
(* that overlap.  The disk may refuse a write in both.                       *)
EXTENDS SessionPersistence

Slow == INSTANCE SessionPersistence
  WITH MaxEvents <- 2, MaxLives <- 2, MaxIndex <- 2, AsyncHooks <- TRUE, Clears <- TRUE

VARIABLE slow  \* which of the two

PInit == Init /\ slow \in BOOLEAN
PNext == (IF slow THEN Slow!Next ELSE Next) /\ UNCHANGED slow

PSpec == PInit /\ [][PNext]_<<vars, slow>> /\ Fairness

\* With prompt hooks and no `/new`: the readable lines are in the order of
\* their events, and the log of a resumed session is one a client can read
\* (see SessionPersistence).
PromptLinesInOrder == ~slow => LinesInOrder
PromptReadable == ~slow => ReadableUnlessGarbled
=============================================================================
