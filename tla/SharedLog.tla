------------------------------ MODULE SharedLog ------------------------------
(***************************************************************************)
(* What a shared session promises, without sockets, hooks or replays: one  *)
(* log that only grows, and for every reader a copy that is extended by    *)
(* the log's own next entry or started over, never anything else.          *)
(***************************************************************************)
EXTENDS Naturals, Sequences

CONSTANTS
  Readers,  \* who holds a copy
  Writers   \* who appends

VARIABLES log, mirror

Entry(w) == [seq |-> Len(log), turn |-> w]

Init ==
  /\ log = <<>>
  /\ mirror = [r \in Readers |-> <<>>]

Write(w) ==
  /\ log' = Append(log, Entry(w))
  /\ UNCHANGED mirror

Learn(r) ==
  /\ Len(mirror[r]) < Len(log)
  /\ mirror' = [mirror EXCEPT ![r] = Append(@, log[Len(@) + 1])]
  /\ UNCHANGED log

StartOver(r) ==
  /\ mirror' = [mirror EXCEPT ![r] = <<>>]
  /\ UNCHANGED log

Next ==
  \/ \E w \in Writers : Write(w)
  \/ \E r \in Readers : Learn(r) \/ StartOver(r)

Spec == Init /\ [][Next]_<<log, mirror>>
=============================================================================
