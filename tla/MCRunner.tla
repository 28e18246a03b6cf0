------------------------------ MODULE MCRunner ------------------------------
(* A small instance of Runner for TLC; the sets are model values of the cfg. *)
EXTENDS Runner, TLC

Symmetry == Permutations(Clients) \cup Permutations(Turns)

\* Two clients with one turn or one client with two turns; both at once is
\* beyond what TLC can enumerate.
Small ==
  \/ \E c \in Clients : clt[c] = "none"
  \/ \E t \in Turns : turn[t] = "none" /\ call[t] = "none"
=============================================================================
