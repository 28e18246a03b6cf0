------------------------------ MODULE TaskGraph ------------------------------
(***************************************************************************)
(* What running a graph of tasks promises, without passes, waves, retries  *)
(* or signals: a task is settled once, after the tasks it needs; the run   *)
(* ends once, well only if no failure was left untolerated and badly only  *)
(* for such a failure.                                                     *)
(***************************************************************************)
CONSTANT Tasks

VARIABLES
  needs,     \* needs[t]: the tasks that come before t
  tolerated, \* the tasks that may fail
  status,    \* status[t]: "pending", or how it was settled
  result     \* "none", "ok" or "failed"

graphVars == <<needs, tolerated, status, result>>

Init ==
  /\ needs \in [Tasks -> SUBSET Tasks]
  /\ tolerated \in SUBSET Tasks
  /\ status = [t \in Tasks |-> "pending"]
  /\ result = "none"

Settle(t, how) ==
  /\ result = "none" /\ status[t] = "pending"
  /\ \A n \in needs[t] : status[n] # "pending"
  /\ status' = [status EXCEPT ![t] = how]
  /\ UNCHANGED <<needs, tolerated, result>>

Blamed == {t \in Tasks : status[t] = "failed"} \ tolerated

End ==
  /\ result = "none"
  /\ result' = IF Blamed = {} THEN "ok" ELSE "failed"
  /\ UNCHANGED <<needs, tolerated, status>>

Next ==
  \/ \E t \in Tasks, how \in {"completed", "skipped", "failed"} : Settle(t, how)
  \/ End

Spec == Init /\ [][Next]_graphVars
=============================================================================
