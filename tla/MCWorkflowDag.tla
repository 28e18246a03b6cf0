---------------------------- MODULE MCWorkflowDag ----------------------------
(* Small workflows for TLC: all graphs of three steps with a few choices of  *)
(* what may fail, of conditions, retries and concurrency, and of plain       *)
(* workflows all orders of the needs, with cycles and with an unknown id.    *)
EXTENDS WorkflowSchema, SequencesExt

\* The lists of needs of one step: each step at most once, or an unknown id
\* (NoStep) after one of them.
StepLists == UNION {SetToSeqs(S) : S \in SUBSET Steps}
Lists == StepLists \cup {<<NoStep>>, <<1, NoStep>>}

Workflow(lists, tolerant, guarded, concurrency) ==
  [lists |-> lists,
   needs |-> [s \in Steps |-> {lists[s][i] : i \in DOMAIN lists[s]} \cap Steps],
   tolerant |-> tolerant, guarded |-> guarded,
   retries |-> [s \in Steps |-> IF s = 1 THEN 1 ELSE 0],
   concurrency |-> concurrency]

Plain == {Workflow(lists, {}, {}, 2) : lists \in [Steps -> Lists]}

\* Of a set of needs one order is enough where the executor is looked at: it
\* looks the needs up as a set.
Ordered == {list \in StepLists : \A i, j \in DOMAIN list : i < j => list[i] < list[j]}

Varied ==
  {w \in {Workflow(lists, tolerant, guarded, concurrency) :
            lists \in [Steps -> Ordered], tolerant \in {{}, {1}, {2, 3}},
            guarded \in {{}, {2}, Steps}, concurrency \in {1, 2}} :
     Acyclic(w.needs)}

MCWorkflows == Plain \cup Varied
=============================================================================
