---------------------------- MODULE WorkflowSchema ----------------------------
(***************************************************************************)
(* The executor behind the check of a workflow's graph when its file is    *)
(* parsed (packages/plugin-workflows/src/schema.ts): every id leads to a   *)
(* step, and findCycle, a depth-first search with three colours, finds no  *)
(* cycle.  Only what is accepted is run.  The recursion of visit is the    *)
(* stack, with a place in the list of each step on it.                     *)
(***************************************************************************)
EXTENDS WorkflowDag

VARIABLES
  colour,  \* state.get(id): "new" if there is none, "visiting" or "done"
  stack,   \* the path to the step that is visited
  place,   \* place[s]: where the loop over the needs of s is
  root,    \* where the loop over the steps is
  cycle    \* what was found

searchVars == <<colour, stack, place, root, cycle>>
parsedVars == <<vars, searchVars>>

SearchInit ==
  /\ colour = [s \in Steps |-> "new"]
  /\ stack = <<>>
  /\ place = [s \in Steps |-> 1]
  /\ root = 1
  /\ cycle = <<>>

-----------------------------------------------------------------------------
(* One call of visit, up to its loop.                                      *)

\* Seen before, or the id of no step, which is reported elsewhere.
Pass(id) ==
  /\ id \in Steps => colour[id] = "done"
  /\ UNCHANGED <<colour, stack, cycle>>

\* Mutant: a step counts as done as soon as it is seen.
EnterAsDone(id) ==
  /\ id \in Steps /\ colour[id] = "new"
  /\ colour' = [colour EXCEPT ![id] = "done"]
  /\ stack' = Append(stack, id)
  /\ UNCHANGED cycle

Enter(id) ==
  /\ id \in Steps /\ colour[id] = "new"
  /\ colour' = [colour EXCEPT ![id] = "visiting"]
  /\ stack' = Append(stack, id)
  /\ UNCHANGED cycle

\* The path leads back to itself.
Close(id) ==
  /\ id \in Steps /\ colour[id] = "visiting"
  /\ \E from \in DOMAIN stack :
       stack[from] = id /\ cycle' = Append(SubSeq(stack, from, Len(stack)), id)
  /\ UNCHANGED <<colour, stack>>

-----------------------------------------------------------------------------
Top == stack[Len(stack)]

NextRoot ==
  /\ stack = <<>> /\ cycle = <<>> /\ root <= NumSteps
  /\ Pass(root) \/ Enter(root)
  /\ root' = root + 1
  /\ UNCHANGED place

NextNeed ==
  /\ stack # <<>> /\ cycle = <<>> /\ place[Top] <= Len(wf.lists[Top])
  /\ LET id == wf.lists[Top][place[Top]] IN Pass(id) \/ Enter(id) \/ Close(id)
  /\ place' = [place EXCEPT ![Top] = @ + 1]
  /\ UNCHANGED root

Leave ==
  /\ stack # <<>> /\ cycle = <<>> /\ place[Top] > Len(wf.lists[Top])
  /\ colour' = [colour EXCEPT ![Top] = "done"]
  /\ stack' = SubSeq(stack, 1, Len(stack) - 1)
  /\ UNCHANGED <<place, root, cycle>>

Search == (NextRoot \/ NextNeed \/ Leave) /\ UNCHANGED vars

UnknownNeed == \E s \in Steps : \E i \in DOMAIN wf.lists[s] : wf.lists[s][i] \notin Steps

Searched == stack = <<>> /\ root > NumSteps

\* The two checks report independently; either rejects the workflow.
Accepted == Searched /\ cycle = <<>> /\ ~UnknownNeed
Rejected == cycle # <<>> \/ (Searched /\ UnknownNeed)

Run(step) == Accepted /\ step /\ UNCHANGED searchVars

ParsedInit == Init /\ SearchInit
ParsedNext == Search \/ Run(Next)
ParsedSpec == ParsedInit /\ [][ParsedNext]_parsedVars

\* The event loop runs what is ready, and an attempt ends: a tool answers, an
\* agent's turn is over.  Nobody owes an abort.
FairSpec ==
  /\ ParsedSpec
  /\ WF_parsedVars(Search) /\ WF_parsedVars(Run(LoopStep))
  /\ \A s \in Steps : WF_parsedVars(Run(RunStep(s)))

-----------------------------------------------------------------------------
(* Properties.                                                             *)

\* The search is exact, although it looks at no step twice: it comes to its
\* end just when there is no cycle.
SearchIsExact ==
  /\ cycle # <<>> => ~Acyclic(wf.needs)
  /\ Searched /\ cycle = <<>> => Acyclic(wf.needs)

Edge(s, d) == \E i \in DOMAIN wf.lists[s] : wf.lists[s][i] = d

\* What is reported as a cycle is one: no good workflow is turned away for it,
\* and the message names real needs.
ReportedIsCycle ==
  cycle # <<>> =>
    /\ Len(cycle) > 1 /\ cycle[1] = cycle[Len(cycle)]
    /\ \A i \in 1..(Len(cycle) - 1) : Edge(cycle[i], cycle[i + 1])

\* A workflow is rejected, or its run comes to an end if what its steps call
\* does.
RunEnds == <>(Rejected \/ at = "end")
=============================================================================
