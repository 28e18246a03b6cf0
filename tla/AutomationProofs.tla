--------------------------- MODULE AutomationProofs ---------------------------
(***************************************************************************)
(* The properties of the components that module MCAutomation puts side by  *)
(* side, for every value of their bounds: which runs of workflows are in   *)
(* flight, that a process's poller runs a one-shot schedule once, and that *)
(* a schedule it deleted stays deleted until another process writes it     *)
(* back.                                                                   *)
(***************************************************************************)
EXTENDS MCAutomation, FiniteSetTheorems, NaturalsInduction, SequenceTheorems, TLAPS

-----------------------------------------------------------------------------
(***************************************************************************)
(* Triggers of workflows: the set of runs in flight has just the workflows *)
(* that a call runs, and no two calls run one of them.                     *)
(***************************************************************************)
\* The cardinality of the instance is that of the library.
LEMMA TrigCount == \A S : Trig!Cardinality(S) = Cardinality(S)
  BY DEF Trig!Cardinality, Cardinality

\* There are finitely many workflows.
LEMMA FlowsAreFinite == IsFiniteSet({w1, w2, w3})
  <1>1. IsFiniteSet({w1}) /\ IsFiniteSet({w2}) /\ IsFiniteSet({w3})
    BY FS_Singleton
  <1>2. IsFiniteSet({w2} \cup {w3})
    BY <1>1, FS_Union
  <1>3. IsFiniteSet({w1} \cup ({w2} \cup {w3}))
    BY <1>1, <1>2, FS_Union
  <1>4. {w1, w2, w3} = {w1} \cup ({w2} \cup {w3})
    OBVIOUS
  <1>5. ASSUME NEW S, NEW T, S = T, IsFiniteSet(T) PROVE IsFiniteSet(S)
    BY <1>5
  <1> QED BY <1>3, <1>4, <1>5

\* What a call under way is: it has something to run until it ends.
CallRecords ==
  [at : {"free", "get", "run", "deliver", "list"}, by : {"auto", "tool"},
   done : {w1, w2, w3} \cup {""}, todo : Seq({w1, w2, w3})]

\* Types of what the triggers keep; a call that is under way has something left
\* to do.
CallTypes ==
  /\ inFlight \subseteq {w1, w2, w3} /\ timers \subseteq {w1, w2, w3}
  /\ watched \subseteq {w1, w2, w3}
  /\ stored \subseteq {w1, w2, w3}
  /\ calls \in [Trig!Calls -> CallRecords]
  /\ \A i \in Trig!Calls : calls[i].at \in {"get"} \cup Trig!Running => calls[i].todo # <<>>

\* The call of c is a run that runNow started, of w.
RunOf(c, w) == c.at \in Trig!Running /\ c.by = "auto" /\ Head(c.todo) = w

\* The set of runs in flight has the workflows that run, and no two run.
Tracked ==
  \A w \in {w1, w2, w3} :
    /\ w \in inFlight <=> \E i \in Trig!Calls : RunOf(calls[i], w)
    /\ \A i, j \in Trig!Calls : RunOf(calls[i], w) /\ RunOf(calls[j], w) => i = j

\* The inductive invariant of the triggers.
TrigInv == CallTypes /\ Tracked

\* A list of the workflows that follow a completion.
LEMMA ListsAre ==
  ASSUME NEW S \in SUBSET {w1, w2, w3}, NEW todo \in Trig!SetToSeqs(S)
  PROVE  todo \in Seq({w1, w2, w3})
  <1>1. IsFiniteSet(S) /\ Cardinality(S) \in Nat
    BY FlowsAreFinite, FS_Subset, FS_CardinalityType
  <1>2. todo \in [1..Cardinality(S) -> S]
    BY TrigCount DEF Trig!SetToSeqs
  <1>3. todo \in [1..Cardinality(S) -> {w1, w2, w3}]
    BY <1>2
  <1> QED BY <1>1, <1>3

\* A call that is free is found.
LEMMA FreeIs ==
  ASSUME Trig!SomeCallFree
  PROVE  Trig!FreeCall \in Trig!Calls /\ calls[Trig!FreeCall].at = "free"
  BY DEF Trig!SomeCallFree, Trig!FreeCall

\* What the call is after the head of its list.
LEMMA AdvancedIs ==
  ASSUME NEW c \in CallRecords, c.todo # <<>>
  PROVE  /\ Trig!Advanced(c) \in CallRecords /\ Trig!Advanced(c).at \in {"free", "get"}
         /\ Trig!Advanced(c).at = "get" => Trig!Advanced(c).todo # <<>>
  <1>1. c.todo \in Seq({w1, w2, w3}) /\ Len(c.todo) \in Nat /\ Len(c.todo) # 0
    BY EmptySeq, LenProperties DEF CallRecords
  <1>2. CASE Len(c.todo) = 1
    <2>1. <<>> \in Seq({w1, w2, w3})
      OBVIOUS
    <2> QED BY <1>2, <2>1 DEF Trig!Advanced, Trig!NoCall, CallRecords
  <1>3. CASE Len(c.todo) # 1
    <2>1. /\ Tail(c.todo) \in Seq({w1, w2, w3}) /\ Len(Tail(c.todo)) = Len(c.todo) - 1
          /\ Tail(c.todo) # <<>>
      <3>1. Tail(c.todo) \in Seq({w1, w2, w3}) /\ Len(Tail(c.todo)) = Len(c.todo) - 1
        BY <1>1, HeadTailProperties
      <3>2. Len(Tail(c.todo)) # 0
        BY <1>1, <1>3, <3>1
      <3> QED BY <3>1, <3>2, EmptySeq, LenProperties
    <2>2. Trig!Advanced(c) = [c EXCEPT !.at = "get", !.todo = Tail(c.todo)]
      BY <1>3 DEF Trig!Advanced
    <2> QED BY <2>1, <2>2 DEF CallRecords
  <1> QED BY <1>2, <1>3

\* One call changes, to one that does not run.
LEMMA CallSettles ==
  ASSUME CallTypes, Tracked, NEW i \in Trig!Calls, NEW d \in CallRecords, calls' = [calls EXCEPT ![i] = d],
         d.at \notin Trig!Running, d.at = "get" => d.todo # <<>>, UNCHANGED stored,
         timers' \subseteq {w1, w2, w3}, watched' \subseteq {w1, w2, w3},
         \/ calls[i].by = "auto" /\ calls[i].at \in Trig!Running /\ inFlight' = inFlight \ {Head(calls[i].todo)}
         \/ (calls[i].by # "auto" \/ calls[i].at \notin Trig!Running) /\ UNCHANGED inFlight
  PROVE  CallTypes' /\ Tracked'
  <1>1. CallTypes'
    BY DEF CallTypes
  <1>2. \A j \in Trig!Calls : calls'[j] = IF j = i THEN d ELSE calls[j]
    BY DEF CallTypes
  <1>3. ASSUME NEW w \in {w1, w2, w3}, NEW j \in Trig!Calls
        PROVE  RunOf(calls'[j], w) <=> j # i /\ RunOf(calls[j], w)
    BY <1>2 DEF RunOf
  <1>4. ASSUME NEW w \in {w1, w2, w3}
        PROVE  w \in inFlight' <=> \E j \in Trig!Calls : j # i /\ RunOf(calls[j], w)
    BY DEF Tracked, RunOf
  <1> QED BY <1>1, <1>3, <1>4 DEF Tracked

\* A call that runs goes on running, or begins to.
LEMMA CallRuns ==
  ASSUME CallTypes, Tracked, NEW i \in Trig!Calls, NEW at \in Trig!Running,
         calls' = [calls EXCEPT ![i].at = at], UNCHANGED <<stored, timers, watched>>,
         \/ calls[i].at \in Trig!Running /\ UNCHANGED inFlight
         \/ /\ calls[i].at = "get"
            /\ calls[i].by = "auto" => Head(calls[i].todo) \notin inFlight
            /\ inFlight' = IF calls[i].by = "auto" THEN inFlight \cup {Head(calls[i].todo)} ELSE inFlight
  PROVE  CallTypes' /\ Tracked'
  <1>1. calls[i] \in CallRecords /\ calls[i].todo # <<>> /\ Head(calls[i].todo) \in {w1, w2, w3}
    <2>1. calls[i].at \in {"get"} \cup Trig!Running
      OBVIOUS
    <2>2. calls[i] \in CallRecords /\ calls[i].todo # <<>>
      BY <2>1 DEF CallTypes
    <2> QED BY <2>2, HeadTailProperties DEF CallRecords
  <1>2. /\ calls' \in [Trig!Calls -> CallRecords]
        /\ \A j \in Trig!Calls : calls'[j] = IF j = i THEN [calls[i] EXCEPT !.at = at] ELSE calls[j]
    BY <1>1 DEF CallTypes, CallRecords, Trig!Running
  <1>3. CallTypes'
    BY <1>1, <1>2 DEF CallTypes, CallRecords
  <1>4. ASSUME NEW w \in {w1, w2, w3}, NEW j \in Trig!Calls
        PROVE  RunOf(calls'[j], w) <=>
                 IF j = i THEN calls[i].by = "auto" /\ Head(calls[i].todo) = w ELSE RunOf(calls[j], w)
    BY <1>1, <1>2 DEF RunOf, CallRecords
  <1>5. CASE calls[i].at \in Trig!Running /\ UNCHANGED inFlight
    <2>1. ASSUME NEW w \in {w1, w2, w3}, NEW j \in Trig!Calls PROVE RunOf(calls'[j], w) <=> RunOf(calls[j], w)
      BY <1>4, <1>5 DEF RunOf
    <2> QED BY <1>3, <1>5, <2>1 DEF Tracked
  <1>6. CASE /\ calls[i].at = "get"
             /\ calls[i].by = "auto" => Head(calls[i].todo) \notin inFlight
             /\ inFlight' = IF calls[i].by = "auto" THEN inFlight \cup {Head(calls[i].todo)} ELSE inFlight
    <2>1. calls[i].at \notin Trig!Running
      BY <1>6 DEF Trig!Running
    <2>2. \A w \in {w1, w2, w3} : ~RunOf(calls[i], w)
      BY <2>1 DEF RunOf
    <2>3. ASSUME NEW w \in {w1, w2, w3}
          PROVE  w \in inFlight' <=>
                   w \in inFlight \/ (calls[i].by = "auto" /\ Head(calls[i].todo) = w)
      BY <1>6
    <2>4. ASSUME NEW w \in {w1, w2, w3} PROVE w \in inFlight' <=> \E j \in Trig!Calls : RunOf(calls'[j], w)
      <3>1. w \in inFlight <=> \E j \in Trig!Calls : RunOf(calls[j], w)
        BY DEF Tracked
      <3> QED BY <1>4, <2>2, <2>3, <3>1
    <2>5. ASSUME NEW w \in {w1, w2, w3}, NEW j \in Trig!Calls, NEW k \in Trig!Calls,
                 RunOf(calls'[j], w), RunOf(calls'[k], w)
          PROVE  j = k
      <3>1. CASE j = i \/ k = i
        <4>1. w \notin inFlight
          BY <1>4, <1>6, <2>5, <3>1
        <4>2. \A h \in Trig!Calls : ~RunOf(calls[h], w)
          BY <4>1 DEF Tracked
        <4> QED BY <1>4, <2>5, <4>2
      <3>2. CASE j # i /\ k # i
        BY <1>4, <2>5, <3>2 DEF Tracked
      <3> QED BY <3>1, <3>2
    <2> QED BY <1>3, <2>4, <2>5 DEF Tracked
  <1> QED BY <1>5, <1>6

\* A run completes, and the reaction to it is a call of its own.
LEMMA RunCompletes ==
  ASSUME TrigInv, NEW i \in Trig!Calls, Trig!Complete(i)
  PROVE  TrigInv'
  <1> DEFINE f == Trig!FreeCall
             d == [at |-> "list", by |-> "auto", done |-> Head(calls[i].todo), todo |-> <<>>]
  <1>1. /\ f \in Trig!Calls /\ calls[f].at = "free" /\ calls[i].at = "run" /\ f # i
        /\ calls' = [calls EXCEPT ![i].at = "deliver", ![f] = d]
        /\ UNCHANGED <<stored, inFlight, timers, watched>>
    BY FreeIs DEF Trig!Complete, Trig!triggers
  <1>2. calls[i] \in CallRecords /\ calls[i].todo # <<>> /\ calls \in [Trig!Calls -> CallRecords]
    BY <1>1 DEF TrigInv, CallTypes, Trig!Running
  <1>3. d \in CallRecords
    <2>1. calls[i].todo \in Seq({w1, w2, w3}) /\ calls[i].todo # <<>>
      BY <1>2 DEF CallRecords
    <2>2. Head(calls[i].todo) \in {w1, w2, w3} /\ <<>> \in Seq({w1, w2, w3})
      BY <2>1, HeadTailProperties
    <2> QED BY <2>2 DEF CallRecords
  <1>4. d.at = "list"
    OBVIOUS
  <1> HIDE DEF f, d
  <1>5. /\ calls' \in [Trig!Calls -> CallRecords]
        /\ \A j \in Trig!Calls : calls'[j] = IF j = f THEN d
                                             ELSE IF j = i THEN [calls[i] EXCEPT !.at = "deliver"] ELSE calls[j]
    BY <1>1, <1>2, <1>3 DEF CallRecords
  <1>6. CallTypes'
    BY <1>1, <1>2, <1>4, <1>5 DEF TrigInv, CallTypes, CallRecords, Trig!Running
  <1>7. ASSUME NEW w \in {w1, w2, w3}, NEW j \in Trig!Calls PROVE RunOf(calls'[j], w) <=> RunOf(calls[j], w)
    BY <1>1, <1>2, <1>4, <1>5 DEF RunOf, Trig!Running, CallRecords
  <1>8. Tracked'
    BY <1>1, <1>7 DEF TrigInv, Tracked
  <1> QED BY <1>6, <1>8 DEF TrigInv

\* The invariant holds at the start ...
LEMMA TrigBegins == Trig!Init => TrigInv
  <1> SUFFICES ASSUME Trig!Init PROVE TrigInv
    OBVIOUS
  <1>1. Trig!NoCall \in CallRecords /\ Trig!NoCall.at = "free"
    BY EmptySeq DEF Trig!NoCall, CallRecords
  <1>2. /\ calls = [i \in Trig!Calls |-> Trig!NoCall] /\ inFlight = {} /\ timers = {}
        /\ watched = {} /\ stored = {w1, w2, w3}
    BY DEF Trig!Init
  <1> QED BY <1>1, <1>2 DEF TrigInv, CallTypes, Tracked, RunOf, Trig!Running

\* ... and every step keeps it.
LEMMA TrigInductive == TrigInv /\ [Trig!Next]_Trig!vars => TrigInv'
  <1> SUFFICES ASSUME TrigInv, [Trig!Next]_Trig!vars PROVE TrigInv'
    OBVIOUS
  <1> USE DEF Trig!triggers
  <1>0. CallTypes /\ Tracked /\ calls \in [Trig!Calls -> CallRecords]
    BY DEF TrigInv, CallTypes
  <1>a. \A i \in Trig!Calls : calls[i] \in CallRecords
    BY <1>0
  <1>b. ASSUME NEW w \in {w1, w2, w3}, NEW by \in {"auto", "tool"}
        PROVE  Trig!Wanted(by, w) \in CallRecords /\ Trig!Wanted(by, w).at = "get" /\ Trig!Wanted(by, w).todo # <<>>
    BY DEF Trig!Wanted, CallRecords
  <1>1. ASSUME NEW i \in Trig!Calls, Trig!Begin(i) PROVE TrigInv'
    BY <1>0, <1>1, CallRuns DEF Trig!Begin, TrigInv, Trig!Running
  <1>2. ASSUME NEW i \in Trig!Calls, Trig!Refuse(i) PROVE TrigInv'
    <2>1. /\ calls[i].at = "get" /\ calls' = [calls EXCEPT ![i] = Trig!Advanced(calls[i])]
          /\ UNCHANGED <<stored, inFlight, timers, watched>> /\ calls[i].todo # <<>>
      BY <1>0, <1>2 DEF Trig!Refuse, CallTypes
    <2>2. /\ Trig!Advanced(calls[i]) \in CallRecords
          /\ Trig!Advanced(calls[i]).at \in {"free", "get"}
          /\ Trig!Advanced(calls[i]).at = "get" => Trig!Advanced(calls[i]).todo # <<>>
      BY <1>a, <2>1, AdvancedIs
    <2> QED BY <1>0, <2>1, <2>2, CallSettles DEF TrigInv, Trig!Running, CallTypes
  <1>3. ASSUME NEW i \in Trig!Calls, Trig!Fail(i) PROVE TrigInv'
    BY <1>0, <1>3, CallRuns DEF Trig!Fail, TrigInv, Trig!Running
  <1>4. ASSUME NEW i \in Trig!Calls, NEW ok \in BOOLEAN, Trig!End(i, ok) PROVE TrigInv'
    <2>1. /\ calls[i].at \in Trig!Running /\ calls' = [calls EXCEPT ![i] = Trig!Advanced(calls[i])]
          /\ UNCHANGED <<stored, timers, watched>> /\ calls[i].todo # <<>>
          /\ inFlight' = IF calls[i].by = "auto" THEN inFlight \ {Head(calls[i].todo)} ELSE inFlight
      BY <1>0, <1>4 DEF Trig!End, CallTypes, Trig!Running
    <2>2. /\ Trig!Advanced(calls[i]) \in CallRecords
          /\ Trig!Advanced(calls[i]).at \in {"free", "get"}
          /\ Trig!Advanced(calls[i]).at = "get" => Trig!Advanced(calls[i]).todo # <<>>
      BY <1>a, <2>1, AdvancedIs
    <2> QED BY <1>0, <2>1, <2>2, CallSettles DEF TrigInv, Trig!Running, CallTypes
  <1>5. ASSUME NEW i \in Trig!Calls, Trig!List(i) PROVE TrigInv'
    <2> DEFINE S == {w \in {w1, w2, w3} : Trig!Follows(w, calls[i].done)}
    <2>1. PICK todo \in Trig!SetToSeqs(S) :
            /\ calls[i].at = "list" /\ UNCHANGED <<stored, inFlight, timers, watched>>
            /\ calls' = [calls EXCEPT ![i] =
                 IF todo = <<>> THEN Trig!NoCall ELSE [Trig!Wanted("auto", todo[1]) EXCEPT !.todo = todo]]
      BY <1>5 DEF Trig!List
    <2>2. todo \in Seq({w1, w2, w3})
      BY <2>1, ListsAre
    <2> DEFINE d == IF todo = <<>> THEN Trig!NoCall ELSE [Trig!Wanted("auto", todo[1]) EXCEPT !.todo = todo]
    <2>3. d \in CallRecords /\ d.at \in {"free", "get"} /\ (d.at = "get" => d.todo # <<>>)
      <3>1. CASE todo = <<>>
        BY <2>2, <3>1 DEF Trig!NoCall, CallRecords
      <3>2. CASE todo # <<>>
        <4>1. d = [at |-> "get", by |-> "auto", done |-> "", todo |-> todo]
          BY <3>2 DEF Trig!Wanted
        <4> QED BY <2>2, <3>2, <4>1 DEF CallRecords
      <3> QED BY <3>1, <3>2
    <2>4. calls' = [calls EXCEPT ![i] = d]
      BY <2>1
    <2> HIDE DEF d
    <2> QED BY <1>0, <2>1, <2>3, <2>4, CallSettles DEF TrigInv, Trig!Running, CallTypes
  <1>6. ASSUME NEW w \in {w1, w2, w3}, NEW by \in {"auto", "tool"}, Trig!Ask(by, w) PROVE TrigInv'
    <2>1. /\ Trig!FreeCall \in Trig!Calls /\ calls[Trig!FreeCall].at = "free"
          /\ calls' = [calls EXCEPT ![Trig!FreeCall] = Trig!Wanted(by, w)]
          /\ UNCHANGED <<stored, inFlight, timers, watched>>
      BY <1>6, FreeIs DEF Trig!Ask
    <2> QED BY <1>0, <1>b, <2>1, CallSettles DEF TrigInv, Trig!Running, CallTypes
  <1>7. ASSUME NEW w \in {w1, w2, w3}, Trig!TimerFires(w) PROVE TrigInv'
    <2>1. /\ Trig!FreeCall \in Trig!Calls /\ calls[Trig!FreeCall].at = "free"
          /\ calls' = [calls EXCEPT ![Trig!FreeCall] = Trig!Wanted("auto", w)]
          /\ UNCHANGED <<stored, inFlight, watched>> /\ timers' = timers \ {w}
      BY <1>7, FreeIs DEF Trig!TimerFires
    <2> QED BY <1>0, <1>b, <2>1, CallSettles DEF TrigInv, Trig!Running, CallTypes
  <1>8. ASSUME UNCHANGED <<calls, inFlight>>, timers' \subseteq {w1, w2, w3},
               watched' \subseteq {w1, w2, w3}, stored' \subseteq {w1, w2, w3}
        PROVE  TrigInv'
    BY <1>8 DEF TrigInv, CallTypes, Tracked
  <1>9. ASSUME NEW w \in {w1, w2, w3}, Trig!FileChanges(w) PROVE TrigInv'
    BY <1>8, <1>9 DEF Trig!FileChanges, TrigInv, CallTypes
  <1>10. ASSUME NEW w \in {w1, w2, w3}, NEW there \in BOOLEAN, NEW on \in BOOLEAN, Trig!Change(w, there, on)
         PROVE  TrigInv'
    BY <1>8, <1>10 DEF Trig!Change, TrigInv, CallTypes
  <1>11. ASSUME NEW who \in {"boot", "user"}, Trig!SyncEnds(who) \/ \E w \in {w1, w2, w3} : Trig!SyncOne(who, w)
         PROVE  TrigInv'
    BY <1>8, <1>11 DEF Trig!SyncEnds, Trig!SyncOne, TrigInv, CallTypes
  <1>12. CASE Trig!startFileWatchers
    BY <1>8, <1>12 DEF Trig!startFileWatchers, TrigInv, CallTypes
  <1>13. CASE UNCHANGED Trig!vars
    BY <1>8, <1>13 DEF Trig!vars, TrigInv, CallTypes
  <1> QED BY <1>1, <1>2, <1>3, <1>4, <1>5, <1>6, <1>7, <1>9, <1>10, <1>11, <1>12, <1>13,
             RunCompletes
          DEF Trig!Next, Trig!Works

\* What the invariant is for.
LEMMA TrackedIsExact ==
  ASSUME TrigInv PROVE Trig!InFlightIsExact
  <1> DEFINE R(w) == {i \in Trig!Calls : /\ calls[i].at \in Trig!Running /\ calls[i].by = "auto"
                                   /\ Head(calls[i].todo) = w}
  <1>1. ASSUME NEW w \in {w1, w2, w3} PROVE Cardinality(R(w)) = IF w \in inFlight THEN 1 ELSE 0
    <2>1. R(w) = {i \in Trig!Calls : RunOf(calls[i], w)}
      BY DEF RunOf
    <2>2. CASE w \in inFlight
      <3>1. PICK i \in Trig!Calls : RunOf(calls[i], w)
        BY <2>2 DEF TrigInv, Tracked
      <3>2. R(w) = {i}
        BY <2>1, <3>1 DEF TrigInv, Tracked
      <3> QED BY <2>2, <3>2, FS_Singleton
    <2>3. CASE w \notin inFlight
      <3>1. R(w) = {}
        BY <2>1, <2>3 DEF TrigInv, Tracked
      <3> QED BY <2>3, <3>1, FS_EmptySet
    <2> QED BY <2>2, <2>3
  <1> QED BY <1>1, TrigCount DEF Trig!InFlightIsExact

\* A step of a behaviour of the triggers is one of their own.
LEMMA TrigSteps ==
  ASSUME [ANext]_allVars, part' = "workflow"
  PROVE  part = "workflow" /\ [Trig!Next]_Trig!vars
  BY DEF ANext, OfSchedule, OfDue, OfWorkflow, allVars, trigVars, Trig!vars, Trig!triggers

\* The invariant holds where they run.
LEMMA TriggersInv == ASpec => [](part = "workflow" => TrigInv)
  <1>1. AInit => (part = "workflow" => TrigInv)
    BY TrigBegins DEF AInit
  <1>2. (part = "workflow" => TrigInv) /\ [ANext]_allVars => (part = "workflow" => TrigInv)'
    BY TrigSteps, TrigInductive
  <1> QED BY <1>1, <1>2, PTL DEF ASpec

\* inFlightWorkflows: a workflow is in the set just while one call runs it, so a
\* completion that comes while it runs does not start it beside itself, and one
\* that comes after does.
THEOREM InFlightIsExactCorrect == ASpec => []InFlightIsExact
  <1>1. (part = "workflow" => TrigInv) => InFlightIsExact
    BY TrackedIsExact DEF InFlightIsExact
  <1> QED BY <1>1, TriggersInv, PTL

-----------------------------------------------------------------------------
(***************************************************************************)
(* Schedules: numbers of entries and their order.                          *)
(***************************************************************************)
\* A set of numbers has a least one, and a bounded one a greatest.
LEMMA LeastNumber ==
  ASSUME NEW T \in SUBSET Nat, T # {}
  PROVE  \E x \in T : \A y \in T : x <= y
  <1>1. IsWellFoundedOn(OpToRel(<, Nat), Nat)
    BY NatLessThanWellFounded
  <1>2. PICK x \in T : \A y \in T : ~(<<y, x>> \in OpToRel(<, Nat))
    BY <1>1, WFMin
  <1>3. ASSUME NEW y \in T PROVE x <= y
    <2>1. ~(y < x)
      BY <1>2 DEF OpToRel
    <2> QED BY <2>1
  <1> QED BY <1>3

\* A set of numbers up to n has a greatest one.
LEMMA Greatest ==
  ASSUME NEW n \in Nat, NEW T \in SUBSET (1..n), T # {}
  PROVE  \E x \in T : \A y \in T : y <= x
  <1> DEFINE U == {n - x : x \in T}
  <1>1. U \in SUBSET Nat /\ U # {}
    <2>1. \A x \in T : x \in Nat /\ x <= n /\ n - x \in Nat
      OBVIOUS
    <2> QED BY <2>1
  <1> HIDE DEF U
  <1>2. PICK u \in U : \A y \in U : u <= y
    BY <1>1, LeastNumber
  <1>3. PICK x \in T : u = n - x
    BY <1>2 DEF U
  <1>4. ASSUME NEW y \in T PROVE y <= x
    <2>1. n - y \in U
      BY DEF U
    <2>2. n - x <= n - y
      BY <1>2, <1>3, <2>1
    <2> QED BY <1>3, <2>2
  <1> QED BY <1>4

\* For each n up to the size of a set of numbers, one of them is the n-th.
LEMMA Ranked ==
  ASSUME NEW m \in Nat, NEW S \in SUBSET (1..m), NEW n \in 1..Cardinality(S)
  PROVE  \E i \in S : Cardinality({j \in S : j <= i}) = n
  <1> DEFINE Upto(i) == {j \in S : j <= i}
             T == {i \in S : Cardinality(Upto(i)) >= n}
  <1>1. IsFiniteSet(S) /\ Cardinality(S) \in Nat /\ S \subseteq Nat
    <2>1. IsFiniteSet(1..m)
      BY FS_Interval
    <2>2. IsFiniteSet(S)
      BY <2>1, FS_Subset
    <2> QED BY <2>2, FS_CardinalityType
  <1>2. \A B \in SUBSET S : IsFiniteSet(B) /\ Cardinality(B) \in Nat
    BY <1>1, FS_Subset, FS_CardinalityType
  <1>3. ASSUME NEW B \in SUBSET S, B # {}
        PROVE  \E g \in B : \A j \in B : j <= g
    BY <1>3, Greatest
  <1>4. S # {}
    BY FS_EmptySet
  <1>5. T # {} /\ T \subseteq Nat
    <2>1. PICK g \in S : \A j \in S : j <= g
      BY <1>3, <1>4
    <2>2. Upto(g) = S
      BY <2>1
    <2>3. Cardinality(Upto(g)) >= n
      BY <1>1, <2>2
    <2>4. g \in T
      BY <2>3
    <2> QED BY <1>1, <2>4
  <1>6. PICK i \in T : \A j \in T : i <= j
    BY <1>5, LeastNumber
  <1> DEFINE B == {j \in S : j < i}
  <1>7. i \in S /\ Cardinality(Upto(i)) >= n /\ i \in Nat
    BY <1>1, <1>6
  <1>8. Upto(i) = B \cup {i} /\ i \notin B
    <2>1. \A j \in S : j <= i <=> (j < i \/ j = i)
      BY <1>1, <1>7
    <2>2. i \in S /\ i \in Nat
      BY <1>7
    <2>3. \A j : j \in Upto(i) <=> j \in B \cup {i}
      BY <2>1, <2>2
    <2>4. Upto(i) = B \cup {i}
      BY ONLY <2>3
    <2>5. i \notin B
      BY ONLY <2>2
    <2> QED BY <2>4, <2>5
  <1>9. Cardinality(Upto(i)) = Cardinality(B) + 1 /\ Cardinality(B) \in Nat
    BY <1>2, <1>8, FS_AddElement
  <1>10. ~(Cardinality(B) >= n)
    <2> SUFFICES ASSUME Cardinality(B) >= n PROVE FALSE
      OBVIOUS
    <2>1. B # {}
      BY FS_EmptySet
    <2>2. PICK g \in B : \A j \in B : j <= g
      BY <1>3, <2>1
    <2>3. Upto(g) = B
      <3>1. g \in S /\ g < i /\ g \in Nat
        BY <1>1, <2>2
      <3>2. \A j \in S : j <= g <=> j < i
        BY <1>1, <1>7, <2>2, <3>1
      <3> QED BY <3>2
    <2>4. Cardinality(Upto(g)) >= n
      BY <2>3
    <2>5. g \in T /\ g < i /\ g \in Nat
      BY <1>1, <2>2, <2>4
    <2> QED BY <1>6, <1>7, <2>5
  <1>11. Cardinality(Upto(i)) = n
    BY <1>7, <1>9, <1>10
  <1> QED BY <1>7, <1>11

-----------------------------------------------------------------------------
(***************************************************************************)
(* Schedules: what the file, the cache, the queue and the runs have of an entry *)
(* is of one kind and one owner; a one-shot of a user that is enabled and not *)
(* running has not been run; what is removed is nowhere made again.        *)
(***************************************************************************)
\* Entries, drafts and the mutations of the store.
Entries == [cron : BOOLEAN, runAt : Nat, enabled : BOOLEAN, createdAt : Nat,
            lastRunAt : Nat \cup {Sched!Never}, skill : Skills \cup {NoSkill}]
\* What a user or a skill writes of an entry, and what the end of a run does.
DraftRecords == [cron : BOOLEAN, runAt : Nat, enabled : BOOLEAN]
Outcomes == [lastRunAt : Nat] \cup [lastRunAt : Nat, enabled : {FALSE}]
\* The mutations of the store, by who asks for them.
SyncMutations ==
  [by : {"sync"}, op : {"create"}, id : Nat, with : [cron : BOOLEAN, runAt : Nat, enabled : BOOLEAN, createdAt : Nat,
            lastRunAt : {Sched!Never}, skill : Skills]]
  \cup [by : {"sync"}, op : {"update"}, id : Nat, with : DraftRecords]
  \cup [by : {"sync"}, op : {"delete"}, id : Nat, with : {<<>>}]
UserMutations ==
  [by : {"user"}, op : {"create"}, id : Nat, with : Entries]
  \cup [by : {"user"}, op : {"update"}, id : Nat, with : [enabled : BOOLEAN]]
  \cup [by : {"user"}, op : {"delete"}, id : Nat, with : {<<>>}]
RunMutations == [by : {"poller", "hand"}, op : {"update"}, id : Nat, with : Outcomes]
Mutations == SyncMutations \cup UserMutations \cup RunMutations
\* A run is of an entry as it was read.
Runs == [id : Nat \ {0}, entry : Entries]

\* Entries under numbers that were given out.
IsStore(c) == DOMAIN c \subseteq 1..made /\ \A i \in DOMAIN c : c[i] \in Entries

\* Types of what the scheduler and its process P keep.
SchedTypes(P) ==
  /\ DOMAIN life = Procs /\ DOMAIN cache = Procs /\ DOMAIN jobs = Procs
  /\ DOMAIN applied = Procs /\ DOMAIN tick = Procs /\ DOMAIN hand = Procs
  /\ DOMAIN sync = Procs /\ DOMAIN shots = Procs /\ DOMAIN gone = Procs
  /\ now \in Nat /\ made \in 0..MaxEntries /\ gone[P] \subseteq Nat
  /\ shots[P] \in [Sched!Ids -> 0..2]
  /\ IsStore(file) /\ IsStore(cache[P])
  /\ skill \in [Skills -> DraftRecords]
  /\ life[P] \in {"down", "booting", "up", "stopping"}
  /\ jobs[P] \in Seq(Mutations) /\ applied[P] \in BOOLEAN
  /\ tick[P] \in [pc : {"off", "idle", "next", "run", "record"}, todo : Seq(Runs)]
  /\ hand[P] \in Runs \cup {Sched!NoRun}
  /\ sync[P] \subseteq SyncMutations

\* An entry that something of process p has under an id: the cache, a tick, a run
\* by hand, or a mutation that will make it.
Has(p, i, e) ==
  \/ i \in DOMAIN cache[p] /\ e = cache[p][i]
  \/ \E n \in DOMAIN tick[p].todo : tick[p].todo[n].id = i /\ tick[p].todo[n].entry = e
  \/ hand[p] # Sched!NoRun /\ hand[p].id = i /\ hand[p].entry = e
  \/ \E n \in DOMAIN jobs[p] : jobs[p][n].op = "create" /\ jobs[p][n].id = i /\ jobs[p][n].with = e
\* An entry that the file or a process has under an id.
Known(i, e) ==
  \/ i \in DOMAIN file /\ e = file[i]
  \/ \E p \in Procs : Has(p, i, e)

\* All ids are of entries that were made.
Numbered(P) ==
  /\ \A i, e : Known(i, e) => i \in 1..made
  /\ \A n \in DOMAIN jobs[P] : jobs[P][n].id \in 1..made
  /\ \A job \in sync[P] : job.op # "create" => job.id \in 1..made
  /\ \A i \in Sched!Ids : i > made => shots[P][i] = 0

\* Whose an entry is never changes, nor what kind one of a user is.
Alike(e, f) == e.skill = f.skill /\ (e.skill = NoSkill => e.cron = f.cron)
\* All that is known under an id is alike.
AllAlike == \A i, e, f : Known(i, e) /\ Known(i, f) => Alike(e, f)

\* A reconciliation updates rows of skills only.
Skilled(job) ==
  job.by = "sync" /\ job.op = "update" => \A e : Known(job.id, e) => e.skill # NoSkill
\* All that reconciliations have planned and queued is so.
SyncIsSkilled(P) ==
  /\ \A job \in sync[P] : Skilled(job)
  /\ \A n \in DOMAIN jobs[P] : Skilled(jobs[P][n])

\* What is removed is not made again.
Removed(P) ==
  /\ gone[P] \cap (DOMAIN file \cup DOMAIN cache[P]) = {} /\ gone[P] \subseteq 1..made
  /\ applied[P] /\ Head(jobs[P]).op = "delete" => Head(jobs[P]).id \notin DOMAIN cache[P]
  /\ \A n \in DOMAIN jobs[P] : jobs[P][n].op = "create" =>
       /\ jobs[P][n].id \notin gone[P]
       /\ \A m \in DOMAIN jobs[P] : m < n => jobs[P][m].id # jobs[P][n].id

\* The poller's walk, and the mutation that records the run of its head.
Walking(P) ==
  /\ applied[P] => jobs[P] # <<>>
  /\ tick[P].pc \in {"next", "run", "record"} => tick[P].todo # <<>>
  /\ \A m, n \in DOMAIN tick[P].todo : tick[P].todo[m].id = tick[P].todo[n].id => m = n
  /\ \A n \in DOMAIN jobs[P] : jobs[P][n].by = "poller" =>
       LET run == Head(tick[P].todo) IN
       /\ tick[P].pc = "record" /\ jobs[P][n].id = run.id
       /\ run.entry.cron \/ jobs[P][n].with \in [lastRunAt : Nat, enabled : {FALSE}]
  /\ \A m, n \in DOMAIN jobs[P] : jobs[P][m].by = "poller" /\ jobs[P][n].by = "poller" => m = n
  /\ life[P] = "booting" => tick[P].pc = "off"
  /\ life[P] = "down" =>
       /\ cache[P] = <<>> /\ jobs[P] = <<>> /\ ~applied[P] /\ sync[P] = {}
       /\ tick[P] = Sched!OffTick /\ hand[P] = Sched!NoRun

\* A one-shot of a user.
OneShot(e) == ~e.cron /\ e.skill = NoSkill

\* The head of the walk is run and its outcome is not in the cache.
Running(P, i) ==
  /\ tick[P].pc \in {"run", "record"} /\ Head(tick[P].todo).id = i
  /\ ~(tick[P].pc = "record" /\ applied[P] /\ Head(jobs[P]).by = "poller")

\* A one-shot of a user has been run once at most, and while it is enabled and
\* not running, or waits in the walk, not at all.
Once(P) ==
  /\ \A i, e : Known(i, e) /\ OneShot(e) => shots[P][i] <= 1
  /\ \A i \in DOMAIN cache[P] :
       OneShot(cache[P][i]) /\ cache[P][i].enabled /\ ~Running(P, i) => shots[P][i] = 0
  /\ \A n \in DOMAIN tick[P].todo :
       OneShot(tick[P].todo[n].entry) /\ (n > 1 \/ tick[P].pc = "next") => shots[P][tick[P].todo[n].id] = 0

\* The inductive invariant of the scheduler, for its process P.
SchedInv(P) ==
  /\ SchedTypes(P) /\ Numbered(P) /\ AllAlike /\ SyncIsSkilled(P) /\ Removed(P)
  /\ Walking(P) /\ Once(P)

\* The step of a process P leaves what the others have as it is; of what they
\* removed it may put something back into the file.
Others(P) ==
  \A q \in Procs \ {P} :
    /\ life'[q] = life[q] /\ cache'[q] = cache[q] /\ jobs'[q] = jobs[q] /\ applied'[q] = applied[q]
    /\ tick'[q] = tick[q] /\ hand'[q] = hand[q] /\ sync'[q] = sync[q] /\ shots'[q] = shots[q]
    /\ gone'[q] \subseteq gone[q] /\ (file' = file \/ gone'[q] \cap DOMAIN file' = {})

\* What is known under the ids given out before the step is like what was known.
Kept == \A i \in 1..made : \A e : Known(i, e)' => \E f : Known(i, f) /\ Alike(f, e)

\* What is known after a step of P.
LEMMA KnownThen ==
  ASSUME NEW P, P \in Procs, Others(P), NEW i, NEW e, Known(i, e)'
  PROVE  (i \in DOMAIN file' /\ e = file'[i]) \/ Has(P, i, e)' \/ Known(i, e)
  <1>1. CASE i \in DOMAIN file' /\ e = file'[i]
    BY <1>1
  <1>2. CASE \E q \in Procs : Has(q, i, e)'
    <2>1. PICK q \in Procs : Has(q, i, e)'
      BY <1>2
    <2>2. CASE q # P
      <3>1. /\ cache'[q] = cache[q] /\ tick'[q] = tick[q] /\ hand'[q] = hand[q]
            /\ jobs'[q] = jobs[q]
        BY <2>2 DEF Others
      <3>2. Has(q, i, e)
        BY <2>1, <3>1 DEF Has
      <3> QED BY <3>2 DEF Known
    <2> QED BY <2>1, <2>2
  <1> QED BY <1>1, <1>2 DEF Known

\* If P and the file have nothing new, nothing new is known.
LEMMA NothingNew ==
  ASSUME NEW P, P \in Procs, Others(P),
         \A i, e : (i \in DOMAIN file' /\ e = file'[i]) \/ Has(P, i, e)' => Known(i, e)
  PROVE  (\A i, e : Known(i, e)' => Known(i, e)) /\ Kept
  <1>1. \A i, e : Known(i, e)' => Known(i, e)
    BY KnownThen
  <1>2. \A e : Alike(e, e)
    BY DEF Alike
  <1> QED BY <1>1, <1>2 DEF Kept

\* What a patch makes of an entry.
LEMMA PatchedIs ==
  ASSUME NEW e \in Entries, NEW w \in [enabled : BOOLEAN] \cup DraftRecords \cup Outcomes
  PROVE  /\ Sched!Patched(e, w) \in Entries /\ Sched!Patched(e, w).skill = e.skill
         /\ w \notin DraftRecords => Sched!Patched(e, w).cron = e.cron
         /\ w \in [lastRunAt : Nat, enabled : {FALSE}] => ~Sched!Patched(e, w).enabled
         /\ w \in [lastRunAt : Nat] => Sched!Patched(e, w).enabled = e.enabled
         /\ w \in [enabled : BOOLEAN] => Sched!Patched(e, w).enabled = w.enabled
  <1>1. DOMAIN e = {"cron", "runAt", "enabled", "createdAt", "lastRunAt", "skill"}
    BY DEF Entries
  <1>2. CASE w \in [enabled : BOOLEAN]
    BY <1>1, <1>2 DEF Sched!Patched, Entries, DraftRecords
  <1>3. CASE w \in DraftRecords
    BY <1>1, <1>3 DEF Sched!Patched, Entries, DraftRecords
  <1>4. CASE w \in [lastRunAt : Nat]
    BY <1>1, <1>4 DEF Sched!Patched, Entries, DraftRecords
  <1>5. CASE w \in [lastRunAt : Nat, enabled : {FALSE}]
    BY <1>1, <1>5 DEF Sched!Patched, Entries, DraftRecords
  <1> QED BY <1>2, <1>3, <1>4, <1>5 DEF Outcomes

\* What a mutation makes of the entries c.
MutatedTo(c, job, m) ==
  /\ job.op \in {"create", "update", "delete"}
  /\ job.op = "create" =>
       /\ DOMAIN m = DOMAIN c \cup {job.id}
       /\ \A i \in DOMAIN m : m[i] = IF i = job.id THEN job.with ELSE c[i]
  /\ job.op = "update" =>
       /\ DOMAIN m = DOMAIN c
       /\ \A i \in DOMAIN m : m[i] = IF i = job.id THEN Sched!Patched(c[i], job.with) ELSE c[i]
  /\ job.op = "delete" =>
       /\ DOMAIN m = DOMAIN c \ {job.id}
       /\ \A i \in DOMAIN m : m[i] = c[i]

\* Mutated is as described.
LEMMA MutatedIs ==
  ASSUME NEW c, NEW job \in Mutations
  PROVE  MutatedTo(c, job, Sched!Mutated(c, job))
  <1>1. job.op \in {"create", "update", "delete"}
    BY DEF Mutations, SyncMutations, UserMutations, RunMutations
  <1>2. CASE job.op = "create"
    BY <1>2 DEF Sched!Mutated, MutatedTo
  <1>3. CASE job.op = "update"
    BY <1>3 DEF Sched!Mutated, MutatedTo
  <1>4. CASE job.op = "delete"
    BY <1>4 DEF Sched!Mutated, MutatedTo
  <1> QED BY <1>1, <1>2, <1>3, <1>4

\* What is known after the step is like what was known before it.
Inherited == \A i, e : Known(i, e)' => \E f : Known(i, f) /\ Alike(f, e)

\* What then holds of what is known after the step.
LEMMA Inherits ==
  ASSUME NEW P, P \in Procs, Numbered(P), AllAlike, Once(P), Inherited
  PROVE  /\ AllAlike' /\ Kept /\ \A i, e : Known(i, e)' => i \in 1..made
         /\ \A i : (\A e : Known(i, e) => e.skill # NoSkill)
                    => \A e : Known(i, e)' => e.skill # NoSkill
         /\ \A i, e : Known(i, e)' /\ OneShot(e) => shots[P][i] <= 1
         /\ \A i, e, f : Known(i, e)' /\ Known(i, f) => Alike(f, e)
  <1>1. AllAlike'
    BY DEF AllAlike, Inherited, Alike
  <1>2. \A i, e : Known(i, e)' => i \in 1..made
    BY DEF Numbered, Inherited
  <1>3. \A i : (\A e : Known(i, e) => e.skill # NoSkill)
                => \A e : Known(i, e)' => e.skill # NoSkill
    BY DEF Inherited, Alike
  <1>4. \A i, e : Known(i, e)' /\ OneShot(e) => shots[P][i] <= 1
    BY DEF Inherited, Alike, OneShot, Once
  <1>5. \A i, e, f : Known(i, e)' /\ Known(i, f) => Alike(f, e)
    BY DEF Inherited, Alike, AllAlike
  <1>6. Kept
    BY DEF Inherited, Kept
  <1> QED BY <1>1, <1>2, <1>3, <1>4, <1>5, <1>6

\* A queue with one mutation more, and one with its head done.
LEMMA Queued ==
  ASSUME NEW S, NEW s \in Seq(S), NEW x \in S
  PROVE  /\ Append(s, x) \in Seq(S) /\ Len(Append(s, x)) = Len(s) + 1 /\ Len(s) \in Nat
         /\ DOMAIN Append(s, x) = 1..Len(s) + 1 /\ DOMAIN s = 1..Len(s)
         /\ \A n \in 1..Len(s) : Append(s, x)[n] = s[n]
         /\ Append(s, x)[Len(s) + 1] = x
         /\ s # <<>> => Head(Append(s, x)) = Head(s) /\ Head(s) = s[1] /\ 1 \in 1..Len(s)
         /\ Append(s, x) # <<>>
  <1>1. /\ Append(s, x) \in Seq(S) /\ Len(Append(s, x)) = Len(s) + 1 /\ Len(s) \in Nat
        /\ \A n \in 1..Len(s) : Append(s, x)[n] = s[n]
        /\ Append(s, x)[Len(s) + 1] = x
    BY AppendProperties, LenProperties
  <1>2. s # <<>> => Len(s) > 0
    BY EmptySeq, LenProperties
  <1> QED BY <1>1, <1>2, EmptySeq, LenProperties

\* A queue without its head.
LEMMA Unqueued ==
  ASSUME NEW S, NEW s \in Seq(S), s # <<>>
  PROVE  /\ Tail(s) \in Seq(S) /\ Len(Tail(s)) = Len(s) - 1 /\ Len(s) \in Nat /\ Len(s) > 0
         /\ DOMAIN Tail(s) = 1..Len(s) - 1 /\ DOMAIN s = 1..Len(s)
         /\ \A n \in 1..Len(s) - 1 : Tail(s)[n] = s[n + 1] /\ n + 1 \in 1..Len(s)
         /\ Head(s) = s[1] /\ 1 \in 1..Len(s) /\ Head(s) \in S
         /\ Tail(s) # <<>> => Head(Tail(s)) = s[2] /\ 2 \in 1..Len(s)
  <1>1. /\ Tail(s) \in Seq(S) /\ Len(Tail(s)) = Len(s) - 1 /\ Len(s) \in Nat /\ Len(s) > 0
        /\ \A n \in 1..Len(s) - 1 : Tail(s)[n] = s[n + 1]
    BY HeadTailProperties, EmptySeq, LenProperties
  <1>2. Tail(s) # <<>> => Len(s) > 1
    BY <1>1, EmptySeq, LenProperties
  <1>3. Tail(s) # <<>> => Head(Tail(s)) = Tail(s)[1]
    BY <1>1, HeadTailProperties
  <1> QED BY <1>1, <1>2, <1>3, HeadTailProperties, LenProperties

\* A mutation is put into the queue.
LEMMA Enqueued ==
  ASSUME NEW P, P \in Procs, SchedInv(P), Others(P), NEW job \in Mutations, Skilled(job),
         jobs' = [jobs EXCEPT ![P] = Append(jobs[P], job)],
         UNCHANGED <<now, file, skill, life, cache, applied, hand, shots, gone>>,
         life[P] # "down",
         DOMAIN sync' = Procs, sync'[P] \subseteq sync[P],
         \/ job.by # "poller" /\ UNCHANGED tick
         \/ /\ job.by = "poller" /\ tick[P].pc = "run" /\ job.id = Head(tick[P].todo).id
            /\ Head(tick[P].todo).entry.cron \/ job.with \in [lastRunAt : Nat, enabled : {FALSE}]
            /\ tick' = [tick EXCEPT ![P] = [tick[P] EXCEPT !.pc = "record"]],
         \/ job.op # "create" /\ UNCHANGED made /\ job.id \in 1..made
         \/ job.op = "create" /\ made < MaxEntries /\ made' = made + 1 /\ job.id = made'
  PROVE  SchedInv(P)' /\ Kept
  <1> DEFINE N == Len(jobs[P]) + 1
  <1>1. /\ jobs'[P] \in Seq(Mutations) /\ Len(jobs[P]) \in Nat /\ N \in Nat
        /\ DOMAIN jobs'[P] = 1..N /\ DOMAIN jobs[P] = 1..Len(jobs[P]) /\ DOMAIN jobs' = Procs
        /\ \A n \in DOMAIN jobs'[P] : n = N \/ (n \in DOMAIN jobs[P] /\ n < N /\ jobs'[P][n] = jobs[P][n])
        /\ jobs'[P][N] = job /\ N \in DOMAIN jobs'[P]
        /\ jobs[P] # <<>> => Head(jobs'[P]) = Head(jobs[P]) /\ Head(jobs[P]) = jobs[P][1] /\ 1 \in DOMAIN jobs[P]
        /\ jobs'[P] # <<>>
    <2>1. jobs[P] \in Seq(Mutations) /\ jobs'[P] = Append(jobs[P], job) /\ DOMAIN jobs' = Procs
      BY DEF SchedInv, SchedTypes
    <2> QED BY <2>1, Queued
  <1> HIDE DEF N
  <1>2. /\ made \in Nat /\ made <= made' /\ made' \in 0..MaxEntries
        /\ job.op # "create" => made' = made
    BY SchedulerConstants DEF Sched!SchedulerAssumption, SchedInv, SchedTypes
  <1>3. /\ tick'[P].todo = tick[P].todo /\ DOMAIN tick' = Procs
        /\ tick'[P] \in [pc : {"off", "idle", "next", "run", "record"}, todo : Seq(Runs)]
        /\ tick'[P].pc = "next" => tick[P].pc = "next"
        /\ job.by # "poller" => tick'[P] = tick[P]
        /\ job.by = "poller" => tick[P].pc = "run" /\ tick'[P].pc = "record"
    <2>1. /\ tick[P] \in [pc : {"off", "idle", "next", "run", "record"}, todo : Seq(Runs)]
          /\ DOMAIN tick = Procs
      BY DEF SchedInv, SchedTypes
    <2>2. CASE job.by # "poller" /\ UNCHANGED tick
      BY <2>1, <2>2
    <2>3. CASE /\ job.by = "poller" /\ tick[P].pc = "run"
               /\ tick' = [tick EXCEPT ![P] = [tick[P] EXCEPT !.pc = "record"]]
      <3>1. tick'[P] = [tick[P] EXCEPT !.pc = "record"] /\ DOMAIN tick' = Procs
        BY <2>1, <2>3
      <3>2. /\ tick'[P].todo = tick[P].todo /\ tick'[P].pc = "record"
            /\ tick'[P] \in [pc : {"off", "idle", "next", "run", "record"}, todo : Seq(Runs)]
        BY <2>1, <3>1
      <3> QED BY <2>3, <3>1, <3>2
    <2> QED BY <2>2, <2>3
  <1>4. SchedTypes(P)'
    <2>1. IsStore(file)' /\ IsStore(cache[P])'
      BY <1>2 DEF SchedInv, SchedTypes, IsStore
    <2> QED BY <1>1, <1>2, <1>3, <2>1 DEF SchedInv, SchedTypes
  <1>5. ASSUME NEW i, NEW e, Known(i, e)'
        PROVE  Known(i, e) \/ (job.op = "create" /\ i = job.id /\ e = job.with)
    <2>1. Has(P, i, e)' => Has(P, i, e) \/ (job.op = "create" /\ i = job.id /\ e = job.with)
      BY <1>1, <1>3 DEF Has
    <2> QED BY <1>5, <2>1, KnownThen DEF Known
  <1>6. Numbered(P)'
    BY <1>1, <1>2, <1>5 DEF SchedInv, SchedTypes, Numbered, Sched!Ids
  <1>7. job.op = "create" => \A e : ~Known(job.id, e)
    BY <1>2 DEF SchedInv, Numbered
  <1>8. AllAlike'
    BY <1>5, <1>7 DEF SchedInv, AllAlike, Alike
  <1>9. SyncIsSkilled(P)'
    <2>1. ASSUME NEW j, Skilled(j), j.op # "create" => j.id \in 1..made PROVE Skilled(j)'
      BY <1>2, <1>5, <2>1 DEF Skilled
    <2>2. Skilled(job)'
      BY <1>2, <2>1
    <2>3. \A n \in DOMAIN jobs[P] : Skilled(jobs[P][n]) /\ jobs[P][n].id \in 1..made
      BY DEF SchedInv, SyncIsSkilled, Numbered
    <2>4. \A j \in sync[P] : Skilled(j) /\ (j.op # "create" => j.id \in 1..made)
      BY DEF SchedInv, SyncIsSkilled, Numbered
    <2> QED BY <1>1, <2>1, <2>2, <2>3, <2>4 DEF SyncIsSkilled
  <1>10. Removed(P)'
    BY <1>1, <1>2, <1>6 DEF SchedInv, Removed, Numbered, Walking
  <1>11. Walking(P)'
    <2>1. Walking(P) /\ Head(tick'[P].todo) = Head(tick[P].todo)
      BY <1>3 DEF SchedInv
    <2>2. ASSUME NEW n \in DOMAIN jobs'[P], jobs'[P][n].by = "poller"
          PROVE  /\ tick'[P].pc = "record" /\ jobs'[P][n].id = Head(tick[P].todo).id
                 /\ \/ Head(tick[P].todo).entry.cron
                    \/ jobs'[P][n].with \in [lastRunAt : Nat, enabled : {FALSE}]
      <3>1. CASE n = N
        BY <1>1, <1>3, <2>2, <3>1
      <3>2. CASE n # N
        <4>1. n \in DOMAIN jobs[P] /\ jobs'[P][n] = jobs[P][n]
          BY <1>1, <3>2
        <4>2. job.by # "poller"
          BY <1>3, <2>1, <2>2, <4>1 DEF Walking
        <4> QED BY <1>3, <2>1, <2>2, <4>1, <4>2 DEF Walking
      <3> QED BY <3>1, <3>2
    <2>3. ASSUME NEW m \in DOMAIN jobs'[P], NEW n \in DOMAIN jobs'[P],
                 jobs'[P][m].by = "poller", jobs'[P][n].by = "poller"
          PROVE  m = n
      <3>1. job.by = "poller" => \A h \in DOMAIN jobs[P] : jobs[P][h].by # "poller"
        BY <1>3, <2>1 DEF Walking
      <3> QED BY <1>1, <2>1, <2>3, <3>1 DEF Walking
    <2>4. /\ tick'[P].pc \in {"next", "run", "record"} => tick'[P].todo # <<>>
          /\ life'[P] = "booting" => tick'[P].pc = "off"
      BY <1>3, <2>1 DEF Walking
    <2>5. \A m, n \in DOMAIN tick'[P].todo : tick'[P].todo[m].id = tick'[P].todo[n].id => m = n
      BY <1>3, <2>1 DEF Walking
    <2>6. applied'[P] => jobs'[P] # <<>>
      BY <1>1
    <2>7. life'[P] # "down"
      OBVIOUS
    <2> HIDE DEF N
    <2> QED BY ONLY <2>1, <2>2, <2>3, <2>4, <2>5, <2>6, <2>7 DEF Walking
  <1>12. Once(P)'
    <2>1. ASSUME NEW i, Running(P, i) PROVE Running(P, i)'
      <3>1. CASE job.by # "poller"
        BY <1>1, <1>3, <2>1, <3>1 DEF SchedInv, Walking, Running
      <3>2. CASE job.by = "poller"
        <4>1. applied[P] => Head(jobs'[P]).by # "poller"
          <5>1. \A n \in DOMAIN jobs[P] : jobs[P][n].by # "poller"
            BY <1>3, <3>2 DEF SchedInv, Walking
          <5>2. applied[P] => jobs[P] # <<>>
            BY DEF SchedInv, Walking
          <5> QED BY <1>1, <5>1, <5>2
        <4> QED BY <1>3, <2>1, <3>2, <4>1 DEF Running
      <3> QED BY <3>1, <3>2
    <2>2. \A i, e : Known(i, e)' /\ OneShot(e) => shots[P][i] <= 1
      BY <1>2, <1>5 DEF SchedInv, Numbered, Once, SchedTypes, Sched!Ids
    <2> QED BY <1>3, <2>1, <2>2 DEF SchedInv, Once
  <1>13. Kept
    BY <1>2, <1>5 DEF Kept, Alike
  <1> QED BY <1>4, <1>6, <1>8, <1>9, <1>10, <1>11, <1>12, <1>13 DEF SchedInv

\* The head of the queue changes the cache.
LEMMA Applies ==
  ASSUME NEW P, P \in Procs, SchedInv(P), Others(P), Sched!Apply(P)
  PROVE  SchedInv(P)' /\ Kept
  <1> DEFINE job == Head(jobs[P])
  <1>1. /\ job \in Mutations /\ job = jobs[P][1] /\ 1 \in DOMAIN jobs[P] /\ jobs[P] # <<>>
        /\ cache'[P] = Sched!Mutated(cache[P], job) /\ applied'[P] = TRUE /\ ~applied[P]
        /\ DOMAIN cache' = Procs /\ DOMAIN applied' = Procs
        /\ UNCHANGED <<now, file, skill, life, jobs, tick, hand, sync, Sched!counters, gone>>
        /\ DOMAIN shots' = Procs
        /\ shots'[P] = IF Sched!Arms(job) THEN [shots[P] EXCEPT ![job.id] = 0] ELSE shots[P]
    <2>1. jobs[P] \in Seq(Mutations) /\ jobs[P] # <<>>
      BY DEF Sched!Apply, SchedInv, SchedTypes
    <2>2. job \in Mutations /\ job = jobs[P][1] /\ 1 \in DOMAIN jobs[P]
      BY <2>1, Unqueued
    <2> QED BY <2>1, <2>2 DEF Sched!Apply, SchedInv, SchedTypes
  <1> HIDE DEF job
  <1>2. /\ job.id \in 1..made /\ made \in 0..MaxEntries /\ shots[P] \in [Sched!Ids -> 0..2]
        /\ job.id \in Sched!Ids
        /\ shots'[P] \in [Sched!Ids -> 0..2]
        /\ \A i \in Sched!Ids : shots'[P][i] = IF Sched!Arms(job) /\ i = job.id THEN 0 ELSE shots[P][i]
    <2>1. job.id \in 1..made /\ made \in 0..MaxEntries /\ shots[P] \in [Sched!Ids -> 0..2]
      BY <1>1 DEF SchedInv, Numbered, SchedTypes
    <2>2. job.id \in Sched!Ids
      BY <2>1, SchedulerConstants DEF Sched!SchedulerAssumption, Sched!Ids
    <2> QED BY <1>1, <2>1, <2>2
  <1>3. /\ job.op = "update" => job.with \in [enabled : BOOLEAN] \cup DraftRecords \cup Outcomes
        /\ job.op = "update" /\ job.with \in DraftRecords => job.by = "sync"
        /\ job.op = "update" /\ job.by = "user" => job.with \in [enabled : BOOLEAN]
        /\ job.op = "update" /\ job.by \in {"poller", "hand"} => job.with \in Outcomes
        /\ job.op = "update" => job.by \in {"poller", "hand", "user", "sync"}
        /\ job.op = "create" => job.with \in Entries
        /\ job.by = "poller" => job.op = "update"
    <2>1. \A w \in DraftRecords : w \notin [enabled : BOOLEAN] \cup Outcomes
      <3>1. \A w \in DraftRecords : "cron" \in DOMAIN w
        BY DEF DraftRecords
      <3>2. \A w \in [enabled : BOOLEAN] : "cron" \notin DOMAIN w
        OBVIOUS
      <3>3. \A w \in [lastRunAt : Nat] : "cron" \notin DOMAIN w
        OBVIOUS
      <3>4. \A w \in [lastRunAt : Nat, enabled : {FALSE}] : "cron" \notin DOMAIN w
        OBVIOUS
      <3>5. \A w \in [enabled : BOOLEAN] \cup Outcomes : "cron" \notin DOMAIN w
        BY <3>2, <3>3, <3>4, Zenon DEF Outcomes
      <3> QED BY <3>1, <3>5
    <2>2. [cron : BOOLEAN, runAt : Nat, enabled : BOOLEAN, createdAt : Nat,
           lastRunAt : {Sched!Never}, skill : Skills] \subseteq Entries
      BY DEF Entries
    <2> QED BY <1>1, <2>1, <2>2 DEF Mutations, SyncMutations, UserMutations, RunMutations
  <1>a. MutatedTo(cache[P], job, cache'[P])
    BY <1>1, MutatedIs
  <1>4. Skilled(job) /\ SchedTypes(P) /\ IsStore(cache[P])
    BY <1>1 DEF SchedInv, SyncIsSkilled, SchedTypes
  <1>5. ASSUME NEW i \in DOMAIN cache'[P]
        PROVE  \/ /\ i \in DOMAIN cache[P] /\ i # job.id /\ cache'[P][i] = cache[P][i]
               \/ /\ i \in DOMAIN cache[P] /\ i = job.id /\ job.op = "update"
                  /\ cache'[P][i] = Sched!Patched(cache[P][i], job.with)
                  /\ Alike(cache[P][i], cache'[P][i])
               \/ job.op = "create" /\ i = job.id /\ cache'[P][i] = job.with
    <2>1. CASE job.op = "create"
      BY <1>a, <1>5, <2>1 DEF MutatedTo
    <2>2. CASE job.op = "delete"
      BY <1>a, <1>5, <2>2 DEF MutatedTo
    <2>3. CASE job.op = "update"
      <3>1. i \in DOMAIN cache[P] /\ cache'[P][i] = IF i = job.id THEN Sched!Patched(cache[P][i], job.with) ELSE cache[P][i]
        BY <1>a, <1>5, <2>3 DEF MutatedTo
      <3>2. CASE i = job.id
        <4>1. cache[P][i] \in Entries /\ Known(i, cache[P][i])
          BY <1>4, <3>1 DEF IsStore, Known, Has
        <4>2. /\ cache'[P][i].skill = cache[P][i].skill
              /\ job.by # "sync" => cache'[P][i].cron = cache[P][i].cron
          <5>1. /\ Sched!Patched(cache[P][i], job.with).skill = cache[P][i].skill
                /\ job.with \notin DraftRecords => Sched!Patched(cache[P][i], job.with).cron = cache[P][i].cron
            BY <1>3, <2>3, <4>1, PatchedIs
          <5> QED BY <1>3, <2>3, <3>1, <3>2, <5>1
        <4>3. job.by = "sync" => cache[P][i].skill # NoSkill
          BY <1>4, <2>3, <3>2, <4>1 DEF Skilled
        <4> QED BY <2>3, <3>1, <3>2, <4>2, <4>3 DEF Alike
      <3> QED BY <3>1, <3>2
    <2> QED BY <1>a, <2>1, <2>2, <2>3 DEF MutatedTo
  <1>6. \A i \in DOMAIN cache'[P] : i \in 1..made /\ cache'[P][i] \in Entries
    <2>1. ASSUME NEW i \in DOMAIN cache[P] PROVE i \in 1..made /\ cache[P][i] \in Entries
      BY <1>4 DEF IsStore
    <2>2. ASSUME NEW i \in DOMAIN cache[P], job.op = "update" PROVE Sched!Patched(cache[P][i], job.with) \in Entries
      BY <1>3, <2>1, <2>2, PatchedIs
    <2> QED BY <1>2, <1>3, <1>5, <2>1, <2>2
  <1>7. Inherited
    <2>1. ASSUME NEW i, NEW e, Known(i, e)', ~(i \in DOMAIN cache'[P] /\ e = cache'[P][i])
          PROVE  Known(i, e)
      <3>1. Has(P, i, e)' => Has(P, i, e)
        BY <1>1, <2>1 DEF Has
      <3> QED BY <1>1, <2>1, <3>1, KnownThen DEF Known
    <2>2. ASSUME NEW i \in DOMAIN cache'[P] PROVE \E f : Known(i, f) /\ Alike(f, cache'[P][i])
      <3>1. CASE i \in DOMAIN cache[P] /\ Alike(cache[P][i], cache'[P][i])
        BY <3>1 DEF Known, Has
      <3>2. CASE i \in DOMAIN cache[P] /\ cache'[P][i] = cache[P][i]
        BY <3>2 DEF Known, Has, Alike
      <3>3. CASE job.op = "create" /\ i = job.id /\ cache'[P][i] = job.with
        BY <1>1, <3>3 DEF Known, Has, Alike
      <3> QED BY <1>5, <3>1, <3>2, <3>3
    <2>3. \A e : Alike(e, e)
      BY DEF Alike
    <2> QED BY <2>1, <2>2, <2>3 DEF Inherited
  <1>8. /\ AllAlike' /\ Kept /\ \A i, e : Known(i, e)' => i \in 1..made
        /\ \A i : (\A e : Known(i, e) => e.skill # NoSkill)
                   => \A e : Known(i, e)' => e.skill # NoSkill
        /\ \A i, e : Known(i, e)' /\ OneShot(e) => shots[P][i] <= 1
        /\ \A i, e, f : Known(i, e)' /\ Known(i, f) => Alike(f, e)
    BY <1>7, Inherits DEF SchedInv
  <1>9. SchedTypes(P)'
    <2>1. IsStore(cache[P])' /\ IsStore(file)'
      BY <1>1, <1>4, <1>6 DEF IsStore, SchedTypes, Sched!counters
    <2> QED BY <1>1, <1>2, <1>4, <2>1 DEF SchedTypes, Sched!counters
  <1>10. Numbered(P)'
    BY <1>1, <1>2, <1>8 DEF SchedInv, Numbered, Sched!counters
  <1>11. SyncIsSkilled(P)'
    BY <1>1, <1>8 DEF SchedInv, SyncIsSkilled, Skilled
  <1>12. Removed(P)'
    <2>1. \A i \in DOMAIN cache'[P] : i \notin gone[P]
      BY <1>1, <1>5 DEF SchedInv, Removed
    <2>2. job.op = "delete" => job.id \notin DOMAIN cache'[P]
      BY <1>a DEF MutatedTo
    <2> QED BY <1>1, <2>1, <2>2 DEF SchedInv, Removed, job, Sched!counters
  <1>13. Walking(P)'
    BY <1>1 DEF SchedInv, Walking
  <1>14. Once(P)'
    <2>1. \A i, e : Known(i, e)' /\ OneShot(e) => shots'[P][i] <= 1
      <3>1. \A i \in 1..made : i \in Sched!Ids
        BY <1>2, SchedulerConstants DEF Sched!SchedulerAssumption, Sched!Ids
      <3> QED BY <1>2, <1>8, <3>1
    <2>2. ASSUME NEW i \in DOMAIN cache'[P], OneShot(cache'[P][i]), cache'[P][i].enabled, ~Running(P, i)'
          PROVE  shots'[P][i] = 0
      <3>0. PICK e : e = cache'[P][i]
        OBVIOUS
      <3>1. i \in Sched!Ids /\ Known(i, e)'
        <4>1. i \in 1..made /\ made \in 0..MaxEntries /\ MaxEntries \in Nat
          BY <1>2, <1>6, SchedulerConstants DEF Sched!SchedulerAssumption
        <4>2. i \in Sched!Ids
          BY <4>1 DEF Sched!Ids
        <4> QED BY <2>2, <3>0, <4>2 DEF Known, Has
      <3>2. CASE /\ i \in DOMAIN cache[P] /\ i # job.id /\ cache'[P][i] = cache[P][i]
        <4>1. ~Running(P, i)
          <5>1. job.by = "poller" => Head(tick[P].todo).id = job.id
            BY <1>1 DEF SchedInv, Walking
          <5> QED BY <1>1, <2>2, <3>2, <5>1 DEF Running, job
        <4> QED BY <1>2, <2>2, <3>1, <3>2, <4>1 DEF SchedInv, Once
      <3>3. CASE /\ i \in DOMAIN cache[P] /\ i = job.id /\ job.op = "update"
                 /\ cache'[P][i] = Sched!Patched(cache[P][i], job.with)
                 /\ Alike(cache[P][i], cache'[P][i])
        <4>1. cache[P][i] \in Entries
          BY <1>4, <3>3 DEF IsStore
        <4>2. CASE job.by = "user"
          <5>1. job.with.enabled
            <6>1. job.with \in [enabled : BOOLEAN] => Sched!Patched(cache[P][i], job.with).enabled = job.with.enabled
              BY <4>1, PatchedIs
            <6> QED BY <1>3, <2>2, <3>3, <4>2, <6>1
          <5> QED BY <1>2, <3>1, <3>3, <4>2, <5>1 DEF Sched!Arms
        <4>3. CASE job.by = "sync"
          <5>1. cache[P][i].skill # NoSkill
            BY <1>4, <3>3, <4>3 DEF Skilled, Known, Has
          <5> QED BY <2>2, <3>3, <5>1 DEF OneShot, Alike
        <4>4. CASE job.by = "poller"
          <5>1. job.with \notin [lastRunAt : Nat, enabled : {FALSE}]
            BY <1>3, <2>2, <3>3, <4>1, PatchedIs
          <5>2. Head(tick[P].todo).entry.cron /\ Head(tick[P].todo).id = i /\ tick[P].todo # <<>>
            BY <1>1, <3>3, <4>4, <5>1 DEF SchedInv, Walking
          <5>3. Known(i, Head(tick[P].todo).entry)
            <6>1. tick[P].todo \in Seq(Runs)
              BY <1>4 DEF SchedTypes
            <6>2. Head(tick[P].todo) = tick[P].todo[1] /\ 1 \in DOMAIN tick[P].todo
              BY <5>2, <6>1, Unqueued
            <6> QED BY <5>2, <6>2 DEF Known, Has
          <5>4. Alike(Head(tick[P].todo).entry, e)
            BY <1>8, <3>1, <5>3
          <5> QED BY <2>2, <3>0, <5>2, <5>4 DEF Alike, OneShot
        <4>5. CASE job.by = "hand"
          <5>1. cache'[P][i].enabled = cache[P][i].enabled
            <6>1. job.with \in [lastRunAt : Nat] \cup [lastRunAt : Nat, enabled : {FALSE}]
              BY <1>3, <3>3, <4>5 DEF Outcomes
            <6>2. job.with \notin [lastRunAt : Nat, enabled : {FALSE}]
              BY <1>3, <2>2, <3>3, <4>1, PatchedIs
            <6>3. job.with \in [lastRunAt : Nat]
              BY <6>1, <6>2
            <6>4. job.with \in [lastRunAt : Nat]
                    => Sched!Patched(cache[P][i], job.with).enabled = cache[P][i].enabled
              BY <1>3, <3>3, <4>1, PatchedIs
            <6> QED BY <3>3, <6>3, <6>4
          <5>2. ~Running(P, i)
            BY <1>1, <2>2, <4>5 DEF Running
          <5>3. OneShot(cache[P][i])
            BY <2>2, <3>3 DEF OneShot, Alike
          <5> QED BY <1>2, <2>2, <3>1, <3>3, <5>1, <5>2, <5>3 DEF SchedInv, Once
        <4> QED BY <1>3, <3>3, <4>2, <4>3, <4>4, <4>5
      <3>4. CASE job.op = "create" /\ i = job.id /\ cache'[P][i] = job.with
        BY <1>2, <3>1, <3>4 DEF Sched!Arms
      <3> QED BY <1>5, <3>2, <3>3, <3>4
    <2>3. \A n \in DOMAIN tick[P].todo :
            OneShot(tick[P].todo[n].entry) /\ (n > 1 \/ tick[P].pc = "next") => shots'[P][tick[P].todo[n].id] = 0
      <3>1. ASSUME NEW n \in DOMAIN tick[P].todo PROVE tick[P].todo[n].id \in Sched!Ids
        <4>1. Known(tick[P].todo[n].id, tick[P].todo[n].entry)
          BY DEF Known, Has
        <4>2. tick[P].todo[n].id \in 1..made
          BY <4>1 DEF SchedInv, Numbered
        <4> QED BY <1>2, <4>2, SchedulerConstants DEF Sched!SchedulerAssumption, Sched!Ids
      <3> QED BY <1>2, <3>1 DEF SchedInv, Once
    <2> QED BY <1>1, <2>1, <2>2, <2>3 DEF Once
  <1> QED BY <1>8, <1>9, <1>10, <1>11, <1>12, <1>13, <1>14 DEF SchedInv

\* The mutation is done, in the file or not, and its caller goes on.
LEMMA Returned ==
  ASSUME NEW P, P \in Procs, SchedInv(P), Others(P), applied[P],
         jobs' = [jobs EXCEPT ![P] = Tail(jobs[P])], applied' = [applied EXCEPT ![P] = FALSE],
         \/ Head(jobs[P]).by # "poller" /\ UNCHANGED tick
         \/ /\ Head(jobs[P]).by = "poller"
            /\ tick' = [tick EXCEPT ![P] = IF Len(tick[P].todo) = 1 THEN Sched!IdleTick
                                           ELSE [pc |-> "next", todo |-> Tail(tick[P].todo)]],
         DOMAIN hand' = Procs, hand'[P] \in {hand[P], Sched!NoRun},
         DOMAIN sync' = Procs, sync'[P] \subseteq sync[P], DOMAIN gone' = Procs,
         \/ UNCHANGED <<file, gone>>
         \/ /\ file' = cache[P]
            /\ gone'[P] = IF Head(jobs[P]).op = "delete" THEN gone[P] \cup {Head(jobs[P]).id} ELSE gone[P],
         UNCHANGED <<now, skill, life, cache, made, shots>>
  PROVE  SchedInv(P)' /\ Kept
  <1> DEFINE N == Len(jobs[P])
             job == Head(jobs[P])
  <1>0. SchedTypes(P) /\ Walking(P) /\ Removed(P) /\ Numbered(P) /\ Once(P) /\ SyncIsSkilled(P)
    BY DEF SchedInv
  <1>1. /\ jobs'[P] \in Seq(Mutations) /\ N \in Nat /\ DOMAIN jobs' = Procs
        /\ DOMAIN jobs'[P] = 1..N - 1 /\ DOMAIN jobs[P] = 1..N
        /\ \A n \in DOMAIN jobs'[P] : n + 1 \in DOMAIN jobs[P] /\ jobs'[P][n] = jobs[P][n + 1] /\ n + 1 # 1
        /\ job = jobs[P][1] /\ 1 \in DOMAIN jobs[P] /\ job \in Mutations
        /\ DOMAIN applied' = Procs /\ applied'[P] = FALSE
    <2>1. /\ jobs[P] \in Seq(Mutations) /\ jobs[P] # <<>> /\ DOMAIN jobs = Procs
          /\ DOMAIN applied = Procs
      BY <1>0 DEF SchedTypes, Walking
    <2>2. /\ jobs'[P] = Tail(jobs[P]) /\ DOMAIN jobs' = Procs /\ DOMAIN applied' = Procs
          /\ applied'[P] = FALSE
      BY <2>1
    <2> QED BY <2>1, <2>2, Unqueued
  <1> HIDE DEF N
  <1>2. /\ DOMAIN tick' = Procs
        /\ tick'[P] \in [pc : {"off", "idle", "next", "run", "record"}, todo : Seq(Runs)]
        /\ job.by # "poller" => tick'[P] = tick[P]
        /\ job.by = "poller" =>
             /\ tick[P].pc = "record" /\ tick'[P].pc \in {"idle", "next"}
             /\ tick'[P].pc = "next" => tick'[P].todo # <<>>
             /\ \A n \in DOMAIN tick'[P].todo :
                  /\ n + 1 \in DOMAIN tick[P].todo /\ n + 1 > 1 /\ n \in Nat
                  /\ tick'[P].todo[n] = tick[P].todo[n + 1]
    <2>1. /\ tick[P] \in [pc : {"off", "idle", "next", "run", "record"}, todo : Seq(Runs)]
          /\ DOMAIN tick = Procs
      BY <1>0 DEF SchedTypes
    <2>2. CASE job.by # "poller"
      BY <2>1, <2>2
    <2>3. CASE job.by = "poller"
      <3>1. tick[P].pc = "record" /\ tick[P].todo # <<>>
        BY <1>0, <1>1, <2>3 DEF Walking
      <3>2. /\ tick'[P] = IF Len(tick[P].todo) = 1 THEN Sched!IdleTick
                          ELSE [pc |-> "next", todo |-> Tail(tick[P].todo)]
            /\ DOMAIN tick' = Procs
        BY <2>1, <2>3
      <3>3. /\ tick[P].todo \in Seq(Runs) /\ Len(tick[P].todo) \in Nat
            /\ Tail(tick[P].todo) \in Seq(Runs)
            /\ Len(Tail(tick[P].todo)) = Len(tick[P].todo) - 1
            /\ DOMAIN Tail(tick[P].todo) = 1..Len(tick[P].todo) - 1
            /\ DOMAIN tick[P].todo = 1..Len(tick[P].todo)
            /\ \A n \in 1..Len(tick[P].todo) - 1 :
                 Tail(tick[P].todo)[n] = tick[P].todo[n + 1] /\ n + 1 \in 1..Len(tick[P].todo)
        BY <2>1, <3>1, Unqueued
      <3>4. CASE Len(tick[P].todo) = 1
        <4>1. /\ tick'[P].pc = "idle" /\ tick'[P].todo = <<>>
              /\ tick'[P] = [pc |-> "idle", todo |-> <<>>]
          BY <3>2, <3>4 DEF Sched!IdleTick
        <4>2. <<>> \in Seq(Runs) /\ DOMAIN (<<>>) = {}
          OBVIOUS
        <4> QED BY <2>3, <3>1, <3>2, <4>1, <4>2
      <3>5. CASE Len(tick[P].todo) # 1
        <4>1. /\ tick'[P].pc = "next" /\ tick'[P].todo = Tail(tick[P].todo)
              /\ tick'[P] = [pc |-> "next", todo |-> Tail(tick[P].todo)]
          BY <3>2, <3>5
        <4>2. Tail(tick[P].todo) # <<>>
          <5>1. Len(Tail(tick[P].todo)) # 0
            BY <3>3, <3>5
          <5> QED BY <5>1, <3>3, EmptySeq
        <4> QED BY <2>3, <3>1, <3>2, <3>3, <4>1, <4>2
      <3> QED BY <3>4, <3>5
    <2> QED BY <2>2, <2>3
  <1>a. /\ gone'[P] \subseteq 1..made /\ gone'[P] \subseteq Nat
        /\ gone'[P] \cap (DOMAIN file' \cup DOMAIN cache'[P]) = {}
    <2>1. job.id \in 1..made /\ made \in Nat
      <3>1. 1 \in DOMAIN jobs[P] /\ job = jobs[P][1]
        BY <1>1
      <3>2. jobs[P][1].id \in 1..made
        BY <1>0, <3>1 DEF Numbered
      <3>3. made \in Nat
        BY <1>0, SchedulerConstants DEF SchedTypes, Sched!SchedulerAssumption
      <3> QED BY <3>1, <3>2, <3>3
    <2>2. gone[P] \subseteq 1..made /\ gone[P] \cap (DOMAIN file \cup DOMAIN cache[P]) = {}
      BY <1>0 DEF Removed
    <2>3. job.op = "delete" => job.id \notin DOMAIN cache[P]
      BY <1>0 DEF Removed
    <2>4. CASE UNCHANGED <<file, gone>>
      BY <2>1, <2>2, <2>4
    <2>5. CASE file' = cache[P] /\ gone'[P] = IF job.op = "delete" THEN gone[P] \cup {job.id} ELSE gone[P]
      <3>1. UNCHANGED <<made, cache>>
        OBVIOUS
      <3>2. gone'[P] \subseteq gone[P] \cup {job.id} /\ (job.op # "delete" => gone'[P] = gone[P])
        BY <2>5
      <3>3. gone'[P] \subseteq 1..made
        BY <2>1, <2>2, <3>2
      <3>4. gone'[P] \cap DOMAIN cache[P] = {}
        <4> HIDE DEF job
        <4> QED BY <2>2, <2>3, <3>2
      <3> QED BY <2>1, <2>5, <3>1, <3>3, <3>4
    <2> QED BY <2>4, <2>5
  <1> HIDE DEF job
  <1>3. life[P] # "down" /\ (job.by = "poller" => life[P] # "booting")
    BY <1>0, <1>2 DEF Walking
  <1>4. SchedTypes(P)'
    <2>1. IsStore(file)' /\ IsStore(cache[P])'
      BY <1>0 DEF SchedTypes, IsStore
    <2>2. gone'[P] \subseteq Nat
      BY <1>a
    <2>3. /\ hand'[P] \in Runs \cup {Sched!NoRun} /\ sync'[P] \subseteq SyncMutations
          /\ applied'[P] \in BOOLEAN
      BY <1>0, <1>1 DEF SchedTypes
    <2> QED BY <1>0, <1>1, <1>2, <2>1, <2>2, <2>3 DEF SchedTypes
  <1>b. ASSUME NEW i, NEW e, Has(P, i, e)' PROVE Has(P, i, e)
    <2>1. ASSUME NEW n \in DOMAIN tick'[P].todo, tick'[P].todo[n].id = i, tick'[P].todo[n].entry = e
          PROVE  Has(P, i, e)
      BY <1>2, <2>1 DEF Has
    <2>2. ASSUME NEW n \in DOMAIN jobs'[P], jobs'[P][n].op = "create", jobs'[P][n].id = i, jobs'[P][n].with = e
          PROVE  Has(P, i, e)
      BY <1>1, <2>2 DEF Has
    <2>3. CASE hand'[P] # Sched!NoRun /\ hand'[P].id = i /\ hand'[P].entry = e
      BY <2>3 DEF Has
    <2>4. CASE i \in DOMAIN cache'[P] /\ e = cache'[P][i]
      BY <2>4 DEF Has
    <2> QED BY <1>b, <2>1, <2>2, <2>3, <2>4 DEF Has
  <1>5. (\A i, e : Known(i, e)' => Known(i, e)) /\ Kept
    <2>1. \A i, e : i \in DOMAIN file' /\ e = file'[i] => Known(i, e)
      BY DEF Known, Has
    <2> QED BY <1>b, <2>1, NothingNew DEF Known
  <1>6. Numbered(P)'
    BY <1>0, <1>1, <1>5 DEF Numbered
  <1>7. AllAlike'
    BY <1>5 DEF SchedInv, AllAlike
  <1>8. SyncIsSkilled(P)'
    BY <1>0, <1>1, <1>5 DEF SyncIsSkilled, Skilled
  <1>9. Removed(P)'
    <2>1. gone'[P] \cap (DOMAIN file' \cup DOMAIN cache'[P]) = {} /\ gone'[P] \subseteq 1..made'
      BY <1>a
    <2>2. ASSUME NEW n \in DOMAIN jobs'[P], jobs'[P][n].op = "create"
          PROVE  /\ jobs'[P][n].id \notin gone'[P]
                 /\ \A m \in DOMAIN jobs'[P] : m < n => jobs'[P][m].id # jobs'[P][n].id
      <3>1. /\ n + 1 \in DOMAIN jobs[P] /\ jobs'[P][n] = jobs[P][n + 1] /\ 1 < n + 1
            /\ \A m \in DOMAIN jobs'[P] : m < n => m + 1 < n + 1
        BY <1>1
      <3>2. /\ jobs[P][n + 1].id \notin gone[P]
            /\ \A m \in DOMAIN jobs[P] : m < n + 1 => jobs[P][m].id # jobs[P][n + 1].id
        BY <1>0, <2>2, <3>1 DEF Removed
      <3> QED BY <1>1, <3>1, <3>2 DEF job
    <2> QED BY <1>1, <2>1, <2>2 DEF Removed
  <1>10. Walking(P)'
    <2>1. /\ tick'[P].pc \in {"next", "run", "record"} => tick'[P].todo # <<>>
          /\ life'[P] = "booting" => tick'[P].pc = "off"
      BY <1>0, <1>2, <1>3 DEF Walking
    <2>2. ASSUME NEW m \in DOMAIN tick'[P].todo, NEW n \in DOMAIN tick'[P].todo,
                 tick'[P].todo[m].id = tick'[P].todo[n].id
          PROVE  m = n
      <3>1. CASE job.by # "poller"
        BY <1>0, <1>2, <2>2, <3>1 DEF Walking
      <3>2. CASE job.by = "poller"
        <4>1. m + 1 = n + 1 /\ m \in Nat /\ n \in Nat
          BY <1>0, <1>2, <2>2, <3>2 DEF Walking
        <4> QED BY <4>1
      <3> QED BY <3>1, <3>2
    <2>3. ASSUME NEW n \in DOMAIN jobs'[P], jobs'[P][n].by = "poller"
          PROVE  /\ tick'[P].pc = "record" /\ jobs'[P][n].id = Head(tick'[P].todo).id
                 /\ \/ Head(tick'[P].todo).entry.cron
                    \/ jobs'[P][n].with \in [lastRunAt : Nat, enabled : {FALSE}]
      <3>1. /\ n + 1 \in DOMAIN jobs[P] /\ jobs[P][n + 1].by = "poller"
            /\ jobs'[P][n] = jobs[P][n + 1] /\ n + 1 # 1
        BY <1>1, <2>3
      <3>2. job.by # "poller"
        BY <1>0, <1>1, <3>1 DEF Walking
      <3>3. tick'[P] = tick[P]
        BY <1>2, <3>2
      <3>4. /\ tick[P].pc = "record" /\ jobs[P][n + 1].id = Head(tick[P].todo).id
            /\ \/ Head(tick[P].todo).entry.cron
               \/ jobs[P][n + 1].with \in [lastRunAt : Nat, enabled : {FALSE}]
        BY ONLY <1>0, <3>1 DEF Walking
      <3> QED BY ONLY <3>1, <3>3, <3>4
    <2>4. ASSUME NEW m \in DOMAIN jobs'[P], NEW n \in DOMAIN jobs'[P],
                 jobs'[P][m].by = "poller", jobs'[P][n].by = "poller"
          PROVE  m = n
      <3>1. m + 1 = n + 1
        BY <1>0, <1>1, <2>4 DEF Walking
      <3> QED BY <1>1, <3>1
    <2>5. ~applied'[P] /\ life'[P] # "down"
      BY <1>1, <1>3
    <2> QED BY ONLY <2>1, <2>2, <2>3, <2>4, <2>5 DEF Walking
  <1>11. Once(P)'
    <2>1. ASSUME NEW i, Running(P, i) PROVE Running(P, i)'
      BY <1>1, <1>2, <2>1 DEF Running, job
    <2>2. \A i, e : Known(i, e)' /\ OneShot(e) => shots[P][i] <= 1
      BY <1>0, <1>5 DEF Once
    <2>3. ASSUME NEW n \in DOMAIN tick'[P].todo, OneShot(tick'[P].todo[n].entry),
                 n > 1 \/ tick'[P].pc = "next"
          PROVE  shots[P][tick'[P].todo[n].id] = 0
      <3>1. CASE job.by # "poller"
        BY <1>0, <1>2, <2>3, <3>1 DEF Once
      <3>2. CASE job.by = "poller"
        <4>1. /\ n + 1 \in DOMAIN tick[P].todo /\ n + 1 > 1
              /\ tick'[P].todo[n] = tick[P].todo[n + 1]
          BY <1>2, <3>2
        <4>2. OneShot(tick[P].todo[n + 1].entry)
          BY <2>3, <4>1
        <4> QED BY <1>0, <4>1, <4>2 DEF Once
      <3> QED BY <3>1, <3>2
    <2> QED BY <1>0, <1>3, <2>1, <2>2, <2>3 DEF Once
  <1> QED BY <1>4, <1>5, <1>6, <1>7, <1>8, <1>9, <1>10, <1>11 DEF SchedInv

\* The cardinality of the instance is that of the library.
LEMMA SchedCount == \A S : Sched!Cardinality(S) = Cardinality(S)
  BY DEF Sched!Cardinality, Cardinality

\* The walk of a tick has the entries that are due, each once, as they are now.
LEMMA WalkIs ==
  ASSUME NEW P, SchedTypes(P)
  PROVE  /\ Sched!Walk(P) \in Seq(Runs)
         /\ \A n \in DOMAIN Sched!Walk(P) :
              /\ Sched!Walk(P)[n].id \in Sched!DueIds(P) /\ Sched!Walk(P)[n].id \in DOMAIN cache[P]
              /\ Sched!Walk(P)[n].entry = cache[P][Sched!Walk(P)[n].id]
         /\ \A m, n \in DOMAIN Sched!Walk(P) : Sched!Walk(P)[m].id = Sched!Walk(P)[n].id => m = n
         /\ Sched!DueIds(P) # {} => Sched!Walk(P) # <<>>
  <1> DEFINE S == Sched!DueIds(P)
             N == Sched!Cardinality(S)
             Nth(n) == CHOOSE i \in S : Sched!Cardinality({j \in S : j <= i}) = n
  <1>1. /\ made \in Nat /\ S \in SUBSET (1..made) /\ S \subseteq DOMAIN cache[P]
        /\ \A i \in S : cache[P][i] \in Entries
    BY SchedulerConstants DEF SchedTypes, IsStore, Sched!DueIds, Sched!SchedulerAssumption
  <1>2. IsFiniteSet(S) /\ N \in Nat
    <2>1. IsFiniteSet(1..made)
      BY <1>1, FS_Interval
    <2>2. IsFiniteSet(S)
      BY <1>1, <2>1, FS_Subset
    <2> QED BY <2>2, FS_CardinalityType, SchedCount
  <1>3. \A n \in 1..N : \E i \in S : Sched!Cardinality({j \in S : j <= i}) = n
    <2>1. \A n \in 1..Cardinality(S) : \E i \in S : Cardinality({j \in S : j <= i}) = n
      BY <1>1, Ranked
    <2>2. N = Cardinality(S)
      BY SchedCount
    <2>3. \A i : Sched!Cardinality({j \in S : j <= i}) = Cardinality({j \in S : j <= i})
      BY SchedCount
    <2> HIDE DEF S, N
    <2> QED BY <2>1, <2>2, <2>3
  <1>4. \A n \in 1..N : Nth(n) \in S /\ Sched!Cardinality({j \in S : j <= Nth(n)}) = n
    BY <1>3
  <1>5. Sched!Walk(P) = [n \in 1..N |-> [id |-> Nth(n), entry |-> cache[P][Nth(n)]]]
    BY DEF Sched!Walk
  <1>6. S # {} => N # 0
    BY <1>2, FS_EmptySet, SchedCount
  <1> HIDE DEF S, N, Nth
  <1>7. \A n \in 1..N : [id |-> Nth(n), entry |-> cache[P][Nth(n)]] \in Runs
    <2> SUFFICES ASSUME NEW n \in 1..N PROVE [id |-> Nth(n), entry |-> cache[P][Nth(n)]] \in Runs
      OBVIOUS
    <2>1. Nth(n) \in 1..made /\ cache[P][Nth(n)] \in Entries
      BY <1>1, <1>4
    <2>2. Nth(n) \in Nat \ {0}
      BY <1>1, <2>1
    <2> QED BY <2>1, <2>2 DEF Runs
  <1>8. Sched!Walk(P) \in Seq(Runs) /\ DOMAIN Sched!Walk(P) = 1..N
    BY <1>2, <1>5, <1>7
  <1>9. \A n \in 1..N : Sched!Walk(P)[n].id = Nth(n) /\ Sched!Walk(P)[n].entry = cache[P][Nth(n)]
    BY <1>5
  <1>10. \A m, n \in 1..N : Sched!Walk(P)[m].id = Sched!Walk(P)[n].id => m = n
    BY <1>4, <1>9
  <1>11. S # {} => Sched!Walk(P) # <<>>
    <2>1. Sched!Walk(P) = <<>> => DOMAIN Sched!Walk(P) = {}
      OBVIOUS
    <2> QED BY <1>2, <1>6, <1>8, <2>1
  <1>12. \A n \in DOMAIN Sched!Walk(P) :
           /\ Sched!Walk(P)[n].id \in S /\ Sched!Walk(P)[n].id \in DOMAIN cache[P]
           /\ Sched!Walk(P)[n].entry = cache[P][Sched!Walk(P)[n].id]
    BY <1>1, <1>4, <1>8, <1>9
  <1>13. \A m, n \in DOMAIN Sched!Walk(P) : Sched!Walk(P)[m].id = Sched!Walk(P)[n].id => m = n
    BY <1>8, <1>10
  <1> QED BY ONLY <1>8, <1>11, <1>12, <1>13 DEF S

\* A tick begins.
LEMMA TickBegins ==
  ASSUME NEW P, P \in Procs, SchedInv(P), Others(P), Sched!BeginTick(P)
  PROVE  SchedInv(P)' /\ Kept
  <1>0. SchedTypes(P) /\ Walking(P) /\ Once(P)
    BY DEF SchedInv
  <1>1. /\ tick[P].pc = "idle" /\ Sched!DueIds(P) # {} /\ life[P] = "up" /\ DOMAIN tick' = Procs
        /\ tick'[P].pc = "next" /\ tick'[P].todo = Sched!Walk(P)
        /\ tick'[P] = [pc |-> "next", todo |-> Sched!Walk(P)]
        /\ UNCHANGED <<now, file, skill, life, cache, jobs, applied, hand, sync, made, shots, gone>>
    BY <1>0 DEF Sched!BeginTick, SchedTypes, Sched!counters, Sched!history
  <1>2. /\ Sched!Walk(P) \in Seq(Runs) /\ Sched!Walk(P) # <<>>
        /\ \A n \in DOMAIN Sched!Walk(P) :
             /\ Sched!Walk(P)[n].id \in Sched!DueIds(P) /\ Sched!Walk(P)[n].id \in DOMAIN cache[P]
             /\ Sched!Walk(P)[n].entry = cache[P][Sched!Walk(P)[n].id]
        /\ \A m, n \in DOMAIN Sched!Walk(P) : Sched!Walk(P)[m].id = Sched!Walk(P)[n].id => m = n
    BY <1>0, <1>1, WalkIs
  <1>3. SchedTypes(P)'
    BY <1>0, <1>1, <1>2 DEF SchedTypes, IsStore
  <1>4. (\A i, e : Known(i, e)' => Known(i, e)) /\ Kept
    <2>1. \A i, e : Has(P, i, e)' => Known(i, e)
      BY <1>1, <1>2 DEF Known, Has
    <2>2. \A i, e : i \in DOMAIN file' /\ e = file'[i] => Known(i, e)
      BY <1>1, <1>2 DEF Known
    <2> QED BY <2>1, <2>2, NothingNew
  <1>5. Numbered(P)' /\ AllAlike' /\ SyncIsSkilled(P)' /\ Removed(P)'
    BY <1>1, <1>4 DEF SchedInv, Numbered, AllAlike, SyncIsSkilled, Skilled, Removed
  <1>6. \A n \in DOMAIN jobs[P] : jobs[P][n].by # "poller"
    BY <1>0, <1>1 DEF Walking
  <1>7. Walking(P)'
    BY <1>0, <1>1, <1>2, <1>6 DEF Walking
  <1>8. \A i : ~Running(P, i)
    BY <1>1 DEF Running
  <1>9. \A i \in Sched!DueIds(P) : cache[P][i].enabled
    BY DEF Sched!DueIds, Sched!isDue
  <1>10. \A n \in DOMAIN Sched!Walk(P) : OneShot(Sched!Walk(P)[n].entry) => shots[P][Sched!Walk(P)[n].id] = 0
    BY <1>0, <1>2, <1>8, <1>9 DEF Once
  <1>11. Once(P)'
    BY <1>0, <1>1, <1>4, <1>8, <1>10 DEF Once, Running
  <1> QED BY <1>3, <1>4, <1>5, <1>7, <1>11 DEF SchedInv

\* The run of the head of the walk begins.
LEMMA RunBegins ==
  ASSUME NEW P, P \in Procs, SchedInv(P), Others(P), Sched!PollerRuns(P)
  PROVE  SchedInv(P)' /\ Kept
  <1>h. PICK h : h = Head(tick[P].todo).id
    OBVIOUS
  <1>0. SchedTypes(P) /\ Walking(P) /\ Once(P) /\ Numbered(P)
    BY DEF SchedInv
  <1>1. /\ tick[P].pc = "next" /\ DOMAIN tick' = Procs
        /\ tick'[P] \in [pc : {"off", "idle", "next", "run", "record"}, todo : Seq(Runs)]
        /\ tick'[P].pc = "run" /\ tick'[P].todo = tick[P].todo
        /\ UNCHANGED <<now, file, skill, life, cache, jobs, applied, hand, sync, made, gone>>
        /\ DOMAIN shots' = Procs
        /\ shots'[P] = [shots[P] EXCEPT ![h] = IF @ = 2 THEN 2 ELSE @ + 1]
    BY <1>0, <1>h DEF Sched!PollerRuns, SchedTypes, Sched!counters
  <1>2. tick[P].todo \in Seq(Runs) /\ tick[P].todo # <<>>
    BY <1>0, <1>1 DEF SchedTypes, Walking
  <1>3. /\ Head(tick[P].todo) = tick[P].todo[1] /\ 1 \in DOMAIN tick[P].todo
        /\ DOMAIN tick[P].todo \subseteq Nat \ {0}
    BY <1>2, Unqueued
  <1>4. Known(h, Head(tick[P].todo).entry)
    BY <1>3, <1>h DEF Known, Has
  <1>5. h \in 1..made /\ h \in Sched!Ids /\ \A i \in 1..made : i \in Sched!Ids
    <2>1. h \in 1..made /\ made \in 0..MaxEntries /\ MaxEntries \in Nat
      BY <1>0, <1>4, SchedulerConstants DEF Numbered, SchedTypes, Sched!SchedulerAssumption
    <2> QED BY <2>1 DEF Sched!Ids
  <1>6. /\ shots'[P] \in [Sched!Ids -> 0..2] /\ \A i \in Sched!Ids : i # h => shots'[P][i] = shots[P][i]
        /\ shots[P][h] = 0 => shots'[P][h] = 1
    <2>1. shots[P] \in [Sched!Ids -> 0..2]
      BY <1>0 DEF SchedTypes
    <2>2. \A x \in 0..2 : (IF x = 2 THEN 2 ELSE x + 1) \in 0..2
      OBVIOUS
    <2> QED BY <1>1, <1>5, <2>1, <2>2
  <1>7. SchedTypes(P)'
    BY <1>0, <1>1, <1>6 DEF SchedTypes, IsStore
  <1>8. (\A i, e : Known(i, e)' => Known(i, e)) /\ Kept
    <2>1. \A i, e : Has(P, i, e)' => Known(i, e)
      BY <1>1 DEF Known, Has
    <2>2. \A i, e : i \in DOMAIN file' /\ e = file'[i] => Known(i, e)
      BY <1>1 DEF Known
    <2> QED BY <2>1, <2>2, NothingNew
  <1>9. AllAlike' /\ SyncIsSkilled(P)' /\ Removed(P)'
    BY <1>1, <1>8 DEF SchedInv, AllAlike, SyncIsSkilled, Skilled, Removed
  <1>10. Numbered(P)'
    BY <1>0, <1>1, <1>5, <1>6, <1>8 DEF Numbered, SchedTypes
  <1>11. \A n \in DOMAIN jobs[P] : jobs[P][n].by # "poller"
    BY <1>0, <1>1 DEF Walking
  <1>12. Walking(P)'
    BY <1>0, <1>1, <1>11 DEF Walking, Sched!OffTick
  <1>13. \A i : ~Running(P, i)
    BY <1>1 DEF Running
  <1>14. Running(P, h)'
    BY <1>1, <1>h DEF Running
  <1>15. OneShot(Head(tick[P].todo).entry) => shots[P][h] = 0
    BY <1>0, <1>1, <1>3, <1>h DEF Once
  <1>16. ASSUME NEW i, NEW e, Known(i, e), OneShot(e)
         PROVE  shots'[P][i] <= 1
    <2>1. i \in Sched!Ids
      BY <1>0, <1>5, <1>16 DEF Numbered
    <2>2. CASE i # h
      BY <1>0, <1>6, <1>16, <2>1, <2>2 DEF Once
    <2>3. CASE i = h
      <3>1. Alike(e, Head(tick[P].todo).entry)
        BY <1>4, <1>16, <2>3 DEF SchedInv, AllAlike
      <3>2. OneShot(Head(tick[P].todo).entry)
        BY <1>16, <3>1 DEF Alike, OneShot
      <3> QED BY <1>6, <1>15, <2>3, <3>2
    <2> QED BY <2>2, <2>3
  <1>17. Once(P)'
    <2>1. ASSUME NEW i \in DOMAIN cache[P], OneShot(cache[P][i]), cache[P][i].enabled, ~Running(P, i)'
          PROVE  shots'[P][i] = 0
      <3>1. i # h /\ i \in Sched!Ids
        BY <1>0, <1>5, <1>14, <2>1 DEF SchedTypes, IsStore
      <3> QED BY <1>0, <1>6, <1>13, <2>1, <3>1 DEF Once
    <2>2. ASSUME NEW n \in DOMAIN tick[P].todo, OneShot(tick[P].todo[n].entry), n > 1
          PROVE  shots'[P][tick[P].todo[n].id] = 0
      <3>1. Known(tick[P].todo[n].id, tick[P].todo[n].entry)
        BY DEF Known, Has
      <3>2. tick[P].todo[n].id \in Sched!Ids
        BY <1>0, <1>5, <3>1 DEF Numbered
      <3>3. tick[P].todo[n].id # h
        BY <1>0, <1>3, <1>h, <2>2 DEF Walking
      <3> QED BY <1>0, <1>6, <2>2, <3>2, <3>3 DEF Once
    <2>3. tick'[P].pc # "next"
      BY <1>1
    <2> QED BY <1>1, <1>8, <1>16, <2>1, <2>2, <2>3 DEF Once
  <1> QED BY <1>7, <1>8, <1>9, <1>10, <1>12, <1>17 DEF SchedInv

\* A run by hand begins.
LEMMA HandBegins ==
  ASSUME NEW P, P \in Procs, SchedInv(P), Others(P), NEW i0, Sched!RunNow(P, i0)
  PROVE  SchedInv(P)' /\ Kept
  <1>0. SchedTypes(P) /\ Walking(P) /\ Once(P) /\ Numbered(P)
    BY DEF SchedInv
  <1>1. /\ life[P] = "up" /\ i0 \in DOMAIN cache[P] /\ DOMAIN hand' = Procs
        /\ hand'[P] = [id |-> i0, entry |-> cache[P][i0]]
        /\ UNCHANGED <<now, file, skill, life, cache, jobs, applied, tick, sync, made, shots, gone>>
    BY <1>0 DEF Sched!RunNow, SchedTypes, Sched!history
  <1>2. hand'[P] \in Runs
    <2>1. i0 \in 1..made /\ made \in Nat /\ cache[P][i0] \in Entries
      BY <1>0, <1>1, SchedulerConstants DEF SchedTypes, IsStore, Sched!SchedulerAssumption
    <2> QED BY <1>1, <2>1 DEF Runs
  <1>3. SchedTypes(P)'
    BY <1>0, <1>1, <1>2 DEF SchedTypes, IsStore
  <1>4. (\A i, e : Known(i, e)' => Known(i, e)) /\ Kept
    <2>1. \A i, e : Has(P, i, e)' => Known(i, e)
      BY <1>1 DEF Known, Has
    <2>2. \A i, e : i \in DOMAIN file' /\ e = file'[i] => Known(i, e)
      BY <1>1 DEF Known
    <2> QED BY <2>1, <2>2, NothingNew
  <1>5. Numbered(P)' /\ AllAlike' /\ SyncIsSkilled(P)' /\ Removed(P)'
    BY <1>1, <1>4 DEF SchedInv, Numbered, AllAlike, SyncIsSkilled, Skilled, Removed
  <1>6. Walking(P)'
    BY <1>0, <1>1 DEF Walking
  <1>7. Once(P)'
    BY <1>0, <1>1, <1>4 DEF Once, Running
  <1> QED BY <1>3, <1>4, <1>5, <1>6, <1>7 DEF SchedInv

\* The process is gone.
LEMMA Died ==
  ASSUME NEW P, P \in Procs, SchedInv(P), Others(P), Sched!Dies(P)
  PROVE  SchedInv(P)' /\ Kept
  <1>0. SchedTypes(P) /\ Removed(P) /\ Once(P) /\ Numbered(P)
    BY DEF SchedInv
  <1>1. /\ life'[P] = "down" /\ cache'[P] = <<>> /\ jobs'[P] = <<>> /\ applied'[P] = FALSE
        /\ tick'[P] = Sched!OffTick /\ hand'[P] = Sched!NoRun /\ sync'[P] = {}
        /\ DOMAIN life' = Procs /\ DOMAIN cache' = Procs /\ DOMAIN jobs' = Procs
        /\ DOMAIN applied' = Procs /\ DOMAIN tick' = Procs /\ DOMAIN hand' = Procs
        /\ DOMAIN sync' = Procs
        /\ UNCHANGED <<now, file, skill, made, shots, gone>>
    BY <1>0 DEF Sched!Dies, SchedTypes, Sched!history
  <1>2. DOMAIN (<<>>) = {} /\ <<>> \in Seq(Runs) /\ <<>> \in Seq(Mutations)
    OBVIOUS
  <1>3. SchedTypes(P)'
    <2>1. Sched!OffTick \in [pc : {"off", "idle", "next", "run", "record"}, todo : Seq(Runs)]
      BY <1>2 DEF Sched!OffTick
    <2>2. IsStore(file)' /\ IsStore(cache[P])'
      BY <1>0, <1>1, <1>2 DEF SchedTypes, IsStore
    <2> QED BY <1>0, <1>1, <1>2, <2>1, <2>2 DEF SchedTypes
  <1>4. (\A i, e : Known(i, e)' => Known(i, e)) /\ Kept
    <2>1. \A i, e : ~Has(P, i, e)'
      BY <1>1, <1>2 DEF Has, Sched!OffTick
    <2>2. \A i, e : i \in DOMAIN file' /\ e = file'[i] => Known(i, e)
      BY <1>1 DEF Known
    <2> QED BY <2>1, <2>2, NothingNew
  <1>5. Numbered(P)' /\ AllAlike' /\ SyncIsSkilled(P)'
    BY <1>0, <1>1, <1>2, <1>4 DEF SchedInv, Numbered, AllAlike, SyncIsSkilled
  <1>6. Removed(P)'
    BY <1>0, <1>1, <1>2 DEF Removed
  <1>7. Walking(P)'
    BY <1>1, <1>2 DEF Walking, Sched!OffTick
  <1>8. Once(P)'
    BY <1>0, <1>1, <1>2, <1>4 DEF Once, Sched!OffTick
  <1> QED BY <1>3, <1>4, <1>5, <1>6, <1>7, <1>8 DEF SchedInv

\* The rows of a skill in the entries c.
LEMMA RowIs ==
  ASSUME NEW c, NEW n \in Nat, DOMAIN c \subseteq 1..n, NEW s, Sched!RowOf(c, s) # 0
  PROVE  Sched!RowOf(c, s) \in DOMAIN c /\ c[Sched!RowOf(c, s)].skill = s
  <1> DEFINE rows == {i \in DOMAIN c : c[i].skill = s}
  <1>1. rows # {} /\ rows \in SUBSET (1..n) /\ rows \in SUBSET DOMAIN c
    BY DEF Sched!RowOf
  <1>2. \E i \in rows : \A j \in rows : j <= i
    BY <1>1, Greatest
  <1>3. Sched!RowOf(c, s) = CHOOSE i \in rows : \A j \in rows : j <= i
    BY <1>1 DEF Sched!RowOf
  <1>4. Sched!RowOf(c, s) \in rows
    BY <1>2, <1>3
  <1> QED BY <1>4

\* What a reconciliation of the entries c plans.
LEMMA PlanIs ==
  ASSUME NEW c, IsStore(c), now \in Nat, made \in Nat,
         NEW wants \in [Skills -> DraftRecords], NEW job \in Sched!Plan(c, wants)
  PROVE  /\ job \in SyncMutations
         /\ job.op # "create" => job.id \in DOMAIN c /\ c[job.id].skill # NoSkill
  <1>1. \A s : Sched!RowOf(c, s) # 0 => Sched!RowOf(c, s) \in DOMAIN c /\ c[Sched!RowOf(c, s)].skill = s
    BY RowIs DEF IsStore
  <1>2. DOMAIN c \subseteq Nat /\ NoSkill \notin Skills
    BY SchedulerConstants DEF IsStore, Sched!SchedulerAssumption
  <1>3. CASE \E s \in Skills : Sched!RowOf(c, s) # 0 /\ job = Sched!Job("sync", "delete", Sched!RowOf(c, s), <<>>)
    BY <1>1, <1>2, <1>3 DEF Sched!Job, SyncMutations
  <1>4. CASE \E s \in Skills : job = Sched!Job("sync", "create", 0, Sched!NewEntry(wants[s], s))
    <2>1. PICK s \in Skills : job = Sched!Job("sync", "create", 0, Sched!NewEntry(wants[s], s))
      BY <1>4
    <2>2. wants[s] \in DraftRecords
      OBVIOUS
    <2>3. Sched!NewEntry(wants[s], s) \in [cron : BOOLEAN, runAt : Nat, enabled : BOOLEAN, createdAt : Nat,
                                     lastRunAt : {Sched!Never}, skill : Skills]
      BY <2>2 DEF Sched!NewEntry, DraftRecords
    <2> QED BY <2>1, <2>3 DEF Sched!Job, SyncMutations
  <1>5. CASE \E s \in Skills : Sched!RowOf(c, s) # 0 /\ job = Sched!Job("sync", "update", Sched!RowOf(c, s), wants[s])
    BY <1>1, <1>2, <1>5 DEF Sched!Job, SyncMutations
  <1> QED BY <1>3, <1>4, <1>5 DEF Sched!Plan

\* What a skill may ask for.
LEMMA DraftsAre == Sched!Drafts \cup {Sched!NoDraft} \subseteq DraftRecords
  <1>1. Sched!NoDraft \in DraftRecords
    BY DEF Sched!NoDraft, DraftRecords
  <1>2. ASSUME NEW d \in Sched!Drafts PROVE d \in DraftRecords
    <2>1. PICK c \in BOOLEAN : d = [cron |-> c, runAt |-> 1, enabled |-> TRUE]
      BY DEF Sched!Drafts
    <2> QED BY <2>1 DEF DraftRecords
  <1> QED BY <1>1, <1>2

\* What is planned from entries that are known updates rows of skills.
LEMMA Planned ==
  ASSUME NEW P, P \in Procs, SchedInv(P), NEW c, IsStore(c), \A i \in DOMAIN c : Known(i, c[i]),
         NEW wants \in [Skills -> DraftRecords]
  PROVE  /\ Sched!Plan(c, wants) \subseteq SyncMutations
         /\ \A job \in Sched!Plan(c, wants) : Skilled(job) /\ (job.op # "create" => job.id \in 1..made)
  <1> SUFFICES ASSUME NEW job \in Sched!Plan(c, wants)
               PROVE  job \in SyncMutations /\ Skilled(job) /\ (job.op # "create" => job.id \in 1..made)
    OBVIOUS
  <1>1. now \in Nat /\ made \in Nat
    BY SchedulerConstants DEF SchedInv, SchedTypes, Sched!SchedulerAssumption
  <1>2. /\ job \in SyncMutations
        /\ job.op # "create" => job.id \in DOMAIN c /\ c[job.id].skill # NoSkill
    BY <1>1, PlanIs
  <1>3. job.op # "create" => job.id \in 1..made
    BY <1>2 DEF IsStore
  <1>4. Skilled(job)
    <2> SUFFICES ASSUME job.op = "update", NEW e, Known(job.id, e) PROVE e.skill # NoSkill
      BY DEF Skilled
    <2>1. Known(job.id, c[job.id]) /\ c[job.id].skill # NoSkill
      BY <1>2
    <2>2. Alike(e, c[job.id])
      BY <2>1 DEF SchedInv, AllAlike
    <2> QED BY <2>1, <2>2 DEF Alike
  <1> QED BY <1>2, <1>3, <1>4

\* A process boots: its cache is the file.
LEMMA Boots ==
  ASSUME NEW P, P \in Procs, SchedInv(P), Others(P), Sched!Boot(P)
  PROVE  SchedInv(P)' /\ Kept
  <1>0. SchedTypes(P) /\ Removed(P) /\ Once(P) /\ Numbered(P) /\ Walking(P) /\ SyncIsSkilled(P)
    BY DEF SchedInv
  <1>1. /\ life[P] = "down" /\ life'[P] = "booting" /\ cache'[P] = file
        /\ sync'[P] = Sched!Plan(file, skill)
        /\ DOMAIN life' = Procs /\ DOMAIN cache' = Procs /\ DOMAIN sync' = Procs
        /\ UNCHANGED <<now, file, skill, jobs, applied, tick, hand, made, gone>>
    BY <1>0 DEF Sched!Boot, SchedTypes, Sched!counters, Sched!history
  <1>2. /\ jobs[P] = <<>> /\ ~applied[P] /\ tick[P] = Sched!OffTick /\ hand[P] = Sched!NoRun
        /\ DOMAIN (<<>>) = {}
    BY <1>0, <1>1 DEF Walking
  <1>3. /\ Sched!Plan(file, skill) \subseteq SyncMutations
        /\ \A job \in Sched!Plan(file, skill) : Skilled(job) /\ (job.op # "create" => job.id \in 1..made)
    <2>1. IsStore(file) /\ \A i \in DOMAIN file : Known(i, file[i])
      BY <1>0 DEF SchedTypes, Known
    <2>2. skill \in [Skills -> DraftRecords]
      BY <1>0 DEF SchedTypes
    <2> QED BY <2>1, <2>2, Planned
  <1>5. /\ shots'[P] \in [Sched!Ids -> 0..2] /\ DOMAIN shots' = Procs
        /\ \A i \in Sched!Ids : shots'[P][i] \in {shots[P][i], 0}
        /\ \A i \in Sched!Ids \cap DOMAIN file : file[i].enabled => shots'[P][i] = 0
    <2>1. shots[P] \in [Sched!Ids -> 0..2] /\ DOMAIN shots = Procs
      BY <1>0 DEF SchedTypes
    <2>2. /\ shots'[P] = [i \in Sched!Ids |-> IF i \in DOMAIN file /\ ~file[i].enabled THEN shots[P][i] ELSE 0]
          /\ DOMAIN shots' = Procs
      BY <2>1 DEF Sched!Boot
    <2>3. \A i \in Sched!Ids : shots'[P][i] = IF i \in DOMAIN file /\ ~file[i].enabled THEN shots[P][i] ELSE 0
      BY <2>2
    <2>4. DOMAIN shots'[P] = Sched!Ids
      BY <2>2
    <2> QED BY <2>1, <2>2, <2>3, <2>4
  <1>4. SchedTypes(P)'
    BY <1>0, <1>1, <1>3, <1>5 DEF SchedTypes, IsStore
  <1>6. (\A i, e : Known(i, e)' => Known(i, e)) /\ Kept
    <2>1. \A i, e : Has(P, i, e)' => Known(i, e)
      BY <1>1, <1>2 DEF Has, Known, Sched!OffTick
    <2>2. \A i, e : i \in DOMAIN file' /\ e = file'[i] => Known(i, e)
      BY <1>1 DEF Known
    <2> QED BY <2>1, <2>2, NothingNew
  <1>a. \A i, e : Known(i, e) => i \in Sched!Ids /\ (OneShot(e) => shots'[P][i] <= 1)
    <2>1. made \in 0..MaxEntries /\ MaxEntries \in Nat
      BY <1>0, SchedulerConstants DEF SchedTypes, Sched!SchedulerAssumption
    <2>2. \A i, e : Known(i, e) => i \in Sched!Ids
      BY <1>0, <2>1 DEF Numbered, Sched!Ids
    <2> QED BY <1>0, <1>5, <2>2 DEF Once
  <1>7. Numbered(P)'
    BY <1>0, <1>1, <1>3, <1>5, <1>6 DEF Numbered
  <1>8. AllAlike'
    BY <1>6 DEF SchedInv, AllAlike
  <1>9. SyncIsSkilled(P)'
    BY <1>1, <1>2, <1>3, <1>6 DEF SyncIsSkilled, Skilled
  <1>10. Removed(P)'
    BY <1>0, <1>1, <1>2 DEF Removed
  <1>11. Walking(P)'
    BY <1>0, <1>1, <1>2 DEF Walking, Sched!OffTick
  <1>12. Once(P)'
    <2>1. \A i \in DOMAIN file : file[i].enabled => shots'[P][i] = 0
      <3>1. \A i \in DOMAIN file : Known(i, file[i])
        BY DEF Known
      <3> QED BY <1>5, <1>a, <3>1
    <2> QED BY <1>1, <1>2, <1>6, <1>a, <2>1 DEF Once, Sched!OffTick
  <1> QED BY <1>4, <1>6, <1>7, <1>8, <1>9, <1>10, <1>11, <1>12 DEF SchedInv

\* A step that leaves the schedules, the tick and the runs as they are.
LEMMA SchedStays ==
  ASSUME NEW P, P \in Procs, SchedInv(P), Others(P),
         UNCHANGED <<file, cache, jobs, applied, hand, made, shots, gone>>,
         now' \in Nat, skill' \in [Skills -> DraftRecords],
         DOMAIN life' = Procs, DOMAIN tick' = Procs, DOMAIN sync' = Procs,
         \/ UNCHANGED <<life, tick>>
         \/ life[P] = "booting" /\ life'[P] = "up" /\ tick'[P] = Sched!IdleTick
         \/ life[P] = "up" /\ life'[P] = "stopping" /\ UNCHANGED tick,
         \/ UNCHANGED sync
         \/ /\ life[P] # "down" /\ sync'[P] \subseteq SyncMutations
            /\ \A job \in sync'[P] : Skilled(job) /\ (job.op # "create" => job.id \in 1..made)
  PROVE  SchedInv(P)' /\ Kept
  <1>0. SchedTypes(P) /\ Removed(P) /\ Once(P) /\ Numbered(P) /\ Walking(P) /\ SyncIsSkilled(P)
    BY DEF SchedInv
  <1>1. /\ life'[P] \in {"down", "booting", "up", "stopping"}
        /\ tick'[P] = tick[P] \/ (tick[P].pc = "off" /\ tick'[P] = Sched!IdleTick /\ life'[P] = "up")
        /\ life'[P] \in {"down", "booting"} => life'[P] = life[P] /\ tick'[P] = tick[P]
    BY <1>0 DEF SchedTypes, Walking
  <1>2. /\ sync'[P] \subseteq SyncMutations /\ (life[P] = "down" => sync'[P] = sync[P])
        /\ \A job \in sync'[P] : Skilled(job) /\ (job.op # "create" => job.id \in 1..made)
    BY <1>0 DEF SchedTypes, SyncIsSkilled, Numbered
  <1>3. DOMAIN (<<>>) = {} /\ <<>> \in Seq(Runs)
    OBVIOUS
  <1>4. SchedTypes(P)'
    <2>1. Sched!IdleTick \in [pc : {"off", "idle", "next", "run", "record"}, todo : Seq(Runs)]
      BY <1>3 DEF Sched!IdleTick
    <2>2. tick'[P] \in [pc : {"off", "idle", "next", "run", "record"}, todo : Seq(Runs)]
      BY <1>0, <1>1, <2>1 DEF SchedTypes
    <2> QED BY <1>0, <1>1, <1>2, <2>2 DEF SchedTypes, IsStore
  <1>5. (\A i, e : Known(i, e)' => Known(i, e)) /\ Kept
    <2>1. \A i, e : Has(P, i, e)' => Known(i, e)
      BY <1>1, <1>3 DEF Has, Known, Sched!IdleTick
    <2>2. \A i, e : i \in DOMAIN file' /\ e = file'[i] => Known(i, e)
      BY DEF Known
    <2> QED BY <2>1, <2>2, NothingNew
  <1>6. Numbered(P)'
    BY <1>0, <1>2, <1>5 DEF Numbered
  <1>7. AllAlike'
    BY <1>5 DEF SchedInv, AllAlike
  <1>8. SyncIsSkilled(P)'
    BY <1>0, <1>2, <1>5 DEF SyncIsSkilled, Skilled
  <1>9. Removed(P)'
    BY <1>0 DEF Removed
  <1>10. Walking(P)'
    <2>1. CASE tick'[P] = tick[P]
      BY <1>0, <1>1, <1>2, <2>1 DEF Walking
    <2>2. CASE tick[P].pc = "off" /\ tick'[P] = Sched!IdleTick /\ life'[P] = "up"
      <3>1. \A n \in DOMAIN jobs[P] : jobs[P][n].by # "poller"
        BY <1>0, <2>2 DEF Walking
      <3>2. tick'[P].pc = "idle" /\ tick'[P].todo = <<>>
        BY <2>2 DEF Sched!IdleTick
      <3> QED BY <1>0, <1>3, <2>2, <3>1, <3>2 DEF Walking
    <2> QED BY <1>1, <2>1, <2>2
  <1>11. Once(P)'
    BY <1>0, <1>1, <1>3, <1>5 DEF Once, Running, Sched!IdleTick
  <1> QED BY <1>4, <1>5, <1>6, <1>7, <1>8, <1>9, <1>10, <1>11 DEF SchedInv

\* A skill comes up, and what its schedule asks for is planned.
LEMMA SkillComes ==
  ASSUME NEW P, P \in Procs, SchedInv(P), Others(P), NEW s \in Skills, NEW draft \in Sched!Drafts, Sched!SkillCreated(P, s, draft)
  PROVE  SchedInv(P)' /\ Kept
  <1>0. SchedTypes(P)
    BY DEF SchedInv
  <1>1. draft \in DraftRecords
    BY DraftsAre
  <1>2. skill' \in [Skills -> DraftRecords]
    BY <1>0, <1>1 DEF Sched!SkillCreated, SchedTypes
  <1>3. sync'[P] = Sched!Plan(cache[P], skill') /\ DOMAIN sync' = Procs /\ life[P] = "up"
    BY <1>0 DEF Sched!SkillCreated, SchedTypes
  <1>4. IsStore(cache[P]) /\ \A i \in DOMAIN cache[P] : Known(i, cache[P][i])
    BY <1>0 DEF SchedTypes, Known, Has
  <1>5. /\ sync'[P] \subseteq SyncMutations
        /\ \A job \in sync'[P] : Skilled(job) /\ (job.op # "create" => job.id \in 1..made)
    BY <1>2, <1>3, <1>4, Planned
  <1>6. /\ UNCHANGED <<file, cache, jobs, applied, hand, made, shots, gone>>
        /\ now' \in Nat /\ DOMAIN life' = Procs /\ DOMAIN tick' = Procs
        /\ UNCHANGED <<life, tick>>
    BY <1>0 DEF Sched!SkillCreated, SchedTypes, Sched!history
  <1> QED BY <1>2, <1>3, <1>5, <1>6, SchedStays

\* The outcome of a run of an entry.
LEMMA OutcomeIs ==
  ASSUME NEW P, SchedInv(P), NEW by \in {"poller", "hand"}, NEW run \in Runs,
         Known(run.id, run.entry)
  PROVE  LET job == Sched!Outcome(by, run) IN
         /\ job \in Mutations /\ Skilled(job) /\ job.by = by /\ job.op = "update"
         /\ job.id = run.id /\ job.id \in 1..made
         /\ run.entry.cron \/ job.with \in [lastRunAt : Nat, enabled : {FALSE}]
  <1> DEFINE job == Sched!Outcome(by, run)
  <1>1. now \in Nat /\ run.id \in 1..made /\ run.id \in Nat
    BY DEF SchedInv, SchedTypes, Numbered, Runs
  <1>2. /\ job.by = by /\ job.op = "update" /\ job.id = run.id
        /\ job = [by |-> by, op |-> "update", id |-> run.id, with |-> job.with]
    BY DEF Sched!Outcome, Sched!Job
  <1>3. CASE run.entry.cron
    <2>1. job.with \in [lastRunAt : Nat]
      BY <1>1, <1>3 DEF Sched!Outcome, Sched!Job
    <2> HIDE DEF job
    <2>2. job \in RunMutations
      BY <1>1, <1>2, <2>1 DEF RunMutations, Outcomes
    <2> QED BY <1>1, <1>2, <1>3, <2>2 DEF Mutations, Skilled, job
  <1>4. CASE ~run.entry.cron
    <2>1. job.with \in [lastRunAt : Nat, enabled : {FALSE}]
      BY <1>1, <1>4 DEF Sched!Outcome, Sched!Job
    <2> HIDE DEF job
    <2>2. job \in RunMutations
      BY <1>1, <1>2, <2>1 DEF RunMutations, Outcomes
    <2> QED BY <1>1, <1>2, <2>1, <2>2 DEF Mutations, Skilled, job
  <1> QED BY <1>3, <1>4

\* The poller puts the outcome of its run into the queue.
LEMMA PollerPuts ==
  ASSUME NEW P, P \in Procs, SchedInv(P), Others(P), Sched!PollerRecords(P)
  PROVE  SchedInv(P)' /\ Kept
  <1> DEFINE run == Head(tick[P].todo)
             job == Sched!Outcome("poller", run)
  <1>0. SchedTypes(P) /\ Walking(P)
    BY DEF SchedInv
  <1>1. tick[P].todo \in Seq(Runs) /\ tick[P].todo # <<>> /\ tick[P].pc = "run"
    BY <1>0 DEF Sched!PollerRecords, SchedTypes, Walking
  <1>2. run \in Runs /\ Known(run.id, run.entry)
    <2>1. run = tick[P].todo[1] /\ 1 \in DOMAIN tick[P].todo /\ run \in Runs
      BY <1>1, Unqueued
    <2> QED BY <2>1 DEF Known, Has
  <1>3. /\ job \in Mutations /\ Skilled(job) /\ job.by = "poller" /\ job.op = "update"
        /\ job.id = run.id /\ job.id \in 1..made
        /\ run.entry.cron \/ job.with \in [lastRunAt : Nat, enabled : {FALSE}]
    BY <1>2, OutcomeIs
  <1>4. /\ jobs' = [jobs EXCEPT ![P] = Append(jobs[P], job)]
        /\ tick' = [tick EXCEPT ![P] = [tick[P] EXCEPT !.pc = "record"]]
        /\ UNCHANGED <<now, file, skill, life, cache, applied, hand, sync, made, shots, gone>>
    BY DEF Sched!PollerRecords, Sched!Enqueue, Sched!counters, Sched!history
  <1> HIDE DEF job
  <1>5. life[P] # "down" /\ DOMAIN sync' = Procs /\ sync'[P] \subseteq sync[P]
    BY <1>0, <1>1, <1>4 DEF SchedTypes, Walking, Sched!OffTick
  <1> QED BY <1>1, <1>3, <1>4, <1>5, Enqueued

\* A run by hand puts its outcome into the queue.
LEMMA HandPuts ==
  ASSUME NEW P, P \in Procs, SchedInv(P), Others(P), Sched!HandRecords(P)
  PROVE  SchedInv(P)' /\ Kept
  <1> DEFINE job == Sched!Outcome("hand", hand[P])
  <1>0. SchedTypes(P) /\ Walking(P)
    BY DEF SchedInv
  <1>1. hand[P] \in Runs /\ Known(hand[P].id, hand[P].entry)
    BY <1>0 DEF Sched!HandRecords, SchedTypes, Known, Has
  <1>2. /\ job \in Mutations /\ Skilled(job) /\ job.by = "hand" /\ job.op = "update"
        /\ job.id \in 1..made
    BY <1>1, OutcomeIs
  <1>3. /\ jobs' = [jobs EXCEPT ![P] = Append(jobs[P], job)]
        /\ UNCHANGED <<now, file, skill, life, cache, applied, tick, hand, sync, made, shots, gone>>
    BY DEF Sched!HandRecords, Sched!Enqueue, Sched!counters, Sched!history
  <1>4. hand[P] # Sched!NoRun
    BY DEF Sched!HandRecords
  <1> HIDE DEF job
  <1>5. life[P] # "down" /\ DOMAIN sync' = Procs /\ sync'[P] \subseteq sync[P]
    BY <1>0, <1>3, <1>4 DEF SchedTypes, Walking
  <1> QED BY <1>2, <1>3, <1>5, Enqueued

\* A user makes, changes or removes an entry.
LEMMA UserPuts ==
  ASSUME NEW P, P \in Procs, SchedInv(P), Others(P),
         \/ \E draft \in Sched!Drafts : Sched!Create(P, draft)
         \/ \E i \in 1..made : Sched!Delete(P, i) \/ \E b \in BOOLEAN : Sched!SetEnabled(P, i, b)
  PROVE  SchedInv(P)' /\ Kept
  <1>0. SchedTypes(P) /\ made \in Nat /\ now \in Nat /\ MaxEntries \in Nat
    BY SchedulerConstants DEF SchedInv, SchedTypes, Sched!SchedulerAssumption
  <1>1. ASSUME NEW draft \in Sched!Drafts, Sched!Create(P, draft) PROVE SchedInv(P)' /\ Kept
    <2> DEFINE job == Sched!Job("user", "create", made + 1, Sched!NewEntry(draft, NoSkill))
    <2>0. draft \in DraftRecords
      BY DraftsAre
    <2>1. Sched!NewEntry(draft, NoSkill) \in Entries
      BY <1>0, <2>0 DEF Sched!NewEntry, DraftRecords, Entries
    <2>2. /\ job \in Mutations /\ job.by = "user" /\ job.op = "create" /\ job.id = made + 1
          /\ Skilled(job)
      <3>1. job.by = "user" /\ job.op = "create" /\ job.id = made + 1
        BY DEF Sched!Job
      <3>2. job \in UserMutations
        BY <1>0, <2>1 DEF Sched!Job, UserMutations
      <3> HIDE DEF job
      <3> QED BY <3>1, <3>2 DEF Mutations, Skilled
    <2>3. /\ jobs' = [jobs EXCEPT ![P] = Append(jobs[P], job)] /\ life[P] # "down"
          /\ made < MaxEntries /\ made' = made + 1
          /\ UNCHANGED <<now, file, skill, life, cache, applied, tick, hand, sync, shots, gone>>
      BY <1>1 DEF Sched!Create, Sched!Enqueue, Sched!history
    <2> HIDE DEF job
    <2>4. DOMAIN sync' = Procs /\ sync'[P] \subseteq sync[P]
      BY <1>0, <2>3 DEF SchedTypes
    <2> QED BY <2>2, <2>3, <2>4, Enqueued
  <1>2. ASSUME NEW i \in 1..made, Sched!Delete(P, i) PROVE SchedInv(P)' /\ Kept
    <2> DEFINE job == Sched!Job("user", "delete", i, <<>>)
    <2>1. job \in Mutations /\ job.by = "user" /\ job.op = "delete" /\ job.id = i /\ Skilled(job)
      <3>1. job.by = "user" /\ job.op = "delete" /\ job.id = i
        BY DEF Sched!Job
      <3>2. job \in UserMutations
        BY <1>0 DEF Sched!Job, UserMutations
      <3> HIDE DEF job
      <3> QED BY <3>1, <3>2 DEF Mutations, Skilled
    <2>2. /\ jobs' = [jobs EXCEPT ![P] = Append(jobs[P], job)] /\ life[P] # "down"
          /\ UNCHANGED <<now, file, skill, life, cache, applied, tick, hand, sync, made, shots, gone>>
      BY <1>2 DEF Sched!Delete, Sched!Enqueue, Sched!history
    <2> HIDE DEF job
    <2>3. DOMAIN sync' = Procs /\ sync'[P] \subseteq sync[P]
      BY <1>0, <2>2 DEF SchedTypes
    <2> QED BY <2>1, <2>2, <2>3, Enqueued
  <1>3. ASSUME NEW i \in 1..made, NEW b \in BOOLEAN, Sched!SetEnabled(P, i, b) PROVE SchedInv(P)' /\ Kept
    <2> DEFINE job == Sched!Job("user", "update", i, [enabled |-> b])
    <2>1. job \in Mutations /\ job.by = "user" /\ job.op = "update" /\ job.id = i /\ Skilled(job)
      <3>1. job.by = "user" /\ job.op = "update" /\ job.id = i
        BY DEF Sched!Job
      <3>2. job \in UserMutations
        BY <1>0 DEF Sched!Job, UserMutations
      <3> HIDE DEF job
      <3> QED BY <3>1, <3>2 DEF Mutations, Skilled
    <2>2. /\ jobs' = [jobs EXCEPT ![P] = Append(jobs[P], job)] /\ life[P] # "down"
          /\ UNCHANGED <<now, file, skill, life, cache, applied, tick, hand, sync, made, shots, gone>>
      BY <1>3 DEF Sched!SetEnabled, Sched!Enqueue, Sched!history
    <2> HIDE DEF job
    <2>3. DOMAIN sync' = Procs /\ sync'[P] \subseteq sync[P]
      BY <1>0, <2>2 DEF SchedTypes
    <2> QED BY <2>1, <2>2, <2>3, Enqueued
  <1> QED BY <1>1, <1>2, <1>3

\* A reconciliation puts its next job into the queue.
LEMMA SyncPuts ==
  ASSUME NEW P, P \in Procs, SchedInv(P), Others(P), Sched!SyncStep(P)
  PROVE  SchedInv(P)' /\ Kept
  <1>0. /\ SchedTypes(P) /\ Walking(P) /\ Numbered(P) /\ SyncIsSkilled(P)
        /\ made \in Nat /\ now \in Nat /\ MaxEntries \in Nat
    BY SchedulerConstants DEF SchedInv, SchedTypes, Sched!SchedulerAssumption
  <1>1. PICK j \in sync[P] :
          /\ sync' = [sync EXCEPT ![P] = @ \ {j}]
          /\ IF j.op = "create"
               THEN /\ made < MaxEntries /\ made' = made + 1
                    /\ Sched!Enqueue(P, [j EXCEPT !.id = made + 1, !.with.createdAt = now])
               ELSE made' = made /\ Sched!Enqueue(P, j)
    BY DEF Sched!SyncStep
  <1>2. /\ DOMAIN sync' = Procs /\ sync'[P] \subseteq sync[P] /\ life[P] # "down"
        /\ UNCHANGED <<now, file, skill, life, cache, applied, tick, hand, shots, gone>>
    <2>1. life[P] # "down"
      BY <1>0, <1>1 DEF Walking
    <2>2. UNCHANGED <<now, file, skill, life, cache, applied, tick, hand, shots, gone>>
      BY DEF Sched!SyncStep, Sched!history
    <2> QED BY <1>0, <1>1, <2>1, <2>2 DEF SchedTypes
  <1>3. j \in SyncMutations /\ Skilled(j) /\ (j.op # "create" => j.id \in 1..made)
    BY <1>0 DEF SchedTypes, SyncIsSkilled, Numbered
  <1>4. CASE j.op # "create"
    <2>1. /\ jobs' = [jobs EXCEPT ![P] = Append(jobs[P], j)] /\ made' = made
      BY <1>1, <1>4 DEF Sched!Enqueue
    <2>2. j \in Mutations /\ j.by # "poller"
      BY <1>3 DEF Mutations, SyncMutations
    <2> QED BY <1>2, <1>3, <1>4, <2>1, <2>2, Enqueued
  <1>5. CASE j.op = "create"
    <2> DEFINE job == [j EXCEPT !.id = made + 1, !.with.createdAt = now]
    <2>1. j \in [by : {"sync"}, op : {"create"}, id : Nat,
                 with : [cron : BOOLEAN, runAt : Nat, enabled : BOOLEAN, createdAt : Nat,
                         lastRunAt : {Sched!Never}, skill : Skills]]
      BY <1>3, <1>5 DEF SyncMutations
    <2>2. [j.with EXCEPT !.createdAt = now]
            \in [cron : BOOLEAN, runAt : Nat, enabled : BOOLEAN, createdAt : Nat,
                 lastRunAt : {Sched!Never}, skill : Skills]
      BY <1>0, <2>1
    <2>a. job = [j EXCEPT !.id = made + 1, !.with = [j.with EXCEPT !.createdAt = now]]
      BY <2>1
    <2>3. job = [by |-> "sync", op |-> "create", id |-> made + 1,
                 with |-> [j.with EXCEPT !.createdAt = now]]
      <3> DEFINE w == [j.with EXCEPT !.createdAt = now]
      <3> HIDE DEF w, job
      <3>1. job = [j EXCEPT !.id = made + 1, !.with = w]
        BY <2>a DEF w
      <3>2. job = [by |-> "sync", op |-> "create", id |-> made + 1, with |-> w]
        BY <2>1, <3>1
      <3> QED BY <3>2 DEF w
    <2>4. job.by = "sync" /\ job.op = "create" /\ job.id = made + 1 /\ job \in SyncMutations
      <3> DEFINE w == [j.with EXCEPT !.createdAt = now]
      <3> HIDE DEF w, job
      <3>1. job = [by |-> "sync", op |-> "create", id |-> made + 1, with |-> w] /\ made + 1 \in Nat
        BY <1>0, <2>3 DEF w
      <3> QED BY <2>2, <3>1 DEF SyncMutations, w
    <2>5. jobs' = [jobs EXCEPT ![P] = Append(jobs[P], job)] /\ made < MaxEntries /\ made' = made + 1
      BY <1>1, <1>5 DEF Sched!Enqueue
    <2> HIDE DEF job
    <2>6. job \in Mutations /\ Skilled(job)
      BY <2>4 DEF Mutations, Skilled
    <2> QED BY <1>2, <2>4, <2>5, <2>6, Enqueued
  <1> QED BY <1>4, <1>5

\* The file is written, or the write fails.
LEMMA Writes ==
  ASSUME NEW P, P \in Procs, SchedInv(P), Others(P), Sched!Write(P) \/ Sched!WriteFails(P)
  PROVE  SchedInv(P)' /\ Kept
  <1> DEFINE job == Head(jobs[P])
  <1>0. SchedTypes(P)
    BY DEF SchedInv
  <1>1. /\ applied[P] /\ jobs' = [jobs EXCEPT ![P] = Tail(jobs[P])]
        /\ applied' = [applied EXCEPT ![P] = FALSE]
        /\ UNCHANGED <<now, skill, life, cache, made, shots>>
    BY DEF Sched!Write, Sched!WriteFails, Sched!Return, Sched!counters, Sched!history
  <1>2. \/ job.by # "poller" /\ UNCHANGED tick
        \/ /\ job.by = "poller"
           /\ tick' = [tick EXCEPT ![P] = IF Len(tick[P].todo) = 1 THEN Sched!IdleTick
                                          ELSE [pc |-> "next", todo |-> Tail(tick[P].todo)]]
    BY DEF Sched!Write, Sched!WriteFails, Sched!Return
  <1>3. hand' = (IF job.by # "hand" THEN hand ELSE [hand EXCEPT ![P] = Sched!NoRun])
    BY DEF Sched!Write, Sched!WriteFails, Sched!Return
  <1>4. sync' = sync \/ sync' = [sync EXCEPT ![P] = sync[P]] \/ sync' = [sync EXCEPT ![P] = {}]
    BY DEF Sched!Write, Sched!WriteFails, Sched!Return
  <1>5. /\ DOMAIN hand' = Procs /\ hand'[P] \in {hand[P], Sched!NoRun}
        /\ DOMAIN sync' = Procs /\ sync'[P] \subseteq sync[P]
    BY <1>0, <1>3, <1>4 DEF SchedTypes
  <1>6. /\ \/ UNCHANGED <<file, gone>>
           \/ file' = cache[P] /\ gone'[P] = IF job.op = "delete" THEN gone[P] \cup {job.id} ELSE gone[P]
        /\ DOMAIN gone' = Procs
    BY <1>0 DEF Sched!Write, Sched!WriteFails, Sched!history, SchedTypes
  <1> QED BY <1>1, <1>2, <1>5, <1>6, Returned

\* The process comes up or stops, a skill file changes, the clock moves.
LEMMA SchedGoes ==
  ASSUME NEW P, P \in Procs, SchedInv(P), Others(P),
         \/ Sched!Start(P) \/ Sched!Stop(P) \/ Sched!Tick \/ UNCHANGED Sched!vars
         \/ \E s \in Skills, draft \in Sched!Drafts \cup {Sched!NoDraft} : Sched!SkillEdited(s, draft)
  PROVE  SchedInv(P)' /\ Kept
  <1>0. SchedTypes(P)
    BY DEF SchedInv
  <1>1. /\ UNCHANGED <<file, cache, jobs, applied, hand, sync, made, shots, gone>>
    BY DEF Sched!Start, Sched!Stop, Sched!Tick, Sched!SkillEdited, Sched!vars,
       Sched!counters, Sched!history
  <1>2. now' \in Nat
    BY <1>0 DEF SchedTypes, Sched!Start, Sched!Stop, Sched!Tick, Sched!SkillEdited,
       Sched!vars
  <1>3. skill' \in [Skills -> DraftRecords]
    <2>1. CASE \E s \in Skills, draft \in Sched!Drafts \cup {Sched!NoDraft} : Sched!SkillEdited(s, draft)
      <3>1. Sched!Drafts \cup {Sched!NoDraft} \subseteq DraftRecords
        BY DraftsAre
      <3> QED BY <1>0, <2>1, <3>1 DEF SchedTypes, Sched!SkillEdited
    <2>2. CASE Sched!Start(P) \/ Sched!Stop(P) \/ Sched!Tick \/ UNCHANGED Sched!vars
      BY <1>0, <2>2 DEF SchedTypes, Sched!Start, Sched!Stop, Sched!Tick, Sched!vars
    <2> QED BY <2>1, <2>2
  <1>4. /\ DOMAIN life' = Procs /\ DOMAIN tick' = Procs
        /\ \/ UNCHANGED <<life, tick>>
           \/ life[P] = "booting" /\ life'[P] = "up" /\ tick'[P] = Sched!IdleTick
           \/ life[P] = "up" /\ life'[P] = "stopping" /\ UNCHANGED tick
    BY <1>0 DEF SchedTypes, Sched!Start, Sched!Stop, Sched!Tick, Sched!SkillEdited,
       Sched!vars
  <1>5. DOMAIN sync' = Procs
    BY <1>0, <1>1 DEF SchedTypes
  <1> QED BY <1>1, <1>2, <1>3, <1>4, <1>5, SchedStays

\* A step that one process makes.
Mine(P) ==
  Sched!Works(P) \/ Sched!Uses(P) \/ Sched!Boot(P) \/ Sched!Stop(P) \/ Sched!Crash(P) \/ Sched!WriteFails(P)
\* A step that none makes.
Ours ==
  \/ Sched!Tick \/ UNCHANGED Sched!vars
  \/ \E s \in Skills, draft \in Sched!Drafts \cup {Sched!NoDraft} : Sched!SkillEdited(s, draft)

\* The variables are of all processes.
OfAll ==
  /\ DOMAIN life = Procs /\ DOMAIN cache = Procs /\ DOMAIN jobs = Procs
  /\ DOMAIN applied = Procs /\ DOMAIN tick = Procs /\ DOMAIN hand = Procs
  /\ DOMAIN sync = Procs /\ DOMAIN shots = Procs /\ DOMAIN gone = Procs

\* A process's step is one of that process alone.
LEMMA MinesOthers ==
  ASSUME NEW P, P \in Procs, OfAll, Mine(P)
  PROVE  Others(P)
  <1> SUFFICES ASSUME NEW q \in Procs, q # P
               PROVE  /\ life'[q] = life[q] /\ cache'[q] = cache[q] /\ jobs'[q] = jobs[q]
                      /\ applied'[q] = applied[q] /\ tick'[q] = tick[q] /\ hand'[q] = hand[q]
                      /\ sync'[q] = sync[q] /\ shots'[q] = shots[q] /\ gone'[q] \subseteq gone[q]
                      /\ file' = file \/ gone'[q] \cap DOMAIN file' = {}
    BY DEF Others
  <1> USE DEF OfAll, Sched!counters, Sched!history, Sched!Enqueue, Sched!Operates
  <1>1. CASE Sched!Apply(P)
    BY <1>1 DEF Sched!Apply
  <1>2. CASE Sched!Write(P)
    BY <1>2 DEF Sched!Write, Sched!Return
  <1>3. CASE Sched!BeginTick(P) \/ Sched!PollerRuns(P) \/ Sched!PollerRecords(P)
    BY <1>3 DEF Sched!BeginTick, Sched!PollerRuns, Sched!PollerRecords
  <1>4. CASE Sched!HandRecords(P) \/ Sched!Start(P) \/ Sched!Boot(P) \/ Sched!Stop(P)
    BY <1>4 DEF Sched!HandRecords, Sched!Start, Sched!Boot, Sched!Stop
  <1>5. CASE Sched!SyncStep(P)
    BY <1>5 DEF Sched!SyncStep
  <1>6. CASE Sched!Exit(P) \/ Sched!Crash(P)
    BY <1>6 DEF Sched!Exit, Sched!Crash, Sched!Dies
  <1>7. CASE Sched!Uses(P)
    BY <1>7 DEF Sched!Uses, Sched!Create, Sched!SkillCreated, Sched!Delete, Sched!RunNow, Sched!SetEnabled
  <1>8. CASE Sched!WriteFails(P)
    BY <1>8 DEF Sched!WriteFails, Sched!Return
  <1> QED BY <1>1, <1>2, <1>3, <1>4, <1>5, <1>6, <1>7, <1>8 DEF Mine, Sched!Works

\* A process's step keeps its invariant, and what is known.
LEMMA SchedMine ==
  ASSUME NEW P, P \in Procs, SchedInv(P), Mine(P), Others(P)
  PROVE  SchedInv(P)' /\ Kept /\ made <= made'
  <1>0. made <= made'
    <2>1. made \in Nat
      BY SchedulerConstants DEF SchedInv, SchedTypes, Sched!SchedulerAssumption
    <2>2. made' = made \/ made' = made + 1
      BY DEF Mine, Sched!Works, Sched!Uses, Sched!Apply, Sched!Write, Sched!BeginTick, Sched!PollerRuns,
         Sched!PollerRecords, Sched!HandRecords, Sched!SyncStep, Sched!Start, Sched!Exit,
         Sched!Create, Sched!SkillCreated, Sched!Delete, Sched!RunNow, Sched!SetEnabled,
         Sched!Boot, Sched!Stop, Sched!Crash, Sched!Dies, Sched!WriteFails, Sched!counters
    <2> QED BY <2>1, <2>2
  <1> USE <1>0
  <1>1. CASE Sched!Works(P)
    <2>1. CASE Sched!Apply(P)
      BY <2>1, Applies
    <2>2. CASE Sched!Write(P)
      BY <2>2, Writes
    <2>3. CASE Sched!BeginTick(P)
      BY <2>3, TickBegins
    <2>4. CASE Sched!PollerRuns(P)
      BY <2>4, RunBegins
    <2>5. CASE Sched!PollerRecords(P)
      BY <2>5, PollerPuts
    <2>6. CASE Sched!HandRecords(P)
      BY <2>6, HandPuts
    <2>7. CASE Sched!SyncStep(P)
      BY <2>7, SyncPuts
    <2>8. CASE Sched!Start(P)
      BY <2>8, SchedGoes
    <2>9. CASE Sched!Exit(P)
      BY <2>9, Died DEF Sched!Exit
    <2> QED BY <1>1, <2>1, <2>2, <2>3, <2>4, <2>5, <2>6, <2>7, <2>8, <2>9 DEF Sched!Works
  <1>2. CASE Sched!Uses(P)
    <2>1. CASE \/ \E draft \in Sched!Drafts : Sched!Create(P, draft)
               \/ \E i \in 1..made : Sched!Delete(P, i) \/ \E b \in BOOLEAN : Sched!SetEnabled(P, i, b)
      BY <2>1, UserPuts
    <2>2. CASE \E s \in Skills : \E draft \in Sched!Drafts : Sched!SkillCreated(P, s, draft)
      BY <2>2, SkillComes
    <2>3. CASE \E i \in 1..made : Sched!RunNow(P, i)
      BY <2>3, HandBegins
    <2> QED BY <1>2, <2>1, <2>2, <2>3 DEF Sched!Uses
  <1>3. CASE Sched!Boot(P) \/ Sched!Stop(P) \/ Sched!Crash(P) \/ Sched!WriteFails(P)
    <2>1. CASE Sched!Boot(P)
      BY <2>1, Boots
    <2>2. CASE Sched!Stop(P)
      BY <2>2, SchedGoes
    <2>3. CASE Sched!Crash(P)
      BY <2>3, Died DEF Sched!Crash
    <2>4. CASE Sched!WriteFails(P)
      BY <2>4, Writes
    <2> QED BY <1>3, <2>1, <2>2, <2>3, <2>4
  <1> QED BY <1>1, <1>2, <1>3 DEF Mine

\* A process's step keeps the invariant of another process.
LEMMA Bystander ==
  ASSUME NEW P, P \in Procs, NEW Q, Q \in Procs, Q # P, SchedInv(Q), SchedInv(P)', Kept,
         Others(P), made <= made'
  PROVE  SchedInv(Q)'
  <1>0. /\ SchedTypes(Q) /\ Numbered(Q) /\ AllAlike /\ SyncIsSkilled(Q) /\ Removed(Q)
        /\ Walking(Q) /\ Once(Q) /\ SchedTypes(P)' /\ Numbered(P)' /\ AllAlike'
    BY DEF SchedInv
  <1>1. /\ life'[Q] = life[Q] /\ cache'[Q] = cache[Q] /\ jobs'[Q] = jobs[Q] /\ applied'[Q] = applied[Q]
        /\ tick'[Q] = tick[Q] /\ hand'[Q] = hand[Q] /\ sync'[Q] = sync[Q] /\ shots'[Q] = shots[Q]
        /\ gone'[Q] \subseteq gone[Q] /\ (file' = file \/ gone'[Q] \cap DOMAIN file' = {})
    BY DEF Others
  <1>2. made \in Nat /\ made' \in Nat /\ made' \in 0..MaxEntries /\ MaxEntries \in Nat
    BY <1>0, SchedulerConstants DEF SchedTypes, Sched!SchedulerAssumption
  <1>3. SchedTypes(Q)'
    <2>1. IsStore(cache[Q])'
      BY <1>0, <1>1, <1>2 DEF SchedTypes, IsStore
    <2>2. IsStore(file)'
      BY <1>0 DEF SchedTypes
    <2> QED BY <1>0, <1>1, <2>1, <2>2 DEF SchedTypes
  <1>4. Numbered(Q)'
    <2>1. \A i, e : Known(i, e)' => i \in 1..made'
      BY <1>0 DEF Numbered
    <2>2. /\ \A n \in DOMAIN jobs'[Q] : jobs'[Q][n].id \in 1..made'
          /\ \A job \in sync'[Q] : job.op # "create" => job.id \in 1..made'
          /\ \A i \in Sched!Ids : i > made' => shots'[Q][i] = 0
      <3>1. 1..made \subseteq 1..made' /\ \A i \in Sched!Ids : i > made' => i > made
        BY <1>2 DEF Sched!Ids
      <3> QED BY <1>0, <1>1, <3>1 DEF Numbered
    <2> QED BY <2>1, <2>2 DEF Numbered
  <1>5. SyncIsSkilled(Q)'
    <2>1. ASSUME NEW job, Skilled(job), job.op # "create" => job.id \in 1..made
          PROVE  Skilled(job)'
      <3> SUFFICES ASSUME job.by = "sync", job.op = "update", NEW e, Known(job.id, e)'
                   PROVE  e.skill # NoSkill
        BY DEF Skilled
      <3>1. job.id \in 1..made
        BY <2>1
      <3>2. PICK f : Known(job.id, f) /\ Alike(f, e)
        BY <3>1 DEF Kept
      <3> QED BY <2>1, <3>2 DEF Skilled, Alike
    <2>2. \A job \in sync[Q] : Skilled(job) /\ (job.op # "create" => job.id \in 1..made)
      BY <1>0 DEF SyncIsSkilled, Numbered
    <2>3. \A n \in DOMAIN jobs[Q] : Skilled(jobs[Q][n]) /\ jobs[Q][n].id \in 1..made
      BY <1>0 DEF SyncIsSkilled, Numbered
    <2> QED BY <1>1, <2>1, <2>2, <2>3 DEF SyncIsSkilled
  <1>6. Removed(Q)'
    <2>1. gone'[Q] \cap (DOMAIN file' \cup DOMAIN cache'[Q]) = {} /\ gone'[Q] \subseteq 1..made'
      <3>1. 1..made \subseteq 1..made'
        BY <1>2
      <3> QED BY <1>0, <1>1, <3>1 DEF Removed
    <2> QED BY <1>0, <1>1, <2>1 DEF Removed
  <1>7. Walking(Q)'
    BY <1>0, <1>1 DEF Walking
  <1>8. Once(Q)'
    <2>1. ASSUME NEW i, NEW e, Known(i, e)', OneShot(e) PROVE shots'[Q][i] <= 1
      <3>1. CASE i \in 1..made
        <4>1. PICK f : Known(i, f) /\ Alike(f, e)
          BY <2>1, <3>1 DEF Kept
        <4>2. OneShot(f)
          BY <2>1, <4>1 DEF OneShot, Alike
        <4> QED BY <1>0, <1>1, <4>1, <4>2 DEF Once
      <3>2. CASE i \notin 1..made
        <4>1. i \in 1..made'
          BY <1>0, <2>1 DEF Numbered
        <4>2. i \in Sched!Ids /\ i > made
          BY <1>2, <3>2, <4>1 DEF Sched!Ids
        <4>3. shots[Q][i] = 0
          BY <1>0, <4>2 DEF Numbered
        <4> QED BY <1>1, <4>3
      <3> QED BY <3>1, <3>2
    <2> QED BY <1>0, <1>1, <2>1 DEF Once, Running
  <1> QED BY <1>0, <1>3, <1>4, <1>5, <1>6, <1>7, <1>8 DEF SchedInv

\* The invariant, for every process.
LEMMA SchedInductive ==
  ASSUME \A P \in Procs : SchedInv(P), [Sched!Next]_Sched!vars
  PROVE  \A P \in Procs : SchedInv(P)'
  <1>1. CASE Ours
    <2> TAKE Q \in Procs
    <2>1. Others(Q)
      <3>1. UNCHANGED <<life, cache, jobs, applied, tick, hand, sync, shots, gone, file>>
        BY <1>1 DEF Ours, Sched!Tick, Sched!SkillEdited, Sched!vars, Sched!counters, Sched!history
      <3> QED BY <3>1 DEF Others
    <2> QED BY <1>1, <2>1, SchedGoes DEF Ours
  <1>2. CASE \E P \in Procs : Mine(P)
    <2>1. PICK P \in Procs : Mine(P)
      BY <1>2
    <2>2. Others(P)
      <3>1. OfAll
        BY DEF SchedInv, SchedTypes, OfAll
      <3> QED BY <2>1, <3>1, MinesOthers
    <2>3. SchedInv(P)' /\ Kept /\ made <= made'
      BY <2>1, <2>2, SchedMine
    <2> QED BY <2>2, <2>3, Bystander
  <1> QED BY <1>1, <1>2 DEF Sched!Next, Mine, Ours

\* It holds at the start.
LEMMA SchedBegins ==
  ASSUME Sched!Init
  PROVE  \A P \in Procs : SchedInv(P)
  <1> TAKE P \in Procs
  <1>1. DOMAIN (<<>>) = {} /\ <<>> \in Seq(Runs) /\ <<>> \in Seq(Mutations)
    OBVIOUS
  <1>2. \A q \in Procs :
          /\ life[q] = "down" /\ cache[q] = <<>> /\ jobs[q] = <<>> /\ applied[q] = FALSE
          /\ tick[q] = Sched!OffTick /\ hand[q] = Sched!NoRun /\ sync[q] = {} /\ file = <<>>
          /\ made = 0 /\ gone[q] = {} /\ shots[q] = [i \in Sched!Ids |-> 0] /\ now = 0
    BY DEF Sched!Init
  <1>3. SchedTypes(P)
    <2>1. Sched!OffTick \in [pc : {"off", "idle", "next", "run", "record"}, todo : Seq(Runs)]
      BY <1>1 DEF Sched!OffTick
    <2>2. skill \in [Skills -> DraftRecords]
      BY DEF Sched!Init, Sched!NoDraft, DraftRecords
    <2>3. 0 \in 0..MaxEntries
      BY SchedulerConstants DEF Sched!SchedulerAssumption
    <2> QED BY <1>1, <1>2, <2>1, <2>2, <2>3 DEF Sched!Init, SchedTypes, IsStore
  <1>4. \A i, e : ~Known(i, e)
    BY <1>1, <1>2 DEF Known, Has, Sched!OffTick
  <1>5. Numbered(P) /\ AllAlike /\ SyncIsSkilled(P) /\ Removed(P)
    BY <1>1, <1>2, <1>4 DEF Numbered, AllAlike, SyncIsSkilled, Removed
  <1>6. Walking(P)
    <2>1. /\ life[P] = "down" /\ cache[P] = <<>> /\ jobs[P] = <<>> /\ applied[P] = FALSE
          /\ tick[P] = Sched!OffTick /\ hand[P] = Sched!NoRun /\ sync[P] = {}
      BY <1>2
    <2> QED BY <1>1, <2>1 DEF Walking, Sched!OffTick
  <1>7. Once(P)
    BY <1>1, <1>2, <1>4 DEF Once, Sched!OffTick
  <1> QED BY <1>3, <1>5, <1>6, <1>7 DEF SchedInv

\* What the invariant says of the run's properties.
LEMMA SchedIsOnce ==
  ASSUME \A P \in Procs : SchedInv(P)
  PROVE  Sched!OneShotOnce /\ Sched!DeletedStaysDeleted
  <1>1. Sched!OneShotOnce
    <2> SUFFICES ASSUME NEW p \in Procs, NEW i \in DOMAIN cache[p], OneShot(cache[p][i])
                 PROVE  shots[p][i] <= 1
      BY DEF OneShot, Sched!OneShotOnce
    <2>1. Known(i, cache[p][i])
      BY DEF Known, Has
    <2> QED BY <2>1 DEF SchedInv, Once
  <1>2. Sched!DeletedStaysDeleted
    BY DEF SchedInv, Removed, Sched!DeletedStaysDeleted
  <1> QED BY <1>1, <1>2

\* A step of a behaviour of the scheduler is one of its own.
LEMMA SchedSteps ==
  ASSUME [ANext]_allVars, part' = "schedule"
  PROVE  part = "schedule" /\ [Sched!Next]_Sched!vars
  BY DEF ANext, OfSchedule, OfDue, OfWorkflow, allVars, schedVars, Sched!vars

\* The invariant of all processes.
AllInv == \A P \in Procs : SchedInv(P)

\* The invariant holds where it runs.
LEMMA ScheduleInv == ASpec => [](part = "schedule" => AllInv)
  <1>1. AInit => (part = "schedule" => AllInv)
    BY SchedBegins DEF AInit, AllInv
  <1>2. (part = "schedule" => AllInv) /\ [ANext]_allVars => (part = "schedule" => AllInv)'
    BY SchedSteps, SchedInductive DEF AllInv
  <1> QED BY <1>1, <1>2, PTL DEF ASpec

\* runSchedule and the chain of ticks: from the time a user makes or enables a
\* one-shot in a process, or the process reads it from the file enabled, its
\* poller runs it once, however ticks, runs by hand and changes of the store
\* interleave, writes fail, and any number of processes write the file and die.
THEOREM OneShotOnceCorrect == ASpec => []OneShotOnce
  <1>1. (part = "schedule" => AllInv) => OneShotOnce
    BY SchedIsOnce DEF OneShotOnce, AllInv
  <1> QED BY <1>1, ScheduleInv, PTL

\* delete: what a process removed stays removed, in its cache and in the file,
\* although a run that began before still ends with an update, a reconciliation
\* works from a list it read before, and the process may die and come back; until
\* another of any number of processes writes it back.
THEOREM DeletedStaysDeletedCorrect == ASpec => []DeletedStaysDeleted
  <1>1. (part = "schedule" => AllInv) => DeletedStaysDeleted
    BY SchedIsOnce DEF DeletedStaysDeleted, AllInv
  <1> QED BY <1>1, ScheduleInv, PTL
=============================================================================
