----------------------- MODULE SessionPersistenceProofs -----------------------
(***************************************************************************)
(* Theorems about SessionPersistence for every number of events and of     *)
(* lives, with and without torn lines, refused writes and `/new`.          *)
(***************************************************************************)
EXTENDS MCPersistence, SequenceTheorems, WellFoundedInduction, TLAPS

\* It is a sequence, of whatever.
IsSeq(q) == \E S : q \in Seq(S)

\* The ids of the events of q increase and lie between two others.
Rising(q, low, high) ==
  /\ \A i \in 1..Len(q) : q[i].id \in Nat /\ low < q[i].id /\ q[i].id <= high
  /\ \A i, j \in 1..Len(q) : i < j => q[i].id < q[j].id

Sorted(f) ==
  /\ \A i \in 1..Len(f) : f[i].event.id \in Nat
  /\ \A i, j \in 1..Len(f) : i < j => f[i].event.id < f[j].event.id

\* The id of the newest line, readable or not.
Newest == IF file = <<>> THEN 0 ELSE file[Len(file)].event.id

\* Without suspended hooks the queue goes on where the file ends.
Ordered ==
  /\ ids \in Nat /\ Newest <= ids
  /\ fanout = {}
  /\ IsSeq(file) /\ Sorted(file)
  /\ IsSeq(queue) /\ Rising(queue, Newest, ids)

-----------------------------------------------------------------------------
\* A sequence of elements of S is one of elements of a larger set.
LEMMA Widen ==
  ASSUME NEW S, NEW T, NEW q \in Seq(S), S \subseteq T
  PROVE  q \in Seq(T)
  <1>1. Len(q) \in Nat /\ DOMAIN q = 1..Len(q) /\ q \in [1..Len(q) -> S]
    BY LenProperties
  <1>2. q \in [1..Len(q) -> T]
    BY <1>1
  <1> QED BY <1>1, <1>2, SeqDef

\* Appending a line leaves the lines before the last as they are; the last
\* one then holds the new event.
LEMMA AppendLineProperties ==
  ASSUME NEW f, IsSeq(f), NEW e, NEW kind
  PROVE  LET g == AppendLine(f, e, kind) IN
         /\ IsSeq(g) /\ Len(f) \in Nat /\ Len(g) \in {Len(f), Len(f) + 1} /\ Len(g) \in Nat \ {0}
         /\ g[Len(g)].event = e
         /\ \A i \in 1..Len(g) - 1 : g[i] = f[i] /\ i \in 1..Len(f)
  <1> DEFINE g == AppendLine(f, e, kind)
  <1>1. PICK S : f \in Seq(S)
    BY DEF IsSeq
  <1>2. CASE Unterminated(f)
    <2> DEFINE l == [event |-> e, kind |-> IF kind = "whole" THEN "garbled" ELSE "torn"]
    <2>1. g = [f EXCEPT ![Len(f)] = l] /\ f # <<>>
      BY <1>2 DEF AppendLine, Unterminated
    <2>2. f \in Seq(S \cup {l}) /\ Len(f) \in Nat \ {0}
      BY <1>1, <2>1, Widen, EmptySeq
    <2> HIDE DEF l
    <2>3. g \in Seq(S \cup {l}) /\ Len(g) = Len(f)
      BY <2>1, <2>2, ExceptSeq
    <2>4. g[Len(g)] = l /\ \A i \in 1..Len(f) - 1 : g[i] = f[i]
      BY <2>1, <2>2, <2>3, ExceptSeq
    <2>5. g[Len(g)].event = e
      BY <2>4 DEF l
    <2> HIDE DEF g
    <2>6. IsSeq(g)
      BY <2>3 DEF IsSeq
    <2> QED BY <2>2, <2>3, <2>4, <2>5, <2>6 DEF g
  <1>3. CASE ~Unterminated(f)
    <2> DEFINE l == [event |-> e, kind |-> kind]
    <2>1. g = Append(f, l)
      BY <1>3 DEF AppendLine
    <2>2. f \in Seq(S \cup {l}) /\ Len(f) \in Nat
      BY <1>1, Widen, LenProperties
    <2>3. l.event = e
      OBVIOUS
    <2> HIDE DEF l
    <2>4. /\ g \in Seq(S \cup {l}) /\ Len(g) = Len(f) + 1
          /\ \A i \in 1..Len(f) : g[i] = f[i]
          /\ g[Len(f) + 1] = l
      BY <2>1, <2>2, AppendProperties
    <2> HIDE DEF g
    <2>5. IsSeq(g)
      BY <2>4 DEF IsSeq
    <2> QED BY <2>2, <2>3, <2>4, <2>5 DEF g
  <1> QED BY <1>2, <1>3
\* The newest line has the largest id, so a line with a larger one may follow
\* it or take its place.
LEMMA WriteKeeps ==
  ASSUME Ordered, queue # <<>>, NEW kind, file' = AppendLine(file, Head(queue), kind)
  PROVE  /\ IsSeq(file') /\ Sorted(file')
         /\ Newest' = queue[1].id /\ Newest' <= ids
  <1> DEFINE g == AppendLine(file, Head(queue), kind)
             e == Head(queue)
  <1>1. PICK S : queue \in Seq(S)
    BY DEF Ordered, IsSeq
  <1>2. Len(queue) \in Nat \ {0} /\ e = queue[1]
    BY <1>1, EmptySeq
  <1>3. e.id \in Nat /\ Newest < e.id /\ e.id <= ids
    BY <1>2 DEF Ordered, Rising
  <1>4. /\ IsSeq(g) /\ Len(file) \in Nat /\ Len(g) \in {Len(file), Len(file) + 1}
        /\ Len(g) \in Nat \ {0} /\ g[Len(g)].event = e
        /\ \A i \in 1..Len(g) - 1 : g[i] = file[i] /\ i \in 1..Len(file)
    BY AppendLineProperties DEF Ordered
  <1>5. \A i \in 1..Len(file) : file[i].event.id \in Nat /\ file[i].event.id <= Newest
    <2>1. CASE file = <<>>
      BY <2>1
    <2>2. CASE file # <<>>
      BY <2>2, <1>4 DEF Newest, Ordered, Sorted
    <2> QED BY <2>1, <2>2
  <1>6. Newest \in Nat
    <2>1. CASE file = <<>>
      BY <2>1 DEF Newest
    <2>2. CASE file # <<>>
      <3>1. PICK F : file \in Seq(F)
        BY DEF Ordered, IsSeq
      <3>2. Len(file) \in 1..Len(file)
        BY <2>2, <3>1, <1>4, EmptySeq
      <3> QED BY <2>2, <3>2 DEF Newest, Ordered, Sorted
    <2> QED BY <2>1, <2>2
  <1> HIDE DEF g, e
  <1>7. \A i \in 1..Len(g) : g[i].event.id \in Nat
    <2> TAKE i \in 1..Len(g)
    <2>1. CASE i = Len(g)
      BY <2>1, <1>3, <1>4
    <2>2. CASE i # Len(g)
      <3>1. i \in 1..Len(g) - 1
        BY <2>2, <1>4
      <3> QED BY <3>1, <1>4, <1>5
    <2> QED BY <2>1, <2>2
  <1>8. ASSUME NEW i \in 1..Len(g), NEW j \in 1..Len(g), i < j
        PROVE  g[i].event.id < g[j].event.id
    <2>1. g[i] = file[i] /\ i \in 1..Len(file)
      BY <1>8, <1>4
    <2>2. CASE j = Len(g)
      BY <2>1, <2>2, <1>3, <1>4, <1>5, <1>6
    <2>3. CASE j # Len(g)
      <3>1. g[j] = file[j] /\ j \in 1..Len(file)
        BY <2>3, <1>4, <1>8
      <3> QED BY <2>1, <3>1, <1>8 DEF Ordered, Sorted
    <2> QED BY <2>2, <2>3
  <1>9. Sorted(g)
    BY <1>7, <1>8 DEF Sorted
  <1>10. file' = g
    BY DEF g
  <1>11. g # <<>>
    BY <1>4
  <1>12. Newest' = e.id
    BY <1>4, <1>10, <1>11 DEF Newest
  <1> QED BY <1>2, <1>3, <1>4, <1>9, <1>10, <1>12

\* The queue grows by an event younger than all.
LEMMA EnqueueKeeps ==
  ASSUME Ordered, NEW e, e.id = ids + 1, Newest \in Nat
  PROVE  IsSeq(Append(queue, e)) /\ Rising(Append(queue, e), Newest, ids + 1)
  <1> DEFINE r == Append(queue, e)
  <1>1. PICK S : queue \in Seq(S)
    BY DEF Ordered, IsSeq
  <1>2. queue \in Seq(S \cup {e}) /\ ids \in Nat /\ Newest <= ids
    BY <1>1, Widen DEF Ordered
  <1>3. /\ r \in Seq(S \cup {e}) /\ Len(r) = Len(queue) + 1 /\ Len(queue) \in Nat
        /\ \A i \in 1..Len(queue) : r[i] = queue[i]
        /\ r[Len(queue) + 1] = e
    BY <1>2, AppendProperties, LenProperties
  <1> HIDE DEF r
  <1>4. ASSUME NEW i \in 1..Len(r)
        PROVE  r[i].id \in Nat /\ Newest < r[i].id /\ r[i].id <= ids + 1
    <2>1. CASE i = Len(queue) + 1
      BY <2>1, <1>2, <1>3
    <2>2. CASE i # Len(queue) + 1
      <3>1. i \in 1..Len(queue)
        BY <2>2, <1>3
      <3>2. queue[i].id \in Nat /\ Newest < queue[i].id /\ queue[i].id <= ids
        BY <3>1 DEF Ordered, Rising
      <3> QED BY <3>1, <3>2, <1>2, <1>3
    <2> QED BY <2>1, <2>2
  <1>5. ASSUME NEW i \in 1..Len(r), NEW j \in 1..Len(r), i < j PROVE r[i].id < r[j].id
    <2>1. i \in 1..Len(queue) /\ r[i] = queue[i]
      BY <1>3, <1>5
    <2>2. queue[i].id \in Nat /\ queue[i].id <= ids
      BY <2>1 DEF Ordered, Rising
    <2>3. CASE j = Len(queue) + 1
      BY <2>1, <2>2, <2>3, <1>2, <1>3
    <2>4. CASE j # Len(queue) + 1
      <3>1. j \in 1..Len(queue) /\ r[j] = queue[j]
        BY <2>4, <1>3
      <3> QED BY <2>1, <3>1, <1>5 DEF Ordered, Rising
    <2> QED BY <2>3, <2>4
  <1>6. IsSeq(r)
    BY <1>3 DEF IsSeq
  <1> QED BY <1>4, <1>5, <1>6 DEF r, Rising

\* The newest event has a number.
LEMMA NewestIsNat == ASSUME Ordered PROVE Newest \in Nat
  <1>1. CASE file = <<>>
    BY <1>1 DEF Newest
  <1>2. CASE file # <<>>
    <2>1. PICK F : file \in Seq(F)
      BY DEF Ordered, IsSeq
    <2>2. Len(file) \in 1..Len(file)
      BY <1>2, <2>1, EmptySeq, LenProperties
    <2> QED BY <1>2, <2>2 DEF Newest, Ordered, Sorted
  <1> QED BY <1>1, <1>2

\* An empty queue is in order.
LEMMA EmptyQueue == IsSeq(<<>>) /\ \A low, high : Rising(<<>>, low, high)
  <1>1. <<>> \in Seq({})
    BY EmptySeq
  <1>2. Len(<<>>) = 0
    OBVIOUS
  <1> QED BY <1>1, <1>2 DEF IsSeq, Rising

\* A queue that rises still rises without its head, from the number of that
\* head on.
LEMMA TailKeeps ==
  ASSUME IsSeq(queue), queue # <<>>, NEW low, NEW high, Rising(queue, low, high)
  PROVE  IsSeq(Tail(queue)) /\ Rising(Tail(queue), queue[1].id, high)
  <1> DEFINE r == Tail(queue)
  <1>1. PICK S : queue \in Seq(S)
    BY DEF IsSeq
  <1>2. /\ r \in Seq(S) /\ Len(r) = Len(queue) - 1 /\ Len(queue) \in Nat \ {0}
        /\ \A i \in 1..Len(r) : r[i] = queue[i + 1]
    BY <1>1, HeadTailProperties, EmptySeq, LenProperties
  <1> HIDE DEF r
  <1>3. \A i \in 1..Len(r) : i + 1 \in 1..Len(queue) /\ 1 \in 1..Len(queue) /\ 1 < i + 1
    BY <1>2
  <1>4. \A i, j \in 1..Len(r) : i < j => i + 1 < j + 1
    BY <1>2
  <1>5. Rising(r, queue[1].id, high)
    BY <1>2, <1>3, <1>4 DEF Rising
  <1>6. IsSeq(r)
    BY <1>2 DEF IsSeq
  <1> QED BY <1>5, <1>6 DEF r

-----------------------------------------------------------------------------
\* The steps of the index writes, which look at the sidecar and its timer only.
IndexStep ==
  IndexFires \/ IndexReads \/ IndexFails \/ \E i \in 1..Len(flying) : IndexLands(i)

LEMMA IndexFrame ==
  ASSUME IndexStep
  PROVE  /\ life' = life /\ log' = log /\ fanout' = fanout /\ queue' = queue /\ meta' = meta
         /\ file' = file /\ lives' = lives /\ ids' = ids /\ lastLog' = lastLog /\ ending' = ending
         /\ failed' = failed /\ holed' = holed
  BY DEF IndexStep, IndexFires, IndexReads, IndexFails, IndexLands, indexFrame, memoryVars, pastVars

\* All but a suspended hook keeps the file and the queue in order.
LEMMA OrderedInductive ==
  ASSUME AsyncHooks = FALSE, Ordered, [Next]_vars
  PROVE  Ordered'
  <1>0. Newest \in Nat
    BY NewestIsNat
  <1>1. ASSUME NEW prompt \in BOOLEAN, AppendEvent(prompt) PROVE Ordered'
    <2> DEFINE e == NewEvent(prompt)
    <2>1. /\ ids' = ids + 1 /\ file' = file /\ fanout' = fanout /\ e.id = ids + 1
          /\ queue' = Append(queue, e) \/ queue' = queue
      BY <1>1 DEF AppendEvent, EnqueueAppend, Enqueue, NewEvent
    <2> HIDE DEF e
    <2>2. Newest' = Newest /\ ids \in Nat /\ Newest <= ids
      BY <2>1 DEF Newest, Ordered
    <2>3. IsSeq(queue') /\ Rising(queue', Newest, ids + 1)
      <3>1. CASE queue' = Append(queue, e)
        BY <3>1, <1>0, <2>1, EnqueueKeeps
      <3>2. CASE queue' = queue
        BY <3>2, <2>2 DEF Ordered, Rising
      <3> QED BY <2>1, <3>1, <3>2
    <2>4. Newest' <= ids'
      BY <1>0, <2>1, <2>2
    <2> QED BY <2>1, <2>2, <2>3, <2>4 DEF Ordered
  <1>2. ASSUME NEW e \in fanout, HookEnds(e) PROVE Ordered'
    BY <1>2 DEF Ordered
  <1>3. CASE WriteLine \/ FailLine
    <2>1. queue # <<>> /\ queue' = Tail(queue) /\ ids' = ids /\ fanout' = fanout
      BY <1>3 DEF WriteLine, WriteHead, FailLine, pastVars
    <2>2. IsSeq(Tail(queue)) /\ Rising(Tail(queue), queue[1].id, ids)
      BY <2>1, TailKeeps DEF Ordered
    <2>3. CASE \E kind : file' = AppendLine(file, Head(queue), kind)
      <3>1. IsSeq(file') /\ Sorted(file') /\ Newest' = queue[1].id /\ Newest' <= ids
        BY <2>1, <2>3, WriteKeeps
      <3> QED BY <2>1, <2>2, <3>1 DEF Ordered
    <2>4. CASE file' = file
      <3>1. Newest' = Newest
        BY <2>4 DEF Newest
      <3>2. /\ 1 \in 1..Len(queue)
            /\ \A i \in 1..Len(Tail(queue)) : i + 1 \in 1..Len(queue) /\ Tail(queue)[i] = queue[i + 1]
        <4>1. PICK S : queue \in Seq(S)
          BY DEF Ordered, IsSeq
        <4> QED BY <2>1, <4>1, HeadTailProperties, EmptySeq, LenProperties
      <3>3. \A i \in 1..Len(Tail(queue)) : Newest < Tail(queue)[i].id
        BY <3>2 DEF Ordered, Rising
      <3>4. Rising(Tail(queue), Newest, ids)
        BY <2>2, <3>3 DEF Rising
      <3> QED BY <2>1, <2>2, <2>4, <3>1, <3>4 DEF Ordered
    <2>5. file' = file \/ \E kind : file' = AppendLine(file, Head(queue), kind)
      BY <1>3 DEF WriteLine, WriteHead, FailLine, Cut
    <2> QED BY <2>3, <2>4, <2>5
  <1>4. CASE IndexStep \/ Clear \/ Start \/ Detach \/ UNCHANGED vars
    <2>1. ids' = ids /\ fanout' = fanout /\ queue' = queue /\ file' = file
      BY <1>4, IndexFrame DEF Clear, Start, Detach, vars, memoryVars, pastVars
    <2> QED BY <2>1 DEF Ordered, Newest
  <1>5. CASE Exit
    <2>1. ids' = ids /\ fanout' = {} /\ queue' = <<>> /\ file' = file
      BY <1>5 DEF Exit, Gone
    <2> QED BY <2>1, EmptyQueue DEF Ordered, Newest
  <1>6. CASE Crash
    <2>1. ids' = ids /\ fanout' = {} /\ queue' = <<>>
      BY <1>6 DEF Crash, Gone
    <2>2. IsSeq(file') /\ Sorted(file') /\ Newest' <= ids
      <3>1. CASE file' = file
        BY <3>1 DEF Ordered, Newest
      <3>2. CASE queue # <<>> /\ \E kind \in {"bare", "torn"} : file' = AppendLine(file, Head(queue), kind)
        BY <3>2, WriteKeeps
      <3> QED BY <1>6, <3>1, <3>2 DEF Crash, Cut
    <2> QED BY <2>1, <2>2, EmptyQueue DEF Ordered
  <1> QED BY <1>1, <1>2, <1>3, <1>4, <1>5, <1>6 DEF Next, IndexStep

\* However often the process dies or the user starts over, the lines of the
\* file are in the order of their events, provided hooks do not suspend.
THEOREM FileInOrder ==
  ASSUME AsyncHooks = FALSE
  PROVE  Spec => []LinesInOrder
  <1>1. Init => Ordered
    BY EmptyQueue DEF Init, Ordered, Newest, Sorted
  <1>2. Ordered /\ [Next]_vars => Ordered'
    BY OrderedInductive
  <1>3. Ordered => LinesInOrder
    BY DEF Ordered, Sorted, LinesInOrder
  <1> QED BY <1>1, <1>2, <1>3, PTL DEF Spec

-----------------------------------------------------------------------------
(* What restoreEvents computes: a function defined by recursion over the     *)
(* lines exists, and its values follow by taking the least line at which a   *)
(* claim could fail.                                                         *)

\* A set of numbers has a least one.
LEMMA LeastNumber ==
  ASSUME NEW T \in SUBSET Nat, T # {}
  PROVE  \E x \in T : \A y \in T : ~(y < x)
  <1>1. IsWellFoundedOn(OpToRel(<, Nat), Nat)
    BY NatLessThanWellFounded
  <1>2. \E x \in T : \A y \in T : ~(<<y, x>> \in OpToRel(<, Nat))
    BY <1>1, WFMin
  <1> QED BY <1>2 DEF OpToRel

\* Induction over 0..N for a set of numbers.
LEMMA UpToInduction ==
  ASSUME NEW N \in Nat, NEW T, 0 \in T, \A n \in 1..N : n - 1 \in T => n \in T
  PROVE  \A n \in 0..N : n \in T
  <1> DEFINE F == {n \in 0..N : n \notin T}
  <1>1. SUFFICES ASSUME F # {} PROVE FALSE
    BY <1>1
  <1>2. PICK m \in F : \A y \in F : ~(y < m)
    <2>1. F \in SUBSET Nat
      OBVIOUS
    <2> HIDE DEF F
    <2> QED BY <1>1, <2>1, LeastNumber
  <1>3. m \in 0..N /\ m \notin T
    OBVIOUS
  <1>4. m \in 1..N /\ m - 1 \in 0..N /\ m - 1 < m
    BY <1>3
  <1>5. m - 1 \in T
    BY <1>2, <1>4
  <1> QED BY <1>3, <1>4, <1>5

\* A recursion of N steps through a set S, from one of its elements.
Recursion(f, N, a, step) == f[0] = a /\ \A n \in 1..N : f[n] = step[n][f[n - 1]]

\* A function that starts with a and takes N steps exists: else there is a
\* least number up to which there is none.
LEMMA RecursionExists ==
  ASSUME NEW N \in Nat, NEW S, NEW a \in S, NEW step \in [1..N -> [S -> S]]
  PROVE  \E f \in [0..N -> S] : Recursion(f, N, a, step)
  <1> DEFINE Reached(m) == \E f \in [0..m -> S] : Recursion(f, m, a, step)
             T == {m \in 0..N : Reached(m)}
  <1>1. 0 \in T
    <2> DEFINE f == [n \in 0..0 |-> a]
    <2>1. f \in [0..0 -> S] /\ Recursion(f, 0, a, step)
      BY DEF Recursion
    <2> HIDE DEF f
    <2> QED BY <2>1
  <1>2. ASSUME NEW m \in 1..N, m - 1 \in T PROVE m \in T
    <2>1. PICK f \in [0..m - 1 -> S] : Recursion(f, m - 1, a, step)
      BY <1>2
    <2> DEFINE g == [n \in 0..m |-> IF n = m THEN step[m][f[m - 1]] ELSE f[n]]
    <2>2. f[m - 1] \in S /\ step[m][f[m - 1]] \in S
      BY <2>1
    <2>3. g \in [0..m -> S]
      BY <2>1, <2>2
    <2>4. g[0] = a
      BY <2>1 DEF Recursion
    <2>5. ASSUME NEW n \in 1..m PROVE g[n] = step[n][g[n - 1]]
      <3>1. n - 1 \in 0..m /\ n \in 0..m /\ n - 1 # m /\ g[n - 1] = f[n - 1]
        OBVIOUS
      <3>2. CASE n = m
        BY <3>1, <3>2
      <3>3. CASE n # m
        <4>1. n \in 1..m - 1 /\ g[n] = f[n]
          BY <3>3
        <4> QED BY <2>1, <3>1, <4>1 DEF Recursion
      <3> QED BY <3>2, <3>3
    <2> HIDE DEF g
    <2>6. Recursion(g, m, a, step)
      BY <2>4, <2>5 DEF Recursion
    <2> QED BY <2>3, <2>6
  <1>3. \A n \in 0..N : n \in T
    <2> HIDE DEF T
    <2> QED BY <1>1, <1>2, UpToInduction
  <1>4. N \in 0..N
    OBVIOUS
  <1> QED BY <1>3, <1>4

\* What is restored from the first n lines, one line after the other.
LEMMA RestoredSteps ==
  ASSUME file \in Seq(Line)
  PROVE  /\ Len(file) \in Nat
         /\ RestoredUpTo \in [0..Len(file) -> Seq(Event)]
         /\ RestoredUpTo[0] = <<>>
         /\ \A n \in 1..Len(file) :
              RestoredUpTo[n] = IF Readable(file[n]) THEN Append(RestoredUpTo[n - 1], file[n].event)
                                ELSE RestoredUpTo[n - 1]
  <1> DEFINE N == Len(file)
             step == [n \in 1..N |-> [q \in Seq(Event) |->
                        IF Readable(file[n]) THEN Append(q, file[n].event) ELSE q]]
             Eqn(g) == g = [n \in 0..N |->
                        IF n = 0 THEN <<>>
                        ELSE IF Readable(file[n]) THEN Append(g[n - 1], file[n].event)
                        ELSE g[n - 1]]
  <1>1. N \in Nat /\ \A n \in 1..N : file[n].event \in Event
    <2>1. N \in Nat /\ \A n \in 1..N : file[n] \in Line
      BY LenProperties, ElementOfSeq
    <2> QED BY <2>1 DEF Line
  <1>2. <<>> \in Seq(Event)
    BY EmptySeq
  <1>3. step \in [1..N -> [Seq(Event) -> Seq(Event)]]
    BY <1>1, AppendProperties
  <1>4. PICK f \in [0..N -> Seq(Event)] : Recursion(f, N, <<>>, step)
    <2> HIDE DEF step, N
    <2> QED BY <1>1, <1>2, <1>3, RecursionExists
  <1>5. ASSUME NEW n \in 1..N
        PROVE f[n] = IF Readable(file[n]) THEN Append(f[n - 1], file[n].event) ELSE f[n - 1]
    <2>1. f[n] = step[n][f[n - 1]]
      BY <1>4 DEF Recursion
    <2>2. f[n - 1] \in Seq(Event)
      BY <1>1, <1>4
    <2> QED BY <2>1, <2>2
  <1>6. f[0] = <<>>
    BY <1>4 DEF Recursion
  <1>7. Eqn(f)
    <2> DEFINE h == [n \in 0..N |-> IF n = 0 THEN <<>>
                        ELSE IF Readable(file[n]) THEN Append(f[n - 1], file[n].event)
                        ELSE f[n - 1]]
    <2>1. ASSUME NEW n \in 0..N PROVE f[n] = h[n]
      <3>1. CASE n = 0
        BY <1>6, <3>1
      <3>2. CASE n # 0
        <4>1. n \in 1..N
          BY <1>1, <3>2
        <4> QED BY <1>5, <3>2, <4>1
      <3> QED BY <3>1, <3>2
    <2>2. f = h
      BY <1>4, <2>1
    <2> QED BY <2>2
  <1> HIDE DEF Eqn
  <1>8. Eqn(CHOOSE g : Eqn(g))
    BY <1>7
  <1>9. RestoredUpTo = CHOOSE g : Eqn(g)
    BY DEF RestoredUpTo, Eqn
  <1> DEFINE r == RestoredUpTo
  <1>10. Eqn(r)
    BY <1>8, <1>9
  <1> HIDE DEF r
  <1>11. /\ DOMAIN r = 0..N /\ r[0] = <<>>
         /\ \A n \in 1..N :
              r[n] = IF Readable(file[n]) THEN Append(r[n - 1], file[n].event) ELSE r[n - 1]
    <2>1. /\ DOMAIN r = 0..N
          /\ \A n \in 0..N : r[n] = IF n = 0 THEN <<>>
                        ELSE IF Readable(file[n]) THEN Append(r[n - 1], file[n].event)
                        ELSE r[n - 1]
      BY <1>10 DEF Eqn
    <2>2. \A n \in 1..N : n \in 0..N /\ n # 0
      BY <1>1
    <2>3. 0 \in 0..N
      BY <1>1
    <2> QED BY <2>1, <2>2, <2>3
  <1>12. \A n \in 0..N : r[n] \in Seq(Event)
    <2> DEFINE T == {n \in 0..N : r[n] \in Seq(Event)}
    <2>1. 0 \in T
      <3>1. r[0] \in Seq(Event) /\ 0 \in 0..N
        BY <1>1, <1>2, <1>11
      <3> QED BY <3>1
    <2>2. ASSUME NEW n \in 1..N, n - 1 \in T PROVE n \in T
      <3>1. file[n].event \in Event /\ r[n - 1] \in Seq(Event)
        BY <1>1, <2>2
      <3>2. Append(r[n - 1], file[n].event) \in Seq(Event)
        BY <3>1, AppendProperties
      <3>3. r[n] = IF Readable(file[n]) THEN Append(r[n - 1], file[n].event) ELSE r[n - 1]
        BY <1>11
      <3>4. n \in 0..N
        BY <1>1
      <3> QED BY <3>1, <3>2, <3>3, <3>4
    <2>3. \A n \in 0..N : n \in T
      <3> HIDE DEF T
      <3> QED BY <1>1, <2>1, <2>2, UpToInduction
    <2> QED BY <2>3
  <1>13. r \in [0..N -> Seq(Event)]
    <2>1. r = [n \in 0..N |-> r[n]]
      BY <1>10 DEF Eqn
    <2> QED BY <1>12, <2>1
  <1> QED BY <1>1, <1>11, <1>13 DEF r

-----------------------------------------------------------------------------
(* Types, and what a resumed process finds.                                  *)

\* What is read back comes from the file.
LEMMA RestoredFromFile ==
  ASSUME file \in Seq(Line)
  PROVE  /\ Restored \in Seq(Event)
         /\ \A i \in 1..Len(Restored) : \E j \in 1..Len(file) : file[j].event = Restored[i]
  <1> DEFINE r == RestoredUpTo
             N == Len(file)
             T == {n \in 0..N : \A i \in 1..Len(r[n]) : \E j \in 1..N : file[j].event = r[n][i]}
  <1>1. /\ N \in Nat /\ r \in [0..N -> Seq(Event)] /\ r[0] = <<>>
        /\ \A n \in 1..N : r[n] = IF Readable(file[n]) THEN Append(r[n - 1], file[n].event)
                                 ELSE r[n - 1]
    BY RestoredSteps
  <1>2. \A n \in 1..N : file[n].event \in Event
    <2>1. \A n \in 1..N : file[n] \in Line
      BY ElementOfSeq
    <2> QED BY <2>1 DEF Line
  <1> HIDE DEF r
  <1>3. 0 \in T
    BY <1>1
  <1>4. ASSUME NEW n \in 1..N, n - 1 \in T PROVE n \in T
    <2>1. /\ n - 1 \in 0..N /\ n \in 0..N
          /\ \A i \in 1..Len(r[n - 1]) : \E j \in 1..N : file[j].event = r[n - 1][i]
      <3>1. n - 1 \in T
        BY <1>4
      <3>2. n \in 0..N
        BY <1>1
      <3> QED BY <3>1, <3>2
    <2>2. r[n - 1] \in Seq(Event) /\ Len(r[n - 1]) \in Nat
      BY <1>1, <2>1, LenProperties
    <2>3. CASE ~Readable(file[n])
      BY <1>1, <2>1, <2>3
    <2>4. CASE Readable(file[n])
      <3> DEFINE e == file[n].event
                 q == r[n - 1]
      <3>1. r[n] = Append(q, e) /\ e \in Event
        BY <1>1, <1>2, <2>4
      <3> HIDE DEF e, q
      <3>2. /\ Len(r[n]) = Len(q) + 1 /\ \A i \in 1..Len(q) : r[n][i] = q[i]
            /\ r[n][Len(q) + 1] = e
        BY <2>2, <3>1, AppendProperties DEF q
      <3>3. ASSUME NEW i \in 1..Len(r[n]) PROVE \E j \in 1..N : file[j].event = r[n][i]
        <4>1. CASE i = Len(q) + 1
          BY <3>2, <4>1 DEF e
        <4>2. CASE i # Len(q) + 1
          <5>1. i \in 1..Len(q)
            BY <2>2, <3>2, <4>2 DEF q
          <5> QED BY <2>1, <3>2, <5>1 DEF q
        <4> QED BY <4>1, <4>2
      <3> QED BY <2>1, <3>3
    <2> QED BY <2>3, <2>4
  <1>5. \A n \in 0..N : n \in T
    <2> HIDE DEF T, N
    <2> QED BY <1>1, <1>3, <1>4, UpToInduction
  <1>6. N \in 0..N
    BY <1>1
  <1> QED BY <1>1, <1>5, <1>6 DEF Restored, r

\* Two ways to append a line: after the others, or over an unterminated one.
LEMMA AppendLineTyped ==
  ASSUME file \in Seq(Line), NEW e \in Event, NEW kind \in {"whole", "bare", "torn"}
  PROVE  /\ AppendLine(file, e, kind) \in Seq(Line)
         /\ Len(file) \in Nat
         /\ Unterminated(file) => Len(file) # 0
  <1>1. Len(file) \in Nat
    BY LenProperties
  <1>2. CASE Unterminated(file)
    <2> DEFINE l == [event |-> e, kind |-> IF kind = "whole" THEN "garbled" ELSE "torn"]
    <2>1. l \in Line
      BY DEF Line
    <2>2. AppendLine(file, e, kind) = [file EXCEPT ![Len(file)] = l]
      BY <1>2 DEF AppendLine
    <2>3. Len(file) # 0
      BY <1>2, EmptySeq DEF Unterminated
    <2> HIDE DEF l
    <2>4. [file EXCEPT ![Len(file)] = l] \in Seq(Line)
      BY <1>1, <2>1, <2>3, ExceptSeq
    <2> QED BY <1>1, <2>2, <2>3, <2>4
  <1>3. CASE ~Unterminated(file)
    <2> DEFINE l == [event |-> e, kind |-> kind]
    <2>1. l \in Line
      BY DEF Line
    <2>2. AppendLine(file, e, kind) = Append(file, l)
      BY <1>3 DEF AppendLine
    <2> HIDE DEF l
    <2> QED BY <1>1, <1>3, <2>1, <2>2, AppendProperties
  <1> QED BY <1>2, <1>3

\* Appending in full: what the last line is then.
LEMMA AppendLineKind ==
  ASSUME file \in Seq(Line), NEW e \in Event, NEW kind \in {"whole", "bare", "torn"}
  PROVE  LET g == AppendLine(file, e, kind) IN
         /\ Len(file) \in Nat /\ (Unterminated(file) => Len(file) # 0)
         /\ Len(g) = IF Unterminated(file) THEN Len(file) ELSE Len(file) + 1
         /\ g[Len(g)].event = e
         /\ g[Len(g)].kind = IF ~Unterminated(file) THEN kind
                             ELSE IF kind = "whole" THEN "garbled" ELSE "torn"
         /\ \A i \in 1..Len(g) - 1 : g[i] = file[i]
  <1> DEFINE g == AppendLine(file, e, kind)
  <1>1. Len(file) \in Nat /\ (Unterminated(file) => Len(file) # 0)
    BY AppendLineTyped
  <1>2. CASE Unterminated(file)
    <2> DEFINE l == [event |-> e, kind |-> IF kind = "whole" THEN "garbled" ELSE "torn"]
    <2>1. g = [file EXCEPT ![Len(file)] = l] /\ l \in Line
      BY <1>2 DEF AppendLine, Line
    <2>2. l.event = e /\ l.kind = IF kind = "whole" THEN "garbled" ELSE "torn"
      OBVIOUS
    <2> HIDE DEF l, g
    <2>3. Len(g) = Len(file) /\ g[Len(g)] = l /\ \A i \in 1..Len(file) - 1 : g[i] = file[i]
      BY <1>1, <1>2, <2>1, ExceptSeq
    <2> QED BY <1>1, <1>2, <2>2, <2>3 DEF g
  <1>3. CASE ~Unterminated(file)
    <2> DEFINE l == [event |-> e, kind |-> kind]
    <2>1. g = Append(file, l) /\ l \in Line
      BY <1>3 DEF AppendLine, Line
    <2>2. l.event = e /\ l.kind = kind
      OBVIOUS
    <2> HIDE DEF l, g
    <2>3. /\ Len(g) = Len(file) + 1 /\ g[Len(file) + 1] = l
          /\ \A i \in 1..Len(file) : g[i] = file[i]
      BY <1>1, <2>1, AppendProperties
    <2> QED BY <1>1, <1>3, <2>2, <2>3 DEF g
  <1> QED BY <1>2, <1>3

\* A new event is an event.
LEMMA NewEventTyped ==
  ASSUME TypeOK, ids < MaxEvents, NEW prompt \in BOOLEAN
  PROVE  NewEvent(prompt) \in Event /\ ids + 1 \in 0..MaxEvents
  <1>1. ids + 1 \in 1..MaxEvents /\ Len(log) \in Nat
    BY PersistenceAssumption, LenProperties DEF TypeOK
  <1> QED BY <1>1 DEF NewEvent, Event

\* An append keeps the types of the queue, of the metadata and of the timer.
LEMMA EnqueueTyped ==
  ASSUME TypeOK, NEW e \in Event, EnqueueAppend(e)
  PROVE  queue' \in Seq(Event) /\ meta' \in Meta /\ timer' \in BOOLEAN
  <1>1. CASE life = "up"
    <2>1. queue' = Append(queue, e) /\ timer' = TRUE
      BY <1>1 DEF EnqueueAppend, Enqueue
    <2>2. queue' \in Seq(Event)
      BY <2>1, AppendProperties DEF TypeOK
    <2>3. meta' = [eventCount |-> meta.eventCount + 1,
                   firstPrompt |-> IF meta.firstPrompt = 0 /\ e.prompt THEN e.id
                                   ELSE meta.firstPrompt]
      BY <1>1 DEF EnqueueAppend
    <2>4. /\ meta.eventCount \in Nat /\ meta.firstPrompt \in 0..MaxEvents
          /\ e.id \in 1..MaxEvents
      BY DEF TypeOK, Meta, Event
    <2>5. meta.eventCount + 1 \in Nat /\ e.id \in 0..MaxEvents
      BY <2>4, PersistenceAssumption
    <2>6. meta' \in Meta
      BY <2>3, <2>4, <2>5 DEF Meta
    <2> QED BY <2>1, <2>2, <2>6
  <1>2. CASE life # "up"
    BY <1>2 DEF EnqueueAppend, TypeOK
  <1> QED BY <1>1, <1>2

\* The head of the queue is an event, and the tail a queue.
LEMMA HeadTyped ==
  ASSUME TypeOK, queue # <<>>
  PROVE  /\ Head(queue) \in Event /\ Head(queue) = queue[1] /\ Tail(queue) \in Seq(Event)
         /\ Len(queue) \in Nat \ {0} /\ Len(Tail(queue)) = Len(queue) - 1
         /\ \A i \in 1..Len(queue) - 1 : Tail(queue)[i] = queue[i + 1]
  <1>1. queue \in Seq(Event)
    BY DEF TypeOK
  <1> QED BY <1>1, HeadTailProperties, EmptySeq, LenProperties

\* What a cut line leaves is still a file.
LEMMA CutTyped ==
  ASSUME TypeOK, queue # <<>>, Cut(Head(queue))
  PROVE  file' \in Seq(Line)
  <1>1. CASE file' = file
    BY <1>1 DEF TypeOK
  <1>2. CASE \E kind \in {"bare", "torn"} : file' = AppendLine(file, Head(queue), kind)
    <2>1. PICK kind \in {"bare", "torn"} : file' = AppendLine(file, Head(queue), kind)
      BY <1>2
    <2>2. Head(queue) \in Event /\ file \in Seq(Line)
      BY HeadTyped DEF TypeOK
    <2>3. kind \in {"whole", "bare", "torn"}
      OBVIOUS
    <2> QED BY <2>1, <2>2, <2>3, AppendLineTyped
  <1> QED BY <1>1, <1>2 DEF Cut

\* An index write ends: the others stay.
LEMMA RemoveTyped ==
  ASSUME NEW S, NEW q \in Seq(S), NEW i \in 1..Len(q)
  PROVE  q[i] \in S /\ RemoveAt(q, i) \in Seq(S)
  <1>1. Len(q) \in Nat /\ \A k \in 1..Len(q) : q[k] \in S
    BY LenProperties, ElementOfSeq
  <1>2. /\ 1 \in Int /\ i - 1 \in Int /\ i + 1 \in Int /\ Len(q) \in Int
        /\ \A k \in 1..i - 1 : k \in 1..Len(q)
        /\ \A k \in i + 1..Len(q) : k \in 1..Len(q)
    BY <1>1
  <1>3. SubSeq(q, 1, i - 1) \in Seq(S) /\ SubSeq(q, i + 1, Len(q)) \in Seq(S)
    BY <1>1, <1>2, SubSeqProperties
  <1>4. SubSeq(q, 1, i - 1) \o SubSeq(q, i + 1, Len(q)) \in Seq(S)
    BY <1>3, ConcatProperties
  <1> QED BY <1>1, <1>4 DEF RemoveAt

\* The index writes keep the types of what they change.
LEMMA IndexTyped ==
  ASSUME TypeOK, IndexStep
  PROVE  /\ timer' \in BOOLEAN /\ opening' \in Nat /\ flying' \in Seq(Meta)
         /\ sidecar' \in Meta /\ spoilt' \in BOOLEAN
  <1>1. CASE IndexFires
    <2>1. opening' \in Nat /\ timer' = FALSE /\ flying' = flying /\ sidecar' = sidecar
      BY <1>1 DEF IndexFires, TypeOK
    <2>2. spoilt' \in BOOLEAN
      BY <1>1 DEF IndexFires
    <2> QED BY <2>1, <2>2 DEF TypeOK
  <1>2. CASE IndexReads
    <2>1. flying' \in Seq(Meta)
      BY <1>2, AppendProperties DEF IndexReads, TypeOK
    <2> QED BY <1>2, <2>1 DEF IndexReads, TypeOK
  <1>3. CASE \E i \in 1..Len(flying) : IndexLands(i)
    <2>1. flying' \in Seq(Meta) /\ sidecar' \in Meta
      BY <1>3, RemoveTyped DEF IndexLands, TypeOK
    <2> QED BY <1>3, <2>1 DEF IndexLands, TypeOK
  <1>4. CASE IndexFails
    <2>1. flying' \in Seq(Meta)
      BY <1>4, RemoveTyped DEF IndexFails, TypeOK
    <2> QED BY <1>4, <2>1 DEF IndexFails, TypeOK
  <1> QED BY <1>1, <1>2, <1>3, <1>4 DEF IndexStep

\* Every step keeps the types ...
LEMMA TypeOKInductive ==
  ASSUME TypeOK, [Next]_vars
  PROVE  TypeOK'
  <1>0. <<>> \in Seq(Event) /\ <<>> \in Seq(Meta) /\ NoMeta \in Meta
    BY EmptySeq, PersistenceAssumption DEF NoMeta, Meta
  <1>1. ASSUME NEW prompt \in BOOLEAN, AppendEvent(prompt) PROVE TypeOK'
    <2>1. NewEvent(prompt) \in Event /\ ids' \in 0..MaxEvents
      BY <1>1, NewEventTyped DEF AppendEvent
    <2>2. log' \in Seq(Event)
      BY <1>1, <2>1, AppendProperties DEF AppendEvent, TypeOK
    <2>3. queue' \in Seq(Event) /\ meta' \in Meta /\ timer' \in BOOLEAN /\ fanout' \in SUBSET Event
      <3>1. CASE EnqueueAppend(NewEvent(prompt)) /\ UNCHANGED fanout
        BY <2>1, <3>1, EnqueueTyped DEF TypeOK
      <3>2. CASE fanout' = fanout \cup {NewEvent(prompt)} /\ UNCHANGED <<queue, meta, timer>>
        BY <2>1, <3>2 DEF TypeOK
      <3> QED BY <1>1, <3>1, <3>2 DEF AppendEvent
    <2> QED BY <1>1, <2>1, <2>2, <2>3 DEF AppendEvent, TypeOK
  <1>2. ASSUME NEW e \in fanout, HookEnds(e) PROVE TypeOK'
    <2>1. e \in Event /\ EnqueueAppend(e)
      BY <1>2 DEF HookEnds, TypeOK
    <2>2. queue' \in Seq(Event) /\ meta' \in Meta /\ timer' \in BOOLEAN
      BY <2>1, EnqueueTyped
    <2> QED BY <1>2, <2>2 DEF HookEnds, pastVars, TypeOK
  <1>3. CASE WriteLine
    <2>1. Head(queue) \in Event /\ queue' \in Seq(Event)
      BY <1>3, HeadTyped DEF WriteLine
    <2>2. file' \in Seq(Line)
      BY <1>3, <2>1, AppendLineTyped DEF WriteLine, WriteHead, TypeOK
    <2> QED BY <1>3, <2>1, <2>2 DEF WriteLine, WriteHead, indexVars, pastVars, TypeOK
  <1>3a. CASE FailLine
    <2>1. Head(queue) \in Event /\ queue' \in Seq(Event) /\ queue # <<>>
      BY <1>3a, HeadTyped DEF FailLine
    <2>2. file' \in Seq(Line)
      BY <1>3a, <2>1, CutTyped DEF FailLine
    <2>3. failed' \in SUBSET Event /\ holed' \in BOOLEAN
      BY <1>3a, <2>1 DEF FailLine, TypeOK
    <2> QED BY <1>3a, <2>1, <2>2, <2>3 DEF FailLine, indexVars, pastVars, TypeOK
  <1>4. CASE IndexStep
    BY <1>4, IndexFrame, IndexTyped DEF TypeOK
  <1>5. CASE Clear
    BY <1>0, <1>5 DEF Clear, indexVars, pastVars, TypeOK
  <1>6. CASE Start
    <2>1. log' \in Seq(Event)
      BY <1>6, RestoredFromFile DEF Start, TypeOK
    <2>2. lives' \in 0..MaxLives
      BY <1>6, PersistenceAssumption DEF Start, TypeOK
    <2> QED BY <1>0, <1>6, <2>1, <2>2 DEF Start, TypeOK
  <1>7. CASE Detach
    BY <1>7 DEF Detach, memoryVars, pastVars, TypeOK
  <1>8. ASSUME NEW how \in {"crash", "exit"}, Gone(how), file' \in Seq(Line), holed' \in BOOLEAN
        PROVE  TypeOK'
    BY <1>0, <1>8 DEF Gone, TypeOK
  <1>9. CASE Exit
    BY <1>8, <1>9 DEF Exit, TypeOK
  <1>10. CASE Crash
    <2>1. file' \in Seq(Line)
      BY <1>10, CutTyped DEF Crash, TypeOK
    <2>2. holed' \in BOOLEAN
      BY <1>10 DEF Crash, TypeOK
    <2> QED BY <1>8, <1>10, <2>1, <2>2 DEF Crash
  <1>11. CASE UNCHANGED vars
    BY <1>11 DEF vars, memoryVars, indexVars, pastVars, TypeOK
  <1> QED BY <1>1, <1>2, <1>3, <1>3a, <1>4, <1>5, <1>6, <1>7, <1>9, <1>10, <1>11 DEF Next, IndexStep

\* ... and they hold at the start.
LEMMA FirstTyped == Init => TypeOK
  <1>1. /\ <<>> \in Seq(Event) /\ <<>> \in Seq(Line) /\ <<>> \in Seq(Meta)
        /\ NoMeta \in Meta /\ 0 \in 0..MaxLives /\ 0 \in 0..MaxEvents
    BY EmptySeq, PersistenceAssumption DEF NoMeta, Meta
  <1>2. SUFFICES ASSUME Init PROVE TypeOK
    OBVIOUS
  <1>3. /\ log \in Seq(Event) /\ queue \in Seq(Event) /\ lastLog \in Seq(Event)
        /\ file \in Seq(Line) /\ flying \in Seq(Meta) /\ meta \in Meta /\ sidecar \in Meta
    BY <1>1, <1>2, Zenon DEF Init
  <1>4. /\ life = "down" /\ lives = 0 /\ ids = 0 /\ fanout = {} /\ failed = {} /\ opening = 0
        /\ timer = FALSE /\ holed = FALSE /\ spoilt = FALSE /\ ending = "none"
    BY <1>2 DEF Init
  <1> QED BY <1>1, <1>3, <1>4 DEF TypeOK

\* The file, the log and the queue hold what they should, also after any
\* number of torn lines and resumed lives.
THEOREM TypeCorrect == Spec => []TypeOK
  <1>1. TypeOK /\ [Next]_vars => TypeOK'
    BY TypeOKInductive
  <1> QED BY <1>1, FirstTyped, PTL DEF Spec

-----------------------------------------------------------------------------
(* The log is safe: an event of it is in the file, in the queue or with the  *)
(* hooks, and each step only moves it on from one to the next.               *)

\* The event is in the file, or in the queue to it.
InFile(f, e) == \E j \in 1..Len(f) : f[j].event = e
InQueue(q, e) == \E j \in 1..Len(q) : q[j] = e
AllWhole == \A i \in 1..Len(file) : file[i].kind = "whole"

\* An append adds its event to the queue and loses none.
LEMMA EnqueueHolds ==
  ASSUME TypeOK, life = "up", NEW e \in Event, EnqueueAppend(e)
  PROVE  InQueue(queue', e) /\ \A x : InQueue(queue, x) => InQueue(queue', x)
  <1>1. queue' = Append(queue, e) /\ queue \in Seq(Event)
    BY DEF EnqueueAppend, Enqueue, TypeOK
  <1>2. /\ Len(queue) \in Nat /\ Len(queue') = Len(queue) + 1
        /\ \A i \in 1..Len(queue) : queue'[i] = queue[i]
        /\ queue'[Len(queue) + 1] = e
    BY <1>1, AppendProperties, LenProperties
  <1>3. InQueue(queue', e)
    BY <1>2 DEF InQueue
  <1>4. ASSUME NEW x, InQueue(queue, x) PROVE InQueue(queue', x)
    <2>1. PICK j \in 1..Len(queue) : queue[j] = x
      BY <1>4 DEF InQueue
    <2>2. j \in 1..Len(queue') /\ queue'[j] = x
      BY <1>2, <2>1
    <2> QED BY <2>2 DEF InQueue
  <1> QED BY <1>3, <1>4

\* A line that is written whole is in the file when its event has left the
\* queue.
LEMMA WriteHolds ==
  ASSUME TypeOK, WriteLine, AllWhole'
  PROVE  /\ AllWhole
         /\ \A x : InFile(file, x) => InFile(file', x)
         /\ \A x : InQueue(queue, x) => InQueue(queue', x) \/ InFile(file', x)
  <1>1. /\ queue # <<>> /\ queue' = Tail(queue)
        /\ file' = AppendLine(file, Head(queue), "whole")
    BY DEF WriteLine, WriteHead
  <1>2. /\ Head(queue) \in Event /\ Head(queue) = queue[1]
        /\ Len(queue) \in Nat \ {0} /\ Len(Tail(queue)) = Len(queue) - 1
        /\ \A i \in 1..Len(queue) - 1 : Tail(queue)[i] = queue[i + 1]
    BY <1>1, HeadTyped
  <1>3. file \in Seq(Line) /\ Len(file) \in Nat
    BY LenProperties DEF TypeOK
  <1>4. ~Unterminated(file)
    <2>1. SUFFICES ASSUME Unterminated(file) PROVE FALSE
      BY <2>1
    <2> DEFINE l == [event |-> Head(queue), kind |-> "garbled"]
    <2>2. file' = [file EXCEPT ![Len(file)] = l] /\ Len(file) # 0
      BY <1>1, <1>2, <1>3, <2>1, AppendLineTyped DEF AppendLine
    <2>3. l \in Line /\ l.kind = "garbled"
      BY <1>2 DEF Line
    <2> HIDE DEF l
    <2>4. Len(file') = Len(file) /\ file'[Len(file)] = l
      BY <1>3, <2>2, <2>3, ExceptSeq
    <2>5. Len(file) \in 1..Len(file')
      BY <1>3, <2>2, <2>4
    <2>6. file'[Len(file)].kind = "whole"
      BY <2>5 DEF AllWhole
    <2> QED BY <2>3, <2>4, <2>6
  <1> DEFINE l == [event |-> Head(queue), kind |-> "whole"]
  <1>5. file' = Append(file, l) /\ l \in Line /\ l.event = queue[1]
    BY <1>1, <1>2, <1>4 DEF AppendLine, Line
  <1> HIDE DEF l
  <1>6. /\ Len(file') = Len(file) + 1 /\ \A i \in 1..Len(file) : file'[i] = file[i]
        /\ file'[Len(file) + 1] = l
    BY <1>3, <1>5, AppendProperties
  <1>7. \A i \in 1..Len(file) : i \in 1..Len(file')
    BY <1>3, <1>6
  <1>8. AllWhole
    BY <1>6, <1>7 DEF AllWhole
  <1>9. \A x : InFile(file, x) => InFile(file', x)
    BY <1>6, <1>7 DEF InFile
  <1>10. ASSUME NEW x, InQueue(queue, x) PROVE InQueue(queue', x) \/ InFile(file', x)
    <2>1. PICK j \in 1..Len(queue) : queue[j] = x
      BY <1>10 DEF InQueue
    <2>2. CASE j = 1
      <3>1. Len(file) + 1 \in 1..Len(file') /\ file'[Len(file) + 1].event = x
        BY <1>3, <1>5, <1>6, <2>1, <2>2
      <3> QED BY <3>1 DEF InFile
    <2>3. CASE j # 1
      <3>1. j - 1 \in 1..Len(queue) - 1 /\ queue[(j - 1) + 1] = x
        BY <1>2, <2>1, <2>3
      <3>2. j - 1 \in 1..Len(queue') /\ queue'[j - 1] = x
        BY <1>1, <1>2, <3>1
      <3> QED BY <3>2 DEF InQueue
    <2> QED BY <2>2, <2>3
  <1> QED BY <1>8, <1>9, <1>10

\* A cut line that has left something behind is not whole.
LEMMA CutIsSeen ==
  ASSUME TypeOK, queue # <<>>, Cut(Head(queue)), AllWhole'
  PROVE  file' = file
  <1>1. SUFFICES ASSUME NEW kind \in {"bare", "torn"}, file' = AppendLine(file, Head(queue), kind)
                 PROVE FALSE
    BY <1>1 DEF Cut
  <1>2. Head(queue) \in Event /\ file \in Seq(Line) /\ kind \in {"whole", "bare", "torn"}
    BY HeadTyped DEF TypeOK
  <1> DEFINE e == Head(queue)
  <1>3. e \in Event /\ file' = AppendLine(file, e, kind)
    BY <1>1, <1>2
  <1> HIDE DEF e
  <1>4. /\ Len(file) \in Nat /\ (Unterminated(file) => Len(file) # 0)
        /\ Len(file') = IF Unterminated(file) THEN Len(file) ELSE Len(file) + 1
        /\ file'[Len(file')].kind # "whole"
    BY <1>2, <1>3, AppendLineKind
  <1>5. Len(file') \in 1..Len(file')
    BY <1>4
  <1> QED BY <1>4, <1>5 DEF AllWhole

\* Every step keeps every event of the log in the queue or in the file, or is
\* the failure of its append.
LEMMA LogIsSafeInductive ==
  ASSUME TypeOK, LogIsSafe, [Next]_vars
  PROVE  LogIsSafe'
  <1>1. SUFFICES ASSUME life' = "up", AllWhole', NEW i \in 1..Len(log')
                 PROVE  InFile(file', log'[i]) \/ InQueue(queue', log'[i]) \/ log'[i] \in fanout' \cup failed'
    BY <1>1 DEF LogIsSafe, AllWhole, InFile, InQueue
  <1>2. ASSUME life = "up", AllWhole, NEW k \in 1..Len(log)
        PROVE  InFile(file, log[k]) \/ InQueue(queue, log[k]) \/ log[k] \in fanout \cup failed
    BY <1>2 DEF LogIsSafe, AllWhole, InFile, InQueue
  <1>3. ASSUME NEW prompt \in BOOLEAN, AppendEvent(prompt)
        PROVE  InFile(file', log'[i]) \/ InQueue(queue', log'[i]) \/ log'[i] \in fanout' \cup failed'
    <2> DEFINE e == NewEvent(prompt)
    <2>1. /\ e \in Event /\ log' = Append(log, e) /\ file' = file /\ life' = life /\ failed' = failed
          /\ \/ EnqueueAppend(e) /\ fanout' = fanout
             \/ fanout' = fanout \cup {e} /\ queue' = queue
      BY <1>3, NewEventTyped DEF AppendEvent
    <2> HIDE DEF e
    <2>2. /\ Len(log) \in Nat /\ Len(log') = Len(log) + 1 /\ log'[Len(log) + 1] = e
          /\ \A k \in 1..Len(log) : log'[k] = log[k]
      BY <2>1, AppendProperties, LenProperties DEF TypeOK
    <2>3. InQueue(queue', e) \/ e \in fanout' \cup failed'
      BY <1>1, <2>1, EnqueueHolds
    <2>4. CASE i = Len(log) + 1
      BY <2>2, <2>3, <2>4
    <2>5. CASE i # Len(log) + 1
      <3>1. i \in 1..Len(log) /\ log'[i] = log[i]
        BY <2>2, <2>5
      <3>2. life = "up" /\ AllWhole
        BY <1>1, <2>1 DEF AllWhole
      <3>3. InFile(file, log[i]) \/ InQueue(queue, log[i]) \/ log[i] \in fanout \cup failed
        BY <1>2, <3>1, <3>2
      <3>4. \A x : InFile(file, x) => InFile(file', x)
        BY <2>1 DEF InFile
      <3>5. \A x : InQueue(queue, x) => InQueue(queue', x)
        <4>1. CASE EnqueueAppend(e)
          BY <2>1, <3>2, <4>1, EnqueueHolds
        <4>2. CASE queue' = queue
          BY <4>2 DEF InQueue
        <4> QED BY <2>1, <4>1, <4>2
      <3> QED BY <2>1, <3>1, <3>3, <3>4, <3>5
    <2> QED BY <2>4, <2>5
  <1>4. ASSUME NEW e \in fanout, HookEnds(e)
        PROVE  InFile(file', log'[i]) \/ InQueue(queue', log'[i]) \/ log'[i] \in fanout' \cup failed'
    <2>1. /\ e \in Event /\ EnqueueAppend(e) /\ fanout' = fanout \ {e}
          /\ file' = file /\ life' = life /\ log' = log /\ failed' = failed
      BY <1>4 DEF HookEnds, TypeOK
    <2>2. life = "up" /\ AllWhole /\ i \in 1..Len(log)
      BY <1>1, <2>1 DEF AllWhole
    <2>3. InQueue(queue', e) /\ \A x : InQueue(queue, x) => InQueue(queue', x)
      BY <2>1, <2>2, EnqueueHolds
    <2>4. \A x : InFile(file, x) => InFile(file', x)
      BY <2>1 DEF InFile
    <2>5. InFile(file, log[i]) \/ InQueue(queue, log[i]) \/ log[i] \in fanout \cup failed
      BY <1>2, <2>2
    <2> QED BY <2>1, <2>3, <2>4, <2>5
  <1>5. CASE WriteLine
    <2>1. life' = life /\ log' = log /\ fanout' = fanout /\ failed' = failed
      BY <1>5 DEF WriteLine, WriteHead
    <2>2. AllWhole /\ (\A x : InFile(file, x) => InFile(file', x)) /\ \A x : InQueue(queue, x) => InQueue(queue', x) \/ InFile(file', x)
      BY <1>1, <1>5, WriteHolds
    <2>3. InFile(file, log[i]) \/ InQueue(queue, log[i]) \/ log[i] \in fanout \cup failed
      BY <1>1, <1>2, <2>1, <2>2
    <2> QED BY <2>1, <2>2, <2>3
  <1>5a. CASE FailLine
    <2>1. /\ life' = life /\ log' = log /\ fanout' = fanout /\ failed' = failed \cup {Head(queue)}
          /\ queue # <<>> /\ queue' = Tail(queue) /\ Cut(Head(queue))
      BY <1>5a DEF FailLine
    <2>2. file' = file
      BY <1>1, <2>1, CutIsSeen
    <2>3. AllWhole
      BY <1>1, <2>2 DEF AllWhole
    <2>4. InFile(file, log[i]) \/ InQueue(queue, log[i]) \/ log[i] \in fanout \cup failed
      BY <1>1, <1>2, <2>1, <2>3
    <2>5. CASE InQueue(queue, log[i])
      <3>1. PICK j \in 1..Len(queue) : queue[j] = log[i]
        BY <2>5 DEF InQueue
      <3>2. /\ Head(queue) = queue[1] /\ Len(queue) \in Nat \ {0} /\ Len(queue') = Len(queue) - 1
            /\ \A k \in 1..Len(queue) - 1 : queue'[k] = queue[k + 1]
        BY <2>1, HeadTyped
      <3>3. CASE j = 1
        BY <2>1, <3>1, <3>2, <3>3
      <3>4. CASE j # 1
        <4>1. j - 1 \in 1..Len(queue') /\ queue'[j - 1] = log[i]
          <5>1. j - 1 \in 1..Len(queue) - 1 /\ (j - 1) + 1 = j
            BY <3>1, <3>2, <3>4
          <5> QED BY <3>1, <3>2, <5>1
        <4> QED BY <2>1, <4>1 DEF InQueue
      <3> QED BY <3>3, <3>4
    <2> QED BY <2>1, <2>2, <2>4, <2>5
  <1>6. CASE IndexStep \/ UNCHANGED vars
    <2>1. /\ life' = life /\ log' = log /\ fanout' = fanout /\ file' = file /\ queue' = queue
          /\ failed' = failed
      BY <1>6, IndexFrame DEF vars, memoryVars
    <2>2. life = "up" /\ AllWhole /\ i \in 1..Len(log)
      BY <1>1, <2>1 DEF AllWhole
    <2>3. InFile(file, log[i]) \/ InQueue(queue, log[i]) \/ log[i] \in fanout \cup failed
      BY <1>2, <2>2
    <2> QED BY <2>1, <2>3 DEF InFile, InQueue
  <1>7. CASE Clear
    BY <1>1, <1>7 DEF Clear
  <1>8. CASE Start
    <2>1. log' = Restored /\ file' = file
      BY <1>8 DEF Start
    <2>2. PICK j \in 1..Len(file) : file[j].event = Restored[i]
      BY <1>1, <2>1, RestoredFromFile DEF TypeOK
    <2> QED BY <2>1, <2>2 DEF InFile
  <1>9. CASE Detach \/ Exit \/ Crash
    BY <1>1, <1>9 DEF Detach, Exit, Crash, Gone
  <1> QED BY <1>3, <1>4, <1>5, <1>5a, <1>6, <1>7, <1>8, <1>9 DEF Next, IndexStep

\* With slow hooks, torn lines, refused writes, resumed lives and `/new`: as long
\* as every line ends in its newline, no event of a living session's log is
\* missing from the file, the queue and the hooks but those whose append failed.
THEOREM LogSafe == Spec => []LogIsSafe
  <1>1. Init => LogIsSafe
    BY DEF Init, LogIsSafe
  <1>2. LogIsSafe /\ TypeOK /\ [Next]_vars => LogIsSafe'
    BY LogIsSafeInductive
  <1> QED BY <1>1, <1>2, TypeCorrect, PTL DEF Spec

-----------------------------------------------------------------------------
(* The numbers of the events: line i of a file without garbled lines or      *)
(* holes holds the event numbered i - 1; until an append fails, the queue    *)
(* goes on where the readable lines end, the log where the queue ends.       *)

\* No line has two events run together, none was written after a failure.
NoneGarbled == ~holed /\ \A i \in 1..Len(file) : file[i].kind # "garbled"

\* The readable lines: all but a torn last one.
Lines == IF file # <<>> /\ file[Len(file)].kind = "torn" THEN Len(file) - 1 ELSE Len(file)

\* File, queue and log go on from each other.
Numbered ==
  /\ fanout = {} /\ (life = "down" => queue = <<>> /\ failed = {})
  /\ \A i \in 1..Len(file) - 1 : file[i].kind \in {"whole", "garbled"}
  /\ NoneGarbled =>
       /\ \A i \in 1..Lines : file[i].event.seq = i - 1
       /\ failed = {} => \A k \in 1..Len(queue) : queue[k].seq = Lines + k - 1
       /\ life = "up" => /\ Mirrored(log)
                         /\ failed = {} => Len(log) = Lines + Len(queue)

\* What a process reads back: the events of the readable lines, one by one.
LEMMA RestoredNumbered ==
  ASSUME TypeOK, Numbered, NoneGarbled
  PROVE  Mirrored(Restored) /\ Len(Restored) = Lines
  <1> DEFINE r == RestoredUpTo
             N == Len(file)
             T == {n \in 0..Lines : Len(r[n]) = n /\ \A i \in 1..n : r[n][i].seq = i - 1}
  <1>1. /\ N \in Nat /\ r \in [0..N -> Seq(Event)] /\ r[0] = <<>>
        /\ \A n \in 1..N : r[n] = IF Readable(file[n]) THEN Append(r[n - 1], file[n].event)
                                 ELSE r[n - 1]
    BY RestoredSteps DEF TypeOK
  <1>2. /\ Lines \in 0..N
        /\ \/ Lines = N
           \/ N \in 1..N /\ Lines = N - 1 /\ file[N].kind = "torn"
    <2>1. file # <<>> => N # 0
      BY EmptySeq DEF TypeOK
    <2>2. CASE file # <<>> /\ file[N].kind = "torn"
      BY <1>1, <2>1, <2>2 DEF Lines
    <2>3. CASE ~(file # <<>> /\ file[N].kind = "torn")
      BY <1>1, <2>3 DEF Lines
    <2> QED BY <2>2, <2>3
  <1> HIDE DEF r
  <1>3. ASSUME NEW n \in 1..N
        PROVE  file[n].event \in Event /\ file[n].kind \in {"whole", "bare", "torn", "garbled"}
    <2>1. file[n] \in Line
      BY ElementOfSeq DEF TypeOK
    <2> QED BY <2>1 DEF Line
  <1>4. ASSUME NEW n \in 1..Lines PROVE n \in 1..N /\ Readable(file[n])
    <2>1. n \in 1..N /\ file[n].kind # "garbled"
      BY <1>1, <1>2 DEF NoneGarbled
    <2>2. CASE n \in 1..N - 1
      BY <2>1, <2>2 DEF Numbered, Readable
    <2>3. CASE n \notin 1..N - 1
      <3>1. n = N /\ Lines = N
        BY <1>1, <1>2, <2>1, <2>3
      <3>2. file # <<>>
        BY <1>1, <2>1
      <3>3. file[n].kind # "torn"
        BY <1>1, <3>1, <3>2 DEF Lines
      <3> QED BY <1>3, <2>1, <3>3 DEF Readable
    <2> QED BY <2>2, <2>3
  <1>5. 0 \in T
    <2>1. Len(r[0]) = 0 /\ 0 \in 0..Lines
      BY <1>1, <1>2
    <2> QED BY <2>1
  <1>6. ASSUME NEW n \in 1..Lines, n - 1 \in T PROVE n \in T
    <2> DEFINE e == file[n].event
               q == r[n - 1]
    <2>1. n - 1 \in T
      BY <1>6
    <2>2. n - 1 \in 0..Lines /\ Len(q) = n - 1 /\ \A i \in 1..n - 1 : q[i].seq = i - 1
      BY <2>1
    <2>3. n \in 1..N /\ r[n] = Append(q, e) /\ e \in Event /\ e.seq = n - 1
      BY <1>1, <1>3, <1>4 DEF Numbered
    <2>4. q \in Seq(Event)
      BY <1>1, <2>3
    <2> HIDE DEF e, q, T
    <2>5. /\ Len(r[n]) = Len(q) + 1 /\ \A i \in 1..Len(q) : r[n][i] = q[i]
          /\ r[n][Len(q) + 1] = e
      BY <2>3, <2>4, AppendProperties
    <2>6. Len(r[n]) = n /\ \A i \in 1..n : r[n][i].seq = i - 1
      BY <1>2, <2>2, <2>3, <2>5
    <2>7. n \in 0..Lines
      BY <1>2
    <2> QED BY <2>6, <2>7 DEF T
  <1>7. \A n \in 0..Lines : n \in T
    <2> HIDE DEF T
    <2>1. Lines \in Nat
      BY <1>1, <1>2
    <2> QED BY <1>5, <1>6, <2>1, UpToInduction
  <1>8. Lines \in 0..Lines
    BY <1>1, <1>2
  <1>9. Len(r[Lines]) = Lines /\ \A i \in 1..Lines : r[Lines][i].seq = i - 1
    BY <1>7, <1>8
  <1>10. r[N] = r[Lines]
    <2>1. CASE Lines = N
      BY <2>1
    <2>2. CASE N \in 1..N /\ Lines = N - 1 /\ file[N].kind = "torn"
      BY <1>1, <2>2 DEF Readable
    <2> QED BY <1>2, <2>1, <2>2
  <1> QED BY <1>9, <1>10 DEF Mirrored, Restored, r

\* A line that neither garbles the file nor comes after a failure takes the
\* next number or is torn.
LEMMA LineNumbered ==
  ASSUME TypeOK, Numbered, queue # <<>>, NEW kind \in {"whole", "bare", "torn"},
         file' = AppendLine(file, Head(queue), kind),
         holed => holed', (file' # file /\ failed # {}) => holed'
  PROVE  /\ \A i \in 1..Len(file') - 1 : file'[i].kind \in {"whole", "garbled"}
         /\ Lines \in Nat
         /\ NoneGarbled' =>
              /\ NoneGarbled
              /\ \A i \in 1..Lines' : file'[i].event.seq = i - 1
              /\ kind = "whole" => Lines' = Lines + 1 /\ failed = {}
  <1> DEFINE e == Head(queue)
             g == AppendLine(file, Head(queue), kind)
             N == Len(file)
             M == Len(g)
  <1>1. /\ e \in Event /\ e = queue[1] /\ 1 \in 1..Len(queue)
    BY HeadTyped
  <1>2. /\ N \in Nat /\ (Unterminated(file) => N # 0)
        /\ M = IF Unterminated(file) THEN N ELSE N + 1
        /\ g[M].event = e
        /\ g[M].kind = IF ~Unterminated(file) THEN kind
                       ELSE IF kind = "whole" THEN "garbled" ELSE "torn"
        /\ \A i \in 1..M - 1 : g[i] = file[i]
    <2>1. file \in Seq(Line) /\ e \in Event
      BY <1>1 DEF TypeOK
    <2> HIDE DEF e
    <2>2. g = AppendLine(file, e, kind)
      BY DEF e
    <2> HIDE DEF g
    <2> QED BY <2>1, <2>2, AppendLineKind
  <1>3. file' = g
    OBVIOUS
  <1> HIDE DEF e, g
  <1>4. file # <<>> => N # 0
    BY EmptySeq DEF TypeOK
  <1>5. \A n \in 1..N : file[n].kind \in {"whole", "bare", "torn", "garbled"}
    <2> TAKE n \in 1..N
    <2>1. file[n] \in Line
      BY ElementOfSeq DEF TypeOK
    <2> QED BY <2>1 DEF Line
  <1> HIDE DEF N, M
  <1>6. ASSUME NEW i \in 1..M - 1 PROVE g[i].kind \in {"whole", "garbled"}
    <2>1. g[i] = file[i] /\ i \in 1..N
      BY <1>2
    <2>2. CASE i \in 1..N - 1
      BY <2>1, <2>2 DEF Numbered, N
    <2>3. CASE i \notin 1..N - 1
      <3>1. i = N /\ ~Unterminated(file) /\ file # <<>>
        BY <1>2, <2>1, <2>3 DEF N
      <3> QED BY <1>5, <2>1, <3>1 DEF Unterminated, N
    <2> QED BY <2>2, <2>3
  <1>7. Lines \in Nat /\ Lines <= N
    BY <1>2, <1>4 DEF Lines, N
  <1>8. g # <<>> /\ Lines' = IF g[M].kind = "torn" THEN M - 1 ELSE M
    <2>1. M # 0
      BY <1>2
    <2> QED BY <1>3, <2>1 DEF Lines, M
  <1>9. ASSUME NoneGarbled'
        PROVE  /\ NoneGarbled
               /\ \A i \in 1..Lines' : file'[i].event.seq = i - 1
               /\ kind = "whole" => Lines' = Lines + 1 /\ failed = {}
    <2>1. ~holed' /\ \A i \in 1..M : g[i].kind # "garbled"
      BY <1>3, <1>9 DEF NoneGarbled, M
    <2>2. NoneGarbled
      <3> SUFFICES ASSUME NEW i \in 1..N PROVE file[i].kind # "garbled"
        BY <2>1 DEF NoneGarbled, N
      <3>1. CASE i \in 1..M - 1
        <4>1. i \in 1..M
          BY <1>2, <3>1
        <4> QED BY <1>2, <2>1, <3>1, <4>1
      <3>2. CASE i \notin 1..M - 1
        <4>1. i = N /\ Unterminated(file)
          BY <1>2, <3>2
        <4> QED BY <4>1 DEF Unterminated, N
      <3> QED BY <3>1, <3>2
    <2>3. \A i \in 1..Lines : file[i].event.seq = i - 1
      BY <2>2 DEF Numbered
    <2>4. CASE Unterminated(file)
      <3>1. M \in 1..M /\ M = N
        BY <1>2, <2>4
      <3>2. g[M].kind = "torn" /\ kind # "whole"
        BY <1>2, <2>1, <2>4, <3>1
      <3>3. Lines' = N - 1 /\ N - 1 <= Lines
        BY <1>2, <1>4, <1>8, <3>1, <3>2 DEF Lines, N
      <3>4. ASSUME NEW i \in 1..Lines' PROVE g[i].event.seq = i - 1
        <4>1. i \in 1..M - 1 /\ i \in 1..Lines
          BY <1>2, <1>7, <3>1, <3>3
        <4> QED BY <1>2, <2>3, <4>1
      <3> QED BY <1>3, <2>2, <3>2, <3>4
    <2>5. CASE ~Unterminated(file)
      <3>1. Lines = N /\ M = N + 1
        BY <1>2, <2>5 DEF Lines, Unterminated, N
      <3>1a. failed = {}
        <4>1. file' # file
          BY <1>2, <1>3, <3>1 DEF M, N
        <4> QED BY <2>1, <4>1
      <3>1b. e.seq = Lines
        <4>1. e.seq = Lines + 1 - 1
          BY <1>1, <2>2, <3>1a DEF Numbered
        <4> QED BY <1>7, <4>1
      <3>2. Lines' = IF kind = "torn" THEN N ELSE N + 1
        BY <1>2, <1>8, <2>5, <3>1
      <3>3. ASSUME NEW i \in 1..Lines' PROVE g[i].event.seq = i - 1
        <4>1. CASE i = M
          BY <1>2, <3>1, <3>1b, <4>1
        <4>2. CASE i # M
          <5>1. i \in 1..M - 1 /\ i \in 1..Lines
            BY <1>2, <3>1, <3>2, <4>2
          <5> QED BY <1>2, <2>3, <5>1
        <4> QED BY <4>1, <4>2
      <3> QED BY <1>3, <2>2, <3>1, <3>1a, <3>2, <3>3
    <2> QED BY <2>4, <2>5
  <1> QED BY <1>3, <1>6, <1>7, <1>9 DEF M

\* Every step keeps the numbers rising through file and queue, if the hooks run
\* in order and nothing clears the file.
LEMMA NumberedInductive ==
  ASSUME AsyncHooks = FALSE, Clears = FALSE, TypeOK, Numbered, [Next]_vars
  PROVE  Numbered'
  <1>0. /\ Len(file) \in Nat /\ Len(queue) \in Nat /\ Len(log) \in Nat
        /\ queue \in Seq(Event) /\ log \in Seq(Event)
    BY LenProperties DEF TypeOK
  <1>1. Lines \in Nat
    <2>1. file # <<>> => Len(file) # 0
      BY EmptySeq DEF TypeOK
    <2> QED BY <1>0, <2>1 DEF Lines
  <1>2. ASSUME NEW prompt \in BOOLEAN, AppendEvent(prompt) PROVE Numbered'
    <2> DEFINE e == NewEvent(prompt)
    <2>1. /\ e \in Event /\ e.seq = Len(log) /\ log' = Append(log, e)
          /\ file' = file /\ life' = life /\ life # "down" /\ fanout' = {}
          /\ failed' = failed /\ holed' = holed
          /\ EnqueueAppend(e)
      BY <1>2, NewEventTyped DEF AppendEvent, NewEvent, Numbered
    <2> HIDE DEF e
    <2>2. CASE life # "up"
      <3>1. queue' = queue
        BY <2>1, <2>2 DEF EnqueueAppend
      <3> QED BY <2>1, <2>2, <3>1 DEF Numbered, NoneGarbled, Lines
    <2>3. CASE life = "up"
      <3>1. queue' = Append(queue, e)
        BY <2>1, <2>3 DEF EnqueueAppend, Enqueue
      <3>2. /\ Len(queue') = Len(queue) + 1 /\ queue'[Len(queue) + 1] = e
            /\ \A k \in 1..Len(queue) : queue'[k] = queue[k]
        BY <1>0, <2>1, <3>1, AppendProperties
      <3>3. /\ Len(log') = Len(log) + 1 /\ log'[Len(log) + 1] = e
            /\ \A k \in 1..Len(log) : log'[k] = log[k]
        BY <1>0, <2>1, AppendProperties
      <3>4. Lines' = Lines /\ NoneGarbled' = NoneGarbled
        BY <2>1 DEF Lines, NoneGarbled
      <3>5. ASSUME NoneGarbled
            PROVE  /\ Mirrored(log')
                   /\ failed = {} => /\ \A k \in 1..Len(queue') : queue'[k].seq = Lines + k - 1
                                     /\ Len(log') = Lines + Len(queue')
        <4>1. /\ Mirrored(log)
              /\ failed = {} => /\ Len(log) = Lines + Len(queue)
                                /\ \A k \in 1..Len(queue) : queue[k].seq = Lines + k - 1
          BY <2>3, <3>5 DEF Numbered
        <4>2. ASSUME failed = {}, NEW k \in 1..Len(queue') PROVE queue'[k].seq = Lines + k - 1
          <5>1. CASE k = Len(queue) + 1
            BY <1>0, <1>1, <2>1, <3>2, <4>1, <4>2, <5>1
          <5>2. CASE k # Len(queue) + 1
            <6>1. k \in 1..Len(queue)
              BY <1>0, <3>2, <5>2
            <6> QED BY <3>2, <4>1, <4>2, <6>1
          <5> QED BY <5>1, <5>2
        <4>3. ASSUME NEW k \in 1..Len(log') PROVE log'[k].seq = k - 1
          <5>1. CASE k = Len(log) + 1
            BY <1>0, <2>1, <3>3, <5>1
          <5>2. CASE k # Len(log) + 1
            <6>1. k \in 1..Len(log)
              BY <1>0, <3>3, <5>2
            <6> QED BY <3>3, <4>1, <6>1 DEF Mirrored
          <5> QED BY <5>1, <5>2
        <4>4. ASSUME failed = {} PROVE Len(log') = Lines + Len(queue')
          <5>1. Len(log) = Lines + Len(queue)
            BY <4>1, <4>4
          <5> QED BY <1>0, <1>1, <3>2, <3>3, <5>1
        <4> QED BY <4>2, <4>3, <4>4 DEF Mirrored
      <3> QED BY <2>1, <3>4, <3>5 DEF Numbered
    <2> QED BY <2>2, <2>3
  <1>3. ASSUME NEW e \in fanout, HookEnds(e) PROVE Numbered'
    BY <1>3 DEF Numbered
  <1>4. CASE WriteLine
    <2>1. /\ queue # <<>> /\ queue' = Tail(queue) /\ life' = life /\ log' = log
          /\ fanout' = fanout /\ file' = AppendLine(file, Head(queue), "whole")
          /\ failed' = failed /\ holed' = (holed \/ failed # {})
      BY <1>4 DEF WriteLine, WriteHead
    <2>2. /\ Len(queue) \in Nat \ {0} /\ Len(queue') = Len(queue) - 1
          /\ \A k \in 1..Len(queue) - 1 : queue'[k] = queue[k + 1]
      BY <2>1, HeadTyped
    <2>3. /\ \A i \in 1..Len(file') - 1 : file'[i].kind \in {"whole", "garbled"}
          /\ NoneGarbled' =>
               /\ NoneGarbled
               /\ \A i \in 1..Lines' : file'[i].event.seq = i - 1
               /\ Lines' = Lines + 1 /\ failed = {}
      <3>1. "whole" \in {"whole", "bare", "torn"}
        OBVIOUS
      <3> QED BY <2>1, <3>1, LineNumbered
    <2>4. ASSUME NoneGarbled'
          PROVE  /\ \A k \in 1..Len(queue') : queue'[k].seq = Lines' + k - 1
                 /\ life' = "up" => Mirrored(log') /\ Len(log') = Lines' + Len(queue')
      <3>1. NoneGarbled /\ Lines' = Lines + 1 /\ failed = {}
        BY <2>3, <2>4
      <3>2. ASSUME NEW k \in 1..Len(queue') PROVE queue'[k].seq = Lines' + k - 1
        <4>1. k + 1 \in 1..Len(queue) /\ queue'[k] = queue[k + 1]
          BY <2>2
        <4>2. queue[k + 1].seq = Lines + (k + 1) - 1
          BY <3>1, <4>1 DEF Numbered
        <4> QED BY <1>1, <3>1, <4>1, <4>2
      <3>3. ASSUME life' = "up" PROVE Mirrored(log') /\ Len(log') = Lines' + Len(queue')
        <4>1. Mirrored(log) /\ Len(log) = Lines + Len(queue)
          BY <2>1, <3>1, <3>3 DEF Numbered
        <4> QED BY <1>0, <1>1, <2>1, <2>2, <3>1, <4>1
      <3> QED BY <3>2, <3>3
    <2>5. fanout' = {} /\ life' # "down"
      BY <2>1 DEF Numbered
    <2> QED BY <2>3, <2>4, <2>5 DEF Numbered
  <1>4a. ASSUME Cut(Head(queue)), queue # <<>>, holed' = (holed \/ (failed # {} /\ file' # file))
         PROVE  /\ \A i \in 1..Len(file') - 1 : file'[i].kind \in {"whole", "garbled"}
                /\ NoneGarbled' => NoneGarbled /\ \A i \in 1..Lines' : file'[i].event.seq = i - 1
    <2>1. CASE file' = file
      BY <1>4a, <2>1 DEF Numbered, NoneGarbled, Lines
    <2>2. CASE \E kind \in {"bare", "torn"} : file' = AppendLine(file, Head(queue), kind)
      <3>1. PICK kind \in {"bare", "torn"} : file' = AppendLine(file, Head(queue), kind)
        BY <2>2
      <3>2. kind \in {"whole", "bare", "torn"}
        OBVIOUS
      <3> QED BY <1>4a, <3>1, <3>2, LineNumbered
    <2> QED BY <1>4a, <2>1, <2>2 DEF Cut
  <1>4b. CASE FailLine
    <2>1. /\ queue # <<>> /\ life' = life /\ log' = log /\ fanout' = fanout
          /\ Cut(Head(queue)) /\ failed' = failed \cup {Head(queue)}
          /\ holed' = (holed \/ (failed # {} /\ file' # file))
      BY <1>4b DEF FailLine
    <2>2. failed' # {} /\ life' # "down" /\ fanout' = {}
      BY <2>1 DEF Numbered
    <2>3. NoneGarbled /\ life' = "up" => Mirrored(log')
      BY <2>1 DEF Numbered
    <2> QED BY <1>4a, <2>1, <2>2, <2>3 DEF Numbered
  <1>5. CASE IndexStep \/ Detach \/ Clear \/ UNCHANGED vars
    <2>1. /\ file' = file /\ queue' = queue /\ log' = log /\ fanout' = fanout
          /\ life' = life \/ life' = "closing"
          /\ failed' = failed /\ holed' = holed
      BY <1>5, IndexFrame DEF Detach, Clear, vars, memoryVars
    <2> QED BY <2>1 DEF Numbered, NoneGarbled, Lines
  <1>6. CASE Start
    <2>1. /\ file' = file /\ queue' = queue /\ log' = Restored /\ fanout' = fanout
          /\ life = "down" /\ life' = "up" /\ failed' = failed /\ holed' = holed
      BY <1>6 DEF Start
    <2>2. queue = <<>> /\ Len(queue) = 0
      BY <2>1, EmptySeq DEF Numbered
    <2>3. Lines' = Lines /\ NoneGarbled' = NoneGarbled
      BY <2>1 DEF Lines, NoneGarbled
    <2>4. ASSUME NoneGarbled PROVE Mirrored(log') /\ Len(log') = Lines + Len(queue')
      BY <1>1, <2>1, <2>2, <2>4, RestoredNumbered
    <2> QED BY <2>1, <2>3, <2>4 DEF Numbered
  <1>7. ASSUME NEW how, Gone(how),
               \A i \in 1..Len(file') - 1 : file'[i].kind \in {"whole", "garbled"},
               NoneGarbled' => \A i \in 1..Lines' : file'[i].event.seq = i - 1
        PROVE  Numbered'
    <2>1. life' = "down" /\ fanout' = {} /\ queue' = <<>> /\ Len(queue') = 0 /\ failed' = {}
      BY <1>7, EmptySeq DEF Gone
    <2> QED BY <1>7, <2>1 DEF Numbered
  <1>8. CASE file' = file /\ holed' = holed /\ \E how : Gone(how)
    <2>1. PICK how : Gone(how)
      BY <1>8
    <2>2. Lines' = Lines /\ NoneGarbled' = NoneGarbled
      BY <1>8 DEF Lines, NoneGarbled
    <2> QED BY <1>7, <1>8, <2>1, <2>2 DEF Numbered
  <1>9. CASE Exit
    BY <1>8, <1>9 DEF Exit
  <1>10. CASE Crash
    <2>1. Gone("crash") /\ holed' = (holed \/ (failed # {} /\ file' # file))
      BY <1>10 DEF Crash
    <2>2. CASE file' = file
      <3>1. Lines' = Lines /\ NoneGarbled' = NoneGarbled
        BY <2>1, <2>2 DEF Lines, NoneGarbled
      <3> QED BY <1>7, <2>1, <2>2, <3>1 DEF Numbered
    <2>3. CASE queue # <<>> /\ Cut(Head(queue))
      BY <1>4a, <1>7, <2>1, <2>3
    <2> QED BY <1>10, <2>2, <2>3 DEF Crash
  <1> QED BY <1>2, <1>3, <1>4, <1>4b, <1>5, <1>6, <1>9, <1>10 DEF Next, IndexStep

\* So do they at the start.
LEMMA FirstNumbered == Init => Numbered
  <1>1. Len(<<>>) = 0
    OBVIOUS
  <1> QED BY <1>1 DEF Init, Numbered, NoneGarbled, Lines

\* As long as no line was appended to one that had been cut, or after a refused
\* one, every resumed session is one a client can read from its first event on,
\* however often it was cut: hooks do not suspend and the user does not start
\* over.
THEOREM ResumedReadable ==
  ASSUME AsyncHooks = FALSE, Clears = FALSE
  PROVE  Spec => []ReadableUnlessGarbled
  <1>1. Numbered /\ TypeOK /\ [Next]_vars => Numbered'
    BY NumberedInductive
  <1>2. Numbered => ReadableUnlessGarbled
    BY DEF Numbered, NoneGarbled, ReadableUnlessGarbled, ResumedIsReadable
  <1> QED BY <1>1, <1>2, FirstNumbered, TypeCorrect, PTL DEF Spec

-----------------------------------------------------------------------------
(* The pair of sessions that is model-checked: the prompt one of it.         *)

\* As long as no hook was slow the steps are those of the module.
LEMMA PromptSteps ==
  ASSUME [PNext]_<<vars, slow>>, ~slow'
  PROVE  ~slow /\ [Next]_vars
  <1>1. CASE PNext
    BY <1>1 DEF PNext
  <1>2. CASE UNCHANGED <<vars, slow>>
    BY <1>2
  <1> QED BY <1>1, <1>2

\* The lines of a session whose hooks are prompt are in the order of their
\* events, whatever the other session may do.
THEOREM PromptFileInOrder ==
  ASSUME AsyncHooks = FALSE
  PROVE  PSpec => []PromptLinesInOrder
  <1> DEFINE IInv == ~slow => Ordered
  <1>1. PInit => IInv
    BY EmptyQueue DEF PInit, Init, Ordered, Newest, Sorted
  <1>2. IInv /\ [PNext]_<<vars, slow>> => IInv'
    BY PromptSteps, OrderedInductive
  <1>3. IInv => PromptLinesInOrder
    BY DEF Ordered, Sorted, LinesInOrder, PromptLinesInOrder
  <1> QED BY <1>1, <1>2, <1>3, PTL DEF PSpec

\* A session with prompt hooks and without `/new` resumes to a log that a client
\* can read, unless a line was garbled or written after a refused one.
THEOREM PromptResumedReadable ==
  ASSUME AsyncHooks = FALSE, Clears = FALSE
  PROVE  PSpec => []PromptReadable
  <1> DEFINE IInv == ~slow => TypeOK /\ Numbered
  <1>1. PInit => IInv
    BY FirstNumbered, FirstTyped DEF PInit
  <1>2. IInv /\ [PNext]_<<vars, slow>> => IInv'
    BY PromptSteps, TypeOKInductive, NumberedInductive
  <1>3. IInv => PromptReadable
    BY DEF Numbered, NoneGarbled, ReadableUnlessGarbled, ResumedIsReadable, PromptReadable
  <1> QED BY <1>1, <1>2, <1>3, PTL DEF PSpec
=============================================================================
