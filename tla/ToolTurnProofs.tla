---------------------------- MODULE ToolTurnProofs ----------------------------
(***************************************************************************)
(* Theorems about ToolTurn for any number of turns, iterations, calls and  *)
(* inputs, with turns at once, compactions and crashes; and, for turns     *)
(* that follow one another, about the messages that are made from the log  *)
(* and the prompt among them.                                              *)
(***************************************************************************)
EXTENDS MCToolChain, SequenceTheorems, FiniteSetTheorems, WellFoundedInduction, TLAPS

\* Where a turn is while it answers its batch.
Answering == {"tools", "checking", "denied", "running", "cancelling"}

\* Where a turn may be with respect to its batch.
Position(t) ==
  /\ pc[t] \notin {"idle", "top", "over", "crashed"} => iteration[t] >= 1
  /\ pc[t] \in {"checking", "denied", "running", "stuck"} => next[t] <= Len(batch[t])
  /\ pc[t] = "stuck" => Tripped(t)

\* The turn is beyond the call.
Past(c) ==
  \/ c[2] < iteration[c[1]]
  \/ /\ c[2] = iteration[c[1]] /\ c[3] < next[c[1]]
     /\ pc[c[1]] \in Answering \cup {"top", "over", "crashed"}

\* The turn has yet to answer the call, or never will.
Owed(c) ==
  \/ /\ c[2] = iteration[c[1]] /\ c[3] <= Len(batch[c[1]])
     /\ \/ pc[c[1]] \in {"requesting", "stuck"}
        \/ pc[c[1]] \in Answering /\ next[c[1]] <= c[3]
  \/ pc[c[1]] = "crashed"
  \/ pc[c[1]] = "over" /\ Tripped(c[1])

\* The n-th call of the batch has been announced.
Known(t, n) == pc[t] \in Answering \/ (pc[t] = "requesting" /\ n < next[t])

Is(p, kind) == log[p].kind = kind

\* Only calls that the turn is beyond have results ...
ResultsArePast ==
  \A p \in 1..Len(log), c \in Calls : Is(p, "result") /\ log[p].call = c => Past(c)

\* ... one each ...
ResultsAreUnique ==
  \A p, q \in 1..Len(log) :
    Is(p, "result") /\ Is(q, "result") /\ log[p].call = log[q].call => p = q

\* ... after their requests.
ResultsAreLate ==
  \A p \in 1..Len(log) : Is(p, "result") =>
    \E q \in 1..(p - 1) : Is(q, "request") /\ log[q].call = log[p].call

\* A call that has been announced has its request in the log.
Announced ==
  \A t \in Turns : \A n \in 1..Len(batch[t]) : Known(t, n) =>
    \E q \in 1..Len(log) : Is(q, "request") /\ log[q].call = <<t, iteration[t], n>>

\* A request has its result, or its turn owes it.
RequestsAreOwed ==
  \A p \in 1..Len(log), c \in Calls : Is(p, "request") /\ log[p].call = c =>
    Owed(c) \/ \E q \in 1..Len(log) : Is(q, "result") /\ log[q].call = c

\* A compaction replaces what stands before it.
Compacted == \A p \in 1..Len(log) : Is(p, "compaction") => log[p].to < p

\* The compactor works on a beginning of the log, and has found something.
Snapshots ==
  \A t \in Turns : pc[t] \in {"summarize", "resummarize"} =>
    snapshot[t] <= Len(log) /\ LastReplaced(SubSeq(log, 1, snapshot[t])) > 0

\* Types, positions and the bounds of compactions.
TypeInv == TypeOK /\ Compacted /\ Snapshots /\ \A t \in Turns : Position(t)

\* The inductive invariant of the calls.
CallInv ==
  ResultsArePast /\ ResultsAreUnique /\ ResultsAreLate /\ Announced /\ RequestsAreOwed

\* Both together.
IInv == TypeInv /\ CallInv

\* Without concurrent turns nothing is appended while a compactor works.
Sequential ==
  /\ \A t, u \in Turns : Running(t) /\ Running(u) => t = u
  /\ \A t \in Turns : pc[t] \in {"summarize", "resummarize"} => snapshot[t] = Len(log)

-----------------------------------------------------------------------------
(* Events and the range of a compaction.                                   *)

\* The fields of an event.
LEMMA EventFacts ==
  ASSUME NEW e \in Event
  PROVE  /\ e.turn \in Turns
         /\ e.kind = "compaction" => e.from \in Nat /\ e.to \in Nat
         /\ e.kind \in {"request", "denied", "result"} => e.call \in Calls /\ e.call[1] = e.turn
  <1>1. CASE e \in [kind : {"prompt", "say", "abort", "fatal", "retryable"}, turn : Turns]
    BY <1>1
  <1>2. CASE e \in {CallNote(kind, c) : kind \in {"request", "denied", "result"}, c \in Calls}
    <2>1. PICK kind \in {"request", "denied", "result"}, c \in Calls : e = CallNote(kind, c)
      BY <1>2
    <2>2. c[1] \in Turns
      BY DEF Calls
    <2> QED BY <2>1, <2>2 DEF CallNote
  <1>3. CASE e \in [kind : {"compaction"}, turn : Turns, from : Nat, to : Nat]
    BY <1>3
  <1> QED BY <1>1, <1>2, <1>3 DEF Event

\* The notes that turns write are events of their kind.
LEMMA NoteFacts ==
  ASSUME NEW t \in Turns
  PROVE  /\ \A k \in {"prompt", "say", "abort", "fatal", "retryable"} :
              Note(k, t) \in Event /\ Note(k, t).kind = k
         /\ \A k \in {"request", "denied", "result"}, i \in 1..MaxIterations, n \in 1..MaxBatch :
              /\ CallNote(k, <<t, i, n>>) \in Event
              /\ CallNote(k, <<t, i, n>>).kind = k
              /\ CallNote(k, <<t, i, n>>).call = <<t, i, n>>
  <1>1. ASSUME NEW k \in {"prompt", "say", "abort", "fatal", "retryable"}
        PROVE  Note(k, t) \in Event /\ Note(k, t).kind = k
    BY <1>1 DEF Note, Event
  <1>2. ASSUME NEW k \in {"request", "denied", "result"},
               NEW i \in 1..MaxIterations, NEW n \in 1..MaxBatch
        PROVE  /\ CallNote(k, <<t, i, n>>) \in Event
               /\ CallNote(k, <<t, i, n>>).kind = k
               /\ CallNote(k, <<t, i, n>>).call = <<t, i, n>>
    <2>1. <<t, i, n>> \in Calls /\ <<t, i, n>>[1] = t
      BY <1>2 DEF Calls
    <2>2. /\ CallNote(k, <<t, i, n>>).kind = k
          /\ CallNote(k, <<t, i, n>>).call = <<t, i, n>>
      BY DEF CallNote
    <2>3. CallNote(k, <<t, i, n>>) \in Event
      BY <1>2, <2>1 DEF Event
    <2> QED BY <2>2, <2>3
  <1> QED BY <1>1, <1>2

\* A set of numbers with a bound has a greatest one: the bounds have a least.
LEMMA MaxOfBounded ==
  ASSUME NEW S \in SUBSET Nat, S # {}, NEW m \in Nat, \A x \in S : x <= m
  PROVE  Max(S) \in S /\ \A x \in S : x <= Max(S)
  <1> DEFINE less == OpToRel(<, Nat)
             Bounds == {b \in Nat : \A x \in S : x <= b}
  <1>1. Bounds \subseteq Nat /\ Bounds # {}
    OBVIOUS
  <1>2. \A x, y \in Nat : x < y => <<x, y>> \in less
    BY DEF OpToRel
  <1>3. IsWellFoundedOn(less, Nat)
    BY NatLessThanWellFounded
  <1>4. PICK b \in Bounds : \A y \in Bounds : ~(<<y, b>> \in less)
    <2> HIDE DEF less, Bounds
    <2> QED BY <1>1, <1>3, WFMin
  <1>5. \A y \in Bounds : ~(y < b)
    <2> HIDE DEF less
    <2> QED BY <1>1, <1>2, <1>4
  <1>6. b \in S
    <2> SUFFICES ASSUME b \notin S PROVE FALSE
      OBVIOUS
    <2>0. b \in Nat /\ \A x \in S : x \in Nat /\ x <= b
      BY <1>4
    <2>1. \A x \in S : x < b
      BY <2>0
    <2> HIDE DEF less, Bounds
    <2>2. b - 1 \in Nat
      <3>1. PICK x \in S : TRUE
        OBVIOUS
      <3> QED BY <2>0, <2>1, <3>1
    <2>3. \A x \in S : x <= b - 1
      BY <2>0, <2>1
    <2> QED BY <1>5, <2>0, <2>2, <2>3 DEF Bounds
  <1>7. \A x \in S : b >= x
    BY <1>4
  <1>8. \A x \in S : Max(S) >= x
    BY <1>6, <1>7 DEF Max
  <1>9. Max(S) \in S
    BY <1>6, <1>7 DEF Max
  <1> QED BY <1>8, <1>9

\* A log whose compactions replace what stands before them.
Backward(l) == \A p \in 1..Len(l) : l[p].kind = "compaction" => l[p].to < p

\* The first event that no compaction covers comes after all that are covered.
LEMMA FirstFreshFacts ==
  ASSUME NEW l \in Seq(Event), Backward(l)
  PROVE  /\ FirstFresh(l) \in Nat \ {0}
         /\ \A i \in Compactions(l) : l[i].to < FirstFresh(l)
  <1> DEFINE S == {0} \cup {l[i].to : i \in Compactions(l)}
  <1>1. Len(l) \in Nat /\ \A i \in 1..Len(l) : l[i] \in Event
    BY LenProperties, ElementOfSeq
  <1>2. \A i \in Compactions(l) : l[i].to \in Nat /\ l[i].to <= Len(l)
    BY <1>1, EventFacts DEF Compactions, Backward
  <1>3. Max(S) \in S /\ \A x \in S : x <= Max(S)
    <2>1. S \in SUBSET Nat /\ S # {} /\ \A x \in S : x <= Len(l)
      BY <1>1, <1>2
    <2> HIDE DEF S
    <2> QED BY <1>1, <2>1, MaxOfBounded
  <1>4. Max(S) \in Nat /\ \A i \in Compactions(l) : l[i].to <= Max(S)
    BY <1>2, <1>3
  <1>5. FirstFresh(l) = 1 + Max(S)
    BY DEF FirstFresh
  <1> HIDE DEF S
  <1> QED BY <1>2, <1>4, <1>5

\* The last event that a compaction would cover is there, and not before the
\* first fresh one.
LEMMA LastReplacedFacts ==
  ASSUME NEW l \in Seq(Event), Backward(l), LastReplaced(l) > 0
  PROVE  LastReplaced(l) \in 1..Len(l) /\ FirstFresh(l) <= LastReplaced(l)
  <1> DEFINE S == {0} \cup {i \in FirstFresh(l)..Len(l) : l[i].turn \in Through(l)}
  <1>1. Len(l) \in Nat /\ FirstFresh(l) \in Nat \ {0}
    BY FirstFreshFacts, LenProperties
  <1>2. Max(S) \in S
    <2>1. S \in SUBSET Nat /\ S # {} /\ \A x \in S : x <= Len(l)
      BY <1>1
    <2> HIDE DEF S
    <2> QED BY <1>1, <2>1, MaxOfBounded
  <1>3. LastReplaced(l) = Max(S)
    BY DEF LastReplaced
  <1> QED BY <1>1, <1>2, <1>3

\* The compaction that is written covers events that are there, from the first
\* fresh one on.
LEMMA SummarizedFacts ==
  ASSUME NEW l \in Seq(Event), Backward(l), LastReplaced(l) > 0
  PROVE  /\ Summarized(l) \in Event
         /\ Summarized(l).kind = "compaction"
         /\ Summarized(l).from = FirstFresh(l)
         /\ Summarized(l).to \in 1..Len(l)
  <1>1. LastReplaced(l) \in 1..Len(l) /\ FirstFresh(l) \in Nat
    BY FirstFreshFacts, LastReplacedFacts
  <1>2. l[LastReplaced(l)].turn \in Turns
    BY <1>1, EventFacts, ElementOfSeq
  <1> QED BY <1>1, <1>2 DEF Summarized, Event

-----------------------------------------------------------------------------
(* Types.                                                                  *)

\* An event is appended, and the log before it stays.
LEMMA AppendFacts ==
  ASSUME log \in Seq(Event), NEW e \in Event, Emit(e)
  PROVE  /\ log' \in Seq(Event) /\ Len(log) \in Nat /\ Len(log') = Len(log) + 1
         /\ log'[Len(log) + 1] = e
         /\ \A p \in 1..Len(log) : log'[p] = log[p]
         /\ \A n \in 0..Len(log) : SubSeq(log', 1, n) = SubSeq(log, 1, n)
  <1>1. log' \in Seq(Event) /\ Len(log) \in Nat /\ Len(log') = Len(log) + 1
    BY AppendProperties, LenProperties DEF Emit
  <1>2. log'[Len(log) + 1] = e /\ \A p \in 1..Len(log) : log'[p] = log[p]
    BY AppendProperties DEF Emit
  <1>3. ASSUME NEW n \in 0..Len(log) PROVE SubSeq(log', 1, n) = SubSeq(log, 1, n)
    <2>1. n \in Nat /\ n <= Len(log) /\ n <= Len(log')
      BY <1>1, <1>3
    <2> QED BY <1>1, <1>2, <2>1, SubSeqProperties, SeqEqual
  <1> QED BY <1>1, <1>2, <1>3

\* What the compactor makes of its beginning of the log.
LEMMA CompactionFacts ==
  ASSUME TypeInv, NEW t \in Turns, pc[t] \in {"summarize", "resummarize"}
  PROVE  /\ CompactionOf(t) \in Event
         /\ CompactionOf(t).kind = "compaction"
         /\ CompactionOf(t).from = FirstFresh(SubSeq(log, 1, snapshot[t]))
         /\ CompactionOf(t).to \in 1..snapshot[t] /\ snapshot[t] \in 0..Len(log)
  <1> DEFINE l == SubSeq(log, 1, snapshot[t])
  <1>1. log \in Seq(Event) /\ snapshot[t] \in Nat /\ Len(log) \in Nat /\ snapshot[t] <= Len(log)
    BY LenProperties DEF TypeInv, TypeOK, Snapshots
  <1>2. /\ l \in Seq(Event) /\ Len(l) = snapshot[t]
        /\ \A p \in 1..Len(l) : l[p] = log[p]
    BY <1>1, SubSeqProperties
  <1>3. Backward(l) /\ LastReplaced(l) > 0
    BY <1>1, <1>2 DEF Backward, TypeInv, Compacted, Snapshots, Is
  <1> HIDE DEF l
  <1>4. /\ Summarized(l) \in Event /\ Summarized(l).kind = "compaction"
        /\ Summarized(l).from = FirstFresh(l) /\ Summarized(l).to \in 1..Len(l)
    BY <1>2, <1>3, SummarizedFacts
  <1> QED BY <1>1, <1>2, <1>4 DEF CompactionOf, l

\* A step leaves the log as it is or appends one event.
LogGrows ==
  \/ log' = log
  \/ \E e \in Event : Emit(e) /\ (e.kind = "compaction" => e.to <= Len(log))

\* A step by which the log grows keeps the types of the log and what
\* compactions cover.
LEMMA LogStep ==
  ASSUME TypeInv, LogGrows
  PROVE  /\ log' \in Seq(Event) /\ Compacted'
         /\ \A t \in Turns : pc[t] \in {"summarize", "resummarize"} =>
              snapshot[t] <= Len(log') /\ LastReplaced(SubSeq(log', 1, snapshot[t])) > 0
  <1>1. CASE log' = log
    BY <1>1 DEF TypeInv, TypeOK, Compacted, Is, Snapshots
  <1>2. ASSUME NEW e \in Event, Emit(e), e.kind = "compaction" => e.to <= Len(log)
        PROVE  /\ log' \in Seq(Event) /\ Compacted'
               /\ \A t \in Turns : pc[t] \in {"summarize", "resummarize"} =>
                    snapshot[t] <= Len(log') /\ LastReplaced(SubSeq(log', 1, snapshot[t])) > 0
    <2>1. /\ log \in Seq(Event) /\ \A p \in 1..Len(log) : log[p] \in Event
          /\ \A t \in Turns : snapshot[t] \in Nat
      BY ElementOfSeq DEF TypeInv, TypeOK
    <2>2. /\ log' \in Seq(Event) /\ Len(log) \in Nat /\ Len(log') = Len(log) + 1
          /\ log'[Len(log) + 1] = e /\ \A p \in 1..Len(log) : log'[p] = log[p]
          /\ \A n \in 0..Len(log) : SubSeq(log', 1, n) = SubSeq(log, 1, n)
      BY <1>2, <2>1, AppendFacts
    <2>3. Compacted'
      <3> SUFFICES ASSUME NEW p \in 1..Len(log'), log'[p].kind = "compaction"
                   PROVE  log'[p].to < p
        BY DEF Compacted, Is
      <3>1. CASE p \in 1..Len(log)
        BY <2>2, <3>1 DEF TypeInv, Compacted, Is
      <3>2. CASE p = Len(log) + 1
        BY <1>2, <2>2, <3>2, EventFacts
      <3> QED BY <2>2, <3>1, <3>2
    <2>4. ASSUME NEW t \in Turns, pc[t] \in {"summarize", "resummarize"}
          PROVE  snapshot[t] <= Len(log') /\ LastReplaced(SubSeq(log', 1, snapshot[t])) > 0
      <3>1. snapshot[t] <= Len(log) /\ LastReplaced(SubSeq(log, 1, snapshot[t])) > 0
        BY <2>4 DEF TypeInv, Snapshots
      <3>2. snapshot[t] \in 0..Len(log) /\ snapshot[t] <= Len(log')
        BY <2>1, <2>2, <3>1
      <3> QED BY <2>2, <3>1, <3>2
    <2> QED BY <2>2, <2>3, <2>4
  <1> QED BY <1>1, <1>2 DEF LogGrows

\* Most steps only append and move on.
LEMMA MoveTypes ==
  ASSUME TypeInv, NEW t \in Turns, NEW w \in Where \ {"summarize", "resummarize", "stuck"},
         LogGrows, Goto(t, w),
         UNCHANGED <<iteration, overflows, batchVars, snapshot, signal>>,
         w \notin {"idle", "top", "over", "crashed"} => iteration[t] >= 1,
         w \in {"checking", "denied", "running"} => next[t] <= Len(batch[t])
  PROVE  TypeInv'
  <1>1. log' \in Seq(Event) /\ Compacted'
    BY LogStep
  <1>2. pc \in [Turns -> Where] /\ pc' = [pc EXCEPT ![t] = w]
    BY DEF TypeInv, TypeOK, Goto
  <1>3. TypeOK'
    BY <1>1, <1>2 DEF TypeInv, TypeOK, batchVars
  <1>4. Snapshots'
    BY <1>2, LogStep DEF Snapshots
  <1>5. ASSUME NEW u \in Turns PROVE Position(u)'
    <2>1. CASE u = t
      BY <1>2, <2>1 DEF Position, batchVars
    <2>2. CASE u # t
      BY <1>2, <2>2 DEF TypeInv, Position, Tripped, batchVars
    <2> QED BY <2>1, <2>2
  <1> QED BY <1>1, <1>3, <1>4, <1>5 DEF TypeInv

\* A note of its own is an event like any other.
LEMMA NoteGrows ==
  ASSUME NEW t \in Turns,
         NEW k \in {"prompt", "say", "abort", "fatal", "retryable"}, Emit(Note(k, t))
  PROVE  LogGrows
  BY NoteFacts DEF LogGrows

\* The call a busy turn is at.
LEMMA CallFacts ==
  ASSUME TypeInv, NEW t \in Turns, pc[t] \notin {"idle", "top", "over", "crashed"},
         next[t] <= Len(batch[t])
  PROVE  /\ Call(t) \in Calls /\ iteration[t] \in Nat /\ next[t] \in Nat \ {0}
         /\ Call(t)[1] = t /\ Call(t)[2] = iteration[t] /\ Call(t)[3] = next[t]
         /\ \A k \in {"request", "denied", "result"} :
              /\ CallNote(k, Call(t)) \in Event /\ CallNote(k, Call(t)).kind = k
              /\ CallNote(k, Call(t)).call = Call(t)
              /\ Emit(CallNote(k, Call(t))) => LogGrows
  <1>1. iteration[t] \in 1..MaxIterations
    BY ToolTurnAssumption DEF TypeInv, TypeOK, Position
  <1>2. Len(batch[t]) \in Nat /\ Len(batch[t]) <= MaxBatch
    BY LenProperties DEF TypeInv, TypeOK
  <1>3. next[t] \in 1..MaxBatch
    BY <1>2, ToolTurnAssumption DEF TypeInv, TypeOK
  <1>4. Call(t) = <<t, iteration[t], next[t]>>
    BY DEF Call
  <1>5. \A k \in {"request", "denied", "result"} :
          /\ CallNote(k, Call(t)) \in Event /\ CallNote(k, Call(t)).kind = k
          /\ CallNote(k, Call(t)).call = Call(t)
    BY <1>1, <1>3, <1>4, NoteFacts
  <1>6. \A k \in {"request", "denied", "result"} : Emit(CallNote(k, Call(t))) => LogGrows
    BY <1>5 DEF LogGrows
  <1> QED BY <1>1, <1>3, <1>4, <1>5, <1>6 DEF Calls

\* The guard remembers no more than its window.
LEMMA NewestFacts ==
  ASSUME NEW seen \in Seq(Inputs)
  PROVE  Newest(seen) \in Seq(Inputs) /\ Len(Newest(seen)) <= WindowSize
  <1> DEFINE a == Len(seen) - WindowSize
             m == Max({0, a})
  <1>1. Len(seen) \in Nat /\ WindowSize \in Nat /\ a \in Int
    BY LenProperties, ToolTurnAssumption
  <1>2. m \in Nat /\ m >= a /\ m <= Len(seen)
    <2> HIDE DEF a
    <2>1. \E x \in {0, a} : \A y \in {0, a} : x >= y
      BY <1>1
    <2>2. m \in {0, a} /\ \A y \in {0, a} : m >= y
      BY <2>1 DEF Max
    <2> QED BY <1>1, <2>2 DEF a
  <1>3. Newest(seen) = SubSeq(seen, 1 + m, Len(seen))
    BY DEF Newest
  <1> HIDE DEF m
  <1> QED BY <1>1, <1>2, <1>3, SubSeqProperties DEF a

\* The start of a turn keeps the types.
LEMMA StartTypes ==
  ASSUME TypeInv, NEW t \in Turns, StartTurn(t)
  PROVE  TypeInv'
  BY NoteGrows, MoveTypes DEF StartTurn, Where

\* The steps that only append and move on.
LEMMA PlainTypes ==
  ASSUME TypeInv, NEW t \in Turns,
         \/ GiveUp(t) \/ ObeyAbort(t) \/ KeepContext(t) \/ Summarize(t) \/ Request(t)
         \/ Fail(t) \/ Retry(t) \/ Stuck(t) \/ Dispatch(t) \/ Allow(t) \/ Deny(t)
  PROVE  TypeInv'
  <1>0. Position(t) /\ batch[t] \in Seq(Inputs) /\ next[t] \in Nat /\ Len(batch[t]) \in Nat
    BY LenProperties DEF TypeInv, TypeOK
  <1>1. CASE GiveUp(t)
    BY <1>1, NoteGrows, MoveTypes DEF GiveUp, Where
  <1>2. CASE ObeyAbort(t)
    BY <1>2, NoteGrows, MoveTypes DEF ObeyAbort, Where
  <1>3. CASE KeepContext(t)
    BY <1>0, <1>3, MoveTypes DEF KeepContext, Where, Position, LogGrows
  <1>4. CASE Summarize(t)
    <2>1. LogGrows
      <3>1. CASE Emit(Note("retryable", t))
        BY <3>1, NoteGrows
      <3>2. CASE Emit(CompactionOf(t))
        <4>1. /\ CompactionOf(t) \in Event
              /\ CompactionOf(t).to \in 1..snapshot[t] /\ snapshot[t] \in 0..Len(log)
          BY <1>4, CompactionFacts DEF Summarize
        <4> QED BY <1>0, <3>2, <4>1 DEF LogGrows
      <3> QED BY <1>4, <3>1, <3>2 DEF Summarize
    <2> QED BY <1>0, <1>4, <2>1, MoveTypes DEF Summarize, Where, Position
  <1>5. CASE Request(t)
    BY <1>0, <1>5, MoveTypes DEF Request, Where, Position, LogGrows
  <1>6. CASE Fail(t)
    BY <1>6, NoteGrows, MoveTypes DEF Fail, Where
  <1>7. CASE Retry(t)
    BY <1>7, NoteGrows, MoveTypes DEF Retry, Where
  <1>8. CASE Stuck(t)
    BY <1>8, NoteGrows, MoveTypes DEF Stuck, Where
  <1>9. CASE Dispatch(t)
    <2> DEFINE w == IF next[t] > Len(batch[t]) THEN "top"
                    ELSE IF signal[t] THEN "cancelling" ELSE "checking"
    <2>1. w \in Where \ {"summarize", "resummarize", "stuck"} /\ Goto(t, w) /\ LogGrows
      BY <1>9 DEF Dispatch, Where, LogGrows
    <2>2. iteration[t] >= 1 /\ (w = "checking" => next[t] <= Len(batch[t]))
          /\ w \in {"top", "cancelling", "checking"}
      BY <1>0, <1>9 DEF Dispatch, Position
    <2> HIDE DEF w
    <2> QED BY <1>9, <2>1, <2>2, MoveTypes DEF Dispatch
  <1>10. CASE Allow(t)
    BY <1>0, <1>10, MoveTypes DEF Allow, Where, Position, LogGrows
  <1>11. CASE Deny(t)
    <2>1. LogGrows
      BY <1>0, <1>11, CallFacts DEF Deny, Position
    <2> QED BY <1>0, <1>11, <2>1, MoveTypes DEF Deny, Where, Position
  <1> QED BY <1>1, <1>2, <1>3, <1>4, <1>5, <1>6, <1>7, <1>8, <1>9, <1>10, <1>11

\* The steps that give the compactor the log as it is now.
LEMMA SnapshotTypes ==
  ASSUME TypeInv, NEW t \in Turns, Compact(t) \/ Overflow(t)
  PROVE  TypeInv'
  <1> DEFINE w == pc'[t]
  <1>1. /\ log \in Seq(Event) /\ Len(log) \in Nat /\ SubSeq(log, 1, Len(log)) = log
        /\ pc \in [Turns -> Where] /\ snapshot \in [Turns -> Nat]
        /\ overflows \in [Turns -> 0..MaxReactiveCompactions] /\ iteration[t] \in Nat
        /\ Position(t)
    BY LenProperties, SubSeqFull DEF TypeInv, TypeOK
  <1>2. /\ w \in {"summarize", "resummarize", "failed"} /\ pc' = [pc EXCEPT ![t] = w]
        /\ w # "failed" => LastReplaced(log) > 0
        /\ snapshot' = [snapshot EXCEPT ![t] = Len(log)]
        /\ overflows' \in [Turns -> 0..MaxReactiveCompactions]
        /\ UNCHANGED <<log, iteration, batchVars, signal>>
        /\ pc[t] \in {"context", "streaming"}
    <2>1. CASE Compact(t)
      BY <1>1, <2>1 DEF Compact, Goto
    <2>2. CASE Overflow(t)
      BY <1>1, <2>2 DEF Overflow, Goto, MaxReactiveCompactions
    <2> QED BY <2>1, <2>2
  <1> HIDE DEF w
  <1>3. TypeOK'
    BY <1>1, <1>2 DEF TypeInv, TypeOK, batchVars, Where
  <1>4. Snapshots'
    <2> SUFFICES ASSUME NEW u \in Turns, pc'[u] \in {"summarize", "resummarize"}
                 PROVE  snapshot'[u] <= Len(log') /\ LastReplaced(SubSeq(log', 1, snapshot'[u])) > 0
      BY DEF Snapshots
    <2>1. CASE u = t
      <3>1. pc'[u] = w /\ snapshot'[u] = Len(log) /\ log' = log
        BY <1>1, <1>2, <2>1
      <3>2. LastReplaced(log) > 0 /\ SubSeq(log, 1, Len(log)) = log /\ Len(log) <= Len(log)
        BY <1>1, <1>2, <3>1
      <3> QED BY <3>1, <3>2
    <2>2. CASE u # t
      <3>1. pc'[u] = pc[u] /\ snapshot'[u] = snapshot[u] /\ log' = log
        BY <1>1, <1>2, <2>2
      <3> QED BY <3>1 DEF TypeInv, Snapshots
    <2> QED BY <2>1, <2>2
  <1>5. Compacted'
    BY <1>2 DEF TypeInv, Compacted, Is
  <1>6. ASSUME NEW u \in Turns PROVE Position(u)'
    <2>1. CASE u = t
      BY <1>1, <1>2, <2>1 DEF Position
    <2>2. CASE u # t
      BY <1>1, <1>2, <2>2 DEF TypeInv, Position, Tripped, batchVars
    <2> QED BY <2>1, <2>2
  <1> QED BY <1>3, <1>4, <1>5, <1>6 DEF TypeInv

\* What a step of turn t has to show when it also changes its own variables.
LEMMA TurnTypes ==
  ASSUME TypeInv, NEW t \in Turns, LogGrows, TypeOK', Position(t)',
         pc'[t] \notin {"summarize", "resummarize"}, UNCHANGED snapshot,
         \A u \in Turns \ {t} : /\ pc'[u] = pc[u] /\ iteration'[u] = iteration[u]
                                /\ next'[u] = next[u] /\ batch'[u] = batch[u]
                                /\ recent'[u] = recent[u]
  PROVE  TypeInv'
  <1>1. Snapshots'
    BY LogStep DEF Snapshots
  <1>2. \A u \in Turns \ {t} : Position(u)'
    BY DEF TypeInv, Position, Tripped
  <1> QED BY <1>1, <1>2, LogStep DEF TypeInv

\* The steps that touch the batch, the iteration or the words of a turn keep
\* the types.
LEMMA OwnTypes ==
  ASSUME TypeInv, NEW t \in Turns,
         Iterate(t) \/ Respond(t) \/ Resummarize(t) \/ RequestTool(t) \/ Speak(t)
         \/ Finish(t) \/ Cancel(t)
  PROVE  TypeInv'
  <1>0. /\ pc \in [Turns -> Where] /\ iteration \in [Turns -> 0..MaxIterations]
        /\ next \in [Turns -> 1..(MaxBatch + 1)] /\ batch \in [Turns -> Seq(Inputs)]
        /\ says \in [Turns -> BOOLEAN] /\ recent \in [Turns -> Seq(Inputs)]
        /\ overflows \in [Turns -> 0..MaxReactiveCompactions]
        /\ Position(t) /\ Len(batch[t]) \in Nat /\ Len(batch[t]) <= MaxBatch
        /\ MaxIterations \in Nat /\ MaxBatch \in Nat
    BY LenProperties, ToolTurnAssumption DEF TypeInv, TypeOK
  <1>1. CASE Iterate(t)
    <2>1. LogGrows
      BY <1>1 DEF Iterate, LogGrows
    <2>2. TypeOK'
      BY <1>0, <1>1 DEF Iterate, Goto, TypeInv, TypeOK, Where, batchVars
    <2>3. Position(t)'
      BY <1>0, <1>1 DEF Iterate, Goto, Position
    <2> QED BY <1>0, <1>1, <2>1, <2>2, <2>3, TurnTypes DEF Iterate, Goto, batchVars
  <1>2. CASE Respond(t)
    <2>1. LogGrows
      BY <1>2 DEF Respond, LogGrows
    <2>2. PICK uses \in Responses, text \in BOOLEAN :
            /\ batch' = [batch EXCEPT ![t] = uses]
            /\ says' = [says EXCEPT ![t] = text \/ uses = <<>>]
      BY <1>2 DEF Respond
    <2>3. uses \in Seq(Inputs) /\ Len(uses) \in Nat /\ Len(uses) <= MaxBatch
      <3>1. PICK n \in 0..MaxBatch : uses \in [1..n -> Inputs]
        BY <2>2 DEF Responses
      <3>2. n \in Nat
        BY <1>0, <3>1
      <3> QED BY <3>1, <3>2
    <2>4. (text \/ uses = <<>>) \in BOOLEAN
      OBVIOUS
    <2>5. TypeOK'
      <3>1. says' \in [Turns -> BOOLEAN]
        BY <1>0, <2>2, <2>4
      <3>2. batch' \in [Turns -> Seq(Inputs)] /\ \A u \in Turns : Len(batch'[u]) <= MaxBatch
        BY <1>0, <2>2, <2>3 DEF TypeInv, TypeOK
      <3>3. next' \in [Turns -> 1..(MaxBatch + 1)]
            /\ overflows' \in [Turns -> 0..MaxReactiveCompactions]
            /\ pc' \in [Turns -> Where]
        BY <1>0, <1>2 DEF Respond, Goto, Where, MaxReactiveCompactions
      <3> QED BY <1>2, <3>1, <3>2, <3>3 DEF Respond, TypeInv, TypeOK
    <2>6. Position(t)'
      BY <1>0, <1>2 DEF Respond, Goto, Position
    <2> QED BY <1>0, <1>2, <2>1, <2>2, <2>5, <2>6, TurnTypes DEF Respond, Goto
  <1>3. CASE Resummarize(t)
    <2>1. LogGrows
      <3>1. CASE Emit(Note("retryable", t))
        BY <3>1, NoteGrows
      <3>2. CASE Emit(CompactionOf(t))
        <4>1. /\ CompactionOf(t) \in Event
              /\ CompactionOf(t).to \in 1..snapshot[t] /\ snapshot[t] \in 0..Len(log)
          BY <1>3, CompactionFacts DEF Resummarize
        <4> QED BY <3>2, <4>1 DEF LogGrows
      <3> QED BY <1>3, <3>1, <3>2 DEF Resummarize
    <2>2. Goto(t, "recovered") \/ Goto(t, "failed")
      BY <1>3 DEF Resummarize
    <2>3. iteration[t] >= 1
      BY <1>0, <1>3 DEF Resummarize, Position
    <2> QED BY <1>3, <2>1, <2>2, <2>3, MoveTypes DEF Resummarize, Where
  <1>4. CASE RequestTool(t)
    <2>1. next[t] <= Len(batch[t]) /\ pc[t] = "requesting" /\ batch[t][next[t]] \in Inputs
      BY <1>0, <1>4, ElementOfSeq DEF RequestTool
    <2>2. LogGrows
      BY <1>4, <2>1, CallFacts DEF RequestTool
    <2> DEFINE seen == Append(recent[t], batch[t][next[t]])
    <2>3. /\ recent' = [recent EXCEPT ![t] = Newest(seen)]
          /\ Newest(seen) \in Seq(Inputs) /\ Len(Newest(seen)) <= WindowSize
      <3>1. seen \in Seq(Inputs)
        BY <1>0, <2>1, AppendProperties
      <3> QED BY <1>4, <3>1, NewestFacts DEF RequestTool
    <2> HIDE DEF seen
    <2>4. recent' \in [Turns -> Seq(Inputs)] /\ \A u \in Turns : Len(recent'[u]) <= WindowSize
      BY <1>0, <2>3 DEF TypeInv, TypeOK
    <2>5. CASE Equal(t, recent'[t]) >= RepeatThreshold /\ Goto(t, "stuck") /\ UNCHANGED next
      <3>1. TypeOK'
        BY <1>0, <1>4, <2>2, <2>4, <2>5, LogStep DEF RequestTool, Goto, TypeInv, TypeOK, Where
      <3>2. Tripped(t)'
        BY <1>4, <2>1, <2>5 DEF RequestTool, Equal, Tripped
      <3>3. Position(t)'
        BY <1>0, <1>4, <2>1, <2>5, <3>2 DEF RequestTool, Goto, Position
      <3> QED BY <1>0, <1>4, <2>2, <2>3, <2>5, <3>1, <3>3, TurnTypes DEF RequestTool, Goto
    <2>6. CASE next' = [next EXCEPT ![t] = @ + 1] /\ UNCHANGED pc
      <3>0. next' \in [Turns -> 1..(MaxBatch + 1)]
        BY <1>0, <2>1, <2>6
      <3>1. TypeOK'
        BY <1>4, <2>2, <2>4, <2>6, <3>0, LogStep DEF RequestTool, TypeInv, TypeOK
      <3>2. Position(t)'
        BY <1>0, <1>4, <2>1, <2>6 DEF RequestTool, Position
      <3> QED BY <1>0, <1>4, <2>1, <2>2, <2>3, <2>6, <3>1, <3>2, TurnTypes DEF RequestTool
    <2> QED BY <1>4, <2>5, <2>6 DEF RequestTool
  <1>5. CASE Speak(t)
    <2>1. LogGrows
      <3>1. Emit(Note("say", t)) => LogGrows
        BY NoteGrows
      <3> QED BY <1>5, <3>1 DEF Speak, LogGrows
    <2>2. /\ pc' = [pc EXCEPT ![t] = IF batch[t] = <<>> THEN "over" ELSE "tools"]
          /\ next' \in [Turns -> 1..(MaxBatch + 1)] /\ \A u \in Turns \ {t} : next'[u] = next[u]
      BY <1>0, <1>5 DEF Speak, Goto
    <2>3. TypeOK'
      BY <1>0, <1>5, <2>1, <2>2, LogStep DEF Speak, TypeInv, TypeOK, Where
    <2>4. Position(t)'
      BY <1>0, <1>5, <2>2 DEF Speak, Position
    <2> QED BY <1>0, <1>5, <2>1, <2>2, <2>3, <2>4, TurnTypes DEF Speak
  <1>6. CASE Finish(t)
    <2>1. next[t] <= Len(batch[t])
      BY <1>0, <1>6 DEF Finish, Position
    <2>2. LogGrows
      BY <1>6, <2>1, CallFacts DEF Finish
    <2>0. next' \in [Turns -> 1..(MaxBatch + 1)] /\ pc' \in [Turns -> Where]
      BY <1>0, <1>6, <2>1 DEF Finish, Goto, Where
    <2>3. TypeOK'
      BY <1>6, <2>0, <2>2, LogStep DEF Finish, TypeInv, TypeOK
    <2>4. Position(t)'
      BY <1>0, <1>6 DEF Finish, Goto, Position
    <2> QED BY <1>0, <1>6, <2>2, <2>3, <2>4, TurnTypes DEF Finish, Goto
  <1>7. CASE Cancel(t)
    <2>1. CASE next[t] <= Len(batch[t])
      <3>1. LogGrows
        BY <1>7, <2>1, CallFacts DEF Cancel
      <3>0. next' \in [Turns -> 1..(MaxBatch + 1)]
        <4>1. next' = [next EXCEPT ![t] = @ + 1]
          BY <1>7, <2>1 DEF Cancel
        <4> QED BY <1>0, <2>1, <4>1
      <3>2. TypeOK'
        BY <1>7, <2>1, <3>0, <3>1, LogStep DEF Cancel, TypeInv, TypeOK
      <3>3. Position(t)'
        BY <1>0, <1>7, <2>1 DEF Cancel, Position
      <3> QED BY <1>0, <1>7, <2>1, <3>1, <3>2, <3>3, TurnTypes DEF Cancel
    <2>2. CASE ~(next[t] <= Len(batch[t]))
      <3>1. LogGrows
        BY <1>7, <2>2, NoteGrows DEF Cancel
      <3> QED BY <1>7, <2>2, <3>1, MoveTypes DEF Cancel, Where, batchVars
    <2> QED BY <2>1, <2>2
  <1> QED BY <1>1, <1>2, <1>3, <1>4, <1>5, <1>6, <1>7

\* An abort keeps the types.
LEMMA AbortTypes ==
  ASSUME TypeInv, NEW t \in Turns, Abort(t)
  PROVE  TypeInv'
  <1>1. /\ UNCHANGED <<log, pc, iteration, overflows, batch, says, next, recent, snapshot>>
        /\ signal' \in [Turns -> BOOLEAN]
    BY DEF Abort, TypeInv, TypeOK, batchVars
  <1>2. TypeOK'
    BY <1>1 DEF TypeInv, TypeOK
  <1>3. Compacted' /\ Snapshots' /\ \A u \in Turns : Position(u)'
    BY <1>1 DEF TypeInv, Compacted, Is, Snapshots, Position, Tripped
  <1> QED BY <1>2, <1>3 DEF TypeInv

\* A crash keeps the types.
LEMMA CrashTypes ==
  ASSUME TypeInv, Crash
  PROVE  TypeInv'
  <1>1. \A t \in Turns : pc'[t] = IF Running(t) THEN "crashed" ELSE pc[t]
    BY DEF Crash
  <1>2. TypeOK'
    BY DEF Crash, TypeInv, TypeOK, Where, batchVars
  <1>3. Snapshots' /\ Compacted' /\ \A t \in Turns : Position(t)'
    BY <1>1 DEF Crash, TypeInv, Compacted, Is, Snapshots, Position, Tripped, batchVars
  <1> QED BY <1>2, <1>3 DEF TypeInv

\* The types hold at the start ...
LEMMA TypeInit == Init => TypeInv
  <1> SUFFICES ASSUME Init PROVE TypeInv
    OBVIOUS
  <1>1. /\ MaxIterations \in Nat /\ MaxBatch \in Nat /\ WindowSize \in Nat
        /\ Len(log) = 0 /\ log \in Seq(Event) /\ <<>> \in Seq(Inputs) /\ Len(<<>>) = 0
    BY ToolTurnAssumption, EmptySeq DEF Init
  <1>2. TypeOK
    BY <1>1 DEF Init, TypeOK, Where, MaxReactiveCompactions
  <1>3. Compacted
    BY <1>1 DEF Compacted
  <1>4. Snapshots /\ \A t \in Turns : Position(t)
    BY DEF Init, Snapshots, Position
  <1> QED BY <1>2, <1>3, <1>4 DEF TypeInv

\* ... and every step keeps them.
LEMMA TypeNext == TypeInv /\ [Next]_vars => TypeInv'
  <1> SUFFICES ASSUME TypeInv, [Next]_vars PROVE TypeInv'
    OBVIOUS
  <1>1. ASSUME NEW t \in Turns, TurnStep(t) PROVE TypeInv'
    BY <1>1, PlainTypes, SnapshotTypes, OwnTypes DEF TurnStep
  <1>2. ASSUME NEW t \in Turns, StartTurn(t) \/ Abort(t) PROVE TypeInv'
    BY <1>2, StartTypes, AbortTypes
  <1>3. CASE Crash
    BY <1>3, CrashTypes
  <1>4. CASE UNCHANGED vars
    BY <1>4 DEF vars, batchVars, TypeInv, TypeOK, Compacted, Is, Snapshots, Position, Tripped
  <1> QED BY <1>1, <1>2, <1>3, <1>4 DEF Next

\* The turns keep to the declared states; an iteration is never begun beyond
\* maxIterations, a compaction after an overflow never beyond its budget.
THEOREM TypeCorrect == Spec => []TypeOK
  <1>1. TypeInv => TypeOK
    BY DEF TypeInv
  <1> QED BY <1>1, TypeInit, TypeNext, PTL DEF Spec

-----------------------------------------------------------------------------
(* Calls and their results.                                                *)

After == Answering \cup {"top", "over", "crashed"}

\* A step that announces and answers nothing.
Quiet ==
  \/ log' = log
  \/ \E e \in Event : Emit(e) /\ e.kind \notin {"request", "result"}

\* A quiet step writes no request and no result.
LEMMA QuietLog ==
  ASSUME TypeInv, Quiet
  PROVE  /\ Len(log) \in Nat /\ Len(log') \in Nat /\ Len(log) <= Len(log')
         /\ \A p \in 1..Len(log) : log'[p] = log[p]
         /\ \A p \in 1..Len(log') : log'[p].kind \in {"request", "result"} => p \in 1..Len(log)
  <1>1. log \in Seq(Event) /\ Len(log) \in Nat
    BY LenProperties DEF TypeInv, TypeOK
  <1>2. CASE log' = log
    BY <1>1, <1>2
  <1>3. ASSUME NEW e \in Event, Emit(e), e.kind \notin {"request", "result"}
        PROVE  /\ Len(log) \in Nat /\ Len(log') \in Nat /\ Len(log) <= Len(log')
               /\ \A p \in 1..Len(log) : log'[p] = log[p]
               /\ \A p \in 1..Len(log') : log'[p].kind \in {"request", "result"} => p \in 1..Len(log)
    <2>1. /\ Len(log') = Len(log) + 1 /\ log'[Len(log) + 1] = e
          /\ \A p \in 1..Len(log) : log'[p] = log[p]
      BY <1>1, <1>3, AppendFacts
    <2>2. ASSUME NEW p \in 1..Len(log'), log'[p].kind \in {"request", "result"}
          PROVE  p \in 1..Len(log)
      BY <1>1, <1>3, <2>1, <2>2
    <2> QED BY <1>1, <2>1, <2>2
  <1> QED BY <1>1, <1>2, <1>3 DEF Quiet

\* A quiet step keeps the invariant of the calls if no call comes up, and none
\* that is past or owed is forgotten.
LEMMA QuietCalls ==
  ASSUME TypeInv, CallInv, Quiet,
         \A c \in Calls : (Past(c) => Past(c)') /\ (Owed(c) => Owed(c)'),
         \A t \in Turns : \A n \in 1..Len(batch'[t]) : Known(t, n)' =>
           Known(t, n) /\ n \in 1..Len(batch[t]) /\ iteration'[t] = iteration[t]
  PROVE  CallInv'
  <1>1. /\ Len(log) \in Nat /\ Len(log') \in Nat /\ Len(log) <= Len(log')
        /\ \A p \in 1..Len(log) : log'[p] = log[p]
        /\ \A p \in 1..Len(log') : log'[p].kind \in {"request", "result"} => p \in 1..Len(log)
    BY QuietLog
  <1>2. \A p \in 1..Len(log) : log[p].kind \in {"request", "result"} => log[p].call \in Calls
    BY EventFacts, ElementOfSeq DEF TypeInv, TypeOK
  <1>3. ResultsArePast'
    BY <1>1, <1>2 DEF CallInv, ResultsArePast, Is
  <1>4. ResultsAreUnique'
    BY <1>1 DEF CallInv, ResultsAreUnique, Is
  <1>5. ResultsAreLate'
    <2> SUFFICES ASSUME NEW p \in 1..Len(log'), log'[p].kind = "result"
                 PROVE  \E q \in 1..(p - 1) : log'[q].kind = "request" /\ log'[q].call = log'[p].call
      BY DEF ResultsAreLate, Is
    <2>1. p \in 1..Len(log) /\ log'[p] = log[p]
      BY <1>1
    <2>2. PICK q \in 1..(p - 1) : log[q].kind = "request" /\ log[q].call = log[p].call
      BY <2>1 DEF CallInv, ResultsAreLate, Is
    <2>3. q \in 1..Len(log)
      BY <1>1, <2>1, <2>2
    <2> QED BY <1>1, <2>1, <2>2, <2>3
  <1>6. Announced'
    <2> SUFFICES ASSUME NEW t \in Turns, NEW n \in 1..Len(batch'[t]), Known(t, n)'
                 PROVE  \E q \in 1..Len(log') :
                          log'[q].kind = "request" /\ log'[q].call = <<t, iteration'[t], n>>
      BY DEF Announced, Is
    <2>1. Known(t, n) /\ n \in 1..Len(batch[t]) /\ iteration'[t] = iteration[t]
      OBVIOUS
    <2>2. PICK q \in 1..Len(log) : log[q].kind = "request" /\ log[q].call = <<t, iteration[t], n>>
      BY <2>1 DEF CallInv, Announced, Is
    <2> QED BY <1>1, <2>1, <2>2
  <1>7. RequestsAreOwed'
    <2> SUFFICES ASSUME NEW p \in 1..Len(log'), NEW c \in Calls,
                        log'[p].kind = "request", log'[p].call = c,
                        ~\E q \in 1..Len(log') : log'[q].kind = "result" /\ log'[q].call = c
                 PROVE  Owed(c)'
      BY DEF RequestsAreOwed, Is
    <2>1. p \in 1..Len(log) /\ log[p].kind = "request" /\ log[p].call = c
      BY <1>1
    <2>2. ~\E q \in 1..Len(log) : log[q].kind = "result" /\ log[q].call = c
      BY <1>1
    <2> QED BY <2>1, <2>2 DEF CallInv, RequestsAreOwed, Is
  <1> QED BY <1>3, <1>4, <1>5, <1>6, <1>7 DEF CallInv

\* A quiet step of one turn to another place keeps the invariant of the calls.
LEMMA MoveCalls ==
  ASSUME TypeInv, CallInv, Quiet, NEW t \in Turns, NEW w,
         Goto(t, w), UNCHANGED <<iteration, next, batch, recent>>,
         pc[t] \notin {"requesting", "over", "crashed"}, w # "requesting",
         pc[t] \in After => w \in After,
         w \in Answering => pc[t] \in Answering,
         pc[t] \in Answering => w \in Answering \/ next[t] > Len(batch[t]),
         pc[t] = "stuck" => w = "over"
  PROVE  CallInv'
  <1>1. pc' = [pc EXCEPT ![t] = w] /\ pc \in [Turns -> Where] /\ Position(t)
    BY DEF Goto, TypeInv, TypeOK
  <1>2. \A u \in Turns : next[u] \in Nat /\ Len(batch[u]) \in Nat
    BY LenProperties DEF TypeInv, TypeOK
  <1>3. ASSUME NEW c \in Calls PROVE (Past(c) => Past(c)') /\ (Owed(c) => Owed(c)')
    <2>1. c[1] \in Turns /\ c[2] \in Nat /\ c[3] \in Nat
      BY DEF Calls
    <2>2. CASE c[1] # t
      BY <1>1, <2>1, <2>2 DEF Past, Owed, Tripped
    <2>3. CASE c[1] = t
      <3>1. Past(c) => Past(c)'
        BY <1>1, <2>3 DEF Past, After
      <3>2. Owed(c) => Owed(c)'
        <4>0. pc'[c[1]] = w
          BY <1>1, <2>3
        <4>1. CASE c[2] = iteration[t] /\ c[3] <= Len(batch[t]) /\ pc[t] = "stuck"
          <5>1. w = "over" /\ Tripped(c[1])'
            BY <1>1, <2>3, <4>1 DEF Position, Tripped
          <5> QED BY <4>0, <5>1 DEF Owed
        <4>2. CASE c[2] = iteration[t] /\ c[3] <= Len(batch[t]) /\ pc[t] \in Answering
                   /\ next[t] <= c[3]
          <5>1. w \in Answering
            BY <1>2, <2>1, <4>2
          <5> QED BY <2>3, <4>0, <4>2, <5>1 DEF Owed
        <4> QED BY <2>3, <4>1, <4>2 DEF Owed
      <3> QED BY <3>1, <3>2
    <2> QED BY <2>2, <2>3
  <1>4. ASSUME NEW u \in Turns, NEW n \in 1..Len(batch'[u]), Known(u, n)'
        PROVE  Known(u, n) /\ n \in 1..Len(batch[u]) /\ iteration'[u] = iteration[u]
    BY <1>1, <1>4 DEF Known
  <1> QED BY <1>3, <1>4, QuietCalls

\* A note of a turn is quiet.
LEMMA NoteQuiet ==
  ASSUME NEW t \in Turns,
         NEW k \in {"prompt", "say", "abort", "fatal", "retryable"}, Emit(Note(k, t))
  PROVE  Quiet
  BY NoteFacts DEF Quiet

\* So is a compaction, and the note of one that failed.
LEMMA CompactionQuiet ==
  ASSUME TypeInv, NEW t \in Turns, pc[t] \in {"summarize", "resummarize"},
         Emit(CompactionOf(t)) \/ Emit(Note("retryable", t))
  PROVE  Quiet
  <1>1. Emit(Note("retryable", t)) => Quiet
    BY NoteQuiet
  <1>2. CompactionOf(t) \in Event /\ CompactionOf(t).kind = "compaction"
    BY CompactionFacts
  <1> QED BY <1>1, <1>2 DEF Quiet

\* The steps that only move a turn keep the invariant of the calls.
LEMMA PlainCalls ==
  ASSUME TypeInv, CallInv, NEW t \in Turns,
         \/ StartTurn(t) \/ GiveUp(t) \/ ObeyAbort(t) \/ KeepContext(t) \/ Compact(t)
         \/ Summarize(t) \/ Request(t) \/ Fail(t) \/ Overflow(t) \/ Resummarize(t)
         \/ Retry(t) \/ Stuck(t) \/ Dispatch(t) \/ Allow(t) \/ Deny(t)
  PROVE  CallInv'
  <1>0. /\ Position(t) /\ next[t] \in Nat /\ Len(batch[t]) \in Nat
        /\ log' = log => Quiet
    BY LenProperties DEF TypeInv, TypeOK, Quiet
  <1>1. CASE StartTurn(t)
    BY <1>1, NoteQuiet, MoveCalls DEF StartTurn, After, Answering, batchVars
  <1>2. CASE GiveUp(t)
    BY <1>2, NoteQuiet, MoveCalls DEF GiveUp, After, Answering, batchVars
  <1>3. CASE ObeyAbort(t)
    BY <1>3, NoteQuiet, MoveCalls DEF ObeyAbort, After, Answering, batchVars
  <1>4. CASE KeepContext(t)
    BY <1>0, <1>4, MoveCalls DEF KeepContext, After, Answering, batchVars
  <1>5. CASE Compact(t)
    BY <1>0, <1>5, MoveCalls DEF Compact, After, Answering, batchVars
  <1>6. CASE Summarize(t)
    <2>1. Quiet
      BY <1>6, CompactionQuiet DEF Summarize
    <2> QED BY <1>6, <2>1, MoveCalls DEF Summarize, After, Answering, batchVars
  <1>7. CASE Request(t)
    BY <1>0, <1>7, MoveCalls DEF Request, After, Answering, batchVars
  <1>8. CASE Fail(t)
    BY <1>8, NoteQuiet, MoveCalls DEF Fail, After, Answering, batchVars
  <1>9. CASE Overflow(t)
    BY <1>0, <1>9, MoveCalls DEF Overflow, After, Answering, batchVars
  <1>10. CASE Resummarize(t)
    <2>1. Quiet
      BY <1>10, CompactionQuiet DEF Resummarize
    <2> QED BY <1>10, <2>1, MoveCalls DEF Resummarize, After, Answering, batchVars
  <1>11. CASE Retry(t)
    BY <1>11, NoteQuiet, MoveCalls DEF Retry, After, Answering, batchVars
  <1>12. CASE Stuck(t)
    BY <1>12, NoteQuiet, MoveCalls DEF Stuck, After, Answering, batchVars
  <1>13. CASE Dispatch(t)
    BY <1>0, <1>13, MoveCalls DEF Dispatch, After, Answering, batchVars
  <1>14. CASE Allow(t)
    BY <1>0, <1>14, MoveCalls DEF Allow, After, Answering, batchVars
  <1>15. CASE Deny(t)
    <2>1. CallNote("denied", Call(t)) \in Event /\ CallNote("denied", Call(t)).kind = "denied"
      BY <1>0, <1>15, CallFacts DEF Deny, Position
    <2>2. Quiet
      BY <1>15, <2>1 DEF Deny, Quiet
    <2> QED BY <1>15, <2>2, MoveCalls DEF Deny, After, Answering, batchVars
  <1> QED BY <1>1, <1>2, <1>3, <1>4, <1>5, <1>6, <1>7, <1>8, <1>9, <1>10, <1>11, <1>12, <1>13,
             <1>14, <1>15

\* What stays when an event about a call is appended.
LEMMA CallLog ==
  ASSUME TypeInv, NEW t \in Turns, pc[t] \notin {"idle", "top", "over", "crashed"},
         next[t] <= Len(batch[t]), NEW k \in {"request", "result"},
         Emit(CallNote(k, Call(t)))
  PROVE  /\ Len(log) \in Nat /\ Len(log') = Len(log) + 1
         /\ \A p \in 1..Len(log) : log'[p] = log[p]
         /\ \A p \in 1..Len(log) : log[p].kind \in {"request", "result"} => log[p].call \in Calls
         /\ log'[Len(log) + 1].kind = k /\ log'[Len(log) + 1].call = Call(t)
  <1>1. log \in Seq(Event) /\ Len(log) \in Nat
    BY LenProperties DEF TypeInv, TypeOK
  <1>2. /\ CallNote(k, Call(t)) \in Event /\ CallNote(k, Call(t)).kind = k
        /\ CallNote(k, Call(t)).call = Call(t)
    BY CallFacts
  <1>3. /\ Len(log') = Len(log) + 1 /\ log'[Len(log) + 1] = CallNote(k, Call(t))
        /\ \A p \in 1..Len(log) : log'[p] = log[p]
    BY <1>1, <1>2, AppendFacts
  <1>4. \A p \in 1..Len(log) : log[p].kind \in {"request", "result"} => log[p].call \in Calls
    BY <1>1, EventFacts, ElementOfSeq
  <1> QED BY <1>1, <1>2, <1>3, <1>4

\* A step of the turn leaves the calls of the others where they are.
LEMMA OthersCalls ==
  ASSUME NEW t \in Turns, NEW c \in Calls, c[1] # t,
         pc'[c[1]] = pc[c[1]], next'[c[1]] = next[c[1]], batch'[c[1]] = batch[c[1]],
         iteration'[c[1]] = iteration[c[1]], recent'[c[1]] = recent[c[1]]
  PROVE  (Past(c) => Past(c)') /\ (Owed(c) => Owed(c)')
  BY DEF Past, Owed, Tripped

\* The request of a call keeps it.
LEMMA RequestCalls ==
  ASSUME TypeInv, CallInv, NEW t \in Turns, RequestTool(t)
  PROVE  CallInv'
  <1> DEFINE L == Len(log)
             c0 == Call(t)
  <1>1. pc[t] = "requesting" /\ next[t] <= Len(batch[t]) /\ Emit(CallNote("request", c0))
    BY DEF RequestTool
  <1>2. /\ L \in Nat /\ Len(log') = L + 1
        /\ \A p \in 1..L : log'[p] = log[p]
        /\ \A p \in 1..L : log[p].kind \in {"request", "result"} => log[p].call \in Calls
        /\ log'[L + 1].kind = "request" /\ log'[L + 1].call = c0
    BY <1>1, CallLog
  <1>3. /\ c0 \in Calls /\ c0 = <<t, iteration[t], next[t]>> /\ next[t] \in Nat
        /\ c0[1] = t /\ c0[2] = iteration[t] /\ c0[3] = next[t]
    BY <1>1, CallFacts DEF Call
  <1>4. /\ pc'[t] \in {"requesting", "stuck"} /\ UNCHANGED <<iteration, batch>>
        /\ \A u \in Turns \ {t} : /\ pc'[u] = pc[u] /\ next'[u] = next[u]
                                  /\ recent'[u] = recent[u]
        /\ pc'[t] = "requesting" => next'[t] = next[t] + 1
    <2>1. /\ pc \in [Turns -> Where] /\ next \in [Turns -> 1..(MaxBatch + 1)]
          /\ recent \in [Turns -> Seq(Inputs)]
      BY DEF TypeInv, TypeOK
    <2> QED BY <2>1 DEF RequestTool, Goto
  <1> HIDE DEF c0, L
  <1>5. ASSUME NEW c \in Calls PROVE (Past(c) => Past(c)') /\ (Owed(c) => Owed(c)')
    <2>1. c[1] \in Turns
      BY DEF Calls
    <2>2. CASE c[1] # t
      BY <1>4, <2>1, <2>2, OthersCalls
    <2>3. CASE c[1] = t
      BY <1>1, <1>4, <2>3 DEF Past, Owed, Answering
    <2> QED BY <2>2, <2>3
  <1>6. ResultsArePast'
    <2>1. \A p \in 1..Len(log') : log'[p].kind = "result" => p \in 1..L
      BY <1>2
    <2> QED BY <1>2, <1>5, <2>1 DEF CallInv, ResultsArePast, Is, L
  <1>7. ResultsAreUnique'
    <2>1. \A p \in 1..Len(log') : log'[p].kind = "result" => p \in 1..L
      BY <1>2
    <2> QED BY <1>2, <2>1 DEF CallInv, ResultsAreUnique, Is, L
  <1>8. ResultsAreLate'
    <2> SUFFICES ASSUME NEW p \in 1..Len(log'), log'[p].kind = "result"
                 PROVE  \E q \in 1..(p - 1) : log'[q].kind = "request" /\ log'[q].call = log'[p].call
      BY DEF ResultsAreLate, Is
    <2>1. p \in 1..L /\ log'[p] = log[p]
      BY <1>2
    <2>2. PICK q \in 1..(p - 1) : log[q].kind = "request" /\ log[q].call = log[p].call
      BY <2>1 DEF CallInv, ResultsAreLate, Is, L
    <2>3. q \in 1..L
      BY <1>2, <2>1, <2>2
    <2> QED BY <1>2, <2>1, <2>2, <2>3
  <1>9. Announced'
    <2> SUFFICES ASSUME NEW u \in Turns, NEW n \in 1..Len(batch'[u]), Known(u, n)'
                 PROVE  \E q \in 1..Len(log') :
                          log'[q].kind = "request" /\ log'[q].call = <<u, iteration'[u], n>>
      BY DEF Announced, Is
    <2>1. CASE u = t /\ n = next[t]
      BY <1>2, <1>3, <1>4, <2>1
    <2>2. CASE ~(u = t /\ n = next[t])
      <3>1. Known(u, n) /\ n \in 1..Len(batch[u])
        BY <1>1, <1>3, <1>4, <2>2 DEF Known, Answering
      <3>2. PICK q \in 1..L : log[q].kind = "request" /\ log[q].call = <<u, iteration[u], n>>
        BY <3>1 DEF CallInv, Announced, Is, L
      <3> QED BY <1>2, <1>4, <3>2
    <2> QED BY <2>1, <2>2
  <1>10. RequestsAreOwed'
    <2> SUFFICES ASSUME NEW p \in 1..Len(log'), NEW c \in Calls,
                        log'[p].kind = "request", log'[p].call = c,
                        ~\E q \in 1..Len(log') : log'[q].kind = "result" /\ log'[q].call = c
                 PROVE  Owed(c)'
      BY DEF RequestsAreOwed, Is
    <2>1. CASE p \in 1..L
      <3>1. ~\E q \in 1..L : log[q].kind = "result" /\ log[q].call = c
        BY <1>2
      <3>2. log[p].kind = "request" /\ log[p].call = c
        BY <1>2, <2>1
      <3> QED BY <1>5, <2>1, <3>1, <3>2 DEF CallInv, RequestsAreOwed, Is, L
    <2>2. CASE p = L + 1
      <3>1. c = c0 /\ next[t] <= Len(batch'[t])
        BY <1>1, <1>2, <1>4, <2>2
      <3> QED BY <1>3, <1>4, <3>1 DEF Owed
    <2> QED BY <1>2, <2>1, <2>2
  <1> QED BY <1>6, <1>7, <1>8, <1>9, <1>10 DEF CallInv

\* The result of a call keeps it.
LEMMA ResultCalls ==
  ASSUME TypeInv, CallInv, NEW t \in Turns,
         pc[t] \in {"checking", "denied", "running", "cancelling"},
         next[t] <= Len(batch[t]), Emit(CallNote("result", Call(t))),
         next' = [next EXCEPT ![t] = @ + 1], pc'[t] \in Answering,
         \A u \in Turns \ {t} : pc'[u] = pc[u],
         UNCHANGED <<iteration, batch, recent>>
  PROVE  CallInv'
  <1> DEFINE L == Len(log)
  <1>1. PICK c0 \in Calls : c0 = Call(t)
    BY CallFacts
  <1>2. /\ L \in Nat /\ Len(log') = L + 1
        /\ \A p \in 1..L : log'[p] = log[p]
        /\ \A p \in 1..L : log[p].kind \in {"request", "result"} => log[p].call \in Calls
        /\ log'[L + 1].kind = "result" /\ log'[L + 1].call = c0
    BY <1>1, CallLog
  <1>3. /\ c0 = <<t, iteration[t], next[t]>> /\ next[t] \in Nat \ {0}
        /\ c0[1] = t /\ c0[2] = iteration[t] /\ c0[3] = next[t]
    BY <1>1, CallFacts DEF Call
  <1>4. next'[t] = next[t] + 1 /\ \A u \in Turns \ {t} : next'[u] = next[u]
    BY DEF TypeInv, TypeOK
  <1> HIDE DEF L
  <1>5. ASSUME NEW c \in Calls
        PROVE  (Past(c) => Past(c)') /\ (Owed(c) => Owed(c)' \/ c = c0)
    <2>1. c[1] \in Turns /\ c[3] \in Nat /\ c = <<c[1], c[2], c[3]>>
      BY DEF Calls
    <2>2. CASE c[1] # t
      BY <1>4, <2>1, <2>2, OthersCalls
    <2>3. CASE c[1] = t
      <3>1. Past(c) => Past(c)'
        BY <1>3, <1>4, <2>1, <2>3 DEF Past
      <3>2. ASSUME Owed(c), c # c0 PROVE Owed(c)'
        <4>1. c[2] = iteration[t] /\ c[3] <= Len(batch[t]) /\ next[t] <= c[3]
          BY <2>3, <3>2 DEF Owed, Answering
        <4>2. next'[t] <= c[3]
          BY <1>3, <1>4, <2>1, <2>3, <3>2, <4>1
        <4> QED BY <2>3, <4>1, <4>2 DEF Owed
      <3> QED BY <3>1, <3>2
    <2> QED BY <2>2, <2>3
  <1>6. Past(c0)' /\ ~Past(c0)
    BY <1>3, <1>4, ToolTurnAssumption DEF Past, TypeInv, TypeOK
  <1>7. \A p \in 1..L : ~(log[p].kind = "result" /\ log[p].call = c0)
    BY <1>6 DEF CallInv, ResultsArePast, Is, L
  <1>8. ResultsArePast'
    <2> SUFFICES ASSUME NEW p \in 1..Len(log'), NEW c \in Calls,
                        log'[p].kind = "result", log'[p].call = c
                 PROVE  Past(c)'
      BY DEF ResultsArePast, Is
    <2>1. CASE p \in 1..L
      <3>1. log[p].kind = "result" /\ log[p].call = c
        BY <1>2, <2>1
      <3> QED BY <1>5, <2>1, <3>1 DEF CallInv, ResultsArePast, Is, L
    <2>2. CASE p = L + 1
      <3>1. c = c0
        BY <1>2, <2>2
      <3> QED BY <1>6, <3>1
    <2> QED BY <1>2, <2>1, <2>2
  <1>9. ResultsAreUnique'
    <2> SUFFICES ASSUME NEW p \in 1..Len(log'), NEW q \in 1..Len(log'),
                        log'[p].kind = "result", log'[q].kind = "result",
                        log'[p].call = log'[q].call
                 PROVE  p = q
      BY DEF ResultsAreUnique, Is
    <2>1. CASE p \in 1..L /\ q \in 1..L
      BY <1>2, <2>1 DEF CallInv, ResultsAreUnique, Is, L
    <2>2. CASE p = L + 1 \/ q = L + 1
      BY <1>2, <1>7, <2>2
    <2> QED BY <1>2, <2>1, <2>2
  <1>10. \A u \in Turns, n \in Nat : Known(u, n)' => Known(u, n)
    BY <1>4 DEF Known, Answering
  <1>11. Announced'
    <2> SUFFICES ASSUME NEW u \in Turns, NEW n \in 1..Len(batch'[u]), Known(u, n)'
                 PROVE  \E q \in 1..Len(log') :
                          log'[q].kind = "request" /\ log'[q].call = <<u, iteration'[u], n>>
      BY DEF Announced, Is
    <2>1. Known(u, n) /\ n \in 1..Len(batch[u])
      BY <1>10
    <2>2. PICK q \in 1..L : log[q].kind = "request" /\ log[q].call = <<u, iteration[u], n>>
      BY <2>1 DEF CallInv, Announced, Is, L
    <2> QED BY <1>2, <2>2
  <1>12. \E q \in 1..L : log[q].kind = "request" /\ log[q].call = c0
    <2>1. Known(t, next[t]) /\ next[t] \in 1..Len(batch[t])
      BY <1>3, LenProperties DEF Known, Answering, TypeInv, TypeOK
    <2> QED BY <1>3, <2>1 DEF CallInv, Announced, Is, L
  <1>13. ResultsAreLate'
    <2> SUFFICES ASSUME NEW p \in 1..Len(log'), log'[p].kind = "result"
                 PROVE  \E q \in 1..(p - 1) : log'[q].kind = "request" /\ log'[q].call = log'[p].call
      BY DEF ResultsAreLate, Is
    <2>1. CASE p \in 1..L
      <3>1. PICK q \in 1..(p - 1) : log[q].kind = "request" /\ log[q].call = log[p].call
        BY <1>2, <2>1 DEF CallInv, ResultsAreLate, Is, L
      <3>2. q \in 1..L
        BY <1>2, <2>1, <3>1
      <3> QED BY <1>2, <2>1, <3>1, <3>2
    <2>2. CASE p = L + 1
      BY <1>2, <1>12, <2>2
    <2> QED BY <1>2, <2>1, <2>2
  <1>14. RequestsAreOwed'
    <2> SUFFICES ASSUME NEW p \in 1..Len(log'), NEW c \in Calls,
                        log'[p].kind = "request", log'[p].call = c,
                        ~\E q \in 1..Len(log') : log'[q].kind = "result" /\ log'[q].call = c
                 PROVE  Owed(c)'
      BY DEF RequestsAreOwed, Is
    <2>1. p \in 1..L /\ log[p].kind = "request" /\ log[p].call = c
      BY <1>2
    <2>2. c # c0 /\ ~\E q \in 1..L : log[q].kind = "result" /\ log[q].call = c
      BY <1>2
    <2> QED BY <1>5, <2>1, <2>2 DEF CallInv, RequestsAreOwed, Is, L
  <1> QED BY <1>8, <1>9, <1>11, <1>13, <1>14 DEF CallInv

\* The steps that begin an iteration, take a batch, write requests and results,
\* or end a turn keep it.
LEMMA OwnCalls ==
  ASSUME TypeInv, CallInv, NEW t \in Turns,
         Iterate(t) \/ Respond(t) \/ RequestTool(t) \/ Speak(t) \/ Finish(t) \/ Cancel(t)
  PROVE  CallInv'
  <1>0. /\ pc \in [Turns -> Where] /\ iteration \in [Turns -> 0..MaxIterations]
        /\ next \in [Turns -> 1..(MaxBatch + 1)] /\ batch \in [Turns -> Seq(Inputs)]
        /\ Position(t) /\ Len(batch[t]) \in Nat /\ next[t] \in Nat /\ iteration[t] \in Nat
        /\ \A u \in Turns : Len(batch[u]) \in Nat
        /\ log' = log => Quiet
    BY LenProperties, ToolTurnAssumption DEF TypeInv, TypeOK, Quiet
  <1>1. \A c \in Calls : c[1] \in Turns /\ c[2] \in Nat /\ c[3] \in Nat \ {0}
    BY DEF Calls
  <1>2. CASE Iterate(t)
    <2>1. /\ Quiet /\ pc[t] = "top" /\ pc' = [pc EXCEPT ![t] = "context"]
          /\ iteration' = [iteration EXCEPT ![t] = @ + 1]
          /\ UNCHANGED <<batch, next, recent>>
      BY <1>0, <1>2 DEF Iterate, Goto, batchVars
    <2>2. ASSUME NEW c \in Calls PROVE (Past(c) => Past(c)') /\ (Owed(c) => Owed(c)')
      <3>1. CASE c[1] # t
        BY <1>0, <1>1, <2>1, <3>1, OthersCalls
      <3>2. CASE c[1] = t
        BY <1>0, <1>1, <2>1, <3>2 DEF Past, Owed, Answering
      <3> QED BY <3>1, <3>2
    <2>3. ASSUME NEW u \in Turns, NEW n \in 1..Len(batch'[u]), Known(u, n)'
          PROVE  Known(u, n) /\ n \in 1..Len(batch[u]) /\ iteration'[u] = iteration[u]
      BY <1>0, <2>1, <2>3 DEF Known, Answering
    <2> QED BY <2>1, <2>2, <2>3, QuietCalls
  <1>3. CASE Respond(t)
    <2>1. /\ Quiet /\ pc[t] = "streaming" /\ pc' = [pc EXCEPT ![t] = "requesting"]
          /\ \A u \in Turns \ {t} : batch'[u] = batch[u]
          /\ next' = [next EXCEPT ![t] = 1]
          /\ UNCHANGED <<iteration, recent>>
      BY <1>0, <1>3 DEF Respond, Goto
    <2>2. ASSUME NEW c \in Calls PROVE (Past(c) => Past(c)') /\ (Owed(c) => Owed(c)')
      <3>1. CASE c[1] # t
        BY <1>0, <1>1, <2>1, <3>1, OthersCalls
      <3>2. CASE c[1] = t
        BY <1>0, <1>1, <2>1, <3>2 DEF Past, Owed, Answering
      <3> QED BY <3>1, <3>2
    <2>3. ASSUME NEW u \in Turns, NEW n \in 1..Len(batch'[u]), Known(u, n)'
          PROVE  Known(u, n) /\ n \in 1..Len(batch[u]) /\ iteration'[u] = iteration[u]
      BY <1>0, <2>1, <2>3 DEF Known, Answering
    <2> QED BY <2>1, <2>2, <2>3, QuietCalls
  <1>4. CASE RequestTool(t)
    BY <1>4, RequestCalls
  <1>5. CASE Speak(t)
    <2>0. Quiet
      <3>1. Emit(Note("say", t)) => Quiet
        BY NoteQuiet
      <3> QED BY <1>0, <1>5, <3>1 DEF Speak
    <2>1. /\ pc[t] = "requesting" /\ next[t] > Len(batch[t])
          /\ \/ batch[t] = <<>> /\ pc'[t] = "over"
             \/ pc'[t] = "tools" /\ next'[t] = 1
          /\ \A u \in Turns \ {t} : pc'[u] = pc[u] /\ next'[u] = next[u]
          /\ UNCHANGED <<iteration, batch, recent>>
      BY <1>0, <1>5 DEF Speak, Goto
    <2>2. ASSUME NEW c \in Calls PROVE (Past(c) => Past(c)') /\ (Owed(c) => Owed(c)')
      <3>1. CASE c[1] # t
        BY <1>1, <2>1, <3>1, OthersCalls
      <3>2. CASE c[1] = t
        <4>1. Past(c) => Past(c)'
          BY <2>1, <3>2 DEF Past, Answering
        <4>2. ASSUME Owed(c) PROVE Owed(c)'
          <5>1. c[2] = iteration[t] /\ c[3] <= Len(batch[t])
            BY <2>1, <3>2, <4>2 DEF Owed, Answering
          <5>2. batch[t] # <<>>
            BY <1>1, <5>1
          <5> QED BY <1>1, <2>1, <3>2, <5>1, <5>2 DEF Owed, Answering
        <4> QED BY <4>1, <4>2
      <3> QED BY <3>1, <3>2
    <2>3. ASSUME NEW u \in Turns, NEW n \in 1..Len(batch'[u]), Known(u, n)'
          PROVE  Known(u, n) /\ n \in 1..Len(batch[u]) /\ iteration'[u] = iteration[u]
      <3>1. CASE u = t
        BY <1>0, <2>1, <3>1 DEF Known
      <3>2. CASE u # t
        BY <2>1, <2>3, <3>2 DEF Known
      <3> QED BY <3>1, <3>2
    <2> QED BY <2>0, <2>2, <2>3, QuietCalls
  <1>6. CASE Finish(t)
    <2>1. /\ pc'[t] \in Answering /\ next[t] <= Len(batch[t])
          /\ \A u \in Turns \ {t} : pc'[u] = pc[u]
      BY <1>0, <1>6 DEF Finish, Goto, Answering, Position
    <2> QED BY <1>6, <2>1, ResultCalls DEF Finish
  <1>7. CASE Cancel(t)
    <2>1. CASE next[t] <= Len(batch[t])
      <3>1. pc'[t] \in Answering /\ \A u \in Turns \ {t} : pc'[u] = pc[u]
        BY <1>7, <2>1 DEF Cancel, Answering
      <3> QED BY <1>7, <2>1, <3>1, ResultCalls DEF Cancel
    <2>2. CASE ~(next[t] <= Len(batch[t]))
      <3>1. next[t] > Len(batch[t])
        BY <1>0, <2>2
      <3>2. Quiet
        BY <1>7, <2>2, NoteQuiet DEF Cancel
      <3> QED BY <1>7, <2>2, <3>1, <3>2, MoveCalls DEF Cancel, After, Answering
    <2> QED BY <2>1, <2>2
  <1> QED BY <1>2, <1>3, <1>4, <1>5, <1>6, <1>7

\* A crash keeps it.
LEMMA CrashCalls ==
  ASSUME TypeInv, CallInv, Crash
  PROVE  CallInv'
  <1>1. /\ \A t \in Turns : pc'[t] = IF Running(t) THEN "crashed" ELSE pc[t]
        /\ UNCHANGED <<log, iteration, batch, next, recent>>
    BY DEF Crash, batchVars
  <1>2. ASSUME NEW c \in Calls PROVE (Past(c) => Past(c)') /\ (Owed(c) => Owed(c)')
    <2>1. c[1] \in Turns
      BY DEF Calls
    <2> QED BY <1>1, <2>1 DEF Past, Owed, Tripped, Running, Answering
  <1>3. ASSUME NEW t \in Turns, NEW n \in 1..Len(batch'[t]) PROVE ~Known(t, n)'
    BY <1>1 DEF Known, Running, Answering
  <1>4. Quiet
    BY <1>1 DEF Quiet
  <1> QED BY <1>2, <1>3, <1>4, QuietCalls

\* The invariant of the calls holds at the start ...
LEMMA CallInit == Init => CallInv
  <1> SUFFICES ASSUME Init PROVE CallInv
    OBVIOUS
  <1>1. Len(log) = 0 /\ \A t \in Turns : Len(batch[t]) = 0
    BY EmptySeq DEF Init
  <1> QED BY <1>1 DEF CallInv, ResultsArePast, ResultsAreUnique, ResultsAreLate, Announced,
                     RequestsAreOwed

\* ... and every step keeps it.
LEMMA CallNext == TypeInv /\ CallInv /\ [Next]_vars => CallInv'
  <1> SUFFICES ASSUME TypeInv, CallInv, [Next]_vars PROVE CallInv'
    OBVIOUS
  <1>1. ASSUME NEW t \in Turns, StartTurn(t) \/ TurnStep(t) PROVE CallInv'
    BY <1>1, PlainCalls, OwnCalls DEF TurnStep
  <1>2. CASE UNCHANGED <<log, pc, iteration, batch, next, recent>>
    <2>1. Quiet /\ \A c \in Calls : (Past(c) => Past(c)') /\ (Owed(c) => Owed(c)')
      BY <1>2 DEF Quiet, Past, Owed, Tripped
    <2>2. \A t \in Turns, n \in Nat : Known(t, n)' => Known(t, n)
      BY <1>2 DEF Known
    <2> QED BY <1>2, <2>1, <2>2, QuietCalls
  <1>3. ASSUME NEW t \in Turns, Abort(t) PROVE CallInv'
    BY <1>2, <1>3 DEF Abort, batchVars
  <1>4. CASE Crash
    BY <1>4, CrashCalls
  <1>5. CASE UNCHANGED vars
    BY <1>2, <1>5 DEF vars, batchVars
  <1> QED BY <1>1, <1>3, <1>4, <1>5 DEF Next

\* Types and calls together are invariant.
LEMMA Invariance == Spec => []IInv
  <1>1. Init => IInv
    BY TypeInit, CallInit DEF IInv
  <1>2. IInv /\ [Next]_vars => IInv'
    BY TypeNext, CallNext DEF IInv
  <1> QED BY <1>1, <1>2, PTL DEF Spec

\* However the calls of concurrent turns are announced, denied, run, cancelled
\* by an abort or left by a crash, none gets a second result, and none gets one
\* before it was announced.
THEOREM AnsweredOnceCorrect == Spec => []AnsweredOnce
  <1>1. IInv => AnsweredOnce
    <2> SUFFICES ASSUME IInv, NEW c \in Calls
                 PROVE  /\ Cardinality(Results(c)) <= 1
                        /\ \A i \in Results(c) :
                             \E j \in 1..(i - 1) : log[j].kind = "request" /\ log[j].call = c
      BY DEF AnsweredOnce
    <2>1. \A p, q \in Results(c) : p = q
      BY DEF Results, IInv, CallInv, ResultsAreUnique, Is
    <2>2. Cardinality(Results(c)) <= 1
      <3>1. CASE Results(c) = {}
        BY <3>1, FS_EmptySet
      <3>2. CASE Results(c) # {}
        <4>1. PICK p \in Results(c) : TRUE
          BY <3>2
        <4>2. Results(c) = {p}
          BY <2>1, <4>1
        <4>3. Cardinality(Results(c)) = 1
          BY <4>2, FS_Singleton, Zenon
        <4> QED BY <4>3
      <3> QED BY <3>1, <3>2
    <2>3. \A i \in Results(c) : \E j \in 1..(i - 1) : log[j].kind = "request" /\ log[j].call = c
      BY DEF Results, IInv, CallInv, ResultsAreLate, Is
    <2> QED BY <2>2, <2>3
  <1> QED BY <1>1, Invariance, PTL

\* A turn that has come to its end, aborted, out of iterations or done, has
\* answered every call it announced, unless the guard against repetition ended it.
THEOREM EndedIsAnsweredCorrect == Spec => []EndedIsAnswered
  <1>1. IInv => EndedIsAnswered
    <2> SUFFICES ASSUME IInv, NEW t \in Turns, pc[t] = "over", ~Tripped(t),
                        NEW c \in Requests(t)
                 PROVE  Results(c) # {}
      BY DEF EndedIsAnswered
    <2>1. PICK p \in 1..Len(log) : Is(p, "request") /\ log[p].turn = t /\ c = log[p].call
      BY DEF Requests, Is
    <2>2. c[1] = t /\ c \in Calls
      <3>1. log[p] \in Event
        BY <2>1, ElementOfSeq DEF IInv, TypeInv, TypeOK
      <3> QED BY <2>1, <3>1, EventFacts DEF Is
    <2>3. ~Owed(c)
      BY <2>2 DEF Owed, Answering
    <2>4. PICK q \in 1..Len(log) : Is(q, "result") /\ log[q].call = c
      BY <2>1, <2>2, <2>3 DEF IInv, CallInv, RequestsAreOwed
    <2> QED BY <2>4 DEF Results, Is
  <1> QED BY <1>1, Invariance, PTL

-----------------------------------------------------------------------------
(* Compactions, when no two turns run at once.                             *)

\* A step of t moves no other turn, writes events of t, and a compaction only
\* where it has been taking one.
Mine(t) ==
  /\ \A u \in Turns \ {t} : pc'[u] = pc[u]
  /\ pc'[t] \in {"summarize", "resummarize"} => snapshot'[t] = Len(log) /\ log' = log
  /\ \/ log' = log
     \/ \E e \in Event : Emit(e) /\ e.kind # "compaction" /\ e.turn = t
     \/ pc[t] \in {"summarize", "resummarize"} /\ Emit(CompactionOf(t))

\* A turn that writes a note, a compaction or nothing does only what is its
\* own.
LEMMA NoteMine ==
  ASSUME TypeInv, NEW t \in Turns, NEW w, w \notin {"summarize", "resummarize"}, Goto(t, w),
         \/ log' = log
         \/ \E k \in {"prompt", "say", "abort", "fatal", "retryable"} : Emit(Note(k, t))
         \/ pc[t] \in {"summarize", "resummarize"} /\ Emit(CompactionOf(t))
  PROVE  Mine(t)
  <1>1. pc \in [Turns -> Where] /\ pc' = [pc EXCEPT ![t] = w]
    BY DEF TypeInv, TypeOK, Goto
  <1>2. ASSUME NEW k \in {"prompt", "say", "abort", "fatal", "retryable"}, Emit(Note(k, t))
        PROVE  \E e \in Event : Emit(e) /\ e.kind # "compaction" /\ e.turn = t
    BY <1>2, NoteFacts DEF Note
  <1> QED BY <1>1, <1>2 DEF Mine

\* So does one that writes of a call.
LEMMA CallMine ==
  ASSUME TypeInv, NEW t \in Turns, pc[t] \notin {"idle", "top", "over", "crashed"},
         next[t] <= Len(batch[t]), NEW k \in {"request", "denied", "result"},
         Emit(CallNote(k, Call(t))), pc'[t] \notin {"summarize", "resummarize"},
         \A u \in Turns \ {t} : pc'[u] = pc[u]
  PROVE  Mine(t)
  <1>1. CallNote(k, Call(t)) \in Event /\ CallNote(k, Call(t)).kind = k
    BY CallFacts
  <1>2. CallNote(k, Call(t)).turn = t
    BY CallFacts DEF CallNote
  <1> QED BY <1>1, <1>2 DEF Mine

\* So does every step of a turn.
LEMMA StepMine ==
  ASSUME TypeInv, NEW t \in Turns, StartTurn(t) \/ TurnStep(t)
  PROVE  Mine(t)
  <1>0. /\ pc \in [Turns -> Where] /\ snapshot \in [Turns -> Nat] /\ Position(t)
        /\ next[t] \in Nat /\ Len(batch[t]) \in Nat
    BY LenProperties DEF TypeInv, TypeOK
  <1>1. CASE StartTurn(t) \/ GiveUp(t) \/ ObeyAbort(t) \/ Iterate(t)
    BY <1>1, NoteMine DEF StartTurn, GiveUp, ObeyAbort, Iterate
  <1>2. CASE KeepContext(t) \/ Request(t) \/ Respond(t) \/ Allow(t)
    BY <1>2, NoteMine DEF KeepContext, Request, Respond, Allow
  <1>3. CASE Compact(t) \/ Overflow(t)
    BY <1>0, <1>3 DEF Compact, Overflow, Goto, Mine
  <1>4. CASE Summarize(t) \/ Fail(t) \/ Resummarize(t) \/ Retry(t) \/ Stuck(t)
    BY <1>4, NoteMine DEF Summarize, Fail, Resummarize, Retry, Stuck
  <1>5. CASE RequestTool(t)
    <2>1. pc'[t] \notin {"summarize", "resummarize"} /\ \A u \in Turns \ {t} : pc'[u] = pc[u]
      BY <1>0, <1>5 DEF RequestTool, Goto
    <2> QED BY <1>5, <2>1, CallMine DEF RequestTool
  <1>6. CASE Speak(t)
    <2>1. CASE batch[t] = <<>>
      BY <1>6, <2>1, NoteMine DEF Speak
    <2>2. CASE batch[t] # <<>>
      BY <1>6, <2>2, NoteMine DEF Speak
    <2> QED BY <2>1, <2>2
  <1>7. CASE Dispatch(t)
    BY <1>7, NoteMine DEF Dispatch
  <1>8. CASE Deny(t)
    BY <1>0, <1>8, CallMine DEF Deny, Goto, Position
  <1>9. CASE Finish(t)
    BY <1>0, <1>9, CallMine DEF Finish, Goto, Position
  <1>10. CASE Cancel(t)
    <2>1. CASE next[t] <= Len(batch[t])
      BY <1>10, <2>1, CallMine DEF Cancel
    <2>2. CASE ~(next[t] <= Len(batch[t]))
      BY <1>10, <2>2, NoteMine DEF Cancel
    <2> QED BY <2>1, <2>2
  <1> QED BY <1>1, <1>2, <1>3, <1>4, <1>5, <1>6, <1>7, <1>8, <1>9, <1>10 DEF TurnStep

\* Turns that do only what is their own, one after the other, keep the
\* compactions disjoint.
LEMMA MineDisjoint ==
  ASSUME TypeInv, Sequential, CompactionsAreDisjoint, NEW t \in Turns, Mine(t)
  PROVE  CompactionsAreDisjoint'
  <1>1. log \in Seq(Event) /\ Len(log) \in Nat
    BY LenProperties DEF TypeInv, TypeOK
  <1>2. CASE log' = log
    BY <1>2 DEF CompactionsAreDisjoint, Compactions
  <1>3. ASSUME NEW e \in Event, Emit(e),
               e.kind = "compaction" => \A i \in Compactions(log) : log[i].to < e.from
        PROVE  CompactionsAreDisjoint'
    <2> SUFFICES ASSUME NEW i \in 1..Len(log'), NEW j \in 1..Len(log'), i < j,
                        log'[i].kind = "compaction", log'[j].kind = "compaction"
                 PROVE  log'[i].to < log'[j].from
      BY DEF CompactionsAreDisjoint, Compactions
    <2>1. /\ Len(log') = Len(log) + 1 /\ log'[Len(log) + 1] = e
          /\ \A p \in 1..Len(log) : log'[p] = log[p]
      BY <1>1, <1>3, AppendFacts
    <2>2. i \in Compactions(log) /\ log'[i] = log[i]
      BY <1>1, <2>1 DEF Compactions
    <2>3. CASE j \in 1..Len(log)
      BY <2>1, <2>2, <2>3 DEF CompactionsAreDisjoint, Compactions
    <2>4. CASE j = Len(log) + 1
      BY <1>3, <2>1, <2>2, <2>4
    <2> QED BY <1>1, <2>1, <2>3, <2>4
  <1>4. CASE pc[t] \in {"summarize", "resummarize"} /\ Emit(CompactionOf(t))
    <2>1. SubSeq(log, 1, snapshot[t]) = log
      BY <1>1, <1>4, SubSeqFull DEF Sequential
    <2>2. CompactionOf(t) \in Event /\ CompactionOf(t).from = FirstFresh(log)
      BY <1>4, <2>1, CompactionFacts
    <2>3. \A i \in Compactions(log) : log[i].to < FirstFresh(log)
      BY <1>1, FirstFreshFacts DEF Backward, TypeInv, Compacted, Is
    <2> QED BY <1>3, <1>4, <2>2, <2>3
  <1> QED BY <1>2, <1>3, <1>4 DEF Mine

\* As long as a session runs one turn at a time, what one compaction has
\* replaced by a summary is never summarized again, whether the compaction came
\* before a request or after one that was too long.
THEOREM CompactionsAreDisjointCorrect == ~Concurrent => (Spec => []CompactionsAreDisjoint)
  <1> SUFFICES ASSUME ~Concurrent PROVE Spec => []CompactionsAreDisjoint
    OBVIOUS
  <1> DEFINE Inv == TypeInv /\ Sequential /\ CompactionsAreDisjoint
  <1>1. Init => Inv
    <2>1. Init => Sequential /\ CompactionsAreDisjoint
      BY EmptySeq DEF Init, Sequential, Running, CompactionsAreDisjoint, Compactions
    <2> QED BY <2>1, TypeInit
  <1>2. Inv /\ [Next]_vars => Inv'
    <2> SUFFICES ASSUME TypeInv, Sequential, CompactionsAreDisjoint, [Next]_vars
                 PROVE  Sequential' /\ CompactionsAreDisjoint'
      BY TypeNext
    <2>1. ASSUME NEW t \in Turns, StartTurn(t) \/ TurnStep(t)
          PROVE  Sequential' /\ CompactionsAreDisjoint'
      <3>1. Mine(t)
        BY <2>1, StepMine
      <3>2. \A u \in Turns \ {t} : ~Running(u)
        <4>1. CASE StartTurn(t)
          BY <4>1 DEF StartTurn
        <4>2. CASE TurnStep(t)
          <5>1. Running(t)
            BY <4>2 DEF Running, TurnStep, GiveUp, ObeyAbort, Iterate, KeepContext, Compact,
                        Summarize, Request, Respond, Fail, Overflow, Resummarize, Retry,
                        RequestTool, Stuck, Speak, Dispatch, Allow, Deny, Finish, Cancel
          <5> QED BY <5>1 DEF Sequential
        <4> QED BY <2>1, <4>1, <4>2
      <3>3. Sequential'
        BY <3>1, <3>2 DEF Sequential, Mine, Running
      <3> QED BY <3>1, <3>3, MineDisjoint
    <2>2. CASE UNCHANGED <<log, snapshot>> /\ (UNCHANGED pc \/ Crash)
      <3>1. CompactionsAreDisjoint'
        BY <2>2 DEF CompactionsAreDisjoint, Compactions
      <3>2. Sequential'
        BY <2>2 DEF Sequential, Running, Crash
      <3> QED BY <3>1, <3>2
    <2>3. ASSUME NEW t \in Turns, Abort(t) PROVE Sequential' /\ CompactionsAreDisjoint'
      BY <2>2, <2>3 DEF Abort
    <2>4. CASE Crash \/ UNCHANGED vars
      BY <2>2, <2>4 DEF Crash, vars
    <2> QED BY <2>1, <2>3, <2>4 DEF Next
  <1> QED BY <1>1, <1>2, PTL DEF Spec

-----------------------------------------------------------------------------
(* The end of a turn is the last thing it says of itself.                   *)

\* What the last words of a turn are.
Ends == {"say", "abort", "fatal"}

\* The last that the log has of the turn, compactions aside, is its end.
Told(t) ==
  \E i \in 1..Len(log) :
    /\ log[i].turn = t /\ log[i].kind \in Ends
    /\ \A j \in 1..Len(log) : i < j /\ log[j].turn = t => log[j].kind = "compaction"

\* A response without calls asks for an assistant_message.
Spoken(t) == pc[t] = "requesting" /\ batch[t] = <<>> => says[t]

\* A turn that is over has told its end.
ToldInv == \A t \in Turns : Spoken(t) /\ (pc[t] = "over" => Told(t))

\* A step of t speaks of t or compacts, and an end is told as it comes.
Tells(t) ==
  /\ pc[t] # "over"
  /\ \A u \in Turns \ {t} : pc'[u] = pc[u] /\ batch'[u] = batch[u] /\ says'[u] = says[u]
  /\ \/ log' = log
     \/ \E e \in Event : Emit(e) /\ (e.turn = t \/ e.kind = "compaction")
  /\ pc'[t] = "over" => \E k \in Ends : Emit(Note(k, t))
  /\ Spoken(t)'

\* A turn that ends with a note of its end tells of its end.
LEMMA NoteTells ==
  ASSUME TypeInv, NEW t \in Turns, NEW w, Goto(t, w), pc[t] # "over", w # "requesting",
         UNCHANGED <<batch, says>>,
         w # "over" =>
           \/ log' = log
           \/ \E k \in {"prompt", "say", "abort", "fatal", "retryable"} : Emit(Note(k, t))
           \/ pc[t] \in {"summarize", "resummarize"} /\ Emit(CompactionOf(t)),
         w = "over" => \E k \in Ends : Emit(Note(k, t))
  PROVE  Tells(t)
  <1>1. pc \in [Turns -> Where] /\ pc' = [pc EXCEPT ![t] = w]
    BY DEF TypeInv, TypeOK, Goto
  <1>2. ASSUME NEW k \in {"prompt", "say", "abort", "fatal", "retryable"}, Emit(Note(k, t))
        PROVE  \E e \in Event : Emit(e) /\ (e.turn = t \/ e.kind = "compaction")
    <2>1. Note(k, t) \in Event /\ Note(k, t).turn = t
      BY NoteFacts DEF Note
    <2> QED BY <1>2, <2>1
  <1>3. ASSUME pc[t] \in {"summarize", "resummarize"}, Emit(CompactionOf(t))
        PROVE  \E e \in Event : Emit(e) /\ (e.turn = t \/ e.kind = "compaction")
    BY <1>3, CompactionFacts
  <1>4. \/ log' = log
        \/ \E e \in Event : Emit(e) /\ (e.turn = t \/ e.kind = "compaction")
    BY <1>2, <1>3 DEF Ends
  <1>5. pc'[t] = w /\ \A u \in Turns \ {t} : pc'[u] = pc[u]
    BY <1>1
  <1> QED BY <1>4, <1>5 DEF Tells, Spoken

\* A turn that writes of a call does not end by it.
LEMMA CallTells ==
  ASSUME TypeInv, NEW t \in Turns, pc[t] \notin {"idle", "top", "over", "crashed"},
         next[t] <= Len(batch[t]), NEW k \in {"request", "denied", "result"},
         Emit(CallNote(k, Call(t))), pc'[t] # "over",
         \A u \in Turns \ {t} : pc'[u] = pc[u],
         UNCHANGED <<batch, says>>
  PROVE  Tells(t)
  <1>1. CallNote(k, Call(t)) \in Event
    BY CallFacts
  <1>2. CallNote(k, Call(t)).turn = t
    BY DEF CallNote, Call
  <1>3. batch[t] # <<>>
    <2>1. Len(batch[t]) # 0
      <3>1. next[t] \in 1..MaxBatch + 1 /\ Len(batch[t]) \in Nat
        BY LenProperties DEF TypeInv, TypeOK
      <3> QED BY <3>1
    <2> QED BY <2>1
  <1> QED BY <1>1, <1>2, <1>3 DEF Tells, Spoken

\* Every step of a turn tells of its end if it ends it.
LEMMA StepTells ==
  ASSUME TypeInv, NEW t \in Turns, Spoken(t), StartTurn(t) \/ TurnStep(t)
  PROVE  Tells(t)
  <1>0. /\ pc \in [Turns -> Where] /\ Position(t) /\ batch \in [Turns -> Seq(Inputs)]
        /\ says \in [Turns -> BOOLEAN] /\ next[t] \in Nat \ {0} /\ Len(batch[t]) \in Nat
    BY LenProperties DEF TypeInv, TypeOK
  <1>1. CASE StartTurn(t) \/ GiveUp(t) \/ ObeyAbort(t) \/ Iterate(t)
    BY <1>1, NoteTells DEF StartTurn, GiveUp, ObeyAbort, Iterate, batchVars, Ends
  <1>2. CASE KeepContext(t) \/ Compact(t) \/ Request(t) \/ Dispatch(t) \/ Allow(t)
    BY <1>2, NoteTells DEF KeepContext, Compact, Request, Dispatch, Allow, batchVars
  <1>3. CASE Summarize(t) \/ Resummarize(t) \/ Retry(t)
    BY <1>3, NoteTells DEF Summarize, Resummarize, Retry, batchVars
  <1>4. CASE Fail(t) \/ Stuck(t)
    BY <1>4, NoteTells DEF Fail, Stuck, batchVars, Ends
  <1>5. CASE Overflow(t)
    BY <1>5, NoteTells DEF Overflow, batchVars
  <1>6. CASE Respond(t)
    <2>1. PICK uses \in Responses, text \in BOOLEAN :
            /\ batch' = [batch EXCEPT ![t] = uses]
            /\ says' = [says EXCEPT ![t] = text \/ uses = <<>>]
      BY <1>6 DEF Respond
    <2>2. pc[t] = "streaming" /\ pc' = [pc EXCEPT ![t] = "requesting"] /\ log' = log
      BY <1>6 DEF Respond, Goto
    <2>3. batch'[t] = uses /\ says'[t] = (text \/ uses = <<>>)
      BY <1>0, <2>1
    <2>4. \A u \in Turns \ {t} : pc'[u] = pc[u] /\ batch'[u] = batch[u] /\ says'[u] = says[u]
      BY <1>0, <2>1, <2>2
    <2> QED BY <1>0, <2>2, <2>3, <2>4 DEF Tells, Spoken
  <1>7. CASE RequestTool(t)
    <2>1. pc'[t] # "over" /\ \A u \in Turns \ {t} : pc'[u] = pc[u]
      BY <1>0, <1>7 DEF RequestTool, Goto
    <2> QED BY <1>7, <2>1, CallTells DEF RequestTool
  <1>8. CASE Speak(t)
    <2>1. CASE batch[t] = <<>>
      <3>1. Emit(Note("say", t)) /\ Goto(t, "over")
        BY <1>8, <2>1 DEF Speak, Spoken
      <3> QED BY <1>8, <3>1, NoteTells DEF Speak, Ends
    <2>2. CASE batch[t] # <<>>
      BY <1>8, <2>2, NoteTells DEF Speak
    <2> QED BY <2>1, <2>2
  <1>9. CASE Deny(t) \/ Finish(t)
    BY <1>0, <1>9, CallTells DEF Deny, Finish, Goto, Position, batchVars
  <1>10. CASE Cancel(t)
    <2>1. CASE next[t] <= Len(batch[t])
      BY <1>10, <2>1, CallTells DEF Cancel
    <2>2. CASE ~(next[t] <= Len(batch[t]))
      BY <1>10, <2>2, NoteTells DEF Cancel, Ends
    <2> QED BY <2>1, <2>2
  <1> QED BY <1>1, <1>2, <1>3, <1>4, <1>5, <1>6, <1>7, <1>8, <1>9, <1>10 DEF TurnStep

\* Such a step keeps the invariant of what is told.
LEMMA TellsKeeps ==
  ASSUME TypeInv, ToldInv, NEW t \in Turns, Tells(t)
  PROVE  ToldInv'
  <1>1. log \in Seq(Event)
    BY DEF TypeInv, TypeOK
  <1>2. ASSUME NEW u \in Turns \ {t}, Told(u) PROVE Told(u)'
    <2>1. CASE log' = log
      BY <1>2, <2>1 DEF Told
    <2>2. ASSUME NEW e \in Event, Emit(e), e.turn = t \/ e.kind = "compaction" PROVE Told(u)'
      <3>1. /\ Len(log) \in Nat /\ Len(log') = Len(log) + 1 /\ log'[Len(log) + 1] = e
            /\ \A p \in 1..Len(log) : log'[p] = log[p]
        BY <1>1, <2>2, AppendFacts
      <3>2. PICK i \in 1..Len(log) :
              /\ log[i].turn = u /\ log[i].kind \in Ends
              /\ \A j \in 1..Len(log) : i < j /\ log[j].turn = u => log[j].kind = "compaction"
        BY <1>2 DEF Told
      <3>3. ASSUME NEW j \in 1..Len(log'), i < j, log'[j].turn = u
            PROVE  log'[j].kind = "compaction"
        <4>1. CASE j = Len(log) + 1
          BY <2>2, <3>1, <3>3, <4>1
        <4>2. CASE j # Len(log) + 1
          BY <3>1, <3>2, <3>3, <4>2
        <4> QED BY <4>1, <4>2
      <3>4. i \in 1..Len(log') /\ log'[i] = log[i]
        BY <3>1
      <3> QED BY <3>2, <3>3, <3>4 DEF Told
    <2> QED BY <2>1, <2>2 DEF Tells
  <1>3. ASSUME pc'[t] = "over" PROVE Told(t)'
    <2>1. PICK k \in Ends : Emit(Note(k, t))
      BY <1>3 DEF Tells
    <2>2. Note(k, t) \in Event /\ Note(k, t).turn = t /\ Note(k, t).kind \in Ends
      BY NoteFacts DEF Note, Ends
    <2>3. /\ Len(log) \in Nat /\ Len(log') = Len(log) + 1
          /\ log'[Len(log) + 1] = Note(k, t)
      BY <1>1, <2>1, <2>2, AppendFacts
    <2>4. /\ Len(log) + 1 \in 1..Len(log')
          /\ \A j \in 1..Len(log') : ~(Len(log) + 1 < j)
      BY <2>3
    <2> QED BY <2>2, <2>3, <2>4 DEF Told
  <1>4. ASSUME NEW u \in Turns PROVE Spoken(u)' /\ (pc'[u] = "over" => Told(u)')
    <2>1. CASE u = t
      BY <1>3, <2>1 DEF Tells
    <2>2. CASE u # t
      BY <1>2, <2>2 DEF Tells, ToldInv, Spoken
    <2> QED BY <2>1, <2>2
  <1> QED BY <1>4 DEF ToldInv

\* Every step keeps it.
LEMMA ToldNext == TypeInv /\ ToldInv /\ [Next]_vars => ToldInv'
  <1> SUFFICES ASSUME TypeInv, ToldInv, [Next]_vars PROVE ToldInv'
    OBVIOUS
  <1>1. ASSUME NEW t \in Turns, StartTurn(t) \/ TurnStep(t) PROVE ToldInv'
    BY <1>1, StepTells, TellsKeeps DEF ToldInv
  <1>2. CASE /\ UNCHANGED <<log, batch, says>>
             /\ \A t \in Turns : pc'[t] = pc[t] \/ pc'[t] = "crashed"
    BY <1>2 DEF ToldInv, Told, Spoken
  <1>3. ASSUME NEW t \in Turns, Abort(t) PROVE ToldInv'
    BY <1>2, <1>3 DEF Abort, batchVars
  <1>4. CASE Crash
    <2>1. \A t \in Turns : pc'[t] = IF Running(t) THEN "crashed" ELSE pc[t]
      BY <1>4 DEF Crash
    <2> QED BY <1>2, <1>4, <2>1 DEF Crash, batchVars
  <1>5. CASE UNCHANGED vars
    BY <1>2, <1>5 DEF vars, batchVars
  <1> QED BY <1>1, <1>3, <1>4, <1>5 DEF Next

\* However a turn comes to its end, the last event that is its own says so: a
\* message, an abort or a fatal error.  Other turns may have appended theirs.
THEOREM EndIsToldCorrect == Spec => []EndIsTold
  <1>1. Init => ToldInv
    BY DEF Init, ToldInv, Spoken
  <1>2. TypeInv /\ [Next]_vars => TypeInv'
    BY TypeNext
  <1>3. TypeInv /\ ToldInv => EndIsTold
    <2> SUFFICES ASSUME TypeInv, ToldInv, NEW t \in Turns, pc[t] = "over"
                 PROVE  log[LastOf(t)].kind \in Ends
      BY DEF EndIsTold, Ends
    <2> DEFINE S == {0} \cup {i \in 1..Len(log) : log[i].turn = t /\ log[i].kind # "compaction"}
    <2>1. PICK i \in 1..Len(log) :
            /\ log[i].turn = t /\ log[i].kind \in Ends
            /\ \A j \in 1..Len(log) : i < j /\ log[j].turn = t => log[j].kind = "compaction"
      BY DEF ToldInv, Told
    <2>2. Len(log) \in Nat /\ i \in Nat
      BY LenProperties DEF TypeInv, TypeOK
    <2>3. S \in SUBSET Nat /\ S # {} /\ \A x \in S : x <= i
      BY <2>1, <2>2
    <2>4. i \in S
      BY <2>1 DEF Ends
    <2>5. Max(S) \in S /\ \A x \in S : x <= Max(S)
      <3> HIDE DEF S
      <3> QED BY <2>1, <2>2, <2>3, MaxOfBounded
    <2> HIDE DEF S
    <2>6. Max(S) = i
      <3>1. Max(S) \in Nat /\ Max(S) <= i /\ i <= Max(S)
        BY <2>3, <2>4, <2>5
      <3> QED BY <2>2, <3>1
    <2> QED BY <2>1, <2>6 DEF LastOf, S
  <1> QED BY <1>1, <1>2, <1>3, TypeInit, ToldNext, PTL DEF Spec

-----------------------------------------------------------------------------
(* The messages made from a log.                                           *)

\* A set of numbers has a least one.
LEMMA LeastNumber ==
  ASSUME NEW T \in SUBSET Nat, T # {}
  PROVE  \E x \in T : \A y \in T : x <= y
  <1>1. IsWellFoundedOn(OpToRel(<, Nat), Nat)
    BY NatLessThanWellFounded
  <1>2. PICK x \in T : \A y \in T : ~(<<y, x>> \in OpToRel(<, Nat))
    BY <1>1, WFMin
  <1>3. ASSUME NEW y \in T PROVE x <= y
    <2>1. ~(y < x)
      BY <1>2 DEF OpToRel
    <2> QED BY <2>1
  <1> QED BY <1>3

\* The state after some events is that after one less and the next of them.
LEMMA TakenIs ==
  ASSUME NEW l, Len(l) \in Nat
  PROVE  /\ Taken(l)[0] = [messages |-> <<>>, pending |-> <<>>, told |-> {}]
         /\ \A i \in 1..Len(l) : Taken(l)[i] = Take(l, Taken(l)[i - 1], i)
  <1> DEFINE a == [messages |-> <<>>, pending |-> <<>>, told |-> {}]
             It(g, n) == g = [i \in 0..n |-> IF i = 0 THEN a ELSE Take(l, g[i - 1], i)]
             Bad == {n \in Nat : ~\E g : It(g, n)}
  <1>1. Bad = {}
    <2> SUFFICES ASSUME Bad # {} PROVE FALSE
      OBVIOUS
    <2>1. PICK n \in Bad : \A m \in Bad : n <= m
      <3> HIDE DEF It
      <3> QED BY LeastNumber
    <2>2. CASE n = 0
      <3> DEFINE g == [i \in 0..0 |-> a]
      <3>1. It(g, 0)
        OBVIOUS
      <3> QED BY <2>1, <2>2, <3>1
    <2>3. CASE n # 0
      <3>1. n \in Nat /\ n - 1 \in Nat /\ n - 1 \notin Bad
        <4> HIDE DEF It
        <4> QED BY <2>1, <2>3
      <3>2. PICK g : It(g, n - 1)
        BY <3>1
      <3> DEFINE h == [i \in 0..n |-> IF i = n THEN Take(l, g[n - 1], n) ELSE g[i]]
      <3>3. ASSUME NEW i \in 0..n
            PROVE  h[i] = IF i = 0 THEN a ELSE Take(l, h[i - 1], i)
        <4>1. CASE i = n
          BY <4>1, <2>3
        <4>2. CASE i # n
          <5>1. i \in 0..(n - 1)
            BY <4>2
          <5>2. g[i] = IF i = 0 THEN a ELSE Take(l, g[i - 1], i)
            BY <3>2, <5>1
          <5>3. i = 0 \/ (i - 1 \in 0..n /\ i - 1 # n)
            BY <5>1
          <5> QED BY <4>2, <5>2, <5>3
        <4> QED BY <4>1, <4>2
      <3>4. It(h, n)
        BY <3>3
      <3> QED BY <2>1, <3>4
    <2> QED BY <2>2, <2>3
  <1>2. \E g : It(g, Len(l))
    BY <1>1
  <1>3. Taken(l) = CHOOSE g : It(g, Len(l))
    BY DEF Taken
  <1>4. It(Taken(l), Len(l))
    BY <1>2, <1>3
  <1>5. \A i \in 0..Len(l) : Taken(l)[i] = IF i = 0 THEN a ELSE Take(l, Taken(l)[i - 1], i)
    BY <1>4
  <1> QED BY <1>5

Message ==
  [role : {"user"}, turn : Turns] \cup {Summary, Text}
  \cup {ToolUses(s) : s \in Seq(Calls)} \cup {ToolResult(c) : c \in Calls}

\* The results made up are those of the calls that have none.
LEMMA MadeUpFacts ==
  ASSUME NEW calls \in Seq(Calls), NEW resolved
  PROVE  /\ MadeUp(calls, resolved) \in Seq(Message)
         /\ \A i \in 1..Len(MadeUp(calls, resolved)) :
              \E c \in ToSet(calls) : MadeUp(calls, resolved)[i] = ToolResult(c)
         /\ \A c \in ToSet(calls) \ resolved :
              \E i \in 1..Len(MadeUp(calls, resolved)) : MadeUp(calls, resolved)[i] = ToolResult(c)
  <1> DEFINE L == Len(calls)
             Made(r, n) == /\ r \in Seq(Message)
                           /\ \A i \in 1..Len(r) : \E k \in 1..n : r[i] = ToolResult(calls[k])
                           /\ \A k \in 1..n : calls[k] \notin resolved =>
                                \E i \in 1..Len(r) : r[i] = ToolResult(calls[k])
             Step(r, n) == IF calls[n] \in resolved THEN r ELSE Append(r, ToolResult(calls[n]))
             It(g, n) == g = [i \in 0..n |-> IF i = 0 THEN <<>> ELSE Step(g[i - 1], i)]
             Bad == {n \in Nat : n <= L /\ ~\E g : It(g, n) /\ Made(g[n], n)}
  <1>0. L \in Nat /\ \A k \in 1..L : calls[k] \in Calls
    BY LenProperties, ElementOfSeq
  <1>1. Made(<<>>, 0)
    OBVIOUS
  <1>2. ASSUME NEW r, NEW n \in 1..L, Made(r, n - 1)
        PROVE  Made(Step(r, n), n)
    <2>1. CASE calls[n] \in resolved
      BY <1>0, <1>2, <2>1
    <2>2. CASE calls[n] \notin resolved
      <3> DEFINE x == ToolResult(calls[n])
                 s == Append(r, x)
      <3>1. x \in Message
        BY <1>0 DEF Message
      <3>2. /\ s \in Seq(Message) /\ Len(s) = Len(r) + 1 /\ Len(r) \in Nat
            /\ s[Len(r) + 1] = x /\ \A i \in 1..Len(r) : s[i] = r[i]
        <4> HIDE DEF x
        <4> QED BY <1>2, <3>1, AppendProperties, LenProperties
      <3>3. Step(r, n) = s
        BY <2>2
      <3> HIDE DEF s, Step
      <3>4. \A i \in 1..Len(s) : \E k \in 1..n : s[i] = ToolResult(calls[k])
        BY <1>0, <1>2, <3>2
      <3>5. \A k \in 1..n : calls[k] \notin resolved => \E i \in 1..Len(s) : s[i] = ToolResult(calls[k])
        BY <1>0, <1>2, <3>2
      <3> QED BY <3>2, <3>3, <3>4, <3>5
    <2> QED BY <2>1, <2>2
  <1>3. Bad = {}
    <2> SUFFICES ASSUME Bad # {} PROVE FALSE
      OBVIOUS
    <2>1. PICK n \in Bad : \A m \in Bad : n <= m
      <3> HIDE DEF It, Made
      <3> QED BY LeastNumber
    <2>2. CASE n = 0
      <3> DEFINE g == [i \in 0..0 |-> <<>>]
      <3> HIDE DEF Made, Step
      <3>1. It(g, 0) /\ g[0] = <<>>
        OBVIOUS
      <3> QED BY <1>1, <2>1, <2>2, <3>1
    <2>3. CASE n # 0
      <3> HIDE DEF Made, Step
      <3>1. n \in 1..L /\ n - 1 \in Nat /\ n - 1 \notin Bad /\ n - 1 <= L
        <4> HIDE DEF It
        <4> QED BY <1>0, <2>1, <2>3
      <3>2. PICK g : It(g, n - 1) /\ Made(g[n - 1], n - 1)
        BY <3>1
      <3> DEFINE h == [i \in 0..n |-> IF i = n THEN Step(g[n - 1], n) ELSE g[i]]
      <3>3. ASSUME NEW i \in 0..n
            PROVE  h[i] = IF i = 0 THEN <<>> ELSE Step(h[i - 1], i)
        <4>1. CASE i = n
          BY <4>1, <2>3, <3>1
        <4>2. CASE i # n
          <5>1. i \in 0..(n - 1)
            BY <4>2, <3>1
          <5>2. g[i] = IF i = 0 THEN <<>> ELSE Step(g[i - 1], i)
            BY <3>2, <5>1
          <5>3. i = 0 \/ (i - 1 \in 0..n /\ i - 1 # n)
            BY <5>1
          <5> QED BY <4>2, <5>2, <5>3
        <4> QED BY <4>1, <4>2
      <3>4. It(h, n) /\ Made(h[n], n)
        <4>1. h[n] = Step(g[n - 1], n) /\ Made(Step(g[n - 1], n), n)
          BY <1>2, <3>1, <3>2
        <4>2. It(h, n)
          BY <3>3
        <4> QED BY <4>1, <4>2
      <3> QED BY <2>1, <3>4
    <2> QED BY <2>2, <2>3
  <1>4. PICK g : It(g, L) /\ Made(g[L], L)
    <2> HIDE DEF It, Made
    <2> QED BY <1>0, <1>3
  <1>5. \A h : It(h, L) => h = g
    <2> SUFFICES ASSUME NEW h, It(h, L), h # g PROVE FALSE
      OBVIOUS
    <2> DEFINE Differ == {n \in 0..L : h[n] # g[n]}
    <2> HIDE DEF Made, Step
    <2>1. Differ \in SUBSET Nat /\ Differ # {}
      BY <1>0, <1>4
    <2>2. PICK n \in Differ : \A m \in Differ : n <= m
      <3> HIDE DEF Differ
      <3> QED BY <2>1, LeastNumber
    <2>3. CASE n = 0
      BY <1>0, <1>4, <2>2, <2>3
    <2>4. CASE n # 0
      <3>1. n - 1 \in 0..L /\ n \in 0..L /\ h[n - 1] = g[n - 1]
        BY <1>0, <2>2, <2>4
      <3>2. h[n] = Step(h[n - 1], n) /\ g[n] = Step(g[n - 1], n)
        BY <1>4, <2>4, <3>1
      <3> QED BY <2>2, <3>1, <3>2
    <2> QED BY <2>3, <2>4
  <1>6. MadeUp(calls, resolved) = g[L]
    <2>1. MadeUp(calls, resolved) = (CHOOSE h : It(h, L))[L]
      BY DEF MadeUp
    <2>2. (CHOOSE h : It(h, L)) = g
      <3> HIDE DEF It
      <3> QED BY <1>4, <1>5
    <2> QED BY <2>1, <2>2
  <1>7. ToSet(calls) = {calls[k] : k \in 1..L}
    BY LenProperties DEF ToSet
  <1>8. /\ g[L] \in Seq(Message)
        /\ \A i \in 1..Len(g[L]) : \E c \in ToSet(calls) : g[L][i] = ToolResult(c)
        /\ \A c \in ToSet(calls) \ resolved : \E i \in 1..Len(g[L]) : g[L][i] = ToolResult(c)
    <2>1. Made(g[L], L)
      BY <1>4
    <2> HIDE DEF It
    <2> QED BY <1>7, <2>1
  <1> QED BY ONLY <1>6, <1>8

\* What the log has of a call that was answered: its request, then its result,
\* between them only events of calls of the same turn, the requests before the
\* results, and no end of a range that a compaction replaces.
OfCalls == {"request", "denied", "result"}

Pair(l, p, j) == l[p].kind = "request" /\ l[j].kind = "result" /\ l[p].call = l[j].call

Burst(l, p, j) ==
  /\ \A k \in p..j : l[k].kind \in OfCalls /\ l[k].turn = l[p].turn
  /\ \A x, y \in p..j : x < y /\ l[x].kind = "result" => l[y].kind # "request"

Uncut(l, p, j) ==
  \A k \in Compactions(l) : l[k].to \notin p..(j - 1) /\ l[k].from \notin (p + 1)..j

Grouped(l) ==
  /\ \A p, j \in 1..Len(l) : Pair(l, p, j) => p < j /\ Burst(l, p, j) /\ Uncut(l, p, j)
  /\ \A j \in 1..Len(l) : l[j].kind = "result" => \E p \in 1..(j - 1) : Pair(l, p, j)

\* A call that was denied has a result.
Settled(l) ==
  \A p \in 1..Len(l) : l[p].kind = "denied" =>
    \E j \in 1..Len(l) : l[j].kind = "result" /\ l[j].call = l[p].call

\* Nothing replaces the event.
Bare(l, i) == Covering(l, i) = {}

\* After i events the request has been taken and its result has not.
Due(l, i, p, j) == p \in 1..i /\ j \in (i + 1)..Len(l) /\ Pair(l, p, j) /\ Bare(l, p)

\* A result has been taken since the request.
Begun(l, i, p) == \E k \in (p + 1)..i : l[k].kind = "result" /\ Bare(l, k)

\* Nothing but results of its calls has followed the message.
Open(m, u) ==
  /\ m[u].role = "uses"
  /\ \A k \in (u + 1)..Len(m) : m[k].role = "result" /\ m[k].call \in ToSet(m[u].calls)

Answered(m, u, c) == \E j \in Answers(m, u) : m[j].call = c

\* Every result answers a message of tool uses.
Orderly(m) ==
  \A j \in 1..Len(m) : m[j].role = "result" =>
    \E u \in 1..(j - 1) : m[u].role = "uses" /\ j \in Answers(m, u)

\* The state after i events: the pending calls wait for their first result, and
\* what a message of tool uses lacks is still to come, right after it.
PendingWait(l, i, st) ==
  \A c \in ToSet(st.pending) :
    \E p \in 1..i : l[p].kind = "request" /\ l[p].call = c /\ Bare(l, p) /\ ~Begun(l, i, p)

LacksAreDue(l, i, m) ==
  \A u \in 1..Len(m) : m[u].role = "uses" =>
    \A c \in ToSet(m[u].calls) :
      \/ Answered(m, u, c)
      \/ /\ Open(m, u)
         /\ \E p, j \in 1..Len(l) : Due(l, i, p, j) /\ l[p].call = c /\ Begun(l, i, p)

DueAreExpected(l, i, st) ==
  \A p, j \in 1..Len(l) : Due(l, i, p, j) =>
    \/ l[p].call \in ToSet(st.pending)
    \/ /\ Begun(l, i, p)
       /\ \E u \in 1..Len(st.messages) :
            Open(st.messages, u) /\ l[p].call \in ToSet(st.messages[u].calls)

Shape(st) ==
  /\ st = [messages |-> st.messages, pending |-> st.pending, told |-> st.told]
  /\ st.messages \in Seq(Message) /\ st.pending \in Seq(Calls)

Fold(l, i, st) ==
  /\ Shape(st) /\ Orderly(st.messages)
  /\ PendingWait(l, i, st) /\ LacksAreDue(l, i, st.messages) /\ DueAreExpected(l, i, st)

\* Messages are told apart by their role.
LEMMA MessageFacts ==
  /\ Summary \in Message /\ Text \in Message /\ Summary.role = "summary" /\ Text.role = "text"
  /\ \A t \in Turns : UserMessage(t) \in Message /\ UserMessage(t).role = "user"
  /\ \A c \in Calls : ToolResult(c) \in Message
  /\ \A c : ToolResult(c).role = "result" /\ ToolResult(c).call = c
  /\ \A s \in Seq(Calls) : ToolUses(s) \in Message
  /\ \A s : ToolUses(s).role = "uses" /\ ToolUses(s).calls = s
  <1>1. Summary \in Message /\ Text \in Message /\ Summary.role = "summary" /\ Text.role = "text"
    BY DEF Message, Summary, Text
  <1>2. \A t \in Turns : UserMessage(t) \in Message /\ UserMessage(t).role = "user"
    BY DEF Message, UserMessage
  <1>3. \A c : ToolResult(c).role = "result" /\ ToolResult(c).call = c
    BY DEF ToolResult
  <1>4. \A s : ToolUses(s).role = "uses" /\ ToolUses(s).calls = s
    BY DEF ToolUses
  <1>5. \A c \in Calls : ToolResult(c) \in Message
    BY DEF Message
  <1>6. \A s \in Seq(Calls) : ToolUses(s) \in Message
    BY DEF Message
  <1> QED BY <1>1, <1>2, <1>3, <1>4, <1>5, <1>6

\* More messages take nothing from the answers there are.
LEMMA MoreMessages ==
  ASSUME NEW m \in Seq(Message), NEW w \in Seq(Message), Len(m) <= Len(w),
         \A k \in 1..Len(m) : w[k] = m[k]
  PROVE  /\ \A u \in 1..Len(m) : \A j \in Answers(m, u) : j \in Answers(w, u) /\ w[j] = m[j]
         /\ \A u \in 1..Len(m) : \A c : Answered(m, u, c) => Answered(w, u, c)
         /\ Orderly(m) => \A j \in 1..Len(m) : w[j].role = "result" =>
              \E u \in 1..(j - 1) : w[u].role = "uses" /\ j \in Answers(w, u)
  <1>0. Len(m) \in Nat /\ Len(w) \in Nat
    BY LenProperties
  <1>1. ASSUME NEW u \in 1..Len(m), NEW j \in Answers(m, u)
        PROVE  j \in Answers(w, u) /\ w[j] = m[j]
    BY <1>0 DEF Answers
  <1>2. ASSUME NEW u \in 1..Len(m), NEW c, Answered(m, u, c) PROVE Answered(w, u, c)
    BY <1>1, <1>2 DEF Answered
  <1>3. ASSUME Orderly(m), NEW j \in 1..Len(m), w[j].role = "result"
        PROVE  \E u \in 1..(j - 1) : w[u].role = "uses" /\ j \in Answers(w, u)
    <2>1. PICK u \in 1..(j - 1) : m[u].role = "uses" /\ j \in Answers(m, u)
      BY <1>3 DEF Orderly
    <2>2. u \in 1..Len(m)
      BY <1>0, <2>1
    <2> QED BY <1>1, <2>1, <2>2
  <1> QED BY <1>1, <1>2, <1>3

\* The pending calls become a message, followed by the results made up.
LEMMA FlushFacts ==
  ASSUME NEW st, Shape(st), NEW resolved
  PROVE  LET f == Flush(st, resolved)
             n == Len(st.messages)
         IN  /\ Shape(f) /\ f.pending = <<>> /\ f.told = st.told
             /\ n \in Nat /\ n <= Len(f.messages) /\ Len(f.messages) \in Nat
             /\ \A k \in 1..n : f.messages[k] = st.messages[k]
             /\ st.pending = <<>> => f.messages = st.messages
             /\ st.pending # <<>> =>
                  /\ n + 1 <= Len(f.messages) /\ f.messages[n + 1] = ToolUses(st.pending)
                  /\ \A k \in (n + 2)..Len(f.messages) :
                       \E c \in ToSet(st.pending) : f.messages[k] = ToolResult(c)
                  /\ \A c \in ToSet(st.pending) \ resolved :
                       \E k \in (n + 2)..Len(f.messages) : f.messages[k] = ToolResult(c)
  <1> DEFINE f == Flush(st, resolved)
             m == st.messages
             n == Len(m)
             r == MadeUp(st.pending, resolved)
  <1>0. m \in Seq(Message) /\ st.pending \in Seq(Calls) /\ n \in Nat
    BY LenProperties DEF Shape
  <1>1. CASE st.pending = <<>>
    <2>1. f = st
      BY <1>1 DEF Flush
    <2> QED BY <1>0, <1>1, <2>1
  <1>2. CASE st.pending # <<>>
    <2> DEFINE w == m \o <<ToolUses(st.pending)>> \o r
    <2>1. f = [messages |-> w, pending |-> <<>>, told |-> st.told]
      BY <1>2 DEF Flush, Shape
    <2>2. r \in Seq(Message)
      BY <1>0, MadeUpFacts
    <2>3. <<ToolUses(st.pending)>> \in Seq(Message) /\ Len(<<ToolUses(st.pending)>>) = 1
          /\ <<ToolUses(st.pending)>>[1] = ToolUses(st.pending)
      BY <1>0, MessageFacts
    <2> DEFINE one == <<ToolUses(st.pending)>>
               mo == m \o one
    <2>4. /\ mo \in Seq(Message) /\ Len(mo) = n + 1 /\ mo[n + 1] = ToolUses(st.pending)
          /\ \A k \in 1..n : mo[k] = m[k]
      <3> HIDE DEF one
      <3> QED BY <1>0, <2>3, ConcatProperties DEF one
    <2>00. n \in Nat
      BY <1>0
    <2>5. /\ w \in Seq(Message) /\ Len(w) = n + 1 + Len(r) /\ Len(r) \in Nat
          /\ \A k \in 1..(n + 1) : w[k] = mo[k]
          /\ \A k \in 1..Len(r) : w[n + 1 + k] = r[k]
      <3> HIDE DEF mo, r, n
      <3>1. w = mo \o r
        BY DEF mo
      <3>2. mo \o r \in Seq(Message) /\ Len(mo \o r) = Len(mo) + Len(r) /\ Len(r) \in Nat
        BY <2>2, <2>4, ConcatProperties, LenProperties
      <3>3. \A k \in 1..(n + 1) : (mo \o r)[k] = mo[k]
        BY <1>0, <2>2, <2>4, <3>2, ConcatProperties
      <3>4. \A k \in 1..Len(r) : (mo \o r)[n + 1 + k] = r[k]
        <4>1. ASSUME NEW k \in 1..Len(r) PROVE (mo \o r)[n + 1 + k] = r[k]
          <5>1. n + 1 + k \in 1..(Len(mo) + Len(r)) /\ n + 1 + k > Len(mo)
                /\ n + 1 + k - Len(mo) = k
            BY <2>00, <2>4, <3>2
          <5> QED BY <2>2, <2>4, <5>1, ConcatProperties
        <4> QED BY <4>1
      <3> QED BY <2>4, <3>1, <3>2, <3>3, <3>4
    <2> HIDE DEF w, mo, one, n, r
    <2>6. \A k \in (n + 2)..Len(w) : \E c \in ToSet(st.pending) : w[k] = ToolResult(c)
      <3> SUFFICES ASSUME NEW k \in (n + 2)..Len(w)
                   PROVE  \E c \in ToSet(st.pending) : w[k] = ToolResult(c)
        OBVIOUS
      <3>1. k - n - 1 \in 1..Len(r) /\ k = n + 1 + (k - n - 1)
        BY <2>00, <2>5
      <3>2. w[k] = r[k - n - 1]
        BY <2>5, <3>1
      <3> QED BY <1>0, <3>1, <3>2, MadeUpFacts DEF r
    <2>7. \A c \in ToSet(st.pending) \ resolved : \E k \in (n + 2)..Len(w) : w[k] = ToolResult(c)
      <3> SUFFICES ASSUME NEW c \in ToSet(st.pending) \ resolved
                   PROVE  \E k \in (n + 2)..Len(w) : w[k] = ToolResult(c)
        OBVIOUS
      <3>1. PICK i \in 1..Len(r) : r[i] = ToolResult(c)
        BY <1>0, MadeUpFacts DEF r
      <3>2. n + 1 + i \in (n + 2)..Len(w) /\ w[n + 1 + i] = r[i]
        BY <2>00, <2>5, <3>1
      <3> QED BY <3>1, <3>2
    <2>8. w[n + 1] = ToolUses(st.pending) /\ \A k \in 1..n : w[k] = m[k]
      BY <2>00, <2>4, <2>5
    <2>9. Shape(f) /\ f.pending = <<>> /\ f.told = st.told /\ f.messages = w
      BY <2>1, <2>5 DEF Shape
    <2>10. n + 1 <= Len(w) /\ n <= Len(w) /\ Len(w) \in Nat
      BY <2>00, <2>5
    <2> HIDE DEF f, m
    <2> QED BY <1>0, <1>2, <2>6, <2>7, <2>8, <2>9, <2>10 DEF n, m, f
  <1> QED BY <1>1, <1>2

\* Then something is said.
LEMMA SayFacts ==
  ASSUME NEW st, Shape(st), NEW resolved, NEW x \in Message
  PROVE  LET f == Flush(st, resolved)
             s == Say(st, resolved, x)
         IN  /\ Shape(s) /\ s.pending = <<>> /\ s.told = st.told
             /\ Len(s.messages) = Len(f.messages) + 1
             /\ s.messages[Len(f.messages) + 1] = x
             /\ \A k \in 1..Len(f.messages) : s.messages[k] = f.messages[k]
  <1> DEFINE f == Flush(st, resolved)
             s == Say(st, resolved, x)
  <1>1. Shape(f) /\ f.pending = <<>> /\ f.told = st.told
    BY FlushFacts
  <1>2. s = [f EXCEPT !.messages = Append(@, x)]
    BY DEF Say
  <1> HIDE DEF f
  <1>3. s = [messages |-> Append(f.messages, x), pending |-> f.pending, told |-> f.told]
    BY <1>1, <1>2 DEF Shape
  <1> HIDE DEF s
  <1>4. /\ Append(f.messages, x) \in Seq(Message)
        /\ Len(Append(f.messages, x)) = Len(f.messages) + 1
        /\ Append(f.messages, x)[Len(f.messages) + 1] = x
        /\ \A k \in 1..Len(f.messages) : Append(f.messages, x)[k] = f.messages[k]
    BY <1>1, AppendProperties DEF Shape
  <1> QED BY <1>1, <1>3, <1>4 DEF f, s, Shape

\* Either all of a call's events are replaced or none.
LEMMA PairFacts ==
  ASSUME NEW l \in Seq(Event), Grouped(l), NEW p \in 1..Len(l), NEW j \in 1..Len(l), Pair(l, p, j)
  PROVE  p < j /\ Burst(l, p, j) /\ \A k \in p..j : Bare(l, k) <=> Bare(l, p)
  <1>1. p < j /\ Burst(l, p, j) /\ Uncut(l, p, j) /\ Len(l) \in Nat
    BY LenProperties DEF Grouped
  <1>2. \A k \in Compactions(l) : l[k].from \in Nat /\ l[k].to \in Nat
    BY ElementOfSeq, EventFacts DEF Compactions
  <1>3. ASSUME NEW k \in p..j PROVE Covering(l, k) = Covering(l, p)
    <2>1. ASSUME NEW c \in Compactions(l)
          PROVE  (l[c].from <= k /\ k <= l[c].to) <=> (l[c].from <= p /\ p <= l[c].to)
      <3>1. l[c].to \notin p..(j - 1) /\ l[c].from \notin (p + 1)..j
        BY <1>1 DEF Uncut
      <3> QED BY <1>1, <1>2, <3>1
    <2> QED BY <2>1 DEF Covering
  <1> QED BY <1>1, <1>3 DEF Bare

\* The result of a pending call is still to come.
LEMMA PendingFacts ==
  ASSUME NEW l \in Seq(Event), Grouped(l), NEW i \in 0..Len(l), NEW st, PendingWait(l, i, st),
         NEW c \in ToSet(st.pending), NEW j \in 1..Len(l), l[j].kind = "result", l[j].call = c
  PROVE  \E p \in 1..i : Due(l, i, p, j) /\ l[p].call = c /\ ~Begun(l, i, p)
  <1>0. Len(l) \in Nat
    BY LenProperties
  <1>1. PICK p \in 1..i : l[p].kind = "request" /\ l[p].call = c /\ Bare(l, p) /\ ~Begun(l, i, p)
    BY DEF PendingWait
  <1>2. p \in 1..Len(l) /\ Pair(l, p, j)
    BY <1>0, <1>1 DEF Pair
  <1>3. p < j /\ Bare(l, j)
    BY <1>0, <1>1, <1>2, PairFacts
  <1>4. j \in (i + 1)..Len(l)
    BY <1>0, <1>1, <1>3 DEF Begun
  <1> QED BY <1>1, <1>2, <1>4 DEF Due

\* While calls are pending none waits whose burst has begun to get results.
LEMMA PendingFirst ==
  ASSUME NEW l \in Seq(Event), Grouped(l), NEW i \in 0..Len(l), NEW st, PendingWait(l, i, st),
         NEW c \in ToSet(st.pending), NEW p, NEW j, Due(l, i, p, j)
  PROVE  ~Begun(l, i, p)
  <1> SUFFICES ASSUME Begun(l, i, p) PROVE FALSE
    OBVIOUS
  <1>0. Len(l) \in Nat /\ p \in 1..i /\ j \in (i + 1)..Len(l) /\ Pair(l, p, j)
    BY LenProperties DEF Due
  <1>1. PICK k \in (p + 1)..i : l[k].kind = "result" /\ Bare(l, k)
    BY DEF Begun
  <1>2. PICK q \in 1..i : l[q].kind = "request" /\ ~Begun(l, i, q)
    BY DEF PendingWait
  <1>3. k < q
    <2> SUFFICES ASSUME ~(k < q) PROVE FALSE
      OBVIOUS
    <2>1. k \in (q + 1)..i
      BY <1>0, <1>1, <1>2
    <2> QED BY <1>1, <1>2, <2>1 DEF Begun
  <1>4. Burst(l, p, j)
    BY <1>0, PairFacts
  <1>5. k \in p..j /\ q \in p..j
    BY <1>0, <1>1, <1>2, <1>3
  <1> QED BY <1>1, <1>2, <1>3, <1>4, <1>5 DEF Burst

\* Only one message is open.
LEMMA OpenUnique ==
  ASSUME NEW m, Len(m) \in Nat, NEW u \in 1..Len(m), NEW v \in 1..Len(m), Open(m, u), Open(m, v)
  PROVE  u = v
  <1>1. ASSUME NEW x \in 1..Len(m), NEW y \in 1..Len(m), Open(m, x), Open(m, y) PROVE ~(x < y)
    BY <1>1 DEF Open
  <1>2. ~(u < v) /\ ~(v < u)
    BY <1>1
  <1> QED BY <1>2

\* Every message of tool uses has all its answers.
Complete(m) ==
  \A u \in 1..Len(m) : m[u].role = "uses" => \A c \in ToSet(m[u].calls) : Answered(m, u, c)

\* Nothing is due and the pending calls are flushed: all are answered.
LEMMA QuietFlush ==
  ASSUME NEW l \in Seq(Event), Grouped(l), Settled(l), NEW i \in 0..Len(l), NEW st, Fold(l, i, st),
         \A p, j \in 1..Len(l) : ~Due(l, i, p, j)
  PROVE  LET w == Flush(st, resolvedCallIds(l)).messages IN Orderly(w) /\ Complete(w)
  <1> DEFINE m == st.messages
             f == Flush(st, resolvedCallIds(l))
             w == f.messages
             n == Len(m)
  <1>0. /\ Shape(st) /\ Orderly(m) /\ PendingWait(l, i, st) /\ LacksAreDue(l, i, m)
        /\ m \in Seq(Message) /\ st.pending \in Seq(Calls) /\ Len(l) \in Nat
    BY LenProperties DEF Fold, Shape
  <1>1. Complete(m)
    BY <1>0 DEF LacksAreDue, Complete
  <1>2. CASE st.pending = <<>>
    <2>1. w = m
      BY <1>0, <1>2, FlushFacts
    <2> QED BY <1>0, <1>1, <2>1
  <1>3. CASE st.pending # <<>>
    <2>1. /\ w \in Seq(Message) /\ n \in Nat /\ Len(w) \in Nat /\ n + 1 <= Len(w)
          /\ \A k \in 1..n : w[k] = m[k]
          /\ w[n + 1] = ToolUses(st.pending)
          /\ \A k \in (n + 2)..Len(w) : \E c \in ToSet(st.pending) : w[k] = ToolResult(c)
          /\ \A c \in ToSet(st.pending) \ resolvedCallIds(l) :
               \E k \in (n + 2)..Len(w) : w[k] = ToolResult(c)
      BY <1>0, <1>3, FlushFacts DEF Shape
    <2> HIDE DEF f, n, m
    <2>2. ToSet(st.pending) \cap resolvedCallIds(l) = {}
      <3> SUFFICES ASSUME NEW c \in ToSet(st.pending), c \in resolvedCallIds(l) PROVE FALSE
        OBVIOUS
      <3>1. PICK k \in 1..Len(l) : l[k].kind \in {"result", "denied"} /\ l[k].call = c
        BY DEF resolvedCallIds
      <3>2. PICK j \in 1..Len(l) : l[j].kind = "result" /\ l[j].call = c
        BY <3>1 DEF Settled
      <3>3. PICK p \in 1..i : Due(l, i, p, j)
        BY <1>0, <3>2, PendingFacts
      <3>4. p \in 1..Len(l)
        BY <1>0, <3>3
      <3> QED BY <3>3, <3>4
    <2>3. Open(w, n + 1) /\ Answers(w, n + 1) = (n + 2)..Len(w) /\ w[n + 1].calls = st.pending
          /\ w[n + 1].role = "uses"
      <3>1. \A k \in (n + 2)..Len(w) : w[k].role = "result" /\ w[k].call \in ToSet(st.pending)
        BY <2>1, MessageFacts
      <3>2. w[n + 1].calls = st.pending /\ w[n + 1].role = "uses"
        BY <2>1, MessageFacts
      <3> QED BY <2>1, <3>1, <3>2 DEF Open, Answers
    <2>4. Orderly(w)
      <3> SUFFICES ASSUME NEW j \in 1..Len(w), w[j].role = "result"
                   PROVE  \E u \in 1..(j - 1) : w[u].role = "uses" /\ j \in Answers(w, u)
        BY DEF Orderly
      <3>1. CASE j \in 1..n
        <4>1. n <= Len(w)
          BY <2>1
        <4> QED BY <1>0, <2>1, <3>1, <4>1, MoreMessages DEF n
      <3>2. CASE j \in (n + 2)..Len(w)
        <4>1. n + 1 \in 1..(j - 1)
          BY <2>1, <3>2
        <4> QED BY <2>3, <3>2, <4>1
      <3>3. CASE j = n + 1
        BY <2>3, <3>3
      <3> QED BY <2>1, <3>1, <3>2, <3>3
    <2>5. Complete(w)
      <3> SUFFICES ASSUME NEW u \in 1..Len(w), w[u].role = "uses", NEW c \in ToSet(w[u].calls)
                   PROVE  Answered(w, u, c)
        BY DEF Complete
      <3>1. CASE u \in 1..n
        <4>1. n <= Len(w)
          BY <2>1
        <4>2. Answered(m, u, c)
          BY <1>1, <2>1, <3>1 DEF Complete, n
        <4> QED BY <1>0, <2>1, <3>1, <4>1, <4>2, MoreMessages DEF n
      <3>2. CASE u = n + 1
        <4>1. PICK k \in (n + 2)..Len(w) : w[k] = ToolResult(c)
          BY <2>1, <2>2, <2>3, <3>2
        <4>2. k \in Answers(w, u) /\ w[k].call = c
          BY <2>3, <3>2, <4>1, MessageFacts
        <4> QED BY <4>2 DEF Answered
      <3>3. CASE u \in (n + 2)..Len(w)
        BY <2>1, <3>3, MessageFacts
      <3> QED BY <2>1, <3>1, <3>2, <3>3
    <2> QED BY <2>4, <2>5 DEF f
  <1> QED BY <1>2, <1>3

\* What one more event makes of what is due and begun.
LEMMA DueFacts ==
  ASSUME NEW l \in Seq(Event), Grouped(l), NEW i \in 1..Len(l)
  PROVE  /\ \A p, j \in 1..Len(l) : Due(l, i, p, j) /\ p # i => Due(l, i - 1, p, j)
         /\ \A p, j \in 1..Len(l) : Due(l, i - 1, p, j) /\ j # i => Due(l, i, p, j)
         /\ \A p \in 1..Len(l) : Due(l, i - 1, p, i) => l[i].kind = "result" /\ Bare(l, i)
         /\ \A p \in 1..Len(l) : Begun(l, i - 1, p) => Begun(l, i, p)
         /\ \A p \in 1..Len(l) : Begun(l, i, p) =>
              Begun(l, i - 1, p) \/ (l[i].kind = "result" /\ Bare(l, i))
         /\ i \in Nat /\ i - 1 \in 0..Len(l) /\ Len(l) \in Nat
  <1>0. Len(l) \in Nat /\ i \in Nat /\ i - 1 \in 0..Len(l)
    BY LenProperties
  <1>1. ASSUME NEW p \in 1..Len(l), NEW j \in 1..Len(l), Due(l, i, p, j), p # i
        PROVE  Due(l, i - 1, p, j)
    BY <1>0, <1>1 DEF Due
  <1>2. ASSUME NEW p \in 1..Len(l), NEW j \in 1..Len(l), Due(l, i - 1, p, j), j # i
        PROVE  Due(l, i, p, j)
    BY <1>0, <1>2 DEF Due
  <1>3. ASSUME NEW p \in 1..Len(l), Due(l, i - 1, p, i)
        PROVE  l[i].kind = "result" /\ Bare(l, i)
    <2>1. Pair(l, p, i) /\ Bare(l, p)
      BY <1>3 DEF Due
    <2>2. p < i /\ \A k \in p..i : Bare(l, k) <=> Bare(l, p)
      BY <2>1, PairFacts
    <2>3. i \in p..i
      BY <1>0, <2>2
    <2> QED BY <2>1, <2>2, <2>3 DEF Pair
  <1>4. ASSUME NEW p \in 1..Len(l), Begun(l, i - 1, p) PROVE Begun(l, i, p)
    <2>1. PICK k \in (p + 1)..(i - 1) : l[k].kind = "result" /\ Bare(l, k)
      BY <1>4 DEF Begun
    <2>2. k \in (p + 1)..i
      BY <1>0, <2>1
    <2> QED BY <2>1, <2>2 DEF Begun
  <1>5. ASSUME NEW p \in 1..Len(l), Begun(l, i, p), ~(l[i].kind = "result" /\ Bare(l, i))
        PROVE  Begun(l, i - 1, p)
    <2>1. PICK k \in (p + 1)..i : l[k].kind = "result" /\ Bare(l, k)
      BY <1>5 DEF Begun
    <2>2. k \in (p + 1)..(i - 1)
      BY <1>0, <1>5, <2>1
    <2> QED BY <2>1, <2>2 DEF Begun
  <1> QED BY <1>0, <1>1, <1>2, <1>3, <1>4, <1>5

\* An event that is no request and no result, or is replaced, leaves what is
\* due as it is.
LEMMA FoldStill ==
  ASSUME NEW l \in Seq(Event), Grouped(l), NEW i \in 1..Len(l), NEW st, Fold(l, i - 1, st),
         l[i].kind \notin {"request", "result"} \/ ~Bare(l, i)
  PROVE  Fold(l, i, st)
  <1>0. i \in Nat /\ Len(l) \in Nat /\ i - 1 \in 0..Len(l)
    BY DueFacts
  <1>1. \A p \in 1..Len(l) : Begun(l, i, p) <=> Begun(l, i - 1, p)
    BY DueFacts
  <1>2. \A p, j \in 1..Len(l) : Due(l, i, p, j) <=> Due(l, i - 1, p, j)
    <2>1. ASSUME NEW p \in 1..Len(l), NEW j \in 1..Len(l), Due(l, i, p, j) PROVE p # i
      BY <2>1 DEF Due, Pair
    <2>2. ASSUME NEW p \in 1..Len(l), NEW j \in 1..Len(l), Due(l, i - 1, p, j) PROVE j # i
      BY <2>2, DueFacts DEF Due, Pair
    <2> QED BY <2>1, <2>2, DueFacts
  <1>3. PendingWait(l, i, st)
    <2> SUFFICES ASSUME NEW c \in ToSet(st.pending)
                 PROVE  \E p \in 1..i : /\ l[p].kind = "request" /\ l[p].call = c /\ Bare(l, p)
                                        /\ ~Begun(l, i, p)
      BY DEF PendingWait
    <2>1. PICK p \in 1..(i - 1) : /\ l[p].kind = "request" /\ l[p].call = c /\ Bare(l, p)
                                  /\ ~Begun(l, i - 1, p)
      BY DEF Fold, PendingWait
    <2>2. p \in 1..i /\ p \in 1..Len(l)
      BY <1>0, <2>1
    <2> QED BY <1>1, <2>1, <2>2
  <1>4. LacksAreDue(l, i, st.messages)
    <2> SUFFICES ASSUME NEW u \in 1..Len(st.messages), st.messages[u].role = "uses",
                        NEW c \in ToSet(st.messages[u].calls), ~Answered(st.messages, u, c)
                 PROVE  /\ Open(st.messages, u)
                        /\ \E p, j \in 1..Len(l) : Due(l, i, p, j) /\ l[p].call = c /\ Begun(l, i, p)
      BY DEF LacksAreDue
    <2>1. /\ Open(st.messages, u)
          /\ \E p, j \in 1..Len(l) : Due(l, i - 1, p, j) /\ l[p].call = c /\ Begun(l, i - 1, p)
      BY DEF Fold, LacksAreDue
    <2> QED BY <1>1, <1>2, <2>1
  <1>5. DueAreExpected(l, i, st)
    BY <1>1, <1>2 DEF Fold, DueAreExpected
  <1> QED BY <1>3, <1>4, <1>5 DEF Fold

\* Nothing is due at an event that is replaced, or is none of a call.
LEMMA NothingDue ==
  ASSUME NEW l \in Seq(Event), Grouped(l), NEW i \in 1..Len(l),
         ~Bare(l, i) \/ l[i].kind \notin OfCalls
  PROVE  \A p, j \in 1..Len(l) : ~Due(l, i - 1, p, j) /\ ~Due(l, i, p, j)
  <1>0. i \in Nat /\ Len(l) \in Nat
    BY DueFacts
  <1>1. ASSUME NEW p \in 1..Len(l), NEW j \in 1..Len(l), Due(l, i - 1, p, j) \/ Due(l, i, p, j)
        PROVE  FALSE
    <2>1. Pair(l, p, j) /\ Bare(l, p) /\ i \in p..j
      BY <1>0, <1>1 DEF Due
    <2>2. Burst(l, p, j) /\ \A k \in p..j : Bare(l, k) <=> Bare(l, p)
      BY <2>1, PairFacts
    <2> QED BY <2>1, <2>2 DEF Burst
  <1> QED BY <1>1

\* There a message may be said.
LEMMA FoldSay ==
  ASSUME NEW l \in Seq(Event), Grouped(l), Settled(l), NEW i \in 1..Len(l),
         NEW st, Fold(l, i - 1, st), ~Bare(l, i) \/ l[i].kind \notin OfCalls,
         NEW x \in Message, x.role \notin {"uses", "result"},
         NEW s, Shape(s), s.pending = <<>>, s.messages = Say(st, resolvedCallIds(l), x).messages
  PROVE  Fold(l, i, s)
  <1> DEFINE w == Flush(st, resolvedCallIds(l)).messages
             n == Len(w)
             m == s.messages
  <1>0. Shape(st) /\ i - 1 \in 0..Len(l)
    BY DueFacts DEF Fold
  <1>1. Orderly(w) /\ Complete(w)
    BY <1>0, NothingDue, QuietFlush
  <1>2. /\ w \in Seq(Message) /\ n \in Nat
        /\ m \in Seq(Message) /\ Len(m) = n + 1 /\ m[n + 1] = x /\ \A k \in 1..n : m[k] = w[k]
    <2>1. w \in Seq(Message) /\ n \in Nat
      BY <1>0, FlushFacts DEF Shape
    <2>2. LET f == Flush(st, resolvedCallIds(l))
              g == Say(st, resolvedCallIds(l), x)
          IN  /\ Len(g.messages) = Len(f.messages) + 1
              /\ g.messages[Len(f.messages) + 1] = x
              /\ \A k \in 1..Len(f.messages) : g.messages[k] = f.messages[k]
      BY <1>0, SayFacts
    <2> QED BY <2>1, <2>2 DEF Shape
  <1> HIDE DEF w, n, m
  <1>3. Orderly(m)
    <2> SUFFICES ASSUME NEW j \in 1..Len(m), m[j].role = "result"
                 PROVE  \E u \in 1..(j - 1) : m[u].role = "uses" /\ j \in Answers(m, u)
      BY DEF Orderly
    <2>1. j \in 1..n /\ n <= Len(m)
      BY <1>2
    <2> QED BY <1>1, <1>2, <2>1, MoreMessages DEF n
  <1>4. Complete(m)
    <2> SUFFICES ASSUME NEW u \in 1..Len(m), m[u].role = "uses", NEW c \in ToSet(m[u].calls)
                 PROVE  Answered(m, u, c)
      BY DEF Complete
    <2>1. u \in 1..n /\ n <= Len(m) /\ m[u] = w[u]
      BY <1>2
    <2>2. Answered(w, u, c)
      BY <1>1, <2>1 DEF Complete, n
    <2> QED BY <1>2, <2>1, <2>2, MoreMessages DEF n
  <1>5. LacksAreDue(l, i, m)
    BY <1>4 DEF Complete, LacksAreDue
  <1>6. DueAreExpected(l, i, s)
    BY NothingDue DEF DueAreExpected
  <1>7. PendingWait(l, i, s)
    BY DEF PendingWait, ToSet
  <1> QED BY <1>3, <1>5, <1>6, <1>7 DEF Fold, m

\* A request joins the pending calls.
LEMMA FoldRequest ==
  ASSUME NEW l \in Seq(Event), Grouped(l), NEW i \in 1..Len(l), NEW st, Fold(l, i - 1, st),
         l[i].kind = "request", Bare(l, i)
  PROVE  Fold(l, i, [st EXCEPT !.pending = Append(@, l[i].call)])
  <1> DEFINE c0 == l[i].call
             s == [st EXCEPT !.pending = Append(@, c0)]
             m == st.messages
  <1>0. i \in Nat /\ Len(l) \in Nat /\ i - 1 \in 0..Len(l)
    BY DueFacts
  <1>1. c0 \in Calls /\ Shape(st)
    BY ElementOfSeq, EventFacts DEF Fold
  <1> HIDE DEF c0
  <1>2. s = [messages |-> m, pending |-> Append(st.pending, c0), told |-> st.told]
    <2>1. st = [messages |-> st.messages, pending |-> st.pending, told |-> st.told]
      BY <1>1 DEF Shape
    <2>2. s = [st EXCEPT !.pending = Append(st.pending, c0)]
      BY <2>1
    <2> HIDE DEF s
    <2> QED BY <2>1, <2>2, Zenon
  <1>3. /\ Append(st.pending, c0) \in Seq(Calls)
        /\ ToSet(Append(st.pending, c0)) = ToSet(st.pending) \cup {c0}
    <2>1. /\ Append(st.pending, c0) \in Seq(Calls) /\ Len(st.pending) \in Nat
          /\ Len(Append(st.pending, c0)) = Len(st.pending) + 1
          /\ Append(st.pending, c0)[Len(st.pending) + 1] = c0
          /\ \A k \in 1..Len(st.pending) : Append(st.pending, c0)[k] = st.pending[k]
      BY <1>1, AppendProperties, LenProperties DEF Shape
    <2>2. /\ ToSet(st.pending) = {st.pending[k] : k \in 1..Len(st.pending)}
          /\ ToSet(Append(st.pending, c0)) = {Append(st.pending, c0)[k] : k \in 1..(Len(st.pending) + 1)}
      BY <1>1, <2>1, LenProperties DEF ToSet, Shape
    <2> QED BY <2>1, <2>2
  <1>4. s.messages = m /\ s.pending = Append(st.pending, c0) /\ Shape(s)
    BY <1>1, <1>2, <1>3 DEF Shape
  <1> HIDE DEF s
  <1>5. \A p \in 1..Len(l) : Begun(l, i, p) <=> Begun(l, i - 1, p)
    BY DueFacts
  <1>6. PendingWait(l, i, s)
    <2> SUFFICES ASSUME NEW c \in ToSet(st.pending) \cup {c0}
                 PROVE  \E p \in 1..i : /\ l[p].kind = "request" /\ l[p].call = c /\ Bare(l, p)
                                        /\ ~Begun(l, i, p)
      BY <1>3, <1>4 DEF PendingWait
    <2>1. CASE c = c0
      <3>1. ~Begun(l, i, i)
        BY <1>0 DEF Begun
      <3> QED BY <1>0, <2>1, <3>1 DEF c0
    <2>2. CASE c \in ToSet(st.pending)
      <3>1. PICK p \in 1..(i - 1) : /\ l[p].kind = "request" /\ l[p].call = c /\ Bare(l, p)
                                    /\ ~Begun(l, i - 1, p)
        BY <2>2 DEF Fold, PendingWait
      <3>2. p \in 1..i /\ p \in 1..Len(l)
        BY <1>0, <3>1
      <3> QED BY <1>5, <3>1, <3>2
    <2> QED BY <2>1, <2>2
  <1>7. LacksAreDue(l, i, m)
    <2> SUFFICES ASSUME NEW u \in 1..Len(m), m[u].role = "uses", NEW c \in ToSet(m[u].calls),
                        ~Answered(m, u, c)
                 PROVE  /\ Open(m, u)
                        /\ \E p, j \in 1..Len(l) : Due(l, i, p, j) /\ l[p].call = c /\ Begun(l, i, p)
      BY DEF LacksAreDue
    <2>1. Open(m, u)
      BY DEF Fold, LacksAreDue
    <2>2. PICK p \in 1..Len(l), j \in 1..Len(l) :
            Due(l, i - 1, p, j) /\ l[p].call = c /\ Begun(l, i - 1, p)
      BY DEF Fold, LacksAreDue
    <2>3. Due(l, i, p, j)
      BY <2>2, DueFacts
    <2> QED BY <1>5, <2>1, <2>2, <2>3
  <1>8. DueAreExpected(l, i, s)
    <2> SUFFICES ASSUME NEW p \in 1..Len(l), NEW j \in 1..Len(l), Due(l, i, p, j)
                 PROVE  \/ l[p].call \in ToSet(st.pending) \cup {c0}
                        \/ /\ Begun(l, i, p)
                           /\ \E u \in 1..Len(m) : Open(m, u) /\ l[p].call \in ToSet(m[u].calls)
      BY <1>3, <1>4 DEF DueAreExpected
    <2>1. CASE p = i
      BY <2>1 DEF c0
    <2>2. CASE p # i
      <3>1. Due(l, i - 1, p, j)
        BY <2>2, DueFacts
      <3> QED BY <1>5, <3>1 DEF Fold, DueAreExpected
    <2> QED BY <2>1, <2>2
  <1> QED BY <1>4, <1>6, <1>7, <1>8 DEF Fold, s, c0

\* The messages of a result: what is flushed, then the result.
LEMMA FoldResult ==
  ASSUME NEW l \in Seq(Event), Grouped(l), Settled(l), NEW i \in 1..Len(l),
         NEW st, Fold(l, i - 1, st), l[i].kind = "result", Bare(l, i)
  PROVE  Fold(l, i, Say(st, resolvedCallIds(l), ToolResult(l[i].call)))
  <1> DEFINE c0 == l[i].call
             x == ToolResult(c0)
             f == Flush(st, resolvedCallIds(l))
             s == Say(st, resolvedCallIds(l), x)
             m == st.messages
             w == s.messages
             n == Len(m)
  <1>0. /\ i \in Nat /\ Len(l) \in Nat /\ i - 1 \in 0..Len(l)
        /\ Shape(st) /\ Orderly(m) /\ PendingWait(l, i - 1, st) /\ LacksAreDue(l, i - 1, m)
        /\ DueAreExpected(l, i - 1, st) /\ m \in Seq(Message) /\ st.pending \in Seq(Calls)
        /\ n \in Nat
    BY DueFacts, LenProperties DEF Fold, Shape
  <1>1. c0 \in Calls /\ x \in Message /\ x.role = "result" /\ x.call = c0
    <2>1. c0 \in Calls
      BY ElementOfSeq, EventFacts
    <2> HIDE DEF c0
    <2> QED BY <2>1, MessageFacts
  <1>2. PICK p0 \in 1..Len(l) : Due(l, i - 1, p0, i) /\ l[p0].call = c0
    <2>1. PICK p \in 1..(i - 1) : Pair(l, p, i)
      BY DEF Grouped
    <2>2. p \in 1..Len(l)
      BY <1>0, <2>1
    <2>3. Bare(l, p)
      <3>1. i \in p..i
        BY <1>0, <2>1
      <3> QED BY <2>1, <2>2, <3>1, PairFacts
    <2>4. i \in (i - 1 + 1)..Len(l)
      BY <1>0
    <2> QED BY <2>1, <2>2, <2>3, <2>4 DEF Due, Pair
  <1>3. \A p \in 1..Len(l), j \in 1..Len(l) : Due(l, i, p, j) => Due(l, i - 1, p, j)
    BY DueFacts DEF Due, Pair
  <1>4. \A p \in 1..Len(l), j \in 1..Len(l) : Due(l, i - 1, p, j) => Begun(l, i, p)
    <2> SUFFICES ASSUME NEW p \in 1..Len(l), NEW j \in 1..Len(l), Due(l, i - 1, p, j)
                 PROVE  Begun(l, i, p)
      OBVIOUS
    <2>1. i \in (p + 1)..i
      BY <1>0 DEF Due
    <2> QED BY <2>1 DEF Begun
  <1>5. /\ Shape(s) /\ s.pending = <<>> /\ w \in Seq(Message) /\ Len(w) \in Nat
        /\ Len(w) = Len(f.messages) + 1 /\ w[Len(f.messages) + 1] = x
        /\ \A k \in 1..Len(f.messages) : w[k] = f.messages[k]
        /\ Len(f.messages) \in Nat /\ n <= Len(f.messages)
    <2>1. Len(f.messages) \in Nat /\ n <= Len(f.messages)
      BY <1>0, FlushFacts
    <2>2. /\ Shape(s) /\ s.pending = <<>>
          /\ Len(w) = Len(f.messages) + 1 /\ w[Len(f.messages) + 1] = x
          /\ \A k \in 1..Len(f.messages) : w[k] = f.messages[k]
      <3> HIDE DEF x
      <3> QED BY <1>0, <1>1, SayFacts
    <2> QED BY <2>1, <2>2 DEF Shape
  <1>6. PendingWait(l, i, s)
    BY <1>5 DEF PendingWait, ToSet
  \* Nothing is pending: the result follows the open message.
  <1>7. CASE st.pending = <<>>
    <2>1. f.messages = m
      BY <1>0, <1>7, FlushFacts
    <2> HIDE DEF f, x, s, m, n
    <2>2. Len(w) = n + 1 /\ w[n + 1] = x /\ \A k \in 1..n : w[k] = m[k]
      BY <1>5, <2>1 DEF n
    <2>3. PICK u0 \in 1..n : Open(m, u0) /\ c0 \in ToSet(m[u0].calls)
      <3>1. ToSet(st.pending) = {}
        BY <1>7 DEF ToSet
      <3> QED BY <1>0, <1>2, <3>1 DEF DueAreExpected, n, m
    <2> HIDE DEF c0
    <2>4. Open(w, u0) /\ n + 1 \in Answers(w, u0) /\ w[u0] = m[u0]
      <3>1. w[u0] = m[u0]
        BY <2>2, <2>3
      <3>2. \A k \in (u0 + 1)..(n + 1) : w[k].role = "result" /\ w[k].call \in ToSet(m[u0].calls)
        <4> SUFFICES ASSUME NEW k \in (u0 + 1)..(n + 1)
                     PROVE  w[k].role = "result" /\ w[k].call \in ToSet(m[u0].calls)
          OBVIOUS
        <4>1. CASE k = n + 1
          BY <1>1, <2>2, <2>3, <4>1
        <4>2. CASE k # n + 1
          <5>1. k \in (u0 + 1)..n /\ k \in 1..n
            BY <1>0, <2>3, <4>2
          <5> QED BY <2>2, <2>3, <5>1 DEF Open, n
        <4> QED BY <4>1, <4>2
      <3>3. n + 1 \in (u0 + 1)..Len(w) /\ Len(w) = n + 1
        BY <1>0, <2>2, <2>3
      <3> QED BY <2>3, <3>1, <3>2, <3>3 DEF Open, Answers
    <2>5. n <= Len(w)
      BY <1>0, <2>2
    <2>6. Orderly(w)
      <3> SUFFICES ASSUME NEW j \in 1..Len(w), w[j].role = "result"
                   PROVE  \E u \in 1..(j - 1) : w[u].role = "uses" /\ j \in Answers(w, u)
        BY DEF Orderly
      <3>1. CASE j \in 1..n
        BY <1>0, <1>5, <2>2, <2>5, <3>1, MoreMessages DEF n
      <3>2. CASE j = n + 1
        <4>1. u0 \in 1..(j - 1) /\ w[u0].role = "uses"
          BY <1>0, <2>3, <2>4, <3>2 DEF Open
        <4> QED BY <2>4, <3>2, <4>1
      <3> QED BY <1>0, <2>2, <3>1, <3>2
    <2>7. LacksAreDue(l, i, w)
      <3> SUFFICES ASSUME NEW u \in 1..Len(w), w[u].role = "uses", NEW c \in ToSet(w[u].calls),
                          ~Answered(w, u, c)
                   PROVE  /\ Open(w, u)
                          /\ \E p, j \in 1..Len(l) :
                               Due(l, i, p, j) /\ l[p].call = c /\ Begun(l, i, p)
        BY DEF LacksAreDue
      <3>1. u \in 1..n /\ w[u] = m[u]
        BY <1>0, <1>1, <2>2
      <3>2. ~Answered(m, u, c)
        BY <1>0, <1>5, <2>2, <2>5, <3>1, MoreMessages DEF n
      <3>3. /\ Open(m, u)
            /\ \E p, j \in 1..Len(l) : Due(l, i - 1, p, j) /\ l[p].call = c /\ Begun(l, i - 1, p)
        BY <1>0, <3>1, <3>2 DEF LacksAreDue, n
      <3>4. u = u0
        BY <1>0, <2>3, <3>1, <3>3, OpenUnique DEF n
      <3>5. PICK p \in 1..Len(l), j \in 1..Len(l) : Due(l, i - 1, p, j) /\ l[p].call = c
        BY <3>3
      <3>6. j # i
        <4> SUFFICES ASSUME j = i PROVE FALSE
          OBVIOUS
        <4>1. c = c0
          BY <3>5 DEF Due, Pair, c0
        <4> QED BY <1>1, <2>2, <2>4, <3>4, <4>1 DEF Answered
      <3>7. Due(l, i, p, j)
        BY <3>5, <3>6, DueFacts
      <3> QED BY <1>4, <2>4, <3>4, <3>5, <3>7
    <2>8. DueAreExpected(l, i, s)
      <3> SUFFICES ASSUME NEW p \in 1..Len(l), NEW j \in 1..Len(l), Due(l, i, p, j)
                   PROVE  /\ Begun(l, i, p)
                          /\ \E u \in 1..Len(w) : Open(w, u) /\ l[p].call \in ToSet(w[u].calls)
        BY DEF DueAreExpected
      <3>1. Due(l, i - 1, p, j) /\ Begun(l, i, p)
        BY <1>3, <1>4
      <3>2. PICK u \in 1..n : Open(m, u) /\ l[p].call \in ToSet(m[u].calls)
        <4>1. ToSet(st.pending) = {}
          BY <1>7 DEF ToSet
        <4> QED BY <1>0, <3>1, <4>1 DEF DueAreExpected, n, m
      <3>3. u = u0
        BY <1>0, <2>3, <3>2, OpenUnique DEF n
      <3>4. u0 \in 1..Len(w)
        BY <1>0, <2>2, <2>3
      <3> QED BY <2>4, <3>1, <3>2, <3>3, <3>4
    <2> QED BY <1>5, <1>6, <2>6, <2>7, <2>8 DEF Fold, s, x, c0
  \* The pending calls are flushed, and this is the first result of theirs.
  <1>8. CASE st.pending # <<>>
    <2>0. PICK c1 : c1 \in ToSet(st.pending)
      <3>1. Len(st.pending) # 0 /\ Len(st.pending) \in Nat
        BY <1>0, <1>8, EmptySeq, LenProperties
      <3>2. 1 \in 1..Len(st.pending)
        BY <3>1
      <3>3. 1 \in DOMAIN st.pending
        BY <1>0, <3>2, LenProperties
      <3> QED BY <3>3 DEF ToSet
    <2>1. \A p \in 1..Len(l), j \in 1..Len(l) : Due(l, i - 1, p, j) => ~Begun(l, i - 1, p)
      BY <1>0, <2>0, PendingFirst
    <2>2. Complete(m)
      BY <1>0, <2>1 DEF LacksAreDue, Complete
    <2>3. \A p \in 1..Len(l), j \in 1..Len(l) : Due(l, i - 1, p, j) => l[p].call \in ToSet(st.pending)
      BY <1>0, <2>1 DEF DueAreExpected
    <2>4. c0 \in ToSet(st.pending)
      BY <1>2, <2>3
    <2>5. LET g == Flush(st, resolvedCallIds(l)).messages IN
          /\ n + 1 <= Len(g) /\ g[n + 1] = ToolUses(st.pending)
          /\ \A k \in 1..n : g[k] = m[k]
          /\ \A k \in (n + 2)..Len(g) : \E c \in ToSet(st.pending) : g[k] = ToolResult(c)
          /\ \A c \in ToSet(st.pending) \ resolvedCallIds(l) :
               \E k \in (n + 2)..Len(g) : g[k] = ToolResult(c)
      BY <1>0, <1>8, FlushFacts
    <2> DEFINE g == f.messages
               N == Len(g) + 1
    <2>6. /\ n + 2 <= N /\ Len(w) = N /\ N \in Nat /\ w[N] = x
          /\ w[n + 1] = ToolUses(st.pending)
          /\ \A k \in 1..n : w[k] = m[k]
          /\ \A k \in (n + 2)..N : \E c \in ToSet(st.pending) : w[k] = ToolResult(c)
          /\ \A c \in ToSet(st.pending) \ resolvedCallIds(l) :
               \E k \in (n + 2)..N : w[k] = ToolResult(c)
      <3> HIDE DEF g, n, m, s
      <3>1. /\ n + 1 <= Len(g) /\ g[n + 1] = ToolUses(st.pending)
            /\ \A k \in 1..n : g[k] = m[k]
            /\ \A k \in (n + 2)..Len(g) : \E c \in ToSet(st.pending) : g[k] = ToolResult(c)
            /\ \A c \in ToSet(st.pending) \ resolvedCallIds(l) :
                 \E k \in (n + 2)..Len(g) : g[k] = ToolResult(c)
        BY <2>5 DEF g
      <3>2. Len(g) \in Nat /\ w[N] = x /\ Len(w) = N /\ \A k \in 1..Len(g) : w[k] = g[k]
        BY <1>5 DEF g
      <3>3. \A k \in (n + 2)..N : \E c \in ToSet(st.pending) : w[k] = ToolResult(c)
        <4> SUFFICES ASSUME NEW k \in (n + 2)..N
                     PROVE  \E c \in ToSet(st.pending) : w[k] = ToolResult(c)
          OBVIOUS
        <4>1. CASE k = N
          BY <2>4, <3>2, <4>1
        <4>2. CASE k # N
          <5>1. k \in (n + 2)..Len(g) /\ k \in 1..Len(g)
            BY <1>0, <3>2, <4>2
          <5> QED BY <3>1, <3>2, <5>1
        <4> QED BY <4>1, <4>2
      <3>4. \A c \in ToSet(st.pending) \ resolvedCallIds(l) :
              \E k \in (n + 2)..N : w[k] = ToolResult(c)
        <4> SUFFICES ASSUME NEW c \in ToSet(st.pending) \ resolvedCallIds(l)
                     PROVE  \E k \in (n + 2)..N : w[k] = ToolResult(c)
          OBVIOUS
        <4>1. PICK k \in (n + 2)..Len(g) : g[k] = ToolResult(c)
          BY <3>1
        <4>2. k \in (n + 2)..N /\ k \in 1..Len(g)
          BY <1>0, <3>2, <4>1
        <4> QED BY <3>2, <4>1, <4>2
      <3>5. w[n + 1] = ToolUses(st.pending) /\ \A k \in 1..n : w[k] = m[k]
        BY <1>0, <3>1, <3>2
      <3>6. n + 2 <= N /\ N \in Nat
        BY <1>0, <3>1, <3>2
      <3> QED BY <3>2, <3>3, <3>4, <3>5, <3>6
    <2> HIDE DEF g, N, n, m, s, f, x, c0
    <2>7. /\ Open(w, n + 1) /\ Answers(w, n + 1) = (n + 2)..N
          /\ w[n + 1].calls = st.pending /\ w[n + 1].role = "uses"
      <3>1. \A k \in (n + 2)..N : w[k].role = "result" /\ w[k].call \in ToSet(st.pending)
        BY <2>6, MessageFacts
      <3>2. w[n + 1].calls = st.pending /\ w[n + 1].role = "uses"
        BY <2>6, MessageFacts
      <3>3. n + 1 + 1 = n + 2
        BY <1>0
      <3> QED BY <2>6, <3>1, <3>2, <3>3 DEF Open, Answers
    <2>8. n <= Len(w)
      BY <1>0, <2>6
    <2>9. Orderly(w)
      <3> SUFFICES ASSUME NEW j \in 1..Len(w), w[j].role = "result"
                   PROVE  \E u \in 1..(j - 1) : w[u].role = "uses" /\ j \in Answers(w, u)
        BY DEF Orderly
      <3>1. CASE j \in 1..n
        BY <1>0, <1>5, <2>6, <2>8, <3>1, MoreMessages DEF n
      <3>2. CASE j \in (n + 2)..N
        <4>1. n + 1 \in 1..(j - 1)
          BY <1>0, <3>2
        <4> QED BY <2>7, <3>2, <4>1
      <3>3. CASE j = n + 1
        BY <2>7, <3>3
      <3> QED BY <1>0, <2>6, <3>1, <3>2, <3>3
    <2>10. LacksAreDue(l, i, w)
      <3> SUFFICES ASSUME NEW u \in 1..Len(w), w[u].role = "uses", NEW c \in ToSet(w[u].calls),
                          ~Answered(w, u, c)
                   PROVE  /\ Open(w, u)
                          /\ \E p, j \in 1..Len(l) :
                               Due(l, i, p, j) /\ l[p].call = c /\ Begun(l, i, p)
        BY DEF LacksAreDue
      <3>1. ~(u \in 1..n)
        <4> SUFFICES ASSUME u \in 1..n PROVE FALSE
          OBVIOUS
        <4>1. w[u] = m[u] /\ u \in 1..Len(m)
          BY <2>6 DEF n
        <4>2. Answered(m, u, c)
          BY <2>2, <4>1 DEF Complete
        <4> QED BY <1>0, <1>5, <2>6, <2>8, <4>1, <4>2, MoreMessages DEF n
      <3>2. ~(u \in (n + 2)..N)
        BY <2>6, MessageFacts
      <3>3. u = n + 1
        BY <1>0, <2>6, <3>1, <3>2
      <3>4. c \in ToSet(st.pending)
        BY <2>7, <3>3
      <3>5. c \in resolvedCallIds(l)
        <4> SUFFICES ASSUME c \notin resolvedCallIds(l) PROVE FALSE
          OBVIOUS
        <4>1. PICK k \in (n + 2)..N : w[k] = ToolResult(c)
          BY <2>6, <3>4
        <4>2. k \in Answers(w, u) /\ w[k].call = c
          BY <2>7, <3>3, <4>1, MessageFacts
        <4> QED BY <4>2 DEF Answered
      <3>6. PICK j \in 1..Len(l) : l[j].kind = "result" /\ l[j].call = c
        <4>1. PICK k \in 1..Len(l) : l[k].kind \in {"result", "denied"} /\ l[k].call = c
          BY <3>5 DEF resolvedCallIds
        <4> QED BY <4>1 DEF Settled
      <3>7. PICK p \in 1..(i - 1) : Due(l, i - 1, p, j) /\ l[p].call = c
        <4> DEFINE i0 == i - 1
        <4>1. i0 \in 0..Len(l) /\ PendingWait(l, i0, st)
          BY <1>0
        <4> HIDE DEF i0
        <4>2. l \in Seq(Event) /\ Grouped(l)
          OBVIOUS
        <4>3. \E p \in 1..i0 : Due(l, i0, p, j) /\ l[p].call = c /\ ~Begun(l, i0, p)
          BY ONLY <3>4, <3>6, <4>1, <4>2, PendingFacts
        <4> QED BY <4>3 DEF i0
      <3>8. p \in 1..Len(l)
        BY <1>0, <3>7
      <3>9. j # i
        <4> SUFFICES ASSUME j = i PROVE FALSE
          OBVIOUS
        <4>1. c = c0
          BY <3>6 DEF c0
        <4>2. N \in Answers(w, u) /\ w[N].call = c
          BY <1>0, <1>1, <2>6, <2>7, <3>3, <4>1
        <4> QED BY <4>2 DEF Answered
      <3>10. Due(l, i, p, j)
        BY <3>7, <3>8, <3>9, DueFacts
      <3> QED BY <1>4, <2>7, <3>3, <3>7, <3>8, <3>10
    <2>11. DueAreExpected(l, i, s)
      <3> SUFFICES ASSUME NEW p \in 1..Len(l), NEW j \in 1..Len(l), Due(l, i, p, j)
                   PROVE  /\ Begun(l, i, p)
                          /\ \E u \in 1..Len(w) : Open(w, u) /\ l[p].call \in ToSet(w[u].calls)
        BY DEF DueAreExpected
      <3>1. Due(l, i - 1, p, j) /\ Begun(l, i, p)
        BY <1>3, <1>4
      <3>2. l[p].call \in ToSet(st.pending)
        BY <2>3, <3>1
      <3>3. n + 1 \in 1..Len(w)
        BY <1>0, <2>6
      <3> QED BY <2>7, <3>1, <3>2, <3>3
    <2> QED BY <1>5, <1>6, <2>9, <2>10, <2>11 DEF Fold, s, x, c0
  <1> QED BY <1>7, <1>8

\* What is done with an event.
LEMMA TakeFacts ==
  ASSUME NEW l, NEW st, NEW i
  PROVE  LET resolved == resolvedCallIds(l)
             k == Min(Covering(l, i))
             e == l[i]
         IN  /\ ~Bare(l, i) /\ k \in st.told => Take(l, st, i) = st
             /\ ~Bare(l, i) /\ k \notin st.told =>
                  Take(l, st, i) = [Say(st, resolved, Summary) EXCEPT !.told = @ \cup {k}]
             /\ Bare(l, i) /\ e.kind = "prompt" =>
                  Take(l, st, i) = Say(st, resolved, UserMessage(e.turn))
             /\ Bare(l, i) /\ e.kind = "say" => Take(l, st, i) = Say(st, resolved, Text)
             /\ Bare(l, i) /\ e.kind = "result" =>
                  Take(l, st, i) = Say(st, resolved, ToolResult(e.call))
             /\ Bare(l, i) /\ e.kind = "request" =>
                  Take(l, st, i) = [st EXCEPT !.pending = Append(@, e.call)]
             /\ Bare(l, i) /\ e.kind \notin {"prompt", "say", "result", "request"} =>
                  Take(l, st, i) = st
  BY DEF Take, Bare

\* An event keeps what is due in order.
LEMMA FoldStep ==
  ASSUME NEW l \in Seq(Event), Grouped(l), Settled(l), NEW i \in 1..Len(l),
         NEW st, Fold(l, i - 1, st)
  PROVE  Fold(l, i, Take(l, st, i))
  <1> DEFINE resolved == resolvedCallIds(l)
             k == Min(Covering(l, i))
             e == l[i]
  <1>0. Shape(st) /\ e \in Event
    BY ElementOfSeq DEF Fold
  <1>1. CASE ~Bare(l, i) /\ k \in st.told
    BY <1>1, FoldStill, TakeFacts
  <1>2. CASE ~Bare(l, i) /\ k \notin st.told
    <2> DEFINE y == Say(st, resolved, Summary)
               s == [y EXCEPT !.told = @ \cup {k}]
    <2>1. Take(l, st, i) = s
      BY <1>2, TakeFacts
    <2>2. Shape(y) /\ y.pending = <<>>
      BY <1>0, MessageFacts, SayFacts
    <2>3. s = [messages |-> y.messages, pending |-> y.pending, told |-> y.told \cup {k}]
      <3>1. s = [y EXCEPT !.told = y.told \cup {k}]
        BY <2>2 DEF Shape
      <3> HIDE DEF y, s, k
      <3> QED BY <2>2, <3>1, Zenon DEF Shape
    <2>4. Shape(s) /\ s.pending = <<>> /\ s.messages = y.messages
      <3> HIDE DEF y, s, k
      <3> QED BY <2>2, <2>3 DEF Shape
    <2> HIDE DEF s
    <2> QED BY <1>2, <2>1, <2>4, FoldSay, MessageFacts
  <1>3. ASSUME NEW x \in Message, x.role \notin {"uses", "result"}, e.kind \notin OfCalls,
               Take(l, st, i) = Say(st, resolved, x)
        PROVE  Fold(l, i, Take(l, st, i))
    BY <1>0, <1>3, FoldSay, SayFacts
  <1>4. CASE Bare(l, i) /\ e.kind = "prompt"
    <2>1. UserMessage(e.turn) \in Message /\ UserMessage(e.turn).role = "user"
      BY <1>0, EventFacts, MessageFacts
    <2>2. e.kind \notin OfCalls /\ Take(l, st, i) = Say(st, resolved, UserMessage(e.turn))
      BY <1>4, TakeFacts DEF OfCalls
    <2> QED BY <1>3, <2>1, <2>2
  <1>5. CASE Bare(l, i) /\ e.kind = "say"
    <2>1. e.kind \notin OfCalls /\ Take(l, st, i) = Say(st, resolved, Text)
      BY <1>5, TakeFacts DEF OfCalls
    <2> QED BY <1>3, <2>1, MessageFacts
  <1>6. CASE Bare(l, i) /\ e.kind = "result"
    BY <1>6, FoldResult, TakeFacts
  <1>7. CASE Bare(l, i) /\ e.kind = "request"
    BY <1>7, FoldRequest, TakeFacts
  <1>8. CASE Bare(l, i) /\ e.kind \notin {"prompt", "say", "result", "request"}
    BY <1>8, FoldStill, TakeFacts
  <1> QED BY <1>1, <1>2, <1>4, <1>5, <1>6, <1>7, <1>8

\* A log whose answered calls are kept together, and whose denied calls have
\* results, makes a conversation that a provider accepts.
LEMMA GroupedIsWellFormed ==
  ASSUME NEW l \in Seq(Event), Grouped(l), Settled(l)
  PROVE  WellFormed(projectMessages(l))
  <1> DEFINE L == Len(l)
             Bad == {i \in 0..L : ~Fold(l, i, Taken(l)[i])}
  <1>0. L \in Nat
    BY LenProperties
  <1>1. Fold(l, 0, Taken(l)[0])
    <2> DEFINE a == [messages |-> <<>>, pending |-> <<>>, told |-> {}]
    <2>1. Taken(l)[0] = a
      BY <1>0, TakenIs
    <2>2. Shape(a) /\ a.messages = <<>> /\ a.pending = <<>>
      BY DEF Shape
    <2>3. ToSet(<<>>) = {} /\ Len(<<>>) = 0
      BY DEF ToSet
    <2> HIDE DEF a
    <2>4. Orderly(a.messages) /\ PendingWait(l, 0, a) /\ LacksAreDue(l, 0, a.messages)
      BY <2>2, <2>3 DEF Orderly, PendingWait, LacksAreDue
    <2>5. DueAreExpected(l, 0, a)
      BY DEF DueAreExpected, Due
    <2> QED BY <2>1, <2>2, <2>4, <2>5 DEF Fold
  <1>2. Bad = {}
    <2> SUFFICES ASSUME Bad # {} PROVE FALSE
      OBVIOUS
    <2>1. PICK i \in Bad : \A j \in Bad : i <= j
      <3>1. Bad \in SUBSET Nat
        BY <1>0
      <3> HIDE DEF Bad
      <3> QED BY <3>1, LeastNumber
    <2>2. i \in 1..L /\ i - 1 \in 0..L /\ i - 1 \notin Bad
      BY <1>0, <1>1, <2>1
    <2>3. Taken(l)[i] = Take(l, Taken(l)[i - 1], i)
      BY <1>0, <2>2, TakenIs
    <2>4. Fold(l, i - 1, Taken(l)[i - 1])
      BY <2>2
    <2>5. Fold(l, i, Taken(l)[i])
      BY <2>2, <2>3, <2>4, FoldStep
    <2> QED BY <2>1, <2>5
  <1>3. Fold(l, L, Taken(l)[L]) /\ L \in 0..L
    BY <1>0, <1>2
  <1>4. \A p, j \in 1..L : ~Due(l, L, p, j)
    BY <1>0 DEF Due
  <1>5. Orderly(projectMessages(l)) /\ Complete(projectMessages(l))
    BY <1>3, <1>4, QuietFlush DEF projectMessages
  <1> QED BY <1>5 DEF WellFormed, Orderly, Complete, Answered

-----------------------------------------------------------------------------
(* What is sent to the provider, when turns follow one another.            *)

\* Since the first request of the response that a turn is at, the log has only
\* events of its calls, and the requests come before the results.
InHand(t) ==
  pc[t] \in Answering \cup {"requesting"} =>
    \A p \in 1..Len(log) : Is(p, "request") /\ log[p].turn = t /\ log[p].call[2] = iteration[t] =>
      /\ \A k \in p..Len(log) :
           log[k].kind \in OfCalls /\ log[k].turn = t /\ log[k].call[2] = iteration[t]
      /\ \A x, y \in p..Len(log) : x < y /\ Is(x, "result") => ~Is(y, "request")

\* A compaction begins where the log or an earlier one left off.
Chained ==
  \A k \in Compactions(log) :
    log[k].from = 1 \/ \E m \in Compactions(log) : log[k].from = log[m].to + 1

\* A call that was denied has its result, or is about to get it.
DeniedAreAnswered ==
  \A p \in 1..Len(log) : Is(p, "denied") =>
    \/ pc[log[p].turn] = "denied" /\ log[p].call = Call(log[p].turn)
    \/ \E j \in 1..Len(log) : Is(j, "result") /\ log[j].call = log[p].call

\* A response with calls has no text beside them.
Silent == \A t \in Turns : says[t] => batch[t] = <<>>

\* The inductive invariant.
Kept ==
  Grouped(log) /\ Chained /\ DeniedAreAnswered /\ Silent /\ \A t \in Turns : InHand(t)

\* The first fresh event comes right after a range, if not at the beginning.
LEMMA FreshFollows ==
  ASSUME NEW l \in Seq(Event), Backward(l)
  PROVE  FirstFresh(l) = 1 \/ \E i \in Compactions(l) : FirstFresh(l) = l[i].to + 1
  <1> DEFINE S == {0} \cup {l[i].to : i \in Compactions(l)}
  <1>1. Len(l) \in Nat /\ \A i \in Compactions(l) : l[i].to \in Nat /\ l[i].to <= Len(l)
    BY LenProperties, ElementOfSeq, EventFacts DEF Compactions, Backward
  <1>2. Max(S) \in S
    <2>1. S \in SUBSET Nat /\ S # {} /\ \A x \in S : x <= Len(l)
      BY <1>1
    <2> HIDE DEF S
    <2> QED BY <1>1, <2>1, MaxOfBounded
  <1>3. FirstFresh(l) = 1 + Max(S)
    BY DEF FirstFresh
  <1>4. Max(S) = 0 \/ \E i \in Compactions(l) : Max(S) = l[i].to
    BY <1>2
  <1> HIDE DEF S
  <1> QED BY <1>1, <1>3, <1>4

\* The last event that a compaction replaces is the last of its turn.
LEMMA LastOfItsTurn ==
  ASSUME NEW l \in Seq(Event), Backward(l), LastReplaced(l) > 0,
         NEW j \in 1..Len(l), l[j].turn = l[LastReplaced(l)].turn
  PROVE  j <= LastReplaced(l)
  <1> DEFINE S == {0} \cup {i \in FirstFresh(l)..Len(l) : l[i].turn \in Through(l)}
  <1>1. Len(l) \in Nat /\ FirstFresh(l) \in Nat \ {0} /\ FirstFresh(l) <= LastReplaced(l)
        /\ LastReplaced(l) \in Nat
    BY FirstFreshFacts, LastReplacedFacts, LenProperties
  <1>2. Max(S) \in S /\ \A x \in S : x <= Max(S)
    <2>1. S \in SUBSET Nat /\ S # {} /\ \A x \in S : x <= Len(l)
      BY <1>1
    <2> HIDE DEF S
    <2> QED BY <1>1, <2>1, MaxOfBounded
  <1>3. LastReplaced(l) = Max(S)
    BY DEF LastReplaced
  <1>4. l[LastReplaced(l)].turn \in Through(l)
    BY <1>2, <1>3
  <1>5. CASE j < FirstFresh(l)
    BY <1>1, <1>5
  <1>6. CASE ~(j < FirstFresh(l))
    <2>1. j \in FirstFresh(l)..Len(l) /\ l[j].turn \in Through(l)
      BY <1>1, <1>4, <1>6
    <2>2. j \in S
      BY <2>1
    <2> HIDE DEF S
    <2> QED BY <1>2, <1>3, <2>2
  <1> QED BY <1>5, <1>6

\* One more event leaves answered calls together: a request of a new call, a
\* result of a call in hand, a compaction that cuts no burst, or any other.
LEMMA GroupedAppend ==
  ASSUME log \in Seq(Event), Grouped(log), Chained, Compacted, NEW e \in Event, Emit(e),
         e.kind = "request" => \A j \in 1..Len(log) : ~(Is(j, "result") /\ log[j].call = e.call),
         e.kind = "result" =>
           /\ \E p \in 1..Len(log) : Is(p, "request") /\ log[p].call = e.call
           /\ \A p \in 1..Len(log) : Is(p, "request") /\ log[p].call = e.call =>
                /\ \A k \in p..Len(log) : log[k].kind \in OfCalls /\ log[k].turn = e.turn
                /\ \A x, y \in p..Len(log) : x < y /\ Is(x, "result") => ~Is(y, "request"),
         e.kind = "compaction" =>
           \A p, j \in 1..Len(log) : Pair(log, p, j) =>
             e.to \notin p..(j - 1) /\ e.from \notin (p + 1)..j
  PROVE  Grouped(log')
  <1> DEFINE L == Len(log)
  <1>1. /\ L \in Nat /\ Len(log') = L + 1 /\ log'[L + 1] = e
        /\ \A p \in 1..L : log'[p] = log[p]
    BY AppendFacts
  <1> HIDE DEF L
  <1>2. ASSUME NEW p \in 1..(L + 1), NEW j \in 1..(L + 1), Pair(log', p, j)
        PROVE  p < j /\ Burst(log', p, j) /\ Uncut(log', p, j)
    <2>1. CASE p \in 1..L /\ j \in 1..L
      <3>1. Pair(log, p, j)
        BY <1>1, <1>2, <2>1 DEF Pair
      <3>2. p < j /\ Burst(log, p, j) /\ Uncut(log, p, j)
        BY <2>1, <3>1 DEF Grouped, L
      <3>3. \A k \in p..j : k \in 1..L /\ log'[k] = log[k]
        BY <1>1, <2>1
      <3>4. Burst(log', p, j)
        <4>1. p \in p..j
          BY <2>1, <3>2
        <4> QED BY <3>2, <3>3, <4>1 DEF Burst
      <3>5. Uncut(log', p, j)
        <4> SUFFICES ASSUME NEW k \in 1..(L + 1), log'[k].kind = "compaction"
                     PROVE  log'[k].to \notin p..(j - 1) /\ log'[k].from \notin (p + 1)..j
          BY <1>1 DEF Uncut, Compactions
        <4>1. CASE k \in 1..L
          BY <1>1, <3>2, <4>1 DEF Uncut, Compactions, L
        <4>2. CASE k = L + 1
          BY <1>1, <2>1, <3>1, <4>2 DEF L
        <4> QED BY <1>1, <4>1, <4>2
      <3> QED BY <3>2, <3>4, <3>5
    <2>2. CASE p = L + 1
      <3>1. e.kind = "request" /\ log'[j].kind = "result" /\ log'[j].call = e.call
        BY <1>1, <1>2, <2>2 DEF Pair
      <3>2. j \in 1..L
        BY <1>1, <3>1
      <3> QED BY <1>1, <3>1, <3>2 DEF Is, L
    <2>3. CASE p \in 1..L /\ j = L + 1
      <3>1. e.kind = "result" /\ log[p].kind = "request" /\ log[p].call = e.call
        BY <1>1, <1>2, <2>3 DEF Pair
      <3>2. /\ \A k \in p..L : log[k].kind \in OfCalls /\ log[k].turn = e.turn
            /\ \A x, y \in p..L : x < y /\ log[x].kind = "result" => log[y].kind # "request"
        BY <2>3, <3>1 DEF Is, L
      <3>3. \A k \in p..L : k \in 1..L /\ log'[k] = log[k]
        BY <1>1, <2>3
      <3>4. p \in p..L
        BY <1>1, <2>3
      <3>5. Burst(log', p, j)
        <4>1. \A k \in p..j : log'[k].kind \in OfCalls /\ log'[k].turn = log'[p].turn
          <5> SUFFICES ASSUME NEW k \in p..j
                       PROVE  log'[k].kind \in OfCalls /\ log'[k].turn = log'[p].turn
            OBVIOUS
          <5>1. CASE k = L + 1
            BY <1>1, <3>1, <3>2, <3>3, <3>4, <5>1 DEF OfCalls
          <5>2. CASE k # L + 1
            <6>1. k \in p..L
              BY <1>1, <2>3, <5>2
            <6> QED BY <3>2, <3>3, <3>4, <6>1
          <5> QED BY <5>1, <5>2
        <4>2. ASSUME NEW x \in p..j, NEW y \in p..j, x < y, log'[x].kind = "result"
              PROVE  log'[y].kind # "request"
          <5>1. CASE y = L + 1
            BY <1>1, <3>1, <5>1
          <5>2. CASE y # L + 1
            <6>1. x \in p..L /\ y \in p..L
              BY <1>1, <2>3, <4>2, <5>2
            <6> QED BY <3>2, <3>3, <4>2, <6>1
          <5> QED BY <5>1, <5>2
        <4> QED BY <4>1, <4>2 DEF Burst
      <3>6. \A k \in Compactions(log) : log[k].to \in Nat /\ log[k].to < p
        <4> SUFFICES ASSUME NEW k \in Compactions(log) PROVE log[k].to \in Nat /\ log[k].to < p
          OBVIOUS
        <4>1. k \in 1..L /\ log[k].kind = "compaction" /\ log[k].to < k
          BY DEF Compactions, Compacted, Is, L
        <4>2. log[k].to \in Nat
          BY <4>1, ElementOfSeq, EventFacts DEF L
        <4>3. ~(k \in p..L)
          BY <3>2, <4>1 DEF OfCalls
        <4> QED BY <1>1, <2>3, <4>1, <4>2, <4>3
      <3>7. Uncut(log', p, j)
        <4> SUFFICES ASSUME NEW k \in 1..(L + 1), log'[k].kind = "compaction"
                     PROVE  log'[k].to \notin p..(j - 1) /\ log'[k].from \notin (p + 1)..j
          BY <1>1 DEF Uncut, Compactions
        <4>1. k \in 1..L /\ log'[k] = log[k] /\ k \in Compactions(log)
          <5>1. k # L + 1
            BY <1>1, <3>1
          <5> QED BY <1>1, <5>1 DEF Compactions, L
        <4>2. log[k].from = 1 \/ \E m \in Compactions(log) : log[k].from = log[m].to + 1
          BY <4>1 DEF Chained
        <4>3. log[k].from \in Nat /\ log[k].from <= p
          <5>1. CASE log[k].from = 1
            BY <2>3, <5>1
          <5>2. ASSUME NEW m \in Compactions(log), log[k].from = log[m].to + 1
                PROVE  log[k].from \in Nat /\ log[k].from <= p
            BY <1>1, <2>3, <3>6, <5>2
          <5> QED BY <4>2, <5>1, <5>2
        <4>4. log[k].to \in Nat /\ log[k].to < p
          BY <3>6, <4>1
        <4>5. log[k].to \notin p..(j - 1)
          BY <2>3, <4>4
        <4>6. log[k].from \notin (p + 1)..j
          BY <2>3, <4>3
        <4>7. log'[k].to = log[k].to /\ log'[k].from = log[k].from
          BY <4>1
        <4> QED BY <4>5, <4>6, <4>7
      <3>8. p < j
        BY <1>1, <2>3
      <3> QED BY <3>5, <3>7, <3>8
    <2> QED BY <1>1, <2>1, <2>2, <2>3
  <1>3. ASSUME NEW j \in 1..(L + 1), log'[j].kind = "result"
        PROVE  \E p \in 1..(j - 1) : Pair(log', p, j)
    <2>1. CASE j \in 1..L
      <3>1. PICK p \in 1..(j - 1) : Pair(log, p, j)
        BY <1>1, <1>3, <2>1 DEF Grouped, L
      <3>2. p \in 1..L
        BY <1>1, <2>1
      <3> QED BY <1>1, <2>1, <3>1, <3>2 DEF Pair
    <2>2. CASE j = L + 1
      <3>1. PICK p \in 1..L : log[p].kind = "request" /\ log[p].call = e.call
        BY <1>1, <1>3, <2>2 DEF Is, L
      <3> QED BY <1>1, <1>3, <2>2, <3>1 DEF Pair
    <2> QED BY <1>1, <2>1, <2>2
  <1> QED BY <1>1, <1>2, <1>3 DEF Grouped

\* No other turn runs.
Alone(t) == \A u \in Turns \ {t} : ~Running(u)

\* A range that goes on from an earlier one keeps the chain.
LEMMA ChainedAppend ==
  ASSUME log \in Seq(Event), Chained, NEW e \in Event, Emit(e),
         e.kind = "compaction" =>
           e.from = 1 \/ \E m \in Compactions(log) : e.from = log[m].to + 1
  PROVE  Chained'
  <1>1. /\ Len(log) \in Nat /\ Len(log') = Len(log) + 1 /\ log'[Len(log) + 1] = e
        /\ \A p \in 1..Len(log) : log'[p] = log[p]
    BY AppendFacts
  <1>2. Compactions(log) \subseteq Compactions(log)'
        /\ \A m \in Compactions(log) : log'[m] = log[m]
    BY <1>1 DEF Compactions
  <1> SUFFICES ASSUME NEW k \in Compactions(log)'
               PROVE  log'[k].from = 1 \/ \E m \in Compactions(log)' : log'[k].from = log'[m].to + 1
    BY DEF Chained
  <1>3. CASE k \in 1..Len(log)
    <2>1. k \in Compactions(log) /\ log'[k] = log[k]
      BY <1>1, <1>3 DEF Compactions
    <2>2. log[k].from = 1 \/ \E m \in Compactions(log) : log[k].from = log[m].to + 1
      BY <2>1 DEF Chained
    <2> QED BY <1>2, <2>1, <2>2
  <1>4. CASE k = Len(log) + 1
    <2>1. log'[k] = e /\ e.kind = "compaction"
      BY <1>1, <1>4 DEF Compactions
    <2> QED BY <1>2, <2>1
  <1> QED BY <1>1, <1>3, <1>4 DEF Compactions

\* Unless a turn is about to answer a denied call, all are answered.
LEMMA SettledFacts ==
  ASSUME TypeInv, DeniedAreAnswered, \A t \in Turns : pc[t] # "denied"
  PROVE  Settled(log)
  <1>1. \A p \in 1..Len(log) : log[p].turn \in Turns
    BY ElementOfSeq, EventFacts DEF TypeInv, TypeOK
  <1> QED BY <1>1 DEF DeniedAreAnswered, Settled, Is

\* A compaction cuts no burst.
LEMMA CompactionUncut ==
  ASSUME TypeInv, Grouped(log), Chained, NEW t \in Turns, pc[t] \in {"summarize", "resummarize"},
         snapshot[t] = Len(log)
  PROVE  LET e == CompactionOf(t)
         IN  /\ e \in Event /\ e.kind = "compaction"
             /\ e.from = 1 \/ \E m \in Compactions(log) : e.from = log[m].to + 1
             /\ \A p, j \in 1..Len(log) : Pair(log, p, j) =>
                  e.to \notin p..(j - 1) /\ e.from \notin (p + 1)..j
  <1> DEFINE e == CompactionOf(t)
  <1>1. log \in Seq(Event) /\ Len(log) \in Nat
    BY LenProperties DEF TypeInv, TypeOK
  <1>2. SubSeq(log, 1, snapshot[t]) = log
    BY <1>1, SubSeqFull
  <1>3. Backward(log) /\ LastReplaced(log) > 0
    BY <1>2 DEF Backward, TypeInv, Compacted, Snapshots, Is
  <1>4. e \in Event /\ e.kind = "compaction"
    BY CompactionFacts
  <1>5. e.from = FirstFresh(log) /\ e.to = LastReplaced(log)
    BY <1>2 DEF CompactionOf, Summarized
  <1>6. FirstFresh(log) = 1 \/ \E m \in Compactions(log) : FirstFresh(log) = log[m].to + 1
    BY <1>1, <1>3, FreshFollows
  <1>7. ASSUME NEW p \in 1..Len(log), NEW j \in 1..Len(log), Pair(log, p, j)
        PROVE  LastReplaced(log) \notin p..(j - 1) /\ FirstFresh(log) \notin (p + 1)..j
    <2>1. p < j /\ Burst(log, p, j) /\ Uncut(log, p, j)
      BY <1>7 DEF Grouped
    <2>2. LastReplaced(log) \notin p..(j - 1)
      <3> SUFFICES ASSUME LastReplaced(log) \in p..(j - 1) PROVE FALSE
        OBVIOUS
      <3>1. LastReplaced(log) \in p..j /\ j \in p..j /\ LastReplaced(log) < j
        BY <1>1, <2>1
      <3>2. log[j].turn = log[LastReplaced(log)].turn
        BY <2>1, <3>1 DEF Burst
      <3>3. j <= LastReplaced(log)
        BY <1>1, <1>3, <3>2, LastOfItsTurn
      <3> QED BY <1>1, <3>1, <3>3
    <2>3. FirstFresh(log) \notin (p + 1)..j
      <3>1. CASE FirstFresh(log) = 1
        BY <1>1, <3>1
      <3>2. ASSUME NEW m \in Compactions(log), FirstFresh(log) = log[m].to + 1
            PROVE  FirstFresh(log) \notin (p + 1)..j
        <4>1. log[m].to \in Nat /\ log[m].to \notin p..(j - 1)
          BY <1>1, <2>1, ElementOfSeq, EventFacts DEF Uncut, Compactions
        <4> QED BY <1>1, <3>2, <4>1
      <3> QED BY <1>6, <3>1, <3>2
    <2> QED BY <2>2, <2>3
  <1> QED BY <1>4, <1>5, <1>6, <1>7

\* A step that announces, denies and answers nothing keeps the invariant.
LEMMA KeptQuiet ==
  ASSUME TypeInv, Sequential, Kept, NEW t \in Turns, Alone(t), pc[t] # "denied",
         \A u \in Turns \ {t} : pc'[u] = pc[u], Silent', InHand(t)',
         \/ log' = log
         \/ \E k \in {"prompt", "say", "abort", "fatal", "retryable"} : Emit(Note(k, t))
         \/ pc[t] \in {"summarize", "resummarize"} /\ Emit(CompactionOf(t))
  PROVE  Kept'
  <1>1. log \in Seq(Event) /\ Len(log) \in Nat /\ Compacted
    BY LenProperties DEF TypeInv, TypeOK
  <1>2. Grouped(log) /\ Chained /\ DeniedAreAnswered
    BY DEF Kept
  <1>3. \A u \in Turns : pc[u] # "denied"
    BY DEF Alone, Running
  <1>4. Settled(log)
    BY <1>2, <1>3, SettledFacts
  <1>5. \A u \in Turns \ {t} : InHand(u)'
    BY DEF Alone, Running, InHand, Answering
  <1>6. CASE log' = log
    <2>1. Grouped(log)' /\ Chained'
      BY <1>2, <1>6 DEF Chained
    <2>2. DeniedAreAnswered'
      BY <1>4, <1>6 DEF DeniedAreAnswered, Settled, Is
    <2> QED BY <1>5, <2>1, <2>2 DEF Kept
  <1>7. ASSUME NEW e \in Event, Emit(e), e.kind \notin OfCalls, Grouped(log'), Chained'
        PROVE  Kept'
    <2>1. /\ Len(log') = Len(log) + 1 /\ log'[Len(log) + 1] = e
          /\ \A p \in 1..Len(log) : log'[p] = log[p]
      BY <1>1, <1>7, AppendFacts
    <2>2. DeniedAreAnswered'
      <3> SUFFICES ASSUME NEW p \in 1..Len(log'), log'[p].kind = "denied"
                   PROVE  \E j \in 1..Len(log') : log'[j].kind = "result" /\ log'[j].call = log'[p].call
        BY DEF DeniedAreAnswered, Is
      <3>1. p \in 1..Len(log) /\ log'[p] = log[p]
        BY <1>1, <1>7, <2>1 DEF OfCalls
      <3>2. PICK j \in 1..Len(log) : log[j].kind = "result" /\ log[j].call = log[p].call
        BY <1>4, <3>1 DEF Settled
      <3>3. j \in 1..Len(log')
        BY <1>1, <2>1
      <3> QED BY <2>1, <3>1, <3>2, <3>3
    <2> QED BY <1>5, <1>7, <2>2 DEF Kept
  <1>8. ASSUME NEW k \in {"prompt", "say", "abort", "fatal", "retryable"}, Emit(Note(k, t))
        PROVE  Kept'
    <2> DEFINE e == Note(k, t)
    <2>1. e \in Event /\ e.kind = k
      BY NoteFacts
    <2> HIDE DEF e
    <2>2. Emit(e) /\ e.kind \notin OfCalls \cup {"compaction"}
      BY <1>8, <2>1 DEF OfCalls, e
    <2>3. Grouped(log')
      BY <1>1, <1>2, <2>1, <2>2, GroupedAppend DEF OfCalls
    <2>4. Chained'
      BY <1>1, <1>2, <2>1, <2>2, ChainedAppend
    <2> QED BY <1>7, <2>1, <2>2, <2>3, <2>4
  <1>9. CASE pc[t] \in {"summarize", "resummarize"} /\ Emit(CompactionOf(t))
    <2> DEFINE e == CompactionOf(t)
    <2>1. /\ e \in Event /\ e.kind = "compaction"
          /\ e.from = 1 \/ \E m \in Compactions(log) : e.from = log[m].to + 1
          /\ \A p, j \in 1..Len(log) : Pair(log, p, j) =>
               e.to \notin p..(j - 1) /\ e.from \notin (p + 1)..j
      <3>1. snapshot[t] = Len(log)
        BY <1>9 DEF Sequential
      <3> QED BY <1>2, <1>9, <3>1, CompactionUncut
    <2> HIDE DEF e
    <2>2. Emit(e)
      BY <1>9 DEF e
    <2>3. Grouped(log')
      BY <1>1, <1>2, <2>1, <2>2, GroupedAppend
    <2>4. Chained'
      BY <1>1, <1>2, <2>1, <2>2, ChainedAppend
    <2> QED BY <1>7, <2>1, <2>2, <2>3, <2>4 DEF OfCalls
  <1> QED BY <1>6, <1>8, <1>9

\* An event of the call that a turn is at stays in hand.
LEMMA CallInHand ==
  ASSUME TypeInv, NEW t \in Turns, pc[t] \in Answering \cup {"requesting"}, InHand(t),
         next[t] <= Len(batch[t]), NEW k \in OfCalls, Emit(CallNote(k, Call(t))),
         iteration' = iteration, k = "request" => pc[t] = "requesting",
         ResultsArePast
  PROVE  InHand(t)'
  <1> DEFINE L == Len(log)
             e == CallNote(k, Call(t))
  <1>1. log \in Seq(Event) /\ L \in Nat /\ \A p \in 1..L : log[p] \in Event
    BY LenProperties, ElementOfSeq DEF TypeInv, TypeOK
  <1>2. /\ e \in Event /\ e.kind = k /\ e.turn = t /\ e.call[2] = iteration[t]
    <2>1. pc[t] \notin {"idle", "top", "over", "crashed"}
      BY DEF Answering
    <2>2. Call(t)[1] = t /\ Call(t)[2] = iteration[t] /\ e \in Event /\ e.kind = k /\ e.call = Call(t)
      BY <2>1, CallFacts DEF OfCalls
    <2> HIDE DEF e
    <2> QED BY <2>2, EventFacts DEF OfCalls
  <1>3. /\ Len(log') = L + 1 /\ log'[L + 1] = e /\ \A p \in 1..L : log'[p] = log[p]
    <2> HIDE DEF e
    <2> QED BY <1>1, <1>2, AppendFacts DEF e
  <1> HIDE DEF L, e
  <1> SUFFICES ASSUME NEW p \in 1..(L + 1), log'[p].kind = "request", log'[p].turn = t,
                      log'[p].call[2] = iteration[t]
               PROVE  /\ \A q \in p..(L + 1) : /\ log'[q].kind \in OfCalls /\ log'[q].turn = t
                                               /\ log'[q].call[2] = iteration[t]
                      /\ \A x, y \in p..(L + 1) :
                           x < y /\ log'[x].kind = "result" => log'[y].kind # "request"
    BY <1>3 DEF InHand, Is
  <1>4. CASE p = L + 1
    <2>1. \A q \in p..(L + 1) : q = L + 1
      BY <1>1, <1>4
    <2> QED BY <1>1, <1>2, <1>3, <2>1
  <1>5. CASE p \in 1..L
    <2>1. log[p].kind = "request" /\ log[p].turn = t /\ log[p].call[2] = iteration[t]
      BY <1>3, <1>5
    <2>2. /\ \A q \in p..L : /\ log[q].kind \in OfCalls /\ log[q].turn = t
                             /\ log[q].call[2] = iteration[t]
          /\ \A x, y \in p..L : x < y /\ log[x].kind = "result" => log[y].kind # "request"
      BY <1>5, <2>1 DEF InHand, Is, L
    <2>3. \A q \in p..(L + 1) : q # L + 1 => q \in p..L /\ q \in 1..L
      BY <1>1, <1>5
    <2>4. ASSUME NEW q \in p..(L + 1)
          PROVE  log'[q].kind \in OfCalls /\ log'[q].turn = t /\ log'[q].call[2] = iteration[t]
      <3>1. CASE q = L + 1
        BY <1>2, <1>3, <3>1
      <3>2. CASE q # L + 1
        BY <1>3, <2>2, <2>3, <3>2
      <3> QED BY <3>1, <3>2
    <2>5. ASSUME NEW x \in p..(L + 1), NEW y \in p..(L + 1), x < y, log'[x].kind = "result",
                 log'[y].kind = "request"
          PROVE  FALSE
      <3>0. x \in p..L /\ x \in 1..L /\ log'[x] = log[x]
        BY <1>1, <1>3, <1>5, <2>5
      <3>1. CASE y = L + 1
        <4>1. k = "request"
          BY <1>2, <1>3, <2>5, <3>1
        <4>2. log[x].kind = "result" /\ log[x].turn = t /\ log[x].call[2] = iteration[t]
          BY <2>2, <2>5, <3>0
        <4>3. log[x].call \in Calls /\ log[x].call[1] = t
          BY <1>1, <3>0, <4>2, EventFacts
        <4>4. Past(log[x].call)
          BY <3>0, <4>2, <4>3 DEF ResultsArePast, Is, L
        <4>5. iteration[t] \in Nat
          BY ToolTurnAssumption DEF TypeInv, TypeOK
        <4> QED BY <4>1, <4>2, <4>3, <4>4, <4>5 DEF Past, Answering
      <3>2. CASE y # L + 1
        <4>1. y \in p..L /\ log'[y] = log[y]
          BY <1>3, <2>3, <3>2
        <4> QED BY <2>2, <2>5, <3>0, <4>1
      <3> QED BY <3>1, <3>2
    <2> QED BY <2>4, <2>5
  <1> QED BY <1>1, <1>4, <1>5

\* A step that writes of its call keeps the invariant.
LEMMA KeptCall ==
  ASSUME TypeInv, CallInv, Kept, NEW t \in Turns, Alone(t),
         pc[t] \in Answering \cup {"requesting"}, next[t] <= Len(batch[t]),
         NEW k \in OfCalls, Emit(CallNote(k, Call(t))),
         iteration' = iteration, says' = says, batch' = batch,
         \A u \in Turns \ {t} : pc'[u] = pc[u],
         k = "request" => pc[t] = "requesting",
         k = "denied" => pc[t] # "denied" /\ pc'[t] = "denied" /\ next' = next,
         k = "result" => pc[t] # "requesting"
  PROVE  Kept'
  <1> DEFINE L == Len(log)
             e == CallNote(k, Call(t))
  <1>1. /\ log \in Seq(Event) /\ L \in Nat /\ \A p \in 1..L : log[p] \in Event
        /\ Compacted /\ iteration[t] \in Nat
    BY ToolTurnAssumption, LenProperties, ElementOfSeq DEF TypeInv, TypeOK
  <1>2. /\ e \in Event /\ e.kind = k /\ e.call = Call(t) /\ e.turn = t /\ Call(t) \in Calls
        /\ Call(t)[1] = t /\ Call(t)[2] = iteration[t] /\ Call(t)[3] = next[t]
        /\ next[t] \in Nat \ {0}
    <2>1. pc[t] \notin {"idle", "top", "over", "crashed"}
      BY DEF Answering
    <2>2. /\ Call(t)[1] = t /\ Call(t)[2] = iteration[t] /\ e \in Event /\ e.kind = k
          /\ e.call = Call(t) /\ Call(t) \in Calls /\ Call(t)[3] = next[t] /\ next[t] \in Nat \ {0}
      BY <2>1, CallFacts DEF OfCalls
    <2> HIDE DEF e
    <2> QED BY <2>2, EventFacts DEF OfCalls
  <1> HIDE DEF e
  <1>3. /\ Emit(e) /\ Len(log') = L + 1 /\ log'[L + 1] = e /\ \A p \in 1..L : log'[p] = log[p]
    <2>1. Emit(e)
      BY DEF e
    <2> QED BY <1>1, <1>2, <2>1, AppendFacts
  <1>4. Grouped(log) /\ Chained /\ DeniedAreAnswered /\ Silent /\ InHand(t)
    BY DEF Kept
  <1>5. InHand(t)' /\ \A u \in Turns \ {t} : InHand(u)'
    <2>1. InHand(t)'
      BY <1>4, CallInHand DEF CallInv
    <2>2. \A u \in Turns \ {t} : InHand(u)'
      BY DEF Alone, Running, InHand, Answering
    <2> QED BY <2>1, <2>2
  <1>6. Silent'
    BY <1>4 DEF Silent
  <1>7. Chained'
    BY <1>1, <1>2, <1>3, <1>4, ChainedAppend DEF OfCalls
  <1>8. Grouped(log')
    <2>1. ASSUME k = "request", NEW j \in 1..L, Is(j, "result"), log[j].call = e.call PROVE FALSE
      <3>1. Past(Call(t))
        BY <1>2, <2>1 DEF CallInv, ResultsArePast
      <3> QED BY <1>1, <1>2, <2>1, <3>1 DEF Past, Answering
    <2>2. ASSUME k = "result" PROVE \E p \in 1..L : Is(p, "request") /\ log[p].call = e.call
      <3>1. Known(t, next[t]) /\ next[t] \in 1..Len(batch[t])
        <4>1. Len(batch[t]) \in Nat
          BY LenProperties DEF TypeInv, TypeOK
        <4> QED BY <1>2, <2>2, <4>1 DEF Known
      <3> QED BY <1>2, <3>1 DEF CallInv, Announced, Call
    <2>3. ASSUME k = "result", NEW p \in 1..L, Is(p, "request"), log[p].call = e.call
          PROVE  /\ \A q \in p..L : log[q].kind \in OfCalls /\ log[q].turn = e.turn
                 /\ \A x, y \in p..L : x < y /\ Is(x, "result") => ~Is(y, "request")
      <3>1. log[p].turn = t /\ log[p].call[2] = iteration[t]
        BY <1>1, <1>2, <2>3, EventFacts DEF Is
      <3> QED BY <1>2, <1>4, <2>3, <3>1 DEF InHand
    <2>4. e.kind # "compaction"
      BY <1>2 DEF OfCalls
    <2> QED BY <1>1, <1>2, <1>3, <1>4, <2>1, <2>2, <2>3, <2>4, GroupedAppend
  <1>9. DeniedAreAnswered'
    <2> SUFFICES ASSUME NEW p \in 1..(L + 1), log'[p].kind = "denied"
                 PROVE  \/ /\ pc'[log'[p].turn] = "denied"
                           /\ log'[p].call = <<log'[p].turn, iteration'[log'[p].turn],
                                               next'[log'[p].turn]>>
                        \/ \E j \in 1..(L + 1) : log'[j].kind = "result" /\ log'[j].call = log'[p].call
      BY <1>3 DEF DeniedAreAnswered, Is, Call
    <2>1. CASE p = L + 1
      <3>1. k = "denied" /\ log'[p].turn = t /\ log'[p].call = Call(t)
        BY <1>2, <1>3, <2>1
      <3> QED BY <3>1 DEF Call
    <2>2. CASE p \in 1..L
      <3>1. log'[p] = log[p] /\ log[p].kind = "denied" /\ log[p].turn \in Turns
        BY <1>1, <1>3, <2>2, EventFacts
      <3>2. CASE \E j \in 1..L : log[j].kind = "result" /\ log[j].call = log[p].call
        <4>1. PICK j \in 1..L : log[j].kind = "result" /\ log[j].call = log[p].call
          BY <3>2
        <4>2. j \in 1..(L + 1) /\ log'[j] = log[j]
          BY <1>1, <1>3
        <4> QED BY <3>1, <4>1, <4>2
      <3>3. CASE pc[log[p].turn] = "denied" /\ log[p].call = Call(log[p].turn)
        <4>1. log[p].turn = t
          BY <3>1, <3>3 DEF Alone, Running
        <4>2. k = "result"
          BY <3>3, <4>1 DEF OfCalls
        <4>3. L + 1 \in 1..(L + 1) /\ log'[L + 1].kind = "result" /\ log'[L + 1].call = log'[p].call
          BY <1>1, <1>2, <1>3, <3>1, <3>3, <4>1, <4>2
        <4> QED BY <4>3
      <3> QED BY <1>4, <2>2, <3>1, <3>2, <3>3 DEF DeniedAreAnswered, Is, L
    <2> QED BY <1>1, <2>1, <2>2
  <1> QED BY <1>5, <1>6, <1>7, <1>8, <1>9 DEF Kept

\* So does every step of the only turn that runs.
LEMMA KeptStep ==
  ASSUME TypeInv, CallInv, Sequential, Kept, ~Speaks, NEW t \in Turns, Alone(t),
         StartTurn(t) \/ TurnStep(t)
  PROVE  Kept'
  <1>0. /\ pc \in [Turns -> Where] /\ Position(t) /\ Silent /\ InHand(t)
        /\ next[t] \in Nat /\ Len(batch[t]) \in Nat
    BY LenProperties DEF TypeInv, TypeOK, Kept
  \* Steps that leave the response alone and go where none is in hand.
  <1>1. ASSUME NEW w, Goto(t, w), w \notin Answering \cup {"requesting"}, pc[t] # "denied",
               UNCHANGED <<batch, says>>,
               \/ log' = log
               \/ \E k \in {"prompt", "say", "abort", "fatal", "retryable"} : Emit(Note(k, t))
               \/ pc[t] \in {"summarize", "resummarize"} /\ Emit(CompactionOf(t))
        PROVE  Kept'
    <2>1. pc'[t] = w /\ \A u \in Turns \ {t} : pc'[u] = pc[u]
      BY <1>0, <1>1 DEF Goto
    <2>2. InHand(t)' /\ Silent'
      BY <1>0, <1>1, <2>1 DEF InHand, Silent
    <2> QED BY <1>1, <2>1, <2>2, KeptQuiet
  \* Steps that stay with the response they have.
  <1>2. ASSUME NEW w, Goto(t, w), pc[t] \in Answering \cup {"requesting"}, pc[t] # "denied",
               UNCHANGED <<log, batch, says, iteration>>
        PROVE  Kept'
    <2>1. pc'[t] = w /\ \A u \in Turns \ {t} : pc'[u] = pc[u]
      BY <1>0, <1>2 DEF Goto
    <2>2. InHand(t)' /\ Silent'
      BY <1>0, <1>2 DEF InHand, Silent, Is
    <2> QED BY <1>2, <2>1, <2>2, KeptQuiet
  <1>3. CASE StartTurn(t) \/ GiveUp(t) \/ ObeyAbort(t) \/ Iterate(t) \/ KeepContext(t) \/ Request(t)
    BY <1>1, <1>3 DEF StartTurn, GiveUp, ObeyAbort, Iterate, KeepContext, Request, Answering, batchVars
  <1>4. CASE Compact(t) \/ Overflow(t)
    BY <1>1, <1>4 DEF Compact, Overflow, Answering, batchVars
  <1>5. CASE Summarize(t) \/ Fail(t) \/ Resummarize(t) \/ Retry(t) \/ Stuck(t)
    BY <1>1, <1>5 DEF Summarize, Fail, Resummarize, Retry, Stuck, Answering, batchVars
  <1>6. CASE Respond(t)
    <2>1. pc[t] = "streaming" /\ log' = log /\ iteration' = iteration
          /\ \A u \in Turns \ {t} : pc'[u] = pc[u]
      BY <1>0, <1>6 DEF Respond, Goto
    <2>2. Silent'
      <3>1. batch \in [Turns -> Seq(Inputs)] /\ says \in [Turns -> BOOLEAN]
        BY DEF TypeInv, TypeOK
      <3>2. PICK uses \in Responses, text \in BOOLEAN :
              /\ text => Speaks
              /\ batch' = [batch EXCEPT ![t] = uses]
              /\ says' = [says EXCEPT ![t] = text \/ uses = <<>>]
        BY <1>6 DEF Respond
      <3>3. batch'[t] = uses /\ says'[t] = (uses = <<>>)
        BY <3>1, <3>2
      <3>4. \A u \in Turns \ {t} : batch'[u] = batch[u] /\ says'[u] = says[u]
        BY <3>1, <3>2
      <3> QED BY <1>0, <3>3, <3>4 DEF Silent
    <2>3. ASSUME NEW p \in 1..Len(log), Is(p, "request"), log[p].turn = t,
                 log[p].call[2] = iteration[t]
          PROVE  FALSE
      <3> DEFINE c == log[p].call
      <3>1. c \in Calls /\ c[1] = t
        BY <2>3, ElementOfSeq, EventFacts DEF TypeInv, TypeOK, Is
      <3>2. ~Owed(c) /\ ~Past(c)
        <4>1. iteration[t] \in Nat
          BY ToolTurnAssumption DEF TypeInv, TypeOK
        <4> HIDE DEF c
        <4>2. c[2] = iteration[t]
          BY <2>3 DEF c
        <4> QED BY <2>1, <3>1, <4>1, <4>2 DEF Owed, Past, Answering
      <3> QED BY <2>3, <3>1, <3>2 DEF CallInv, RequestsAreOwed, ResultsArePast
    <2>4. InHand(t)'
      BY <2>1, <2>3 DEF InHand, Is
    <2> QED BY <2>1, <2>2, <2>4, KeptQuiet
  <1>7. CASE RequestTool(t)
    <2>1. \A u \in Turns \ {t} : pc'[u] = pc[u]
      BY <1>0, <1>7 DEF RequestTool, Goto
    <2>2. /\ pc[t] = "requesting" /\ next[t] <= Len(batch[t])
          /\ Emit(CallNote("request", Call(t)))
          /\ iteration' = iteration /\ says' = says /\ batch' = batch
      BY <1>7 DEF RequestTool
    <2>3. "request" \in OfCalls /\ "request" # "denied" /\ "request" # "result"
      BY DEF OfCalls
    <2> QED BY <2>1, <2>2, <2>3, KeptCall
  <1>8. CASE Speak(t)
    <2>1. CASE batch[t] = <<>>
      BY <1>1, <1>8, <2>1 DEF Speak, Answering
    <2>2. CASE batch[t] # <<>>
      <3>1. ~says[t]
        BY <1>0, <2>2 DEF Silent
      <3> QED BY <1>2, <1>8, <2>2, <3>1 DEF Speak
    <2> QED BY <2>1, <2>2
  <1>9. CASE Dispatch(t) \/ Allow(t)
    BY <1>2, <1>9 DEF Dispatch, Allow, Answering, batchVars
  <1>10. CASE Deny(t)
    <2>1. /\ pc'[t] = "denied" /\ \A u \in Turns \ {t} : pc'[u] = pc[u]
          /\ pc[t] = "checking" /\ next[t] <= Len(batch[t])
          /\ Emit(CallNote("denied", Call(t)))
          /\ iteration' = iteration /\ says' = says /\ batch' = batch /\ next' = next
      BY <1>0, <1>10 DEF Deny, Goto, Position, batchVars
    <2>2. "denied" \in OfCalls /\ "denied" # "request" /\ "denied" # "result"
      BY DEF OfCalls
    <2> QED BY <2>1, <2>2, KeptCall DEF Answering
  <1>11. CASE Finish(t) \/ (Cancel(t) /\ next[t] <= Len(batch[t]))
    <2>1. /\ \A u \in Turns \ {t} : pc'[u] = pc[u]
          /\ pc[t] \in Answering /\ next[t] <= Len(batch[t])
          /\ Emit(CallNote("result", Call(t)))
          /\ iteration' = iteration /\ says' = says /\ batch' = batch
      BY <1>0, <1>11 DEF Finish, Cancel, Goto, Position, Answering
    <2>2. "result" \in OfCalls /\ "result" # "request" /\ "result" # "denied" /\ pc[t] # "requesting"
      BY <2>1 DEF OfCalls, Answering
    <2> QED BY <2>1, <2>2, KeptCall
  <1>12. CASE Cancel(t) /\ ~(next[t] <= Len(batch[t]))
    BY <1>1, <1>12 DEF Cancel, Answering
  <1> QED BY <1>3, <1>4, <1>5, <1>6, <1>7, <1>8, <1>9, <1>10, <1>11, <1>12 DEF TurnStep

\* One turn after the other keeps all three invariants.
LEMMA ChainStep ==
  ASSUME IInv, Sequential, Kept, ~Speaks, NEW t \in Turns,
         \/ StartTurn(t) /\ \A u \in Turns : ~Running(u)
         \/ Abort(t) \/ TurnStep(t)
  PROVE  IInv' /\ Sequential' /\ Kept'
  <1>1. IInv'
    BY TypeNext, CallNext DEF IInv, Next
  <1>2. CASE StartTurn(t) \/ TurnStep(t)
    <2>1. Alone(t)
      <3>1. CASE TurnStep(t)
        <4>1. Running(t)
          BY <3>1 DEF Running, TurnStep, GiveUp, ObeyAbort, Iterate, KeepContext, Compact,
                      Summarize, Request, Respond, Fail, Overflow, Resummarize, Retry,
                      RequestTool, Stuck, Speak, Dispatch, Allow, Deny, Finish, Cancel
        <4> QED BY <4>1 DEF Sequential, Alone
      <3>2. CASE StartTurn(t) /\ ~TurnStep(t)
        <4>1. pc[t] = "idle"
          BY <3>2 DEF StartTurn
        <4>2. ~Abort(t)
          BY <4>1 DEF Abort, Running
        <4> QED BY <3>2, <4>2 DEF Alone
      <3> QED BY <1>2, <3>1, <3>2
    <2>2. Mine(t)
      BY <1>2, StepMine DEF IInv
    <2>3. Sequential'
      BY <2>1, <2>2 DEF Sequential, Mine, Running, Alone
    <2>4. Kept'
      BY <1>2, <2>1, KeptStep DEF IInv
    <2> QED BY <1>1, <2>3, <2>4
  <1>3. CASE Abort(t)
    <2>1. UNCHANGED <<log, pc, iteration, batch, says, next, snapshot>>
      BY <1>3 DEF Abort, batchVars
    <2>2. Sequential'
      BY <2>1 DEF Sequential, Running
    <2>3. Kept'
      BY <2>1 DEF Kept, Chained, Compactions, DeniedAreAnswered, Silent, InHand, Is, Call
    <2> QED BY <1>1, <2>2, <2>3
  <1> QED BY <1>2, <1>3

\* Nor does standing still break them.
LEMMA KeptStill ==
  ASSUME IInv, Sequential, Kept, UNCHANGED vars
  PROVE  IInv' /\ Sequential' /\ Kept'
  <1>1. UNCHANGED <<log, pc, iteration, batch, says, next, snapshot>>
    BY DEF vars, batchVars
  <1>2. IInv'
    BY TypeNext, CallNext DEF IInv
  <1>3. Sequential'
    BY <1>1 DEF Sequential, Running
  <1>4. Kept'
    BY <1>1 DEF Kept, Chained, Compactions, DeniedAreAnswered, Silent, InHand, Is, Call
  <1> QED BY <1>2, <1>3, <1>4

\* At the beginning nothing has been said.
LEMMA KeptInit == Init => IInv /\ Sequential /\ Kept
  <1>1. Init => IInv
    BY TypeInit, CallInit DEF IInv
  <1>2. Init => Sequential
    BY DEF Init, Sequential, Running
  <1>3. Init => Kept
    <2> SUFFICES ASSUME Init PROVE Kept
      OBVIOUS
    <2>1. Len(log) = 0 /\ 1..Len(log) = {}
      BY EmptySeq DEF Init
    <2>2. Grouped(log) /\ Chained /\ DeniedAreAnswered
      BY <2>1 DEF Grouped, Chained, Compactions, DeniedAreAnswered
    <2>3. Silent /\ \A t \in Turns : InHand(t)
      BY DEF Init, Silent, InHand, Answering
    <2> QED BY <2>2, <2>3 DEF Kept
  <1> QED BY <1>1, <1>2, <1>3

\* The invariants make every request well-formed.
LEMMA KeptIsWellFormed == IInv /\ Sequential /\ Kept => RequestIsWellFormed
  <1> SUFFICES ASSUME IInv, Sequential, Kept, NEW t \in Turns, pc[t] = "request"
               PROVE  WellFormed(projectMessages(log))
    BY DEF RequestIsWellFormed
  <1>1. \A u \in Turns : pc[u] # "denied"
    BY DEF Sequential, Running
  <1>2. Settled(log)
    BY <1>1, SettledFacts DEF IInv, Kept
  <1>3. log \in Seq(Event) /\ Grouped(log)
    BY DEF IInv, TypeInv, TypeOK, Kept
  <1> QED BY <1>2, <1>3, GroupedIsWellFormed

\* As long as a session runs one turn at a time, its process does not die and
\* no response has both a text and calls, every request that is sent to the
\* provider is a conversation it accepts: whatever was denied, cancelled, left
\* by the guard, aborted or summarized before.
THEOREM RequestIsWellFormedCorrect ==
  ~Concurrent /\ ~Crashes /\ ~Speaks => (Spec => []RequestIsWellFormed)
  <1> SUFFICES ASSUME ~Concurrent, ~Crashes, ~Speaks PROVE Spec => []RequestIsWellFormed
    OBVIOUS
  <1>1. IInv /\ Sequential /\ Kept /\ [Next]_vars => IInv' /\ Sequential' /\ Kept'
    <2> SUFFICES ASSUME IInv, Sequential, Kept, [Next]_vars PROVE IInv' /\ Sequential' /\ Kept'
      OBVIOUS
    <2>1. ASSUME NEW t \in Turns, StartTurn(t) \/ Abort(t) \/ TurnStep(t)
          PROVE  IInv' /\ Sequential' /\ Kept'
      <3>1. StartTurn(t) => \A u \in Turns : ~Running(u)
        BY DEF StartTurn
      <3> QED BY <2>1, <3>1, ChainStep
    <2>2. CASE UNCHANGED vars
      BY <2>2, KeptStill
    <2> QED BY <2>1, <2>2 DEF Next, Crash
  <1> QED BY <1>1, KeptInit, KeptIsWellFormed, PTL DEF Spec

\* The same of the turns that a run checks, one after the other and with
\* compactions between their requests, whatever the turns of the run's other
\* parts do.
THEOREM ChainIsWellFormedCorrect == ~Speaks => (ChainSpec => []ChainIsWellFormed)
  <1> SUFFICES ASSUME ~Speaks PROVE ChainSpec => []ChainIsWellFormed
    OBVIOUS
  <1> DEFINE Inv == part = "chain" => IInv /\ Sequential /\ Kept
  <1>1. Init => Inv
    BY KeptInit
  <1>2. Inv /\ [ChainNext]_allVars => Inv'
    <2> SUFFICES ASSUME part = "chain", IInv, Sequential, Kept, [ChainNext]_allVars
                 PROVE  IInv' /\ Sequential' /\ Kept'
      BY DEF ChainNext, allVars
    <2>1. CASE ChainNext
      <3>1. Next /\ OneByOne' /\ NoneDied'
        BY <2>1 DEF ChainNext
      <3>2. ~Crash
        <4>1. \A t \in Turns : Running(t) /\ Crash => pc'[t] = "crashed"
          BY DEF Crash
        <4> QED BY <3>1, <4>1 DEF Crash, NoneDied
      <3>3. PICK t \in Turns : StartTurn(t) \/ Abort(t) \/ TurnStep(t)
        BY <3>1, <3>2 DEF Next
      <3>4. StartTurn(t) => \A u \in Turns : ~Running(u)
        <4> SUFFICES ASSUME StartTurn(t), NEW u \in Turns, Running(u) PROVE FALSE
          OBVIOUS
        <4>1. pc \in [Turns -> Where] /\ pc[t] = "idle" /\ pc' = [pc EXCEPT ![t] = "top"]
          BY DEF StartTurn, Goto, IInv, TypeInv, TypeOK
        <4>2. u # t /\ Running(u)' /\ Running(t)'
          BY <4>1 DEF Running
        <4> QED BY <3>1, <4>2 DEF OneByOne
      <3> QED BY <3>3, <3>4, ChainStep
    <2>2. CASE UNCHANGED allVars
      BY <2>2, KeptStill DEF allVars
    <2> QED BY <2>1, <2>2
  <1>3. Inv => ChainIsWellFormed
    BY KeptIsWellFormed DEF ChainIsWellFormed
  <1> QED BY <1>1, <1>2, <1>3, PTL DEF ChainSpec

-----------------------------------------------------------------------------
(* The prompt of a running turn, when turns follow one another.            *)

\* A compaction covers its turn to the end.
Whole(l) ==
  \A k \in Compactions(l) : \A j \in 1..(k - 1) : l[j].turn = l[k].turn => j <= l[k].to

Since(l, p) == {k \in Compactions(l) : k > p}

\* The turn begins with its prompt, and nothing but compactions has come between
\* its events.
Begins(l, t, p) ==
  /\ l[p].kind = "prompt" /\ l[p].turn = t
  /\ \A j \in 1..(p - 1) : l[j].turn # t
  /\ \A j \in (p + 1)..Len(l) : l[j].turn = t \/ l[j].kind = "compaction"

\* The first KeepRecent compactions since the prompt end before it.
SparedBy(l, p) ==
  Cardinality(Since(l, p)) <= KeepRecent => \A k \in Compactions(l) : l[k].to < p

\* The inductive invariant.
Spared ==
  /\ Whole(log)
  /\ \A t \in Turns : pc[t] = "idle" => \A j \in 1..Len(log) : log[j].turn # t
  /\ \A t \in Turns : Running(t) =>
       \E p \in 1..Len(log) : Begins(log, t, p) /\ SparedBy(log, p)

\* The compactions since a position are finitely many.
LEMMA SinceFinite ==
  ASSUME NEW l \in Seq(Event), NEW p
  PROVE  IsFiniteSet(Since(l, p)) /\ Cardinality(Since(l, p)) \in Nat
  <1>1. Len(l) \in Nat /\ Since(l, p) \subseteq 1..Len(l)
    BY LenProperties DEF Since, Compactions
  <1>2. IsFiniteSet(1..Len(l))
    BY <1>1, FS_Interval
  <1> QED BY <1>1, <1>2, FS_Subset, FS_CardinalityType

\* With fewer than KeepRecent compactions since the prompt, the next one ends
\* before it.  The turns that begin after the prompt are those of compactions,
\* so the turn to be replaced began before the prompt; were its last event
\* after the prompt, that would be a compaction that has covered it already.
LEMMA CompactionSpares ==
  ASSUME NEW l \in Seq(Event), Backward(l), Whole(l), LastReplaced(l) > 0,
         NEW t, NEW p \in 1..Len(l), Begins(l, t, p),
         \A k \in Compactions(l) : l[k].to < p,
         Cardinality(Since(l, p)) < KeepRecent
  PROVE  LastReplaced(l) < p
  <1> DEFINE F == FirstFresh(l)
             last == LastReplaced(l)
             S == {0} \cup {i \in F..Len(l) : l[i].turn \in Through(l)}
  <1>1. Len(l) \in Nat /\ F \in Nat \ {0} /\ last \in 1..Len(l) /\ F <= last
    BY FirstFreshFacts, LastReplacedFacts, LenProperties
  <1>2. F <= p
    <2>1. \A k \in Compactions(l) : l[k].to \in Nat
      BY ElementOfSeq, EventFacts DEF Compactions
    <2>2. F = 1 \/ \E k \in Compactions(l) : F = l[k].to + 1
      BY FreshFollows
    <2> HIDE DEF F
    <2> QED BY <1>1, <2>1, <2>2
  <1>3. l[last].turn \in Through(l)
    <2>1. Max(S) \in S
      <3>1. S \in SUBSET Nat /\ S # {} /\ \A x \in S : x <= Len(l)
        BY <1>1
      <3> HIDE DEF S
      <3> QED BY <1>1, <3>1, MaxOfBounded
    <2>2. last = Max(S)
      BY DEF LastReplaced
    <2> QED BY <1>1, <2>1, <2>2
  <1>4. PICK k \in TurnStarts(l) :
          /\ Cardinality({j \in TurnStarts(l) : j > k}) = KeepRecent
          /\ l[last].turn = l[k].turn
    BY <1>3 DEF Through
  <1>5. k \in F..Len(l)
    BY DEF TurnStarts
  <1>6. k < p
    <2> SUFFICES ASSUME k >= p PROVE FALSE
      BY <1>1, <1>5
    <2> DEFINE later == {j \in TurnStarts(l) : j > k}
    <2>1. later \subseteq Since(l, p)
      <3> SUFFICES ASSUME NEW j \in TurnStarts(l), j > k PROVE j \in Since(l, p)
        OBVIOUS
      <3>1. j \in F..Len(l) /\ \A i \in F..(j - 1) : l[i].turn # l[j].turn
        BY DEF TurnStarts
      <3> HIDE DEF F
      <3>2. j \in (p + 1)..Len(l) /\ p \in F..(j - 1)
        BY <1>1, <1>2, <1>5, <3>1
      <3>3. l[j].kind = "compaction"
        BY <3>1, <3>2 DEF Begins
      <3> QED BY <1>1, <3>2, <3>3 DEF Since, Compactions
    <2>2. IsFiniteSet(Since(l, p)) /\ Cardinality(Since(l, p)) \in Nat
      BY SinceFinite
    <2>3. Cardinality(later) \in Nat /\ Cardinality(later) <= Cardinality(Since(l, p))
      <3> HIDE DEF later
      <3>1. IsFiniteSet(later) /\ Cardinality(later) <= Cardinality(Since(l, p))
        BY <2>1, <2>2, FS_Subset
      <3> QED BY <3>1, FS_CardinalityType
    <2> QED BY <1>4, <2>2, <2>3, KeepRecentAssumption
  <1> SUFFICES ASSUME last >= p PROVE FALSE
    BY <1>1
  <1> HIDE DEF F, last
  <1>7. k \in 1..(p - 1) /\ l[k].turn # t
    BY <1>1, <1>5, <1>6 DEF Begins
  <1>8. last \in (p + 1)..Len(l) /\ l[last].kind = "compaction"
    <2>1. last # p
      BY <1>4, <1>7 DEF Begins
    <2>2. last \in (p + 1)..Len(l)
      BY <1>1, <2>1
    <2> QED BY <1>4, <1>7, <2>2 DEF Begins
  <1>9. last \in Compactions(l) /\ k \in 1..(last - 1)
    BY <1>1, <1>7, <1>8 DEF Compactions
  <1>10. k <= l[last].to
    BY <1>4, <1>9 DEF Whole
  <1>11. l[last].to < F /\ l[last].to \in Nat
    BY <1>9, FirstFreshFacts, ElementOfSeq, EventFacts DEF F, Compactions
  <1> QED BY <1>1, <1>5, <1>10, <1>11

\* An event of the running turn t, or a compaction, keeps what is spared.
LEMMA SparedAppend ==
  ASSUME log \in Seq(Event), Compacted, Whole(log), NEW e \in Event, Emit(e),
         NEW t \in Turns, NEW p \in 1..Len(log), Begins(log, t, p), SparedBy(log, p),
         e.kind # "compaction" => e.turn = t,
         e.kind = "compaction" =>
           e.to < p \/ ~(Cardinality(Since(log, p)) < KeepRecent)
                    \/ ~(\A k \in Compactions(log) : log[k].to < p)
  PROVE  p \in 1..Len(log') /\ Begins(log', t, p) /\ SparedBy(log', p)
  <1> DEFINE L == Len(log)
  <1>1. /\ L \in Nat /\ Len(log') = L + 1 /\ log'[L + 1] = e
        /\ \A q \in 1..L : log'[q] = log[q]
    BY AppendFacts
  <1> HIDE DEF L
  <1>2. p \in 1..L /\ p \in 1..Len(log')
    BY <1>1 DEF L
  <1>3. Begins(log', t, p)
    <2>1. /\ log[p].kind = "prompt" /\ log[p].turn = t
          /\ \A j \in 1..(p - 1) : log[j].turn # t
          /\ \A j \in (p + 1)..L : log[j].turn = t \/ log[j].kind = "compaction"
      BY DEF Begins, L
    <2>2. \A j \in 1..(p - 1) : log'[j].turn # t
      BY <1>1, <1>2, <2>1
    <2>3. \A j \in (p + 1)..Len(log') : log'[j].turn = t \/ log'[j].kind = "compaction"
      BY <1>1, <1>2, <2>1
    <2>4. log'[p].kind = "prompt" /\ log'[p].turn = t
      BY <1>1, <1>2, <2>1
    <2> QED BY <2>2, <2>3, <2>4 DEF Begins
  <1>4. IsFiniteSet(Since(log, p)) /\ Cardinality(Since(log, p)) \in Nat
    BY SinceFinite
  <1>5. CASE e.kind # "compaction"
    <2>1. Compactions(log') = Compactions(log) /\ \A k \in Compactions(log) : log'[k] = log[k]
      BY <1>1, <1>5 DEF Compactions, L
    <2>2. Since(log', p) = Since(log, p)
      BY <2>1 DEF Since
    <2> QED BY <1>2, <1>3, <2>1, <2>2 DEF SparedBy
  <1>6. CASE e.kind = "compaction"
    <2>1. /\ Compactions(log') = Compactions(log) \cup {L + 1}
          /\ \A k \in Compactions(log) : log'[k] = log[k]
      BY <1>1, <1>6 DEF Compactions, L
    <2>2. Since(log', p) = Since(log, p) \cup {L + 1} /\ L + 1 \notin Since(log, p)
      BY <1>1, <1>2, <2>1 DEF Since, Compactions, L
    <2>3. Cardinality(Since(log', p)) = Cardinality(Since(log, p)) + 1
      BY <1>4, <2>2, FS_AddElement
    <2>4. SparedBy(log', p)
      <3> SUFFICES ASSUME Cardinality(Since(log', p)) <= KeepRecent
                   PROVE  \A k \in Compactions(log') : log'[k].to < p
        BY DEF SparedBy
      <3>1. Cardinality(Since(log, p)) < KeepRecent
        BY <1>4, <2>3, KeepRecentAssumption
      <3>2. \A k \in Compactions(log) : log[k].to < p
        BY <1>4, <3>1, KeepRecentAssumption DEF SparedBy
      <3>3. e.to < p
        BY <1>6, <3>1, <3>2
      <3> QED BY <1>1, <2>1, <3>2, <3>3
    <2> QED BY <1>2, <1>3, <2>4
  <1> QED BY <1>5, <1>6

\* One more event leaves what compactions cover whole, unless it is of a turn
\* that one has covered.
LEMMA WholeAppend ==
  ASSUME log \in Seq(Event), Whole(log), NEW e \in Event, Emit(e),
         e.kind = "compaction" => \A j \in 1..Len(log) : log[j].turn = e.turn => j <= e.to
  PROVE  Whole(log')
  <1> DEFINE L == Len(log)
  <1>1. /\ L \in Nat /\ Len(log') = L + 1 /\ log'[L + 1] = e
        /\ \A q \in 1..L : log'[q] = log[q]
    BY AppendFacts
  <1> SUFFICES ASSUME NEW k \in Compactions(log'), NEW j \in 1..(k - 1),
                      log'[j].turn = log'[k].turn
               PROVE  j <= log'[k].to
    BY DEF Whole
  <1>2. k \in 1..(L + 1) /\ log'[k].kind = "compaction"
    BY <1>1 DEF Compactions
  <1> HIDE DEF L
  <1>3. j \in 1..L /\ log'[j] = log[j]
    BY <1>1, <1>2
  <1>4. CASE k \in 1..L
    <2>1. log'[k] = log[k] /\ k \in Compactions(log)
      BY <1>1, <1>2, <1>4 DEF Compactions, L
    <2> QED BY <1>3, <2>1 DEF Whole
  <1>5. CASE k = L + 1
    BY <1>1, <1>2, <1>3, <1>5 DEF L
  <1> QED BY <1>1, <1>2, <1>4, <1>5

\* The only turn that runs keeps it.
LEMMA SparedStep ==
  ASSUME TypeInv, Sequential, Spared, NEW t \in Turns, Alone(t), StartTurn(t) \/ TurnStep(t)
  PROVE  Spared'
  <1>1. /\ log \in Seq(Event) /\ Len(log) \in Nat /\ Compacted /\ Whole(log) /\ Backward(log)
        /\ pc \in [Turns -> Where]
    BY LenProperties DEF TypeInv, TypeOK, Spared, Compacted, Backward, Is
  <1>2. Mine(t)
    BY StepMine
  <1>3. ASSUME NEW u \in Turns \ {t} PROVE pc'[u] = pc[u] /\ ~Running(u)' /\ (pc[u] = "idle" => u # t)
    BY <1>2 DEF Mine, Alone, Running
  <1>4. CASE StartTurn(t)
    <2> DEFINE e == Note("prompt", t)
    <2>1. e \in Event /\ e.kind = "prompt" /\ e.turn = t /\ Emit(e)
      BY <1>4, NoteFacts DEF StartTurn, Note
    <2> HIDE DEF e
    <2>2. /\ Len(log') = Len(log) + 1 /\ log'[Len(log) + 1] = e
          /\ \A q \in 1..Len(log) : log'[q] = log[q]
      BY <1>1, <2>1, AppendFacts
    <2>3. pc[t] = "idle" /\ pc'[t] = "top"
      BY <1>1, <1>4 DEF StartTurn, Goto
    <2>4. Whole(log')
      BY <1>1, <2>1, WholeAppend
    <2>5. \A j \in 1..Len(log) : log[j].turn # t
      BY <2>3 DEF Spared
    <2>6. \A u \in Turns \ {t} : pc'[u] = "idle" => \A j \in 1..Len(log') : log'[j].turn # u
      BY <1>1, <1>3, <2>1, <2>2 DEF Spared
    <2>7. Begins(log', t, Len(log) + 1)
      BY <1>1, <2>1, <2>2, <2>5 DEF Begins
    <2>8. SparedBy(log', Len(log) + 1)
      <3>1. \A k \in Compactions(log') : k \in 1..Len(log) /\ log'[k].kind = "compaction"
        BY <1>1, <2>1, <2>2 DEF Compactions
      <3>2. \A k \in Compactions(log') : log'[k].to < Len(log) + 1
        <4> SUFFICES ASSUME NEW k \in Compactions(log') PROVE log'[k].to < Len(log) + 1
          OBVIOUS
        <4>1. k \in 1..Len(log) /\ log[k].kind = "compaction" /\ log'[k] = log[k]
          BY <2>2, <3>1
        <4>2. log[k].to < k /\ log[k].to \in Nat
          BY <1>1, <4>1, ElementOfSeq, EventFacts DEF Backward
        <4> QED BY <1>1, <4>1, <4>2
      <3> QED BY <3>2 DEF SparedBy
    <2>9. Len(log) + 1 \in 1..Len(log')
      BY <1>1, <2>2
    <2> QED BY <1>3, <2>3, <2>4, <2>6, <2>7, <2>8, <2>9 DEF Spared, Running
  <1>5. CASE TurnStep(t)
    <2>1. Running(t)
      BY <1>5 DEF Running, TurnStep, GiveUp, ObeyAbort, Iterate, KeepContext, Compact,
                  Summarize, Request, Respond, Fail, Overflow, Resummarize, Retry,
                  RequestTool, Stuck, Speak, Dispatch, Allow, Deny, Finish, Cancel
    <2>2. PICK p \in 1..Len(log) : Begins(log, t, p) /\ SparedBy(log, p)
      BY <2>1 DEF Spared
    <2>3. pc'[t] # "idle"
      BY <1>1, <1>5 DEF TurnStep, GiveUp, ObeyAbort, Iterate, KeepContext, Compact,
                  Summarize, Request, Respond, Fail, Overflow, Resummarize, Retry,
                  RequestTool, Stuck, Speak, Dispatch, Allow, Deny, Finish, Cancel, Goto
    <2>4. CASE log' = log
      <3>1. Whole(log') /\ Begins(log', t, p) /\ SparedBy(log', p) /\ p \in 1..Len(log')
        BY <1>1, <2>2, <2>4
      <3>2. \A u \in Turns : pc'[u] = "idle" => \A j \in 1..Len(log') : log'[j].turn # u
        BY <1>3, <2>3, <2>4 DEF Spared
      <3> QED BY <1>3, <3>1, <3>2 DEF Spared
    <2>5. ASSUME NEW e \in Event, Emit(e), e.kind # "compaction" => e.turn = t,
                 e.kind = "compaction" =>
                   /\ \A j \in 1..Len(log) : log[j].turn = e.turn => j <= e.to
                   /\ \E j \in 1..Len(log) : log[j].turn = e.turn
                   /\ \/ e.to < p \/ ~(Cardinality(Since(log, p)) < KeepRecent)
                      \/ ~(\A k \in Compactions(log) : log[k].to < p)
          PROVE  Spared'
      <3>1. /\ Len(log') = Len(log) + 1 /\ log'[Len(log) + 1] = e
            /\ \A q \in 1..Len(log) : log'[q] = log[q]
        BY <1>1, <2>5, AppendFacts
      <3>2. Whole(log')
        BY <1>1, <2>5, WholeAppend
      <3>3. p \in 1..Len(log') /\ Begins(log', t, p) /\ SparedBy(log', p)
        BY <1>1, <2>2, <2>5, SparedAppend
      <3>4. ASSUME NEW u \in Turns, pc'[u] = "idle", NEW j \in 1..Len(log')
            PROVE  log'[j].turn # u
        <4>1. u # t /\ pc[u] = "idle"
          BY <1>3, <2>3, <3>4
        <4>2. \A i \in 1..Len(log) : log[i].turn # u
          BY <4>1 DEF Spared
        <4>3. e.turn # u
          <5>1. CASE e.kind = "compaction"
            <6>1. PICK i \in 1..Len(log) : log[i].turn = e.turn
              BY <2>5, <5>1
            <6> QED BY <4>2, <6>1
          <5>2. CASE e.kind # "compaction"
            BY <2>5, <4>1, <5>2
          <5> QED BY <5>1, <5>2
        <4>4. CASE j \in 1..Len(log)
          BY <3>1, <4>2, <4>4
        <4>5. CASE j = Len(log) + 1
          BY <3>1, <4>3, <4>5
        <4> QED BY <1>1, <3>1, <3>4, <4>4, <4>5
      <3> QED BY <1>3, <3>2, <3>3, <3>4 DEF Spared
    <2>6. ASSUME NEW e \in Event, Emit(e), e.kind # "compaction", e.turn = t PROVE Spared'
      BY <2>5, <2>6
    <2>7. CASE pc[t] \in {"summarize", "resummarize"} /\ Emit(CompactionOf(t))
      <3> DEFINE e == CompactionOf(t)
      <3>1. SubSeq(log, 1, snapshot[t]) = log
        BY <1>1, <2>7, SubSeqFull DEF Sequential
      <3>2. LastReplaced(log) > 0
        BY <2>7, <3>1 DEF TypeInv, Snapshots
      <3>3. e \in Event /\ e.kind = "compaction"
        BY <2>7, CompactionFacts
      <3>4. e.to = LastReplaced(log) /\ e.turn = log[LastReplaced(log)].turn
        BY <3>1 DEF CompactionOf, Summarized
      <3> HIDE DEF e
      <3>5. LastReplaced(log) \in 1..Len(log)
        BY <1>1, <3>2, LastReplacedFacts
      <3>6. \A j \in 1..Len(log) : log[j].turn = e.turn => j <= e.to
        BY <1>1, <3>2, <3>4, LastOfItsTurn
      <3>7. \/ e.to < p \/ ~(Cardinality(Since(log, p)) < KeepRecent)
            \/ ~(\A k \in Compactions(log) : log[k].to < p)
        BY <1>1, <2>2, <3>2, <3>4, CompactionSpares
      <3>8. Emit(e)
        BY <2>7 DEF e
      <3> QED BY <2>5, <3>3, <3>4, <3>5, <3>6, <3>7, <3>8
    <2> QED BY <1>2, <2>4, <2>6, <2>7 DEF Mine
  <1> QED BY <1>4, <1>5

\* What has been said stays said.
LEMMA TakeGrows ==
  ASSUME NEW l \in Seq(Event), NEW i \in 1..Len(l), NEW st, Shape(st)
  PROVE  LET s == Take(l, st, i)
         IN  /\ Shape(s) /\ Len(st.messages) <= Len(s.messages)
             /\ \A k \in 1..Len(st.messages) : s.messages[k] = st.messages[k]
             /\ Bare(l, i) /\ l[i].kind = "prompt" =>
                  \E k \in 1..Len(s.messages) : s.messages[k] = UserMessage(l[i].turn)
  <1> DEFINE resolved == resolvedCallIds(l)
             k0 == Min(Covering(l, i))
             e == l[i]
             n == Len(st.messages)
  <1>0. e \in Event /\ e.turn \in Turns /\ n \in Nat
    BY ElementOfSeq, EventFacts, LenProperties DEF Shape
  <1>1. ASSUME NEW x \in Message
        PROVE  LET y == Say(st, resolved, x)
               IN  /\ Shape(y) /\ n <= Len(y.messages)
                   /\ \A k \in 1..n : y.messages[k] = st.messages[k]
                   /\ \E k \in 1..Len(y.messages) : y.messages[k] = x
    <2> DEFINE f == Flush(st, resolved)
               s == Say(st, resolved, x)
    <2>1. /\ n <= Len(f.messages) /\ Len(f.messages) \in Nat
          /\ \A k \in 1..n : f.messages[k] = st.messages[k]
      BY FlushFacts
    <2>2. /\ Shape(s) /\ Len(s.messages) = Len(f.messages) + 1
          /\ s.messages[Len(f.messages) + 1] = x
          /\ \A k \in 1..Len(f.messages) : s.messages[k] = f.messages[k]
      BY <1>1, SayFacts
    <2> HIDE DEF f, s, n
    <2>3. n <= Len(s.messages) /\ \A k \in 1..n : s.messages[k] = st.messages[k]
      BY <1>0, <2>1, <2>2
    <2>4. Len(f.messages) + 1 \in 1..Len(s.messages)
      BY <2>1, <2>2
    <2> QED BY <2>2, <2>3, <2>4 DEF s
  <1>2. CASE Take(l, st, i) = st /\ ~(Bare(l, i) /\ e.kind = "prompt")
    BY <1>0, <1>2
  <1>3. CASE ~Bare(l, i) /\ k0 \notin st.told
    <2> DEFINE y == Say(st, resolved, Summary)
               s == [y EXCEPT !.told = @ \cup {k0}]
    <2>1. Take(l, st, i) = s
      BY <1>3, TakeFacts
    <2>2. /\ Shape(y) /\ n <= Len(y.messages)
          /\ \A k \in 1..n : y.messages[k] = st.messages[k]
      BY <1>1, MessageFacts
    <2>3. s = [messages |-> y.messages, pending |-> y.pending, told |-> y.told \cup {k0}]
      <3>1. s = [y EXCEPT !.told = y.told \cup {k0}]
        BY <2>2 DEF Shape
      <3> HIDE DEF y, s, k0
      <3> QED BY <2>2, <3>1, Zenon DEF Shape
    <2>4. Shape(s) /\ s.messages = y.messages
      <3> HIDE DEF y, s, k0
      <3> QED BY <2>2, <2>3 DEF Shape
    <2> HIDE DEF s, y
    <2> QED BY <1>3, <2>1, <2>2, <2>4
  <1>4. CASE Bare(l, i) /\ e.kind = "prompt"
    <2>1. UserMessage(e.turn) \in Message
      BY <1>0, MessageFacts
    <2>2. Take(l, st, i) = Say(st, resolved, UserMessage(e.turn))
      BY <1>4, TakeFacts
    <2> QED BY <1>1, <2>1, <2>2
  <1>5. CASE Bare(l, i) /\ e.kind = "say"
    <2>1. Take(l, st, i) = Say(st, resolved, Text)
      BY <1>5, TakeFacts
    <2> QED BY <1>1, <1>5, <2>1, MessageFacts
  <1>6. CASE Bare(l, i) /\ e.kind = "result"
    <2>1. ToolResult(e.call) \in Message
      BY <1>0, <1>6, EventFacts, MessageFacts
    <2>2. Take(l, st, i) = Say(st, resolved, ToolResult(e.call))
      BY <1>6, TakeFacts
    <2> QED BY <1>1, <1>6, <2>1, <2>2
  <1>7. CASE Bare(l, i) /\ e.kind = "request"
    <2> DEFINE s == [st EXCEPT !.pending = Append(@, e.call)]
    <2>1. Take(l, st, i) = s
      BY <1>7, TakeFacts
    <2>2. e.call \in Calls
      BY <1>0, <1>7, EventFacts
    <2>3. s = [messages |-> st.messages, pending |-> Append(st.pending, e.call), told |-> st.told]
      <3>1. s = [st EXCEPT !.pending = Append(st.pending, e.call)]
        BY DEF Shape
      <3> HIDE DEF e, s
      <3> QED BY <3>1, Zenon DEF Shape
    <2>4. Append(st.pending, e.call) \in Seq(Calls)
      BY <2>2, AppendProperties DEF Shape
    <2> HIDE DEF s
    <2>5. Shape(s) /\ s.messages = st.messages
      BY <2>3, <2>4 DEF Shape
    <2> QED BY <1>0, <1>7, <2>1, <2>5
  <1>8. CASE (~Bare(l, i) /\ k0 \in st.told)
             \/ (Bare(l, i) /\ e.kind \notin {"prompt", "say", "result", "request"})
    BY <1>2, <1>8, TakeFacts
  <1> QED BY <1>3, <1>4, <1>5, <1>6, <1>7, <1>8

\* A prompt that nothing replaces is among the messages.
LEMMA PromptIsTold ==
  ASSUME NEW l \in Seq(Event), NEW p \in 1..Len(l), Bare(l, p), l[p].kind = "prompt"
  PROVE  \E i \in DOMAIN projectMessages(l) : projectMessages(l)[i] = UserMessage(l[p].turn)
  <1> DEFINE L == Len(l)
             x == UserMessage(l[p].turn)
             Includes(m) == \E k \in 1..Len(m) : m[k] = x
             Fine(i) == Shape(Taken(l)[i]) /\ (i >= p => Includes(Taken(l)[i].messages))
             Bad == {i \in 0..L : ~Fine(i)}
  <1>0. L \in Nat
    BY LenProperties
  <1>1. Fine(0)
    <2> DEFINE a == [messages |-> <<>>, pending |-> <<>>, told |-> {}]
    <2>1. Taken(l)[0] = a
      BY <1>0, TakenIs
    <2>2. Shape(a)
      BY DEF Shape
    <2> QED BY <2>1, <2>2
  <1>2. Bad = {}
    <2> SUFFICES ASSUME Bad # {} PROVE FALSE
      OBVIOUS
    <2>1. PICK i \in Bad : \A j \in Bad : i <= j
      <3>1. Bad \in SUBSET Nat
        BY <1>0
      <3> HIDE DEF Bad
      <3> QED BY <3>1, LeastNumber
    <2>2. i \in 1..L /\ i - 1 \in 0..L /\ i - 1 \notin Bad
      <3> HIDE DEF Fine
      <3> QED BY <1>0, <1>1, <2>1
    <2> DEFINE st == Taken(l)[i - 1]
               s == Take(l, st, i)
    <2>3. Taken(l)[i] = s
      BY <1>0, <2>2, TakenIs
    <2>4. Shape(st) /\ (i - 1 >= p => Includes(st.messages))
      BY <2>2
    <2>5. /\ Shape(s) /\ Len(st.messages) <= Len(s.messages)
          /\ \A k \in 1..Len(st.messages) : s.messages[k] = st.messages[k]
          /\ Bare(l, i) /\ l[i].kind = "prompt" =>
               \E k \in 1..Len(s.messages) : s.messages[k] = UserMessage(l[i].turn)
      <3> HIDE DEF st
      <3> QED BY <2>2, <2>4, TakeGrows
    <2>6. Len(st.messages) \in Nat /\ Len(s.messages) \in Nat
      BY <2>4, <2>5, LenProperties DEF Shape
    <2> HIDE DEF s, st
    <2>7. i >= p => Includes(s.messages)
      <3>1. CASE i = p
        BY <2>5, <3>1
      <3>2. CASE i > p
        <4>1. i - 1 >= p
          BY <2>2, <3>2
        <4>2. PICK k \in 1..Len(st.messages) : st.messages[k] = x
          BY <2>4, <4>1
        <4>3. k \in 1..Len(s.messages) /\ s.messages[k] = x
          BY <2>5, <2>6, <4>2
        <4> QED BY <4>3
      <3> QED BY <2>2, <3>1, <3>2
    <2> QED BY <2>1, <2>3, <2>5, <2>7
  <1>3. Shape(Taken(l)[L]) /\ Includes(Taken(l)[L].messages)
    BY <1>0, <1>2
  <1> DEFINE w == projectMessages(l)
             st == Taken(l)[L]
  <1>4. /\ Shape(Flush(st, resolvedCallIds(l))) /\ w = Flush(st, resolvedCallIds(l)).messages
        /\ Len(st.messages) \in Nat /\ Len(st.messages) <= Len(w) /\ Len(w) \in Nat
        /\ \A k \in 1..Len(st.messages) : w[k] = st.messages[k]
    BY <1>3, FlushFacts DEF projectMessages
  <1>5. DOMAIN w = 1..Len(w)
    BY <1>4, LenProperties DEF Shape
  <1>6. Includes(st.messages)
    BY <1>3
  <1> HIDE DEF w, st
  <1>7. PICK k \in 1..Len(st.messages) : st.messages[k] = x
    BY <1>6
  <1>8. k \in DOMAIN w /\ w[k] = x
    BY <1>4, <1>5, <1>7
  <1> QED BY <1>8 DEF w

\* As long as a session runs one turn at a time, the prompt of a turn is part
\* of what is sent to the provider until more compactions than KeepRecent have
\* been written since the turn began, whatever is aborted, denied, repeated or
\* resumed after a crash.
THEOREM OwnPromptCorrect == ~Concurrent => (Spec => []OwnPromptIsSpared)
  <1> SUFFICES ASSUME ~Concurrent PROVE Spec => []OwnPromptIsSpared
    OBVIOUS
  <1> DEFINE Inv == TypeInv /\ Sequential /\ Spared
  <1>1. Init => Inv
    <2>1. Init => Sequential
      BY DEF Init, Sequential, Running
    <2>2. Init => Spared
      BY EmptySeq DEF Init, Spared, Whole, Compactions, Running
    <2> QED BY <2>1, <2>2, TypeInit
  <1>2. Inv /\ [Next]_vars => Inv'
    <2> SUFFICES ASSUME TypeInv, Sequential, Spared, [Next]_vars PROVE Sequential' /\ Spared'
      BY TypeNext
    <2>1. ASSUME NEW t \in Turns, StartTurn(t) \/ TurnStep(t) PROVE Sequential' /\ Spared'
      <3>1. Mine(t)
        BY <2>1, StepMine
      <3>2. Alone(t)
        <4>1. CASE StartTurn(t)
          BY <4>1 DEF StartTurn, Alone
        <4>2. CASE TurnStep(t)
          <5>1. Running(t)
            BY <4>2 DEF Running, TurnStep, GiveUp, ObeyAbort, Iterate, KeepContext, Compact,
                        Summarize, Request, Respond, Fail, Overflow, Resummarize, Retry,
                        RequestTool, Stuck, Speak, Dispatch, Allow, Deny, Finish, Cancel
          <5> QED BY <5>1 DEF Sequential, Alone
        <4> QED BY <2>1, <4>1, <4>2
      <3>3. Sequential'
        BY <3>1, <3>2 DEF Sequential, Mine, Running, Alone
      <3> QED BY <2>1, <3>2, <3>3, SparedStep
    <2>2. CASE UNCHANGED <<log, pc, snapshot>>
      BY <2>2 DEF Sequential, Spared, Running
    <2>3. CASE Crash
      <3>1. log' = log /\ snapshot' = snapshot
            /\ \A u \in Turns : ~Running(u)' /\ (pc'[u] = "idle" => pc[u] = "idle")
        BY <2>3 DEF Crash, Running
      <3> QED BY <3>1 DEF Sequential, Spared, Running
    <2>4. ASSUME NEW t \in Turns, Abort(t) PROVE Sequential' /\ Spared'
      BY <2>2, <2>4 DEF Abort
    <2>5. CASE UNCHANGED vars
      BY <2>2, <2>5 DEF vars
    <2> QED BY <2>1, <2>3, <2>4, <2>5 DEF Next
  <1>3. Inv => OwnPromptIsSpared
    <2> SUFFICES ASSUME TypeInv, Sequential, Spared, NEW t \in Turns, pc[t] = "request",
                        Cardinality(CompactedSince(t)) <= KeepRecent
                 PROVE  PromptIsSent(t)
      BY DEF OwnPromptIsSpared
    <2>1. PICK p \in 1..Len(log) : Begins(log, t, p) /\ SparedBy(log, p)
      BY DEF Spared, Running
    <2>2. log \in Seq(Event) /\ Len(log) \in Nat
      BY LenProperties DEF TypeInv, TypeOK
    <2>3. CompactedSince(t) = Since(log, p)
      <3>1. ASSUME NEW k \in Compactions(log), NEW q \in 1..(k - 1),
                   log[q].kind = "prompt", log[q].turn = t
            PROVE  k > p
        <4>1. k \in 1..Len(log)
          BY DEF Compactions
        <4>2. ~(q < p)
          BY <2>1, <2>2, <3>1, <4>1 DEF Begins
        <4> QED BY <2>2, <4>1, <4>2
      <3>2. ASSUME NEW k \in Compactions(log), k > p
            PROVE  \E q \in 1..(k - 1) : log[q].kind = "prompt" /\ log[q].turn = t
        <4>1. k \in 1..Len(log)
          BY DEF Compactions
        <4>2. p \in 1..(k - 1)
          BY <2>2, <3>2, <4>1
        <4> QED BY <2>1, <4>2 DEF Begins
      <3> QED BY <3>1, <3>2 DEF CompactedSince, Since
    <2>4. \A k \in Compactions(log) : log[k].to < p
      BY <2>1, <2>3 DEF SparedBy
    <2>5. Bare(log, p)
      <3>1. \A k \in Compactions(log) : log[k].to \in Nat
        BY <2>2, ElementOfSeq, EventFacts DEF Compactions
      <3> QED BY <2>2, <2>4, <3>1 DEF Bare, Covering
    <2>6. log[p].kind = "prompt" /\ log[p].turn = t
      BY <2>1 DEF Begins
    <2>7. \E i \in DOMAIN projectMessages(log) : projectMessages(log)[i] = UserMessage(log[p].turn)
      BY <2>2, <2>5, <2>6, PromptIsTold
    <2> QED BY <2>6, <2>7 DEF PromptIsSent
  <1> QED BY <1>1, <1>2, <1>3, PTL DEF Spec
=============================================================================
