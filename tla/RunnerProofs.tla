---------------------------- MODULE RunnerProofs ----------------------------
(***************************************************************************)
(* Theorems about Runner for every set of clients and of turns, every      *)
(* bound on the log and both values of the two switches.                   *)
(***************************************************************************)
EXTENDS Runner, SequenceTheorems, TLAPS

-----------------------------------------------------------------------------
(* Queues, as the sets of the frames they carry.                           *)

\* The frames in a queue.
Frames(q) == {q[i] : i \in 1..Len(q)}

\* What each operation on a queue does to its frames.
LEMMA FramesEmpty == Frames(<<>>) = {}
  BY DEF Frames

\* The frames of a queue with one more.
LEMMA FramesAppend ==
  ASSUME NEW S, NEW q \in Seq(S), NEW f \in S
  PROVE  /\ Append(q, f) \in Seq(S)
         /\ Frames(Append(q, f)) = Frames(q) \cup {f}
  <1> DEFINE r == Append(q, f)
  <1>1. /\ r \in Seq(S) /\ Len(r) = Len(q) + 1 /\ Len(q) \in Nat
        /\ \A i \in 1..Len(q) : r[i] = q[i]
        /\ r[Len(q) + 1] = f
    BY AppendProperties, LenProperties
  <1> HIDE DEF r
  <1>2. Frames(r) \subseteq Frames(q) \cup {f}
    BY <1>1, SMT DEF Frames
  <1>3. Frames(q) \cup {f} \subseteq Frames(r)
    BY <1>1, SMT DEF Frames
  <1> QED BY <1>1, <1>2, <1>3 DEF r

\* The frames of a queue without its head.
LEMMA FramesTail ==
  ASSUME NEW S, NEW q \in Seq(S), q # <<>>
  PROVE  /\ Head(q) \in S /\ Head(q) = q[1] /\ Head(q) \in Frames(q)
         /\ Len(q) \in Nat \ {0}
         /\ Tail(q) \in Seq(S) /\ Len(Tail(q)) = Len(q) - 1
         /\ \A i \in 1..Len(q) - 1 : Tail(q)[i] = q[i + 1]
         /\ Frames(Tail(q)) \subseteq Frames(q)
         /\ Frames(q) = Frames(Tail(q)) \cup {Head(q)}
  <1>1. /\ Head(q) \in S /\ Tail(q) \in Seq(S) /\ Len(Tail(q)) = Len(q) - 1
        /\ \A i \in 1..Len(q) - 1 : Tail(q)[i] = q[i + 1]
    BY HeadTailProperties
  <1>2. Len(q) \in Nat \ {0}
    BY EmptySeq
  <1>3. Head(q) = q[1]
    BY <1>2
  <1> DEFINE r == Tail(q)
  <1>4. Frames(r) \subseteq Frames(q)
    <2> HIDE DEF r
    <2> QED BY <1>1, <1>2, SMT DEF Frames, r
  <1>5. Frames(q) \subseteq Frames(r) \cup {q[1]}
    <2>1. ASSUME NEW i \in 1..Len(q) PROVE q[i] = q[1] \/ \E j \in 1..Len(r) : q[i] = r[j]
      <3>1. CASE i = 1
        BY <3>1
      <3>2. CASE i # 1
        <4>1. i - 1 \in 1..Len(q) - 1
          BY <3>2, <1>2
        <4> QED BY <4>1, <1>1, <1>2
      <3> QED BY <3>1, <3>2
    <2> QED BY <2>1 DEF Frames
  <1>6. q[1] \in Frames(q)
    BY <1>2 DEF Frames
  <1> QED BY <1>1, <1>2, <1>3, <1>4, <1>5, <1>6

\* The frames of one queue after the other.
LEMMA FramesConcat ==
  ASSUME NEW S, NEW q \in Seq(S), NEW r \in Seq(S)
  PROVE  /\ q \o r \in Seq(S)
         /\ Frames(q \o r) = Frames(q) \cup Frames(r)
  <1> DEFINE s == q \o r
  <1>1. /\ s \in Seq(S) /\ Len(s) = Len(q) + Len(r) /\ Len(q) \in Nat /\ Len(r) \in Nat
        /\ \A i \in 1..Len(q) + Len(r) : s[i] = IF i <= Len(q) THEN q[i] ELSE r[i - Len(q)]
    BY ConcatProperties, LenProperties
  <1> HIDE DEF s
  <1>2. Frames(s) \subseteq Frames(q) \cup Frames(r)
    <2>1. ASSUME NEW i \in 1..Len(s) PROVE s[i] \in Frames(q) \cup Frames(r)
      <3>1. CASE i <= Len(q)
        BY <1>1, <3>1 DEF Frames
      <3>2. CASE ~(i <= Len(q))
        <4>1. i - Len(q) \in 1..Len(r)
          BY <1>1, <3>2
        <4> QED BY <1>1, <3>2, <4>1 DEF Frames
      <3> QED BY <3>1, <3>2
    <2> QED BY <2>1 DEF Frames
  <1>3. ASSUME NEW i \in 1..Len(q) PROVE q[i] \in Frames(s)
    BY <1>1 DEF Frames
  <1>4. ASSUME NEW i \in 1..Len(r) PROVE r[i] \in Frames(s)
    <2>1. Len(q) + i \in 1..Len(s) /\ s[Len(q) + i] = r[i]
      BY <1>1
    <2> QED BY <2>1 DEF Frames
  <1>5. Frames(q) \cup Frames(r) \subseteq Frames(s)
    BY <1>3, <1>4 DEF Frames
  <1> QED BY <1>1, <1>2, <1>5 DEF s

\* The frames of the beginning of a queue.
LEMMA FramesSubSeq ==
  ASSUME NEW S, NEW q \in Seq(S), NEW n \in 0..Len(q)
  PROVE  /\ SubSeq(q, 1, n) \in Seq(S)
         /\ Frames(SubSeq(q, 1, n)) \subseteq Frames(q)
  <1> DEFINE r == SubSeq(q, 1, n)
  <1>1. Len(q) \in Nat /\ n \in Nat
    BY LenProperties
  <1>2. \A i \in 1..n : q[i] \in S
    BY <1>1, ElementOfSeq
  <1>3. /\ r \in Seq(S) /\ Len(r) = n
        /\ \A i \in 1..n : r[i] = q[i]
    BY <1>1, <1>2, SubSeqProperties
  <1> HIDE DEF r
  <1>4. Frames(r) \subseteq Frames(q)
    BY <1>1, <1>3, SMT DEF Frames
  <1> QED BY <1>3, <1>4 DEF r

-----------------------------------------------------------------------------
(* Frames, and what sending them does to the queues.                       *)

\* The frames that are sent, and the fields of those that arrive.
LEMMA FrameShape ==
  /\ AttachReply \in ServerFrame /\ AttachRequest \in ClientFrame /\ SetResolver \in ClientFrame
  /\ \A e \in Event : EventFrame(e) \in ServerFrame
  /\ \A t \in Turns : /\ \A k \in {"turnId", "complete", "ask"} : TurnFrame(k, t) \in ServerFrame
                      /\ \A k \in {"runTurn", "abort", "answer"} : TurnFrame(k, t) \in ClientFrame
  /\ \A f \in ServerFrame : /\ f.kind = "event" => f.event \in Event
                            /\ f.kind \in {"turnId", "complete", "ask"} => f.turn \in Turns
  /\ \A f \in ClientFrame : f.kind \in {"runTurn", "abort", "answer"} => f.turn \in Turns
  BY DEF AttachReply, AttachRequest, SetResolver, EventFrame, TurnFrame, ServerFrame, ClientFrame

\* A broadcast adds its frame and no other.
LEMMA BroadcastFrames ==
  ASSUME NEW q \in [Clients -> Seq(ServerFrame)], NEW f \in ServerFrame
  PROVE  /\ Broadcast(q, f) \in [Clients -> Seq(ServerFrame)]
         /\ \A c \in Clients : Frames(Broadcast(q, f)[c]) \subseteq Frames(q[c]) \cup {f}
  <1>1. \A c \in Clients : /\ Append(q[c], f) \in Seq(ServerFrame)
                          /\ Frames(Append(q[c], f)) = Frames(q[c]) \cup {f}
    BY FramesAppend
  <1> QED BY <1>1 DEF Broadcast

\* A frame that is sent goes to one client.
LEMMA SendFrames ==
  ASSUME s2c \in [Clients -> Seq(ServerFrame)], NEW d \in Clients, NEW f \in ServerFrame
  PROVE  /\ Send(d, f) \in [Clients -> Seq(ServerFrame)]
         /\ \A c \in Clients \ {d} : Send(d, f)[c] = s2c[c]
         /\ \A c \in Clients : \A g \in Frames(Send(d, f)[c]) :
              g \in Frames(s2c[c]) \/ (c = d /\ g = f)
  <1>1. /\ Append(s2c[d], f) \in Seq(ServerFrame)
        /\ Frames(Append(s2c[d], f)) = Frames(s2c[d]) \cup {f}
    BY FramesAppend
  <1>2. CASE Reaches(d)
    <2>1. Send(d, f) = [s2c EXCEPT ![d] = Append(s2c[d], f)]
      BY <1>2 DEF Send
    <2>2. Send(d, f) \in [Clients -> Seq(ServerFrame)]
      BY <1>1, <2>1
    <2>3. Send(d, f)[d] = Append(s2c[d], f) /\ \A c \in Clients \ {d} : Send(d, f)[c] = s2c[c]
      BY <2>1
    <2>4. ASSUME NEW c \in Clients, NEW g \in Frames(Send(d, f)[c])
          PROVE  g \in Frames(s2c[c]) \/ (c = d /\ g = f)
      <3>1. CASE c = d
        BY <1>1, <2>3, <2>4, <3>1
      <3>2. CASE c # d
        <4>1. Send(d, f)[c] = s2c[c]
          BY <2>3, <3>2
        <4> QED BY <2>4, <4>1
      <3> QED BY <3>1, <3>2
    <2> QED BY <2>2, <2>3, <2>4
  <1>3. CASE ~Reaches(d)
    <2>1. Send(d, f) = s2c
      BY <1>3 DEF Send
    <2> QED BY <2>1
  <1> QED BY <1>2, <1>3

\* A request of one client.
LEMMA RequestFrames ==
  ASSUME c2s \in [Clients -> Seq(ClientFrame)], NEW d \in Clients, NEW f \in ClientFrame,
         Request(d, f)
  PROVE  /\ c2s' \in [Clients -> Seq(ClientFrame)]
         /\ \A c \in Clients \ {d} : c2s'[c] = c2s[c]
         /\ Frames(c2s'[d]) = Frames(c2s[d]) \cup {f}
         /\ \A c \in Clients : Frames(c2s'[c]) \subseteq Frames(c2s[c]) \cup {f}
  <1>1. /\ Append(c2s[d], f) \in Seq(ClientFrame)
        /\ Frames(Append(c2s[d], f)) = Frames(c2s[d]) \cup {f}
    BY FramesAppend
  <1> QED BY <1>1 DEF Request

\* One client takes the head of its queue.
LEMMA ConsumeFrames ==
  ASSUME NEW S, NEW q \in [Clients -> Seq(S)], NEW d \in Clients, q[d] # <<>>
  PROVE  /\ Head(q[d]) \in S /\ Head(q[d]) \in Frames(q[d])
         /\ Consume(q, d) \in [Clients -> Seq(S)]
         /\ \A c \in Clients \ {d} : Consume(q, d)[c] = q[c]
         /\ Frames(q[d]) = Frames(Consume(q, d)[d]) \cup {Head(q[d])}
  <1>1. /\ Head(q[d]) \in S /\ Head(q[d]) \in Frames(q[d]) /\ Tail(q[d]) \in Seq(S)
        /\ Frames(q[d]) = Frames(Tail(q[d])) \cup {Head(q[d])}
    BY FramesTail
  <1> QED BY <1>1 DEF Consume

\* The frame at the head of a queue is handled and gone.
LEMMA HandledFrame ==
  ASSUME TypeOK, NEW c \in Clients, NEW k, Received(c2s, c, k), c2s' = Consume(c2s, c)
  PROVE  /\ Head(c2s[c]) \in ClientFrame /\ Head(c2s[c]) \in Frames(c2s[c])
         /\ Head(c2s[c]).kind = k
         /\ c2s' \in [Clients -> Seq(ClientFrame)]
         /\ \A d \in Clients : Frames(c2s'[d]) \subseteq Frames(c2s[d])
  <1>1. c2s \in [Clients -> Seq(ClientFrame)] /\ c2s[c] # <<>>
    BY DEF TypeOK, Received
  <1>2. /\ Head(c2s[c]) \in ClientFrame /\ Head(c2s[c]) \in Frames(c2s[c])
        /\ Consume(c2s, c) \in [Clients -> Seq(ClientFrame)]
        /\ \A d \in Clients \ {c} : Consume(c2s, c)[d] = c2s[d]
        /\ Frames(c2s[c]) = Frames(Consume(c2s, c)[c]) \cup {Head(c2s[c])}
    BY <1>1, ConsumeFrames
  <1> QED BY <1>2 DEF Received

\* A frame that a mirror receives was in its queue, and no queue gains any.
LEMMA ReceivedFrame ==
  ASSUME TypeOK, NEW c \in Clients, NEW k, Receiving(c, k), s2c' = Consume(s2c, c)
  PROVE  /\ Head(s2c[c]) \in ServerFrame /\ Head(s2c[c]) \in Frames(s2c[c])
         /\ Head(s2c[c]).kind = k
         /\ s2c' \in [Clients -> Seq(ServerFrame)]
         /\ \A d \in Clients : Frames(s2c'[d]) \subseteq Frames(s2c[d])
  <1>1. s2c \in [Clients -> Seq(ServerFrame)] /\ s2c[c] # <<>>
    BY DEF TypeOK, Receiving, Received
  <1>2. /\ Head(s2c[c]) \in ServerFrame /\ Head(s2c[c]) \in Frames(s2c[c])
        /\ Consume(s2c, c) \in [Clients -> Seq(ServerFrame)]
        /\ \A d \in Clients \ {c} : Consume(s2c, c)[d] = s2c[d]
        /\ Frames(s2c[c]) = Frames(Consume(s2c, c)[c]) \cup {Head(s2c[c])}
    BY <1>1, ConsumeFrames
  <1> QED BY <1>2 DEF Receiving, Received

\* The replay has a frame for each event of the log, in its order.
LEMMA ReplayFrames ==
  ASSUME log \in Seq(Event)
  PROVE  /\ Replay \in Seq(ServerFrame)
         /\ Len(Replay) = Len(log) /\ Len(log) \in Nat
         /\ \A i \in 1..Len(log) : Replay[i] = EventFrame(log[i])
         /\ Frames(Replay) = {EventFrame(log[i]) : i \in 1..Len(log)}
  <1>1. Len(log) \in Nat /\ \A i \in 1..Len(log) : log[i] \in Event
    BY LenProperties, ElementOfSeq
  <1>2. Replay \in [1..Len(log) -> ServerFrame]
    BY <1>1, FrameShape DEF Replay
  <1>3. Replay \in Seq(ServerFrame)
    BY <1>1, <1>2, SeqDef
  <1>4. Len(Replay) = Len(log)
    BY <1>1, <1>2, <1>3, LenProperties DEF Replay
  <1>5. \A i \in 1..Len(log) : Replay[i] = EventFrame(log[i])
    BY DEF Replay
  <1> QED BY <1>1, <1>3, <1>4, <1>5 DEF Frames

\* EventLog.append and what it puts on the queues.
LEMMA PushEventFrames ==
  ASSUME TypeOK, NEW t \in Turns, NEW q \in [Clients -> Seq(ServerFrame)],
         \E slow \in Slow : PushEvent(t, slow, q)
  PROVE  /\ NextEvent(t) \in Event
         /\ log' \in Seq(Event) /\ Len(log) \in Nat /\ Len(log') = Len(log) + 1
         /\ \A i \in 1..Len(log) : log'[i] = log[i]
         /\ log'[Len(log) + 1] = NextEvent(t)
         /\ fanout' \in SUBSET Event /\ fanout' \subseteq fanout \cup {NextEvent(t)}
         /\ s2c' \in [Clients -> Seq(ServerFrame)]
         /\ \A c \in Clients : Frames(s2c'[c]) \subseteq Frames(q[c]) \cup {EventFrame(NextEvent(t))}
  <1>0. log \in Seq(Event) /\ fanout \in SUBSET Event
    BY DEF TypeOK
  <1> PICK slow \in Slow : PushEvent(t, slow, q)
    OBVIOUS
  <1>1. Len(log) \in Nat /\ NextEvent(t) \in Event
    BY <1>0, LenProperties DEF NextEvent, Event
  <1>2. EventFrame(NextEvent(t)) \in ServerFrame
    BY <1>1, FrameShape
  <1>3. /\ log' \in Seq(Event) /\ Len(log') = Len(log) + 1
        /\ \A i \in 1..Len(log) : log'[i] = log[i]
        /\ log'[Len(log) + 1] = NextEvent(t)
    BY <1>0, <1>1, AppendProperties DEF PushEvent
  <1>4. fanout' \in SUBSET Event /\ fanout' \subseteq fanout \cup {NextEvent(t)}
    BY <1>0, <1>1 DEF PushEvent
  <1>5. /\ s2c' \in [Clients -> Seq(ServerFrame)]
        /\ \A c \in Clients : Frames(s2c'[c]) \subseteq Frames(q[c]) \cup {EventFrame(NextEvent(t))}
    BY <1>2, BroadcastFrames DEF PushEvent
  <1> QED BY <1>1, <1>3, <1>4, <1>5

-----------------------------------------------------------------------------
(* Typing.  A step is well typed only where a turn has the owner its frames *)
(* and its call presuppose, so both are one inductive invariant.            *)

\* Who a turn belongs to: a call, a question and the frames about them are
\* found with the turn's owner and nowhere else.
Owned ==
  /\ \A t \in Turns : /\ call[t] # "none" => owner[t] \in Clients
                      /\ turn[t] # "none" => owner[t] # NoOwner
  /\ \A c \in Clients :
       /\ \A f \in Frames(c2s[c]) : f.kind \in {"runTurn", "answer"} => owner[f.turn] = c
       /\ \A f \in Frames(s2c[c]) : f.kind \in {"turnId", "ask"} => owner[f.turn] = c
       /\ \A t \in asking[c] : owner[t] = c

\* The types hold at the start ...
LEMMA TypeInit == Init => TypeOK
  <1> SUFFICES ASSUME Init PROVE TypeOK
    OBVIOUS
  <1>1. <<>> \in Seq(Event) /\ <<>> \in Seq(ServerFrame) /\ <<>> \in Seq(ClientFrame)
    BY EmptySeq
  <1> QED BY <1>1 DEF Init, TypeOK, ServerLink, ClientLink, CallState, AskState

\* ... and every step keeps them.
LEMMA TypeNext == TypeOK /\ Owned /\ [Next]_vars => TypeOK'
  <1> SUFFICES ASSUME TypeOK, Owned, [Next]_vars PROVE TypeOK'
    OBVIOUS
  <1> USE DEF sessionVars, serverVars, linkVars, callVars, clientVars
  <1>1. ASSUME NEW c \in Clients, HandleAttach(c) PROVE TypeOK'
    <2>1. Consume(c2s, c) \in [Clients -> Seq(ClientFrame)]
      BY <1>1, ConsumeFrames DEF HandleAttach, Received, TypeOK
    <2>2. s2c[c] \o Replay \o <<AttachReply>> \in Seq(ServerFrame)
      BY ReplayFrames, FrameShape, ConcatProperties DEF TypeOK
    <2>3. s2c' \in [Clients -> Seq(ServerFrame)]
      BY <1>1, <2>2 DEF HandleAttach, TypeOK
    <2> QED BY <1>1, <2>1, <2>3 DEF HandleAttach, TypeOK, ServerLink
  <1>2. ASSUME NEW c \in Clients, HandleSetResolver(c) PROVE TypeOK'
    <2>1. Consume(c2s, c) \in [Clients -> Seq(ClientFrame)]
      BY <1>2, ConsumeFrames DEF HandleSetResolver, Received, TypeOK
    <2> QED BY <1>2, <2>1 DEF HandleSetResolver, TypeOK
  <1>3. ASSUME NEW c \in Clients, HandleRunTurn(c) PROVE TypeOK'
    <2> DEFINE t == Head(c2s[c]).turn
    <2>1. Consume(c2s, c) \in [Clients -> Seq(ClientFrame)] /\ t \in Turns
      BY <1>3, ConsumeFrames, FrameShape DEF HandleRunTurn, Received, TypeOK
    <2>2. Send(c, TurnFrame("turnId", t)) \in [Clients -> Seq(ServerFrame)]
      BY <2>1, SendFrames, FrameShape DEF TypeOK
    <2>3. \E slow \in Slow : PushEvent(t, slow, Send(c, TurnFrame("turnId", t)))
      BY <1>3 DEF HandleRunTurn
    <2>5. log' \in Seq(Event) /\ fanout' \in SUBSET Event /\ s2c' \in [Clients -> Seq(ServerFrame)]
      BY <2>1, <2>2, <2>3, PushEventFrames
    <2> QED BY <1>3, <2>1, <2>5 DEF HandleRunTurn, TypeOK
  <1>4. ASSUME NEW c \in Clients, HandleAbort(c) PROVE TypeOK'
    <2>1. Consume(c2s, c) \in [Clients -> Seq(ClientFrame)] /\ Head(c2s[c]).turn \in Turns
      BY <1>4, ConsumeFrames, FrameShape DEF HandleAbort, Received, TypeOK
    <2> QED BY <1>4, <2>1 DEF HandleAbort, TypeOK
  <1>5. ASSUME NEW c \in Clients, HandleAnswer(c) PROVE TypeOK'
    <2>1. Consume(c2s, c) \in [Clients -> Seq(ClientFrame)] /\ Head(c2s[c]).turn \in Turns
      BY <1>5, ConsumeFrames, FrameShape DEF HandleAnswer, Received, TypeOK
    <2> QED BY <1>5, <2>1 DEF HandleAnswer, TypeOK, AskState
  <1>6. ASSUME NEW c \in Clients, ReceiveAttached(c) PROVE TypeOK'
    <2>1. Consume(s2c, c) \in [Clients -> Seq(ServerFrame)]
      BY <1>6, ConsumeFrames DEF ReceiveAttached, Receiving, Received, TypeOK
    <2> QED BY <1>6, <2>1 DEF ReceiveAttached, TypeOK, ClientLink
  <1>7. ASSUME NEW c \in Clients, ReceiveEvent(c) PROVE TypeOK'
    <2> DEFINE e == Head(s2c[c]).event
    <2>1. Consume(s2c, c) \in [Clients -> Seq(ServerFrame)] /\ e \in Event
      BY <1>7, ConsumeFrames, FrameShape DEF ReceiveEvent, Receiving, Received, TypeOK
    <2>2. e.turn \in Turns /\ e.seq \in Nat
      BY <2>1 DEF Event
    <2>3. Ingest(mirror[c], e) \in Seq(Event)
      BY <2>1, AppendProperties DEF Ingest, TypeOK
    <2> QED BY <1>7, <2>1, <2>2, <2>3 DEF ReceiveEvent, TypeOK
  <1>8. ASSUME NEW c \in Clients, ReceiveTurnId(c) PROVE TypeOK'
    <2>1. Consume(s2c, c) \in [Clients -> Seq(ServerFrame)] /\ Head(s2c[c]).turn \in Turns
      BY <1>8, ConsumeFrames, FrameShape DEF ReceiveTurnId, Receiving, Received, TypeOK
    <2> QED BY <1>8, <2>1 DEF ReceiveTurnId, TypeOK, CallState
  <1>9. ASSUME NEW c \in Clients, ReceiveComplete(c) PROVE TypeOK'
    <2>1. Consume(s2c, c) \in [Clients -> Seq(ServerFrame)] /\ Head(s2c[c]).turn \in Turns
      BY <1>9, ConsumeFrames, FrameShape DEF ReceiveComplete, Receiving, Received, TypeOK
    <2> DEFINE t == Head(s2c[c]).turn
    <2>2. CASE owner[t] = c /\ call[t] = "streaming"
      <3>1. finish' = [finish EXCEPT ![t] = "complete"] /\ UNCHANGED completed
        BY <1>9, <2>2 DEF ReceiveComplete
      <3> QED BY <1>9, <2>1, <3>1 DEF ReceiveComplete, TypeOK
    <2>3. CASE ~(owner[t] = c /\ call[t] = "streaming")
      <3>1. completed' = [completed EXCEPT ![c] = @ \cup {t}] /\ UNCHANGED finish
        BY <1>9, <2>3 DEF ReceiveComplete
      <3> QED BY <1>9, <2>1, <3>1 DEF ReceiveComplete, TypeOK
    <2> QED BY <2>2, <2>3
  <1>10. ASSUME NEW c \in Clients, ReceiveAsk(c) PROVE TypeOK'
    <2>1. Consume(s2c, c) \in [Clients -> Seq(ServerFrame)] /\ Head(s2c[c]).turn \in Turns
      BY <1>10, ConsumeFrames, FrameShape DEF ReceiveAsk, Receiving, Received, TypeOK
    <2> QED BY <1>10, <2>1 DEF ReceiveAsk, TypeOK
  <1>11. ASSUME NEW c \in Clients, OnDisconnect(c) PROVE TypeOK'
    BY <1>11 DEF OnDisconnect, TypeOK, ServerLink, AskState
  <1>12. ASSUME NEW c \in Clients, Connect(c) PROVE TypeOK'
    <2>1. c2s' \in [Clients -> Seq(ClientFrame)]
      BY <1>12, RequestFrames, FrameShape DEF Connect, TypeOK
    <2> QED BY <1>12, <2>1 DEF Connect, TypeOK, ServerLink, ClientLink
  <1>13. ASSUME NEW c \in Clients, SetPermissionResolver(c) PROVE TypeOK'
    <2>1. c2s' \in [Clients -> Seq(ClientFrame)]
      BY <1>13, RequestFrames, FrameShape DEF SetPermissionResolver, TypeOK
    <2> QED BY <1>13, <2>1 DEF SetPermissionResolver, TypeOK
  <1>14. ASSUME NEW c \in Clients, CloseLink(c) PROVE TypeOK'
    <2>1. \A n \in 0..Len(c2s[c]) : SubSeq(c2s[c], 1, n) \in Seq(ClientFrame)
      BY FramesSubSeq DEF TypeOK
    <2>2. c2s' \in [Clients -> Seq(ClientFrame)]
      BY <1>14, <2>1 DEF CloseLink, TypeOK
    <2>3. s2c' \in [Clients -> Seq(ServerFrame)]
      BY <1>14, EmptySeq DEF CloseLink, TypeOK
    <2> QED BY <1>14, <2>2, <2>3 DEF CloseLink, TypeOK, ClientLink, CallState
  <1>15. ASSUME NEW c \in Clients, ClearMirror(c) PROVE TypeOK'
    BY <1>15, EmptySeq DEF ClearMirror, TypeOK
  <1>16. ASSUME NEW c \in Clients, NEW t \in Turns, RunTurn(c, t) PROVE TypeOK'
    <2>1. c2s' \in [Clients -> Seq(ClientFrame)]
      BY <1>16, RequestFrames, FrameShape DEF RunTurn, TypeOK
    <2> QED BY <1>16, <2>1 DEF RunTurn, TypeOK, CallState
  <1>17. ASSUME NEW c \in Clients, NEW t \in Turns, Answer(c, t) PROVE TypeOK'
    <2>1. c2s' \in [Clients -> Seq(ClientFrame)]
      BY <1>17, RequestFrames, FrameShape DEF Answer, TypeOK
    <2> QED BY <1>17, <2>1 DEF Answer, TypeOK
  <1>18. ASSUME NEW t \in Turns, StartLocalTurn(t) PROVE TypeOK'
    <2>1. s2c \in [Clients -> Seq(ServerFrame)] /\ \E slow \in Slow : PushEvent(t, slow, s2c)
      BY <1>18 DEF StartLocalTurn, TypeOK
    <2>2. log' \in Seq(Event) /\ fanout' \in SUBSET Event /\ s2c' \in [Clients -> Seq(ServerFrame)]
      BY <2>1, PushEventFrames
    <2> QED BY <1>18, <2>2 DEF StartLocalTurn, TypeOK
  <1>19. ASSUME NEW t \in Turns, Emit(t) PROVE TypeOK'
    <2>1. s2c \in [Clients -> Seq(ServerFrame)] /\ \E slow \in Slow : PushEvent(t, slow, s2c)
      BY <1>19 DEF Emit, TypeOK
    <2>2. log' \in Seq(Event) /\ fanout' \in SUBSET Event /\ s2c' \in [Clients -> Seq(ServerFrame)]
      BY <2>1, PushEventFrames
    <2> QED BY <1>19, <2>2 DEF Emit, TypeOK
  <1>20. ASSUME NEW t \in Turns, AskPermission(t) PROVE TypeOK'
    <2>1. s2c' \in [Clients -> Seq(ServerFrame)]
      BY <1>20, SendFrames, FrameShape DEF AskPermission, Routed, TypeOK
    <2> QED BY <1>20, <2>1 DEF AskPermission, TypeOK, AskState
  <1>21. ASSUME NEW t \in Turns, CompleteTurn(t) PROVE TypeOK'
    <2>1. s2c' \in [Clients -> Seq(ServerFrame)]
      BY <1>21, BroadcastFrames, FrameShape DEF CompleteTurn, TypeOK
    <2> QED BY <1>21, <2>1 DEF CompleteTurn, TypeOK
  <1>22. ASSUME NEW t \in Turns, RegisterStream(t) PROVE TypeOK'
    <2>1. owner[t] \in Clients
      BY <1>22 DEF RegisterStream, Owned
    <2>2. \A i \in 1..Len(mirror[owner[t]]) : mirror[owner[t]][i] \in Event
      BY <2>1, ElementOfSeq DEF TypeOK
    <2>3. ByTurn(mirror[owner[t]], t) \in SUBSET Nat
      BY <2>2 DEF ByTurn, Event
    <2> QED BY <1>22, <2>1, <2>3 DEF RegisterStream, TypeOK, CallState
  <1>23. ASSUME NEW t \in Turns, EndStream(t) PROVE TypeOK'
    BY <1>23 DEF EndStream, TypeOK, CallState
  <1>24. ASSUME NEW t \in Turns, LeaveStream(t) PROVE TypeOK'
    BY <1>24 DEF LeaveStream, TypeOK, CallState
  <1>25. ASSUME NEW t \in Turns, AbortTurn(t) PROVE TypeOK'
    <2>1. owner[t] \in Clients
      BY <1>25 DEF AbortTurn, Owned
    <2>2. c2s' \in [Clients -> Seq(ClientFrame)]
      BY <1>25, <2>1, RequestFrames, FrameShape DEF AbortTurn, TypeOK
    <2> QED BY <1>25, <2>2 DEF AbortTurn, TypeOK
  <1>26. ASSUME NEW e \in fanout, FanOut(e) PROVE TypeOK'
    <2>1. EventFrame(e) \in ServerFrame
      BY FrameShape DEF TypeOK
    <2>2. s2c' \in [Clients -> Seq(ServerFrame)]
      BY <1>26, <2>1, BroadcastFrames DEF FanOut, TypeOK
    <2> QED BY <1>26, <2>2 DEF FanOut, TypeOK
  <1>27. ASSUME Close PROVE TypeOK'
    BY <1>27 DEF Close, TypeOK, ServerLink
  <1>28. CASE UNCHANGED vars
    BY <1>28 DEF vars, TypeOK
  <1> QED
    BY <1>1, <1>2, <1>3, <1>4, <1>5, <1>6, <1>7, <1>8, <1>9, <1>10, <1>11, <1>12, <1>13,
       <1>14, <1>15, <1>16, <1>17, <1>18, <1>19, <1>20, <1>21, <1>22, <1>23, <1>24, <1>25,
       <1>26, <1>27, <1>28
    DEF Next, HandleFrame, ReceiveFrame, TurnStep, CallStep

\* Turns have their owners at the start ...
LEMMA OwnedInit == Init => Owned
  BY FramesEmpty DEF Init, Owned

\* ... and every step keeps that.
LEMMA OwnedNext == TypeOK /\ Owned /\ [Next]_vars => Owned'
  <1> SUFFICES ASSUME TypeOK, Owned, [Next]_vars PROVE Owned'
    OBVIOUS
  <1> USE RunnerAssumption DEF sessionVars, serverVars, linkVars, callVars, clientVars
  <1>1. ASSUME NEW c \in Clients, HandleAttach(c) PROVE Owned'
    <2>1. \A d \in Clients : Frames(c2s'[d]) \subseteq Frames(c2s[d])
      BY <1>1, HandledFrame DEF HandleAttach
    <2>2. Frames(s2c[c] \o Replay \o <<AttachReply>>)
            = Frames(s2c[c]) \cup Frames(Replay) \cup {AttachReply}
      <3>1. /\ Replay \in Seq(ServerFrame) /\ <<AttachReply>> \in Seq(ServerFrame)
            /\ Frames(<<AttachReply>>) = {AttachReply}
        BY ReplayFrames, FrameShape DEF TypeOK, Frames
      <3>2. s2c[c] \in Seq(ServerFrame)
        BY DEF TypeOK
      <3>3. /\ s2c[c] \o Replay \in Seq(ServerFrame)
            /\ Frames(s2c[c] \o Replay) = Frames(s2c[c]) \cup Frames(Replay)
        BY <3>1, <3>2, FramesConcat
      <3>4. Frames((s2c[c] \o Replay) \o <<AttachReply>>)
              = Frames(s2c[c] \o Replay) \cup Frames(<<AttachReply>>)
        <4> DEFINE q == s2c[c] \o Replay
                   r == <<AttachReply>>
        <4>1. q \in Seq(ServerFrame) /\ r \in Seq(ServerFrame)
          BY <3>1, <3>3
        <4> HIDE DEF q, r
        <4>2. Frames(q \o r) = Frames(q) \cup Frames(r)
          BY <4>1, FramesConcat
        <4> QED BY <4>2 DEF q, r
      <3> QED BY <3>1, <3>3, <3>4
    <2>3. \A f \in Frames(Replay) \cup {AttachReply} : f.kind \notin {"turnId", "ask"}
      BY ReplayFrames DEF TypeOK, EventFrame, AttachReply
    <2>4. \A d \in Clients : \A f \in Frames(s2c'[d]) :
            f \in Frames(s2c[d]) \/ f.kind \notin {"turnId", "ask"}
      BY <1>1, <2>2, <2>3 DEF HandleAttach, TypeOK
    <2> QED BY <1>1, <2>1, <2>4 DEF HandleAttach, Owned
  <1>2. ASSUME NEW c \in Clients, HandleSetResolver(c) PROVE Owned'
    <2>1. \A d \in Clients : Frames(c2s'[d]) \subseteq Frames(c2s[d])
      BY <1>2, HandledFrame DEF HandleSetResolver
    <2> QED BY <1>2, <2>1 DEF HandleSetResolver, Owned
  <1>3. ASSUME NEW c \in Clients, HandleRunTurn(c) PROVE Owned'
    <2>1. /\ Head(c2s[c]) \in ClientFrame /\ Head(c2s[c]) \in Frames(c2s[c])
          /\ Head(c2s[c]).kind = "runTurn"
          /\ \A d \in Clients : Frames(c2s'[d]) \subseteq Frames(c2s[d])
      BY <1>3, HandledFrame DEF HandleRunTurn
    <2>2. PICK t \in Turns : t = Head(c2s[c]).turn /\ owner[t] = c
      BY <2>1, FrameShape DEF Owned
    <2> DEFINE q == Send(c, TurnFrame("turnId", t))
    <2>3. \E slow \in Slow : PushEvent(t, slow, q)
      BY <1>3, <2>2 DEF HandleRunTurn
    <2>4. /\ q \in [Clients -> Seq(ServerFrame)]
          /\ \A d \in Clients : \A f \in Frames(q[d]) :
               f \in Frames(s2c[d]) \/ (d = c /\ f = TurnFrame("turnId", t))
      <3>1. TurnFrame("turnId", t) \in ServerFrame /\ s2c \in [Clients -> Seq(ServerFrame)]
        BY FrameShape DEF TypeOK
      <3> QED BY <3>1, SendFrames
    <2> HIDE DEF q
    <2>5. \A d \in Clients : Frames(s2c'[d]) \subseteq Frames(q[d]) \cup {EventFrame(NextEvent(t))}
      BY <2>3, <2>4, PushEventFrames
    <2>6. \A d \in Clients : \A f \in Frames(s2c'[d]) :
            f.kind \in {"turnId", "ask"} => owner[f.turn] = d
      BY <2>2, <2>4, <2>5 DEF Owned, TurnFrame, EventFrame
    <2> QED BY <1>3, <2>1, <2>2, <2>6 DEF HandleRunTurn, Owned, TypeOK
  <1>4. ASSUME NEW c \in Clients, HandleAbort(c) PROVE Owned'
    <2>1. \A d \in Clients : Frames(c2s'[d]) \subseteq Frames(c2s[d])
      BY <1>4, HandledFrame DEF HandleAbort
    <2> QED BY <1>4, <2>1 DEF HandleAbort, Owned
  <1>5. ASSUME NEW c \in Clients, HandleAnswer(c) PROVE Owned'
    <2>1. \A d \in Clients : Frames(c2s'[d]) \subseteq Frames(c2s[d])
      BY <1>5, HandledFrame DEF HandleAnswer
    <2> QED BY <1>5, <2>1 DEF HandleAnswer, Owned
  <1>6. ASSUME NEW c \in Clients, ReceiveAttached(c) PROVE Owned'
    <2>1. \A d \in Clients : Frames(s2c'[d]) \subseteq Frames(s2c[d])
      BY <1>6, ReceivedFrame DEF ReceiveAttached
    <2> QED BY <1>6, <2>1 DEF ReceiveAttached, Owned
  <1>7. ASSUME NEW c \in Clients, ReceiveEvent(c) PROVE Owned'
    <2>1. \A d \in Clients : Frames(s2c'[d]) \subseteq Frames(s2c[d])
      BY <1>7, ReceivedFrame DEF ReceiveEvent
    <2> QED BY <1>7, <2>1 DEF ReceiveEvent, Owned
  <1>8. ASSUME NEW c \in Clients, ReceiveTurnId(c) PROVE Owned'
    <2>1. /\ Head(s2c[c]) \in Frames(s2c[c])
          /\ \A d \in Clients : Frames(s2c'[d]) \subseteq Frames(s2c[d])
      BY <1>8, ReceivedFrame DEF ReceiveTurnId
    <2>2. owner[Head(s2c[c]).turn] = c
      BY <1>8, <2>1 DEF ReceiveTurnId, Receiving, Received, Owned
    <2> QED BY <1>8, <2>1, <2>2 DEF ReceiveTurnId, Owned, TypeOK
  <1>9. ASSUME NEW c \in Clients, ReceiveComplete(c) PROVE Owned'
    <2>1. \A d \in Clients : Frames(s2c'[d]) \subseteq Frames(s2c[d])
      BY <1>9, ReceivedFrame DEF ReceiveComplete
    <2> QED BY <1>9, <2>1 DEF ReceiveComplete, Owned
  <1>10. ASSUME NEW c \in Clients, ReceiveAsk(c) PROVE Owned'
    <2>1. /\ Head(s2c[c]) \in Frames(s2c[c])
          /\ \A d \in Clients : Frames(s2c'[d]) \subseteq Frames(s2c[d])
      BY <1>10, ReceivedFrame DEF ReceiveAsk
    <2>2. owner[Head(s2c[c]).turn] = c
      BY <1>10, <2>1 DEF ReceiveAsk, Receiving, Received, Owned
    <2> QED BY <1>10, <2>1, <2>2 DEF ReceiveAsk, Owned, TypeOK
  <1>11. ASSUME NEW c \in Clients, OnDisconnect(c) PROVE Owned'
    BY <1>11 DEF OnDisconnect, Owned
  <1>12. ASSUME NEW c \in Clients, Connect(c) PROVE Owned'
    <2>1. \A d \in Clients : Frames(c2s'[d]) \subseteq Frames(c2s[d]) \cup {AttachRequest}
      BY <1>12, RequestFrames, FrameShape DEF Connect, TypeOK
    <2> QED BY <1>12, <2>1 DEF Connect, Owned, AttachRequest
  <1>13. ASSUME NEW c \in Clients, SetPermissionResolver(c) PROVE Owned'
    <2>1. \A d \in Clients : Frames(c2s'[d]) \subseteq Frames(c2s[d]) \cup {SetResolver}
      BY <1>13, RequestFrames, FrameShape DEF SetPermissionResolver, TypeOK
    <2> QED BY <1>13, <2>1 DEF SetPermissionResolver, Owned, SetResolver
  <1>14. ASSUME NEW c \in Clients, CloseLink(c) PROVE Owned'
    <2>1. \A n \in 0..Len(c2s[c]) : Frames(SubSeq(c2s[c], 1, n)) \subseteq Frames(c2s[c])
      BY FramesSubSeq DEF TypeOK
    <2>2. \A d \in Clients : Frames(c2s'[d]) \subseteq Frames(c2s[d])
      BY <1>14, <2>1 DEF CloseLink, TypeOK
    <2>3. \A d \in Clients : Frames(s2c'[d]) \subseteq Frames(s2c[d])
      BY <1>14, FramesEmpty DEF CloseLink, TypeOK
    <2> QED BY <1>14, <2>2, <2>3 DEF CloseLink, Owned, TypeOK
  <1>15. ASSUME NEW c \in Clients, ClearMirror(c) PROVE Owned'
    BY <1>15 DEF ClearMirror, Owned
  <1>16. ASSUME NEW c \in Clients, NEW t \in Turns, RunTurn(c, t) PROVE Owned'
    <2>1. \A d \in Clients :
            Frames(c2s'[d]) \subseteq Frames(c2s[d]) \cup IF d = c THEN {TurnFrame("runTurn", t)} ELSE {}
      BY <1>16, RequestFrames, FrameShape DEF RunTurn, TypeOK
    <2>2. owner[t] = NoOwner /\ owner' = [owner EXCEPT ![t] = c]
      BY <1>16 DEF RunTurn
    <2>3. \A d \in Clients, u \in Turns : owner[u] = d => owner'[u] = d
      BY <2>2 DEF TypeOK
    <2>4. \A d \in Clients : \A f \in Frames(c2s'[d]) :
            f.kind \in {"runTurn", "answer"} => owner'[f.turn] = d
      <3> SUFFICES ASSUME NEW d \in Clients, NEW f \in Frames(c2s'[d]),
                          f.kind \in {"runTurn", "answer"}
                   PROVE  owner'[f.turn] = d
        OBVIOUS
      <3>1. CASE f \in Frames(c2s[d])
        <4>1. f \in ClientFrame
          BY <3>1, ElementOfSeq DEF Frames, TypeOK
        <4> QED BY <2>3, <3>1, <4>1, FrameShape DEF Owned
      <3>2. CASE d = c /\ f = TurnFrame("runTurn", t)
        BY <2>2, <3>2 DEF TurnFrame, TypeOK
      <3> QED BY <2>1, <3>1, <3>2
    <2>5. \A d \in Clients : \A f \in Frames(s2c[d]) :
            f.kind \in {"turnId", "ask"} => owner'[f.turn] = d
      <3> SUFFICES ASSUME NEW d \in Clients, NEW f \in Frames(s2c[d]),
                          f.kind \in {"turnId", "ask"}
                   PROVE  owner'[f.turn] = d
        OBVIOUS
      <3>1. f \in ServerFrame
        BY ElementOfSeq DEF Frames, TypeOK
      <3> QED BY <2>3, <3>1, FrameShape DEF Owned
    <2>6. \A d \in Clients : \A u \in asking[d] : owner'[u] = d
      BY <2>3 DEF Owned, TypeOK
    <2>7. \A u \in Turns : /\ call'[u] # "none" => owner'[u] \in Clients
                           /\ turn[u] # "none" => owner'[u] # NoOwner
      BY <1>16, <2>2 DEF RunTurn, Owned, TypeOK
    <2>8. s2c' = s2c /\ asking' = asking /\ turn' = turn
      BY <1>16 DEF RunTurn
    <2>9. \A d \in Clients : \A f \in Frames(s2c'[d]) :
            f.kind \in {"turnId", "ask"} => owner'[f.turn] = d
      BY <2>5, <2>8
    <2>10. \A d \in Clients : \A u \in asking'[d] : owner'[u] = d
      BY <2>6, <2>8
    <2> QED BY <2>4, <2>7, <2>8, <2>9, <2>10 DEF Owned
  <1>17. ASSUME NEW c \in Clients, NEW t \in Turns, Answer(c, t) PROVE Owned'
    <2>1. \A d \in Clients :
            Frames(c2s'[d]) \subseteq Frames(c2s[d]) \cup IF d = c THEN {TurnFrame("answer", t)} ELSE {}
      BY <1>17, RequestFrames, FrameShape DEF Answer, TypeOK
    <2>2. owner[t] = c
      BY <1>17 DEF Answer, Owned
    <2> QED BY <1>17, <2>1, <2>2 DEF Answer, Owned, TurnFrame, TypeOK
  <1>18. ASSUME NEW t \in Turns, StartLocalTurn(t) PROVE Owned'
    <2>1. s2c \in [Clients -> Seq(ServerFrame)] /\ \E slow \in Slow : PushEvent(t, slow, s2c)
      BY <1>18 DEF StartLocalTurn, TypeOK
    <2>2. \A d \in Clients : Frames(s2c'[d]) \subseteq Frames(s2c[d]) \cup {EventFrame(NextEvent(t))}
      BY <2>1, PushEventFrames
    <2>3. owner[t] = NoOwner /\ owner' = [owner EXCEPT ![t] = Local]
      BY <1>18 DEF StartLocalTurn
    <2>4. \A d \in Clients, u \in Turns : owner[u] = d => owner'[u] = d
      BY <2>3 DEF TypeOK
    <2>5. \A d \in Clients : \A f \in Frames(s2c'[d]) :
            f.kind \in {"turnId", "ask"} => owner'[f.turn] = d
      <3> SUFFICES ASSUME NEW d \in Clients, NEW f \in Frames(s2c'[d]),
                          f.kind \in {"turnId", "ask"}
                   PROVE  owner'[f.turn] = d
        OBVIOUS
      <3>1. f \in Frames(s2c[d])
        BY <2>2 DEF EventFrame
      <3>2. f \in ServerFrame
        BY <3>1, ElementOfSeq DEF Frames, TypeOK
      <3> QED BY <2>4, <3>1, <3>2, FrameShape DEF Owned
    <2>6. \A d \in Clients : \A f \in Frames(c2s[d]) :
            f.kind \in {"runTurn", "answer"} => owner'[f.turn] = d
      <3> SUFFICES ASSUME NEW d \in Clients, NEW f \in Frames(c2s[d]),
                          f.kind \in {"runTurn", "answer"}
                   PROVE  owner'[f.turn] = d
        OBVIOUS
      <3>1. f \in ClientFrame
        BY ElementOfSeq DEF Frames, TypeOK
      <3> QED BY <2>4, <3>1, FrameShape DEF Owned
    <2>7. \A d \in Clients : \A u \in asking[d] : owner'[u] = d
      BY <2>4 DEF Owned, TypeOK
    <2>8. \A u \in Turns : /\ call[u] # "none" => owner'[u] \in Clients
                           /\ turn'[u] # "none" => owner'[u] # NoOwner
      BY <1>18, <2>3 DEF StartLocalTurn, Owned, TypeOK
    <2> QED BY <1>18, <2>5, <2>6, <2>7, <2>8 DEF StartLocalTurn, Owned
  <1>19. ASSUME NEW t \in Turns, Emit(t) PROVE Owned'
    <2>1. s2c \in [Clients -> Seq(ServerFrame)] /\ \E slow \in Slow : PushEvent(t, slow, s2c)
      BY <1>19 DEF Emit, TypeOK
    <2>2. \A d \in Clients : Frames(s2c'[d]) \subseteq Frames(s2c[d]) \cup {EventFrame(NextEvent(t))}
      BY <2>1, PushEventFrames
    <2> QED BY <1>19, <2>2 DEF Emit, Owned, EventFrame
  <1>20. ASSUME NEW t \in Turns, AskPermission(t) PROVE Owned'
    <2>1. CASE Routed(t)
      <3>1. owner[t] \in Clients /\ s2c' = Send(owner[t], TurnFrame("ask", t))
        BY <1>20, <2>1 DEF AskPermission, Routed
      <3>2. \A d \in Clients : \A f \in Frames(s2c'[d]) :
              f \in Frames(s2c[d]) \/ (d = owner[t] /\ f = TurnFrame("ask", t))
        <4>1. TurnFrame("ask", t) \in ServerFrame /\ s2c \in [Clients -> Seq(ServerFrame)]
          BY FrameShape DEF TypeOK
        <4> QED BY <3>1, <4>1, SendFrames
      <3> QED BY <1>20, <3>2 DEF AskPermission, Owned, TurnFrame
    <2>2. CASE ~Routed(t)
      BY <1>20, <2>2 DEF AskPermission, Owned
    <2> QED BY <2>1, <2>2
  <1>21. ASSUME NEW t \in Turns, CompleteTurn(t) PROVE Owned'
    <2>1. \A d \in Clients : Frames(s2c'[d]) \subseteq Frames(s2c[d]) \cup {TurnFrame("complete", t)}
      BY <1>21, BroadcastFrames, FrameShape DEF CompleteTurn, TypeOK
    <2>2. \A d \in Clients : \A f \in Frames(s2c'[d]) :
            f.kind \in {"turnId", "ask"} => owner[f.turn] = d
      BY <2>1 DEF Owned, TurnFrame
    <2>3. /\ owner[t] # NoOwner
          /\ turn' = [turn EXCEPT ![t] = "done"]
          /\ owner' = owner /\ c2s' = c2s /\ asking' = asking /\ call' = call
      BY <1>21 DEF CompleteTurn, Owned
    <2> QED BY <2>2, <2>3 DEF Owned, TypeOK
  <1>22. ASSUME NEW t \in Turns, RegisterStream(t) PROVE Owned'
    BY <1>22 DEF RegisterStream, Owned, TypeOK
  <1>23. ASSUME NEW t \in Turns, EndStream(t) PROVE Owned'
    BY <1>23 DEF EndStream, Owned, TypeOK
  <1>24. ASSUME NEW t \in Turns, LeaveStream(t) PROVE Owned'
    BY <1>24 DEF LeaveStream, Owned, TypeOK
  <1>25. ASSUME NEW t \in Turns, AbortTurn(t) PROVE Owned'
    <2>1. owner[t] \in Clients
      BY <1>25 DEF AbortTurn, Owned
    <2>2. \A d \in Clients : Frames(c2s'[d]) \subseteq Frames(c2s[d]) \cup {TurnFrame("abort", t)}
      BY <1>25, <2>1, RequestFrames, FrameShape DEF AbortTurn, TypeOK
    <2> QED BY <1>25, <2>2 DEF AbortTurn, Owned, TurnFrame
  <1>26. ASSUME NEW e \in fanout, FanOut(e) PROVE Owned'
    <2>1. \A d \in Clients : Frames(s2c'[d]) \subseteq Frames(s2c[d]) \cup {EventFrame(e)}
      BY <1>26, BroadcastFrames, FrameShape DEF FanOut, TypeOK
    <2> QED BY <1>26, <2>1 DEF FanOut, Owned, EventFrame
  <1>27. ASSUME Close PROVE Owned'
    BY <1>27 DEF Close, Owned
  <1>28. CASE UNCHANGED vars
    BY <1>28 DEF vars, Owned
  <1> QED
    BY <1>1, <1>2, <1>3, <1>4, <1>5, <1>6, <1>7, <1>8, <1>9, <1>10, <1>11, <1>12, <1>13,
       <1>14, <1>15, <1>16, <1>17, <1>18, <1>19, <1>20, <1>21, <1>22, <1>23, <1>24, <1>25,
       <1>26, <1>27, <1>28
    DEF Next, HandleFrame, ReceiveFrame, TurnStep, CallStep

\* Every variable keeps its type: no step takes a frame for what it is not.
THEOREM TypeCorrect == Spec => [](TypeOK /\ Owned)
  <1>1. Init => TypeOK /\ Owned
    BY TypeInit, OwnedInit
  <1>2. (TypeOK /\ Owned) /\ [Next]_vars => (TypeOK /\ Owned)'
    BY TypeNext, OwnedNext
  <1> QED BY <1>1, <1>2, PTL DEF Spec

-----------------------------------------------------------------------------
(* Mirrors.  Whatever is on its way to a mirror is an event of the log in    *)
(* its place, so a mirror that accepts nothing but the next seq can only     *)
(* ever be a beginning of the log.  Holds with suspended hooks and cleared   *)
(* views too.                                                                *)

\* The event stands in the log at its number.
Logged(e) == e.seq + 1 \in 1..Len(log) /\ e = log[e.seq + 1]

\* Every event on its way to a client is one of the log.
FromLog ==
  /\ \A i \in 1..Len(log) : log[i].seq = i - 1
  /\ \A e \in fanout : Logged(e)
  /\ \A c \in Clients : \A f \in Frames(s2c[c]) : f.kind = "event" => Logged(f.event)

\* What mirrors have and queues hold is of the log at the start ...
LEMMA FromLogInit == Init => FromLog /\ MirrorIsPrefix
  BY FramesEmpty DEF Init, FromLog, MirrorIsPrefix

\* A step that appends nothing and sends no event but logged ones.
LEMMA NothingAppended ==
  ASSUME TypeOK, FromLog,
         log' = log, fanout' \subseteq fanout,
         \A d \in Clients : \A f \in Frames(s2c'[d]) :
            f \in Frames(s2c[d]) \/ f.kind # "event" \/ Logged(f.event)
  PROVE  FromLog'
  BY DEF FromLog, Logged

\* A step that appends an event.
LEMMA EventAppended ==
  ASSUME TypeOK, FromLog, MirrorIsPrefix, NEW t \in Turns,
         NEW q \in [Clients -> Seq(ServerFrame)],
         \A d \in Clients : \A f \in Frames(q[d]) : f.kind = "event" => Logged(f.event),
         \E slow \in Slow : PushEvent(t, slow, q),
         mirror' = mirror
  PROVE  FromLog' /\ MirrorIsPrefix'
  <1>0. NextEvent(t) \in Event /\ NextEvent(t).seq = Len(log)
    BY PushEventFrames DEF NextEvent
  <1> PICK new \in Event : new = NextEvent(t) /\ new.seq = Len(log)
    BY <1>0
  <1>1. /\ Len(log) \in Nat /\ Len(log') = Len(log) + 1
        /\ \A i \in 1..Len(log) : log'[i] = log[i]
        /\ log'[Len(log) + 1] = new
        /\ fanout' \in SUBSET Event /\ fanout' \subseteq fanout \cup {new}
        /\ s2c' \in [Clients -> Seq(ServerFrame)]
        /\ \A d \in Clients : Frames(s2c'[d]) \subseteq Frames(q[d]) \cup {EventFrame(new)}
    BY PushEventFrames
  <1>2. \A e \in Event : Logged(e) => Logged(e)'
    BY <1>1 DEF Logged, Event
  <1>3. Logged(new)'
    BY <1>1 DEF Logged
  <1>4. \A i \in 1..Len(log') : log'[i].seq = i - 1
    <2> SUFFICES ASSUME NEW i \in 1..Len(log') PROVE log'[i].seq = i - 1
      OBVIOUS
    <2>1. CASE i = Len(log) + 1
      BY <1>1, <2>1
    <2>2. CASE i \in 1..Len(log)
      BY <1>1, <2>2 DEF FromLog
    <2> QED BY <1>1, <2>1, <2>2
  <1>5. \A e \in fanout' : Logged(e)'
    <2> SUFFICES ASSUME NEW e \in fanout' PROVE Logged(e)'
      OBVIOUS
    <2> QED BY <1>1, <1>2, <1>3 DEF FromLog, TypeOK
  <1>6. \A d \in Clients : \A f \in Frames(s2c'[d]) : f.kind = "event" => Logged(f.event)'
    <2> SUFFICES ASSUME NEW d \in Clients, NEW f \in Frames(s2c'[d]), f.kind = "event"
                 PROVE  Logged(f.event)'
      OBVIOUS
    <2>1. CASE f \in Frames(q[d])
      <3>1. f \in ServerFrame
        BY <2>1, ElementOfSeq DEF Frames
      <3> QED BY <1>2, <2>1, <3>1, FrameShape
    <2>2. CASE f = EventFrame(new)
      <3>1. f.event = new
        BY <2>2 DEF EventFrame
      <3> QED BY <1>3, <3>1
    <2> QED BY <1>1, <2>1, <2>2
  <1>7. MirrorIsPrefix'
    <2> SUFFICES ASSUME NEW c \in Clients
                 PROVE  /\ Len(mirror[c]) <= Len(log')
                        /\ \A i \in 1..Len(mirror[c]) : mirror[c][i] = log'[i]
      BY DEF MirrorIsPrefix
    <2>1. Len(mirror[c]) \in Nat /\ Len(mirror[c]) <= Len(log)
      BY LenProperties DEF TypeOK, MirrorIsPrefix
    <2>2. \A i \in 1..Len(mirror[c]) : i \in 1..Len(log) /\ mirror[c][i] = log[i]
      BY <1>1, <2>1 DEF MirrorIsPrefix
    <2> QED BY <1>1, <2>1, <2>2
  <1> QED BY <1>4, <1>5, <1>6, <1>7 DEF FromLog

\* ... and every step keeps that.
LEMMA FromLogNext ==
  TypeOK /\ Owned /\ FromLog /\ MirrorIsPrefix /\ [Next]_vars => FromLog' /\ MirrorIsPrefix'
  <1> SUFFICES ASSUME TypeOK, Owned, FromLog, MirrorIsPrefix, [Next]_vars
               PROVE  FromLog' /\ MirrorIsPrefix'
    OBVIOUS
  <1> DEFINE Goal == FromLog' /\ MirrorIsPrefix'
             Unlogged(d, f) == f \in Frames(s2c[d]) \/ f.kind # "event" \/ Logged(f.event)
  <1> USE DEF sessionVars, serverVars, linkVars, callVars, clientVars
  <1>kept. ASSUME log' = log, mirror' = mirror PROVE MirrorIsPrefix'
    BY <1>kept DEF MirrorIsPrefix
  <1>same. ASSUME log' = log, fanout' = fanout, mirror' = mirror,
                  \A d \in Clients : Frames(s2c'[d]) \subseteq Frames(s2c[d])
           PROVE  Goal
    BY <1>same, <1>kept, NothingAppended
  <1>1. ASSUME NEW c \in Clients, HandleAttach(c) PROVE Goal
    <2>1. /\ Replay \in Seq(ServerFrame) /\ <<AttachReply>> \in Seq(ServerFrame)
          /\ s2c[c] \in Seq(ServerFrame)
      BY ReplayFrames, FrameShape DEF TypeOK
    <2>2. ASSUME NEW f \in Frames(s2c[c] \o Replay \o <<AttachReply>>) PROVE Unlogged(c, f)
      <3> DEFINE r == <<AttachReply>>
                 q == s2c[c] \o Replay
      <3>1. q \in Seq(ServerFrame) /\ Frames(q) = Frames(s2c[c]) \cup Frames(Replay)
        BY <2>1, FramesConcat
      <3>2. r \in Seq(ServerFrame) /\ Frames(r) = {AttachReply} /\ f \in Frames(q \o r)
        BY <2>1, <2>2 DEF Frames
      <3> HIDE DEF q, r
      <3>3. Frames(q \o r) = Frames(q) \cup Frames(r)
        BY <3>1, <3>2, FramesConcat
      <3>4. CASE f \in Frames(Replay)
        <4>1. PICK i \in 1..Len(log) : f = EventFrame(log[i])
          BY <3>4, ReplayFrames DEF TypeOK
        <4>2. f.event = log[i] /\ log[i].seq = i - 1 /\ Len(log) \in Nat
          BY <4>1, ReplayFrames DEF EventFrame, FromLog, TypeOK
        <4>3. Logged(log[i])
          BY <4>2 DEF Logged
        <4> QED BY <4>2, <4>3
      <3>5. CASE f = AttachReply
        BY <3>5 DEF AttachReply
      <3> QED BY <3>1, <3>2, <3>3, <3>4, <3>5
    <2>3. \A d \in Clients : \A f \in Frames(s2c'[d]) : Unlogged(d, f)
      BY <1>1, <2>2 DEF HandleAttach, TypeOK
    <2> QED BY <1>1, <1>kept, <2>3, NothingAppended DEF HandleAttach
  <1>2. ASSUME NEW c \in Clients, HandleSetResolver(c) PROVE Goal
    BY <1>2, <1>same DEF HandleSetResolver
  <1>3. ASSUME NEW c \in Clients, HandleRunTurn(c) PROVE Goal
    <2>1. PICK t \in Turns : t = Head(c2s[c]).turn
      BY <1>3, HandledFrame, FrameShape DEF HandleRunTurn
    <2> DEFINE q == Send(c, TurnFrame("turnId", t))
    <2>2. \E slow \in Slow : PushEvent(t, slow, q)
      BY <1>3, <2>1 DEF HandleRunTurn
    <2>3. /\ q \in [Clients -> Seq(ServerFrame)]
          /\ \A d \in Clients : \A f \in Frames(q[d]) : f \in Frames(s2c[d]) \/ f = TurnFrame("turnId", t)
      <3>1. TurnFrame("turnId", t) \in ServerFrame /\ s2c \in [Clients -> Seq(ServerFrame)]
        BY FrameShape DEF TypeOK
      <3> QED BY <3>1, SendFrames
    <2> HIDE DEF q
    <2>4. \A d \in Clients : \A f \in Frames(q[d]) : f.kind = "event" => Logged(f.event)
      BY <2>3 DEF TurnFrame, FromLog
    <2>5. mirror' = mirror
      BY <1>3 DEF HandleRunTurn
    <2> QED BY <2>2, <2>3, <2>4, <2>5, EventAppended
  <1>4. ASSUME NEW c \in Clients, HandleAbort(c) PROVE Goal
    BY <1>4, <1>same DEF HandleAbort
  <1>5. ASSUME NEW c \in Clients, HandleAnswer(c) PROVE Goal
    BY <1>5, <1>same DEF HandleAnswer
  <1>6. ASSUME NEW c \in Clients, ReceiveAttached(c) PROVE Goal
    BY <1>6, <1>same, ReceivedFrame DEF ReceiveAttached
  <1>7. ASSUME NEW c \in Clients, ReceiveEvent(c) PROVE Goal
    <2>1. /\ Head(s2c[c]) \in ServerFrame /\ Head(s2c[c]) \in Frames(s2c[c])
          /\ Head(s2c[c]).kind = "event"
          /\ \A d \in Clients : Frames(s2c'[d]) \subseteq Frames(s2c[d])
      BY <1>7, ReceivedFrame DEF ReceiveEvent
    <2>2. PICK e \in Event : e = Head(s2c[c]).event /\ Logged(e)
      BY <2>1, FrameShape DEF FromLog
    <2>3. FromLog'
      BY <1>7, <2>1, NothingAppended DEF ReceiveEvent
    <2>4. mirror' = [mirror EXCEPT ![c] = Ingest(mirror[c], e)]
      BY <1>7, <2>2 DEF ReceiveEvent
    <2>5. /\ Len(Ingest(mirror[c], e)) <= Len(log)
          /\ \A i \in 1..Len(Ingest(mirror[c], e)) : Ingest(mirror[c], e)[i] = log[i]
      <3>1. CASE e.seq = Len(mirror[c])
        <4> DEFINE m == mirror[c]
                   n == Append(m, e)
        <4>1. m \in Seq(Event) /\ Len(m) \in Nat
          BY LenProperties DEF TypeOK
        <4>2. /\ Len(n) = Len(m) + 1 /\ n[Len(m) + 1] = e
              /\ \A i \in 1..Len(m) : n[i] = m[i]
          BY <4>1, AppendProperties
        <4>3. /\ e.seq + 1 \in 1..Len(log) /\ e = log[Len(m) + 1]
              /\ \A i \in 1..Len(m) : m[i] = log[i]
          BY <2>2, <3>1 DEF Logged, MirrorIsPrefix
        <4>4. Len(log) \in Nat
          BY LenProperties DEF TypeOK
        <4>5. Ingest(mirror[c], e) = n
          BY <3>1 DEF Ingest
        <4> HIDE DEF m, n
        <4>6. \A i \in 1..Len(n) : n[i] = log[i]
          BY <4>1, <4>2, <4>3
        <4> QED BY <4>1, <4>2, <4>3, <4>4, <4>5, <4>6, <3>1 DEF m
      <3>2. CASE e.seq # Len(mirror[c])
        BY <3>2 DEF Ingest, MirrorIsPrefix
      <3> QED BY <3>1, <3>2
    <2>6. MirrorIsPrefix'
      <3>1. log' = log
        BY <1>7 DEF ReceiveEvent
      <3>2. mirror'[c] = Ingest(mirror[c], e) /\ \A d \in Clients \ {c} : mirror'[d] = mirror[d]
        BY <2>4 DEF TypeOK
      <3> SUFFICES ASSUME NEW d \in Clients
                   PROVE  /\ Len(mirror'[d]) <= Len(log)
                          /\ \A i \in 1..Len(mirror'[d]) : mirror'[d][i] = log[i]
        BY <3>1 DEF MirrorIsPrefix
      <3>3. CASE d = c
        BY <2>5, <3>2, <3>3
      <3>4. CASE d # c
        BY <3>2, <3>4 DEF MirrorIsPrefix
      <3> QED BY <3>3, <3>4
    <2> QED BY <2>3, <2>6
  <1>8. ASSUME NEW c \in Clients, ReceiveTurnId(c) PROVE Goal
    BY <1>8, <1>same, ReceivedFrame DEF ReceiveTurnId
  <1>9. ASSUME NEW c \in Clients, ReceiveComplete(c) PROVE Goal
    BY <1>9, <1>same, ReceivedFrame DEF ReceiveComplete
  <1>10. ASSUME NEW c \in Clients, ReceiveAsk(c) PROVE Goal
    BY <1>10, <1>same, ReceivedFrame DEF ReceiveAsk
  <1>11. ASSUME NEW c \in Clients, OnDisconnect(c) PROVE Goal
    BY <1>11, <1>same DEF OnDisconnect
  <1>12. ASSUME NEW c \in Clients, Connect(c) PROVE Goal
    BY <1>12, <1>same DEF Connect
  <1>13. ASSUME NEW c \in Clients, SetPermissionResolver(c) PROVE Goal
    BY <1>13, <1>same DEF SetPermissionResolver
  <1>14. ASSUME NEW c \in Clients, CloseLink(c) PROVE Goal
    <2>1. \A d \in Clients : Frames(s2c'[d]) \subseteq Frames(s2c[d])
      BY <1>14, FramesEmpty DEF CloseLink, TypeOK
    <2> QED BY <1>14, <1>same, <2>1 DEF CloseLink
  <1>15. ASSUME NEW c \in Clients, ClearMirror(c) PROVE Goal
    <2>1. FromLog'
      BY <1>15, NothingAppended DEF ClearMirror
    <2>2. Len(log) \in Nat
      BY LenProperties DEF TypeOK
    <2>3. MirrorIsPrefix'
      BY <1>15, <2>2 DEF ClearMirror, MirrorIsPrefix, TypeOK
    <2> QED BY <2>1, <2>3
  <1>16. ASSUME NEW c \in Clients, NEW t \in Turns, RunTurn(c, t) PROVE Goal
    BY <1>16, <1>same DEF RunTurn
  <1>17. ASSUME NEW c \in Clients, NEW t \in Turns, Answer(c, t) PROVE Goal
    BY <1>17, <1>same DEF Answer
  <1>18. ASSUME NEW t \in Turns, StartLocalTurn(t) \/ Emit(t) PROVE Goal
    <2>1. /\ s2c \in [Clients -> Seq(ServerFrame)]
          /\ \E slow \in Slow : PushEvent(t, slow, s2c)
          /\ mirror' = mirror
      BY <1>18 DEF StartLocalTurn, Emit, TypeOK
    <2>2. \A d \in Clients : \A f \in Frames(s2c[d]) : f.kind = "event" => Logged(f.event)
      BY DEF FromLog
    <2> QED BY <2>1, <2>2, EventAppended
  <1>19. ASSUME NEW t \in Turns, AskPermission(t) PROVE Goal
    <2>1. \A d \in Clients : \A f \in Frames(s2c'[d]) : f \in Frames(s2c[d]) \/ f = TurnFrame("ask", t)
      <3>1. TurnFrame("ask", t) \in ServerFrame /\ s2c \in [Clients -> Seq(ServerFrame)]
        BY FrameShape DEF TypeOK
      <3> QED BY <1>19, <3>1, SendFrames DEF AskPermission, Routed
    <2>2. \A d \in Clients : \A f \in Frames(s2c'[d]) : Unlogged(d, f)
      BY <2>1 DEF TurnFrame
    <2> QED BY <1>19, <1>kept, <2>2, NothingAppended DEF AskPermission
  <1>20. ASSUME NEW t \in Turns, CompleteTurn(t) PROVE Goal
    <2>1. \A d \in Clients : Frames(s2c'[d]) \subseteq Frames(s2c[d]) \cup {TurnFrame("complete", t)}
      BY <1>20, BroadcastFrames, FrameShape DEF CompleteTurn, TypeOK
    <2>2. \A d \in Clients : \A f \in Frames(s2c'[d]) : Unlogged(d, f)
      BY <2>1 DEF TurnFrame
    <2> QED BY <1>20, <1>kept, <2>2, NothingAppended DEF CompleteTurn
  <1>21. ASSUME NEW t \in Turns, CallStep(t) PROVE Goal
    BY <1>21, <1>same DEF CallStep, RegisterStream, EndStream, LeaveStream, AbortTurn
  <1>22. ASSUME NEW e \in fanout, FanOut(e) PROVE Goal
    <2>1. \A d \in Clients : Frames(s2c'[d]) \subseteq Frames(s2c[d]) \cup {EventFrame(e)}
      BY <1>22, BroadcastFrames, FrameShape DEF FanOut, TypeOK
    <2>2. \A d \in Clients : \A f \in Frames(s2c'[d]) : Unlogged(d, f)
      BY <2>1 DEF EventFrame, FromLog
    <2>3. log' = log /\ fanout' \subseteq fanout /\ mirror' = mirror
      BY <1>22 DEF FanOut
    <2> QED BY <1>kept, <2>2, <2>3, NothingAppended
  <1>23. ASSUME Close PROVE Goal
    BY <1>23, <1>same DEF Close
  <1>24. CASE UNCHANGED vars
    BY <1>24, <1>same DEF vars
  <1> QED
    BY <1>1, <1>2, <1>3, <1>4, <1>5, <1>6, <1>7, <1>8, <1>9, <1>10, <1>11, <1>12, <1>13,
       <1>14, <1>15, <1>16, <1>17, <1>18, <1>19, <1>20, <1>21, <1>22, <1>23, <1>24
    DEF Next, HandleFrame, ReceiveFrame, TurnStep

\* A mirror is always a beginning of the runner's log, whatever the hooks
\* delay, whoever attaches or leaves when, and whenever a view is cleared.
THEOREM MirrorCorrect == Spec => []MirrorIsPrefix
  <1> DEFINE IInv == TypeOK /\ Owned /\ FromLog /\ MirrorIsPrefix
  <1>1. Init => IInv
    BY TypeInit, OwnedInit, FromLogInit
  <1>2. IInv /\ [Next]_vars => IInv'
    BY TypeNext, OwnedNext, FromLogNext
  <1> QED BY <1>1, <1>2, PTL DEF Spec

-----------------------------------------------------------------------------
(* Gaps.  When no hook suspends a fan-out and no view is cleared, the queue  *)
(* to a client holds, before each event, every event the mirror still misses *)
(* below it, and for an attached client every event the mirror misses at     *)
(* all.  Appending the next event, replaying the log and handling the head   *)
(* of the queue each keep that, also when the replay repeats what is queued. *)

\* The frame brings the event with number n.
IsEvent(f, n) == f.kind = "event" /\ f.event.seq = n

\* Queue q has no gap for a mirror of length m.
Gapless(q, m) ==
  \A i \in 1..Len(q) : q[i].kind = "event" =>
    \A n \in m..q[i].event.seq : \E j \in 1..i : IsEvent(q[j], n)

\* Queue q brings a mirror of length m up to a log of length l.
Fills(q, m, l) == \A n \in m..(l - 1) : \E j \in 1..Len(q) : IsEvent(q[j], n)

\* A queue without gaps has none after the next event, or after a frame of
\* another kind.
LEMMA GaplessAppend ==
  ASSUME NEW q \in Seq(ServerFrame), NEW f \in ServerFrame, NEW m \in Nat, NEW l \in Nat,
         Gapless(q, m)
  PROVE  /\ f.kind # "event" => Gapless(Append(q, f), m)
         /\ Fills(q, m, l) => Fills(Append(q, f), m, l)
         /\ Fills(q, m, l) /\ IsEvent(f, l) =>
              Gapless(Append(q, f), m) /\ Fills(Append(q, f), m, l + 1)
  <1> DEFINE r == Append(q, f)
  <1>1. /\ r \in Seq(ServerFrame) /\ Len(r) = Len(q) + 1 /\ Len(q) \in Nat
        /\ \A i \in 1..Len(q) : r[i] = q[i]
        /\ r[Len(q) + 1] = f
    BY AppendProperties, LenProperties
  <1>2. \A i \in 1..Len(q) : q[i] \in ServerFrame
    BY ElementOfSeq
  <1> HIDE DEF r
  <1>3. ASSUME NEW i \in 1..Len(q), r[i].kind = "event", NEW n \in m..r[i].event.seq
        PROVE  \E j \in 1..i : IsEvent(r[j], n)
    <2>1. PICK j \in 1..i : IsEvent(q[j], n)
      BY <1>1, <1>3 DEF Gapless
    <2>2. r[j] = q[j]
      BY <1>1
    <2> QED BY <2>1, <2>2
  <1>4. ASSUME f.kind # "event" PROVE Gapless(r, m)
    BY <1>1, <1>3, <1>4 DEF Gapless
  <1>5. ASSUME Fills(q, m, l) PROVE Fills(r, m, l)
    BY <1>1, <1>5 DEF Fills
  <1>6. ASSUME Fills(q, m, l), IsEvent(f, l) PROVE Gapless(r, m) /\ Fills(r, m, l + 1)
    <2>1. ASSUME NEW n \in m..l PROVE \E j \in 1..Len(r) : IsEvent(r[j], n)
      <3>1. CASE n = l
        <4>1. Len(r) \in 1..Len(r) /\ IsEvent(r[Len(r)], n)
          BY <1>1, <1>6, <3>1
        <4> QED BY <4>1
      <3>2. CASE n # l
        <4>1. n \in m..(l - 1)
          BY <3>2
        <4> QED BY <1>5, <1>6, <4>1 DEF Fills
      <3> QED BY <3>1, <3>2
    <2>2. Gapless(r, m)
      <3> SUFFICES ASSUME NEW i \in 1..Len(r), r[i].kind = "event", NEW n \in m..r[i].event.seq
                   PROVE  \E j \in 1..i : IsEvent(r[j], n)
        BY DEF Gapless
      <3>1. CASE i \in 1..Len(q)
        BY <1>3, <3>1
      <3>2. CASE i = Len(r)
        <4>1. r[i].event.seq = l
          BY <1>1, <1>6, <3>2 DEF IsEvent
        <4> QED BY <2>1, <3>2, <4>1
      <3> QED BY <1>1, <3>1, <3>2
    <2>3. Fills(r, m, l + 1)
      BY <2>1 DEF Fills
    <2> QED BY <2>2, <2>3
  <1> QED BY <1>4, <1>5, <1>6 DEF r

\* What the mirror makes of the head of its queue.
LEMMA GaplessTail ==
  ASSUME NEW q \in Seq(ServerFrame), q # <<>>, NEW m \in Nat, NEW l \in Nat, Gapless(q, m)
  PROVE  /\ Head(q).kind # "event" =>
              Gapless(Tail(q), m) /\ (Fills(q, m, l) => Fills(Tail(q), m, l))
         /\ Head(q).kind = "event" =>
              /\ Head(q).event.seq <= m
              /\ LET k == IF Head(q).event.seq = m THEN m + 1 ELSE m IN
                 Gapless(Tail(q), k) /\ (Fills(q, m, l) => Fills(Tail(q), k, l))
  <1> DEFINE h == Head(q)
             r == Tail(q)
  <1>1. /\ h \in ServerFrame /\ h = q[1] /\ Len(q) \in Nat \ {0}
        /\ r \in Seq(ServerFrame) /\ Len(r) = Len(q) - 1
        /\ \A i \in 1..Len(q) - 1 : r[i] = q[i + 1]
    BY FramesTail
  <1>2. h.kind = "event" => h.event.seq \in Nat
    BY <1>1, FrameShape DEF Event
  <1> HIDE DEF h, r
  <1>3. ASSUME NEW k \in Nat, k >= m, \A n \in Nat : IsEvent(h, n) => n < k
        PROVE  Gapless(r, k) /\ (Fills(q, m, l) => Fills(r, k, l))
    <2>1. ASSUME NEW i \in 1..Len(q), NEW n \in Nat, n >= k, \E j \in 1..i : IsEvent(q[j], n)
          PROVE  \E j \in 1..(i - 1) : IsEvent(r[j], n)
      <3>1. PICK j \in 1..i : IsEvent(q[j], n)
        BY <2>1
      <3>2. j # 1
        BY <1>1, <1>3, <2>1, <3>1
      <3>3. j - 1 \in 1..(i - 1) /\ r[j - 1] = q[j]
        BY <1>1, <3>2
      <3> QED BY <3>1, <3>3
    <2>2. Gapless(r, k)
      <3> SUFFICES ASSUME NEW i \in 1..Len(r), r[i].kind = "event", NEW n \in k..r[i].event.seq
                   PROVE  \E j \in 1..i : IsEvent(r[j], n)
        BY DEF Gapless
      <3>1. i + 1 \in 1..Len(q) /\ r[i] = q[i + 1]
        BY <1>1
      <3>2. r[i] \in ServerFrame
        BY <1>1, ElementOfSeq
      <3>3. r[i].event.seq \in Nat
        BY <3>2, FrameShape DEF Event
      <3>4. n \in m..q[i + 1].event.seq /\ n \in Nat /\ n >= k
        BY <1>3, <3>1, <3>3
      <3>5. \E j \in 1..(i + 1) : IsEvent(q[j], n)
        BY <3>1, <3>4 DEF Gapless
      <3>6. (i + 1) - 1 = i
        BY <1>1
      <3> QED BY <2>1, <3>1, <3>4, <3>5, <3>6
    <2>3. ASSUME Fills(q, m, l) PROVE Fills(r, k, l)
      <3> SUFFICES ASSUME NEW n \in k..(l - 1) PROVE \E j \in 1..Len(r) : IsEvent(r[j], n)
        BY DEF Fills
      <3>1. n \in Nat /\ n >= k /\ \E j \in 1..Len(q) : IsEvent(q[j], n)
        BY <1>3, <2>3 DEF Fills
      <3>2. Len(q) \in 1..Len(q)
        BY <1>1
      <3> QED BY <1>1, <2>1, <3>1, <3>2
    <2> QED BY <2>2, <2>3
  <1>4. CASE h.kind # "event"
    <2>1. \A n \in Nat : IsEvent(h, n) => n < m
      BY <1>4 DEF IsEvent
    <2> QED BY <1>3, <1>4, <2>1 DEF h, r
  <1>5. CASE h.kind = "event"
    <2>1. h.event.seq <= m
      <3> SUFFICES ASSUME h.event.seq > m PROVE FALSE
        BY <1>2, <1>5
      <3>1. m \in m..q[1].event.seq /\ 1 \in 1..Len(q) /\ q[1].kind = "event"
        BY <1>1, <1>2, <1>5
      <3>2. PICK j \in 1..1 : IsEvent(q[j], m)
        BY <3>1 DEF Gapless
      <3> QED BY <1>1, <1>2, <1>5, <3>2 DEF IsEvent
    <2> DEFINE k == IF h.event.seq = m THEN m + 1 ELSE m
    <2>2. k \in Nat /\ k >= m /\ \A n \in Nat : IsEvent(h, n) => n < k
      BY <1>2, <1>5, <2>1 DEF IsEvent
    <2> QED BY <1>3, <1>5, <2>1, <2>2 DEF h, r
  <1> QED BY <1>4, <1>5 DEF h

\* The replay fills any mirror, also behind frames that are still queued.
LEMMA GaplessReplay ==
  ASSUME TypeOK, FromLog, NEW q \in Seq(ServerFrame), NEW m \in Nat, Gapless(q, m)
  PROVE  /\ Gapless(q \o Replay \o <<AttachReply>>, m)
         /\ Fills(q \o Replay \o <<AttachReply>>, m, Len(log))
  <1> DEFINE s == q \o Replay
  <1>1. /\ Replay \in Seq(ServerFrame) /\ Len(Replay) = Len(log) /\ Len(log) \in Nat
        /\ \A i \in 1..Len(log) : Replay[i] = EventFrame(log[i])
    BY ReplayFrames DEF TypeOK
  <1>2. ASSUME NEW i \in 1..Len(log) PROVE IsEvent(Replay[i], i - 1)
    <2>1. Replay[i] = EventFrame(log[i]) /\ log[i].seq = i - 1
      BY <1>1 DEF FromLog
    <2>2. Replay[i].kind = "event" /\ Replay[i].event = log[i]
      BY <2>1 DEF EventFrame
    <2> QED BY <2>1, <2>2 DEF IsEvent
  <1>3. /\ s \in Seq(ServerFrame) /\ Len(s) = Len(q) + Len(log) /\ Len(q) \in Nat
        /\ \A i \in 1..Len(s) : s[i] = IF i <= Len(q) THEN q[i] ELSE Replay[i - Len(q)]
    <2>1. /\ s \in Seq(ServerFrame) /\ Len(s) = Len(q) + Len(Replay) /\ Len(q) \in Nat
          /\ \A i \in 1..Len(q) + Len(Replay) :
               s[i] = IF i <= Len(q) THEN q[i] ELSE Replay[i - Len(q)]
      BY <1>1, ConcatProperties, LenProperties
    <2> HIDE DEF s
    <2> QED BY <1>1, <2>1
  <1> HIDE DEF s
  <1>4. ASSUME NEW n \in Nat, n < Len(log)
        PROVE  Len(q) + n + 1 \in 1..Len(s) /\ IsEvent(s[Len(q) + n + 1], n)
    <2>1. /\ Len(q) + n + 1 \in 1..Len(s) /\ n + 1 \in 1..Len(log) /\ (n + 1) - 1 = n
          /\ (Len(q) + n + 1) - Len(q) = n + 1 /\ ~(Len(q) + n + 1 <= Len(q))
      BY <1>1, <1>3, <1>4
    <2>2. s[Len(q) + n + 1] = Replay[n + 1]
      BY <1>3, <2>1
    <2> QED BY <1>2, <2>1, <2>2
  <1>5. Fills(s, m, Len(log))
    <2> SUFFICES ASSUME NEW n \in m..(Len(log) - 1) PROVE \E j \in 1..Len(s) : IsEvent(s[j], n)
      BY DEF Fills
    <2>1. n \in Nat /\ n < Len(log)
      BY <1>1
    <2> QED BY <1>4, <2>1
  <1>6. Gapless(s, m)
    <2> SUFFICES ASSUME NEW i \in 1..Len(s), s[i].kind = "event", NEW n \in m..s[i].event.seq
                 PROVE  \E j \in 1..i : IsEvent(s[j], n)
      BY DEF Gapless
    <2>1. CASE i <= Len(q)
      <3>1. i \in 1..Len(q) /\ \A j \in 1..i : s[j] = q[j]
        BY <1>3, <2>1
      <3> QED BY <3>1 DEF Gapless
    <2>2. CASE ~(i <= Len(q))
      <3>1. i - Len(q) \in 1..Len(log) /\ s[i] = Replay[i - Len(q)]
        BY <1>3, <2>2
      <3>2. s[i].event.seq = i - Len(q) - 1
        BY <1>2, <3>1 DEF IsEvent
      <3>3. n \in Nat /\ n < Len(log) /\ Len(q) + n + 1 \in 1..i
        BY <1>1, <1>3, <3>1, <3>2
      <3> QED BY <1>4, <3>3
    <2> QED BY <2>1, <2>2
  <1>7. AttachReply \in ServerFrame /\ AttachReply.kind # "event"
    BY FrameShape DEF AttachReply
  <1>8. s \o <<AttachReply>> = Append(s, AttachReply)
    BY <1>3, <1>7, AppendIsConcat
  <1> QED BY <1>1, <1>3, <1>5, <1>6, <1>7, <1>8, GaplessAppend DEF s

\* A mirror's queue never has a gap, and brings an attached mirror up to date.
QueueInv ==
  \A c \in Clients :
    /\ Gapless(s2c[c], Len(mirror[c]))
    /\ srv[c] = "attached" /\ clt[c] # "closed" => Fills(s2c[c], Len(mirror[c]), Len(log))

\* Hooks never suspend a fan-out and views are never cleared.
Prompt == AsyncHooks = FALSE /\ ClearMirrors = FALSE

\* The queues are without gaps at the start ...
LEMMA QueueInit == Init => QueueInv /\ fanout = {}
  BY DEF Init, QueueInv, Gapless, Fills

\* A step that sends client d a frame which is not an event, or nothing.
LEMMA QueueOther ==
  ASSUME TypeOK, QueueInv, NEW d \in Clients, NEW f \in ServerFrame, f.kind # "event"
  PROVE  /\ Gapless(Append(s2c[d], f), Len(mirror[d]))
         /\ srv[d] = "attached" /\ clt[d] # "closed" =>
              Fills(Append(s2c[d], f), Len(mirror[d]), Len(log))
  <1>1. s2c[d] \in Seq(ServerFrame) /\ Len(mirror[d]) \in Nat /\ Len(log) \in Nat
    BY LenProperties DEF TypeOK
  <1> QED BY <1>1, GaplessAppend DEF QueueInv

\* A step that broadcasts the event it appends.
LEMMA QueueEvent ==
  ASSUME TypeOK, Prompt, fanout = {}, NEW t \in Turns, NEW q \in [Clients -> Seq(ServerFrame)],
         \A d \in Clients :
           /\ Gapless(q[d], Len(mirror[d]))
           /\ srv[d] = "attached" /\ clt[d] # "closed" => Fills(q[d], Len(mirror[d]), Len(log)),
         \E slow \in Slow : PushEvent(t, slow, q),
         mirror' = mirror, srv' = srv, clt' = clt
  PROVE  QueueInv' /\ fanout' = {}
  <1>1. fanout' = {} /\ log' = Append(log, NextEvent(t)) /\ s2c' = Broadcast(q, EventFrame(NextEvent(t)))
    BY DEF Slow, Prompt, PushEvent
  <1>0. NextEvent(t) \in Event /\ NextEvent(t).seq = Len(log)
    BY PushEventFrames DEF NextEvent
  <1> PICK f \in ServerFrame : f = EventFrame(NextEvent(t)) /\ IsEvent(f, Len(log))
    BY <1>0, FrameShape DEF EventFrame, IsEvent
  <1>2. Len(log) \in Nat /\ Len(log') = Len(log) + 1
    BY PushEventFrames
  <1> SUFFICES ASSUME NEW d \in Clients
               PROVE  /\ Gapless(s2c'[d], Len(mirror[d]))
                      /\ srv[d] = "attached" /\ clt[d] # "closed"
                           => Fills(s2c'[d], Len(mirror[d]), Len(log'))
    BY <1>1 DEF QueueInv
  <1>3. q[d] \in Seq(ServerFrame) /\ Len(mirror[d]) \in Nat
    BY LenProperties DEF TypeOK
  <1>4. CASE srv[d] = "attached" /\ clt[d] # "closed"
    <2>1. s2c'[d] = Append(q[d], f)
      BY <1>1, <1>4 DEF Broadcast
    <2> QED BY <1>2, <1>3, <1>4, <2>1, GaplessAppend
  <1>5. CASE ~(srv[d] = "attached" /\ clt[d] # "closed")
    <2>1. s2c'[d] = q[d]
      BY <1>1, <1>5 DEF Broadcast
    <2> QED BY <1>5, <2>1
  <1> QED BY <1>4, <1>5

\* A step that takes a frame which is not an event off the queue of c.
LEMMA QueueTaken ==
  ASSUME TypeOK, QueueInv, NEW c \in Clients, NEW k, k # "event", Receiving(c, k),
         s2c' = Consume(s2c, c), log' = log, mirror' = mirror, srv' = srv,
         \A d \in Clients : clt'[d] = "closed" <=> clt[d] = "closed"
  PROVE  QueueInv'
  <1> SUFFICES ASSUME NEW d \in Clients
               PROVE  /\ Gapless(s2c'[d], Len(mirror[d]))
                      /\ srv[d] = "attached" /\ clt[d] # "closed"
                           => Fills(s2c'[d], Len(mirror[d]), Len(log))
    BY DEF QueueInv
  <1>1. s2c[d] \in Seq(ServerFrame) /\ Len(mirror[d]) \in Nat /\ Len(log) \in Nat
    BY LenProperties DEF TypeOK
  <1>2. CASE d = c
    <2>1. s2c'[d] = Tail(s2c[d]) /\ s2c[d] # <<>> /\ Head(s2c[d]).kind # "event"
      BY <1>2 DEF Consume, Receiving, Received, TypeOK
    <2> QED BY <1>1, <2>1, GaplessTail DEF QueueInv
  <1>3. CASE d # c
    <2>1. s2c'[d] = s2c[d]
      BY <1>3 DEF Consume, TypeOK
    <2> QED BY <2>1 DEF QueueInv
  <1> QED BY <1>2, <1>3

\* ... and every step keeps them so, if no listener is slow.
LEMMA QueueNext ==
  TypeOK /\ Owned /\ FromLog /\ Prompt /\ QueueInv /\ fanout = {} /\ [Next]_vars
    => QueueInv' /\ fanout' = {}
  <1> SUFFICES ASSUME TypeOK, Owned, FromLog, Prompt, QueueInv, fanout = {}, [Next]_vars
               PROVE  QueueInv' /\ fanout' = {}
    OBVIOUS
  <1> DEFINE Goal == QueueInv' /\ fanout' = {}
  <1> USE DEF sessionVars, serverVars, linkVars, callVars, clientVars
  <1>same. ASSUME log' = log, fanout' = fanout, mirror' = mirror, s2c' = s2c, clt' = clt,
                  \A d \in Clients : srv'[d] = "attached" => srv[d] = "attached"
           PROVE  Goal
    BY <1>same DEF QueueInv
  <1>1. ASSUME NEW c \in Clients, HandleAttach(c) PROVE Goal
    <2> SUFFICES ASSUME NEW d \in Clients
                 PROVE  /\ Gapless(s2c'[d], Len(mirror[d]))
                        /\ srv'[d] = "attached" /\ clt[d] # "closed"
                             => Fills(s2c'[d], Len(mirror[d]), Len(log))
      BY <1>1 DEF HandleAttach, QueueInv
    <2>1. CASE d = c /\ Reaches(c)
      <3>1. s2c'[d] = s2c[d] \o Replay \o <<AttachReply>>
        BY <1>1, <2>1 DEF HandleAttach, TypeOK
      <3>2. s2c[d] \in Seq(ServerFrame) /\ Len(mirror[d]) \in Nat
        BY LenProperties DEF TypeOK
      <3> QED BY <3>1, <3>2, GaplessReplay DEF QueueInv
    <2>2. CASE d = c /\ ~Reaches(c)
      <3>1. s2c'[d] = s2c[d] /\ (srv'[d] = "attached" => clt[d] = "closed" \/ srv[d] = "attached")
        BY <1>1, <2>2 DEF HandleAttach, Reaches, TypeOK
      <3> QED BY <3>1 DEF QueueInv
    <2>3. CASE d # c
      <3>1. s2c'[d] = s2c[d] /\ srv'[d] = srv[d]
        BY <1>1, <2>3 DEF HandleAttach, TypeOK
      <3> QED BY <3>1 DEF QueueInv
    <2> QED BY <2>1, <2>2, <2>3
  <1>2. ASSUME NEW c \in Clients, HandleSetResolver(c) PROVE Goal
    BY <1>2, <1>same DEF HandleSetResolver
  <1>3. ASSUME NEW c \in Clients, HandleRunTurn(c) PROVE Goal
    <2>1. PICK t \in Turns : t = Head(c2s[c]).turn
      BY <1>3, HandledFrame, FrameShape DEF HandleRunTurn
    <2>2. PICK f \in ServerFrame : f = TurnFrame("turnId", t) /\ f.kind # "event"
      BY FrameShape DEF TurnFrame
    <2> DEFINE q == Send(c, f)
    <2>3. \E slow \in Slow : PushEvent(t, slow, q)
      BY <1>3, <2>1, <2>2 DEF HandleRunTurn
    <2>4. /\ q \in [Clients -> Seq(ServerFrame)]
          /\ \A d \in Clients : q[d] = s2c[d] \/ q[d] = Append(s2c[d], f)
      <3>1. s2c \in [Clients -> Seq(ServerFrame)]
        BY DEF TypeOK
      <3>2. q \in [Clients -> Seq(ServerFrame)]
        BY <3>1, SendFrames
      <3>3. \A d \in Clients : q[d] = s2c[d] \/ q[d] = Append(s2c[d], f)
        BY <3>1 DEF Send
      <3> QED BY <3>2, <3>3
    <2> HIDE DEF q
    <2>5. \A d \in Clients :
            /\ Gapless(q[d], Len(mirror[d]))
            /\ srv[d] = "attached" /\ clt[d] # "closed" => Fills(q[d], Len(mirror[d]), Len(log))
      BY <2>2, <2>4, QueueOther DEF QueueInv
    <2>6. mirror' = mirror /\ srv' = srv /\ clt' = clt
      BY <1>3 DEF HandleRunTurn
    <2> QED BY <2>3, <2>4, <2>5, <2>6, QueueEvent
  <1>4. ASSUME NEW c \in Clients, HandleAbort(c) PROVE Goal
    BY <1>4, <1>same DEF HandleAbort
  <1>5. ASSUME NEW c \in Clients, HandleAnswer(c) PROVE Goal
    BY <1>5, <1>same DEF HandleAnswer
  <1>6. ASSUME NEW c \in Clients, ReceiveAttached(c) PROVE Goal
    <2>1. \A d \in Clients : clt'[d] = "closed" <=> clt[d] = "closed"
      BY <1>6 DEF ReceiveAttached, Receiving, TypeOK
    <2> QED BY <1>6, <2>1, QueueTaken DEF ReceiveAttached
  <1>7. ASSUME NEW c \in Clients, ReceiveEvent(c) PROVE Goal
    <2> SUFFICES ASSUME NEW d \in Clients
                 PROVE  /\ Gapless(s2c'[d], Len(mirror'[d]))
                        /\ srv[d] = "attached" /\ clt[d] # "closed"
                             => Fills(s2c'[d], Len(mirror'[d]), Len(log))
      BY <1>7 DEF ReceiveEvent, QueueInv
    <2>1. s2c[d] \in Seq(ServerFrame) /\ mirror[d] \in Seq(Event) /\ Len(mirror[d]) \in Nat /\ Len(log) \in Nat
      BY LenProperties DEF TypeOK
    <2>2. CASE d = c
      <3>1. /\ s2c'[d] = Tail(s2c[d]) /\ s2c[d] # <<>> /\ Head(s2c[d]).kind = "event"
            /\ mirror'[d] = Ingest(mirror[d], Head(s2c[d]).event)
        BY <1>7, <2>2 DEF ReceiveEvent, Consume, Receiving, Received, TypeOK
      <3>2. Head(s2c[d]).event \in Event
        BY <2>1, <3>1, FramesTail, FrameShape
      <3>3. Len(mirror'[d]) = IF Head(s2c[d]).event.seq = Len(mirror[d])
                              THEN Len(mirror[d]) + 1 ELSE Len(mirror[d])
        BY <2>1, <3>1, <3>2, AppendProperties DEF Ingest
      <3> QED BY <2>1, <3>1, <3>3, GaplessTail DEF QueueInv
    <2>3. CASE d # c
      <3>1. s2c'[d] = s2c[d] /\ mirror'[d] = mirror[d]
        BY <1>7, <2>3 DEF ReceiveEvent, Consume, TypeOK
      <3> QED BY <3>1 DEF QueueInv
    <2> QED BY <2>2, <2>3
  <1>8. ASSUME NEW c \in Clients, ReceiveTurnId(c) PROVE Goal
    BY <1>8, QueueTaken DEF ReceiveTurnId
  <1>9. ASSUME NEW c \in Clients, ReceiveComplete(c) PROVE Goal
    BY <1>9, QueueTaken DEF ReceiveComplete
  <1>10. ASSUME NEW c \in Clients, ReceiveAsk(c) PROVE Goal
    BY <1>10, QueueTaken DEF ReceiveAsk
  <1>11. ASSUME NEW c \in Clients, OnDisconnect(c) PROVE Goal
    BY <1>11, <1>same DEF OnDisconnect, TypeOK
  <1>12. ASSUME NEW c \in Clients, Connect(c) PROVE Goal
    <2>1. \A d \in Clients : srv'[d] = "attached" => srv[d] = "attached" /\ d # c
      BY <1>12 DEF Connect, TypeOK
    <2>2. \A d \in Clients : d # c => clt'[d] = clt[d]
      BY <1>12 DEF Connect, TypeOK
    <2> QED BY <1>12, <2>1, <2>2 DEF Connect, QueueInv
  <1>13. ASSUME NEW c \in Clients, SetPermissionResolver(c) PROVE Goal
    BY <1>13, <1>same DEF SetPermissionResolver
  <1>14. ASSUME NEW c \in Clients, CloseLink(c) PROVE Goal
    <2>1. \A d \in Clients : d # c => s2c'[d] = s2c[d] /\ clt'[d] = clt[d]
      BY <1>14 DEF CloseLink, TypeOK
    <2>2. s2c'[c] = <<>> /\ clt'[c] = "closed" /\ Gapless(<<>>, Len(mirror[c]))
      BY <1>14 DEF CloseLink, TypeOK, Gapless
    <2> QED BY <1>14, <2>1, <2>2 DEF CloseLink, QueueInv
  <1>15. ASSUME NEW c \in Clients, ClearMirror(c) PROVE Goal
    BY <1>15 DEF ClearMirror, Prompt
  <1>16. ASSUME NEW c \in Clients, NEW t \in Turns, RunTurn(c, t) PROVE Goal
    BY <1>16, <1>same DEF RunTurn
  <1>17. ASSUME NEW c \in Clients, NEW t \in Turns, Answer(c, t) PROVE Goal
    BY <1>17, <1>same DEF Answer
  <1>18. ASSUME NEW t \in Turns, StartLocalTurn(t) \/ Emit(t) PROVE Goal
    <2>1. /\ s2c \in [Clients -> Seq(ServerFrame)]
          /\ \E slow \in Slow : PushEvent(t, slow, s2c)
          /\ mirror' = mirror /\ srv' = srv /\ clt' = clt
      BY <1>18 DEF StartLocalTurn, Emit, TypeOK
    <2> QED BY <2>1, QueueEvent DEF QueueInv
  <1>19. ASSUME NEW t \in Turns, AskPermission(t) PROVE Goal
    <2>1. PICK f \in ServerFrame : f = TurnFrame("ask", t) /\ f.kind # "event"
      BY FrameShape DEF TurnFrame
    <2>2. \A d \in Clients : s2c'[d] = s2c[d] \/ s2c'[d] = Append(s2c[d], f)
      BY <1>19, <2>1 DEF AskPermission, Send, TypeOK
    <2> QED BY <1>19, <2>1, <2>2, QueueOther DEF AskPermission, QueueInv
  <1>20. ASSUME NEW t \in Turns, CompleteTurn(t) PROVE Goal
    <2>1. PICK f \in ServerFrame : f = TurnFrame("complete", t) /\ f.kind # "event"
      BY FrameShape DEF TurnFrame
    <2>2. \A d \in Clients : s2c'[d] = s2c[d] \/ s2c'[d] = Append(s2c[d], f)
      BY <1>20, <2>1 DEF CompleteTurn, Broadcast, TypeOK
    <2> QED BY <1>20, <2>1, <2>2, QueueOther DEF CompleteTurn, QueueInv
  <1>21. ASSUME NEW t \in Turns, CallStep(t) PROVE Goal
    BY <1>21, <1>same DEF CallStep, RegisterStream, EndStream, LeaveStream, AbortTurn
  <1>22. ASSUME Close PROVE Goal
    <2>1. \A d \in Clients : srv'[d] = "attached" => srv[d] = "attached"
      BY <1>22 DEF Close
    <2> QED BY <1>22, <1>same, <2>1 DEF Close
  <1>23. CASE UNCHANGED vars
    BY <1>23, <1>same DEF vars
  <1> QED
    BY <1>1, <1>2, <1>3, <1>4, <1>5, <1>6, <1>7, <1>8, <1>9, <1>10, <1>11, <1>12, <1>13,
       <1>14, <1>15, <1>16, <1>17, <1>18, <1>19, <1>20, <1>21, <1>22, <1>23
    DEF Next, HandleFrame, ReceiveFrame, TurnStep

\* So they always are without gaps, if no listener is slow.
LEMMA QueueCorrect ==
  ASSUME Prompt
  PROVE  Spec => [](TypeOK /\ FromLog /\ MirrorIsPrefix /\ QueueInv)
  <1> DEFINE IInv == TypeOK /\ Owned /\ FromLog /\ MirrorIsPrefix /\ QueueInv /\ fanout = {}
  <1>1. Init => IInv
    BY TypeInit, OwnedInit, FromLogInit, QueueInit
  <1>2. IInv /\ [Next]_vars => IInv'
    BY Prompt, TypeNext, OwnedNext, FromLogNext, QueueNext
  <1>3. IInv => TypeOK /\ FromLog /\ MirrorIsPrefix /\ QueueInv
    OBVIOUS
  <1> HIDE DEF IInv
  <1> QED BY <1>1, <1>2, <1>3, PTL DEF Spec

\* With prompt hooks and views never cleared no event is refused as a gap:
\* what `ingest` documents holds exactly under these two conditions.
THEOREM NoGapWhenPrompt == ASSUME Prompt PROVE Spec => []NoGap
  <1>1. ASSUME TypeOK, QueueInv PROVE NoGap
    <2> SUFFICES ASSUME NEW c \in Clients, Receiving(c, "event")
                 PROVE  Head(s2c[c]).event.seq <= Len(mirror[c])
      BY DEF NoGap
    <2>1. s2c[c] \in Seq(ServerFrame) /\ s2c[c] # <<>> /\ Len(mirror[c]) \in Nat
      BY <1>1, LenProperties DEF TypeOK, Receiving, Received
    <2>2. Gapless(s2c[c], Len(mirror[c])) /\ Head(s2c[c]).kind = "event"
      BY <1>1 DEF QueueInv, Receiving, Received
    <2> QED BY <2>1, <2>2, GaplessTail
  <1> QED BY <1>1, QueueCorrect, PTL

\* A client that has handled everything on its link shows the whole log:
\* the replay and the broadcasts leave nothing out between them.
THEOREM CaughtUpWhenPrompt == ASSUME Prompt PROVE Spec => []CaughtUp
  <1>1. ASSUME TypeOK, MirrorIsPrefix, QueueInv PROVE CaughtUp
    <2> SUFFICES ASSUME NEW c \in Clients,
                        srv[c] = "attached", clt[c] = "attached", s2c[c] = <<>>
                 PROVE  mirror[c] = log
      BY DEF CaughtUp
    <2>1. /\ mirror[c] \in Seq(Event) /\ log \in Seq(Event)
          /\ Len(mirror[c]) \in Nat /\ Len(log) \in Nat
      BY <1>1, LenProperties DEF TypeOK
    <2>2. Len(mirror[c]) <= Len(log) /\ \A i \in 1..Len(mirror[c]) : mirror[c][i] = log[i]
      BY <1>1 DEF MirrorIsPrefix
    <2>3. Fills(<<>>, Len(mirror[c]), Len(log))
      BY <1>1 DEF QueueInv
    <2>4. Len(mirror[c]) \notin Len(mirror[c])..(Len(log) - 1)
      BY <2>3 DEF Fills
    <2>5. Len(mirror[c]) = Len(log)
      BY <2>1, <2>2, <2>4
    <2> QED BY <2>1, <2>2, <2>5, SeqEqual
  <1> QED BY <1>1, QueueCorrect, PTL

-----------------------------------------------------------------------------
(* Orphans.                                                                *)

\* Every step keeps the turns of clients that are gone aborted.
LEMMA OrphanNext == TypeOK /\ Owned /\ OrphanIsAborted /\ [Next]_vars => OrphanIsAborted'
  <1> SUFFICES ASSUME TypeOK, Owned, OrphanIsAborted, [Next]_vars PROVE OrphanIsAborted'
    OBVIOUS
  <1> USE RunnerAssumption DEF sessionVars, serverVars, linkVars, callVars, clientVars
  <1>same. ASSUME owner' = owner,
                  \A t \in Turns : /\ turn'[t] = "running" => turn[t] = "running"
                                   /\ aborted[t] => aborted'[t],
                  \A c \in Clients : srv'[c] = "closed" => srv[c] = "closed"
           PROVE  OrphanIsAborted'
    BY <1>same DEF OrphanIsAborted, TypeOK
  <1>1. ASSUME NEW c \in Clients, HandleAttach(c) PROVE OrphanIsAborted'
    BY <1>1, <1>same DEF HandleAttach, TypeOK
  <1>2. ASSUME NEW c \in Clients, HandleSetResolver(c) PROVE OrphanIsAborted'
    BY <1>2, <1>same DEF HandleSetResolver
  <1>3. ASSUME NEW c \in Clients, HandleRunTurn(c) PROVE OrphanIsAborted'
    <2>1. PICK t \in Turns : t = Head(c2s[c]).turn /\ owner[t] = c
      BY <1>3, HandledFrame, FrameShape DEF HandleRunTurn, Owned
    <2>2. turn' = [turn EXCEPT ![t] = "running"] /\ srv[c] # "closed"
      BY <1>3, <2>1 DEF HandleRunTurn, Listening
    <2> QED BY <1>3, <2>1, <2>2 DEF HandleRunTurn, OrphanIsAborted, TypeOK
  <1>4. ASSUME NEW c \in Clients, HandleAbort(c) PROVE OrphanIsAborted'
    BY <1>4, <1>same DEF HandleAbort, TypeOK
  <1>5. ASSUME NEW c \in Clients, HandleAnswer(c) PROVE OrphanIsAborted'
    BY <1>5, <1>same DEF HandleAnswer
  <1>6. ASSUME NEW c \in Clients, ReceiveFrame(c) PROVE OrphanIsAborted'
    BY <1>6, <1>same
    DEF ReceiveFrame, ReceiveAttached, ReceiveEvent, ReceiveTurnId, ReceiveComplete, ReceiveAsk
  <1>7. ASSUME NEW c \in Clients, OnDisconnect(c) PROVE OrphanIsAborted'
    BY <1>7 DEF OnDisconnect, OrphanIsAborted, TypeOK
  <1>8. ASSUME NEW c \in Clients, Connect(c) PROVE OrphanIsAborted'
    BY <1>8, <1>same DEF Connect, TypeOK
  <1>9. ASSUME NEW c \in Clients, SetPermissionResolver(c) \/ CloseLink(c) \/ ClearMirror(c)
        PROVE  OrphanIsAborted'
    BY <1>9, <1>same DEF SetPermissionResolver, CloseLink, ClearMirror
  <1>10. ASSUME NEW c \in Clients, NEW t \in Turns, RunTurn(c, t) PROVE OrphanIsAborted'
    <2>1. owner' = [owner EXCEPT ![t] = c] /\ turn[t] = "none" /\ turn' = turn
      BY <1>10 DEF RunTurn, Owned
    <2> QED BY <1>10, <2>1 DEF RunTurn, OrphanIsAborted, TypeOK
  <1>11. ASSUME NEW c \in Clients, NEW t \in Turns, Answer(c, t) PROVE OrphanIsAborted'
    BY <1>11, <1>same DEF Answer
  <1>12. ASSUME NEW t \in Turns, StartLocalTurn(t) PROVE OrphanIsAborted'
    BY <1>12 DEF StartLocalTurn, OrphanIsAborted, TypeOK
  <1>13. ASSUME NEW t \in Turns, Emit(t) \/ AskPermission(t) \/ CompleteTurn(t)
         PROVE  OrphanIsAborted'
    BY <1>13, <1>same DEF Emit, AskPermission, CompleteTurn, TypeOK
  <1>14. ASSUME NEW t \in Turns, CallStep(t) PROVE OrphanIsAborted'
    BY <1>14, <1>same DEF CallStep, RegisterStream, EndStream, LeaveStream, AbortTurn
  <1>15. ASSUME NEW e \in fanout, FanOut(e) PROVE OrphanIsAborted'
    BY <1>15, <1>same DEF FanOut
  <1>16. ASSUME Close PROVE OrphanIsAborted'
    BY <1>16, <1>same DEF Close, TypeOK
  <1>17. CASE UNCHANGED vars
    BY <1>17, <1>same DEF vars
  <1> QED
    BY <1>1, <1>2, <1>3, <1>4, <1>5, <1>6, <1>7, <1>8, <1>9, <1>10, <1>11, <1>12, <1>13,
       <1>14, <1>15, <1>16, <1>17
    DEF Next, HandleFrame, TurnStep

\* A turn whose client's connection is closed has been told to stop, also
\* when its request was still queued as the connection went down.
THEOREM OrphanCorrect == Spec => []OrphanIsAborted
  <1> DEFINE IInv == TypeOK /\ Owned /\ OrphanIsAborted
  <1>1. Init => IInv
    <2>1. Init => OrphanIsAborted
      BY DEF Init, OrphanIsAborted
    <2> QED BY <2>1, TypeInit, OwnedInit
  <1>2. IInv /\ [Next]_vars => IInv'
    BY TypeNext, OwnedNext, OrphanNext
  <1> QED BY <1>1, <1>2, PTL DEF Spec

-----------------------------------------------------------------------------
(* Queues keep what they carry until it is handled.                          *)

\* A broadcast loses no frame.
LEMMA BroadcastKeeps ==
  ASSUME NEW q \in [Clients -> Seq(ServerFrame)], NEW f \in ServerFrame, NEW c \in Clients
  PROVE  Frames(q[c]) \subseteq Frames(Broadcast(q, f)[c])
  <1>1. Frames(Append(q[c], f)) = Frames(q[c]) \cup {f}
    BY FramesAppend
  <1> QED BY <1>1 DEF Broadcast

\* Nor does a frame that is sent, and it arrives in the queue of a client that
\* can be reached.
LEMMA SendKeeps ==
  ASSUME s2c \in [Clients -> Seq(ServerFrame)], NEW d \in Clients, NEW f \in ServerFrame
  PROVE  /\ \A c \in Clients : Frames(s2c[c]) \subseteq Frames(Send(d, f)[c])
         /\ Reaches(d) => f \in Frames(Send(d, f)[d])
  <1>1. Frames(Append(s2c[d], f)) = Frames(s2c[d]) \cup {f}
    BY FramesAppend
  <1> QED BY <1>1 DEF Send

\* Nor does an event that is pushed.
LEMMA PushEventKeeps ==
  ASSUME TypeOK, NEW t \in Turns, NEW q \in [Clients -> Seq(ServerFrame)], NEW c \in Clients,
         \E slow \in Slow : PushEvent(t, slow, q)
  PROVE  Frames(q[c]) \subseteq Frames(s2c'[c])
  <1>1. EventFrame(NextEvent(t)) \in ServerFrame
    BY PushEventFrames, FrameShape
  <1> QED BY <1>1, BroadcastKeeps DEF PushEvent

\* Nor does an attach.
LEMMA AttachKeeps ==
  ASSUME TypeOK, NEW d \in Clients, HandleAttach(d), NEW c \in Clients
  PROVE  Frames(s2c[c]) \subseteq Frames(s2c'[c])
  <1> DEFINE r == Replay \o <<AttachReply>>
  <1>1. /\ Replay \in Seq(ServerFrame) /\ <<AttachReply>> \in Seq(ServerFrame)
        /\ s2c[c] \in Seq(ServerFrame)
    BY ReplayFrames, FrameShape DEF TypeOK
  <1>2. Frames(s2c[c] \o Replay) = Frames(s2c[c]) \cup Frames(Replay)
    BY <1>1, FramesConcat
  <1>3. Frames(s2c[c] \o Replay \o <<AttachReply>>) = Frames(s2c[c] \o Replay) \cup Frames(<<AttachReply>>)
    <2> DEFINE p == s2c[c] \o Replay
               r1 == <<AttachReply>>
    <2>1. p \in Seq(ServerFrame) /\ r1 \in Seq(ServerFrame)
      BY <1>1, FramesConcat
    <2> HIDE DEF p, r1
    <2>2. Frames(p \o r1) = Frames(p) \cup Frames(r1)
      BY <2>1, FramesConcat
    <2> QED BY <2>2 DEF p, r1
  <1>4. CASE c = d /\ Reaches(d)
    <2>1. s2c'[c] = s2c[c] \o Replay \o <<AttachReply>>
      BY <1>4 DEF HandleAttach, TypeOK
    <2> QED BY <1>2, <1>3, <2>1
  <1>5. CASE ~(c = d /\ Reaches(d))
    <2>1. s2c'[c] = s2c[c]
      BY <1>5 DEF HandleAttach, TypeOK
    <2> QED BY <2>1
  <1> QED BY <1>4, <1>5

\* Only the head of a queue is taken out of it.
LEMMA ConsumeKeeps ==
  ASSUME NEW S, NEW q \in [Clients -> Seq(S)], NEW d \in Clients, q[d] # <<>>, NEW c \in Clients,
         NEW f \in Frames(q[c]), f # Head(q[d])
  PROVE  f \in Frames(Consume(q, d)[c])
  <1>1. CASE c = d
    <2>1. Frames(q[d]) = Frames(Consume(q, d)[d]) \cup {Head(q[d])}
      BY ConsumeFrames
    <2> QED BY <1>1, <2>1
  <1>2. CASE c # d
    <2>1. Consume(q, d)[c] = q[c]
      BY <1>2 DEF Consume
    <2> QED BY <2>1
  <1> QED BY <1>1, <1>2

\* Handling or receiving a frame of another kind takes no question away.
LEMMA AnswerStays ==
  ASSUME TypeOK, NEW c \in Clients, NEW k, k # "answer", Received(c2s, c, k),
         c2s' = Consume(c2s, c), NEW d \in Clients, NEW t \in Turns,
         TurnFrame("answer", t) \in Frames(c2s[d])
  PROVE  TurnFrame("answer", t) \in Frames(c2s'[d])
  <1>1. c2s \in [Clients -> Seq(ClientFrame)] /\ c2s[c] # <<>>
    BY DEF TypeOK, Received
  <1>2. TurnFrame("answer", t) # Head(c2s[c])
    BY DEF Received, TurnFrame
  <1> QED BY <1>1, <1>2, ConsumeKeeps

\* A question stays in its queue when another frame is taken.
LEMMA AskStays ==
  ASSUME TypeOK, NEW c \in Clients, NEW k, k # "ask", Receiving(c, k),
         s2c' = Consume(s2c, c), NEW d \in Clients, NEW t \in Turns,
         TurnFrame("ask", t) \in Frames(s2c[d])
  PROVE  TurnFrame("ask", t) \in Frames(s2c'[d])
  <1>1. s2c \in [Clients -> Seq(ServerFrame)] /\ s2c[c] # <<>>
    BY DEF TypeOK, Receiving, Received
  <1>2. TurnFrame("ask", t) # Head(s2c[c])
    BY DEF Receiving, Received, TurnFrame
  <1> QED BY <1>1, <1>2, ConsumeKeeps

-----------------------------------------------------------------------------
(* Questions.  A pending question is held somewhere, so every step that      *)
(* takes it from one place must put it into the next.                        *)

\* The question of a running turn waits in the queue to its owner, with the
\* owner, or in the queue back, or the connection is ending.
Held(t) ==
  LET c == owner[t] IN
  /\ turn[t] = "running" /\ c \in Clients /\ srv[c] \notin {"none", "closed"}
  /\ \/ TurnFrame("ask", t) \in Frames(s2c[c]) \/ t \in asking[c]
     \/ TurnFrame("answer", t) \in Frames(c2s[c])
     \/ clt[c] = "closed" \/ srv[c] = "ending"

\* A connection the server knows was opened by a client, and one that
\* answers questions is known to the server.
AskHeld ==
  /\ \A c \in Clients : /\ clt[c] = "none" => srv[c] = "none"
                        /\ handles[c] => srv[c] # "none"
  /\ \A t \in Turns : ask[t] = "pending" => Held(t)

\* Every question is held by someone at the start ...
LEMMA AskInit == Init => AskHeld
  BY DEF Init, AskHeld

\* A step that asks nothing, leaves the connections' states alone and takes
\* no question off a queue.
LEMMA AskKept ==
  ASSUME AskHeld, owner' = owner, srv' = srv, clt' = clt, handles' = handles,
         \A t \in Turns : /\ ask'[t] = "pending" => ask[t] = "pending"
                          /\ turn[t] = "running" /\ ask[t] = "pending" => turn'[t] = "running",
         \A c \in Clients : asking[c] \subseteq asking'[c],
         \A c \in Clients, t \in Turns : ask'[t] = "pending" =>
            /\ TurnFrame("ask", t) \in Frames(s2c[c]) =>
                 TurnFrame("ask", t) \in Frames(s2c'[c]) \/ t \in asking'[c]
            /\ TurnFrame("answer", t) \in Frames(c2s[c]) => TurnFrame("answer", t) \in Frames(c2s'[c])
  PROVE  AskHeld'
  <1> SUFFICES ASSUME NEW t \in Turns, ask'[t] = "pending" PROVE Held(t)'
    BY DEF AskHeld
  <1>1. Held(t)
    BY DEF AskHeld
  <1> QED BY <1>1 DEF Held

\* ... and every step keeps that.
LEMMA AskNext == TypeOK /\ Owned /\ AskHeld /\ [Next]_vars => AskHeld'
  <1> SUFFICES ASSUME TypeOK, Owned, AskHeld, [Next]_vars PROVE AskHeld'
    OBVIOUS
  <1> USE RunnerAssumption DEF sessionVars, serverVars, linkVars, callVars, clientVars
  <1>0. c2s \in [Clients -> Seq(ClientFrame)] /\ s2c \in [Clients -> Seq(ServerFrame)]
    BY DEF TypeOK
  <1>1. ASSUME NEW c \in Clients, HandleAttach(c) PROVE AskHeld'
    <2>1. \A d \in Clients : Frames(s2c[d]) \subseteq Frames(s2c'[d])
      BY <1>1, AttachKeeps
    <2>2. \A d \in Clients, t \in Turns :
            TurnFrame("answer", t) \in Frames(c2s[d]) => TurnFrame("answer", t) \in Frames(c2s'[d])
      BY <1>1, AnswerStays DEF HandleAttach
    <2>3. \A d \in Clients : /\ srv'[d] = srv[d] \/ (srv[d] = "open" /\ srv'[d] = "attached")
      BY <1>1 DEF HandleAttach, TypeOK
    <2>4. UNCHANGED <<turn, owner, ask, handles, clt, asking>>
      BY <1>1 DEF HandleAttach
    <2>5. ASSUME NEW t \in Turns, ask'[t] = "pending" PROVE Held(t)'
      <3>1. Held(t)
        BY <2>4, <2>5 DEF AskHeld
      <3> QED BY <2>1, <2>2, <2>3, <2>4, <3>1 DEF Held
    <2> QED BY <2>3, <2>4, <2>5 DEF AskHeld
  <1>2. ASSUME NEW c \in Clients, HandleSetResolver(c) PROVE AskHeld'
    <2>1. \A d \in Clients, t \in Turns :
            TurnFrame("answer", t) \in Frames(c2s[d]) => TurnFrame("answer", t) \in Frames(c2s'[d])
      BY <1>2, AnswerStays DEF HandleSetResolver
    <2>2. UNCHANGED <<turn, owner, ask, srv, clt, asking, s2c>> /\ srv[c] # "none"
          /\ \A d \in Clients : handles'[d] => handles[d] \/ d = c
      BY <1>2 DEF HandleSetResolver, Listening, TypeOK
    <2> QED BY <2>1, <2>2 DEF AskHeld, Held
  <1>3. ASSUME NEW c \in Clients, HandleRunTurn(c) PROVE AskHeld'
    <2>1. PICK t \in Turns : t = Head(c2s[c]).turn
      BY <1>3, HandledFrame, FrameShape DEF HandleRunTurn
    <2> DEFINE q == Send(c, TurnFrame("turnId", t))
    <2>2. \E slow \in Slow : PushEvent(t, slow, q)
      BY <1>3, <2>1 DEF HandleRunTurn
    <2>3. q \in [Clients -> Seq(ServerFrame)] /\ \A d \in Clients : Frames(s2c[d]) \subseteq Frames(q[d])
      BY <1>0, SendFrames, SendKeeps, FrameShape
    <2>4. \A d \in Clients : Frames(s2c[d]) \subseteq Frames(s2c'[d])
      <3> HIDE DEF q
      <3> QED BY <2>2, <2>3, PushEventKeeps
    <2>5. \A d \in Clients, u \in Turns :
            TurnFrame("answer", u) \in Frames(c2s[d]) => TurnFrame("answer", u) \in Frames(c2s'[d])
      BY <1>3, AnswerStays DEF HandleRunTurn
    <2>6. UNCHANGED <<owner, ask, srv, handles, clt, asking>> /\ turn' = [turn EXCEPT ![t] = "running"]
      BY <1>3, <2>1 DEF HandleRunTurn
    <2> QED BY <2>4, <2>5, <2>6, AskKept DEF TypeOK
  <1>4. ASSUME NEW c \in Clients, HandleAbort(c) PROVE AskHeld'
    <2>1. \A d \in Clients, t \in Turns :
            TurnFrame("answer", t) \in Frames(c2s[d]) => TurnFrame("answer", t) \in Frames(c2s'[d])
      BY <1>4, AnswerStays DEF HandleAbort
    <2>2. UNCHANGED <<turn, owner, ask, srv, handles, clt, asking, s2c>>
      BY <1>4 DEF HandleAbort
    <2> QED BY <2>1, <2>2, AskKept
  <1>5. ASSUME NEW c \in Clients, HandleAnswer(c) PROVE AskHeld'
    <2>1. PICK u \in Turns : u = Head(c2s[c]).turn
      BY <1>5, HandledFrame, FrameShape DEF HandleAnswer
    <2>2. \A d \in Clients, t \in Turns \ {u} :
            TurnFrame("answer", t) \in Frames(c2s[d]) => TurnFrame("answer", t) \in Frames(c2s'[d])
      <3>1. c2s[c] # <<>> /\ c2s' = Consume(c2s, c)
        BY <1>5 DEF HandleAnswer, Received
      <3>2. \A t \in Turns \ {u} : TurnFrame("answer", t) # Head(c2s[c])
        BY <2>1 DEF TurnFrame
      <3> QED BY <1>0, <3>1, <3>2, ConsumeKeeps
    <2>3. /\ UNCHANGED <<turn, owner, srv, handles, clt, asking, s2c>>
          /\ ask' = [ask EXCEPT ![u] = "answered"]
      BY <1>5, <2>1 DEF HandleAnswer
    <2>4. \A t \in Turns : ask'[t] = "pending" => t # u /\ ask[t] = "pending"
      BY <2>3 DEF TypeOK
    <2> QED BY <2>2, <2>3, <2>4, AskKept
  <1>6. ASSUME NEW c \in Clients, ReceiveAttached(c) PROVE AskHeld'
    <2>1. \A d \in Clients, t \in Turns :
            TurnFrame("ask", t) \in Frames(s2c[d]) => TurnFrame("ask", t) \in Frames(s2c'[d])
      BY <1>6, AskStays DEF ReceiveAttached
    <2>2. /\ UNCHANGED <<turn, owner, ask, srv, handles, asking, c2s>>
          /\ \A d \in Clients : clt'[d] = clt[d] \/ (clt[d] = "open" /\ clt'[d] = "attached")
                                 \/ (clt[d] = "attached" /\ clt'[d] = "attached")
      BY <1>6 DEF ReceiveAttached, Receiving, TypeOK
    <2> QED BY <2>1, <2>2 DEF AskHeld, Held
  <1>7. ASSUME NEW c \in Clients, ReceiveEvent(c) \/ ReceiveTurnId(c) \/ ReceiveComplete(c)
        PROVE  AskHeld'
    <2>1. /\ s2c' = Consume(s2c, c)
          /\ \E k \in {"event", "turnId", "complete"} : Receiving(c, k)
          /\ UNCHANGED <<turn, owner, ask, srv, handles, clt, asking, c2s>>
      BY <1>7 DEF ReceiveEvent, ReceiveTurnId, ReceiveComplete
    <2>2. \A d \in Clients, t \in Turns :
            TurnFrame("ask", t) \in Frames(s2c[d]) => TurnFrame("ask", t) \in Frames(s2c'[d])
      BY <2>1, AskStays
    <2> QED BY <2>1, <2>2, AskKept
  <1>8. ASSUME NEW c \in Clients, ReceiveAsk(c) PROVE AskHeld'
    <2>1. /\ s2c[c] # <<>> /\ s2c' = Consume(s2c, c)
          /\ asking' = [asking EXCEPT ![c] = @ \cup {Head(s2c[c]).turn}]
          /\ UNCHANGED <<turn, owner, ask, srv, handles, clt, c2s>>
      BY <1>8 DEF ReceiveAsk, Receiving, Received
    <2>2. \A d \in Clients : asking[d] \subseteq asking'[d]
      BY <2>1 DEF TypeOK
    <2>3. ASSUME NEW d \in Clients, NEW t \in Turns, TurnFrame("ask", t) \in Frames(s2c[d]), ask'[t] = "pending"
          PROVE  TurnFrame("ask", t) \in Frames(s2c'[d]) \/ t \in asking'[d]
      <3>1. CASE TurnFrame("ask", t) # Head(s2c[c])
        BY <1>0, <2>1, <2>3, <3>1, ConsumeKeeps
      <3>2. CASE TurnFrame("ask", t) = Head(s2c[c])
        <4>1. Head(s2c[c]).turn = t /\ Head(s2c[c]).kind = "ask" /\ Head(s2c[c]) \in Frames(s2c[c])
          BY <1>0, <2>1, <3>2, ConsumeFrames DEF TurnFrame
        <4>2. owner[t] = c /\ owner[t] = d
          BY <2>3, <3>2, <4>1 DEF Owned
        <4> QED BY <2>1, <4>1, <4>2 DEF TypeOK
      <3> QED BY <3>1, <3>2
    <2> QED BY <2>1, <2>2, <2>3, AskKept
  <1>9. ASSUME NEW c \in Clients, OnDisconnect(c) PROVE AskHeld'
    <2>1. /\ UNCHANGED <<turn, owner, handles, clt, asking, c2s, s2c>> /\ clt[c] = "closed"
          /\ \A d \in Clients : d # c => srv'[d] = srv[d]
          /\ srv'[c] = "closed"
          /\ \A t \in Turns : ask'[t] = "pending" => ask[t] = "pending" /\ owner[t] # c
      BY <1>9 DEF OnDisconnect, TypeOK
    <2> QED BY <2>1 DEF AskHeld, Held
  <1>10. ASSUME NEW c \in Clients, Connect(c) PROVE AskHeld'
    <2>1. \A d \in Clients : Frames(c2s[d]) \subseteq Frames(c2s'[d])
      <3>1. /\ \A d \in Clients \ {c} : c2s'[d] = c2s[d]
            /\ Frames(c2s'[c]) = Frames(c2s[c]) \cup {AttachRequest}
        BY <1>0, <1>10, RequestFrames, FrameShape DEF Connect
      <3> QED BY <3>1
    <2>2. /\ UNCHANGED <<turn, owner, ask, handles, asking, s2c>>
          /\ clt[c] = "none" /\ clt'[c] = "open" /\ srv'[c] = "open"
          /\ \A d \in Clients : d # c => srv'[d] = srv[d] /\ clt'[d] = clt[d]
      BY <1>10 DEF Connect, TypeOK
    <2>3. srv[c] = "none"
      BY <2>2 DEF AskHeld
    <2>4. ASSUME NEW t \in Turns, ask'[t] = "pending" PROVE Held(t)'
      <3>1. Held(t) /\ owner[t] # c
        BY <2>2, <2>3, <2>4 DEF AskHeld, Held
      <3> QED BY <2>1, <2>2, <3>1 DEF Held
    <2> QED BY <2>2, <2>4 DEF AskHeld
  <1>11. ASSUME NEW c \in Clients, SetPermissionResolver(c) PROVE AskHeld'
    <2>1. \A d \in Clients : Frames(c2s[d]) \subseteq Frames(c2s'[d])
      <3>1. /\ \A d \in Clients \ {c} : c2s'[d] = c2s[d]
            /\ Frames(c2s'[c]) = Frames(c2s[c]) \cup {SetResolver}
        BY <1>0, <1>11, RequestFrames, FrameShape DEF SetPermissionResolver
      <3> QED BY <3>1
    <2>2. UNCHANGED <<turn, owner, ask, srv, handles, clt, asking, s2c>>
      BY <1>11 DEF SetPermissionResolver
    <2> QED BY <2>1, <2>2, AskKept
  <1>12. ASSUME NEW c \in Clients, CloseLink(c) PROVE AskHeld'
    <2>1. /\ UNCHANGED <<turn, owner, ask, srv, handles>>
          /\ clt[c] # "none" /\ clt'[c] = "closed"
          /\ \A d \in Clients : d # c => clt'[d] = clt[d] /\ s2c'[d] = s2c[d] /\ c2s'[d] = c2s[d]
                                         /\ asking'[d] = asking[d]
      BY <1>12 DEF CloseLink, TypeOK
    <2> QED BY <2>1 DEF AskHeld, Held
  <1>13. ASSUME NEW c \in Clients, ClearMirror(c) PROVE AskHeld'
    BY <1>13, AskKept DEF ClearMirror
  <1>14. ASSUME NEW c \in Clients, NEW t \in Turns, RunTurn(c, t) PROVE AskHeld'
    <2>1. \A d \in Clients : Frames(c2s[d]) \subseteq Frames(c2s'[d])
      <3>1. /\ \A d \in Clients \ {c} : c2s'[d] = c2s[d]
            /\ Frames(c2s'[c]) = Frames(c2s[c]) \cup {TurnFrame("runTurn", t)}
        BY <1>0, <1>14, RequestFrames, FrameShape DEF RunTurn
      <3> QED BY <3>1
    <2>2. /\ UNCHANGED <<turn, ask, srv, handles, clt, asking, s2c>>
          /\ owner[t] = NoOwner /\ \A u \in Turns : u # t => owner'[u] = owner[u]
      BY <1>14 DEF RunTurn, TypeOK
    <2>3. ASSUME NEW u \in Turns, ask'[u] = "pending" PROVE Held(u)'
      <3>1. Held(u) /\ owner'[u] = owner[u]
        BY <2>2, <2>3 DEF AskHeld, Held
      <3> QED BY <2>1, <2>2, <3>1 DEF Held
    <2> QED BY <2>2, <2>3 DEF AskHeld
  <1>15. ASSUME NEW c \in Clients, NEW t \in Turns, Answer(c, t) PROVE AskHeld'
    <2>1. /\ \A d \in Clients : Frames(c2s[d]) \subseteq Frames(c2s'[d])
          /\ TurnFrame("answer", t) \in Frames(c2s'[c])
      <3>1. /\ \A d \in Clients \ {c} : c2s'[d] = c2s[d]
            /\ Frames(c2s'[c]) = Frames(c2s[c]) \cup {TurnFrame("answer", t)}
        BY <1>0, <1>15, RequestFrames, FrameShape DEF Answer
      <3> QED BY <3>1
    <2>2. /\ UNCHANGED <<turn, owner, ask, srv, handles, clt, s2c>>
          /\ asking' = [asking EXCEPT ![c] = @ \ {t}]
      BY <1>15 DEF Answer
    <2>3. ASSUME NEW u \in Turns, ask'[u] = "pending" PROVE Held(u)'
      <3>1. Held(u)
        BY <2>2, <2>3 DEF AskHeld
      <3>2. CASE u = t /\ owner[u] = c
        BY <2>1, <2>2, <3>1, <3>2 DEF Held
      <3>3. CASE ~(u = t /\ owner[u] = c)
        <4>1. u \in asking[owner[u]] => u \in asking'[owner[u]]
          BY <2>2, <3>1, <3>3 DEF Held, TypeOK
        <4> QED BY <2>1, <2>2, <3>1, <4>1 DEF Held
      <3> QED BY <3>2, <3>3
    <2> QED BY <2>2, <2>3 DEF AskHeld
  <1>16. ASSUME NEW t \in Turns, StartLocalTurn(t) PROVE AskHeld'
    <2>1. \A d \in Clients : Frames(s2c[d]) \subseteq Frames(s2c'[d])
      BY <1>0, <1>16, PushEventKeeps DEF StartLocalTurn
    <2>2. /\ UNCHANGED <<ask, srv, handles, clt, asking, c2s>>
          /\ owner[t] = NoOwner
          /\ \A u \in Turns : u # t => owner'[u] = owner[u] /\ turn'[u] = turn[u]
      BY <1>16 DEF StartLocalTurn, TypeOK
    <2>3. ASSUME NEW u \in Turns, ask'[u] = "pending" PROVE Held(u)'
      <3>1. Held(u) /\ owner'[u] = owner[u] /\ turn'[u] = turn[u]
        BY <2>2, <2>3 DEF AskHeld, Held
      <3> QED BY <2>1, <2>2, <3>1 DEF Held
    <2> QED BY <2>2, <2>3 DEF AskHeld
  <1>17. ASSUME NEW t \in Turns, Emit(t) PROVE AskHeld'
    <2>1. \A d \in Clients : Frames(s2c[d]) \subseteq Frames(s2c'[d])
      BY <1>0, <1>17, PushEventKeeps DEF Emit
    <2>2. UNCHANGED <<turn, owner, ask, srv, handles, clt, asking, c2s>>
      BY <1>17 DEF Emit
    <2> QED BY <2>1, <2>2, AskKept
  <1>18. ASSUME NEW t \in Turns, AskPermission(t) PROVE AskHeld'
    <2>1. /\ UNCHANGED <<turn, owner, srv, handles, clt, asking, c2s>> /\ turn[t] = "running"
          /\ \A u \in Turns : u # t => ask'[u] = ask[u]
          /\ ask'[t] = "pending" => Routed(t)
      BY <1>18 DEF AskPermission, TypeOK
    <2>2. \A d \in Clients : Frames(s2c[d]) \subseteq Frames(s2c'[d])
      BY <1>0, <1>18, SendKeeps, FrameShape DEF AskPermission, Routed
    <2>3. ASSUME ask'[t] = "pending" PROVE Held(t)'
      <3> DEFINE c == owner[t]
      <3>1. Routed(t) /\ c \in Clients /\ srv[c] \notin {"none", "closed"}
        BY <2>1, <2>3 DEF Routed, AskHeld
      <3>2. s2c' = Send(c, TurnFrame("ask", t))
        BY <1>18, <3>1 DEF AskPermission
      <3>3. CASE Reaches(c)
        <4>1. TurnFrame("ask", t) \in Frames(s2c'[c])
          BY <1>0, <3>1, <3>2, <3>3, SendKeeps, FrameShape
        <4> QED BY <2>1, <3>1, <4>1 DEF Held
      <3>4. CASE ~Reaches(c)
        <4>1. clt[c] = "closed" \/ srv[c] = "ending"
          BY <3>1, <3>4 DEF Reaches, TypeOK, ServerLink
        <4> QED BY <2>1, <3>1, <4>1 DEF Held
      <3> QED BY <3>3, <3>4
    <2>4. ASSUME NEW u \in Turns, u # t, ask'[u] = "pending" PROVE Held(u)'
      <3>1. Held(u)
        BY <2>1, <2>4 DEF AskHeld
      <3> QED BY <2>1, <2>2, <3>1 DEF Held
    <2> QED BY <2>1, <2>3, <2>4 DEF AskHeld
  <1>19. ASSUME NEW t \in Turns, CompleteTurn(t) PROVE AskHeld'
    <2>1. \A d \in Clients : Frames(s2c[d]) \subseteq Frames(s2c'[d])
      BY <1>0, <1>19, BroadcastKeeps, FrameShape DEF CompleteTurn
    <2>2. /\ UNCHANGED <<owner, ask, srv, handles, clt, asking, c2s>> /\ ask[t] # "pending"
          /\ \A u \in Turns : u # t => turn'[u] = turn[u]
      BY <1>19 DEF CompleteTurn, TypeOK
    <2> QED BY <2>1, <2>2, AskKept
  <1>20. ASSUME NEW t \in Turns, RegisterStream(t) \/ EndStream(t) \/ LeaveStream(t) PROVE AskHeld'
    BY <1>20, AskKept DEF RegisterStream, EndStream, LeaveStream
  <1>21. ASSUME NEW t \in Turns, AbortTurn(t) PROVE AskHeld'
    <2>1. owner[t] \in Clients
      BY <1>21 DEF AbortTurn, Owned
    <2>2. \A d \in Clients : Frames(c2s[d]) \subseteq Frames(c2s'[d])
      <3>1. /\ \A d \in Clients \ {owner[t]} : c2s'[d] = c2s[d]
            /\ Frames(c2s'[owner[t]]) = Frames(c2s[owner[t]]) \cup {TurnFrame("abort", t)}
        BY <1>0, <1>21, <2>1, RequestFrames, FrameShape DEF AbortTurn
      <3> QED BY <3>1
    <2>3. UNCHANGED <<turn, owner, ask, srv, handles, clt, asking, s2c>>
      BY <1>21 DEF AbortTurn
    <2> QED BY <2>2, <2>3, AskKept
  <1>22. ASSUME NEW e \in fanout, FanOut(e) PROVE AskHeld'
    <2>1. EventFrame(e) \in ServerFrame
      BY FrameShape DEF TypeOK
    <2>2. \A d \in Clients : Frames(s2c[d]) \subseteq Frames(s2c'[d])
      BY <1>0, <1>22, <2>1, BroadcastKeeps DEF FanOut
    <2>3. UNCHANGED <<turn, owner, ask, srv, handles, clt, asking, c2s>>
      BY <1>22 DEF FanOut
    <2> QED BY <2>2, <2>3, AskKept
  <1>23. ASSUME Close PROVE AskHeld'
    <2>1. /\ UNCHANGED <<turn, owner, ask, handles, clt, asking, c2s, s2c>>
          /\ \A d \in Clients : srv'[d] = srv[d] \/ (srv[d] \in {"open", "attached"} /\ srv'[d] = "ending")
      BY <1>23 DEF Close, TypeOK
    <2> QED BY <2>1 DEF AskHeld, Held
  <1>24. CASE UNCHANGED vars
    BY <1>24, AskKept DEF vars
  <1> QED
    BY <1>1, <1>2, <1>3, <1>4, <1>5, <1>6, <1>7, <1>8, <1>9, <1>10, <1>11, <1>12, <1>13,
       <1>14, <1>15, <1>16, <1>17, <1>18, <1>19, <1>20, <1>21, <1>22, <1>23, <1>24
    DEF Next, HandleFrame, ReceiveFrame, TurnStep, CallStep

\* A pending permission question is never lost and never with anyone but the
\* owner of its turn: until it is answered or rejected it is on the owner's
\* link, before the owner's user, or its connection is going down.
THEOREM AskCorrect == Spec => []AskNotLost
  <1> DEFINE IInv == TypeOK /\ Owned /\ AskHeld
  <1>1. Init => IInv
    BY TypeInit, OwnedInit, AskInit
  <1>2. IInv /\ [Next]_vars => IInv'
    BY TypeNext, OwnedNext, AskNext
  <1>3. IInv => AskNotLost
    <2> SUFFICES ASSUME IInv, NEW t \in Turns, ask[t] = "pending"
                 PROVE  LET c == owner[t]
                            carries(q) == \E i \in 1..Len(q) : q[i].kind \in {"ask", "answer"} /\ q[i].turn = t IN
                        /\ turn[t] = "running"
                        /\ c \in Clients /\ srv[c] # "closed"
                        /\ \/ carries(s2c[c]) \/ t \in asking[c] \/ carries(c2s[c])
                           \/ clt[c] = "closed" \/ srv[c] = "ending"
                        /\ \A d \in Clients \ {c} : ~carries(s2c[d]) /\ t \notin asking[d] /\ ~carries(c2s[d])
      BY DEF AskNotLost
    <2> DEFINE carries(q) == \E i \in 1..Len(q) : q[i].kind \in {"ask", "answer"} /\ q[i].turn = t
               c == owner[t]
    <2>1. Held(t)
      BY DEF AskHeld
    <2>2. \A d \in Clients : /\ TurnFrame("ask", t) \in Frames(s2c[d]) => carries(s2c[d])
                             /\ TurnFrame("answer", t) \in Frames(c2s[d]) => carries(c2s[d])
      BY DEF Frames, TurnFrame
    <2>3. ASSUME NEW d \in Clients \ {c} PROVE ~carries(s2c[d]) /\ t \notin asking[d] /\ ~carries(c2s[d])
      <3>1. \A i \in 1..Len(s2c[d]) : s2c[d][i] \in ServerFrame /\ s2c[d][i] \in Frames(s2c[d])
        BY ElementOfSeq DEF TypeOK, Frames
      <3>2. \A i \in 1..Len(c2s[d]) : c2s[d][i] \in ClientFrame /\ c2s[d][i] \in Frames(c2s[d])
        BY ElementOfSeq DEF TypeOK, Frames
      <3>3. /\ \A f \in ServerFrame : f.kind # "answer"
            /\ \A f \in ClientFrame : f.kind # "ask"
        BY DEF ServerFrame, ClientFrame, AttachReply, AttachRequest, SetResolver
      <3> QED BY <3>1, <3>2, <3>3 DEF Owned
    <2> QED BY <2>1, <2>2, <2>3 DEF Held
  <1> HIDE DEF IInv
  <1> QED BY <1>1, <1>2, <1>3, PTL DEF Spec

-----------------------------------------------------------------------------
(* Requests.  A client asks once to attach and once for each of its turns, so *)
(* a turn is started once, and after its request no replay is still to come.  *)

\* The frame is in the queue once at most.
Once(q, f) == \A i, j \in 1..Len(q) : q[i] = f /\ q[j] = f => i = j

\* A frame is still in a queue once at most after one that was not there.
LEMMA OnceAppend ==
  ASSUME NEW S, NEW q \in Seq(S), NEW g \in S, NEW f, Once(q, f), f = g => f \notin Frames(q)
  PROVE  Once(Append(q, g), f)
  <1> DEFINE r == Append(q, g)
  <1>1. /\ Len(r) = Len(q) + 1 /\ Len(q) \in Nat
        /\ \A i \in 1..Len(q) : r[i] = q[i]
        /\ r[Len(q) + 1] = g
    BY AppendProperties, LenProperties
  <1> HIDE DEF r
  <1>2. ASSUME NEW i \in 1..Len(r), NEW j \in 1..Len(r), r[i] = f, r[j] = f PROVE i = j
    <2>1. CASE i \in 1..Len(q) /\ j \in 1..Len(q)
      BY <1>1, <1>2, <2>1 DEF Once
    <2>2. CASE i = Len(q) + 1 /\ j = Len(q) + 1
      BY <2>2
    <2>3. CASE i \in 1..Len(q) /\ j = Len(q) + 1
      BY <1>1, <1>2, <2>3 DEF Frames
    <2>4. CASE i = Len(q) + 1 /\ j \in 1..Len(q)
      BY <1>1, <1>2, <2>4 DEF Frames
    <2> QED BY <1>1, <2>1, <2>2, <2>3, <2>4
  <1> QED BY <1>2 DEF Once, r

\* So it is without the head, and if it was the head it is there no more.
LEMMA OnceTail ==
  ASSUME NEW S, NEW q \in Seq(S), q # <<>>, NEW f, Once(q, f)
  PROVE  /\ Once(Tail(q), f)
         /\ Head(q) = f => f \notin Frames(Tail(q))
  <1> DEFINE r == Tail(q)
  <1>1. /\ Head(q) = q[1] /\ Len(q) \in Nat \ {0} /\ Len(r) = Len(q) - 1
        /\ \A i \in 1..Len(q) - 1 : r[i] = q[i + 1]
    BY FramesTail
  <1> HIDE DEF r
  <1>2. \A i \in 1..Len(r) : i + 1 \in 1..Len(q) /\ i + 1 # 1 /\ r[i] = q[i + 1]
    BY <1>1
  <1>3. ASSUME NEW i \in 1..Len(r), NEW j \in 1..Len(r), r[i] = f, r[j] = f PROVE i = j
    <2>1. i + 1 = j + 1
      BY <1>2, <1>3 DEF Once
    <2> QED BY <2>1
  <1>4. ASSUME q[1] = f, NEW i \in 1..Len(r) PROVE r[i] # f
    <2>1. 1 \in 1..Len(q)
      BY <1>1
    <2> QED BY <1>2, <1>4, <2>1 DEF Once
  <1> QED BY <1>1, <1>3, <1>4 DEF Once, Frames, r

\* So it is in the beginning of the queue.
LEMMA OnceSubSeq ==
  ASSUME NEW S, NEW q \in Seq(S), NEW n \in 0..Len(q), NEW f, Once(q, f)
  PROVE  Once(SubSeq(q, 1, n), f)
  <1> DEFINE r == SubSeq(q, 1, n)
  <1>1. Len(q) \in Nat /\ n \in Nat
    BY LenProperties
  <1>2. \A i \in 1..n : q[i] \in S
    BY <1>1, ElementOfSeq
  <1>3. Len(r) = n /\ \A i \in 1..n : r[i] = q[i]
    BY <1>1, <1>2, SubSeqProperties
  <1> HIDE DEF r
  <1>4. \A i \in 1..Len(r) : i \in 1..Len(q) /\ r[i] = q[i]
    BY <1>1, <1>3
  <1> QED BY <1>4 DEF Once, r

\* What a client asks for once: to attach, and each turn.
Asks == {AttachRequest} \cup {TurnFrame("runTurn", t) : t \in Turns}

\* No request is in a queue twice or after its effect, and nothing is logged of
\* a turn nobody asked for.
Requested ==
  /\ \A c \in Clients :
       /\ clt[c] = "none" =>
            /\ c2s[c] = <<>> /\ AttachReply \notin Frames(s2c[c])
            /\ \A t \in Turns : owner[t] # c
       /\ \A f \in Asks : Once(c2s[c], f)
       /\ AttachReply \in Frames(s2c[c]) \/ clt[c] = "attached" \/ (\E t \in Turns : owner[t] = c)
            => AttachRequest \notin Frames(c2s[c])
       /\ \A t \in Turns : TurnFrame("runTurn", t) \in Frames(c2s[c]) => turn[t] = "none"
  /\ \A i \in 1..Len(log) : turn[log[i].turn] # "none"

\* Every request is asked once at the start ...
LEMMA RequestedInit == Init => Requested
  <1> SUFFICES ASSUME Init PROVE Requested
    OBVIOUS
  <1>1. \A c \in Clients : /\ c2s[c] = <<>> /\ s2c[c] = <<>> /\ clt[c] = "none"
                           /\ \A t \in Turns : owner[t] # c
    BY RunnerAssumption DEF Init
  <1>2. log = <<>> /\ Len(<<>>) = 0
    BY DEF Init
  <1>3. \A f : Once(<<>>, f)
    BY DEF Once
  <1> QED BY <1>1, <1>2, <1>3, FramesEmpty DEF Requested

\* A step that puts no request on a queue and starts no turn.
LEMMA NothingRequested ==
  ASSUME Requested, log' = log, turn' = turn, owner' = owner,
         \A c \in Clients :
           /\ clt'[c] = "none" => clt[c] = "none"
           /\ clt'[c] = "attached" => clt[c] = "attached" \/ AttachReply \in Frames(s2c[c])
           /\ clt[c] = "none" => c2s'[c] = c2s[c]
           /\ Frames(c2s'[c]) \cap Asks \subseteq Frames(c2s[c])
           /\ AttachReply \in Frames(s2c'[c]) => AttachReply \in Frames(s2c[c])
           /\ \A f \in Asks : Once(c2s[c], f) => Once(c2s'[c], f)
  PROVE  Requested'
  <1>1. AttachRequest \in Asks /\ \A t \in Turns : TurnFrame("runTurn", t) \in Asks
    BY DEF Asks
  <1> QED BY <1>1 DEF Requested

\* A request of the other kinds, and a handled frame.
LEMMA OtherRequest ==
  ASSUME TypeOK, NEW d \in Clients, NEW g \in ClientFrame, g \notin Asks, Request(d, g), NEW c \in Clients
  PROVE  /\ Frames(c2s'[c]) \cap Asks \subseteq Frames(c2s[c])
         /\ c # d => c2s'[c] = c2s[c]
         /\ \A f \in Asks : Once(c2s[c], f) => Once(c2s'[c], f)
  <1>1. c2s \in [Clients -> Seq(ClientFrame)]
    BY DEF TypeOK
  <1>2. CASE c = d
    <2>1. c2s'[c] = Append(c2s[c], g)
      BY <1>1, <1>2 DEF Request
    <2>2. Frames(c2s'[c]) = Frames(c2s[c]) \cup {g}
      BY <1>1, <2>1, FramesAppend
    <2> QED BY <1>1, <1>2, <2>1, <2>2, OnceAppend
  <1>3. CASE c # d
    <2>1. c2s'[c] = c2s[c]
      BY <1>1, <1>3 DEF Request
    <2> QED BY <1>3, <2>1
  <1> QED BY <1>2, <1>3

\* A request that is handled leaves its queue, and no queue gains any.
LEMMA HandledRequest ==
  ASSUME TypeOK, NEW d \in Clients, c2s[d] # <<>>, c2s' = Consume(c2s, d), NEW c \in Clients
  PROVE  /\ Frames(c2s'[c]) \subseteq Frames(c2s[c])
         /\ c2s[c] = <<>> => c2s'[c] = c2s[c]
         /\ \A f \in Asks : Once(c2s[c], f) => Once(c2s'[c], f)
         /\ \A f \in Asks : Once(c2s[d], f) /\ Head(c2s[d]) = f => f \notin Frames(c2s'[d])
  <1>1. c2s \in [Clients -> Seq(ClientFrame)]
    BY DEF TypeOK
  <1>2. c2s'[d] = Tail(c2s[d]) /\ (c # d => c2s'[c] = c2s[c])
    BY <1>1 DEF Consume
  <1>3. Frames(Tail(c2s[d])) \subseteq Frames(c2s[d])
    BY <1>1, FramesTail
  <1>4. \A f \in Asks : Once(c2s[d], f) => Once(Tail(c2s[d]), f) /\ (Head(c2s[d]) = f => f \notin Frames(Tail(c2s[d])))
    BY <1>1, OnceTail
  <1> QED BY <1>2, <1>3, <1>4

\* A request and its reply are known by their kind and turn.
LEMMA FrameKinds ==
  /\ \A f \in ClientFrame : /\ f.kind = "attach" => f = AttachRequest
                            /\ f.kind = "runTurn" => f = TurnFrame("runTurn", f.turn)
  /\ \A f \in ServerFrame : /\ f.kind = "attached" => f = AttachReply
                            /\ f.kind = "turnId" => f = TurnFrame("turnId", f.turn)
                            /\ f.kind = "complete" => f = TurnFrame("complete", f.turn)
  /\ AttachRequest \in Asks /\ \A t \in Turns : TurnFrame("runTurn", t) \in Asks
  /\ SetResolver \notin Asks
  /\ \A t \in Turns : TurnFrame("abort", t) \notin Asks /\ TurnFrame("answer", t) \notin Asks
  /\ \A t : \A k \in {"turnId", "complete", "ask", "runTurn"} : TurnFrame(k, t) # AttachReply /\ TurnFrame(k, t) # AttachRequest
  /\ \A e : EventFrame(e) # AttachReply
  <1>1. \A t : \A k : TurnFrame(k, t).kind = k
    BY DEF TurnFrame
  <1>2. \A e : EventFrame(e).kind = "event"
    BY DEF EventFrame
  <1>3. AttachReply.kind = "attached" /\ AttachRequest.kind = "attach" /\ SetResolver.kind = "setResolver"
    BY DEF AttachReply, AttachRequest, SetResolver
  <1>4. ASSUME NEW f \in ClientFrame
        PROVE  /\ f.kind = "attach" => f = AttachRequest
               /\ f.kind = "runTurn" => f = TurnFrame("runTurn", f.turn)
    BY <1>3 DEF ClientFrame, TurnFrame
  <1>5. ASSUME NEW f \in ServerFrame
        PROVE  /\ f.kind = "attached" => f = AttachReply
               /\ f.kind = "turnId" => f = TurnFrame("turnId", f.turn)
               /\ f.kind = "complete" => f = TurnFrame("complete", f.turn)
    BY <1>3 DEF ServerFrame, TurnFrame
  <1>6. AttachRequest \in Asks /\ \A t \in Turns : TurnFrame("runTurn", t) \in Asks
    BY DEF Asks
  <1>7. \A f \in Asks : f.kind \in {"attach", "runTurn"}
    BY <1>1, <1>3 DEF Asks
  <1>8. /\ SetResolver \notin Asks
        /\ \A t \in Turns : TurnFrame("abort", t) \notin Asks /\ TurnFrame("answer", t) \notin Asks
    BY <1>1, <1>3, <1>7
  <1> QED BY <1>1, <1>2, <1>3, <1>4, <1>5, <1>6, <1>8

\* A step that starts or runs turn t and appends an event of it.
LEMMA TurnPushed ==
  ASSUME TypeOK, Requested, NEW t \in Turns, turn' \in [Turns -> {"none", "running", "done"}],
         turn'[t] # "none", \A u \in Turns : u # t => turn'[u] = turn[u],
         NEW q \in [Clients -> Seq(ServerFrame)], \E slow \in Slow : PushEvent(t, slow, q)
  PROVE  /\ \A i \in 1..Len(log') : turn'[log'[i].turn] # "none"
         /\ \A c \in Clients : AttachReply \in Frames(s2c'[c]) => AttachReply \in Frames(q[c])
  <1>0. NextEvent(t) \in Event /\ NextEvent(t).turn = t
    BY PushEventFrames DEF NextEvent
  <1>1. /\ Len(log) \in Nat /\ Len(log') = Len(log) + 1
        /\ \A i \in 1..Len(log) : log'[i] = log[i]
        /\ log'[Len(log) + 1] = NextEvent(t)
        /\ \A c \in Clients : Frames(s2c'[c]) \subseteq Frames(q[c]) \cup {EventFrame(NextEvent(t))}
    BY PushEventFrames
  <1>2. ASSUME NEW i \in 1..Len(log') PROVE turn'[log'[i].turn] # "none"
    <2>1. CASE i = Len(log) + 1
      BY <1>0, <1>1, <2>1
    <2>2. CASE i \in 1..Len(log)
      <3>1. log \in Seq(Event)
        BY DEF TypeOK
      <3>2. log[i] \in Event
        BY <2>2, <3>1, ElementOfSeq
      <3>3. log[i].turn \in Turns
        BY <3>2 DEF Event
      <3> QED BY <1>1, <2>2, <3>3 DEF Requested
    <2> QED BY <1>1, <2>1, <2>2
  <1>3. EventFrame(NextEvent(t)) # AttachReply
    BY FrameKinds
  <1> QED BY <1>1, <1>2, <1>3

\* ... and every step keeps that.
LEMMA RequestedNext == TypeOK /\ Owned /\ Requested /\ [Next]_vars => Requested'
  <1> SUFFICES ASSUME TypeOK, Owned, Requested, [Next]_vars PROVE Requested'
    OBVIOUS
  <1> USE RunnerAssumption DEF sessionVars, serverVars, linkVars, callVars, clientVars
  <1>0. c2s \in [Clients -> Seq(ClientFrame)] /\ s2c \in [Clients -> Seq(ServerFrame)]
    BY DEF TypeOK
  <1>handled. ASSUME NEW d \in Clients, c2s[d] # <<>>, c2s' = Consume(c2s, d),
                     UNCHANGED <<log, turn, owner, clt, s2c>>
              PROVE  Requested'
    BY <1>handled, HandledRequest, NothingRequested DEF Requested
  <1>asked. ASSUME NEW d \in Clients, NEW g \in ClientFrame, g \notin Asks, Request(d, g),
                   clt[d] # "none", UNCHANGED <<log, turn, owner, clt, s2c>>
            PROVE  Requested'
    BY <1>asked, OtherRequest, NothingRequested
  <1>kept. ASSUME UNCHANGED <<log, turn, owner, clt, c2s>>,
                  \A c \in Clients : AttachReply \in Frames(s2c'[c]) => AttachReply \in Frames(s2c[c])
           PROVE  Requested'
    BY <1>kept, NothingRequested
  <1>1. ASSUME NEW c \in Clients, HandleAttach(c) PROVE Requested'
    <2>1. /\ c2s[c] # <<>> /\ c2s' = Consume(c2s, c) /\ UNCHANGED <<log, turn, owner, clt>>
          /\ \A d \in Clients : d # c => s2c'[d] = s2c[d]
      BY <1>1 DEF HandleAttach, Received, TypeOK
    <2>2. Head(c2s[c]) = AttachRequest
      BY <1>1, HandledFrame, FrameKinds DEF HandleAttach
    <2>3. AttachRequest \notin Frames(c2s'[c])
      BY <2>1, <2>2, HandledRequest, FrameKinds DEF Requested
    <2>4. clt[c] # "none"
      BY <2>1 DEF Requested
    <2>5. \A d \in Clients : Frames(c2s'[d]) \subseteq Frames(c2s[d]) /\ (c2s[d] = <<>> => c2s'[d] = c2s[d])
                             /\ \A f \in Asks : Once(c2s'[d], f)
      BY <2>1, HandledRequest DEF Requested
    <2>6. ASSUME NEW d \in Clients
          PROVE  AttachReply \in Frames(s2c'[d]) \/ clt[d] = "attached" \/ (\E t \in Turns : owner[t] = d)
                   => AttachRequest \notin Frames(c2s'[d])
      BY <2>1, <2>3, <2>5 DEF Requested
    <2>7. ASSUME NEW d \in Clients, clt[d] = "none"
          PROVE c2s'[d] = <<>> /\ AttachReply \notin Frames(s2c'[d]) /\ \A t \in Turns : owner[t] # d
      BY <2>1, <2>4, <2>5, <2>7 DEF Requested
    <2>8. \A d \in Clients : \A t \in Turns : TurnFrame("runTurn", t) \in Frames(c2s'[d]) => turn[t] = "none"
      BY <2>5 DEF Requested
    <2>9. \A i \in 1..Len(log) : turn[log[i].turn] # "none"
      BY DEF Requested
    <2> QED BY <2>1, <2>5, <2>6, <2>7, <2>8, <2>9 DEF Requested
  <1>2. ASSUME NEW c \in Clients, HandleSetResolver(c) \/ HandleAbort(c) \/ HandleAnswer(c) PROVE Requested'
    BY <1>2, <1>handled DEF HandleSetResolver, HandleAbort, HandleAnswer, Received
  <1>3. ASSUME NEW c \in Clients, HandleRunTurn(c) PROVE Requested'
    <2>1. /\ Head(c2s[c]) \in ClientFrame /\ Head(c2s[c]) \in Frames(c2s[c])
          /\ Head(c2s[c]).kind = "runTurn"
      BY <1>3, HandledFrame DEF HandleRunTurn
    <2>2. PICK t \in Turns : t = Head(c2s[c]).turn /\ Head(c2s[c]) = TurnFrame("runTurn", t) /\ owner[t] = c
      BY <2>1, FrameShape, FrameKinds DEF Owned
    <2>3. /\ c2s[c] # <<>> /\ c2s' = Consume(c2s, c) /\ UNCHANGED <<owner, clt>>
          /\ turn' = [turn EXCEPT ![t] = "running"]
          /\ \E slow \in Slow : PushEvent(t, slow, Send(c, TurnFrame("turnId", t)))
      BY <1>3, <2>2 DEF HandleRunTurn, Received
    <2>4. \A d \in Clients : Frames(c2s'[d]) \subseteq Frames(c2s[d]) /\ (c2s[d] = <<>> => c2s'[d] = c2s[d])
                             /\ \A f \in Asks : Once(c2s'[d], f)
      BY <2>3, HandledRequest DEF Requested
    <2>5. \A d \in Clients : TurnFrame("runTurn", t) \notin Frames(c2s'[d])
      <3> SUFFICES ASSUME NEW d \in Clients, TurnFrame("runTurn", t) \in Frames(c2s'[d]) PROVE FALSE
        OBVIOUS
      <3>1. CASE d = c
        BY <2>2, <2>3, <3>1, HandledRequest, FrameKinds DEF Requested
      <3>2. CASE d # c
        <4>1. TurnFrame("runTurn", t) \in Frames(c2s[d]) /\ TurnFrame("runTurn", t).kind = "runTurn"
              /\ TurnFrame("runTurn", t).turn = t
          BY <2>4 DEF TurnFrame
        <4> QED BY <2>2, <3>2, <4>1 DEF Owned
      <3> QED BY <3>1, <3>2
    <2> DEFINE q == Send(c, TurnFrame("turnId", t))
    <2>6. /\ q \in [Clients -> Seq(ServerFrame)]
          /\ \A d \in Clients : AttachReply \in Frames(q[d]) => AttachReply \in Frames(s2c[d])
      BY <1>0, SendFrames, FrameShape, FrameKinds
    <2>7. /\ turn' \in [Turns -> {"none", "running", "done"}] /\ turn'[t] # "none"
          /\ \A u \in Turns : u # t => turn'[u] = turn[u]
      BY <2>3 DEF TypeOK
    <2>8. /\ \A i \in 1..Len(log') : turn'[log'[i].turn] # "none"
          /\ \A d \in Clients : AttachReply \in Frames(s2c'[d]) => AttachReply \in Frames(s2c[d])
      <3> HIDE DEF q
      <3>1. \E slow \in Slow : PushEvent(t, slow, q)
        BY <2>3 DEF q
      <3> QED BY <2>6, <2>7, <3>1, TurnPushed
    <2>9. \A d \in Clients, u \in Turns : TurnFrame("runTurn", u) \in Frames(c2s'[d]) => turn'[u] = "none"
      BY <2>4, <2>5, <2>7 DEF Requested
    <2> QED BY <2>3, <2>4, <2>8, <2>9 DEF Requested
  <1>4. ASSUME NEW c \in Clients, ReceiveAttached(c) PROVE Requested'
    <2>0. Receiving(c, "attached") /\ s2c' = Consume(s2c, c)
      BY <1>4 DEF ReceiveAttached
    <2>1. /\ Head(s2c[c]) = AttachReply /\ Head(s2c[c]) \in Frames(s2c[c])
          /\ \A d \in Clients : Frames(s2c'[d]) \subseteq Frames(s2c[d])
      <3>1. /\ Head(s2c[c]) \in ServerFrame /\ Head(s2c[c]) \in Frames(s2c[c])
            /\ Head(s2c[c]).kind = "attached"
            /\ \A d \in Clients : Frames(s2c'[d]) \subseteq Frames(s2c[d])
        BY <2>0, ReceivedFrame
      <3> QED BY <3>1, FrameKinds
    <2>2. /\ UNCHANGED <<log, turn, owner, c2s>>
          /\ clt' = [clt EXCEPT ![c] = "attached"]
      BY <1>4 DEF ReceiveAttached
    <2> QED BY <2>1, <2>2, NothingRequested DEF TypeOK
  <1>5. ASSUME NEW c \in Clients, ReceiveEvent(c) \/ ReceiveTurnId(c) \/ ReceiveComplete(c) \/ ReceiveAsk(c)
        PROVE  Requested'
    <2>1. \A d \in Clients : Frames(s2c'[d]) \subseteq Frames(s2c[d])
      BY <1>5, ReceivedFrame DEF ReceiveEvent, ReceiveTurnId, ReceiveComplete, ReceiveAsk
    <2> QED BY <1>5, <2>1, <1>kept DEF ReceiveEvent, ReceiveTurnId, ReceiveComplete, ReceiveAsk
  <1>6. ASSUME NEW c \in Clients, OnDisconnect(c) \/ ClearMirror(c) PROVE Requested'
    BY <1>6, <1>kept DEF OnDisconnect, ClearMirror
  <1>7. ASSUME NEW c \in Clients, Connect(c) PROVE Requested'
    <2>1. /\ UNCHANGED <<log, turn, owner, s2c>> /\ clt[c] = "none"
          /\ clt' = [clt EXCEPT ![c] = "open"] /\ c2s' = [c2s EXCEPT ![c] = Append(c2s[c], AttachRequest)]
      BY <1>7 DEF Connect, Request
    <2>2. c2s[c] = <<>> /\ AttachReply \notin Frames(s2c[c]) /\ \A t \in Turns : owner[t] # c
      BY <2>1 DEF Requested
    <2>3. /\ c2s'[c] = Append(c2s[c], AttachRequest) /\ clt'[c] = "open"
          /\ \A d \in Clients : d # c => c2s'[d] = c2s[d] /\ clt'[d] = clt[d]
      BY <2>1 DEF TypeOK
    <2>4. Frames(c2s'[c]) = {AttachRequest}
      <3>1. c2s[c] \in Seq(ClientFrame) /\ AttachRequest \in ClientFrame
        BY <1>0, FrameShape
      <3>2. Frames(Append(c2s[c], AttachRequest)) = Frames(c2s[c]) \cup {AttachRequest}
        BY <3>1, FramesAppend
      <3> QED BY <2>2, <2>3, <3>2, FramesEmpty
    <2>5. \A f \in Asks : Once(c2s'[c], f)
      <3>1. c2s[c] \in Seq(ClientFrame) /\ \A f \in Asks : Once(c2s[c], f)
        BY <1>0 DEF Requested
      <3>2. AttachRequest \in ClientFrame /\ \A f \in Asks : f \notin Frames(c2s[c])
        BY <2>2, FramesEmpty, FrameShape
      <3> QED BY <2>3, <3>1, <3>2, OnceAppend
    <2>6. \A t \in Turns : TurnFrame("runTurn", t) # AttachRequest
      BY FrameKinds
    <2> QED BY <2>1, <2>2, <2>3, <2>4, <2>5, <2>6 DEF Requested
  <1>8. ASSUME NEW c \in Clients, SetPermissionResolver(c) PROVE Requested'
    BY <1>8, <1>asked, FrameShape, FrameKinds DEF SetPermissionResolver
  <1>9. ASSUME NEW c \in Clients, CloseLink(c) PROVE Requested'
    <2>1. /\ clt[c] # "none" /\ UNCHANGED <<log, turn, owner>>
          /\ clt' = [clt EXCEPT ![c] = "closed"] /\ s2c' = [s2c EXCEPT ![c] = <<>>]
      BY <1>9 DEF CloseLink
    <2>2. PICK n \in 0..Len(c2s[c]) : c2s' = [c2s EXCEPT ![c] = SubSeq(c2s[c], 1, n)]
      BY <1>9 DEF CloseLink
    <2>3. /\ Frames(SubSeq(c2s[c], 1, n)) \subseteq Frames(c2s[c])
          /\ \A f \in Asks : Once(c2s[c], f) => Once(SubSeq(c2s[c], 1, n), f)
      BY <1>0, FramesSubSeq, OnceSubSeq
    <2>4. \A d \in Clients : /\ Frames(c2s'[d]) \subseteq Frames(c2s[d])
                             /\ \A f \in Asks : Once(c2s[d], f) => Once(c2s'[d], f)
                             /\ clt[d] = "none" => c2s'[d] = c2s[d]
                             /\ clt'[d] = clt[d] \/ clt'[d] = "closed"
                             /\ Frames(s2c'[d]) \subseteq Frames(s2c[d])
      BY <1>0, <2>1, <2>2, <2>3, FramesEmpty DEF TypeOK
    <2> QED BY <2>1, <2>4, NothingRequested
  <1>10. ASSUME NEW c \in Clients, NEW t \in Turns, RunTurn(c, t) PROVE Requested'
    <2> DEFINE g == TurnFrame("runTurn", t)
    <2>1. /\ UNCHANGED <<log, turn, s2c, clt>> /\ clt[c] = "attached" /\ owner[t] = NoOwner
          /\ owner' = [owner EXCEPT ![t] = c] /\ Request(c, g)
      BY <1>10 DEF RunTurn
    <2>2. g \in ClientFrame /\ g.kind = "runTurn" /\ g.turn = t
      BY FrameShape DEF TurnFrame
    <2>3. turn[t] = "none" /\ g \notin Frames(c2s[c])
      BY <2>1, <2>2 DEF Owned
    <2>4. /\ c2s'[c] = Append(c2s[c], g) /\ \A d \in Clients : d # c => c2s'[d] = c2s[d]
          /\ Frames(c2s'[c]) = Frames(c2s[c]) \cup {g}
      <3>1. Request(c, g) /\ Frames(Append(c2s[c], g)) = Frames(c2s[c]) \cup {g}
        BY <1>0, <2>1, <2>2, FramesAppend
      <3> QED BY <1>0, <3>1 DEF Request
    <2>5. \A f \in Asks : Once(c2s'[c], f)
      <3>1. c2s[c] \in Seq(ClientFrame) /\ \A f \in Asks : Once(c2s[c], f)
        BY <1>0 DEF Requested
      <3> HIDE DEF g
      <3> QED BY <2>2, <2>3, <2>4, <3>1, OnceAppend
    <2>6. AttachRequest \notin Frames(c2s'[c])
      BY <2>1, <2>4, FrameKinds DEF Requested
    <2>7. \A u \in Turns : TurnFrame("runTurn", u) \in Frames(c2s'[c]) => turn[u] = "none"
      <3>1. \A u \in Turns : TurnFrame("runTurn", u) = g => u = t
        BY DEF TurnFrame
      <3> QED BY <2>3, <2>4, <3>1 DEF Requested
    <2>8. \A d \in Clients, u \in Turns : d # c /\ owner'[u] = d => owner[u] = d
      BY <2>1 DEF TypeOK
    <2> HIDE DEF g
    <2>9. ASSUME NEW d \in Clients, d # c
          PROVE  /\ clt[d] = "none" =>
                      /\ c2s'[d] = <<>> /\ AttachReply \notin Frames(s2c[d])
                      /\ \A u \in Turns : owner'[u] # d
                 /\ \A f \in Asks : Once(c2s'[d], f)
                 /\ AttachReply \in Frames(s2c[d]) \/ clt[d] = "attached" \/ (\E u \in Turns : owner'[u] = d)
                      => AttachRequest \notin Frames(c2s'[d])
                 /\ \A u \in Turns : TurnFrame("runTurn", u) \in Frames(c2s'[d]) => turn[u] = "none"
      BY <2>4, <2>8, <2>9 DEF Requested
    <2> QED BY <2>1, <2>5, <2>6, <2>7, <2>9 DEF Requested
  <1>11. ASSUME NEW c \in Clients, NEW t \in Turns, Answer(c, t) PROVE Requested'
    BY <1>11, <1>asked, FrameShape, FrameKinds DEF Answer
  <1>12. ASSUME NEW t \in Turns, StartLocalTurn(t) PROVE Requested'
    <2>1. /\ UNCHANGED <<clt, c2s>> /\ owner[t] = NoOwner
          /\ turn' = [turn EXCEPT ![t] = "running"] /\ owner' = [owner EXCEPT ![t] = Local]
          /\ \E slow \in Slow : PushEvent(t, slow, s2c)
      BY <1>12 DEF StartLocalTurn
    <2>2. /\ turn' \in [Turns -> {"none", "running", "done"}] /\ turn'[t] # "none"
          /\ \A u \in Turns : u # t => turn'[u] = turn[u]
          /\ \A d \in Clients, u \in Turns : owner'[u] = d => owner[u] = d
      BY <2>1 DEF TypeOK
    <2>3. \A d \in Clients : TurnFrame("runTurn", t) \notin Frames(c2s[d])
      <3>1. TurnFrame("runTurn", t).kind = "runTurn" /\ TurnFrame("runTurn", t).turn = t
        BY DEF TurnFrame
      <3> QED BY <2>1, <3>1 DEF Owned
    <2>4. /\ \A i \in 1..Len(log') : turn'[log'[i].turn] # "none"
          /\ \A c \in Clients : AttachReply \in Frames(s2c'[c]) => AttachReply \in Frames(s2c[c])
      BY <1>0, <2>1, <2>2, TurnPushed
    <2>5. \A d \in Clients, u \in Turns : TurnFrame("runTurn", u) \in Frames(c2s[d]) => turn'[u] = "none"
      BY <2>2, <2>3 DEF Requested
    <2> QED BY <2>1, <2>2, <2>4, <2>5 DEF Requested
  <1>13. ASSUME NEW t \in Turns, Emit(t) PROVE Requested'
    <2>1. /\ UNCHANGED <<clt, c2s, owner, turn>> /\ turn[t] = "running"
          /\ \E slow \in Slow : PushEvent(t, slow, s2c)
      BY <1>13 DEF Emit
    <2>2. /\ \A i \in 1..Len(log') : turn'[log'[i].turn] # "none"
          /\ \A c \in Clients : AttachReply \in Frames(s2c'[c]) => AttachReply \in Frames(s2c[c])
      BY <1>0, <2>1, TurnPushed DEF TypeOK
    <2> QED BY <2>1, <2>2 DEF Requested
  <1>14. ASSUME NEW t \in Turns, AskPermission(t) PROVE Requested'
    <2>1. \A d \in Clients : AttachReply \in Frames(s2c'[d]) => AttachReply \in Frames(s2c[d])
      BY <1>0, <1>14, SendFrames, FrameShape, FrameKinds DEF AskPermission, Routed
    <2> QED BY <1>14, <2>1, <1>kept DEF AskPermission
  <1>15. ASSUME NEW t \in Turns, CompleteTurn(t) PROVE Requested'
    <2>1. \A d \in Clients : AttachReply \in Frames(s2c'[d]) => AttachReply \in Frames(s2c[d])
      <3>1. TurnFrame("complete", t) \in ServerFrame /\ TurnFrame("complete", t) # AttachReply
        BY FrameShape, FrameKinds
      <3>2. \A d \in Clients : Frames(s2c'[d]) \subseteq Frames(s2c[d]) \cup {TurnFrame("complete", t)}
        BY <1>0, <1>15, <3>1, BroadcastFrames DEF CompleteTurn
      <3> QED BY <3>1, <3>2
    <2>2. /\ UNCHANGED <<log, owner, clt, c2s>> /\ turn[t] = "running"
          /\ \A u \in Turns : /\ turn'[u] = "none" <=> turn[u] = "none"
      BY <1>15 DEF CompleteTurn, TypeOK
    <2>3. \A i \in 1..Len(log) : log[i].turn \in Turns
      <3>1. log \in Seq(Event)
        BY DEF TypeOK
      <3>2. \A i \in 1..Len(log) : log[i] \in Event
        BY <3>1, ElementOfSeq
      <3> QED BY <3>2 DEF Event
    <2> QED BY <2>1, <2>2, <2>3 DEF Requested
  <1>16. ASSUME NEW t \in Turns, RegisterStream(t) \/ EndStream(t) \/ LeaveStream(t) PROVE Requested'
    BY <1>16, <1>kept DEF RegisterStream, EndStream, LeaveStream
  <1>17. ASSUME NEW t \in Turns, AbortTurn(t) PROVE Requested'
    <2>1. owner[t] \in Clients /\ clt[owner[t]] # "none"
      BY <1>17 DEF AbortTurn, Owned
    <2> QED BY <1>17, <2>1, <1>asked, FrameShape, FrameKinds DEF AbortTurn
  <1>18. ASSUME NEW e \in fanout, FanOut(e) PROVE Requested'
    <2>1. EventFrame(e) \in ServerFrame /\ EventFrame(e) # AttachReply
      BY FrameShape, FrameKinds DEF TypeOK
    <2>2. \A d \in Clients : AttachReply \in Frames(s2c'[d]) => AttachReply \in Frames(s2c[d])
      <3>1. \A d \in Clients : Frames(s2c'[d]) \subseteq Frames(s2c[d]) \cup {EventFrame(e)}
        BY <1>0, <1>18, <2>1, BroadcastFrames DEF FanOut
      <3> QED BY <2>1, <3>1
    <2> QED BY <1>18, <2>2, <1>kept DEF FanOut
  <1>19. ASSUME Close PROVE Requested'
    BY <1>19, <1>kept DEF Close
  <1>20. CASE UNCHANGED vars
    BY <1>20, <1>kept DEF vars
  <1> QED
    BY <1>1, <1>2, <1>3, <1>4, <1>5, <1>6, <1>7, <1>8, <1>9, <1>10, <1>11, <1>12, <1>13,
       <1>14, <1>15, <1>16, <1>17, <1>18, <1>19, <1>20
    DEF Next, HandleFrame, ReceiveFrame, TurnStep, CallStep

-----------------------------------------------------------------------------
(* Streams.  On the link to a turn's owner the events of that turn are in     *)
(* order and above everything its stream or mirror has: a turn awaits each of *)
(* its events, and no replay comes after its request.                         *)

\* The frame brings an event of the turn.
EventOf(f, t) == f.kind = "event" /\ f.event.turn = t

\* The events of turn t on queue q are in order, and above the seqs S.
InOrder(q, t, S) ==
  \A i \in 1..Len(q) : EventOf(q[i], t) =>
    /\ \A n \in S : n < q[i].event.seq
    /\ \A j \in 1..(i - 1) : EventOf(q[j], t) => q[j].event.seq < q[i].event.seq

\* A queue with the events of a turn in order is so after a later one.
LEMMA InOrderAppend ==
  ASSUME NEW q \in Seq(ServerFrame), NEW g \in ServerFrame, NEW t, NEW S, InOrder(q, t, S),
         EventOf(g, t) => /\ \A n \in S : n < g.event.seq
                          /\ \A f \in Frames(q) : EventOf(f, t) => f.event.seq < g.event.seq
  PROVE  InOrder(Append(q, g), t, S)
  <1> DEFINE r == Append(q, g)
  <1>1. /\ Len(r) = Len(q) + 1 /\ Len(q) \in Nat
        /\ \A i \in 1..Len(q) : r[i] = q[i]
        /\ r[Len(q) + 1] = g
    BY AppendProperties, LenProperties
  <1> HIDE DEF r
  <1> SUFFICES ASSUME NEW i \in 1..Len(r), EventOf(r[i], t)
               PROVE  /\ \A n \in S : n < r[i].event.seq
                      /\ \A j \in 1..(i - 1) : EventOf(r[j], t) => r[j].event.seq < r[i].event.seq
    BY DEF InOrder, r
  <1>2. CASE i \in 1..Len(q)
    <2>1. r[i] = q[i] /\ \A j \in 1..(i - 1) : r[j] = q[j]
      BY <1>1, <1>2
    <2> QED BY <1>2, <2>1 DEF InOrder
  <1>3. CASE i = Len(q) + 1
    <2>1. r[i] = g /\ \A j \in 1..(i - 1) : j \in 1..Len(q) /\ r[j] = q[j]
      BY <1>1, <1>3
    <2> QED BY <2>1 DEF Frames
  <1> QED BY <1>1, <1>2, <1>3

\* So it is without its head.
LEMMA InOrderTail ==
  ASSUME NEW q \in Seq(ServerFrame), q # <<>>, NEW t, NEW S, InOrder(q, t, S), NEW R,
         \A n \in R : n \in S \/ (EventOf(Head(q), t) /\ n = Head(q).event.seq)
  PROVE  InOrder(Tail(q), t, R)
  <1> DEFINE r == Tail(q)
  <1>1. /\ Head(q) = q[1] /\ Len(q) \in Nat \ {0} /\ Len(r) = Len(q) - 1
        /\ \A i \in 1..Len(q) - 1 : r[i] = q[i + 1]
    BY FramesTail
  <1> HIDE DEF r
  <1> SUFFICES ASSUME NEW i \in 1..Len(r), EventOf(r[i], t)
               PROVE  /\ \A n \in R : n < r[i].event.seq
                      /\ \A j \in 1..(i - 1) : EventOf(r[j], t) => r[j].event.seq < r[i].event.seq
    BY DEF InOrder, r
  <1>2. i + 1 \in 1..Len(q) /\ r[i] = q[i + 1] /\ 1 \in 1..((i + 1) - 1)
    BY <1>1
  <1>3. /\ \A n \in S : n < r[i].event.seq
        /\ \A j \in 1..((i + 1) - 1) : EventOf(q[j], t) => q[j].event.seq < r[i].event.seq
    BY <1>2 DEF InOrder
  <1>4. \A j \in 1..(i - 1) : j + 1 \in 1..((i + 1) - 1) /\ r[j] = q[j + 1]
    BY <1>1
  <1> QED BY <1>1, <1>2, <1>3, <1>4

\* The numbers of the turn's events that its owner has had.
Passed(t) == stream[t] \cup ByTurn(mirror[owner[t]], t)

\* What the owner still gets of a turn comes in the log's order, after what it
\* has had, and then the event that is being sent.
InOrderTurn(t) ==
  LET c == owner[t] IN
  /\ InOrder(s2c[c], t, Passed(t))
  /\ \A e \in fanout : e.turn = t =>
       /\ \A n \in Passed(t) : n < e.seq
       /\ \A f \in Frames(s2c[c]) : EventOf(f, t) => f.event.seq < e.seq
       /\ \A d \in fanout : d.turn = t => d = e

\* All turns are in order.
Ordered ==
  \A t \in Turns : /\ stream[t] \subseteq SeqsInLog(t)
                   /\ owner[t] \in Clients => InOrderTurn(t)

\* Streams are in order at the start ...
LEMMA OrderedInit == Init => Ordered
  <1> SUFFICES ASSUME Init PROVE Ordered
    OBVIOUS
  <1>1. \A t \in Turns : stream[t] = {} /\ owner[t] \notin Clients
    BY RunnerAssumption DEF Init
  <1> QED BY <1>1 DEF Ordered

\* The log's events by turn and seq, and what lies below the next seq.
LEMMA SeqsBelow ==
  ASSUME TypeOK, FromLog, MirrorIsPrefix, NEW t \in Turns
  PROVE  /\ \A e : Logged(e) /\ e.turn = t => e.seq \in SeqsInLog(t)
         /\ \A n \in SeqsInLog(t) : n \in 0..(Len(log) - 1) /\ log[n + 1].turn = t
         /\ \A c \in Clients : \A n : n \in ByTurn(mirror[c], t) <=> n \in SeqsInLog(t) /\ n < Len(mirror[c])
  <1>1. Len(log) \in Nat /\ \A i \in 1..Len(log) : log[i].seq = i - 1
    BY LenProperties DEF TypeOK, FromLog
  <1>2. \A e : Logged(e) /\ e.turn = t => e.seq \in SeqsInLog(t)
    BY <1>1 DEF Logged, SeqsInLog
  <1>3. \A n \in SeqsInLog(t) : n \in 0..(Len(log) - 1) /\ log[n + 1].turn = t
    <2> SUFFICES ASSUME NEW n \in SeqsInLog(t) PROVE n \in 0..(Len(log) - 1) /\ log[n + 1].turn = t
      OBVIOUS
    <2>1. PICK i \in 1..Len(log) : log[i].turn = t /\ n = log[i].seq
      BY DEF SeqsInLog
    <2>2. n = i - 1 /\ n + 1 = i
      BY <1>1, <2>1
    <2> QED BY <1>1, <2>1, <2>2
  <1>4. ASSUME NEW c \in Clients, NEW n
        PROVE  n \in ByTurn(mirror[c], t) <=> n \in SeqsInLog(t) /\ n < Len(mirror[c])
    <2>1. /\ Len(mirror[c]) \in Nat /\ Len(mirror[c]) <= Len(log)
          /\ \A i \in 1..Len(mirror[c]) : i \in 1..Len(log) /\ mirror[c][i] = log[i]
      BY <1>1, LenProperties DEF TypeOK, MirrorIsPrefix
    <2>2. ASSUME n \in ByTurn(mirror[c], t) PROVE n \in SeqsInLog(t) /\ n < Len(mirror[c])
      <3>1. PICK i \in 1..Len(mirror[c]) : mirror[c][i].turn = t /\ n = mirror[c][i].seq
        BY <2>2 DEF ByTurn
      <3>2. i \in 1..Len(log) /\ log[i].turn = t /\ n = log[i].seq /\ n = i - 1
        BY <1>1, <2>1, <3>1
      <3>3. n \in SeqsInLog(t)
        BY <3>2 DEF SeqsInLog
      <3>4. n < Len(mirror[c])
        BY <2>1, <3>1, <3>2
      <3> QED BY <3>3, <3>4
    <2>3. ASSUME n \in SeqsInLog(t), n < Len(mirror[c]) PROVE n \in ByTurn(mirror[c], t)
      <3>1. n + 1 \in 1..Len(mirror[c]) /\ log[n + 1].turn = t /\ n + 1 \in 1..Len(log)
        BY <1>1, <1>3, <2>1, <2>3
      <3>2. mirror[c][n + 1].turn = t /\ mirror[c][n + 1].seq = (n + 1) - 1
        BY <1>1, <2>1, <3>1
      <3>3. (n + 1) - 1 = n
        BY <1>3, <2>3
      <3> QED BY <3>1, <3>2, <3>3 DEF ByTurn
    <2> QED BY <2>2, <2>3
  <1> QED BY <1>2, <1>3, <1>4

\* A step that neither appends nor lets an event out of its hooks.
LEMMA OrderedKept ==
  ASSUME Ordered, UNCHANGED <<owner, fanout, log>>,
         \A t \in Turns :
           /\ stream'[t] \subseteq SeqsInLog(t)
           /\ owner[t] \in Clients =>
                /\ Passed(t)' \subseteq Passed(t)
                /\ InOrder(s2c[owner[t]], t, Passed(t)) => InOrder(s2c'[owner[t]], t, Passed(t))
                /\ \A f \in Frames(s2c'[owner[t]]) : f.kind = "event" => f \in Frames(s2c[owner[t]])
  PROVE  Ordered'
  <1> SUFFICES ASSUME NEW t \in Turns
               PROVE  stream'[t] \subseteq SeqsInLog(t)' /\ (owner'[t] \in Clients => InOrderTurn(t)')
    BY DEF Ordered
  <1>1. SeqsInLog(t)' = SeqsInLog(t)
    BY DEF SeqsInLog
  <1>2. ASSUME owner[t] \in Clients PROVE InOrderTurn(t)'
    <2>1. InOrderTurn(t) /\ Passed(t)' \subseteq Passed(t)
      BY <1>2 DEF Ordered
    <2>2. InOrder(s2c'[owner[t]], t, Passed(t)')
      BY <1>2, <2>1 DEF InOrderTurn, InOrder
    <2>3. \A f \in Frames(s2c'[owner[t]]) : EventOf(f, t) => f \in Frames(s2c[owner[t]])
      BY <1>2 DEF EventOf
    <2> QED BY <2>1, <2>2, <2>3 DEF InOrderTurn
  <1> QED BY <1>1, <1>2

\* A step that appends an event of turn t, which has none in its hooks.
LEMMA OrderedPush ==
  ASSUME TypeOK, FromLog, MirrorIsPrefix, Ordered, NEW t \in Turns,
         NEW q \in [Clients -> Seq(ServerFrame)],
         \A c \in Clients, u \in Turns : InOrder(s2c[c], u, Passed(u)) => InOrder(q[c], u, Passed(u)),
         \A c \in Clients : \A f \in Frames(q[c]) : f.kind = "event" => f \in Frames(s2c[c]),
         \E slow \in Slow : PushEvent(t, slow, q),
         \A e \in fanout : e.turn # t,
         \A u \in Turns : owner'[u] \in Clients => owner'[u] = owner[u],
         UNCHANGED <<mirror, stream>>
  PROVE  Ordered'
  <1> PICK slow \in Slow : PushEvent(t, slow, q)
    OBVIOUS
  <1> DEFINE new == NextEvent(t)
  <1>1. /\ Len(log) \in Nat /\ Len(log') = Len(log) + 1
        /\ \A i \in 1..Len(log) : log'[i] = log[i]
        /\ new \in Event /\ EventFrame(new) \in ServerFrame
    BY PushEventFrames, FrameShape
  <1>2. new.seq = Len(log) /\ new.turn = t /\ EventFrame(new).event = new /\ EventFrame(new).kind = "event"
    BY DEF NextEvent, EventFrame
  <1>3. fanout' = IF slow THEN fanout \cup {new} ELSE fanout
    BY DEF PushEvent
  <1>4. s2c' = IF slow THEN q ELSE Broadcast(q, EventFrame(new))
    BY DEF PushEvent
  <1> HIDE DEF new
  <1> SUFFICES ASSUME NEW u \in Turns
               PROVE  stream'[u] \subseteq SeqsInLog(u)' /\ (owner'[u] \in Clients => InOrderTurn(u)')
    BY DEF Ordered
  <1>5. stream'[u] \subseteq SeqsInLog(u)'
    <2>1. SeqsInLog(u) \subseteq SeqsInLog(u)'
      <3> SUFFICES ASSUME NEW n \in SeqsInLog(u) PROVE n \in SeqsInLog(u)'
        OBVIOUS
      <3>1. PICK i \in 1..Len(log) : log[i].turn = u /\ n = log[i].seq
        BY DEF SeqsInLog
      <3>2. i \in 1..Len(log') /\ log'[i] = log[i]
        BY <1>1
      <3> QED BY <3>1, <3>2 DEF SeqsInLog
    <2> QED BY <2>1 DEF Ordered
  <1>6. ASSUME owner'[u] \in Clients PROVE InOrderTurn(u)'
    <2> DEFINE c == owner[u]
    <2>1. owner'[u] = c /\ c \in Clients /\ InOrderTurn(u)
      BY <1>6 DEF Ordered
    <2>2. Passed(u)' = Passed(u)
      BY <2>1 DEF Passed
    <2>3. \A n \in Passed(u) : n < Len(log)
      <3>1. \A n \in SeqsInLog(u) : n \in 0..(Len(log) - 1)
        BY SeqsBelow
      <3>2. \A n \in ByTurn(mirror[c], u) : n \in SeqsInLog(u)
        BY <2>1, SeqsBelow
      <3>3. stream[u] \subseteq SeqsInLog(u)
        BY DEF Ordered
      <3> QED BY <1>1, <3>1, <3>2, <3>3 DEF Passed
    <2>4. \A f \in Frames(q[c]) : f.kind = "event" => f.event.seq < Len(log) /\ f.event.seq \in Int
      <3> SUFFICES ASSUME NEW f \in Frames(q[c]), f.kind = "event"
                   PROVE  f.event.seq < Len(log) /\ f.event.seq \in Int
        OBVIOUS
      <3>1. f \in Frames(s2c[c]) /\ Logged(f.event)
        BY <2>1 DEF FromLog
      <3>2. s2c[c] \in Seq(ServerFrame)
        BY <2>1 DEF TypeOK
      <3>3. f \in ServerFrame
        BY <3>1, <3>2, ElementOfSeq DEF Frames
      <3>4. f.event.seq \in Nat
        BY <3>3, FrameShape DEF Event
      <3> QED BY <1>1, <3>1, <3>4 DEF Logged
    <2>5. q[c] \in Seq(ServerFrame) /\ InOrder(q[c], u, Passed(u))
      BY <2>1 DEF InOrderTurn
    <2>6. s2c'[c] = q[c] \/ (~slow /\ s2c'[c] = Append(q[c], EventFrame(new)))
      BY <1>4, <2>1 DEF Broadcast
    <2>7. InOrder(s2c'[c], u, Passed(u))
      <3>1. EventOf(EventFrame(new), u) => /\ \A n \in Passed(u) : n < EventFrame(new).event.seq
                                         /\ \A f \in Frames(q[c]) : EventOf(f, u) => f.event.seq < EventFrame(new).event.seq
        BY <1>2, <2>3, <2>4 DEF EventOf
      <3>2. InOrder(Append(q[c], EventFrame(new)), u, Passed(u))
        BY <1>1, <2>5, <3>1, InOrderAppend
      <3> QED BY <2>5, <2>6, <3>2
    <2>8. ASSUME NEW e \in fanout', e.turn = u
          PROVE  /\ \A n \in Passed(u) : n < e.seq
                 /\ \A f \in Frames(s2c'[c]) : EventOf(f, u) => f.event.seq < e.seq
                 /\ \A d \in fanout' : d.turn = u => d = e
      <3>1. CASE u = t
        <4>1. slow /\ e = new
          BY <1>3, <2>8, <3>1
        <4>2. s2c'[c] = q[c]
          BY <2>6, <4>1
        <4> QED BY <1>2, <1>3, <2>3, <2>4, <3>1, <4>1, <4>2 DEF EventOf
      <3>2. CASE u # t
        <4>1. e \in fanout /\ \A d \in fanout' : d.turn = u => d \in fanout
          BY <1>2, <1>3, <2>8, <3>2
        <4>2. /\ \A n \in Passed(u) : n < e.seq
              /\ \A f \in Frames(s2c[c]) : EventOf(f, u) => f.event.seq < e.seq
              /\ \A d \in fanout : d.turn = u => d = e
          BY <2>1, <2>8, <4>1 DEF InOrderTurn
        <4>3. \A f \in Frames(s2c'[c]) : EventOf(f, u) => f \in Frames(q[c])
          <5>1. Frames(Append(q[c], EventFrame(new))) = Frames(q[c]) \cup {EventFrame(new)}
            BY <1>1, <2>5, FramesAppend
          <5>2. ~EventOf(EventFrame(new), u)
            BY <1>2, <3>2 DEF EventOf
          <5> QED BY <2>6, <5>1, <5>2
        <4>4. \A f \in Frames(q[c]) : EventOf(f, u) => f \in Frames(s2c[c])
          BY <2>1 DEF EventOf
        <4> QED BY <4>1, <4>2, <4>3, <4>4
      <3> QED BY <3>1, <3>2
    <2> QED BY <2>1, <2>2, <2>7, <2>8 DEF InOrderTurn
  <1> QED BY <1>5, <1>6

\* EventLog.ingest adds nothing to the events of a turn but the frame's event.
LEMMA IngestByTurn ==
  ASSUME NEW m \in Seq(Event), NEW e \in Event, NEW t \in Turns, NEW n \in ByTurn(Ingest(m, e), t)
  PROVE  n \in ByTurn(m, t) \/ (e.turn = t /\ n = e.seq)
  <1>1. CASE e.seq = Len(m)
    <2> DEFINE r == Append(m, e)
    <2>1. /\ Len(r) = Len(m) + 1 /\ r[Len(m) + 1] = e /\ Len(m) \in Nat
          /\ \A i \in 1..Len(m) : r[i] = m[i]
      BY AppendProperties, LenProperties
    <2>2. n \in ByTurn(r, t)
      BY <1>1 DEF Ingest
    <2> HIDE DEF r
    <2>3. PICK i \in 1..Len(r) : r[i].turn = t /\ n = r[i].seq
      BY <2>2 DEF ByTurn
    <2>4. CASE i \in 1..Len(m)
      BY <2>1, <2>3, <2>4 DEF ByTurn
    <2>5. CASE i = Len(m) + 1
      BY <2>1, <2>3, <2>5
    <2> QED BY <2>1, <2>4, <2>5
  <1>2. CASE e.seq # Len(m)
    BY <1>2 DEF Ingest
  <1> QED BY <1>1, <1>2

\* ... and every step keeps them so.
LEMMA OrderedNext ==
  TypeOK /\ Owned /\ FromLog /\ MirrorIsPrefix /\ Requested /\ Ordered /\ [Next]_vars => Ordered'
  <1> SUFFICES ASSUME TypeOK, Owned, FromLog, MirrorIsPrefix, Requested, Ordered, [Next]_vars
               PROVE  Ordered'
    OBVIOUS
  <1> USE RunnerAssumption DEF sessionVars, serverVars, linkVars, callVars, clientVars
  <1>0. s2c \in [Clients -> Seq(ServerFrame)] /\ mirror \in [Clients -> Seq(Event)]
    BY DEF TypeOK
  <1>same. ASSUME UNCHANGED <<owner, fanout, log, mirror, stream>>,
                  \A c \in Clients, t \in Turns : owner[t] = c =>
                    /\ InOrder(s2c[c], t, Passed(t)) => InOrder(s2c'[c], t, Passed(t))
                    /\ \A f \in Frames(s2c'[c]) : f.kind = "event" => f \in Frames(s2c[c])
           PROVE  Ordered'
    <2>1. \A t \in Turns : Passed(t)' = Passed(t) /\ stream'[t] \subseteq SeqsInLog(t)
      BY <1>same DEF Passed, Ordered
    <2> QED BY <1>same, <2>1, OrderedKept
  <1>sent. ASSUME NEW q, NEW c \in Clients, NEW g \in ServerFrame, g.kind # "event",
                  q = s2c[c] \/ q = Append(s2c[c], g), NEW t \in Turns
           PROVE  /\ InOrder(s2c[c], t, Passed(t)) => InOrder(q, t, Passed(t))
                  /\ \A f \in Frames(q) : f.kind = "event" => f \in Frames(s2c[c])
    <2>1. s2c[c] \in Seq(ServerFrame) /\ Frames(Append(s2c[c], g)) = Frames(s2c[c]) \cup {g}
      BY <1>0, FramesAppend
    <2>2. InOrder(s2c[c], t, Passed(t)) => InOrder(Append(s2c[c], g), t, Passed(t))
      BY <1>sent, <2>1, InOrderAppend DEF EventOf
    <2> QED BY <1>sent, <2>1, <2>2
  <1>taken. ASSUME NEW c \in Clients, NEW k, k # "event", Receiving(c, k), s2c' = Consume(s2c, c),
                   UNCHANGED <<owner, fanout, log, mirror, stream>>
            PROVE  Ordered'
    <2>1. s2c[c] # <<>> /\ Head(s2c[c]).kind # "event" /\ s2c'[c] = Tail(s2c[c])
          /\ \A d \in Clients : d # c => s2c'[d] = s2c[d]
      BY <1>0, <1>taken DEF Receiving, Received, Consume
    <2>2. \A d \in Clients : Frames(s2c'[d]) \subseteq Frames(s2c[d])
      BY <1>taken, ReceivedFrame
    <2>3. ASSUME NEW t \in Turns, InOrder(s2c[c], t, Passed(t)) PROVE InOrder(s2c'[c], t, Passed(t))
      <3>1. s2c[c] \in Seq(ServerFrame)
        BY <1>0
      <3> QED BY <2>1, <2>3, <3>1, InOrderTail
    <2> QED BY <1>taken, <2>1, <2>2, <2>3, <1>same
  <1>1. ASSUME NEW c \in Clients, HandleAttach(c) PROVE Ordered'
    <2>1. Head(c2s[c]) \in ClientFrame /\ Head(c2s[c]) \in Frames(c2s[c]) /\ Head(c2s[c]).kind = "attach"
      BY <1>1, HandledFrame DEF HandleAttach
    <2>2. \A t \in Turns : owner[t] # c
      BY <2>1, FrameKinds DEF Requested
    <2>3. /\ UNCHANGED <<owner, fanout, log, mirror, stream>>
          /\ \A d \in Clients : d # c => s2c'[d] = s2c[d]
      BY <1>1 DEF HandleAttach, TypeOK
    <2> QED BY <2>2, <2>3, <1>same
  <1>2. ASSUME NEW c \in Clients, HandleSetResolver(c) \/ HandleAbort(c) \/ HandleAnswer(c) \/ OnDisconnect(c)
                                  \/ Connect(c) \/ SetPermissionResolver(c)
        PROVE  Ordered'
    BY <1>2, <1>same
    DEF HandleSetResolver, HandleAbort, HandleAnswer, OnDisconnect, Connect, SetPermissionResolver
  <1>3. ASSUME NEW c \in Clients, HandleRunTurn(c) PROVE Ordered'
    <2>1. /\ Head(c2s[c]) \in ClientFrame /\ Head(c2s[c]) \in Frames(c2s[c])
          /\ Head(c2s[c]).kind = "runTurn"
      BY <1>3, HandledFrame DEF HandleRunTurn
    <2>2. PICK t \in Turns : t = Head(c2s[c]).turn /\ Head(c2s[c]) = TurnFrame("runTurn", t)
      BY <2>1, FrameShape, FrameKinds
    <2>3. turn[t] = "none"
      BY <2>1, <2>2 DEF Requested
    <2>4. PICK g \in ServerFrame : g = TurnFrame("turnId", t) /\ g.kind # "event"
      BY FrameShape DEF TurnFrame
    <2> DEFINE q == Send(c, g)
    <2>5. /\ q \in [Clients -> Seq(ServerFrame)]
          /\ \A d \in Clients : q[d] = s2c[d] \/ q[d] = Append(s2c[d], g)
      <3>1. q \in [Clients -> Seq(ServerFrame)]
        BY <1>0, SendFrames
      <3>2. \A d \in Clients : q[d] = s2c[d] \/ q[d] = Append(s2c[d], g)
        BY <1>0 DEF Send
      <3> QED BY <3>1, <3>2
    <2>6. /\ \E slow \in Slow : PushEvent(t, slow, q)
          /\ UNCHANGED <<mirror, stream, owner>>
      BY <1>3, <2>2, <2>4 DEF HandleRunTurn
    <2> HIDE DEF q
    <2>7. \A d \in Clients, u \in Turns :
            /\ InOrder(s2c[d], u, Passed(u)) => InOrder(q[d], u, Passed(u))
            /\ \A f \in Frames(q[d]) : f.kind = "event" => f \in Frames(s2c[d])
      BY <2>4, <2>5, <1>sent
    <2>8. \A e \in fanout : e.turn # t
      BY <2>3 DEF FromLog, Logged, Requested
    <2> QED BY <2>5, <2>6, <2>7, <2>8, OrderedPush
  <1>4. ASSUME NEW c \in Clients, ReceiveAttached(c) PROVE Ordered'
    BY <1>4, <1>taken DEF ReceiveAttached
  <1>5. ASSUME NEW c \in Clients, ReceiveTurnId(c) PROVE Ordered'
    BY <1>5, <1>taken DEF ReceiveTurnId
  <1>6. ASSUME NEW c \in Clients, ReceiveComplete(c) PROVE Ordered'
    BY <1>6, <1>taken DEF ReceiveComplete
  <1>7. ASSUME NEW c \in Clients, ReceiveAsk(c) PROVE Ordered'
    BY <1>7, <1>taken DEF ReceiveAsk
  <1>8. ASSUME NEW c \in Clients, ReceiveEvent(c) PROVE Ordered'
    <2>1. /\ Head(s2c[c]) \in ServerFrame /\ Head(s2c[c]) \in Frames(s2c[c])
          /\ Head(s2c[c]).kind = "event"
          /\ \A d \in Clients : Frames(s2c'[d]) \subseteq Frames(s2c[d])
      BY <1>8, ReceivedFrame DEF ReceiveEvent
    <2>2. PICK e \in Event : e = Head(s2c[c]).event /\ Logged(e)
      BY <2>1, FrameShape DEF FromLog
    <2>3. /\ UNCHANGED <<owner, fanout, log>>
          /\ mirror' = [mirror EXCEPT ![c] = Ingest(@, e)]
          /\ stream' = IF owner[e.turn] = c /\ call[e.turn] = "streaming"
                       THEN [stream EXCEPT ![e.turn] = @ \cup {e.seq}] ELSE stream
          /\ s2c[c] # <<>> /\ s2c'[c] = Tail(s2c[c])
          /\ \A d \in Clients : d # c => s2c'[d] = s2c[d]
      BY <1>0, <1>8, <2>2 DEF ReceiveEvent, Receiving, Received, Consume
    <2>4. e.turn \in Turns /\ e.seq \in SeqsInLog(e.turn)
      BY <2>2, SeqsBelow DEF Event
    <2>5. \A t \in Turns : stream'[t] \subseteq SeqsInLog(t)
      BY <2>3, <2>4 DEF Ordered, TypeOK
    <2>6. ASSUME NEW t \in Turns, owner[t] \in Clients, owner[t] # c PROVE Passed(t)' = Passed(t)
      BY <2>3, <2>4, <2>6 DEF Passed, TypeOK
    <2>7. \A t \in Turns : \A n \in ByTurn(Ingest(mirror[c], e), t) :
            n \in ByTurn(mirror[c], t) \/ (e.turn = t /\ n = e.seq)
      BY <1>0, IngestByTurn
    <2>8. ASSUME NEW t \in Turns, owner[t] = c, NEW n \in Passed(t)'
          PROVE  n \in Passed(t) \/ (e.turn = t /\ n = e.seq)
      <3>1. mirror'[c] = Ingest(mirror[c], e)
        BY <1>0, <2>3
      <3>2. stream'[t] \subseteq stream[t] \cup (IF e.turn = t THEN {e.seq} ELSE {})
        BY <2>3, <2>4 DEF TypeOK
      <3> QED BY <2>3, <2>7, <2>8, <3>1, <3>2 DEF Passed
    <2>9. ASSUME NEW t \in Turns, owner[t] \in Clients PROVE InOrderTurn(t)'
      <3>1. InOrderTurn(t)
        BY <2>9 DEF Ordered
      <3>2. CASE owner[t] # c
        BY <2>3, <2>6, <2>9, <3>1, <3>2 DEF InOrderTurn
      <3>3. CASE owner[t] = c
        <4>1. s2c[c] \in Seq(ServerFrame) /\ InOrder(s2c[c], t, Passed(t))
          BY <1>0, <3>1, <3>3 DEF InOrderTurn
        <4>2. EventOf(Head(s2c[c]), t) <=> e.turn = t
          BY <2>1, <2>2 DEF EventOf
        <4>3. InOrder(s2c'[c], t, Passed(t)')
          <5> DEFINE P == Passed(t)'
          <5>1. \A n \in P : n \in Passed(t) \/ (EventOf(Head(s2c[c]), t) /\ n = Head(s2c[c]).event.seq)
            BY <2>2, <2>8, <3>3, <4>2
          <5> HIDE DEF P
          <5>2. InOrder(Tail(s2c[c]), t, P)
            BY <2>3, <4>1, <5>1, InOrderTail
          <5> QED BY <2>3, <5>2 DEF P
        <4>4. ASSUME NEW d \in fanout, d.turn = t
              PROVE  /\ \A n \in Passed(t)' : n < d.seq
                     /\ \A f \in Frames(s2c'[c]) : EventOf(f, t) => f.event.seq < d.seq
                     /\ \A x \in fanout : x.turn = t => x = d
          <5>1. /\ \A n \in Passed(t) : n < d.seq
                /\ \A f \in Frames(s2c[c]) : EventOf(f, t) => f.event.seq < d.seq
                /\ \A x \in fanout : x.turn = t => x = d
            BY <3>1, <3>3, <4>4 DEF InOrderTurn
          <5>2. e.turn = t => e.seq < d.seq
            BY <2>1, <2>2, <4>2, <5>1
          <5>3. \A n \in Passed(t)' : n < d.seq
            BY <2>8, <3>3, <5>1, <5>2
          <5> QED BY <2>1, <5>1, <5>3
        <4> QED BY <2>3, <3>3, <4>3, <4>4 DEF InOrderTurn
      <3> QED BY <3>2, <3>3
    <2>10. \A t \in Turns : SeqsInLog(t)' = SeqsInLog(t) /\ owner'[t] = owner[t]
      BY <2>3 DEF SeqsInLog
    <2> QED BY <2>5, <2>9, <2>10 DEF Ordered
  <1>9. ASSUME NEW c \in Clients, CloseLink(c) PROVE Ordered'
    <2>1. /\ UNCHANGED <<owner, fanout, log, mirror, stream>>
          /\ s2c'[c] = <<>> /\ \A d \in Clients : d # c => s2c'[d] = s2c[d]
      BY <1>0, <1>9 DEF CloseLink
    <2>2. \A t \in Turns : InOrder(<<>>, t, Passed(t))
      BY DEF InOrder
    <2> QED BY <2>1, <2>2, <1>same, FramesEmpty
  <1>10. ASSUME NEW c \in Clients, ClearMirror(c) PROVE Ordered'
    <2>1. /\ UNCHANGED <<owner, fanout, log, stream, s2c>>
          /\ mirror'[c] = <<>> /\ \A d \in Clients : d # c => mirror'[d] = mirror[d]
      BY <1>0, <1>10 DEF ClearMirror
    <2>2. \A t \in Turns : ByTurn(<<>>, t) = {}
      BY DEF ByTurn
    <2>3. \A t \in Turns : owner[t] \in Clients => Passed(t)' \subseteq Passed(t)
      BY <2>1, <2>2 DEF Passed
    <2> QED BY <2>1, <2>3, OrderedKept DEF Ordered
  <1>11. ASSUME NEW c \in Clients, NEW t \in Turns, RunTurn(c, t) PROVE Ordered'
    <2>1. /\ UNCHANGED <<turn, fanout, log, stream, mirror, s2c>>
          /\ owner[t] = NoOwner /\ owner'[t] = c /\ \A u \in Turns : u # t => owner'[u] = owner[u]
      BY <1>11 DEF RunTurn, TypeOK
    <2>2. turn[t] = "none"
      BY <2>1 DEF Owned
    <2>3. /\ \A e \in fanout : e.turn # t
          /\ \A f \in Frames(s2c[c]) : ~EventOf(f, t)
      BY <2>2 DEF FromLog, Logged, Requested, EventOf
    <2>4. InOrderTurn(t)'
      BY <2>1, <2>3 DEF InOrderTurn, InOrder, Frames
    <2>5. ASSUME NEW u \in Turns, u # t, owner[u] \in Clients PROVE InOrderTurn(u)'
      <3>1. InOrderTurn(u) /\ Passed(u)' = Passed(u)
        BY <2>1, <2>5 DEF Ordered, Passed
      <3> QED BY <2>1, <2>5, <3>1 DEF InOrderTurn
    <2>6. \A u \in Turns : SeqsInLog(u)' = SeqsInLog(u)
      BY <2>1 DEF SeqsInLog
    <2> QED BY <2>1, <2>4, <2>5, <2>6 DEF Ordered
  <1>12. ASSUME NEW c \in Clients, NEW t \in Turns, Answer(c, t) PROVE Ordered'
    BY <1>12, <1>same DEF Answer
  <1>13. ASSUME NEW t \in Turns, StartLocalTurn(t) PROVE Ordered'
    <2>1. /\ UNCHANGED <<mirror, stream>> /\ turn[t] = "none"
          /\ \A u \in Turns : owner'[u] \in Clients => owner'[u] = owner[u]
          /\ \E slow \in Slow : PushEvent(t, slow, s2c)
      BY <1>13 DEF StartLocalTurn, TypeOK
    <2>2. \A e \in fanout : e.turn # t
      BY <2>1 DEF FromLog, Logged, Requested
    <2> QED BY <1>0, <2>1, <2>2, OrderedPush
  <1>14. ASSUME NEW t \in Turns, Emit(t) PROVE Ordered'
    <2>1. /\ UNCHANGED <<mirror, stream, owner>> /\ \A e \in fanout : e.turn # t
          /\ \E slow \in Slow : PushEvent(t, slow, s2c)
      BY <1>14 DEF Emit, Awaiting
    <2> QED BY <1>0, <2>1, OrderedPush
  <1>15. ASSUME NEW t \in Turns, AskPermission(t) PROVE Ordered'
    <2>1. PICK g \in ServerFrame : g = TurnFrame("ask", t) /\ g.kind # "event"
      BY FrameShape DEF TurnFrame
    <2>2. \A d \in Clients : s2c'[d] = s2c[d] \/ s2c'[d] = Append(s2c[d], g)
      BY <1>0, <1>15, <2>1 DEF AskPermission, Send
    <2>3. UNCHANGED <<owner, fanout, log, mirror, stream>>
      BY <1>15 DEF AskPermission
    <2> QED BY <2>1, <2>2, <2>3, <1>sent, <1>same
  <1>16. ASSUME NEW t \in Turns, CompleteTurn(t) PROVE Ordered'
    <2>1. PICK g \in ServerFrame : g = TurnFrame("complete", t) /\ g.kind # "event"
      BY FrameShape DEF TurnFrame
    <2>2. \A d \in Clients : s2c'[d] = s2c[d] \/ s2c'[d] = Append(s2c[d], g)
      BY <1>0, <1>16, <2>1 DEF CompleteTurn, Broadcast
    <2>3. UNCHANGED <<owner, fanout, log, mirror, stream>>
      BY <1>16 DEF CompleteTurn
    <2> QED BY <2>1, <2>2, <2>3, <1>sent, <1>same
  <1>17. ASSUME NEW t \in Turns, RegisterStream(t) PROVE Ordered'
    <2>1. owner[t] \in Clients
      BY <1>17 DEF RegisterStream, Owned
    <2>2. /\ UNCHANGED <<owner, fanout, log, mirror, s2c>>
          /\ stream'[t] = ByTurn(mirror[owner[t]], t)
          /\ \A u \in Turns : u # t => stream'[u] = stream[u]
      BY <1>17 DEF RegisterStream, TypeOK
    <2>3. stream'[t] \subseteq SeqsInLog(t)
      BY <2>1, <2>2, SeqsBelow
    <2>4. \A u \in Turns : Passed(u)' \subseteq Passed(u)
      BY <2>2 DEF Passed
    <2> QED BY <2>2, <2>3, <2>4, OrderedKept DEF Ordered
  <1>18. ASSUME NEW t \in Turns, EndStream(t) \/ LeaveStream(t) \/ AbortTurn(t) PROVE Ordered'
    BY <1>18, <1>same DEF EndStream, LeaveStream, AbortTurn
  <1>19. ASSUME NEW e \in fanout, FanOut(e) PROVE Ordered'
    <2>1. e \in Event /\ EventFrame(e) \in ServerFrame /\ EventFrame(e).kind = "event" /\ EventFrame(e).event = e
      BY FrameShape DEF TypeOK, EventFrame
    <2>2. /\ UNCHANGED <<owner, log, mirror, stream>> /\ fanout' = fanout \ {e}
          /\ \A d \in Clients : s2c'[d] = s2c[d] \/ s2c'[d] = Append(s2c[d], EventFrame(e))
      BY <1>0, <1>19 DEF FanOut, Broadcast
    <2>3. ASSUME NEW t \in Turns, owner[t] \in Clients PROVE InOrderTurn(t)'
      <3> DEFINE c == owner[t]
                 P == Passed(t)
      <3>1. InOrderTurn(t) /\ Passed(t)' = P /\ s2c[c] \in Seq(ServerFrame) /\ owner'[t] = c
        BY <1>0, <2>2, <2>3 DEF Ordered, Passed
      <3>2. EventOf(EventFrame(e), t) <=> e.turn = t
        BY <2>1 DEF EventOf
      <3>3. /\ InOrder(s2c[c], t, P)
            /\ e.turn = t => /\ \A n \in P : n < e.seq
                             /\ \A f \in Frames(s2c[c]) : EventOf(f, t) => f.event.seq < e.seq
                             /\ \A d \in fanout : d.turn = t => d = e
        BY <1>19, <3>1 DEF InOrderTurn
      <3>4. InOrder(s2c'[c], t, P)
        <4> HIDE DEF P
        <4>1. InOrder(Append(s2c[c], EventFrame(e)), t, P)
          BY <2>1, <3>1, <3>2, <3>3, InOrderAppend
        <4> QED BY <2>2, <2>3, <3>3, <4>1
      <3>5. ASSUME NEW x \in fanout', x.turn = t
            PROVE  /\ \A n \in P : n < x.seq
                   /\ \A f \in Frames(s2c'[c]) : EventOf(f, t) => f.event.seq < x.seq
                   /\ \A d \in fanout' : d.turn = t => d = x
        <4>1. x \in fanout /\ x # e /\ e.turn # t
          BY <2>2, <3>3, <3>5
        <4>2. /\ \A n \in P : n < x.seq
              /\ \A f \in Frames(s2c[c]) : EventOf(f, t) => f.event.seq < x.seq
              /\ \A d \in fanout : d.turn = t => d = x
          BY <3>1, <3>5, <4>1 DEF InOrderTurn
        <4>3. \A f \in Frames(s2c'[c]) : EventOf(f, t) => f \in Frames(s2c[c])
          <5>1. Frames(Append(s2c[c], EventFrame(e))) = Frames(s2c[c]) \cup {EventFrame(e)}
            BY <2>1, <3>1, FramesAppend
          <5>2. s2c'[c] = s2c[c] \/ s2c'[c] = Append(s2c[c], EventFrame(e))
            BY <2>2, <2>3
          <5>3. ~EventOf(EventFrame(e), t)
            BY <3>2, <4>1
          <5>4. ASSUME NEW f \in Frames(s2c'[c]), EventOf(f, t) PROVE f \in Frames(s2c[c])
            <6>1. Frames(s2c'[c]) \subseteq Frames(s2c[c]) \cup {EventFrame(e)}
              BY <5>1, <5>2
            <6>2. f # EventFrame(e)
              BY <5>3, <5>4
            <6> QED BY <6>1, <6>2
          <5> QED BY <5>4
        <4> QED BY <2>2, <4>2, <4>3
      <3> QED BY <3>1, <3>4, <3>5 DEF InOrderTurn
    <2>4. \A t \in Turns : SeqsInLog(t)' = SeqsInLog(t)
      BY <2>2 DEF SeqsInLog
    <2> QED BY <2>2, <2>3, <2>4 DEF Ordered
  <1>20. ASSUME Close PROVE Ordered'
    BY <1>20, <1>same DEF Close
  <1>21. CASE UNCHANGED vars
    BY <1>21, <1>same DEF vars
  <1> QED
    BY <1>1, <1>2, <1>3, <1>4, <1>5, <1>6, <1>7, <1>8, <1>9, <1>10, <1>11, <1>12, <1>13,
       <1>14, <1>15, <1>16, <1>17, <1>18, <1>19, <1>20, <1>21
    DEF Next, HandleFrame, ReceiveFrame, TurnStep, CallStep

\* So they always are in order.
LEMMA StreamsCorrect ==
  Spec => [](TypeOK /\ Owned /\ FromLog /\ MirrorIsPrefix /\ Requested /\ Ordered)
  <1> DEFINE IInv == TypeOK /\ Owned /\ FromLog /\ MirrorIsPrefix /\ Requested /\ Ordered
  <1>1. Init => IInv
    BY TypeInit, OwnedInit, FromLogInit, RequestedInit, OrderedInit
  <1>2. IInv /\ [Next]_vars => IInv'
    BY TypeNext, OwnedNext, FromLogNext, RequestedNext, OrderedNext
  <1> HIDE DEF IInv
  <1>3. Spec => []IInv
    BY <1>1, <1>2, PTL DEF Spec
  <1> QED BY <1>3 DEF IInv

\* A stream yields events of its own turn only, and in the order of the log,
\* whatever hooks delay, whoever attaches or aborts and whenever a view is
\* cleared.
THEOREM StreamsInOrder == Spec => StreamInOrder
  <1> DEFINE IInv == TypeOK /\ Owned /\ FromLog /\ MirrorIsPrefix /\ Requested /\ Ordered
             Pushed == \A t \in Turns : call[t] = "streaming" =>
                         \A n \in stream'[t] \ stream[t] :
                           n \in SeqsInLog(t) /\ \A k \in stream[t] : k < n
  <1>1. IInv /\ [Next]_vars => [Pushed]_vars
    <2> SUFFICES ASSUME IInv, Next PROVE Pushed
      OBVIOUS
    <2> USE DEF sessionVars, serverVars, linkVars, callVars, clientVars
    <2>same. ASSUME stream' = stream PROVE Pushed
      BY <2>same
    <2>1. ASSUME NEW c \in Clients, ReceiveEvent(c) PROVE Pushed
      <3>1. /\ Head(s2c[c]) \in ServerFrame /\ Head(s2c[c]) \in Frames(s2c[c])
            /\ Head(s2c[c]).kind = "event" /\ s2c[c] # <<>>
        BY <2>1, ReceivedFrame DEF ReceiveEvent, Receiving, Received
      <3>2. PICK e \in Event : e = Head(s2c[c]).event /\ Logged(e)
        BY <3>1, FrameShape DEF FromLog
      <3>3. stream' = IF owner[e.turn] = c /\ call[e.turn] = "streaming"
                      THEN [stream EXCEPT ![e.turn] = @ \cup {e.seq}] ELSE stream
        BY <2>1, <3>2 DEF ReceiveEvent
      <3>4. e.turn \in Turns /\ e.seq \in SeqsInLog(e.turn)
        BY <3>2, SeqsBelow DEF Event
      <3>5. ASSUME NEW t \in Turns, NEW n \in stream'[t] \ stream[t]
            PROVE  t = e.turn /\ owner[t] = c /\ n = e.seq
        BY <3>3, <3>4, <3>5 DEF TypeOK
      <3>6. ASSUME NEW t \in Turns, t = e.turn, owner[t] = c, NEW k \in stream[t] PROVE k < e.seq
        <4>1. InOrder(s2c[c], t, Passed(t))
          BY <3>6 DEF Ordered, InOrderTurn
        <4>2. EventOf(s2c[c][1], t) /\ s2c[c][1].event = e /\ 1 \in 1..Len(s2c[c])
          <5>1. s2c[c] \in Seq(ServerFrame)
            BY DEF TypeOK
          <5>2. Head(s2c[c]) = s2c[c][1] /\ Len(s2c[c]) \in Nat \ {0}
            BY <3>1, <5>1, FramesTail
          <5> QED BY <3>1, <3>2, <3>6, <5>2 DEF EventOf
        <4> QED BY <3>6, <4>1, <4>2 DEF InOrder, Passed
      <3> QED BY <3>4, <3>5, <3>6
    <2>2. ASSUME NEW t \in Turns, RegisterStream(t) PROVE Pushed
      <3>1. call[t] = "replied" /\ \A u \in Turns : u # t => stream'[u] = stream[u]
        BY <2>2 DEF RegisterStream, TypeOK
      <3> QED BY <3>1
    <2>3. ASSUME NEW c \in Clients, HandleFrame(c) PROVE Pushed
      BY <2>3, <2>same DEF HandleFrame, HandleAttach, HandleSetResolver, HandleRunTurn, HandleAbort, HandleAnswer
    <2>4. ASSUME NEW c \in Clients, ReceiveAttached(c) \/ ReceiveTurnId(c) \/ ReceiveComplete(c) \/ ReceiveAsk(c)
          PROVE  Pushed
      BY <2>4, <2>same DEF ReceiveAttached, ReceiveTurnId, ReceiveComplete, ReceiveAsk
    <2>5. ASSUME NEW c \in Clients, OnDisconnect(c) \/ Connect(c) \/ SetPermissionResolver(c)
                                    \/ CloseLink(c) \/ ClearMirror(c)
          PROVE  Pushed
      BY <2>5, <2>same DEF OnDisconnect, Connect, SetPermissionResolver, CloseLink, ClearMirror
    <2>6. ASSUME NEW c \in Clients, NEW t \in Turns, RunTurn(c, t) \/ Answer(c, t) PROVE Pushed
      BY <2>6, <2>same DEF RunTurn, Answer
    <2>7. ASSUME NEW t \in Turns, TurnStep(t) PROVE Pushed
      BY <2>7, <2>same DEF TurnStep, StartLocalTurn, Emit, AskPermission, CompleteTurn
    <2>8. ASSUME NEW t \in Turns, EndStream(t) \/ LeaveStream(t) \/ AbortTurn(t) PROVE Pushed
      BY <2>8, <2>same DEF EndStream, LeaveStream, AbortTurn
    <2>9. ASSUME NEW e \in fanout, FanOut(e) PROVE Pushed
      BY <2>9, <2>same DEF FanOut
    <2>10. ASSUME Close PROVE Pushed
      BY <2>10, <2>same DEF Close
    <2> QED
      BY <2>1, <2>2, <2>3, <2>4, <2>5, <2>6, <2>7, <2>8, <2>9, <2>10
      DEF Next, ReceiveFrame, CallStep
  <1>2. Spec => []IInv
    BY StreamsCorrect
  <1>3. Spec => [][Pushed]_vars
    <2> HIDE DEF IInv, Pushed
    <2> QED BY <1>1, <1>2, PTL DEF Spec
  <1> QED BY <1>3 DEF StreamInOrder

-----------------------------------------------------------------------------
(* Whole streams.  With prompt hooks a completion follows, on every link, all *)
(* the events of its turn that the mirror at the end of the link misses, so   *)
(* the mirror has them when it arrives, and the stream has what the mirror    *)
(* has.  A turn that is done appends nothing.                                 *)

\* On queue q frame f comes after the events S that a mirror of length m misses.
After(q, f, S, m) ==
  \A j \in 1..Len(q) : q[j] = f =>
    \A n \in S : n < m \/ \E i \in 1..(j - 1) : IsEvent(q[i], n)

\* The end of a stream comes after its events also when a frame is added.
LEMMA AfterAppend ==
  ASSUME NEW q \in Seq(ServerFrame), NEW g, NEW f, NEW S, NEW m, After(q, f, S, m),
         g = f => \A n \in S : n < m \/ \E i \in 1..Len(q) : IsEvent(q[i], n)
  PROVE  After(Append(q, g), f, S, m)
  <1> DEFINE r == Append(q, g)
  <1>1. /\ Len(r) = Len(q) + 1 /\ Len(q) \in Nat
        /\ \A i \in 1..Len(q) : r[i] = q[i]
        /\ r[Len(q) + 1] = g
    BY LenProperties
  <1> HIDE DEF r
  <1> SUFFICES ASSUME NEW j \in 1..Len(r), r[j] = f, NEW n \in S
               PROVE  n < m \/ \E i \in 1..(j - 1) : IsEvent(r[i], n)
    BY DEF After, r
  <1>2. \A i \in 1..(j - 1) : i \in 1..Len(q) /\ r[i] = q[i]
    BY <1>1
  <1>3. CASE j \in 1..Len(q)
    <2>1. q[j] = f
      BY <1>1, <1>3
    <2>2. n < m \/ \E i \in 1..(j - 1) : IsEvent(q[i], n)
      BY <1>3, <2>1 DEF After
    <2> QED BY <1>2, <2>2
  <1>4. CASE j = Len(q) + 1
    <2>1. g = f /\ 1..(j - 1) = 1..Len(q)
      BY <1>1, <1>4
    <2> QED BY <1>2, <2>1
  <1> QED BY <1>1, <1>3, <1>4

\* So it does without the head, which then has been seen.
LEMMA AfterTail ==
  ASSUME NEW q \in Seq(ServerFrame), q # <<>>, NEW f, NEW S \in SUBSET Nat, NEW m \in Nat, After(q, f, S, m)
  PROVE  /\ Head(q) = f => \A n \in S : n < m
         /\ \A k \in Nat : m <= k /\ (\A n \in Nat : IsEvent(Head(q), n) => n < k)
              => After(Tail(q), f, S, k)
  <1> DEFINE r == Tail(q)
             h == Head(q)
  <1>1. /\ h = q[1] /\ Len(q) \in Nat \ {0} /\ Len(r) = Len(q) - 1
        /\ \A i \in 1..Len(q) - 1 : r[i] = q[i + 1]
    BY FramesTail
  <1> HIDE DEF r, h
  <1>2. ASSUME h = f, NEW n \in S PROVE n < m
    <2>1. 1 \in 1..Len(q) /\ q[1] = f /\ 1..(1 - 1) = {}
      BY <1>1, <1>2
    <2> QED BY <1>2, <2>1 DEF After
  <1>3. ASSUME NEW k \in Nat, m <= k, \A n \in Nat : IsEvent(h, n) => n < k PROVE After(r, f, S, k)
    <2> SUFFICES ASSUME NEW j \in 1..Len(r), r[j] = f, NEW n \in S
                 PROVE  n < k \/ \E i \in 1..(j - 1) : IsEvent(r[i], n)
      BY DEF After
    <2>1. j + 1 \in 1..Len(q) /\ q[j + 1] = f /\ n \in Nat
      BY <1>1
    <2>2. n < m \/ \E i \in 1..((j + 1) - 1) : IsEvent(q[i], n)
      BY <2>1 DEF After
    <2>3. ASSUME NEW i \in 1..((j + 1) - 1), IsEvent(q[i], n), ~(n < k)
          PROVE  i - 1 \in 1..(j - 1) /\ IsEvent(r[i - 1], n)
      <3>1. i # 1
        BY <1>1, <1>3, <2>1, <2>3
      <3>2. i - 1 \in 1..(j - 1) /\ i - 1 \in 1..Len(q) - 1 /\ (i - 1) + 1 = i
        BY <1>1, <3>1
      <3> QED BY <1>1, <2>3, <3>2
    <2> QED BY <1>3, <2>1, <2>2, <2>3
  <1> QED BY <1>2, <1>3 DEF r, h

\* So it does when other frames follow.
LEMMA AfterConcat ==
  ASSUME NEW q \in Seq(ServerFrame), NEW r \in Seq(ServerFrame), NEW f, NEW S, NEW m,
         After(q, f, S, m), f \notin Frames(r)
  PROVE  After(q \o r, f, S, m)
  <1> DEFINE s == q \o r
  <1>1. /\ Len(s) = Len(q) + Len(r) /\ Len(q) \in Nat /\ Len(r) \in Nat
        /\ \A i \in 1..Len(q) + Len(r) : s[i] = IF i <= Len(q) THEN q[i] ELSE r[i - Len(q)]
    BY ConcatProperties, LenProperties
  <1> HIDE DEF s
  <1> SUFFICES ASSUME NEW j \in 1..Len(s), s[j] = f, NEW n \in S
               PROVE  n < m \/ \E i \in 1..(j - 1) : IsEvent(s[i], n)
    BY DEF After, s
  <1>2. j <= Len(q)
    <2> SUFFICES ASSUME ~(j <= Len(q)) PROVE FALSE
      OBVIOUS
    <2>1. j - Len(q) \in 1..Len(r) /\ r[j - Len(q)] = f
      BY <1>1
    <2> QED BY <2>1 DEF Frames
  <1>3. j \in 1..Len(q) /\ q[j] = f /\ \A i \in 1..(j - 1) : s[i] = q[i]
    BY <1>1, <1>2
  <1>4. n < m \/ \E i \in 1..(j - 1) : IsEvent(q[i], n)
    BY <1>3 DEF After
  <1> QED BY <1>3, <1>4

\* A stream that has ended, or ends when its consumer has drained it.
Ending(t) == call[t] = "ended" \/ (call[t] = "streaming" /\ finish[t] = "complete")

\* The frame that says the turn is complete.
Complete(t) == TurnFrame("complete", t)

\* The completion of a turn comes after the turn's events, to every client, and
\* a stream that ends has them all.
WholeTurn(t) ==
  /\ \A c \in Clients :
       /\ Complete(t) \in Frames(s2c[c]) \/ t \in completed[c] => turn[t] = "done"
       /\ After(s2c[c], Complete(t), SeqsInLog(t), Len(mirror[c]))
       /\ t \in completed[c] => \A n \in SeqsInLog(t) : n < Len(mirror[c])
  /\ call[t] = "streaming" => ByTurn(mirror[owner[t]], t) \subseteq stream[t]
  /\ Ending(t) => turn[t] = "done" /\ SeqsInLog(t) \subseteq stream[t]

\* All turns are whole.
Whole == \A t \in Turns : WholeTurn(t)

\* Streams that ended are whole at the start ...
LEMMA WholeInit == Init => Whole
  <1> SUFFICES ASSUME Init, NEW t \in Turns PROVE WholeTurn(t)
    BY DEF Whole
  <1>1. /\ \A c \in Clients : s2c[c] = <<>> /\ completed[c] = {}
        /\ call[t] = "none"
    BY DEF Init
  <1>2. \A f, S, m : After(<<>>, f, S, m)
    BY DEF After
  <1> QED BY <1>1, <1>2, FramesEmpty DEF WholeTurn, Ending

\* A step that leaves the log, the turns and the mirrors alone and tells of
\* no completion.
LEMMA WholeKept ==
  ASSUME Whole, UNCHANGED <<log, turn, mirror, stream>>,
         \A c \in Clients :
           /\ completed'[c] \subseteq completed[c]
           /\ \A t \in Turns :
                /\ Complete(t) \in Frames(s2c'[c]) => Complete(t) \in Frames(s2c[c])
                /\ After(s2c[c], Complete(t), SeqsInLog(t), Len(mirror[c])) =>
                     After(s2c'[c], Complete(t), SeqsInLog(t), Len(mirror[c])),
         \A t \in Turns : /\ call'[t] = "streaming" => call[t] = "streaming" /\ owner'[t] = owner[t]
                          /\ Ending(t)' => Ending(t)
  PROVE  Whole'
  <1> SUFFICES ASSUME NEW t \in Turns PROVE WholeTurn(t)'
    BY DEF Whole
  <1>1. WholeTurn(t)
    BY DEF Whole
  <1>2. SeqsInLog(t)' = SeqsInLog(t) /\ Complete(t)' = Complete(t)
    BY DEF SeqsInLog, Complete, TurnFrame
  <1> QED BY <1>1, <1>2 DEF WholeTurn

\* A step that appends an event of turn t, which is not done.
LEMMA WholePush ==
  ASSUME TypeOK, Prompt, Whole, NEW t \in Turns, turn[t] # "done",
         NEW q \in [Clients -> Seq(ServerFrame)],
         \A c \in Clients, u \in Turns :
           /\ Complete(u) \in Frames(q[c]) => Complete(u) \in Frames(s2c[c])
           /\ After(s2c[c], Complete(u), SeqsInLog(u), Len(mirror[c])) =>
                After(q[c], Complete(u), SeqsInLog(u), Len(mirror[c])),
         \E slow \in Slow : PushEvent(t, slow, q),
         \A u \in Turns : /\ u # t => turn'[u] = turn[u]
                          /\ call[u] # "none" => owner'[u] = owner[u],
         UNCHANGED <<mirror, stream, call, finish, completed>>
  PROVE  Whole'
  <1> DEFINE g == EventFrame(NextEvent(t))
  <1>1. /\ Len(log) \in Nat /\ Len(log') = Len(log) + 1
        /\ \A i \in 1..Len(log) : log'[i] = log[i]
        /\ log'[Len(log) + 1] = NextEvent(t)
    BY PushEventFrames
  <1>2. NextEvent(t).turn = t /\ g.kind = "event" /\ \A u \in Turns : Complete(u) # g /\ Complete(u)' = Complete(u)
    BY DEF NextEvent, EventFrame, Complete, TurnFrame
  <1>3. \A c \in Clients : s2c'[c] = q[c] \/ s2c'[c] = Append(q[c], g)
    BY DEF PushEvent, Broadcast
  <1>4. g \in ServerFrame
    BY PushEventFrames, FrameShape
  <1> HIDE DEF g
  <1> SUFFICES ASSUME NEW u \in Turns PROVE WholeTurn(u)'
    BY DEF Whole
  <1>5. WholeTurn(u)
    BY DEF Whole
  <1>6. ASSUME NEW c \in Clients
        PROVE  /\ Complete(u) \in Frames(s2c'[c]) => Complete(u) \in Frames(s2c[c])
               /\ After(s2c'[c], Complete(u), SeqsInLog(u), Len(mirror[c]))
    <2>1. q[c] \in Seq(ServerFrame) /\ After(q[c], Complete(u), SeqsInLog(u), Len(mirror[c]))
      BY <1>5 DEF WholeTurn
    <2>2. /\ After(Append(q[c], g), Complete(u), SeqsInLog(u), Len(mirror[c]))
          /\ Frames(Append(q[c], g)) = Frames(q[c]) \cup {g}
      BY <1>2, <1>4, <2>1, AfterAppend, FramesAppend
    <2> QED BY <1>2, <1>3, <2>1, <2>2
  <1>7. CASE u = t
    <2>1. /\ \A c \in Clients : Complete(u) \notin Frames(s2c[c]) /\ u \notin completed[c]
          /\ ~Ending(u)
      BY <1>5, <1>7 DEF WholeTurn
    <2>2. \A c \in Clients : \A S, m : After(s2c'[c], Complete(u), S, m)
      BY <1>6, <2>1 DEF After, Frames
    <2>3. Ending(u)' = Ending(u)
      BY DEF Ending
    <2> QED BY <1>2, <1>5, <1>6, <2>1, <2>2, <2>3 DEF WholeTurn
  <1>8. CASE u # t
    <2>1. SeqsInLog(u)' = SeqsInLog(u)
      <3>1. \A i \in 1..Len(log') : log'[i].turn = u => i \in 1..Len(log)
        BY <1>1, <1>2, <1>8
      <3>2. \A i \in 1..Len(log) : i \in 1..Len(log')
        BY <1>1
      <3> QED BY <1>1, <3>1, <3>2 DEF SeqsInLog
    <2>2. Ending(u)' = Ending(u) /\ turn'[u] = turn[u]
      BY <1>8 DEF Ending
    <2> QED BY <1>2, <1>5, <1>6, <2>1, <2>2 DEF WholeTurn
  <1> QED BY <1>7, <1>8


\* ... and every step keeps them so, if no listener is slow.
LEMMA WholeNext ==
  ASSUME Prompt
  PROVE  TypeOK /\ Owned /\ FromLog /\ MirrorIsPrefix /\ QueueInv /\ Requested /\ Ordered /\ Whole
           /\ [Next]_vars => Whole'
  <1> SUFFICES ASSUME TypeOK, Owned, FromLog, MirrorIsPrefix, QueueInv, Requested, Ordered, Whole, [Next]_vars
               PROVE  Whole'
    OBVIOUS
  <1> USE RunnerAssumption DEF sessionVars, serverVars, linkVars, callVars, clientVars
  <1>0. /\ s2c \in [Clients -> Seq(ServerFrame)] /\ mirror \in [Clients -> Seq(Event)]
        /\ \A c \in Clients : Len(mirror[c]) \in Nat
        /\ \A t \in Turns : SeqsInLog(t) \in SUBSET Nat
    <2>1. s2c \in [Clients -> Seq(ServerFrame)] /\ mirror \in [Clients -> Seq(Event)] /\ Len(log) \in Nat
      BY LenProperties DEF TypeOK
    <2>2. \A t \in Turns : SeqsInLog(t) \in SUBSET Nat
      BY <2>1, SeqsBelow
    <2> QED BY <2>1, <2>2, LenProperties
  <1>calls. ASSUME UNCHANGED <<log, turn, mirror, stream, completed, call, finish>>,
                   \A t \in Turns : call[t] # "none" => owner'[t] = owner[t],
                   \A c \in Clients, t \in Turns :
                     /\ Complete(t) \in Frames(s2c'[c]) => Complete(t) \in Frames(s2c[c])
                     /\ After(s2c[c], Complete(t), SeqsInLog(t), Len(mirror[c])) =>
                          After(s2c'[c], Complete(t), SeqsInLog(t), Len(mirror[c]))
            PROVE  Whole'
    <2>1. \A t \in Turns : Ending(t)' = Ending(t)
      BY <1>calls DEF Ending
    <2> QED BY <1>calls, <2>1, WholeKept
  <1>sent. ASSUME NEW q, NEW c \in Clients, NEW g \in ServerFrame, NEW t \in Turns, g # Complete(t),
                  q = s2c[c] \/ q = Append(s2c[c], g)
           PROVE  /\ Complete(t) \in Frames(q) => Complete(t) \in Frames(s2c[c])
                  /\ After(s2c[c], Complete(t), SeqsInLog(t), Len(mirror[c])) =>
                       After(q, Complete(t), SeqsInLog(t), Len(mirror[c]))
    <2>1. s2c[c] \in Seq(ServerFrame) /\ Frames(Append(s2c[c], g)) = Frames(s2c[c]) \cup {g}
      BY <1>0, FramesAppend
    <2> QED BY <1>sent, <2>1, AfterAppend
  <1>taken. ASSUME NEW c \in Clients, NEW k, k # "event", Receiving(c, k), s2c' = Consume(s2c, c), NEW t \in Turns,
                   NEW d \in Clients
            PROVE  /\ Complete(t) \in Frames(s2c'[d]) => Complete(t) \in Frames(s2c[d])
                   /\ After(s2c[d], Complete(t), SeqsInLog(t), Len(mirror[d])) =>
                        After(s2c'[d], Complete(t), SeqsInLog(t), Len(mirror[d]))
    <2>1. /\ s2c[c] # <<>> /\ s2c'[c] = Tail(s2c[c]) /\ (d # c => s2c'[d] = s2c[d])
          /\ \A n \in Nat : ~IsEvent(Head(s2c[c]), n)
      BY <1>0, <1>taken DEF Receiving, Received, Consume, IsEvent
    <2>2. Frames(s2c'[d]) \subseteq Frames(s2c[d])
      BY <1>taken, ReceivedFrame
    <2>3. s2c[c] \in Seq(ServerFrame) /\ Len(mirror[c]) \in Nat /\ Len(mirror[c]) <= Len(mirror[c])
          /\ SeqsInLog(t) \in SUBSET Nat
      BY <1>0
    <2>4. After(s2c[c], Complete(t), SeqsInLog(t), Len(mirror[c])) =>
            After(Tail(s2c[c]), Complete(t), SeqsInLog(t), Len(mirror[c]))
      BY <2>1, <2>3, AfterTail
    <2> QED BY <2>1, <2>2, <2>4
  <1>1. ASSUME NEW c \in Clients, HandleAttach(c) PROVE Whole'
    <2>1. UNCHANGED <<log, turn, owner, mirror, stream, completed, call, finish>>
      BY <1>1 DEF HandleAttach
    <2>2. ASSUME NEW d \in Clients, NEW t \in Turns
          PROVE  /\ Complete(t) \in Frames(s2c'[d]) => Complete(t) \in Frames(s2c[d])
                 /\ After(s2c[d], Complete(t), SeqsInLog(t), Len(mirror[d])) =>
                      After(s2c'[d], Complete(t), SeqsInLog(t), Len(mirror[d]))
      <3> DEFINE p == s2c[d] \o Replay
                 r == Append(p, AttachReply)
      <3>1. /\ s2c[d] \in Seq(ServerFrame) /\ Replay \in Seq(ServerFrame)
            /\ Frames(Replay) = {EventFrame(log[i]) : i \in 1..Len(log)}
            /\ AttachReply \in ServerFrame
        BY <1>0, ReplayFrames, FrameShape DEF TypeOK
      <3>2. Complete(t) \notin Frames(Replay) /\ Complete(t) # AttachReply
        BY <3>1, FrameKinds DEF EventFrame, Complete, TurnFrame
      <3>3. p \in Seq(ServerFrame) /\ Frames(p) = Frames(s2c[d]) \cup Frames(Replay)
        BY <3>1, FramesConcat
      <3>4. After(s2c[d], Complete(t), SeqsInLog(t), Len(mirror[d])) =>
              After(p, Complete(t), SeqsInLog(t), Len(mirror[d]))
        BY <3>1, <3>2, AfterConcat
      <3>5. /\ Frames(r) = Frames(p) \cup {AttachReply}
            /\ After(p, Complete(t), SeqsInLog(t), Len(mirror[d])) =>
                 After(r, Complete(t), SeqsInLog(t), Len(mirror[d]))
        <4> HIDE DEF p
        <4> QED BY <3>1, <3>2, <3>3, FramesAppend, AfterAppend
      <3>6. s2c'[d] = s2c[d] \/ s2c'[d] = r
        <4>1. p \o <<AttachReply>> = Append(p, AttachReply)
          <5> HIDE DEF p
          <5> QED BY <3>1, <3>3, AppendIsConcat
        <4>2. s2c'[d] = s2c[d] \/ s2c'[d] = s2c[d] \o Replay \o <<AttachReply>>
          BY <1>0, <1>1 DEF HandleAttach
        <4> QED BY <4>1, <4>2
      <3> HIDE DEF p, r
      <3> QED BY <3>2, <3>3, <3>4, <3>5, <3>6
    <2> QED BY <2>1, <2>2, <1>calls
  <1>2. ASSUME NEW c \in Clients, HandleSetResolver(c) \/ HandleAbort(c) \/ HandleAnswer(c) \/ OnDisconnect(c)
                                  \/ Connect(c) \/ SetPermissionResolver(c)
        PROVE  Whole'
    BY <1>2, <1>calls
    DEF HandleSetResolver, HandleAbort, HandleAnswer, OnDisconnect, Connect, SetPermissionResolver
  <1>3. ASSUME NEW c \in Clients, HandleRunTurn(c) PROVE Whole'
    <2>1. /\ Head(c2s[c]) \in ClientFrame /\ Head(c2s[c]) \in Frames(c2s[c])
          /\ Head(c2s[c]).kind = "runTurn"
      BY <1>3, HandledFrame DEF HandleRunTurn
    <2>2. PICK t \in Turns : t = Head(c2s[c]).turn /\ Head(c2s[c]) = TurnFrame("runTurn", t)
      BY <2>1, FrameShape, FrameKinds
    <2>3. turn[t] = "none"
      BY <2>1, <2>2 DEF Requested
    <2>4. PICK g \in ServerFrame : g = TurnFrame("turnId", t) /\ \A u \in Turns : g # Complete(u)
      BY FrameShape DEF TurnFrame, Complete
    <2> DEFINE q == Send(c, g)
    <2>5. /\ q \in [Clients -> Seq(ServerFrame)]
          /\ \A d \in Clients : q[d] = s2c[d] \/ q[d] = Append(s2c[d], g)
      <3>1. q \in [Clients -> Seq(ServerFrame)]
        BY <1>0, SendFrames
      <3>2. \A d \in Clients : q[d] = s2c[d] \/ q[d] = Append(s2c[d], g)
        BY <1>0 DEF Send
      <3> QED BY <3>1, <3>2
    <2>6. /\ \E slow \in Slow : PushEvent(t, slow, q)
          /\ UNCHANGED <<mirror, stream, owner, call, finish, completed>>
          /\ \A u \in Turns : u # t => turn'[u] = turn[u]
      BY <1>3, <2>2, <2>4 DEF HandleRunTurn, TypeOK
    <2> HIDE DEF q
    <2>7. \A d \in Clients, u \in Turns :
            /\ Complete(u) \in Frames(q[d]) => Complete(u) \in Frames(s2c[d])
            /\ After(s2c[d], Complete(u), SeqsInLog(u), Len(mirror[d])) =>
                 After(q[d], Complete(u), SeqsInLog(u), Len(mirror[d]))
      BY <2>4, <2>5, <1>sent
    <2>8. turn[t] # "done"
      BY <2>3
    <2> QED BY <2>5, <2>6, <2>7, <2>8, WholePush
  <1>4. ASSUME NEW c \in Clients, ReceiveAttached(c) \/ ReceiveAsk(c) PROVE Whole'
    <2>1. /\ \E k \in {"attached", "ask"} : Receiving(c, k)
          /\ s2c' = Consume(s2c, c)
          /\ UNCHANGED <<log, turn, owner, mirror, stream, completed, call, finish>>
      BY <1>4 DEF ReceiveAttached, ReceiveAsk
    <2> QED BY <2>1, <1>taken, <1>calls
  <1>5. ASSUME NEW c \in Clients, ReceiveTurnId(c) PROVE Whole'
    <2>1. PICK t \in Turns : t = Head(s2c[c]).turn
      BY <1>5, ReceivedFrame, FrameShape DEF ReceiveTurnId
    <2>2. /\ Receiving(c, "turnId") /\ s2c' = Consume(s2c, c)
          /\ UNCHANGED <<log, turn, owner, mirror, stream, completed, finish>>
          /\ call' = [call EXCEPT ![t] = "replied"]
      BY <1>5, <2>1 DEF ReceiveTurnId
    <2>3. \A u \in Turns : /\ call'[u] = "streaming" => call[u] = "streaming"
                           /\ Ending(u)' => Ending(u)
      BY <2>2 DEF TypeOK, Ending
    <2> QED BY <2>2, <2>3, <1>taken, WholeKept
  <1>6. ASSUME NEW c \in Clients, ReceiveComplete(c) PROVE Whole'
    <2>0. Receiving(c, "complete") /\ s2c' = Consume(s2c, c)
      BY <1>6 DEF ReceiveComplete
    <2>1. /\ Head(s2c[c]) \in ServerFrame /\ Head(s2c[c]) \in Frames(s2c[c])
          /\ Head(s2c[c]).kind = "complete" /\ s2c[c] # <<>>
      BY <2>0, ReceivedFrame DEF Receiving, Received
    <2>2. PICK t \in Turns : t = Head(s2c[c]).turn /\ Head(s2c[c]) = Complete(t)
      BY <2>1, FrameShape, FrameKinds DEF Complete
    <2>3. turn[t] = "done" /\ \A n \in SeqsInLog(t) : n < Len(mirror[c])
      <3>1. s2c[c] \in Seq(ServerFrame) /\ Len(mirror[c]) \in Nat /\ SeqsInLog(t) \in SUBSET Nat
        BY <1>0
      <3>2. After(s2c[c], Complete(t), SeqsInLog(t), Len(mirror[c])) /\ turn[t] = "done"
        BY <2>1, <2>2 DEF Whole, WholeTurn
      <3> QED BY <2>1, <2>2, <3>1, <3>2, AfterTail
    <2>4. UNCHANGED <<log, turn, owner, mirror, call, stream>>
      BY <1>6 DEF ReceiveComplete
    <2>5. /\ IF owner[t] = c /\ call[t] = "streaming"
             THEN finish' = [finish EXCEPT ![t] = "complete"] /\ UNCHANGED completed
             ELSE completed' = [completed EXCEPT ![c] = @ \cup {t}] /\ UNCHANGED finish
      BY <1>6, <2>2 DEF ReceiveComplete
    <2>6. ASSUME NEW u \in Turns PROVE WholeTurn(u)'
      <3>1. WholeTurn(u) /\ SeqsInLog(u)' = SeqsInLog(u) /\ Complete(u)' = Complete(u)
        BY <2>4 DEF Whole, SeqsInLog, Complete, TurnFrame
      <3>2. \A d \in Clients : /\ Complete(u) \in Frames(s2c'[d]) => Complete(u) \in Frames(s2c[d])
                               /\ After(s2c'[d], Complete(u), SeqsInLog(u), Len(mirror[d]))
        BY <2>0, <3>1, <1>taken DEF WholeTurn
      <3>3. ASSUME NEW d \in Clients, u \in completed'[d], u \notin completed[d] PROVE u = t /\ d = c
        BY <2>5, <3>3 DEF TypeOK
      <3>4. ASSUME Ending(u)', ~Ending(u) PROVE u = t /\ owner[t] = c /\ call[t] = "streaming"
        BY <2>4, <2>5, <3>4 DEF Ending, TypeOK
      <3>5. ASSUME owner[t] = c, call[t] = "streaming" PROVE SeqsInLog(t) \subseteq stream[t]
        <4>1. SeqsInLog(t) \subseteq ByTurn(mirror[c], t)
          BY <2>3, SeqsBelow
        <4>2. ByTurn(mirror[c], t) \subseteq stream[t]
          BY <3>5 DEF Whole, WholeTurn
        <4> QED BY <4>1, <4>2
      <3>6. \A d \in Clients :
              /\ u \in completed'[d] => turn[u] = "done"
              /\ u \in completed'[d] => \A n \in SeqsInLog(u) : n < Len(mirror[d])
        BY <2>3, <3>1, <3>3 DEF WholeTurn
      <3>7. Ending(u)' => turn[u] = "done" /\ SeqsInLog(u) \subseteq stream[u]
        BY <2>3, <3>1, <3>4, <3>5 DEF WholeTurn
      <3> QED BY <2>4, <3>1, <3>2, <3>6, <3>7 DEF WholeTurn
    <2> QED BY <2>6 DEF Whole
  <1>7. ASSUME NEW c \in Clients, ReceiveEvent(c) PROVE Whole'
    <2>1. /\ Head(s2c[c]) \in ServerFrame /\ Head(s2c[c]) \in Frames(s2c[c])
          /\ Head(s2c[c]).kind = "event"
          /\ \A d \in Clients : Frames(s2c'[d]) \subseteq Frames(s2c[d])
      BY <1>7, ReceivedFrame DEF ReceiveEvent
    <2>2. PICK e \in Event : e = Head(s2c[c]).event
      BY <2>1, FrameShape
    <2>3. /\ UNCHANGED <<owner, log, turn, call, finish, completed>>
          /\ mirror' = [mirror EXCEPT ![c] = Ingest(@, e)]
          /\ stream' = IF owner[e.turn] = c /\ call[e.turn] = "streaming"
                       THEN [stream EXCEPT ![e.turn] = @ \cup {e.seq}] ELSE stream
          /\ s2c[c] # <<>> /\ s2c'[c] = Tail(s2c[c])
          /\ \A d \in Clients : d # c => s2c'[d] = s2c[d]
      BY <1>0, <1>7, <2>2 DEF ReceiveEvent, Receiving, Received, Consume
    <2>4. e.turn \in Turns /\ e.seq \in Nat
      BY <2>2 DEF Event
    <2>5. /\ \A t \in Turns : stream[t] \subseteq stream'[t]
          /\ owner[e.turn] = c /\ call[e.turn] = "streaming" => e.seq \in stream'[e.turn]
      BY <2>3, <2>4 DEF TypeOK
    <2>6. /\ mirror'[c] = Ingest(mirror[c], e) /\ \A d \in Clients : d # c => mirror'[d] = mirror[d]
          /\ Len(mirror[c]) \in Nat /\ Len(mirror'[c]) \in Nat
          /\ Len(mirror[c]) <= Len(mirror'[c]) /\ e.seq < Len(mirror'[c])
      <3>1. s2c[c] \in Seq(ServerFrame) /\ mirror[c] \in Seq(Event) /\ Len(mirror[c]) \in Nat
        BY <1>0
      <3>2. mirror'[c] = Ingest(mirror[c], e) /\ \A d \in Clients : d # c => mirror'[d] = mirror[d]
        BY <1>0, <2>3
      <3>3. e.seq <= Len(mirror[c])
        BY <2>1, <2>2, <2>3, <3>1, GaplessTail DEF QueueInv
      <3>4. Len(mirror'[c]) = IF e.seq = Len(mirror[c]) THEN Len(mirror[c]) + 1 ELSE Len(mirror[c])
        BY <3>1, <3>2, AppendProperties DEF Ingest
      <3> QED BY <2>4, <3>1, <3>2, <3>3, <3>4
    <2>7. \A d \in Clients : Len(mirror[d]) <= Len(mirror'[d]) /\ Len(mirror'[d]) \in Nat
      <3> SUFFICES ASSUME NEW d \in Clients PROVE Len(mirror[d]) <= Len(mirror'[d]) /\ Len(mirror'[d]) \in Nat
        OBVIOUS
      <3>1. CASE d = c
        BY <2>6, <3>1
      <3>2. CASE d # c
        <4>1. mirror'[d] = mirror[d] /\ Len(mirror[d]) \in Nat
          BY <1>0, <2>6, <3>2
        <4> QED BY <4>1
      <3> QED BY <3>1, <3>2
    <2>8. ASSUME NEW u \in Turns PROVE WholeTurn(u)'
      <3>1. WholeTurn(u) /\ SeqsInLog(u)' = SeqsInLog(u) /\ Complete(u)' = Complete(u)
            /\ SeqsInLog(u) \in SUBSET Nat
        BY <1>0, <2>3 DEF Whole, SeqsInLog, Complete, TurnFrame
      <3>2. ASSUME NEW d \in Clients PROVE After(s2c'[d], Complete(u), SeqsInLog(u), Len(mirror'[d]))
        <4>1. After(s2c[d], Complete(u), SeqsInLog(u), Len(mirror[d])) /\ s2c[d] \in Seq(ServerFrame)
          BY <1>0, <3>1 DEF WholeTurn
        <4>2. CASE d = c
          <5>1. \A n \in Nat : IsEvent(Head(s2c[c]), n) => n < Len(mirror'[c])
            BY <2>2, <2>6 DEF IsEvent
          <5> DEFINE k == Len(mirror'[c])
          <5>2. k \in Nat /\ Len(mirror[c]) <= k /\ Len(mirror[c]) \in Nat /\ s2c[c] # <<>>
                /\ s2c[c] \in Seq(ServerFrame) /\ \A n \in Nat : IsEvent(Head(s2c[c]), n) => n < k
            BY <2>3, <2>6, <4>1, <4>2, <5>1
          <5> HIDE DEF k
          <5>3. After(Tail(s2c[c]), Complete(u), SeqsInLog(u), k)
            BY <3>1, <4>1, <4>2, <5>2, AfterTail
          <5> QED BY <2>3, <4>2, <5>3 DEF k
        <4>3. CASE d # c
          BY <2>3, <2>6, <4>1, <4>3
        <4> QED BY <4>2, <4>3
      <3>3. ASSUME NEW d \in Clients, u \in completed[d], NEW n \in SeqsInLog(u) PROVE n < Len(mirror'[d])
        <4>1. n < Len(mirror[d]) /\ n \in Nat /\ Len(mirror[d]) \in Nat
          BY <1>0, <3>1, <3>3 DEF WholeTurn
        <4> QED BY <2>7, <4>1
      <3>4. ASSUME call[u] = "streaming" PROVE ByTurn(mirror'[owner[u]], u) \subseteq stream'[u]
        <4>1. owner[u] \in Clients /\ ByTurn(mirror[owner[u]], u) \subseteq stream[u]
          BY <3>1, <3>4 DEF Owned, WholeTurn
        <4>2. CASE owner[u] = c
          <5>1. \A n \in ByTurn(Ingest(mirror[c], e), u) : n \in ByTurn(mirror[c], u) \/ (e.turn = u /\ n = e.seq)
            BY <1>0, IngestByTurn
          <5> QED BY <2>5, <2>6, <3>4, <4>1, <4>2, <5>1
        <4>3. CASE owner[u] # c
          BY <2>5, <2>6, <4>1, <4>3
        <4> QED BY <4>2, <4>3
      <3>5. Ending(u)' => turn[u] = "done" /\ SeqsInLog(u) \subseteq stream'[u]
        BY <2>3, <2>5, <3>1 DEF WholeTurn, Ending
      <3>6. \A d \in Clients : Complete(u) \in Frames(s2c'[d]) \/ u \in completed[d] => turn[u] = "done"
        BY <2>1, <3>1 DEF WholeTurn
      <3> QED BY <2>3, <3>1, <3>2, <3>3, <3>4, <3>5, <3>6 DEF WholeTurn
    <2> QED BY <2>8 DEF Whole
  <1>8. ASSUME NEW c \in Clients, CloseLink(c) PROVE Whole'
    <2>1. /\ UNCHANGED <<owner, log, turn, mirror, stream, completed>>
          /\ s2c'[c] = <<>> /\ \A d \in Clients : d # c => s2c'[d] = s2c[d]
      BY <1>0, <1>8 DEF CloseLink
    <2>2. \A f, S, m : After(<<>>, f, S, m)
      BY DEF After
    <2>3. \A t \in Turns : /\ call'[t] = "streaming" => call[t] = "streaming"
                           /\ Ending(t)' => Ending(t)
      BY <1>8 DEF CloseLink, Ending, TypeOK
    <2> QED BY <2>1, <2>2, <2>3, FramesEmpty, WholeKept
  <1>9. ASSUME NEW c \in Clients, ClearMirror(c) PROVE Whole'
    BY <1>9, Prompt DEF ClearMirror, Prompt
  <1>10. ASSUME NEW c \in Clients, NEW t \in Turns, RunTurn(c, t) PROVE Whole'
    <2>1. /\ UNCHANGED <<log, turn, mirror, stream, completed, finish, s2c>>
          /\ owner[t] = NoOwner /\ owner' = [owner EXCEPT ![t] = c]
          /\ call' = [call EXCEPT ![t] = "called"]
      BY <1>10 DEF RunTurn
    <2>2. call[t] = "none"
      BY <2>1 DEF Owned
    <2>3. \A u \in Turns : /\ call'[u] = "streaming" => call[u] = "streaming" /\ owner'[u] = owner[u]
                           /\ Ending(u)' => Ending(u)
      BY <2>1, <2>2 DEF Ending, TypeOK
    <2> QED BY <2>1, <2>3, WholeKept
  <1>11. ASSUME NEW c \in Clients, NEW t \in Turns, Answer(c, t) PROVE Whole'
    BY <1>11, <1>calls DEF Answer
  <1>pushed. ASSUME NEW t \in Turns, turn[t] # "done", \E slow \in Slow : PushEvent(t, slow, s2c),
                    \A u \in Turns : /\ u # t => turn'[u] = turn[u]
                                     /\ call[u] # "none" => owner'[u] = owner[u],
                    UNCHANGED <<mirror, stream, call, finish, completed>>
             PROVE  Whole'
    BY <1>pushed, <1>0, WholePush
  <1>12. ASSUME NEW t \in Turns, StartLocalTurn(t) PROVE Whole'
    <2>1. /\ UNCHANGED <<mirror, stream, call, finish, completed>>
          /\ turn[t] = "none" /\ owner[t] = NoOwner
          /\ turn' = [turn EXCEPT ![t] = "running"] /\ owner' = [owner EXCEPT ![t] = Local]
          /\ \E slow \in Slow : PushEvent(t, slow, s2c)
      BY <1>12 DEF StartLocalTurn
    <2>2. call[t] = "none"
      BY <2>1 DEF Owned
    <2>3. \A u \in Turns : /\ u # t => turn'[u] = turn[u]
                           /\ call[u] # "none" => owner'[u] = owner[u]
      BY <2>1, <2>2 DEF TypeOK
    <2> QED BY <2>1, <2>3, <1>pushed
  <1>13. ASSUME NEW t \in Turns, Emit(t) PROVE Whole'
    BY <1>13, <1>pushed DEF Emit
  <1>14. ASSUME NEW t \in Turns, AskPermission(t) PROVE Whole'
    <2>1. PICK g \in ServerFrame : g = TurnFrame("ask", t) /\ \A u \in Turns : g # Complete(u)
      BY FrameShape DEF TurnFrame, Complete
    <2>2. \A d \in Clients : s2c'[d] = s2c[d] \/ s2c'[d] = Append(s2c[d], g)
      BY <1>0, <1>14, <2>1 DEF AskPermission, Send
    <2>3. UNCHANGED <<log, turn, owner, mirror, stream, completed, call, finish>>
      BY <1>14 DEF AskPermission
    <2> QED BY <2>1, <2>2, <2>3, <1>sent, <1>calls
  <1>15. ASSUME NEW t \in Turns, CompleteTurn(t) PROVE Whole'
    <2>1. PICK g \in ServerFrame : g = Complete(t) /\ \A u \in Turns : u # t => g # Complete(u)
      BY FrameShape DEF TurnFrame, Complete
    <2>2. /\ UNCHANGED <<log, owner, mirror, stream, completed, call, finish>>
          /\ turn' = [turn EXCEPT ![t] = "done"]
      BY <1>15 DEF CompleteTurn
    <2>3. \A d \in Clients : \/ s2c'[d] = s2c[d]
                             \/ s2c'[d] = Append(s2c[d], g) /\ srv[d] = "attached" /\ clt[d] # "closed"
      BY <1>0, <1>15, <2>1 DEF CompleteTurn, Broadcast, Complete
    <2>4. \A u \in Turns : turn[u] = "done" \/ u = t => turn'[u] = "done"
      BY <2>2 DEF TypeOK
    <2>5. ASSUME NEW d \in Clients, NEW u \in Turns
          PROVE  /\ Complete(u) \in Frames(s2c'[d]) => Complete(u) \in Frames(s2c[d]) \/ u = t
                 /\ After(s2c'[d], Complete(u), SeqsInLog(u), Len(mirror[d]))
      <3>1. /\ s2c[d] \in Seq(ServerFrame) /\ Frames(Append(s2c[d], g)) = Frames(s2c[d]) \cup {g}
            /\ After(s2c[d], Complete(u), SeqsInLog(u), Len(mirror[d]))
        BY <1>0, FramesAppend DEF Whole, WholeTurn
      <3>2. CASE s2c'[d] = s2c[d]
        BY <3>1, <3>2
      <3>3. CASE s2c'[d] = Append(s2c[d], g) /\ srv[d] = "attached" /\ clt[d] # "closed"
        <4>1. \A n \in SeqsInLog(u) : n < Len(mirror[d]) \/ \E i \in 1..Len(s2c[d]) : IsEvent(s2c[d][i], n)
          <5>1. Fills(s2c[d], Len(mirror[d]), Len(log)) /\ Len(mirror[d]) \in Nat
            BY <1>0, <3>3 DEF QueueInv
          <5>2. \A n \in SeqsInLog(u) : n \in 0..(Len(log) - 1)
            BY SeqsBelow
          <5> QED BY <5>1, <5>2 DEF Fills
        <4>2. After(Append(s2c[d], g), Complete(u), SeqsInLog(u), Len(mirror[d]))
          BY <3>1, <4>1, AfterAppend
        <4>3. Complete(u) = g => u = t
          BY <2>1
        <4> QED BY <3>1, <3>3, <4>2, <4>3
      <3> QED BY <2>3, <3>2, <3>3
    <2>6. ASSUME NEW u \in Turns PROVE WholeTurn(u)'
      <3>1. WholeTurn(u) /\ SeqsInLog(u)' = SeqsInLog(u) /\ Complete(u)' = Complete(u)
            /\ (Ending(u)' <=> Ending(u))
        BY <2>2 DEF Whole, SeqsInLog, Complete, TurnFrame, Ending
      <3> QED BY <2>2, <2>4, <2>5, <3>1 DEF WholeTurn
    <2> QED BY <2>6 DEF Whole
  <1>16. ASSUME NEW t \in Turns, RegisterStream(t) PROVE Whole'
    <2> DEFINE c == owner[t]
    <2>1. c \in Clients
      BY <1>16 DEF RegisterStream, Owned
    <2>2. /\ UNCHANGED <<log, owner, turn, mirror, s2c>>
          /\ stream'[t] = ByTurn(mirror[c], t)
          /\ \A u \in Turns : u # t => stream'[u] = stream[u]
          /\ finish'[t] = (IF t \in completed[c] THEN "complete" ELSE "no")
          /\ \A u \in Turns : u # t => finish'[u] = finish[u] /\ call'[u] = call[u]
          /\ call'[t] = "streaming"
          /\ \A d \in Clients : completed'[d] \subseteq completed[d]
      BY <1>16, <2>1 DEF RegisterStream, TypeOK
    <2>3. ASSUME NEW u \in Turns PROVE WholeTurn(u)'
      <3>1. WholeTurn(u) /\ SeqsInLog(u)' = SeqsInLog(u) /\ Complete(u)' = Complete(u)
        BY <2>2 DEF Whole, SeqsInLog, Complete, TurnFrame
      <3>2. CASE u = t
        <4>1. t \in completed[c] => turn[t] = "done" /\ SeqsInLog(t) \subseteq stream'[t]
          <5>1. t \in completed[c] => turn[t] = "done" /\ \A n \in SeqsInLog(t) : n < Len(mirror[c])
            BY <2>1, <3>1, <3>2 DEF WholeTurn
          <5>2. \A n : n \in ByTurn(mirror[c], t) <=> n \in SeqsInLog(t) /\ n < Len(mirror[c])
            BY <2>1, SeqsBelow
          <5> QED BY <2>2, <5>1, <5>2
        <4>2. Ending(t)' => t \in completed[c]
          BY <2>2 DEF Ending
        <4>3. ByTurn(mirror[owner[t]], t) \subseteq stream'[t]
          BY <2>2
        <4> QED BY <2>2, <3>1, <3>2, <4>1, <4>2, <4>3 DEF WholeTurn
      <3>3. CASE u # t
        <4>1. (Ending(u)' <=> Ending(u)) /\ stream'[u] = stream[u] /\ call'[u] = call[u]
          BY <2>2, <3>3 DEF Ending
        <4> QED BY <2>2, <3>1, <4>1 DEF WholeTurn
      <3> QED BY <3>2, <3>3
    <2> QED BY <2>3 DEF Whole
  <1>17. ASSUME NEW t \in Turns, EndStream(t) \/ LeaveStream(t) PROVE Whole'
    <2>1. /\ UNCHANGED <<log, turn, owner, mirror, stream, completed, s2c, finish>>
          /\ call[t] = "streaming"
          /\ \A u \in Turns : u # t => call'[u] = call[u]
          /\ call'[t] \in {"failed", "left"} \/ (call'[t] = "ended" /\ finish[t] = "complete")
      BY <1>17 DEF EndStream, LeaveStream, TypeOK
    <2>2. \A u \in Turns : /\ call'[u] = "streaming" => call[u] = "streaming"
                           /\ Ending(u)' => Ending(u)
      BY <2>1 DEF Ending
    <2> QED BY <2>1, <2>2, WholeKept
  <1>18. ASSUME NEW t \in Turns, AbortTurn(t) PROVE Whole'
    BY <1>18, <1>calls DEF AbortTurn
  <1>19. ASSUME NEW e \in fanout, FanOut(e) PROVE Whole'
    <2>1. EventFrame(e) \in ServerFrame /\ \A u \in Turns : EventFrame(e) # Complete(u)
      BY FrameShape DEF TypeOK, EventFrame, Complete, TurnFrame
    <2>2. /\ UNCHANGED <<log, turn, owner, mirror, stream, completed, call, finish>>
          /\ \A d \in Clients : s2c'[d] = s2c[d] \/ s2c'[d] = Append(s2c[d], EventFrame(e))
      BY <1>0, <1>19 DEF FanOut, Broadcast
    <2> QED BY <2>1, <2>2, <1>sent, <1>calls
  <1>20. ASSUME Close PROVE Whole'
    BY <1>20, <1>calls DEF Close
  <1>21. CASE UNCHANGED vars
    BY <1>21, <1>calls DEF vars
  <1> QED
    BY <1>1, <1>2, <1>3, <1>4, <1>5, <1>6, <1>7, <1>8, <1>9, <1>10, <1>11, <1>12, <1>13,
       <1>14, <1>15, <1>16, <1>17, <1>18, <1>19, <1>20, <1>21
    DEF Next, HandleFrame, ReceiveFrame, TurnStep, CallStep

\* With prompt hooks and views never cleared a stream that ended normally
\* yielded every event of its turn and nothing else, also when the reply, the
\* events and the completion overtook the registration of the stream.
THEOREM EndedStreamWholeWhenPrompt == ASSUME Prompt PROVE Spec => []EndedStreamIsWhole
  <1> DEFINE IInv == /\ TypeOK /\ Owned /\ FromLog /\ MirrorIsPrefix /\ QueueInv /\ fanout = {}
                     /\ Requested /\ Ordered /\ Whole
  <1>1. Init => IInv
    BY TypeInit, OwnedInit, FromLogInit, QueueInit, RequestedInit, OrderedInit, WholeInit
  <1>2. IInv /\ [Next]_vars => IInv'
    BY Prompt, TypeNext, OwnedNext, FromLogNext, QueueNext, RequestedNext, OrderedNext, WholeNext
  <1>3. IInv => EndedStreamIsWhole
    <2> SUFFICES ASSUME Ordered, Whole, NEW t \in Turns, call[t] = "ended" PROVE stream[t] = SeqsInLog(t)
      BY DEF EndedStreamIsWhole
    <2>1. SeqsInLog(t) \subseteq stream[t]
      BY DEF Whole, WholeTurn, Ending
    <2> QED BY <2>1 DEF Ordered
  <1> HIDE DEF IInv
  <1> QED BY <1>1, <1>2, <1>3, PTL DEF Spec

-----------------------------------------------------------------------------
(* Refinement.                                                             *)

\* What a step can do to the log and the mirrors.
LEMMA SharedNext ==
  TypeOK /\ Owned /\ FromLog /\ MirrorIsPrefix /\ [Next]_vars => [Shared!Next]_<<log, mirror>>
  <1> SUFFICES ASSUME TypeOK, Owned, FromLog, MirrorIsPrefix, [Next]_vars
               PROVE  [Shared!Next]_<<log, mirror>>
    OBVIOUS
  <1> DEFINE Goal == [Shared!Next]_<<log, mirror>>
  <1> USE DEF sessionVars, serverVars, linkVars, callVars, clientVars
  <1>push. ASSUME NEW t \in Turns, NEW q, \E slow \in Slow : PushEvent(t, slow, q), mirror' = mirror
           PROVE  Goal
    <2>1. log' = Append(log, Shared!Entry(t))
      BY <1>push DEF PushEvent, NextEvent, Shared!Entry
    <2> QED BY <1>push, <2>1 DEF Shared!Next, Shared!Write
  <1>1. ASSUME NEW c \in Clients, HandleRunTurn(c) PROVE Goal
    <2>1. PICK t \in Turns : t = Head(c2s[c]).turn
      BY <1>1, HandledFrame, FrameShape DEF HandleRunTurn
    <2>2. /\ \E slow \in Slow : PushEvent(t, slow, Send(c, TurnFrame("turnId", t)))
          /\ mirror' = mirror
      BY <1>1, <2>1 DEF HandleRunTurn
    <2> QED BY <1>push, <2>2
  <1>2. ASSUME NEW c \in Clients, HandleAttach(c) \/ HandleSetResolver(c) \/ HandleAbort(c)
                                  \/ HandleAnswer(c) \/ OnDisconnect(c)
        PROVE  Goal
    BY <1>2 DEF HandleAttach, HandleSetResolver, HandleAbort, HandleAnswer, OnDisconnect
  <1>3. ASSUME NEW c \in Clients, ReceiveEvent(c) PROVE Goal
    <2>1. PICK e \in Event : e = Head(s2c[c]).event /\ Logged(e)
      BY <1>3, ReceivedFrame, FrameShape DEF ReceiveEvent, FromLog
    <2>2. log' = log /\ mirror' = [mirror EXCEPT ![c] = Ingest(mirror[c], e)]
      BY <1>3, <2>1 DEF ReceiveEvent
    <2>3. CASE e.seq = Len(mirror[c])
      <3>1. Len(mirror[c]) < Len(log) /\ e = log[Len(mirror[c]) + 1]
        <4>1. Len(mirror[c]) \in Nat /\ Len(log) \in Nat
          BY LenProperties DEF TypeOK
        <4> QED BY <2>1, <2>3, <4>1 DEF Logged
      <3>2. mirror' = [mirror EXCEPT ![c] = Append(mirror[c], log[Len(mirror[c]) + 1])]
        BY <2>2, <2>3, <3>1 DEF Ingest
      <3> QED BY <2>2, <3>1, <3>2 DEF Shared!Next, Shared!Learn
    <2>4. CASE e.seq # Len(mirror[c])
      <3>1. mirror' = mirror
        BY <2>2, <2>4 DEF Ingest, TypeOK
      <3> QED BY <2>2, <3>1
    <2> QED BY <2>3, <2>4
  <1>4. ASSUME NEW c \in Clients, ReceiveAttached(c) \/ ReceiveTurnId(c) \/ ReceiveComplete(c)
                                  \/ ReceiveAsk(c)
        PROVE  Goal
    BY <1>4 DEF ReceiveAttached, ReceiveTurnId, ReceiveComplete, ReceiveAsk
  <1>5. ASSUME NEW c \in Clients, Connect(c) \/ SetPermissionResolver(c) \/ CloseLink(c) PROVE Goal
    BY <1>5 DEF Connect, SetPermissionResolver, CloseLink
  <1>6. ASSUME NEW c \in Clients, ClearMirror(c) PROVE Goal
    <2>1. Shared!StartOver(c)
      BY <1>6 DEF ClearMirror, Shared!StartOver
    <2> QED BY <2>1 DEF Shared!Next
  <1>7. ASSUME NEW c \in Clients, NEW t \in Turns, RunTurn(c, t) \/ Answer(c, t) PROVE Goal
    BY <1>7 DEF RunTurn, Answer
  <1>8. ASSUME NEW t \in Turns, StartLocalTurn(t) \/ Emit(t) PROVE Goal
    <2>1. (\E slow \in Slow : PushEvent(t, slow, s2c)) /\ mirror' = mirror
      BY <1>8 DEF StartLocalTurn, Emit
    <2> QED BY <1>push, <2>1
  <1>9. ASSUME NEW t \in Turns, AskPermission(t) \/ CompleteTurn(t) \/ CallStep(t) PROVE Goal
    BY <1>9 DEF AskPermission, CompleteTurn, CallStep, RegisterStream, EndStream, LeaveStream, AbortTurn
  <1>10. ASSUME NEW e \in fanout, FanOut(e) PROVE Goal
    BY <1>10 DEF FanOut
  <1>11. ASSUME Close PROVE Goal
    BY <1>11 DEF Close
  <1>12. CASE UNCHANGED vars
    BY <1>12 DEF vars
  <1> QED
    BY <1>1, <1>2, <1>3, <1>4, <1>5, <1>6, <1>7, <1>8, <1>9, <1>10, <1>11, <1>12
    DEF Next, HandleFrame, ReceiveFrame, TurnStep

\* The runner implements the shared log, for every number of clients and
\* turns, with suspended hooks and cleared views.
THEOREM RunnerImplementsSharedLog == Spec => ImplementsSharedLog
  <1> DEFINE IInv == TypeOK /\ Owned /\ FromLog /\ MirrorIsPrefix
  <1>1. Init => IInv /\ Shared!Init
    <2>1. Init => Shared!Init
      BY DEF Init, Shared!Init
    <2> QED BY <2>1, TypeInit, OwnedInit, FromLogInit
  <1>2. IInv /\ [Next]_vars => IInv'
    BY TypeNext, OwnedNext, FromLogNext
  <1>3. IInv /\ [Next]_vars => [Shared!Next]_<<log, mirror>>
    BY SharedNext
  <1> HIDE DEF IInv
  <1> QED BY <1>1, <1>2, <1>3, PTL DEF Spec, ImplementsSharedLog, Shared!Spec

=============================================================================
