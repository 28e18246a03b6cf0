------------------------------- MODULE Runner -------------------------------
(***************************************************************************)
(* A runner owns one Session and shares it with thin clients over local    *)
(* sockets (packages/runner).  This module composes the pieces whose       *)
(* interleavings matter:                                                   *)
(*   - the session's append-only event log and its fan-out to listeners    *)
(*     (packages/core/src/events/log.ts),                                  *)
(*   - the RunnerServer: attach with replay, turns driven on behalf of a   *)
(*     client, permission questions routed back to that client, broadcast  *)
(*     (packages/runner/src/server.ts),                                    *)
(*   - the RemoteSession: the mirror of the log, one stream per turn       *)
(*     (packages/runner/src/remote-session.ts),                            *)
(*   - the JSON-RPC link: one FIFO per direction, closing rejects what is  *)
(*     pending (packages/runner/src/jsonrpc.ts, unix-socket.ts).           *)
(*                                                                         *)
(* A client is one connection: a process that reconnects is another        *)
(* client.  A turn id is fresh, so the model picks it where the client     *)
(* asks for the turn instead of where the server mints it.                 *)
(***************************************************************************)
EXTENDS Naturals, Sequences, FiniteSets

CONSTANTS
  Clients,     \* connections a client process opens, each used once
  Turns,       \* turn ids
  Local,       \* the owner of a turn started in the runner's own process
  NoOwner,     \* the owner of a turn id nobody used yet
  MaxEvents,   \* bound: the length of the log
  AsyncHooks,  \* TRUE: a plugin's onEvent hook may suspend a fan-out
  ClearMirrors \* TRUE: a client may clear its own view (`/new`)

ASSUME RunnerAssumption ==
  /\ Local \notin Clients
  /\ NoOwner \notin Clients \cup {Local}
  /\ MaxEvents \in Nat
  /\ AsyncHooks \in BOOLEAN
  /\ ClearMirrors \in BOOLEAN

-----------------------------------------------------------------------------
(* The data: events, frames, and the states of a link and of a turn.       *)

\* A materialized event: its seq, and the turn it belongs to.
Event == [seq : Nat, turn : Turns]

\* Frames from the server to a client.
EventFrame(e) == [kind |-> "event", event |-> e]
TurnFrame(k, t) == [kind |-> k, turn |-> t]
AttachReply == [kind |-> "attached"]

ServerFrame == [kind : {"event"}, event : Event]
               \cup [kind : {"turnId", "complete", "ask"}, turn : Turns]
               \cup {AttachReply}

\* Frames from a client to the server.
AttachRequest == [kind |-> "attach"]
SetResolver == [kind |-> "setResolver"]

ClientFrame == [kind : {"runTurn", "abort", "answer"}, turn : Turns]
               \cup {AttachRequest, SetResolver}

\* The server's view of a connection: "ending" is a socket it half-closed
\* itself, "closed" one whose close event it has handled.
ServerLink == {"none", "open", "attached", "ending", "closed"}

\* The client's view of the connection.
ClientLink == {"none", "open", "attached", "closed"}

\* How far a turn's runTurn call has got on the client: "replied" is the gap
\* between the reply resolving the promise and the stream being registered.
CallState == {"none", "called", "replied", "streaming", "ended", "left", "failed"}

\* The one permission question a turn asks, and how it was settled.
AskState == {"none", "pending", "answered", "unavailable", "fallback"}

-----------------------------------------------------------------------------
VARIABLES
  log,        \* session.log: the events in order
  fanout,     \* events pushed to the log whose onEvent hooks still run
  turn,       \* turn[t]: "none", "running" or "done"
  owner,      \* owner[t]: the client whose scope the turn runs in
  aborted,    \* aborted[t]: its AbortController has fired
  ask,        \* ask[t]: its permission question
  srv,        \* srv[c]: the server's end of the connection
  handles,    \* handles[c]: ConnectedClient.handlesPermission
  c2s, s2c,   \* the two FIFO directions of a connection
  clt,        \* clt[c]: the client's end of the connection
  mirror,     \* mirror[c]: RemoteSession.mirror
  call,       \* call[t]: the owner's runTurn call
  stream,     \* stream[t]: the seqs pushed to the owner's TurnStream
  finish,     \* finish[t]: "no", "complete" or "disconnected"
  completed,  \* completed[c]: RemoteSession.completedTurns
  asking,     \* asking[c]: questions the client's user has on screen
  stopped     \* RunnerServer.closed

sessionVars == <<log, fanout, turn, owner, aborted, ask>>
serverVars  == <<srv, handles, stopped>>
linkVars    == <<c2s, s2c>>
callVars    == <<call, stream, finish, completed>>
clientVars  == <<clt, mirror, callVars, asking>>
vars        == <<sessionVars, serverVars, linkVars, clientVars>>

TypeOK ==
  /\ log \in Seq(Event)
  /\ fanout \in SUBSET Event
  /\ turn \in [Turns -> {"none", "running", "done"}]
  /\ owner \in [Turns -> Clients \cup {Local, NoOwner}]
  /\ aborted \in [Turns -> BOOLEAN]
  /\ ask \in [Turns -> AskState]
  /\ srv \in [Clients -> ServerLink]
  /\ handles \in [Clients -> BOOLEAN]
  /\ c2s \in [Clients -> Seq(ClientFrame)]
  /\ s2c \in [Clients -> Seq(ServerFrame)]
  /\ clt \in [Clients -> ClientLink]
  /\ mirror \in [Clients -> Seq(Event)]
  /\ call \in [Turns -> CallState]
  /\ stream \in [Turns -> SUBSET Nat]
  /\ finish \in [Turns -> {"no", "complete", "disconnected"}]
  /\ completed \in [Clients -> SUBSET Turns]
  /\ asking \in [Clients -> SUBSET Turns]
  /\ stopped \in BOOLEAN

Init ==
  /\ log = <<>>
  /\ fanout = {}
  /\ turn = [t \in Turns |-> "none"]
  /\ owner = [t \in Turns |-> NoOwner]
  /\ aborted = [t \in Turns |-> FALSE]
  /\ ask = [t \in Turns |-> "none"]
  /\ srv = [c \in Clients |-> "none"]
  /\ handles = [c \in Clients |-> FALSE]
  /\ c2s = [c \in Clients |-> <<>>]
  /\ s2c = [c \in Clients |-> <<>>]
  /\ clt = [c \in Clients |-> "none"]
  /\ mirror = [c \in Clients |-> <<>>]
  /\ call = [t \in Turns |-> "none"]
  /\ stream = [t \in Turns |-> {}]
  /\ finish = [t \in Turns |-> "no"]
  /\ completed = [c \in Clients |-> {}]
  /\ asking = [c \in Clients |-> {}]
  /\ stopped = FALSE

-----------------------------------------------------------------------------
(* The link and the event log.                                             *)

\* A frame the server sends reaches the queue only while both ends are up.
Reaches(c) == srv[c] \in {"open", "attached"} /\ clt[c] # "closed"

Send(c, frame) == IF Reaches(c) THEN [s2c EXCEPT ![c] = Append(@, frame)] ELSE s2c

\* RunnerServer.broadcast over the queues q: every attached client, owner or not.
Broadcast(q, frame) ==
  [c \in Clients |-> IF srv[c] = "attached" /\ clt[c] # "closed"
                     THEN Append(q[c], frame) ELSE q[c]]

NextEvent(t) == [seq |-> Len(log), turn |-> t]

\* EventLog.append: the event is in the log at once.  Its listeners run in
\* order, the plugins' onEvent hooks before the broadcast; a hook that
\* suspends (slow) leaves the broadcast for later.
PushEvent(t, slow, queues) ==
  /\ log' = Append(log, NextEvent(t))
  /\ fanout' = IF slow THEN fanout \cup {NextEvent(t)} ELSE fanout
  /\ s2c' = IF slow THEN queues ELSE Broadcast(queues, EventFrame(NextEvent(t)))

Slow == IF AsyncHooks THEN BOOLEAN ELSE {FALSE}

\* The listeners of an event that was suspended in a hook get it.
FanOut(e) ==
  /\ e \in fanout
  /\ fanout' = fanout \ {e}
  /\ s2c' = Broadcast(s2c, EventFrame(e))
  /\ UNCHANGED <<log, turn, owner, aborted, ask, serverVars, c2s, clientVars>>

\* Frames are handled one at a time and in order.
Received(q, c, k) == q[c] # <<>> /\ Head(q[c]).kind = k
Consume(q, c) == [q EXCEPT ![c] = Tail(@)]

-----------------------------------------------------------------------------
(* The server.                                                             *)

\* Its peers keep handling frames until their close event, also after close().
Listening(c) == srv[c] \in {"open", "attached", "ending"}

\* Mutant: the replay forgets the newest event.
ReplayAllButNewest == [i \in 1..(Len(log) - 1) |-> EventFrame(log[i])]

\* The whole history goes out before the reply, with no event in between.
Replay == [i \in 1..Len(log) |-> EventFrame(log[i])]

HandleAttach(c) ==
  /\ Listening(c) /\ Received(c2s, c, "attach")
  /\ c2s' = Consume(c2s, c)
  /\ srv' = [srv EXCEPT ![c] = IF @ = "open" THEN "attached" ELSE @]
  /\ s2c' = IF Reaches(c) THEN [s2c EXCEPT ![c] = @ \o Replay \o <<AttachReply>>] ELSE s2c
  /\ UNCHANGED <<sessionVars, handles, stopped, clientVars>>

HandleSetResolver(c) ==
  /\ Listening(c) /\ Received(c2s, c, "setResolver")
  /\ c2s' = Consume(c2s, c)
  /\ handles' = [handles EXCEPT ![c] = TRUE]
  /\ UNCHANGED <<sessionVars, srv, stopped, s2c, clientVars>>

\* The turn starts in the handler: its user_prompt is in the log before the
\* reply is sent, the reply is sent before the prompt is broadcast.
HandleRunTurn(c) ==
  /\ Listening(c) /\ Received(c2s, c, "runTurn")
  /\ LET t == Head(c2s[c]).turn IN
     /\ turn' = [turn EXCEPT ![t] = "running"]
     /\ \E slow \in Slow : PushEvent(t, slow, Send(c, TurnFrame("turnId", t)))
  /\ c2s' = Consume(c2s, c)
  /\ UNCHANGED <<owner, aborted, ask, serverVars, clientVars>>

\* Only a running turn still has a controller; any client may abort it.
HandleAbort(c) ==
  /\ Listening(c) /\ Received(c2s, c, "abort")
  /\ LET t == Head(c2s[c]).turn IN
     aborted' = [aborted EXCEPT ![t] = @ \/ turn[t] = "running"]
  /\ c2s' = Consume(c2s, c)
  /\ UNCHANGED <<log, fanout, turn, owner, ask, serverVars, s2c, clientVars>>

HandleAnswer(c) ==
  /\ Listening(c) /\ Received(c2s, c, "answer")
  /\ ask' = [ask EXCEPT ![Head(c2s[c]).turn] = "answered"]
  /\ c2s' = Consume(c2s, c)
  /\ UNCHANGED <<log, fanout, turn, owner, aborted, serverVars, s2c, clientVars>>

\* Mutant: a disconnect rejects nothing.
DisconnectWithoutReject(c) ==
  /\ Listening(c) /\ clt[c] = "closed" /\ c2s[c] = <<>>
  /\ srv' = [srv EXCEPT ![c] = "closed"]
  /\ aborted' = [t \in Turns |-> aborted[t] \/ (owner[t] = c /\ turn[t] = "running")]
  /\ UNCHANGED <<log, fanout, turn, owner, ask, handles, stopped, linkVars, clientVars>>

\* The close event of a socket comes after the frames sent before it: pending
\* questions are rejected (and so denied), the client's turns are aborted.
OnDisconnect(c) ==
  /\ Listening(c) /\ clt[c] = "closed" /\ c2s[c] = <<>>
  /\ srv' = [srv EXCEPT ![c] = "closed"]
  /\ aborted' = [t \in Turns |-> aborted[t] \/ (owner[t] = c /\ turn[t] = "running")]
  /\ ask' = [t \in Turns |-> IF owner[t] = c /\ ask[t] = "pending"
                             THEN "unavailable" ELSE ask[t]]
  /\ UNCHANGED <<log, fanout, turn, owner, handles, stopped, linkVars, clientVars>>

\* RunnerServer.close: no more broadcasts, every socket is half-closed.
Close ==
  /\ ~stopped
  /\ stopped' = TRUE
  /\ srv' = [c \in Clients |-> IF srv[c] \in {"open", "attached"} THEN "ending" ELSE srv[c]]
  /\ UNCHANGED <<sessionVars, handles, linkVars, clientVars>>

-----------------------------------------------------------------------------
(* The turns of the session.                                               *)

\* Mutant: an append is not awaited.
AwaitingNothing(t) == FALSE

\* A turn awaits each append, so it has at most one event in its hooks.
Awaiting(t) == \E e \in fanout : e.turn = t

\* MaxEvents leaves room for the prompt of every turn that may still start.
Room == Len(log) + Cardinality({t \in Turns : turn[t] = "none"}) < MaxEvents

StartLocalTurn(t) ==
  /\ turn[t] = "none" /\ owner[t] = NoOwner
  /\ turn' = [turn EXCEPT ![t] = "running"]
  /\ owner' = [owner EXCEPT ![t] = Local]
  /\ \E slow \in Slow : PushEvent(t, slow, s2c)
  /\ UNCHANGED <<aborted, ask, serverVars, c2s, clientVars>>

Emit(t) ==
  /\ turn[t] = "running" /\ ~Awaiting(t) /\ Room
  /\ \E slow \in Slow : PushEvent(t, slow, s2c)
  /\ UNCHANGED <<turn, owner, aborted, ask, serverVars, c2s, clientVars>>

\* RunnerServer.resolvePermission: the question goes to the client in whose
\* scope the turn runs if it answers questions and its peer is not closed,
\* else to the resolver the host had installed.
Routed(t) ==
  /\ owner[t] \in Clients
  /\ handles[owner[t]]
  /\ srv[owner[t]] # "closed"

AskPermission(t) ==
  /\ turn[t] = "running" /\ ask[t] = "none" /\ ~Awaiting(t)
  /\ ask' = [ask EXCEPT ![t] = IF Routed(t) THEN "pending" ELSE "fallback"]
  /\ s2c' = IF Routed(t) THEN Send(owner[t], TurnFrame("ask", t)) ELSE s2c
  /\ UNCHANGED <<log, fanout, turn, owner, aborted, serverVars, c2s, clientVars>>

\* runTurn drains, and the server tells everyone attached.  Nothing cancels
\* a question on its way: an aborted turn waits for it like any other.
CompleteTurn(t) ==
  /\ turn[t] = "running" /\ ~Awaiting(t) /\ ask[t] # "pending"
  /\ turn' = [turn EXCEPT ![t] = "done"]
  /\ s2c' = IF owner[t] = Local THEN s2c ELSE Broadcast(s2c, TurnFrame("complete", t))
  /\ UNCHANGED <<log, fanout, owner, aborted, ask, serverVars, c2s, clientVars>>

-----------------------------------------------------------------------------
(* The client.                                                             *)

Request(c, frame) == c2s' = [c2s EXCEPT ![c] = Append(@, frame)]

Connect(c) ==
  /\ clt[c] = "none" /\ ~stopped
  /\ clt' = [clt EXCEPT ![c] = "open"]
  /\ srv' = [srv EXCEPT ![c] = "open"]
  /\ Request(c, AttachRequest)
  /\ UNCHANGED <<sessionVars, handles, stopped, s2c, mirror, callVars, asking>>

\* A channel installs its permission resolver before it runs turns, once.
SetPermissionResolver(c) ==
  /\ clt[c] = "attached" /\ ~handles[c]
  /\ c2s[c] = <<>> /\ \A t \in Turns : owner[t] # c
  /\ Request(c, SetResolver)
  /\ UNCHANGED <<sessionVars, serverVars, s2c, clientVars>>

RunTurn(c, t) ==
  /\ clt[c] = "attached" /\ owner[t] = NoOwner
  /\ owner' = [owner EXCEPT ![t] = c]
  /\ call' = [call EXCEPT ![t] = "called"]
  /\ Request(c, TurnFrame("runTurn", t))
  /\ UNCHANGED <<log, fanout, turn, aborted, ask, serverVars, s2c, clt, mirror,
                 stream, finish, completed, asking>>

Receiving(c, k) == clt[c] \in {"open", "attached"} /\ Received(s2c, c, k)

ReceiveAttached(c) ==
  /\ Receiving(c, "attached")
  /\ clt' = [clt EXCEPT ![c] = "attached"]
  /\ s2c' = Consume(s2c, c)
  /\ UNCHANGED <<sessionVars, serverVars, c2s, mirror, callVars, asking>>

\* EventLog.ingest: only the next expected seq is accepted.
Ingest(m, e) == IF e.seq = Len(m) THEN Append(m, e) ELSE m

\* TurnStream.push drops a seq it has seen, so a stream is a set that grows.
ReceiveEvent(c) ==
  /\ Receiving(c, "event")
  /\ LET e == Head(s2c[c]).event
         open == owner[e.turn] = c /\ call[e.turn] = "streaming" IN
     /\ mirror' = [mirror EXCEPT ![c] = Ingest(@, e)]
     /\ stream' = IF open THEN [stream EXCEPT ![e.turn] = @ \cup {e.seq}] ELSE stream
  /\ s2c' = Consume(s2c, c)
  /\ UNCHANGED <<sessionVars, serverVars, c2s, clt, call, finish, completed, asking>>

\* The reply resolves the promise of the call; its continuation comes later.
ReceiveTurnId(c) ==
  /\ Receiving(c, "turnId")
  /\ call' = [call EXCEPT ![Head(s2c[c]).turn] = "replied"]
  /\ s2c' = Consume(s2c, c)
  /\ UNCHANGED <<sessionVars, serverVars, c2s, clt, mirror, stream, finish, completed, asking>>

\* Mutant: a completion that finds no stream is dropped.
ReceiveCompleteForgets(c) ==
  /\ Receiving(c, "complete")
  /\ LET t == Head(s2c[c]).turn IN
     finish' = IF owner[t] = c /\ call[t] = "streaming"
               THEN [finish EXCEPT ![t] = "complete"] ELSE finish
  /\ s2c' = Consume(s2c, c)
  /\ UNCHANGED <<sessionVars, serverVars, c2s, clt, mirror, call, stream, completed, asking>>

\* A completion that finds no stream is remembered, whoever's turn it was.
ReceiveComplete(c) ==
  /\ Receiving(c, "complete")
  /\ LET t == Head(s2c[c]).turn IN
     IF owner[t] = c /\ call[t] = "streaming"
     THEN finish' = [finish EXCEPT ![t] = "complete"] /\ UNCHANGED completed
     ELSE completed' = [completed EXCEPT ![c] = @ \cup {t}] /\ UNCHANGED finish
  /\ s2c' = Consume(s2c, c)
  /\ UNCHANGED <<sessionVars, serverVars, c2s, clt, mirror, call, stream, asking>>

ReceiveAsk(c) ==
  /\ Receiving(c, "ask")
  /\ asking' = [asking EXCEPT ![c] = @ \cup {Head(s2c[c]).turn}]
  /\ s2c' = Consume(s2c, c)
  /\ UNCHANGED <<sessionVars, serverVars, c2s, clt, mirror, callVars>>

Answer(c, t) ==
  /\ clt[c] = "attached" /\ t \in asking[c]
  /\ asking' = [asking EXCEPT ![c] = @ \ {t}]
  /\ Request(c, TurnFrame("answer", t))
  /\ UNCHANGED <<sessionVars, serverVars, s2c, clt, mirror, callVars>>

\* Mutant: a turn has no events yet.
ByTurnNone(m, t) == {}

\* EventLog.byTurn, by seq.
ByTurn(m, t) == {m[i].seq : i \in {j \in 1..Len(m) : m[j].turn = t}}

\* The rest of runTurn after the reply: the stream is registered and primed
\* from the mirror, and a completion that came first is applied.
RegisterStream(t) ==
  /\ call[t] = "replied"
  /\ LET c == owner[t] IN
     /\ stream' = [stream EXCEPT ![t] = ByTurn(mirror[c], t)]
     /\ finish' = [finish EXCEPT ![t] = IF t \in completed[c] THEN "complete" ELSE "no"]
     /\ completed' = [completed EXCEPT ![c] = @ \ {t}]
  /\ call' = [call EXCEPT ![t] = "streaming"]
  /\ UNCHANGED <<sessionVars, serverVars, linkVars, clt, mirror, asking>>

\* The consumer has drained a finished stream.
EndStream(t) ==
  /\ call[t] = "streaming" /\ finish[t] # "no"
  /\ call' = [call EXCEPT ![t] = IF finish[t] = "complete" THEN "ended" ELSE "failed"]
  /\ UNCHANGED <<sessionVars, serverVars, linkVars, clt, mirror, stream, finish,
                 completed, asking>>

\* The consumer breaks out of the iteration; the turn goes on at the runner.
LeaveStream(t) ==
  /\ call[t] = "streaming" /\ finish[t] = "no"
  /\ call' = [call EXCEPT ![t] = "left"]
  /\ UNCHANGED <<sessionVars, serverVars, linkVars, clt, mirror, stream, finish,
                 completed, asking>>

\* The caller's signal fires: an abort request is sent, once.
AbortTurn(t) ==
  /\ call[t] = "streaming" /\ ~aborted[t]
  /\ clt[owner[t]] = "attached"
  /\ \A i \in 1..Len(c2s[owner[t]]) : c2s[owner[t]][i] # TurnFrame("abort", t)
  /\ Request(owner[t], TurnFrame("abort", t))
  /\ UNCHANGED <<sessionVars, serverVars, s2c, clientVars>>

\* The link goes down for the client: it leaves, or the runner went away.
\* Frames it has not sent out or not read are lost.  A close event is never
\* handled between a reply and the continuation it resolves.
CloseLink(c) ==
  /\ clt[c] \in {"open", "attached"}
  /\ \A t \in Turns : owner[t] = c => call[t] # "replied"
  /\ clt' = [clt EXCEPT ![c] = "closed"]
  /\ \E n \in 0..Len(c2s[c]) : c2s' = [c2s EXCEPT ![c] = SubSeq(@, 1, n)]
  /\ call' = [t \in Turns |-> IF owner[t] = c /\ call[t] = "called" THEN "failed" ELSE call[t]]
  /\ finish' = [t \in Turns |-> IF owner[t] = c /\ call[t] = "streaming" /\ finish[t] = "no"
                                THEN "disconnected" ELSE finish[t]]
  /\ s2c' = [s2c EXCEPT ![c] = <<>>]
  /\ asking' = [asking EXCEPT ![c] = {}]
  /\ UNCHANGED <<sessionVars, serverVars, mirror, stream, completed>>

\* Mutant: a clear that takes back the newest event only.
ClearMirrorUndo(c) ==
  /\ ClearMirrors /\ clt[c] = "attached" /\ mirror[c] # <<>>
  /\ mirror' = [mirror EXCEPT ![c] = SubSeq(@, 1, Len(@) - 1)]
  /\ UNCHANGED <<sessionVars, serverVars, linkVars, clt, callVars, asking>>

\* `/new` on an attached client clears the mirror, not the runner's log.
ClearMirror(c) ==
  /\ ClearMirrors /\ clt[c] = "attached" /\ mirror[c] # <<>>
  /\ mirror' = [mirror EXCEPT ![c] = <<>>]
  /\ UNCHANGED <<sessionVars, serverVars, linkVars, clt, callVars, asking>>

-----------------------------------------------------------------------------
HandleFrame(c) ==
  \/ HandleAttach(c) \/ HandleSetResolver(c) \/ HandleRunTurn(c)
  \/ HandleAbort(c) \/ HandleAnswer(c)

ReceiveFrame(c) ==
  \/ ReceiveAttached(c) \/ ReceiveEvent(c) \/ ReceiveTurnId(c)
  \/ ReceiveComplete(c) \/ ReceiveAsk(c)

TurnStep(t) ==
  \/ StartLocalTurn(t) \/ Emit(t) \/ AskPermission(t) \/ CompleteTurn(t)

CallStep(t) ==
  \/ RegisterStream(t) \/ EndStream(t) \/ LeaveStream(t) \/ AbortTurn(t)

Next ==
  \/ \E c \in Clients : \/ HandleFrame(c) \/ ReceiveFrame(c) \/ OnDisconnect(c)
                        \/ Connect(c) \/ SetPermissionResolver(c)
                        \/ CloseLink(c) \/ ClearMirror(c)
  \/ \E c \in Clients, t \in Turns : RunTurn(c, t) \/ Answer(c, t)
  \/ \E t \in Turns : TurnStep(t) \/ CallStep(t)
  \/ \E e \in fanout : FanOut(e)
  \/ Close

Spec == Init /\ [][Next]_vars

(***************************************************************************)
(* Fairness.  The event loops of both processes run what is ready: frames, *)
(* continuations, close events.  A hook ends (lifecycle.ts gives it 5s),   *)
(* and a mode's run ends once nothing it waits for is outstanding.  Users  *)
(* owe nothing: no one has to answer, abort, leave or connect.             *)
(***************************************************************************)
Fairness ==
  /\ \A c \in Clients :
       /\ WF_vars(HandleFrame(c)) /\ WF_vars(ReceiveFrame(c)) /\ WF_vars(OnDisconnect(c))
       /\ WF_vars(srv[c] = "ending" /\ CloseLink(c))
  /\ \A t \in Turns :
       WF_vars(CompleteTurn(t)) /\ WF_vars(RegisterStream(t)) /\ WF_vars(EndStream(t))
  /\ WF_vars(\E e \in fanout : FanOut(e))

FairSpec == Spec /\ Fairness

-----------------------------------------------------------------------------
(* Properties of the mirrors.                                              *)

\* A mirror never shows anything but a beginning of the runner's log: the
\* replay, the broadcasts and `ingest` together lose or reorder nothing in
\* the middle, whatever the hooks delay and whenever a view is cleared.
MirrorIsPrefix ==
  \A c \in Clients :
    /\ Len(mirror[c]) <= Len(log)
    /\ \A i \in 1..Len(mirror[c]) : mirror[c][i] = log[i]

\* Each mirror is a reader's copy of the shared log: with all its queues,
\* hooks and replays the runner does nothing to log and mirrors that the
\* abstract specification does not do.
Shared == INSTANCE SharedLog WITH Readers <- Clients, Writers <- Turns

ImplementsSharedLog == Shared!Spec

\* "A gap can't happen over the reliable in-order transport"
\* (core/src/events/log.ts:86): no event is ever refused as a gap.
NoGap ==
  \A c \in Clients : Receiving(c, "event") => Head(s2c[c]).event.seq <= Len(mirror[c])

\* A client that has caught up with its link has the whole log: an event
\* appended around the attach is neither missed by the replay nor refused.
CaughtUp ==
  \A c \in Clients :
    srv[c] = "attached" /\ clt[c] = "attached" /\ s2c[c] = <<>> /\ fanout = {}
      => mirror[c] = log

-----------------------------------------------------------------------------
(* Properties of the turns' streams.                                       *)

SeqsInLog(t) == {log[i].seq : i \in {j \in 1..Len(log) : log[j].turn = t}}

\* A stream that ended normally yielded every event of its turn, also when
\* events or the completion overtook the registration of the stream.
EndedStreamIsWhole ==
  \A t \in Turns : call[t] = "ended" => stream[t] = SeqsInLog(t)

\* A stream yields the events of its own turn, in log order: what is pushed
\* later has a higher seq than all that was pushed before.
StreamInOrder ==
  [][\A t \in Turns : call[t] = "streaming" =>
       \A n \in stream'[t] \ stream[t] :
         n \in SeqsInLog(t) /\ \A k \in stream[t] : k < n]_vars

-----------------------------------------------------------------------------
(* Properties of a turn and its owner.                                     *)

\* A turn whose client is gone has been told to stop.
OrphanIsAborted ==
  \A t \in Turns :
    turn[t] = "running" /\ owner[t] \in Clients /\ srv[owner[t]] = "closed" => aborted[t]

\* A pending question is somewhere: on its way to the owner, before its user,
\* on its way back, or about to be rejected by the close of the connection.
\* It is with no one but the owner.
AskNotLost ==
  \A t \in Turns : ask[t] = "pending" =>
    LET c == owner[t]
        carries(q) == \E i \in 1..Len(q) : q[i].kind \in {"ask", "answer"} /\ q[i].turn = t IN
    /\ turn[t] = "running"
    /\ c \in Clients /\ srv[c] # "closed"
    /\ \/ carries(s2c[c]) \/ t \in asking[c] \/ carries(c2s[c])
       \/ clt[c] = "closed" \/ srv[c] = "ending"
    /\ \A d \in Clients \ {c} : ~carries(s2c[d]) /\ t \notin asking[d] /\ ~carries(c2s[d])

\* "a permission prompt raised deep inside a strategy is delivered back to
\* exactly the client that asked for the turn" (runner/src/server.ts:66-67),
\* only turns outside any scope fall through to the host's resolver.
ScopedAskNeverFallsBack ==
  \A t \in Turns :
    ask[t] = "fallback" => owner[t] = Local \/ ~handles[owner[t]]

-----------------------------------------------------------------------------
(* Liveness.                                                               *)

\* The turns of a client that went away end, even when one waits for an
\* answer of that client's user.
OrphanEnds ==
  \A t \in Turns :
    (turn[t] = "running" /\ owner[t] \in Clients /\ clt[owner[t]] = "closed")
      ~> turn[t] = "done"

\* A runTurn call comes to an end, unless a user leaves a question open.
CallEnds ==
  \A t \in Turns :
    call[t] \in {"called", "replied", "streaming"}
      ~> call[t] \in {"ended", "left", "failed"} \/ ask[t] = "pending"

\* Every event reaches every attached mirror that has begun to fill, unless its
\* connection ends or its user clears it: no hook, attach or turn in between
\* makes the broadcast leave out what follows.
EventReachesMirrors ==
  \A c \in Clients, n \in 1..MaxEvents :
    (Len(log) >= n /\ srv[c] = "attached" /\ mirror[c] # <<>>)
      ~> (Len(mirror[c]) >= n \/ mirror[c] = <<>> \/ clt[c] = "closed" \/ stopped)
=============================================================================
