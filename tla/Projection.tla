------------------------------ MODULE Projection ------------------------------
(***************************************************************************)
(* From a session's event log to the messages of a provider request        *)
(* (packages/sdk/src/mode-helpers.ts, projectMessages), and the range of   *)
(* events a compaction replaces by a summary                               *)
(* (packages/compactor-summarize/src/index.ts).                            *)
(*                                                                         *)
(* An event has a kind and a turn; those of a tool call have its call, a   *)
(* compaction has the positions from..to it replaces, and the turn of the  *)
(* last of them, not that of the turn it was made in.  A position in the   *)
(* log is a seq.                                                           *)
(***************************************************************************)
EXTENDS Naturals, FiniteSets, SequencesExt

CONSTANT KeepRecent   \* keepRecentTurns: turns a compaction leaves alone

ASSUME KeepRecentAssumption == KeepRecent \in Nat

-----------------------------------------------------------------------------
(* The compactor.                                                          *)

Compactions(l) == {i \in 1..Len(l) : l[i].kind = "compaction"}

\* Mutant: every compaction starts over.
FirstFreshEver(l) == 1

\* Where the next compaction starts: after all that is replaced already.
FirstFresh(l) == 1 + Max({0} \cup {l[i].to : i \in Compactions(l)})

\* The first event of each turn from there on, in order.  A compaction in that
\* stretch counts for the turn it has, which ended before.
TurnStarts(l) ==
  {i \in FirstFresh(l)..Len(l) : \A j \in FirstFresh(l)..(i - 1) : l[j].turn # l[i].turn}

\* The newest turn that is older than the KeepRecent newest ones.
Through(l) ==
  {l[i].turn : i \in {k \in TurnStarts(l) : Cardinality({j \in TurnStarts(l) : j > k}) = KeepRecent}}

Described == {"prompt", "say", "request", "result"}

\* Up to the last event of that turn, whatever lies between; 0 if there is no
\* such turn or nothing to tell of it.
LastReplaced(l) ==
  LET last == Max({0} \cup {i \in FirstFresh(l)..Len(l) : l[i].turn \in Through(l)}) IN
  IF \E i \in FirstFresh(l)..last : l[i].kind \in Described THEN last ELSE 0

Summarized(l) == [kind |-> "compaction", turn |-> l[LastReplaced(l)].turn,
                  from |-> FirstFresh(l), to |-> LastReplaced(l)]

-----------------------------------------------------------------------------
(* The messages.                                                           *)

UserMessage(t) == [role |-> "user", turn |-> t]
Summary == [role |-> "summary"]
Text == [role |-> "text"]
ToolUses(calls) == [role |-> "uses", calls |-> calls]
ToolResult(c) == [role |-> "result", call |-> c]

\* Calls with a result somewhere in the log, or a denial.
resolvedCallIds(l) == {l[i].call : i \in {j \in 1..Len(l) : l[j].kind \in {"result", "denied"}}}

\* Mutant: no result is made up for a call that has none.
FlushBare(st, resolved) ==
  IF st.pending = <<>> THEN st
  ELSE [st EXCEPT !.messages = Append(@, ToolUses(st.pending)), !.pending = <<>>]

\* A made-up result for each of the calls that never got one, in their order.
MadeUp(calls, resolved) ==
  LET upTo[n \in 0..Len(calls)] ==
        IF n = 0 THEN <<>>
        ELSE IF calls[n] \in resolved THEN upTo[n - 1]
        ELSE Append(upTo[n - 1], ToolResult(calls[n]))
  IN  upTo[Len(calls)]

\* Pending calls become one message, followed by the results made up for them.
Flush(st, resolved) ==
  IF st.pending = <<>> THEN st
  ELSE [st EXCEPT !.messages = @ \o <<ToolUses(st.pending)>> \o MadeUp(st.pending, resolved),
                  !.pending = <<>>]

Say(st, resolved, message) ==
  LET flushed == Flush(st, resolved) IN [flushed EXCEPT !.messages = Append(@, message)]

\* The compactions that replace position i.
Covering(l, i) == {k \in Compactions(l) : l[k].from <= i /\ i <= l[k].to}

Take(l, st, i) ==
  LET e == l[i]
      resolved == resolvedCallIds(l) IN
  CASE Covering(l, i) # {} ->
         LET k == Min(Covering(l, i)) IN
         IF k \in st.told THEN st
         ELSE [Say(st, resolved, Summary) EXCEPT !.told = @ \cup {k}]
    [] OTHER ->
         CASE e.kind = "prompt"  -> Say(st, resolved, UserMessage(e.turn))
           [] e.kind = "say"     -> Say(st, resolved, Text)
           [] e.kind = "result"  -> Say(st, resolved, ToolResult(e.call))
           [] e.kind = "request" -> [st EXCEPT !.pending = Append(@, e.call)]
           [] OTHER -> st

\* The state after each number of events.
Taken(l) ==
  LET upTo[i \in 0..Len(l)] ==
        IF i = 0 THEN [messages |-> <<>>, pending |-> <<>>, told |-> {}]
        ELSE Take(l, upTo[i - 1], i)
  IN  upTo

projectMessages(l) == Flush(Taken(l)[Len(l)], resolvedCallIds(l)).messages

-----------------------------------------------------------------------------
(* What a provider accepts.                                                *)

\* "assistant message with 'tool_calls' must be followed by tool messages
\* responding to each 'tool_call_id'" (mode-helpers.ts:185): each message of
\* tool uses is followed at once by one result for each of its calls, and no
\* result stands anywhere else.
Answers(m, i) == {j \in (i + 1)..Len(m) :
                    \A k \in (i + 1)..j : m[k].role = "result" /\ m[k].call \in ToSet(m[i].calls)}

WellFormed(m) ==
  /\ \A i \in 1..Len(m) : m[i].role = "uses" =>
       \A c \in ToSet(m[i].calls) : \E j \in Answers(m, i) : m[j].call = c
  /\ \A j \in 1..Len(m) : m[j].role = "result" =>
       \E i \in 1..(j - 1) : m[i].role = "uses" /\ j \in Answers(m, i)
=============================================================================
