------------------------------- MODULE ToolTurn -------------------------------
(***************************************************************************)
(* Turns of the default mode, a model and its tools taking turns           *)
(* (packages/mode-tool-use/src/turn-iterator.ts), with the life of a tool  *)
(* call (packages/sdk/src/tool-dispatch.ts), the compaction of the log     *)
(* before a request and after one that was too long                        *)
(* (packages/sdk/src/compactor-helpers.ts), and the guard against a model  *)
(* that repeats itself (createStuckLoopDetector in mode-helpers.ts).       *)
(*                                                                         *)
(* The turns share the log of their session.  Between any two awaits of a  *)
(* turn another may append, its signal may fire, or the process may die.   *)
(* The provider, the hooks, the resolver and the tools answer what they    *)
(* like; the provider gives every call an id of its own.                   *)
(***************************************************************************)
EXTENDS Projection

CONSTANTS
  Turns,           \* turn ids
  Inputs,          \* what a tool may be called with
  MaxIterations,   \* ctx.maxIterations
  MaxBatch,        \* bound: the calls of one response
  WindowSize,      \* of the guard: the calls it remembers
  RepeatThreshold, \* of the guard: so many equal calls are too many
  Concurrent,      \* TRUE: a turn may start while another runs
  Speaks,          \* TRUE: a response may have both a text and calls
  Compacts,        \* TRUE: the log may become too long for the model
  Crashes          \* TRUE: the process may die and the session be resumed

ASSUME ToolTurnAssumption ==
  /\ MaxIterations \in Nat /\ MaxBatch \in Nat
  /\ {WindowSize, RepeatThreshold} \subseteq Nat \ {0}
  /\ {Concurrent, Speaks, Compacts, Crashes} \subseteq BOOLEAN

MaxReactiveCompactions == 2

\* A call: the turn, the iteration and the place in its response.
Calls == Turns \X (1..MaxIterations) \X (1..MaxBatch)

Note(kind, t) == [kind |-> kind, turn |-> t]
CallNote(kind, c) == [kind |-> kind, turn |-> c[1], call |-> c]

Event == [kind : {"prompt", "say", "abort", "fatal", "retryable"}, turn : Turns]
         \cup {CallNote(kind, c) : kind \in {"request", "denied", "result"}, c \in Calls}
         \cup [kind : {"compaction"}, turn : Turns, from : Nat, to : Nat]

-----------------------------------------------------------------------------
VARIABLES
  log,       \* the session's events
  pc,        \* pc[t]: where runToolUseMode is
  iteration, \* iteration[t]
  overflows, \* reactiveCompactions[t]
  batch,     \* batch[t]: the inputs of the tool uses of the response
  says,      \* says[t]: the response asks for an assistant_message
  next,      \* next[t]: the place in the batch
  recent,    \* recent[t]: the inputs the guard remembers
  snapshot,  \* snapshot[t]: the length of the log the compactor works on
  signal     \* signal[t]: ctx.signal.aborted

batchVars == <<batch, says, next, recent>>
vars == <<log, pc, iteration, overflows, batchVars, snapshot, signal>>

Where == {"idle", "top", "context", "summarize", "request", "streaming", "resummarize",
          "recovered", "failed", "requesting", "stuck", "tools", "checking", "denied",
          "running", "cancelling", "over", "crashed"}

TypeOK ==
  /\ log \in Seq(Event)
  /\ pc \in [Turns -> Where]
  /\ iteration \in [Turns -> 0..MaxIterations]
  /\ overflows \in [Turns -> 0..MaxReactiveCompactions]
  /\ batch \in [Turns -> Seq(Inputs)]
  /\ \A t \in Turns : Len(batch[t]) <= MaxBatch
  /\ says \in [Turns -> BOOLEAN]
  /\ next \in [Turns -> 1..(MaxBatch + 1)]
  /\ recent \in [Turns -> Seq(Inputs)]
  /\ \A t \in Turns : Len(recent[t]) <= WindowSize
  /\ snapshot \in [Turns -> Nat]
  /\ signal \in [Turns -> BOOLEAN]

Init ==
  /\ log = <<>>
  /\ pc = [t \in Turns |-> "idle"]
  /\ iteration = [t \in Turns |-> 0]
  /\ overflows = [t \in Turns |-> 0]
  /\ batch = [t \in Turns |-> <<>>]
  /\ says = [t \in Turns |-> FALSE]
  /\ next = [t \in Turns |-> 1]
  /\ recent = [t \in Turns |-> <<>>]
  /\ snapshot = [t \in Turns |-> 0]
  /\ signal = [t \in Turns |-> FALSE]

-----------------------------------------------------------------------------
Running(t) == pc[t] \notin {"idle", "over", "crashed"}

Goto(t, where) == pc' = [pc EXCEPT ![t] = where]
Emit(event) == log' = Append(log, event)

StartTurn(t) ==
  /\ pc[t] = "idle" /\ (Concurrent \/ \A u \in Turns : ~Running(u))
  /\ Emit(Note("prompt", t))
  /\ Goto(t, "top")
  /\ UNCHANGED <<iteration, overflows, batchVars, snapshot, signal>>

\* Someone aborts the turn.
Abort(t) ==
  /\ Running(t) /\ ~signal[t]
  /\ signal' = [signal EXCEPT ![t] = TRUE]
  /\ UNCHANGED <<log, pc, iteration, overflows, batchVars, snapshot>>

-----------------------------------------------------------------------------
(* An iteration up to the response.                                        *)

GiveUp(t) ==
  /\ pc[t] = "top" /\ iteration[t] = MaxIterations
  /\ Emit(Note("fatal", t))
  /\ Goto(t, "over")
  /\ UNCHANGED <<iteration, overflows, batchVars, snapshot, signal>>

\* Mutant: the turn just returns.
ObeyAbortSilently(t) ==
  /\ pc[t] = "top" /\ iteration[t] < MaxIterations /\ signal[t]
  /\ Goto(t, "over")
  /\ UNCHANGED <<log, iteration, overflows, batchVars, snapshot, signal>>

ObeyAbort(t) ==
  /\ pc[t] = "top" /\ iteration[t] < MaxIterations /\ signal[t]
  /\ Emit(Note("abort", t))
  /\ Goto(t, "over")
  /\ UNCHANGED <<iteration, overflows, batchVars, snapshot, signal>>

Iterate(t) ==
  /\ pc[t] = "top" /\ iteration[t] < MaxIterations /\ ~signal[t]
  /\ iteration' = [iteration EXCEPT ![t] = @ + 1]
  /\ Goto(t, "context")
  /\ UNCHANGED <<log, overflows, batchVars, snapshot, signal>>

\* shouldCompact says no, or there is nothing to compact.
KeepContext(t) ==
  /\ pc[t] = "context"
  /\ Goto(t, "request")
  /\ UNCHANGED <<log, iteration, overflows, batchVars, snapshot, signal>>

Compact(t) ==
  /\ pc[t] = "context" /\ Compacts /\ LastReplaced(log) > 0
  /\ snapshot' = [snapshot EXCEPT ![t] = Len(log)]
  /\ Goto(t, "summarize")
  /\ UNCHANGED <<log, iteration, overflows, batchVars, signal>>

\* What the compactor makes of the log it was given.
CompactionOf(t) == Summarized(SubSeq(log, 1, snapshot[t]))

\* The summary arrives, or the compactor throws.
Summarize(t) ==
  /\ pc[t] = "summarize"
  /\ Emit(CompactionOf(t)) \/ Emit(Note("retryable", t))
  /\ Goto(t, "request")
  /\ UNCHANGED <<iteration, overflows, batchVars, snapshot, signal>>

\* The messages are made from the log as it is now.
Request(t) ==
  /\ pc[t] = "request"
  /\ Goto(t, "streaming")
  /\ UNCHANGED <<log, iteration, overflows, batchVars, snapshot, signal>>

-----------------------------------------------------------------------------
(* The response.                                                           *)

Responses == UNION {[1..n -> Inputs] : n \in 0..MaxBatch}

\* A text, an end_turn or the absence of calls ask for an assistant_message.
Respond(t) ==
  /\ pc[t] = "streaming"
  /\ \E uses \in Responses, text \in BOOLEAN :
       /\ text => Speaks
       /\ batch' = [batch EXCEPT ![t] = uses]
       /\ says' = [says EXCEPT ![t] = text \/ uses = <<>>]
  /\ next' = [next EXCEPT ![t] = 1]
  /\ overflows' = [overflows EXCEPT ![t] = 0]
  /\ Goto(t, "requesting")
  /\ UNCHANGED <<log, iteration, recent, snapshot, signal>>

\* An error of the provider is final or followed by another iteration.
Fail(t) ==
  /\ pc[t] \in {"streaming", "failed"}
  /\ \/ Emit(Note("fatal", t)) /\ Goto(t, "over")
     \/ Emit(Note("retryable", t)) /\ Goto(t, "top")
  /\ UNCHANGED <<iteration, overflows, batchVars, snapshot, signal>>

\* The context was too long: a forced compaction, with a budget.
Overflow(t) ==
  /\ pc[t] = "streaming" /\ Compacts /\ overflows[t] < MaxReactiveCompactions
  /\ overflows' = [overflows EXCEPT ![t] = @ + 1]
  /\ snapshot' = [snapshot EXCEPT ![t] = Len(log)]
  /\ Goto(t, IF LastReplaced(log) > 0 THEN "resummarize" ELSE "failed")
  /\ UNCHANGED <<log, iteration, batchVars, signal>>

\* Mutant: a compaction that fails is not counted, the request is sent again.
ResummarizeAgain(t) ==
  /\ pc[t] = "resummarize"
  /\ \/ Emit(CompactionOf(t)) /\ Goto(t, "recovered") /\ UNCHANGED overflows
     \/ /\ Goto(t, "streaming")
        /\ overflows' = [overflows EXCEPT ![t] = @ - 1]
        /\ UNCHANGED log
  /\ UNCHANGED <<iteration, batchVars, snapshot, signal>>

\* A compactor that throws leaves the turn with the provider's error.
Resummarize(t) ==
  /\ pc[t] = "resummarize"
  /\ \/ Emit(CompactionOf(t)) /\ Goto(t, "recovered")
     \/ Emit(Note("retryable", t)) /\ Goto(t, "failed")
  /\ UNCHANGED <<iteration, overflows, batchVars, snapshot, signal>>

Retry(t) ==
  /\ pc[t] = "recovered"
  /\ Emit(Note("retryable", t))
  /\ Goto(t, "top")
  /\ UNCHANGED <<iteration, overflows, batchVars, snapshot, signal>>

-----------------------------------------------------------------------------
(* The requests for tools.                                                 *)

Call(t) == <<t, iteration[t], next[t]>>

Newest(seen) == SubSeq(seen, 1 + Max({0, Len(seen) - WindowSize}), Len(seen))
Equal(t, seen) == Cardinality({i \in 1..Len(seen) : seen[i] = batch[t][next[t]]})

\* Every call is announced; the guard may trip at any of them.
RequestTool(t) ==
  /\ pc[t] = "requesting" /\ next[t] <= Len(batch[t])
  /\ Emit(CallNote("request", Call(t)))
  /\ recent' = [recent EXCEPT ![t] = Newest(Append(@, batch[t][next[t]]))]
  /\ IF Equal(t, recent'[t]) >= RepeatThreshold
     THEN Goto(t, "stuck") /\ UNCHANGED next
     ELSE next' = [next EXCEPT ![t] = @ + 1] /\ UNCHANGED pc
  /\ UNCHANGED <<iteration, overflows, batch, says, snapshot, signal>>

Stuck(t) ==
  /\ pc[t] = "stuck"
  /\ Emit(Note("fatal", t))
  /\ Goto(t, "over")
  /\ UNCHANGED <<iteration, overflows, batchVars, snapshot, signal>>

\* All are announced: the text comes after them, and ends a turn without calls.
Speak(t) ==
  /\ pc[t] = "requesting" /\ next[t] > Len(batch[t])
  /\ IF says[t] THEN Emit(Note("say", t)) ELSE UNCHANGED log
  /\ IF batch[t] = <<>> THEN Goto(t, "over") /\ UNCHANGED next
     ELSE Goto(t, "tools") /\ next' = [next EXCEPT ![t] = 1]
  /\ UNCHANGED <<iteration, overflows, batch, says, recent, snapshot, signal>>

-----------------------------------------------------------------------------
(* The calls, one after the other.                                         *)

Dispatch(t) ==
  /\ pc[t] = "tools"
  /\ Goto(t, IF next[t] > Len(batch[t]) THEN "top"
             ELSE IF signal[t] THEN "cancelling" ELSE "checking")
  /\ UNCHANGED <<log, iteration, overflows, batchVars, snapshot, signal>>

\* The hooks and the resolver let it run, or one of them denies it.
Allow(t) ==
  /\ pc[t] = "checking"
  /\ Goto(t, "running")
  /\ UNCHANGED <<log, iteration, overflows, batchVars, snapshot, signal>>

Deny(t) ==
  /\ pc[t] = "checking"
  /\ Emit(CallNote("denied", Call(t)))
  /\ Goto(t, "denied")
  /\ UNCHANGED <<iteration, overflows, batchVars, snapshot, signal>>

\* Whatever has become of it, the call gets its result: a denial, an output,
\* a failure, or the throw of a resolver before it ran.
Finish(t) ==
  /\ pc[t] \in {"checking", "denied", "running"}
  /\ Emit(CallNote("result", Call(t)))
  /\ next' = [next EXCEPT ![t] = @ + 1]
  /\ Goto(t, "tools")
  /\ UNCHANGED <<iteration, overflows, batch, says, recent, snapshot, signal>>

\* Mutant: the calls that have a result already are not left out.
CancelAll(t) ==
  /\ pc[t] = "cancelling"
  /\ log' = log \o [i \in 1..(Len(batch[t]) + 1) |->
                      IF i <= Len(batch[t]) THEN CallNote("result", <<t, iteration[t], i>>)
                      ELSE Note("abort", t)]
  /\ Goto(t, "over")
  /\ UNCHANGED <<iteration, overflows, batchVars, snapshot, signal>>

\* Mutant: the calls that are left are dropped.
CancelDropping(t) ==
  /\ pc[t] = "cancelling"
  /\ Emit(Note("abort", t))
  /\ Goto(t, "over")
  /\ UNCHANGED <<iteration, overflows, batchVars, snapshot, signal>>

\* The calls that are left get results too, then the abort is told.
Cancel(t) ==
  /\ pc[t] = "cancelling"
  /\ IF next[t] <= Len(batch[t])
     THEN /\ Emit(CallNote("result", Call(t)))
          /\ next' = [next EXCEPT ![t] = @ + 1]
          /\ UNCHANGED pc
     ELSE Emit(Note("abort", t)) /\ Goto(t, "over") /\ UNCHANGED next
  /\ UNCHANGED <<iteration, overflows, batch, says, recent, snapshot, signal>>

\* The process dies; the session is resumed from its log.
Crash ==
  /\ Crashes /\ \E t \in Turns : Running(t)
  /\ pc' = [t \in Turns |-> IF Running(t) THEN "crashed" ELSE pc[t]]
  /\ UNCHANGED <<log, iteration, overflows, batchVars, snapshot, signal>>

-----------------------------------------------------------------------------
TurnStep(t) ==
  \/ GiveUp(t) \/ ObeyAbort(t) \/ Iterate(t)
  \/ KeepContext(t) \/ Compact(t) \/ Summarize(t) \/ Request(t)
  \/ Respond(t) \/ Fail(t) \/ Overflow(t) \/ Resummarize(t) \/ Retry(t)
  \/ RequestTool(t) \/ Stuck(t) \/ Speak(t)
  \/ Dispatch(t) \/ Allow(t) \/ Deny(t) \/ Finish(t) \/ Cancel(t)

Next ==
  \/ \E t \in Turns : StartTurn(t) \/ Abort(t) \/ TurnStep(t)
  \/ Crash

Spec == Init /\ [][Next]_vars

\* The provider, the resolver, the tools and the compactor answer in the end.
FairSpec == Spec /\ \A t \in Turns : WF_vars(TurnStep(t))

-----------------------------------------------------------------------------
(* Properties.                                                             *)

Results(c) == {i \in 1..Len(log) : log[i].kind = "result" /\ log[i].call = c}
Requests(t) == {log[i].call : i \in {j \in 1..Len(log) : log[j].kind = "request" /\ log[j].turn = t}}

\* No call gets a second result, whatever is denied, thrown or cancelled and
\* whoever appends in between, and none gets a result before it was announced.
AnsweredOnce ==
  \A c \in Calls :
    /\ Cardinality(Results(c)) <= 1
    /\ \A i \in Results(c) :
         \E j \in 1..(i - 1) : log[j].kind = "request" /\ log[j].call = c

\* The guard has ended the turn.
Tripped(t) ==
  \E x \in Inputs : Cardinality({i \in 1..Len(recent[t]) : recent[t][i] = x}) >= RepeatThreshold

\* A turn that has come to its end, aborted or not, has answered every call,
\* unless the guard has ended it.
EndedIsAnswered ==
  \A t \in Turns : pc[t] = "over" /\ ~Tripped(t) => \A c \in Requests(t) : Results(c) # {}

\* "the event log can't end with orphan tool_call_requested events"
\* (turn-iterator.ts:213-216): a turn that has come to its end has answered
\* every call.
NoOrphans ==
  \A t \in Turns : pc[t] = "over" => \A c \in Requests(t) : Results(c) # {}

LastOf(t) == Max({0} \cup {i \in 1..Len(log) : log[i].turn = t /\ log[i].kind # "compaction"})

\* The last event of a turn that has come to its end says how it ended.
EndIsTold ==
  \A t \in Turns : pc[t] = "over" => log[LastOf(t)].kind \in {"say", "abort", "fatal"}

\* What is about to be sent to the provider is a conversation it accepts.
RequestIsWellFormed ==
  (\E t \in Turns : pc[t] = "request") => WellFormed(projectMessages(log))

PromptIsSent(t) ==
  \E i \in DOMAIN projectMessages(log) : projectMessages(log)[i] = UserMessage(t)

\* "always keep the last 3 turns verbatim" (compactor-summarize.md:32): a
\* compaction never takes away the prompt the model is working on.
OwnPromptIsSent == \A t \in Turns : pc[t] = "request" => PromptIsSent(t)

\* The compactions that were written since the turn started.
CompactedSince(t) ==
  {k \in Compactions(log) :
     \E p \in 1..(k - 1) : log[p].kind = "prompt" /\ log[p].turn = t}

\* What the code keeps of it: the first KeepRecent compactions of a turn leave
\* its prompt alone.
OwnPromptIsSpared ==
  \A t \in Turns :
    pc[t] = "request" /\ Cardinality(CompactedSince(t)) <= KeepRecent => PromptIsSent(t)

\* No event is summarized twice.
CompactionsAreDisjoint ==
  \A i, j \in Compactions(log) : i < j => log[i].to < log[j].from

\* A turn comes to its end, or dies with its process.
TurnEnds == \A t \in Turns : Running(t) ~> ~Running(t)
=============================================================================
