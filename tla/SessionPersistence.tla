-------------------------- MODULE SessionPersistence --------------------------
(***************************************************************************)
(* A session's life on disk (packages/core/src/sessions/persistence.ts):   *)
(* every event of the log is appended as a line to <id>.jsonl through a    *)
(* mutex, a sidecar <id>.meta.json is rewritten by a debounced timer, and  *)
(* a later process resumes from the lines it can parse                     *)
(* (packages/cli/src/setup/build-session.ts).                              *)
(*                                                                         *)
(* The process may die at any time.  What it has handed to the kernel      *)
(* stays; the line it was writing may be there in part.  The disk may      *)
(* refuse a write to a process that lives on, which swallows the error.    *)
(***************************************************************************)
EXTENDS Naturals, SequencesExt

CONSTANTS
  MaxEvents,   \* bound: events ever appended
  MaxLives,    \* bound: processes that run the session, one after the other
  AsyncHooks,  \* TRUE: a plugin's onEvent hook may suspend a fan-out
  Tear,        \* TRUE: a write that is cut off may leave part of a line
  Fails,       \* TRUE: the disk may refuse a write
  MaxIndex,    \* bound: index writes in flight at once
  Clears       \* TRUE: the user may start over with `/new`

ASSUME PersistenceAssumption ==
  /\ MaxEvents \in Nat /\ MaxLives \in Nat /\ MaxIndex \in Nat
  /\ AsyncHooks \in BOOLEAN /\ Tear \in BOOLEAN /\ Clears \in BOOLEAN /\ Fails \in BOOLEAN

\* An event: its id (the n-th ever appended), its seq, and whether it is a
\* user_prompt.
Event == [id : 1..MaxEvents, seq : Nat, prompt : BOOLEAN]

\* A line of the file: "whole" ends in a newline; "bare" is an event whose
\* newline is missing, "torn" the beginning of one; "garbled" is what became
\* of either when the next line was appended to it.
Line == [event : Event, kind : {"whole", "bare", "torn", "garbled"}]

\* SessionMeta: how many events, and the id of the first prompt (0: none).
Meta == [eventCount : Nat, firstPrompt : 0..MaxEvents]

NoMeta == [eventCount |-> 0, firstPrompt |-> 0]

-----------------------------------------------------------------------------
VARIABLES
  life,     \* "down", "up", or "closing" once the persistence is detached
  lives,    \* processes started so far
  ids,      \* events appended so far
  log,      \* session.log
  fanout,   \* events whose onEvent hooks still run
  queue,    \* lines enqueued on the mutex, the first one being written
  file,     \* <id>.jsonl
  meta,     \* SessionPersistence.meta
  timer,    \* indexUpdateScheduled
  opening,  \* index writes that have yet to look at meta
  flying,   \* the metas of those that have
  sidecar,  \* <id>.meta.json
  lastLog,  \* the log when the last process ended
  ending,   \* how that was: "none", "crash" or "exit"
  failed,   \* history: events of this life whose append failed
  holed,    \* history: some of a line was written after one of its life had failed
  spoilt    \* history: the last index write failed or ran beside another

indexVars == <<timer, opening, flying, spoilt>>
memoryVars == <<log, fanout, queue, meta>>
pastVars == <<lives, ids, lastLog, ending>>
vars == <<life, memoryVars, indexVars, file, sidecar, pastVars, failed, holed>>

TypeOK ==
  /\ life \in {"down", "up", "closing"}
  /\ lives \in 0..MaxLives /\ ids \in 0..MaxEvents
  /\ log \in Seq(Event)
  /\ fanout \in SUBSET Event
  /\ queue \in Seq(Event)
  /\ file \in Seq(Line)
  /\ meta \in Meta /\ sidecar \in Meta
  /\ timer \in BOOLEAN /\ opening \in Nat /\ flying \in Seq(Meta)
  /\ failed \in SUBSET Event
  /\ holed \in BOOLEAN /\ spoilt \in BOOLEAN
  /\ lastLog \in Seq(Event)
  /\ ending \in {"none", "crash", "exit"}

Init ==
  /\ life = "down" /\ lives = 0 /\ ids = 0
  /\ log = <<>> /\ fanout = {} /\ queue = <<>>
  /\ file = <<>>
  /\ meta = NoMeta /\ sidecar = NoMeta
  /\ timer = FALSE /\ opening = 0 /\ flying = <<>>
  /\ failed = {} /\ holed = FALSE /\ spoilt = FALSE
  /\ lastLog = <<>> /\ ending = "none"

-----------------------------------------------------------------------------
(* The file.                                                               *)

Readable(line) == line.kind \in {"whole", "bare"}

\* restoreEvents: the events of the lines that parse, up to the n-th.
RestoredUpTo[n \in 0..Len(file)] ==
  IF n = 0 THEN <<>>
  ELSE IF Readable(file[n]) THEN Append(RestoredUpTo[n - 1], file[n].event)
  ELSE RestoredUpTo[n - 1]

Restored == RestoredUpTo[Len(file)]

\* fs.appendFile of a line, complete or cut: a line without its newline
\* swallows what comes next.
Unterminated(f) == f # <<>> /\ f[Len(f)].kind \in {"bare", "torn"}

AppendLine(f, e, kind) ==
  IF Unterminated(f)
  THEN [f EXCEPT ![Len(f)] = [event |-> e, kind |-> IF kind = "whole" THEN "garbled" ELSE "torn"]]
  ELSE Append(f, [event |-> e, kind |-> kind])

-----------------------------------------------------------------------------
(* The listener.                                                           *)

\* Mutant: a seq that counts what was lost.
NewEventCounted(prompt) == [id |-> ids + 1, seq |-> ids, prompt |-> prompt]

NewEvent(prompt) == [id |-> ids + 1, seq |-> Len(log), prompt |-> prompt]

\* Mutant: a listener that skips what arrives while a write is in flight.
EnqueueUnlessBusy(e) == queue' = IF queue = <<>> THEN <<e>> ELSE queue

\* Each event waits for its turn on the mutex.
Enqueue(e) == queue' = Append(queue, e)

\* Mutant: an event does not schedule the index write.
EnqueueWithoutIndex(e) ==
  IF life = "up"
  THEN /\ Enqueue(e)
       /\ meta' = [meta EXCEPT !.eventCount = @ + 1]
       /\ UNCHANGED timer
  ELSE UNCHANGED <<queue, meta, timer>>

\* The meta of an event is counted at once, the index write is scheduled
\* unless it is already; a detached persistence ignores the event.
EnqueueAppend(e) ==
  IF life = "up"
  THEN /\ Enqueue(e)
       /\ meta' = [eventCount |-> meta.eventCount + 1,
                   firstPrompt |-> IF meta.firstPrompt = 0 /\ e.prompt THEN e.id
                                   ELSE meta.firstPrompt]
       /\ timer' = TRUE
  ELSE UNCHANGED <<queue, meta, timer>>

\* EventLog.append; the persistence was attached last, after the hooks.
AppendEvent(prompt) ==
  /\ life # "down" /\ ids < MaxEvents
  /\ ids' = ids + 1
  /\ log' = Append(log, NewEvent(prompt))
  /\ \/ EnqueueAppend(NewEvent(prompt)) /\ UNCHANGED fanout
     \/ /\ AsyncHooks
        /\ fanout' = fanout \cup {NewEvent(prompt)}
        /\ UNCHANGED <<queue, meta, timer>>
  /\ UNCHANGED <<life, lives, lastLog, ending, opening, flying, spoilt, file, sidecar, failed, holed>>

HookEnds(e) ==
  /\ e \in fanout
  /\ fanout' = fanout \ {e}
  /\ EnqueueAppend(e)
  /\ UNCHANGED <<life, log, opening, flying, spoilt, file, sidecar, pastVars, failed, holed>>

\* `/new`: the log is emptied, the disk is not.
Clear ==
  /\ Clears /\ life = "up" /\ log # <<>>
  /\ log' = <<>>
  /\ UNCHANGED <<life, fanout, queue, meta, indexVars, file, sidecar, pastVars, failed, holed>>

-----------------------------------------------------------------------------
(* The writes: each may be refused, and no one hears of it.                *)

\* The line at the head of the mutex is written whole.
WriteHead(line) ==
  /\ file' = AppendLine(file, line, "whole")
  /\ holed' = (holed \/ failed # {})
  /\ UNCHANGED <<life, log, fanout, meta, indexVars, sidecar, pastVars, failed>>

\* Mutant: the writes race instead of waiting for each other.
WriteAny ==
  \E i \in 1..Len(queue) :
    /\ WriteHead(queue[i])
    /\ queue' = RemoveAt(queue, i)

WriteLine ==
  /\ queue # <<>>
  /\ WriteHead(Head(queue))
  /\ queue' = Tail(queue)

\* What is there of a line whose write was cut off, the file before being f.
Cut(line) ==
  \/ UNCHANGED file
  \/ /\ Tear
     /\ \E kind \in {"bare", "torn"} : file' = AppendLine(file, line, kind)

\* appendFile rejects: `.catch(() => undefined)`, and the mutex goes on.
FailLine ==
  /\ Fails /\ queue # <<>>
  /\ Cut(Head(queue))
  /\ queue' = Tail(queue)
  /\ failed' = failed \cup {Head(queue)}
  /\ holed' = (holed \/ (failed # {} /\ file' # file))
  /\ UNCHANGED <<life, log, fanout, meta, indexVars, sidecar, pastVars>>

indexFrame == <<life, memoryVars, file, pastVars, failed, holed>>

\* The debounce timer fires: writeIndex waits for the directory and the log.
IndexFires ==
  /\ life # "down" /\ timer /\ opening + Len(flying) < MaxIndex
  /\ timer' = FALSE
  /\ opening' = opening + 1
  /\ spoilt' = (opening + Len(flying) > 0)
  /\ UNCHANGED <<indexFrame, flying, sidecar>>

\* Then it takes the meta as it is now and writes it beside the sidecar ...
IndexReads ==
  /\ opening > 0
  /\ opening' = opening - 1
  /\ flying' = Append(flying, meta)
  /\ UNCHANGED <<indexFrame, timer, spoilt, sidecar>>

\* ... which it replaces by a rename.  One write may overtake another.
IndexLands(i) ==
  /\ sidecar' = flying[i]
  /\ flying' = RemoveAt(flying, i)
  /\ UNCHANGED <<indexFrame, timer, opening, spoilt>>

\* Any of it fails, and is caught.
IndexFails ==
  /\ Fails
  /\ spoilt' = TRUE
  /\ \/ /\ opening > 0
        /\ opening' = opening - 1
        /\ UNCHANGED flying
     \/ /\ \E i \in 1..Len(flying) : flying' = RemoveAt(flying, i)
        /\ UNCHANGED opening
  /\ UNCHANGED <<indexFrame, timer, sidecar>>

-----------------------------------------------------------------------------
(* Processes.                                                              *)

\* A process opens the session, new or resumed: the log is seeded with what
\* restoreEvents returns, the meta starts from nothing.  A first index write
\* is scheduled if the directory and the log can be opened.
Start ==
  /\ life = "down" /\ lives < MaxLives
  /\ life' = "up" /\ lives' = lives + 1
  /\ log' = Restored
  /\ meta' = NoMeta
  /\ timer' \in {TRUE, ~Fails} /\ spoilt' = ~timer'
  /\ UNCHANGED <<fanout, queue, opening, flying, file, sidecar, ids, lastLog, ending, failed, holed>>

\* onShutdown: the listener is gone, a last index write is scheduled.
Detach ==
  /\ life = "up"
  /\ life' = "closing"
  /\ timer' = TRUE
  /\ UNCHANGED <<memoryVars, opening, flying, spoilt, file, sidecar, pastVars, failed, holed>>

Gone(how) ==
  /\ life' = "down"
  /\ ending' = how /\ lastLog' = log
  /\ log' = <<>> /\ fanout' = {} /\ queue' = <<>> /\ meta' = NoMeta
  /\ timer' = FALSE /\ opening' = 0 /\ flying' = <<>> /\ spoilt' = FALSE
  /\ failed' = {}
  /\ UNCHANGED <<lives, ids, sidecar>>

\* The event loop has nothing left that keeps it alive: the writes are done,
\* the unref'ed timer does not count.
Exit ==
  /\ life = "closing" /\ queue = <<>> /\ fanout = {} /\ opening = 0 /\ flying = <<>>
  /\ Gone("exit")
  /\ UNCHANGED <<file, holed>>

\* The process dies, also while it writes.
Crash ==
  /\ life # "down"
  /\ Gone("crash")
  /\ IF queue = <<>> THEN UNCHANGED file ELSE Cut(Head(queue))
  /\ holed' = (holed \/ (failed # {} /\ file' # file))

Next ==
  \/ \E prompt \in BOOLEAN : AppendEvent(prompt)
  \/ \E e \in fanout : HookEnds(e)
  \/ WriteLine \/ FailLine \/ Clear
  \/ IndexFires \/ IndexReads \/ IndexFails
  \/ \E i \in 1..Len(flying) : IndexLands(i)
  \/ Start \/ Detach \/ Exit \/ Crash

Spec == Init /\ [][Next]_vars

\* The disk answers, if only by refusing, hooks end, a timer fires while its
\* process lives.  No one owes an event, a start or an end.
Fairness ==
  /\ WF_vars(WriteLine \/ FailLine)
  /\ WF_vars(IndexFires)
  /\ WF_vars(IndexReads \/ (\E i \in 1..Len(flying) : IndexLands(i)) \/ IndexFails)
  /\ WF_vars(\E e \in fanout : HookEnds(e))

FairSpec == Spec /\ Fairness

-----------------------------------------------------------------------------
(* Properties.                                                             *)

\* "the file stays append-ordered even when events arrive faster than the
\* disk can flush" (persistence.ts:64-66): what can be read back is in the
\* order it was appended in, nothing twice, over all lives of the session.
LinesInOrder ==
  \A i, j \in 1..Len(file) :
    i < j /\ Readable(file[i]) /\ Readable(file[j]) => file[i].event.id < file[j].event.id

\* As long as every line ends in its newline, an event of the log that is
\* neither on disk nor on its way is one whose append was refused: nothing
\* else loses an event, and a restart has brought back nothing that a next one
\* will lose.
LogIsSafe ==
  (life = "up" /\ \A i \in 1..Len(file) : file[i].kind = "whole") =>
    \A i \in 1..Len(log) :
      \/ \E j \in 1..Len(file) : file[j].event = log[i]
      \/ \E j \in 1..Len(queue) : queue[j] = log[i]
      \/ log[i] \in fanout \cup failed

\* EventLog.ingest over a replay of l: a client that attaches reads on only
\* while each seq is the number of events it has.
Mirrored(l) == \A i \in 1..Len(l) : l[i].seq = i - 1

\* "a single corrupted append shouldn't make the rest of the conversation
\* unreadable" (persistence.ts:238-239): an attached client can read the whole
\* of a resumed session.
ResumedIsReadable == life = "up" => Mirrored(log)

\* That is so as long as no line was appended to one that had been cut, and
\* nothing was written in a life after an append of that life was refused: the
\* seqs start again where the readable lines end, so what a crash has lost, or
\* all that was refused from some event on, leaves no hole in them.
ReadableUnlessGarbled ==
  (~holed /\ \A i \in 1..Len(file) : file[i].kind # "garbled") => ResumedIsReadable

\* "lose at most the last in-flight event on a crash" (persistence.ts:16).
CrashLosesAtMostOne ==
  life = "down" /\ ending = "crash" /\ lives = 1 => Len(Restored) + 1 >= Len(lastLog)

\* "First 80 chars of the first user_prompt. Used as the picker label."
\* (persistence.ts:31), of the session as its file has it.
LabelIsFirstPrompt ==
  sidecar.firstPrompt # 0 =>
    \A i \in 1..Len(Restored) : Restored[i].prompt => sidecar.firstPrompt <= Restored[i].id

\* "Flush a final index write so lastActivity reflects the close time"
\* (persistence.ts:105-106): after a clean exit the sidecar is the last meta.
\* The meta of a first life counts all its events.
FinalIndexWritten ==
  life = "down" /\ ending = "exit" /\ lives = 1 => sidecar.eventCount = Len(Restored)

\* "keeps the index in sync" (persistence.ts:53-54): the sidecar comes to
\* what the process knows.
IndexInSync == []<>(life = "down" \/ sidecar = meta)

\* A living process gets rid of its queue, whatever the disk refuses, and its
\* sidecar gets to what it knows, unless the last index write failed or ran
\* beside an older one, which may replace it.
DiskCatchesUp ==
  []<>(life = "down" \/ (queue = <<>> /\ fanout = {} /\ (sidecar = meta \/ spoilt)))
=============================================================================
