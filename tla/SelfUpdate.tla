----------------------------- MODULE SelfUpdate -----------------------------
(***************************************************************************)
(* plugin-self-update, first tier: the transactions around a change to one *)
(* plugin of the user (transaction.ts and the handlers of index.ts), and   *)
(* of the plugin host what they call.  A directory is a version number; a  *)
(* copy of one takes two steps, and a crash between them leaves a part.    *)
(* One session calls, one tool at a time; between its calls it edits.      *)
(***************************************************************************)
EXTENDS Integers, FiniteSets

CONSTANTS
  MaxTxns,    \* bound on the transactions, for TLC
  MaxEdits,   \* bound on the edits, for TLC
  MaxCalls,   \* bound on the calls of verify, apply and rollback, for TLC
  MaxCrashes, \* bound on the crashes and on what the disk refuses, for TLC
  Keep        \* ended transactions that are kept

SelfUpdateAssumption == {MaxTxns, MaxEdits, MaxCalls, MaxCrashes, Keep} \subseteq Nat

MAX_FAILED_ATTEMPTS == 2

Txns == 1..MaxTxns  \* in the order of their making
None == 0
Part == -1
Versions == 1..(MaxEdits + 1)

VARIABLES
  broken,   \* the versions that the host cannot load
  named,    \* whether the directory has the name of the package
  target,   \* the plugin's directory
  loaded,   \* the version the host has loaded, None if none
  skipped,  \* whether the host lists the package as one it failed to load
  before,   \* per transaction: the copy in its directory
  journal,  \* per transaction: journal.json, NoJournal if there is none
  call,     \* the call under way: where it is, of which transaction, its journal
  made, edits, calls, crashes,
  opened,   \* history, per transaction: the target when it was begun
  ended     \* history: the transactions that ever ended

given == <<broken, named>>
host == <<loaded, skipped>>
history == <<opened, ended>>
counters == <<made, edits, calls, crashes>>
vars == <<given, target, host, before, journal, call, counters, history>>

NoJournal == [state |-> "missing", fails |-> 0, existed |-> FALSE]
Idle == [at |-> "idle", tool |-> "none", txn |-> 0, j |-> NoJournal]
EndStates == {"committed", "rolled_back", "escalated"}

At(where) == call.at = where
To(where) == call' = [call EXCEPT !.at = where]
GoOn(where, j) == call' = [call EXCEPT !.at = where, !.j = j]

-----------------------------------------------------------------------------
\* PluginHost.reload: what is gone is unloaded, what is not loaded is tried.
\* unload goes by the package's name, the handlers give it the directory's.
reload(unloads) ==
  LET there == target \notin {None, Part}
      stays == there /\ loaded # None /\ ~(unloads /\ named)
      loads == there /\ target \notin broken
  IN  /\ loaded' = IF stays THEN loaded ELSE IF loads THEN target ELSE None
      /\ skipped' = IF stays \/ ~there THEN skipped ELSE ~loads

\* beginTransaction: the copy first, the journal when it is complete.
Begin ==
  /\ At("idle") /\ made < MaxTxns
  /\ made' = made + 1
  /\ opened' = [opened EXCEPT ![made + 1] = target]
  /\ before' = [before EXCEPT ![made + 1] = IF target = None THEN None ELSE Part]
  /\ call' = [at |-> "copy", tool |-> "begin", txn |-> made + 1,
              j |-> [state |-> "open", fails |-> 0, existed |-> target # None]]
  /\ UNCHANGED <<given, target, host, journal, edits, calls, crashes, ended>>

CopyEnds ==
  /\ At("copy")
  /\ before' = [before EXCEPT ![call.txn] = target]
  /\ To("write")
  /\ UNCHANGED <<given, target, host, journal, counters, history>>

\* writeJournal, atomically: the end of begin, verify and rollback.
Write ==
  /\ At("write")
  /\ journal' = [journal EXCEPT ![call.txn] = call.j]
  /\ ended' = ended \cup {t \in Txns : journal'[t].state \in EndStates}
  /\ call' = Idle
  /\ UNCHANGED <<given, target, host, before, counters, opened>>

\* The edits between the calls: a new version, or the directory removed.
Edit ==
  /\ At("idle") /\ edits < MaxEdits
  /\ edits' = edits + 1
  /\ target' \in {edits + 2, None}
  /\ UNCHANGED <<given, host, before, journal, call, made, calls, crashes, history>>

\* What verify, apply and rollback begin with; readJournal throws if there is
\* no journal.
Call(t, tool) ==
  /\ At("idle") /\ calls < MaxCalls /\ journal[t] # NoJournal
  /\ calls' = calls + 1
  /\ call' = [at |-> tool, tool |-> tool, txn |-> t, j |-> journal[t]]
  /\ UNCHANGED <<given, target, host, before, journal, made, edits, crashes, history>>

-----------------------------------------------------------------------------
\* escalate: the target is restored, unless it was and is said to be.
Escalate(j) ==
  GoOn(IF j.existed /\ j.state = "rolled_back" THEN "write" ELSE "remove",
       [j EXCEPT !.state = "escalated"])

\* Mutant: only escalate restores, and it takes "rolled_back" for restored.
FailedOnce(j) ==
  IF j.fails >= MAX_FAILED_ATTEMPTS THEN Escalate(j)
  ELSE GoOn(IF j.existed THEN "remove" ELSE "write", j)

\* A target that was there before is restored at once, and once more with the
\* second failure; a new one stays until then.
Failed(j) ==
  IF j.existed THEN GoOn("remove", j)
  ELSE IF j.fails >= MAX_FAILED_ATTEMPTS THEN Escalate(j)
  ELSE GoOn("write", j)

FailVerify == Failed([call.j EXCEPT !.fails = @ + 1])

TooOften == call.j.fails >= MAX_FAILED_ATTEMPTS

verifyRefuses ==
  /\ At("verify") /\ TooOften
  /\ Escalate(call.j)
  /\ UNCHANGED <<given, target, host, before, journal, counters, history>>

BuildFails ==
  /\ At("verify") /\ ~TooOften
  /\ FailVerify
  /\ UNCHANGED <<given, target, host, before, journal, counters, history>>

Load ==
  /\ At("verify") /\ ~TooOften
  /\ reload(TRUE)
  /\ To("loaded")
  /\ UNCHANGED <<given, target, before, journal, counters, history>>

\* Listed as skipped, or new and nothing is registered.
LoadFailed == skipped \/ (~call.j.existed /\ loaded = None)

LoadFails ==
  /\ At("loaded") /\ LoadFailed
  /\ FailVerify
  /\ UNCHANGED <<given, target, host, before, journal, counters, history>>

Verified ==
  /\ At("loaded") /\ ~LoadFailed
  /\ GoOn("write", [call.j EXCEPT !.state = "verified"])
  /\ UNCHANGED <<given, target, host, before, journal, counters, history>>

-----------------------------------------------------------------------------
Rollback ==
  /\ At("rollback")
  /\ GoOn("remove", [call.j EXCEPT !.state = "rolled_back"])
  /\ UNCHANGED <<given, target, host, before, journal, counters, history>>

\* restoreSnapshot: the target goes, then the copy is copied back; cp throws
\* if there is none, and the call ends without its journal.
Remove ==
  /\ At("remove")
  /\ target' = None
  /\ To(IF call.j.existed THEN "paste" ELSE "reload")
  /\ UNCHANGED <<given, host, before, journal, counters, history>>

Paste ==
  /\ At("paste")
  /\ IF before[call.txn] = None
     THEN call' = Idle /\ UNCHANGED target
     ELSE To("pasted") /\ target' = Part
  /\ UNCHANGED <<given, host, before, journal, counters, history>>

Pasted ==
  /\ At("pasted")
  /\ target' = before[call.txn]
  /\ To("reload")
  /\ UNCHANGED <<given, host, before, journal, counters, history>>

\* unload and reload; when it gives up on a new plugin verify only reloads.
Reload ==
  /\ At("reload")
  /\ reload(call.j.existed \/ call.j.state # "escalated")
  /\ IF call.tool = "verify" /\ TooOften /\ call.j.state # "escalated"
     THEN Escalate(call.j)
     ELSE To("write")
  /\ UNCHANGED <<given, target, before, journal, counters, history>>

\* apply throws unless the journal says "verified".
Apply ==
  /\ At("apply")
  /\ IF call.j.state = "verified"
     THEN /\ journal' = [journal EXCEPT ![call.txn] = [call.j EXCEPT !.state = "committed"]]
          /\ To("gc")
     ELSE call' = Idle /\ UNCHANGED journal
  /\ ended' = ended \cup {t \in Txns : journal'[t].state \in EndStates}
  /\ UNCHANGED <<given, target, host, before, counters, opened>>

\* Mutant: every transaction is taken for one that has ended.
GarbageOfAll ==
  {t \in Txns : /\ journal[t] # NoJournal
                /\ Cardinality({u \in Txns : u > t /\ journal[u] # NoJournal}) >= Keep}

\* gcTransactions removes the directories of all that have ended but the
\* newest: in one of them the copy and the journal go in any order.
Garbage ==
  {t \in Txns : /\ journal[t].state \in EndStates
                /\ Cardinality({u \in Txns : u > t /\ journal[u].state \in EndStates}) >= Keep}

Collect(t) ==
  /\ At("gc") /\ t \in Garbage
  /\ \/ before' = [before EXCEPT ![t] = None] /\ before[t] # None /\ UNCHANGED journal
     \/ journal' = [journal EXCEPT ![t] = NoJournal] /\ UNCHANGED before
  /\ UNCHANGED <<given, target, host, call, counters, history>>

Collected ==
  /\ At("gc") /\ Garbage = {}
  /\ call' = Idle
  /\ UNCHANGED <<given, target, host, before, journal, counters, history>>

\* The disk refuses a copy, a removal (done in part, maybe) or a journal: the
\* call throws.
DiskFails ==
  /\ call.at \in {"copy", "write", "remove", "paste", "pasted", "apply", "gc"} /\ crashes < MaxCrashes
  /\ crashes' = crashes + 1
  /\ \/ UNCHANGED target
     \/ At("remove") /\ target # None /\ target' = Part
  /\ call' = Idle
  /\ UNCHANGED <<given, host, before, journal, made, edits, calls, history>>

\* The process dies and comes back; its host loads what it finds.
Crash ==
  /\ crashes < MaxCrashes
  /\ crashes' = crashes + 1
  /\ loaded' = IF target \in {None, Part} \cup broken THEN None ELSE target
  /\ skipped' = (target \in broken)
  /\ call' = Idle
  /\ UNCHANGED <<given, target, before, journal, made, edits, calls, history>>

-----------------------------------------------------------------------------
Init ==
  /\ broken \in SUBSET (Versions \ {1}) /\ named \in BOOLEAN
  /\ target \in {None, 1} /\ loaded = target /\ skipped = FALSE
  /\ before = [t \in Txns |-> None]
  /\ journal = [t \in Txns |-> NoJournal]
  /\ call = Idle
  /\ made = 0 /\ edits = 0 /\ calls = 0 /\ crashes = 0
  /\ opened = [t \in Txns |-> None] /\ ended = {}

Next ==
  \/ Begin \/ CopyEnds \/ Write \/ Edit
  \/ \E t \in Txns : Collect(t) \/ \E tool \in {"verify", "apply", "rollback"} : Call(t, tool)
  \/ verifyRefuses \/ BuildFails \/ Load \/ LoadFails \/ Verified
  \/ Rollback \/ Remove \/ Paste \/ Pasted \/ Reload \/ Apply \/ Collected
  \/ DiskFails \/ Crash

Spec == Init /\ [][Next]_vars

-----------------------------------------------------------------------------
(***************************************************************************)
(* Properties.                                                             *)
(***************************************************************************)

\* begin, restore and gc: a transaction that has a journal and has not ended
\* yet has the whole target of its beginning in its directory, wherever the
\* process died since: a rollback can bring it back.
UndoIsThere ==
  \A t \in Txns \ ended : journal[t] # NoJournal =>
    /\ journal[t].existed = (opened[t] # None)
    /\ before[t] = opened[t]

\* A call that is about to say that it undid the change: a rollback, a failed
\* verify of a target that was there before, or a verify that gives up or
\* refuses, whatever the journal said before it.
Undoes ==
  /\ At("write") /\ journal[call.txn] # NoJournal
  /\ \/ call.tool = "rollback"
     \/ call.tool = "verify" /\ call.j.state = "escalated"
     \/ call.j.existed /\ call.j.fails > journal[call.txn].fails

\* The one of them that undoes nothing: a verify that refuses to try again and
\* finds in the journal that the target was rolled back once.
TakesForUndone ==
  /\ call.tool = "verify" /\ call.j.existed
  /\ journal[call.txn].state = "rolled_back" /\ call.j.fails = journal[call.txn].fails

IsUndone ==
  /\ target = opened[call.txn]
  /\ named => loaded = IF target \in broken \cup {Part} THEN None ELSE target

\* verify ("the previous working version is automatically restored") and
\* rollback: what they leave is the target of the transaction's beginning, in
\* its directory and in the host, whatever was done before; but for the
\* refusal that takes an earlier rollback for its own.
UndoneIsUndone == Undoes /\ ~TakesForUndone => IsUndone

\* "Rolled back to a clean state" (index.ts:215), in whatever state the
\* journal was.  The code does not keep this: escalate (629) restores nothing
\* after a rollback, and the target may have been edited since.
RefusedIsUndone == Undoes => IsUndone

\* apply ("The change is already live (loaded during verify)"): what verify
\* passes is what the host has loaded.  The code does not keep this if the
\* directory has another name than the package.
VerifiedIsLoaded == At("loaded") /\ ~LoadFailed => loaded = target

=============================================================================
