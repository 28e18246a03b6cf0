----------------------------- MODULE CoreUpdate -----------------------------
(***************************************************************************)
(* plugin-self-update, second tier: patches of moxxy's own packages        *)
(* (core-update.ts and the coreTools of index.ts).  A build is the number  *)
(* of the edit it was made from, 0 the published one.  One session calls,  *)
(* one tool at a time; the process may die between any two steps.          *)
(***************************************************************************)
EXTENDS Integers

CONSTANTS
  Pkgs,      \* packages of moxxy
  Unbuilt,   \* those of them whose build leaves no dist
  MaxTxns,   \* bound on the transactions, for TLC
  MaxEdits,  \* bound on the edits, for TLC
  MaxCalls,  \* bound on the calls of verify, apply and rollback, for TLC
  MaxFaults  \* bound on crashes and on what the disk refuses, for TLC

CoreUpdateAssumption ==
  Unbuilt \subseteq Pkgs /\ {MaxTxns, MaxEdits, MaxCalls, MaxFaults} \subseteq Nat

Txns == 1..MaxTxns
None == -1
Part == -2

VARIABLES
  source,   \* the clone: the edit it is at
  built,    \* the clone: the dist of each package
  live,     \* the installation: the dist of each package
  snap,     \* per transaction: the copies of the dists before its overlay
  journal,  \* per transaction: its state and packages
  call,     \* the call under way: where it is, of which transaction, what it
            \* read of its state, the packages left, the package and the build at hand
  made, edits, calls, faults,
  tested,   \* history: the builds that passed verify, and the published one
  first,    \* history: the dists at the beginning of a transaction's overlay
  overlaid, \* history: how often a transaction was overlaid
  torn      \* history: transactions of which a copy was cut short

clone == <<source, built>>
install == <<live, snap>>
counters == <<made, edits, calls, faults>>
undo == <<first, overlaid, torn>>
vars == <<clone, install, journal, call, counters, tested, undo>>

NoJournal == [state |-> "missing", pkgs |-> {}]
Idle == [at |-> "idle", txn |-> 0, state |-> "missing", todo |-> {}, pkg |-> "", build |-> None]

At(where) == call.at = where
To(where) == call' = [call EXCEPT !.at = where]
Journal(state) == journal' = [journal EXCEPT ![call.txn].state = state]

-----------------------------------------------------------------------------
\* begin refuses while a transaction is under way; then the clone is brought
\* to the published commit, its builds go with it.
Begin ==
  /\ At("idle") /\ made < MaxTxns
  /\ \A t \in Txns : journal[t].state \in {"missing", "committed", "rolled_back"}
  /\ To("provision")
  /\ UNCHANGED <<clone, install, journal, counters, tested, undo>>

Provision ==
  /\ At("provision")
  /\ source' = 0 /\ built' = [p \in Pkgs |-> None]
  /\ To("provisioned")
  /\ UNCHANGED <<install, journal, counters, tested, undo>>

\* A preflight check, git or pnpm fails, before or after that.
ProvisionFails ==
  /\ call.at \in {"provision", "provisioned"}
  /\ call' = Idle
  /\ UNCHANGED <<clone, install, journal, counters, tested, undo>>

Provisioned(pkgs) ==
  /\ At("provisioned")
  /\ made' = made + 1
  /\ journal' = [journal EXCEPT ![made + 1] = [state |-> "provisioned", pkgs |-> pkgs]]
  /\ call' = Idle
  /\ UNCHANGED <<clone, install, edits, calls, faults, tested, undo>>

\* self_update_core_write and _edit ask for a journal, not for its state.
Edit ==
  /\ At("idle") /\ edits < MaxEdits /\ made > 0
  /\ edits' = edits + 1
  /\ source' = edits + 1
  /\ UNCHANGED <<built, install, journal, call, made, calls, faults, tested, undo>>

Call(t, tool) ==
  /\ At("idle") /\ calls < MaxCalls /\ journal[t] # NoJournal
  /\ calls' = calls + 1
  /\ call' = [Idle EXCEPT !.at = tool, !.txn = t, !.state = journal[t].state,
                          !.todo = journal[t].pkgs]
  /\ UNCHANGED <<clone, install, journal, made, edits, faults, tested, undo>>

-----------------------------------------------------------------------------
\* verifyCorePackages: the dists are made, then tested.
Build ==
  /\ At("verify")
  /\ built' = [p \in Pkgs |-> IF p \notin call.todo THEN built[p]
                              ELSE IF p \in Unbuilt THEN None ELSE source]
  /\ call' = [call EXCEPT !.at = "test", !.build = source]
  /\ UNCHANGED <<source, install, journal, counters, tested, undo>>

\* The state stays what it was if a stage fails, "verified" if it was that.
VerifyFails ==
  /\ call.at \in {"verify", "test"}
  /\ Journal(call.state)
  /\ call' = Idle
  /\ UNCHANGED <<clone, install, counters, tested, undo>>

VerifyPasses ==
  /\ At("test")
  /\ Journal("verified")
  /\ tested' = tested \cup {call.build}
  /\ call' = Idle
  /\ UNCHANGED <<clone, install, counters, undo>>

-----------------------------------------------------------------------------
Apply ==
  /\ At("apply")
  /\ IF call.state = "verified"
     THEN /\ To("overlay")
          /\ overlaid' = [overlaid EXCEPT ![call.txn] = @ + 1]
          /\ first' = [first EXCEPT ![call.txn] = live]
     ELSE call' = Idle /\ UNCHANGED <<overlaid, first>>
  /\ UNCHANGED <<clone, install, journal, counters, tested, torn>>

\* overlayPackages, one package after the other: the dist is copied away, the
\* new one is staged beside it and the two are swapped by two renames.
Snapshot(p) ==
  /\ At("overlay") /\ p \in call.todo /\ built[p] # None
  /\ snap' = [snap EXCEPT ![call.txn][p] = IF live[p] = None THEN @ ELSE Part]
  /\ call' = [call EXCEPT !.at = "copy", !.pkg = p, !.build = built[p]]
  /\ UNCHANGED <<clone, live, journal, counters, tested, undo>>

\* Mutant: the dist is copied away when it has been swapped.
SnapshotLate ==
  /\ At("copy")
  /\ snap' = [snap EXCEPT ![call.txn][call.pkg] = call.build]
  /\ To("out")
  /\ UNCHANGED <<clone, live, journal, counters, tested, undo>>

SnapshotEnds ==
  /\ At("copy")
  /\ snap' = [snap EXCEPT ![call.txn][call.pkg] = IF live[call.pkg] = None THEN @ ELSE live[call.pkg]]
  /\ To("out")
  /\ UNCHANGED <<clone, live, journal, counters, tested, undo>>

SwapOut ==
  /\ At("out")
  /\ live' = [live EXCEPT ![call.pkg] = None]
  /\ To("in")
  /\ UNCHANGED <<clone, snap, journal, counters, tested, undo>>

SwapIn ==
  /\ At("in")
  /\ live' = [live EXCEPT ![call.pkg] = call.build]
  /\ call' = [call EXCEPT !.at = "overlay", !.todo = @ \ {call.pkg}]
  /\ UNCHANGED <<clone, snap, journal, counters, tested, undo>>

Staged ==
  /\ At("overlay") /\ call.todo = {}
  /\ Journal("staged_restart")
  /\ call' = Idle
  /\ UNCHANGED <<clone, install, counters, tested, undo>>

\* A package has no dist in the clone: apply restores all it may have changed.
NoDist ==
  /\ At("overlay") /\ \E p \in call.todo : built[p] = None
  /\ call' = [call EXCEPT !.at = "restore", !.todo = journal[call.txn].pkgs]
  /\ UNCHANGED <<clone, install, journal, counters, tested, undo>>

\* The disk refuses a copy, a rename or the journal: the handler throws and
\* nothing is restored; with the second rename ("in") the dist is gone.
OverlayFails ==
  /\ call.at \in {"overlay", "copy", "out", "in"} /\ faults < MaxFaults
  /\ faults' = faults + 1
  /\ torn' = IF At("copy") THEN torn \cup {call.txn} ELSE torn
  /\ call' = Idle
  /\ UNCHANGED <<clone, install, journal, made, edits, calls, tested, first, overlaid>>

-----------------------------------------------------------------------------
\* restoreOverlay: what has a copy is removed and copied back.
Rollback ==
  /\ At("rollback")
  /\ call' = [call EXCEPT !.at = "restore", !.state = "rolled_back"]
  /\ UNCHANGED <<clone, install, journal, counters, tested, undo>>

ToRestore == {p \in call.todo : snap[call.txn][p] # None}

Remove(p) ==
  /\ At("restore") /\ p \in ToRestore
  /\ live' = [live EXCEPT ![p] = None]
  /\ call' = [call EXCEPT !.at = "paste", !.pkg = p]
  /\ UNCHANGED <<clone, snap, journal, counters, tested, undo>>

Paste ==
  /\ At("paste")
  /\ live' = [live EXCEPT ![call.pkg] = snap[call.txn][call.pkg]]
  /\ call' = [call EXCEPT !.at = "restore", !.todo = @ \ {call.pkg}]
  /\ UNCHANGED <<clone, snap, journal, counters, tested, undo>>

\* A rollback is journalled whatever the state was; a failed apply is not.
Restored ==
  /\ At("restore") /\ ToRestore = {}
  /\ Journal(call.state)
  /\ call' = Idle
  /\ UNCHANGED <<clone, install, counters, tested, undo>>

\* The disk refuses a removal or a copy, done or half done, or the journal: a
\* rollback throws, an apply goes on as if it had restored.
RestoreFails ==
  /\ call.at \in {"restore", "paste"} /\ faults < MaxFaults
  /\ faults' = faults + 1
  /\ \/ UNCHANGED live
     \/ \E p \in IF At("paste") THEN {call.pkg} ELSE ToRestore : live' = [live EXCEPT ![p] = Part]
  /\ IF call.state = "verified" THEN To("gave up") ELSE call' = Idle
  /\ UNCHANGED <<clone, snap, journal, made, edits, calls, tested, undo>>

GaveUp ==
  /\ At("gave up")
  /\ call' = Idle
  /\ UNCHANGED <<clone, install, journal, counters, tested, undo>>

-----------------------------------------------------------------------------
\* The process dies.  It comes back if no dist is missing, and commits what
\* was staged (finalizeStagedCoreUpdate); if one is, the user installs anew.
Crash ==
  /\ faults < MaxFaults /\ ~At("down")
  /\ faults' = faults + 1
  /\ torn' = IF At("copy") THEN torn \cup {call.txn} ELSE torn
  /\ call' = [Idle EXCEPT !.at = "down"]
  /\ UNCHANGED <<clone, install, journal, made, edits, calls, tested, first, overlaid>>

\* A restart that the user makes, to activate what is staged.
Restart ==
  /\ At("idle") /\ \E t \in Txns : journal[t].state = "staged_restart"
  /\ call' = [Idle EXCEPT !.at = "down"]
  /\ UNCHANGED <<clone, install, journal, counters, tested, undo>>

Boot ==
  /\ At("down") /\ \A p \in Pkgs : live[p] \notin {None, Part}
  /\ journal' = [t \in Txns |-> IF journal[t].state = "staged_restart"
                                THEN [journal[t] EXCEPT !.state = "committed"] ELSE journal[t]]
  /\ call' = Idle
  /\ UNCHANGED <<clone, install, counters, tested, undo>>

Reinstall ==
  /\ At("down") /\ \E p \in Pkgs : live[p] \in {None, Part}
  /\ live' = [p \in Pkgs |-> 0]
  /\ UNCHANGED <<clone, snap, journal, call, counters, tested, undo>>

Init ==
  /\ source = 0 /\ built = [p \in Pkgs |-> None]
  /\ live = [p \in Pkgs |-> 0]
  /\ snap = [t \in Txns |-> [p \in Pkgs |-> None]]
  /\ journal = [t \in Txns |-> NoJournal]
  /\ call = Idle
  /\ made = 0 /\ edits = 0 /\ calls = 0 /\ faults = 0
  /\ tested = {0} /\ torn = {}
  /\ first = [t \in Txns |-> live]
  /\ overlaid = [t \in Txns |-> 0]

Next ==
  \/ Begin \/ Provision \/ ProvisionFails \/ \E pkgs \in SUBSET Pkgs \ {{}} : Provisioned(pkgs)
  \/ Edit \/ \E t \in Txns, tool \in {"verify", "apply", "rollback"} : Call(t, tool)
  \/ Build \/ VerifyFails \/ VerifyPasses
  \/ Apply \/ SnapshotEnds \/ SwapOut \/ SwapIn \/ Staged \/ NoDist \/ OverlayFails
  \/ \E p \in Pkgs : Snapshot(p) \/ Remove(p)
  \/ Rollback \/ Paste \/ Restored \/ RestoreFails \/ GaveUp
  \/ Crash \/ Restart \/ Boot \/ Reinstall

Spec == Init /\ [][Next]_vars

-----------------------------------------------------------------------------
(***************************************************************************)
(* Properties.                                                             *)
(***************************************************************************)

\* Every package a transaction may have changed is as it was before its
\* overlay, if it had a dist then; but for a transaction whose copy was cut
\* short, by a crash or a full disk, and for one overlaid twice, which copied
\* what it had put there itself.
IsBack ==
  overlaid[call.txn] <= 1 /\ call.txn \notin torn =>
    \A p \in journal[call.txn].pkgs :
      /\ first[call.txn][p] # None
      /\ snap[call.txn][p] # None \/ call.state = "verified"
      => live[p] = first[call.txn][p]

\* restoreOverlay: one that comes to its end, of a rollback or of an apply that
\* finds a package without a dist, has everything back, wherever an overlay or
\* an earlier restore of the transaction failed or died.
UndoRestores == At("restore") /\ ToRestore = {} => IsBack

\* "overlay failed and was rolled back" (index.ts:573).  The code does not keep
\* this: it says so also when the restore failed.
SaidIsBack == (At("restore") /\ ToRestore = {}) \/ At("gave up") => IsBack

\* "Stage the new dist on the same fs, then swap atomically" (core-update.ts:385):
\* between calls each package has a dist.  The code does not keep this: nothing
\* puts the old one back when the second rename fails.
NoneIsMissing == At("idle") => \A p \in Pkgs : live[p] # None

\* apply ("Overlay the verified build into the live global install"): what is
\* live has passed verify.  The code does not keep this: after a verify that
\* passed, one that fails leaves the state "verified" and new dists.
LiveIsTested == \A p \in Pkgs : live[p] \in tested \cup {None, Part}

=============================================================================
