---------------------------- MODULE DesktopSession ----------------------------
(***************************************************************************)
(* A desk's session in the desktop's main process: the driver that bridges *)
(* a RemoteSession to the window (desktop-host: session-driver.ts, the     *)
(* part of ipc.ts that makes and drops drivers), the broker that parks the *)
(* questions of the runner until the user answers (ask-broker.ts), and the *)
(* other end of these questions, the runner's server.                      *)
(*                                                                         *)
(* The supervisor (module RunnerSupervisor) connects sessions one after    *)
(* the other; here it is what it does to a link.  A link delivers in order *)
(* in each direction.  Of the two ends that see its close, the client goes *)
(* first: what the server has decided by then, nothing here can tell.  The *)
(* focus widget, a window that owns no driver, is left out.                *)
(***************************************************************************)
EXTENDS Naturals, Sequences

CONSTANTS
  Turns,
  MaxAsks,      \* bound on the questions, for TLC
  MaxSessions,  \* bound on the sessions, for TLC
  MaxWindows    \* bound on the windows ever open, for TLC

DesktopAssumption == {MaxAsks, MaxSessions, MaxWindows} \subseteq Nat

Asks == 1..MaxAsks
Sessions == 1..MaxSessions
None == 0

VARIABLES
  link,     \* per session: "none", "open", "ending" (close() was called) or "closed"
  heard,    \* sessions whose close the server has handled
  window,   \* the main window, None if it is closed
  shown,    \* the windows ever open
  driver,   \* all drivers ever made, in their order
  current,  \* the one in the registry `drivers', None if none
  turn,     \* per turn: the pump of its driver, and its run on the server
  ask       \* per question: where it is, and what was decided

windows == <<window, shown>>
drivers == <<driver, current>>
vars == <<link, heard, windows, drivers, turn, ask>>

NoTurn == [pump |-> "none", driver |-> None, listed |-> FALSE, aborted |-> FALSE,
           srv |-> "none", told |-> FALSE]
NoAsk == [at |-> "free", turn |-> None, kind |-> "none", driver |-> None,
          ok |-> FALSE, by |-> "none"]

Up(s) == link[s] \in {"open", "ending"}
\* remote(): the session the supervisor hands out, None if it has none.
Remote == IF \E s \in Sessions : link[s] = "open"
            THEN CHOOSE s \in Sessions : link[s] = "open" ELSE None
SessionOf(t) == driver[turn[t].driver].sess
TurnsOf(s) == {t \in Turns : turn[t].driver # None /\ SessionOf(t) = s}
AsksOf(s) == {a \in Asks : ask[a].at # "free" /\ ask[a].turn \in TurnsOf(s)}
DriversOf(s) == {d \in DOMAIN driver : driver[d].sess = s}
\* The window the question went to is open.
IsShown(a) == driver[ask[a].driver].win = window

Init ==
  /\ link = [s \in Sessions |-> "none"] /\ heard = {}
  /\ window = 1 /\ shown = 1
  /\ driver = <<>> /\ current = None
  /\ turn = [t \in Turns |-> NoTurn]
  /\ ask = [a \in Asks |-> NoAsk]

-----------------------------------------------------------------------------
(* Drivers.                                                                *)

\* A reply is written to the link, and lost unless that is open.
Replied(a, ok, by, links) ==
  [ask[a] EXCEPT !.at = IF links[SessionOf(ask[a].turn)] = "open" THEN "replied" ELSE "lost",
                 !.ok = ok, !.by = by]

\* dispose() of some drivers, when the links are these: the questions of the
\* desk are cancelled, whichever driver raised them, the drivers' turns aborted.
Dispose(ds, links) ==
  /\ ask' = [a \in Asks |-> IF ds # {} /\ ask[a].at = "parked"
                              THEN Replied(a, FALSE, "cancel", links) ELSE ask[a]]
  /\ turn' = [t \in Turns |->
       IF turn[t].listed /\ turn[t].driver \in ds
         THEN [turn[t] EXCEPT !.aborted = TRUE, !.listed = FALSE] ELSE turn[t]]

\* A driver for session s takes the place of the current one.
Replace(s, win) ==
  /\ Dispose({current} \ {None}, link)
  /\ driver' = Append(driver, [sess |-> s, auto |-> FALSE, win |-> win])
  /\ current' = Len(driver) + 1

\* ensureDriverFor, with a session at hand.
ensureDriverFor(s, win) ==
  IF current # None /\ driver[current].sess = s
    THEN UNCHANGED <<drivers, turn, ask>>
    ELSE Replace(s, win)

\* The supervisor has attached a session and says `connected'.
Connect(s) ==
  /\ \A x \in Sessions : IF x < s THEN link[x] = "closed" ELSE link[x] = "none"
  /\ link' = [link EXCEPT ![s] = "open"]
  /\ IF window = None THEN UNCHANGED <<drivers, turn, ask>> ELSE ensureDriverFor(s, window)
  /\ UNCHANGED <<heard, windows>>

\* refreshConnectedInfo: it says `connected' again.
Refresh ==
  /\ Remote # None /\ window # None
  /\ ensureDriverFor(Remote, window)
  /\ UNCHANGED <<link, heard, windows>>

\* restart, stop: the session is forgotten and its socket ended.
EndSession ==
  /\ Remote # None
  /\ link' = [link EXCEPT ![Remote] = "ending"]
  /\ UNCHANGED <<heard, windows, drivers, turn, ask>>

\* A session closes, with its runner or without: requests fail, every driver
\* ever made for it is disposed of, and the window drops the current one.
LinkCloses(s, dies) ==
  LET closed == [link EXCEPT ![s] = "closed"]
      ends == [t \in TurnsOf(s) |->
                [turn[t] EXCEPT
                   !.pump = IF @ \in {"called", "running"} THEN "ended" ELSE @,
                   !.aborted = @ \/ turn[t].listed, !.listed = FALSE,
                   !.srv = IF dies /\ @ # "none" THEN "ended" ELSE @]]
  IN
  /\ Up(s)
  /\ link' = closed
  /\ heard' = IF dies THEN heard \cup {s} ELSE heard
  /\ ask' = [a \in Asks |->
       IF dies /\ a \in AsksOf(s) /\ ask[a].at # "decided" THEN [ask[a] EXCEPT !.at = "gone"]
       ELSE IF DriversOf(s) # {} /\ ask[a].at = "parked" THEN Replied(a, FALSE, "cancel", closed)
       ELSE ask[a]]
  /\ turn' = [t \in Turns |-> IF t \in TurnsOf(s) THEN ends[t] ELSE turn[t]]
  /\ current' = None
  /\ UNCHANGED <<windows, driver>>

\* bindWindow, which finds the session connected or not.
OpenWindow ==
  /\ window = None /\ shown < MaxWindows
  /\ shown' = shown + 1 /\ window' = shown'
  /\ IF Remote = None THEN UNCHANGED <<drivers, turn, ask>>
     ELSE ensureDriverFor(Remote, window')
  /\ UNCHANGED <<link, heard>>

\* What bindWindow returned: the resolvers stay on the session.
CloseWindow ==
  /\ window # None
  /\ window' = None
  /\ Dispose({current} \ {None}, link)
  /\ current' = None
  /\ UNCHANGED <<link, heard, shown, driver>>

-----------------------------------------------------------------------------
(* Turns.  The user has the current driver only.                           *)

Pump(t, r) == turn' = [turn EXCEPT ![t] = r]

RunTurn(t) ==
  /\ turn[t].pump = "none" /\ current # None
  /\ Pump(t, [NoTurn EXCEPT !.pump = "building", !.driver = current, !.listed = TRUE])
  /\ UNCHANGED <<link, heard, windows, drivers, ask>>

\* The attachments are read; the request fails if the link is down.
Send(t) ==
  /\ turn[t].pump = "building"
  /\ Pump(t, IF link[SessionOf(t)] = "open" THEN [turn[t] EXCEPT !.pump = "called"]
              ELSE [turn[t] EXCEPT !.pump = "ended", !.listed = FALSE])
  /\ UNCHANGED <<link, heard, windows, drivers, ask>>

\* handleRunTurn.
ServerStarts(t) ==
  /\ turn[t].pump = "called" /\ turn[t].srv = "none"
  /\ Pump(t, [turn[t] EXCEPT !.srv = "running"])
  /\ UNCHANGED <<link, heard, windows, drivers, ask>>

\* The client learns the turn's id, without which it cannot abort it.
Learn(t) ==
  /\ turn[t].pump = "called" /\ turn[t].srv # "none"
  /\ Pump(t, [turn[t] EXCEPT !.pump = "running"])
  /\ UNCHANGED <<link, heard, windows, drivers, ask>>

abortTurn(t) ==
  /\ turn[t].listed /\ ~turn[t].aborted /\ turn[t].driver = current
  /\ Pump(t, [turn[t] EXCEPT !.aborted = TRUE])
  /\ UNCHANGED <<link, heard, windows, drivers, ask>>

\* handleAbort.
Tell(t) ==
  /\ turn[t].pump = "running" /\ turn[t].aborted /\ ~turn[t].told
  /\ turn[t].srv # "ended" /\ link[SessionOf(t)] = "open"
  /\ Pump(t, [turn[t] EXCEPT !.told = TRUE])
  /\ UNCHANGED <<link, heard, windows, drivers, ask>>

setAutoApprove ==
  /\ current # None
  /\ driver' = [driver EXCEPT ![current].auto = ~@]
  /\ UNCHANGED <<link, heard, windows, current, turn, ask>>

\* A step that asks: the signal is looked at, then hooks are awaited.
CallBegins(t) ==
  /\ turn[t].srv = "running" /\ ~turn[t].told
  /\ Pump(t, [turn[t] EXCEPT !.srv = "calling"])
  /\ UNCHANGED <<link, heard, windows, drivers, ask>>

ServerEnds(t) ==
  /\ turn[t].srv = "running"
  /\ Pump(t, [turn[t] EXCEPT !.srv = "ended"])
  /\ UNCHANGED <<link, heard, windows, drivers, ask>>

\* turn.complete: the stream ends, and with it the pump.
Complete(t) ==
  /\ turn[t].pump = "running" /\ turn[t].srv = "ended"
  /\ Pump(t, [turn[t] EXCEPT !.pump = "ended", !.listed = FALSE])
  /\ UNCHANGED <<link, heard, windows, drivers, ask>>

-----------------------------------------------------------------------------
(* Questions.                                                              *)

\* resolvePermission, resolveApproval: a client that is gone is not asked
\* (what happens then is in module Runner).
ServerAsks(t, a, kind) ==
  /\ turn[t].srv = "calling" /\ ask[a].at = "free"
  /\ \A b \in Asks : b < a => ask[b].at # "free"
  /\ IF SessionOf(t) \in heard
       THEN /\ Pump(t, [turn[t] EXCEPT !.srv = "running"])
            /\ UNCHANGED ask
       ELSE /\ Pump(t, [turn[t] EXCEPT !.srv = "asking"])
            /\ ask' = [ask EXCEPT ![a] = [NoAsk EXCEPT !.at = "sent", !.turn = t, !.kind = kind]]
  /\ UNCHANGED <<link, heard, windows, drivers>>

\* The resolver is the one of the last driver made for the session, disposed
\* of or not.
AskArrives(a) ==
  /\ ask[a].at = "sent" /\ Up(SessionOf(ask[a].turn))
  /\ LET made == DriversOf(SessionOf(ask[a].turn))
         last == CHOOSE d \in made : \A e \in made : e <= d
     IN ask' = [ask EXCEPT ![a] =
          IF ask[a].kind = "permission" /\ driver[last].auto THEN Replied(a, TRUE, "auto", link)
          ELSE [@ EXCEPT !.at = "parked", !.driver = last]]
  /\ UNCHANGED <<link, heard, windows, drivers, turn>>

\* answerAsk.
UserAnswers(a, ok) ==
  /\ ask[a].at = "parked" /\ IsShown(a)
  /\ ask' = [ask EXCEPT ![a] = Replied(a, ok, "user", link)]
  /\ UNCHANGED <<link, heard, windows, drivers, turn>>

ReplyArrives(a) ==
  /\ ask[a].at = "replied"
  /\ ask' = [ask EXCEPT ![a].at = "decided"]
  /\ Pump(ask[a].turn, [turn[ask[a].turn] EXCEPT !.srv = "running"])
  /\ UNCHANGED <<link, heard, windows, drivers>>

\* The server's end: a waiting permission is denied, a waiting approval takes
\* the default option (which approves); then onDisconnect.
ServerHears(s) ==
  LET waiting == {a \in AsksOf(s) : ask[a].at \in {"sent", "lost"}} IN
  /\ link[s] = "closed" /\ s \notin heard
  /\ \A a \in AsksOf(s) : ask[a].at # "replied"
  /\ heard' = heard \cup {s}
  /\ ask' = [a \in Asks |->
       IF a \in waiting
         THEN [ask[a] EXCEPT !.at = "decided", !.ok = ask[a].kind = "approval", !.by = "default"]
         ELSE ask[a]]
  /\ turn' = [t \in Turns |->
       IF t \in TurnsOf(s) /\ turn[t].srv # "none"
         THEN [turn[t] EXCEPT !.told = TRUE, !.srv = IF @ = "asking" THEN "running" ELSE @]
         ELSE turn[t]]
  /\ UNCHANGED <<link, windows, drivers>>

-----------------------------------------------------------------------------
Next ==
  \/ \E s \in Sessions :
       Connect(s) \/ ServerHears(s) \/ \E dies \in BOOLEAN : LinkCloses(s, dies)
  \/ Refresh \/ EndSession \/ OpenWindow \/ CloseWindow \/ setAutoApprove
  \/ \E t \in Turns :
       \/ RunTurn(t) \/ Send(t) \/ ServerStarts(t) \/ Learn(t) \/ abortTurn(t) \/ Tell(t)
       \/ CallBegins(t) \/ ServerEnds(t) \/ Complete(t)
       \/ \E a \in Asks, kind \in {"permission", "approval"} : ServerAsks(t, a, kind)
  \/ \E a \in Asks : AskArrives(a) \/ ReplyArrives(a) \/ \E ok \in BOOLEAN : UserAnswers(a, ok)

Spec == Init /\ [][Next]_vars

-----------------------------------------------------------------------------
TypeOK ==
  /\ link \in [Sessions -> {"none", "open", "ending", "closed"}]
  /\ heard \subseteq Sessions
  /\ shown \in 0..MaxWindows /\ window \in 0..shown
  /\ \A d \in DOMAIN driver :
       driver[d] \in [sess : Sessions, auto : BOOLEAN, win : 1..MaxWindows]
  /\ current \in DOMAIN driver \cup {None}
  /\ turn \in [Turns -> [pump : {"none", "building", "called", "running", "ended"},
                         driver : DOMAIN driver \cup {None}, listed : BOOLEAN, aborted : BOOLEAN,
                         srv : {"none", "running", "calling", "asking", "ended"},
                         told : BOOLEAN]]
  /\ ask \in [Asks -> [at : {"free", "sent", "parked", "replied", "lost", "decided", "gone"},
                       turn : Turns \cup {None}, kind : {"none", "permission", "approval"},
                       driver : DOMAIN driver \cup {None}, ok : BOOLEAN,
                       by : {"none", "user", "auto", "cancel", "default"}]]

\* Driver d has no one to answer it: its session or its window is gone.
Deserted(d) == link'[driver[d].sess] # "open" \/ driver[d].win # window'

\* A question on the user's screen is cancelled, and a turn aborted by other
\* than the user, only because the session or the window went away
\* (ipc.ts:102-110), never because something else of the desk changed; and a
\* turn that goes on can be aborted by the user.
DenialHasAReason ==
  /\ \A a \in Asks :
       ask[a].at = "parked" /\ ask'[a].by = "cancel" => Deserted(ask[a].driver)
  /\ \A t \in Turns :
       /\ turn[t].listed /\ ~turn'[t].listed /\ turn'[t].pump # "ended"
            => Deserted(turn[t].driver)
       /\ turn'[t].pump \in {"building", "called", "running"}
            => turn'[t].aborted \/ turn'[t].driver = current'

\* What the code does not keep.  A parked question is on a screen, so that it
\* can be answered (ask-broker.ts:26-27).
AskIsShown == \A a \in Asks : ask[a].at = "parked" => IsShown(a)

\* What the code does not keep.  Only the user, or the auto-approval the user
\* switched on, approves (session-driver.ts:97-99).
NotApprovedUnasked ==
  \A a \in Asks : ask[a].at = "decided" /\ ask[a].ok => ask[a].by \in {"user", "auto"}
=============================================================================
