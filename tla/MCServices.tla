----------------------------- MODULE MCServices -----------------------------
(***************************************************************************)
(* Six components that share no state, for one run of TLC: the search for  *)
(* a cron expression's next time, webhooks, the updates of plugins and of  *)
(* the core, MCP servers, and a desk's session.  A behaviour is one of one *)
(* component: `part' says of which, and what only the others use keeps the *)
(* value Unused.                                                           *)
(***************************************************************************)
EXTENDS MCCronSearch

CONSTANTS
  Keys, NoKey, MaxSeen, TTL, Slots, MaxTime, MaxDeliveries,  \* Webhooks
  MaxPluginCalls, MaxCrashes, Keep,                          \* SelfUpdate
  Pkgs, Unbuilt, MaxCoreCalls,                               \* CoreUpdate
  MaxTxns, MaxEdits,                                         \* both
  Calls, MaxAttach, MaxConns,                                \* Mcp
  MaxFaults,                                                 \* Webhooks, CoreUpdate
  Turns, MaxAsks, MaxSessions, MaxWindows                    \* DesktopSession

VARIABLES
  part,
  now, life, cache, file, jobs, applied, reqs, seen,         \* Webhooks
  deliveries, lastSeen, since, counted,
  broken, named, target, loaded, skipped, before,            \* SelfUpdate
  crashes, opened, ended,
  source, built, live, snap, tested, first, overlaid, torn,  \* CoreUpdate
  catalog, cached, entry, promise, conn, owner, closing,     \* Mcp
  admin, stray,
  link, heard, window, shown, driver, current, turn, ask,    \* DesktopSession
  journal, call, made, edits, calls, faults                  \* more than one

Unused == {}

Hook == INSTANCE Webhooks
Plugin == INSTANCE SelfUpdate WITH MaxCalls <- MaxPluginCalls
Core == INSTANCE CoreUpdate WITH MaxCalls <- MaxCoreCalls
Server == INSTANCE Mcp
Desk == INSTANCE DesktopSession

ASSUME ServicesConstants ==
  /\ Hook!WebhooksAssumption /\ Plugin!SelfUpdateAssumption
  /\ Core!CoreUpdateAssumption /\ Server!McpAssumption
  /\ Desk!DesktopAssumption

hookVars == <<now, life, cache, file, jobs, applied, reqs, seen, deliveries, lastSeen, since,
              counted>>
pluginVars == <<broken, named, target, loaded, skipped, before, crashes, opened, ended>>
coreVars == <<source, built, live, snap, tested, first, overlaid, torn>>
serverVars == <<catalog, cached, entry, promise, conn, owner, closing, admin, stray>>
deskVars == <<link, heard, window, shown, driver, current, turn, ask>>
allVars == <<part, vars, hookVars, pluginVars, coreVars, serverVars, deskVars,
             journal, call, made, edits, calls, faults>>

NoSearch == cron = Unused /\ after = Unused /\ cursor = Unused /\ result = "searching"
NoHooks ==
  now = Unused /\ life = Unused /\ cache = Unused /\ file = Unused /\ jobs = Unused
  /\ applied = Unused /\ reqs = Unused /\ seen = Unused /\ deliveries = Unused
  /\ lastSeen = Unused /\ since = Unused /\ counted = Unused
NoPlugins ==
  broken = Unused /\ named = Unused /\ target = Unused /\ loaded = Unused
  /\ skipped = Unused /\ before = Unused /\ crashes = Unused /\ opened = Unused
  /\ ended = Unused
NoCore ==
  source = Unused /\ built = Unused /\ live = Unused /\ snap = Unused
  /\ tested = Unused /\ first = Unused /\ overlaid = Unused /\ torn = Unused
NoServers ==
  catalog = Unused /\ cached = Unused /\ entry = Unused /\ promise = Unused
  /\ conn = Unused /\ owner = Unused /\ closing = Unused /\ admin = Unused
  /\ stray = Unused
NoDesk ==
  link = Unused /\ heard = Unused /\ window = Unused /\ shown = Unused
  /\ driver = Unused /\ current = Unused /\ turn = Unused /\ ask = Unused
NoUpdates == journal = Unused /\ call = Unused /\ edits = Unused

SInit ==
  \/ /\ part = "cron" /\ Init
     /\ NoHooks /\ NoPlugins /\ NoCore /\ NoServers /\ NoDesk /\ NoUpdates
     /\ made = Unused /\ calls = Unused /\ faults = Unused
  \/ /\ part = "webhook" /\ Hook!Init
     /\ NoSearch /\ NoPlugins /\ NoCore /\ NoServers /\ NoDesk /\ NoUpdates
     /\ made = Unused /\ calls = Unused
  \/ /\ part = "plugin" /\ Plugin!Init
     /\ NoSearch /\ NoHooks /\ NoCore /\ NoServers /\ NoDesk /\ faults = Unused
  \/ /\ part = "core" /\ Core!Init
     /\ NoSearch /\ NoHooks /\ NoPlugins /\ NoServers /\ NoDesk
  \/ /\ part = "server" /\ Server!Init
     /\ NoSearch /\ NoHooks /\ NoPlugins /\ NoCore /\ NoDesk /\ NoUpdates /\ faults = Unused
  \/ /\ part = "desk" /\ Desk!Init
     /\ NoSearch /\ NoHooks /\ NoPlugins /\ NoCore /\ NoServers /\ NoUpdates
     /\ made = Unused /\ calls = Unused /\ faults = Unused

CronStep ==
  /\ part = "cron" /\ Next
  /\ UNCHANGED <<part, hookVars, pluginVars, coreVars, serverVars, deskVars,
                 journal, call, made, edits, calls, faults>>
HookStep ==
  /\ part = "webhook" /\ Hook!Next
  /\ UNCHANGED <<part, vars, pluginVars, coreVars, serverVars, deskVars,
                 journal, call, made, edits, calls>>
PluginStep ==
  /\ part = "plugin" /\ Plugin!Next
  /\ UNCHANGED <<part, vars, hookVars, coreVars, serverVars, deskVars, faults>>
CoreStep ==
  /\ part = "core" /\ Core!Next
  /\ UNCHANGED <<part, vars, hookVars, pluginVars, serverVars, deskVars>>
ServerStep ==
  /\ part = "server" /\ Server!Next
  /\ UNCHANGED <<part, vars, hookVars, pluginVars, coreVars, deskVars,
                 journal, call, edits, faults>>
DeskStep ==
  /\ part = "desk" /\ Desk!Next
  /\ UNCHANGED <<part, vars, hookVars, pluginVars, coreVars, serverVars,
                 journal, call, made, edits, calls, faults>>

SNext == CronStep \/ HookStep \/ PluginStep \/ CoreStep \/ ServerStep \/ DeskStep

SSpec == SInit /\ [][SNext]_allVars

\* The components' properties, each where its component runs.
CountIsExact == part = "webhook" => Hook!CountIsExact
DedupeIsAWindow == [][part = "webhook" => Hook!DedupeStep]_allVars
UndoIsThere == part = "plugin" => Plugin!UndoIsThere
UndoneIsUndone == part = "plugin" => Plugin!UndoneIsUndone
UndoRestores == part = "core" => Core!UndoRestores
OneConnectionEach == part = "server" => Server!OneConnectionEach
DetachedIsClosed == part = "server" => Server!DetachedIsClosed
DenialHasAReason == [][part = "desk" => Desk!DenialHasAReason]_allVars
=============================================================================
