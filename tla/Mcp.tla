-------------------------------- MODULE Mcp ---------------------------------
(***************************************************************************)
(* plugin-mcp's runtime for one server name (admin/runtime.ts, wrap.ts,    *)
(* the tools mcp_add_server and mcp_remove_server, and the api that the    *)
(* /mcp picker uses).  An attachment is a set of registered tools with the *)
(* closure that connects for them.  A call holds the tool it looked up     *)
(* while the user is asked for permission, whatever is detached meanwhile. *)
(***************************************************************************)
EXTENDS Naturals, FiniteSets

CONSTANTS
  Calls,      \* tool calls under way
  MaxAttach,  \* bound on the attachments, for TLC
  MaxConns    \* bound on the connections, for TLC

McpAssumption == {MaxAttach, MaxConns} \subseteq Nat

Atts == 1..MaxAttach
Conns == 1..MaxConns
None == 0

VARIABLES
  catalog,  \* mcp.json's entry: "absent", "off" or "on"
  cached,   \* whether the entry has the tools' descriptors
  entry,    \* runtimes: the attachment and its client, None for the sentinel
  promise,  \* per attachment: the connection its closure holds
  conn,     \* per connection: "unused", "opening", "open" or "closed"
  owner,    \* per connection: the attachment it was opened for
  calls,    \* per call: where it is, its attachment
  closing,  \* connections that a detach closes as soon as they are open
  admin,    \* an add or a refresh of the cache: where it is, its connection
  made,     \* attachments so far
  stray     \* history: attachments called when detached, or given another's client

catalogVars == <<catalog, cached>>
vars == <<catalogVars, entry, promise, conn, owner, calls, closing, admin, made, stray>>

NoEntry == [att |-> None, conn |-> None]
Free == [at |-> "free", att |-> None]
NoAdmin == [at |-> "idle", conn |-> None]
Unused == {c \in Conns : conn[c] = "unused"}

Open(c) == conn' = [conn EXCEPT ![c] = "opening"]
Admin(at, c) == admin' = [at |-> at, conn |-> c]

-----------------------------------------------------------------------------
\* attachServerLazy: the tools are registered with a closure that has no
\* connection.  The tools of the name are registered when it has an entry, so
\* that an entry also stands for a collision.
attachServerLazy ==
  IF entry # NoEntry \/ made = MaxAttach THEN UNCHANGED <<entry, made>>
  ELSE made' = made + 1 /\ entry' = [att |-> made + 1, conn |-> None]

\* enableAndAttach and onInit; without descriptors a connection fetches them.
Enable ==
  /\ catalog # "absent" /\ cached
  /\ catalog' = "on"
  /\ attachServerLazy
  /\ UNCHANGED <<cached, promise, conn, owner, calls, closing, admin, stray>>

Refresh ==
  /\ catalog # "absent" /\ ~cached /\ admin.at = "idle"
  /\ \E c \in Unused : Open(c) /\ Admin("refresh", c)
  /\ catalog' = "on"
  /\ UNCHANGED <<cached, entry, promise, owner, calls, closing, made, stray>>

\* The descriptors are stored if the entry is still there; the caller attaches.
Refreshed ==
  /\ admin.at = "refresh" /\ conn[admin.conn] = "open"
  /\ conn' = [conn EXCEPT ![admin.conn] = "closed"]
  /\ \/ cached' = (catalog # "absent") /\ attachServerLazy
     \/ UNCHANGED <<cached, entry, made>>
  /\ admin' = NoAdmin
  /\ UNCHANGED <<catalog, promise, owner, calls, closing, stray>>

\* mcp_add_server: connected, listed and registered before it is stored.
Add ==
  /\ catalog = "absent" /\ admin.at = "idle"
  /\ \E c \in Unused : Open(c) /\ Admin("add", c)
  /\ UNCHANGED <<catalogVars, entry, promise, owner, calls, closing, made, stray>>

Added ==
  /\ admin.at = "add" /\ conn[admin.conn] = "open" /\ made < MaxAttach
  /\ IF entry # NoEntry
     THEN /\ conn' = [conn EXCEPT ![admin.conn] = "closed"]
          /\ admin' = NoAdmin
          /\ UNCHANGED <<entry, promise, owner, made>>
     ELSE /\ made' = made + 1
          /\ entry' = [att |-> made + 1, conn |-> admin.conn]
          /\ promise' = [promise EXCEPT ![made + 1] = admin.conn]
          /\ owner' = [owner EXCEPT ![admin.conn] = made + 1]
          /\ Admin("store", None)
          /\ UNCHANGED conn
  /\ UNCHANGED <<catalogVars, calls, closing, stray>>

Stored ==
  /\ admin.at = "store"
  /\ catalog' = "on" /\ cached' = TRUE
  /\ admin' = NoAdmin
  /\ UNCHANGED <<entry, promise, conn, owner, calls, closing, made, stray>>

\* It fails to connect, to list or to store: a connection that is open stays.
AdminFails ==
  /\ \/ admin.at = "store"
     \/ admin.at \in {"add", "refresh"} /\ conn[admin.conn] \in {"open", "closed"}
  /\ conn' = IF admin.at = "refresh" THEN [conn EXCEPT ![admin.conn] = "closed"] ELSE conn
  /\ admin' = NoAdmin
  /\ UNCHANGED <<catalogVars, entry, promise, owner, calls, closing, made, stray>>

-----------------------------------------------------------------------------
\* A call looks its tool up, then the user is asked.
Lookup(i) ==
  /\ calls[i].at = "free" /\ entry # NoEntry
  /\ calls' = [calls EXCEPT ![i] = [at |-> "asked", att |-> entry.att]]
  /\ UNCHANGED <<catalogVars, entry, promise, conn, owner, closing, admin, made, stray>>

Refuse(i) ==
  /\ calls[i].at = "asked"
  /\ calls' = [calls EXCEPT ![i] = Free]
  /\ UNCHANGED <<catalogVars, entry, promise, conn, owner, closing, admin, made, stray>>

\* Mutant: the promise is kept only when the connection is open.
getOrConnectLate(a) ==
  IF promise[a] # None /\ conn[promise[a]] = "open" THEN UNCHANGED <<promise, conn, owner>>
  ELSE \E c \in Unused : /\ Open(c)
                         /\ promise' = [promise EXCEPT ![a] = c]
                         /\ owner' = [owner EXCEPT ![c] = a]

\* getOrConnect: the first call connects, the others share its promise.
getOrConnect(a) ==
  IF promise[a] # None THEN UNCHANGED <<promise, conn, owner>>
  ELSE \E c \in Unused : /\ Open(c)
                         /\ promise' = [promise EXCEPT ![a] = c]
                         /\ owner' = [owner EXCEPT ![c] = a]

Invoke(i) ==
  LET a == calls[i].att
  IN  /\ calls[i].at = "asked"
      /\ getOrConnect(a)
      /\ calls' = [calls EXCEPT ![i].at = "runs"]
      /\ stray' = IF entry.att = a THEN stray ELSE stray \cup {a}
      /\ UNCHANGED <<catalogVars, entry, closing, admin, made>>

\* The client is stashed in whatever entry the name has by then.
Connected(c) ==
  /\ conn[c] = "opening"
  /\ conn' = [conn EXCEPT ![c] = IF c \in closing THEN "closed" ELSE "open"]
  /\ closing' = closing \ {c}
  /\ IF owner[c] = None \/ entry = NoEntry THEN UNCHANGED <<entry, stray>>
     ELSE /\ entry' = [entry EXCEPT !.conn = c]
          /\ stray' = IF owner[c] = entry.att THEN stray ELSE stray \cup {entry.att}
  /\ UNCHANGED <<catalogVars, promise, owner, calls, admin, made>>

\* A failed connection is forgotten, the next call tries again.
ConnectFails(c) ==
  /\ conn[c] = "opening"
  /\ conn' = [conn EXCEPT ![c] = "closed"]
  /\ closing' = closing \ {c}
  /\ promise' = [a \in Atts |-> IF promise[a] = c THEN None ELSE promise[a]]
  /\ calls' = [i \in Calls |-> IF calls[i].at = "runs" /\ promise[calls[i].att] = c
                               THEN Free ELSE calls[i]]
  /\ UNCHANGED <<catalogVars, entry, owner, admin, made, stray>>

CallEnds(i) ==
  /\ calls[i].at = "runs" /\ conn[promise[calls[i].att]] # "opening"
  /\ calls' = [calls EXCEPT ![i] = Free]
  /\ UNCHANGED <<catalogVars, entry, promise, conn, owner, closing, admin, made, stray>>

-----------------------------------------------------------------------------
\* Mutant: the sentinel's close does nothing.
ClosedLive(e) ==
  /\ conn' = IF e.conn = None THEN conn ELSE [conn EXCEPT ![e.conn] = "closed"]
  /\ UNCHANGED closing

\* detachServer: the entry's client is closed; the sentinel's close waits for
\* the connection of the closure, if there is one.
Closed(e) ==
  LET c == IF e.conn # None THEN e.conn ELSE promise[e.att]
  IN  IF c = None THEN UNCHANGED <<conn, closing>>
      ELSE IF conn[c] = "opening" THEN closing' = closing \cup {c} /\ UNCHANGED conn
      ELSE conn' = [conn EXCEPT ![c] = "closed"] /\ UNCHANGED closing

detachServer ==
  /\ entry' = NoEntry
  /\ IF entry = NoEntry THEN UNCHANGED <<conn, closing>> ELSE Closed(entry)

\* The picker disables the server, or mcp_remove_server takes it out.
Disable ==
  /\ catalog = "on"
  /\ catalog' = "off"
  /\ detachServer
  /\ UNCHANGED <<cached, promise, owner, calls, admin, made, stray>>

RemoveServer ==
  /\ catalog # "absent"
  /\ catalog' = "absent" /\ cached' = FALSE
  /\ detachServer
  /\ UNCHANGED <<promise, owner, calls, admin, made, stray>>

-----------------------------------------------------------------------------
Init ==
  /\ catalog \in {"absent", "on", "off"} /\ cached \in BOOLEAN
  /\ catalog = "absent" => ~cached
  /\ entry = NoEntry
  /\ promise = [a \in Atts |-> None]
  /\ conn = [c \in Conns |-> "unused"] /\ owner = [c \in Conns |-> None]
  /\ calls = [i \in Calls |-> Free]
  /\ closing = {} /\ admin = NoAdmin /\ made = 0 /\ stray = {}

Next ==
  \/ Enable \/ Refresh \/ Refreshed \/ Add \/ Added \/ Stored \/ AdminFails
  \/ \E i \in Calls : Lookup(i) \/ Refuse(i) \/ Invoke(i) \/ CallEnds(i)
  \/ \E c \in Conns : Connected(c) \/ ConnectFails(c)
  \/ Disable \/ RemoveServer

Spec == Init /\ [][Next]_vars

-----------------------------------------------------------------------------
(***************************************************************************)
(* Properties.                                                             *)
(***************************************************************************)

\* getOrConnect ("a single shared connection"): an attachment never has two
\* connections at a time, however its first calls, their failures and its
\* detachment interleave.
OneConnectionEach ==
  \A c, d \in Conns :
    /\ owner[c] = owner[d] /\ owner[c] # None
    /\ {conn[c], conn[d]} \subseteq {"opening", "open"}
    => c = d

\* detachServer and the sentinel ("so shutdown can close it"): what an
\* attachment opened does not outlive it, not even if it was connecting when
\* it was detached.  Two ways out remain, and then the process leaks: a call
\* that was waiting for permission connects afterwards, and the entry of a new
\* attachment is given the client of an old one.
DetachedIsClosed ==
  \A c \in Conns :
    LET a == owner[c] IN
    a \notin stray \cup {None, entry.att} /\ c \notin closing => conn[c] \in {"unused", "closed"}

=============================================================================
