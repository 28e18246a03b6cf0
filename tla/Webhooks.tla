------------------------------- MODULE Webhooks -------------------------------
(***************************************************************************)
(* A webhook trigger (plugin-webhooks): the server's handler from request  *)
(* to answer, the cache of delivery keys, the dispatcher that runs the     *)
(* trigger's prompt after the answer, and the store with its write mutex   *)
(* and its file.  The process may crash; the keys are only in memory.      *)
(***************************************************************************)
EXTENDS Integers, Sequences, FiniteSets, SequencesExt

CONSTANTS
  Keys,           \* delivery keys
  NoKey,          \* a delivery without the idempotency header
  MaxSeen,        \* entries the cache of keys holds
  TTL,            \* how long it holds them
  Slots,          \* requests and fires under way
  MaxTime,        \* bound of the clock, for TLC
  MaxDeliveries,  \* bound on the deliveries, for TLC
  MaxFaults       \* bound on crashes and changes by users, for TLC

WebhooksAssumption ==
  /\ NoKey \notin Keys /\ MaxSeen \in Nat \ {0}
  /\ {TTL, MaxTime, MaxDeliveries, MaxFaults} \subseteq Nat

VARIABLES
  now,         \* the clock
  life,        \* whether the listener is up
  cache,       \* the store's copy of the trigger
  file,        \* webhooks.json
  jobs,        \* the mutex's queue of mutations
  applied,     \* the first of them has changed the cache
  reqs,        \* requests, and fires after their answer
  seen,        \* the cache of keys, the oldest first
  deliveries, faults,  \* counters of the bounds
  lastSeen,    \* history: when a key was last asked for in this life
  since,       \* history: the other keys asked for after it
  counted      \* history: fires whose count was taken, over the file's

vars == <<now, life, cache, file, jobs, applied, reqs, seen, deliveries, faults,
          lastSeen, since, counted>>

store == <<cache, file, jobs, applied>>
history == <<lastSeen, since, counted>>

Never == -1
NoTrigger == [there |-> FALSE, enabled |-> FALSE, fireCount |-> 0]
Free == [at |-> "free", key |-> NoKey]

-----------------------------------------------------------------------------
(***************************************************************************)
(* The store: one mutation at a time, first the cache, then the file.      *)
(***************************************************************************)

\* Mutant: the count is taken before the mutex.
RecordStale(c) == [op |-> "record", count |-> c.fireCount + 1]
RecordFire(c) == [op |-> "record", count |-> -1]

Mutated(c, job) ==
  CASE job.op = "record" ->
         IF c.there THEN [c EXCEPT !.fireCount = IF job.count < 0 THEN @ + 1 ELSE job.count] ELSE c
    [] job.op = "enable" -> IF c.there THEN [c EXCEPT !.enabled = job.to] ELSE c
    [] job.op = "delete" -> NoTrigger

Apply ==
  /\ jobs # <<>> /\ ~applied
  /\ cache' = Mutated(cache, Head(jobs))
  /\ applied' = TRUE
  /\ counted' = IF Head(jobs).op = "record" /\ cache.there THEN counted + 1 ELSE counted
  /\ UNCHANGED <<now, life, file, jobs, reqs, seen, deliveries, faults, lastSeen, since>>

\* The file is written, or it could not be: either way the mutex goes on.
Settle(ok) ==
  /\ applied
  /\ applied' = FALSE
  /\ file' = IF ok THEN cache ELSE file
  /\ faults' = IF ok THEN faults ELSE faults + 1
  /\ jobs' = Tail(jobs)
  /\ UNCHANGED <<now, life, cache, reqs, seen, deliveries, history>>

Change(job) ==
  /\ life = "up" /\ faults < MaxFaults
  /\ faults' = faults + 1
  /\ jobs' = Append(jobs, job)
  /\ UNCHANGED <<now, life, cache, file, applied, reqs, seen, deliveries, history>>

-----------------------------------------------------------------------------
(***************************************************************************)
(* DeliveryDedupeCache.                                                    *)
(***************************************************************************)

\* evictExpired walks from the oldest on and stops at the first that is not.
Live(s) ==
  LET fresh == {i \in DOMAIN s : s[i].at >= now - TTL}
  IN  IF fresh = {} THEN <<>>
      ELSE SubSeq(s, CHOOSE i \in fresh : \A j \in fresh : i <= j, Len(s))

Holds(s, k) == \E i \in DOMAIN s : s[i].key = k

Stamp(k) == [key |-> k, at |-> now]

\* Map.delete.
Deleted(s, k) == RemoveAt(s, CHOOSE i \in DOMAIN s : s[i].key = k)

\* Mutant: the cache is full one entry early.
CheckedOneLess(s, k) ==
  LET t == Append(IF Holds(Live(s), k) THEN Deleted(Live(s), k) ELSE Live(s), Stamp(k))
  IN  IF Len(t) >= MaxSeen THEN Tail(t) ELSE t

\* The cache after a check: the key is its newest entry, and the oldest goes
\* if there are too many.
Checked(s, k) ==
  IF Holds(Live(s), k)
    THEN Append(Deleted(Live(s), k), Stamp(k))
    ELSE LET t == Append(Live(s), Stamp(k)) IN IF Len(t) > MaxSeen THEN Tail(t) ELSE t

-----------------------------------------------------------------------------
(***************************************************************************)
(* The handler.                                                            *)
(***************************************************************************)

To(i, at) == reqs' = [reqs EXCEPT ![i] = IF at = "free" THEN Free ELSE [@ EXCEPT !.at = at]]

Deliver(i, k) ==
  /\ life = "up" /\ reqs[i] = Free /\ deliveries < MaxDeliveries
  /\ deliveries' = deliveries + 1
  /\ reqs' = [reqs EXCEPT ![i] = [at |-> "lookup", key |-> k]]
  /\ UNCHANGED <<now, life, store, seen, faults, history>>

\* store.get: 404 and 503 are decided here, on what the store says now.
Lookup(i) ==
  /\ reqs[i].at = "lookup"
  /\ To(i, IF cache.there /\ cache.enabled THEN "body" ELSE "free")
  /\ UNCHANGED <<now, life, store, seen, deliveries, faults, history>>

\* The body is too large or does not come, the signature is wrong, or a
\* filter turns the delivery away: an answer and nothing else.
Reject(i) ==
  /\ reqs[i].at = "body"
  /\ To(i, "free")
  /\ UNCHANGED <<now, life, store, seen, deliveries, faults, history>>

\* The body is there and good.  Checking the key, answering and starting the
\* fire are one piece.
Accept(i) ==
  LET k == reqs[i].key IN
  /\ reqs[i].at = "body"
  /\ IF k = NoKey
       THEN To(i, "fire") /\ UNCHANGED <<seen, lastSeen, since>>
       ELSE /\ To(i, IF Holds(Live(seen), k) THEN "free" ELSE "fire")
            /\ seen' = Checked(seen, k)
            /\ lastSeen' = [lastSeen EXCEPT ![k] = now]
            /\ since' = [x \in Keys |-> IF x = k THEN {} ELSE since[x] \cup {k}]
  /\ UNCHANGED <<now, life, store, deliveries, faults, counted>>

\* webhook_test: a fire without a delivery.
Test(i) ==
  /\ life = "up" /\ reqs[i] = Free /\ deliveries < MaxDeliveries /\ cache.there
  /\ deliveries' = deliveries + 1
  /\ reqs' = [reqs EXCEPT ![i] = [at |-> "fire", key |-> NoKey]]
  /\ UNCHANGED <<now, life, store, seen, faults, history>>

\* The prompt's turn has ended, well or not, and the result is in the inbox.
Fired(i) ==
  /\ reqs[i].at = "fire"
  /\ To(i, "free")
  /\ jobs' = Append(jobs, RecordFire(cache))
  /\ UNCHANGED <<now, life, cache, file, applied, seen, deliveries, faults, history>>

-----------------------------------------------------------------------------
\* Crash and restart: the file stays, the keys and what was queued do not.
Crash ==
  /\ life = "up" /\ faults < MaxFaults
  /\ faults' = faults + 1
  /\ life' = "down"
  /\ cache' = NoTrigger /\ jobs' = <<>> /\ applied' = FALSE
  /\ reqs' = [i \in Slots |-> Free]
  /\ seen' = <<>>
  /\ lastSeen' = [k \in Keys |-> Never]
  /\ since' = [k \in Keys |-> {}]
  /\ counted' = file.fireCount
  /\ UNCHANGED <<now, file, deliveries>>

Boot ==
  /\ life = "down"
  /\ life' = "up"
  /\ cache' = file
  /\ UNCHANGED <<now, file, jobs, applied, reqs, seen, deliveries, faults, history>>

Tick ==
  /\ now < MaxTime
  /\ now' = now + 1
  /\ UNCHANGED <<life, store, reqs, seen, deliveries, faults, history>>

Init ==
  /\ now = 0 /\ life = "up"
  /\ cache = [there |-> TRUE, enabled |-> TRUE, fireCount |-> 0]
  /\ file = cache
  /\ jobs = <<>> /\ applied = FALSE
  /\ reqs = [i \in Slots |-> Free]
  /\ seen = <<>>
  /\ deliveries = 0 /\ faults = 0
  /\ lastSeen = [k \in Keys |-> Never]
  /\ since = [k \in Keys |-> {}]
  /\ counted = 0

Works ==
  \/ Apply \/ Settle(TRUE)
  \/ \E i \in Slots : Lookup(i) \/ Accept(i) \/ Fired(i)

Next ==
  \/ Works
  \/ Settle(FALSE) /\ faults < MaxFaults
  \/ \E i \in Slots : Reject(i) \/ Test(i) \/ \E k \in Keys \cup {NoKey} : Deliver(i, k)
  \/ Change([op |-> "delete"]) \/ \E b \in BOOLEAN : Change([op |-> "enable", to |-> b])
  \/ Crash \/ Boot \/ Tick

Spec == Init /\ [][Next]_vars

-----------------------------------------------------------------------------
(***************************************************************************)
(* Properties.                                                             *)
(***************************************************************************)

\* A key is remembered: asked for no longer ago than TTL, with fewer than
\* MaxSeen others since.
Remembered(k) ==
  /\ lastSeen[k] # Never /\ lastSeen[k] >= now - TTL
  /\ Cardinality(since[k]) < MaxSeen

\* DeliveryDedupeCache.check: what a sender repeats while its key is
\* remembered fires nothing, however deliveries, expiries and evictions
\* interleave; and nothing else is dropped.
DedupeStep ==
  \A i \in Slots :
    Accept(i) /\ reqs[i].key # NoKey
    => (reqs'[i].at = "fire" <=> ~Remembered(reqs[i].key))

DedupeIsAWindow == [][DedupeStep]_vars

\* recordFire ("atomic increment"): fires that end at the same time are all
\* counted, once each.
CountIsExact == life = "up" /\ cache.there => cache.fireCount = counted

=============================================================================
