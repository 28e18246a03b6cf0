---------------------------- MODULE ServicesProofs ----------------------------
(***************************************************************************)
(* The properties of the components that module MCServices puts side by    *)
(* side, for every value of their bounds: the cache of delivery keys and   *)
(* the count of a webhook, the journals of the updates of plugins and of   *)
(* the core, the connections of MCP servers, the questions and turns of a  *)
(* desk.  Each has its inductive invariant; a step of the whole is one of  *)
(* the component whose behaviour it is.                                    *)
(***************************************************************************)
EXTENDS MCServices, FiniteSetTheorems, NaturalsInduction, SequenceTheorems, TLAPS

\* A set of numbers has a least one, and a bounded one a greatest.
LEMMA LeastNumber ==
  ASSUME NEW T \in SUBSET Nat, T # {}
  PROVE  \E x \in T : \A y \in T : x <= y
  <1>1. IsWellFoundedOn(OpToRel(<, Nat), Nat)
    BY NatLessThanWellFounded
  <1>2. PICK x \in T : \A y \in T : ~(<<y, x>> \in OpToRel(<, Nat))
    BY <1>1, WFMin
  <1>3. ASSUME NEW y \in T PROVE x <= y
    <2>1. ~(y < x)
      BY <1>2 DEF OpToRel
    <2> QED BY <2>1
  <1> QED BY <1>3

\* A set of numbers up to n has a greatest one.
LEMMA Greatest ==
  ASSUME NEW n \in Nat, NEW T \in SUBSET (1..n), T # {}
  PROVE  \E x \in T : \A y \in T : y <= x
  <1> DEFINE U == {n - x : x \in T}
  <1>1. U \in SUBSET Nat /\ U # {}
    <2>1. \A x \in T : x \in Nat /\ x <= n /\ n - x \in Nat
      OBVIOUS
    <2> QED BY <2>1
  <1> HIDE DEF U
  <1>2. PICK u \in U : \A y \in U : u <= y
    BY <1>1, LeastNumber
  <1>3. PICK x \in T : u = n - x
    BY <1>2 DEF U
  <1>4. ASSUME NEW y \in T PROVE y <= x
    <2>1. n - y \in U
      BY DEF U
    <2>2. n - x <= n - y
      BY <1>2, <1>3, <2>1
    <2> QED BY <1>3, <2>2
  <1> QED BY <1>4

-----------------------------------------------------------------------------
(*****************************************************************************)
(* Webhooks: the cache of keys is in the order of the last checks, and what  *)
(* the history says of a key is what the cache has of it.                    *)
(*****************************************************************************)
Triggers == [there : BOOLEAN, enabled : BOOLEAN, fireCount : Nat]
\* The changes of a trigger that wait in the queue.
Mutations ==
  [op : {"record"}, count : {-1}] \cup [op : {"enable"}, to : BOOLEAN] \cup [op : {"delete"}]

\* Types of the store and of the requests.
StoreTypes ==
  /\ life \in {"up", "down"} /\ applied \in BOOLEAN
  /\ cache \in Triggers /\ file \in Triggers /\ counted \in Nat
  /\ jobs \in Seq(Mutations)
  /\ reqs \in [Slots -> [at : {"free", "lookup", "body", "fire"}, key : Keys \cup {NoKey}]]

\* Nothing is under way while the process is down, and the count that is taken
\* for the one to restore is the file's.
Stopped ==
  life = "down" =>
    /\ counted = file.fireCount /\ jobs = <<>> /\ ~applied
    /\ \A i \in Slots : reqs[i] = Hook!Free

\* The inductive invariant of the store.
StoreInv == StoreTypes /\ Stopped /\ Hook!CountIsExact

\* What the cache keeps of a delivery key.
Entries == [key : Keys, at : Nat]

\* The cache's entries are in the order of their last check, one for each key.
InOrder(s, n) ==
  /\ s \in Seq(Entries)
  /\ \A i \in 1..Len(s) : s[i].at <= n
  /\ \A i, j \in 1..Len(s) : i < j => s[i].at <= s[j].at /\ s[i].key # s[j].key

\* The keys that were checked after the i-th entry.
After(s, i) == {s[j].key : j \in i+1..Len(s)}

\* What the history says of the keys the cache has ...
Present(s, last, others) ==
  \A i \in 1..Len(s) : last[s[i].key] = s[i].at /\ others[s[i].key] = After(s, i)

\* ... and of those it does not have.
Absent(s, last, others, n) ==
  \A k \in Keys :
    Hook!Holds(s, k) \/ last[k] = Hook!Never \/ last[k] < n - TTL \/ Cardinality(others[k]) >= MaxSeen

\* The inductive invariant of the cache.
CacheInv ==
  /\ now \in Nat
  /\ lastSeen \in [Keys -> Nat \cup {Hook!Never}] /\ since \in [Keys -> SUBSET Keys]
  /\ \A k \in Keys : IsFiniteSet(since[k])
  /\ InOrder(seen, now) /\ Len(seen) <= MaxSeen
  /\ Present(seen, lastSeen, since) /\ Absent(seen, lastSeen, since, now)

\* The inductive invariant of a webhook.
HookInv == StoreInv /\ CacheInv

\* What the entries of the cache are.
LEMMA EntriesAre ==
  ASSUME NEW s, NEW n, InOrder(s, n)
  PROVE  /\ s \in Seq(Entries) /\ Len(s) \in Nat /\ DOMAIN s = 1..Len(s)
         /\ \A i \in 1..Len(s) :
              s[i] \in Entries /\ s[i].key \in Keys /\ s[i].at \in Nat /\ s[i].at <= n
         /\ \A i, j \in 1..Len(s) : i < j => s[i].at <= s[j].at /\ s[i].key # s[j].key
  <1>1. s \in Seq(Entries)
    BY DEF InOrder
  <1>2. \A i \in 1..Len(s) : s[i] \in Entries
    BY <1>1
  <1>3. \A i \in 1..Len(s) : s[i].key \in Keys /\ s[i].at \in Nat
    BY <1>2 DEF Entries
  <1> QED BY <1>1, <1>2, <1>3 DEF InOrder

\* What is left of the cache after evictExpired: all but its first m entries,
\* which are just those that are too old.
LEMMA LiveIs ==
  ASSUME CacheInv
  PROVE  \E m \in 0..Len(seen) :
           /\ Hook!Live(seen) \in Seq(Entries) /\ Len(Hook!Live(seen)) = Len(seen) - m
           /\ \A i \in 1..Len(seen) - m : Hook!Live(seen)[i] = seen[i + m]
           /\ \A i \in 1..m : seen[i].at < now - TTL
           /\ \A i \in m + 1..Len(seen) : seen[i].at >= now - TTL
  <1> DEFINE fresh == {i \in DOMAIN seen : seen[i].at >= now - TTL}
             p == CHOOSE i \in fresh : \A j \in fresh : i <= j
             N == Len(seen)
  <1>0. /\ seen \in Seq(Entries) /\ N \in Nat /\ DOMAIN seen = 1..N
        /\ now \in Nat /\ TTL \in Nat
        /\ \A i \in 1..N : seen[i].at \in Nat /\ seen[i] \in Entries
        /\ \A i, j \in 1..N : i < j => seen[i].at <= seen[j].at
    BY ServicesConstants, EntriesAre DEF Hook!WebhooksAssumption, CacheInv
  <1>1. CASE fresh = {}
    <2>1. Hook!Live(seen) = <<>>
      BY <1>1 DEF Hook!Live
    <2>2. N \in 0..N /\ Len(seen) - N = 0
      BY <1>0
    <2>3. ASSUME NEW i \in 1..N PROVE seen[i].at < now - TTL
      <3>1. i \notin fresh
        BY <1>1
      <3> QED BY <1>0, <3>1
    <2>4. 1..Len(seen) - N = {} /\ N + 1..Len(seen) = {} /\ Len(<<>>) = 0 /\ <<>> \in Seq(Entries)
      BY <1>0
    <2> HIDE DEF fresh
    <2> QED BY <1>0, <2>1, <2>2, <2>3, <2>4
  <1>2. CASE fresh # {}
    <2>1. fresh \in SUBSET Nat
      BY <1>0
    <2>2. \E i \in fresh : \A j \in fresh : i <= j
      <3> HIDE DEF fresh
      <3> QED BY <1>2, <2>1, LeastNumber
    <2>3. p \in fresh /\ \A j \in fresh : p <= j
      <3> HIDE DEF fresh
      <3> QED BY <2>2
    <2>4. p \in 1..N /\ seen[p].at >= now - TTL
      BY <1>0, <2>3
    <2>5. Hook!Live(seen) = SubSeq(seen, p, N)
      BY <1>2 DEF Hook!Live
    <2>6. \A j \in 1..N : j < p => seen[j].at < now - TTL
      BY <1>0, <2>3
    <2>7. \A j \in 1..N : j >= p => seen[j].at >= now - TTL
      BY <1>0, <2>4
    <2> HIDE DEF p, fresh
    <2>8. /\ SubSeq(seen, p, N) \in Seq(Entries) /\ Len(SubSeq(seen, p, N)) = N - p + 1
          /\ \A i \in 1..N - p + 1 : SubSeq(seen, p, N)[i] = seen[p + i - 1]
      BY <1>0, <2>4, SubSeqProperties
    <2> DEFINE m == p - 1
    <2>9. /\ m \in 0..N /\ N - m = N - p + 1
          /\ \A i \in 1..N - m : p + i - 1 = i + m
      BY <1>0, <2>4
    <2>10. \A i \in 1..N - m : Hook!Live(seen)[i] = seen[i + m]
      BY <2>5, <2>8, <2>9
    <2>11. /\ \A i \in 1..m : seen[i].at < now - TTL
           /\ \A i \in m + 1..N : seen[i].at >= now - TTL
      BY <1>0, <2>4, <2>6, <2>7
    <2> HIDE DEF m
    <2> QED BY <2>5, <2>8, <2>9, <2>10, <2>11
  <1> QED BY <1>1, <1>2

\* Dropping the entries that are too old leaves the invariant of the cache, and
\* every entry that is left is young enough.
LEMMA LiveKeeps ==
  ASSUME CacheInv
  PROVE  /\ InOrder(Hook!Live(seen), now) /\ Len(Hook!Live(seen)) <= MaxSeen
         /\ Present(Hook!Live(seen), lastSeen, since) /\ Absent(Hook!Live(seen), lastSeen, since, now)
         /\ \A i \in 1..Len(Hook!Live(seen)) : Hook!Live(seen)[i].at >= now - TTL
  <1> DEFINE u == Hook!Live(seen)
  <1>0. /\ seen \in Seq(Entries) /\ Len(seen) \in Nat /\ now \in Nat /\ TTL \in Nat
        /\ Len(seen) <= MaxSeen /\ MaxSeen \in Nat
        /\ InOrder(seen, now) /\ Present(seen, lastSeen, since) /\ Absent(seen, lastSeen, since, now)
    BY ServicesConstants DEF Hook!WebhooksAssumption, CacheInv, InOrder
  <1>1. PICK m \in 0..Len(seen) :
           /\ u \in Seq(Entries) /\ Len(u) = Len(seen) - m
           /\ \A i \in 1..Len(seen) - m : u[i] = seen[i + m]
           /\ \A i \in 1..m : seen[i].at < now - TTL
           /\ \A i \in m + 1..Len(seen) : seen[i].at >= now - TTL
    BY LiveIs
  <1> HIDE DEF u
  <1>2. \A i \in 1..Len(u) : i + m \in m + 1..Len(seen) /\ i + m \in 1..Len(seen) /\ u[i] = seen[i + m]
    BY <1>0, <1>1
  <1>3. InOrder(u, now)
    <2>1. \A i \in 1..Len(u) : u[i].at <= now
      BY <1>0, <1>2 DEF InOrder
    <2>2. ASSUME NEW i \in 1..Len(u), NEW j \in 1..Len(u), i < j
          PROVE  u[i].at <= u[j].at /\ u[i].key # u[j].key
      <3>1. i + m \in 1..Len(seen) /\ j + m \in 1..Len(seen) /\ i + m < j + m
        BY <1>0, <1>1, <1>2, <2>2
      <3> QED BY <1>0, <1>2, <3>1 DEF InOrder
    <2> QED BY <1>1, <2>1, <2>2 DEF InOrder
  <1>4. ASSUME NEW i \in 1..Len(u) PROVE After(u, i) = After(seen, i + m)
    <2>1. ASSUME NEW k, k \in After(u, i) PROVE k \in After(seen, i + m)
      <3>1. PICK j \in i + 1..Len(u) : k = u[j].key
        BY <2>1 DEF After
      <3>2. j + m \in (i + m) + 1..Len(seen) /\ u[j] = seen[j + m]
        BY <1>0, <1>1, <1>4, <3>1
      <3> QED BY <3>1, <3>2 DEF After
    <2>2. ASSUME NEW k, k \in After(seen, i + m) PROVE k \in After(u, i)
      <3>1. PICK j \in (i + m) + 1..Len(seen) : k = seen[j].key
        BY <2>2 DEF After
      <3>2. j - m \in i + 1..Len(u) /\ u[j - m] = seen[j]
        BY <1>0, <1>1, <1>4, <3>1
      <3> QED BY <3>1, <3>2 DEF After
    <2> QED BY <2>1, <2>2
  <1>5. Present(u, lastSeen, since)
    BY <1>0, <1>2, <1>4 DEF Present
  <1>6. \A i \in 1..Len(u) : u[i].at >= now - TTL
    BY <1>1, <1>2
  <1>7. ASSUME NEW k \in Keys, Hook!Holds(seen, k), ~Hook!Holds(u, k) PROVE lastSeen[k] < now - TTL
    <2>1. PICK i \in 1..Len(seen) : seen[i].key = k
      BY <1>0, <1>7 DEF Hook!Holds
    <2>2. i \in 1..m
      <3>1. SUFFICES ASSUME i > m PROVE FALSE
        BY <1>0, <1>1, <3>1
      <3>2. i - m \in 1..Len(u) /\ u[i - m] = seen[i]
        BY <1>0, <1>1, <3>1
      <3>3. DOMAIN u = 1..Len(u)
        BY <1>1
      <3> QED BY <1>7, <2>1, <3>2, <3>3 DEF Hook!Holds
    <2> QED BY <1>0, <1>1, <2>1, <2>2 DEF Present
  <1>8. Absent(u, lastSeen, since, now)
    BY <1>0, <1>7 DEF Absent
  <1>9. Len(u) <= MaxSeen
    BY <1>0, <1>1
  <1> QED BY <1>3, <1>5, <1>6, <1>8, <1>9 DEF u

\* Different keys are counted by their places.
LEMMA AfterCounts ==
  ASSUME NEW s, NEW n, InOrder(s, n), NEW i \in 1..Len(s)
  PROVE  IsFiniteSet(After(s, i)) /\ Cardinality(After(s, i)) = Len(s) - i
  <1>0. /\ s \in Seq(Entries) /\ Len(s) \in Nat /\ i \in Nat /\ Len(s) - i \in Nat
        /\ \A a, b \in 1..Len(s) : a < b => s[a].key # s[b].key
    BY DEF InOrder
  <1> DEFINE f == [j \in 1..Len(s) - i |-> s[i + j].key]
  <1>1. \A j \in 1..Len(s) - i : f[j] = s[i + j].key /\ i + j \in i + 1..Len(s) /\ i + j \in 1..Len(s)
    BY <1>0
  <1>2. f \in [1..Len(s) - i -> After(s, i)]
    BY <1>1 DEF After
  <1>3. \A a, b \in 1..Len(s) - i : f[a] = f[b] => a = b
    <2>1. SUFFICES ASSUME NEW a \in 1..Len(s) - i, NEW b \in 1..Len(s) - i, a < b
                   PROVE  f[a] # f[b]
      BY <1>0, <2>1
    <2>2. i + a \in 1..Len(s) /\ i + b \in 1..Len(s) /\ i + a < i + b
      BY <1>0, <2>1
    <2> QED BY <1>0, <1>1, <2>2
  <1>4. \A k \in After(s, i) : \E j \in 1..Len(s) - i : f[j] = k
    <2>1. SUFFICES ASSUME NEW k \in After(s, i) PROVE \E j \in 1..Len(s) - i : f[j] = k
      BY <2>1
    <2>2. PICK h \in i + 1..Len(s) : k = s[h].key
      BY DEF After
    <2>3. h - i \in 1..Len(s) - i /\ i + (h - i) = h
      BY <1>0
    <2> QED BY <1>1, <2>2, <2>3
  <1> HIDE DEF f
  <1>5. f \in Bijection(1..Len(s) - i, After(s, i))
    BY <1>2, <1>3, <1>4 DEF Bijection, Injection, Surjection, IsInjective
  <1>6. ExistsBijection(1..Len(s) - i, After(s, i))
    BY <1>5 DEF ExistsBijection
  <1> QED BY <1>0, <1>6, FS_CountingElements, FS_NatBijection

\* The cardinality of the instance is that of the library.
LEMMA SameCount == \A S : Hook!Cardinality(S) = Cardinality(S)
  BY DEF Hook!Cardinality, Cardinality

\* What a check asks the cache is what the history says.
LEMMA Remembers ==
  ASSUME CacheInv, NEW k \in Keys
  PROVE  Hook!Holds(Hook!Live(seen), k) <=> Hook!Remembered(k)
  <1> DEFINE u == Hook!Live(seen)
  <1>0. /\ InOrder(u, now) /\ Len(u) <= MaxSeen
        /\ Present(u, lastSeen, since) /\ Absent(u, lastSeen, since, now)
        /\ \A i \in 1..Len(u) : u[i].at >= now - TTL
    BY LiveKeeps
  <1>1. /\ now \in Nat /\ TTL \in Nat /\ MaxSeen \in Nat /\ lastSeen[k] \in Nat \cup {-1}
    BY ServicesConstants DEF Hook!WebhooksAssumption, CacheInv, Hook!Never
  <1>2. u \in Seq(Entries)
    BY <1>0 DEF InOrder
  <1> HIDE DEF u
  <1>3. ASSUME Hook!Holds(u, k) PROVE Hook!Remembered(k)
    <2>1. PICK i \in 1..Len(u) : u[i].key = k
      BY <1>2, <1>3 DEF Hook!Holds
    <2>2. u[i].at \in Nat
      BY <1>0, EntriesAre
    <2>3. lastSeen[k] = u[i].at /\ lastSeen[k] # Hook!Never /\ lastSeen[k] >= now - TTL
      BY <1>0, <2>1, <2>2 DEF Present, Hook!Never
    <2>4. since[k] = After(u, i)
      BY <1>0, <2>1 DEF Present
    <2>5. Cardinality(since[k]) = Len(u) - i
      BY <1>0, <2>4, AfterCounts
    <2>6. Len(u) \in Nat
      BY <1>2
    <2>7. Cardinality(since[k]) < MaxSeen
      BY <1>0, <1>1, <2>5, <2>6
    <2> QED BY SameCount, <2>3, <2>7 DEF Hook!Remembered
  <1>4. ASSUME Hook!Remembered(k) PROVE Hook!Holds(u, k)
    <2>1. /\ lastSeen[k] # Hook!Never /\ ~(lastSeen[k] < now - TTL)
      BY SameCount, <1>1, <1>4 DEF Hook!Remembered, Hook!Never
    <2>2. CASE Cardinality(since[k]) >= MaxSeen
      <3>1. IsFiniteSet(since[k])
        BY DEF CacheInv
      <3>2. Cardinality(since[k]) \in Nat
        BY <3>1, FS_CardinalityType
      <3> QED BY SameCount, <1>1, <1>4, <2>2, <3>2 DEF Hook!Remembered
    <2> QED BY <1>0, <2>1, <2>2 DEF Absent
  <1> QED BY <1>3, <1>4 DEF u

\* The entries without that of k.
Rest(s, k) == IF Hook!Holds(s, k) THEN Hook!Deleted(s, k) ELSE s

\* Map.delete takes one entry out, and the others keep their order.
LEMMA DeletedIs ==
  ASSUME NEW s, NEW n, InOrder(s, n), NEW k, Hook!Holds(s, k)
  PROVE  \E p \in 1..Len(s) :
           /\ s[p].key = k
           /\ Hook!Deleted(s, k) \in Seq(Entries) /\ Len(Hook!Deleted(s, k)) = Len(s) - 1
           /\ \A i \in 1..Len(s) - 1 : Hook!Deleted(s, k)[i] = IF i < p THEN s[i] ELSE s[i + 1]
  <1> DEFINE p == CHOOSE i \in DOMAIN s : s[i].key = k
             N == Len(s)
             a == SubSeq(s, 1, p - 1)
             b == SubSeq(s, p + 1, N)
  <1>1. s \in Seq(Entries) /\ N \in Nat /\ DOMAIN s = 1..N /\ \A i \in 1..N : s[i] \in Entries
    BY DEF InOrder
  <1>2. p \in 1..N /\ s[p].key = k
    BY <1>1 DEF Hook!Holds
  <1>3. Hook!Deleted(s, k) = a \o b
    BY DEF Hook!Deleted, Hook!RemoveAt
  <1> HIDE DEF p
  <1>4. /\ a \in Seq(Entries) /\ Len(a) = p - 1 /\ \A i \in 1..p - 1 : a[i] = s[i]
    <2>1. \A i \in 1..p - 1 : s[i] \in Entries
      BY <1>1, <1>2
    <2>2. /\ a \in Seq(Entries) /\ Len(a) = IF 1 <= p - 1 THEN (p - 1) - 1 + 1 ELSE 0
          /\ \A i \in 1..(p - 1) - 1 + 1 : a[i] = s[1 + i - 1]
      BY <1>2, <2>1, SubSeqProperties
    <2> QED BY <1>2, <2>2
  <1>5. /\ b \in Seq(Entries) /\ Len(b) = N - p /\ \A i \in 1..N - p : b[i] = s[p + i]
    <2>1. \A i \in p + 1..N : s[i] \in Entries
      BY <1>1, <1>2
    <2>2. /\ b \in Seq(Entries) /\ Len(b) = IF p + 1 <= N THEN N - (p + 1) + 1 ELSE 0
          /\ \A i \in 1..N - (p + 1) + 1 : b[i] = s[(p + 1) + i - 1]
      <3> DEFINE lo == p + 1
                 hi == N
      <3>1. lo \in Int /\ hi \in Int /\ \A i \in lo..hi : s[i] \in Entries
        BY <1>1, <1>2, <2>1
      <3> HIDE DEF lo, hi
      <3>2. /\ SubSeq(s, lo, hi) \in Seq(Entries)
            /\ Len(SubSeq(s, lo, hi)) = IF lo <= hi THEN hi - lo + 1 ELSE 0
            /\ \A i \in 1..hi - lo + 1 : SubSeq(s, lo, hi)[i] = s[lo + i - 1]
        BY ONLY <3>1, SubSeqProperties
      <3> QED BY ONLY <3>2 DEF lo, hi, b
    <2> HIDE DEF b, N
    <2>3. p \in Nat /\ p <= N /\ N \in Nat
      BY <1>1, <1>2
    <2>4. /\ Len(b) = N - p /\ N - (p + 1) + 1 = N - p
          /\ \A i \in 1..N - p : (p + 1) + i - 1 = p + i
      BY ONLY <2>2, <2>3
    <2> QED BY ONLY <2>2, <2>4
  <1> HIDE DEF a, b
  <1>6. /\ a \o b \in Seq(Entries) /\ Len(a \o b) = Len(a) + Len(b)
        /\ \A i \in 1..Len(a) + Len(b) : (a \o b)[i] = IF i <= Len(a) THEN a[i] ELSE b[i - Len(a)]
    BY <1>4, <1>5, ConcatProperties
  <1>7. Len(a) + Len(b) = N - 1
    BY <1>1, <1>2, <1>4, <1>5
  <1>8. ASSUME NEW i \in 1..N - 1 PROVE (a \o b)[i] = IF i < p THEN s[i] ELSE s[i + 1]
    <2>1. CASE i < p
      BY <1>1, <1>2, <1>4, <1>6, <1>7, <2>1
    <2>2. CASE ~(i < p)
      <3>1. i - (p - 1) \in 1..N - p /\ p + (i - (p - 1)) = i + 1 /\ ~(i <= p - 1)
        BY <1>1, <1>2, <2>2
      <3> QED BY <1>4, <1>5, <1>6, <1>7, <2>2, <3>1
    <2> QED BY <2>1, <2>2
  <1> QED BY <1>2, <1>3, <1>6, <1>7, <1>8

\* The entries without that of k: in order, one less if k was there, and each
\* still says when its key was last checked and which came after it.
LEMMA RestIs ==
  ASSUME NEW u, NEW n, NEW last, NEW others, NEW k, InOrder(u, n), Present(u, last, others)
  PROVE  /\ InOrder(Rest(u, k), n)
         /\ Len(Rest(u, k)) = IF Hook!Holds(u, k) THEN Len(u) - 1 ELSE Len(u)
         /\ \A i \in 1..Len(Rest(u, k)) :
              LET x == Rest(u, k)[i].key IN
              /\ x # k /\ last[x] = Rest(u, k)[i].at
              /\ others[x] \cup {k} = After(Rest(u, k), i) \cup {k}
         /\ \A x : Hook!Holds(u, x) /\ x # k => Hook!Holds(Rest(u, k), x)
  <1>0. /\ u \in Seq(Entries) /\ Len(u) \in Nat /\ DOMAIN u = 1..Len(u)
        /\ \A i \in 1..Len(u) : u[i].at \in Nat /\ u[i].at <= n
        /\ \A i, j \in 1..Len(u) : i < j => u[i].at <= u[j].at /\ u[i].key # u[j].key
        /\ \A i \in 1..Len(u) : last[u[i].key] = u[i].at /\ others[u[i].key] = After(u, i)
    BY EntriesAre DEF Present
  <1>1. CASE ~Hook!Holds(u, k)
    <2>1. Rest(u, k) = u
      BY <1>1 DEF Rest
    <2>2. \A i \in 1..Len(u) : u[i].key # k
      BY <1>0, <1>1 DEF Hook!Holds
    <2> QED BY <1>0, <1>1, <2>1, <2>2
  <1>2. CASE Hook!Holds(u, k)
    <2> DEFINE w == Rest(u, k)
    <2>1. PICK p \in 1..Len(u) :
            /\ u[p].key = k
            /\ w \in Seq(Entries) /\ Len(w) = Len(u) - 1
            /\ \A i \in 1..Len(u) - 1 : w[i] = IF i < p THEN u[i] ELSE u[i + 1]
      BY <1>2, DeletedIs DEF Rest
    <2> HIDE DEF w
    <2>2. DOMAIN w = 1..Len(w) /\ Len(w) \in Nat
      BY <2>1
    <2>3. InOrder(w, n)
      <3>1. ASSUME NEW i \in 1..Len(w)
            PROVE  w[i].at <= n
        BY <1>0, <2>1, <3>1
      <3>2. ASSUME NEW i \in 1..Len(w), NEW j \in 1..Len(w), i < j
            PROVE  w[i].at <= w[j].at /\ w[i].key # w[j].key
        <4> DEFINE I == IF i < p THEN i ELSE i + 1
                   J == IF j < p THEN j ELSE j + 1
        <4>1. I \in 1..Len(u) /\ J \in 1..Len(u) /\ I < J /\ w[i] = u[I] /\ w[j] = u[J]
          BY <1>0, <2>1, <3>2
        <4> HIDE DEF I, J
        <4> QED BY <1>0, <4>1
      <3> QED BY <2>1, <3>1, <3>2 DEF InOrder
    <2>4. ASSUME NEW i \in 1..Len(w)
          PROVE  /\ w[i].key # k /\ last[w[i].key] = w[i].at
                 /\ others[w[i].key] \cup {k} = After(w, i) \cup {k}
      <3> DEFINE I == IF i < p THEN i ELSE i + 1
      <3>1. I \in 1..Len(u) /\ w[i] = u[I] /\ I # p
        BY <1>0, <2>1, <2>4
      <3>2. w[i].key # k /\ last[w[i].key] = w[i].at /\ others[w[i].key] = After(u, I)
        <4> HIDE DEF I
        <4>1. I < p \/ p < I
          BY <3>1
        <4> QED BY <1>0, <2>1, <3>1, <4>1
      <3>3. ASSUME NEW x \in After(u, I), x # k PROVE x \in After(w, i)
        <4>1. PICK h \in I + 1..Len(u) : x = u[h].key
          BY DEF After
        <4>2. h # p
          BY <2>1, <3>3, <4>1
        <4> DEFINE j == IF h < p THEN h ELSE h - 1
        <4>3. I \in 1..Len(u) /\ h \in 1..Len(u) /\ I < h /\ I = (IF i < p THEN i ELSE i + 1)
          BY <1>0, <3>1, <4>1
        <4>4. j \in 1..Len(w) /\ i < j
          <5> HIDE DEF I
          <5> QED BY <1>0, <2>1, <4>2, <4>3
        <4>5. w[j] = u[h]
          <5>1. CASE h < p
            BY <2>1, <4>4, <5>1
          <5>2. CASE p < h
            <6>1. j = h - 1 /\ ~(j < p) /\ j + 1 = h
              BY <4>3, <5>2
            <6> HIDE DEF j, I
            <6> QED BY <2>1, <4>4, <6>1
          <5> HIDE DEF j, I
          <5> QED BY <1>0, <4>2, <4>3, <5>1, <5>2
        <4>6. j \in i + 1..Len(w) /\ w[j] = u[h]
          <5> HIDE DEF j, I
          <5> QED BY <2>1, <4>4, <4>5
        <4> HIDE DEF j
        <4> QED BY <4>1, <4>6 DEF After
      <3>4. ASSUME NEW x \in After(w, i) PROVE x \in After(u, I)
        <4>1. PICK j \in i + 1..Len(w) : x = w[j].key
          BY DEF After
        <4> DEFINE h == IF j < p THEN j ELSE j + 1
        <4>2. j \in 1..Len(w) /\ i < j
          BY <2>1, <4>1
        <4>3. h \in 1..Len(u) /\ I < h
          BY <1>0, <2>1, <2>4, <4>2
        <4>4. w[j] = u[h]
          <5> HIDE DEF I
          <5>1. j \in 1..Len(u) - 1
            BY <2>1, <4>2
          <5> QED BY <2>1, <5>1
        <4>5. h \in I + 1..Len(u) /\ w[j] = u[h]
          <5>1. I \in Nat
            BY <3>1
          <5> HIDE DEF h, I
          <5> QED BY <1>0, <4>3, <4>4, <5>1
        <4> HIDE DEF h, I
        <4> QED BY <4>1, <4>5 DEF After
      <3> HIDE DEF I
      <3> QED BY <3>2, <3>3, <3>4
    <2>5. ASSUME NEW x, Hook!Holds(u, x), x # k PROVE Hook!Holds(w, x)
      <3>1. PICK h \in 1..Len(u) : u[h].key = x
        BY <1>0, <2>5 DEF Hook!Holds
      <3> DEFINE j == IF h < p THEN h ELSE h - 1
      <3>2. h # p
        BY <2>1, <2>5, <3>1
      <3>3. j \in 1..Len(w)
        BY <1>0, <2>1, <3>1, <3>2
      <3>4. w[j] = u[h]
        <4>1. CASE h < p
          BY <2>1, <3>3, <4>1
        <4>2. CASE p < h
          <5>1. j = h - 1 /\ ~(j < p) /\ j + 1 = h
            BY <3>1, <4>2
          <5> HIDE DEF j
          <5> QED BY <2>1, <3>3, <5>1
        <4> HIDE DEF j
        <4> QED BY <1>0, <3>1, <3>2, <4>1, <4>2
      <3> HIDE DEF j
      <3> QED BY <2>2, <3>1, <3>3, <3>4 DEF Hook!Holds
    <2> QED BY <1>2, <2>1, <2>3, <2>4, <2>5 DEF w
  <1> QED BY <1>1, <1>2

\* A cache without key k, and the history before and after a check of it.
Without(w, k, last, others) ==
  \A i \in 1..Len(w) :
    /\ w[i].key # k /\ last[w[i].key] = w[i].at
    /\ others[w[i].key] \cup {k} = After(w, i) \cup {k}
AskedFor(k, n, last, others, l, o) ==
  /\ l[k] = n /\ o[k] = {}
  /\ \A x \in Keys : x # k => l[x] = last[x] /\ o[x] = others[x] \cup {k}

\* The entries with that of k put at the end.
Stamped(w, k, n) == Append(w, [key |-> k, at |-> n])

\* The key that is asked for becomes the last entry.
LEMMA StampedIs ==
  ASSUME NEW w, NEW n \in Nat, NEW last, NEW others, NEW k \in Keys, InOrder(w, n),
         Without(w, k, last, others), NEW l, NEW o, AskedFor(k, n, last, others, l, o)
  PROVE  /\ InOrder(Stamped(w, k, n), n) /\ Len(Stamped(w, k, n)) = Len(w) + 1
         /\ Present(Stamped(w, k, n), l, o)
         /\ Hook!Holds(Stamped(w, k, n), k) /\ \A x : Hook!Holds(w, x) => Hook!Holds(Stamped(w, k, n), x)
  <1> DEFINE e == [key |-> k, at |-> n]
             t == Stamped(w, k, n)
  <1>0. /\ w \in Seq(Entries) /\ Len(w) \in Nat /\ e \in Entries /\ DOMAIN w = 1..Len(w)
        /\ \A i \in 1..Len(w) : w[i].key \in Keys /\ w[i].at <= n
        /\ \A i, j \in 1..Len(w) : i < j => w[i].at <= w[j].at /\ w[i].key # w[j].key
        /\ e.key = k /\ e.at = n /\ t = Append(w, e)
    <2>1. e \in Entries
      BY DEF Entries
    <2> QED BY <2>1, EntriesAre DEF Stamped
  <1> HIDE DEF e, t
  <1>1. /\ t \in Seq(Entries) /\ Len(t) = Len(w) + 1 /\ DOMAIN t = 1..Len(w) + 1
        /\ \A i \in 1..Len(w) : t[i] = w[i]
        /\ t[Len(w) + 1] = e
    BY <1>0, AppendProperties
  <1>2. \A i \in 1..Len(t) : (i \in 1..Len(w) /\ t[i] = w[i]) \/ (i = Len(w) + 1 /\ t[i] = e)
    BY <1>0, <1>1
  <1>3. InOrder(t, n)
    <2>1. \A i \in 1..Len(t) : t[i].at <= n
      BY <1>0, <1>2
    <2>2. ASSUME NEW i \in 1..Len(t), NEW j \in 1..Len(t), i < j
          PROVE  t[i].at <= t[j].at /\ t[i].key # t[j].key
      <3>1. i \in 1..Len(w) /\ t[i] = w[i]
        BY <1>0, <1>1, <2>2
      <3>2. CASE j \in 1..Len(w)
        BY <1>0, <1>1, <2>2, <3>1, <3>2
      <3>3. CASE j = Len(w) + 1
        <4>1. w[i].at <= n /\ w[i].key # k /\ t[j] = e
          BY <1>0, <1>1, <3>1, <3>3 DEF Without
        <4> QED BY <1>0, <3>1, <4>1
      <3> QED BY <1>2, <3>2, <3>3
    <2> QED BY <1>1, <2>1, <2>2 DEF InOrder
  <1>4. ASSUME NEW i \in 1..Len(w) PROVE After(t, i) = After(w, i) \cup {k}
    <2>1. ASSUME NEW x \in After(t, i) PROVE x \in After(w, i) \cup {k}
      <3>1. PICK j \in i + 1..Len(t) : x = t[j].key
        BY DEF After
      <3>2. CASE j = Len(w) + 1
        BY <1>0, <1>1, <3>1, <3>2
      <3>3. CASE j # Len(w) + 1
        <4> HIDE DEF Hook!Holds
        <4>1. j \in i + 1..Len(w) /\ j \in 1..Len(w)
          <5>1. j \in i + 1..Len(w) + 1 /\ i \in 1..Len(w)
            BY <1>1, <1>4, <3>1
          <5>2. Len(w) \in Nat
            BY <1>0
          <5> QED BY <3>3, <5>1, <5>2
        <4>2. x = w[j].key
          BY <1>1, <3>1, <4>1
        <4> QED BY <4>1, <4>2 DEF After
      <3> QED BY <3>2, <3>3
    <2>2. ASSUME NEW x \in After(w, i) PROVE x \in After(t, i)
      <3>1. PICK j \in i + 1..Len(w) : x = w[j].key
        BY DEF After
      <3>2. j \in i + 1..Len(t) /\ t[j] = w[j]
        BY <1>0, <1>1, <1>4, <3>1
      <3> QED BY <3>1, <3>2 DEF After
    <2>3. k \in After(t, i)
      <3>1. Len(w) + 1 \in i + 1..Len(t) /\ t[Len(w) + 1].key = k
        BY <1>0, <1>1, <1>4
      <3> QED BY <3>1 DEF After
    <2> QED BY <2>1, <2>2, <2>3
  <1>5. Present(t, l, o)
    <2>1. ASSUME NEW i \in 1..Len(w) PROVE l[t[i].key] = t[i].at /\ o[t[i].key] = After(t, i)
      <3>1. /\ t[i] = w[i] /\ w[i].key \in Keys /\ w[i].key # k
            /\ last[w[i].key] = w[i].at /\ others[w[i].key] \cup {k} = After(w, i) \cup {k}
        BY <1>0, <1>1 DEF Without
      <3>2. l[w[i].key] = last[w[i].key] /\ o[w[i].key] = others[w[i].key] \cup {k}
        BY <3>1 DEF AskedFor
      <3>3. After(t, i) = After(w, i) \cup {k}
        BY <1>4
      <3> QED BY <3>1, <3>2, <3>3
    <2>2. After(t, Len(w) + 1) = {}
      BY <1>0, <1>1 DEF After
    <2>3. l[e.key] = e.at /\ o[e.key] = {}
      BY <1>0 DEF AskedFor
    <2> QED BY <1>1, <1>2, <2>1, <2>2, <2>3 DEF Present
  <1>6. Hook!Holds(t, k) /\ \A x : Hook!Holds(w, x) => Hook!Holds(t, x)
    <2>1. Len(w) + 1 \in DOMAIN t /\ \A i \in 1..Len(w) : i \in DOMAIN t
      BY <1>0, <1>1
    <2> QED BY <1>0, <1>1, <2>1 DEF Hook!Holds
  <1> QED BY <1>1, <1>3, <1>5, <1>6 DEF t

\* The oldest entry goes when there are too many: MaxSeen others came after it.
LEMMA TailIs ==
  ASSUME NEW t, NEW n, NEW l, NEW o, InOrder(t, n), Present(t, l, o), Len(t) = MaxSeen + 1
  PROVE  /\ InOrder(Tail(t), n) /\ Len(Tail(t)) = MaxSeen /\ Present(Tail(t), l, o)
         /\ \A x : Hook!Holds(t, x) => Hook!Holds(Tail(t), x) \/ Cardinality(o[x]) >= MaxSeen
  <1> DEFINE v == Tail(t)
  <1>0. /\ t \in Seq(Entries) /\ MaxSeen \in Nat /\ Len(t) = MaxSeen + 1 /\ DOMAIN t = 1..MaxSeen + 1
        /\ t # <<>>
    BY ServicesConstants DEF Hook!WebhooksAssumption, InOrder
  <1>1. /\ v \in Seq(Entries) /\ Len(v) = MaxSeen /\ DOMAIN v = 1..MaxSeen
        /\ \A i \in 1..MaxSeen : v[i] = t[i + 1]
    BY <1>0, HeadTailProperties
  <1> HIDE DEF v
  <1>2. \A i \in 1..MaxSeen : i + 1 \in 1..Len(t)
    BY <1>0
  <1>3. InOrder(v, n)
    <2>0. /\ \A i \in 1..Len(t) : t[i].at <= n
          /\ \A i, j \in 1..Len(t) : i < j => t[i].at <= t[j].at /\ t[i].key # t[j].key
      BY EntriesAre
    <2>1. ASSUME NEW i \in 1..MaxSeen PROVE v[i].at <= n
      BY <1>1, <1>2, <2>0
    <2>2. ASSUME NEW i \in 1..MaxSeen, NEW j \in 1..MaxSeen, i < j
          PROVE  v[i].at <= v[j].at /\ v[i].key # v[j].key
      <3>1. i + 1 \in 1..Len(t) /\ j + 1 \in 1..Len(t) /\ i + 1 < j + 1
        BY <1>2, <2>2
      <3>2. v[i] = t[i + 1] /\ v[j] = t[j + 1]
        BY <1>1
      <3> QED BY <2>0, <3>1, <3>2
    <2> QED BY <1>1, <2>1, <2>2 DEF InOrder
  <1>4. ASSUME NEW i \in 1..MaxSeen PROVE After(v, i) = After(t, i + 1)
    <2>1. ASSUME NEW x \in After(v, i) PROVE x \in After(t, i + 1)
      <3>1. PICK j \in i + 1..MaxSeen : x = v[j].key
        BY <1>1 DEF After
      <3>2. j + 1 \in (i + 1) + 1..Len(t) /\ v[j] = t[j + 1]
        BY <1>0, <1>1, <1>4, <3>1
      <3> QED BY <3>1, <3>2 DEF After
    <2>2. ASSUME NEW x \in After(t, i + 1) PROVE x \in After(v, i)
      <3>1. PICK j \in (i + 1) + 1..Len(t) : x = t[j].key
        BY DEF After
      <3>2. j - 1 \in i + 1..Len(v) /\ v[j - 1] = t[j]
        BY <1>0, <1>1, <1>4, <3>1
      <3> QED BY <3>1, <3>2 DEF After
    <2> QED BY <2>1, <2>2
  <1>5. Present(v, l, o)
    BY <1>0, <1>1, <1>2, <1>4 DEF Present
  <1>6. ASSUME NEW x, Hook!Holds(t, x), ~Hook!Holds(v, x) PROVE Cardinality(o[x]) >= MaxSeen
    <2>1. PICK i \in 1..MaxSeen + 1 : t[i].key = x
      BY <1>0, <1>6 DEF Hook!Holds
    <2>2. i = 1
      <3>1. SUFFICES ASSUME i # 1 PROVE FALSE
        BY <3>1
      <3>2. i - 1 \in 1..MaxSeen /\ v[i - 1] = t[i]
        BY <1>0, <1>1, <3>1
      <3> QED BY <1>1, <1>6, <2>1, <3>2 DEF Hook!Holds
    <2>3. 1 \in 1..Len(t) /\ Len(t) - 1 = MaxSeen
      BY <1>0
    <2>4. o[x] = After(t, 1)
      BY <2>1, <2>2, <2>3 DEF Present
    <2>5. Cardinality(After(t, 1)) = MaxSeen
      BY <2>3, AfterCounts
    <2> QED BY <1>0, <2>4, <2>5
  <1> QED BY <1>1, <1>3, <1>5, <1>6 DEF v

\* A check puts its key at the end and keeps the invariant of the cache.
LEMMA AcceptKeeps ==
  ASSUME CacheInv, NEW k \in Keys, seen' = Hook!Checked(seen, k), UNCHANGED now,
         lastSeen' = [lastSeen EXCEPT ![k] = now],
         since' = [x \in Keys |-> IF x = k THEN {} ELSE since[x] \cup {k}]
  PROVE  CacheInv'
  <1> DEFINE u == Hook!Live(seen)
             w == Rest(u, k)
             e == [key |-> k, at |-> now]
             t == Append(w, e)
  <1>0. /\ now \in Nat /\ TTL \in Nat /\ MaxSeen \in Nat \ {0}
        /\ lastSeen \in [Keys -> Nat \cup {Hook!Never}] /\ since \in [Keys -> SUBSET Keys]
        /\ \A x \in Keys : IsFiniteSet(since[x])
    BY ServicesConstants DEF Hook!WebhooksAssumption, CacheInv
  <1>1. /\ InOrder(u, now) /\ Len(u) <= MaxSeen
        /\ Present(u, lastSeen, since) /\ Absent(u, lastSeen, since, now)
    BY LiveKeeps
  <1>2. seen' = IF Hook!Holds(u, k) THEN t ELSE IF Len(t) > MaxSeen THEN Tail(t) ELSE t
    BY DEF Hook!Checked, Rest, Hook!Stamp
  <1> HIDE DEF u
  <1>3. /\ InOrder(w, now)
        /\ Len(w) = IF Hook!Holds(u, k) THEN Len(u) - 1 ELSE Len(u)
        /\ \A i \in 1..Len(w) :
              /\ w[i].key # k /\ lastSeen[w[i].key] = w[i].at
              /\ since[w[i].key] \cup {k} = After(w, i) \cup {k}
        /\ \A x : Hook!Holds(u, x) /\ x # k => Hook!Holds(w, x)
    BY <1>1, RestIs
  <1> HIDE DEF w
  <1>4. /\ lastSeen' \in [Keys -> Nat \cup {Hook!Never}] /\ since' \in [Keys -> SUBSET Keys]
        /\ lastSeen'[k] = now /\ since'[k] = {}
        /\ \A x \in Keys : x # k => lastSeen'[x] = lastSeen[x] /\ since'[x] = since[x] \cup {k}
    BY <1>0
  <1>5. /\ InOrder(t, now) /\ Len(t) = Len(w) + 1 /\ Present(t, lastSeen', since')
        /\ Hook!Holds(t, k) /\ \A x : Hook!Holds(w, x) => Hook!Holds(t, x)
    <2>1. t = Stamped(w, k, now)
      BY DEF Stamped
    <2> HIDE DEF t, e
    <2>2. AskedFor(k, now, lastSeen, since, lastSeen', since')
      BY <1>4 DEF AskedFor
    <2>4. Without(w, k, lastSeen, since)
      BY <1>3 DEF Without
    <2>5. now \in Nat /\ InOrder(w, now)
      BY <1>0, <1>3
    <2> QED BY <2>1, <2>2, <2>4, <2>5, StampedIs
  <1> HIDE DEF t, e
  <1>6. Len(u) \in Nat /\ Len(t) \in Nat
    BY <1>1, <1>5 DEF InOrder
  <1>7. \A x \in Keys : IsFiniteSet(since'[x])
    BY <1>0, <1>4, FS_EmptySet, FS_AddElement
  <1>8. ASSUME NEW x \in Keys, x # k
        PROVE  Cardinality(since[x]) >= MaxSeen => Cardinality(since'[x]) >= MaxSeen
    <2>1. /\ Cardinality(since[x]) \in Nat
          /\ Cardinality(since'[x]) = IF k \in since[x] THEN Cardinality(since[x]) ELSE Cardinality(since[x]) + 1
      BY <1>0, <1>4, <1>8, FS_CardinalityType, FS_AddElement
    <2> QED BY <1>0, <2>1
  <1>9. Absent(t, lastSeen', since', now)
    <2>1. SUFFICES ASSUME NEW x \in Keys, ~Hook!Holds(t, x)
                   PROVE  \/ lastSeen'[x] = Hook!Never \/ lastSeen'[x] < now - TTL
                          \/ Cardinality(since'[x]) >= MaxSeen
      BY <2>1 DEF Absent
    <2>2. x # k /\ ~Hook!Holds(u, x)
      BY <1>3, <1>5, <2>1
    <2> QED BY <1>1, <1>4, <1>8, <2>2 DEF Absent
  <1>10. CASE Len(t) <= MaxSeen
    <2>1. seen' = t
      BY <1>0, <1>2, <1>6, <1>10
    <2> QED BY <1>0, <1>4, <1>5, <1>7, <1>9, <1>10, <2>1 DEF CacheInv
  <1>11. CASE Len(t) > MaxSeen
    <2>1. ~Hook!Holds(u, k) /\ Len(t) = MaxSeen + 1 /\ seen' = Tail(t)
      BY <1>0, <1>1, <1>2, <1>3, <1>5, <1>6, <1>11
    <2>2. /\ InOrder(Tail(t), now) /\ Len(Tail(t)) = MaxSeen /\ Present(Tail(t), lastSeen', since')
          /\ \A x : Hook!Holds(t, x) => Hook!Holds(Tail(t), x) \/ Cardinality(since'[x]) >= MaxSeen
      BY <1>5, <2>1, TailIs
    <2>3. Absent(Tail(t), lastSeen', since', now)
      BY <1>9, <2>2 DEF Absent
    <2>4. Len(Tail(t)) <= MaxSeen
      BY <1>0, <2>2
    <2>5. /\ InOrder(seen', now') /\ Len(seen') <= MaxSeen /\ Present(seen', lastSeen', since')
          /\ Absent(seen', lastSeen', since', now') /\ now' \in Nat
      BY <1>0, <2>1, <2>2, <2>3, <2>4
    <2> QED BY <1>4, <1>7, <2>5 DEF CacheInv
  <1> QED BY <1>0, <1>6, <1>10, <1>11

\* Every step keeps the invariant of the cache.
LEMMA CacheNext ==
  ASSUME CacheInv, StoreTypes, [Hook!Next]_Hook!vars
  PROVE  CacheInv'
  <1>0. now \in Nat /\ TTL \in Nat /\ MaxSeen \in Nat \ {0}
    BY ServicesConstants DEF Hook!WebhooksAssumption, CacheInv
  <1>1. CASE UNCHANGED <<now, seen, lastSeen, since>>
    BY <1>1 DEF CacheInv
  <1>2. ASSUME NEW i \in Slots, Hook!Accept(i) PROVE CacheInv'
    <2>1. CASE reqs[i].key = NoKey
      BY <1>1, <1>2, <2>1 DEF Hook!Accept
    <2>2. CASE reqs[i].key # NoKey
      <3>1. reqs[i].key \in Keys
        BY <2>2 DEF StoreTypes
      <3> QED BY <1>2, <2>2, <3>1, AcceptKeeps DEF Hook!Accept
    <2> QED BY <2>1, <2>2
  <1>3. CASE Hook!Crash
    <2>1. /\ seen' = <<>> /\ lastSeen' = [k \in Keys |-> Hook!Never] /\ since' = [k \in Keys |-> {}]
          /\ now' = now
      BY <1>3 DEF Hook!Crash
    <2>2. /\ <<>> \in Seq(Entries) /\ Len(<<>>) = 0 /\ 1..0 = {}
      OBVIOUS
    <2>3. InOrder(<<>>, now) /\ Present(<<>>, lastSeen', since') /\ Absent(<<>>, lastSeen', since', now)
      BY <2>1, <2>2 DEF InOrder, Present, Absent
    <2>4. /\ lastSeen' \in [Keys -> Nat \cup {Hook!Never}] /\ since' \in [Keys -> SUBSET Keys]
          /\ \A k \in Keys : IsFiniteSet(since'[k])
      BY <2>1, FS_EmptySet
    <2> QED BY <1>0, <2>1, <2>2, <2>3, <2>4 DEF CacheInv
  <1>4. CASE Hook!Tick
    <2>1. now' = now + 1 /\ UNCHANGED <<seen, lastSeen, since>>
      BY <1>4 DEF Hook!Tick, Hook!history
    <2>2. InOrder(seen, now + 1)
      <3>1. InOrder(seen, now) /\ now < now + 1
        BY <1>0 DEF CacheInv
      <3>2. \A i \in 1..Len(seen) : seen[i].at <= now + 1
        BY <1>0, <3>1, EntriesAre
      <3> QED BY <3>1, <3>2 DEF InOrder
    <2>3. Absent(seen, lastSeen, since, now + 1)
      BY <1>0 DEF CacheInv, Absent, Hook!Never
    <2> QED BY <1>0, <2>1, <2>2, <2>3 DEF CacheInv
  <1> QED BY <1>1, <1>2, <1>3, <1>4
       DEF Hook!Next, Hook!Works, Hook!Apply, Hook!Settle, Hook!Change, Hook!Lookup,
           Hook!Reject, Hook!Test, Hook!Fired, Hook!Deliver, Hook!Boot,
           Hook!store, Hook!history, Hook!vars

\* The invariant of a webhook holds at the start ...
LEMMA HookBegins ==
  ASSUME Hook!Init
  PROVE  HookInv
  <1> USE ServicesConstants DEF Hook!WebhooksAssumption, Hook!Init, Hook!Free, Hook!Never
  <1>1. StoreTypes
    <2>1. /\ cache = [there |-> TRUE, enabled |-> TRUE, fireCount |-> 0] /\ file = cache
          /\ jobs = <<>> /\ reqs = [i \in Slots |-> [at |-> "free", key |-> NoKey]]
          /\ life = "up" /\ applied = FALSE /\ counted = 0
      OBVIOUS
    <2>2. cache \in Triggers
      BY <2>1 DEF Triggers
    <2>3. jobs \in Seq(Mutations)
      BY <2>1
    <2>4. reqs \in [Slots -> [at : {"free", "lookup", "body", "fire"}, key : Keys \cup {NoKey}]]
      BY <2>1
    <2>5. life \in {"up", "down"} /\ counted \in Nat /\ file \in Triggers
      BY <2>1, <2>2
    <2>6. applied \in BOOLEAN
      BY <2>1
    <2> QED BY <2>2, <2>3, <2>4, <2>5, <2>6 DEF StoreTypes
  <1>2. Stopped /\ Hook!CountIsExact
    BY DEF Stopped, Hook!CountIsExact
  <1>3. CacheInv
    <2>1. <<>> \in Seq(Entries) /\ Len(<<>>) = 0 /\ 1..0 = {}
      OBVIOUS
    <2>2. InOrder(<<>>, 0) /\ Present(<<>>, lastSeen, since) /\ Absent(<<>>, lastSeen, since, 0)
      BY <2>1 DEF InOrder, Present, Absent
    <2> QED BY <2>1, <2>2, FS_EmptySet DEF CacheInv
  <1> QED BY <1>1, <1>2, <1>3 DEF HookInv, StoreInv

\* Every step keeps the invariant of the store.
LEMMA StoreNext ==
  ASSUME StoreInv, [Hook!Next]_Hook!vars
  PROVE  StoreInv'
  <1>0. StoreTypes /\ Stopped /\ Hook!CountIsExact
    BY DEF StoreInv
  <1> DEFINE R == [at : {"free", "lookup", "body", "fire"}, key : Keys \cup {NoKey}]
  <1>a. Hook!Free \in R
    BY DEF Hook!Free
  <1>1. CASE Hook!Apply
    <2>1. /\ jobs # <<>> /\ jobs \in Seq(Mutations) /\ Head(jobs) \in Mutations
          /\ cache \in Triggers /\ counted \in Nat /\ life = "up"
          /\ UNCHANGED <<life, file, jobs, reqs>> /\ applied' = TRUE
          /\ cache' = Hook!Mutated(cache, Head(jobs))
          /\ counted' = IF Head(jobs).op = "record" /\ cache.there THEN counted + 1 ELSE counted
      BY <1>0, <1>1 DEF Hook!Apply, StoreTypes, Stopped
    <2>2. CASE Head(jobs) \in [op : {"record"}, count : {-1}]
      <3>1. cache' = IF cache.there THEN [cache EXCEPT !.fireCount = @ + 1] ELSE cache
        BY <2>1, <2>2 DEF Hook!Mutated
      <3> QED BY <1>0, <2>1, <2>2, <3>1 DEF StoreInv, StoreTypes, Stopped,
                 Hook!CountIsExact, Triggers
    <2>3. CASE Head(jobs) \in [op : {"enable"}, to : BOOLEAN]
      <3>1. cache' = IF cache.there THEN [cache EXCEPT !.enabled = Head(jobs).to] ELSE cache
        BY <2>1, <2>3 DEF Hook!Mutated
      <3> QED BY <1>0, <2>1, <2>3, <3>1 DEF StoreInv, StoreTypes, Stopped,
                 Hook!CountIsExact, Triggers
    <2>4. CASE Head(jobs) \in [op : {"delete"}]
      <3>1. cache' = Hook!NoTrigger
        BY <2>1, <2>4 DEF Hook!Mutated
      <3>2. cache' \in Triggers /\ ~cache'.there /\ Head(jobs).op # "record"
        BY <2>4, <3>1 DEF Hook!NoTrigger, Triggers
      <3> QED BY <1>0, <2>1, <3>2 DEF StoreInv, StoreTypes, Stopped, Hook!CountIsExact
    <2> QED BY <2>1, <2>2, <2>3, <2>4 DEF Mutations
  <1>2. ASSUME NEW ok \in BOOLEAN, Hook!Settle(ok) PROVE StoreInv'
    <2>1. /\ life = "up" /\ jobs' = Tail(jobs) /\ UNCHANGED <<life, cache, reqs, counted>>
          /\ applied' = FALSE /\ file' \in Triggers
      BY <1>0, <1>2 DEF Hook!Settle, StoreTypes, Stopped, Hook!history
    <2>2. jobs' \in Seq(Mutations)
      <3>1. CASE jobs = <<>>
        BY <1>0, <2>1, <3>1 DEF StoreTypes
      <3> QED BY <1>0, <2>1, <3>1 DEF StoreTypes
    <2> QED BY <1>0, <2>1, <2>2 DEF StoreInv, StoreTypes, Stopped, Hook!CountIsExact
  <1>3. ASSUME NEW job \in Mutations, life = "up", jobs' = Append(jobs, job),
               UNCHANGED <<life, cache, file, applied, counted>>, reqs' \in [Slots -> R]
        PROVE  StoreInv'
    <2>1. jobs' \in Seq(Mutations)
      BY <1>0, <1>3 DEF StoreTypes
    <2> QED BY <1>0, <1>3, <2>1 DEF StoreInv, StoreTypes, Stopped, Hook!CountIsExact
  <1>4. ASSUME NEW i \in Slots, NEW at \in {"free", "lookup", "body", "fire"}, Hook!To(i, at)
        PROVE  reqs' \in [Slots -> R]
    <2>1. reqs \in [Slots -> R]
      BY <1>0 DEF StoreTypes
    <2>2. reqs[i] \in R /\ [reqs[i] EXCEPT !.at = at] \in R
      BY <2>1
    <2> HIDE DEF R
    <2> QED BY <1>4, <1>a, <2>1, <2>2 DEF Hook!To
  <1>5. ASSUME UNCHANGED <<life, Hook!store, counted>>, reqs' \in [Slots -> R],
               life = "up"
        PROVE  StoreInv'
    BY <1>0, <1>5 DEF StoreInv, StoreTypes, Stopped, Hook!CountIsExact, Hook!store
  <1>6. \A i \in Slots : reqs[i].at # "free" => life = "up"
    BY <1>0 DEF StoreTypes, Stopped, Hook!Free
  <1>7. ASSUME NEW job, Hook!Change(job), job \in Mutations PROVE StoreInv'
    <2>1. reqs' \in [Slots -> R]
      BY <1>0, <1>7 DEF Hook!Change, StoreTypes
    <2> QED BY <1>3, <1>7, <2>1 DEF Hook!Change, Hook!history
  <1>8. ASSUME NEW i \in Slots, Hook!Fired(i) PROVE StoreInv'
    <2>1. Hook!RecordFire(cache) \in Mutations
      BY DEF Hook!RecordFire, Mutations
    <2> QED BY <1>3, <1>4, <1>6, <1>8, <2>1 DEF Hook!Fired, Hook!history
  <1>9. ASSUME NEW i \in Slots, Hook!Lookup(i) \/ Hook!Reject(i) \/ Hook!Accept(i) PROVE StoreInv'
    <2>1. reqs[i].at # "free" /\ \E at \in {"free", "lookup", "body", "fire"} : Hook!To(i, at)
      BY <1>9 DEF Hook!Lookup, Hook!Reject, Hook!Accept
    <2>2. UNCHANGED <<life, Hook!store, counted>>
      BY <1>9 DEF Hook!Lookup, Hook!Reject, Hook!Accept, Hook!history
    <2> QED BY <1>4, <1>5, <1>6, <2>1, <2>2
  <1>10. ASSUME NEW i \in Slots, Hook!Test(i) \/ \E k \in Keys \cup {NoKey} : Hook!Deliver(i, k) PROVE StoreInv'
    <2>1. life = "up" /\ UNCHANGED <<life, Hook!store, counted>>
      BY <1>10 DEF Hook!Test, Hook!Deliver, Hook!history
    <2>2. \E r \in R : reqs' = [reqs EXCEPT ![i] = r]
      BY <1>10 DEF Hook!Test, Hook!Deliver
    <2>3. reqs \in [Slots -> R]
      BY <1>0 DEF StoreTypes
    <2> HIDE DEF R
    <2>4. reqs' \in [Slots -> R]
      BY <2>2, <2>3
    <2> QED BY <1>5, <2>1, <2>4
  <1>11. CASE Hook!Crash
    <2>1. /\ life' = "down" /\ cache' = Hook!NoTrigger /\ jobs' = <<>> /\ applied' = FALSE
          /\ reqs' = [i \in Slots |-> Hook!Free] /\ counted' = file.fireCount /\ file' = file
      BY <1>11 DEF Hook!Crash
    <2>2. cache' \in Triggers /\ file.fireCount \in Nat
      BY <1>0, <2>1 DEF Hook!NoTrigger, Triggers, StoreTypes
    <2>3. jobs' \in Seq(Mutations)
      BY <2>1
    <2>4. reqs' \in [Slots -> R]
      BY <1>a, <2>1
    <2> QED BY <1>0, <2>1, <2>2, <2>3, <2>4 DEF StoreInv, StoreTypes, Stopped,
               Hook!CountIsExact
  <1>12. CASE Hook!Boot
    BY <1>0, <1>12 DEF Hook!Boot, StoreInv, StoreTypes, Stopped, Hook!CountIsExact,
       Hook!history
  <1>13. CASE UNCHANGED <<life, Hook!store, reqs, counted>>
    BY <1>0, <1>13 DEF StoreInv, StoreTypes, Stopped, Hook!CountIsExact, Hook!store
  <1>14. CASE Hook!Tick \/ UNCHANGED Hook!vars
    BY <1>13, <1>14 DEF Hook!Tick, Hook!vars, Hook!store, Hook!history
  <1>15. [op |-> "delete"] \in Mutations /\ \A b \in BOOLEAN : [op |-> "enable", to |-> b] \in Mutations
    BY DEF Mutations
  <1> QED BY <1>1, <1>2, <1>7, <1>8, <1>9, <1>10, <1>11, <1>12, <1>14, <1>15 DEF Hook!Next,
             Hook!Works

\* ... and every step keeps it and drops a delivery only where it should.
LEMMA HookInductive ==
  ASSUME HookInv, [Hook!Next]_Hook!vars
  PROVE  HookInv' /\ Hook!DedupeStep
  <1>1. HookInv'
    BY StoreNext, CacheNext DEF HookInv, StoreInv
  <1>2. ASSUME NEW i \in Slots, Hook!Accept(i), reqs[i].key # NoKey
        PROVE  reqs'[i].at = "fire" <=> ~Hook!Remembered(reqs[i].key)
    <2> DEFINE k == reqs[i].key
    <2>1. k \in Keys /\ reqs[i] \in [at : {"free", "lookup", "body", "fire"}, key : Keys \cup {NoKey}]
          /\ DOMAIN reqs = Slots
      BY <1>2 DEF HookInv, StoreInv, StoreTypes
    <2>2. Hook!To(i, IF Hook!Holds(Hook!Live(seen), k) THEN "free" ELSE "fire")
      BY <1>2 DEF Hook!Accept
    <2>3. reqs'[i].at = IF Hook!Holds(Hook!Live(seen), k) THEN "free" ELSE "fire"
      BY <2>1, <2>2 DEF Hook!To, Hook!Free, HookInv, StoreInv, StoreTypes
    <2> QED BY <2>1, <2>3, Remembers DEF HookInv
  <1> QED BY <1>1, <1>2 DEF Hook!DedupeStep

\* A step of a behaviour of this component is one of its own.
LEMMA HookSteps ==
  ASSUME [SNext]_allVars, part' = "webhook"
  PROVE  part = "webhook" /\ [Hook!Next]_Hook!vars
  BY DEF SNext, CronStep, HookStep, PluginStep, CoreStep, ServerStep, DeskStep, allVars,
         hookVars, Hook!vars, Hook!store, Hook!history

\* The invariant holds where the component runs.
LEMMA HooksInv == SSpec => [](part = "webhook" => HookInv)
  <1>1. SInit => (part = "webhook" => HookInv)
    BY HookBegins DEF SInit
  <1>2. (part = "webhook" => HookInv) /\ [SNext]_allVars => (part = "webhook" => HookInv)'
    BY HookSteps, HookInductive
  <1> QED BY <1>1, <1>2, PTL DEF SSpec

\* recordFire: fires that end at the same time are all counted, once each.
THEOREM CountIsExactCorrect == SSpec => []CountIsExact
  <1>1. (part = "webhook" => HookInv) => CountIsExact
    BY DEF HookInv, StoreInv, CountIsExact
  <1> QED BY <1>1, HooksInv, PTL

\* DeliveryDedupeCache.check: a delivery is dropped just if its key was asked
\* for no longer ago than TTL, with fewer than MaxSeen other keys since.
THEOREM DedupeCorrect == SSpec => DedupeIsAWindow
  <1>1. (part = "webhook" => HookInv) /\ [SNext]_allVars
          => [part = "webhook" => Hook!DedupeStep]_allVars
    BY HookInductive DEF SNext, CronStep, HookStep, PluginStep, CoreStep, ServerStep,
       DeskStep
  <1> QED BY <1>1, HooksInv, PTL DEF SSpec, DedupeIsAWindow

-----------------------------------------------------------------------------
(*****************************************************************************)
(* Updates of plugins: what a call holds and what the journal says agree with *)
(* the target there was when the transaction was opened.                     *)
(*****************************************************************************)
JournalStates == {"missing", "open", "verified", "committed", "rolled_back", "escalated"}
Journals == [state : JournalStates, fails : Nat, existed : BOOLEAN]
Places == {"idle", "copy", "write", "verify", "loaded", "rollback", "apply", "remove", "paste",
           "pasted", "reload", "gc"}

\* Types of what an update of a plugin keeps.
PluginTypes ==
  /\ made \in 0..MaxTxns
  /\ target \in Int /\ edits \in Nat
  /\ before \in [Plugin!Txns -> Int] /\ opened \in [Plugin!Txns -> Int]
  /\ journal \in [Plugin!Txns -> Journals]
  /\ call \in [at : Places, tool : {"none", "begin", "verify", "apply", "rollback"},
               txn : Nat, j : Journals]
  /\ call.at # "idle" => call.txn \in 1..made

\* What the journals and the copies say of the targets there were.
Journalled ==
  /\ \A t \in Plugin!Txns : t > made => journal[t] = Plugin!NoJournal
  /\ \A t \in Plugin!Txns : journal[t] # Plugin!NoJournal =>
       /\ journal[t].existed = (opened[t] # Plugin!None)
       /\ t \notin ended \/ before[t] # Plugin!None => before[t] = opened[t]
       /\ journal[t].state = "escalated" => journal[t].fails >= Plugin!MAX_FAILED_ATTEMPTS
  /\ \A t \in Plugin!Txns : journal[t].state \in Plugin!EndStates => t \in ended

\* beginTransaction has journalled nothing before it writes.
Beginning ==
  call.tool = "begin" /\ ~Plugin!At("idle") =>
    /\ call.at \in {"copy", "write"}
    /\ journal[call.txn] = Plugin!NoJournal
    /\ call.j = [state |-> "open", fails |-> 0, existed |-> opened[call.txn] # Plugin!None]
    /\ IF Plugin!At("copy") THEN target = opened[call.txn] ELSE before[call.txn] = opened[call.txn]

\* A later call knows what there was, and puts just that back.
Undoing ==
  call.tool # "begin" /\ call.at \notin {"idle", "gc"} =>
    /\ ~Plugin!At("copy") /\ journal[call.txn] # Plugin!NoJournal
    /\ call.j.existed = (opened[call.txn] # Plugin!None)
    /\ call.j.state = "escalated" => call.j.fails >= Plugin!MAX_FAILED_ATTEMPTS
    /\ call.at \in {"verify", "loaded", "rollback", "apply"} => call.j = journal[call.txn]
    /\ call.at \in {"verify", "rollback", "apply"} => call.tool = call.at
    /\ Plugin!At("loaded") => call.tool = "verify" /\ ~Plugin!TooOften
    /\ Plugin!At("paste") => call.j.existed
    /\ Plugin!At("pasted") => call.j.existed /\ before[call.txn] = opened[call.txn]
    /\ Plugin!At("reload") => target = opened[call.txn]

\* The inductive invariant of an update of a plugin.
PluginInv == PluginTypes /\ Journalled /\ Beginning /\ Undoing /\ Plugin!UndoneIsUndone

\* What a call is after a failed verification: it removes the target at the
\* last attempt allowed, and writes the journal before.
LEMMA AfterFailure ==
  ASSUME PluginTypes, Plugin!FailVerify
  PROVE  /\ call' \in [at : Places, tool : {"none", "begin", "verify", "apply", "rollback"},
                        txn : Nat, j : Journals]
         /\ call'.tool = call.tool /\ call'.txn = call.txn
         /\ call'.at = IF call.j.existed \/ call.j.fails + 1 >= Plugin!MAX_FAILED_ATTEMPTS
                       THEN "remove" ELSE "write"
         /\ call'.j.existed = call.j.existed /\ call'.j.fails = call.j.fails + 1
         /\ call'.j.state = IF ~call.j.existed /\ call.j.fails + 1 >= Plugin!MAX_FAILED_ATTEMPTS
                            THEN "escalated" ELSE call.j.state
  <1> USE DEF JournalStates, Journals, Places
  <1> DEFINE j == [call.j EXCEPT !.fails = @ + 1]
  <1>1. /\ j \in Journals /\ j.existed = call.j.existed /\ j.fails = call.j.fails + 1
        /\ j.state = call.j.state /\ j.existed \in BOOLEAN
    BY DEF PluginTypes
  <1>2. Plugin!Failed(j)
    BY DEF Plugin!FailVerify
  <1> HIDE DEF j
  <1>3. CASE call.j.existed
    <2>1. call' = [call EXCEPT !.at = "remove", !.j = j]
      BY <1>1, <1>2, <1>3 DEF Plugin!Failed, Plugin!GoOn
    <2> QED BY <1>1, <1>3, <2>1 DEF PluginTypes
  <1>4. CASE ~call.j.existed /\ call.j.fails + 1 >= Plugin!MAX_FAILED_ATTEMPTS
    <2> DEFINE k == [j EXCEPT !.state = "escalated"]
    <2>1. call' = [call EXCEPT !.at = "remove", !.j = k]
      BY <1>1, <1>2, <1>4 DEF Plugin!Failed, Plugin!Escalate, Plugin!GoOn
    <2>2. k \in Journals /\ k.existed = j.existed /\ k.fails = j.fails /\ k.state = "escalated"
      BY <1>1
    <2> HIDE DEF k
    <2> QED BY <1>1, <1>4, <2>1, <2>2 DEF PluginTypes
  <1>5. CASE ~call.j.existed /\ ~(call.j.fails + 1 >= Plugin!MAX_FAILED_ATTEMPTS)
    <2>1. call' = [call EXCEPT !.at = "write", !.j = j]
      BY <1>1, <1>2, <1>5 DEF Plugin!Failed, Plugin!GoOn
    <2> QED BY <1>1, <1>5, <2>1 DEF PluginTypes
  <1> QED BY <1>3, <1>4, <1>5

\* Every step keeps the invariant of an update of a plugin.
LEMMA PluginInductive ==
  ASSUME PluginInv, [Plugin!Next]_Plugin!vars
  PROVE  PluginInv'
  <1> USE DEF Plugin!At, Plugin!To, Plugin!GoOn, Plugin!NoJournal, Plugin!Idle,
          Plugin!EndStates, Plugin!None, Plugin!Part, Plugin!MAX_FAILED_ATTEMPTS,
          JournalStates, Journals, Places, Plugin!given, Plugin!host, Plugin!history, Plugin!counters
  <1>0. /\ PluginTypes /\ Journalled /\ Beginning /\ Undoing /\ Plugin!UndoneIsUndone
        /\ MaxTxns \in Nat /\ Plugin!Txns = 1..MaxTxns
    BY ServicesConstants DEF Plugin!SelfUpdateAssumption, PluginInv, Plugin!Txns
  <1>1. CASE Plugin!Begin
    <2>1. PluginTypes'
      BY <1>0, <1>1 DEF Plugin!Begin, PluginTypes, Journalled
    <2>2. Journalled'
      BY <1>0, <1>1 DEF Plugin!Begin, PluginTypes, Journalled, Beginning, Undoing
    <2>3. Beginning'
      <3>1. /\ made + 1 \in Plugin!Txns /\ journal[made + 1] = Plugin!NoJournal /\ journal' = journal
            /\ opened' = [opened EXCEPT ![made + 1] = target] /\ target' = target
            /\ call' = [at |-> "copy", tool |-> "begin", txn |-> made + 1,
                        j |-> [state |-> "open", fails |-> 0, existed |-> target # Plugin!None]]
        <4>1. made + 1 \in Plugin!Txns /\ made + 1 > made
          BY <1>0, <1>1 DEF Plugin!Begin, PluginTypes
        <4>2. journal[made + 1] = Plugin!NoJournal
          BY <1>0, <4>1 DEF Journalled
        <4> QED BY <1>1, <4>1, <4>2 DEF Plugin!Begin
      <3>2. opened'[made + 1] = target
        BY <1>0, <3>1 DEF PluginTypes
      <3> QED BY <3>1, <3>2 DEF Beginning
    <2>4. Undoing'
      BY <1>0, <1>1 DEF Plugin!Begin, PluginTypes, Journalled, Beginning, Undoing
    <2>5. Plugin!UndoneIsUndone'
      BY <1>0, <1>1 DEF Plugin!Begin, PluginTypes, Journalled, Undoing, Beginning,
         Plugin!UndoneIsUndone, Plugin!Undoes,
         Plugin!TakesForUndone, Plugin!IsUndone
    <2> QED BY <2>1, <2>2, <2>3, <2>4, <2>5 DEF PluginInv
  <1>2. CASE Plugin!CopyEnds
    <2>1. PluginTypes'
      BY <1>0, <1>2 DEF Plugin!CopyEnds, PluginTypes, Journalled
    <2>2. Journalled'
      BY <1>0, <1>2 DEF Plugin!CopyEnds, PluginTypes, Journalled, Beginning, Undoing
    <2>3. Beginning'
      BY <1>0, <1>2 DEF Plugin!CopyEnds, PluginTypes, Journalled, Beginning, Undoing
    <2>4. Undoing'
      BY <1>0, <1>2 DEF Plugin!CopyEnds, PluginTypes, Journalled, Beginning, Undoing
    <2>5. Plugin!UndoneIsUndone'
      BY <1>0, <1>2 DEF Plugin!CopyEnds, PluginTypes, Journalled, Undoing, Beginning,
         Plugin!UndoneIsUndone, Plugin!Undoes,
         Plugin!TakesForUndone, Plugin!IsUndone
    <2> QED BY <2>1, <2>2, <2>3, <2>4, <2>5 DEF PluginInv
  <1>3. CASE Plugin!Write
    <2>1. PluginTypes'
      BY <1>0, <1>3 DEF Plugin!Write, PluginTypes, Journalled
    <2>2. Journalled'
      <3>1. /\ call.txn \in Plugin!Txns /\ call.txn <= made /\ call.j.existed = (opened[call.txn] # Plugin!None)
            /\ journal' = [journal EXCEPT ![call.txn] = call.j] /\ call.at = "write"
            /\ ended' = ended \cup {t \in Plugin!Txns : journal'[t].state \in Plugin!EndStates}
            /\ UNCHANGED <<before, opened, made>>
        BY <1>0, <1>3 DEF Plugin!Write, PluginTypes, Beginning, Undoing
      <3>2. ASSUME NEW t \in Plugin!Txns, journal'[t] # Plugin!NoJournal
            PROVE  /\ t <= made /\ journal'[t].existed = (opened[t] # Plugin!None)
                   /\ t \notin ended \/ before[t] # Plugin!None => before[t] = opened[t]
                   /\ journal'[t].state = "escalated" => journal'[t].fails >= Plugin!MAX_FAILED_ATTEMPTS
        <4>1. CASE t = call.txn
          <5>1. journal'[t] = call.j
            BY <1>0, <3>1, <4>1 DEF PluginTypes
          <5>2. call.j.state = "escalated" => call.j.fails >= Plugin!MAX_FAILED_ATTEMPTS
            BY <1>0, <3>1 DEF Beginning, Undoing
          <5>3. t \notin ended \/ before[t] # Plugin!None => before[t] = opened[t]
            BY <1>0, <3>1, <4>1 DEF Beginning, Undoing, Journalled
          <5> QED BY <1>0, <3>1, <4>1, <5>1, <5>2, <5>3 DEF PluginTypes
        <4>2. CASE t # call.txn
          <5>1. journal'[t] = journal[t]
            BY <1>0, <3>1, <4>2 DEF PluginTypes
          <5> QED BY <1>0, <3>2, <5>1 DEF Journalled, PluginTypes
        <4> QED BY <4>1, <4>2
      <3> HIDE DEF Plugin!NoJournal, Plugin!EndStates
      <3>3. ASSUME NEW t \in Plugin!Txns, t > made' PROVE journal'[t] = Plugin!NoJournal
        <4>1. made' = made /\ ~(t <= made)
          BY <1>0, <3>1, <3>3 DEF PluginTypes
        <4> QED BY <3>2, <4>1
      <3>4. \A t \in Plugin!Txns : journal'[t] # Plugin!NoJournal =>
              /\ journal'[t].existed = (opened'[t] # Plugin!None)
              /\ t \notin ended' \/ before'[t] # Plugin!None => before'[t] = opened'[t]
              /\ journal'[t].state = "escalated" => journal'[t].fails >= Plugin!MAX_FAILED_ATTEMPTS
        BY <3>1, <3>2
      <3>5. \A t \in Plugin!Txns : journal'[t].state \in Plugin!EndStates => t \in ended'
        BY <3>1
      <3> QED BY <3>3, <3>4, <3>5 DEF Journalled
    <2>3. Beginning'
      BY <1>0, <1>3 DEF Plugin!Write, PluginTypes, Journalled, Beginning, Undoing
    <2>4. Undoing'
      BY <1>0, <1>3 DEF Plugin!Write, PluginTypes, Journalled, Beginning, Undoing
    <2>5. Plugin!UndoneIsUndone'
      BY <1>0, <1>3 DEF Plugin!Write, PluginTypes, Journalled, Undoing, Beginning,
         Plugin!UndoneIsUndone, Plugin!Undoes,
         Plugin!TakesForUndone, Plugin!IsUndone
    <2> QED BY <2>1, <2>2, <2>3, <2>4, <2>5 DEF PluginInv
  <1>4. CASE Plugin!Edit
    <2>1. PluginTypes'
      BY <1>0, <1>4 DEF Plugin!Edit, PluginTypes, Journalled
    <2>2. Journalled'
      BY <1>0, <1>4 DEF Plugin!Edit, PluginTypes, Journalled, Beginning, Undoing
    <2>3. Beginning'
      BY <1>0, <1>4 DEF Plugin!Edit, PluginTypes, Journalled, Beginning, Undoing
    <2>4. Undoing'
      BY <1>0, <1>4 DEF Plugin!Edit, PluginTypes, Journalled, Beginning, Undoing
    <2>5. Plugin!UndoneIsUndone'
      BY <1>0, <1>4 DEF Plugin!Edit, PluginTypes, Journalled, Undoing, Beginning,
         Plugin!UndoneIsUndone, Plugin!Undoes,
         Plugin!TakesForUndone, Plugin!IsUndone
    <2> QED BY <2>1, <2>2, <2>3, <2>4, <2>5 DEF PluginInv
  <1>5. CASE Plugin!verifyRefuses
    <2>1. PluginTypes'
      BY <1>0, <1>5 DEF Plugin!verifyRefuses, Plugin!Escalate, Plugin!TooOften, PluginTypes,
         Journalled
    <2>2. Journalled'
      BY <1>0, <1>5 DEF Plugin!verifyRefuses, Plugin!Escalate, Plugin!TooOften, PluginTypes,
         Journalled, Beginning, Undoing
    <2>3. Beginning'
      BY <1>0, <1>5 DEF Plugin!verifyRefuses, Plugin!Escalate, Plugin!TooOften, PluginTypes,
         Journalled, Beginning, Undoing
    <2>4. Undoing'
      BY <1>0, <1>5 DEF Plugin!verifyRefuses, Plugin!Escalate, Plugin!TooOften, PluginTypes,
         Journalled, Beginning, Undoing
    <2>6. call.tool = "verify" /\ call.j = journal[call.txn] /\ journal[call.txn] \in Journals
      BY <1>0, <1>5 DEF Plugin!verifyRefuses, Plugin!At, PluginTypes, Undoing, Beginning
    <2>7. call'.at = "write" => /\ call'.tool = "verify" /\ call'.txn = call.txn
                               /\ call'.j.existed /\ journal'[call.txn].state = "rolled_back"
                               /\ call'.j.fails = journal'[call.txn].fails
      BY <1>0, <1>5, <2>6 DEF Plugin!verifyRefuses, Plugin!Escalate, Plugin!GoOn, PluginTypes, Journals
    <2>5. Plugin!UndoneIsUndone'
      BY <2>7 DEF Plugin!UndoneIsUndone, Plugin!Undoes, Plugin!TakesForUndone, Plugin!At
    <2> QED BY <2>1, <2>2, <2>3, <2>4, <2>5 DEF PluginInv
  <1>6. CASE Plugin!BuildFails
    <2>0. /\ call.at = "verify" /\ call.tool = "verify" /\ ~Plugin!TooOften /\ call.txn \in Plugin!Txns
          /\ journal[call.txn] \in Journals /\ call.j = journal[call.txn] /\ call.j \in Journals
          /\ UNCHANGED <<Plugin!given, target, Plugin!host, before, journal, Plugin!counters, Plugin!history>>
          /\ Plugin!FailVerify
      BY <1>0, <1>6 DEF Plugin!BuildFails, Plugin!TooOften, PluginTypes, Beginning, Undoing
    <2> DEFINE f == call.j.fails
    <2>6. f \in Nat /\ call.j.existed \in BOOLEAN
      BY <2>0
    <2>1. PluginTypes'
      BY <1>0, <2>0, AfterFailure DEF PluginTypes
    <2>2. Journalled'
      BY <1>0, <2>0 DEF Journalled
    <2>3. Beginning'
      BY <1>0, <2>0, AfterFailure DEF Beginning
    <2>4. Undoing'
      BY <1>0, <2>0, <2>6, AfterFailure DEF Undoing
    <2>7. call'.at = "write" => ~call.j.existed /\ call'.j.state # "escalated"
      BY <1>0, <2>0, <2>6, AfterFailure DEF Plugin!TooOften, Undoing, Plugin!At
    <2>5. Plugin!UndoneIsUndone'
      BY <2>0, <2>7, AfterFailure, <1>0 DEF Plugin!UndoneIsUndone, Plugin!Undoes, Plugin!At
    <2> QED BY <2>1, <2>2, <2>3, <2>4, <2>5 DEF PluginInv
  <1>7. CASE Plugin!Load
    <2>1. PluginTypes'
      BY <1>0, <1>7 DEF Plugin!Load, Plugin!reload, PluginTypes, Journalled
    <2>2. Journalled'
      BY <1>0, <1>7 DEF Plugin!Load, Plugin!reload, PluginTypes, Journalled, Beginning,
         Undoing
    <2>3. Beginning'
      BY <1>0, <1>7 DEF Plugin!Load, Plugin!reload, PluginTypes, Journalled, Beginning,
         Undoing
    <2>4. Undoing'
      BY <1>0, <1>7 DEF Plugin!Load, Plugin!reload, PluginTypes, Journalled, Beginning,
         Undoing, Plugin!TooOften, Plugin!At
    <2>5. Plugin!UndoneIsUndone'
      BY <1>0, <1>7 DEF Plugin!Load, Plugin!reload, PluginTypes, Journalled, Undoing,
         Beginning, Plugin!UndoneIsUndone, Plugin!Undoes,
         Plugin!TakesForUndone, Plugin!IsUndone
    <2> QED BY <2>1, <2>2, <2>3, <2>4, <2>5 DEF PluginInv
  <1>8. CASE Plugin!LoadFails
    <2>0. /\ call.at = "loaded" /\ call.tool = "verify" /\ ~Plugin!TooOften /\ call.txn \in Plugin!Txns
          /\ journal[call.txn] \in Journals /\ call.j = journal[call.txn] /\ call.j \in Journals
          /\ UNCHANGED <<Plugin!given, target, Plugin!host, before, journal, Plugin!counters, Plugin!history>>
          /\ Plugin!FailVerify
      BY <1>0, <1>8 DEF Plugin!LoadFails, Plugin!TooOften, PluginTypes, Beginning, Undoing
    <2> DEFINE f == call.j.fails
    <2>6. f \in Nat /\ call.j.existed \in BOOLEAN
      BY <2>0
    <2>1. PluginTypes'
      BY <1>0, <2>0, AfterFailure DEF PluginTypes
    <2>2. Journalled'
      BY <1>0, <2>0 DEF Journalled
    <2>3. Beginning'
      BY <1>0, <2>0, AfterFailure DEF Beginning
    <2>4. Undoing'
      BY <1>0, <2>0, <2>6, AfterFailure DEF Undoing
    <2>7. call'.at = "write" => ~call.j.existed /\ call'.j.state # "escalated"
      BY <1>0, <2>0, <2>6, AfterFailure DEF Plugin!TooOften, Undoing, Plugin!At
    <2>5. Plugin!UndoneIsUndone'
      BY <2>0, <2>7, AfterFailure, <1>0 DEF Plugin!UndoneIsUndone, Plugin!Undoes, Plugin!At
    <2> QED BY <2>1, <2>2, <2>3, <2>4, <2>5 DEF PluginInv
  <1>9. CASE Plugin!Verified
    <2>1. PluginTypes'
      BY <1>0, <1>9 DEF Plugin!Verified, PluginTypes, Journalled
    <2>2. Journalled'
      BY <1>0, <1>9 DEF Plugin!Verified, PluginTypes, Journalled, Beginning, Undoing
    <2>3. Beginning'
      BY <1>0, <1>9 DEF Plugin!Verified, PluginTypes, Journalled, Beginning, Undoing
    <2>4. Undoing'
      BY <1>0, <1>9 DEF Plugin!Verified, PluginTypes, Journalled, Beginning, Undoing
    <2>6. /\ call.tool = "verify" /\ call.j = journal[call.txn] /\ journal[call.txn] \in Journals
          /\ UNCHANGED journal
      BY <1>0, <1>9 DEF Plugin!Verified, Plugin!At, PluginTypes, Undoing, Beginning
    <2>7. /\ call'.tool = "verify" /\ call'.txn = call.txn /\ call'.j.state = "verified"
          /\ call'.j.fails = journal'[call.txn].fails
      BY <1>0, <1>9, <2>6 DEF Plugin!Verified, Plugin!GoOn, PluginTypes, Journals
    <2>8. journal[call.txn].fails \in Nat
      BY <2>6 DEF Journals
    <2>5. Plugin!UndoneIsUndone'
      BY <2>6, <2>7, <2>8 DEF Plugin!UndoneIsUndone, Plugin!Undoes
    <2> QED BY <2>1, <2>2, <2>3, <2>4, <2>5 DEF PluginInv
  <1>10. CASE Plugin!Rollback
    <2>1. PluginTypes'
      BY <1>0, <1>10 DEF Plugin!Rollback, PluginTypes, Journalled
    <2>2. Journalled'
      BY <1>0, <1>10 DEF Plugin!Rollback, PluginTypes, Journalled, Beginning, Undoing
    <2>3. Beginning'
      BY <1>0, <1>10 DEF Plugin!Rollback, PluginTypes, Journalled, Beginning, Undoing
    <2>4. Undoing'
      BY <1>0, <1>10 DEF Plugin!Rollback, PluginTypes, Journalled, Beginning, Undoing
    <2>5. Plugin!UndoneIsUndone'
      BY <1>0, <1>10 DEF Plugin!Rollback, PluginTypes, Journalled, Undoing, Beginning,
         Plugin!UndoneIsUndone, Plugin!Undoes,
         Plugin!TakesForUndone, Plugin!IsUndone
    <2> QED BY <2>1, <2>2, <2>3, <2>4, <2>5 DEF PluginInv
  <1>11. CASE Plugin!Remove
    <2>1. PluginTypes'
      <3>1. /\ call' \in [at : Places, tool : {"none", "begin", "verify", "apply", "rollback"},
               txn : Nat, j : Journals]
            /\ call'.at # "idle" => call'.txn \in 1..made'
        BY <1>0, <1>11 DEF Plugin!Remove, PluginTypes
      <3>2. made' = made /\ UNCHANGED <<edits, opened>>
        BY <1>11 DEF Plugin!Remove
      <3>3. target' \in Int /\ before' \in [Plugin!Txns -> Int]
        BY <1>0, <1>11 DEF Plugin!Remove, PluginTypes
      <3>4. journal' \in [Plugin!Txns -> Journals]
        BY <1>0, <1>11 DEF Plugin!Remove, PluginTypes
      <3> QED BY <1>0, <3>1, <3>2, <3>3, <3>4 DEF PluginTypes
    <2>2. Journalled'
      BY <1>0, <1>11 DEF Plugin!Remove, PluginTypes, Journalled, Beginning, Undoing
    <2>3. Beginning'
      BY <1>0, <1>11 DEF Plugin!Remove, PluginTypes, Journalled, Beginning, Undoing
    <2>4. Undoing'
      BY <1>0, <1>11 DEF Plugin!Remove, PluginTypes, Journalled, Beginning, Undoing
    <2>5. Plugin!UndoneIsUndone'
      BY <1>0, <1>11 DEF Plugin!Remove, PluginTypes, Journalled, Undoing, Beginning,
         Plugin!UndoneIsUndone, Plugin!Undoes,
         Plugin!TakesForUndone, Plugin!IsUndone
    <2> QED BY <2>1, <2>2, <2>3, <2>4, <2>5 DEF PluginInv
  <1>12. CASE Plugin!Paste
    <2>1. PluginTypes'
      <3>1. /\ call' \in [at : Places, tool : {"none", "begin", "verify", "apply", "rollback"},
               txn : Nat, j : Journals]
            /\ call'.at # "idle" => call'.txn \in 1..made'
        <4>1. call' = Plugin!Idle \/ call' = [call EXCEPT !.at = "pasted"]
          BY <1>12 DEF Plugin!Paste
        <4>2. call.txn \in 1..made /\ made' = made
          BY <1>0, <1>12 DEF Plugin!Paste, PluginTypes
        <4>3. CASE call' = Plugin!Idle
          BY <1>0, <4>3
        <4>4. CASE call' = [call EXCEPT !.at = "pasted"]
          BY <1>0, <4>2, <4>4 DEF PluginTypes
        <4> QED BY <4>1, <4>3, <4>4
      <3>2. made' = made /\ UNCHANGED <<edits, opened>>
        BY <1>12 DEF Plugin!Paste
      <3>3. target' \in Int /\ before' \in [Plugin!Txns -> Int]
        BY <1>0, <1>12 DEF Plugin!Paste, PluginTypes
      <3>4. journal' \in [Plugin!Txns -> Journals]
        BY <1>0, <1>12 DEF Plugin!Paste, PluginTypes
      <3> QED BY <1>0, <3>1, <3>2, <3>3, <3>4 DEF PluginTypes
    <2>2. Journalled'
      BY <1>0, <1>12 DEF Plugin!Paste, PluginTypes, Journalled, Beginning, Undoing
    <2>3. Beginning'
      BY <1>0, <1>12 DEF Plugin!Paste, PluginTypes, Journalled, Beginning, Undoing
    <2>4. Undoing'
      <3>1. CASE call' = Plugin!Idle
        BY <3>1 DEF Undoing
      <3>2. CASE call' # Plugin!Idle
        <4>1. /\ call' = [call EXCEPT !.at = "pasted"] /\ before[call.txn] # Plugin!None
              /\ UNCHANGED <<before, journal, opened>>
          BY <1>12, <3>2 DEF Plugin!Paste
        <4>2. /\ call.at = "paste" /\ call.tool # "begin" /\ call.txn \in Plugin!Txns
              /\ journal[call.txn] # Plugin!NoJournal /\ call.j.existed
              /\ call.j.existed = (opened[call.txn] # Plugin!None)
              /\ call.j.state = "escalated" => call.j.fails >= Plugin!MAX_FAILED_ATTEMPTS
          BY <1>0, <1>12 DEF Plugin!Paste, PluginTypes, Beginning, Undoing
        <4>3. before[call.txn] = opened[call.txn]
          BY <4>1, <4>2, <1>0 DEF Journalled
        <4>4. /\ call'.at = "pasted" /\ call'.tool = call.tool /\ call'.txn = call.txn
              /\ call'.j = call.j
          BY <1>0, <4>1 DEF PluginTypes
        <4> QED BY <4>1, <4>2, <4>3, <4>4 DEF Undoing
      <3> QED BY <3>1, <3>2
    <2>5. Plugin!UndoneIsUndone'
      BY <1>0, <1>12 DEF Plugin!Paste, PluginTypes, Journalled, Undoing, Beginning,
         Plugin!UndoneIsUndone, Plugin!Undoes,
         Plugin!TakesForUndone, Plugin!IsUndone
    <2> QED BY <2>1, <2>2, <2>3, <2>4, <2>5 DEF PluginInv
  <1>13. CASE Plugin!Pasted
    <2>1. PluginTypes'
      <3>1. /\ call' \in [at : Places, tool : {"none", "begin", "verify", "apply", "rollback"},
               txn : Nat, j : Journals]
            /\ call'.at # "idle" => call'.txn \in 1..made'
        BY <1>0, <1>13 DEF Plugin!Pasted, PluginTypes
      <3>2. made' = made /\ UNCHANGED <<edits, opened>>
        BY <1>13 DEF Plugin!Pasted
      <3>3. target' \in Int /\ before' \in [Plugin!Txns -> Int]
        BY <1>0, <1>13 DEF Plugin!Pasted, PluginTypes
      <3>4. journal' \in [Plugin!Txns -> Journals]
        BY <1>0, <1>13 DEF Plugin!Pasted, PluginTypes
      <3> QED BY <1>0, <3>1, <3>2, <3>3, <3>4 DEF PluginTypes
    <2>2. Journalled'
      BY <1>0, <1>13 DEF Plugin!Pasted, PluginTypes, Journalled, Beginning, Undoing
    <2>3. Beginning'
      BY <1>0, <1>13 DEF Plugin!Pasted, PluginTypes, Journalled, Beginning, Undoing
    <2>4. Undoing'
      BY <1>0, <1>13 DEF Plugin!Pasted, PluginTypes, Journalled, Beginning, Undoing
    <2>5. Plugin!UndoneIsUndone'
      BY <1>0, <1>13 DEF Plugin!Pasted, PluginTypes, Journalled, Undoing, Beginning,
         Plugin!UndoneIsUndone, Plugin!Undoes,
         Plugin!TakesForUndone, Plugin!IsUndone
    <2> QED BY <2>1, <2>2, <2>3, <2>4, <2>5 DEF PluginInv
  <1>14. CASE Plugin!Reload
    <2>0. /\ call.at = "reload" /\ call.tool # "begin" /\ call.txn \in 1..made /\ made' = made
          /\ call.j \in Journals /\ UNCHANGED <<target, before, journal, opened>>
          /\ \/ call' = [call EXCEPT !.at = "write"]
             \/ /\ call.j.fails >= Plugin!MAX_FAILED_ATTEMPTS
                /\ \/ call' = [call EXCEPT !.at = "write", !.j = [call.j EXCEPT !.state = "escalated"]]
                   \/ call' = [call EXCEPT !.at = "remove", !.j = [call.j EXCEPT !.state = "escalated"]]
      BY <1>0, <1>14 DEF Plugin!Reload, Plugin!Escalate, Plugin!TooOften, PluginTypes,
         Beginning
    <2>6. /\ call' \in [at : Places, tool : {"none", "begin", "verify", "apply", "rollback"},
                       txn : Nat, j : Journals]
          /\ call'.tool = call.tool /\ call'.txn = call.txn /\ call'.at \in {"write", "remove"}
          /\ call'.j.existed = call.j.existed
          /\ call'.j.state = "escalated" =>
               call.j.state = "escalated" \/ call.j.fails >= Plugin!MAX_FAILED_ATTEMPTS
          /\ call'.j.fails = call.j.fails
      <3> DEFINE k == [call.j EXCEPT !.state = "escalated"]
      <3>1. k \in Journals /\ k.existed = call.j.existed /\ k.fails = call.j.fails
        BY <2>0
      <3>2. \/ call' = [call EXCEPT !.at = "write"]
            \/ /\ call.j.fails >= Plugin!MAX_FAILED_ATTEMPTS
               /\ \/ call' = [call EXCEPT !.at = "write", !.j = k]
                  \/ call' = [call EXCEPT !.at = "remove", !.j = k]
        BY <2>0
      <3> HIDE DEF k
      <3>3. call \in [at : Places, tool : {"none", "begin", "verify", "apply", "rollback"},
                      txn : Nat, j : Journals]
        BY <1>0 DEF PluginTypes
      <3>4. CASE call' = [call EXCEPT !.at = "write"]
        BY <3>3, <3>4
      <3>5. CASE /\ call.j.fails >= Plugin!MAX_FAILED_ATTEMPTS
                 /\ call' = [call EXCEPT !.at = "write", !.j = k]
        BY <3>1, <3>3, <3>5
      <3>6. CASE /\ call.j.fails >= Plugin!MAX_FAILED_ATTEMPTS
                 /\ call' = [call EXCEPT !.at = "remove", !.j = k]
        BY <3>1, <3>3, <3>6
      <3> QED BY <3>2, <3>4, <3>5, <3>6
    <2>1. PluginTypes'
      <3>1. /\ call' \in [at : Places, tool : {"none", "begin", "verify", "apply", "rollback"},
               txn : Nat, j : Journals]
            /\ call'.at # "idle" => call'.txn \in 1..made'
        BY <2>0, <2>6
      <3>2. made' = made /\ UNCHANGED <<edits, opened>>
        BY <1>14 DEF Plugin!Reload, Plugin!Escalate, Plugin!TooOften
      <3>3. target' \in Int /\ before' \in [Plugin!Txns -> Int]
        BY <1>0, <1>14 DEF Plugin!Reload, Plugin!Escalate, Plugin!TooOften, PluginTypes
      <3>4. journal' \in [Plugin!Txns -> Journals]
        BY <1>0, <1>14 DEF Plugin!Reload, Plugin!Escalate, Plugin!TooOften, PluginTypes
      <3> QED BY <1>0, <3>1, <3>2, <3>3, <3>4 DEF PluginTypes
    <2>2. Journalled'
      BY <1>0, <1>14 DEF Plugin!Reload, Plugin!reload, Plugin!Escalate, Plugin!TooOften,
         PluginTypes, Journalled, Beginning, Undoing
    <2>3. Beginning'
      BY <1>0, <1>14 DEF Plugin!Reload, Plugin!reload, Plugin!Escalate, Plugin!TooOften,
         PluginTypes, Journalled, Beginning, Undoing
    <2>4. Undoing'
      BY <1>0, <2>0, <2>6 DEF Undoing
    <2>5. Plugin!UndoneIsUndone'
      BY <1>0, <1>14
         DEF Plugin!Reload, Plugin!reload, Plugin!Escalate, Plugin!TooOften, PluginTypes,
             Journalled, Undoing, Beginning, Plugin!UndoneIsUndone, Plugin!Undoes,
             Plugin!TakesForUndone, Plugin!IsUndone
    <2> QED BY <2>1, <2>2, <2>3, <2>4, <2>5 DEF PluginInv
  <1>15. CASE Plugin!Apply
    <2>0. /\ call.at = "apply" /\ call.tool # "begin" /\ call.txn \in Plugin!Txns /\ call.txn <= made
          /\ journal[call.txn] # Plugin!NoJournal /\ call.j = journal[call.txn] /\ call.j \in Journals
      BY <1>0, <1>15 DEF Plugin!Apply, PluginTypes, Beginning, Undoing
    <2>6. \/ journal' = journal
          \/ \E k \in Journals : /\ k.existed = call.j.existed /\ k.state = "committed"
                                /\ journal' = [journal EXCEPT ![call.txn] = k]
      <3>1. CASE call.j.state = "verified"
        <4>1. [call.j EXCEPT !.state = "committed"] \in Journals
          BY <2>0
        <4> QED BY <1>15, <2>0, <3>1, <4>1 DEF Plugin!Apply
      <3>2. CASE call.j.state # "verified"
        BY <1>15, <3>2 DEF Plugin!Apply
      <3> QED BY <3>1, <3>2
    <2>1. PluginTypes'
      <3>1. /\ call' \in [at : Places, tool : {"none", "begin", "verify", "apply", "rollback"},
               txn : Nat, j : Journals]
            /\ call'.at # "idle" => call'.txn \in 1..made'
        <4>1. call' = Plugin!Idle \/ call' = [call EXCEPT !.at = "gc"]
          BY <1>15 DEF Plugin!Apply
        <4>2. call.txn \in 1..made /\ made' = made
          BY <1>0, <1>15 DEF Plugin!Apply, PluginTypes
        <4>3. CASE call' = Plugin!Idle
          BY <1>0, <4>3
        <4>4. CASE call' = [call EXCEPT !.at = "gc"]
          BY <1>0, <4>2, <4>4 DEF PluginTypes
        <4> QED BY <4>1, <4>3, <4>4
      <3>2. made' = made /\ UNCHANGED <<edits, opened>>
        BY <1>15 DEF Plugin!Apply
      <3>3. target' \in Int /\ before' \in [Plugin!Txns -> Int]
        BY <1>0, <1>15 DEF Plugin!Apply, PluginTypes
      <3>4. journal' \in [Plugin!Txns -> Journals]
        BY <1>0, <2>0, <2>6 DEF PluginTypes
      <3> QED BY <1>0, <3>1, <3>2, <3>3, <3>4 DEF PluginTypes
    <2>2. Journalled'
      <3>1. /\ UNCHANGED <<before, opened, made>>
            /\ ended' = ended \cup {t \in Plugin!Txns : journal'[t].state \in Plugin!EndStates}
        BY <1>15 DEF Plugin!Apply
      <3>2. ASSUME NEW k \in Journals, k.existed = call.j.existed, k.state = "committed",
                   journal' = [journal EXCEPT ![call.txn] = k]
            PROVE  Journalled'
        <4>1. \A t \in Plugin!Txns : journal'[t] = IF t = call.txn THEN k ELSE journal[t]
          BY <1>0, <3>2 DEF PluginTypes
        <4>2. journal[call.txn].existed = (opened[call.txn] # Plugin!None)
          BY <1>0, <2>0 DEF Journalled
        <4> HIDE DEF Plugin!NoJournal, Plugin!EndStates
        <4>3. \A t \in Plugin!Txns : journal'[t].state \in Plugin!EndStates => t \in ended'
          BY <3>1
        <4>4. \A t \in Plugin!Txns : t > made' => journal'[t] = Plugin!NoJournal
          BY <1>0, <2>0, <3>1, <4>1 DEF Journalled, PluginTypes
        <4>5. ASSUME NEW t \in Plugin!Txns, journal'[t] # Plugin!NoJournal
              PROVE  /\ journal'[t].existed = (opened'[t] # Plugin!None)
                     /\ t \notin ended' \/ before'[t] # Plugin!None => before'[t] = opened'[t]
                     /\ journal'[t].state = "escalated" => journal'[t].fails >= Plugin!MAX_FAILED_ATTEMPTS
          BY <1>0, <2>0, <3>1, <3>2, <4>1, <4>2, <4>5 DEF Journalled
        <4> QED BY <4>3, <4>4, <4>5 DEF Journalled
      <3>3. CASE journal' = journal
        BY <1>0, <3>1, <3>3 DEF Journalled
      <3> QED BY <2>6, <3>2, <3>3
    <2>3. Beginning'
      BY <1>0, <1>15 DEF Plugin!Apply, PluginTypes, Journalled, Beginning, Undoing
    <2>4. Undoing'
      BY <1>0, <1>15 DEF Plugin!Apply, PluginTypes, Journalled, Beginning, Undoing
    <2>5. Plugin!UndoneIsUndone'
      BY <1>0, <1>15 DEF Plugin!Apply, PluginTypes, Journalled, Undoing, Beginning,
         Plugin!UndoneIsUndone, Plugin!Undoes,
         Plugin!TakesForUndone, Plugin!IsUndone
    <2> QED BY <2>1, <2>2, <2>3, <2>4, <2>5 DEF PluginInv
  <1>16. CASE Plugin!Collected
    <2>1. PluginTypes'
      BY <1>0, <1>16 DEF Plugin!Collected, PluginTypes, Journalled
    <2>2. Journalled'
      BY <1>0, <1>16 DEF Plugin!Collected, PluginTypes, Journalled, Beginning, Undoing
    <2>3. Beginning'
      BY <1>0, <1>16 DEF Plugin!Collected, PluginTypes, Journalled, Beginning, Undoing
    <2>4. Undoing'
      BY <1>0, <1>16 DEF Plugin!Collected, PluginTypes, Journalled, Beginning, Undoing
    <2>5. Plugin!UndoneIsUndone'
      BY <1>0, <1>16 DEF Plugin!Collected, PluginTypes, Journalled, Undoing, Beginning,
         Plugin!UndoneIsUndone, Plugin!Undoes,
         Plugin!TakesForUndone, Plugin!IsUndone
    <2> QED BY <2>1, <2>2, <2>3, <2>4, <2>5 DEF PluginInv
  <1>17. CASE Plugin!Crash
    <2>1. PluginTypes'
      BY <1>0, <1>17 DEF Plugin!Crash, PluginTypes, Journalled
    <2>2. Journalled'
      BY <1>0, <1>17 DEF Plugin!Crash, PluginTypes, Journalled, Beginning, Undoing
    <2>3. Beginning'
      BY <1>0, <1>17 DEF Plugin!Crash, PluginTypes, Journalled, Beginning, Undoing
    <2>4. Undoing'
      BY <1>0, <1>17 DEF Plugin!Crash, PluginTypes, Journalled, Beginning, Undoing
    <2>5. Plugin!UndoneIsUndone'
      BY <1>0, <1>17 DEF Plugin!Crash, PluginTypes, Journalled, Undoing, Beginning,
         Plugin!UndoneIsUndone, Plugin!Undoes,
         Plugin!TakesForUndone, Plugin!IsUndone
    <2> QED BY <2>1, <2>2, <2>3, <2>4, <2>5 DEF PluginInv
  <1>18. ASSUME NEW t \in Plugin!Txns, Plugin!Collect(t) PROVE PluginInv'
    <2>1. PluginTypes'
      <3>1. /\ call' \in [at : Places, tool : {"none", "begin", "verify", "apply", "rollback"},
               txn : Nat, j : Journals]
            /\ call'.at # "idle" => call'.txn \in 1..made'
        BY <1>0, <1>18 DEF Plugin!Collect, PluginTypes
      <3>2. made' = made /\ UNCHANGED <<edits, opened>>
        BY <1>18 DEF Plugin!Collect
      <3>3. target' \in Int /\ before' \in [Plugin!Txns -> Int]
        BY <1>0, <1>18 DEF Plugin!Collect, PluginTypes
      <3>4. journal' \in [Plugin!Txns -> Journals]
        <4>1. Plugin!NoJournal \in Journals
          OBVIOUS
        <4> QED BY <1>0, <1>18, <4>1 DEF Plugin!Collect, PluginTypes
      <3> QED BY <1>0, <3>1, <3>2, <3>3, <3>4 DEF PluginTypes
    <2>2. Journalled'
      <3>1. journal[t].state \in Plugin!EndStates
        BY <1>18 DEF Plugin!Collect, Plugin!Garbage
      <3>2. t \in ended /\ UNCHANGED <<opened, ended, made>>
        BY <1>0, <1>18, <3>1 DEF Plugin!Collect, Journalled
      <3>3. \A u \in Plugin!Txns : journal'[u] = journal[u] \/ journal'[u] = Plugin!NoJournal
        BY <1>0, <1>18 DEF Plugin!Collect, PluginTypes
      <3>4. \A u \in Plugin!Txns : before'[u] = before[u] \/ (u = t /\ before'[u] = Plugin!None)
        <4>1. before' = [before EXCEPT ![t] = Plugin!None] \/ before' = before
          BY <1>18 DEF Plugin!Collect
        <4>2. before \in [Plugin!Txns -> Int]
          BY <1>0 DEF PluginTypes
        <4>3. CASE before' = [before EXCEPT ![t] = Plugin!None]
          BY <4>2, <4>3
        <4> QED BY <4>1, <4>3
      <3>5. Plugin!NoJournal.state \notin Plugin!EndStates
        OBVIOUS
      <3> HIDE DEF Plugin!NoJournal, Plugin!EndStates
      <3>6. \A u \in Plugin!Txns : u > made' => journal'[u] = Plugin!NoJournal
        BY <1>0, <3>2, <3>3 DEF Journalled
      <3>7. \A u \in Plugin!Txns : journal'[u].state \in Plugin!EndStates => u \in ended'
        BY <1>0, <3>2, <3>3, <3>5 DEF Journalled
      <3>8. ASSUME NEW u \in Plugin!Txns, journal'[u] # Plugin!NoJournal
            PROVE  /\ journal'[u].existed = (opened'[u] # Plugin!None)
                   /\ u \notin ended' \/ before'[u] # Plugin!None => before'[u] = opened'[u]
                   /\ journal'[u].state = "escalated" => journal'[u].fails >= Plugin!MAX_FAILED_ATTEMPTS
        BY <1>0, <3>2, <3>3, <3>4, <3>8 DEF Journalled
      <3> QED BY <3>6, <3>7, <3>8 DEF Journalled
    <2>3. Beginning'
      BY <1>0, <1>18 DEF Plugin!Collect, Plugin!Garbage, PluginTypes, Journalled, Beginning,
         Undoing
    <2>4. Undoing'
      BY <1>0, <1>18 DEF Plugin!Collect, Plugin!Garbage, PluginTypes, Journalled, Beginning,
         Undoing
    <2>5. Plugin!UndoneIsUndone'
      BY <1>0, <1>18 DEF Plugin!Collect, Plugin!Garbage, PluginTypes, Journalled, Undoing,
         Beginning, Plugin!UndoneIsUndone, Plugin!Undoes,
         Plugin!TakesForUndone, Plugin!IsUndone
    <2> QED BY <2>1, <2>2, <2>3, <2>4, <2>5 DEF PluginInv
  <1>19. ASSUME NEW t \in Plugin!Txns, NEW tool \in {"verify", "apply", "rollback"}, Plugin!Call(t, tool)
        PROVE  PluginInv'
    <2>1. PluginTypes'
      BY <1>0, <1>19 DEF Plugin!Call, PluginTypes, Journalled
    <2>2. Journalled'
      BY <1>0, <1>19 DEF Plugin!Call, PluginTypes, Journalled, Beginning, Undoing
    <2>3. Beginning'
      BY <1>0, <1>19 DEF Plugin!Call, PluginTypes, Journalled, Beginning, Undoing
    <2>4. Undoing'
      BY <1>0, <1>19 DEF Plugin!Call, PluginTypes, Journalled, Beginning, Undoing
    <2>5. Plugin!UndoneIsUndone'
      BY <1>0, <1>19 DEF Plugin!Call, PluginTypes, Journalled, Undoing, Beginning,
         Plugin!UndoneIsUndone, Plugin!Undoes,
         Plugin!TakesForUndone, Plugin!IsUndone
    <2> QED BY <2>1, <2>2, <2>3, <2>4, <2>5 DEF PluginInv
  <1>20. CASE UNCHANGED Plugin!vars
    <2>1. PluginTypes'
      BY <1>0, <1>20 DEF Plugin!vars, PluginTypes, Journalled
    <2>2. Journalled'
      BY <1>0, <1>20 DEF Plugin!vars, PluginTypes, Journalled, Beginning, Undoing
    <2>3. Beginning'
      BY <1>0, <1>20 DEF Plugin!vars, PluginTypes, Journalled, Beginning, Undoing
    <2>4. Undoing'
      BY <1>0, <1>20 DEF Plugin!vars, PluginTypes, Journalled, Beginning, Undoing, Plugin!TooOften, Plugin!At
    <2>5. Plugin!UndoneIsUndone'
      BY <1>0, <1>20 DEF Plugin!vars, PluginTypes, Journalled, Undoing, Beginning,
         Plugin!UndoneIsUndone, Plugin!Undoes,
         Plugin!TakesForUndone, Plugin!IsUndone
    <2> QED BY <2>1, <2>2, <2>3, <2>4, <2>5 DEF PluginInv
  <1>21. CASE Plugin!DiskFails
    <2>1. PluginTypes'
      BY <1>0, <1>21 DEF Plugin!DiskFails, PluginTypes, Journalled
    <2>2. Journalled'
      BY <1>0, <1>21 DEF Plugin!DiskFails, PluginTypes, Journalled, Beginning, Undoing
    <2>3. Beginning'
      BY <1>0, <1>21 DEF Plugin!DiskFails, PluginTypes, Journalled, Beginning, Undoing
    <2>4. Undoing'
      BY <1>0, <1>21 DEF Plugin!DiskFails, PluginTypes, Journalled, Beginning, Undoing
    <2>5. Plugin!UndoneIsUndone'
      BY <1>0, <1>21 DEF Plugin!DiskFails, PluginTypes, Journalled, Undoing, Beginning,
         Plugin!UndoneIsUndone, Plugin!Undoes,
         Plugin!TakesForUndone, Plugin!IsUndone
    <2> QED BY <2>1, <2>2, <2>3, <2>4, <2>5 DEF PluginInv
  <1> QED BY <1>1, <1>2, <1>3, <1>4, <1>5, <1>6, <1>7, <1>8, <1>9, <1>10, <1>11, <1>12,
             <1>13, <1>14, <1>15, <1>16, <1>17, <1>18, <1>19, <1>20, <1>21 DEF Plugin!Next

\* It begins there.
LEMMA PluginBegins ==
  ASSUME Plugin!Init
  PROVE  PluginInv
  <1> USE ServicesConstants DEF Plugin!Init, Plugin!SelfUpdateAssumption, Plugin!Txns,
          Plugin!None,
          Plugin!Part, Plugin!NoJournal, Plugin!Idle, Plugin!EndStates, Plugin!At
  <1>1. PluginTypes
    BY DEF PluginTypes, Journals, JournalStates, Places
  <1>2. Journalled /\ Beginning /\ Undoing
    BY DEF Journalled, Beginning, Undoing
  <1>3. Plugin!UndoneIsUndone
    BY DEF Plugin!UndoneIsUndone, Plugin!Undoes,
       Plugin!TakesForUndone, Plugin!IsUndone
  <1> QED BY <1>1, <1>2, <1>3 DEF PluginInv

\* A step of a behaviour of this component is one of its own.
LEMMA PluginSteps ==
  ASSUME [SNext]_allVars, part' = "plugin"
  PROVE  part = "plugin" /\ [Plugin!Next]_Plugin!vars
  BY DEF SNext, CronStep, HookStep, PluginStep, CoreStep, ServerStep, DeskStep, allVars,
         pluginVars, Plugin!vars, Plugin!given, Plugin!host, Plugin!counters, Plugin!history

\* The invariant holds where the component runs.
LEMMA PluginsInv == SSpec => [](part = "plugin" => PluginInv)
  <1>1. SInit => (part = "plugin" => PluginInv)
    BY PluginBegins DEF SInit
  <1>2. (part = "plugin" => PluginInv) /\ [SNext]_allVars => (part = "plugin" => PluginInv)'
    BY PluginSteps, PluginInductive
  <1> QED BY <1>1, <1>2, PTL DEF SSpec

\* While a transaction is open, what its rollback puts back is there.
THEOREM UndoIsThereCorrect == SSpec => []UndoIsThere
  <1>1. (part = "plugin" => PluginInv) => UndoIsThere
    BY DEF PluginInv, Journalled, UndoIsThere, Plugin!UndoIsThere
  <1> QED BY <1>1, PluginsInv, PTL

\* A rollback leaves the target as it was when the transaction was opened.
THEOREM UndoneIsUndoneCorrect == SSpec => []UndoneIsUndone
  <1>1. (part = "plugin" => PluginInv) => UndoneIsUndone
    BY DEF PluginInv, UndoneIsUndone
  <1> QED BY <1>1, PluginsInv, PTL

-----------------------------------------------------------------------------
(*****************************************************************************)
(* Updates of the core: the copies of a transaction are what it overlays, and *)
(* a restoration puts just these back.                                       *)
(*****************************************************************************)
CoreStates == {"missing", "provisioned", "verified", "staged_restart", "committed", "rolled_back"}
CorePlaces == {"idle", "provision", "provisioned", "verify", "test", "apply", "overlay", "copy", "out",
           "in", "rollback", "restore", "paste", "gave up", "down"}
CoreCalls == [at : CorePlaces, txn : Nat, state : CoreStates, todo : SUBSET Pkgs, pkg : Pkgs \cup {""},
          build : Int]
CoreJournals == [state : CoreStates, pkgs : SUBSET Pkgs]
Overlays == {"overlay", "copy", "out", "in"}
Restores == {"restore", "paste"}

\* Types of what an update of the core keeps.
CoreTypes ==
  /\ built \in [Pkgs -> Int] /\ live \in [Pkgs -> Int] /\ source \in Int
  /\ edits \in Nat
  /\ snap \in [Core!Txns -> [Pkgs -> Int]] /\ first \in [Core!Txns -> [Pkgs -> Int]]
  /\ overlaid \in [Core!Txns -> Nat]
  /\ journal \in [Core!Txns -> CoreJournals]
  /\ call \in CoreCalls
  /\ call.at \notin {"idle", "provision", "provisioned", "down"} => call.txn \in Core!Txns
  /\ call.at \in {"copy", "out", "in"} => call.pkg \in call.todo /\ call.build # Core!None
  /\ Core!At("paste") => call.pkg \in call.todo

\* The copies of a transaction are the dists of the beginning of its overlay.
Copies ==
  \A t \in Core!Txns : t \notin torn =>
    /\ overlaid[t] = 0 => \A p \in Pkgs : snap[t][p] = Core!None
    /\ overlaid[t] <= 1 => \A p \in Pkgs :
         snap[t][p] \in {Core!None, first[t][p]}
           \/ (Core!At("copy") /\ call.txn = t /\ call.pkg = p /\ live[p] # Core!None)

\* A package has a copy in the call's transaction, or had nothing to copy.
Copied(p) == snap[call.txn][p] # Core!None \/ first[call.txn][p] = Core!None

\* An overlay has copied what it has put in, and not touched the others.
Overlaying ==
  call.at \in Overlays =>
    /\ overlaid[call.txn] > 0 /\ call.state = "verified"
    /\ call.todo \subseteq journal[call.txn].pkgs
    /\ \A p \in call.todo : live[p] = first[call.txn][p] \/ (Core!At("in") /\ p = call.pkg)
    /\ \A p \in journal[call.txn].pkgs \ call.todo : Copied(p)
    /\ call.at \in {"out", "in"} => Copied(call.pkg)

\* A restoration has put the copies back of what is done, and the rest of a
\* failed overlay was not touched.
Restoring ==
  /\ call.at \in {"apply", "rollback"} => call.todo = journal[call.txn].pkgs
  /\ call.at \in Restores =>
       /\ \A p \in journal[call.txn].pkgs \ call.todo : live[p] = snap[call.txn][p]
       /\ call.state = "verified" => \A p \in journal[call.txn].pkgs :
            Copied(p) \/ live[p] = first[call.txn][p]
  /\ Core!At("paste") => snap[call.txn][call.pkg] # Core!None

\* The inductive invariant of an update of the core.
CoreInv == CoreTypes /\ Copies /\ Overlaying /\ Restoring

\* A step that leaves the copies alone keeps what is known of them.
LEMMA CopiesKept ==
  ASSUME Copies, UNCHANGED <<snap, first, overlaid>>, torn \subseteq torn',
         Core!At("copy") => call.txn \in torn'
  PROVE  Copies'
  <1>1. ASSUME NEW t \in Core!Txns, t \notin torn'
        PROVE  /\ overlaid'[t] = 0 => \A p \in Pkgs : snap'[t][p] = Core!None
               /\ overlaid'[t] <= 1 => \A p \in Pkgs : snap'[t][p] \in {Core!None, first'[t][p]}
    <2>1. t \notin torn /\ ~(Core!At("copy") /\ call.txn = t)
      BY <1>1
    <2> QED BY <2>1 DEF Copies
  <1> QED BY <1>1 DEF Copies

\* What stands for a version that is not there, or not whole, is no number of a
\* version.
LEMMA NoneIsInt == Core!None \in Int /\ Core!Part \in Int /\ Core!None \notin Nat
  BY DEF Core!None, Core!Part

\* The call that does nothing, and the one of a process that is down.
LEMMA IdleCall ==
  /\ Core!Idle \in CoreCalls /\ Core!Idle.at = "idle"
  /\ [Core!Idle EXCEPT !.at = "down"] \in CoreCalls /\ [Core!Idle EXCEPT !.at = "down"].at = "down"
  <1>1. Core!Idle \in CoreCalls
    BY NoneIsInt DEF Core!Idle, CoreCalls, CorePlaces, CoreStates
  <1>2. [Core!Idle EXCEPT !.at = "down"] \in CoreCalls
    BY <1>1 DEF CoreCalls, CorePlaces
  <1> QED BY <1>1, <1>2 DEF Core!Idle, CoreCalls

\* Every step keeps the invariant of an update of the core.
LEMMA CoreInductive ==
  ASSUME CoreInv, [Core!Next]_Core!vars
  PROVE  CoreInv'
  <1> USE DEF Core!At, Core!To, Core!Journal, Core!NoJournal, Core!Idle, Core!None,
          Core!Part, CoreStates, CorePlaces,
          Overlays, Restores, Copied, Core!clone, Core!install, Core!counters, Core!undo
  <1>0. CoreTypes /\ Copies /\ Overlaying /\ Restoring
    BY DEF CoreInv
  <1>1. CASE Core!Begin
    <2>1. CoreTypes'
      <3>1. call' \in CoreCalls
        BY <1>0, <1>1 DEF Core!Begin, CoreTypes, CoreCalls, CoreJournals
      <3>2. /\ call'.at \notin {"idle", "provision", "provisioned", "down"} => call'.txn \in Core!Txns
            /\ call'.at \in {"copy", "out", "in"} => call'.pkg \in call'.todo /\ call'.build # Core!None
            /\ Core!At("paste")' => call'.pkg \in call'.todo
        BY <1>0, <1>1 DEF Core!Begin, CoreTypes, CoreCalls
      <3>3. built' \in [Pkgs -> Int] /\ live' \in [Pkgs -> Int] /\ source' \in Int /\ edits' \in Nat
        BY <1>0, <1>1 DEF Core!Begin, CoreTypes, CoreCalls
      <3>4. snap' \in [Core!Txns -> [Pkgs -> Int]] /\ first' \in [Core!Txns -> [Pkgs -> Int]]
        BY <1>0, <1>1 DEF Core!Begin, CoreTypes
      <3>5. overlaid' \in [Core!Txns -> Nat]
        BY <1>0, <1>1 DEF Core!Begin, CoreTypes
      <3>6. journal' \in [Core!Txns -> CoreJournals]
        BY <1>0, <1>1 DEF Core!Begin, CoreTypes, CoreJournals, CoreCalls
      <3> QED BY <3>1, <3>2, <3>3, <3>4, <3>5, <3>6 DEF CoreTypes
    <2>3. Copies'
      BY <1>0, <1>1, CopiesKept DEF Core!Begin
    <2>4. Overlaying'
      BY <1>0, <1>1 DEF Core!Begin, CoreTypes, Overlaying, CoreCalls
    <2>5. Restoring'
      BY <1>0, <1>1 DEF Core!Begin, CoreTypes, Restoring, CoreCalls
    <2> QED BY <2>1, <2>3, <2>4, <2>5 DEF CoreInv
  <1>2. CASE Core!Provision
    <2>1. CoreTypes'
      <3>1. call' \in CoreCalls
        BY <1>0, <1>2 DEF Core!Provision, CoreTypes, CoreCalls, CoreJournals
      <3>2. /\ call'.at \notin {"idle", "provision", "provisioned", "down"} => call'.txn \in Core!Txns
            /\ call'.at \in {"copy", "out", "in"} => call'.pkg \in call'.todo /\ call'.build # Core!None
            /\ Core!At("paste")' => call'.pkg \in call'.todo
        BY <1>0, <1>2 DEF Core!Provision, CoreTypes, CoreCalls
      <3>3. built' \in [Pkgs -> Int] /\ live' \in [Pkgs -> Int] /\ source' \in Int /\ edits' \in Nat
        <4>1. built' \in [Pkgs -> Int]
          BY <1>0, <1>2, NoneIsInt DEF Core!Provision, CoreTypes
        <4>2. live' \in [Pkgs -> Int]
          BY <1>0, <1>2, NoneIsInt DEF Core!Provision, CoreTypes
        <4>3. source' \in Int /\ edits' \in Nat
          BY <1>0, <1>2 DEF Core!Provision, CoreTypes
        <4> QED BY <4>1, <4>2, <4>3
      <3>4. snap' \in [Core!Txns -> [Pkgs -> Int]] /\ first' \in [Core!Txns -> [Pkgs -> Int]]
        BY <1>0, <1>2 DEF Core!Provision, CoreTypes
      <3>5. overlaid' \in [Core!Txns -> Nat]
        BY <1>0, <1>2 DEF Core!Provision, CoreTypes
      <3>6. journal' \in [Core!Txns -> CoreJournals]
        BY <1>0, <1>2 DEF Core!Provision, CoreTypes, CoreJournals, CoreCalls
      <3> QED BY <3>1, <3>2, <3>3, <3>4, <3>5, <3>6 DEF CoreTypes
    <2>3. Copies'
      BY <1>0, <1>2, CopiesKept DEF Core!Provision
    <2>4. Overlaying'
      BY <1>0, <1>2 DEF Core!Provision, CoreTypes, Overlaying, CoreCalls
    <2>5. Restoring'
      BY <1>0, <1>2 DEF Core!Provision, CoreTypes, Restoring, CoreCalls
    <2> QED BY <2>1, <2>3, <2>4, <2>5 DEF CoreInv
  <1>3. CASE Core!ProvisionFails
    <2>1. CoreTypes'
      <3>1. call' \in CoreCalls
        BY <1>3, IdleCall DEF Core!ProvisionFails
      <3>2. /\ call'.at \notin {"idle", "provision", "provisioned", "down"} => call'.txn \in Core!Txns
            /\ call'.at \in {"copy", "out", "in"} => call'.pkg \in call'.todo /\ call'.build # Core!None
            /\ Core!At("paste")' => call'.pkg \in call'.todo
        BY <1>0, <1>3 DEF Core!ProvisionFails, CoreTypes, CoreCalls
      <3>3. built' \in [Pkgs -> Int] /\ live' \in [Pkgs -> Int] /\ source' \in Int /\ edits' \in Nat
        BY <1>0, <1>3 DEF Core!ProvisionFails, CoreTypes, CoreCalls
      <3>4. snap' \in [Core!Txns -> [Pkgs -> Int]] /\ first' \in [Core!Txns -> [Pkgs -> Int]]
        BY <1>0, <1>3 DEF Core!ProvisionFails, CoreTypes
      <3>5. overlaid' \in [Core!Txns -> Nat]
        BY <1>0, <1>3 DEF Core!ProvisionFails, CoreTypes
      <3>6. journal' \in [Core!Txns -> CoreJournals]
        BY <1>0, <1>3 DEF Core!ProvisionFails, CoreTypes, CoreJournals, CoreCalls
      <3> QED BY <3>1, <3>2, <3>3, <3>4, <3>5, <3>6 DEF CoreTypes
    <2>3. Copies'
      BY <1>0, <1>3, CopiesKept DEF Core!ProvisionFails
    <2>4. Overlaying'
      BY <1>0, <1>3 DEF Core!ProvisionFails, CoreTypes, Overlaying, CoreCalls
    <2>5. Restoring'
      BY <1>0, <1>3 DEF Core!ProvisionFails, CoreTypes, Restoring, CoreCalls
    <2> QED BY <2>1, <2>3, <2>4, <2>5 DEF CoreInv
  <1>4. CASE Core!Edit
    <2>1. CoreTypes'
      <3>1. call' \in CoreCalls
        BY <1>0, <1>4 DEF Core!Edit, CoreTypes, CoreCalls, CoreJournals
      <3>2. /\ call'.at \notin {"idle", "provision", "provisioned", "down"} => call'.txn \in Core!Txns
            /\ call'.at \in {"copy", "out", "in"} => call'.pkg \in call'.todo /\ call'.build # Core!None
            /\ Core!At("paste")' => call'.pkg \in call'.todo
        BY <1>0, <1>4 DEF Core!Edit, CoreTypes, CoreCalls
      <3>3. built' \in [Pkgs -> Int] /\ live' \in [Pkgs -> Int] /\ source' \in Int /\ edits' \in Nat
        BY <1>0, <1>4 DEF Core!Edit, CoreTypes
      <3>4. snap' \in [Core!Txns -> [Pkgs -> Int]] /\ first' \in [Core!Txns -> [Pkgs -> Int]]
        BY <1>0, <1>4 DEF Core!Edit, CoreTypes
      <3>5. overlaid' \in [Core!Txns -> Nat]
        BY <1>0, <1>4 DEF Core!Edit, CoreTypes
      <3>6. journal' \in [Core!Txns -> CoreJournals]
        BY <1>0, <1>4 DEF Core!Edit, CoreTypes, CoreJournals, CoreCalls
      <3> QED BY <3>1, <3>2, <3>3, <3>4, <3>5, <3>6 DEF CoreTypes
    <2>3. Copies'
      BY <1>0, <1>4, CopiesKept DEF Core!Edit
    <2>4. Overlaying'
      BY <1>0, <1>4 DEF Core!Edit, CoreTypes, Overlaying, CoreCalls
    <2>5. Restoring'
      BY <1>0, <1>4 DEF Core!Edit, CoreTypes, Restoring, CoreCalls
    <2> QED BY <2>1, <2>3, <2>4, <2>5 DEF CoreInv
  <1>5. CASE Core!Build
    <2>1. CoreTypes'
      <3>1. call' \in CoreCalls
        BY <1>0, <1>5 DEF Core!Build, CoreTypes, CoreCalls, CoreJournals
      <3>2. /\ call'.at \notin {"idle", "provision", "provisioned", "down"} => call'.txn \in Core!Txns
            /\ call'.at \in {"copy", "out", "in"} => call'.pkg \in call'.todo /\ call'.build # Core!None
            /\ Core!At("paste")' => call'.pkg \in call'.todo
        BY <1>0, <1>5 DEF Core!Build, CoreTypes, CoreCalls
      <3>3. built' \in [Pkgs -> Int] /\ live' \in [Pkgs -> Int] /\ source' \in Int /\ edits' \in Nat
        <4>1. built' \in [Pkgs -> Int]
          BY <1>0, <1>5, NoneIsInt DEF Core!Build, CoreTypes
        <4>2. live' \in [Pkgs -> Int]
          BY <1>0, <1>5, NoneIsInt DEF Core!Build, CoreTypes
        <4>3. source' \in Int /\ edits' \in Nat
          BY <1>0, <1>5 DEF Core!Build, CoreTypes
        <4> QED BY <4>1, <4>2, <4>3
      <3>4. snap' \in [Core!Txns -> [Pkgs -> Int]] /\ first' \in [Core!Txns -> [Pkgs -> Int]]
        BY <1>0, <1>5 DEF Core!Build, CoreTypes
      <3>5. overlaid' \in [Core!Txns -> Nat]
        BY <1>0, <1>5 DEF Core!Build, CoreTypes
      <3>6. journal' \in [Core!Txns -> CoreJournals]
        BY <1>0, <1>5 DEF Core!Build, CoreTypes, CoreJournals, CoreCalls
      <3> QED BY <3>1, <3>2, <3>3, <3>4, <3>5, <3>6 DEF CoreTypes
    <2>3. Copies'
      BY <1>0, <1>5, CopiesKept DEF Core!Build
    <2>4. Overlaying'
      BY <1>0, <1>5 DEF Core!Build, CoreTypes, Overlaying, CoreCalls
    <2>5. Restoring'
      BY <1>0, <1>5 DEF Core!Build, CoreTypes, Restoring, CoreCalls
    <2> QED BY <2>1, <2>3, <2>4, <2>5 DEF CoreInv
  <1>6. CASE Core!VerifyFails
    <2>1. CoreTypes'
      <3>1. call' \in CoreCalls
        BY <1>6, IdleCall DEF Core!VerifyFails
      <3>2. /\ call'.at \notin {"idle", "provision", "provisioned", "down"} => call'.txn \in Core!Txns
            /\ call'.at \in {"copy", "out", "in"} => call'.pkg \in call'.todo /\ call'.build # Core!None
            /\ Core!At("paste")' => call'.pkg \in call'.todo
        BY <1>0, <1>6 DEF Core!VerifyFails, CoreTypes, CoreCalls
      <3>3. built' \in [Pkgs -> Int] /\ live' \in [Pkgs -> Int] /\ source' \in Int /\ edits' \in Nat
        BY <1>0, <1>6 DEF Core!VerifyFails, CoreTypes, CoreCalls
      <3>4. snap' \in [Core!Txns -> [Pkgs -> Int]] /\ first' \in [Core!Txns -> [Pkgs -> Int]]
        BY <1>0, <1>6 DEF Core!VerifyFails, CoreTypes
      <3>5. overlaid' \in [Core!Txns -> Nat]
        BY <1>0, <1>6 DEF Core!VerifyFails, CoreTypes
      <3>6. journal' \in [Core!Txns -> CoreJournals]
        BY <1>0, <1>6 DEF Core!VerifyFails, CoreTypes, CoreJournals, CoreCalls
      <3> QED BY <3>1, <3>2, <3>3, <3>4, <3>5, <3>6 DEF CoreTypes
    <2>3. Copies'
      BY <1>0, <1>6, CopiesKept DEF Core!VerifyFails
    <2>4. Overlaying'
      BY <1>0, <1>6 DEF Core!VerifyFails, CoreTypes, Overlaying, CoreCalls
    <2>5. Restoring'
      BY <1>0, <1>6 DEF Core!VerifyFails, CoreTypes, Restoring, CoreCalls
    <2> QED BY <2>1, <2>3, <2>4, <2>5 DEF CoreInv
  <1>7. CASE Core!VerifyPasses
    <2>1. CoreTypes'
      <3>1. call' \in CoreCalls
        BY <1>7, IdleCall DEF Core!VerifyPasses
      <3>2. /\ call'.at \notin {"idle", "provision", "provisioned", "down"} => call'.txn \in Core!Txns
            /\ call'.at \in {"copy", "out", "in"} => call'.pkg \in call'.todo /\ call'.build # Core!None
            /\ Core!At("paste")' => call'.pkg \in call'.todo
        BY <1>0, <1>7 DEF Core!VerifyPasses, CoreTypes, CoreCalls
      <3>3. built' \in [Pkgs -> Int] /\ live' \in [Pkgs -> Int] /\ source' \in Int /\ edits' \in Nat
        BY <1>0, <1>7 DEF Core!VerifyPasses, CoreTypes, CoreCalls
      <3>4. snap' \in [Core!Txns -> [Pkgs -> Int]] /\ first' \in [Core!Txns -> [Pkgs -> Int]]
        BY <1>0, <1>7 DEF Core!VerifyPasses, CoreTypes
      <3>5. overlaid' \in [Core!Txns -> Nat]
        BY <1>0, <1>7 DEF Core!VerifyPasses, CoreTypes
      <3>6. journal' \in [Core!Txns -> CoreJournals]
        BY <1>0, <1>7 DEF Core!VerifyPasses, CoreTypes, CoreJournals, CoreCalls
      <3> QED BY <3>1, <3>2, <3>3, <3>4, <3>5, <3>6 DEF CoreTypes
    <2>3. Copies'
      BY <1>0, <1>7, CopiesKept DEF Core!VerifyPasses
    <2>4. Overlaying'
      BY <1>0, <1>7 DEF Core!VerifyPasses, CoreTypes, Overlaying, CoreCalls
    <2>5. Restoring'
      BY <1>0, <1>7 DEF Core!VerifyPasses, CoreTypes, Restoring, CoreCalls
    <2> QED BY <2>1, <2>3, <2>4, <2>5 DEF CoreInv
  <1>8. CASE Core!Apply
    <2>0. /\ call.at = "apply" /\ call.txn \in Core!Txns /\ call \in CoreCalls
          /\ call.todo = journal[call.txn].pkgs
          /\ UNCHANGED <<live, snap, journal, torn>>
      BY <1>0, <1>8 DEF Core!Apply, CoreTypes, Restoring
    <2>6. \/ call' = Core!Idle /\ UNCHANGED <<overlaid, first>>
          \/ /\ call.state = "verified" /\ call' = [call EXCEPT !.at = "overlay"]
             /\ overlaid' = [overlaid EXCEPT ![call.txn] = overlaid[call.txn] + 1]
             /\ first' = [first EXCEPT ![call.txn] = live]
      BY <1>8 DEF Core!Apply
    <2>7. ASSUME call' = [call EXCEPT !.at = "overlay"]
          PROVE  /\ call'.at = "overlay" /\ call'.txn = call.txn /\ call'.todo = call.todo
                 /\ call'.state = call.state
      BY <2>0, <2>7 DEF CoreCalls
    <2>1. CoreTypes'
      <3>1. call' \in CoreCalls
        <4>1. CASE call' = Core!Idle
          BY <4>1, IdleCall
        <4>2. CASE call' = [call EXCEPT !.at = "overlay"]
          BY <1>0, <4>2 DEF CoreTypes, CoreCalls
        <4> QED BY <1>8, <4>1, <4>2 DEF Core!Apply
      <3>2. /\ call'.at \notin {"idle", "provision", "provisioned", "down"} => call'.txn \in Core!Txns
            /\ call'.at \in {"copy", "out", "in"} => call'.pkg \in call'.todo /\ call'.build # Core!None
            /\ Core!At("paste")' => call'.pkg \in call'.todo
        <4>0. call \in CoreCalls /\ call.txn \in Core!Txns
          BY <1>0, <1>8 DEF Core!Apply, CoreTypes
        <4>1. CASE call' = Core!Idle
          BY <4>1, IdleCall
        <4>2. CASE call' = [call EXCEPT !.at = "overlay"]
          BY <4>0, <4>2 DEF CoreCalls
        <4> QED BY <1>8, <4>1, <4>2 DEF Core!Apply
      <3>3. built' \in [Pkgs -> Int] /\ live' \in [Pkgs -> Int] /\ source' \in Int /\ edits' \in Nat
        BY <1>0, <1>8 DEF Core!Apply, CoreTypes, CoreCalls
      <3>4. snap' \in [Core!Txns -> [Pkgs -> Int]] /\ first' \in [Core!Txns -> [Pkgs -> Int]]
        BY <1>0, <1>8 DEF Core!Apply, CoreTypes
      <3>5. overlaid' \in [Core!Txns -> Nat]
        <4>1. overlaid' = overlaid \/ overlaid' = [overlaid EXCEPT ![call.txn] = overlaid[call.txn] + 1]
          BY <1>8 DEF Core!Apply
        <4>2. overlaid \in [Core!Txns -> Nat] /\ call.txn \in Core!Txns
          BY <1>0, <1>8 DEF Core!Apply, CoreTypes
        <4>3. overlaid[call.txn] + 1 \in Nat
          BY <4>2
        <4> QED BY <4>1, <4>2, <4>3
      <3>6. journal' \in [Core!Txns -> CoreJournals]
        BY <1>0, <1>8 DEF Core!Apply, CoreTypes, CoreJournals, CoreCalls
      <3> QED BY <3>1, <3>2, <3>3, <3>4, <3>5, <3>6 DEF CoreTypes
    <2>3. Copies'
      <3>1. CASE call' = Core!Idle /\ UNCHANGED <<overlaid, first>>
        BY <1>0, <2>0, <3>1, CopiesKept
      <3>2. CASE /\ overlaid' = [overlaid EXCEPT ![call.txn] = overlaid[call.txn] + 1]
                 /\ first' = [first EXCEPT ![call.txn] = live]
        <4>1. /\ \A t \in Core!Txns : t # call.txn => overlaid'[t] = overlaid[t] /\ first'[t] = first[t]
              /\ overlaid'[call.txn] = overlaid[call.txn] + 1 /\ overlaid[call.txn] \in Nat
          BY <1>0, <2>0, <3>2 DEF CoreTypes
        <4>2. ASSUME NEW t \in Core!Txns, t \notin torn
              PROVE  /\ overlaid'[t] = 0 => \A p \in Pkgs : snap'[t][p] = Core!None
                     /\ overlaid'[t] <= 1 => \A p \in Pkgs : snap'[t][p] \in {Core!None, first'[t][p]}
          <5>1. CASE t = call.txn
            BY <1>0, <2>0, <4>1, <4>2, <5>1 DEF Copies
          <5>2. CASE t # call.txn
            BY <1>0, <2>0, <4>1, <4>2, <5>2 DEF Copies
          <5> QED BY <5>1, <5>2
        <4> QED BY <2>0, <4>2 DEF Copies
      <3> QED BY <2>6, <3>1, <3>2
    <2>4. Overlaying'
      <3>1. CASE call' = Core!Idle
        BY <3>1, IdleCall DEF Overlaying
      <3>2. CASE call' # Core!Idle
        <4>1. /\ call.state = "verified" /\ call' = [call EXCEPT !.at = "overlay"]
              /\ overlaid'[call.txn] = overlaid[call.txn] + 1 /\ overlaid[call.txn] \in Nat
              /\ first'[call.txn] = live
          BY <1>0, <2>0, <2>6, <3>2 DEF CoreTypes
        <4> QED BY <2>0, <2>7, <4>1 DEF Overlaying
      <3> QED BY <3>1, <3>2
    <2>5. Restoring'
      <3>1. call'.at \in {"idle", "overlay"}
        BY <2>6, <2>7, IdleCall
      <3> QED BY <3>1 DEF Restoring
    <2> QED BY <2>1, <2>3, <2>4, <2>5 DEF CoreInv
  <1>9. CASE Core!SnapshotEnds
    <2>0. /\ call.at = "copy" /\ call.txn \in Core!Txns /\ call.pkg \in call.todo /\ call \in CoreCalls
          /\ call.pkg \in Pkgs /\ UNCHANGED <<live, journal, overlaid, first, torn>>
          /\ live[call.pkg] = first[call.txn][call.pkg]
      BY <1>0, <1>9 DEF Core!SnapshotEnds, CoreTypes, Overlaying, CoreCalls
    <2>6. \A t \in Core!Txns, p \in Pkgs :
            snap'[t][p] = IF t = call.txn /\ p = call.pkg /\ live[p] # Core!None
                          THEN live[p] ELSE snap[t][p]
      <3>1. CASE live[call.pkg] = Core!None
        <4>1. snap' = [snap EXCEPT ![call.txn][call.pkg] = snap[call.txn][call.pkg]]
          BY <1>9, <3>1 DEF Core!SnapshotEnds
        <4> QED BY <1>0, <2>0, <3>1, <4>1 DEF CoreTypes
      <3>2. CASE live[call.pkg] # Core!None
        <4>1. snap' = [snap EXCEPT ![call.txn][call.pkg] = live[call.pkg]]
          BY <1>9, <3>2 DEF Core!SnapshotEnds
        <4> QED BY <1>0, <2>0, <3>2, <4>1 DEF CoreTypes
      <3> QED BY <3>1, <3>2
    <2>7. /\ call'.at = "out" /\ call'.txn = call.txn /\ call'.todo = call.todo
          /\ call'.state = call.state /\ call'.pkg = call.pkg
      BY <1>9, <2>0 DEF Core!SnapshotEnds, CoreCalls
    <2>1. CoreTypes'
      <3>1. call' \in CoreCalls
        BY <1>0, <1>9 DEF Core!SnapshotEnds, CoreTypes, CoreCalls, CoreJournals
      <3>2. /\ call'.at \notin {"idle", "provision", "provisioned", "down"} => call'.txn \in Core!Txns
            /\ call'.at \in {"copy", "out", "in"} => call'.pkg \in call'.todo /\ call'.build # Core!None
            /\ Core!At("paste")' => call'.pkg \in call'.todo
        BY <1>0, <1>9 DEF Core!SnapshotEnds, CoreTypes, CoreCalls
      <3>3. built' \in [Pkgs -> Int] /\ live' \in [Pkgs -> Int] /\ source' \in Int /\ edits' \in Nat
        BY <1>0, <1>9 DEF Core!SnapshotEnds, CoreTypes, CoreCalls
      <3>4. snap' \in [Core!Txns -> [Pkgs -> Int]] /\ first' \in [Core!Txns -> [Pkgs -> Int]]
        BY <1>0, <1>9 DEF Core!SnapshotEnds, CoreTypes
      <3>5. overlaid' \in [Core!Txns -> Nat]
        BY <1>0, <1>9 DEF Core!SnapshotEnds, CoreTypes
      <3>6. journal' \in [Core!Txns -> CoreJournals]
        BY <1>0, <1>9 DEF Core!SnapshotEnds, CoreTypes, CoreJournals, CoreCalls
      <3> QED BY <3>1, <3>2, <3>3, <3>4, <3>5, <3>6 DEF CoreTypes
    <2>3. Copies'
      <3>1. \A t \in Core!Txns : overlaid[t] = 0 => t # call.txn
        BY <1>0, <2>0 DEF Overlaying
      <3>2. ASSUME NEW t \in Core!Txns, t \notin torn
            PROVE  /\ overlaid[t] = 0 => \A p \in Pkgs : snap'[t][p] = Core!None
                   /\ overlaid[t] <= 1 => \A p \in Pkgs : snap'[t][p] \in {Core!None, first[t][p]}
        BY <1>0, <2>0, <2>6, <3>1, <3>2 DEF Copies
      <3> QED BY <2>0, <3>2 DEF Copies
    <2>4. Overlaying'
      <3>1. \A p \in journal[call.txn].pkgs \ call.todo :
              snap'[call.txn][p] # Core!None \/ first[call.txn][p] = Core!None
        BY <1>0, <2>0, <2>6 DEF Overlaying, CoreTypes, CoreJournals
      <3>2. \A p \in call.todo : live[p] = first[call.txn][p]
        BY <1>0, <2>0 DEF Overlaying
      <3>3. /\ overlaid[call.txn] > 0 /\ call.state = "verified"
            /\ call.todo \subseteq journal[call.txn].pkgs
        BY <1>0, <2>0 DEF Overlaying
      <3>4. snap'[call.txn][call.pkg] # Core!None \/ first[call.txn][call.pkg] = Core!None
        BY <2>0, <2>6
      <3> QED BY <2>0, <2>7, <3>1, <3>2, <3>3, <3>4 DEF Overlaying
    <2>5. Restoring'
      BY <1>0, <1>9 DEF Core!SnapshotEnds, CoreTypes, Restoring, CoreCalls
    <2> QED BY <2>1, <2>3, <2>4, <2>5 DEF CoreInv
  <1>10. CASE Core!SwapOut
    <2>1. CoreTypes'
      <3>1. call' \in CoreCalls
        BY <1>0, <1>10 DEF Core!SwapOut, CoreTypes, CoreCalls, CoreJournals
      <3>2. /\ call'.at \notin {"idle", "provision", "provisioned", "down"} => call'.txn \in Core!Txns
            /\ call'.at \in {"copy", "out", "in"} => call'.pkg \in call'.todo /\ call'.build # Core!None
            /\ Core!At("paste")' => call'.pkg \in call'.todo
        BY <1>0, <1>10 DEF Core!SwapOut, CoreTypes, CoreCalls
      <3>3. built' \in [Pkgs -> Int] /\ live' \in [Pkgs -> Int] /\ source' \in Int /\ edits' \in Nat
        <4>1. built' \in [Pkgs -> Int]
          BY <1>0, <1>10, NoneIsInt DEF Core!SwapOut, CoreTypes
        <4>2. live' \in [Pkgs -> Int]
          BY <1>0, <1>10, NoneIsInt DEF Core!SwapOut, CoreTypes
        <4>3. source' \in Int /\ edits' \in Nat
          BY <1>0, <1>10 DEF Core!SwapOut, CoreTypes
        <4> QED BY <4>1, <4>2, <4>3
      <3>4. snap' \in [Core!Txns -> [Pkgs -> Int]] /\ first' \in [Core!Txns -> [Pkgs -> Int]]
        BY <1>0, <1>10 DEF Core!SwapOut, CoreTypes
      <3>5. overlaid' \in [Core!Txns -> Nat]
        BY <1>0, <1>10 DEF Core!SwapOut, CoreTypes
      <3>6. journal' \in [Core!Txns -> CoreJournals]
        BY <1>0, <1>10 DEF Core!SwapOut, CoreTypes, CoreJournals, CoreCalls
      <3> QED BY <3>1, <3>2, <3>3, <3>4, <3>5, <3>6 DEF CoreTypes
    <2>3. Copies'
      BY <1>0, <1>10, CopiesKept DEF Core!SwapOut
    <2>4. Overlaying'
      BY <1>0, <1>10 DEF Core!SwapOut, CoreTypes, Overlaying, CoreCalls
    <2>5. Restoring'
      BY <1>0, <1>10 DEF Core!SwapOut, CoreTypes, Restoring, CoreCalls
    <2> QED BY <2>1, <2>3, <2>4, <2>5 DEF CoreInv
  <1>11. CASE Core!SwapIn
    <2>1. CoreTypes'
      <3>1. call' \in CoreCalls
        BY <1>0, <1>11 DEF Core!SwapIn, CoreTypes, CoreCalls, CoreJournals
      <3>2. /\ call'.at \notin {"idle", "provision", "provisioned", "down"} => call'.txn \in Core!Txns
            /\ call'.at \in {"copy", "out", "in"} => call'.pkg \in call'.todo /\ call'.build # Core!None
            /\ Core!At("paste")' => call'.pkg \in call'.todo
        BY <1>0, <1>11 DEF Core!SwapIn, CoreTypes, CoreCalls
      <3>3. built' \in [Pkgs -> Int] /\ live' \in [Pkgs -> Int] /\ source' \in Int /\ edits' \in Nat
        BY <1>0, <1>11 DEF Core!SwapIn, CoreTypes, CoreCalls
      <3>4. snap' \in [Core!Txns -> [Pkgs -> Int]] /\ first' \in [Core!Txns -> [Pkgs -> Int]]
        BY <1>0, <1>11 DEF Core!SwapIn, CoreTypes
      <3>5. overlaid' \in [Core!Txns -> Nat]
        BY <1>0, <1>11 DEF Core!SwapIn, CoreTypes
      <3>6. journal' \in [Core!Txns -> CoreJournals]
        BY <1>0, <1>11 DEF Core!SwapIn, CoreTypes, CoreJournals, CoreCalls
      <3> QED BY <3>1, <3>2, <3>3, <3>4, <3>5, <3>6 DEF CoreTypes
    <2>3. Copies'
      BY <1>0, <1>11, CopiesKept DEF Core!SwapIn
    <2>4. Overlaying'
      BY <1>0, <1>11 DEF Core!SwapIn, CoreTypes, Overlaying, CoreCalls
    <2>5. Restoring'
      BY <1>0, <1>11 DEF Core!SwapIn, CoreTypes, Restoring, CoreCalls
    <2> QED BY <2>1, <2>3, <2>4, <2>5 DEF CoreInv
  <1>12. CASE Core!Staged
    <2>1. CoreTypes'
      <3>1. call' \in CoreCalls
        BY <1>12, IdleCall DEF Core!Staged
      <3>2. /\ call'.at \notin {"idle", "provision", "provisioned", "down"} => call'.txn \in Core!Txns
            /\ call'.at \in {"copy", "out", "in"} => call'.pkg \in call'.todo /\ call'.build # Core!None
            /\ Core!At("paste")' => call'.pkg \in call'.todo
        BY <1>0, <1>12 DEF Core!Staged, CoreTypes, CoreCalls
      <3>3. built' \in [Pkgs -> Int] /\ live' \in [Pkgs -> Int] /\ source' \in Int /\ edits' \in Nat
        BY <1>0, <1>12 DEF Core!Staged, CoreTypes, CoreCalls
      <3>4. snap' \in [Core!Txns -> [Pkgs -> Int]] /\ first' \in [Core!Txns -> [Pkgs -> Int]]
        BY <1>0, <1>12 DEF Core!Staged, CoreTypes
      <3>5. overlaid' \in [Core!Txns -> Nat]
        BY <1>0, <1>12 DEF Core!Staged, CoreTypes
      <3>6. journal' \in [Core!Txns -> CoreJournals]
        <4>1. call.txn \in Core!Txns /\ "staged_restart" \in CoreStates /\ journal[call.txn] \in CoreJournals
          BY <1>0, <1>12 DEF Core!Staged, CoreTypes, CoreCalls
        <4> DEFINE j == [journal[call.txn] EXCEPT !.state = "staged_restart"]
        <4>2. j \in CoreJournals
          BY <4>1 DEF CoreJournals
        <4>3. journal' = [journal EXCEPT ![call.txn] = j]
          BY <1>12 DEF Core!Staged
        <4> HIDE DEF j
        <4> QED BY <1>0, <4>1, <4>2, <4>3 DEF CoreTypes
      <3> QED BY <3>1, <3>2, <3>3, <3>4, <3>5, <3>6 DEF CoreTypes
    <2>3. Copies'
      BY <1>0, <1>12, CopiesKept DEF Core!Staged
    <2>4. Overlaying'
      BY <1>0, <1>12 DEF Core!Staged, CoreTypes, Overlaying, CoreCalls
    <2>5. Restoring'
      BY <1>0, <1>12 DEF Core!Staged, CoreTypes, Restoring, CoreCalls
    <2> QED BY <2>1, <2>3, <2>4, <2>5 DEF CoreInv
  <1>13. CASE Core!NoDist
    <2>1. CoreTypes'
      <3>1. call' \in CoreCalls
        BY <1>0, <1>13 DEF Core!NoDist, CoreTypes, CoreCalls, CoreJournals
      <3>2. /\ call'.at \notin {"idle", "provision", "provisioned", "down"} => call'.txn \in Core!Txns
            /\ call'.at \in {"copy", "out", "in"} => call'.pkg \in call'.todo /\ call'.build # Core!None
            /\ Core!At("paste")' => call'.pkg \in call'.todo
        BY <1>0, <1>13 DEF Core!NoDist, CoreTypes, CoreCalls
      <3>3. built' \in [Pkgs -> Int] /\ live' \in [Pkgs -> Int] /\ source' \in Int /\ edits' \in Nat
        BY <1>0, <1>13 DEF Core!NoDist, CoreTypes, CoreCalls
      <3>4. snap' \in [Core!Txns -> [Pkgs -> Int]] /\ first' \in [Core!Txns -> [Pkgs -> Int]]
        BY <1>0, <1>13 DEF Core!NoDist, CoreTypes
      <3>5. overlaid' \in [Core!Txns -> Nat]
        BY <1>0, <1>13 DEF Core!NoDist, CoreTypes
      <3>6. journal' \in [Core!Txns -> CoreJournals]
        BY <1>0, <1>13 DEF Core!NoDist, CoreTypes, CoreJournals, CoreCalls
      <3> QED BY <3>1, <3>2, <3>3, <3>4, <3>5, <3>6 DEF CoreTypes
    <2>3. Copies'
      BY <1>0, <1>13, CopiesKept DEF Core!NoDist
    <2>4. Overlaying'
      BY <1>0, <1>13 DEF Core!NoDist, CoreTypes, Overlaying, CoreCalls
    <2>5. Restoring'
      <3>1. /\ call.at = "overlay" /\ UNCHANGED <<live, snap, journal, first>> /\ call \in CoreCalls
            /\ call.txn \in Core!Txns /\ call.todo \subseteq journal[call.txn].pkgs
        BY <1>0, <1>13 DEF Core!NoDist, CoreTypes, Overlaying
      <3>2. /\ call'.at = "restore" /\ call'.txn = call.txn
            /\ call'.todo = journal[call.txn].pkgs
        BY <1>13, <3>1 DEF Core!NoDist, CoreCalls
      <3>3. \A p \in journal[call.txn].pkgs : Copied(p) \/ live[p] = first[call.txn][p]
        BY <1>0, <3>1 DEF Overlaying
      <3> QED BY <3>1, <3>2, <3>3 DEF Restoring
    <2> QED BY <2>1, <2>3, <2>4, <2>5 DEF CoreInv
  <1>14. CASE Core!OverlayFails
    <2>1. CoreTypes'
      <3>1. call' \in CoreCalls
        BY <1>14, IdleCall DEF Core!OverlayFails
      <3>2. /\ call'.at \notin {"idle", "provision", "provisioned", "down"} => call'.txn \in Core!Txns
            /\ call'.at \in {"copy", "out", "in"} => call'.pkg \in call'.todo /\ call'.build # Core!None
            /\ Core!At("paste")' => call'.pkg \in call'.todo
        BY <1>0, <1>14 DEF Core!OverlayFails, CoreTypes, CoreCalls
      <3>3. built' \in [Pkgs -> Int] /\ live' \in [Pkgs -> Int] /\ source' \in Int /\ edits' \in Nat
        BY <1>0, <1>14 DEF Core!OverlayFails, CoreTypes, CoreCalls
      <3>4. snap' \in [Core!Txns -> [Pkgs -> Int]] /\ first' \in [Core!Txns -> [Pkgs -> Int]]
        BY <1>0, <1>14 DEF Core!OverlayFails, CoreTypes
      <3>5. overlaid' \in [Core!Txns -> Nat]
        BY <1>0, <1>14 DEF Core!OverlayFails, CoreTypes
      <3>6. journal' \in [Core!Txns -> CoreJournals]
        BY <1>0, <1>14 DEF Core!OverlayFails, CoreTypes, CoreJournals, CoreCalls
      <3> QED BY <3>1, <3>2, <3>3, <3>4, <3>5, <3>6 DEF CoreTypes
    <2>3. Copies'
      BY <1>0, <1>14, CopiesKept DEF Core!OverlayFails
    <2>4. Overlaying'
      BY <1>0, <1>14 DEF Core!OverlayFails, CoreTypes, Overlaying, CoreCalls
    <2>5. Restoring'
      BY <1>0, <1>14 DEF Core!OverlayFails, CoreTypes, Restoring, CoreCalls
    <2> QED BY <2>1, <2>3, <2>4, <2>5 DEF CoreInv
  <1>15. CASE Core!Rollback
    <2>1. CoreTypes'
      <3>1. call' \in CoreCalls
        BY <1>0, <1>15 DEF Core!Rollback, CoreTypes, CoreCalls, CoreJournals
      <3>2. /\ call'.at \notin {"idle", "provision", "provisioned", "down"} => call'.txn \in Core!Txns
            /\ call'.at \in {"copy", "out", "in"} => call'.pkg \in call'.todo /\ call'.build # Core!None
            /\ Core!At("paste")' => call'.pkg \in call'.todo
        BY <1>0, <1>15 DEF Core!Rollback, CoreTypes, CoreCalls
      <3>3. built' \in [Pkgs -> Int] /\ live' \in [Pkgs -> Int] /\ source' \in Int /\ edits' \in Nat
        BY <1>0, <1>15 DEF Core!Rollback, CoreTypes, CoreCalls
      <3>4. snap' \in [Core!Txns -> [Pkgs -> Int]] /\ first' \in [Core!Txns -> [Pkgs -> Int]]
        BY <1>0, <1>15 DEF Core!Rollback, CoreTypes
      <3>5. overlaid' \in [Core!Txns -> Nat]
        BY <1>0, <1>15 DEF Core!Rollback, CoreTypes
      <3>6. journal' \in [Core!Txns -> CoreJournals]
        BY <1>0, <1>15 DEF Core!Rollback, CoreTypes, CoreJournals, CoreCalls
      <3> QED BY <3>1, <3>2, <3>3, <3>4, <3>5, <3>6 DEF CoreTypes
    <2>3. Copies'
      BY <1>0, <1>15, CopiesKept DEF Core!Rollback
    <2>4. Overlaying'
      BY <1>0, <1>15 DEF Core!Rollback, CoreTypes, Overlaying, CoreCalls
    <2>5. Restoring'
      BY <1>0, <1>15 DEF Core!Rollback, CoreTypes, Restoring, CoreCalls
    <2> QED BY <2>1, <2>3, <2>4, <2>5 DEF CoreInv
  <1>16. CASE Core!Paste
    <2>0. /\ call.at = "paste" /\ call.txn \in Core!Txns /\ call.pkg \in call.todo /\ call \in CoreCalls
          /\ call.pkg \in Pkgs /\ UNCHANGED <<snap, journal, overlaid, first, torn>>
          /\ snap[call.txn][call.pkg] # Core!None
      BY <1>0, <1>16 DEF Core!Paste, CoreTypes, Restoring, CoreCalls
    <2>6. \A p \in Pkgs : live'[p] = IF p = call.pkg THEN snap[call.txn][p] ELSE live[p]
      BY <1>0, <1>16, <2>0 DEF Core!Paste, CoreTypes
    <2>7. /\ call'.at = "restore" /\ call'.txn = call.txn /\ call'.todo = call.todo \ {call.pkg}
          /\ call'.state = call.state /\ call'.pkg = call.pkg
      BY <1>16, <2>0 DEF Core!Paste, CoreCalls
    <2>1. CoreTypes'
      <3>1. call' \in CoreCalls
        BY <1>0, <1>16 DEF Core!Paste, CoreTypes, CoreCalls, CoreJournals
      <3>2. /\ call'.at \notin {"idle", "provision", "provisioned", "down"} => call'.txn \in Core!Txns
            /\ call'.at \in {"copy", "out", "in"} => call'.pkg \in call'.todo /\ call'.build # Core!None
            /\ Core!At("paste")' => call'.pkg \in call'.todo
        BY <1>0, <1>16 DEF Core!Paste, CoreTypes, CoreCalls
      <3>3. built' \in [Pkgs -> Int] /\ live' \in [Pkgs -> Int] /\ source' \in Int /\ edits' \in Nat
        BY <1>0, <1>16 DEF Core!Paste, CoreTypes, CoreCalls
      <3>4. snap' \in [Core!Txns -> [Pkgs -> Int]] /\ first' \in [Core!Txns -> [Pkgs -> Int]]
        BY <1>0, <1>16 DEF Core!Paste, CoreTypes
      <3>5. overlaid' \in [Core!Txns -> Nat]
        BY <1>0, <1>16 DEF Core!Paste, CoreTypes
      <3>6. journal' \in [Core!Txns -> CoreJournals]
        BY <1>0, <1>16 DEF Core!Paste, CoreTypes, CoreJournals, CoreCalls
      <3> QED BY <3>1, <3>2, <3>3, <3>4, <3>5, <3>6 DEF CoreTypes
    <2>3. Copies'
      BY <1>0, <1>16, CopiesKept DEF Core!Paste
    <2>4. Overlaying'
      BY <1>0, <1>16 DEF Core!Paste, CoreTypes, Overlaying, CoreCalls
    <2>5. Restoring'
      <3>1. journal[call.txn].pkgs \subseteq Pkgs
        BY <1>0, <2>0 DEF CoreTypes, CoreJournals
      <3>2. \A p \in journal[call.txn].pkgs \ call'.todo : live'[p] = snap[call.txn][p]
        BY <1>0, <2>0, <2>6, <2>7, <3>1 DEF Restoring
      <3>3. call.state = "verified" => \A p \in journal[call.txn].pkgs :
              Copied(p) \/ live'[p] = first[call.txn][p]
        BY <1>0, <2>0, <2>6, <3>1 DEF Restoring
      <3> QED BY <2>0, <2>7, <3>2, <3>3 DEF Restoring
    <2> QED BY <2>1, <2>3, <2>4, <2>5 DEF CoreInv
  <1>17. CASE Core!Restored
    <2>1. CoreTypes'
      <3>1. call' \in CoreCalls
        BY <1>17, IdleCall DEF Core!Restored
      <3>2. /\ call'.at \notin {"idle", "provision", "provisioned", "down"} => call'.txn \in Core!Txns
            /\ call'.at \in {"copy", "out", "in"} => call'.pkg \in call'.todo /\ call'.build # Core!None
            /\ Core!At("paste")' => call'.pkg \in call'.todo
        BY <1>0, <1>17 DEF Core!Restored, Core!ToRestore, CoreTypes, CoreCalls
      <3>3. built' \in [Pkgs -> Int] /\ live' \in [Pkgs -> Int] /\ source' \in Int /\ edits' \in Nat
        BY <1>0, <1>17 DEF Core!Restored, Core!ToRestore, CoreTypes, CoreCalls
      <3>4. snap' \in [Core!Txns -> [Pkgs -> Int]] /\ first' \in [Core!Txns -> [Pkgs -> Int]]
        BY <1>0, <1>17 DEF Core!Restored, Core!ToRestore, CoreTypes
      <3>5. overlaid' \in [Core!Txns -> Nat]
        BY <1>0, <1>17 DEF Core!Restored, Core!ToRestore, CoreTypes
      <3>6. journal' \in [Core!Txns -> CoreJournals]
        <4>1. call.txn \in Core!Txns /\ call.state \in CoreStates /\ journal[call.txn] \in CoreJournals
          BY <1>0, <1>17 DEF Core!Restored, CoreTypes, CoreCalls
        <4> DEFINE j == [journal[call.txn] EXCEPT !.state = call.state]
        <4>2. j \in CoreJournals
          BY <4>1 DEF CoreJournals
        <4>3. journal' = [journal EXCEPT ![call.txn] = j]
          BY <1>17 DEF Core!Restored
        <4> HIDE DEF j
        <4> QED BY <1>0, <4>1, <4>2, <4>3 DEF CoreTypes
      <3> QED BY <3>1, <3>2, <3>3, <3>4, <3>5, <3>6 DEF CoreTypes
    <2>3. Copies'
      BY <1>0, <1>17, CopiesKept DEF Core!Restored, Core!ToRestore
    <2>4. Overlaying'
      BY <1>0, <1>17 DEF Core!Restored, Core!ToRestore, CoreTypes, Overlaying, CoreCalls
    <2>5. Restoring'
      BY <1>0, <1>17 DEF Core!Restored, Core!ToRestore, CoreTypes, Restoring, CoreCalls
    <2> QED BY <2>1, <2>3, <2>4, <2>5 DEF CoreInv
  <1>18. CASE Core!Crash
    <2>1. CoreTypes'
      <3>1. call' \in CoreCalls
        BY <1>18, IdleCall DEF Core!Crash
      <3>2. /\ call'.at \notin {"idle", "provision", "provisioned", "down"} => call'.txn \in Core!Txns
            /\ call'.at \in {"copy", "out", "in"} => call'.pkg \in call'.todo /\ call'.build # Core!None
            /\ Core!At("paste")' => call'.pkg \in call'.todo
        BY <1>0, <1>18 DEF Core!Crash, CoreTypes, CoreCalls
      <3>3. built' \in [Pkgs -> Int] /\ live' \in [Pkgs -> Int] /\ source' \in Int /\ edits' \in Nat
        BY <1>0, <1>18 DEF Core!Crash, CoreTypes, CoreCalls
      <3>4. snap' \in [Core!Txns -> [Pkgs -> Int]] /\ first' \in [Core!Txns -> [Pkgs -> Int]]
        BY <1>0, <1>18 DEF Core!Crash, CoreTypes
      <3>5. overlaid' \in [Core!Txns -> Nat]
        BY <1>0, <1>18 DEF Core!Crash, CoreTypes
      <3>6. journal' \in [Core!Txns -> CoreJournals]
        BY <1>0, <1>18 DEF Core!Crash, CoreTypes, CoreJournals, CoreCalls
      <3> QED BY <3>1, <3>2, <3>3, <3>4, <3>5, <3>6 DEF CoreTypes
    <2>3. Copies'
      BY <1>0, <1>18, CopiesKept DEF Core!Crash
    <2>4. Overlaying'
      BY <1>0, <1>18 DEF Core!Crash, CoreTypes, Overlaying, CoreCalls
    <2>5. Restoring'
      BY <1>0, <1>18 DEF Core!Crash, CoreTypes, Restoring, CoreCalls
    <2> QED BY <2>1, <2>3, <2>4, <2>5 DEF CoreInv
  <1>19. CASE Core!Restart
    <2>1. CoreTypes'
      <3>1. call' \in CoreCalls
        BY <1>19, IdleCall DEF Core!Restart
      <3>2. /\ call'.at \notin {"idle", "provision", "provisioned", "down"} => call'.txn \in Core!Txns
            /\ call'.at \in {"copy", "out", "in"} => call'.pkg \in call'.todo /\ call'.build # Core!None
            /\ Core!At("paste")' => call'.pkg \in call'.todo
        BY <1>0, <1>19 DEF Core!Restart, CoreTypes, CoreCalls
      <3>3. built' \in [Pkgs -> Int] /\ live' \in [Pkgs -> Int] /\ source' \in Int /\ edits' \in Nat
        BY <1>0, <1>19 DEF Core!Restart, CoreTypes, CoreCalls
      <3>4. snap' \in [Core!Txns -> [Pkgs -> Int]] /\ first' \in [Core!Txns -> [Pkgs -> Int]]
        BY <1>0, <1>19 DEF Core!Restart, CoreTypes
      <3>5. overlaid' \in [Core!Txns -> Nat]
        BY <1>0, <1>19 DEF Core!Restart, CoreTypes
      <3>6. journal' \in [Core!Txns -> CoreJournals]
        BY <1>0, <1>19 DEF Core!Restart, CoreTypes, CoreJournals, CoreCalls
      <3> QED BY <3>1, <3>2, <3>3, <3>4, <3>5, <3>6 DEF CoreTypes
    <2>3. Copies'
      BY <1>0, <1>19, CopiesKept DEF Core!Restart
    <2>4. Overlaying'
      BY <1>0, <1>19 DEF Core!Restart, CoreTypes, Overlaying, CoreCalls
    <2>5. Restoring'
      BY <1>0, <1>19 DEF Core!Restart, CoreTypes, Restoring, CoreCalls
    <2> QED BY <2>1, <2>3, <2>4, <2>5 DEF CoreInv
  <1>20. CASE Core!Boot
    <2>1. CoreTypes'
      <3>1. call' \in CoreCalls
        BY <1>20, IdleCall DEF Core!Boot
      <3>2. /\ call'.at \notin {"idle", "provision", "provisioned", "down"} => call'.txn \in Core!Txns
            /\ call'.at \in {"copy", "out", "in"} => call'.pkg \in call'.todo /\ call'.build # Core!None
            /\ Core!At("paste")' => call'.pkg \in call'.todo
        BY <1>0, <1>20 DEF Core!Boot, CoreTypes, CoreCalls
      <3>3. built' \in [Pkgs -> Int] /\ live' \in [Pkgs -> Int] /\ source' \in Int /\ edits' \in Nat
        BY <1>0, <1>20 DEF Core!Boot, CoreTypes, CoreCalls
      <3>4. snap' \in [Core!Txns -> [Pkgs -> Int]] /\ first' \in [Core!Txns -> [Pkgs -> Int]]
        BY <1>0, <1>20 DEF Core!Boot, CoreTypes
      <3>5. overlaid' \in [Core!Txns -> Nat]
        BY <1>0, <1>20 DEF Core!Boot, CoreTypes
      <3>6. journal' \in [Core!Txns -> CoreJournals]
        <4>1. \A t \in Core!Txns : [journal[t] EXCEPT !.state = "committed"] \in CoreJournals
          BY <1>0 DEF CoreTypes, CoreJournals
        <4> QED BY <1>0, <1>20, <4>1 DEF Core!Boot, CoreTypes
      <3> QED BY <3>1, <3>2, <3>3, <3>4, <3>5, <3>6 DEF CoreTypes
    <2>3. Copies'
      BY <1>0, <1>20, CopiesKept DEF Core!Boot
    <2>4. Overlaying'
      BY <1>0, <1>20 DEF Core!Boot, CoreTypes, Overlaying, CoreCalls
    <2>5. Restoring'
      BY <1>0, <1>20 DEF Core!Boot, CoreTypes, Restoring, CoreCalls
    <2> QED BY <2>1, <2>3, <2>4, <2>5 DEF CoreInv
  <1>21. CASE Core!Reinstall
    <2>1. CoreTypes'
      <3>1. call' \in CoreCalls
        BY <1>0, <1>21 DEF Core!Reinstall, CoreTypes, CoreCalls, CoreJournals
      <3>2. /\ call'.at \notin {"idle", "provision", "provisioned", "down"} => call'.txn \in Core!Txns
            /\ call'.at \in {"copy", "out", "in"} => call'.pkg \in call'.todo /\ call'.build # Core!None
            /\ Core!At("paste")' => call'.pkg \in call'.todo
        BY <1>0, <1>21 DEF Core!Reinstall, CoreTypes, CoreCalls
      <3>3. built' \in [Pkgs -> Int] /\ live' \in [Pkgs -> Int] /\ source' \in Int /\ edits' \in Nat
        <4>1. built' \in [Pkgs -> Int]
          BY <1>0, <1>21, NoneIsInt DEF Core!Reinstall, CoreTypes
        <4>2. live' \in [Pkgs -> Int]
          BY <1>0, <1>21, NoneIsInt DEF Core!Reinstall, CoreTypes
        <4>3. source' \in Int /\ edits' \in Nat
          BY <1>0, <1>21 DEF Core!Reinstall, CoreTypes
        <4> QED BY <4>1, <4>2, <4>3
      <3>4. snap' \in [Core!Txns -> [Pkgs -> Int]] /\ first' \in [Core!Txns -> [Pkgs -> Int]]
        BY <1>0, <1>21 DEF Core!Reinstall, CoreTypes
      <3>5. overlaid' \in [Core!Txns -> Nat]
        BY <1>0, <1>21 DEF Core!Reinstall, CoreTypes
      <3>6. journal' \in [Core!Txns -> CoreJournals]
        BY <1>0, <1>21 DEF Core!Reinstall, CoreTypes, CoreJournals, CoreCalls
      <3> QED BY <3>1, <3>2, <3>3, <3>4, <3>5, <3>6 DEF CoreTypes
    <2>3. Copies'
      BY <1>0, <1>21, CopiesKept DEF Core!Reinstall
    <2>4. Overlaying'
      BY <1>0, <1>21 DEF Core!Reinstall, CoreTypes, Overlaying, CoreCalls
    <2>5. Restoring'
      BY <1>0, <1>21 DEF Core!Reinstall, CoreTypes, Restoring, CoreCalls
    <2> QED BY <2>1, <2>3, <2>4, <2>5 DEF CoreInv
  <1>22. ASSUME NEW pkgs \in SUBSET Pkgs \ {{}}, Core!Provisioned(pkgs) PROVE CoreInv'
    <2>1. CoreTypes'
      <3>1. call' \in CoreCalls
        BY <1>22, IdleCall DEF Core!Provisioned
      <3>2. /\ call'.at \notin {"idle", "provision", "provisioned", "down"} => call'.txn \in Core!Txns
            /\ call'.at \in {"copy", "out", "in"} => call'.pkg \in call'.todo /\ call'.build # Core!None
            /\ Core!At("paste")' => call'.pkg \in call'.todo
        BY <1>0, <1>22 DEF Core!Provisioned, CoreTypes, CoreCalls
      <3>3. built' \in [Pkgs -> Int] /\ live' \in [Pkgs -> Int] /\ source' \in Int /\ edits' \in Nat
        BY <1>0, <1>22 DEF Core!Provisioned, CoreTypes, CoreCalls
      <3>4. snap' \in [Core!Txns -> [Pkgs -> Int]] /\ first' \in [Core!Txns -> [Pkgs -> Int]]
        BY <1>0, <1>22 DEF Core!Provisioned, CoreTypes
      <3>5. overlaid' \in [Core!Txns -> Nat]
        BY <1>0, <1>22 DEF Core!Provisioned, CoreTypes
      <3>6. journal' \in [Core!Txns -> CoreJournals]
        BY <1>0, <1>22 DEF Core!Provisioned, CoreTypes, CoreJournals, CoreCalls
      <3> QED BY <3>1, <3>2, <3>3, <3>4, <3>5, <3>6 DEF CoreTypes
    <2>3. Copies'
      BY <1>0, <1>22, CopiesKept DEF Core!Provisioned
    <2>4. Overlaying'
      BY <1>0, <1>22 DEF Core!Provisioned, CoreTypes, Overlaying, CoreCalls
    <2>5. Restoring'
      BY <1>0, <1>22 DEF Core!Provisioned, CoreTypes, Restoring, CoreCalls
    <2> QED BY <2>1, <2>3, <2>4, <2>5 DEF CoreInv
  <1>23. ASSUME NEW t \in Core!Txns, NEW tool \in {"verify", "apply", "rollback"}, Core!Call(t, tool)
        PROVE  CoreInv'
    <2>1. CoreTypes'
      <3>1. call' \in CoreCalls
        <4>1. journal[t] \in CoreJournals /\ t \in Nat
          <5>1. t \in Nat
            BY ServicesConstants DEF Core!Txns, Core!CoreUpdateAssumption
          <5> QED BY <1>0, <5>1 DEF CoreTypes
        <4> DEFINE state == journal[t].state
                   todo == journal[t].pkgs
        <4>2. state \in CoreStates /\ todo \in SUBSET Pkgs
          BY <4>1 DEF CoreJournals
        <4>3. call' = [Core!Idle EXCEPT !.at = tool, !.txn = t, !.state = state, !.todo = todo]
          BY <1>23 DEF Core!Call
        <4> HIDE DEF state, todo
        <4> QED BY <4>1, <4>2, <4>3, IdleCall DEF CoreCalls
      <3>2. /\ call'.at \notin {"idle", "provision", "provisioned", "down"} => call'.txn \in Core!Txns
            /\ call'.at \in {"copy", "out", "in"} => call'.pkg \in call'.todo /\ call'.build # Core!None
            /\ Core!At("paste")' => call'.pkg \in call'.todo
        BY <1>0, <1>23 DEF Core!Call, CoreTypes, CoreCalls
      <3>3. built' \in [Pkgs -> Int] /\ live' \in [Pkgs -> Int] /\ source' \in Int /\ edits' \in Nat
        BY <1>0, <1>23 DEF Core!Call, CoreTypes, CoreCalls
      <3>4. snap' \in [Core!Txns -> [Pkgs -> Int]] /\ first' \in [Core!Txns -> [Pkgs -> Int]]
        BY <1>0, <1>23 DEF Core!Call, CoreTypes
      <3>5. overlaid' \in [Core!Txns -> Nat]
        BY <1>0, <1>23 DEF Core!Call, CoreTypes
      <3>6. journal' \in [Core!Txns -> CoreJournals]
        BY <1>0, <1>23 DEF Core!Call, CoreTypes, CoreJournals, CoreCalls
      <3> QED BY <3>1, <3>2, <3>3, <3>4, <3>5, <3>6 DEF CoreTypes
    <2>3. Copies'
      BY <1>0, <1>23, CopiesKept DEF Core!Call
    <2>4. Overlaying'
      BY <1>0, <1>23 DEF Core!Call, CoreTypes, Overlaying, CoreCalls
    <2>5. Restoring'
      BY <1>0, <1>23 DEF Core!Call, CoreTypes, Restoring, CoreCalls
    <2> QED BY <2>1, <2>3, <2>4, <2>5 DEF CoreInv
  <1>24. ASSUME NEW p \in Pkgs, Core!Snapshot(p) PROVE CoreInv'
    <2>0. /\ call.at = "overlay" /\ call.txn \in Core!Txns /\ p \in call.todo /\ call \in CoreCalls
          /\ UNCHANGED <<live, journal, overlaid, first, torn>>
      BY <1>0, <1>24 DEF Core!Snapshot, CoreTypes
    <2>6. \A t \in Core!Txns, q \in Pkgs :
            t # call.txn \/ q # p \/ live[p] = Core!None => snap'[t][q] = snap[t][q]
      BY <1>0, <1>24, <2>0 DEF Core!Snapshot, CoreTypes
    <2>7. /\ call'.at = "copy" /\ call'.txn = call.txn /\ call'.todo = call.todo
          /\ call'.state = call.state /\ call'.pkg = p
      BY <1>24, <2>0 DEF Core!Snapshot, CoreCalls
    <2>1. CoreTypes'
      <3>1. call' \in CoreCalls
        BY <1>0, <1>24 DEF Core!Snapshot, CoreTypes, CoreCalls, CoreJournals
      <3>2. /\ call'.at \notin {"idle", "provision", "provisioned", "down"} => call'.txn \in Core!Txns
            /\ call'.at \in {"copy", "out", "in"} => call'.pkg \in call'.todo /\ call'.build # Core!None
            /\ Core!At("paste")' => call'.pkg \in call'.todo
        BY <1>0, <1>24 DEF Core!Snapshot, CoreTypes, CoreCalls
      <3>3. built' \in [Pkgs -> Int] /\ live' \in [Pkgs -> Int] /\ source' \in Int /\ edits' \in Nat
        BY <1>0, <1>24 DEF Core!Snapshot, CoreTypes, CoreCalls
      <3>4. snap' \in [Core!Txns -> [Pkgs -> Int]] /\ first' \in [Core!Txns -> [Pkgs -> Int]]
        BY <1>0, <1>24 DEF Core!Snapshot, CoreTypes
      <3>5. overlaid' \in [Core!Txns -> Nat]
        BY <1>0, <1>24 DEF Core!Snapshot, CoreTypes
      <3>6. journal' \in [Core!Txns -> CoreJournals]
        BY <1>0, <1>24 DEF Core!Snapshot, CoreTypes, CoreJournals, CoreCalls
      <3> QED BY <3>1, <3>2, <3>3, <3>4, <3>5, <3>6 DEF CoreTypes
    <2>3. Copies'
      <3>1. \A t \in Core!Txns : overlaid[t] = 0 => t # call.txn
        BY <1>0, <2>0 DEF Overlaying
      <3>2. ASSUME NEW t \in Core!Txns, t \notin torn
            PROVE  /\ overlaid[t] = 0 => \A q \in Pkgs : snap'[t][q] = Core!None
                   /\ overlaid[t] <= 1 => \A q \in Pkgs :
                        \/ snap'[t][q] \in {Core!None, first[t][q]}
                        \/ t = call.txn /\ q = p /\ live[p] # Core!None
        BY <1>0, <2>0, <2>6, <3>1, <3>2 DEF Copies
      <3> QED BY <2>0, <2>7, <3>2 DEF Copies
    <2>4. Overlaying'
      <3>1. \A q \in journal[call.txn].pkgs \ call.todo :
              snap'[call.txn][q] # Core!None \/ first[call.txn][q] = Core!None
        BY <1>0, <2>0, <2>6 DEF Overlaying, CoreTypes, CoreJournals
      <3>2. \A q \in call.todo : live[q] = first[call.txn][q]
        BY <1>0, <2>0 DEF Overlaying
      <3>3. /\ overlaid[call.txn] > 0 /\ call.state = "verified"
            /\ call.todo \subseteq journal[call.txn].pkgs
        BY <1>0, <2>0 DEF Overlaying
      <3> QED BY <2>0, <2>7, <3>1, <3>2, <3>3 DEF Overlaying
    <2>5. Restoring'
      BY <1>0, <1>24 DEF Core!Snapshot, CoreTypes, Restoring, CoreCalls
    <2> QED BY <2>1, <2>3, <2>4, <2>5 DEF CoreInv
  <1>25. ASSUME NEW p \in Pkgs, Core!Remove(p) PROVE CoreInv'
    <2>1. CoreTypes'
      <3>1. call' \in CoreCalls
        BY <1>0, <1>25 DEF Core!Remove, Core!ToRestore, CoreTypes, CoreCalls, CoreJournals
      <3>2. /\ call'.at \notin {"idle", "provision", "provisioned", "down"} => call'.txn \in Core!Txns
            /\ call'.at \in {"copy", "out", "in"} => call'.pkg \in call'.todo /\ call'.build # Core!None
            /\ Core!At("paste")' => call'.pkg \in call'.todo
        BY <1>0, <1>25 DEF Core!Remove, Core!ToRestore, CoreTypes, CoreCalls
      <3>3. built' \in [Pkgs -> Int] /\ live' \in [Pkgs -> Int] /\ source' \in Int /\ edits' \in Nat
        <4>1. built' \in [Pkgs -> Int]
          BY <1>0, <1>25, NoneIsInt DEF Core!Remove, CoreTypes
        <4>2. live' \in [Pkgs -> Int]
          BY <1>0, <1>25, NoneIsInt DEF Core!Remove, CoreTypes
        <4>3. source' \in Int /\ edits' \in Nat
          BY <1>0, <1>25 DEF Core!Remove, CoreTypes
        <4> QED BY <4>1, <4>2, <4>3
      <3>4. snap' \in [Core!Txns -> [Pkgs -> Int]] /\ first' \in [Core!Txns -> [Pkgs -> Int]]
        BY <1>0, <1>25 DEF Core!Remove, Core!ToRestore, CoreTypes
      <3>5. overlaid' \in [Core!Txns -> Nat]
        BY <1>0, <1>25 DEF Core!Remove, Core!ToRestore, CoreTypes
      <3>6. journal' \in [Core!Txns -> CoreJournals]
        BY <1>0, <1>25 DEF Core!Remove, Core!ToRestore, CoreTypes, CoreJournals, CoreCalls
      <3> QED BY <3>1, <3>2, <3>3, <3>4, <3>5, <3>6 DEF CoreTypes
    <2>3. Copies'
      BY <1>0, <1>25, CopiesKept DEF Core!Remove, Core!ToRestore
    <2>4. Overlaying'
      BY <1>0, <1>25 DEF Core!Remove, Core!ToRestore, CoreTypes, Overlaying, CoreCalls
    <2>5. Restoring'
      <3>1. /\ call.at = "restore" /\ call.txn \in Core!Txns /\ p \in call.todo /\ call \in CoreCalls
            /\ snap[call.txn][p] # Core!None /\ UNCHANGED <<snap, journal, first>>
            /\ journal[call.txn].pkgs \subseteq Pkgs
        BY <1>0, <1>25 DEF Core!Remove, Core!ToRestore, CoreTypes, CoreJournals
      <3>2. \A q \in Pkgs : q # p => live'[q] = live[q]
        BY <1>0, <1>25 DEF Core!Remove, CoreTypes
      <3>3. /\ call'.at = "paste" /\ call'.txn = call.txn /\ call'.todo = call.todo
            /\ call'.state = call.state /\ call'.pkg = p
        BY <1>25, <3>1 DEF Core!Remove, CoreCalls
      <3>4. \A q \in journal[call.txn].pkgs \ call.todo : live'[q] = snap[call.txn][q]
        BY <1>0, <3>1, <3>2 DEF Restoring
      <3>5. call.state = "verified" => \A q \in journal[call.txn].pkgs :
              Copied(q) \/ live'[q] = first[call.txn][q]
        BY <1>0, <3>1, <3>2 DEF Restoring
      <3> QED BY <3>1, <3>3, <3>4, <3>5 DEF Restoring
    <2> QED BY <2>1, <2>3, <2>4, <2>5 DEF CoreInv
  <1>26. CASE UNCHANGED Core!vars
    <2>1. CoreTypes'
      <3>1. call' \in CoreCalls
        BY <1>0, <1>26 DEF Core!vars, CoreTypes, CoreCalls, CoreJournals
      <3>2. /\ call'.at \notin {"idle", "provision", "provisioned", "down"} => call'.txn \in Core!Txns
            /\ call'.at \in {"copy", "out", "in"} => call'.pkg \in call'.todo /\ call'.build # Core!None
            /\ Core!At("paste")' => call'.pkg \in call'.todo
        BY <1>0, <1>26 DEF Core!vars, CoreTypes, CoreCalls
      <3>3. built' \in [Pkgs -> Int] /\ live' \in [Pkgs -> Int] /\ source' \in Int /\ edits' \in Nat
        BY <1>0, <1>26 DEF Core!vars, CoreTypes, CoreCalls
      <3>4. snap' \in [Core!Txns -> [Pkgs -> Int]] /\ first' \in [Core!Txns -> [Pkgs -> Int]]
        BY <1>0, <1>26 DEF Core!vars, CoreTypes
      <3>5. overlaid' \in [Core!Txns -> Nat]
        BY <1>0, <1>26 DEF Core!vars, CoreTypes
      <3>6. journal' \in [Core!Txns -> CoreJournals]
        BY <1>0, <1>26 DEF Core!vars, CoreTypes, CoreJournals, CoreCalls
      <3> QED BY <3>1, <3>2, <3>3, <3>4, <3>5, <3>6 DEF CoreTypes
    <2>3. Copies'
      BY <1>0, <1>26 DEF Core!vars, Copies
    <2>4. Overlaying'
      BY <1>0, <1>26 DEF Core!vars, CoreTypes, Overlaying, CoreCalls
    <2>5. Restoring'
      BY <1>0, <1>26 DEF Core!vars, CoreTypes, Restoring, CoreCalls
    <2> QED BY <2>1, <2>3, <2>4, <2>5 DEF CoreInv
  <1>27. CASE Core!RestoreFails
    <2>0. /\ call.at \in Restores /\ call.txn \in Core!Txns /\ call \in CoreCalls
          /\ UNCHANGED <<built, source, edits, snap, journal, overlaid, first, torn>>
      BY <1>0, <1>27 DEF Core!RestoreFails, CoreTypes
    <2>6. call' = [call EXCEPT !.at = "gave up"] \/ call' = Core!Idle
      BY <1>27 DEF Core!RestoreFails
    <2>7. \/ call' \in CoreCalls /\ call'.txn \in Core!Txns /\ call'.at = "gave up"
          \/ call' \in CoreCalls /\ call'.at = "idle"
      <3>1. CASE call' = [call EXCEPT !.at = "gave up"]
        BY <2>0, <3>1 DEF CoreCalls
      <3>2. CASE call' = Core!Idle
        BY <3>2, IdleCall
      <3> QED BY <2>6, <3>1, <3>2
    <2>1. CoreTypes'
      <3>1. live' \in [Pkgs -> Int]
        BY <1>0, <1>27, NoneIsInt DEF Core!RestoreFails, CoreTypes
      <3> QED BY <1>0, <2>0, <2>7, <3>1 DEF CoreTypes
    <2>3. Copies'
      BY <1>0, <2>0, CopiesKept
    <2>4. Overlaying'
      BY <2>7 DEF Overlaying
    <2>5. Restoring'
      BY <2>7 DEF Restoring
    <2> QED BY <2>1, <2>3, <2>4, <2>5 DEF CoreInv
  <1>28. CASE Core!GaveUp
    <2>0. UNCHANGED <<built, live, source, edits, snap, journal, overlaid, first, torn>>
      BY <1>28 DEF Core!GaveUp
    <2>6. call' \in CoreCalls /\ call'.at = "idle"
      BY <1>28, IdleCall DEF Core!GaveUp
    <2>1. CoreTypes'
      BY <1>0, <2>0, <2>6 DEF CoreTypes
    <2>3. Copies'
      BY <1>0, <1>28, <2>0, CopiesKept DEF Core!GaveUp
    <2>4. Overlaying'
      BY <2>6 DEF Overlaying
    <2>5. Restoring'
      BY <2>6 DEF Restoring
    <2> QED BY <2>1, <2>3, <2>4, <2>5 DEF CoreInv
  <1> QED BY <1>1, <1>2, <1>3, <1>4, <1>5, <1>6, <1>7, <1>8, <1>9, <1>10, <1>11, <1>12,
             <1>13, <1>14, <1>15, <1>16, <1>17, <1>18, <1>19, <1>20, <1>21, <1>22, <1>23,
             <1>24, <1>25, <1>26, <1>27, <1>28
             DEF Core!Next

\* It begins there.
LEMMA CoreBegins ==
  ASSUME Core!Init
  PROVE  CoreInv
  <1> USE DEF Core!Init
  <1>1. CoreTypes
    <2>1. call \in CoreCalls /\ call.at = "idle"
      BY IdleCall
    <2>2. snap \in [Core!Txns -> [Pkgs -> Int]] /\ first \in [Core!Txns -> [Pkgs -> Int]]
      BY NoneIsInt
    <2>3. journal \in [Core!Txns -> CoreJournals]
      BY DEF Core!NoJournal, CoreJournals, CoreStates
    <2> QED BY <2>1, <2>2, <2>3, NoneIsInt DEF CoreTypes, Core!At
  <1>2. Copies /\ Overlaying /\ Restoring
    BY IdleCall, NoneIsInt
       DEF Copies, Overlaying, Restoring, Overlays, Restores, Core!At, Core!None
  <1> QED BY <1>1, <1>2 DEF CoreInv

\* A step of a behaviour of this component is one of its own.
LEMMA CoreSteps ==
  ASSUME [SNext]_allVars, part' = "core"
  PROVE  part = "core" /\ [Core!Next]_Core!vars
  BY DEF SNext, CronStep, HookStep, PluginStep, CoreStep, ServerStep, DeskStep, allVars,
         coreVars, Core!vars, Core!clone, Core!install, Core!counters, Core!undo

\* The invariant holds where the component runs.
LEMMA CoresInv == SSpec => [](part = "core" => CoreInv)
  <1>1. SInit => (part = "core" => CoreInv)
    BY CoreBegins DEF SInit
  <1>2. (part = "core" => CoreInv) /\ [SNext]_allVars => (part = "core" => CoreInv)'
    BY CoreSteps, CoreInductive
  <1> QED BY <1>1, <1>2, PTL DEF SSpec

\* A restoration that is done has put back what the overlay found.
THEOREM UndoRestoresCorrect == SSpec => []UndoRestores
  <1>1. ASSUME CoreInv PROVE Core!UndoRestores
    <2> SUFFICES ASSUME Core!At("restore"), Core!ToRestore = {}, overlaid[call.txn] <= 1,
                        call.txn \notin torn, NEW p \in journal[call.txn].pkgs,
                        first[call.txn][p] # Core!None,
                        snap[call.txn][p] # Core!None \/ call.state = "verified"
                 PROVE  live[p] = first[call.txn][p]
      BY DEF Core!UndoRestores, Core!IsBack
    <2>1. call.txn \in Core!Txns /\ p \in Pkgs
      BY <1>1 DEF CoreInv, CoreTypes, Core!At, CoreJournals
    <2>2. CASE snap[call.txn][p] = Core!None
      BY <1>1, <2>2 DEF CoreInv, Restoring, Copied, Core!At, Restores
    <2>3. CASE snap[call.txn][p] # Core!None
      <3>1. p \notin call.todo
        BY <2>3 DEF Core!ToRestore
      <3>2. live[p] = snap[call.txn][p]
        BY <1>1, <3>1 DEF CoreInv, Restoring, Core!At, Restores
      <3>3. snap[call.txn][p] = first[call.txn][p]
        BY <1>1, <2>1, <2>3 DEF CoreInv, Copies, Core!At
      <3> QED BY <3>2, <3>3
    <2> QED BY <2>2, <2>3
  <1>2. (part = "core" => CoreInv) => UndoRestores
    BY <1>1 DEF UndoRestores
  <1> QED BY <1>2, CoresInv, PTL

-----------------------------------------------------------------------------
(*****************************************************************************)
(* MCP servers: a closure's connection is its own, and what a detach leaves  *)
(* behind is closing or was lost to one of the two leaks.                    *)
(*****************************************************************************)
Alive(c) == conn[c] \in {"opening", "open"}

\* Types of what the host of MCP servers keeps.
McpTypes ==
  /\ catalog \in {"absent", "off", "on"} /\ cached \in BOOLEAN
  /\ made \in 0..MaxAttach
  /\ entry \in [att : 0..made, conn : Server!Conns \cup {Server!None}]
  /\ promise \in [Server!Atts -> Server!Conns \cup {Server!None}]
  /\ conn \in [Server!Conns -> {"unused", "opening", "open", "closed"}]
  /\ owner \in [Server!Conns -> 0..made]
  /\ calls \in [Calls -> [at : {"free", "asked", "runs"}, att : 0..made]]
  /\ \A i \in Calls : calls[i].at # "free" => calls[i].att # Server!None
  /\ closing \subseteq Server!Conns
  /\ admin \in [at : {"idle", "add", "refresh", "store"}, conn : Server!Conns \cup {Server!None}]
  /\ stray \subseteq Server!Atts

\* A closure's connection is its own, and the only one that it keeps alive.
Promised ==
  /\ \A a \in Server!Atts : promise[a] # Server!None => owner[promise[a]] = a
  /\ \A c \in Server!Conns : owner[c] # Server!None /\ Alive(c) => promise[owner[c]] = c
  /\ \A c \in Server!Conns : conn[c] = "unused" => owner[c] = Server!None

\* The connection of an add or a refresh belongs to no attachment yet.
AdminsOwn ==
  admin.at \in {"add", "refresh"} =>
    admin.conn \in Server!Conns /\ owner[admin.conn] = Server!None /\ conn[admin.conn] # "unused"

\* The entry's client is open and its attachment's, unless that is stray.
EntrysClient ==
  /\ entry.att = Server!None => entry.conn = Server!None
  /\ entry.conn # Server!None => conn[entry.conn] \in {"open", "closed"}
  /\ entry.conn # Server!None /\ entry.att \notin stray =>
       owner[entry.conn] = entry.att /\ conn[entry.conn] = "open"

\* What a detach will close is still opening, for an attachment that is gone.
Detached ==
  /\ \A c \in closing : conn[c] = "opening" /\ owner[c] \notin {Server!None, entry.att}
  /\ \A c \in Server!Conns : Alive(c) /\ owner[c] \notin stray \cup {Server!None, entry.att} => c \in closing

\* The inductive invariant of the connections.
McpInv == McpTypes /\ Promised /\ AdminsOwn /\ EntrysClient /\ Detached

\* More attachments: what was typed stays typed.
LEMMA MoreAttachments ==
  ASSUME McpInv, made' \in Nat, made <= made', made' <= MaxAttach
  PROVE  /\ owner \in [Server!Conns -> 0..made']
         /\ calls \in [Calls -> [at : {"free", "asked", "runs"}, att : 0..made']]
         /\ entry \in [att : 0..made', conn : Server!Conns \cup {Server!None}]
         /\ made' \in 0..MaxAttach
  <1>1. made \in Nat /\ 0..made \subseteq 0..made' /\ MaxAttach \in Nat
    BY ServicesConstants DEF Server!McpAssumption, McpInv, McpTypes
  <1>2. owner \in [Server!Conns -> 0..made']
    BY <1>1 DEF McpInv, McpTypes
  <1>3. calls \in [Calls -> [at : {"free", "asked", "runs"}, att : 0..made']]
    <2>1. [at : {"free", "asked", "runs"}, att : 0..made]
          \subseteq [at : {"free", "asked", "runs"}, att : 0..made']
      BY <1>1
    <2> QED BY <2>1 DEF McpInv, McpTypes
  <1>4. entry \in [att : 0..made', conn : Server!Conns \cup {Server!None}]
    BY <1>1 DEF McpInv, McpTypes
  <1> QED BY <1>1, <1>2, <1>3, <1>4

\* An attach makes one attachment more at most, and an entry of the table.
LEMMA AttachTypes ==
  ASSUME McpInv, Server!attachServerLazy
  PROVE  /\ made' \in Nat /\ made <= made' /\ made' <= MaxAttach
         /\ entry' \in [att : 0..made', conn : Server!Conns \cup {Server!None}]
  <1>1. made \in Nat /\ made <= MaxAttach /\ MaxAttach \in Nat
    BY ServicesConstants DEF Server!McpAssumption, McpInv, McpTypes
  <1>2. CASE UNCHANGED <<entry, made>>
    BY <1>1, <1>2 DEF McpInv, McpTypes
  <1>3. CASE made # MaxAttach /\ made' = made + 1 /\ entry' = [att |-> made + 1, conn |-> Server!None]
    BY <1>1, <1>3
  <1> QED BY <1>2, <1>3 DEF Server!attachServerLazy

\* Every step keeps the types of the connections.
LEMMA McpTypesNext ==
  ASSUME McpInv, [Server!Next]_Server!vars
  PROVE  McpTypes'
  <1> USE DEF Server!Atts, Server!Conns, Server!None, Server!NoEntry
  <1>0. /\ McpTypes /\ MaxAttach \in Nat /\ MaxConns \in Nat
        /\ entry.att \in 0..made /\ entry.conn \in Server!Conns \cup {Server!None} /\ made \in Nat
    BY ServicesConstants DEF Server!McpAssumption, McpInv, McpTypes
  <1>1. CASE Server!Enable
    BY <1>0, <1>1 DEF Server!Enable, Server!attachServerLazy, McpTypes
  <1>2. CASE Server!Refresh
    BY <1>0, <1>2 DEF Server!Refresh, Server!Open, Server!Admin, Server!Unused, McpTypes
  <1>3. CASE Server!Refreshed
    <2>1. /\ made' \in Nat /\ made <= made' /\ made' <= MaxAttach
          /\ entry' \in [att : 0..made', conn : Server!Conns \cup {Server!None}]
      BY <1>0, <1>3, AttachTypes DEF Server!Refreshed, McpTypes
    <2>2. /\ owner' \in [Server!Conns -> 0..made'] /\ made' \in 0..MaxAttach
          /\ calls' \in [Calls -> [at : {"free", "asked", "runs"}, att : 0..made']]
      BY <1>3, <2>1, MoreAttachments DEF Server!Refreshed
    <2>3. cached' \in BOOLEAN
      BY <1>0, <1>3 DEF Server!Refreshed, McpTypes
    <2>4. /\ conn' \in [Server!Conns -> {"unused", "opening", "open", "closed"}]
          /\ admin' \in [at : {"idle", "add", "refresh", "store"}, conn : Server!Conns \cup {Server!None}]
      BY <1>0, <1>3 DEF Server!Refreshed, Server!NoAdmin, McpTypes
    <2> QED BY <1>0, <1>3, <2>1, <2>2, <2>3, <2>4 DEF Server!Refreshed, McpTypes
  <1>4. CASE Server!Add
    BY <1>0, <1>4 DEF Server!Add, Server!Open, Server!Admin, Server!Unused,
       Server!catalogVars, McpTypes
  <1>5. CASE Server!Added
    <2>1. admin.conn \in Server!Conns
      BY <1>0, <1>5 DEF Server!Added, McpInv, AdminsOwn
    <2>2. CASE entry # Server!NoEntry
      <3>1. /\ conn' = [conn EXCEPT ![admin.conn] = "closed"]
            /\ admin' = [at |-> "idle", conn |-> Server!None]
            /\ UNCHANGED <<entry, promise, owner, made, catalog, cached, calls, closing, stray>>
        BY <1>5, <2>2 DEF Server!Added, Server!NoAdmin, Server!catalogVars
      <3>2. conn' \in [Server!Conns -> {"unused", "opening", "open", "closed"}]
        BY <1>0, <3>1 DEF McpTypes
      <3> QED BY <1>0, <3>1, <3>2 DEF McpTypes
    <2>3. CASE entry = Server!NoEntry
      <3>1. /\ made' = made + 1 /\ made' \in 1..MaxAttach
            /\ entry' = [att |-> made + 1, conn |-> admin.conn]
            /\ promise' = [promise EXCEPT ![made + 1] = admin.conn]
            /\ owner' = [owner EXCEPT ![admin.conn] = made + 1]
            /\ admin' = [at |-> "store", conn |-> Server!None]
            /\ UNCHANGED <<conn, Server!catalogVars, calls, closing, stray>>
        BY <1>0, <1>5, <2>3 DEF Server!Added, Server!Admin, McpTypes
      <3>2. /\ owner \in [Server!Conns -> 0..made'] /\ made' \in 0..MaxAttach
            /\ calls \in [Calls -> [at : {"free", "asked", "runs"}, att : 0..made']]
        BY <1>0, <3>1, MoreAttachments
      <3>3. owner' \in [Server!Conns -> 0..made']
        BY <2>1, <3>1, <3>2
      <3>4. promise' \in [Server!Atts -> Server!Conns \cup {Server!None}] /\ entry' \in [att : 0..made', conn : Server!Conns \cup {Server!None}]
        BY <1>0, <2>1, <3>1 DEF McpTypes
      <3> QED BY <1>0, <3>1, <3>2, <3>3, <3>4 DEF McpTypes, Server!catalogVars
    <2> QED BY <2>2, <2>3
  <1>6. CASE Server!Stored
    BY <1>0, <1>6 DEF Server!Stored, Server!NoAdmin, McpTypes
  <1>13. CASE Server!AdminFails
    BY <1>0, <1>13 DEF Server!AdminFails, Server!NoAdmin, Server!catalogVars, McpTypes
  <1>7. ASSUME NEW i \in Calls, Server!Lookup(i) PROVE McpTypes'
    BY <1>0, <1>7 DEF Server!Lookup, Server!catalogVars, McpTypes, McpInv, EntrysClient
  <1>14. ASSUME NEW i \in Calls, Server!Refuse(i) \/ Server!CallEnds(i) PROVE McpTypes'
    <2>1. calls' = [calls EXCEPT ![i] = [at |-> "free", att |-> 0]]
      BY <1>14 DEF Server!Refuse, Server!CallEnds, Server!Free
    <2>2. /\ calls' \in [Calls -> [at : {"free", "asked", "runs"}, att : 0..made]]
          /\ \A j \in Calls : calls'[j].at # "free" => calls'[j].att # Server!None
      BY <1>0, <2>1 DEF McpTypes
    <2> QED BY <1>0, <1>14, <2>2 DEF Server!Refuse, Server!CallEnds, Server!catalogVars,
               McpTypes
  <1>8. ASSUME NEW i \in Calls, Server!Invoke(i) PROVE McpTypes'
    <2>1. /\ calls[i].att \in 0..made /\ calls[i].att # Server!None /\ calls[i].att \in Server!Atts
          /\ calls' = [calls EXCEPT ![i].at = "runs"]
      BY <1>0, <1>8 DEF Server!Invoke, McpTypes
    <2>2. /\ calls' \in [Calls -> [at : {"free", "asked", "runs"}, att : 0..made]]
          /\ \A j \in Calls : calls'[j].at # "free" => calls'[j].att # Server!None
      BY <1>0, <2>1 DEF McpTypes
    <2>3. /\ promise' \in [Server!Atts -> Server!Conns \cup {Server!None}] /\ owner' \in [Server!Conns -> 0..made]
          /\ conn' \in [Server!Conns -> {"unused", "opening", "open", "closed"}]
      <3> DEFINE a == calls[i].att
      <3>1. a \in Server!Atts /\ a \in 0..made /\ Server!getOrConnect(a)
        BY <1>8, <2>1 DEF Server!Invoke
      <3> HIDE DEF a
      <3>2. CASE UNCHANGED <<promise, conn, owner>>
        BY <1>0, <3>2 DEF McpTypes
      <3>3. CASE \E c \in Server!Unused : /\ Server!Open(c) /\ promise' = [promise EXCEPT ![a] = c]
                                   /\ owner' = [owner EXCEPT ![c] = a]
        <4>1. PICK c \in Server!Conns : /\ conn' = [conn EXCEPT ![c] = "opening"]
                                 /\ promise' = [promise EXCEPT ![a] = c]
                                 /\ owner' = [owner EXCEPT ![c] = a]
          BY <3>3 DEF Server!Unused, Server!Open
        <4> QED BY <1>0, <3>1, <4>1 DEF McpTypes
      <3> QED BY <3>1, <3>2, <3>3 DEF Server!getOrConnect
    <2>4. stray' \subseteq Server!Atts
      BY <1>0, <1>8, <2>1 DEF Server!Invoke, McpTypes
    <2> QED BY <1>0, <1>8, <2>2, <2>3, <2>4 DEF Server!Invoke, Server!catalogVars, McpTypes
  <1>9. ASSUME NEW c \in Server!Conns, Server!Connected(c) PROVE McpTypes'
    <2>1. /\ conn' \in [Server!Conns -> {"unused", "opening", "open", "closed"}]
          /\ closing' \subseteq Server!Conns
      BY <1>0, <1>9 DEF Server!Connected, McpTypes
    <2>2. entry' \in [att : 0..made, conn : Server!Conns \cup {Server!None}] /\ stray' \subseteq Server!Atts
      <3>1. CASE UNCHANGED <<entry, stray>>
        BY <1>0, <3>1 DEF McpTypes
      <3>2. CASE owner[c] # Server!None /\ entry # Server!NoEntry
        <4>1. entry.att \in Server!Atts
          BY <1>0, <3>2 DEF McpInv, EntrysClient, McpTypes
        <4> QED BY <1>0, <1>9, <3>2, <4>1 DEF Server!Connected, McpTypes
      <3> QED BY <1>9, <3>1, <3>2 DEF Server!Connected
    <2> QED BY <1>0, <1>9, <2>1, <2>2 DEF Server!Connected, Server!catalogVars, McpTypes
  <1>10. ASSUME NEW c \in Server!Conns, Server!ConnectFails(c) PROVE McpTypes'
    BY <1>0, <1>10 DEF Server!ConnectFails, Server!Free, Server!catalogVars, McpTypes
  <1>11. CASE Server!Disable \/ Server!RemoveServer
    <2>1. /\ conn' \in [Server!Conns -> {"unused", "opening", "open", "closed"}]
          /\ closing' \subseteq Server!Conns /\ entry' \in [att : 0..made, conn : Server!Conns \cup {Server!None}]
      <3>1. Server!detachServer
        BY <1>11 DEF Server!Disable, Server!RemoveServer
      <3>2. entry # Server!NoEntry => entry.att \in Server!Atts
        BY <1>0 DEF McpInv, EntrysClient, McpTypes
      <3>3. entry' \in [att : 0..made, conn : Server!Conns \cup {Server!None}]
        BY <1>0, <3>1 DEF Server!detachServer
      <3>4. CASE UNCHANGED <<conn, closing>>
        BY <1>0, <3>3, <3>4 DEF McpTypes
      <3>5. CASE entry # Server!NoEntry /\ Server!Closed(entry)
        <4> DEFINE c == IF entry.conn # Server!None THEN entry.conn ELSE promise[entry.att]
        <4>1. c \in Server!Conns \cup {Server!None}
          BY <1>0, <3>2, <3>5 DEF McpTypes
        <4>2. \/ UNCHANGED <<conn, closing>>
              \/ c # Server!None /\ closing' = closing \cup {c} /\ UNCHANGED conn
              \/ c # Server!None /\ conn' = [conn EXCEPT ![c] = "closed"] /\ UNCHANGED closing
          BY <3>5 DEF Server!Closed
        <4> HIDE DEF c
        <4> QED BY <1>0, <3>3, <4>1, <4>2 DEF McpTypes
      <3> QED BY <3>1, <3>4, <3>5 DEF Server!detachServer
    <2> QED BY <1>0, <1>11, <2>1 DEF Server!Disable, Server!RemoveServer, McpTypes
  <1>12. CASE UNCHANGED Server!vars
    BY <1>0, <1>12 DEF Server!vars, Server!catalogVars, McpTypes
  <1> QED BY <1>1, <1>2, <1>3, <1>4, <1>5, <1>6, <1>7, <1>8, <1>9, <1>10, <1>11, <1>12,
             <1>13, <1>14 DEF Server!Next

\* Every step keeps the invariant of the connections.
LEMMA McpInductive ==
  ASSUME McpInv, [Server!Next]_Server!vars
  PROVE  McpInv'
  <1> USE DEF Server!None, Server!NoEntry, Alive
  <1>0. /\ McpTypes /\ McpTypes' /\ Promised /\ AdminsOwn /\ EntrysClient /\ Detached
        /\ MaxAttach \in Nat /\ MaxConns \in Nat
    BY ServicesConstants, McpTypesNext DEF Server!McpAssumption, McpInv
  <1>1. CASE Server!Enable
    <2>1. Promised'
      BY <1>0, <1>1 DEF Server!Enable, Server!attachServerLazy, McpTypes, Promised,
         AdminsOwn
    <2>2. AdminsOwn'
      BY <1>0, <1>1 DEF Server!Enable, Server!attachServerLazy, McpTypes, AdminsOwn
    <2>3. EntrysClient'
      BY <1>0, <1>1 DEF Server!Enable, Server!attachServerLazy, McpTypes, EntrysClient,
         Detached, AdminsOwn
    <2>4. Detached'
      BY <1>0, <1>1 DEF Server!Enable, Server!attachServerLazy, McpTypes, Detached,
         EntrysClient, Promised, AdminsOwn
    <2> QED BY <1>0, <2>1, <2>2, <2>3, <2>4 DEF McpInv
  <1>2. CASE Server!Refresh
    <2>0. PICK c \in Server!Conns : /\ conn[c] = "unused" /\ conn' = [conn EXCEPT ![c] = "opening"]
                             /\ admin' = [at |-> "refresh", conn |-> c]
                             /\ UNCHANGED <<entry, promise, owner, closing, stray>>
      BY <1>2 DEF Server!Refresh, Server!Open, Server!Admin, Server!Unused
    <2>1. Promised'
      BY <1>0, <2>0 DEF McpTypes, Promised
    <2>2. AdminsOwn'
      BY <1>0, <2>0 DEF McpTypes, Promised, AdminsOwn
    <2>3. EntrysClient'
      BY <1>0, <2>0 DEF McpTypes, Promised, EntrysClient
    <2>4. Detached'
      BY <1>0, <2>0 DEF McpTypes, Promised, Detached
    <2> QED BY <1>0, <2>1, <2>2, <2>3, <2>4 DEF McpInv
  <1>3. CASE Server!Refreshed
    <2>1. Promised'
      BY <1>0, <1>3 DEF Server!Refreshed, Server!attachServerLazy, Server!NoAdmin, McpTypes,
         Promised, AdminsOwn
    <2>2. AdminsOwn'
      BY <1>0, <1>3 DEF Server!Refreshed, Server!attachServerLazy, Server!NoAdmin, McpTypes,
         AdminsOwn
    <2>3. EntrysClient'
      BY <1>0, <1>3 DEF Server!Refreshed, Server!attachServerLazy, Server!NoAdmin, McpTypes,
         EntrysClient, Detached, AdminsOwn
    <2>4. Detached'
      BY <1>0, <1>3 DEF Server!Refreshed, Server!attachServerLazy, Server!NoAdmin, McpTypes,
         Detached, EntrysClient, Promised, AdminsOwn
    <2> QED BY <1>0, <2>1, <2>2, <2>3, <2>4 DEF McpInv
  <1>4. CASE Server!Add
    <2>0. PICK c \in Server!Conns : /\ conn[c] = "unused" /\ conn' = [conn EXCEPT ![c] = "opening"]
                             /\ admin' = [at |-> "add", conn |-> c]
                             /\ UNCHANGED <<entry, promise, owner, closing, stray>>
      BY <1>4 DEF Server!Add, Server!Open, Server!Admin, Server!Unused
    <2>1. Promised'
      BY <1>0, <2>0 DEF McpTypes, Promised
    <2>2. AdminsOwn'
      BY <1>0, <2>0 DEF McpTypes, Promised, AdminsOwn
    <2>3. EntrysClient'
      BY <1>0, <2>0 DEF McpTypes, Promised, EntrysClient
    <2>4. Detached'
      BY <1>0, <2>0 DEF McpTypes, Promised, Detached
    <2> QED BY <1>0, <2>1, <2>2, <2>3, <2>4 DEF McpInv
  <1>5. CASE Server!Added
    <2>1. Promised'
      <3>1. admin.conn \in Server!Conns /\ owner[admin.conn] = Server!None /\ conn[admin.conn] = "open"
        BY <1>0, <1>5 DEF Server!Added, AdminsOwn
      <3>2. CASE entry # Server!NoEntry
        BY <1>0, <1>5, <3>1, <3>2 DEF Server!Added, McpTypes, Promised
      <3>3. CASE entry = Server!NoEntry
        <4>1. /\ promise' = [promise EXCEPT ![made + 1] = admin.conn] /\ conn' = conn
              /\ owner' = [owner EXCEPT ![admin.conn] = made + 1]
              /\ made + 1 \in Server!Atts /\ made + 1 # Server!None
          BY <1>0, <1>5, <3>3 DEF Server!Added, McpTypes, Server!Atts
        <4>2. \A c \in Server!Conns : owner[c] # made + 1
          BY <1>0 DEF McpTypes
        <4>3. ASSUME NEW a \in Server!Atts, promise'[a] # Server!None PROVE owner'[promise'[a]] = a
          <5>1. CASE a = made + 1
            BY <1>0, <3>1, <4>1, <5>1 DEF McpTypes
          <5>2. CASE a # made + 1
            <6>1. promise'[a] = promise[a] /\ promise[a] \in Server!Conns /\ a # Server!None
              BY <1>0, <4>1, <4>3, <5>2 DEF McpTypes, Server!Atts
            <6>2. owner[promise[a]] = a /\ promise[a] # admin.conn
              BY <1>0, <3>1, <4>3, <6>1 DEF Promised
            <6> QED BY <1>0, <3>1, <4>1, <6>1, <6>2 DEF McpTypes
          <5> QED BY <5>1, <5>2
        <4>4. ASSUME NEW c \in Server!Conns, owner'[c] # Server!None, Alive(c)' PROVE promise'[owner'[c]] = c
          <5>1. CASE c = admin.conn
            BY <1>0, <3>1, <4>1, <5>1 DEF McpTypes
          <5>2. CASE c # admin.conn
            <6>1. owner'[c] = owner[c] /\ owner[c] # made + 1 /\ owner[c] \in Server!Atts /\ conn'[c] = conn[c]
              BY <1>0, <4>1, <4>2, <4>4, <5>2 DEF McpTypes, Server!Atts
            <6> QED BY <1>0, <4>1, <4>4, <6>1 DEF McpTypes, Promised
          <5> QED BY <5>1, <5>2
        <4>5. \A c \in Server!Conns : conn'[c] = "unused" => owner'[c] = Server!None
          BY <1>0, <3>1, <4>1 DEF McpTypes, Promised
        <4> QED BY <4>3, <4>4, <4>5 DEF Promised
      <3> QED BY <3>2, <3>3
    <2>2. AdminsOwn'
      BY <1>0, <1>5 DEF Server!Added, Server!Admin, Server!NoAdmin, McpTypes, AdminsOwn
    <2>3. EntrysClient'
      BY <1>0, <1>5 DEF Server!Added, Server!Admin, Server!NoAdmin, McpTypes, EntrysClient,
         Detached, AdminsOwn
    <2>4. Detached'
      BY <1>0, <1>5 DEF Server!Added, Server!Admin, Server!NoAdmin, McpTypes, Detached,
         EntrysClient, Promised, AdminsOwn
    <2> QED BY <1>0, <2>1, <2>2, <2>3, <2>4 DEF McpInv
  <1>6. CASE Server!Stored
    <2>1. Promised'
      BY <1>0, <1>6 DEF Server!Stored, Server!NoAdmin, McpTypes, Promised, AdminsOwn
    <2>2. AdminsOwn'
      BY <1>0, <1>6 DEF Server!Stored, Server!NoAdmin, McpTypes, AdminsOwn
    <2>3. EntrysClient'
      BY <1>0, <1>6 DEF Server!Stored, Server!NoAdmin, McpTypes, EntrysClient, Detached,
         AdminsOwn
    <2>4. Detached'
      BY <1>0, <1>6 DEF Server!Stored, Server!NoAdmin, McpTypes, Detached, EntrysClient,
         Promised, AdminsOwn
    <2> QED BY <1>0, <2>1, <2>2, <2>3, <2>4 DEF McpInv
  <1>7. CASE Server!AdminFails
    <2>1. Promised'
      BY <1>0, <1>7 DEF Server!AdminFails, Server!NoAdmin, McpTypes, Promised, AdminsOwn
    <2>2. AdminsOwn'
      BY <1>0, <1>7 DEF Server!AdminFails, Server!NoAdmin, McpTypes, AdminsOwn
    <2>3. EntrysClient'
      BY <1>0, <1>7 DEF Server!AdminFails, Server!NoAdmin, McpTypes, EntrysClient, Detached,
         AdminsOwn
    <2>4. Detached'
      BY <1>0, <1>7 DEF Server!AdminFails, Server!NoAdmin, McpTypes, Detached, EntrysClient,
         Promised, AdminsOwn
    <2> QED BY <1>0, <2>1, <2>2, <2>3, <2>4 DEF McpInv
  <1>8. ASSUME NEW i \in Calls, Server!Lookup(i) \/ Server!Refuse(i) \/ Server!CallEnds(i) PROVE McpInv'
    <2>1. Promised'
      BY <1>0, <1>8 DEF Server!Lookup, Server!Refuse, Server!CallEnds, McpTypes, Promised,
         AdminsOwn
    <2>2. AdminsOwn'
      BY <1>0, <1>8 DEF Server!Lookup, Server!Refuse, Server!CallEnds, McpTypes, AdminsOwn
    <2>3. EntrysClient'
      BY <1>0, <1>8 DEF Server!Lookup, Server!Refuse, Server!CallEnds, McpTypes,
         EntrysClient, Detached, AdminsOwn
    <2>4. Detached'
      BY <1>0, <1>8 DEF Server!Lookup, Server!Refuse, Server!CallEnds, McpTypes, Detached,
         EntrysClient, Promised, AdminsOwn
    <2> QED BY <1>0, <2>1, <2>2, <2>3, <2>4 DEF McpInv
  <1>9. ASSUME NEW i \in Calls, Server!Invoke(i) PROVE McpInv'
    <2>0. /\ calls[i].att \in Server!Atts \ {Server!None} /\ Server!getOrConnect(calls[i].att)
          /\ UNCHANGED <<entry, closing, admin, made>>
          /\ stray' = IF entry.att = calls[i].att THEN stray ELSE stray \cup {calls[i].att}
      BY <1>0, <1>9 DEF Server!Invoke, McpTypes, Server!Atts
    <2> DEFINE a == calls[i].att
    <2> HIDE DEF a
    <2>5. \/ UNCHANGED <<promise, conn, owner>>
          \/ \E c \in Server!Conns : /\ conn[c] = "unused" /\ promise[a] = Server!None
                             /\ conn' = [conn EXCEPT ![c] = "opening"]
                             /\ promise' = [promise EXCEPT ![a] = c]
                             /\ owner' = [owner EXCEPT ![c] = a]
      BY <2>0 DEF Server!getOrConnect, Server!Open, Server!Unused, a
    <2>6. a \in Server!Atts \ {Server!None} /\ stray' = IF entry.att = a THEN stray ELSE stray \cup {a}
      BY <2>0 DEF a
    <2>1. Promised'
      <3>1. CASE UNCHANGED <<promise, conn, owner>>
        BY <1>0, <3>1 DEF Promised
      <3>2. ASSUME NEW c \in Server!Conns, conn[c] = "unused", promise[a] = Server!None,
                   conn' = [conn EXCEPT ![c] = "opening"], promise' = [promise EXCEPT ![a] = c],
                   owner' = [owner EXCEPT ![c] = a]
            PROVE  Promised'
        <4>1. ASSUME NEW b \in Server!Atts, promise'[b] # Server!None PROVE owner'[promise'[b]] = b
          <5>1. CASE b = a
            BY <1>0, <2>6, <3>2, <5>1 DEF McpTypes
          <5>2. CASE b # a
            <6>1. promise'[b] = promise[b] /\ promise[b] \in Server!Conns /\ b # Server!None
              BY <1>0, <3>2, <4>1, <5>2 DEF McpTypes, Server!Atts
            <6>2. owner[promise[b]] = b /\ promise[b] # c
              BY <1>0, <3>2, <4>1, <6>1 DEF Promised
            <6> QED BY <1>0, <3>2, <6>1, <6>2 DEF McpTypes
          <5> QED BY <5>1, <5>2
        <4>2. ASSUME NEW d \in Server!Conns, owner'[d] # Server!None, Alive(d)' PROVE promise'[owner'[d]] = d
          <5>1. CASE d = c
            BY <1>0, <2>6, <3>2, <5>1 DEF McpTypes
          <5>2. CASE d # c
            <6>1. owner'[d] = owner[d] /\ conn'[d] = conn[d] /\ owner[d] \in Server!Atts
              BY <1>0, <3>2, <4>2, <5>2 DEF McpTypes, Server!Atts
            <6>2. promise[owner[d]] = d /\ d # Server!None
              BY <1>0, <4>2, <6>1 DEF Promised, Server!Conns
            <6> QED BY <1>0, <2>6, <3>2, <6>1, <6>2 DEF McpTypes
          <5> QED BY <5>1, <5>2
        <4>3. \A d \in Server!Conns : conn'[d] = "unused" => owner'[d] = Server!None
          BY <1>0, <3>2 DEF McpTypes, Promised
        <4> QED BY <4>1, <4>2, <4>3 DEF Promised
      <3> QED BY <2>5, <3>1, <3>2
    <2>2. AdminsOwn'
      BY <1>0, <2>0, <2>5, <2>6 DEF McpTypes, AdminsOwn
    <2>3. EntrysClient'
      BY <1>0, <2>0, <2>5, <2>6 DEF McpTypes, EntrysClient
    <2>4. Detached'
      BY <1>0, <2>0, <2>5, <2>6 DEF McpTypes, Detached
    <2> QED BY <1>0, <2>1, <2>2, <2>3, <2>4 DEF McpInv
  <1>10. ASSUME NEW c \in Server!Conns, Server!Connected(c) PROVE McpInv'
    <2>1. Promised'
      BY <1>0, <1>10 DEF Server!Connected, McpTypes, Promised, AdminsOwn
    <2>2. AdminsOwn'
      BY <1>0, <1>10 DEF Server!Connected, McpTypes, AdminsOwn
    <2>3. EntrysClient'
      BY <1>0, <1>10 DEF Server!Connected, McpTypes, EntrysClient, Detached, AdminsOwn
    <2>4. Detached'
      BY <1>0, <1>10 DEF Server!Connected, McpTypes, Detached, EntrysClient, Promised,
         AdminsOwn
    <2> QED BY <1>0, <2>1, <2>2, <2>3, <2>4 DEF McpInv
  <1>11. ASSUME NEW c \in Server!Conns, Server!ConnectFails(c) PROVE McpInv'
    <2>1. Promised'
      <3>1. /\ conn' = [conn EXCEPT ![c] = "closed"] /\ owner' = owner
            /\ \A a \in Server!Atts : promise'[a] = IF promise[a] = c THEN Server!None ELSE promise[a]
        BY <1>11 DEF Server!ConnectFails
      <3>2. \A a \in Server!Atts : promise'[a] # Server!None => owner'[promise'[a]] = a
        BY <1>0, <3>1 DEF Promised
      <3>3. ASSUME NEW d \in Server!Conns, owner'[d] # Server!None, Alive(d)' PROVE promise'[owner'[d]] = d
        <4>1. d # c /\ conn'[d] = conn[d] /\ owner[d] \in Server!Atts
          BY <1>0, <3>1, <3>3 DEF McpTypes, Server!Atts
        <4> QED BY <1>0, <3>1, <3>3, <4>1 DEF Promised
      <3>4. \A d \in Server!Conns : conn'[d] = "unused" => owner'[d] = Server!None
        BY <1>0, <1>11, <3>1 DEF McpTypes, Promised
      <3> QED BY <3>2, <3>3, <3>4 DEF Promised
    <2>2. AdminsOwn'
      BY <1>0, <1>11 DEF Server!ConnectFails, McpTypes, AdminsOwn
    <2>3. EntrysClient'
      BY <1>0, <1>11 DEF Server!ConnectFails, McpTypes, EntrysClient, Detached, AdminsOwn
    <2>4. Detached'
      BY <1>0, <1>11 DEF Server!ConnectFails, McpTypes, Detached, EntrysClient, Promised,
         AdminsOwn
    <2> QED BY <1>0, <2>1, <2>2, <2>3, <2>4 DEF McpInv
  <1>12. CASE Server!Disable \/ Server!RemoveServer
    <2>1. Promised'
      BY <1>0, <1>12 DEF Server!Disable, Server!RemoveServer, Server!detachServer,
         Server!Closed, McpTypes, Promised, AdminsOwn
    <2>2. AdminsOwn'
      BY <1>0, <1>12 DEF Server!Disable, Server!RemoveServer, Server!detachServer,
         Server!Closed, McpTypes, AdminsOwn
    <2>3. EntrysClient'
      BY <1>0, <1>12 DEF Server!Disable, Server!RemoveServer, Server!detachServer,
         Server!Closed, McpTypes, EntrysClient, Detached, AdminsOwn
    <2>4. Detached'
      <3> DEFINE c == IF entry.conn # Server!None THEN entry.conn ELSE promise[entry.att]
      <3>1. /\ UNCHANGED <<promise, owner, stray>> /\ entry' = Server!NoEntry
            /\ IF entry = Server!NoEntry \/ c = Server!None THEN UNCHANGED <<conn, closing>>
               ELSE IF conn[c] = "opening" THEN closing' = closing \cup {c} /\ UNCHANGED conn
               ELSE conn' = [conn EXCEPT ![c] = "closed"] /\ UNCHANGED closing
        BY <1>12 DEF Server!Disable, Server!RemoveServer, Server!detachServer, Server!Closed
      <3>2. entry # Server!NoEntry => entry.att \in Server!Atts \ {Server!None} /\ c \in Server!Conns \cup {Server!None}
        BY <1>0 DEF McpTypes, EntrysClient, Server!Atts
      <3>3. ASSUME entry # Server!NoEntry, c # Server!None, conn[c] = "opening" PROVE owner[c] = entry.att
        BY <1>0, <3>2, <3>3 DEF Promised, EntrysClient, McpTypes
      <3>4. ASSUME NEW d \in Server!Conns, Alive(d), owner[d] = entry.att, entry # Server!NoEntry, entry.att \notin stray
            PROVE  d = c
        <4>1. promise[entry.att] = d
          BY <1>0, <3>2, <3>4 DEF Promised
        <4> QED BY <1>0, <3>2, <3>4, <4>1 DEF Promised, EntrysClient, McpTypes
      <3> HIDE DEF c
      <3>5. \A d \in closing' : conn'[d] = "opening" /\ owner'[d] \notin {Server!None, entry'.att}
        BY <1>0, <3>1, <3>2, <3>3 DEF Detached, McpTypes
      <3>6. ASSUME NEW d \in Server!Conns, Alive(d)', owner'[d] \notin stray' \cup {Server!None, entry'.att}
            PROVE  d \in closing'
        <4>1. Alive(d)
          BY <1>0, <3>1, <3>2, <3>6 DEF McpTypes
        <4>2. CASE entry # Server!NoEntry /\ owner[d] = entry.att
          <5>1. d = c /\ c # Server!None
            BY <3>1, <3>4, <3>6, <4>1, <4>2 DEF Server!Conns
          <5> QED BY <1>0, <3>1, <3>6, <4>2, <5>1 DEF McpTypes
        <4>3. CASE ~(entry # Server!NoEntry /\ owner[d] = entry.att)
          <5>1. d \in closing
            BY <1>0, <3>1, <3>6, <4>1, <4>3 DEF Detached
          <5> QED BY <3>1, <5>1
        <4> QED BY <4>2, <4>3
      <3> QED BY <3>5, <3>6 DEF Detached
    <2> QED BY <1>0, <2>1, <2>2, <2>3, <2>4 DEF McpInv
  <1>13. CASE UNCHANGED Server!vars
    <2>1. Promised'
      BY <1>0, <1>13 DEF Server!vars, McpTypes, Promised, AdminsOwn
    <2>2. AdminsOwn'
      BY <1>0, <1>13 DEF Server!vars, McpTypes, AdminsOwn
    <2>3. EntrysClient'
      BY <1>0, <1>13 DEF Server!vars, McpTypes, EntrysClient, Detached, AdminsOwn
    <2>4. Detached'
      BY <1>0, <1>13 DEF Server!vars, McpTypes, Detached, EntrysClient, Promised, AdminsOwn
    <2> QED BY <1>0, <2>1, <2>2, <2>3, <2>4 DEF McpInv
  <1> QED BY <1>1, <1>2, <1>3, <1>4, <1>5, <1>6, <1>7, <1>8, <1>9, <1>10, <1>11, <1>12,
             <1>13 DEF Server!Next

\* It begins there.
LEMMA McpBegins ==
  ASSUME Server!Init
  PROVE  McpInv
  <1> USE ServicesConstants DEF Server!Init, Server!McpAssumption, Server!Atts,
          Server!Conns,
          Server!None, Server!NoEntry, Alive, Server!Free, Server!NoAdmin
  <1>1. McpTypes
    BY DEF McpTypes
  <1>2. Promised /\ AdminsOwn /\ EntrysClient /\ Detached
    BY DEF Promised, AdminsOwn, EntrysClient, Detached
  <1> QED BY <1>1, <1>2 DEF McpInv

\* A step of a behaviour of this component is one of its own.
LEMMA ServerSteps ==
  ASSUME [SNext]_allVars, part' = "server"
  PROVE  part = "server" /\ [Server!Next]_Server!vars
  BY DEF SNext, CronStep, HookStep, PluginStep, CoreStep, ServerStep, DeskStep, allVars,
         serverVars, Server!vars, Server!catalogVars

\* The invariant holds where the component runs.
LEMMA ServersInv == SSpec => [](part = "server" => McpInv)
  <1>1. SInit => (part = "server" => McpInv)
    BY McpBegins DEF SInit
  <1>2. (part = "server" => McpInv) /\ [SNext]_allVars => (part = "server" => McpInv)'
    BY ServerSteps, McpInductive
  <1> QED BY <1>1, <1>2, PTL DEF SSpec

\* getOrConnect: an attachment never has two live connections at a time.
THEOREM OneConnectionEachCorrect == SSpec => []OneConnectionEach
  <1>1. (part = "server" => McpInv) => OneConnectionEach
    BY DEF McpInv, Promised, OneConnectionEach, Server!OneConnectionEach, Alive, McpTypes
  <1> QED BY <1>1, ServersInv, PTL

\* detachServer: what an attachment opened is closed when it is gone, or will
\* be as soon as it is open, except for the two leaks that stray names.
THEOREM DetachedIsClosedCorrect == SSpec => []DetachedIsClosed
  <1>1. (part = "server" => McpInv) => DetachedIsClosed
    BY DEF McpInv, Detached, DetachedIsClosed, Server!DetachedIsClosed, Alive, McpTypes,
       Server!None
  <1> QED BY <1>1, ServersInv, PTL

-----------------------------------------------------------------------------
(*****************************************************************************)
(* A desk's session: the current driver serves the session that is up and the *)
(* open window, and every turn that goes on is its own or aborted.           *)
(*****************************************************************************)
Pumping == {"building", "called", "running"}

\* What is kept of turns and questions, when there were n drivers.
TurnRecords(n) ==
  [pump : {"none", "ended"} \cup Pumping, driver : 0..n, listed : BOOLEAN, aborted : BOOLEAN,
   srv : {"none", "running", "calling", "asking", "ended"}, told : BOOLEAN]
AskRecords(n) ==
  [at : {"free", "sent", "parked", "replied", "lost", "decided", "gone"}, turn : Turns \cup {Desk!None},
   kind : {"none", "permission", "approval"}, driver : 0..n, ok : BOOLEAN,
   by : {"none", "user", "auto", "cancel", "default"}]

\* Types of what a desk keeps.
DeskTypes ==
  /\ link \in [Desk!Sessions -> {"none", "open", "ending", "closed"}]
  /\ window \in Nat /\ shown \in Nat
  /\ driver \in Seq([sess : Desk!Sessions, auto : BOOLEAN, win : Nat \ {Desk!None}])
  /\ current \in 0..Len(driver)
  /\ turn \in [Turns -> TurnRecords(Len(driver))]
  /\ ask \in [Desk!Asks -> AskRecords(Len(driver))]

\* One session at a time is up, drivers are of sessions that were.
OneLink ==
  /\ \A s, x \in Desk!Sessions : Desk!Up(s) /\ Desk!Up(x) => s = x
  /\ \A s, x \in Desk!Sessions : s < x /\ link[x] # "none" => link[s] # "none"
  /\ \A d \in DOMAIN driver : link[driver[d].sess] # "none"

\* The current driver is of that session and of the open window.
CurrentServes ==
  current # Desk!None => Desk!Up(driver[current].sess) /\ driver[current].win = window /\ window # Desk!None

\* A turn that goes on has a driver, and the user can abort it or it was.
Abortable ==
  /\ \A t \in Turns : turn[t].pump # "none" \/ turn[t].srv # "none" => turn[t].driver # Desk!None
  /\ \A t \in Turns : turn[t].listed => turn[t].driver # Desk!None
  /\ \A t \in Turns : turn[t].pump \in Pumping =>
       /\ turn[t].aborted \/ (turn[t].listed /\ turn[t].driver = current)

\* A question belongs to a turn with a driver; a parked one was put to one.
Asked ==
  \A a \in Desk!Asks :
    /\ ask[a].at # "free" => ask[a].turn \in Turns /\ turn[ask[a].turn].driver # Desk!None
    /\ ask[a].at \in {"sent", "parked"} => ask[a].by = "none"
    /\ ask[a].at = "parked" => ask[a].driver # Desk!None

\* The inductive invariant of a desk.
DeskInv == DeskTypes /\ OneLink /\ CurrentServes /\ Abortable /\ Asked

\* A new driver takes no one's place, so that nothing is disposed of for it.
LEMMA Replaces ==
  ASSUME DeskInv, NEW s \in Desk!Sessions, NEW win \in Nat \ {Desk!None}, Desk!ensureDriverFor(s, win),
         current # Desk!None => driver[current].sess = s
  PROVE  \/ UNCHANGED <<Desk!drivers, turn, ask>> /\ current # Desk!None
         \/ /\ current = Desk!None /\ UNCHANGED <<turn, ask>>
            /\ driver' = Append(driver, [sess |-> s, auto |-> FALSE, win |-> win])
            /\ current' = Len(driver) + 1
  <1>1. CASE current # Desk!None
    BY <1>1 DEF Desk!ensureDriverFor
  <1>2. CASE current = Desk!None
    <2>1. Desk!Replace(s, win) /\ {current} \ {Desk!None} = {}
      BY <1>2 DEF Desk!ensureDriverFor
    <2>2. Desk!Dispose({}, link)
      BY <2>1 DEF Desk!Replace
    <2>3. ask' = [a \in Desk!Asks |-> ask[a]] /\ turn' = [t \in Turns |-> turn[t]]
      BY <2>2 DEF Desk!Dispose
    <2> QED BY <1>2, <2>1, <2>3 DEF Desk!Replace, DeskInv, DeskTypes
  <1> QED BY <1>1, <1>2

\* A new driver becomes the current one, and turns and questions keep their
\* types.
LEMMA Drives ==
  ASSUME DeskInv, NEW s \in Desk!Sessions, NEW win \in Nat \ {Desk!None},
         driver' = Append(driver, [sess |-> s, auto |-> FALSE, win |-> win]),
         current' = Len(driver) + 1, UNCHANGED <<turn, ask>>
  PROVE  /\ driver' \in Seq([sess : Desk!Sessions, auto : BOOLEAN, win : Nat \ {Desk!None}])
         /\ current' \in 0..Len(driver')
         /\ turn' \in [Turns -> TurnRecords(Len(driver'))]
         /\ ask' \in [Desk!Asks -> AskRecords(Len(driver'))]
         /\ driver'[current'].sess = s /\ driver'[current'].win = win /\ current' # Desk!None
         /\ \A d \in DOMAIN driver : driver'[d] = driver[d]
         /\ DOMAIN driver' = DOMAIN driver \cup {current'}
  <1>1. driver \in Seq([sess : Desk!Sessions, auto : BOOLEAN, win : Nat \ {Desk!None}])
    BY DEF DeskInv, DeskTypes
  <1>2. [sess |-> s, auto |-> FALSE, win |-> win] \in [sess : Desk!Sessions, auto : BOOLEAN, win : Nat \ {Desk!None}]
    OBVIOUS
  <1> DEFINE R == [sess : Desk!Sessions, auto : BOOLEAN, win : Nat \ {Desk!None}]
             r == [sess |-> s, auto |-> FALSE, win |-> win]
  <1>3. driver \in Seq(R) /\ r \in R /\ driver' = Append(driver, r) /\ r.sess = s /\ r.win = win
    BY <1>1, <1>2
  <1> HIDE DEF R, r
  <1>4. /\ driver' \in Seq(R) /\ Len(driver') = Len(driver) + 1 /\ Len(driver) \in Nat
        /\ driver'[Len(driver) + 1] = r
        /\ \A d \in 1..Len(driver) : driver'[d] = driver[d]
        /\ DOMAIN driver = 1..Len(driver) /\ DOMAIN driver' = 1..(Len(driver) + 1)
    BY <1>3
  <1>5. TurnRecords(Len(driver)) \subseteq TurnRecords(Len(driver'))
    BY <1>4 DEF TurnRecords
  <1>6. AskRecords(Len(driver)) \subseteq AskRecords(Len(driver'))
    BY <1>4 DEF AskRecords
  <1>7. turn' \in [Turns -> TurnRecords(Len(driver'))] /\ ask' \in [Desk!Asks -> AskRecords(Len(driver'))]
    BY <1>5, <1>6 DEF DeskInv, DeskTypes
  <1> QED BY <1>3, <1>4, <1>7 DEF R, Desk!None

\* Where a question is, who decides it, and how one changes.
AskPlaces == {"free", "sent", "parked", "replied", "lost", "decided", "gone"}
Deciders == {"none", "user", "auto", "cancel", "default"}
Runs(r, srv) == [r EXCEPT !.srv = srv]
Goes(r, e, at) == e = [r EXCEPT !.at = at]
Settled(r, e, at, by) == \E ok \in BOOLEAN : e = [r EXCEPT !.at = at, !.ok = ok, !.by = by]

\* A question that moves on keeps its turn, its driver and who decided it.
LEMMA AskGoes ==
  ASSUME NEW n, NEW r \in AskRecords(n), NEW e, NEW at \in AskPlaces, Goes(r, e, at)
  PROVE  /\ e \in AskRecords(n) /\ e.at = at /\ e.turn = r.turn
         /\ e.driver = r.driver /\ e.by = r.by
  BY DEF AskRecords, Goes, AskPlaces

\* A question that is settled keeps its turn and its driver.
LEMMA AskMoves ==
  ASSUME NEW n, NEW r \in AskRecords(n), NEW e, NEW at \in AskPlaces, NEW by \in Deciders,
         Settled(r, e, at, by)
  PROVE  /\ e \in AskRecords(n) /\ e.at = at /\ e.by = by
         /\ e.turn = r.turn /\ e.driver = r.driver
  <1>1. PICK ok \in BOOLEAN : e = [r EXCEPT !.at = at, !.ok = ok, !.by = by]
    BY DEF Settled
  <1>2. e \in AskRecords(n)
    BY <1>1 DEF AskRecords, AskPlaces, Deciders
  <1>3. e.at = at
    BY <1>1 DEF AskRecords
  <1>4. e.by = by /\ e.turn = r.turn /\ e.driver = r.driver
    BY <1>1 DEF AskRecords
  <1> QED BY <1>2, <1>3, <1>4

\* The places and deciders that replies use are among those there are.
LEMMA ReplyPlaces ==
  /\ {"replied", "lost", "decided", "gone"} \subseteq AskPlaces
  /\ {"user", "auto", "cancel", "default"} \subseteq Deciders
  BY DEF AskPlaces, Deciders

\* One question changes, and the others stay.
LEMMA AskChanges ==
  ASSUME DeskInv, NEW a \in Desk!Asks, NEW e \in AskRecords(Len(driver)), ask' = [ask EXCEPT ![a] = e]
  PROVE  /\ ask' \in [Desk!Asks -> AskRecords(Len(driver))]
         /\ ask'[a] = e /\ \A b \in Desk!Asks : b # a => ask'[b] = ask[b]
  BY DEF DeskInv, DeskTypes

\* One turn changes, and the others stay.
LEMMA TurnChanges ==
  ASSUME DeskInv, NEW t \in Turns, NEW r \in TurnRecords(Len(driver)),
         turn' = [turn EXCEPT ![t] = r]
  PROVE  /\ turn' \in [Turns -> TurnRecords(Len(driver))]
         /\ turn'[t] = r /\ \A x \in Turns : x # t => turn'[x] = turn[x]
  BY DEF DeskInv, DeskTypes

\* A turn that runs on differs in the state of its run only.
LEMMA TurnRuns ==
  ASSUME NEW n, NEW r \in TurnRecords(n),
         NEW srv \in {"none", "running", "calling", "asking", "ended"}
  PROVE  /\ Runs(r, srv) \in TurnRecords(n) /\ Runs(r, srv).srv = srv
         /\ Runs(r, srv).pump = r.pump /\ Runs(r, srv).driver = r.driver
         /\ Runs(r, srv).listed = r.listed /\ Runs(r, srv).aborted = r.aborted
  BY DEF TurnRecords, Runs

\* The records of the drivers, and the current one is one of them.
LEMMA DriverRecords ==
  ASSUME DeskInv
  PROVE  /\ DOMAIN driver = 1..Len(driver) /\ Len(driver) \in Nat
         /\ \A d \in 1..Len(driver) :
              /\ driver[d] \in [sess : Desk!Sessions, auto : BOOLEAN, win : Nat \ {Desk!None}]
              /\ driver[d].sess \in Desk!Sessions /\ driver[d].win \in Nat \ {Desk!None}
              /\ driver[d].auto \in BOOLEAN
         /\ current # Desk!None => current \in 1..Len(driver)
         /\ current # Desk!None => driver[current].sess \in Desk!Sessions
  <1> DEFINE R == [sess : Desk!Sessions, auto : BOOLEAN, win : Nat \ {Desk!None}]
  <1>1. driver \in Seq(R) /\ current \in 0..Len(driver)
    BY DEF DeskInv, DeskTypes
  <1> HIDE DEF R
  <1>2. /\ DOMAIN driver = 1..Len(driver) /\ Len(driver) \in Nat
        /\ \A d \in 1..Len(driver) : driver[d] \in R
        /\ current # Desk!None => current \in 1..Len(driver)
    BY <1>1 DEF Desk!None
  <1>3. \A r \in R : r.sess \in Desk!Sessions /\ r.win \in Nat \ {Desk!None} /\ r.auto \in BOOLEAN
    BY DEF R
  <1>4. \A d \in 1..Len(driver) : driver[d] \in R /\ driver[d].sess \in Desk!Sessions
                                  /\ driver[d].win \in Nat \ {Desk!None} /\ driver[d].auto \in BOOLEAN
    BY <1>2, <1>3
  <1> QED BY <1>2, <1>4 DEF R

\* A new driver, of the session that is up and of the open window.
LEMMA NewDriver ==
  ASSUME DeskInv, NEW s \in Desk!Sessions, NEW win \in Nat \ {Desk!None}, current = Desk!None,
         driver' = Append(driver, [sess |-> s, auto |-> FALSE, win |-> win]),
         current' = Len(driver) + 1, UNCHANGED <<turn, ask>>,
         window' = win, shown' \in Nat, Desk!Up(s)',
         link' \in [Desk!Sessions -> {"none", "open", "ending", "closed"}],
         \A x, y \in Desk!Sessions : Desk!Up(x)' /\ Desk!Up(y)' => x = y,
         \A x, y \in Desk!Sessions : x < y /\ link'[y] # "none" => link'[x] # "none",
         \A x \in Desk!Sessions : link[x] # "none" => link'[x] # "none"
  PROVE  DeskInv' /\ Desk!DenialHasAReason
  <1>1. DeskTypes'
    BY Drives DEF DeskTypes
  <1>2. OneLink'
    <2>1. \A d \in DOMAIN driver : driver[d].sess \in Desk!Sessions
      BY DriverRecords
    <2>2. /\ DOMAIN driver' = DOMAIN driver \cup {current'}
          /\ driver'[current'].sess = s /\ \A d \in DOMAIN driver : driver'[d] = driver[d]
      BY Drives
    <2>3. ASSUME NEW d \in DOMAIN driver PROVE link'[driver'[d].sess] # "none"
      BY <2>1, <2>2 DEF DeskInv, OneLink
    <2>4. link'[driver'[current'].sess] # "none"
      BY <2>2 DEF Desk!Up
    <2>5. \A d \in DOMAIN driver' : link'[driver'[d].sess] # "none"
      BY <2>2, <2>3, <2>4
    <2> QED BY <2>5 DEF OneLink
  <1>3. CurrentServes'
    BY Drives DEF CurrentServes, Desk!None
  <1>4. Abortable' /\ Asked'
    BY DEF DeskInv, Abortable, Asked
  <1>5. Desk!DenialHasAReason
    BY DEF DeskInv, Abortable, Asked, Desk!DenialHasAReason, Pumping
  <1> QED BY <1>1, <1>2, <1>3, <1>4, <1>5 DEF DeskInv

\* A link that changes, with no other driver than before.
LEMMA SameDriver ==
  ASSUME DeskInv, UNCHANGED <<driver, current, turn, ask>>, window' \in Nat, shown' \in Nat,
         link' \in [Desk!Sessions -> {"none", "open", "ending", "closed"}],
         current # Desk!None => Desk!Up(driver[current].sess)' /\ window' = window,
         \A x, y \in Desk!Sessions : Desk!Up(x)' /\ Desk!Up(y)' => x = y,
         \A x, y \in Desk!Sessions : x < y /\ link'[y] # "none" => link'[x] # "none",
         \A x \in Desk!Sessions : link[x] # "none" => link'[x] # "none"
  PROVE  DeskInv' /\ Desk!DenialHasAReason
  <1>1. DeskTypes'
    BY DEF DeskInv, DeskTypes
  <1>2. OneLink'
    <2>1. \A d \in DOMAIN driver' : driver'[d] = driver[d] /\ driver[d].sess \in Desk!Sessions
      BY DriverRecords
    <2> QED BY <2>1 DEF DeskInv, OneLink
  <1>3. CurrentServes'
    BY DEF DeskInv, CurrentServes
  <1>4. Abortable' /\ Asked'
    BY DEF DeskInv, Abortable, Asked
  <1>5. Desk!DenialHasAReason
    BY DEF DeskInv, Abortable, Asked, Desk!DenialHasAReason, Pumping
  <1> QED BY <1>1, <1>2, <1>3, <1>4, <1>5 DEF DeskInv

\* Every step keeps the invariant of a desk, and denies only with a reason.
LEMMA DeskInductive ==
  ASSUME DeskInv, [Desk!Next]_Desk!vars
  PROVE  DeskInv' /\ Desk!DenialHasAReason
  <1> USE DEF Desk!Up, Desk!None, Pumping, Desk!Pump, Desk!windows, Desk!drivers
  <1>0. /\ DeskTypes /\ OneLink /\ CurrentServes /\ Abortable /\ Asked
        /\ \A s \in Desk!Sessions : s \in Nat
    BY ServicesConstants DEF DeskInv, Desk!Sessions, Desk!DesktopAssumption
  <1>1. ASSUME NEW s \in Desk!Sessions, Desk!Connect(s) PROVE DeskInv' /\ Desk!DenialHasAReason
    <2>1. /\ link' = [link EXCEPT ![s] = "open"] /\ UNCHANGED <<window, shown>>
          /\ \A x \in Desk!Sessions : IF x < s THEN link[x] = "closed" ELSE link[x] = "none"
      BY <1>1 DEF Desk!Connect
    <2>2. current = Desk!None
      BY <1>0, <2>1, DriverRecords DEF CurrentServes
    <2>3. /\ link' \in [Desk!Sessions -> {"none", "open", "ending", "closed"}]
          /\ \A x \in Desk!Sessions : link'[x] = IF x = s THEN "open" ELSE link[x]
      BY <1>0, <2>1 DEF DeskTypes
    <2>4. /\ \A x, y \in Desk!Sessions : Desk!Up(x)' /\ Desk!Up(y)' => x = y
          /\ \A x, y \in Desk!Sessions : x < y /\ link'[y] # "none" => link'[x] # "none"
          /\ \A x \in Desk!Sessions : link[x] # "none" => link'[x] # "none"
      <3>1. \A x, y \in Desk!Sessions : x < y /\ y # s /\ link[y] # "none" => x # s /\ link[x] = "closed"
        BY <1>0, <2>1
      <3>2. \A x \in Desk!Sessions : x < s => link[x] = "closed"
        BY <2>1
      <3> QED BY <2>1, <2>3, <3>1, <3>2
    <2>5. CASE window = Desk!None
      <3>1. UNCHANGED <<driver, current, turn, ask>>
        BY <1>1, <2>5 DEF Desk!Connect
      <3> HIDE DEF Desk!Up, Desk!None
      <3> QED BY <1>0, <2>1, <2>2, <2>3, <2>4, <3>1, SameDriver DEF DeskTypes
    <2>6. CASE window # Desk!None
      <3>1. Desk!ensureDriverFor(s, window) /\ window \in Nat \ {Desk!None}
        BY <1>0, <1>1, <2>6 DEF Desk!Connect, DeskTypes
      <3>2. /\ UNCHANGED <<turn, ask>> /\ current' = Len(driver) + 1
            /\ driver' = Append(driver, [sess |-> s, auto |-> FALSE, win |-> window])
        BY <2>2, <3>1, Replaces
      <3>3. Desk!Up(s)' /\ shown' \in Nat
        BY <1>0, <2>1, <2>3 DEF DeskTypes
      <3> HIDE DEF Desk!Up, Desk!None
      <3> QED BY <2>1, <2>2, <2>3, <2>4, <3>1, <3>2, <3>3, NewDriver
    <2> QED BY <2>5, <2>6
  <1>2. ASSUME NEW s \in Desk!Sessions, Desk!ServerHears(s) PROVE DeskInv' /\ Desk!DenialHasAReason
    <2>0. /\ \A a \in Desk!Asks : /\ ask'[a] \in AskRecords(Len(driver))
                                  /\ ask'[a].turn = ask[a].turn /\ ask'[a].driver = ask[a].driver
                                  /\ \/ ask'[a] = ask[a]
                                     \/ /\ ask'[a].at = "decided" /\ ask'[a].by = "default"
                                        /\ ask[a].at # "free"
          /\ ask' = [a \in Desk!Asks |-> ask'[a]]
      <3>1. \A a \in Desk!Asks :
              ask'[a] = ask[a] \/ (/\ ask[a].at \in {"sent", "lost"}
                                 /\ ask'[a] = [ask[a] EXCEPT !.at = "decided",
                                                !.ok = ask[a].kind = "approval", !.by = "default"])
        BY <1>2 DEF Desk!ServerHears
      <3>2. ask' = [a \in Desk!Asks |-> ask'[a]]
        BY <1>2 DEF Desk!ServerHears
      <3>3. ASSUME NEW a \in Desk!Asks
            PROVE  /\ ask'[a] \in AskRecords(Len(driver))
                   /\ ask'[a].turn = ask[a].turn /\ ask'[a].driver = ask[a].driver
                   /\ \/ ask'[a] = ask[a]
                      \/ /\ ask'[a].at = "decided" /\ ask'[a].by = "default"
                         /\ ask[a].at # "free"
        <4>1. ask[a] \in AskRecords(Len(driver))
          BY <1>0 DEF DeskTypes
        <4>2. CASE /\ ask[a].at \in {"sent", "lost"}
                   /\ ask'[a] = [ask[a] EXCEPT !.at = "decided",
                                                !.ok = ask[a].kind = "approval", !.by = "default"]
          <5>1. Settled(ask[a], ask'[a], "decided", "default")
            BY <4>2 DEF Settled
          <5>2. ask[a].at # "free"
            BY <4>2
          <5> QED BY <4>1, <5>1, <5>2, ReplyPlaces, AskMoves
        <4> QED BY <3>1, <4>1, <4>2
      <3> QED BY <3>2, <3>3
    <2>7. /\ \A t \in Turns : /\ turn'[t] \in TurnRecords(Len(driver))
                              /\ turn'[t].pump = turn[t].pump /\ turn'[t].driver = turn[t].driver
                              /\ turn'[t].listed = turn[t].listed /\ turn'[t].aborted = turn[t].aborted
                              /\ turn'[t].srv # "none" => turn[t].srv # "none"
          /\ turn' = [t \in Turns |-> turn'[t]]
      <3>1. \A t \in Turns :
              turn'[t] = turn[t] \/ (/\ turn[t].srv # "none"
                                   /\ turn'[t] = [turn[t] EXCEPT !.told = TRUE,
                                                 !.srv = IF @ = "asking" THEN "running" ELSE @])
        BY <1>2 DEF Desk!ServerHears
      <3>2. turn' = [t \in Turns |-> turn'[t]]
        BY <1>2 DEF Desk!ServerHears
      <3>3. ASSUME NEW t \in Turns
            PROVE  /\ turn'[t] \in TurnRecords(Len(driver))
                   /\ turn'[t].pump = turn[t].pump /\ turn'[t].driver = turn[t].driver
                   /\ turn'[t].listed = turn[t].listed /\ turn'[t].aborted = turn[t].aborted
                   /\ turn'[t].srv # "none" => turn[t].srv # "none"
        <4>1. turn[t] \in TurnRecords(Len(driver))
          BY <1>0 DEF DeskTypes
        <4>2. CASE turn[t].srv # "none" /\ turn'[t] = [turn[t] EXCEPT !.told = TRUE,
                                                 !.srv = IF @ = "asking" THEN "running" ELSE @]
          BY <4>1, <4>2 DEF TurnRecords
        <4> QED BY <3>1, <4>1, <4>2
      <3> QED BY <3>2, <3>3
    <2>8. UNCHANGED <<link, window, shown, driver, current>>
      BY <1>2 DEF Desk!ServerHears
    <2>1. DeskTypes'
      <3>1. ask' \in [Desk!Asks -> AskRecords(Len(driver))]
        BY <2>0
      <3>2. turn' \in [Turns -> TurnRecords(Len(driver))]
        BY <2>7
      <3> QED BY <1>0, <2>8, <3>1, <3>2 DEF DeskTypes
    <2>2. OneLink'
      BY <1>0, <1>2 DEF Desk!ServerHears, DeskTypes, OneLink
    <2>3. CurrentServes'
      BY <1>0, <1>2 DEF Desk!ServerHears, DeskTypes, OneLink, CurrentServes
    <2>4. Abortable'
      BY <1>0, <2>0, <2>7, <2>8 DEF Abortable
    <2>5. Asked'
      <3>1. \A a \in Desk!Asks : ask[a].at # "free" => /\ ask[a].turn \in Turns
                                                    /\ turn'[ask[a].turn].driver # Desk!None
        BY <1>0, <2>7 DEF Asked
      <3>2. ASSUME NEW a \in Desk!Asks
            PROVE  /\ ask'[a].at # "free" => ask'[a].turn \in Turns /\ turn'[ask'[a].turn].driver # Desk!None
                   /\ ask'[a].at \in {"sent", "parked"} => ask'[a].by = "none"
                   /\ ask'[a].at = "parked" => ask'[a].driver # Desk!None
        BY <1>0, <2>0, <3>1 DEF Asked
      <3> QED BY <3>2 DEF Asked
    <2>6. Desk!DenialHasAReason
      BY <1>0, <2>0, <2>7, <2>8 DEF Desk!DenialHasAReason, Asked, Abortable
    <2> QED BY <2>1, <2>2, <2>3, <2>4, <2>5, <2>6 DEF DeskInv
  <1>3. ASSUME NEW s \in Desk!Sessions, NEW dies \in BOOLEAN, Desk!LinkCloses(s, dies) PROVE DeskInv' /\ Desk!DenialHasAReason
    <2>0. /\ \A a \in Desk!Asks : /\ ask'[a] \in AskRecords(Len(driver))
                                  /\ ask'[a].turn = ask[a].turn /\ ask'[a].driver = ask[a].driver
                                  /\ ask'[a].at = "free" => ask[a].at = "free"
                                  /\ ask'[a].at # "free" => ask[a].at # "free"
                                  /\ ask'[a].at \in {"sent", "parked"} => ask'[a] = ask[a]
          /\ ask' = [a \in Desk!Asks |-> ask'[a]]
      <3>1. \A a \in Desk!Asks :
              \/ ask'[a] = ask[a]
              \/ (ask[a].at # "free" /\ ask'[a] = [ask[a] EXCEPT !.at = "gone"])
              \/ /\ ask[a].at = "parked"
                 /\ \/ ask'[a] = [ask[a] EXCEPT !.at = "replied", !.ok = FALSE, !.by = "cancel"]
                    \/ ask'[a] = [ask[a] EXCEPT !.at = "lost", !.ok = FALSE, !.by = "cancel"]
        BY <1>3 DEF Desk!LinkCloses, Desk!Replied, Desk!AsksOf
      <3>2. ask' = [a \in Desk!Asks |-> ask'[a]]
        BY <1>3 DEF Desk!LinkCloses
      <3>3. \A a \in Desk!Asks : ask[a] \in AskRecords(Len(driver))
        BY <1>0 DEF DeskTypes
      <3>4. ASSUME NEW a \in Desk!Asks
            PROVE  /\ ask'[a] \in AskRecords(Len(driver))
                   /\ ask'[a].turn = ask[a].turn /\ ask'[a].driver = ask[a].driver
                   /\ ask'[a].at = "free" => ask[a].at = "free"
                   /\ ask'[a].at # "free" => ask[a].at # "free"
                   /\ ask'[a].at \in {"sent", "parked"} => ask'[a] = ask[a]
        <4>1. CASE ask'[a] = ask[a]
          BY <3>3, <4>1
        <4>2. CASE ask[a].at # "free" /\ ask'[a] = [ask[a] EXCEPT !.at = "gone"]
          <5>1. Goes(ask[a], ask'[a], "gone") /\ ask[a].at # "free"
            BY <4>2 DEF Goes
          <5> QED BY <3>3, <5>1, ReplyPlaces, AskGoes
        <4>3. CASE /\ ask[a].at = "parked"
                   /\ ask'[a] = [ask[a] EXCEPT !.at = "replied", !.ok = FALSE, !.by = "cancel"]
          <5>1. Settled(ask[a], ask'[a], "replied", "cancel")
            BY <4>3 DEF Settled
          <5>2. ask[a].at = "parked"
            BY <4>3
          <5> QED BY <3>3, <5>1, <5>2, ReplyPlaces, AskMoves
        <4>4. CASE /\ ask[a].at = "parked"
                   /\ ask'[a] = [ask[a] EXCEPT !.at = "lost", !.ok = FALSE, !.by = "cancel"]
          <5>1. Settled(ask[a], ask'[a], "lost", "cancel")
            BY <4>4 DEF Settled
          <5>2. ask[a].at = "parked"
            BY <4>4
          <5> QED BY <3>3, <5>1, <5>2, ReplyPlaces, AskMoves
        <4> QED BY <3>1, <4>1, <4>2, <4>3, <4>4
      <3> QED BY <3>2, <3>4
    <2>7. /\ \A t \in Turns :
               /\ turn'[t] \in TurnRecords(Len(driver)) /\ turn'[t].driver = turn[t].driver
               /\ turn'[t].srv # "none" => turn[t].srv # "none"
               /\ turn'[t].pump # "none" => turn[t].pump # "none"
               /\ turn'[t].listed => turn[t].listed
               /\ IF t \in Desk!TurnsOf(s)
                  THEN turn'[t].pump \in Pumping =>
                         /\ turn[t].pump \in Pumping
                         /\ turn[t].aborted \/ turn[t].listed => turn'[t].aborted
                  ELSE turn'[t] = turn[t]
          /\ turn' = [t \in Turns |-> turn'[t]]
      <3>1. \A t \in Turns :
              turn'[t] = IF t \in Desk!TurnsOf(s)
                         THEN [turn[t] EXCEPT
                                 !.pump = IF @ \in {"called", "running"} THEN "ended" ELSE @,
                                 !.aborted = @ \/ turn[t].listed, !.listed = FALSE,
                                 !.srv = IF dies /\ @ # "none" THEN "ended" ELSE @]
                         ELSE turn[t]
        BY <1>3 DEF Desk!LinkCloses
      <3>2. turn' = [t \in Turns |-> turn'[t]]
        BY <1>3 DEF Desk!LinkCloses
      <3>3. \A t \in Turns : turn[t] \in TurnRecords(Len(driver))
        BY <1>0 DEF DeskTypes
      <3>4. ASSUME NEW t \in Turns, t \in Desk!TurnsOf(s)
            PROVE  /\ turn'[t] \in TurnRecords(Len(driver)) /\ turn'[t].driver = turn[t].driver
                   /\ turn'[t].srv # "none" => turn[t].srv # "none"
                   /\ turn'[t].pump # "none" => turn[t].pump # "none"
                   /\ turn'[t].listed => turn[t].listed
                   /\ turn'[t].pump \in Pumping =>
                         /\ turn[t].pump \in Pumping
                         /\ turn[t].aborted \/ turn[t].listed => turn'[t].aborted
        <4> DEFINE r == turn[t]
                   p == IF r.pump \in {"called", "running"} THEN "ended" ELSE r.pump
                   b == r.aborted \/ r.listed
                   v == IF dies /\ r.srv # "none" THEN "ended" ELSE r.srv
        <4>1. r \in TurnRecords(Len(driver))
          BY <3>3
        <4>2. /\ p \in {"none", "ended"} \cup Pumping /\ b \in BOOLEAN
              /\ v \in {"none", "running", "calling", "asking", "ended"}
              /\ v # "none" => r.srv # "none"
              /\ p # "none" => r.pump # "none"
              /\ p \in Pumping => r.pump \in Pumping
          BY <4>1 DEF TurnRecords
        <4>3. turn'[t] = [r EXCEPT !.pump = p, !.aborted = b, !.listed = FALSE, !.srv = v]
          BY <3>1, <3>4
        <4>4. b = (r.aborted \/ r.listed)
          OBVIOUS
        <4> HIDE DEF p, b, v, r
        <4>5. /\ turn'[t] \in TurnRecords(Len(driver)) /\ turn'[t].driver = r.driver
              /\ turn'[t].srv = v /\ turn'[t].pump = p /\ turn'[t].listed = FALSE /\ turn'[t].aborted = b
          BY <4>1, <4>2, <4>3 DEF TurnRecords
        <4> QED BY <4>2, <4>4, <4>5 DEF r
      <3> QED BY <3>1, <3>2, <3>3, <3>4
    <2>8. /\ UNCHANGED <<window, shown, driver>> /\ current' = Desk!None
          /\ link' = [link EXCEPT ![s] = "closed"] /\ Desk!Up(s)
      BY <1>3 DEF Desk!LinkCloses
    <2>9. /\ link' \in [Desk!Sessions -> {"none", "open", "ending", "closed"}]
          /\ \A x \in Desk!Sessions : link'[x] = IF x = s THEN "closed" ELSE link[x]
          /\ \A x \in Desk!Sessions : link'[x] \notin {"open", "ending"}
      BY <1>0, <2>8 DEF DeskTypes, OneLink
    <2>1. DeskTypes'
      <3>1. ask' \in [Desk!Asks -> AskRecords(Len(driver))]
        BY <2>0
      <3>2. turn' \in [Turns -> TurnRecords(Len(driver))]
        BY <2>7
      <3> QED BY <1>0, <2>8, <3>1, <3>2, <2>9 DEF DeskTypes
    <2>2. OneLink'
      <3>1. \A d \in DOMAIN driver : link'[driver[d].sess] # "none"
        BY <1>0, <2>9, DriverRecords DEF OneLink
      <3> QED BY <1>0, <2>8, <2>9, <3>1 DEF OneLink
    <2>3. CurrentServes'
      BY <1>0, <1>3 DEF Desk!LinkCloses, Desk!TurnsOf, Desk!SessionOf, Desk!AsksOf,
         Desk!DriversOf, Desk!Replied, DeskTypes, OneLink, CurrentServes
    <2>4. Abortable'
      <3>1. ASSUME NEW t \in Turns, turn'[t].pump \in Pumping PROVE turn'[t].aborted
        <4>1. CASE t \in Desk!TurnsOf(s)
          BY <1>0, <2>7, <3>1, <4>1 DEF Abortable
        <4>2. CASE t \notin Desk!TurnsOf(s)
          <5>1. turn'[t] = turn[t] /\ turn[t].driver # Desk!None
            BY <1>0, <2>7, <3>1, <4>2 DEF Abortable
          <5>2. turn[t].driver # current
            BY <1>0, <2>8, <4>2, <5>1, DriverRecords DEF CurrentServes, OneLink,
               Desk!TurnsOf, Desk!SessionOf
          <5> QED BY <1>0, <3>1, <5>1, <5>2 DEF Abortable
        <4> QED BY <4>1, <4>2
      <3>2. \A t \in Turns : turn'[t].pump # "none" \/ turn'[t].srv # "none" => turn'[t].driver # Desk!None
        BY <1>0, <2>7 DEF Abortable
      <3>3. \A t \in Turns : turn'[t].listed => turn'[t].driver # Desk!None
        BY <1>0, <2>7 DEF Abortable
      <3> QED BY <3>1, <3>2, <3>3 DEF Abortable
    <2>5. Asked'
      <3>1. \A a \in Desk!Asks : ask[a].at # "free" => /\ ask[a].turn \in Turns
                                                    /\ turn'[ask[a].turn].driver # Desk!None
        BY <1>0, <2>7 DEF Asked
      <3>2. ASSUME NEW a \in Desk!Asks
            PROVE  /\ ask'[a].at # "free" => ask'[a].turn \in Turns /\ turn'[ask'[a].turn].driver # Desk!None
                   /\ ask'[a].at \in {"sent", "parked"} => ask'[a].by = "none"
                   /\ ask'[a].at = "parked" => ask'[a].driver # Desk!None
        BY <1>0, <2>0, <3>1 DEF Asked
      <3> QED BY <3>2 DEF Asked
    <2>6. Desk!DenialHasAReason
      <3>1. \A d \in 1..Len(driver) : Desk!Deserted(d)
        BY <1>0, <2>9, DriverRecords DEF Desk!Deserted
      <3>2. \A a \in Desk!Asks : ask[a].at = "parked" => ask[a].driver \in 1..Len(driver)
        BY <1>0, DriverRecords DEF Asked, DeskTypes, AskRecords
      <3>3. \A t \in Turns : turn[t].listed => turn[t].driver \in 1..Len(driver)
        BY <1>0, DriverRecords DEF Abortable, DeskTypes, TurnRecords
      <3>4. \A t \in Turns : turn'[t].pump \in Pumping => turn'[t].aborted
        BY <2>4, <2>7, <2>8 DEF Abortable
      <3> QED BY <3>1, <3>2, <3>3, <3>4 DEF Desk!DenialHasAReason
    <2> QED BY <2>1, <2>2, <2>3, <2>4, <2>5, <2>6 DEF DeskInv
  <1>4. CASE Desk!Refresh
    <2>0. PICK r \in Desk!Sessions : r = Desk!Remote /\ link[r] = "open"
      BY <1>4 DEF Desk!Refresh, Desk!Remote
    <2>1. /\ window \in Nat \ {Desk!None} /\ UNCHANGED <<link, window, shown>>
          /\ Desk!ensureDriverFor(r, window)
      BY <1>0, <1>4, <2>0 DEF Desk!Refresh, DeskTypes
    <2>2. current # Desk!None => driver[current].sess = r
      BY <1>0, <2>0, DriverRecords DEF CurrentServes, OneLink
    <2>3. /\ \A x, y \in Desk!Sessions : Desk!Up(x)' /\ Desk!Up(y)' => x = y
          /\ \A x, y \in Desk!Sessions : x < y /\ link'[y] # "none" => link'[x] # "none"
          /\ \A x \in Desk!Sessions : link[x] # "none" => link'[x] # "none"
          /\ link' \in [Desk!Sessions -> {"none", "open", "ending", "closed"}] /\ Desk!Up(r)'
      BY <1>0, <2>0, <2>1 DEF OneLink, DeskTypes
    <2>4. shown' \in Nat /\ window' \in Nat
      BY <1>0, <2>1 DEF DeskTypes
    <2>5. CASE current # Desk!None
      <3>1. UNCHANGED <<driver, current, turn, ask>>
        BY <2>1, <2>2, <2>5, Replaces
      <3>2. driver'[current'].sess = r
        BY <2>2, <2>5, <3>1
      <3>3. Desk!Up(driver[current].sess)'
        BY <2>3, <3>2
      <3> HIDE DEF Desk!Up, Desk!None
      <3> QED BY <2>1, <2>3, <2>4, <3>1, <3>3, SameDriver
    <2>6. CASE current = Desk!None
      <3>1. /\ UNCHANGED <<turn, ask>> /\ current' = Len(driver) + 1
            /\ driver' = Append(driver, [sess |-> r, auto |-> FALSE, win |-> window])
        BY <2>1, <2>2, <2>6, Replaces
      <3> HIDE DEF Desk!Up, Desk!None
      <3> QED BY <2>1, <2>3, <2>4, <2>6, <3>1, NewDriver
    <2> QED BY <2>5, <2>6
  <1>5. CASE Desk!EndSession
    <2>0. PICK r \in Desk!Sessions : r = Desk!Remote /\ link[r] = "open"
      BY <1>5 DEF Desk!EndSession, Desk!Remote
    <2>1. /\ UNCHANGED <<window, shown, driver, current, turn, ask>>
          /\ link' = [link EXCEPT ![r] = "ending"]
      BY <1>5, <2>0 DEF Desk!EndSession
    <2>2. /\ link' \in [Desk!Sessions -> {"none", "open", "ending", "closed"}]
          /\ \A x \in Desk!Sessions : link'[x] = IF x = r THEN "ending" ELSE link[x]
      BY <1>0, <2>1 DEF DeskTypes
    <2>3. \A x \in Desk!Sessions : (Desk!Up(x)' <=> Desk!Up(x)) /\ (link'[x] # "none" <=> link[x] # "none")
      BY <2>0, <2>2
    <2>4. /\ \A x, y \in Desk!Sessions : Desk!Up(x)' /\ Desk!Up(y)' => x = y
          /\ \A x, y \in Desk!Sessions : x < y /\ link'[y] # "none" => link'[x] # "none"
          /\ \A x \in Desk!Sessions : link[x] # "none" => link'[x] # "none"
      BY <1>0, <2>3 DEF OneLink
    <2>5. /\ current # Desk!None => Desk!Up(driver[current].sess)' /\ window' = window
          /\ window' \in Nat /\ shown' \in Nat
      <3>1. driver' = driver /\ current' = current
        BY <2>1
      <3> QED BY <1>0, <2>1, <2>3, <3>1, DriverRecords DEF CurrentServes, DeskTypes
    <2> HIDE DEF Desk!Up, Desk!None
    <2> QED BY <2>1, <2>2, <2>4, <2>5, SameDriver
  <1>6. CASE Desk!OpenWindow
    <2>1. /\ window = Desk!None /\ shown' = shown + 1 /\ window' = shown' /\ UNCHANGED link
          /\ IF Desk!Remote = Desk!None THEN UNCHANGED <<driver, current, turn, ask>>
             ELSE Desk!ensureDriverFor(Desk!Remote, window')
      BY <1>6 DEF Desk!OpenWindow
    <2>2. current = Desk!None /\ window' \in Nat \ {Desk!None} /\ shown' \in Nat
      BY <1>0, <2>1 DEF CurrentServes, DeskTypes
    <2>3. /\ \A x, y \in Desk!Sessions : Desk!Up(x)' /\ Desk!Up(y)' => x = y
          /\ \A x, y \in Desk!Sessions : x < y /\ link'[y] # "none" => link'[x] # "none"
          /\ \A x \in Desk!Sessions : link[x] # "none" => link'[x] # "none"
          /\ link' \in [Desk!Sessions -> {"none", "open", "ending", "closed"}]
      BY <1>0, <2>1 DEF OneLink, DeskTypes
    <2>4. CASE Desk!Remote = Desk!None
      <3>1. UNCHANGED <<driver, current, turn, ask>>
        BY <2>1, <2>4
      <3> HIDE DEF Desk!Up, Desk!None
      <3> QED BY <2>1, <2>2, <2>3, <3>1, SameDriver
    <2>5. CASE Desk!Remote # Desk!None
      <3>1. PICK r \in Desk!Sessions, w \in Nat \ {Desk!None} : r = Desk!Remote /\ link[r] = "open" /\ w = window'
        BY <2>2, <2>5 DEF Desk!Remote
      <3>2. Desk!ensureDriverFor(r, w) /\ Desk!Up(r)' /\ window' = w
        BY <2>1, <2>5, <3>1
      <3>3. /\ UNCHANGED <<turn, ask>> /\ current' = Len(driver) + 1
            /\ driver' = Append(driver, [sess |-> r, auto |-> FALSE, win |-> w])
        BY <2>2, <3>2, Replaces
      <3> HIDE DEF Desk!Up, Desk!None
      <3> QED BY <2>2, <2>3, <3>2, <3>3, NewDriver
    <2> QED BY <2>4, <2>5
  <1>7. CASE Desk!CloseWindow
    <2>0. /\ \A a \in Desk!Asks : /\ ask'[a] \in AskRecords(Len(driver))
                                  /\ ask'[a].turn = ask[a].turn /\ ask'[a].driver = ask[a].driver
                                  /\ ask'[a].at # "free" => ask[a].at # "free"
                                  /\ ask'[a].at \in {"sent", "parked"} => ask'[a] = ask[a]
          /\ ask' = [a \in Desk!Asks |-> ask'[a]]
      <3>1. \A a \in Desk!Asks :
              \/ ask'[a] = ask[a]
              \/ /\ ask[a].at = "parked"
                 /\ \/ ask'[a] = [ask[a] EXCEPT !.at = "replied", !.ok = FALSE, !.by = "cancel"]
                    \/ ask'[a] = [ask[a] EXCEPT !.at = "lost", !.ok = FALSE, !.by = "cancel"]
        BY <1>7 DEF Desk!CloseWindow, Desk!Dispose, Desk!Replied
      <3>2. ask' = [a \in Desk!Asks |-> ask'[a]]
        BY <1>7 DEF Desk!CloseWindow, Desk!Dispose
      <3>3. \A a \in Desk!Asks : ask[a] \in AskRecords(Len(driver))
        BY <1>0 DEF DeskTypes
      <3>4. ASSUME NEW a \in Desk!Asks
            PROVE  /\ ask'[a] \in AskRecords(Len(driver))
                   /\ ask'[a].turn = ask[a].turn /\ ask'[a].driver = ask[a].driver
                   /\ ask'[a].at # "free" => ask[a].at # "free"
                   /\ ask'[a].at \in {"sent", "parked"} => ask'[a] = ask[a]
        <4>1. CASE ask'[a] = ask[a]
          BY <3>3, <4>1
        <4>3. CASE /\ ask[a].at = "parked"
                   /\ ask'[a] = [ask[a] EXCEPT !.at = "replied", !.ok = FALSE, !.by = "cancel"]
          <5>1. Settled(ask[a], ask'[a], "replied", "cancel")
            BY <4>3 DEF Settled
          <5>2. ask[a].at = "parked"
            BY <4>3
          <5> QED BY <3>3, <5>1, <5>2, ReplyPlaces, AskMoves
        <4>4. CASE /\ ask[a].at = "parked"
                   /\ ask'[a] = [ask[a] EXCEPT !.at = "lost", !.ok = FALSE, !.by = "cancel"]
          <5>1. Settled(ask[a], ask'[a], "lost", "cancel")
            BY <4>4 DEF Settled
          <5>2. ask[a].at = "parked"
            BY <4>4
          <5> QED BY <3>3, <5>1, <5>2, ReplyPlaces, AskMoves
        <4> QED BY <3>1, <4>1, <4>3, <4>4
      <3> QED BY <3>2, <3>4
    <2>7. /\ \A t \in Turns :
               /\ turn'[t] \in TurnRecords(Len(driver)) /\ turn'[t].driver = turn[t].driver
               /\ turn'[t].srv = turn[t].srv /\ turn'[t].pump = turn[t].pump
               /\ turn'[t].listed => turn[t].listed
               /\ turn'[t].aborted <=> \/ turn[t].aborted
                                       \/ (turn[t].listed /\ turn[t].driver = current /\ current # Desk!None)
          /\ turn' = [t \in Turns |-> turn'[t]]
      <3>1. \A t \in Turns :
              turn'[t] = IF turn[t].listed /\ turn[t].driver \in {current} \ {Desk!None}
                         THEN [turn[t] EXCEPT !.aborted = TRUE, !.listed = FALSE] ELSE turn[t]
        BY <1>7 DEF Desk!CloseWindow, Desk!Dispose
      <3>2. turn' = [t \in Turns |-> turn'[t]]
        BY <1>7 DEF Desk!CloseWindow, Desk!Dispose
      <3>3. \A t \in Turns : turn[t] \in TurnRecords(Len(driver))
        BY <1>0 DEF DeskTypes
      <3>4. ASSUME NEW t \in Turns
            PROVE  /\ turn'[t] \in TurnRecords(Len(driver)) /\ turn'[t].driver = turn[t].driver
                   /\ turn'[t].srv = turn[t].srv /\ turn'[t].pump = turn[t].pump
                   /\ turn'[t].listed => turn[t].listed
                   /\ turn'[t].aborted <=> \/ turn[t].aborted
                                           \/ (turn[t].listed /\ turn[t].driver = current /\ current # Desk!None)
        <4>1. turn[t] \in TurnRecords(Len(driver))
          BY <3>3
        <4>2. CASE turn[t].listed /\ turn[t].driver \in {current} \ {Desk!None}
          <5>1. turn'[t] = [turn[t] EXCEPT !.aborted = TRUE, !.listed = FALSE]
            BY <3>1, <4>2
          <5> QED BY <4>1, <4>2, <5>1 DEF TurnRecords
        <4>3. CASE ~(turn[t].listed /\ turn[t].driver \in {current} \ {Desk!None})
          BY <3>1, <4>1, <4>3
        <4> QED BY <4>2, <4>3
      <3> QED BY <3>2, <3>4
    <2>8. UNCHANGED <<link, shown, driver>> /\ current' = Desk!None /\ window' = Desk!None
      BY <1>7 DEF Desk!CloseWindow
    <2>1. DeskTypes'
      <3>1. ask' \in [Desk!Asks -> AskRecords(Len(driver))]
        BY <2>0
      <3>2. turn' \in [Turns -> TurnRecords(Len(driver))]
        BY <2>7
      <3> QED BY <1>0, <2>8, <3>1, <3>2 DEF DeskTypes
    <2>2. OneLink'
      BY <1>0, <1>7 DEF Desk!CloseWindow, Desk!Dispose, Desk!Replied, DeskTypes, OneLink
    <2>3. CurrentServes'
      BY <1>0, <1>7 DEF Desk!CloseWindow, Desk!Dispose, Desk!Replied, DeskTypes, OneLink,
         CurrentServes
    <2>4. Abortable'
      BY <1>0, <2>7, <2>8 DEF Abortable
    <2>5. Asked'
      <3>1. \A a \in Desk!Asks : ask[a].at # "free" => /\ ask[a].turn \in Turns
                                                    /\ turn'[ask[a].turn].driver # Desk!None
        BY <1>0, <2>7 DEF Asked
      <3>2. ASSUME NEW a \in Desk!Asks
            PROVE  /\ ask'[a].at # "free" => ask'[a].turn \in Turns /\ turn'[ask'[a].turn].driver # Desk!None
                   /\ ask'[a].at \in {"sent", "parked"} => ask'[a].by = "none"
                   /\ ask'[a].at = "parked" => ask'[a].driver # Desk!None
        BY <1>0, <2>0, <3>1 DEF Asked
      <3> QED BY <3>2 DEF Asked
    <2>6. Desk!DenialHasAReason
      <3>1. \A d \in 1..Len(driver) : Desk!Deserted(d)
        BY <1>0, <2>8, DriverRecords DEF Desk!Deserted
      <3>2. \A a \in Desk!Asks : ask[a].at = "parked" => ask[a].driver \in 1..Len(driver)
        BY <1>0, DriverRecords DEF Asked, DeskTypes, AskRecords
      <3>3. \A t \in Turns : turn[t].listed => turn[t].driver \in 1..Len(driver)
        BY <1>0, DriverRecords DEF Abortable, DeskTypes, TurnRecords
      <3>4. \A t \in Turns : turn'[t].pump \in Pumping => turn'[t].aborted \/ turn'[t].driver = current'
        BY <2>4 DEF Abortable
      <3> QED BY <3>1, <3>2, <3>3, <3>4 DEF Desk!DenialHasAReason
    <2> QED BY <2>1, <2>2, <2>3, <2>4, <2>5, <2>6 DEF DeskInv
  <1>8. CASE Desk!setAutoApprove
    <2>1. DeskTypes'
      <3> DEFINE R == [sess : Desk!Sessions, auto : BOOLEAN, win : Nat \ {Desk!None}]
      <3>1. driver \in Seq(R) /\ current \in DOMAIN driver
        BY <1>0, <1>8 DEF Desk!setAutoApprove, DeskTypes
      <3>2. [driver[current] EXCEPT !.auto = ~@] \in R
        BY <1>0, <3>1, DriverRecords
      <3>3. driver' = [driver EXCEPT ![current] = [driver[current] EXCEPT !.auto = ~@]]
        BY <1>8 DEF Desk!setAutoApprove
      <3> HIDE DEF R
      <3>4. driver' \in Seq(R) /\ Len(driver') = Len(driver)
        BY <3>1, <3>2, <3>3
      <3> USE DEF R
      <3> QED BY <1>0, <1>8, <3>4 DEF Desk!setAutoApprove, DeskTypes
    <2>2. OneLink'
      BY <1>0, <1>8 DEF Desk!setAutoApprove, DeskTypes, OneLink
    <2>3. CurrentServes'
      BY <1>0, <1>8 DEF Desk!setAutoApprove, DeskTypes, OneLink, CurrentServes
    <2>4. Abortable'
      BY <1>0, <1>8 DEF Desk!setAutoApprove, DeskTypes, TurnRecords, AskRecords, Abortable,
         CurrentServes, OneLink
    <2>5. Asked'
      BY <1>0, <1>8 DEF Desk!setAutoApprove, DeskTypes, TurnRecords, AskRecords, Asked,
         Abortable
    <2>6. Desk!DenialHasAReason
      BY <1>0, <1>8
         DEF Desk!setAutoApprove, DeskTypes, TurnRecords, AskRecords, Abortable, Asked,
             OneLink, CurrentServes, Desk!DenialHasAReason, Desk!Deserted
    <2> QED BY <2>1, <2>2, <2>3, <2>4, <2>5, <2>6 DEF DeskInv
  <1>9. ASSUME NEW t \in Turns, Desk!RunTurn(t) PROVE DeskInv' /\ Desk!DenialHasAReason
    <2>1. DeskTypes'
      BY <1>0, <1>9 DEF Desk!RunTurn, Desk!NoTurn, DeskTypes, TurnRecords, AskRecords
    <2>2. OneLink'
      BY <1>0, <1>9 DEF Desk!RunTurn, Desk!NoTurn, DeskTypes, OneLink
    <2>3. CurrentServes'
      BY <1>0, <1>9 DEF Desk!RunTurn, Desk!NoTurn, DeskTypes, OneLink, CurrentServes
    <2>4. Abortable'
      BY <1>0, <1>9 DEF Desk!RunTurn, Desk!NoTurn, DeskTypes, TurnRecords, AskRecords,
         Abortable, CurrentServes, OneLink
    <2>5. Asked'
      BY <1>0, <1>9 DEF Desk!RunTurn, Desk!NoTurn, DeskTypes, TurnRecords, AskRecords,
         Asked, Abortable
    <2>6. Desk!DenialHasAReason
      BY <1>0, <1>9
         DEF Desk!RunTurn, Desk!NoTurn, DeskTypes, TurnRecords, AskRecords, Abortable,
             Asked, OneLink, CurrentServes, Desk!DenialHasAReason, Desk!Deserted
    <2> QED BY <2>1, <2>2, <2>3, <2>4, <2>5, <2>6 DEF DeskInv
  <1>10. ASSUME NEW t \in Turns, Desk!Send(t) PROVE DeskInv' /\ Desk!DenialHasAReason
    <2>1. DeskTypes'
      <3>1. turn[t] \in TurnRecords(Len(driver))
        BY <1>0 DEF DeskTypes
      <3>2. \E r \in TurnRecords(Len(driver)) : turn' = [turn EXCEPT ![t] = r]
        BY <1>10, <3>1 DEF Desk!Send, TurnRecords
      <3>3. turn' \in [Turns -> TurnRecords(Len(driver))]
        BY <1>0, <3>2 DEF DeskTypes
      <3> QED BY <1>0, <1>10, <3>3 DEF Desk!Send, DeskTypes
    <2>2. OneLink'
      BY <1>0, <1>10 DEF Desk!Send, Desk!SessionOf, DeskTypes, OneLink
    <2>3. CurrentServes'
      BY <1>0, <1>10 DEF Desk!Send, Desk!SessionOf, DeskTypes, OneLink, CurrentServes
    <2>4. Abortable'
      BY <1>0, <1>10 DEF Desk!Send, Desk!SessionOf, DeskTypes, TurnRecords, AskRecords,
         Abortable, CurrentServes, OneLink
    <2>5. Asked'
      BY <1>0, <1>10 DEF Desk!Send, Desk!SessionOf, DeskTypes, TurnRecords, AskRecords,
         Asked, Abortable
    <2>6. Desk!DenialHasAReason
      BY <1>0, <1>10
         DEF Desk!Send, Desk!SessionOf, DeskTypes, TurnRecords, AskRecords, Abortable,
             Asked, OneLink, CurrentServes, Desk!DenialHasAReason, Desk!Deserted
    <2> QED BY <2>1, <2>2, <2>3, <2>4, <2>5, <2>6 DEF DeskInv
  <1>11. ASSUME NEW t \in Turns, Desk!ServerStarts(t) PROVE DeskInv' /\ Desk!DenialHasAReason
    <2>1. DeskTypes'
      <3>1. turn[t] \in TurnRecords(Len(driver))
        BY <1>0 DEF DeskTypes
      <3>2. \E r \in TurnRecords(Len(driver)) : turn' = [turn EXCEPT ![t] = r]
        BY <1>11, <3>1 DEF Desk!ServerStarts, TurnRecords
      <3>3. turn' \in [Turns -> TurnRecords(Len(driver))]
        BY <1>0, <3>2 DEF DeskTypes
      <3> QED BY <1>0, <1>11, <3>3 DEF Desk!ServerStarts, DeskTypes
    <2>2. OneLink'
      BY <1>0, <1>11 DEF Desk!ServerStarts, DeskTypes, OneLink
    <2>3. CurrentServes'
      BY <1>0, <1>11 DEF Desk!ServerStarts, DeskTypes, OneLink, CurrentServes
    <2>4. Abortable'
      BY <1>0, <1>11 DEF Desk!ServerStarts, DeskTypes, TurnRecords, AskRecords, Abortable,
         CurrentServes, OneLink
    <2>5. Asked'
      BY <1>0, <1>11 DEF Desk!ServerStarts, DeskTypes, TurnRecords, AskRecords, Asked,
         Abortable
    <2>6. Desk!DenialHasAReason
      BY <1>0, <1>11
         DEF Desk!ServerStarts, DeskTypes, TurnRecords, AskRecords, Abortable, Asked,
             OneLink, CurrentServes, Desk!DenialHasAReason, Desk!Deserted
    <2> QED BY <2>1, <2>2, <2>3, <2>4, <2>5, <2>6 DEF DeskInv
  <1>12. ASSUME NEW t \in Turns, Desk!Learn(t) PROVE DeskInv' /\ Desk!DenialHasAReason
    <2>1. DeskTypes'
      <3>1. turn[t] \in TurnRecords(Len(driver))
        BY <1>0 DEF DeskTypes
      <3>2. \E r \in TurnRecords(Len(driver)) : turn' = [turn EXCEPT ![t] = r]
        BY <1>12, <3>1 DEF Desk!Learn, TurnRecords
      <3>3. turn' \in [Turns -> TurnRecords(Len(driver))]
        BY <1>0, <3>2 DEF DeskTypes
      <3> QED BY <1>0, <1>12, <3>3 DEF Desk!Learn, DeskTypes
    <2>2. OneLink'
      BY <1>0, <1>12 DEF Desk!Learn, DeskTypes, OneLink
    <2>3. CurrentServes'
      BY <1>0, <1>12 DEF Desk!Learn, DeskTypes, OneLink, CurrentServes
    <2>4. Abortable'
      BY <1>0, <1>12 DEF Desk!Learn, DeskTypes, TurnRecords, AskRecords, Abortable,
         CurrentServes, OneLink
    <2>5. Asked'
      BY <1>0, <1>12 DEF Desk!Learn, DeskTypes, TurnRecords, AskRecords, Asked, Abortable
    <2>6. Desk!DenialHasAReason
      BY <1>0, <1>12 DEF Desk!Learn, DeskTypes, TurnRecords, AskRecords, Abortable, Asked,
         OneLink, CurrentServes, Desk!DenialHasAReason, Desk!Deserted
    <2> QED BY <2>1, <2>2, <2>3, <2>4, <2>5, <2>6 DEF DeskInv
  <1>13. ASSUME NEW t \in Turns, Desk!abortTurn(t) PROVE DeskInv' /\ Desk!DenialHasAReason
    <2>1. DeskTypes'
      <3>1. turn[t] \in TurnRecords(Len(driver))
        BY <1>0 DEF DeskTypes
      <3>2. \E r \in TurnRecords(Len(driver)) : turn' = [turn EXCEPT ![t] = r]
        BY <1>13, <3>1 DEF Desk!abortTurn, TurnRecords
      <3>3. turn' \in [Turns -> TurnRecords(Len(driver))]
        BY <1>0, <3>2 DEF DeskTypes
      <3> QED BY <1>0, <1>13, <3>3 DEF Desk!abortTurn, DeskTypes
    <2>2. OneLink'
      BY <1>0, <1>13 DEF Desk!abortTurn, DeskTypes, OneLink
    <2>3. CurrentServes'
      BY <1>0, <1>13 DEF Desk!abortTurn, DeskTypes, OneLink, CurrentServes
    <2>4. Abortable'
      BY <1>0, <1>13 DEF Desk!abortTurn, DeskTypes, TurnRecords, AskRecords, Abortable,
         CurrentServes, OneLink
    <2>5. Asked'
      BY <1>0, <1>13 DEF Desk!abortTurn, DeskTypes, TurnRecords, AskRecords, Asked,
         Abortable
    <2>6. Desk!DenialHasAReason
      BY <1>0, <1>13 DEF Desk!abortTurn, DeskTypes, TurnRecords, AskRecords, Abortable,
         Asked, OneLink, CurrentServes, Desk!DenialHasAReason, Desk!Deserted
    <2> QED BY <2>1, <2>2, <2>3, <2>4, <2>5, <2>6 DEF DeskInv
  <1>14. ASSUME NEW t \in Turns, Desk!Tell(t) PROVE DeskInv' /\ Desk!DenialHasAReason
    <2>1. DeskTypes'
      <3>1. turn[t] \in TurnRecords(Len(driver))
        BY <1>0 DEF DeskTypes
      <3>2. \E r \in TurnRecords(Len(driver)) : turn' = [turn EXCEPT ![t] = r]
        BY <1>14, <3>1 DEF Desk!Tell, TurnRecords
      <3>3. turn' \in [Turns -> TurnRecords(Len(driver))]
        BY <1>0, <3>2 DEF DeskTypes
      <3> QED BY <1>0, <1>14, <3>3 DEF Desk!Tell, DeskTypes
    <2>2. OneLink'
      BY <1>0, <1>14 DEF Desk!Tell, DeskTypes, OneLink
    <2>3. CurrentServes'
      BY <1>0, <1>14 DEF Desk!Tell, DeskTypes, OneLink, CurrentServes
    <2>4. Abortable'
      BY <1>0, <1>14 DEF Desk!Tell, DeskTypes, TurnRecords, AskRecords, Abortable,
         CurrentServes, OneLink
    <2>5. Asked'
      BY <1>0, <1>14 DEF Desk!Tell, DeskTypes, TurnRecords, AskRecords, Asked, Abortable
    <2>6. Desk!DenialHasAReason
      BY <1>0, <1>14 DEF Desk!Tell, DeskTypes, TurnRecords, AskRecords, Abortable, Asked,
         OneLink, CurrentServes, Desk!DenialHasAReason, Desk!Deserted
    <2> QED BY <2>1, <2>2, <2>3, <2>4, <2>5, <2>6 DEF DeskInv
  <1>15. ASSUME NEW t \in Turns, Desk!CallBegins(t) PROVE DeskInv' /\ Desk!DenialHasAReason
    <2>1. DeskTypes'
      <3>1. turn[t] \in TurnRecords(Len(driver))
        BY <1>0 DEF DeskTypes
      <3>2. \E r \in TurnRecords(Len(driver)) : turn' = [turn EXCEPT ![t] = r]
        BY <1>15, <3>1 DEF Desk!CallBegins, TurnRecords
      <3>3. turn' \in [Turns -> TurnRecords(Len(driver))]
        BY <1>0, <3>2 DEF DeskTypes
      <3> QED BY <1>0, <1>15, <3>3 DEF Desk!CallBegins, DeskTypes
    <2>2. OneLink'
      BY <1>0, <1>15 DEF Desk!CallBegins, DeskTypes, OneLink
    <2>3. CurrentServes'
      BY <1>0, <1>15 DEF Desk!CallBegins, DeskTypes, OneLink, CurrentServes
    <2>4. Abortable'
      BY <1>0, <1>15 DEF Desk!CallBegins, DeskTypes, TurnRecords, AskRecords, Abortable,
         CurrentServes, OneLink
    <2>5. Asked'
      BY <1>0, <1>15 DEF Desk!CallBegins, DeskTypes, TurnRecords, AskRecords, Asked,
         Abortable
    <2>6. Desk!DenialHasAReason
      BY <1>0, <1>15 DEF Desk!CallBegins, DeskTypes, TurnRecords, AskRecords, Abortable,
         Asked, OneLink, CurrentServes, Desk!DenialHasAReason, Desk!Deserted
    <2> QED BY <2>1, <2>2, <2>3, <2>4, <2>5, <2>6 DEF DeskInv
  <1>16. ASSUME NEW t \in Turns, Desk!ServerEnds(t) PROVE DeskInv' /\ Desk!DenialHasAReason
    <2>1. DeskTypes'
      <3>1. turn[t] \in TurnRecords(Len(driver))
        BY <1>0 DEF DeskTypes
      <3>2. \E r \in TurnRecords(Len(driver)) : turn' = [turn EXCEPT ![t] = r]
        BY <1>16, <3>1 DEF Desk!ServerEnds, TurnRecords
      <3>3. turn' \in [Turns -> TurnRecords(Len(driver))]
        BY <1>0, <3>2 DEF DeskTypes
      <3> QED BY <1>0, <1>16, <3>3 DEF Desk!ServerEnds, DeskTypes
    <2>2. OneLink'
      BY <1>0, <1>16 DEF Desk!ServerEnds, DeskTypes, OneLink
    <2>3. CurrentServes'
      BY <1>0, <1>16 DEF Desk!ServerEnds, DeskTypes, OneLink, CurrentServes
    <2>4. Abortable'
      BY <1>0, <1>16 DEF Desk!ServerEnds, DeskTypes, TurnRecords, AskRecords, Abortable,
         CurrentServes, OneLink
    <2>5. Asked'
      BY <1>0, <1>16 DEF Desk!ServerEnds, DeskTypes, TurnRecords, AskRecords, Asked,
         Abortable
    <2>6. Desk!DenialHasAReason
      BY <1>0, <1>16 DEF Desk!ServerEnds, DeskTypes, TurnRecords, AskRecords, Abortable,
         Asked, OneLink, CurrentServes, Desk!DenialHasAReason, Desk!Deserted
    <2> QED BY <2>1, <2>2, <2>3, <2>4, <2>5, <2>6 DEF DeskInv
  <1>17. ASSUME NEW t \in Turns, Desk!Complete(t) PROVE DeskInv' /\ Desk!DenialHasAReason
    <2>1. DeskTypes'
      <3>1. turn[t] \in TurnRecords(Len(driver))
        BY <1>0 DEF DeskTypes
      <3>2. \E r \in TurnRecords(Len(driver)) : turn' = [turn EXCEPT ![t] = r]
        BY <1>17, <3>1 DEF Desk!Complete, TurnRecords
      <3>3. turn' \in [Turns -> TurnRecords(Len(driver))]
        BY <1>0, <3>2 DEF DeskTypes
      <3> QED BY <1>0, <1>17, <3>3 DEF Desk!Complete, DeskTypes
    <2>2. OneLink'
      BY <1>0, <1>17 DEF Desk!Complete, DeskTypes, OneLink
    <2>3. CurrentServes'
      BY <1>0, <1>17 DEF Desk!Complete, DeskTypes, OneLink, CurrentServes
    <2>4. Abortable'
      BY <1>0, <1>17 DEF Desk!Complete, DeskTypes, TurnRecords, AskRecords, Abortable,
         CurrentServes, OneLink
    <2>5. Asked'
      BY <1>0, <1>17 DEF Desk!Complete, DeskTypes, TurnRecords, AskRecords, Asked, Abortable
    <2>6. Desk!DenialHasAReason
      BY <1>0, <1>17 DEF Desk!Complete, DeskTypes, TurnRecords, AskRecords, Abortable,
         Asked, OneLink, CurrentServes, Desk!DenialHasAReason, Desk!Deserted
    <2> QED BY <2>1, <2>2, <2>3, <2>4, <2>5, <2>6 DEF DeskInv
  <1>18. ASSUME NEW t \in Turns, NEW a \in Desk!Asks, NEW kind \in {"permission", "approval"}, Desk!ServerAsks(t, a, kind)
        PROVE  DeskInv' /\ Desk!DenialHasAReason
    <2>1. turn[t] \in TurnRecords(Len(driver)) /\ turn[t].driver # Desk!None /\ ask[a].at = "free"
          /\ turn[t].srv = "calling" /\ UNCHANGED <<link, window, shown, driver, current>>
      BY <1>0, <1>18 DEF Desk!ServerAsks, DeskTypes, Abortable, Desk!windows, Desk!drivers
    <2>2. PICK r \in TurnRecords(Len(driver)) :
            /\ turn' = [turn EXCEPT ![t] = r]
            /\ r.pump = turn[t].pump /\ r.driver = turn[t].driver
            /\ r.listed = turn[t].listed /\ r.aborted = turn[t].aborted
      <3>1. \E srv \in {"running", "asking"} : turn' = [turn EXCEPT ![t] = Runs(turn[t], srv)]
        BY <1>18 DEF Desk!ServerAsks, Desk!Pump, Runs
      <3>2. \A srv \in {"running", "asking"} :
              LET r == Runs(turn[t], srv) IN
              /\ r \in TurnRecords(Len(driver)) /\ r.pump = turn[t].pump
              /\ r.driver = turn[t].driver /\ r.listed = turn[t].listed
              /\ r.aborted = turn[t].aborted
        BY <2>1, TurnRuns
      <3> QED BY <3>1, <3>2
    <2>3. /\ turn' \in [Turns -> TurnRecords(Len(driver))]
          /\ \A x \in Turns :
               /\ turn'[x].pump = turn[x].pump /\ turn'[x].driver = turn[x].driver
               /\ turn'[x].listed = turn[x].listed /\ turn'[x].aborted = turn[x].aborted
               /\ turn'[x].srv # "none" => turn[x].srv # "none"
      BY <2>1, <2>2, TurnChanges
    <2>4. /\ ask' \in [Desk!Asks -> AskRecords(Len(driver))]
          /\ \A b \in Desk!Asks :
               \/ ask'[b] = ask[b]
               \/ ask'[b].at = "sent" /\ ask'[b].turn = t /\ ask'[b].by = "none" /\ ask[b].at = "free"
      <3>1. CASE UNCHANGED ask
        BY <1>0, <3>1 DEF DeskTypes
      <3>2. CASE ask' = [ask EXCEPT ![a] = [Desk!NoAsk EXCEPT !.at = "sent", !.turn = t, !.kind = kind]]
        <4> DEFINE e == [Desk!NoAsk EXCEPT !.at = "sent", !.turn = t, !.kind = kind]
        <4>2. Desk!None \in 0..Len(driver)
          BY <1>0 DEF DeskTypes, Desk!None
        <4>1. /\ e = [at |-> "sent", turn |-> t, kind |-> kind, driver |-> Desk!None, ok |-> FALSE, by |-> "none"]
          <5> HIDE DEF Desk!None
          <5>1. e = [[at |-> "free", turn |-> Desk!None, kind |-> "none", driver |-> Desk!None,
                      ok |-> FALSE, by |-> "none"] EXCEPT !.at = "sent", !.turn = t, !.kind = kind]
            BY DEF Desk!NoAsk
          <5> HIDE DEF e
          <5> QED BY <5>1
        <4>3. e \in AskRecords(Len(driver)) /\ e.at = "sent" /\ e.turn = t /\ e.by = "none"
          <5> HIDE DEF e, Desk!None
          <5> QED BY <1>18, <4>1, <4>2 DEF AskRecords
        <4>4. ask' = [ask EXCEPT ![a] = e]
          BY <3>2
        <4> HIDE DEF e
        <4> QED BY <2>1, <4>3, <4>4, AskChanges
      <3> QED BY <1>18, <3>1, <3>2 DEF Desk!ServerAsks
    <2>5. DeskTypes'
      BY <1>0, <2>1, <2>3, <2>4 DEF DeskTypes
    <2>6. OneLink' /\ CurrentServes'
      BY <1>0, <2>1 DEF OneLink, CurrentServes, Desk!Up
    <2>7. Abortable'
      BY <1>0, <2>1, <2>3 DEF Abortable
    <2>8. Asked'
      BY <1>0, <2>1, <2>3, <2>4 DEF Asked
    <2>9. Desk!DenialHasAReason
      BY <1>0, <2>1, <2>3, <2>4 DEF Desk!DenialHasAReason, Abortable, Asked
    <2> QED BY <2>5, <2>6, <2>7, <2>8, <2>9 DEF DeskInv
  <1>19. ASSUME NEW a \in Desk!Asks, Desk!AskArrives(a) PROVE DeskInv' /\ Desk!DenialHasAReason
    <2> DEFINE mine == Desk!DriversOf(Desk!SessionOf(ask[a].turn))
               last == CHOOSE d \in mine : \A e \in mine : e <= d
    <2>1. /\ ask[a] \in AskRecords(Len(driver)) /\ ask[a].at = "sent" /\ ask[a].turn \in Turns
          /\ turn[ask[a].turn].driver # Desk!None /\ turn[ask[a].turn].driver \in 0..Len(driver)
          /\ ask[a].by = "none"
          /\ UNCHANGED <<link, window, shown, driver, current, turn>>
      BY <1>0, <1>19 DEF Desk!AskArrives, DeskTypes, TurnRecords, Asked, Desk!windows,
         Desk!drivers
    <2>2. last \in 1..Len(driver)
      <3>1. Len(driver) \in Nat /\ DOMAIN driver = 1..Len(driver)
        BY <1>0 DEF DeskTypes
      <3>2. mine \in SUBSET (1..Len(driver)) /\ mine # {}
        BY <2>1, <3>1 DEF Desk!DriversOf, Desk!SessionOf, Desk!None
      <3> HIDE DEF mine
      <3>3. \E d \in mine : \A e \in mine : e <= d
        BY <3>1, <3>2, Greatest
      <3> QED BY <3>2, <3>3
    <2>3. \/ \E at \in {"replied", "lost"} :
               ask' = [ask EXCEPT ![a] = [ask[a] EXCEPT !.at = at, !.ok = TRUE, !.by = "auto"]]
          \/ ask' = [ask EXCEPT ![a] = [ask[a] EXCEPT !.at = "parked", !.driver = last]]
      BY <1>0, <1>19 DEF Desk!AskArrives, Desk!Replied, DeskTypes
    <2>4. PICK e \in AskRecords(Len(driver)) :
            /\ ask' = [ask EXCEPT ![a] = e] /\ e.turn = ask[a].turn /\ e.at # "free"
            /\ e.by # "cancel" /\ e.at # "sent"
            /\ e.at = "parked" => e.by = "none" /\ e.driver # Desk!None
      <3>1. ASSUME NEW at \in {"replied", "lost"},
                   ask' = [ask EXCEPT ![a] = [ask[a] EXCEPT !.at = at, !.ok = TRUE, !.by = "auto"]]
            PROVE  \E e \in AskRecords(Len(driver)) :
                     /\ ask' = [ask EXCEPT ![a] = e] /\ e.turn = ask[a].turn /\ e.at = at
                     /\ e.by = "auto"
        <4> DEFINE e == [ask[a] EXCEPT !.at = at, !.ok = TRUE, !.by = "auto"]
        <4>1. Settled(ask[a], e, at, "auto") /\ at \in AskPlaces
          BY DEF Settled, AskPlaces
        <4>2. ask' = [ask EXCEPT ![a] = e]
          BY <3>1
        <4> HIDE DEF e
        <4>3. e \in AskRecords(Len(driver)) /\ e.turn = ask[a].turn /\ e.at = at /\ e.by = "auto"
          BY <2>1, <4>1, ReplyPlaces, AskMoves
        <4> QED BY <4>2, <4>3
      <3>2. CASE ask' = [ask EXCEPT ![a] = [ask[a] EXCEPT !.at = "parked", !.driver = last]]
        <4> HIDE DEF last
        <4> DEFINE e == [ask[a] EXCEPT !.at = "parked", !.driver = last]
        <4>1. last \in 0..Len(driver) /\ last # Desk!None
          BY <1>0, <2>2 DEF DeskTypes, Desk!None
        <4>2. /\ e \in AskRecords(Len(driver)) /\ e.turn = ask[a].turn /\ e.at = "parked"
              /\ e.by = "none" /\ e.driver = last
          BY <2>1, <4>1 DEF AskRecords
        <4> QED BY <3>2, <4>1, <4>2
      <3> HIDE DEF last
      <3> QED BY <2>3, <3>1, <3>2
    <2>5. ask' \in [Desk!Asks -> AskRecords(Len(driver))] /\ ask'[a] = e
          /\ \A b \in Desk!Asks : b # a => ask'[b] = ask[b]
      BY <2>4, AskChanges
    <2> HIDE DEF last, mine
    <2>6. DeskTypes'
      BY <1>0, <2>1, <2>5 DEF DeskTypes
    <2>7. OneLink' /\ CurrentServes'
      BY <1>0, <2>1 DEF OneLink, CurrentServes, Desk!Up
    <2>8. Abortable'
      BY <1>0, <2>1 DEF Abortable
    <2>9. Asked'
      BY <1>0, <2>1, <2>4, <2>5 DEF Asked
    <2>10. Desk!DenialHasAReason
      BY <1>0, <2>1, <2>4, <2>5 DEF Desk!DenialHasAReason, Abortable, Asked
    <2> QED BY <2>6, <2>7, <2>8, <2>9, <2>10 DEF DeskInv
  <1>20. ASSUME NEW a \in Desk!Asks, Desk!ReplyArrives(a) PROVE DeskInv' /\ Desk!DenialHasAReason
    <2> DEFINE t == ask[a].turn
    <2>1. /\ ask[a] \in AskRecords(Len(driver)) /\ t \in Turns /\ ask[a].at = "replied"
          /\ turn[t] \in TurnRecords(Len(driver)) /\ turn[t].driver # Desk!None
          /\ UNCHANGED <<link, window, shown, driver, current>>
      BY <1>0, <1>20 DEF Desk!ReplyArrives, DeskTypes, Asked, Desk!windows, Desk!drivers
    <2>2. PICK r \in TurnRecords(Len(driver)) :
            /\ turn' = [turn EXCEPT ![t] = r]
            /\ r.pump = turn[t].pump /\ r.driver = turn[t].driver
            /\ r.listed = turn[t].listed /\ r.aborted = turn[t].aborted
      <3>1. turn' = [turn EXCEPT ![t] = Runs(turn[t], "running")]
        BY <1>20 DEF Desk!ReplyArrives, Desk!Pump, Runs
      <3> HIDE DEF t
      <3> DEFINE r == Runs(turn[t], "running")
      <3>2. /\ r \in TurnRecords(Len(driver)) /\ r.pump = turn[t].pump
            /\ r.driver = turn[t].driver /\ r.listed = turn[t].listed
            /\ r.aborted = turn[t].aborted
        BY <2>1, TurnRuns
      <3>3. turn' = [turn EXCEPT ![t] = r]
        BY <3>1
      <3> HIDE DEF r
      <3> QED BY <3>2, <3>3
    <2>3. /\ turn' \in [Turns -> TurnRecords(Len(driver))] /\ turn'[t] = r
          /\ \A x \in Turns : x # t => turn'[x] = turn[x]
      <3> HIDE DEF t
      <3> QED BY <2>1, <2>2, TurnChanges
    <2>4. PICK e \in AskRecords(Len(driver)) :
            ask' = [ask EXCEPT ![a] = e] /\ e.turn = t /\ e.at = "decided" /\ e.by = ask[a].by
      <3> DEFINE e == [ask[a] EXCEPT !.at = "decided"]
      <3>1. ask' = [ask EXCEPT ![a] = e]
        BY <1>0, <1>20 DEF Desk!ReplyArrives, DeskTypes
      <3>2. Goes(ask[a], e, "decided")
        BY DEF Goes
      <3> HIDE DEF e
      <3>3. /\ e \in AskRecords(Len(driver)) /\ e.turn = t /\ e.at = "decided"
            /\ e.by = ask[a].by
        <4>1. ask[a].turn = t
          OBVIOUS
        <4> HIDE DEF t
        <4> QED BY <2>1, <3>2, <4>1, ReplyPlaces, AskGoes
      <3> QED BY <3>1, <3>3
    <2>5. ask' \in [Desk!Asks -> AskRecords(Len(driver))] /\ ask'[a] = e
          /\ \A b \in Desk!Asks : b # a => ask'[b] = ask[b]
      BY <2>4, AskChanges
    <2> HIDE DEF t
    <2>6. DeskTypes'
      BY <1>0, <2>1, <2>3, <2>5 DEF DeskTypes
    <2>7. OneLink' /\ CurrentServes'
      BY <1>0, <2>1 DEF OneLink, CurrentServes, Desk!Up
    <2>8. Abortable'
      BY <1>0, <2>1, <2>2, <2>3 DEF Abortable
    <2>9. Asked'
      BY <1>0, <2>1, <2>2, <2>3, <2>4, <2>5 DEF Asked
    <2>10. Desk!DenialHasAReason
      BY <1>0, <2>1, <2>2, <2>3, <2>4, <2>5 DEF Desk!DenialHasAReason, Abortable, Asked
    <2> QED BY <2>6, <2>7, <2>8, <2>9, <2>10 DEF DeskInv
  <1>21. ASSUME NEW a \in Desk!Asks, NEW ok \in BOOLEAN, Desk!UserAnswers(a, ok) PROVE DeskInv' /\ Desk!DenialHasAReason
    <2>1. /\ ask[a] \in AskRecords(Len(driver)) /\ ask[a].at = "parked"
          /\ UNCHANGED <<link, window, shown, driver, current, turn>>
      BY <1>0, <1>21 DEF Desk!UserAnswers, DeskTypes, Desk!windows, Desk!drivers
    <2>2. PICK e \in AskRecords(Len(driver)) :
            /\ ask' = [ask EXCEPT ![a] = e] /\ e.turn = ask[a].turn
            /\ e.at \in {"replied", "lost"} /\ e.by = "user"
      <3>1. PICK at \in {"replied", "lost"} :
              ask' = [ask EXCEPT ![a] = [ask[a] EXCEPT !.at = at, !.ok = ok, !.by = "user"]]
        BY <1>21 DEF Desk!UserAnswers, Desk!Replied
      <3> DEFINE e == [ask[a] EXCEPT !.at = at, !.ok = ok, !.by = "user"]
      <3>2. Settled(ask[a], e, at, "user") /\ at \in AskPlaces
        BY DEF Settled, AskPlaces
      <3>3. ask' = [ask EXCEPT ![a] = e]
        BY <3>1
      <3> HIDE DEF e
      <3>4. /\ e \in AskRecords(Len(driver)) /\ e.turn = ask[a].turn /\ e.at = at
            /\ e.by = "user"
        BY <2>1, <3>2, ReplyPlaces, AskMoves
      <3> QED BY <3>3, <3>4
    <2>3. ask' \in [Desk!Asks -> AskRecords(Len(driver))] /\ ask'[a] = e
          /\ \A b \in Desk!Asks : b # a => ask'[b] = ask[b]
      BY <2>2, AskChanges
    <2>4. DeskTypes'
      BY <1>0, <2>1, <2>3 DEF DeskTypes
    <2>5. OneLink' /\ CurrentServes' /\ Abortable'
      BY <1>0, <2>1 DEF OneLink, CurrentServes, Desk!Up, Abortable
    <2>6. Asked'
      BY <1>0, <2>1, <2>2, <2>3 DEF Asked
    <2>7. Desk!DenialHasAReason
      BY <1>0, <2>1, <2>2, <2>3 DEF Desk!DenialHasAReason, Abortable, Asked
    <2> QED BY <2>4, <2>5, <2>6, <2>7 DEF DeskInv
  <1>22. CASE UNCHANGED Desk!vars
    <2>1. DeskTypes'
      BY <1>0, <1>22 DEF Desk!vars, DeskTypes, TurnRecords, AskRecords
    <2>2. OneLink'
      BY <1>0, <1>22 DEF Desk!vars, DeskTypes, OneLink
    <2>3. CurrentServes'
      BY <1>0, <1>22 DEF Desk!vars, DeskTypes, OneLink, CurrentServes
    <2>4. Abortable'
      BY <1>0, <1>22 DEF Desk!vars, DeskTypes, TurnRecords, AskRecords, Abortable,
         CurrentServes, OneLink
    <2>5. Asked'
      BY <1>0, <1>22 DEF Desk!vars, DeskTypes, TurnRecords, AskRecords, Asked, Abortable
    <2>6. Desk!DenialHasAReason
      BY <1>0, <1>22 DEF Desk!vars, DeskTypes, TurnRecords, AskRecords, Abortable, Asked,
         OneLink, CurrentServes, Desk!DenialHasAReason, Desk!Deserted
    <2> QED BY <2>1, <2>2, <2>3, <2>4, <2>5, <2>6 DEF DeskInv
  <1> QED BY <1>1, <1>2, <1>3, <1>4, <1>5, <1>6, <1>7, <1>8, <1>9, <1>10, <1>11, <1>12,
             <1>13, <1>14, <1>15, <1>16, <1>17, <1>18, <1>19, <1>20, <1>21, <1>22
             DEF Desk!Next

\* It begins there.
LEMMA DeskBegins ==
  ASSUME Desk!Init
  PROVE  DeskInv
  <1> USE DEF Desk!Init, Desk!None
  <1>1. DeskTypes
    <2>1. driver \in Seq([sess : Desk!Sessions, auto : BOOLEAN, win : Nat \ {Desk!None}])
      OBVIOUS
    <2>2. turn \in [Turns -> TurnRecords(0)]
      BY DEF Desk!NoTurn, TurnRecords
    <2>3. ask \in [Desk!Asks -> AskRecords(0)]
      BY DEF Desk!NoAsk, AskRecords
    <2>4. Len(driver) = 0
      OBVIOUS
    <2> QED BY <2>1, <2>2, <2>3, <2>4 DEF DeskTypes
  <1>2. OneLink /\ CurrentServes
    BY DEF OneLink, CurrentServes, Desk!Up
  <1>3. Abortable /\ Asked
    BY DEF Abortable, Asked, Pumping, Desk!NoTurn, Desk!NoAsk
  <1> QED BY <1>1, <1>2, <1>3 DEF DeskInv

\* A step of a behaviour of this component is one of its own.
LEMMA DeskSteps ==
  ASSUME [SNext]_allVars, part' = "desk"
  PROVE  part = "desk" /\ [Desk!Next]_Desk!vars
  BY DEF SNext, CronStep, HookStep, PluginStep, CoreStep, ServerStep, DeskStep, allVars,
         deskVars, Desk!vars, Desk!windows, Desk!drivers

\* The invariant holds where the component runs.
LEMMA DesksInv == SSpec => [](part = "desk" => DeskInv)
  <1>1. SInit => (part = "desk" => DeskInv)
    BY DeskBegins DEF SInit
  <1>2. (part = "desk" => DeskInv) /\ [SNext]_allVars => (part = "desk" => DeskInv)'
    BY DeskSteps, DeskInductive
  <1> QED BY <1>1, <1>2, PTL DEF SSpec

\* A question on the screen is cancelled, or a turn aborted by other than the
\* user, only because the session or the window went away; and a turn that goes
\* on can be aborted by the user.
THEOREM DenialCorrect == SSpec => DenialHasAReason
  <1>1. (part = "desk" => DeskInv) /\ [SNext]_allVars
          => [part = "desk" => Desk!DenialHasAReason]_allVars
    BY DeskInductive DEF SNext, CronStep, HookStep, PluginStep, CoreStep, ServerStep,
       DeskStep
  <1> QED BY <1>1, DesksInv, PTL DEF SSpec, DenialHasAReason
=============================================================================
