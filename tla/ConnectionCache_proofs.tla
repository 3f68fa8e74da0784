----------------------- MODULE ConnectionCache_proofs -----------------------
(***************************************************************************)
(* Proofs about ConnectionCache for any number of threads, hosts and       *)
(* handles, any size of the cache and any time: its invariants, and that   *)
(* it implements ConnectionPool.                                           *)
(*                                                                         *)
(* The inductive invariant CInv says who holds the mutex where (Locks,     *)
(* Phases), what a thread has in its hands (Hands), that the list of nodes *)
(* is in the order of last use with each host and connection once          *)
(* (Ordered), and what must have happened before a step can be undefined   *)
(* (Quiet).                                                                *)
(***************************************************************************)
EXTENDS ConnectionCache, TLAPS, SequenceTheorems, FiniteSetTheorems

Locks ==
    /\ \A u \in Users : owner = u => pc[u] \in {"get", "exchange", "put", "unlock"}
    /\ (owner = App) <=> (appPc \in {"clear", "unlock", "init", "initUnlock"})
    /\ mutex # "live" => owner = None \/ fault

Phases ==
    /\ cache # None => mutex = "live" /\ appPc \in {"idle", "clearLock", "clear", "initUnlock"}
    /\ appPc \in {"clearLock", "clear", "initUnlock"} => cache # None
    /\ appPc = "idle" /\ cache = None => mutex = "none"
    /\ appPc \in {"unlock", "delete", "initLock", "init"} => mutex = "live"
    /\ appPc = "forget" => mutex = "freed"

\* The connection of u is not in the cache, and nobody else's node is the host's.
Outside(u) ==
    /\ conn[u] \notin Cached
    /\ owner = u /\ cache # None => \A i \in DOMAIN cache : cache[i].host # dest[u]

\* The connection of u is the last node's.
Inside(u) ==
    /\ owner = u /\ cache # None /\ Len(cache) > 0
    /\ conn[u] = cache[Len(cache)].conn /\ dest[u] = cache[Len(cache)].host

Hands ==
    \A u \in Users :
       /\ conn[u] # None <=> pc[u] \in {"exchange", "put"}
       /\ pc[u] = "put" => new[u]
       /\ pc[u] # "idle" => dest[u] \in Hosts
       /\ conn[u] # None => IF new[u] THEN Outside(u) ELSE Inside(u)

Orderly(s) ==
    \A i, j \in DOMAIN s :
       /\ i <= j => s[i].stamp <= s[j].stamp
       /\ i # j => s[i].conn # s[j].conn /\ s[i].host # s[j].host

Ordered ==
    cache # None =>
       /\ Orderly(cache) /\ Len(cache) <= Size
       /\ \A i \in DOMAIN cache : cache[i].stamp <= now

Quiet ==
    ~raced =>
       /\ appPc # "idle" => \A u \in Users : pc[u] = "idle"
       /\ \A u \in Users :
             /\ pc[u] = "acquire" => mutex = "live"
             /\ pc[u] \in {"get", "exchange", "put", "unlock"} => mutex = "none" \/ owner = u

CInv == CacheTypeOK /\ Locks /\ Phases /\ Hands /\ Ordered /\ HandlesOwned /\ Quiet /\ SafeDelete

ConnsOf(s) == {s[i].conn : i \in DOMAIN s}

-----------------------------------------------------------------------------
(* Lists.                                                                  *)

\* A list is never NULL.
LEMMA ListNotNone == ASSUME NEW s \in Seq(Nodes) PROVE s # None
BY CacheAssumption DEF Nodes

\* The empty list is a list.
LEMMA EmptyList ==
    <<>> \in Seq(Nodes) /\ <<>> # None /\ DOMAIN <<>> = {} /\ Len(<<>>) = 0
<1>1. <<>> \in Seq(Nodes) /\ Len(<<>>) = 0
  BY EmptySeq
<1>2. DOMAIN <<>> = 1 .. 0
  BY <1>1, LenProperties
<1>3. <<>> # None
  BY <1>1, ListNotNone
<1>4. 1 .. 0 = {}
  OBVIOUS
<1> QED BY <1>1, <1>2, <1>3, <1>4

\* What removing a node leaves.
LEMMA WithoutFact ==
    ASSUME NEW s \in Seq(Nodes), NEW i \in DOMAIN s
    PROVE  /\ Without(s, i) \in Seq(Nodes)
           /\ Len(Without(s, i)) = Len(s) - 1
           /\ DOMAIN Without(s, i) = 1 .. Len(s) - 1
           /\ \A j \in 1 .. Len(s) - 1 :
                 Without(s, i)[j] = s[IF j < i THEN j ELSE j + 1]
<1> DEFINE n == Len(s) - 1
<1>1. Len(s) \in Nat /\ i \in 1 .. Len(s) /\ DOMAIN s = 1 .. Len(s)
  BY LenProperties
<1>2. n \in Nat
  BY <1>1
<1>3. \A j \in 1 .. n : Without(s, i)[j] = s[IF j < i THEN j ELSE j + 1]
  BY DEF Without
<1>4. \A j \in 1 .. n : j \in DOMAIN s /\ j + 1 \in DOMAIN s
  BY <1>1
<1>5. \A j \in 1 .. n : Without(s, i)[j] \in Nodes
  BY <1>3, <1>4, ElementOfSeq
<1>6. Without(s, i) \in [1 .. n -> Nodes]
  BY <1>5 DEF Without
<1>7. Without(s, i) \in Seq(Nodes)
  BY <1>2, <1>6, SeqDef
<1>8. DOMAIN Without(s, i) = 1 .. n /\ Len(Without(s, i)) = n
  BY <1>2, <1>6, <1>7, LenProperties
<1> QED BY <1>3, <1>7, <1>8

\* Removing a node keeps the order and takes away one host and one connection.
LEMMA WithoutOrderly ==
    ASSUME NEW s \in Seq(Nodes), Orderly(s), NEW i \in DOMAIN s
    PROVE  /\ Orderly(Without(s, i))
           /\ ConnsOf(Without(s, i)) = ConnsOf(s) \ {s[i].conn}
           /\ \A j \in DOMAIN Without(s, i) :
                 /\ \E k \in DOMAIN s : k # i /\ Without(s, i)[j] = s[k]
                 /\ Without(s, i)[j].host # s[i].host
<1> DEFINE w == Without(s, i)
<1>1. Len(s) \in Nat /\ i \in 1 .. Len(s) /\ DOMAIN s = 1 .. Len(s)
  BY LenProperties
<1>2. /\ DOMAIN w = 1 .. Len(s) - 1
      /\ \A j \in 1 .. Len(s) - 1 : w[j] = s[IF j < i THEN j ELSE j + 1]
  BY WithoutFact
<1>3. \A j \in DOMAIN w : \E k \in DOMAIN s : k # i /\ w[j] = s[k]
  BY <1>1, <1>2
<1>4. \A j \in DOMAIN w : w[j].host # s[i].host /\ w[j].conn # s[i].conn
  BY <1>3 DEF Orderly
<1>5. \A k \in DOMAIN s : k # i => \E j \in DOMAIN w : w[j] = s[k]
  <2> SUFFICES ASSUME NEW k \in DOMAIN s, k # i
               PROVE  \E j \in DOMAIN w : w[j] = s[k]
    OBVIOUS
  <2>1. CASE k < i
    BY <1>1, <1>2, <2>1
  <2>2. CASE k > i
    <3>1. k - 1 \in DOMAIN w /\ w[k - 1] = s[k]
      BY <1>1, <1>2, <2>2
    <3> QED BY <3>1
  <2> QED BY <1>1, <2>1, <2>2
<1>6. ConnsOf(w) = ConnsOf(s) \ {s[i].conn}
  BY <1>3, <1>4, <1>5 DEF ConnsOf
<1>7. Orderly(w)
  <2> SUFFICES ASSUME NEW j \in DOMAIN w, NEW k \in DOMAIN w
               PROVE  /\ j <= k => w[j].stamp <= w[k].stamp
                      /\ j # k => w[j].conn # w[k].conn /\ w[j].host # w[k].host
    BY DEF Orderly
  <2> DEFINE a == IF j < i THEN j ELSE j + 1
             b == IF k < i THEN k ELSE k + 1
  <2>1. a \in DOMAIN s /\ b \in DOMAIN s /\ w[j] = s[a] /\ w[k] = s[b]
    BY <1>1, <1>2
  <2>2. (j <= k => a <= b) /\ (j # k => a # b)
    BY <1>1, <1>2
  <2> HIDE DEF a, b
  <2> QED BY <2>1, <2>2 DEF Orderly
<1> QED BY <1>3, <1>4, <1>6, <1>7

\* Appending a new node with the latest stamp keeps the order.
LEMMA AppendOrderly ==
    ASSUME NEW s \in Seq(Nodes), Orderly(s), NEW n \in Nodes,
           \A i \in DOMAIN s :
              s[i].stamp <= n.stamp /\ s[i].conn # n.conn /\ s[i].host # n.host
    PROVE  /\ Append(s, n) \in Seq(Nodes) /\ Orderly(Append(s, n))
           /\ Len(Append(s, n)) = Len(s) + 1
           /\ DOMAIN Append(s, n) = 1 .. Len(s) + 1
           /\ \A i \in DOMAIN s : Append(s, n)[i] = s[i]
           /\ Append(s, n)[Len(s) + 1] = n
           /\ ConnsOf(Append(s, n)) = ConnsOf(s) \cup {n.conn}
<1> DEFINE a == Append(s, n)
<1>1. Len(s) \in Nat /\ DOMAIN s = 1 .. Len(s)
  BY LenProperties
<1>2. /\ a \in Seq(Nodes) /\ Len(a) = Len(s) + 1
      /\ \A i \in 1 .. Len(s) : a[i] = s[i]
      /\ a[Len(s) + 1] = n
  BY AppendProperties
<1>3. DOMAIN a = 1 .. Len(s) + 1
  BY <1>2, LenProperties
<1>4. \A i \in DOMAIN a : i \in DOMAIN s \/ i = Len(s) + 1
  BY <1>1, <1>3
<1>5. ConnsOf(a) = ConnsOf(s) \cup {n.conn}
  <2>1. Len(s) + 1 \in DOMAIN a /\ DOMAIN s \subseteq DOMAIN a
    BY <1>1, <1>3
  <2> QED BY <1>1, <1>2, <1>4, <2>1 DEF ConnsOf
<1>6. Orderly(a)
  <2> SUFFICES ASSUME NEW j \in DOMAIN a, NEW k \in DOMAIN a
               PROVE  /\ j <= k => a[j].stamp <= a[k].stamp
                      /\ j # k => a[j].conn # a[k].conn /\ a[j].host # a[k].host
    BY DEF Orderly
  <2>0. n.stamp \in Nat
    BY DEF Nodes
  <2>1. CASE j \in DOMAIN s /\ k \in DOMAIN s
    BY <1>1, <1>2, <2>1 DEF Orderly
  <2>2. CASE j \in DOMAIN s /\ k = Len(s) + 1
    BY <1>1, <1>2, <2>2
  <2>3. CASE j = Len(s) + 1 /\ k \in DOMAIN s
    BY <1>1, <1>2, <2>3
  <2>4. CASE j = Len(s) + 1 /\ k = Len(s) + 1
    BY <1>1, <1>2, <2>0, <2>4
  <2> QED BY <1>4, <2>1, <2>2, <2>3, <2>4
<1> QED BY <1>1, <1>2, <1>3, <1>5, <1>6

\* Cached is the set of connections of the list.
LEMMA CachedFact ==
    /\ cache = None => Cached = {}
    /\ cache # None => Cached = ConnsOf(cache)
BY DEF Cached, ConnsOf
-----------------------------------------------------------------------------
(* The invariant, action by action.                                        *)

\* A thread begins a post.
LEMMA PostInv ==
    ASSUME CInv, ~fault, NEW u \in Users, NEW h \in Hosts, Post(u, h)
    PROVE  CInv'
<1> USE CacheAssumption DEF CInv
<1>1. CacheTypeOK'
  BY DEF CacheTypeOK, Post, Goto, cacheVars, userVars
<1>2. Locks'
  BY DEF Locks, Phases, CacheTypeOK, Post, Goto, cacheVars, userVars
<1>3. Phases'
  BY DEF Phases, Locks, CacheTypeOK, Post, Goto, cacheVars, userVars
<1>4. Hands'
  BY DEF Hands, Inside, Outside, Cached, Locks, Phases, HandlesOwned, Held, CacheTypeOK, Post, Goto, cacheVars, userVars
<1>5. Ordered'
  BY DEF Ordered, Orderly, CacheTypeOK, Post, Goto, cacheVars, userVars
<1>6. HandlesOwned'
  BY DEF HandlesOwned, Hands, Cached, Held, CacheTypeOK, Post, Goto, cacheVars, userVars
<1>7. Quiet'
  BY DEF Quiet, Locks, Phases, CacheTypeOK, Post, Goto, cacheVars, userVars
<1>8. SafeDelete'
  BY DEF SafeDelete, Quiet, Locks, Phases, CacheTypeOK, Post, Goto, cacheVars, userVars
<1> QED BY <1>1, <1>2, <1>3, <1>4, <1>5, <1>6, <1>7, <1>8

\* A thread tests the pointer of the mutex.
LEMMA LockTestInv ==
    ASSUME CInv, ~fault, NEW u \in Users, LockTest(u)
    PROVE  CInv'
<1> USE CacheAssumption DEF CInv
<1>1. CacheTypeOK'
  BY DEF CacheTypeOK, LockTest, Goto, cacheVars, userVars
<1>2. Locks'
  BY DEF Locks, Phases, CacheTypeOK, LockTest, Goto, cacheVars, userVars
<1>3. Phases'
  BY DEF Phases, Locks, CacheTypeOK, LockTest, Goto, cacheVars, userVars
<1>4. Hands'
  BY DEF Hands, Inside, Outside, Cached, Locks, Phases, HandlesOwned, Held, CacheTypeOK, LockTest, Goto, cacheVars, userVars
<1>5. Ordered'
  BY DEF Ordered, Orderly, CacheTypeOK, LockTest, Goto, cacheVars, userVars
<1>6. HandlesOwned'
  BY DEF HandlesOwned, Hands, Cached, Held, CacheTypeOK, LockTest, Goto, cacheVars, userVars
<1>7. Quiet'
  BY DEF Quiet, Locks, Phases, CacheTypeOK, LockTest, Goto, cacheVars, userVars
<1>8. SafeDelete'
  BY DEF SafeDelete, Quiet, Locks, Phases, CacheTypeOK, LockTest, Goto, cacheVars, userVars
<1> QED BY <1>1, <1>2, <1>3, <1>4, <1>5, <1>6, <1>7, <1>8

\* A thread gets the mutex, or calls lock on what is none.
LEMMA AcquireInv ==
    ASSUME CInv, ~fault, NEW u \in Users, Acquire(u)
    PROVE  CInv'
<1> USE CacheAssumption DEF CInv
<1>1. CacheTypeOK'
  BY DEF CacheTypeOK, Acquire, Goto, cacheVars, userVars
<1>2. Locks'
  BY DEF Locks, Phases, CacheTypeOK, Acquire, Goto, cacheVars, userVars
<1>3. Phases'
  BY DEF Phases, Locks, CacheTypeOK, Acquire, Goto, cacheVars, userVars
<1>4. Hands'
  BY DEF Hands, Inside, Outside, Cached, Locks, Phases, HandlesOwned, Held, CacheTypeOK, Acquire, Goto, cacheVars, userVars
<1>5. Ordered'
  BY DEF Ordered, Orderly, CacheTypeOK, Acquire, Goto, cacheVars, userVars
<1>6. HandlesOwned'
  BY DEF HandlesOwned, Hands, Cached, Held, CacheTypeOK, Acquire, Goto, cacheVars, userVars
<1>7. Quiet'
  BY DEF Quiet, Locks, Phases, CacheTypeOK, Acquire, Goto, cacheVars, userVars
<1>8. SafeDelete'
  BY DEF SafeDelete, Quiet, Locks, Phases, CacheTypeOK, Acquire, Goto, cacheVars, userVars
<1> QED BY <1>1, <1>2, <1>3, <1>4, <1>5, <1>6, <1>7, <1>8

\* A thread touches the cache without the mutex.
LEMMA UnguardedInv ==
    ASSUME CInv, ~fault, NEW u \in Users, Unguarded(u)
    PROVE  CInv'
<1> USE CacheAssumption DEF CInv
<1>1. CacheTypeOK'
  BY DEF CacheTypeOK, Unguarded, Goto, cacheVars, userVars
<1>2. Locks'
  BY DEF Locks, Phases, CacheTypeOK, Unguarded, Goto, cacheVars, userVars
<1>3. Phases'
  BY DEF Phases, Locks, CacheTypeOK, Unguarded, Goto, cacheVars, userVars
<1>4. Hands'
  BY DEF Hands, Inside, Outside, Cached, Locks, Phases, HandlesOwned, Held, CacheTypeOK, Unguarded, Goto, cacheVars, userVars
<1>5. Ordered'
  BY DEF Ordered, Orderly, CacheTypeOK, Unguarded, Goto, cacheVars, userVars
<1>6. HandlesOwned'
  BY DEF HandlesOwned, Hands, Cached, Held, CacheTypeOK, Unguarded, Goto, cacheVars, userVars
<1>7. Quiet'
  BY DEF Quiet, Locks, Phases, CacheTypeOK, Unguarded, Goto, cacheVars, userVars
<1>8. SafeDelete'
  BY DEF SafeDelete, Quiet, Locks, Phases, CacheTypeOK, Unguarded, Goto, cacheVars, userVars
<1> QED BY <1>1, <1>2, <1>3, <1>4, <1>5, <1>6, <1>7, <1>8

\* A thread opens a connection.
LEMMA OpenInv ==
    ASSUME CInv, ~fault, NEW u \in Users, Open(u)
    PROVE  CInv'
<1> USE CacheAssumption DEF CInv
<1>1. CacheTypeOK'
  BY DEF CacheTypeOK, Open, Goto, GetsNone, cacheVars, userVars
<1>2. Locks'
  BY DEF Locks, Phases, CacheTypeOK, Open, Goto, GetsNone, cacheVars, userVars
<1>3. Phases'
  BY DEF Phases, Locks, CacheTypeOK, Open, Goto, GetsNone, cacheVars, userVars
<1>4. Hands'
  BY DEF Hands, Inside, Outside, Cached, Locks, Phases, HandlesOwned, Held, CacheTypeOK, Open, Goto, GetsNone, cacheVars, userVars
<1>5. Ordered'
  BY DEF Ordered, Orderly, CacheTypeOK, Open, Goto, GetsNone, cacheVars, userVars
<1>6. HandlesOwned'
  BY DEF HandlesOwned, Hands, Cached, Held, CacheTypeOK, Open, Goto, GetsNone, cacheVars, userVars
<1>7. Quiet'
  BY DEF Quiet, Locks, Phases, CacheTypeOK, Open, Goto, GetsNone, cacheVars, userVars
<1>8. SafeDelete'
  BY DEF SafeDelete, Quiet, Locks, Phases, CacheTypeOK, Open, Goto, GetsNone, cacheVars, userVars
<1> QED BY <1>1, <1>2, <1>3, <1>4, <1>5, <1>6, <1>7, <1>8

\* A thread cannot open a connection.
LEMMA OpenFailsInv ==
    ASSUME CInv, ~fault, NEW u \in Users, OpenFails(u)
    PROVE  CInv'
<1> USE CacheAssumption DEF CInv
<1>1. CacheTypeOK'
  BY DEF CacheTypeOK, OpenFails, Goto, GetsNone, cacheVars, userVars
<1>2. Locks'
  BY DEF Locks, Phases, CacheTypeOK, OpenFails, Goto, GetsNone, cacheVars, userVars
<1>3. Phases'
  BY DEF Phases, Locks, CacheTypeOK, OpenFails, Goto, GetsNone, cacheVars, userVars
<1>4. Hands'
  BY DEF Hands, Inside, Outside, Cached, Locks, Phases, HandlesOwned, Held, CacheTypeOK, OpenFails, Goto, GetsNone, cacheVars, userVars
<1>5. Ordered'
  BY DEF Ordered, Orderly, CacheTypeOK, OpenFails, Goto, GetsNone, cacheVars, userVars
<1>6. HandlesOwned'
  BY DEF HandlesOwned, Hands, Cached, Held, CacheTypeOK, OpenFails, Goto, GetsNone, cacheVars, userVars
<1>7. Quiet'
  BY DEF Quiet, Locks, Phases, CacheTypeOK, OpenFails, Goto, GetsNone, cacheVars, userVars
<1>8. SafeDelete'
  BY DEF SafeDelete, Quiet, Locks, Phases, CacheTypeOK, OpenFails, Goto, GetsNone, cacheVars, userVars
<1> QED BY <1>1, <1>2, <1>3, <1>4, <1>5, <1>6, <1>7, <1>8

\* An exchange ends.
LEMMA ExchangeInv ==
    ASSUME CInv, ~fault, NEW u \in Users, Exchange(u)
    PROVE  CInv'
<1> USE CacheAssumption DEF CInv
<1>1. CacheTypeOK'
  BY DEF CacheTypeOK, Exchange, Goto, cacheVars, userVars
<1>2. Locks'
  BY DEF Locks, Phases, CacheTypeOK, Exchange, Goto, cacheVars, userVars
<1>3. Phases'
  BY DEF Phases, Locks, CacheTypeOK, Exchange, Goto, cacheVars, userVars
<1>4. Hands'
  BY DEF Hands, Inside, Outside, Cached, Locks, Phases, HandlesOwned, Held, CacheTypeOK, Exchange, Goto, cacheVars, userVars
<1>5. Ordered'
  BY DEF Ordered, Orderly, CacheTypeOK, Exchange, Goto, cacheVars, userVars
<1>6. HandlesOwned'
  BY DEF HandlesOwned, Hands, Cached, Held, CacheTypeOK, Exchange, Goto, cacheVars, userVars
<1>7. Quiet'
  BY DEF Quiet, Locks, Phases, CacheTypeOK, Exchange, Goto, cacheVars, userVars
<1>8. SafeDelete'
  BY DEF SafeDelete, Quiet, Locks, Phases, CacheTypeOK, Exchange, Goto, cacheVars, userVars
<1> QED BY <1>1, <1>2, <1>3, <1>4, <1>5, <1>6, <1>7, <1>8

\* A thread gives the mutex back.
LEMMA UnlockInv ==
    ASSUME CInv, ~fault, NEW u \in Users, Unlock(u)
    PROVE  CInv'
<1> USE CacheAssumption DEF CInv
<1>1. CacheTypeOK'
  BY DEF CacheTypeOK, Unlock, Goto, cacheVars, userVars
<1>2. Locks'
  BY DEF Locks, Phases, CacheTypeOK, Unlock, Goto, cacheVars, userVars
<1>3. Phases'
  BY DEF Phases, Locks, CacheTypeOK, Unlock, Goto, cacheVars, userVars
<1>4. Hands'
  BY DEF Hands, Inside, Outside, Cached, Locks, Phases, HandlesOwned, Held, CacheTypeOK, Unlock, Goto, cacheVars, userVars
<1>5. Ordered'
  BY DEF Ordered, Orderly, CacheTypeOK, Unlock, Goto, cacheVars, userVars
<1>6. HandlesOwned'
  BY DEF HandlesOwned, Hands, Cached, Held, CacheTypeOK, Unlock, Goto, cacheVars, userVars
<1>7. Quiet'
  BY DEF Quiet, Locks, Phases, CacheTypeOK, Unlock, Goto, cacheVars, userVars
<1>8. SafeDelete'
  BY DEF SafeDelete, Quiet, Locks, Phases, CacheTypeOK, Unlock, Goto, cacheVars, userVars
<1> QED BY <1>1, <1>2, <1>3, <1>4, <1>5, <1>6, <1>7, <1>8

\* The application begins to clear the cache.
LEMMA ClearStartInv ==
    ASSUME CInv, ~fault, ClearStart
    PROVE  CInv'
<1> USE CacheAssumption DEF CInv
<1>1. CacheTypeOK'
  BY DEF CacheTypeOK, ClearStart, AppGoto, Overlaps, cacheVars, userVars
<1>2. Locks'
  BY DEF Locks, Phases, CacheTypeOK, ClearStart, AppGoto, Overlaps, cacheVars, userVars
<1>3. Phases'
  BY DEF Phases, Locks, CacheTypeOK, ClearStart, AppGoto, Overlaps, cacheVars, userVars
<1>4. Hands'
  BY DEF Hands, Inside, Outside, Cached, Locks, Phases, HandlesOwned, Held, CacheTypeOK, ClearStart, AppGoto, Overlaps, cacheVars, userVars
<1>5. Ordered'
  BY DEF Ordered, Orderly, CacheTypeOK, ClearStart, AppGoto, Overlaps, cacheVars, userVars
<1>6. HandlesOwned'
  BY DEF HandlesOwned, Hands, Cached, Held, CacheTypeOK, ClearStart, AppGoto, Overlaps, cacheVars, userVars
<1>7. Quiet'
  BY DEF Quiet, Locks, Phases, CacheTypeOK, ClearStart, AppGoto, Overlaps, cacheVars, userVars
<1>8. SafeDelete'
  BY DEF SafeDelete, Quiet, Locks, Phases, CacheTypeOK, ClearStart, AppGoto, Overlaps, cacheVars, userVars
<1> QED BY <1>1, <1>2, <1>3, <1>4, <1>5, <1>6, <1>7, <1>8

\* The application has the mutex to clear the cache.
LEMMA ClearLockInv ==
    ASSUME CInv, ~fault, ClearLock
    PROVE  CInv'
<1> USE CacheAssumption DEF CInv
<1>1. CacheTypeOK'
  BY DEF CacheTypeOK, ClearLock, AppGoto, cacheVars, userVars
<1>2. Locks'
  BY DEF Locks, Phases, CacheTypeOK, ClearLock, AppGoto, cacheVars, userVars
<1>3. Phases'
  BY DEF Phases, Locks, CacheTypeOK, ClearLock, AppGoto, cacheVars, userVars
<1>4. Hands'
  BY DEF Hands, Inside, Outside, Cached, Locks, Phases, HandlesOwned, Held, CacheTypeOK, ClearLock, AppGoto, cacheVars, userVars
<1>5. Ordered'
  BY DEF Ordered, Orderly, CacheTypeOK, ClearLock, AppGoto, cacheVars, userVars
<1>6. HandlesOwned'
  BY DEF HandlesOwned, Hands, Cached, Held, CacheTypeOK, ClearLock, AppGoto, cacheVars, userVars
<1>7. Quiet'
  BY DEF Quiet, Locks, Phases, CacheTypeOK, ClearLock, AppGoto, cacheVars, userVars
<1>8. SafeDelete'
  BY DEF SafeDelete, Quiet, Locks, Phases, CacheTypeOK, ClearLock, AppGoto, cacheVars, userVars
<1> QED BY <1>1, <1>2, <1>3, <1>4, <1>5, <1>6, <1>7, <1>8

\* The application gives the mutex back.
LEMMA ClearUnlockInv ==
    ASSUME CInv, ~fault, ClearUnlock
    PROVE  CInv'
<1> USE CacheAssumption DEF CInv
<1>1. CacheTypeOK'
  BY DEF CacheTypeOK, ClearUnlock, AppGoto, cacheVars, userVars
<1>2. Locks'
  BY DEF Locks, Phases, CacheTypeOK, ClearUnlock, AppGoto, cacheVars, userVars
<1>3. Phases'
  BY DEF Phases, Locks, CacheTypeOK, ClearUnlock, AppGoto, cacheVars, userVars
<1>4. Hands'
  BY DEF Hands, Inside, Outside, Cached, Locks, Phases, HandlesOwned, Held, CacheTypeOK, ClearUnlock, AppGoto, cacheVars, userVars
<1>5. Ordered'
  BY DEF Ordered, Orderly, CacheTypeOK, ClearUnlock, AppGoto, cacheVars, userVars
<1>6. HandlesOwned'
  BY DEF HandlesOwned, Hands, Cached, Held, CacheTypeOK, ClearUnlock, AppGoto, cacheVars, userVars
<1>7. Quiet'
  BY DEF Quiet, Locks, Phases, CacheTypeOK, ClearUnlock, AppGoto, cacheVars, userVars
<1>8. SafeDelete'
  BY DEF SafeDelete, Quiet, Locks, Phases, CacheTypeOK, ClearUnlock, AppGoto, cacheVars, userVars
<1> QED BY <1>1, <1>2, <1>3, <1>4, <1>5, <1>6, <1>7, <1>8

\* The application deletes the mutex.
LEMMA DeleteMutexInv ==
    ASSUME CInv, ~fault, DeleteMutex
    PROVE  CInv'
<1> USE CacheAssumption DEF CInv
<1>1. CacheTypeOK'
  BY DEF CacheTypeOK, DeleteMutex, AppGoto, cacheVars, userVars
<1>2. Locks'
  BY DEF Locks, Phases, CacheTypeOK, DeleteMutex, AppGoto, cacheVars, userVars
<1>3. Phases'
  BY DEF Phases, Locks, CacheTypeOK, DeleteMutex, AppGoto, cacheVars, userVars
<1>4. Hands'
  BY DEF Hands, Inside, Outside, Cached, Locks, Phases, HandlesOwned, Held, CacheTypeOK, DeleteMutex, AppGoto, cacheVars, userVars
<1>5. Ordered'
  BY DEF Ordered, Orderly, CacheTypeOK, DeleteMutex, AppGoto, cacheVars, userVars
<1>6. HandlesOwned'
  BY DEF HandlesOwned, Hands, Cached, Held, CacheTypeOK, DeleteMutex, AppGoto, cacheVars, userVars
<1>7. Quiet'
  BY DEF Quiet, Locks, Phases, CacheTypeOK, DeleteMutex, AppGoto, cacheVars, userVars
<1>8. SafeDelete'
  BY DEF SafeDelete, Quiet, Locks, Phases, CacheTypeOK, DeleteMutex, AppGoto, cacheVars, userVars
<1> QED BY <1>1, <1>2, <1>3, <1>4, <1>5, <1>6, <1>7, <1>8

\* The application clears the pointer of the mutex.
LEMMA ForgetInv ==
    ASSUME CInv, ~fault, Forget
    PROVE  CInv'
<1> USE CacheAssumption DEF CInv
<1>1. CacheTypeOK'
  BY DEF CacheTypeOK, Forget, AppGoto, cacheVars, userVars
<1>2. Locks'
  BY DEF Locks, Phases, CacheTypeOK, Forget, AppGoto, cacheVars, userVars
<1>3. Phases'
  BY DEF Phases, Locks, CacheTypeOK, Forget, AppGoto, cacheVars, userVars
<1>4. Hands'
  BY DEF Hands, Inside, Outside, Cached, Locks, Phases, HandlesOwned, Held, CacheTypeOK, Forget, AppGoto, cacheVars, userVars
<1>5. Ordered'
  BY DEF Ordered, Orderly, CacheTypeOK, Forget, AppGoto, cacheVars, userVars
<1>6. HandlesOwned'
  BY DEF HandlesOwned, Hands, Cached, Held, CacheTypeOK, Forget, AppGoto, cacheVars, userVars
<1>7. Quiet'
  BY DEF Quiet, Locks, Phases, CacheTypeOK, Forget, AppGoto, cacheVars, userVars
<1>8. SafeDelete'
  BY DEF SafeDelete, Quiet, Locks, Phases, CacheTypeOK, Forget, AppGoto, cacheVars, userVars
<1> QED BY <1>1, <1>2, <1>3, <1>4, <1>5, <1>6, <1>7, <1>8

\* The application creates a mutex.
LEMMA InitMutexInv ==
    ASSUME CInv, ~fault, InitMutex
    PROVE  CInv'
<1> USE CacheAssumption DEF CInv
<1>1. CacheTypeOK'
  BY DEF CacheTypeOK, InitMutex, AppGoto, Overlaps, cacheVars, userVars
<1>2. Locks'
  BY DEF Locks, Phases, CacheTypeOK, InitMutex, AppGoto, Overlaps, cacheVars, userVars
<1>3. Phases'
  BY DEF Phases, Locks, CacheTypeOK, InitMutex, AppGoto, Overlaps, cacheVars, userVars
<1>4. Hands'
  BY DEF Hands, Inside, Outside, Cached, Locks, Phases, HandlesOwned, Held, CacheTypeOK, InitMutex, AppGoto, Overlaps, cacheVars, userVars
<1>5. Ordered'
  BY DEF Ordered, Orderly, CacheTypeOK, InitMutex, AppGoto, Overlaps, cacheVars, userVars
<1>6. HandlesOwned'
  BY DEF HandlesOwned, Hands, Cached, Held, CacheTypeOK, InitMutex, AppGoto, Overlaps, cacheVars, userVars
<1>7. Quiet'
  BY DEF Quiet, Locks, Phases, CacheTypeOK, InitMutex, AppGoto, Overlaps, cacheVars, userVars
<1>8. SafeDelete'
  BY DEF SafeDelete, Quiet, Locks, Phases, CacheTypeOK, InitMutex, AppGoto, Overlaps, cacheVars, userVars
<1> QED BY <1>1, <1>2, <1>3, <1>4, <1>5, <1>6, <1>7, <1>8

\* The application has the mutex to create the cache.
LEMMA InitLockInv ==
    ASSUME CInv, ~fault, InitLock
    PROVE  CInv'
<1> USE CacheAssumption DEF CInv
<1>1. CacheTypeOK'
  BY DEF CacheTypeOK, InitLock, AppGoto, cacheVars, userVars
<1>2. Locks'
  BY DEF Locks, Phases, CacheTypeOK, InitLock, AppGoto, cacheVars, userVars
<1>3. Phases'
  BY DEF Phases, Locks, CacheTypeOK, InitLock, AppGoto, cacheVars, userVars
<1>4. Hands'
  BY DEF Hands, Inside, Outside, Cached, Locks, Phases, HandlesOwned, Held, CacheTypeOK, InitLock, AppGoto, cacheVars, userVars
<1>5. Ordered'
  BY DEF Ordered, Orderly, CacheTypeOK, InitLock, AppGoto, cacheVars, userVars
<1>6. HandlesOwned'
  BY DEF HandlesOwned, Hands, Cached, Held, CacheTypeOK, InitLock, AppGoto, cacheVars, userVars
<1>7. Quiet'
  BY DEF Quiet, Locks, Phases, CacheTypeOK, InitLock, AppGoto, cacheVars, userVars
<1>8. SafeDelete'
  BY DEF SafeDelete, Quiet, Locks, Phases, CacheTypeOK, InitLock, AppGoto, cacheVars, userVars
<1> QED BY <1>1, <1>2, <1>3, <1>4, <1>5, <1>6, <1>7, <1>8

\* The application gives the mutex of a new cache back.
LEMMA InitUnlockInv ==
    ASSUME CInv, ~fault, InitUnlock
    PROVE  CInv'
<1> USE CacheAssumption DEF CInv
<1>1. CacheTypeOK'
  BY DEF CacheTypeOK, InitUnlock, AppGoto, cacheVars, userVars
<1>2. Locks'
  BY DEF Locks, Phases, CacheTypeOK, InitUnlock, AppGoto, cacheVars, userVars
<1>3. Phases'
  BY DEF Phases, Locks, CacheTypeOK, InitUnlock, AppGoto, cacheVars, userVars
<1>4. Hands'
  BY DEF Hands, Inside, Outside, Cached, Locks, Phases, HandlesOwned, Held, CacheTypeOK, InitUnlock, AppGoto, cacheVars, userVars
<1>5. Ordered'
  BY DEF Ordered, Orderly, CacheTypeOK, InitUnlock, AppGoto, cacheVars, userVars
<1>6. HandlesOwned'
  BY DEF HandlesOwned, Hands, Cached, Held, CacheTypeOK, InitUnlock, AppGoto, cacheVars, userVars
<1>7. Quiet'
  BY DEF Quiet, Locks, Phases, CacheTypeOK, InitUnlock, AppGoto, cacheVars, userVars
<1>8. SafeDelete'
  BY DEF SafeDelete, Quiet, Locks, Phases, CacheTypeOK, InitUnlock, AppGoto, cacheVars, userVars
<1> QED BY <1>1, <1>2, <1>3, <1>4, <1>5, <1>6, <1>7, <1>8

\* Time passes.
LEMMA TickInv ==
    ASSUME CInv, ~fault, Tick
    PROVE  CInv'
<1> USE CacheAssumption DEF CInv
<1>1. CacheTypeOK'
  BY DEF CacheTypeOK, Tick, cacheVars, userVars
<1>2. Locks'
  BY DEF Locks, Phases, CacheTypeOK, Tick, cacheVars, userVars
<1>3. Phases'
  BY DEF Phases, Locks, CacheTypeOK, Tick, cacheVars, userVars
<1>4. Hands'
  BY DEF Hands, Inside, Outside, Cached, Locks, Phases, HandlesOwned, Held, CacheTypeOK, Tick, cacheVars, userVars
<1>5. Ordered'
  <2>1. cache # None => \A i \in DOMAIN cache : cache[i].stamp \in Nat
    <3> SUFFICES ASSUME cache # None, NEW i \in DOMAIN cache PROVE cache[i].stamp \in Nat
      OBVIOUS
    <3>1. cache \in Seq(Nodes)
      BY DEF CacheTypeOK
    <3>2. cache[i] \in Nodes
      BY <3>1, LenProperties, ElementOfSeq
    <3> QED BY <3>2 DEF Nodes
  <2> QED BY <2>1 DEF Ordered, CacheTypeOK, Tick
<1>6. HandlesOwned'
  BY DEF HandlesOwned, Hands, Cached, Held, CacheTypeOK, Tick, cacheVars, userVars
<1>7. Quiet'
  BY DEF Quiet, Locks, Phases, CacheTypeOK, Tick, cacheVars, userVars
<1>8. SafeDelete'
  BY DEF SafeDelete, Quiet, Locks, Phases, CacheTypeOK, Tick, cacheVars, userVars
<1> QED BY <1>1, <1>2, <1>3, <1>4, <1>5, <1>6, <1>7, <1>8

\* A thread deletes a node that has expired.
LEMMA ExpireInv ==
    ASSUME CInv, ~fault, NEW u \in Users, Expire(u)
    PROVE  CInv'
<1> USE CacheAssumption DEF CInv
<1>1. PICK i \in DOMAIN cache : /\ cache' = Without(cache, i)
                               /\ handles' = handles \ {cache[i].conn}
  BY DEF Expire
<1>2. /\ pc[u] = "get" /\ cache # None /\ owner = u /\ cache \in Seq(Nodes)
      /\ UNCHANGED <<now, mutex, owner, pc, dest, conn, new, appPc, fault, raced>>
  BY DEF Expire, CacheTypeOK, userVars
<1>3. /\ cache' \in Seq(Nodes) /\ cache' # None /\ Len(cache') = Len(cache) - 1
      /\ Orderly(cache') /\ ConnsOf(cache') = ConnsOf(cache) \ {cache[i].conn}
      /\ \A j \in DOMAIN cache' : \E k \in DOMAIN cache : cache'[j] = cache[k]
  BY <1>1, <1>2, WithoutFact, WithoutOrderly, ListNotNone DEF Ordered
<1>4. Len(cache) \in Nat /\ Cached = ConnsOf(cache) /\ Cached' = ConnsOf(cache')
  BY <1>2, <1>3, LenProperties, CachedFact DEF Cached, ConnsOf
<1>5. CacheTypeOK'
  BY <1>1, <1>2, <1>3 DEF CacheTypeOK
<1>6. Locks' /\ Phases' /\ Quiet' /\ SafeDelete'
  BY <1>2, <1>3 DEF Locks, Phases, Quiet, SafeDelete
<1>7. Ordered'
  BY <1>2, <1>3, <1>4 DEF Ordered, CacheTypeOK
<1>8. \A v \in Users : conn[v] # None => conn[v] \notin Cached
  BY <1>2 DEF Hands, Outside, Inside, Locks
<1>9. Hands'
  BY <1>2, <1>3, <1>4, <1>8 DEF Hands, Outside, Inside, Locks
<1>10. HandlesOwned'
  <2>1. Cached' \cup Held' \subseteq handles'
    <3>1. cache[i].conn \in Cached /\ Cached' = Cached \ {cache[i].conn}
      BY <1>3, <1>4 DEF ConnsOf
    <3>2. Held' = Held /\ Held \cap Cached = {}
      BY <1>2, <1>8 DEF Held
    <3> QED BY <1>1, <3>1, <3>2 DEF HandlesOwned
  <2>2. \A j, k \in DOMAIN cache' : cache'[j].conn = cache'[k].conn => j = k
    BY <1>3 DEF Orderly
  <2> QED BY <1>2, <2>1, <2>2 DEF HandlesOwned
<1> QED BY <1>5, <1>6, <1>7, <1>9, <1>10

\* A thread takes a connection out of the cache and leaves its node at the end.
LEMMA TakeInv ==
    ASSUME CInv, ~fault, NEW u \in Users, Take(u)
    PROVE  CInv'
<1> USE CacheAssumption DEF CInv
<1>1. PICK i \in DOMAIN cache :
         /\ cache[i].host = dest[u]
         /\ cache' = Append(Without(cache, i), [cache[i] EXCEPT !.stamp = now])
         /\ conn' = [conn EXCEPT ![u] = cache[i].conn]
  BY DEF Take
<1> DEFINE w == Without(cache, i)
           n == [cache[i] EXCEPT !.stamp = now]
<1>2. /\ pc[u] = "get" /\ cache # None /\ owner = u /\ cache \in Seq(Nodes) /\ now \in Nat
      /\ pc' = [pc EXCEPT ![u] = "exchange"] /\ new' = [new EXCEPT ![u] = FALSE]
      /\ UNCHANGED <<now, mutex, owner, handles, dest, appPc, fault, raced>>
  BY DEF Take, CacheTypeOK, Goto
<1>3. Len(cache) \in Nat /\ DOMAIN cache = 1 .. Len(cache) /\ cache[i] \in Nodes
  BY <1>2, LenProperties, ElementOfSeq
<1>4. /\ w \in Seq(Nodes) /\ Len(w) = Len(cache) - 1 /\ Orderly(w)
      /\ ConnsOf(w) = ConnsOf(cache) \ {cache[i].conn}
      /\ \A j \in DOMAIN w : /\ \E k \in DOMAIN cache : k # i /\ w[j] = cache[k]
                            /\ w[j].host # cache[i].host
  BY <1>2, WithoutFact, WithoutOrderly DEF Ordered
<1>5. n \in Nodes /\ n.host = cache[i].host /\ n.conn = cache[i].conn /\ n.stamp = now
  BY <1>2, <1>3 DEF Nodes
<1>6. \A j \in DOMAIN w : w[j].stamp <= n.stamp /\ w[j].conn # n.conn /\ w[j].host # n.host
  BY <1>2, <1>4, <1>5 DEF Ordered, Orderly
<1>0. cache' = Append(w, n)
  BY <1>1
<1> HIDE DEF w, n
<1>7. /\ cache' \in Seq(Nodes) /\ Orderly(cache') /\ Len(cache') = Len(cache)
      /\ DOMAIN cache' = 1 .. Len(cache)
      /\ \A j \in DOMAIN w : cache'[j] = w[j]
      /\ cache'[Len(cache)] = n
      /\ ConnsOf(cache') = ConnsOf(w) \cup {n.conn}
  <2>1. /\ cache' \in Seq(Nodes) /\ Orderly(cache') /\ Len(cache') = Len(w) + 1
        /\ DOMAIN cache' = 1 .. Len(w) + 1
        /\ \A j \in DOMAIN w : cache'[j] = w[j]
        /\ cache'[Len(w) + 1] = n
        /\ ConnsOf(cache') = ConnsOf(w) \cup {n.conn}
    BY <1>0, <1>4, <1>5, <1>6, AppendOrderly
  <2>2. Len(w) + 1 = Len(cache)
    BY <1>3, <1>4
  <2> QED BY <2>1, <2>2
<1>8. cache' # None /\ Len(cache) > 0 /\ cache[i].conn \in ConnsOf(cache)
  BY <1>3, <1>7, ListNotNone DEF ConnsOf
<1>9. Cached = ConnsOf(cache) /\ Cached' = ConnsOf(cache') /\ Cached' = Cached
  <2>1. Cached = ConnsOf(cache) /\ Cached' = ConnsOf(cache')
    BY <1>2, <1>8 DEF Cached, ConnsOf
  <2>2. ConnsOf(cache') = ConnsOf(cache)
    BY <1>4, <1>5, <1>7, <1>8
  <2> QED BY <2>1, <2>2
<1>10. cache[i].conn \in Conns /\ cache[i].conn \in Cached /\ cache[i].conn # None
  BY <1>3, <1>8, <1>9 DEF Nodes
<1>11. CacheTypeOK'
  BY <1>1, <1>2, <1>7, <1>10 DEF CacheTypeOK
<1>12. Locks' /\ Phases' /\ Quiet' /\ SafeDelete'
  BY <1>2, <1>8 DEF Locks, Phases, Quiet, SafeDelete, CacheTypeOK
<1>13. Ordered'
  <2>1. \A j \in DOMAIN cache' : cache'[j].stamp <= now
    <3>1. \A j \in DOMAIN w : cache'[j].stamp <= now
      BY <1>5, <1>6, <1>7
    <3>2. DOMAIN w = 1 .. Len(cache) - 1
      BY <1>4, LenProperties
    <3> QED BY <1>2, <1>3, <1>5, <1>7, <3>1, <3>2
  <2> QED BY <1>2, <1>7, <2>1 DEF Ordered
<1>14. \A v \in Users : conn[v] # None => conn[v] \notin Cached /\ v # u
  BY <1>2 DEF Hands, Outside, Inside, Locks
<1>15. /\ conn'[u] = cache[i].conn /\ new'[u] = FALSE /\ pc'[u] = "exchange"
       /\ \A v \in Users : v # u => conn'[v] = conn[v] /\ new'[v] = new[v] /\ pc'[v] = pc[v]
  BY <1>1, <1>2 DEF CacheTypeOK
<1>16. Inside(u)'
  BY <1>1, <1>2, <1>5, <1>7, <1>8, <1>15 DEF Inside
<1>17. \A v \in Users : v # u /\ conn[v] # None => new[v] /\ Outside(v)'
  BY <1>2, <1>9, <1>14, <1>15 DEF Hands, Outside, Inside
<1>18. Hands'
  BY <1>2, <1>10, <1>15, <1>16, <1>17 DEF Hands
<1>19. HandlesOwned'
  <2>1. Held' \subseteq Held \cup {cache[i].conn}
    BY <1>15 DEF Held
  <2>2. Cached' \cup Held' \subseteq handles'
    BY <1>2, <1>9, <1>10, <2>1 DEF HandlesOwned
  <2>3. \A j, k \in DOMAIN cache' : cache'[j].conn = cache'[k].conn => j = k
    BY <1>7 DEF Orderly
  <2>4. \A v, x \in Users : conn'[v] # None /\ conn'[v] = conn'[x] => v = x
    BY <1>10, <1>14, <1>15 DEF HandlesOwned
  <2> QED BY <2>2, <2>3, <2>4 DEF HandlesOwned
<1> QED BY <1>11, <1>12, <1>13, <1>18, <1>19

\* A thread puts its new connection into the cache, if there is one.
LEMMA PutInv ==
    ASSUME CInv, ~fault, NEW u \in Users, Put(u)
    PROVE  CInv'
<1> USE CacheAssumption DEF CInv
<1>1. /\ pc[u] = "put" /\ new[u] /\ conn[u] # None /\ conn[u] \in Conns /\ dest[u] \in Hosts
      /\ pc' = [pc EXCEPT ![u] = "unlock"] /\ conn' = [conn EXCEPT ![u] = None]
      /\ UNCHANGED <<now, mutex, owner, dest, new, appPc, fault, raced>>
      /\ Outside(u) /\ now \in Nat
  BY DEF Put, Goto, Hands, CacheTypeOK
<1>2. /\ conn'[u] = None /\ pc'[u] = "unlock"
      /\ \A v \in Users : v # u => conn'[v] = conn[v] /\ pc'[v] = pc[v]
  BY <1>1 DEF CacheTypeOK
<1>3. CASE cache = None /\ UNCHANGED <<cache, handles>>
  <2>1. CacheTypeOK'
    BY <1>1, <1>3 DEF CacheTypeOK
  <2>2. Locks' /\ Phases' /\ Quiet' /\ SafeDelete' /\ Ordered'
    BY <1>1, <1>2, <1>3 DEF Locks, Phases, Quiet, SafeDelete, Ordered
  <2>3. Hands'
    BY <1>1, <1>2, <1>3 DEF Hands, Inside, Outside, Cached
  <2>4. HandlesOwned'
    BY <1>1, <1>2, <1>3 DEF HandlesOwned, Held, Cached
  <2> QED BY <2>1, <2>2, <2>3, <2>4
<1>4. CASE cache # None /\ owner = u
  <2> DEFINE full == Len(cache) >= Size
             kept == IF full THEN Without(cache, 1) ELSE cache
             n == [host |-> dest[u], conn |-> conn[u], stamp |-> now]
  <2>1. /\ cache' = Append(kept, n)
        /\ handles' = IF full THEN handles \ {cache[1].conn} ELSE handles
    BY <1>4 DEF Put
  <2>2. /\ cache \in Seq(Nodes) /\ Len(cache) \in Nat /\ DOMAIN cache = 1 .. Len(cache)
        /\ Orderly(cache) /\ n \in Nodes /\ Len(cache) <= Size /\ Size > 0
        /\ Cached = ConnsOf(cache) /\ Size \in Nat
    BY <1>1, <1>4, LenProperties, CachedFact DEF Ordered, CacheTypeOK, Nodes
  <2>3. /\ kept \in Seq(Nodes) /\ Orderly(kept) /\ Len(kept) \in Nat /\ Len(kept) < Size
        /\ ConnsOf(kept) = IF full THEN ConnsOf(cache) \ {cache[1].conn} ELSE ConnsOf(cache)
        /\ \A j \in DOMAIN kept : \E k \in DOMAIN cache : kept[j] = cache[k]
    <3>1. CASE full
      <4>1. 1 \in DOMAIN cache
        BY <2>2, <3>1
      <4>2. /\ Without(cache, 1) \in Seq(Nodes) /\ Orderly(Without(cache, 1))
            /\ Len(Without(cache, 1)) = Len(cache) - 1
            /\ ConnsOf(Without(cache, 1)) = ConnsOf(cache) \ {cache[1].conn}
            /\ \A j \in DOMAIN Without(cache, 1) :
                  \E k \in DOMAIN cache : Without(cache, 1)[j] = cache[k]
        <5>1. /\ Without(cache, 1) \in Seq(Nodes)
              /\ Len(Without(cache, 1)) = Len(cache) - 1
          BY <2>2, <4>1, WithoutFact
        <5>2. /\ Orderly(Without(cache, 1))
              /\ ConnsOf(Without(cache, 1)) = ConnsOf(cache) \ {cache[1].conn}
              /\ \A j \in DOMAIN Without(cache, 1) :
                    \E k \in DOMAIN cache : Without(cache, 1)[j] = cache[k]
          BY <2>2, <4>1, WithoutOrderly
        <5> QED BY <5>1, <5>2
      <4>3. kept = Without(cache, 1) /\ Len(cache) >= 1
        BY <2>2, <3>1
      <4> QED BY <2>2, <3>1, <4>2, <4>3
    <3>2. CASE ~full
      BY <2>2, <3>2
    <3> QED BY <3>1, <3>2
  <2>4. \A j \in DOMAIN kept :
           kept[j].stamp <= n.stamp /\ kept[j].conn # n.conn /\ kept[j].host # n.host
    BY <1>1, <1>4, <2>2, <2>3 DEF Ordered, Outside, ConnsOf
  <2>5. n.conn = conn[u] /\ n.host = dest[u] /\ n.stamp = now
    OBVIOUS
  <2> HIDE DEF kept, n
  <2>6. /\ cache' \in Seq(Nodes) /\ Orderly(cache') /\ Len(cache') = Len(kept) + 1
        /\ DOMAIN cache' = 1 .. Len(kept) + 1
        /\ \A j \in DOMAIN kept : cache'[j] = kept[j]
        /\ cache'[Len(kept) + 1] = n
        /\ ConnsOf(cache') = ConnsOf(kept) \cup {n.conn}
    BY <2>1, <2>2, <2>3, <2>4, AppendOrderly
  <2>7. cache' # None /\ Cached' = ConnsOf(cache')
    BY <2>6, ListNotNone DEF Cached, ConnsOf
  <2>8. CacheTypeOK'
    BY <1>1, <2>1, <2>6 DEF CacheTypeOK
  <2>9. Locks' /\ Phases' /\ Quiet' /\ SafeDelete'
    BY <1>1, <1>2, <1>4, <2>7 DEF Locks, Phases, Quiet, SafeDelete
  <2>10. DOMAIN kept = 1 .. Len(kept)
    BY <2>3, LenProperties
  <2>11. Ordered'
    <3>1. \A j \in DOMAIN cache' : cache'[j].stamp <= now
      BY <1>1, <2>3, <2>4, <2>5, <2>6, <2>10
    <3> QED BY <1>1, <2>2, <2>3, <2>6, <3>1 DEF Ordered
  <2>12. \A v \in Users : v # u /\ conn[v] # None =>
            new[v] /\ conn[v] \notin Cached /\ conn[v] # conn[u] /\ owner # v
    BY <1>1, <1>4 DEF Hands, Outside, Inside, HandlesOwned
  <2>13. \A v \in Users : v # u /\ conn[v] # None => new'[v] /\ Outside(v)'
    BY <1>1, <1>2, <2>2, <2>3, <2>5, <2>6, <2>7, <2>12 DEF Outside
  <2>14. Hands'
    BY <1>1, <1>2, <2>13 DEF Hands
  <2>15. HandlesOwned'
    <3>1. Held' \subseteq Held /\ conn[u] \in Held
      BY <1>1, <1>2 DEF Held
    <3>2. Cached' \subseteq handles'
      <4>1. Cached' = ConnsOf(kept) \cup {conn[u]} /\ conn[u] \in handles
        BY <2>5, <2>6, <2>7, <3>1 DEF HandlesOwned
      <4>2. full => conn[u] # cache[1].conn
        BY <1>1, <2>2 DEF Outside, ConnsOf
      <4>3. Cached \subseteq handles
        BY DEF HandlesOwned
      <4> HIDE DEF full
      <4> QED BY <2>1, <2>2, <2>3, <4>1, <4>2, <4>3
    <3>3. full => cache[1].conn \in Cached
      BY <2>2 DEF ConnsOf
    <3>4. Held' \subseteq handles'
      BY <1>2, <2>1, <2>12, <3>1, <3>3 DEF HandlesOwned, Held
    <3>5. \A j, k \in DOMAIN cache' : cache'[j].conn = cache'[k].conn => j = k
      BY <2>6 DEF Orderly
    <3>6. \A v, x \in Users : conn'[v] # None /\ conn'[v] = conn'[x] => v = x
      BY <1>2 DEF HandlesOwned
    <3> QED BY <3>2, <3>4, <3>5, <3>6 DEF HandlesOwned
  <2> QED BY <2>8, <2>9, <2>11, <2>14, <2>15
<1> QED BY <1>3, <1>4 DEF Put

\* Making room in the list keeps it in order and bounded.
LEMMA RoomFact ==
    ASSUME CInv, cache # None, Len(cache) >= Size
    PROVE  LET w == Without(cache, 1)
           IN  /\ 1 \in DOMAIN cache /\ cache[1].conn \in Cached
               /\ w \in Seq(Nodes) /\ w # None /\ Orderly(w) /\ Len(w) <= Size
               /\ ConnsOf(w) = Cached \ {cache[1].conn}
               /\ \A j \in DOMAIN w : \E k \in DOMAIN cache : w[j] = cache[k]
<1>1. /\ cache \in Seq(Nodes) /\ Len(cache) \in Nat /\ DOMAIN cache = 1 .. Len(cache)
      /\ Orderly(cache) /\ Len(cache) <= Size /\ Size > 0 /\ Size \in Nat
      /\ Cached = ConnsOf(cache)
  BY LenProperties, CachedFact, CacheAssumption DEF CInv, Ordered, CacheTypeOK
<1>2. 1 \in DOMAIN cache
  BY <1>1
<1>3. cache[1].conn \in Cached
  BY <1>1, <1>2 DEF ConnsOf
<1> DEFINE w == Without(cache, 1)
<1>4. w \in Seq(Nodes) /\ Len(w) = Len(cache) - 1
  BY <1>1, <1>2, WithoutFact
<1>5. /\ Orderly(w) /\ ConnsOf(w) = ConnsOf(cache) \ {cache[1].conn}
      /\ \A j \in DOMAIN w : \E k \in DOMAIN cache : w[j] = cache[k]
  BY <1>1, <1>2, WithoutOrderly
<1> HIDE DEF w
<1>6. w # None /\ Len(w) <= Size
  BY <1>1, <1>4, ListNotNone
<1> QED BY <1>1, <1>2, <1>3, <1>4, <1>5, <1>6 DEF w

\* There is no memory for the node of a new connection.
LEMMA PutFailsInv ==
    ASSUME CInv, ~fault, NEW u \in Users, PutFails(u)
    PROVE  CInv'
<1> USE CacheAssumption DEF CInv
<1> DEFINE full == Len(cache) >= Size
           gone == IF full THEN {cache[1].conn} ELSE {}
<1>1. /\ pc[u] = "put" /\ new[u] /\ conn[u] # None /\ cache # None /\ owner = u
      /\ pc' = [pc EXCEPT ![u] = "unlock"] /\ conn' = [conn EXCEPT ![u] = None]
      /\ UNCHANGED <<now, mutex, owner, dest, new, appPc, fault, raced>>
      /\ handles' = handles \ gone
      /\ cache' = IF full THEN Without(cache, 1) ELSE cache
  BY DEF PutFails, Goto, Hands
<1>2. /\ conn'[u] = None /\ pc'[u] = "unlock"
      /\ \A v \in Users : v # u => conn'[v] = conn[v] /\ pc'[v] = pc[v]
  BY <1>1 DEF CacheTypeOK
<1>3. /\ cache' \in Seq(Nodes) /\ cache' # None /\ Orderly(cache') /\ Len(cache') <= Size
      /\ ConnsOf(cache') = Cached \ gone /\ gone \subseteq Cached
      /\ \A j \in DOMAIN cache' : \E k \in DOMAIN cache : cache'[j] = cache[k]
  <2>1. CASE full
    BY <1>1, <2>1, RoomFact
  <2>2. CASE ~full
    BY <1>1, <2>2, CachedFact DEF Ordered, CacheTypeOK
  <2> QED BY <2>1, <2>2
<1> HIDE DEF gone, full
<1>4. Cached' = Cached \ gone
  BY <1>3 DEF Cached, ConnsOf
<1>5. CacheTypeOK'
  BY <1>1, <1>3 DEF CacheTypeOK
<1>6. Locks' /\ Phases' /\ Quiet' /\ SafeDelete'
  BY <1>1, <1>2, <1>3 DEF Locks, Phases, Quiet, SafeDelete
<1>7. Ordered'
  BY <1>1, <1>3 DEF Ordered
<1>8. \A v \in Users : conn'[v] # None =>
         v # u /\ new[v] /\ conn[v] \notin Cached /\ owner # v
  BY <1>1, <1>2 DEF Hands, Outside, Inside
<1>9. Hands'
  BY <1>1, <1>2, <1>4, <1>8 DEF Hands, Outside
<1>10. HandlesOwned'
  <2>1. Held' \subseteq Held /\ Held' \cap Cached = {}
    BY <1>2, <1>8 DEF Held
  <2>2. Cached' \cup Held' \subseteq handles'
    BY <1>1, <1>3, <1>4, <2>1 DEF HandlesOwned
  <2>3. \A j, k \in DOMAIN cache' : cache'[j].conn = cache'[k].conn => j = k
    BY <1>3 DEF Orderly
  <2>4. \A v, x \in Users : conn'[v] # None /\ conn'[v] = conn'[x] => v = x
    BY <1>2 DEF HandlesOwned
  <2> QED BY <2>2, <2>3, <2>4 DEF HandlesOwned
<1> QED BY <1>5, <1>6, <1>7, <1>9, <1>10

\* The application deletes the cache with its connections.
LEMMA ClearInv ==
    ASSUME CInv, ~fault, Clear
    PROVE  CInv'
<1> USE CacheAssumption DEF CInv
<1>1. /\ appPc = "clear" /\ appPc' = "unlock" /\ cache' = None /\ cache # None
      /\ handles' = handles \ Cached /\ owner = App
      /\ UNCHANGED <<now, mutex, owner, pc, dest, conn, new, fault, raced>>
  BY CachedFact DEF Clear, AppGoto, userVars, Phases, Locks, ConnsOf
<1>2. CacheTypeOK'
  BY <1>1 DEF CacheTypeOK
<1>3. Locks' /\ Phases' /\ Quiet' /\ SafeDelete' /\ Ordered'
  BY <1>1 DEF Locks, Phases, Quiet, SafeDelete, Ordered
<1>4. \A v \in Users : conn[v] # None => new[v] /\ conn[v] \notin Cached
  BY <1>1 DEF Hands, Outside, Inside
<1>5. Hands'
  BY <1>1, <1>4 DEF Hands, Outside, Cached
<1>6. HandlesOwned'
  BY <1>1, <1>4 DEF HandlesOwned, Held, Cached
<1> QED BY <1>2, <1>3, <1>5, <1>6

\* The application creates the cache, or has no memory for it.
LEMMA InitCacheInv ==
    ASSUME CInv, ~fault, InitCache
    PROVE  CInv'
<1> USE CacheAssumption DEF CInv
<1>1. /\ appPc = "init" /\ cache = None /\ owner = App /\ mutex = "live"
      /\ UNCHANGED <<now, mutex, owner, handles, pc, dest, conn, new, fault, raced>>
  BY DEF InitCache, AppGoto, userVars, Phases, Locks
<1>2. CASE cache' = <<>> /\ appPc' = "initUnlock"
  <2>1. <<>> \in Seq(Nodes) /\ cache' # None /\ DOMAIN cache' = {} /\ Len(cache') = 0
    BY <1>2, EmptyList
  <2>2. CacheTypeOK'
    BY <1>1, <1>2, <2>1 DEF CacheTypeOK
  <2>3. Locks' /\ Phases' /\ Quiet' /\ SafeDelete'
    BY <1>1, <1>2, <2>1 DEF Locks, Phases, Quiet, SafeDelete
  <2>4. Ordered'
    BY <2>1 DEF Ordered, Orderly
  <2>5. Cached' = {}
    BY <2>1 DEF Cached
  <2>6. \A v \in Users : conn[v] # None => new[v]
    BY <1>1 DEF Hands, Inside
  <2>7. Hands'
    BY <1>1, <2>1, <2>5, <2>6 DEF Hands, Outside
  <2>8. HandlesOwned'
    BY <1>1, <2>1, <2>5 DEF HandlesOwned, Held, Cached
  <2> QED BY <2>2, <2>3, <2>4, <2>7, <2>8
<1>3. CASE cache' = cache /\ appPc' = "unlock"
  <2>1. CacheTypeOK'
    BY <1>1, <1>3 DEF CacheTypeOK
  <2>2. Locks' /\ Phases' /\ Quiet' /\ SafeDelete' /\ Ordered'
    BY <1>1, <1>3 DEF Locks, Phases, Quiet, SafeDelete, Ordered
  <2>3. Hands'
    BY <1>1, <1>3 DEF Hands, Inside, Outside, Cached
  <2>4. HandlesOwned'
    BY <1>1, <1>3 DEF HandlesOwned, Held, Cached
  <2> QED BY <2>1, <2>2, <2>3, <2>4
<1> QED BY <1>2, <1>3 DEF InitCache, AppGoto

\* Nothing moves.
LEMMA StutterInv == ASSUME CInv, UNCHANGED cvars PROVE CInv'
BY DEF CInv, CacheTypeOK, Locks, Phases, Hands, Inside, Outside, Ordered, Orderly,
       HandlesOwned, Quiet, SafeDelete, Cached, Held, cvars, cacheVars, userVars

\* The initial state satisfies the invariant.
LEMMA InitInv == ASSUME CacheInit PROVE CInv
<1> USE CacheAssumption DEF CacheInit
<1>1. <<>> \in Seq(Nodes) /\ cache # None /\ DOMAIN cache = {} /\ Len(cache) = 0
  BY EmptyList
<1>2. CacheTypeOK
  BY <1>1 DEF CacheTypeOK
<1>3. Cached = {} /\ Held = {}
  BY <1>1 DEF Cached, Held
<1>4. Locks /\ Phases /\ Quiet /\ SafeDelete
  BY <1>1 DEF Locks, Phases, Quiet, SafeDelete
<1>5. Hands /\ HandlesOwned
  BY <1>1, <1>3 DEF Hands, HandlesOwned
<1>6. Ordered
  BY <1>1 DEF Ordered, Orderly
<1> QED BY <1>2, <1>4, <1>5, <1>6 DEF CInv

\* Every step of the cache keeps the invariant.
LEMMA StepInv == ASSUME CInv, [CacheNext]_cvars PROVE CInv'
<1>1. CASE UNCHANGED cvars
  BY <1>1, StutterInv
<1>2. CASE CacheNext
  <2>1. ~fault
    BY <1>2 DEF CacheNext
  <2>2. ASSUME NEW u \in Users, PostSteps(u) PROVE CInv'
    BY <2>1, <2>2, LockTestInv, AcquireInv, UnguardedInv, ExpireInv, TakeInv, OpenInv,
       PutInv, PutFailsInv, UnlockInv DEF PostSteps
  <2>3. ASSUME AppSteps PROVE CInv'
    BY <2>1, <2>3, ClearLockInv, ClearInv, ClearUnlockInv, DeleteMutexInv, ForgetInv,
       InitLockInv, InitCacheInv, InitUnlockInv DEF AppSteps
  <2> QED BY <1>2, <2>1, <2>2, <2>3, TickInv, ClearStartInv, InitMutexInv, PostInv,
             OpenFailsInv, ExchangeInv DEF CacheNext
<1> QED BY <1>1, <1>2

\* The invariant holds in every behaviour of the cache.
THEOREM CacheInvariant == CacheSpec => []CInv
<1>1. CacheInit => CInv
  BY InitInv
<1>2. CInv /\ [CacheNext]_cvars => CInv'
  BY StepInv
<1> QED BY <1>1, <1>2, PTL DEF CacheSpec

\* Each part of the invariant that is a property of its own.
THEOREM CacheTypeCorrect == CacheSpec => []CacheTypeOK
<1>1. CInv => CacheTypeOK
  BY DEF CInv
<1> QED BY <1>1, CacheInvariant, PTL

\* Every connection that the cache or a thread has exists, the cache has it once, and
\* no two threads share one.
THEOREM HandlesCorrect == CacheSpec => []HandlesOwned
<1>1. CInv => HandlesOwned
  BY DEF CInv
<1> QED BY <1>1, CacheInvariant, PTL

\* Nothing undefined is done while no control point is created or deleted during a post.
THEOREM DeleteCorrect == CacheSpec => []SafeDelete
<1>1. CInv => SafeDelete
  BY DEF CInv
<1> QED BY <1>1, CacheInvariant, PTL

-----------------------------------------------------------------------------
(* Connections that nobody has.                                            *)

\* The connections that somebody has, after a step in which one thread's changes.
LEMMA HeldStep ==
    ASSUME CacheTypeOK, NEW u \in Users, NEW k, conn' = [conn EXCEPT ![u] = k]
    PROVE  Held \ {conn[u]} \subseteq Held' /\ (k # None => k \in Held')
<1>1. conn'[u] = k /\ \A v \in Users : v # u => conn'[v] = conn[v]
  BY DEF CacheTypeOK
<1> QED BY <1>1 DEF Held

\* A step of the application, or of a thread that does not put a connection anywhere.
KeepsAll(u) ==
    \/ \E h \in Hosts : Post(u, h)
    \/ LockTest(u) \/ Acquire(u) \/ Unguarded(u) \/ Expire(u) \/ Take(u)
    \/ Open(u) \/ OpenFails(u) \/ Exchange(u) \/ Unlock(u)

\* A put into a cache with memory for the node, and every step but a put, forgets nothing.
LEMMA NoneLost ==
    ASSUME CInv, CInv',
           \/ UNCHANGED cvars \/ Tick \/ ClearStart \/ InitMutex \/ AppSteps
           \/ \E u \in Users : KeepsAll(u) \/ (Put(u) /\ cache # None)
    PROVE  Forgotten' \subseteq Forgotten
<1> USE DEF CInv
<1>1. ASSUME UNCHANGED <<cache, handles, conn>> PROVE Forgotten' \subseteq Forgotten
  BY <1>1 DEF Forgotten, Cached, Held
<1>2. ASSUME NEW u \in Users, Expire(u) PROVE Forgotten' \subseteq Forgotten
  <2>1. PICK i \in DOMAIN cache :
           cache' = Without(cache, i) /\ handles' = handles \ {cache[i].conn}
    BY <1>2 DEF Expire
  <2>2. cache # None /\ cache \in Seq(Nodes) /\ Orderly(cache) /\ Held' = Held
    BY <1>2 DEF Expire, CacheTypeOK, Ordered, Held, userVars
  <2>3. cache' # None
    BY <2>1, <2>2, WithoutFact, ListNotNone
  <2>4. Cached' = Cached \ {cache[i].conn}
    <3>1. Cached' = ConnsOf(cache') /\ Cached = ConnsOf(cache)
      BY <2>2, <2>3 DEF Cached, ConnsOf
    <3> QED BY <2>1, <2>2, <3>1, WithoutOrderly
  <2> QED BY <2>1, <2>2, <2>4 DEF Forgotten
<1>3. ASSUME NEW u \in Users, Take(u) PROVE Forgotten' \subseteq Forgotten
  <2>1. PICK i \in DOMAIN cache :
           /\ cache' = Append(Without(cache, i), [cache[i] EXCEPT !.stamp = now])
           /\ conn' = [conn EXCEPT ![u] = cache[i].conn]
    BY <1>3 DEF Take
  <2>2. cache # None /\ conn[u] = None /\ handles' = handles
    BY <1>3 DEF Take, Hands
  <2>3. Cached \subseteq Cached'
    <3>1. /\ cache \in Seq(Nodes) /\ Orderly(cache) /\ cache' \in Seq(Nodes)
          /\ now \in Nat /\ cache[i] \in Nodes
      <4>1. cache \in Seq(Nodes) /\ now \in Nat /\ Orderly(cache)
        BY <2>2 DEF CacheTypeOK, Ordered
      <4>2. cache[i] \in Nodes
        BY <4>1, ElementOfSeq
      <4>3. Without(cache, i) \in Seq(Nodes)
        BY <4>1, WithoutFact
      <4>4. [cache[i] EXCEPT !.stamp = now] \in Nodes
        BY <4>1, <4>2 DEF Nodes
      <4> QED BY <2>1, <4>1, <4>2, <4>3, <4>4, AppendProperties
    <3>2. cache' # None
      BY <3>1, ListNotNone
    <3>3. Cached' = ConnsOf(cache') /\ Cached = ConnsOf(cache)
      BY <2>2, <3>2 DEF Cached, ConnsOf
    <3> DEFINE w == Without(cache, i)
               n == [cache[i] EXCEPT !.stamp = now]
    <3>4. w \in Seq(Nodes) /\ ConnsOf(w) = ConnsOf(cache) \ {cache[i].conn}
      BY <3>1, WithoutFact, WithoutOrderly
    <3>5. n.conn = cache[i].conn
      BY <3>1 DEF Nodes
    <3>6. cache' = Append(w, n) /\ n \in Nodes
      BY <2>1, <3>1 DEF Nodes
    <3> HIDE DEF w, n
    <3>7. /\ \A j \in 1 .. Len(w) : cache'[j] = w[j]
          /\ cache'[Len(w) + 1] = n /\ Len(cache') = Len(w) + 1 /\ Len(w) \in Nat
      BY <3>4, <3>6, AppendProperties, LenProperties
    <3>8. DOMAIN cache' = 1 .. Len(w) + 1 /\ DOMAIN w = 1 .. Len(w)
      BY <3>1, <3>4, <3>7, LenProperties
    <3>9. ConnsOf(w) \cup {n.conn} \subseteq ConnsOf(cache')
      <4>1. Len(w) + 1 \in DOMAIN cache' /\ DOMAIN w \subseteq DOMAIN cache'
        BY <3>7, <3>8
      <4> QED BY <3>7, <3>8, <4>1 DEF ConnsOf
    <3> QED BY <3>3, <3>4, <3>5, <3>9
  <2>4. Held \subseteq Held'
    BY <2>1, <2>2, HeldStep DEF Held
  <2> QED BY <2>2, <2>3, <2>4 DEF Forgotten
<1>4. ASSUME NEW u \in Users, Open(u) PROVE Forgotten' \subseteq Forgotten
  <2>1. PICK k \in Conns : handles' = handles \cup {k} /\ conn' = [conn EXCEPT ![u] = k]
    BY <1>4 DEF Open
  <2>2. conn[u] = None /\ Cached' = Cached /\ k # None
    BY <1>4, CacheAssumption DEF Open, GetsNone, Hands, Cached
  <2>3. Held \subseteq Held' /\ k \in Held'
    BY <2>1, <2>2, HeldStep DEF Held
  <2> QED BY <2>1, <2>2, <2>3 DEF Forgotten
<1>5. ASSUME NEW u \in Users, Exchange(u) PROVE Forgotten' \subseteq Forgotten
  <2>1. CASE new[u]
    BY <1>1, <1>5, <2>1 DEF Exchange, cacheVars
  <2>2. CASE ~new[u]
    <3>1. conn' = [conn EXCEPT ![u] = None] /\ cache' = cache /\ handles' = handles
      BY <1>5, <2>2 DEF Exchange, cacheVars
    <3>2. conn[u] \in Cached
      <4>1. /\ cache # None /\ cache \in Seq(Nodes) /\ Len(cache) > 0
            /\ conn[u] = cache[Len(cache)].conn
        BY <1>5, <2>2 DEF Exchange, Hands, Inside, CacheTypeOK
      <4>2. Len(cache) \in DOMAIN cache
        BY <4>1, LenProperties
      <4> QED BY <4>1, <4>2 DEF Cached
    <3>3. Held \ {conn[u]} \subseteq Held' /\ Cached' = Cached
      BY <3>1, HeldStep DEF Cached
    <3> QED BY <3>1, <3>2, <3>3 DEF Forgotten
  <2> QED BY <2>1, <2>2
<1>6. ASSUME NEW u \in Users, Put(u), cache # None PROVE Forgotten' \subseteq Forgotten
  <2> DEFINE full == Len(cache) >= Size
             kept == IF full THEN Without(cache, 1) ELSE cache
             n == [host |-> dest[u], conn |-> conn[u], stamp |-> now]
  <2>1. /\ cache' = Append(kept, n) /\ conn' = [conn EXCEPT ![u] = None]
        /\ handles' = IF full THEN handles \ {cache[1].conn} ELSE handles
        /\ conn[u] # None
    BY <1>6 DEF Put, Hands
  <2>2. /\ cache \in Seq(Nodes) /\ Orderly(cache) /\ Len(cache) \in Nat
        /\ DOMAIN cache = 1 .. Len(cache) /\ Size \in Nat /\ Size > 0
    BY <1>6, LenProperties, CacheAssumption DEF CacheTypeOK, Ordered
  <2>3. n \in Nodes /\ n.conn = conn[u]
    BY <1>6, <2>1 DEF Put, Hands, CacheTypeOK, Nodes
  <2>4. /\ kept \in Seq(Nodes)
        /\ ConnsOf(kept) = IF full THEN ConnsOf(cache) \ {cache[1].conn} ELSE ConnsOf(cache)
    <3>1. CASE full
      <4>1. 1 \in DOMAIN cache
        BY <2>2, <3>1
      <4> QED BY <2>2, <3>1, <4>1, WithoutFact, WithoutOrderly
    <3>2. CASE ~full
      BY <2>2, <3>2
    <3> QED BY <3>1, <3>2
  <2> HIDE DEF kept, n, full
  <2>5. /\ cache' \in Seq(Nodes) /\ \A j \in 1 .. Len(kept) : cache'[j] = kept[j]
        /\ cache'[Len(kept) + 1] = n /\ Len(cache') = Len(kept) + 1 /\ Len(kept) \in Nat
    BY <2>1, <2>3, <2>4, AppendProperties, LenProperties
  <2>6. DOMAIN cache' = 1 .. Len(kept) + 1 /\ DOMAIN kept = 1 .. Len(kept)
    BY <2>4, <2>5, LenProperties
  <2>7. ConnsOf(kept) \cup {conn[u]} \subseteq ConnsOf(cache')
    <3>1. Len(kept) + 1 \in DOMAIN cache' /\ DOMAIN kept \subseteq DOMAIN cache'
      BY <2>5, <2>6
    <3> QED BY <2>3, <2>5, <2>6, <3>1 DEF ConnsOf
  <2>8. Cached' = ConnsOf(cache') /\ Cached = ConnsOf(cache)
    BY <1>6, <2>5, ListNotNone DEF Cached, ConnsOf
  <2>9. Held \ {conn[u]} \subseteq Held'
    BY <2>1, HeldStep
  <2> QED BY <2>1, <2>4, <2>7, <2>8, <2>9 DEF Forgotten
<1>7. ASSUME Clear PROVE Forgotten' \subseteq Forgotten
  BY <1>7 DEF Clear, AppGoto, userVars, Forgotten, Cached, Held
<1>8. ASSUME InitCache PROVE Forgotten' \subseteq Forgotten
  BY <1>8 DEF InitCache, Phases, Forgotten, Cached, Held, AppGoto, userVars
<1>9. CASE UNCHANGED cvars
  BY <1>1, <1>9 DEF cvars, cacheVars, userVars
<1>10. CASE Tick \/ ClearStart \/ InitMutex
  BY <1>1, <1>10 DEF Tick, ClearStart, InitMutex, cacheVars, userVars, AppGoto
<1>11. CASE AppSteps
  BY <1>1, <1>7, <1>8, <1>11
     DEF AppSteps, ClearLock, ClearUnlock, DeleteMutex, Forget, InitLock, InitUnlock,
         userVars, AppGoto
<1>12. ASSUME NEW u \in Users, KeepsAll(u) PROVE Forgotten' \subseteq Forgotten
  <2>1. ASSUME NEW h \in Hosts, Post(u, h) PROVE Forgotten' \subseteq Forgotten
    BY <1>1, <2>1 DEF Post, cacheVars
  <2>2. CASE LockTest(u) \/ Acquire(u) \/ Unguarded(u) \/ Unlock(u) \/ OpenFails(u)
    BY <1>1, <2>2 DEF LockTest, Acquire, Unguarded, Unlock, OpenFails, cacheVars, userVars
  <2> QED BY <1>2, <1>3, <1>4, <1>5, <1>12, <2>1, <2>2 DEF KeepsAll
<1> QED BY <1>6, <1>9, <1>10, <1>11, <1>12

\* A put forgets at most the connection of its thread.
LEMMA OneLost ==
    ASSUME CInv, CInv', NEW u \in Users, (Put(u) /\ cache = None) \/ PutFails(u)
    PROVE  Forgotten' \subseteq Forgotten \cup {conn[u]}
<1>1. Held \ {conn[u]} \subseteq Held'
  BY HeldStep DEF Put, PutFails, CInv
<1>2. CASE Put(u) /\ cache = None
  BY <1>1, <1>2 DEF Put, Forgotten, Cached
<1>3. CASE PutFails(u) /\ Len(cache) >= Size
  <2>1. Cached' = Cached \ {cache[1].conn}
    <3>1. cache' = Without(cache, 1) /\ cache # None /\ cache' # None
      BY <1>3, RoomFact DEF PutFails
    <3>2. Cached' = ConnsOf(cache')
      BY <3>1 DEF Cached, ConnsOf
    <3> QED BY <1>3, <3>1, <3>2, RoomFact
  <2> QED BY <1>1, <1>3, <2>1 DEF PutFails, Forgotten
<1>4. CASE PutFails(u) /\ ~(Len(cache) >= Size)
  BY <1>1, <1>4 DEF PutFails, Forgotten, Cached
<1> QED BY <1>2, <1>3, <1>4

\* A connection is forgotten, still open, only by the thread that has used it first and
\* that finds no cache to put it into or no memory for its node.
THEOREM LeakFree == CacheSpec => NoLeak
<1> DEFINE Excused == \A k \in Forgotten' \ Forgotten :
                         \E u \in Users : conn[u] = k /\ (cache = None \/ PutFails(u))
<1>1. ASSUME CInv, CInv', [CacheNext]_cvars PROVE Excused
  <2>1. ASSUME NEW u \in Users, (Put(u) /\ cache = None) \/ PutFails(u) PROVE Excused
    BY <1>1, <2>1, OneLost
  <2>2. \/ UNCHANGED cvars \/ Tick \/ ClearStart \/ InitMutex \/ AppSteps
        \/ \E u \in Users : KeepsAll(u) \/ Put(u) \/ PutFails(u)
    BY <1>1 DEF CacheNext, PostSteps, KeepsAll
  <2>3. CASE \/ UNCHANGED cvars \/ Tick \/ ClearStart \/ InitMutex \/ AppSteps
             \/ \E u \in Users : KeepsAll(u) \/ (Put(u) /\ cache # None)
    BY <1>1, <2>3, NoneLost
  <2> QED BY <2>1, <2>2, <2>3
<1>2. CInv /\ CInv' /\ [CacheNext]_cvars => [Excused]_cvars
  BY <1>1
<1> QED BY <1>2, CacheInvariant, PTL DEF CacheSpec, NoLeak
====
