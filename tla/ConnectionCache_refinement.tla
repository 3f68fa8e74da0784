--------------------- MODULE ConnectionCache_refinement ---------------------
(***************************************************************************)
(* The cache implements the pool: CacheSpec => PoolSpec.  A connection is  *)
(* idle when its node is in the list and no thread uses it; the steps of   *)
(* the abstract specification are the lookup, the end of an exchange and   *)
(* the insertion, and every other step is a stutter.                       *)
(***************************************************************************)
EXTENDS ConnectionCache_proofs

Entry(n) == [host |-> n.host, conn |-> n.conn, used |-> n.stamp]

\* The first n nodes of a list as the pool has them.
Entries(s, n) == {Entry(s[i]) : i \in 1 .. n}

Using == [v \in Users |-> Loan(v)]

\* A connection in the hands of a thread that is not the cache's.
Own(u) == [host |-> dest[u], conn |-> conn[u], pooled |-> FALSE, used |-> None]

IdleShape ==
    /\ cache = None => IdleNodes = {}
    /\ cache # None /\ (\A v \in Users : conn[v] # None => new[v]) =>
          IdleNodes = Entries(cache, Len(cache))
    /\ \A v \in Users : conn[v] # None /\ ~new[v] =>
          /\ cache # None /\ Len(cache) > 0
          /\ IdleNodes = Entries(cache, Len(cache) - 1)

-----------------------------------------------------------------------------
(* The mapping.                                                            *)

\* Nodes of an orderly list are as many entries.
LEMMA EntryCard ==
    ASSUME NEW s \in Seq(Nodes), Orderly(s), NEW n \in 0 .. Len(s)
    PROVE  Cardinality(Entries(s, n)) = n
<1> DEFINE f == [i \in 1 .. n |-> Entry(s[i])]
<1>1. Len(s) \in Nat /\ n \in Nat /\ 1 .. n \subseteq DOMAIN s
  BY LenProperties
<1>2. IsFiniteSet(1 .. n) /\ Cardinality(1 .. n) = n
  BY <1>1, FS_Interval
<1>3. f \in Surjection(1 .. n, Entries(s, n))
  BY DEF Surjection, Entries
<1>4. \A i, j \in 1 .. n : f[i] = f[j] => i = j
  BY <1>1 DEF Orderly, Entry
<1>5. f \in Injection(1 .. n, Entries(s, n))
  BY <1>3, <1>4 DEF Injection, IsInjective, Surjection
<1> HIDE DEF f
<1> QED BY <1>2, <1>3, <1>5, FS_Surjection

\* The pool counts as we do.
LEMMA PoolCardinality == ASSUME NEW S PROVE Pool!Cardinality(S) = Cardinality(S)
BY DEF Cardinality, Pool!Cardinality

\* The idle connections: every node's, but the last while its connection is in use.
LEMMA IdleFact == CInv => IdleShape
<1> SUFFICES ASSUME CInv PROVE IdleShape
  OBVIOUS
<1> USE DEF CInv
<1>1. cache = None => IdleNodes = {}
  BY DEF IdleNodes
<1>2. cache # None => /\ Len(cache) \in Nat /\ DOMAIN cache = 1 .. Len(cache)
                      /\ IdleNodes = {Entry(cache[i]) :
                                        i \in {j \in DOMAIN cache : cache[j].conn \notin Held}}
  BY LenProperties DEF CacheTypeOK, IdleNodes, Entry
<1>3. ASSUME cache # None, \A v \in Users : conn[v] # None => new[v]
      PROVE  IdleNodes = Entries(cache, Len(cache))
  <2>1. \A i \in DOMAIN cache : cache[i].conn \notin Held
    BY <1>3 DEF Hands, Outside, Held, Cached
  <2> QED BY <1>2, <1>3, <2>1 DEF Entries
<1>4. ASSUME NEW v \in Users, conn[v] # None, ~new[v]
      PROVE  /\ cache # None /\ Len(cache) > 0
             /\ IdleNodes = Entries(cache, Len(cache) - 1)
  <2>1. /\ owner = v /\ cache # None /\ Len(cache) > 0
        /\ conn[v] = cache[Len(cache)].conn
    BY <1>4 DEF Hands, Inside
  <2>2. \A w \in Users : conn[w] # None /\ w # v => conn[w] \notin Cached
    BY <2>1 DEF Hands, Inside, Outside
  <2>3. \A i \in DOMAIN cache : cache[i].conn \in Held <=> i = Len(cache)
    <3>1. \A i \in DOMAIN cache : cache[i].conn \in Held => cache[i].conn = conn[v]
      BY <2>1, <2>2 DEF Held, Cached
    <3>2. \A i \in DOMAIN cache : cache[i].conn = conn[v] => i = Len(cache)
      BY <1>2, <2>1 DEF Ordered, Orderly
    <3>3. conn[v] \in Held
      BY <1>4 DEF Held
    <3> QED BY <2>1, <3>1, <3>2, <3>3
  <2>4. {j \in DOMAIN cache : cache[j].conn \notin Held} = 1 .. Len(cache) - 1
    BY <1>2, <2>1, <2>3
  <2> QED BY <1>2, <2>1, <2>4 DEF Entries
<1> QED BY <1>1, <1>3, <1>4 DEF IdleShape

\* ... before a step as after it.
LEMMA IdleFactNext == CInv' => IdleShape'
BY IdleFact, PTL

\* What a thread that does not hold the mutex, or not the cache, has is its own.
LEMMA LoanFact ==
    ASSUME CInv, NEW v \in Users
    PROVE  /\ conn[v] = None => Loan(v) = None
           /\ conn[v] # None /\ ~(owner = v /\ cache # None) => Loan(v) = Own(v)
           /\ conn[v] # None /\ owner = v /\ cache # None =>
                 Loan(v) = [host |-> dest[v], conn |-> conn[v], pooled |-> TRUE,
                            used |-> IF new[v] THEN None ELSE cache[Len(cache)].stamp]
           /\ conn[v] # None => Loan(v) # None
<1>1. ASSUME conn[v] # None PROVE Loan(v) # None
  <2>1. dest[v] \in Hosts /\ conn[v] \in Conns
    BY <1>1 DEF CInv, Hands, CacheTypeOK
  <2>2. ASSUME owner = v, cache # None, ~new[v] PROVE cache[Len(cache)].stamp \in Nat
    <3>1. cache \in Seq(Nodes) /\ Len(cache) \in DOMAIN cache
      BY <1>1, <2>2, LenProperties DEF CInv, Hands, Inside, CacheTypeOK
    <3>2. cache[Len(cache)] \in Nodes
      BY <3>1, ElementOfSeq
    <3> QED BY <3>2 DEF Nodes
  <2> DEFINE pooled == owner = v /\ cache # None
             used == IF owner = v /\ cache # None /\ ~new[v]
                     THEN cache[Len(cache)].stamp ELSE None
  <2>3. used \in Nat \cup {None} /\ pooled \in BOOLEAN
    BY <2>2
  <2>4. Loan(v) = [host |-> dest[v], conn |-> conn[v], pooled |-> pooled, used |-> used]
    BY <1>1 DEF Loan
  <2> HIDE DEF pooled, used
  <2>5. Loan(v) \in [host : Hosts, conn : Conns, pooled : BOOLEAN, used : Nat \cup {None}]
    BY <2>1, <2>3, <2>4
  <2> QED BY <2>5, CacheAssumption
<1> QED BY <1>1 DEF Loan, Own

\* A step changes nothing of the pool that leaves the list, the handles and the time
\* alone, and the host and the mutex of those who have a connection.
LEMMA SamePool ==
    ASSUME CInv, UNCHANGED <<now, cache, handles, conn>>,
           \A v \in Users : conn[v] # None =>
              dest'[v] = dest[v] /\ new'[v] = new[v] /\ ((owner' = v) <=> (owner = v))
    PROVE  UNCHANGED Pool!vars
<1>1. Using' = Using
  <2>1. \A v \in Users : Loan(v)' = Loan(v)
    BY DEF Loan
  <2> QED BY <2>1 DEF Using
<1>2. IdleNodes' = IdleNodes
  BY DEF IdleNodes, Held
<1> QED BY <1>1, <1>2 DEF Pool!vars, Using

\* The steps of the mutex, of a thread without a connection, and of the application
\* outside the list are no steps of the pool.
LEMMA StutterSteps ==
    ASSUME CInv, ~fault, NEW u \in Users,
           \/ \E h \in Hosts : Post(u, h)
           \/ LockTest(u) \/ Acquire(u) \/ Unguarded(u) \/ OpenFails(u) \/ Unlock(u)
           \/ Exchange(u) /\ new[u]
    PROVE  UNCHANGED Pool!vars
<1>0. pc[u] \notin {"exchange", "put"} => conn[u] = None
  BY DEF CInv, Hands
<1>1. ASSUME NEW h \in Hosts, Post(u, h) PROVE UNCHANGED Pool!vars
  <2>1. conn[u] = None /\ UNCHANGED <<now, cache, handles, conn, new, owner>>
        /\ \A v \in Users : v # u => dest'[v] = dest[v]
    BY <1>0, <1>1 DEF Post, cacheVars, CInv, CacheTypeOK
  <2> QED BY <2>1, SamePool
<1>2. CASE Acquire(u) \/ Unlock(u)
  <2>1. conn[u] = None /\ UNCHANGED <<now, cache, handles, conn, new, dest>>
    BY <1>0, <1>2 DEF Acquire, Unlock
  <2>2. \A v \in Users : conn[v] # None => ((owner' = v) <=> (owner = v))
    BY <2>1, <1>2, CacheAssumption DEF Acquire, Unlock
  <2> QED BY <2>1, <2>2, SamePool
<1>3. CASE LockTest(u) \/ Unguarded(u) \/ OpenFails(u) \/ (Exchange(u) /\ new[u])
  <2>1. UNCHANGED <<now, cache, handles, conn, new, dest, owner>>
    BY <1>3 DEF LockTest, Unguarded, OpenFails, Exchange, cacheVars, userVars
  <2> QED BY <2>1, SamePool
<1> QED BY <1>1, <1>2, <1>3

\* ... nor are those of the application that leave list and handles alone.
LEMMA AppStutterSteps ==
    ASSUME CInv,
           \/ ClearStart \/ ClearLock \/ ClearUnlock \/ DeleteMutex \/ Forget
           \/ InitMutex \/ InitLock \/ InitUnlock \/ UNCHANGED cvars
    PROVE  UNCHANGED Pool!vars
<1>1. UNCHANGED <<now, cache, handles, conn, new, dest>>
  BY DEF ClearStart, ClearLock, ClearUnlock, DeleteMutex, Forget, InitMutex, InitLock,
         InitUnlock, AppGoto, Overlaps, cvars, cacheVars, userVars
<1>2. owner' = owner \/ (owner \in {None, App} /\ owner' \in {None, App})
  BY DEF ClearStart, ClearLock, ClearUnlock, DeleteMutex, Forget, InitMutex, InitLock,
         InitUnlock, AppGoto, Overlaps, cvars, cacheVars, userVars, CInv, Locks
<1>3. \A v \in Users : ((owner' = v) <=> (owner = v))
  BY <1>2, CacheAssumption
<1> QED BY <1>1, <1>3, SamePool

-----------------------------------------------------------------------------
(* The steps of the pool.                                                  *)

\* While nobody who holds the mutex has a connection, nobody uses the pool's.
LEMMA PoolUnused ==
    ASSUME CInv, \A v \in Users : conn[v] # None => owner # v
    PROVE  /\ Pool!NobodyPooled
           /\ \A v \in Users : conn[v] # None => new[v]
           /\ cache # None => IdleNodes = Entries(cache, Len(cache))
<1>1. \A v \in Users : conn[v] # None => new[v] /\ Loan(v) = Own(v)
  BY LoanFact DEF CInv, Hands, Inside
<1>2. \A v \in Users : Loan(v) # None => ~Loan(v).pooled
  BY <1>1, LoanFact DEF Own
<1>3. \A v \in Users : [w \in Users |-> Loan(w)][v] = Loan(v)
  OBVIOUS
<1>4. Pool!NobodyPooled
  BY <1>2, <1>3 DEF Pool!NobodyPooled
<1> QED BY <1>1, <1>4, IdleFact DEF IdleShape

\* The holder of the mutex is the only one.
LEMMA OthersSame ==
    ASSUME NEW u \in Users \cup {App}, owner = u, owner' = u,
           \A v \in Users : v # u => conn'[v] = conn[v] /\ dest'[v] = dest[v]
    PROVE  \A v \in Users : v # u => Loan(v)' = Loan(v)
BY DEF Loan

\* One thread's loan changes.
LEMMA UsingStep ==
    ASSUME NEW u \in Users, \A v \in Users : v # u => Loan(v)' = Loan(v)
    PROVE  Using' = [Using EXCEPT ![u] = Loan(u)']
BY DEF Using

\* Removing a node takes its entry away.
LEMMA WithoutEntries ==
    ASSUME NEW s \in Seq(Nodes), Orderly(s), NEW i \in DOMAIN s
    PROVE  Entries(Without(s, i), Len(s) - 1) = Entries(s, Len(s)) \ {Entry(s[i])}
<1> DEFINE w == Without(s, i)
<1>1. Len(s) \in Nat /\ i \in 1 .. Len(s) /\ DOMAIN s = 1 .. Len(s)
  BY LenProperties
<1>2. \A j \in 1 .. Len(s) - 1 : w[j] = s[IF j < i THEN j ELSE j + 1]
  BY WithoutFact
<1>3. \A j, k \in 1 .. Len(s) : Entry(s[j]) = Entry(s[k]) => j = k
  BY <1>1 DEF Orderly, Entry
<1>4. \A k \in 1 .. Len(s) : k # i => \E j \in 1 .. Len(s) - 1 : w[j] = s[k]
  <2> SUFFICES ASSUME NEW k \in 1 .. Len(s), k # i
               PROVE  \E j \in 1 .. Len(s) - 1 : w[j] = s[k]
    OBVIOUS
  <2>1. CASE k < i
    BY <1>1, <1>2, <2>1
  <2>2. CASE k > i
    <3>1. k - 1 \in 1 .. Len(s) - 1 /\ w[k - 1] = s[k]
      BY <1>1, <1>2, <2>2
    <3> QED BY <3>1
  <2> QED BY <1>1, <2>1, <2>2
<1>5. \A j \in 1 .. Len(s) - 1 : \E k \in 1 .. Len(s) : k # i /\ w[j] = s[k]
  BY <1>1, <1>2
<1> HIDE DEF w
<1>6. Entries(w, Len(s) - 1) = Entries(s, Len(s)) \ {Entry(s[i])}
  <2>1. ASSUME NEW j \in 1 .. Len(s) - 1
        PROVE  Entry(w[j]) \in Entries(s, Len(s)) \ {Entry(s[i])}
    <3>1. PICK k \in 1 .. Len(s) : k # i /\ w[j] = s[k]
      BY <1>5
    <3>2. Entry(w[j]) = Entry(s[k]) /\ Entry(s[k]) # Entry(s[i])
      BY <1>1, <1>3, <3>1
    <3> QED BY <3>2 DEF Entries
  <2>2. ASSUME NEW k \in 1 .. Len(s), Entry(s[k]) # Entry(s[i])
        PROVE  Entry(s[k]) \in Entries(w, Len(s) - 1)
    <3>1. k # i
      BY <2>2
    <3>2. PICK j \in 1 .. Len(s) - 1 : w[j] = s[k]
      BY <1>4, <3>1
    <3> QED BY <3>2 DEF Entries
  <2>3. Entries(w, Len(s) - 1) \subseteq Entries(s, Len(s)) \ {Entry(s[i])}
    BY <2>1 DEF Entries
  <2>4. Entries(s, Len(s)) \ {Entry(s[i])} \subseteq Entries(w, Len(s) - 1)
    BY <2>2 DEF Entries
  <2> QED BY <2>3, <2>4
<1> QED BY <1>6 DEF w

\* Lists that agree have the same entries; one more node is one more entry.
LEMMA SameEntries ==
    ASSUME NEW s, NEW t, NEW n \in Nat, \A i \in 1 .. n : s[i] = t[i]
    PROVE  Entries(s, n) = Entries(t, n)
BY DEF Entries

LEMMA OneMoreEntry ==
    ASSUME NEW s, NEW n \in Nat
    PROVE  Entries(s, n + 1) = Entries(s, n) \cup {Entry(s[n + 1])}
<1>1. \A i : i \in 1 .. n + 1 <=> i \in 1 .. n \/ i = n + 1
  OBVIOUS
<1> QED BY <1>1 DEF Entries

\* Time passes.
LEMMA TickStep == ASSUME Tick PROVE Pool!Tick
<1>1. now' = now + 1 /\ UNCHANGED <<cache, handles, conn, dest, new, owner>>
  BY DEF Tick, userVars
<1>2. (\A v \in Users : Loan(v)' = Loan(v)) /\ IdleNodes' = IdleNodes
  BY <1>1 DEF Loan, IdleNodes, Held
<1> QED BY <1>1, <1>2 DEF Pool!Tick

\* A stale node is deleted.
LEMMA ExpireStep ==
    ASSUME CInv, CInv', NEW u \in Users, Expire(u)
    PROVE  \E e \in IdleNodes : Pool!Expire(e)
<1>1. PICK i \in DOMAIN cache :
         /\ Expired(cache[i]) /\ cache' = Without(cache, i)
         /\ handles' = handles \ {cache[i].conn}
  BY DEF Expire
<1>2. /\ cache # None /\ owner = u /\ conn[u] = None
      /\ UNCHANGED <<now, owner, conn, dest, new>>
  BY DEF Expire, CInv, Hands, userVars
<1>3. /\ cache \in Seq(Nodes) /\ Orderly(cache) /\ Len(cache) \in Nat
      /\ DOMAIN cache = 1 .. Len(cache)
  BY <1>2, LenProperties DEF CInv, CacheTypeOK, Ordered
<1>4. Pool!NobodyPooled /\ IdleNodes = Entries(cache, Len(cache))
      /\ \A v \in Users : conn[v] # None => new[v]
  BY <1>2, PoolUnused
<1>5. cache' # None /\ Len(cache') = Len(cache) - 1
  BY <1>1, <1>3, WithoutFact, ListNotNone
<1>6. IdleNodes' = Entries(cache', Len(cache) - 1)
  BY <1>2, <1>4, <1>5, IdleFactNext DEF IdleShape
<1> DEFINE e == Entry(cache[i])
<1>7. IdleNodes' = IdleNodes \ {e}
  BY <1>1, <1>3, <1>4, <1>6, WithoutEntries
<1>8. e \in IdleNodes /\ Pool!Stale(e) /\ handles' = handles \ {e.conn}
  BY <1>1, <1>3, <1>4 DEF Entries, Entry, Expired, Pool!Stale
<1>9. \A v \in Users : Loan(v)' = Loan(v)
  BY <1>2, OthersSame DEF Loan
<1> HIDE DEF e
<1>10. Pool!Expire(e)
  BY <1>2, <1>4, <1>5, <1>7, <1>8, <1>9 DEF Pool!Expire
<1> QED BY <1>8, <1>10

\* A connection of the pool is taken.
LEMMA TakeStep ==
    ASSUME CInv, CInv', NEW u \in Users, Take(u)
    PROVE  \E e \in IdleNodes : Pool!Reuse(u, e)
<1>1. PICK i \in DOMAIN cache :
         /\ cache[i].host = dest[u]
         /\ cache' = Append(Without(cache, i), [cache[i] EXCEPT !.stamp = now])
         /\ conn' = [conn EXCEPT ![u] = cache[i].conn]
  BY DEF Take
<1> DEFINE w == Without(cache, i)
           n == [cache[i] EXCEPT !.stamp = now]
           e == Entry(cache[i])
<1>2. /\ cache # None /\ owner = u /\ conn[u] = None /\ NoneExpired
      /\ cache \in Seq(Nodes) /\ now \in Nat /\ Orderly(cache)
      /\ new' = [new EXCEPT ![u] = FALSE] /\ UNCHANGED <<now, owner, handles, dest>>
      /\ conn \in [Users -> Conns \cup {None}] /\ new \in [Users -> BOOLEAN]
      /\ \A k \in DOMAIN cache : cache[k].stamp <= now
  BY DEF Take, CInv, CacheTypeOK, Hands, Ordered
<1>3. /\ Len(cache) \in Nat /\ DOMAIN cache = 1 .. Len(cache) /\ cache[i] \in Nodes
      /\ cache[i].conn \in Conns /\ cache[i].stamp \in Nat
  <2>1. cache[i] \in Nodes
    BY <1>2, ElementOfSeq
  <2> QED BY <1>2, <2>1, LenProperties DEF Nodes
<1>4. w \in Seq(Nodes) /\ Len(w) = Len(cache) - 1 /\ Len(w) \in Nat
  <2>1. w \in Seq(Nodes) /\ Len(w) = Len(cache) - 1
    BY <1>2, WithoutFact
  <2> QED BY <2>1, LenProperties
<1>5. n \in Nodes /\ n.host = cache[i].host /\ n.conn = cache[i].conn /\ n.stamp = now
  BY <1>2, <1>3 DEF Nodes
<1>0. cache' = Append(w, n)
  BY <1>1
<1> HIDE DEF w, n
<1>6. /\ cache' \in Seq(Nodes) /\ Len(cache') = Len(cache)
      /\ \A j \in 1 .. Len(w) : cache'[j] = w[j]
      /\ cache'[Len(cache)] = n
  <2>1. /\ cache' \in Seq(Nodes) /\ Len(cache') = Len(w) + 1
        /\ \A j \in 1 .. Len(w) : cache'[j] = w[j]
        /\ cache'[Len(w) + 1] = n
    BY <1>0, <1>4, <1>5, AppendProperties
  <2>2. Len(w) + 1 = Len(cache)
    BY <1>3, <1>4
  <2> QED BY <2>1, <2>2
<1>7. cache' # None
  BY <1>6, ListNotNone
<1>8. conn'[u] = cache[i].conn /\ conn'[u] # None /\ ~new'[u]
      /\ \A v \in Users : v # u => conn'[v] = conn[v]
  BY <1>1, <1>2, <1>3, CacheAssumption
<1>9. Pool!NobodyPooled /\ IdleNodes = Entries(cache, Len(cache))
  BY <1>2, PoolUnused
<1>10. IdleNodes' = IdleNodes \ {e}
  <2>1. IdleNodes' = Entries(cache', Len(w))
    BY <1>4, <1>6, <1>8, IdleFactNext DEF IdleShape
  <2>2. Entries(cache', Len(w)) = Entries(w, Len(w))
    BY <1>4, <1>6, SameEntries
  <2>3. Entries(w, Len(w)) = Entries(cache, Len(cache)) \ {e}
    BY <1>2, <1>4, WithoutEntries DEF w
  <2> QED BY <1>9, <2>1, <2>2, <2>3
<1>11. e \in IdleNodes
  BY <1>3, <1>9 DEF Entries
<1>12. ~Pool!Stale(e) /\ e.host = dest[u] /\ e.conn = cache[i].conn
  BY <1>1, <1>2, <1>3 DEF NoneExpired, Expired, Pool!Stale, Entry
<1>13. Loan(u)' = [host |-> e.host, conn |-> e.conn, pooled |-> TRUE, used |-> now]
  BY <1>2, <1>5, <1>6, <1>7, <1>8, <1>12 DEF Loan
<1>14. Using' = [Using EXCEPT ![u] = Loan(u)'] /\ Using[u] = None
  BY <1>2, <1>8, OthersSame, UsingStep, LoanFact DEF Using
<1> HIDE DEF e
<1>15. Pool!Reuse(u, e)
  BY <1>2, <1>7, <1>9, <1>10, <1>12, <1>13, <1>14 DEF Pool!Reuse, Using
<1> QED BY <1>11, <1>15

\* A connection of the process's own is opened, with a pool or without.
LEMMA OpenStep ==
    ASSUME CInv, CInv', NEW u \in Users, Open(u)
    PROVE  \E h \in Hosts, k \in Conns : Pool!Connect(u, h, k)
<1>1. PICK k \in Conns \ handles :
         handles' = handles \cup {k} /\ conn' = [conn EXCEPT ![u] = k]
  BY DEF Open
<1>2. /\ conn[u] = None /\ new' = [new EXCEPT ![u] = TRUE] /\ dest[u] \in Hosts
      /\ UNCHANGED <<now, cache, owner, dest>> /\ GetsNone(u)
      /\ conn \in [Users -> Conns \cup {None}] /\ new \in [Users -> BOOLEAN]
  BY DEF Open, CInv, Hands, CacheTypeOK, GetsNone
<1>3. conn'[u] = k /\ new'[u] /\ \A v \in Users : v # u => conn'[v] = conn[v] /\ new'[v] = new[v]
  BY <1>1, <1>2
<1>4. \A v \in Users : v # u => Loan(v)' = Loan(v)
  BY <1>2, <1>3 DEF Loan
<1>5. Using' = [Using EXCEPT ![u] = Loan(u)'] /\ Using[u] = None
  BY <1>2, <1>4, UsingStep, LoanFact DEF Using
<1>6. cache # None => owner = u /\ \A i \in DOMAIN cache : cache[i].host # dest[u]
  BY <1>2 DEF GetsNone
<1>7. k # None
  BY CacheAssumption
<1>8. Loan(u)' = [host |-> dest[u], conn |-> k, pooled |-> cache # None, used |-> None]
  BY <1>2, <1>3, <1>6, <1>7 DEF Loan
<1>9. IdleNodes' = IdleNodes
  <2>1. Cached \subseteq handles /\ Held' = Held \cup {k}
    BY <1>2, <1>3, <1>7 DEF CInv, HandlesOwned, Held
  <2>2. cache # None => \A i \in DOMAIN cache : cache[i].conn \in Held' <=> cache[i].conn \in Held
    BY <1>1, <2>1 DEF Cached
  <2> QED BY <1>2, <2>2 DEF IdleNodes
<1>10. cache # None => Pool!NobodyPooled /\ \A e \in IdleNodes : e.host # dest[u]
  <2> SUFFICES ASSUME cache # None
               PROVE  Pool!NobodyPooled /\ \A e \in IdleNodes : e.host # dest[u]
    OBVIOUS
  <2>1. \A v \in Users : conn[v] # None => owner # v
    BY <1>2, <1>6
  <2>2. Pool!NobodyPooled
    BY <2>1, PoolUnused
  <2> QED BY <1>6, <2>2 DEF IdleNodes
<1>11. Pool!Connect(u, dest[u], k)
  BY <1>1, <1>2, <1>5, <1>8, <1>9, <1>10 DEF Pool!Connect, Using
<1> QED BY <1>2, <1>11

\* A connection of the pool is given back: its node is at its place already.
LEMMA ExchangeStep ==
    ASSUME CInv, CInv', NEW u \in Users, Exchange(u), ~new[u]
    PROVE  Pool!Return(u)
<1>1. /\ conn[u] # None /\ conn' = [conn EXCEPT ![u] = None]
      /\ UNCHANGED <<now, cache, handles, owner, dest, new>>
      /\ conn \in [Users -> Conns \cup {None}]
  BY DEF Exchange, cacheVars, CInv, CacheTypeOK, Hands
<1>2. /\ owner = u /\ cache # None /\ Len(cache) > 0
      /\ conn[u] = cache[Len(cache)].conn /\ dest[u] = cache[Len(cache)].host
      /\ cache \in Seq(Nodes) /\ Orderly(cache) /\ Len(cache) <= Size
  BY <1>1 DEF CInv, Hands, Inside, CacheTypeOK, Ordered
<1> DEFINE n == Len(cache) - 1
           e == Entry(cache[Len(cache)])
<1>3. Len(cache) \in Nat /\ n \in Nat /\ n \in 0 .. Len(cache) /\ n < Size /\ n + 1 = Len(cache)
  BY <1>2, LenProperties, CacheAssumption
<1>4. cache[Len(cache)].stamp \in Nat
  <2>1. cache[Len(cache)] \in Nodes
    BY <1>2, <1>3, ElementOfSeq
  <2> QED BY <2>1 DEF Nodes
<1>5. IdleNodes = Entries(cache, n) /\ Cardinality(IdleNodes) < Size
  <2>1. IdleNodes = Entries(cache, n)
    BY <1>1, IdleFact DEF IdleShape
  <2> QED BY <1>2, <1>3, <2>1, EntryCard
<1>6. conn'[u] = None /\ \A v \in Users : v # u => conn'[v] = conn[v]
  BY <1>1
<1>7. IdleNodes' = IdleNodes \cup {e}
  <2>1. \A v \in Users : conn'[v] # None => new'[v]
    BY <1>1, <1>2, <1>6 DEF CInv, Hands, Inside
  <2>2. IdleNodes' = Entries(cache, n + 1)
    BY <1>1, <1>2, <1>3, <2>1, IdleFactNext DEF IdleShape
  <2> QED BY <1>3, <1>5, <2>2, OneMoreEntry
<1>8. Loan(u)' = None /\ Using' = [Using EXCEPT ![u] = None]
  <2>1. Loan(u)' = None
    BY <1>6 DEF Loan
  <2> QED BY <1>1, <1>2, <1>6, <2>1, OthersSame, UsingStep
<1>9. /\ Using[u] # None
      /\ Using[u] = [host |-> dest[u], conn |-> conn[u], pooled |-> TRUE,
                     used |-> cache[Len(cache)].stamp]
  BY <1>1, <1>2, LoanFact DEF Using
<1>10. e = [host |-> dest[u], conn |-> conn[u], used |-> cache[Len(cache)].stamp]
  BY <1>2 DEF Entry
<1>11. cache[Len(cache)].stamp # None
  BY <1>4, CacheAssumption
<1> HIDE DEF e, n
<1>12. Pool!TakeBack(e)
  BY <1>1, <1>5, <1>7, PoolCardinality DEF Pool!TakeBack
<1> QED BY <1>1, <1>8, <1>9, <1>10, <1>11, <1>12 DEF Pool!Return, Using

\* A new connection enters the pool, in the place of a least recently used one if it
\* is full; without a pool nobody keeps it.
LEMMA PutStep ==
    ASSUME CInv, CInv', NEW u \in Users, Put(u)
    PROVE  Pool!Return(u)
<1>1. /\ conn[u] # None /\ conn' = [conn EXCEPT ![u] = None] /\ new[u] /\ Outside(u)
      /\ UNCHANGED <<now, owner, dest, new>> /\ now \in Nat
      /\ conn \in [Users -> Conns \cup {None}] /\ dest[u] \in Hosts
  BY DEF Put, CInv, CacheTypeOK, Hands
<1>2. conn'[u] = None /\ \A v \in Users : v # u => conn'[v] = conn[v]
  BY <1>1
<1>3. Loan(u)' = None
  BY <1>2 DEF Loan
<1>4. CASE cache = None /\ UNCHANGED <<cache, handles>>
  <2>1. \A v \in Users : v # u => Loan(v)' = Loan(v)
    BY <1>1, <1>2, <1>4 DEF Loan
  <2>2. Using' = [Using EXCEPT ![u] = None]
    BY <1>3, <2>1, UsingStep
  <2>3. Using[u] = Own(u) /\ Using[u] # None /\ ~Own(u).pooled
    BY <1>1, <1>4, LoanFact DEF Using, Own
  <2>4. IdleNodes' = IdleNodes
    BY <1>4 DEF IdleNodes
  <2> QED BY <1>1, <1>4, <2>2, <2>3, <2>4 DEF Pool!Return, Using
<1>5. CASE cache # None /\ owner = u
  <2> DEFINE full == Len(cache) >= Size
             kept == IF full THEN Without(cache, 1) ELSE cache
             n == [host |-> dest[u], conn |-> conn[u], stamp |-> now]
             e == [host |-> dest[u], conn |-> conn[u], used |-> now]
  <2>1. /\ cache' = Append(kept, n)
        /\ handles' = IF full THEN handles \ {cache[1].conn} ELSE handles
    BY <1>5 DEF Put
  <2>2. /\ cache \in Seq(Nodes) /\ Orderly(cache) /\ Len(cache) <= Size
        /\ Len(cache) \in Nat /\ DOMAIN cache = 1 .. Len(cache) /\ Size \in Nat /\ Size > 0
    BY <1>5, LenProperties, CacheAssumption DEF CInv, CacheTypeOK, Ordered
  <2>3. n \in Nodes /\ Entry(n) = e
    BY <1>1 DEF Nodes, CInv, CacheTypeOK, Entry
  <2>4. IdleNodes = Entries(cache, Len(cache)) /\ Cardinality(IdleNodes) = Len(cache)
    <3>1. \A v \in Users : conn[v] # None => new[v]
      BY <1>1, <1>5 DEF CInv, Hands, Inside
    <3>2. IdleNodes = Entries(cache, Len(cache))
      BY <1>5, <3>1, IdleFact DEF IdleShape
    <3>3. Len(cache) \in 0 .. Len(cache)
      BY <2>2
    <3> QED BY <2>2, <3>2, <3>3, EntryCard
  <2>5. kept \in Seq(Nodes) /\ Len(kept) \in Nat
        /\ Entries(kept, Len(kept)) = IF full THEN IdleNodes \ {Entry(cache[1])} ELSE IdleNodes
    <3>1. CASE full
      <4>1. 1 \in DOMAIN cache
        BY <2>2, <3>1
      <4>2. Without(cache, 1) \in Seq(Nodes) /\ Len(Without(cache, 1)) = Len(cache) - 1
        BY <2>2, <4>1, WithoutFact
      <4>3. Entries(Without(cache, 1), Len(cache) - 1) = IdleNodes \ {Entry(cache[1])}
        BY <2>2, <2>4, <4>1, WithoutEntries
      <4>4. kept = Without(cache, 1)
        BY <3>1
      <4> HIDE DEF kept
      <4>5. Len(kept) = Len(cache) - 1 /\ kept \in Seq(Nodes)
        BY <4>2, <4>4
      <4>6. Len(kept) \in Nat
        BY <4>5, LenProperties
      <4> HIDE DEF full
      <4> QED BY <3>1, <4>3, <4>4, <4>5, <4>6
    <3>2. CASE ~full
      BY <2>2, <2>4, <3>2
    <3> QED BY <3>1, <3>2
  <2> HIDE DEF kept, n
  <2>6. /\ cache' \in Seq(Nodes) /\ Len(cache') = Len(kept) + 1
        /\ \A j \in 1 .. Len(kept) : cache'[j] = kept[j]
        /\ cache'[Len(kept) + 1] = n
    BY <2>1, <2>3, <2>5, AppendProperties
  <2>7. cache' # None
    BY <2>6, ListNotNone
  <2>8. IdleNodes' = Entries(kept, Len(kept)) \cup {e}
    <3>1. \A v \in Users : conn'[v] # None => new'[v]
      BY <1>1, <1>2, <1>5 DEF CInv, Hands, Inside
    <3>2. IdleNodes' = Entries(cache', Len(kept) + 1)
      BY <2>6, <2>7, <3>1, IdleFactNext DEF IdleShape
    <3>3. Entries(cache', Len(kept)) = Entries(kept, Len(kept))
      BY <2>5, <2>6, SameEntries
    <3>4. Entries(cache', Len(kept) + 1) = Entries(cache', Len(kept)) \cup {Entry(n)}
      BY <2>5, <2>6, OneMoreEntry
    <3> QED BY <2>3, <3>2, <3>3, <3>4
  <2>9. Pool!TakeBack(e)
    <3>1. CASE ~full
      <4>1. IdleNodes' = IdleNodes \cup {e} /\ handles' = handles /\ Len(cache) < Size
        BY <2>1, <2>2, <2>5, <2>8, <3>1
      <4> HIDE DEF e, full
      <4> QED BY <2>4, <4>1, PoolCardinality DEF Pool!TakeBack
    <3>2. CASE full
      <4> DEFINE old == Entry(cache[1])
      <4>1. old \in IdleNodes /\ old.conn = cache[1].conn
        BY <2>2, <2>4, <3>2 DEF Entries, Entry
      <4>2. \A other \in IdleNodes : old.used <= other.used
        <5>1. \A j \in 1 .. Len(cache) : cache[1].stamp <= cache[j].stamp
          BY <2>2 DEF Orderly
        <5>2. ASSUME NEW other \in IdleNodes PROVE old.used <= other.used
          <6>1. PICK j \in 1 .. Len(cache) : other = Entry(cache[j])
            BY <2>4 DEF Entries
          <6> QED BY <5>1, <6>1 DEF Entry
        <5> QED BY <5>2
      <4>3. IdleNodes' = (IdleNodes \ {old}) \cup {e} /\ handles' = handles \ {old.conn}
        BY <2>1, <2>5, <2>8, <3>2, <4>1
      <4>4. Cardinality(IdleNodes) >= Size
        BY <2>4, <3>2
      <4> HIDE DEF e, full, old
      <4> QED BY <4>1, <4>2, <4>3, <4>4, PoolCardinality DEF Pool!TakeBack
    <3> QED BY <3>1, <3>2
  <2>10. Using' = [Using EXCEPT ![u] = None]
    BY <1>1, <1>2, <1>3, <1>5, OthersSame, UsingStep
  <2>11. Using[u] = [host |-> dest[u], conn |-> conn[u], pooled |-> TRUE, used |-> None]
         /\ Using[u] # None
    BY <1>1, <1>5, LoanFact DEF Using
  <2> QED BY <1>1, <1>5, <2>7, <2>9, <2>10, <2>11 DEF Pool!Return, Using
<1> QED BY <1>4, <1>5 DEF Put

\* A new connection is forgotten, after room has been made for it.
LEMMA PutFailsStep ==
    ASSUME CInv, CInv', NEW u \in Users, PutFails(u)
    PROVE  Pool!Forget(u)
<1>1. /\ conn[u] # None /\ conn' = [conn EXCEPT ![u] = None] /\ new[u]
      /\ cache # None /\ owner = u /\ UNCHANGED <<now, owner, dest, new>>
      /\ conn \in [Users -> Conns \cup {None}]
  BY DEF PutFails, CInv, CacheTypeOK, Hands
<1>2. conn'[u] = None /\ \A v \in Users : v # u => conn'[v] = conn[v]
  BY <1>1
<1>3. /\ cache \in Seq(Nodes) /\ Orderly(cache)
      /\ Len(cache) \in Nat /\ DOMAIN cache = 1 .. Len(cache) /\ Size \in Nat /\ Size > 0
  BY <1>1, LenProperties, CacheAssumption DEF CInv, CacheTypeOK, Ordered
<1>4. IdleNodes = Entries(cache, Len(cache)) /\ Cardinality(IdleNodes) = Len(cache)
  <2>1. \A v \in Users : conn[v] # None => new[v]
    BY <1>1 DEF CInv, Hands, Inside
  <2>2. IdleNodes = Entries(cache, Len(cache))
    BY <1>1, <2>1, IdleFact DEF IdleShape
  <2>3. Len(cache) \in 0 .. Len(cache)
    BY <1>3
  <2> QED BY <1>3, <2>2, <2>3, EntryCard
<1>5. cache' # None => IdleNodes' = Entries(cache', Len(cache'))
  <2>1. \A v \in Users : conn'[v] # None => new'[v]
    BY <1>1, <1>2 DEF CInv, Hands, Inside
  <2> QED BY <2>1, IdleFactNext DEF IdleShape
<1>6. Using' = [Using EXCEPT ![u] = None]
  <2>1. Loan(u)' = None
    BY <1>2 DEF Loan
  <2> QED BY <1>1, <1>2, <2>1, OthersSame, UsingStep
<1>7. /\ Using[u] = [host |-> dest[u], conn |-> conn[u], pooled |-> TRUE, used |-> None]
      /\ Using[u] # None
  BY <1>1, LoanFact DEF Using
<1>8. CASE Len(cache) >= Size
  <2> DEFINE old == Entry(cache[1])
  <2>1. cache' = Without(cache, 1) /\ handles' = handles \ {cache[1].conn}
    BY <1>8 DEF PutFails
  <2>2. 1 \in DOMAIN cache
    BY <1>3, <1>8
  <2>3. cache' # None /\ Len(cache') = Len(cache) - 1
    BY <1>3, <2>1, <2>2, WithoutFact, ListNotNone
  <2>4. IdleNodes' = IdleNodes \ {old}
    BY <1>3, <1>4, <1>5, <2>1, <2>2, <2>3, WithoutEntries
  <2>5. old \in IdleNodes /\ old.conn = cache[1].conn
    BY <1>3, <1>4, <2>2 DEF Entries, Entry
  <2>6. ASSUME NEW other \in IdleNodes PROVE old.used <= other.used
    <3>1. PICK j \in 1 .. Len(cache) : other = Entry(cache[j])
      BY <1>4 DEF Entries
    <3>2. cache[1].stamp <= cache[j].stamp
      BY <1>3, <2>2 DEF Orderly
    <3> QED BY <3>1, <3>2 DEF Entry
  <2> HIDE DEF old
  <2>7. \E o \in IdleNodes :
           /\ \A other \in IdleNodes : o.used <= other.used
           /\ IdleNodes' = IdleNodes \ {o} /\ handles' = handles \ {o.conn}
    BY <2>1, <2>4, <2>5, <2>6
  <2> QED BY <1>1, <1>4, <1>6, <1>7, <1>8, <2>3, <2>7, PoolCardinality DEF Pool!Forget, Using
<1>9. CASE ~(Len(cache) >= Size)
  <2>1. UNCHANGED <<cache, handles>> /\ Len(cache) < Size
    BY <1>3, <1>9 DEF PutFails
  <2>2. IdleNodes' = IdleNodes
    BY <1>1, <1>4, <1>5, <2>1
  <2> QED BY <1>1, <1>4, <1>6, <1>7, <2>1, <2>2, PoolCardinality DEF Pool!Forget, Using
<1> QED BY <1>8, <1>9

\* The application closes the pool.
LEMMA ClearStep == ASSUME CInv, Clear PROVE Pool!Close
<1>1. /\ cache # None /\ cache' = None /\ owner = App
      /\ UNCHANGED <<now, owner, conn, dest, new>>
      /\ handles' = handles \ {cache[i].conn : i \in DOMAIN cache}
  BY DEF Clear, AppGoto, userVars, CInv, Phases, Locks
<1>2. /\ Pool!NobodyPooled /\ IdleNodes = Entries(cache, Len(cache))
      /\ \A v \in Users : owner # v
  BY <1>1, PoolUnused, CacheAssumption
<1>3. DOMAIN cache = 1 .. Len(cache)
  BY <1>1, LenProperties DEF CInv, CacheTypeOK
<1>4. {e.conn : e \in IdleNodes} = {cache[i].conn : i \in DOMAIN cache}
  <2>1. \A i : Entry(cache[i]).conn = cache[i].conn
    BY DEF Entry
  <2> QED BY <1>2, <1>3, <2>1 DEF Entries
<1>5. IdleNodes' = {}
  BY <1>1 DEF IdleNodes
<1>6. Using' = Using
  BY <1>1, <1>2 DEF Using, Loan
<1> QED BY <1>1, <1>2, <1>4, <1>5, <1>6 DEF Pool!Close, Using

\* The application opens it again, or cannot.
LEMMA InitCacheStep ==
    ASSUME CInv, InitCache
    PROVE  Pool!Reopen \/ UNCHANGED Pool!vars
<1>1. /\ cache = None /\ owner = App
      /\ UNCHANGED <<now, owner, handles, conn, dest, new>>
      /\ cache' = cache \/ cache' = <<>>
  BY DEF InitCache, AppGoto, userVars, CInv, Phases, Locks
<1>2. CASE cache' = cache
  BY <1>1, <1>2, SamePool
<1>3. CASE cache' = <<>>
  <2>1. cache' # None /\ DOMAIN cache' = {}
    BY <1>3, EmptyList
  <2>2. IdleNodes = {} /\ IdleNodes' = {}
    BY <1>1, <2>1 DEF IdleNodes
  <2>3. \A v \in Users : owner # v
    BY <1>1, CacheAssumption
  <2>4. Using' = Using
    BY <1>1, <2>3 DEF Using, Loan
  <2> QED BY <1>1, <2>1, <2>2, <2>4 DEF Pool!Reopen, Using
<1> QED BY <1>1, <1>2, <1>3

\* Every step of the cache is a step of the pool or none.
LEMMA StepRefines ==
    ASSUME CInv, CInv', [CacheNext]_cvars
    PROVE  [Pool!Next]_Pool!vars
<1>1. CASE UNCHANGED cvars
  BY <1>1, AppStutterSteps
<1>2. CASE CacheNext
  <2>1. ~fault
    BY <1>2 DEF CacheNext
  <2>2. ASSUME NEW u \in Users,
               (\E h \in Hosts : Post(u, h)) \/ PostSteps(u) \/ OpenFails(u) \/ Exchange(u)
        PROVE  [Pool!Next]_Pool!vars
    <3>1. CASE Expire(u)
      BY <3>1, ExpireStep DEF Pool!Next
    <3>2. CASE Take(u)
      BY <3>2, TakeStep DEF Pool!Next
    <3>3. CASE Open(u)
      BY <3>3, OpenStep DEF Pool!Next
    <3>4. CASE Put(u)
      BY <3>4, PutStep DEF Pool!Next
    <3>7. CASE PutFails(u)
      BY <3>7, PutFailsStep DEF Pool!Next
    <3>5. CASE Exchange(u) /\ ~new[u]
      BY <3>5, ExchangeStep DEF Pool!Next
    <3>6. CASE \/ \E h \in Hosts : Post(u, h)
               \/ LockTest(u) \/ Acquire(u) \/ Unguarded(u) \/ OpenFails(u) \/ Unlock(u)
               \/ Exchange(u) /\ new[u]
      BY <2>1, <3>6, StutterSteps
    <3> QED BY <2>2, <3>1, <3>2, <3>3, <3>4, <3>5, <3>6, <3>7 DEF PostSteps
  <2>3. CASE AppSteps \/ ClearStart \/ InitMutex
    <3>1. CASE Clear
      BY <3>1, ClearStep DEF Pool!Next
    <3>2. CASE InitCache
      BY <3>2, InitCacheStep DEF Pool!Next
    <3> QED BY <2>1, <2>3, <3>1, <3>2, AppStutterSteps DEF AppSteps
  <2>4. CASE Tick
    BY <2>4, TickStep DEF Pool!Next
  <2> QED BY <1>2, <2>2, <2>3, <2>4 DEF CacheNext
<1> QED BY <1>1, <1>2

\* The initial state of the cache is the pool's.
LEMMA InitRefines == ASSUME CacheInit PROVE Pool!Init
<1>1. now = 0 /\ handles = {} /\ cache = <<>> /\ \A v \in Users : conn[v] = None
  BY DEF CacheInit
<1>2. cache # None /\ IdleNodes = {}
  BY <1>1, EmptyList DEF IdleNodes
<1>3. Using = [v \in Users |-> None]
  BY <1>1 DEF Using, Loan
<1> QED BY <1>1, <1>2, <1>3 DEF Pool!Init, Using

\* The cache keeps the promises of the pool: one exchange at a time, a connection is
\* used again while it is fresh, a least recently used one makes room, and no connection
\* of the pool is forgotten.
THEOREM CacheImplementsPool == CacheSpec => PoolSpec
<1>1. CacheInit => Pool!Init
  BY InitRefines
<1>2. CInv /\ CInv' /\ [CacheNext]_cvars => [Pool!Next]_Pool!vars
  BY StepRefines
<1> QED BY <1>1, <1>2, CacheInvariant, PTL DEF CacheSpec, PoolSpec, Pool!Spec
====
