-------------------------- MODULE ConnectionCache --------------------------
(***************************************************************************)
(* The cache of persistent connections of the curl build                   *)
(* (chttp_persistent_connection) and cg_http_request_post, which takes its *)
(* mutex, looks for a connection, makes the whole exchange, puts a new     *)
(* connection into the cache and gives the mutex back.  Cache and mutex    *)
(* are static: every control point and device of the process shares them.  *)
(* A control point that is created calls _init and one that is deleted     *)
(* calls _clear, which deletes cache and mutex whoever else uses them.     *)
(*                                                                         *)
(* A use of a deleted mutex, an access to the cache without the mutex and  *)
(* an unlock by a thread that has not locked are undefined: the step that  *)
(* makes one sets fault, and the model stops there.                        *)
(***************************************************************************)
EXTENDS Integers, Sequences

CONSTANTS
    Users,    \* threads that post requests
    Hosts,    \* pairs of address and port they post to
    Conns,    \* curl handles
    Size,     \* CG_HTTP_PERSISTENT_CACHE_SIZE
    Period,   \* CG_HTTP_PERSISTENT_TIMEOUT_PERIOD
    App,      \* the application's thread, which creates and deletes control points
    None

ASSUME CacheAssumption ==
    /\ Size \in Nat \ {0} /\ Period \in Nat
    /\ App \notin Users /\ None \notin Users \cup Conns \cup Hosts \cup {App} \cup Nat
    /\ None \notin Seq([host : Hosts, conn : Conns, stamp : Nat])
    /\ None \notin [host : Hosts, conn : Conns, pooled : BOOLEAN, used : Nat \cup {None}]

VARIABLES
    now,      \* the system's time
    cache,    \* cache: nodes in the order of their last use, or None (NULL)
    mutex,    \* persistent_connection_mutex: "none" (NULL), "live", or "freed"
    owner,    \* who holds the mutex
    handles,  \* curl handles that exist
    pc,       \* where each posting thread is
    dest,     \* the host of each thread's request
    conn,     \* curl: the handle each thread has in its hands
    new,      \* newCurl
    appPc,    \* where the application is
    fault,    \* something undefined has been done
    raced     \* history: a post overlapped with _init or _clear

cacheVars == <<now, cache, mutex, owner, handles>>
userVars == <<pc, dest, conn, new>>
cvars == <<cacheVars, userVars, appPc, fault, raced>>

Nodes == [host : Hosts, conn : Conns, stamp : Nat]
Goto(u, l) == pc' = [pc EXCEPT ![u] = l]

Expired(n) == now > n.stamp + Period

\* cg_list_remove of the i-th node.
Without(s, i) == [j \in 1 .. Len(s) - 1 |-> IF j < i THEN s[j] ELSE s[j + 1]]

CacheInit ==
    /\ now = 0 /\ cache = <<>> /\ mutex = "live" /\ owner = None /\ handles = {}
    /\ pc = [u \in Users |-> "idle"]
    /\ dest = [u \in Users |-> None] /\ conn = [u \in Users |-> None]
    /\ new = [u \in Users |-> FALSE]
    /\ appPc = "idle" /\ fault = FALSE /\ raced = FALSE

-----------------------------------------------------------------------------
(* A post: cg_http_request_post.                                           *)

Post(u, h) ==
    /\ pc[u] = "idle" /\ Goto(u, "lock")
    /\ dest' = [dest EXCEPT ![u] = h]
    /\ raced' = (raced \/ appPc # "idle")
    /\ UNCHANGED <<cacheVars, conn, new, appPc, fault>>

\* Mutant of LockTest: a build without the lock.
LockNever(u) ==
    /\ pc[u] = "lock" /\ Goto(u, "get")
    /\ UNCHANGED <<cacheVars, dest, conn, new, appPc, fault, raced>>

\* _lock does nothing when there is no mutex...
LockTest(u) ==
    /\ pc[u] = "lock"
    /\ Goto(u, IF mutex = "none" THEN "get" ELSE "acquire")
    /\ UNCHANGED <<cacheVars, dest, conn, new, appPc, fault, raced>>

\* ... and reads the pointer once more to lock it.
Acquire(u) ==
    /\ pc[u] = "acquire"
    /\ \/ /\ mutex = "live" /\ owner = None
          /\ owner' = u /\ Goto(u, "get") /\ UNCHANGED fault
       \/ /\ mutex # "live"
          /\ fault' = TRUE /\ UNCHANGED <<owner, pc>>
    /\ UNCHANGED <<now, cache, mutex, handles, dest, conn, new, appPc, raced>>

\* The cache is there, and the thread has not locked it.
Unguarded(u) ==
    /\ pc[u] \in {"get", "put"} /\ cache # None /\ owner # u
    /\ fault' = TRUE
    /\ UNCHANGED <<cacheVars, userVars, appPc, raced>>

\* Mutant of Expire: the connection is closed and its node stays.
ExpireKeeping(u) ==
    /\ pc[u] = "get" /\ cache # None /\ owner = u
    /\ \E i \in DOMAIN cache :
          /\ Expired(cache[i]) /\ cache[i].conn \in handles
          /\ \A j \in 1 .. i - 1 : ~Expired(cache[j])
          /\ handles' = handles \ {cache[i].conn}
    /\ UNCHANGED <<now, cache, mutex, owner, userVars, appPc, fault, raced>>

\* _get first deletes the nodes that have expired, one after the other.
Expire(u) ==
    /\ pc[u] = "get" /\ cache # None /\ owner = u
    /\ \E i \in DOMAIN cache :
          /\ Expired(cache[i])
          /\ \A j \in 1 .. i - 1 : ~Expired(cache[j])
          /\ cache' = Without(cache, i)
          /\ handles' = handles \ {cache[i].conn}
    /\ UNCHANGED <<now, mutex, owner, userVars, appPc, fault, raced>>

NoneExpired == \A i \in DOMAIN cache : ~Expired(cache[i])

\* Mutant of Take: the node is not moved to the end of the list.
TakeInPlace(u) ==
    /\ pc[u] = "get" /\ cache # None /\ owner = u /\ NoneExpired
    /\ \E i \in DOMAIN cache :
          /\ cache[i].host = dest[u]
          /\ cache' = [cache EXCEPT ![i].stamp = now]
          /\ conn' = [conn EXCEPT ![u] = cache[i].conn]
    /\ new' = [new EXCEPT ![u] = FALSE]
    /\ Goto(u, "exchange")
    /\ UNCHANGED <<now, mutex, owner, handles, dest, appPc, fault, raced>>

\* A node for the host is moved to the end of the list.
Take(u) ==
    /\ pc[u] = "get" /\ cache # None /\ owner = u /\ NoneExpired
    /\ \E i \in DOMAIN cache :
          /\ cache[i].host = dest[u]
          /\ cache' = Append(Without(cache, i), [cache[i] EXCEPT !.stamp = now])
          /\ conn' = [conn EXCEPT ![u] = cache[i].conn]
    /\ new' = [new EXCEPT ![u] = FALSE]
    /\ Goto(u, "exchange")
    /\ UNCHANGED <<now, mutex, owner, handles, dest, appPc, fault, raced>>

\* _get returns NULL: without a cache, or when no node is the host's.
GetsNone(u) ==
    /\ pc[u] = "get"
    /\ \/ cache = None
       \/ /\ cache # None /\ owner = u /\ NoneExpired
          /\ \A i \in DOMAIN cache : cache[i].host # dest[u]

Open(u) ==
    /\ GetsNone(u)
    /\ \E k \in Conns \ handles :
          /\ handles' = handles \cup {k}
          /\ conn' = [conn EXCEPT ![u] = k]
    /\ new' = [new EXCEPT ![u] = TRUE]
    /\ Goto(u, "exchange")
    /\ UNCHANGED <<now, cache, mutex, owner, dest, appPc, fault, raced>>

\* Mutant of OpenFails: the post returns without the unlock.
OpenFailsLocked(u) ==
    /\ GetsNone(u) /\ Goto(u, "idle")
    /\ UNCHANGED <<cacheVars, dest, conn, new, appPc, fault, raced>>

\* curl_easy_init fails: the post returns without a response.
OpenFails(u) ==
    /\ GetsNone(u) /\ Goto(u, "unlock")
    /\ UNCHANGED <<cacheVars, dest, conn, new, appPc, fault, raced>>

\* curl_easy_perform returns, with an answer, an error or after its time limit.  The
\* connection of a failed exchange is kept like any other.
Exchange(u) ==
    /\ pc[u] = "exchange"
    /\ IF new[u]
       THEN Goto(u, "put") /\ UNCHANGED conn
       ELSE Goto(u, "unlock") /\ conn' = [conn EXCEPT ![u] = None]
    /\ UNCHANGED <<cacheVars, dest, new, appPc, fault, raced>>

\* Mutants of Put: the newest node makes room, the node that makes room is not deleted,
\* the node has no host.
PutWith(u, i, closed, host) ==
    /\ pc[u] = "put"
    /\ \/ cache = None /\ UNCHANGED <<cache, handles>>
       \/ /\ cache # None /\ owner = u
          /\ LET full == Len(cache) >= Size
                 kept == IF full THEN Without(cache, i) ELSE cache
             IN  /\ cache' = Append(kept, [host |-> host, conn |-> conn[u], stamp |-> now])
                 /\ handles' = IF full THEN handles \ closed ELSE handles
    /\ conn' = [conn EXCEPT ![u] = None]
    /\ Goto(u, "unlock")
    /\ UNCHANGED <<now, mutex, owner, dest, new, appPc, fault, raced>>
PutEvictingNewest(u) == PutWith(u, Len(cache), {cache[Len(cache)].conn}, dest[u])
PutLeaking(u) == PutWith(u, 1, {}, dest[u])
PutWithoutHost(u) == PutWith(u, 1, {cache[1].conn}, None)

\* _put enters a new connection; the first node, not used for the longest time, makes
\* room.  Without a cache _put returns FALSE, and nobody keeps the handle.  (The case
\* of a node that is there for the host already cannot happen: the mutex has been held
\* since _get found none.)
Put(u) ==
    /\ pc[u] = "put"
    /\ \/ /\ cache = None /\ UNCHANGED <<cache, handles>>
       \/ /\ cache # None /\ owner = u
          /\ LET full == Len(cache) >= Size
                 kept == IF full THEN Without(cache, 1) ELSE cache
             IN  /\ cache' = Append(kept, [host |-> dest[u], conn |-> conn[u], stamp |-> now])
                 /\ handles' = IF full THEN handles \ {cache[1].conn} ELSE handles
    /\ conn' = [conn EXCEPT ![u] = None]
    /\ Goto(u, "unlock")
    /\ UNCHANGED <<now, mutex, owner, dest, new, appPc, fault, raced>>

\* Room has been made, and there is no memory for the new node: _put returns FALSE, which
\* the post ignores, and nobody keeps the handle.
PutFails(u) ==
    /\ pc[u] = "put" /\ cache # None /\ owner = u
    /\ IF Len(cache) >= Size
       THEN cache' = Without(cache, 1) /\ handles' = handles \ {cache[1].conn}
       ELSE UNCHANGED <<cache, handles>>
    /\ conn' = [conn EXCEPT ![u] = None]
    /\ Goto(u, "unlock")
    /\ UNCHANGED <<now, mutex, owner, dest, new, appPc, fault, raced>>

Unlock(u) ==
    /\ pc[u] = "unlock"
    /\ IF mutex = "none" \/ (mutex = "live" /\ owner = u)
       THEN /\ Goto(u, "idle")
            /\ owner' = IF owner = u THEN None ELSE owner
            /\ UNCHANGED fault
       ELSE fault' = TRUE /\ UNCHANGED <<pc, owner>>
    /\ UNCHANGED <<now, cache, mutex, handles, dest, conn, new, appPc, raced>>

-----------------------------------------------------------------------------
(* The application: cg_upnp_controlpoint_delete calls _clear,              *)
(* cg_upnp_controlpoint_new and cg_upnp_device_new call _init.             *)

AppGoto(l) == appPc' = l /\ UNCHANGED userVars
Overlaps == raced' = (raced \/ \E u \in Users : pc[u] # "idle")

ClearStart ==
    /\ appPc = "idle" /\ cache # None
    /\ AppGoto("clearLock") /\ Overlaps
    /\ UNCHANGED <<cacheVars, fault>>

ClearLock ==
    /\ appPc = "clearLock" /\ owner = None /\ owner' = App
    /\ AppGoto("clear")
    /\ UNCHANGED <<now, cache, mutex, handles, fault, raced>>

\* Every node with its connection is deleted, then the list.
Clear ==
    /\ appPc = "clear"
    /\ handles' = handles \ {cache[i].conn : i \in DOMAIN cache}
    /\ cache' = None
    /\ AppGoto("unlock")
    /\ UNCHANGED <<now, mutex, owner, fault, raced>>

ClearUnlock ==
    /\ appPc = "unlock" /\ owner' = None
    /\ AppGoto("delete")
    /\ UNCHANGED <<now, cache, mutex, handles, fault, raced>>

\* A thread that has the mutex now, or is blocked in it, has lost it.  One that has
\* tested the pointer may not have called pthread_mutex_lock yet.
DeleteMutex ==
    /\ appPc = "delete" /\ mutex' = "freed"
    /\ \/ fault' = TRUE /\ (owner # None \/ \E u \in Users : pc[u] = "acquire")
       \/ UNCHANGED fault /\ owner = None
    /\ AppGoto("forget")
    /\ UNCHANGED <<now, cache, owner, handles, raced>>

Forget ==
    /\ appPc = "forget" /\ mutex' = "none"
    /\ AppGoto("idle")
    /\ UNCHANGED <<now, cache, owner, handles, fault, raced>>

\* _init when there is no cache.
InitMutex ==
    /\ appPc = "idle" /\ cache = None
    /\ mutex' = "live"
    /\ AppGoto("initLock") /\ Overlaps
    /\ UNCHANGED <<now, cache, owner, handles, fault>>

InitLock ==
    /\ appPc = "initLock" /\ owner = None /\ owner' = App
    /\ AppGoto("init")
    /\ UNCHANGED <<now, cache, mutex, handles, fault, raced>>

\* Without memory for the list, _init unlocks and deletes the mutex again.
InitCache ==
    /\ appPc = "init"
    /\ \/ cache' = <<>> /\ AppGoto("initUnlock")
       \/ UNCHANGED cache /\ AppGoto("unlock")
    /\ UNCHANGED <<now, mutex, owner, handles, fault, raced>>

InitUnlock ==
    /\ appPc = "initUnlock" /\ owner' = None
    /\ AppGoto("idle")
    /\ UNCHANGED <<now, cache, mutex, handles, fault, raced>>

AppSteps ==
    \/ ClearLock \/ Clear \/ ClearUnlock \/ DeleteMutex \/ Forget
    \/ InitLock \/ InitCache \/ InitUnlock

-----------------------------------------------------------------------------
\* _get reads the clock once: it takes no time that counts.
Tick ==
    /\ \A u \in Users : pc[u] # "get"
    /\ now' = now + 1
    /\ UNCHANGED <<cache, mutex, owner, handles, userVars, appPc, fault, raced>>

PostSteps(u) ==
    \/ LockTest(u) \/ Acquire(u) \/ Unguarded(u) \/ Expire(u) \/ Take(u)
    \/ Open(u) \/ Put(u) \/ PutFails(u) \/ Unlock(u)

CacheNext ==
    /\ ~fault
    /\ \/ Tick \/ ClearStart \/ InitMutex \/ AppSteps
       \/ \E u \in Users :
             \/ \E h \in Hosts : Post(u, h)
             \/ PostSteps(u) \/ OpenFails(u) \/ Exchange(u)

CacheSpec == CacheInit /\ [][CacheNext]_cvars

-----------------------------------------------------------------------------
(* Properties.                                                             *)

CacheTypeOK ==
    /\ now \in Nat
    /\ cache = None \/ cache \in Seq(Nodes)
    /\ mutex \in {"none", "live", "freed"} /\ owner \in Users \cup {App, None}
    /\ handles \subseteq Conns
    /\ pc \in [Users -> {"idle", "lock", "acquire", "get", "exchange", "put", "unlock"}]
    /\ dest \in [Users -> Hosts \cup {None}] /\ conn \in [Users -> Conns \cup {None}]
    /\ new \in [Users -> BOOLEAN]
    /\ appPc \in {"idle", "clearLock", "clear", "unlock", "delete", "forget",
                  "initLock", "init", "initUnlock"}
    /\ fault \in BOOLEAN /\ raced \in BOOLEAN

Cached == IF cache = None THEN {} ELSE {cache[i].conn : i \in DOMAIN cache}
Held == {conn[u] : u \in Users} \ {None}

\* Every connection exists that the cache or a thread has, the cache has it once, and
\* no two threads have the same one: the handle is curl's, which is not thread safe.
HandlesOwned ==
    /\ Cached \cup Held \subseteq handles
    /\ cache # None => \A i, j \in DOMAIN cache : cache[i].conn = cache[j].conn => i = j
    /\ \A u, v \in Users : conn[u] # None /\ conn[u] = conn[v] => u = v

\* Connections that are open and that nobody can use or close any more.
Forgotten == handles \ (Cached \cup Held)

\* A connection is forgotten only by the thread that has used it first, and only when
\* there is no cache to put it into or no memory for its node: not one that was evicted,
\* that has expired or was in the cache when it was cleared.
NoLeak ==
    [][\A k \in Forgotten' \ Forgotten :
          \E u \in Users : conn[u] = k /\ (cache = None \/ PutFails(u))]_cvars

\* As long as no control point is created or deleted while a request is under way, the
\* cache, its mutex and its connections are used only while they exist.
SafeDelete == fault => raced

\* The connections that are idle, as ConnectionPool has them.
IdleNodes ==
    IF cache = None THEN {}
    ELSE {[host |-> cache[i].host, conn |-> cache[i].conn, used |-> cache[i].stamp] :
            i \in {j \in DOMAIN cache : cache[j].conn \notin Held}}

Loan(u) ==
    IF conn[u] = None THEN None
    ELSE [host |-> dest[u], conn |-> conn[u], pooled |-> owner = u /\ cache # None,
          used |-> IF owner = u /\ cache # None /\ ~new[u]
                   THEN cache[Len(cache)].stamp ELSE None]

Pool == INSTANCE ConnectionPool WITH
            up <- cache # None, open <- handles, idle <- IdleNodes,
            using <- [u \in Users |-> Loan(u)]

\* The cache is a pool of connections as ConnectionPool promises it.
PoolSpec == Pool!Spec
=============================================================================
