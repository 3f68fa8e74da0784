--------------------------- MODULE ConnectionPool ---------------------------
(***************************************************************************)
(* What the cache of persistent connections promises to those who post     *)
(* HTTP requests through it: one exchange at a time, a connection for each *)
(* host that is used again while it is fresh, a bounded number of idle     *)
(* connections of which a least recently used one makes room, and no       *)
(* connection of the pool forgotten.  A new connection enters the pool,    *)
(* unless there is no memory for that: then it stays open, and nobody will *)
(* ever use it again.  Without a pool, that is so of every connection.     *)
(* Nothing is said of mutexes, lists or the order of steps: this is the    *)
(* specification that ConnectionCache implements.                          *)
(***************************************************************************)
EXTENDS Integers, FiniteSets

CONSTANTS
    Users,    \* threads that post requests
    Hosts,    \* the addresses they post to
    Conns,    \* connections
    Size,     \* how many idle connections are kept
    Period,   \* how long an idle connection is fresh
    None

VARIABLES
    now,      \* the time
    up,       \* is there a pool?
    open,     \* connections that exist
    idle,     \* the pool: idle connections with their host and last use
    using     \* the connection each user is using

vars == <<now, up, open, idle, using>>

Entries == [host : Hosts, conn : Conns, used : Nat]

\* A connection in use: is it the pool's, and when was it taken from there (None for
\* a new one)?
Loans == [host : Hosts, conn : Conns, pooled : BOOLEAN, used : Nat \cup {None}]

TypeOK ==
    /\ now \in Nat /\ up \in BOOLEAN
    /\ open \subseteq Conns /\ idle \subseteq Entries
    /\ using \in [Users -> Loans \cup {None}]

Stale(e) == now > e.used + Period
NobodyPooled == \A u \in Users : using[u] # None => ~using[u].pooled

Init ==
    /\ now = 0 /\ up = TRUE
    /\ open = {} /\ idle = {}
    /\ using = [u \in Users |-> None]

Tick == now' = now + 1 /\ UNCHANGED <<up, open, idle, using>>

\* A stale idle connection is closed.
Expire(e) ==
    /\ Stale(e) /\ NobodyPooled
    /\ idle' = idle \ {e} /\ open' = open \ {e.conn}
    /\ UNCHANGED <<now, up, using>>

\* An exchange begins on an idle connection to its host that is still fresh.
Reuse(u, e) ==
    /\ up /\ using[u] = None /\ NobodyPooled /\ ~Stale(e)
    /\ using' = [using EXCEPT ![u] =
                   [host |-> e.host, conn |-> e.conn, pooled |-> TRUE, used |-> now]]
    /\ idle' = idle \ {e}
    /\ UNCHANGED <<now, up, open>>

\* An exchange begins on a new connection: with a pool, only if the pool has none
\* to that host.
Connect(u, h, k) ==
    /\ using[u] = None /\ k \notin open
    /\ up => NobodyPooled /\ \A e \in idle : e.host # h
    /\ using' = [using EXCEPT ![u] =
                   [host |-> h, conn |-> k, pooled |-> up, used |-> None]]
    /\ open' = open \cup {k}
    /\ UNCHANGED <<now, up, idle>>

\* The pool takes a connection back, and makes room for it if it has to.
TakeBack(e) ==
    \/ /\ Cardinality(idle) < Size
       /\ idle' = idle \cup {e} /\ UNCHANGED open
    \/ /\ Cardinality(idle) >= Size
       /\ \E old \in idle :
             /\ \A other \in idle : old.used <= other.used
             /\ idle' = (idle \ {old}) \cup {e}
             /\ open' = open \ {old.conn}

\* An exchange ends.  The last use of a new connection is the end of its first
\* exchange, of another one the beginning of the exchange.  A connection that is not
\* the pool's is left open.
Return(u) ==
    /\ using[u] # None
    /\ LET l == using[u]
       IN  IF l.pooled
           THEN TakeBack([host |-> l.host, conn |-> l.conn,
                          used |-> IF l.used = None THEN now ELSE l.used])
           ELSE UNCHANGED <<idle, open>>
    /\ using' = [using EXCEPT ![u] = None]
    /\ UNCHANGED <<now, up>>

\* The first exchange on a connection ends, the pool has made room for it, and then has
\* no memory to keep it.
Forget(u) ==
    /\ using[u] # None /\ using[u].pooled /\ using[u].used = None
    /\ \/ Cardinality(idle) < Size /\ UNCHANGED <<idle, open>>
       \/ /\ Cardinality(idle) >= Size
          /\ \E old \in idle :
                /\ \A other \in idle : old.used <= other.used
                /\ idle' = idle \ {old} /\ open' = open \ {old.conn}
    /\ using' = [using EXCEPT ![u] = None]
    /\ UNCHANGED <<now, up>>

\* The pool is closed with all its connections, or opened again.
Close ==
    /\ up /\ NobodyPooled
    /\ up' = FALSE /\ idle' = {}
    /\ open' = open \ {e.conn : e \in idle}
    /\ UNCHANGED <<now, using>>

Reopen == ~up /\ up' = TRUE /\ UNCHANGED <<now, open, idle, using>>

Next ==
    \/ Tick \/ Close \/ Reopen
    \/ \E e \in idle : Expire(e)
    \/ \E u \in Users :
          \/ Return(u) \/ Forget(u)
          \/ \E e \in idle : Reuse(u, e)
          \/ \E h \in Hosts, k \in Conns : Connect(u, h, k)

Spec == Init /\ [][Next]_vars
=============================================================================
