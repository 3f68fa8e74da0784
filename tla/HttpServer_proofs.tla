------------------------- MODULE HttpServer_proofs -------------------------
(***************************************************************************)
(* Proofs about HttpServer for any connections, requests, offers and       *)
(* number of tries: its types, its list of threads, and what each client   *)
(* thread does with the requests of its connection.                        *)
(***************************************************************************)
EXTENDS HttpServer, SequenceTheorems, TLAPS

-----------------------------------------------------------------------------
(* The list of threads.                                                    *)

\* The members of the list are known by their positions, each by one.
Distinct(s) == \A i, j \in DOMAIN s : s[i] = s[j] => i = j
Members(s) == {s[i] : i \in DOMAIN s}

\* Listed is the set of the members.
LEMMA ListedMembers == Listed = Members(threads)
BY DEF Listed, Members

\* Taking a thread out leaves the others, each once.
LEMMA WithoutFact ==
    ASSUME threads \in Seq(Conns), Distinct(threads), NEW c
    PROVE  /\ Without(c) \in Seq(Conns) /\ Distinct(Without(c))
           /\ Members(Without(c)) = Listed \ {c}
<1>1. CASE c \notin Listed
  BY <1>1, ListedMembers DEF Without
<1>2. CASE c \in Listed
  <2> DEFINE n == Len(threads) - 1
             p == Position(c)
             s == Without(c)
  <2>1. /\ Len(threads) \in Nat /\ DOMAIN threads = 1 .. Len(threads)
        /\ \A i \in DOMAIN threads : threads[i] \in Conns
    OBVIOUS
  <2>2. p \in 1 .. Len(threads) /\ threads[p] = c
    BY <1>2, <2>1 DEF Listed, Position
  <2>3. n \in Nat
    BY <2>1, <2>2
  <2>4. s = [i \in 1 .. n |-> IF i < p THEN threads[i] ELSE threads[i + 1]]
    BY <1>2 DEF Without
  <2> HIDE DEF n, p, s
  <2>5. /\ DOMAIN s = 1 .. n
        /\ \A i \in 1 .. n : s[i] = IF i < p THEN threads[i] ELSE threads[i + 1]
    BY <2>4
  <2>6. n + 1 = Len(threads)
    BY <2>1 DEF n
  <2>7. \A i \in 1 .. n : /\ i \in DOMAIN threads /\ i + 1 \in DOMAIN threads
                          /\ s[i] \in Listed /\ s[i] \in Conns /\ s[i] # c
    <3> SUFFICES ASSUME NEW i \in 1 .. n
                 PROVE  /\ i \in DOMAIN threads /\ i + 1 \in DOMAIN threads
                        /\ s[i] \in Listed /\ s[i] \in Conns /\ s[i] # c
      OBVIOUS
    <3>1. i \in DOMAIN threads /\ i + 1 \in DOMAIN threads
      BY <2>1, <2>3, <2>6
    <3>2. PICK k \in DOMAIN threads : s[i] = threads[k] /\ k # p
      BY <2>1, <2>2, <2>3, <2>5, <3>1
    <3> QED BY <2>1, <2>2, <3>1, <3>2 DEF Listed, Distinct
  <2>8. s \in Seq(Conns)
    <3>1. s = [i \in 1 .. n |-> s[i]]
      BY <2>4, <2>5
    <3>2. s \in [1 .. n -> Conns]
      BY <2>7, <3>1
    <3> QED BY <2>3, <3>2, SeqDef
  <2>9. Distinct(s)
    <3> SUFFICES ASSUME NEW i \in 1 .. n, NEW j \in 1 .. n, s[i] = s[j]
                 PROVE  i = j
      BY <2>5 DEF Distinct
    <3> DEFINE at(k) == IF k < p THEN k ELSE k + 1
    <3>1. at(i) \in DOMAIN threads /\ at(j) \in DOMAIN threads
      BY <2>7
    <3>2. s[i] = threads[at(i)] /\ s[j] = threads[at(j)]
      BY <2>5
    <3>3. at(i) = at(j)
      BY <3>1, <3>2 DEF Distinct
    <3> QED BY <2>2, <2>3, <3>3
  <2>10. \A d \in Listed \ {c} : d \in Members(s)
    <3> SUFFICES ASSUME NEW k \in DOMAIN threads, threads[k] # c
                 PROVE  \E i \in DOMAIN s : s[i] = threads[k]
      BY DEF Members, Listed
    <3>1. CASE k < p
      <4>1. k \in 1 .. n
        BY <2>1, <2>2, <2>3, <2>6, <3>1
      <4> QED BY <2>5, <3>1, <4>1
    <3>2. CASE k > p
      <4>1. k - 1 \in 1 .. n /\ ~(k - 1 < p) /\ (k - 1) + 1 = k
        BY <2>1, <2>2, <2>3, <2>6, <3>2
      <4> QED BY <2>5, <4>1
    <3> QED BY <2>1, <2>2, <3>1, <3>2
  <2>11. Members(s) = Listed \ {c}
    BY <2>5, <2>7, <2>10 DEF Members
  <2> QED BY <2>8, <2>9, <2>11 DEF s
<1> QED BY <1>1, <1>2

\* A new thread goes behind the others.
LEMMA AppendFact ==
    ASSUME threads \in Seq(Conns), Distinct(threads), NEW c \in Conns, c \notin Listed
    PROVE  /\ Append(threads, c) \in Seq(Conns) /\ Distinct(Append(threads, c))
           /\ Members(Append(threads, c)) = Listed \cup {c}
<1> DEFINE s == Append(threads, c)
           n == Len(threads)
<1>1. n \in Nat /\ DOMAIN threads = 1 .. n
  OBVIOUS
<1>2. s \in Seq(Conns) /\ DOMAIN s = 1 .. n + 1 /\ s[n + 1] = c
      /\ \A i \in 1 .. n : s[i] = threads[i]
  BY <1>1
<1> HIDE DEF s, n
<1>3. \A i \in 1 .. n + 1 : i \in 1 .. n \/ i = n + 1
  BY <1>1
<1>4. \A i \in 1 .. n : i \in 1 .. n + 1 /\ s[i] \in Listed
  BY <1>1, <1>2 DEF Listed
<1>5. Distinct(s)
  BY <1>1, <1>2, <1>3, <1>4 DEF Distinct
<1>6. n + 1 \in 1 .. n + 1
  BY <1>1
<1>7. Members(s) = Listed \cup {c}
  BY <1>1, <1>2, <1>3, <1>4, <1>6 DEF Members, Listed
<1> QED BY <1>2, <1>5, <1>7 DEF s

\* The first thread is taken from the others.
LEMMA TailFact ==
    ASSUME threads \in Seq(Conns), Distinct(threads), threads # <<>>
    PROVE  /\ Tail(threads) \in Seq(Conns) /\ Distinct(Tail(threads))
           /\ Head(threads) \in Listed
           /\ Members(Tail(threads)) = Listed \ {Head(threads)}
<1> DEFINE s == Tail(threads)
           n == Len(threads)
<1>1. n \in Nat /\ n > 0 /\ DOMAIN threads = 1 .. n /\ Head(threads) = threads[1]
  OBVIOUS
<1>2. s \in Seq(Conns) /\ DOMAIN s = 1 .. n - 1 /\ \A i \in 1 .. n - 1 : s[i] = threads[i + 1]
  BY <1>1
<1> HIDE DEF s, n
<1>3. \A i \in 1 .. n - 1 : i + 1 \in 1 .. n /\ s[i] \in Listed /\ s[i] # threads[1]
  BY <1>1, <1>2 DEF Listed, Distinct
<1>4. Distinct(s)
  <2> SUFFICES ASSUME NEW i \in 1 .. n - 1, NEW j \in 1 .. n - 1, s[i] = s[j]
               PROVE  i = j
    BY <1>2 DEF Distinct
  <2>1. threads[i + 1] = threads[j + 1] /\ i + 1 \in DOMAIN threads /\ j + 1 \in DOMAIN threads
    BY <1>1, <1>2, <1>3
  <2>2. i + 1 = j + 1
    BY <2>1 DEF Distinct
  <2> QED BY <2>2
<1>5. 1 \in 1 .. n /\ \A i \in 1 .. n : i # 1 => i - 1 \in 1 .. n - 1 /\ s[i - 1] = threads[i]
  BY <1>1, <1>2
<1>6. Members(s) = Listed \ {threads[1]}
  <2>1. \A d \in Members(s) : d \in Listed \ {threads[1]}
    BY <1>2, <1>3 DEF Members
  <2>2. ASSUME NEW k \in DOMAIN threads, threads[k] # threads[1]
        PROVE  threads[k] \in Members(s)
    <3>1. k # 1 /\ k \in 1 .. n
      BY <1>1, <2>2
    <3> QED BY <1>2, <1>5, <3>1 DEF Members
  <2> QED BY <2>1, <2>2 DEF Listed
<1> QED BY <1>1, <1>2, <1>4, <1>5, <1>6 DEF s, Listed

-----------------------------------------------------------------------------
(* Types, and the list.                                                    *)

Ended == {"none", "delete", "gone"}

\* The list is one of distinct threads that have not removed themselves; nothing is left
\* of it once the server is closed.
Listing ==
    /\ app = "stopped" => threads = None
    /\ app # "stopped" =>
          threads \in Seq(Conns) /\ Distinct(threads) /\ \A c \in Listed : pc[c] \notin Ended
    /\ acceptor = "start" => new \in Conns /\ pc[new] = "accepted"
    /\ app = "freeThread" => cursor \in Conns
    /\ app = "idle" => \A c \in freed : pc[c] = "gone"

\* A thread that is not in the list has removed itself or is being deleted by stop.
Tracked ==
    \A c \in Conns : \/ pc[c] \in Ended \/ c \in freed
                     \/ app # "stopped" /\ c \in Listed
                     \/ app = "freeThread" /\ cursor = c

\* As long as a thread reads a body it has tries left, and a request to read it for.
Reading ==
    \A c \in Conns :
        /\ pc[c] = "body" => rx[c].tries < MaxTries
        /\ pc[c] \in {"body", "check", "print", "respond"} => Len(asked[c]) > 0

Served == TypeOK /\ Listing /\ Tracked /\ Reading

\* At first there is nothing.
LEMMA ServedInit == Init => Served
<1> SUFFICES ASSUME Init PROVE Served
  OBVIOUS
<1> USE RequestsAssumption
<1>1. asked \in [Conns -> Seq(Requests)] /\ answers \in [Conns -> Seq(Responses)]
  BY DEF Init
<1>2. rx \in [Conns -> [got : Int, rest : Nat, tries : 0 .. MaxTries]]
  BY DEF Init, NoBody
<1>3. hungUp \in [Conns -> BOOLEAN] /\ flag \in [Conns -> BOOLEAN] /\ stopFlag \in BOOLEAN
      /\ fault \in BOOLEAN
  BY DEF Init
<1>4. TypeOK
  BY <1>1, <1>2, <1>3 DEF Init, TypeOK
<1>5. Listing /\ Tracked /\ Reading
  BY DEF Init, Listing, Distinct, Tracked, Reading, Listed, Ended
<1> QED BY <1>4, <1>5 DEF Served

\* A step that leaves list and stop alone, and moves the threads only between reading and
\* removing, leaves the list correct.
LEMMA ListFrame ==
    ASSUME TypeOK, Listing, Tracked,
           UNCHANGED <<threads, freed, app, cursor, acceptor, new>>,
           \A c \in Conns : \/ pc'[c] = pc[c]
                            \/ pc[c] \notin Ended \cup {"accepted"} /\ pc'[c] \notin Ended
    PROVE  Listing' /\ Tracked'
<1>1. Listed' = Listed
  BY DEF Listed
<1>2. Listed \subseteq Conns \/ app = "stopped"
  BY DEF Listing, Listed
<1>3. freed \subseteq Conns
  BY DEF TypeOK
<1>4. Listing'
  BY <1>1, <1>2, <1>3 DEF Listing, Distinct, Ended
<1>5. Tracked'
  BY <1>1 DEF Tracked, Ended
<1> QED BY <1>4, <1>5

Places == {"none", "accepted", "unborn", "read", "body", "check", "print", "respond", "remove",
           "delete", "gone"}

\* A thread goes somewhere; but for "print" the device's lock has nothing to do with it.
LEMMA GotoFact ==
    ASSUME TypeOK, NEW c \in Conns, NEW l \in Places, Goto(c, l)
    PROVE  /\ pc' \in [Conns -> Places] /\ pc'[c] = l
           /\ \A d \in Conns \ {c} : pc'[d] = pc[d]
           /\ l # "print" /\ pc[c] # "print" => \A d \in Conns : pc'[d] = "print" <=> devLock = d
BY DEF TypeOK, Places, Goto

\* Types, of what a step changes and of what it leaves.
LEMMA TypeFrame ==
    ASSUME TypeOK,
           \/ pc' = pc /\ devLock' = devLock
           \/ pc' \in [Conns -> Places] /\ \A d \in Conns : pc'[d] = "print" <=> devLock' = d,
           devLock' = devLock \/ devLock' \in Conns \cup {None},
           asked' = asked \/ asked' \in [Conns -> Seq(Requests)],
           answers' = answers \/ answers' \in [Conns -> Seq(Responses)],
           rx' = rx \/ rx' \in [Conns -> [got : Int, rest : Nat, tries : 0 .. MaxTries]],
           hungUp' = hungUp \/ hungUp' \in [Conns -> BOOLEAN],
           flag' = flag \/ flag' \in [Conns -> BOOLEAN],
           freed' = freed \/ freed' \subseteq Conns,
           text' = text \/ text' \in [Conns -> Conns \cup {None}],
           base' = base \/ base' \in Conns \cup {None},
           threads' = threads \/ threads' \in Seq(Conns),
           acceptor' = acceptor \/ acceptor' \in {"check", "accept", "start", "gone"},
           new' = new \/ new' \in Conns \cup {None},
           fault' = fault \/ fault' \in BOOLEAN,
           UNCHANGED <<stopFlag, app, cursor>>
    PROVE  TypeOK'
<1>1. /\ (asked \in [Conns -> Seq(Requests)])' /\ (answers \in [Conns -> Seq(Responses)])'
      /\ (rx \in [Conns -> [got : Int, rest : Nat, tries : 0 .. MaxTries]])'
  BY DEF TypeOK
<1>2. (text \in [Conns -> Conns \cup {None}])' /\ (freed \subseteq Conns)'
  BY DEF TypeOK
<1>3. /\ (hungUp \in [Conns -> BOOLEAN])' /\ (flag \in [Conns -> BOOLEAN])'
      /\ (base \in Conns \cup {None})'
  BY DEF TypeOK
<1>4. /\ (pc \in [Conns -> Places])' /\ (devLock \in Conns \cup {None})'
      /\ (\A d \in Conns : pc[d] = "print" <=> devLock = d)'
  BY DEF TypeOK, Places
<1>5. (threads = None \/ threads \in Seq(Conns))'
  BY DEF TypeOK
<1>6. (/\ acceptor \in {"check", "accept", "start", "gone"} /\ new \in Conns \cup {None}
       /\ stopFlag \in BOOLEAN
       /\ app \in {"idle", "deleteAcceptor", "stopThread", "nextThread", "deleteThreads",
                   "freeThread", "stopped"}
       /\ cursor \in Conns \cup {None} /\ fault \in BOOLEAN)'
  BY DEF TypeOK
<1> QED BY <1>1, <1>2, <1>3, <1>4, <1>5, <1>6 DEF TypeOK, Places

\* The accepting thread.
LEMMA ServedAcceptor == ASSUME Served, AcceptorStep \/ AcceptFails PROVE Served'
<1> USE RequestsAssumption DEF Served
<1>1. CASE AcceptorCheck
  <2>1. TypeOK'
    <3>1. fault' \in BOOLEAN
      BY <1>1 DEF AcceptorCheck
    <3> QED BY <1>1, <3>1 DEF AcceptorCheck, TypeOK, threadVars, bodyVars, devVars, appVars
  <2>2. Listing' /\ Tracked' /\ Reading'
    BY <1>1 DEF AcceptorCheck, Listing, Tracked, Reading, Listed, threadVars, bodyVars, devVars,
       appVars
  <2> QED BY <2>1, <2>2
<1>2. CASE AcceptFails
  <2>1. TypeOK'
    BY <1>2, TypeFrame DEF AcceptFails, threadVars, bodyVars, devVars, appVars
  <2>2. Listing' /\ Tracked' /\ Reading'
    BY <1>2 DEF AcceptFails, Listing, Tracked, Reading, Listed, threadVars, bodyVars, devVars,
       appVars
  <2> QED BY <2>1, <2>2
<1>3. ASSUME NEW c \in Conns, Accept(c), threads = None
      PROVE  Served'
  <2>1. UNCHANGED <<threadVars, devVars, serverVars, appVars>> /\ fault' = TRUE
    BY <1>3 DEF Accept, threadVars, serverVars
  <2>2. TypeOK'
    BY <2>1, TypeFrame DEF threadVars, bodyVars, devVars, serverVars, appVars
  <2>3. Listing' /\ Tracked' /\ Reading'
    BY <2>1 DEF Listing, Tracked, Reading, Listed, threadVars, bodyVars, serverVars, appVars
  <2> QED BY <2>2, <2>3
<1>4. ASSUME NEW c \in Conns, Accept(c), threads # None
      PROVE  Served'
  <2>1. app # "stopped" /\ threads \in Seq(Conns) /\ Distinct(threads) /\ c \notin Listed
    BY <1>4 DEF Listing, Accept, Ended
  <2>2. /\ threads' = Append(threads, c) /\ new' = c /\ acceptor' = "start"
        /\ pc[c] = "none" /\ pc' = [pc EXCEPT ![c] = "accepted"]
        /\ UNCHANGED <<asked, bodyVars, answers, flag, freed, text, devVars, stopFlag, appVars,
                       fault>>
    BY <1>4 DEF Accept, Goto
  <2>3. threads' \in Seq(Conns) /\ Distinct(threads') /\ Listed' = Listed \cup {c}
    <3>1. Listed' = Members(threads')
      BY DEF Listed, Members
    <3> QED BY <2>1, <2>2, <3>1, AppendFact
  <2>4. TypeOK'
    BY <2>2, <2>3 DEF TypeOK, bodyVars, devVars, appVars
  <2>5. Listing'
    <3>1. pc'[c] = "accepted" /\ \A d \in Conns \ {c} : pc'[d] = pc[d]
      BY <2>2 DEF TypeOK
    <3>2. freed \subseteq Conns
      BY DEF TypeOK
    <3>3. Listed \subseteq Conns
      BY <2>1 DEF Listed
    <3>4. \A d \in Listed' : pc'[d] \notin Ended
      BY <2>1, <2>3, <3>1, <3>3 DEF Listing, Ended
    <3>5. app' = "idle" => \A d \in freed' : pc'[d] = "gone"
      BY <2>2, <3>1, <3>2 DEF Listing, appVars
    <3> QED BY <2>1, <2>2, <2>3, <3>1, <3>4, <3>5 DEF Listing, appVars
  <2>6. Tracked'
    BY <2>1, <2>2, <2>3 DEF Tracked, TypeOK, Ended, appVars
  <2>7. Reading'
    BY <2>2 DEF Reading, TypeOK, bodyVars
  <2> QED BY <2>4, <2>5, <2>6, <2>7
<1>5. ASSUME NEW l \in {"read", "unborn"}, acceptor = "start", Goto(new, l),
             acceptor' = "check", new' = None, fault' \in BOOLEAN, flag' \in [Conns -> BOOLEAN],
             UNCHANGED <<asked, bodyVars, answers, freed, text, devVars, threads, stopFlag,
                         appVars>>
      PROVE  Served'
  <2>1. new \in Conns /\ pc[new] = "accepted" /\ pc' = [pc EXCEPT ![new] = l]
    BY <1>5 DEF Listing, Goto
  <2>2. TypeOK'
    BY <1>5, <2>1 DEF TypeOK, bodyVars, devVars, appVars
  <2>3. Listed' = Listed /\ (app # "stopped" => Listed \subseteq Conns) /\ freed \subseteq Conns
    BY <1>5 DEF Listed, Listing, TypeOK
  <2>4. Listing' /\ Tracked'
    BY <1>5, <2>1, <2>3 DEF Listing, Tracked, TypeOK, Ended, appVars
  <2>5. Reading'
    BY <1>5, <2>1 DEF Reading, TypeOK, bodyVars
  <2> QED BY <2>2, <2>4, <2>5
<1>6. CASE StartThread
  <2>1. fault' \in BOOLEAN
    BY <1>6 DEF StartThread, Alive
  <2>2. flag' \in [Conns -> BOOLEAN]
    BY <1>6 DEF StartThread, TypeOK
  <2> QED BY <1>5, <1>6, <2>1, <2>2 DEF StartThread
<1>7. CASE StartFails
  <2>1. fault' \in BOOLEAN
    BY <1>7 DEF StartFails, Alive
  <2>2. flag' \in [Conns -> BOOLEAN]
    BY <1>7 DEF StartFails, TypeOK
  <2> QED BY <1>5, <1>7, <2>1, <2>2 DEF StartFails
<1> QED BY <1>1, <1>2, <1>3, <1>4, <1>6, <1>7 DEF AcceptorStep

\* Stopping the server.
LEMMA ServedApp == ASSUME Served, StopAcceptor \/ AppStep PROVE Served'
<1> USE RequestsAssumption DEF Served
<1>1. CASE StopAcceptor \/ DeleteAcceptor
  <2>1. UNCHANGED <<threadVars, devVars, threads, acceptor, new, fault>> /\ stopFlag' \in BOOLEAN
    BY <1>1 DEF StopAcceptor, DeleteAcceptor, serverVars, TypeOK
  <2>2. cursor' \in Conns \cup {None} /\ app' \in {"deleteAcceptor", "deleteThreads", "stopThread"}
        /\ app \in {"idle", "deleteAcceptor"}
    <3>1. CASE StopAcceptor
      BY <3>1 DEF StopAcceptor, TypeOK
    <3>2. CASE DeleteAcceptor
      <4>1. threads \in Seq(Conns)
        BY <3>2 DEF DeleteAcceptor, Listing
      <4>2. threads # <<>> => Head(threads) \in Conns
        BY <4>1
      <4> QED BY <3>2, <4>2 DEF DeleteAcceptor, TypeOK
    <3> QED BY <1>1, <3>1, <3>2
  <2>3. TypeOK'
    BY <2>1, <2>2 DEF TypeOK, threadVars, bodyVars, devVars
  <2>4. Listing' /\ Tracked' /\ Reading'
    BY <2>1, <2>2 DEF Listing, Tracked, Reading, Listed, threadVars, bodyVars
  <2> QED BY <2>3, <2>4
<1>2. CASE StopThread \/ NextThread
  <2>1. UNCHANGED <<asked, bodyVars, answers, pc, freed, text, devVars, serverVars>>
    BY <1>2 DEF StopThread, NextThread, threadVars
  <2>2. /\ app \in {"stopThread", "nextThread"}
        /\ app' \in {"stopThread", "nextThread", "deleteThreads"}
    BY <1>2 DEF StopThread, NextThread
  <2>3. flag' \in [Conns -> BOOLEAN]
    BY <1>2 DEF StopThread, NextThread, TypeOK, threadVars
  <2>4. fault' \in BOOLEAN
    BY <1>2 DEF StopThread, NextThread, Alive
  <2>5. cursor' \in Conns \cup {None}
    <3>1. CASE StopThread
      BY <3>1 DEF StopThread, TypeOK
    <3>2. CASE NextThread
      <4>1. threads \in Seq(Conns) /\ (cursor \in Listed => Position(cursor) \in DOMAIN threads)
        BY <2>2 DEF Listing, Listed, Position
      <4>2. /\ cursor \in Listed /\ Position(cursor) < Len(threads)
            => threads[Position(cursor) + 1] \in Conns
        BY <4>1
      <4> QED BY <3>2, <4>2 DEF NextThread, TypeOK
    <3> QED BY <1>2, <3>1, <3>2
  <2>6. TypeOK'
    BY <2>1, <2>2, <2>3, <2>4, <2>5 DEF TypeOK, bodyVars, devVars, serverVars
  <2>7. Listing' /\ Tracked' /\ Reading'
    BY <2>1, <2>2 DEF Listing, Tracked, Reading, Listed, bodyVars, serverVars
  <2> QED BY <2>6, <2>7
<1>3. CASE RemoveHead
  <2>1. threads \in Seq(Conns) /\ Distinct(threads) /\ threads # <<>>
    BY <1>3 DEF RemoveHead, Listing
  <2>2. /\ threads' \in Seq(Conns) /\ Distinct(threads') /\ cursor' \in Listed
        /\ Listed' = Listed \ {cursor'}
    <3>1. Listed' = Members(threads')
      BY DEF Listed, Members
    <3> QED BY <1>3, <2>1, <3>1, TailFact DEF RemoveHead
  <2>3. cursor' \in Conns
    BY <2>1, <2>2 DEF Listed
  <2>4. /\ flag' \in [Conns -> BOOLEAN]
        /\ UNCHANGED <<asked, bodyVars, answers, pc, freed, text, devVars, acceptor, new,
                       stopFlag>>
    BY <1>3 DEF RemoveHead, TypeOK
  <2>5. fault' \in BOOLEAN
    BY <1>3 DEF RemoveHead, Alive
  <2>6. TypeOK'
    BY <1>3, <2>2, <2>3, <2>4, <2>5 DEF RemoveHead, TypeOK, bodyVars, devVars
  <2>7. Listing' /\ Tracked' /\ Reading'
    BY <1>3, <2>2, <2>3, <2>4 DEF RemoveHead, Listing, Tracked, Reading, bodyVars
  <2> QED BY <2>6, <2>7
<1>4. CASE FreeThread
  <2>1. cursor \in Conns /\ app = "freeThread" /\ app' = "deleteThreads"
        /\ freed' = freed \cup {cursor} /\ cursor' = None
        /\ UNCHANGED <<asked, bodyVars, answers, pc, flag, text, devVars, serverVars>>
    BY <1>4 DEF FreeThread, Listing
  <2>2. fault' \in BOOLEAN
    BY <1>4 DEF FreeThread, Alive
  <2>3. TypeOK'
    BY <2>1, <2>2 DEF TypeOK, bodyVars, devVars, serverVars
  <2>4. Listing' /\ Tracked' /\ Reading'
    BY <2>1 DEF Listing, Tracked, Reading, Listed, bodyVars, serverVars
  <2> QED BY <2>3, <2>4
<1>5. CASE CloseServer
  <2>1. Listed = {}
    BY <1>5 DEF CloseServer, Listed
  <2>2. TypeOK'
    BY <1>5 DEF CloseServer, TypeOK, threadVars, bodyVars, devVars
  <2>3. Listing' /\ Tracked' /\ Reading'
    BY <1>5, <2>1 DEF CloseServer, Listing, Tracked, Reading, threadVars, bodyVars
  <2> QED BY <2>2, <2>3
<1> QED BY <1>1, <1>2, <1>3, <1>4, <1>5 DEF AppStep

\* A request that is read goes behind the others.
LEMMA AskedFact ==
    ASSUME TypeOK, NEW c \in Conns, NEW r \in Requests,
           asked' = [asked EXCEPT ![c] = Append(@, r)]
    PROVE  /\ asked' \in [Conns -> Seq(Requests)]
           /\ asked'[c] = Append(asked[c], r)
           /\ \A d \in Conns \ {c} : asked'[d] = asked[d]
           /\ Len(asked'[c]) = Len(asked[c]) + 1
           /\ asked'[c][Len(asked'[c])] = r
           /\ \A i \in DOMAIN asked[c] : i \in DOMAIN asked'[c] /\ asked'[c][i] = asked[c][i]
<1>1. asked \in [Conns -> Seq(Requests)] /\ asked[c] \in Seq(Requests)
  BY DEF TypeOK
<1>2. asked'[c] = Append(asked[c], r) /\ Append(asked[c], r) \in Seq(Requests)
      /\ \A d \in Conns \ {c} : asked'[d] = asked[d]
  BY <1>1
<1>3. asked' \in [Conns -> Seq(Requests)]
  BY <1>1, <1>2
<1>4. /\ Len(asked'[c]) = Len(asked[c]) + 1 /\ asked'[c][Len(asked'[c])] = r
      /\ \A i \in DOMAIN asked[c] : i \in DOMAIN asked'[c] /\ asked'[c][i] = asked[c][i]
  BY <1>1, <1>2
<1> QED BY <1>2, <1>3, <1>4

\* So does an answer.
LEMMA AnsweredFact ==
    ASSUME TypeOK, NEW c \in Conns, NEW status \in {"ok", "bad"}, Answer(c, status)
    PROVE  /\ answers' \in [Conns -> Seq(Responses)]
           /\ \A d \in Conns \ {c} : answers'[d] = answers[d]
           /\ Len(answers'[c]) = Len(answers[c]) + 1
           /\ \A i \in DOMAIN answers'[c] :
                 \/ i \in DOMAIN answers[c] /\ answers'[c][i] = answers[c][i]
                 \/ i = Len(answers'[c]) /\ answers'[c][i] = [status |-> status, base |-> text[c]]
<1> DEFINE r == [status |-> status, base |-> text[c]]
<1>1. answers \in [Conns -> Seq(Responses)] /\ answers[c] \in Seq(Responses) /\ r \in Responses
  BY DEF TypeOK, Responses
<1>2. answers' = [answers EXCEPT ![c] = Append(@, r)]
  BY DEF Answer
<1> HIDE DEF r
<1>3. answers'[c] = Append(answers[c], r) /\ Append(answers[c], r) \in Seq(Responses)
      /\ \A d \in Conns \ {c} : answers'[d] = answers[d]
  BY <1>1, <1>2
<1>4. answers' \in [Conns -> Seq(Responses)]
  BY <1>1, <1>2, <1>3
<1>5. /\ Len(answers'[c]) = Len(answers[c]) + 1
      /\ \A i \in DOMAIN answers'[c] :
            \/ i \in DOMAIN answers[c] /\ answers'[c][i] = answers[c][i]
            \/ i = Len(answers'[c]) /\ answers'[c][i] = r
  BY <1>1, <1>3
<1> QED BY <1>3, <1>4, <1>5 DEF r

\* The request that a thread works on.
LEMMA RequestFact ==
    ASSUME Served, NEW c \in Conns, pc[c] \in {"body", "check", "print", "respond"}
    PROVE  /\ Request(c) \in Requests /\ Request(c).body \in Nat /\ Request(c).last \in BOOLEAN
           /\ Request(c).kind \in {"get", "other", "noHost"}
<1>1. asked[c] \in Seq(Requests) /\ Len(asked[c]) > 0
  BY DEF Served, TypeOK, Reading
<1>2. Request(c) \in Requests
  BY <1>1 DEF Request
<1>3. \A r \in Requests : /\ r.body \in Nat /\ r.last \in BOOLEAN
                          /\ r.kind \in {"get", "other", "noHost"}
  BY RequestsAssumption
<1> QED BY <1>2, <1>3

\* What a round of the loop over the body leaves.
LEMMA BodyFact ==
    ASSUME Served, NEW c \in Conns, BodyRead(c)
    PROVE  \E n \in Int, tries \in 0 .. MaxTries :
              /\ n \in Received(c) /\ n <= rx[c].rest /\ n >= -1
              /\ pc[c] = "body"
              /\ tries \in {rx[c].tries, rx[c].tries + 1}
              /\ tries # rx[c].tries => rx[c].got + n <= 0
              /\ Count(c, n, rx[c].got + n, tries)
<1>1. rx[c] \in [got : Int, rest : Nat, tries : 0 .. MaxTries] /\ rx[c].tries < MaxTries
  BY DEF Served, TypeOK, Reading, BodyRead
<1>2. rx[c].got \in Int /\ rx[c].rest \in Nat /\ rx[c].tries \in 0 .. MaxTries
  BY <1>1
<1>3. PICK n \in Received(c) :
         Count(c, n, rx[c].got + n, IF rx[c].got + n <= 0 THEN rx[c].tries + 1 ELSE rx[c].tries)
  BY DEF BodyRead
<1>4. n \in Int /\ n <= rx[c].rest /\ n >= -1
  BY <1>2 DEF Received
<1> DEFINE t == IF rx[c].got + n <= 0 THEN rx[c].tries + 1 ELSE rx[c].tries
<1>5. /\ t \in 0 .. MaxTries /\ t \in {rx[c].tries, rx[c].tries + 1}
      /\ t # rx[c].tries => rx[c].got + n <= 0
  BY <1>1, <1>2, <1>4, RequestsAssumption
<1> QED BY <1>3, <1>4, <1>5 DEF BodyRead

\* The steps of a client thread between reading and removing.
LEMMA ServedRequest ==
    ASSUME Served, NEW c \in Conns,
           \/ (\E r \in Requests : Read(c, r)) \/ ReadFails(c) \/ BodyRead(c)
           \/ CheckNoHost(c) \/ CheckStopped(c) \/ HandleOther(c) \/ Describe(c)
           \/ PrintTree(c) \/ Respond(c)
    PROVE  Served'
<1>a. TypeOK /\ Listing /\ Tracked /\ Reading
  BY DEF Served
<1>b. MaxTries \in Nat \ {0} /\ None \notin Conns
  BY RequestsAssumption
<1> USE <1>a, <1>b
<1>1. ASSUME TypeOK', Reading',
             UNCHANGED <<freed, serverVars, appVars>>,
             NEW l \in Places \ Ended, pc[c] \notin Ended \cup {"accepted"},
             pc' = pc \/ Goto(c, l)
      PROVE  Served'
  <2>1. \A d \in Conns : \/ pc'[d] = pc[d]
                         \/ pc[d] \notin Ended \cup {"accepted"} /\ pc'[d] \notin Ended
    BY <1>1, GotoFact
  <2>2. Listing' /\ Tracked'
    BY <1>1, <2>1, ListFrame DEF serverVars, appVars
  <2> QED BY <1>1, <2>2 DEF Served
<1>2. ASSUME NEW r \in Requests, Read(c, r) PROVE Served'
  <2>1. /\ asked' = [asked EXCEPT ![c] = Append(@, r)]
        /\ rx' = [rx EXCEPT ![c] = [NoBody EXCEPT !.rest = r.body]]
        /\ Goto(c, IF r.body > 0 THEN "body" ELSE "check") /\ pc[c] = "read"
        /\ UNCHANGED <<answers, hungUp, flag, freed, text, base, devLock, threads,
                       acceptor, new, stopFlag, app, cursor, fault>>
    BY <1>2 DEF Read, bodyVars, devVars, serverVars, appVars
  <2>2. rx' \in [Conns -> [got : Int, rest : Nat, tries : 0 .. MaxTries]] /\ rx'[c].tries = 0
        /\ \A d \in Conns \ {c} : rx'[d] = rx[d]
    <3>1. r.body \in Nat
      BY RequestsAssumption
    <3>2. [NoBody EXCEPT !.rest = r.body] = [got |-> 0, rest |-> r.body, tries |-> 0]
      BY DEF NoBody
    <3>3. /\ [got |-> 0, rest |-> r.body, tries |-> 0]
                \in [got : Int, rest : Nat, tries : 0 .. MaxTries]
          /\ rx \in [Conns -> [got : Int, rest : Nat, tries : 0 .. MaxTries]]
      BY <3>1 DEF TypeOK
    <3> QED BY <2>1, <3>2, <3>3
  <2>3. /\ asked' \in [Conns -> Seq(Requests)] /\ Len(asked'[c]) = Len(asked[c]) + 1
        /\ \A d \in Conns \ {c} : asked'[d] = asked[d]
    BY <2>1, AskedFact
  <2>4. Len(asked[c]) \in Nat
    BY DEF TypeOK
  <2>5. PICK l \in {"body", "check"} : Goto(c, l)
    BY <2>1
  <2>6. /\ pc' \in [Conns -> Places] /\ pc'[c] = l /\ \A d \in Conns \ {c} : pc'[d] = pc[d]
        /\ \A d \in Conns : pc'[d] = "print" <=> devLock' = d
    BY <2>1, <2>5, GotoFact DEF Places
  <2>7. TypeOK'
    BY <2>1, <2>2, <2>3, <2>6, TypeFrame
  <2>8. Reading'
    <3>1. \A d \in Conns \ {c} : /\ rx'[d] = rx[d] /\ pc'[d] = pc[d] /\ asked'[d] = asked[d]
      BY <2>2, <2>3, <2>6
    <3>2. rx'[c].tries < MaxTries /\ Len(asked'[c]) > 0
      BY <2>2, <2>3, <2>4
    <3> QED BY <3>1, <3>2 DEF Reading
  <2> QED BY <1>1, <2>1, <2>5, <2>7, <2>8 DEF Ended, Places, serverVars, appVars
<1>3. CASE ReadFails(c) \/ CheckStopped(c)
  <2>1. /\ Goto(c, "remove") /\ pc[c] \in {"read", "check"}
        /\ UNCHANGED <<asked, rx, hungUp, answers, flag, freed, text, base,
                       devLock, threads, acceptor, new, stopFlag, app, cursor, fault>>
    BY <1>3 DEF ReadFails, CheckStopped, bodyVars, devVars, serverVars, appVars
  <2>2. /\ pc' \in [Conns -> Places] /\ pc'[c] = "remove" /\ \A d \in Conns \ {c} : pc'[d] = pc[d]
        /\ \A d \in Conns : pc'[d] = "print" <=> devLock' = d
    BY <2>1, GotoFact DEF Places
  <2>3. TypeOK'
    BY <2>1, <2>2, TypeFrame
  <2>4. Reading'
    BY <2>1, <2>2 DEF Reading, bodyVars
  <2> QED BY <1>1, <2>1, <2>3, <2>4 DEF Ended, Places, serverVars, appVars
<1>4. CASE BodyRead(c)
  <2>1. PICK n \in Int, t \in 0 .. MaxTries :
           n \in Received(c) /\ n <= rx[c].rest /\ pc[c] = "body" /\ Count(c, n, rx[c].got + n, t)
    BY <1>4, BodyFact
  <2>2. rx[c].got \in Int /\ rx[c].rest \in Nat
    BY DEF TypeOK
  <2>3. UNCHANGED <<asked, answers, flag, freed, text, devVars, serverVars, appVars>>
    BY <2>1 DEF Count
  <2>4. hungUp' \in [Conns -> BOOLEAN] /\ fault' \in BOOLEAN
    BY <2>1 DEF Count, TypeOK
  <2>5. /\ rx' \in [Conns -> [got : Int, rest : Nat, tries : 0 .. MaxTries]]
        /\ \A d \in Conns \ {c} : rx'[d] = rx[d]
        /\ \/ pc' = pc /\ rx'[c].tries < MaxTries
           \/ Goto(c, "check")
    <3> DEFINE g == rx[c].got + n
               more == [got |-> g, rest |-> IF n > 0 THEN rx[c].rest - n ELSE rx[c].rest,
                        tries |-> t]
               last == [NoBody EXCEPT !.got = IF g > 0 THEN g ELSE 0]
    <3>1. g \in Int /\ (IF n > 0 THEN rx[c].rest - n ELSE rx[c].rest) \in Nat
      BY <2>1, <2>2
    <3>2. more \in [got : Int, rest : Nat, tries : 0 .. MaxTries] /\ more.tries = t
      BY <3>1
    <3>3. last \in [got : Int, rest : Nat, tries : 0 .. MaxTries]
      BY <3>1 DEF NoBody
    <3>4. \/ rx' = [rx EXCEPT ![c] = more] /\ pc' = pc /\ t < MaxTries
          \/ rx' = [rx EXCEPT ![c] = last] /\ Goto(c, "check")
      BY <2>1 DEF Count
    <3> HIDE DEF more, last
    <3>5. rx \in [Conns -> [got : Int, rest : Nat, tries : 0 .. MaxTries]]
      BY DEF TypeOK
    <3> QED BY <3>2, <3>3, <3>4, <3>5
  <2>6. TypeOK'
    <3>1. /\ pc' \in [Conns -> {"none", "accepted", "unborn", "read", "body", "check", "print",
                                 "respond", "remove", "delete", "gone"}]
          /\ \A d \in Conns : pc'[d] = "print" <=> pc[d] = "print"
      BY <2>1, <2>5 DEF TypeOK, Goto
    <3>2. devLock' = devLock
      BY <2>3 DEF devVars
    <3>3. pc' \in [Conns -> Places] /\ \A d \in Conns : pc'[d] = "print" <=> devLock' = d
      BY <3>1, <3>2 DEF TypeOK, Places
    <3> QED BY <2>3, <2>4, <2>5, <3>2, <3>3, TypeFrame DEF devVars, serverVars, appVars
  <2>7. Reading'
    BY <2>1, <2>3, <2>5 DEF Reading, TypeOK, Goto
  <2> QED BY <1>1, <2>1, <2>3, <2>5, <2>6, <2>7 DEF Ended, Places
<1>5. CASE CheckNoHost(c)
  <2>1. /\ Goto(c, "read") /\ pc[c] = "check" /\ Answer(c, "bad")
        /\ UNCHANGED <<asked, rx, hungUp, flag, freed, text, base, devLock,
                       threads, acceptor, new, stopFlag, app, cursor, fault>>
    BY <1>5 DEF CheckNoHost, bodyVars, devVars, serverVars, appVars
  <2>2. answers' \in [Conns -> Seq(Responses)]
    BY <2>1, AnsweredFact
  <2>3. /\ pc' \in [Conns -> Places] /\ pc'[c] = "read" /\ \A d \in Conns \ {c} : pc'[d] = pc[d]
        /\ \A d \in Conns : pc'[d] = "print" <=> devLock' = d
    BY <2>1, GotoFact DEF Places
  <2>4. TypeOK'
    BY <2>1, <2>2, <2>3, TypeFrame
  <2>5. Reading'
    BY <2>1, <2>3 DEF Reading, bodyVars
  <2> QED BY <1>1, <2>1, <2>4, <2>5 DEF Ended, Places, serverVars, appVars
<1>6. CASE HandleOther(c)
  <2>1. /\ Goto(c, "respond") /\ pc[c] = "check"
        /\ UNCHANGED <<asked, rx, hungUp, answers, flag, freed, text, base,
                       devLock, threads, acceptor, new, stopFlag, app, cursor, fault>>
    BY <1>6 DEF HandleOther, bodyVars, devVars, serverVars, appVars
  <2>2. /\ pc' \in [Conns -> Places] /\ pc'[c] = "respond" /\ \A d \in Conns \ {c} : pc'[d] = pc[d]
        /\ \A d \in Conns : pc'[d] = "print" <=> devLock' = d
    BY <2>1, GotoFact DEF Places
  <2>3. TypeOK'
    BY <2>1, <2>2, TypeFrame
  <2>4. Reading'
    BY <2>1, <2>2 DEF Reading, bodyVars
  <2> QED BY <1>1, <2>1, <2>3, <2>4 DEF Ended, Places, serverVars, appVars
<1>7. CASE Describe(c)
  <2>1. /\ Goto(c, "print") /\ pc[c] = "check" /\ devLock = None /\ devLock' = c /\ base' = c
        /\ UNCHANGED <<asked, bodyVars, answers, flag, freed, text, serverVars, appVars, fault>>
    BY <1>7 DEF Describe
  <2>2. \A d \in Conns : pc'[d] = "print" <=> devLock' = d
    BY <2>1 DEF TypeOK, Goto
  <2>3. pc' \in [Conns -> Places] /\ pc'[c] = "print" /\ \A d \in Conns \ {c} : pc'[d] = pc[d]
    BY <2>1, GotoFact DEF Places
  <2>4. TypeOK'
    BY <2>1, <2>2, <2>3, TypeFrame DEF bodyVars, serverVars, appVars
  <2>5. Reading'
    BY <2>1, <2>3 DEF Reading, bodyVars
  <2> QED BY <1>1, <2>1, <2>4, <2>5 DEF Ended, Places
<1>8. CASE PrintTree(c)
  <2>1. /\ Goto(c, "respond") /\ pc[c] = "print" /\ devLock' = None /\ base' = base
        /\ text' = [text EXCEPT ![c] = base]
        /\ UNCHANGED <<asked, bodyVars, answers, flag, freed, serverVars, appVars, fault>>
    BY <1>8 DEF PrintTree
  <2>2. \A d \in Conns : pc'[d] = "print" <=> devLock' = d
    BY <2>1 DEF TypeOK, Goto
  <2>3. /\ pc' \in [Conns -> Places] /\ pc'[c] = "respond"
        /\ \A d \in Conns \ {c} : pc'[d] = pc[d]
    BY <2>1, GotoFact DEF Places
  <2>4. text' \in [Conns -> Conns \cup {None}]
    BY <2>1 DEF TypeOK
  <2>5. TypeOK'
    BY <2>1, <2>2, <2>3, <2>4, TypeFrame DEF bodyVars, serverVars, appVars
  <2>6. Reading'
    BY <2>1, <2>3 DEF Reading, bodyVars
  <2> QED BY <1>1, <2>1, <2>5, <2>6 DEF Ended, Places
<1>9. CASE Respond(c)
  <2>1. /\ pc[c] = "respond" /\ Answer(c, "ok") /\ text' = [text EXCEPT ![c] = None]
        /\ rx' = [rx EXCEPT ![c] = NoBody]
        /\ UNCHANGED <<asked, hungUp, flag, freed, base, devLock, threads, acceptor,
                       new, stopFlag, app, cursor, fault>>
    BY <1>9 DEF Respond, bodyVars, devVars, serverVars, appVars
  <2>2. PICK l \in {"remove", "read"} : Goto(c, l)
    BY <1>9 DEF Respond
  <2>3. answers' \in [Conns -> Seq(Responses)]
    BY <2>1, AnsweredFact
  <2>4. rx' \in [Conns -> [got : Int, rest : Nat, tries : 0 .. MaxTries]]
        /\ \A d \in Conns \ {c} : rx'[d] = rx[d]
    BY <2>1 DEF TypeOK, NoBody
  <2>5. /\ pc' \in [Conns -> Places] /\ pc'[c] = l /\ \A d \in Conns \ {c} : pc'[d] = pc[d]
        /\ \A d \in Conns : pc'[d] = "print" <=> devLock' = d
    BY <2>1, <2>2, GotoFact DEF Places
  <2>6. text' \in [Conns -> Conns \cup {None}]
    BY <2>1 DEF TypeOK
  <2>7. TypeOK'
    BY <2>1, <2>3, <2>4, <2>5, <2>6, TypeFrame
  <2>8. Reading'
    BY <2>1, <2>2, <2>4, <2>5 DEF Reading
  <2> QED BY <1>1, <2>1, <2>2, <2>7, <2>8 DEF Ended, Places, serverVars, appVars
<1> QED BY <1>2, <1>3, <1>4, <1>5, <1>6, <1>7, <1>8, <1>9

\* A client thread removes and deletes itself.
LEMMA ServedRemoval ==
    ASSUME Served, NEW c \in Conns, Remove(c) \/ Delete(c) \/ TouchDeleted(c)
    PROVE  Served'
<1>a. TypeOK /\ Listing /\ Tracked /\ Reading
  BY DEF Served
<1>b. MaxTries \in Nat \ {0} /\ None \notin Conns
  BY RequestsAssumption
<1> USE <1>a, <1>b
<1>1. CASE Remove(c)
  <2>1. /\ pc[c] = "remove" /\ c \notin freed /\ threads' = Without(c) /\ Goto(c, "delete")
        /\ flag' = [flag EXCEPT ![c] = FALSE]
        /\ rx' = [rx EXCEPT ![c] = NoBody] /\ hungUp' = [hungUp EXCEPT ![c] = FALSE]
        /\ UNCHANGED <<asked, answers, freed, text, devVars, acceptor, new, stopFlag, appVars,
                       fault>>
    BY <1>1 DEF Remove, DropClient, Alive
  <2>2. app # "stopped"
    BY <2>1 DEF Tracked, Ended
  <2>3. threads' \in Seq(Conns) /\ Distinct(threads') /\ Listed' = Listed \ {c}
    <3>1. Listed' = Members(threads')
      BY DEF Listed, Members
    <3> QED BY <2>1, <2>2, <3>1, WithoutFact DEF Listing
  <2>4. rx' \in [Conns -> [got : Int, rest : Nat, tries : 0 .. MaxTries]]
        /\ \A d \in Conns \ {c} : rx'[d] = rx[d]
    BY <2>1 DEF TypeOK, NoBody
  <2>5. TypeOK'
    <3>1. /\ pc' \in [Conns -> Places]
          /\ \A d \in Conns : pc'[d] = "print" <=> devLock = d
      BY <2>1, GotoFact DEF Places
    <3>2. hungUp' \in [Conns -> BOOLEAN] /\ flag' \in [Conns -> BOOLEAN]
      BY <2>1 DEF TypeOK
    <3> QED BY <2>1, <2>3, <2>4, <3>1, <3>2, TypeFrame DEF devVars, appVars
  <2>6. Listed \subseteq Conns
    BY <2>2 DEF Listing, Listed
  <2>7. Listing'
    BY <2>1, <2>2, <2>3, <2>6 DEF Listing, TypeOK, Goto, Ended, appVars
  <2>8. Tracked'
    BY <2>1, <2>2, <2>3 DEF Tracked, TypeOK, Goto, Ended, appVars
  <2>9. Reading'
    BY <2>1, <2>4 DEF Reading, TypeOK, Goto
  <2> QED BY <2>5, <2>7, <2>8, <2>9 DEF Served
<1>2. CASE Delete(c)
  <2>1. /\ pc[c] = "delete" /\ freed' = freed \cup {c} /\ Goto(c, "gone")
        /\ UNCHANGED <<asked, rx, hungUp, answers, flag, text, base, devLock,
                       threads, acceptor, new, stopFlag, app, cursor, fault>>
    BY <1>2 DEF Delete, bodyVars, devVars, serverVars, appVars
  <2>2. /\ pc' \in [Conns -> Places] /\ pc'[c] = "gone" /\ \A d \in Conns \ {c} : pc'[d] = pc[d]
        /\ \A d \in Conns : pc'[d] = "print" <=> devLock' = d
    BY <2>1, GotoFact DEF Places
  <2>3. TypeOK'
    <3>1. freed' \subseteq Conns
      BY <2>1 DEF TypeOK
    <3> QED BY <2>1, <2>2, <3>1, TypeFrame
  <2>4. Reading'
    BY <2>1, <2>2 DEF Reading, bodyVars
  <2>5. Listed' = Listed /\ (app # "stopped" => Listed \subseteq Conns)
    BY <2>1 DEF Listed, Listing, serverVars
  <2>6. Listing'
    <3>1. app # "stopped" => \A d \in Listed' : pc'[d] \notin Ended
      BY <2>1, <2>2, <2>5 DEF Listing, Ended
    <3>2. freed \subseteq Conns
      BY DEF TypeOK
    <3>3. app = "idle" => \A d \in freed' : pc'[d] = "gone"
      BY <2>1, <2>2, <3>2 DEF Listing
    <3> QED BY <2>1, <2>2, <3>1, <3>3 DEF Listing, serverVars, appVars
  <2>7. Tracked'
    BY <2>1, <2>2, <2>5 DEF Tracked, Ended, serverVars, appVars
  <2> QED BY <2>3, <2>4, <2>6, <2>7 DEF Served
<1>3. CASE TouchDeleted(c)
  <2>1. UNCHANGED <<threadVars, devVars, serverVars, appVars>> /\ fault' = TRUE
    BY <1>3 DEF TouchDeleted
  <2>2. TypeOK'
    BY <2>1, TypeFrame DEF threadVars, bodyVars, devVars, serverVars, appVars
  <2>3. Listing' /\ Tracked' /\ Reading'
    BY <2>1 DEF Listing, Tracked, Reading, Listed, threadVars, bodyVars, serverVars, appVars
  <2> QED BY <2>2, <2>3 DEF Served
<1> QED BY <1>1, <1>2, <1>3

\* Every step keeps types and list.
LEMMA ServedStep == ASSUME Served, [Next]_vars PROVE Served'
<1>1. CASE UNCHANGED vars
  <2>1. UNCHANGED <<asked, answers, rx, hungUp, pc, flag, freed, text, base, devLock, threads,
                    acceptor, new, stopFlag, app, cursor, fault>>
    BY <1>1 DEF vars, threadVars, bodyVars, devVars, serverVars, appVars
  <2>2. TypeOK'
    <3>1. /\ pc' \in [Conns -> Places] /\ freed' = freed
          /\ \A d \in Conns : pc'[d] = "print" <=> devLock' = d
      BY <2>1 DEF Served, TypeOK, Places
    <3> QED BY <2>1, <3>1, TypeFrame DEF Served
  <2>3. Listing' /\ Tracked' /\ Reading'
    BY <2>1 DEF Served, Listing, Tracked, Reading, Listed
  <2> QED BY <2>2, <2>3 DEF Served
<1>2. ASSUME NEW c \in Conns, ThreadStep(c) PROVE Served'
  BY <1>2, ServedRequest, ServedRemoval DEF ThreadStep
<1> QED BY <1>1, <1>2, ServedAcceptor, ServedApp DEF Next

\* So types and list are always as they should be.
LEMMA ServedInvariant == Spec => []Served
BY ServedInit, ServedStep, PTL DEF Spec

\* The variables keep their types, and the device's lock is held by the thread that prints
\* the description and by no other, for any number of connections.
THEOREM ServerTypes == Spec => []TypeOK
<1>1. Served => TypeOK
  BY DEF Served
<1> QED BY <1>1, ServedInvariant, PTL

\* While the server runs its list is exact, whenever threads come and remove themselves.
THEOREM ListCorrect == Spec => []ListExact
<1>1. ASSUME Served PROVE ListExact
  <2> SUFFICES ASSUME app = "idle" PROVE ListExact
    BY DEF ListExact
  <2>1. /\ threads \in Seq(Conns) /\ Distinct(threads) /\ \A c \in Listed : pc[c] \notin Ended
        /\ \A c \in freed : pc[c] = "gone"
    BY <1>1 DEF Served, Listing
  <2>2. \A c \in Conns : pc[c] \notin Ended => c \in Listed
    BY <1>1, <2>1 DEF Served, Tracked, Ended
  <2>3. Listed \subseteq Conns
    BY <2>1 DEF Listed
  <2> QED BY <2>1, <2>2, <2>3 DEF ListExact, Distinct, Ended
<1> QED BY <1>1, ServedInvariant, PTL

-----------------------------------------------------------------------------
(* A client thread and the requests of its connection.                     *)

\* A thread answers each request before it reads the next.
Counted(c) ==
    /\ pc[c] \in {"none", "accepted", "unborn", "read"} => Len(answers[c]) = Len(asked[c])
    /\ pc[c] \in {"body", "check", "print", "respond"} => Len(asked[c]) = Len(answers[c]) + 1
    /\ Len(answers[c]) <= Len(asked[c])

\* Its answers are those of their requests, and it has left the loop after the last.
Told(c) ==
    \A i \in DOMAIN answers[c] :
        /\ (answers[c][i].status = "bad") <=> (asked[c][i].kind = "noHost")
        /\ asked[c][i].kind = "get" => answers[c][i].base = c
        /\ answers[c][i].status = "ok" /\ asked[c][i].last =>
              i = Len(answers[c]) /\ pc[c] \in {"remove", "delete", "gone"}

\* What it knows of the request it works on.
Turn(c) ==
    /\ pc[c] \in {"print", "respond"} => Request(c).kind # "noHost"
    /\ pc[c] = "print" => base = c
    /\ pc[c] = "respond" /\ Request(c).kind = "get" => text[c] = c
    /\ pc[c] = "body" => rx[c].got + rx[c].rest <= Request(c).body
    /\ pc[c] \in {"check", "print", "respond"} /\ rx[c].got > 0 => rx[c].got = Request(c).body

Own(c) == Counted(c) /\ Told(c) /\ Turn(c)

Owned == Served /\ \A c \in Conns : Own(c)

\* At first no thread has anything to do.
LEMMA OwnedInit == Init => Owned
<1>1. ASSUME Init, NEW c \in Conns PROVE Own(c)
  <2>1. asked[c] = <<>> /\ answers[c] = <<>> /\ pc[c] = "none"
    BY <1>1 DEF Init
  <2> QED BY <2>1 DEF Own, Counted, Told, Turn
<1> QED BY <1>1, ServedInit DEF Owned

\* The steps of others leave a thread what it has.
LEMMA OwnFrame ==
    ASSUME NEW c \in Conns, Own(c), asked'[c] = asked[c], answers'[c] = answers[c],
           pc'[c] = pc[c], rx'[c] = rx[c], text'[c] = text[c], pc[c] = "print" => base' = base
    PROVE  Own(c)'
<1>1. Request(c)' = Request(c)
  BY DEF Request
<1>2. Counted(c)'
  BY DEF Own, Counted
<1>3. Told(c)'
  BY DEF Own, Told
<1>4. Turn(c)'
  BY <1>1 DEF Own, Turn
<1> QED BY <1>2, <1>3, <1>4 DEF Own

\* A thread that goes to its end needs no more than the answers it has given.
LEMMA OwnEnd ==
    ASSUME NEW c \in Conns, Own(c), asked'[c] = asked[c], answers'[c] = answers[c],
           pc'[c] \in {"remove", "delete", "gone"}
    PROVE  Own(c)'
<1>1. Counted(c)' /\ Told(c)'
  BY DEF Own, Counted, Told
<1>2. Turn(c)'
  BY DEF Turn
<1> QED BY <1>1, <1>2 DEF Own

\* Client threads disturb each other in nothing but the address in the description.
LEMMA OthersKept ==
    ASSUME Served, NEW d \in Conns, ThreadStep(d), NEW c \in Conns \ {d}
    PROVE  /\ asked'[c] = asked[c] /\ answers'[c] = answers[c] /\ pc'[c] = pc[c]
           /\ rx'[c] = rx[c] /\ text'[c] = text[c]
           /\ pc[c] = "print" => base' = base
<1> USE DEF ThreadStep, Read, ReadFails, BodyRead, Count, CheckNoHost, CheckStopped, HandleOther,
            Describe, PrintTree, Respond, Remove, Delete, TouchDeleted, DropClient, Answer, Goto,
            threadVars, bodyVars, devVars
<1>1. asked' = asked \/ \E s : asked' = [asked EXCEPT ![d] = s]
  OBVIOUS
<1>2. answers' = answers \/ \E s : answers' = [answers EXCEPT ![d] = s]
  OBVIOUS
<1>3. pc' = pc \/ \E s : pc' = [pc EXCEPT ![d] = s]
  OBVIOUS
<1>4. rx' = rx \/ \E s : rx' = [rx EXCEPT ![d] = s]
  OBVIOUS
<1>5. text' = text \/ \E s : text' = [text EXCEPT ![d] = s]
  OBVIOUS
<1>6. base' = base \/ devLock = None
  OBVIOUS
<1>7. pc[c] = "print" => devLock # None
  BY RequestsAssumption DEF Served, TypeOK
<1> QED BY <1>1, <1>2, <1>3, <1>4, <1>5, <1>6, <1>7 DEF Served, TypeOK

\* A request is read, its body, and what comes of it.
LEMMA OwnStep ==
    ASSUME Served, NEW c \in Conns, Own(c), ThreadStep(c)
    PROVE  Own(c)'
<1>a. TypeOK /\ Reading
  BY DEF Served
<1>b. /\ asked[c] \in Seq(Requests) /\ answers[c] \in Seq(Responses)
      /\ rx[c].got \in Int /\ rx[c].rest \in Nat
  BY <1>a DEF TypeOK
<1>c. \A l \in Places : Goto(c, l) => pc'[c] = l
  BY <1>a, GotoFact
<1>1. CASE ReadFails(c) \/ CheckStopped(c) \/ Remove(c) \/ Delete(c) \/ TouchDeleted(c)
  <2>1. asked' = asked /\ answers' = answers
    BY <1>1 DEF ReadFails, CheckStopped, Remove, Delete, TouchDeleted, threadVars
  <2>2. pc'[c] \in {"remove", "delete", "gone"} \/ TouchDeleted(c)
    BY <1>1, <1>c DEF ReadFails, CheckStopped, Remove, Delete, Places
  <2>3. CASE TouchDeleted(c)
    BY <2>3, OwnFrame DEF TouchDeleted, threadVars, bodyVars, devVars
  <2> QED BY <2>1, <2>2, <2>3, OwnEnd
<1>2. ASSUME NEW r \in Requests, Read(c, r) PROVE Own(c)'
  <2>1. /\ pc[c] = "read" /\ asked' = [asked EXCEPT ![c] = Append(@, r)] /\ answers' = answers
        /\ rx' = [rx EXCEPT ![c] = [NoBody EXCEPT !.rest = r.body]]
    BY <1>2 DEF Read
  <2>2. pc'[c] \in {"body", "check"}
    BY <1>2, <1>c DEF Read, Places
  <2>3. rx'[c].got = 0 /\ rx'[c].rest = r.body
    BY <1>a, <2>1 DEF TypeOK, NoBody
  <2>4. /\ Len(asked'[c]) = Len(asked[c]) + 1 /\ Request(c)' = r
        /\ \A i \in DOMAIN asked[c] : asked'[c][i] = asked[c][i]
    BY <1>a, <2>1, AskedFact DEF Request
  <2>5. /\ Len(answers[c]) = Len(asked[c]) /\ Len(asked[c]) \in Nat
        /\ DOMAIN asked[c] = 1 .. Len(asked[c]) /\ DOMAIN answers[c] = 1 .. Len(answers[c])
    BY <1>b, <2>1 DEF Own, Counted
  <2>6. Counted(c)'
    BY <2>1, <2>2, <2>4, <2>5 DEF Counted
  <2>7. Told(c)'
    BY <2>1, <2>4, <2>5 DEF Own, Told
  <2>8. r.body \in Nat
    BY RequestsAssumption
  <2>9. Turn(c)'
    BY <2>2, <2>3, <2>4, <2>8 DEF Turn
  <2> QED BY <2>6, <2>7, <2>9 DEF Own
<1>3. CASE BodyRead(c)
  <2>1. PICK n \in Int, t \in 0 .. MaxTries :
           /\ n <= rx[c].rest /\ pc[c] = "body"
           /\ t \in {rx[c].tries, rx[c].tries + 1}
           /\ t # rx[c].tries => rx[c].got + n <= 0
           /\ Count(c, n, rx[c].got + n, t)
    BY <1>3, BodyFact
  <2> DEFINE g == rx[c].got + n
             rest == IF n > 0 THEN rx[c].rest - n ELSE rx[c].rest
  <2>2. asked' = asked /\ answers' = answers /\ Request(c)' = Request(c)
    BY <2>1 DEF Count, Request
  <2>3. Request(c).body \in Nat /\ rx[c].got + rx[c].rest <= Request(c).body
    BY <2>1, RequestFact DEF Own, Turn
  <2>4. g \in Int /\ rest \in Nat /\ g + rest <= Request(c).body
    <3>1. \A a, k \in Int, b, m \in Nat :
             k <= b /\ a + b <= m =>
                LET r == IF k > 0 THEN b - k ELSE b IN
                a + k \in Int /\ r \in Nat /\ a + k + r <= m
      OBVIOUS
    <3> QED BY <1>b, <2>1, <2>3, <3>1
  <2>5. \/ pc'[c] = "body" /\ rx'[c].got = g /\ rx'[c].rest = rest
        \/ /\ pc'[c] = "check" /\ rx'[c].got = IF g > 0 THEN g ELSE 0
           /\ ~(g < Request(c).body /\ t < MaxTries)
    <3>1. CASE g < Request(c).body /\ t < MaxTries
      <4>1. pc' = pc /\ rx' = [rx EXCEPT ![c] = [got |-> g, rest |-> rest, tries |-> t]]
        BY <2>1, <3>1 DEF Count
      <4> QED BY <1>a, <2>1, <4>1 DEF TypeOK
    <3>2. CASE ~(g < Request(c).body /\ t < MaxTries)
      <4>1. Goto(c, "check")
            /\ rx' = [rx EXCEPT ![c] = [NoBody EXCEPT !.got = IF g > 0 THEN g ELSE 0]]
        BY <2>1, <3>2 DEF Count
      <4>2. rx'[c].got = IF g > 0 THEN g ELSE 0
        BY <1>a, <4>1 DEF NoBody, TypeOK
      <4> QED BY <1>c, <3>2, <4>1, <4>2 DEF Places
    <3> QED BY <3>1, <3>2
  <2>6. t < MaxTries \/ g <= 0
    BY <1>a, <2>1, RequestsAssumption DEF Reading
  <2>7. Counted(c)' /\ Told(c)'
    BY <2>1, <2>2, <2>5 DEF Own, Counted, Told
  <2>8. Turn(c)'
    BY <2>2, <2>3, <2>4, <2>5, <2>6 DEF Turn
  <2> QED BY <2>7, <2>8 DEF Own
<1>4. ASSUME NEW status \in {"ok", "bad"}, Answer(c, status), asked' = asked,
             pc[c] \in {"check", "respond"}, pc'[c] \in {"read", "remove"},
             (status = "bad") <=> (Request(c).kind = "noHost"),
             Request(c).kind = "get" => text[c] = c,
             status = "ok" /\ Request(c).last => pc'[c] = "remove"
      PROVE  Own(c)'
  <2>1. /\ Len(answers'[c]) = Len(answers[c]) + 1
        /\ \A i \in DOMAIN answers'[c] :
              \/ i \in DOMAIN answers[c] /\ answers'[c][i] = answers[c][i]
              \/ i = Len(answers'[c]) /\ answers'[c][i] = [status |-> status, base |-> text[c]]
    BY <1>a, <1>4, AnsweredFact
  <2>2. Len(asked[c]) = Len(answers[c]) + 1 /\ Len(answers[c]) \in Nat
    BY <1>b, <1>4 DEF Own, Counted
  <2>3. Counted(c)'
    BY <1>4, <2>1, <2>2 DEF Counted
  <2>4. ASSUME NEW i \in DOMAIN answers'[c]
        PROVE  /\ (answers'[c][i].status = "bad") <=> (asked[c][i].kind = "noHost")
               /\ asked[c][i].kind = "get" => answers'[c][i].base = c
               /\ answers'[c][i].status = "ok" /\ asked[c][i].last =>
                     i = Len(answers'[c]) /\ pc'[c] \in {"remove", "delete", "gone"}
    <3>1. CASE i \in DOMAIN answers[c] /\ answers'[c][i] = answers[c][i]
      BY <1>4, <3>1 DEF Own, Told
    <3>2. CASE i = Len(answers'[c]) /\ answers'[c][i] = [status |-> status, base |-> text[c]]
      <4>1. asked[c][i] = Request(c)
        BY <2>1, <2>2, <3>2 DEF Request
      <4> QED BY <1>4, <3>2, <4>1
    <3> QED BY <2>1, <3>1, <3>2
  <2>5. Told(c)'
    BY <1>4, <2>4 DEF Told
  <2>6. Turn(c)'
    BY <1>4 DEF Turn
  <2> QED BY <2>3, <2>5, <2>6 DEF Own
<1>5. CASE CheckNoHost(c)
  BY <1>4, <1>5, <1>c DEF CheckNoHost, Places
<1>6. CASE Respond(c)
  BY <1>4, <1>6, <1>c DEF Respond, Places, Own, Turn
<1>7. CASE HandleOther(c)
  <2>1. /\ pc[c] = "check" /\ pc'[c] = "respond" /\ Request(c).kind = "other"
        /\ asked' = asked /\ answers' = answers /\ rx' = rx
    BY <1>7, <1>c DEF HandleOther, bodyVars, Places
  <2>2. Request(c)' = Request(c)
    BY <2>1 DEF Request
  <2> QED BY <2>1, <2>2 DEF Own, Counted, Told, Turn
<1>8. CASE Describe(c)
  <2>1. /\ pc[c] = "check" /\ pc'[c] = "print" /\ Request(c).kind = "get" /\ base' = c
        /\ asked' = asked /\ answers' = answers /\ rx' = rx
    BY <1>8, <1>c DEF Describe, bodyVars, Places
  <2>2. Request(c)' = Request(c)
    BY <2>1 DEF Request
  <2> QED BY <2>1, <2>2 DEF Own, Counted, Told, Turn
<1>9. CASE PrintTree(c)
  <2>1. /\ pc[c] = "print" /\ pc'[c] = "respond" /\ text'[c] = base
        /\ asked' = asked /\ answers' = answers /\ rx' = rx
    BY <1>9, <1>a, <1>c DEF PrintTree, bodyVars, Places, TypeOK
  <2>2. Request(c)' = Request(c)
    BY <2>1 DEF Request
  <2> QED BY <2>1, <2>2 DEF Own, Counted, Told, Turn
<1> QED BY <1>1, <1>2, <1>3, <1>5, <1>6, <1>7, <1>8, <1>9 DEF ThreadStep

\* The accepting thread starts threads; stop only clears flags.
LEMMA OwnServer ==
    ASSUME Served, AcceptorStep \/ AcceptFails \/ StopAcceptor \/ AppStep,
           NEW c \in Conns, Own(c)
    PROVE  Own(c)'
<1>1. UNCHANGED <<asked, answers, rx, text, base>>
  BY DEF AcceptorStep, AcceptorCheck, Accept, StartThread, StartFails, AcceptFails, StopAcceptor,
         AppStep, DeleteAcceptor, StopThread, NextThread, RemoveHead, FreeThread, CloseServer,
         threadVars, bodyVars, devVars
<1>2. \/ pc' = pc
      \/ \E d \in Conns : /\ pc[d] \in {"none", "accepted"}
                         /\ \E l \in {"accepted", "read", "unborn"} : Goto(d, l)
  <2>1. acceptor = "start" => new \in Conns /\ pc[new] = "accepted"
    BY DEF Served, Listing
  <2> QED
    BY <2>1
    DEF AcceptorStep, AcceptorCheck, Accept, StartThread, StartFails, AcceptFails, StopAcceptor,
        AppStep, DeleteAcceptor, StopThread, NextThread, RemoveHead, FreeThread, CloseServer,
        threadVars
<1>3. CASE pc'[c] = pc[c]
  BY <1>1, <1>3, OwnFrame
<1>4. CASE pc[c] \in {"none", "accepted"} /\ pc'[c] \in {"accepted", "read", "unborn"}
  BY <1>1, <1>4 DEF Own, Counted, Told, Turn
<1> QED BY <1>2, <1>3, <1>4 DEF Served, TypeOK, Goto

\* Every step, of the thread itself, of another or of the server, keeps what a thread has.
LEMMA OwnedStep == ASSUME Owned, [Next]_vars PROVE Owned'
<1>1. Served'
  BY ServedStep DEF Owned
<1> SUFFICES ASSUME NEW c \in Conns PROVE Own(c)'
  BY <1>1 DEF Owned
<1>2. CASE UNCHANGED vars
  BY <1>2, OwnFrame DEF Owned, vars, threadVars, bodyVars, devVars
<1>3. ASSUME NEW d \in Conns, ThreadStep(d) PROVE Own(c)'
  <2>1. CASE c = d
    BY <1>3, <2>1, OwnStep DEF Owned
  <2>2. CASE c # d
    BY <1>3, <2>2, OthersKept, OwnFrame DEF Owned
  <2> QED BY <2>1, <2>2
<1> QED BY <1>2, <1>3, OwnServer DEF Owned, Next

\* So it always has it.
LEMMA OwnedInvariant == Spec => []Owned
BY OwnedInit, OwnedStep, PTL DEF Spec

\* A connection's requests are answered one by one and in their order, whatever it sends,
\* and nothing after the request that ends it.
THEOREM AnswersInOrder == Spec => []AnsweredInOrder
<1>1. ASSUME Owned PROVE AnsweredInOrder
  <2>1. ASSUME NEW c \in Conns
        PROVE  /\ Len(answers[c]) <= Len(asked[c])
               /\ pc[c] = "read" => Len(answers[c]) = Len(asked[c])
               /\ \A i \in DOMAIN answers[c] :
                     /\ (answers[c][i].status = "bad") <=> (asked[c][i].kind = "noHost")
                     /\ answers[c][i].status = "ok" /\ asked[c][i].last => i = Len(answers[c])
    BY <1>1, <2>1 DEF Owned, Own, Counted, Told
  <2> QED BY <2>1 DEF AnsweredInOrder
<1> QED BY <1>1, OwnedInvariant, PTL

\* Every description carries the address of its own connection, however many are asked
\* for at once.
THEOREM OwnAddress == Spec => []OwnBase
<1>1. Owned => OwnBase
  BY DEF Owned, Own, Told, OwnBase
<1> QED BY <1>1, OwnedInvariant, PTL

\* The listener never sees a part of a body, whatever recv returns and in which order.
THEOREM BodiesWhole == Spec => []WholeBody
<1>1. Owned => WholeBody
  BY DEF Owned, Own, Turn, WholeBody
<1> QED BY <1>1, OwnedInvariant, PTL

=============================================================================
