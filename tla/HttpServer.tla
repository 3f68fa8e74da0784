----------------------------- MODULE HttpServer -----------------------------
(***************************************************************************)
(* The stack's HTTP server (chttp_server, cthread_list): a thread that     *)
(* accepts connections, one client thread for each connection that reads   *)
(* requests until the connection ends and then removes and deletes itself, *)
(* and cg_http_server_stop, which stops and deletes the threads it finds   *)
(* in the list.  The listener is the device's                              *)
(* (cg_upnp_device_httprequestrecieved): a GET of the description writes   *)
(* the address of the connection into the shared tree before it prints the *)
(* tree, both under the device's mutex.                                    *)
(*                                                                         *)
(* A request is what the client thread tells apart: its kind, whether the  *)
(* connection ends with it (HTTP/1.0, or "Connection: close"), and the     *)
(* Content-Length of its body, which comes in pieces (chttp_packet).  A    *)
(* step that touches a CgThread that has been deleted, or memory outside   *)
(* the buffer of a body, ends the run (fault).                             *)
(***************************************************************************)
EXTENDS Integers, Sequences

CONSTANTS
    Conns,     \* connections, each of one client over an interface of its own
    Requests,  \* what clients send
    Offers,    \* what each client may send as its first, second ... and last request
    MaxTries,  \* reads without data after which the body is given up (20)
    None

ASSUME RequestsAssumption ==
    /\ Requests \subseteq [kind : {"get", "other", "noHost"}, last : BOOLEAN, body : Nat]
    /\ Offers \in [Conns -> Seq(SUBSET Requests)] /\ MaxTries \in Nat \ {0}
    /\ None \notin Conns

VARIABLES
    asked,     \* requests the client thread has read
    answers,   \* responses sent
    rx,        \* the body: readLen, what the client has yet to send of it, tries
    hungUp,    \* connections of which a read has met the end
    pc,        \* where the client thread is
    flag,      \* runnableFlag of the client thread
    freed,     \* client threads whose CgThread has been deleted
    text,      \* the description as printed, by the address in it
    base,      \* the address in the description's tree (URLBase)
    devLock,   \* who holds the device's mutex
    threads,   \* clientThreads, the list; None when it has been deleted
    acceptor,  \* the accepting thread: "check", "accept", "start" or "gone"
    new,       \* the connection just accepted
    stopFlag,  \* runnableFlag of the accepting thread has been cleared
    app,       \* the application: "idle", the steps of stop, "stopped"
    cursor,    \* the thread the loop of stop stands on
    fault      \* a deleted CgThread has been touched

bodyVars == <<rx, hungUp>>
threadVars == <<asked, answers, bodyVars, pc, flag, freed, text>>
devVars == <<base, devLock>>
serverVars == <<threads, acceptor, new, stopFlag>>
appVars == <<app, cursor>>
vars == <<threadVars, devVars, serverVars, appVars, fault>>

Goto(c, l) == pc' = [pc EXCEPT ![c] = l]
Listed == {threads[i] : i \in DOMAIN threads}
Position(c) == CHOOSE i \in DOMAIN threads : threads[i] = c

\* cg_list_remove; a thread that is in no list is its own neighbour.
Without(c) ==
    IF c \in Listed
    THEN [i \in 1 .. Len(threads) - 1 |-> IF i < Position(c) THEN threads[i] ELSE threads[i + 1]]
    ELSE threads

\* A use of the CgThread of c.
Alive(c) == c \notin freed

-----------------------------------------------------------------------------
(* The accepting thread: cg_http_server_thread.                            *)

AcceptorCheck ==
    /\ acceptor = "check"
    /\ acceptor' = IF stopFlag THEN "gone" ELSE "accept"
    /\ fault' = (app \notin {"idle", "deleteAcceptor"})
    /\ UNCHANGED <<threadVars, devVars, threads, new, stopFlag, appVars>>

\* The thread of the connection is entered into the list before it is started.
Accept(c) ==
    /\ acceptor = "accept" /\ pc[c] = "none"
    /\ IF threads = None
       THEN fault' = TRUE /\ UNCHANGED <<threads, acceptor, new, pc>>
       ELSE /\ threads' = Append(threads, c) /\ new' = c
            /\ acceptor' = "start" /\ Goto(c, "accepted")
            /\ UNCHANGED fault
    /\ UNCHANGED <<asked, bodyVars, answers, flag, freed, text, devVars, stopFlag, appVars>>

\* Any failure of accept() ends the thread, a signal as well as a closed socket.
AcceptFails ==
    /\ acceptor = "accept"
    /\ acceptor' = "gone"
    /\ UNCHANGED <<threadVars, devVars, threads, new, stopFlag, appVars, fault>>

StartThread ==
    /\ acceptor = "start"
    /\ fault' = ~Alive(new)
    /\ Goto(new, "read") /\ flag' = [flag EXCEPT ![new] = TRUE]
    /\ acceptor' = "check" /\ new' = None
    /\ UNCHANGED <<asked, bodyVars, answers, freed, text, devVars, threads,
                   stopFlag, appVars>>

\* pthread_create fails: nobody serves the connection, and nobody closes it.
StartFails ==
    /\ acceptor = "start"
    /\ fault' = ~Alive(new)
    /\ Goto(new, "unborn")
    /\ acceptor' = "check" /\ new' = None
    /\ UNCHANGED <<asked, bodyVars, answers, flag, freed, text, devVars, threads,
                   stopFlag, appVars>>

-----------------------------------------------------------------------------
(* A client thread: cg_http_server_clientthread.                           *)

Request(c) == asked[c][Len(asked[c])]
Answer(c, status) == answers' = [answers EXCEPT ![c] = Append(@, [status |-> status,
                                                                  base |-> text[c]])]

NoBody == [got |-> 0, rest |-> 0, tries |-> 0]

\* The client's next request, as far as the end of its headers: an empty line, or a read
\* that fails, which ends the headers just the same.
Read(c, r) ==
    /\ pc[c] = "read" /\ ~hungUp[c]
    /\ Len(asked[c]) < Len(Offers[c]) /\ r \in Offers[c][Len(asked[c]) + 1]
    /\ asked' = [asked EXCEPT ![c] = Append(@, r)]
    /\ rx' = [rx EXCEPT ![c] = [NoBody EXCEPT !.rest = r.body]]
    /\ Goto(c, IF r.body > 0 THEN "body" ELSE "check")
    /\ UNCHANGED <<answers, hungUp, flag, freed, text, devVars, serverVars, appVars, fault>>

\* What recv may return for the rest of the body: -1 after the timeout of the socket or a
\* signal, 0 when the client has hung up, and then always, or some bytes.
Received(c) == IF hungUp[c] THEN {0} ELSE -1 .. rx[c].rest

\* recv has returned n: it is added to readLen (got), a failure takes one from it, and
\* readLen is the place in the buffer too.  The loop goes on, or the listener's turn has come
\* with what is there.
Count(c, n, got, tries) ==
    /\ hungUp' = [hungUp EXCEPT ![c] = @ \/ n = 0]
    /\ fault' = (n > 0 /\ rx[c].got < 0)
    /\ IF got < Request(c).body /\ tries < MaxTries
       THEN /\ rx' = [rx EXCEPT ![c] = [got |-> got, rest |-> IF n > 0 THEN @.rest - n ELSE @.rest,
                                        tries |-> tries]]
            /\ UNCHANGED pc
       ELSE /\ rx' = [rx EXCEPT ![c] = [NoBody EXCEPT !.got = IF got > 0 THEN got ELSE 0]]
            /\ Goto(c, "check")
    /\ UNCHANGED <<asked, answers, flag, freed, text, devVars, serverVars, appVars>>

\* Mutant of BodyRead: every read counts as a try, as in cg_http_packet_read_chunk.
BodyReadCountsAll(c) ==
    /\ pc[c] = "body"
    /\ \E n \in Received(c) : Count(c, n, rx[c].got + n, rx[c].tries + 1)

\* One round of the loop of cg_http_packet_read_body.
BodyRead(c) ==
    /\ pc[c] = "body"
    /\ \E n \in Received(c) :
          Count(c, n, rx[c].got + n, IF rx[c].got + n <= 0 THEN rx[c].tries + 1 ELSE rx[c].tries)

\* The client has hung up, nothing came for 120 seconds, or a signal.
ReadFails(c) ==
    /\ pc[c] = "read"
    /\ Goto(c, "remove")
    /\ UNCHANGED <<asked, bodyVars, answers, flag, freed, text, devVars, serverVars, appVars,
                   fault>>

\* Mutant of CheckNoHost: the request is handled although it has been refused.
CheckNoHostHandles(c) ==
    /\ pc[c] = "check" /\ Alive(c) /\ flag[c]
    /\ Request(c).kind = "noHost"
    /\ Answer(c, "bad") /\ Goto(c, "respond")
    /\ UNCHANGED <<asked, bodyVars, flag, freed, text, devVars, serverVars, appVars,
                   fault>>

\* HTTP/1.1 without a Host is refused, and the next request read in any case.
CheckNoHost(c) ==
    /\ pc[c] = "check" /\ Alive(c) /\ flag[c]
    /\ Request(c).kind = "noHost"
    /\ Answer(c, "bad") /\ Goto(c, "read")
    /\ UNCHANGED <<asked, bodyVars, flag, freed, text, devVars, serverVars, appVars,
                   fault>>

\* The thread has been stopped: the request is dropped.
CheckStopped(c) ==
    /\ pc[c] = "check" /\ Alive(c) /\ ~flag[c]
    /\ Goto(c, "remove")
    /\ UNCHANGED <<asked, bodyVars, answers, flag, freed, text, devVars, serverVars,
                   appVars, fault>>

\* The listener, for anything but a GET of the description.
HandleOther(c) ==
    /\ pc[c] = "check" /\ Alive(c) /\ flag[c]
    /\ Request(c).kind = "other"
    /\ Goto(c, "respond")
    /\ UNCHANGED <<asked, bodyVars, answers, flag, freed, text, devVars, serverVars,
                   appVars, fault>>

\* Mutant of Describe: only the update is made under the lock.
DescribeUnlocked(c) ==
    /\ pc[c] = "check" /\ Alive(c) /\ flag[c]
    /\ Request(c).kind = "get"
    /\ devLock = None
    /\ base' = c
    /\ Goto(c, "print")
    /\ UNCHANGED <<devLock, asked, bodyVars, answers, flag, freed, text, serverVars,
                   appVars, fault>>

\* cg_upnp_device_getdescription: lock, update URLBase ...
Describe(c) ==
    /\ pc[c] = "check" /\ Alive(c) /\ flag[c]
    /\ Request(c).kind = "get"
    /\ devLock = None
    /\ devLock' = c /\ base' = c
    /\ Goto(c, "print")
    /\ UNCHANGED <<asked, bodyVars, answers, flag, freed, text, serverVars, appVars,
                   fault>>

\* Mutant of PrintTree: it returns without the unlock.
PrintKeepsLock(c) ==
    /\ pc[c] = "print"
    /\ text' = [text EXCEPT ![c] = base]
    /\ Goto(c, "respond")
    /\ UNCHANGED <<asked, bodyVars, answers, flag, freed, devVars, serverVars, appVars, fault>>

\* ... print the tree, unlock.
PrintTree(c) ==
    /\ pc[c] = "print"
    /\ text' = [text EXCEPT ![c] = base]
    /\ devLock' = None
    /\ Goto(c, "respond")
    /\ UNCHANGED <<asked, bodyVars, answers, flag, freed, base, serverVars, appVars,
                   fault>>

Respond(c) ==
    /\ pc[c] = "respond"
    /\ Answer(c, "ok")
    /\ text' = [text EXCEPT ![c] = None] /\ rx' = [rx EXCEPT ![c] = NoBody]
    /\ Goto(c, IF Request(c).last THEN "remove" ELSE "read")
    /\ UNCHANGED <<asked, hungUp, flag, freed, devVars, serverVars, appVars, fault>>

\* The request, what it was read into and the socket are deleted.
DropClient(c) ==
    /\ rx' = [rx EXCEPT ![c] = NoBody] /\ hungUp' = [hungUp EXCEPT ![c] = FALSE]

\* Mutant of Remove: the thread stays in the list.
RemoveForgets(c) ==
    /\ pc[c] = "remove" /\ Alive(c)
    /\ flag' = [flag EXCEPT ![c] = FALSE]
    /\ DropClient(c) /\ Goto(c, "delete")
    /\ UNCHANGED <<threads, asked, answers, freed, text, devVars, acceptor, new, stopFlag,
                   appVars, fault>>

\* It leaves the list and, before it is freed, stops itself: cg_thread_delete clears a
\* flag still set and sleeps for a second.
Remove(c) ==
    /\ pc[c] = "remove" /\ Alive(c)
    /\ threads' = Without(c) /\ flag' = [flag EXCEPT ![c] = FALSE]
    /\ DropClient(c) /\ Goto(c, "delete")
    /\ UNCHANGED <<asked, answers, freed, text, devVars, acceptor, new, stopFlag, appVars,
                   fault>>

Delete(c) ==
    /\ pc[c] = "delete" /\ Alive(c)
    /\ freed' = freed \cup {c}
    /\ Goto(c, "gone")
    /\ UNCHANGED <<asked, bodyVars, answers, flag, text, devVars, serverVars, appVars,
                   fault>>

\* The CgThread has been deleted by stop.
TouchDeleted(c) ==
    /\ pc[c] \in {"check", "remove", "delete"} /\ ~Alive(c)
    /\ fault' = TRUE
    /\ UNCHANGED <<threadVars, devVars, serverVars, appVars>>

-----------------------------------------------------------------------------
(* cg_http_server_stop and _close.  cg_thread_stop clears the flag, signals *)
(* the thread and sleeps for a second, in which the thread may get anywhere.*)

StopAcceptor ==
    /\ app = "idle"
    /\ stopFlag' = TRUE
    /\ app' = "deleteAcceptor"
    /\ UNCHANGED <<threadVars, devVars, threads, acceptor, new, cursor, fault>>

\* The first thread of the list, or the end of the loop.
DeleteAcceptor ==
    /\ app = "deleteAcceptor"
    /\ IF threads = <<>> THEN app' = "deleteThreads" /\ UNCHANGED cursor
                         ELSE app' = "stopThread" /\ cursor' = Head(threads)
    /\ UNCHANGED <<threadVars, devVars, serverVars, fault>>

\* Mutant of StopThread: the loop waits until the thread is out of the list.
StopThreadJoins ==
    /\ app = "stopThread" /\ cursor \notin Listed
    /\ flag' = [flag EXCEPT ![cursor] = FALSE]
    /\ fault' = ~Alive(cursor)
    /\ app' = "nextThread"
    /\ UNCHANGED <<asked, bodyVars, answers, pc, freed, text, devVars, serverVars, cursor>>

StopThread ==
    /\ app = "stopThread"
    /\ flag' = [flag EXCEPT ![cursor] = FALSE]
    /\ fault' = ~Alive(cursor)
    /\ app' = "nextThread"
    /\ UNCHANGED <<asked, bodyVars, answers, pc, freed, text, devVars, serverVars, cursor>>

\* A thread that has left the list is its own successor, until it is deleted.
NextThread ==
    /\ app = "nextThread"
    /\ fault' = ~Alive(cursor)
    /\ CASE cursor \notin Listed -> app' = "stopThread" /\ UNCHANGED cursor
         [] cursor \in Listed /\ Position(cursor) < Len(threads) ->
               app' = "stopThread" /\ cursor' = threads[Position(cursor) + 1]
         [] OTHER -> app' = "deleteThreads" /\ cursor' = None
    /\ UNCHANGED <<threadVars, devVars, serverVars>>

\* cg_threadlist_delete, without the server's mutex: a thread is taken from the list,
\* stopped if its flag is still set (a second's sleep), and freed.
RemoveHead ==
    /\ app = "deleteThreads" /\ threads # <<>>
    /\ threads' = Tail(threads) /\ cursor' = Head(threads)
    /\ flag' = [flag EXCEPT ![Head(threads)] = FALSE]
    /\ fault' = ~Alive(Head(threads))
    /\ app' = "freeThread"
    /\ UNCHANGED <<asked, bodyVars, answers, pc, freed, text, devVars, acceptor, new, stopFlag>>

FreeThread ==
    /\ app = "freeThread"
    /\ freed' = freed \cup {cursor} /\ cursor' = None
    /\ fault' = ~Alive(cursor)
    /\ app' = "deleteThreads"
    /\ UNCHANGED <<asked, bodyVars, answers, pc, flag, text, devVars, serverVars>>

\* The list is freed, the socket closed and the server freed with it.
CloseServer ==
    /\ app = "deleteThreads" /\ threads = <<>>
    /\ threads' = None
    /\ app' = "stopped"
    /\ UNCHANGED <<threadVars, devVars, acceptor, new, stopFlag, cursor, fault>>

-----------------------------------------------------------------------------
(* The specification.                                                      *)

AcceptorStep ==
    AcceptorCheck \/ StartThread \/ StartFails \/ \E c \in Conns : Accept(c)

ThreadStep(c) ==
    \/ (\E r \in Requests : Read(c, r)) \/ ReadFails(c) \/ BodyRead(c)
    \/ CheckNoHost(c) \/ CheckStopped(c) \/ HandleOther(c) \/ Describe(c)
    \/ PrintTree(c) \/ Respond(c) \/ Remove(c) \/ Delete(c) \/ TouchDeleted(c)

AppStep ==
    \/ DeleteAcceptor \/ StopThread \/ NextThread \/ RemoveHead \/ FreeThread \/ CloseServer

Next ==
    /\ ~fault
    /\ \/ AcceptorStep \/ AcceptFails \/ StopAcceptor \/ AppStep
       \/ \E c \in Conns : ThreadStep(c)

Init ==
    /\ asked = [c \in Conns |-> <<>>]
    /\ answers = [c \in Conns |-> <<>>]
    /\ rx = [c \in Conns |-> NoBody] /\ hungUp = [c \in Conns |-> FALSE]
    /\ pc = [c \in Conns |-> "none"] /\ flag = [c \in Conns |-> FALSE]
    /\ freed = {} /\ text = [c \in Conns |-> None]
    /\ base = None /\ devLock = None
    /\ threads = <<>> /\ acceptor = "check" /\ new = None /\ stopFlag = FALSE
    /\ app = "idle" /\ cursor = None
    /\ fault = FALSE

Spec == Init /\ [][Next]_vars

\* Every thread keeps running; a read ends at the latest with its timeout.
FairSpec ==
    /\ Spec
    /\ WF_vars(~fault /\ AcceptorStep) /\ WF_vars(~fault /\ AppStep)
    /\ \A c \in Conns : SF_vars(~fault /\ ThreadStep(c))

-----------------------------------------------------------------------------
(* Properties.                                                             *)

Responses == [status : {"ok", "bad"}, base : Conns \cup {None}]

\* The variables have their types, and the device's mutex is held exactly by the thread
\* that prints the description.
TypeOK ==
    /\ asked \in [Conns -> Seq(Requests)] /\ answers \in [Conns -> Seq(Responses)]
    /\ rx \in [Conns -> [got : Int, rest : Nat, tries : 0 .. MaxTries]]
    /\ hungUp \in [Conns -> BOOLEAN]
    /\ pc \in [Conns -> {"none", "accepted", "unborn", "read", "body", "check", "print", "respond",
                         "remove", "delete", "gone"}]
    /\ flag \in [Conns -> BOOLEAN] /\ freed \subseteq Conns
    /\ text \in [Conns -> Conns \cup {None}]
    /\ base \in Conns \cup {None} /\ devLock \in Conns \cup {None}
    /\ \A c \in Conns : pc[c] = "print" <=> devLock = c
    /\ threads = None \/ threads \in Seq(Conns)
    /\ acceptor \in {"check", "accept", "start", "gone"} /\ new \in Conns \cup {None}
    /\ stopFlag \in BOOLEAN
    /\ app \in {"idle", "deleteAcceptor", "stopThread", "nextThread", "deleteThreads",
                "freeThread", "stopped"}
    /\ cursor \in Conns \cup {None} /\ fault \in BOOLEAN

\* Every request read from a connection gets one answer, in order, before the next
\* is read; none is answered after one that ends the connection.
AnsweredInOrder ==
    \A c \in Conns :
        /\ Len(answers[c]) <= Len(asked[c])
        /\ pc[c] = "read" => Len(answers[c]) = Len(asked[c])
        /\ \A i \in DOMAIN answers[c] :
              /\ (answers[c][i].status = "bad") <=> (asked[c][i].kind = "noHost")
              /\ answers[c][i].status = "ok" /\ asked[c][i].last => i = Len(answers[c])

\* A description carries the address of the connection it was asked for on, though
\* all connections write theirs into the same tree.
OwnBase ==
    \A c \in Conns : \A i \in DOMAIN answers[c] :
        asked[c][i].kind = "get" => answers[c][i].base = c

\* Until the server is stopped its list holds exactly the threads that have been
\* started and not yet removed themselves.
ListExact ==
    app = "idle" =>
        /\ Listed = {c \in Conns : pc[c] \notin {"none", "delete", "gone"}}
        /\ \A i, j \in DOMAIN threads : threads[i] = threads[j] => i = j

\* The listener is given the whole body of a request or none of it, however the body
\* comes in, and whichever reads of it fail.
WholeBody ==
    \A c \in Conns :
        pc[c] \in {"check", "print", "respond"} /\ rx[c].got > 0 => rx[c].got = Request(c).body

\* A client that hangs up in the middle of a body leaves its thread in the loop for ever.
Stuck(c) == pc[c] = "body" /\ hungUp[c] /\ rx[c].got > 0

\* Every client thread comes to its end, however its client stalls and however often
\* the others hold the device's mutex, unless the body it reads is cut short.
ConnectionsEnd == \A c \in Conns : (pc[c] = "read") ~> (pc[c] = "gone" \/ Stuck(c) \/ fault)

\* chttp_packet.c:468, "Read content until conLen is reached, or tired of trying": the
\* read of a body comes to an end.
BodyReadTires == \A c \in Conns : (pc[c] = "body") ~> (pc[c] # "body" \/ fault)

\* Stop returns, though threads leave the list it walks.
StopReturns == (app # "idle") ~> (app = "stopped" \/ fault)
=============================================================================
