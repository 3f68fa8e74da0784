------------------------------ MODULE Eventing ------------------------------
(***************************************************************************)
(* General events between one evented service of a device (cservice_notify,*)
(* csubscriber, cdevice_http_server) and the control points subscribed to  *)
(* it (ccontrolpoint_event, ccontrolpoint_http_server).                    *)
(*                                                                         *)
(* Every exchange is a synchronous HTTP request, and both ends wait for    *)
(* the answer with a lock held: the publisher posts NOTIFY with the        *)
(* service's mutex held, the control point posts SUBSCRIBE, renewals and   *)
(* UNSUBSCRIBE with its own mutex held, and its NOTIFY handler needs that  *)
(* mutex.  The socket build of the stack has no client timeout (a request  *)
(* ends only with an answer); the curl build gives up after 30 seconds.    *)
(*                                                                         *)
(* The service has one evented state variable, of which only the age       *)
(* counts: its n-th value is n.  The subscriber list is a set: the order   *)
(* in which different control points are notified is left open.            *)
(***************************************************************************)
EXTENDS Integers

CONSTANTS
    Cps,            \* control points, each with its application's thread
    Setters,        \* threads of the device that set the state variable
    Workers,        \* client threads of the device's HTTP server
    Handlers,       \* client threads of the control points' HTTP servers
    MaxSid,         \* bound on the SUBSCRIBE requests of a run
    MaxValue,       \* bound on the values set in a run
    MaxCounter,     \* bound on CG_UPNP_EVENT_MAX_SEQ and CG_UPNP_NOTIFY_COUNT_MAX
    Builds,         \* the builds of the stack and the uses made of it, see Build
    None

Sids == 1 .. MaxSid            \* subscription identifiers, in the order given out
Values == 0 .. MaxValue
Seqs == 0 .. MaxCounter
Callers == Cps \cup Handlers   \* who posts requests to the device
Notifiers == Setters \cup Sids \* setters, and the thread that sends initial events
Threads == Callers \cup Notifiers \cup Workers

ASSUME BoundsAssumption ==
    /\ MaxSid \in Nat /\ MaxValue \in Nat
    /\ MaxCounter \in Nat \ {0}

\* No thread is of two kinds, nor is it one of the marks that stand in its place.
ASSUME ThreadAssumption ==
    /\ Cps \cap Handlers = {} /\ Setters \cap Sids = {}
    /\ Callers \cap Notifiers = {} /\ Workers \cap (Callers \cup Notifiers) = {}
    /\ None \notin Threads /\ None \notin {"queued", "ok", "failed"}
    /\ {"queued", "ok", "failed"} \cap (Workers \cup Handlers) = {}

\* What a run is about, fixed from the start.
Build == [
    curl : BOOLEAN,             \* the curl build: a request is given up after a while
    lossy : BOOLEAN,            \* may a connection be refused?
    tracked : BOOLEAN,          \* do events carry the value, or is it left out?
    ops : SUBSET {"subscribe", "renew", "unsubscribe", "lapse"},
                                \* what the applications do; "lapse": leases run out
    maxSeq : 1 .. MaxCounter,   \* CG_UPNP_EVENT_MAX_SEQ
    maxCount : 1 .. MaxCounter] \* CG_UPNP_NOTIFY_COUNT_MAX

ASSUME BuildAssumption == Builds \subseteq {b \in Build : b.maxSeq <= b.maxCount}

VARIABLES
    pc,        \* where each thread is
    value,     \* publisher: the state variable
    subs,      \* publisher: the subscribers, by SID
    sub,       \* publisher: delivery URL, notifyCount and lease of a subscriber
    svcLock,   \* publisher: who holds the service's mutex
    queue,     \* publisher: the subscribers the notifying thread has still to serve
    target,    \* publisher: the subscriber being notified
    answer,    \* publisher: the handler that serves the NOTIFY, "ok" or None
    posted,    \* SUBSCRIBE requests so far
    conn,      \* a caller's request: "queued", its worker, "ok", "failed" or None
    got,       \* the SID in the response a caller has received
    call,      \* what a worker was asked by whom, and what it will answer
    cpLock,    \* control point: who holds its mutex
    sid,       \* control point: the service's subscription, None: not subscribed
    key,       \* control point: the service's event key
    table,     \* control point: its copy of the state variable
    heard,     \* control point: the value last passed to its event listener
    msg,       \* the NOTIFY a handler works on
    build,     \* what the run is about, never changed
    fault      \* a subscriber that has been freed was used

pubVars == <<value, subs, sub, svcLock, queue, target, answer>>
reqVars == <<posted, conn, got, call>>
cpVars == <<cpLock, sid, key, table, heard, msg>>
vars == <<pc, pubVars, reqVars, cpVars, build, fault>>

NoCall == [from |-> None, cp |-> None, op |-> None, sid |-> None, ok |-> FALSE]
NoMsg == [cp |-> None, sid |-> None, seq |-> 0, val |-> 0]

Goto(t, l) == pc' = [pc EXCEPT ![t] = l]

-----------------------------------------------------------------------------
(* The publisher: cg_upnp_statevariable_setvalue, cg_upnp_service_notify.  *)

SetValue(t) ==
    /\ pc[t] = "idle" /\ value < MaxValue
    /\ value' = value + 1
    /\ Goto(t, "notify")
    /\ UNCHANGED <<subs, sub, svcLock, queue, target, answer, reqVars, cpVars, fault>>

\* cg_upnp_service_notifymain: lock, drop the expired subscribers, list the others.
NotifyLock(t) ==
    /\ pc[t] = "notify" /\ svcLock = None
    /\ svcLock' = t
    /\ subs' = {s \in subs : ~sub[s].lapsed}
    /\ queue' = subs'
    /\ Goto(t, "loop")
    /\ UNCHANGED <<value, sub, target, answer, reqVars, cpVars, fault>>

\* The value as far as the instance tells values apart.
Sent(v) == IF build.tracked THEN v ELSE 0

\* cg_upnp_subscriber_notifymain: the value is read when the request is built.
NotifyPost(t) ==
    /\ pc[t] = "loop"
    /\ \E s \in queue, h \in Handlers :
          /\ pc[h] = "idle"
          /\ msg' = [msg EXCEPT ![h] = [cp |-> sub[s].cp, sid |-> s,
                                        seq |-> sub[s].count, val |-> Sent(value)]]
          /\ pc' = [pc EXCEPT ![t] = "posted", ![h] = "received"]
          /\ queue' = queue \ {s} /\ target' = s /\ answer' = h
    /\ UNCHANGED <<value, subs, sub, svcLock, reqVars, cpLock, sid, key, table, heard,
                   fault>>

\* A subscriber that cannot be reached is removed.
NotifyRefused(t) ==
    /\ pc[t] = "loop" /\ build.lossy
    /\ \E s \in queue : subs' = subs \ {s} /\ queue' = queue \ {s}
    /\ UNCHANGED <<pc, value, sub, svcLock, target, answer, reqVars, cpVars, fault>>

\* cg_upnp_subscriber_incrementnotifycount
Incremented(n) == IF build.maxCount <= n THEN 1 ELSE n + 1

NotifyDone(t) ==
    /\ pc[t] = "posted" /\ answer = "ok"
    /\ sub' = [sub EXCEPT ![target].count = Incremented(@)]
    /\ target' = None /\ answer' = None
    /\ Goto(t, "loop")
    /\ UNCHANGED <<value, subs, svcLock, queue, reqVars, cpVars, fault>>

NotifyTimeout(t) ==
    /\ pc[t] = "posted" /\ answer # "ok" /\ build.curl
    /\ subs' = subs \ {target}
    /\ target' = None /\ answer' = None
    /\ Goto(t, "loop")
    /\ UNCHANGED <<value, sub, svcLock, queue, reqVars, cpVars, fault>>

\* Mutant of NotifyEnd: an early return without subscribers keeps the lock.
NotifyEndLocked(t) ==
    /\ pc[t] = "loop" /\ queue = {}
    /\ svcLock' = IF subs = {} THEN svcLock ELSE None
    /\ Goto(t, "idle")
    /\ UNCHANGED <<value, subs, sub, queue, target, answer, reqVars, cpVars, fault>>

NotifyEnd(t) ==
    /\ pc[t] = "loop" /\ queue = {}
    /\ svcLock' = None
    /\ Goto(t, "idle")
    /\ UNCHANGED <<value, subs, sub, queue, target, answer, reqVars, cpVars, fault>>

-----------------------------------------------------------------------------
(* The device's HTTP server: cg_upnp_device_subscriptionrecieved.          *)

\* The control point a request comes from.
CpOf(r) == IF r \in Cps THEN r ELSE msg[r].cp

Accept(w) ==
    /\ pc[w] = "idle"
    /\ \E r \in Callers :
          /\ conn[r] = "queued"
          /\ conn' = [conn EXCEPT ![r] = w]
          /\ call' = [call EXCEPT ![w] = [from |-> r, cp |-> CpOf(r), op |-> pc[r],
                                         sid |-> sid[CpOf(r)], ok |-> FALSE]]
    /\ Goto(w, "serve")
    /\ UNCHANGED <<pubVars, posted, got, cpVars, fault>>

Serving(w, op) == pc[w] = "serve" /\ call[w].op = op

Unused == {s \in Sids : sub[s].cp = None}

\* newsubscriptionrecieved, up to the response: the service's lock is not taken.
Subscribe(w) ==
    /\ Serving(w, "subscribe")
    /\ \E s \in Unused :
          /\ \A u \in Unused : s <= u
          /\ subs' = subs \cup {s}
          /\ sub' = [sub EXCEPT ![s] = [cp |-> call[w].cp, count |-> 0, lapsed |-> FALSE]]
          /\ call' = [call EXCEPT ![w].sid = s, ![w].ok = TRUE]
    /\ Goto(w, "respond")
    /\ UNCHANGED <<value, svcLock, queue, target, answer, posted, conn, got, cpVars, fault>>

\* renewsubscriptionrecieved: the subscriber is looked up ...
RenewLookup(w) ==
    /\ Serving(w, "renew")
    /\ Goto(w, IF call[w].sid \in subs THEN "renewing" ELSE "respond")
    /\ UNCHANGED <<pubVars, reqVars, cpVars, fault>>

\* Mutant of RenewApply: a renewal starts the count of events again, as csubscriber.h:92-93
\* and csubscriber.c:108-109 say of cg_upnp_subscriber_renew.
RenewApplyRestarts(w) ==
    /\ pc[w] = "renewing" /\ call[w].sid \in subs
    /\ sub' = [sub EXCEPT ![call[w].sid].lapsed = FALSE, ![call[w].sid].count = 0]
    /\ call' = [call EXCEPT ![w].ok = TRUE]
    /\ Goto(w, "respond")
    /\ UNCHANGED <<value, subs, svcLock, queue, target, answer, posted, conn, got, cpVars,
                   fault>>

\* ... and renewed through the pointer, without the service's lock.  The count of events
\* goes on: cg_upnp_subscriber_renew sets the time of the subscription only.
RenewApply(w) ==
    /\ pc[w] = "renewing" /\ call[w].sid \in subs
    /\ sub' = [sub EXCEPT ![call[w].sid].lapsed = FALSE]
    /\ call' = [call EXCEPT ![w].ok = TRUE]
    /\ Goto(w, "respond")
    /\ UNCHANGED <<value, subs, svcLock, queue, target, answer, posted, conn, got, cpVars,
                   fault>>

UseAfterFree(w) ==
    /\ pc[w] = "renewing" /\ call[w].sid \notin subs
    /\ fault' = TRUE
    /\ UNCHANGED <<pc, pubVars, reqVars, cpVars>>

\* Mutant of Unsubscribe: the service's lock is not taken.
UnsubscribeUnlocked(w) ==
    /\ Serving(w, "unsubscribe")
    /\ subs' = subs \ {call[w].sid}
    /\ call' = [call EXCEPT ![w].ok = call[w].sid \in subs]
    /\ Goto(w, "respond")
    /\ UNCHANGED <<value, sub, svcLock, queue, target, answer, posted, conn, got, cpVars,
                   fault>>

\* unsubscriptionrecieved: the subscriber is removed under the service's lock.
Unsubscribe(w) ==
    /\ Serving(w, "unsubscribe") /\ svcLock = None
    /\ subs' = subs \ {call[w].sid}
    /\ call' = [call EXCEPT ![w].ok = call[w].sid \in subs]
    /\ Goto(w, "respond")
    /\ UNCHANGED <<value, sub, svcLock, queue, target, answer, posted, conn, got, cpVars,
                   fault>>

\* Mutant of Respond: no initial event is sent.
RespondOnly(w) ==
    LET r == call[w].from IN
    /\ pc[w] = "respond"
    /\ IF conn[r] = w
       THEN /\ conn' = [conn EXCEPT ![r] = IF call[w].ok THEN "ok" ELSE "failed"]
            /\ got' = [got EXCEPT ![r] = call[w].sid]
       ELSE UNCHANGED <<conn, got>>
    /\ Goto(w, "idle")
    /\ call' = [call EXCEPT ![w] = NoCall]
    /\ UNCHANGED <<pubVars, posted, cpVars, fault>>

\* The response reaches the caller if it still waits; a new subscription then
\* gets a thread of its own that sends the initial event.
Respond(w) ==
    LET r == call[w].from
        s == call[w].sid IN
    /\ pc[w] = "respond"
    /\ IF conn[r] = w
       THEN /\ conn' = [conn EXCEPT ![r] = IF call[w].ok THEN "ok" ELSE "failed"]
            /\ got' = [got EXCEPT ![r] = s]
       ELSE UNCHANGED <<conn, got>>
    /\ pc' = IF call[w].op = "subscribe" THEN [pc EXCEPT ![w] = "idle", ![s] = "notify"]
                                        ELSE [pc EXCEPT ![w] = "idle"]
    /\ call' = [call EXCEPT ![w] = NoCall]
    /\ UNCHANGED <<pubVars, posted, cpVars, fault>>

-----------------------------------------------------------------------------
(* The control point's requests, by the application or by a NOTIFY handler *)
(* that has found a gap; the mutex is held from the request to the answer. *)

\* Mutex taken and request posted; a new subscription starts with event key 0.
\* A SUBSCRIBE beyond the bound MaxSid is refused.
Post(r, op) ==
    /\ cpLock' = [cpLock EXCEPT ![CpOf(r)] = r]
    /\ Goto(r, op)
    /\ IF op = "subscribe" /\ posted = MaxSid
       THEN conn' = [conn EXCEPT ![r] = "failed"]
       ELSE conn' = [conn EXCEPT ![r] = "queued"]
    /\ posted' = IF op = "subscribe" /\ posted < MaxSid THEN posted + 1 ELSE posted
    /\ key' = IF op = "subscribe" THEN [key EXCEPT ![CpOf(r)] = 0] ELSE key

\* The application subscribes, or renews or cancels a subscription it has.
AppCall(c, op) ==
    /\ pc[c] = "idle" /\ cpLock[c] = None /\ op \in build.ops
    /\ (op = "subscribe") <=> (sid[c] = None)
    /\ op = "subscribe" => posted < MaxSid
    /\ Post(c, op)
    /\ UNCHANGED <<pubVars, got, call, sid, table, heard, msg, fault>>

Refused(r) ==
    /\ build.lossy /\ conn[r] = "queued"
    /\ conn' = [conn EXCEPT ![r] = "failed"]
    /\ UNCHANGED <<pc, pubVars, posted, got, call, cpVars, fault>>

CallTimeout(r) ==
    /\ build.curl /\ conn[r] \in Workers
    /\ conn' = [conn EXCEPT ![r] = "failed"]
    /\ UNCHANGED <<pc, pubVars, posted, got, call, cpVars, fault>>

Answered(r) == conn[r] \in {"ok", "failed"}

\* The service's SID after the answer: any failure, and UNSUBSCRIBE, clears it.
SidAfter(r) == IF conn[r] = "ok" /\ pc[r] # "unsubscribe" THEN got[r] ELSE None

AppDone(c) ==
    /\ pc[c] \in {"subscribe", "renew", "unsubscribe"} /\ Answered(c)
    /\ sid' = [sid EXCEPT ![c] = SidAfter(c)]
    /\ conn' = [conn EXCEPT ![c] = None] /\ got' = [got EXCEPT ![c] = None]
    /\ cpLock' = [cpLock EXCEPT ![c] = None]
    /\ Goto(c, "idle")
    /\ UNCHANGED <<pubVars, posted, call, key, table, heard, msg, fault>>

-----------------------------------------------------------------------------
(* The NOTIFY handler: cg_upnp_controlpoint_httprequestreceived.           *)

HandlerLocks(h) == pc[h] = "received" /\ cpLock[msg[h].cp] = None

\* An unknown SID: the event is dropped, and acknowledged.
HandleUnknown(h) ==
    /\ HandlerLocks(h) /\ sid[msg[h].cp] # msg[h].sid
    /\ Goto(h, "reply")
    /\ UNCHANGED <<pubVars, reqVars, cpVars, fault>>

\* Mutant of Wrapped: the key is never wrapped.
WrappedNever(n) == n

\* "Wrap seq, so that assertion is true next time"
Wrapped(n) == IF n = build.maxSeq THEN 0 ELSE n

InSequence(m) == m.seq = 0 \/ m.seq = key[m.cp] + 1

\* Mutant of HandleEvent: the event is acknowledged before the listeners are called.
HandleEventAnswers(h) ==
    LET m == msg[h] IN
    /\ HandlerLocks(h) /\ sid[m.cp] = m.sid /\ InSequence(m)
    /\ key' = [key EXCEPT ![m.cp] = Wrapped(m.seq)]
    /\ table' = [table EXCEPT ![m.cp] = m.val]
    /\ answer' = IF answer = h THEN "ok" ELSE answer
    /\ Goto(h, "tell")
    /\ UNCHANGED <<value, subs, sub, svcLock, queue, target, reqVars, cpLock, sid, heard,
                   msg, fault>>

HandleEvent(h) ==
    LET m == msg[h] IN
    /\ HandlerLocks(h) /\ sid[m.cp] = m.sid /\ InSequence(m)
    /\ key' = [key EXCEPT ![m.cp] = Wrapped(m.seq)]
    /\ table' = [table EXCEPT ![m.cp] = m.val]
    /\ Goto(h, "tell")
    /\ UNCHANGED <<pubVars, reqVars, cpLock, sid, heard, msg, fault>>

\* A gap: unsubscribe and subscribe again, the event is not delivered.
HandleGap(h) ==
    /\ HandlerLocks(h) /\ sid[msg[h].cp] = msg[h].sid /\ ~InSequence(msg[h])
    /\ Post(h, "unsubscribe")
    /\ UNCHANGED <<pubVars, got, call, sid, table, heard, msg, fault>>

GapUnsubscribed(h) ==
    /\ pc[h] = "unsubscribe" /\ Answered(h)
    /\ sid' = [sid EXCEPT ![CpOf(h)] = SidAfter(h)]
    /\ Post(h, "subscribe")
    /\ got' = [got EXCEPT ![h] = None]
    /\ UNCHANGED <<pubVars, call, table, heard, msg, fault>>

\* Mutant of GapSubscribed: the lock is kept if the subscription fails.
GapSubscribedLocked(h) ==
    /\ pc[h] = "subscribe" /\ Answered(h)
    /\ sid' = [sid EXCEPT ![CpOf(h)] = SidAfter(h)]
    /\ conn' = [conn EXCEPT ![h] = None] /\ got' = [got EXCEPT ![h] = None]
    /\ cpLock' = [cpLock EXCEPT ![CpOf(h)] = IF conn[h] = "ok" THEN None ELSE @]
    /\ Goto(h, "reply")
    /\ UNCHANGED <<pubVars, posted, call, key, table, heard, msg, fault>>

GapSubscribed(h) ==
    /\ pc[h] = "subscribe" /\ Answered(h)
    /\ sid' = [sid EXCEPT ![CpOf(h)] = SidAfter(h)]
    /\ conn' = [conn EXCEPT ![h] = None] /\ got' = [got EXCEPT ![h] = None]
    /\ cpLock' = [cpLock EXCEPT ![CpOf(h)] = None]
    /\ Goto(h, "reply")
    /\ UNCHANGED <<pubVars, posted, call, key, table, heard, msg, fault>>

\* The listeners are called without the lock, before the answer.
HandlerTell(h) ==
    /\ pc[h] = "tell"
    /\ heard' = [heard EXCEPT ![msg[h].cp] = msg[h].val]
    /\ Goto(h, "reply")
    /\ UNCHANGED <<pubVars, reqVars, cpLock, sid, key, table, msg, fault>>

\* Whatever has happened, the answer is 200 OK.
HandlerReply(h) ==
    /\ pc[h] = "reply"
    /\ answer' = IF answer = h THEN "ok" ELSE answer
    /\ msg' = [msg EXCEPT ![h] = NoMsg]
    /\ Goto(h, "idle")
    /\ UNCHANGED <<value, subs, sub, svcLock, queue, target, reqVars, cpLock, sid, key,
                   table, heard, fault>>

-----------------------------------------------------------------------------
(* The specification.                                                      *)

\* The lease of a subscriber that has not been renewed in time runs out.
Lapse(s) ==
    /\ "lapse" \in build.ops /\ s \in subs /\ ~sub[s].lapsed
    /\ sub' = [sub EXCEPT ![s].lapsed = TRUE]
    /\ UNCHANGED <<pc, value, subs, svcLock, queue, target, answer, reqVars, cpVars, fault>>

NotifierStep(t) ==
    \/ NotifyLock(t) \/ NotifyPost(t) \/ NotifyDone(t) \/ NotifyTimeout(t) \/ NotifyEnd(t)

WorkerStep(w) ==
    \/ Accept(w) \/ Subscribe(w) \/ RenewLookup(w) \/ RenewApply(w) \/ Unsubscribe(w)
    \/ Respond(w) \/ UseAfterFree(w)

HandlerStep(h) ==
    \/ HandleUnknown(h) \/ HandleEvent(h) \/ HandleGap(h) \/ GapUnsubscribed(h)
    \/ GapSubscribed(h) \/ HandlerTell(h) \/ HandlerReply(h)

\* Steps a thread takes by itself once it has begun an operation.
ThreadStep(t) ==
    /\ ~fault /\ UNCHANGED build
    /\ \/ t \in Notifiers /\ NotifierStep(t)
       \/ t \in Workers /\ WorkerStep(t)
       \/ t \in Handlers /\ HandlerStep(t)
       \/ t \in Cps /\ AppDone(t)
       \/ t \in Callers /\ CallTimeout(t)

\* What the applications and the network do.
External ==
    /\ ~fault /\ UNCHANGED build
    /\ \/ \E t \in Setters : SetValue(t)
       \/ \E c \in Cps, op \in {"subscribe", "renew", "unsubscribe"} : AppCall(c, op)
       \/ \E t \in Notifiers : NotifyRefused(t)
       \/ \E r \in Callers : Refused(r)
       \/ \E s \in Sids : Lapse(s)

Next == External \/ \E t \in Threads : ThreadStep(t)

Init ==
    /\ pc = [t \in Threads |-> "idle"]
    /\ value = 0
    /\ subs = {} /\ sub = [s \in Sids |-> [cp |-> None, count |-> 0, lapsed |-> FALSE]]
    /\ svcLock = None /\ queue = {} /\ target = None /\ answer = None
    /\ posted = 0
    /\ conn = [r \in Callers |-> None] /\ got = [r \in Callers |-> None]
    /\ call = [w \in Workers |-> NoCall]
    /\ cpLock = [c \in Cps |-> None] /\ sid = [c \in Cps |-> None]
    /\ key = [c \in Cps |-> 0] /\ table = [c \in Cps |-> 0] /\ heard = [c \in Cps |-> 0]
    /\ msg = [h \in Handlers |-> NoMsg]
    /\ build \in Builds
    /\ fault = FALSE

Spec == Init /\ [][Next]_vars

\* Every thread keeps running and gets a mutex it waits for again and again.  Less
\* is asked here: of the notifiers, the workers and the handlers, that some move.
FairSpec ==
    /\ Spec
    /\ WF_vars(\E t \in Notifiers : ThreadStep(t))
    /\ WF_vars(\E t \in Workers : ThreadStep(t))
    /\ \A t \in Cps : WF_vars(ThreadStep(t))
    /\ SF_vars(\E t \in Handlers : ThreadStep(t))

-----------------------------------------------------------------------------
(* Properties.                                                             *)

Labels == {"idle", "notify", "loop", "posted", "serve", "renewing", "respond",
           "subscribe", "renew", "unsubscribe", "received", "tell", "reply"}

Calls == [from : Callers, cp : Cps, op : {"subscribe", "renew", "unsubscribe"},
          sid : Sids \cup {None}, ok : BOOLEAN]
Messages == [cp : Cps, sid : Sids, seq : Seqs, val : Values]

\* The variables have their types.
TypeOK ==
    /\ pc \in [Threads -> Labels]
    /\ value \in Values
    /\ subs \subseteq Sids
    /\ sub \in [Sids -> [cp : Cps \cup {None}, count : Seqs, lapsed : BOOLEAN]]
    /\ svcLock \in Notifiers \cup {None} /\ queue \subseteq Sids
    /\ target \in Sids \cup {None} /\ answer \in Handlers \cup {"ok", None}
    /\ posted \in 0 .. MaxSid
    /\ conn \in [Callers -> Workers \cup {"queued", "ok", "failed", None}]
    /\ got \in [Callers -> Sids \cup {None}]
    /\ call \in [Workers -> Calls \cup {NoCall}]
    /\ cpLock \in [Cps -> Callers \cup {None}] /\ sid \in [Cps -> Sids \cup {None}]
    /\ key \in [Cps -> Seqs] /\ table \in [Cps -> Values] /\ heard \in [Cps -> Values]
    /\ msg \in [Handlers -> Messages \cup {NoMsg}]
    /\ build \in Builds
    /\ fault \in BOOLEAN

\* Until the publisher counts beyond the number at which the control point wraps its
\* event key, count and key agree whenever no NOTIFY is under way, through refused
\* requests, lapsed leases and renewals: this makes the check of SEQ pass.  It depends on
\* cg_upnp_subscriber_renew leaving the count alone, against its documentation.
SeqAgreement ==
    \A c \in Cps :
        sid[c] \in subs /\ target # sid[c] /\ sub[sid[c]].count <= build.maxSeq =>
            \/ sub[sid[c]].count = key[c] + 1
            \/ sub[sid[c]].count = 0 /\ key[c] = 0

\* A control point takes events for lost, and subscribes again, only after it has
\* wrapped its key at a number the publisher does not wrap at: never because a request
\* was refused or given up, a lease has lapsed, or handlers overtook one another.
GapOnlyAtWrap ==
    [][\A h \in Handlers : pc[h] = "received" /\ pc'[h] = "unsubscribe" =>
          key[CpOf(h)] = 0 /\ msg[h].seq > build.maxSeq]_vars

\* In the socket build a listener never sees an older value after a newer one, though
\* the handlers call it without the lock.
ListenerInOrder == [][build.curl \/ \A c \in Cps : heard'[c] >= heard[c]]_vars

\* When UNSUBSCRIBE has been acknowledged the publisher is done with the
\* subscriber: it is not in the list, nor about to be notified, and no handler of
\* the control point still works on an event of that subscription.
UnsubscribedIsQuiet ==
    \A r \in Callers : pc[r] = "unsubscribe" /\ conn[r] = "ok" =>
        LET s == sid[CpOf(r)] IN
        /\ s \notin subs \cup queue /\ target # s
        /\ \A h \in Handlers : msg[h] # NoMsg => msg[h].sid # s

\* A control point of the socket build whose subscription stands and whose copy of the
\* variable is out of date gets the current value, or the subscription ends.
Outdated(c) == ~build.curl /\ sid[c] \in subs /\ table[c] # Sent(value)
Converges == \A c \in Cps : Outdated(c) ~> (~Outdated(c) \/ fault)

\* SUBSCRIBE, renewals and UNSUBSCRIBE return to the application.
CallsReturn == \A c \in Cps : (pc[c] # "idle") ~> (pc[c] = "idle" \/ fault)

\* The publisher's thread that notifies gets through the list, and the service's
\* lock is free again, though a NOTIFY may wait for one that waits for this lock.
NotifierReturns == (svcLock # None) ~> (svcLock = None \/ fault)

\* The control point's lock is released by every request made with it, by the calls of
\* the application and by a NOTIFY handler that unsubscribes and subscribes while the
\* publisher's thread waits for its answer.
ControlPointFree == \A c \in Cps : (cpLock[c] # None) ~> (cpLock[c] = None \/ fault)
=============================================================================
