---------------------------- MODULE ControlPoint ----------------------------
(***************************************************************************)
(* The device cache of the UPnP control point (ccontrolpoint.c and         *)
(* ccontrolpoint_event.c): the threads that share it and the locks that    *)
(* guard it.                                                               *)
(*                                                                         *)
(*  - the SSDP receive threads, one per network interface plus the one of  *)
(*    the search-response server, add, refresh and remove devices;         *)
(*  - the expiration thread removes the devices whose lease ran out and    *)
(*    renews subscriptions, sleeping on a condition variable in between;   *)
(*  - the application thread takes the control point's lock to use device  *)
(*    pointers, subscribes, reacts to changed interfaces and stops it all. *)
(*                                                                         *)
(* A device object is a heap cell of Objs.  `devices' is the linked list   *)
(* deviceList: a cell is allocated exactly while it is linked, because     *)
(* cg_upnp_device_delete unlinks and frees in one go and a new device is   *)
(* linked under the lock that was held when it was created.  A cell may be *)
(* reused, as malloc may do.  A step that dereferences a pointer to a cell *)
(* which is not allocated sets `fault'; the model says nothing about what  *)
(* happens after that.                                                     *)
(***************************************************************************)
EXTENDS Integers, Sequences, FiniteSets

CONSTANTS
    Ssdp,          \* the SSDP receive threads
    Exp,           \* the expiration thread
    App,           \* the application's thread
    Udns,          \* the unique device names on the network
    Locs,          \* description URLs a device may announce
    Ages,          \* max-age values of the announcements, 0: no CACHE-CONTROL
    Ifcs,          \* addresses of the local network interfaces
    Packets,       \* the announcements that may arrive in a run
    Byebyes,       \* the devices that may say ssdp:byebye in a run
    Carries,       \* <<l, u>>: the description at l may be that of u
    MaxStrays,     \* bound on the cached devices that Strays names
    Curl,          \* is it the build with libcurl, whose requests have a timeout?
    Objs,          \* heap cells for device objects (bounds the cache)
    SubTime,       \* granted subscription time less CG_UPNP_SUBSCRIPTION_DELAY
    MaxTime,       \* bound on the clock
    AppOps,        \* the operations the application performs in a run
    Listening,     \* may a handler find a device listener (TRUE), or none (FALSE)?
    None           \* NULL

\* What is kept of an ssdp:alive announcement or of a search response.
Alive == [udn : Udns, loc : Locs, age : Ages, ifc : Ifcs]

ASSUME ThreadAssumption ==
    Exp \notin Ssdp /\ App \notin Ssdp /\ Exp # App /\ IsFiniteSet(Ssdp)
ASSUME NoneAssumption ==
    None \notin Ssdp \cup {Exp, App} \cup Objs \cup Udns \cup Alive
ASSUME DataAssumption ==
    /\ Packets \subseteq Alive /\ Byebyes \subseteq Udns
    /\ Ages \subseteq Nat /\ SubTime \in Nat \ {0} /\ MaxTime \in Nat \ {0}
    /\ Listening \subseteq BOOLEAN /\ Curl \in BOOLEAN

Threads == Ssdp \cup {Exp, App}

VARIABLES
    now,       \* cg_getcurrentsystemtime()
    devices,   \* ctrlPoint->deviceList, oldest first
    dev,       \* the content of the cells: description, SSDP packet, subscription
    cpLock,    \* the thread that holds ctrlPoint->mutex, or None
    expMutex,  \* does the expiration thread hold ctrlPoint->expMutex?
    pc,        \* where each thread is
    pkt,       \* the SSDP packet a thread works on
    udn,       \* the device name a thread has copied to its stack
    ptr,       \* the device pointer a thread has taken
    cur,       \* the loop variable of a thread that walks deviceList
    status,    \* what an SSDP thread will report to the device listener
    clk,       \* expiration thread: currTime
    minExp,    \* expiration thread: expirationTime
    deadline,  \* expiration thread: when cg_cond_wait times out, 0: never
    runnable,  \* expThread->runnableFlag
    serving,   \* are the SSDP servers running?
    gone,      \* application: the interface that has disappeared
    fault,     \* a dangling pointer has been dereferenced
    foreign    \* the names read in descriptions that the packet of another device led to

cache == <<devices, dev>>
locks == <<cpLock, expMutex>>
locals == <<pkt, udn, ptr, cur, status>>
expVars == <<clk, minExp, deadline>>
appVars == <<runnable, serving, gone>>
ghosts == <<fault, foreign>>
vars == <<now, cache, locks, pc, locals, expVars, appVars, ghosts>>

-----------------------------------------------------------------------------
(* The device list.                                                        *)

Cached == {devices[i] : i \in DOMAIN devices}

\* The cached devices with that name, the one in the description.  A device whose
\* description could not be parsed has no name.
WithUdn(u) == {o \in Cached : dev[o].udn = u}

First == IF devices = <<>> THEN None ELSE devices[1]

Position(o) == CHOOSE i \in DOMAIN devices : devices[i] = o

\* cg_upnp_controlpoint_getdevicebyudn finds the first of them.
Found(u) == {o \in WithUdn(u) : \A p \in WithUdn(u) : Position(o) <= Position(p)}

\* cg_upnp_device_next: None at the end of the list.
NextOf(o) == IF Position(o) < Len(devices) THEN devices[Position(o) + 1] ELSE None

Unlinked(o) ==
    [i \in 1 .. Len(devices) - 1 |->
        IF i < Position(o) THEN devices[i] ELSE devices[i + 1]]

Freed == [udn |-> None, usn |-> None, loc |-> None, ifc |-> None,
          expiry |-> 0, sub |-> 0]

\* cg_upnp_device_delete: unlink the cell and free it.
DeleteDevice(o) ==
    /\ devices' = Unlinked(o)
    /\ dev' = [dev EXCEPT ![o] = Freed]

\* cg_upnp_ssdp_packet_getexpiration of a packet copied now: 0 means never.
Expiry(age) == IF age = 0 THEN 0 ELSE now + age

Expired(o, t) == dev[o].expiry > 0 /\ dev[o].expiry <= t

\* cg_upnp_device_setssdppacket: the stored packet with a fresh timestamp.
WithPacket(d, p) ==
    [d EXCEPT !.usn = p.udn, !.loc = p.loc, !.ifc = p.ifc, !.expiry = Expiry(p.age)]

\* The names in the description that may be found at a location.  Nobody compares
\* them with the name in the packet.  (A description without a UDN gets a new one:
\* a name that no packet has.)
Carried(l) == {u \in Udns : <<l, u>> \in Carries}

\* Devices whose packet has another name than their description, or none.
Misnamed(o) == dev[o].udn # dev[o].usn
Strays == {o \in Cached : Misnamed(o)}

-----------------------------------------------------------------------------
(* Locks and the condition variable.                                       *)

Goto(t, l) == pc' = [pc EXCEPT ![t] = l]

Acquire(t) == cpLock = None /\ cpLock' = t

Release == cpLock' = None

\* Where the expiration thread is after cg_cond_signal(expCond).
ExpSignalled == IF pc[Exp] = "waiting" THEN "enter" ELSE pc[Exp]

\* lock(expMutex); cg_cond_signal(expCond); unlock(expMutex)
SignalAndGoto(t, l) ==
    /\ ~expMutex
    /\ pc' = [pc EXCEPT ![t] = l, ![Exp] = ExpSignalled]

\* The local variables of a handler that returns are gone.
Forget(t) ==
    /\ pkt' = [pkt EXCEPT ![t] = None] /\ udn' = [udn EXCEPT ![t] = None]
    /\ ptr' = [ptr EXCEPT ![t] = None] /\ status' = [status EXCEPT ![t] = "Invalid"]

\* A listener is called without the lock and may take and release it itself.  The
\* application sets it when it likes, so every handler may or may not find one.
CallListener == TRUE \in Listening /\ cpLock = None

NoListener == FALSE \in Listening

-----------------------------------------------------------------------------
(* SSDP threads: cg_upnp_controlpoint_ssdplistner and ssdpresponselistner. *)

\* An alive packet for a root device arrives; other packets change nothing.
ReceiveAlive(t, p) ==
    /\ serving /\ pc[t] = "idle"
    /\ pkt' = [pkt EXCEPT ![t] = p]
    /\ udn' = [udn EXCEPT ![t] = p.udn]
    /\ Goto(t, "add")
    /\ UNCHANGED <<now, cache, locks, ptr, cur, status, expVars, appVars, ghosts>>

\* A byebye packet: all that is used of it is the name.
ReceiveByebye(t, u) ==
    /\ serving /\ pc[t] = "idle"
    /\ udn' = [udn EXCEPT ![t] = u]
    /\ Goto(t, "remove")
    /\ UNCHANGED <<now, cache, locks, pkt, ptr, cur, status, expVars, appVars, ghosts>>

\* Mutant of AddLookup: the lock is not kept while a new device is fetched.
AddLookupUnlocked(t) ==
    /\ pc[t] = "add" /\ cpLock = None
    /\ \/ /\ WithUdn(udn[t]) = {}
          /\ Goto(t, "fetch")
          /\ UNCHANGED <<dev, ptr, status, cpLock>>
       \/ \E o \in Found(udn[t]) :
            /\ cpLock' = t
            /\ dev' = [dev EXCEPT ![o] = WithPacket(@, pkt[t])]
            /\ ptr' = [ptr EXCEPT ![t] = o]
            /\ status' = [status EXCEPT ![t] = "Updated"]
            /\ Goto(t, IF dev[o].loc = pkt[t].loc THEN "signal" ELSE "refetch")
    /\ UNCHANGED <<now, devices, expMutex, pkt, udn, cur, expVars, appVars, ghosts>>

\* adddevicebyssdppacket, the lookup: a known device at the same location is
\* refreshed, at a new one its description is fetched again (the lock is kept).
AddLookup(t) ==
    /\ pc[t] = "add"
    /\ Acquire(t)
    /\ \/ /\ WithUdn(udn[t]) = {}
          /\ Goto(t, "fetch")
          /\ UNCHANGED <<dev, ptr, status>>
       \/ \E o \in Found(udn[t]) :
            /\ dev' = [dev EXCEPT ![o] = WithPacket(@, pkt[t])]
            /\ ptr' = [ptr EXCEPT ![t] = o]
            /\ status' = [status EXCEPT ![t] = "Updated"]
            /\ Goto(t, IF dev[o].loc = pkt[t].loc THEN "signal" ELSE "refetch")
    /\ UNCHANGED <<now, devices, expMutex, pkt, udn, cur, expVars, appVars, ghosts>>

\* createdevicefromssdkpacket and adddevice: the description and the service
\* descriptions are fetched over HTTP with the lock held, then the device is
\* linked at the end of the list, under whatever name the description has.
FetchOk(t) ==
    /\ pc[t] = "fetch"
    /\ \E o \in Objs \ Cached, u \in Carried(pkt[t].loc) :
          /\ devices' = Append(devices, o)
          /\ dev' = [dev EXCEPT ![o] = WithPacket([Freed EXCEPT !.udn = u], pkt[t])]
          /\ foreign' = foreign \cup ({u} \ {udn[t]})
    /\ status' = [status EXCEPT ![t] = "Added"]
    /\ Goto(t, "signal")
    /\ UNCHANGED <<now, locks, pkt, udn, ptr, cur, expVars, appVars, fault>>
    /\ Cardinality(Strays') <= MaxStrays

\* Mutant of FetchFails: an early return that forgets to unlock.
FetchFailsLocked(t) ==
    /\ pc[t] = "fetch"
    /\ status' = [status EXCEPT ![t] = "Invalid"]
    /\ Goto(t, "tellAdd")
    /\ UNCHANGED <<now, cache, locks, pkt, udn, ptr, cur, expVars, appVars, ghosts>>

\* The device does not answer, or its description cannot be parsed.
FetchFails(t) ==
    /\ pc[t] = "fetch"
    /\ status' = [status EXCEPT ![t] = "Invalid"]
    /\ Goto(t, "unlock")
    /\ UNCHANGED <<now, cache, locks, pkt, udn, ptr, cur, expVars, appVars, ghosts>>

\* Mutant of RefetchOk: the refreshed device is added to the list again.
RefetchOkAppends(t) ==
    /\ pc[t] = "refetch"
    /\ devices' = Append(devices, ptr[t])
    /\ Goto(t, "signal")
    /\ UNCHANGED <<now, dev, locks, locals, expVars, appVars, ghosts>>

\* updatefromssdppacket at a new location.  cg_upnp_device_parsedescriptionurl
\* may get no answer (the old description stays), install the new one (services and
\* subscriptions start afresh, the name is the new one's) or clear the old one and
\* fail to parse the new one (no name); the caller does not look at the result.
RefetchOk(t) ==
    /\ pc[t] = "refetch"
    /\ \E d \in {dev[ptr[t]]} \cup {[dev[ptr[t]] EXCEPT !.sub = 0, !.udn = u] :
                                      u \in Carried(pkt[t].loc) \cup {None}} :
          /\ dev' = [dev EXCEPT ![ptr[t]] = d]
          /\ foreign' = foreign \cup ({d.udn} \ {udn[t], None})
    /\ Goto(t, "signal")
    /\ UNCHANGED <<now, devices, locks, locals, expVars, appVars, fault>>
    /\ Cardinality(Strays') <= MaxStrays

\* A service description cannot be read: updatefromssdppacket deletes the device.
RefetchFails(t) ==
    /\ pc[t] = "refetch"
    /\ DeleteDevice(ptr[t])
    /\ status' = [status EXCEPT ![t] = "Invalid"]
    /\ Goto(t, "unlock")
    /\ UNCHANGED <<now, locks, pkt, udn, ptr, cur, expVars, appVars, ghosts>>

\* Mutant of AddSignal: nobody is woken.
AddSignalSilent(t) ==
    /\ pc[t] = "signal"
    /\ Goto(t, "unlock")
    /\ UNCHANGED <<now, cache, locks, locals, expVars, appVars, ghosts>>

\* Wake up the expiration thread; the control point's lock is still held.
AddSignal(t) ==
    /\ pc[t] = "signal"
    /\ SignalAndGoto(t, "unlock")
    /\ UNCHANGED <<now, cache, locks, locals, expVars, appVars, ghosts>>

AddUnlock(t) ==
    /\ pc[t] = "unlock"
    /\ Release
    /\ ptr' = [ptr EXCEPT ![t] = None]
    /\ Goto(t, "tellAdd")
    /\ UNCHANGED <<now, cache, expMutex, pkt, udn, cur, status, expVars, appVars,
                   ghosts>>

\* listener(ctrlPoint, udn, status), if there is one
TellAdd(t) ==
    /\ pc[t] = "tellAdd"
    /\ NoListener \/ CallListener
    /\ Forget(t)
    /\ Goto(t, "idle")
    /\ UNCHANGED <<now, cache, locks, cur, expVars, appVars, ghosts>>

-----------------------------------------------------------------------------
(* cg_upnp_controlpoint_removedevicebyssdppacket, run by all threads.      *)

ReturnPc(t) == CASE t = Exp -> "relock" [] t = App -> "ipRelock" [] OTHER -> "idle"

\* The expiration thread and ipchanged read the name from the packet of the
\* device they are about to remove, after they have released the lock.
ReadVictim(t) ==
    /\ pc[t] = "victim" /\ ptr[t] \in Cached
    /\ udn' = [udn EXCEPT ![t] = dev[ptr[t]].usn]
    /\ Goto(t, "remove")
    /\ UNCHANGED <<now, cache, locks, pkt, ptr, cur, status, expVars, appVars, ghosts>>

RemoveUnknown(t) ==
    /\ pc[t] = "remove" /\ cpLock = None
    /\ WithUdn(udn[t]) = {}
    /\ Forget(t)
    /\ Goto(t, ReturnPc(t))
    /\ UNCHANGED <<now, cache, locks, cur, expVars, appVars, ghosts>>

RemoveLookup(t) ==
    /\ pc[t] = "remove" /\ CallListener
    /\ \E o \in Found(udn[t]) : ptr' = [ptr EXCEPT ![t] = o]
    /\ Goto(t, "tellRemove")
    /\ UNCHANGED <<now, cache, locks, pkt, udn, cur, status, expVars, appVars, ghosts>>

\* Mutant of RemoveSilently: the lock is not taken.
RemoveSilentlyUnlocked(t) ==
    /\ pc[t] = "remove" /\ NoListener
    /\ \E o \in Found(udn[t]) : DeleteDevice(o)
    /\ Forget(t)
    /\ Goto(t, ReturnPc(t))
    /\ UNCHANGED <<now, locks, cur, expVars, appVars, ghosts>>

\* Without a listener the device is deleted before the lock is released.
RemoveSilently(t) ==
    /\ pc[t] = "remove" /\ cpLock = None /\ NoListener
    /\ \E o \in Found(udn[t]) : DeleteDevice(o)
    /\ Forget(t)
    /\ Goto(t, ReturnPc(t))
    /\ UNCHANGED <<now, locks, cur, expVars, appVars, ghosts>>

\* listener(ctrlPoint, udn, CgUpnpDeviceStatusRemoved), without the lock
TellRemove(t) ==
    /\ pc[t] = "tellRemove"
    /\ CallListener
    /\ Goto(t, "delete")
    /\ UNCHANGED <<now, cache, locks, locals, expVars, appVars, ghosts>>

\* Mutant of RemoveDelete: the lock is not taken again after the listener call.
RemoveDeleteUnlocked(t) ==
    /\ pc[t] = "delete" /\ ptr[t] \in Cached
    /\ DeleteDevice(ptr[t])
    /\ Forget(t)
    /\ Goto(t, ReturnPc(t))
    /\ UNCHANGED <<now, locks, cur, expVars, appVars, ghosts>>

\* The pointer from before the listener call is deleted, whatever it is now.
RemoveDelete(t) ==
    /\ pc[t] = "delete" /\ cpLock = None /\ ptr[t] \in Cached
    /\ DeleteDevice(ptr[t])
    /\ Forget(t)
    /\ Goto(t, ReturnPc(t))
    /\ UNCHANGED <<now, locks, cur, expVars, appVars, ghosts>>

-----------------------------------------------------------------------------
(* The expiration thread: cg_upnp_controlpoint_expirationhandler.          *)

ExpEnter ==
    /\ pc[Exp] = "enter"
    /\ ~expMutex /\ expMutex' = TRUE
    /\ deadline' = 0
    /\ Goto(Exp, "check")
    /\ UNCHANGED <<now, cache, cpLock, locals, clk, minExp, appVars, ghosts>>

\* while (cg_thread_isrunnable(thread)): read the clock and leave expMutex.
ExpCheck ==
    /\ pc[Exp] = "check"
    /\ expMutex' = FALSE
    /\ IF runnable
       THEN clk' = now /\ minExp' = 0 /\ Goto(Exp, "scanLock")
       ELSE UNCHANGED <<clk, minExp>> /\ Goto(Exp, "exited")
    /\ UNCHANGED <<now, cache, cpLock, locals, deadline, appVars, ghosts>>

ExpLock ==
    /\ pc[Exp] = "scanLock"
    /\ Acquire(Exp)
    /\ cur' = [cur EXCEPT ![Exp] = First]
    /\ Goto(Exp, "scan")
    /\ UNCHANGED <<now, cache, expMutex, pkt, udn, ptr, status, expVars, appVars,
                   ghosts>>

\* A device to remove: the lock is released and the loop continues behind it.
ExpScanExpired ==
    LET o == cur[Exp] IN
    /\ pc[Exp] = "scan" /\ o # None /\ Expired(o, clk)
    /\ ptr' = [ptr EXCEPT ![Exp] = o]
    /\ cur' = [cur EXCEPT ![Exp] = NextOf(o)]
    /\ Release
    /\ Goto(Exp, "victim")
    /\ UNCHANGED <<now, cache, expMutex, pkt, udn, status, expVars, appVars, ghosts>>

Renewing(o) == dev[o].sub > 0 /\ dev[o].sub <= now

\* cg_upnp_device_getfirstexpiratedservice with expirationTime = m: a lapsed
\* subscription is renewed over HTTP or given up, and the earliest time noted.
ServiceCheck(o, m) ==
    \E s \in IF Renewing(o) THEN {0, now + SubTime} ELSE {dev[o].sub} :
       /\ dev' = [dev EXCEPT ![o].sub = s]
       /\ minExp' = IF s > 0 /\ s < m THEN s ELSE m

\* The earlier of the noted time and the device's expiry, 0 being no time.
Earlier(m, e) == IF e > 0 /\ (e < m \/ m = 0) THEN e ELSE m

ExpScan ==
    LET o == cur[Exp] IN
    /\ pc[Exp] = "scan" /\ o # None /\ ~Expired(o, clk)
    /\ ServiceCheck(o, Earlier(minExp, dev[o].expiry))
    /\ cur' = [cur EXCEPT ![Exp] = NextOf(o)]
    /\ UNCHANGED <<now, devices, locks, pc, pkt, udn, ptr, status, clk, deadline,
                   appVars, ghosts>>

\* Back from the removal: the next device's services are looked at, its own
\* expiry is not.
ExpRelock ==
    LET o == cur[Exp] IN
    /\ pc[Exp] = "relock" /\ o \in Cached \cup {None}
    /\ Acquire(Exp)
    /\ IF o = None THEN UNCHANGED <<dev, minExp, cur>>
                   ELSE /\ ServiceCheck(o, minExp)
                        /\ cur' = [cur EXCEPT ![Exp] = NextOf(o)]
    /\ Goto(Exp, "scan")
    /\ UNCHANGED <<now, devices, expMutex, pkt, udn, ptr, status, clk, deadline,
                   appVars, ghosts>>

ExpScanEnd ==
    /\ pc[Exp] = "scan" /\ cur[Exp] = None
    /\ Release
    /\ Goto(Exp, "sleep")
    /\ UNCHANGED <<now, cache, expMutex, locals, expVars, appVars, ghosts>>

\* Mutant of Deadline: the comparison with the current time is gone.
DeadlineUnguarded == minExp - now

\* timeout = expirationTime - now when expirationTime > currTime, else 0, and 0
\* makes cg_cond_wait wait for a signal only.  A negative timeout is converted to
\* unsigned and wraps back when the current time is added: it is over at once.
Deadline == IF minExp <= clk \/ minExp = now THEN 0 ELSE minExp

ExpSleep ==
    /\ pc[Exp] = "sleep"
    /\ ~expMutex /\ expMutex' = TRUE
    /\ deadline' = Deadline /\ clk' = 0 /\ minExp' = 0
    /\ Goto(Exp, "commit")
    /\ UNCHANGED <<now, cache, cpLock, locals, appVars, ghosts>>

\* if (cg_thread_isrunnable(thread) == FALSE) break;
ExpCommit ==
    /\ pc[Exp] = "commit"
    /\ expMutex' = runnable
    /\ Goto(Exp, IF runnable THEN "wait" ELSE "exited")
    /\ UNCHANGED <<now, cache, cpLock, locals, expVars, appVars, ghosts>>

\* cg_cond_wait(expCond, expMutex, timeout)
ExpWait ==
    /\ pc[Exp] = "wait"
    /\ expMutex' = FALSE
    /\ Goto(Exp, "waiting")
    /\ UNCHANGED <<now, cache, cpLock, locals, expVars, appVars, ghosts>>

ExpTimeout ==
    /\ pc[Exp] = "waiting" /\ deadline # 0 /\ deadline <= now
    /\ Goto(Exp, "enter")
    /\ UNCHANGED <<now, cache, locks, locals, expVars, appVars, ghosts>>

-----------------------------------------------------------------------------
(* The application thread.                                                 *)

\* lock(ctrlPoint) and take a device pointer, as ccontrolpoint.h asks for.
AppLock ==
    /\ pc[App] = "idle" /\ "use" \in AppOps
    /\ Acquire(App)
    /\ \E o \in Cached \cup {None} : ptr' = [ptr EXCEPT ![App] = o]
    /\ Goto(App, "using")
    /\ UNCHANGED <<now, cache, expMutex, pkt, udn, cur, status, expVars, appVars,
                   ghosts>>

\* cg_upnp_controlpoint_subscribe: a new subscription wakes the expiration thread
AppSubscribe ==
    LET o == ptr[App] IN
    /\ pc[App] = "using" /\ "subscribe" \in AppOps /\ o # None
    /\ dev[o].sub = 0
    /\ dev' = [dev EXCEPT ![o].sub = now + SubTime]
    /\ SignalAndGoto(App, "using")
    /\ UNCHANGED <<now, devices, locks, locals, expVars, appVars, ghosts>>

\* ... and an existing one is renewed without a signal, or lost.
AppResubscribe ==
    LET o == ptr[App] IN
    /\ pc[App] = "using" /\ "subscribe" \in AppOps /\ o # None
    /\ dev[o].sub > 0
    /\ \E s \in {0, now + SubTime} : dev' = [dev EXCEPT ![o].sub = s]
    /\ UNCHANGED <<now, devices, locks, pc, locals, expVars, appVars, ghosts>>

AppUnlock ==
    /\ pc[App] = "using"
    /\ Release
    /\ ptr' = [ptr EXCEPT ![App] = None]
    /\ Goto(App, "idle")
    /\ UNCHANGED <<now, cache, expMutex, pkt, udn, cur, status, expVars, appVars,
                   ghosts>>

\* cg_upnp_controlpoint_ipchanged, for one interface that has disappeared
IpChanged(i) ==
    /\ pc[App] = "idle" /\ "ipchanged" \in AppOps
    /\ gone' = i
    /\ Goto(App, "ipLock")
    /\ UNCHANGED <<now, cache, locks, locals, expVars, runnable, serving, ghosts>>

IpLock ==
    /\ pc[App] = "ipLock"
    /\ Acquire(App)
    /\ cur' = [cur EXCEPT ![App] = First]
    /\ Goto(App, "ipScan")
    /\ UNCHANGED <<now, cache, expMutex, pkt, udn, ptr, status, expVars, appVars,
                   ghosts>>

\* A device heard through that interface is removed, without the lock.
IpScanGone ==
    LET o == cur[App] IN
    /\ pc[App] = "ipScan" /\ o # None /\ dev[o].ifc = gone
    /\ ptr' = [ptr EXCEPT ![App] = o]
    /\ cur' = [cur EXCEPT ![App] = NextOf(o)]
    /\ Release
    /\ Goto(App, "victim")
    /\ UNCHANGED <<now, cache, expMutex, pkt, udn, status, expVars, appVars, ghosts>>

IpScan ==
    LET o == cur[App] IN
    /\ pc[App] = "ipScan" /\ o # None /\ dev[o].ifc # gone
    /\ cur' = [cur EXCEPT ![App] = NextOf(o)]
    /\ UNCHANGED <<now, cache, locks, pc, pkt, udn, ptr, status, expVars, appVars,
                   ghosts>>

IpRelock ==
    /\ pc[App] = "ipRelock" /\ cur[App] \in Cached \cup {None}
    /\ Acquire(App)
    /\ Goto(App, "ipScan")
    /\ UNCHANGED <<now, cache, expMutex, locals, expVars, appVars, ghosts>>

\* The M-SEARCH that ends ipchanged changes nothing here.
IpScanEnd ==
    /\ pc[App] = "ipScan" /\ cur[App] = None
    /\ Release
    /\ gone' = None
    /\ Goto(App, "idle")
    /\ UNCHANGED <<now, cache, expMutex, locals, expVars, runnable, serving, ghosts>>

\* Mutant of Stop: the SSDP servers are left running.
StopExpirationOnly ==
    /\ pc[App] = "idle" /\ "stop" \in AppOps
    /\ runnable' = FALSE
    /\ pc' = [pc EXCEPT ![App] = "stopLock", ![Exp] = ExpSignalled]
    /\ UNCHANGED <<now, cache, locks, locals, expVars, serving, gone, ghosts>>

\* cg_upnp_controlpoint_stop: cg_thread_stop_with_cond clears the flag and
\* signals without the mutex; then the servers stop.
Stop ==
    /\ pc[App] = "idle" /\ "stop" \in AppOps
    /\ runnable' = FALSE /\ serving' = FALSE
    /\ pc' = [pc EXCEPT ![App] = "stopLock", ![Exp] = ExpSignalled]
    /\ UNCHANGED <<now, cache, locks, locals, expVars, gone, ghosts>>

StopLock ==
    /\ pc[App] = "stopLock"
    /\ Acquire(App)
    /\ cur' = [cur EXCEPT ![App] = First]
    /\ Goto(App, "stopScan")
    /\ UNCHANGED <<now, cache, expMutex, pkt, udn, ptr, status, expVars, appVars,
                   ghosts>>

\* Every device with a name is reported to the listener without the lock.
StopScanTell ==
    LET o == cur[App] IN
    /\ pc[App] = "stopScan" /\ o # None /\ TRUE \in Listening /\ dev[o].udn # None
    /\ udn' = [udn EXCEPT ![App] = dev[o].udn]
    /\ Release
    /\ Goto(App, "stopTell")
    /\ UNCHANGED <<now, cache, expMutex, pkt, ptr, cur, status, expVars, appVars,
                   ghosts>>

StopScanSkip ==
    LET o == cur[App] IN
    /\ pc[App] = "stopScan" /\ o # None /\ (NoListener \/ dev[o].udn = None)
    /\ cur' = [cur EXCEPT ![App] = NextOf(o)]
    /\ UNCHANGED <<now, cache, locks, pc, pkt, udn, ptr, status, expVars, appVars,
                   ghosts>>

\* The name passed to the listener is the device's own string.
StopTell ==
    /\ pc[App] = "stopTell" /\ cur[App] \in Cached
    /\ CallListener
    /\ Goto(App, "stopRelock")
    /\ UNCHANGED <<now, cache, locks, locals, expVars, appVars, ghosts>>

\* Mutant of StopRelock: the loop does not advance past a reported device.
StopRelockSame ==
    /\ pc[App] = "stopRelock" /\ cur[App] \in Cached
    /\ Acquire(App)
    /\ Goto(App, "stopScan")
    /\ UNCHANGED <<now, cache, expMutex, locals, expVars, appVars, ghosts>>

StopRelock ==
    /\ pc[App] = "stopRelock" /\ cur[App] \in Cached
    /\ Acquire(App)
    /\ cur' = [cur EXCEPT ![App] = NextOf(cur[App])]
    /\ Goto(App, "stopScan")
    /\ UNCHANGED <<now, cache, expMutex, pkt, udn, ptr, status, expVars, appVars,
                   ghosts>>

\* cg_upnp_devicelist_clear
StopClear ==
    /\ pc[App] = "stopScan" /\ cur[App] = None
    /\ devices' = <<>>
    /\ dev' = [o \in Objs |-> Freed]
    /\ Release
    /\ Goto(App, "stopped")
    /\ UNCHANGED <<now, expMutex, locals, expVars, appVars, ghosts>>

-----------------------------------------------------------------------------
(* The environment and the specification.                                  *)

Tick ==
    /\ now < MaxTime
    /\ now' = now + 1
    /\ UNCHANGED <<cache, locks, pc, locals, expVars, appVars, ghosts>>

\* Is thread t about to follow a pointer to a device that has been freed?
Dangling(t) ==
    \/ pc[t] = "victim" /\ ptr[t] \notin Cached
    \/ pc[t] = "delete" /\ cpLock = None /\ ptr[t] \notin Cached
    \/ pc[t] \in {"relock", "ipRelock"} /\ cpLock = None
       /\ cur[t] \notin Cached \cup {None}
    \/ pc[t] \in {"stopTell", "stopRelock"} /\ cpLock = None /\ cur[t] \notin Cached

UseAfterFree(t) ==
    /\ Dangling(t)
    /\ fault' = TRUE
    /\ UNCHANGED <<now, cache, locks, pc, locals, expVars, appVars, foreign>>

AddStep(t) ==
    \/ AddLookup(t) \/ FetchOk(t) \/ FetchFails(t) \/ RefetchOk(t) \/ RefetchFails(t)
    \/ AddSignal(t) \/ AddUnlock(t) \/ TellAdd(t)

RemoveStep(t) ==
    \/ ReadVictim(t) \/ RemoveUnknown(t) \/ RemoveLookup(t) \/ RemoveSilently(t)
    \/ TellRemove(t) \/ RemoveDelete(t)

ExpStep ==
    \/ ExpEnter \/ ExpCheck \/ ExpLock \/ ExpScanExpired \/ ExpScan \/ ExpRelock
    \/ ExpScanEnd \/ ExpSleep \/ ExpCommit \/ ExpWait \/ ExpTimeout

IpStep == IpLock \/ IpScanGone \/ IpScan \/ IpRelock \/ IpScanEnd

StopStep ==
    StopLock \/ StopScanTell \/ StopScanSkip \/ StopTell \/ StopRelock \/ StopClear

\* Steps a thread takes by itself once it has begun an operation.
ThreadStep(t) ==
    /\ ~fault
    /\ \/ t \in Ssdp /\ AddStep(t)
       \/ RemoveStep(t)
       \/ t = Exp /\ ExpStep
       \/ t = App /\ (AppUnlock \/ IpStep \/ StopStep)
       \/ UseAfterFree(t)

\* What the network and the application start.
External ==
    /\ ~fault
    /\ \/ \E t \in Ssdp, p \in Packets : ReceiveAlive(t, p)
       \/ \E t \in Ssdp, u \in Byebyes : ReceiveByebye(t, u)
       \/ AppLock \/ AppSubscribe \/ AppResubscribe
       \/ \E i \in Ifcs : IpChanged(i)
       \/ Stop

Next == External \/ Tick \/ \E t \in Threads : ThreadStep(t)

Init ==
    /\ now = 1
    /\ devices = <<>> /\ dev = [o \in Objs |-> Freed]
    /\ cpLock = None /\ expMutex = FALSE
    /\ pc = [t \in Threads |-> IF t = Exp THEN "enter" ELSE "idle"]
    /\ pkt = [t \in Threads |-> None] /\ udn = [t \in Threads |-> None]
    /\ ptr = [t \in Threads |-> None] /\ cur = [t \in Threads |-> None]
    /\ status = [t \in Threads |-> "Invalid"]
    /\ clk = 0 /\ minExp = 0 /\ deadline = 0
    /\ runnable = TRUE /\ serving = TRUE /\ gone = None
    /\ fault = FALSE /\ foreign = {}

Spec == Init /\ [][Next]_vars

\* Is the next step of t the end of HTTP requests it makes with the lock held?
Requesting(t) ==
    \/ pc[t] \in {"fetch", "refetch"}
    \/ /\ t = Exp /\ cur[t] \in Cached /\ Renewing(cur[t])
       /\ pc[t] = "relock" \/ (pc[t] = "scan" /\ ~Expired(cur[t], clk))

\* Every thread keeps running and gets a mutex it waits for again and again, and
\* a listener returns; time passes.  An HTTP request is sure to end in the libcurl
\* build only: in the socket build the client's timeout is set before there is a
\* socket (chttp_request.c:323), and a silent peer keeps the lock for ever.
Fairness ==
    /\ WF_vars(Tick)
    /\ \A t \in Threads : SF_vars(ThreadStep(t) /\ (Curl \/ ~Requesting(t)))

FairSpec == Spec /\ Fairness

-----------------------------------------------------------------------------
(* Properties.                                                             *)

Labels == {"idle", "add", "fetch", "refetch", "signal", "unlock", "tellAdd", "remove",
           "tellRemove", "delete", "victim", "enter", "check", "scanLock", "scan",
           "relock", "sleep", "commit", "wait", "waiting", "exited", "using", "ipLock",
           "ipScan", "ipRelock", "stopLock", "stopScan", "stopTell", "stopRelock",
           "stopped"}

\* Labels between a lock and an unlock of the control point.
Critical == {"fetch", "refetch", "signal", "unlock", "scan", "using", "ipScan",
             "stopScan"}

Cells == [udn : Udns \cup {None}, usn : Udns \cup {None}, loc : Locs \cup {None},
          ifc : Ifcs \cup {None}, expiry : Nat, sub : Nat]

\* The variables have their types.
TypeOK ==
    /\ now \in Nat \ {0}
    /\ devices \in Seq(Objs) /\ dev \in [Objs -> Cells]
    /\ cpLock \in Threads \cup {None} /\ expMutex \in BOOLEAN
    /\ pc \in [Threads -> Labels]
    /\ pkt \in [Threads -> Packets \cup {None}] /\ udn \in [Threads -> Udns \cup {None}]
    /\ ptr \in [Threads -> Objs \cup {None}] /\ cur \in [Threads -> Objs \cup {None}]
    /\ status \in [Threads -> {"Added", "Updated", "Invalid"}]
    /\ clk \in Nat /\ minExp \in Nat /\ deadline \in Nat
    /\ runnable \in BOOLEAN /\ serving \in BOOLEAN /\ gone \in Ifcs \cup {None}
    /\ fault \in BOOLEAN /\ foreign \subseteq Udns

\* The lock discipline of all the handlers, with their unlock-call-relock
\* sections: exactly the thread inside a locked section holds the mutex, so no
\* handler releases a lock it does not hold or returns without releasing it.
LockDiscipline ==
    /\ \A t \in Threads : cpLock = t <=> pc[t] \in Critical
    /\ expMutex <=> pc[Exp] \in {"check", "commit", "wait"}

\* The list never links a cell twice: what a wrong removal through a stale
\* pointer, or an insertion of a cell that is still linked, would break.
ListIntact == \A i, j \in DOMAIN devices : devices[i] = devices[j] => i = j

\* No two cached devices share a name, unless the description with that name has once
\* been found where the packet of another device led to: adddevicebyssdppacket holds
\* the lock from its lookup, across the HTTP requests, to the insertion, but does not
\* compare the name it has looked up with the one it gets.
UniqueUdn ==
    \A o, p \in Cached :
        dev[o].udn = dev[p].udn /\ dev[o].udn \notin foreign \cup {None} => o = p

\* A pointer taken under the lock stays valid until the lock is released: the
\* application's, that of an update, and the loop variables of the three loops.
LockedPointersLive ==
    \A t \in Threads :
       /\ pc[t] = "refetch" => ptr[t] \in Cached
       /\ pc[t] = "using" => ptr[t] \in Cached \cup {None}
       /\ pc[t] \in {"scan", "ipScan", "stopScan"} => cur[t] \in Cached \cup {None}

\* Receive threads that may still insert a device.
Inserting == {t \in Ssdp : pc[t] \in {"add", "fetch"}}

\* cg_upnp_controlpoint_stop empties the cache but joins no thread: a handler that
\* was in flight may still insert what it fetches, once, and nobody will remove it.
\* A stopped control point has at most one device for each receive thread.
StoppedHoldsFew ==
    pc[App] = "stopped" => Len(devices) + Cardinality(Inserting) <= Cardinality(Ssdp)

\* ccontrolpoint.h: the lock "prevents devices/services from being updated/
\* removed or added while the control point is locked".  While the application
\* has it, nothing changes but the subscription it makes itself.
LockedCacheIsStable ==
    [][pc[App] = "using" =>
          /\ devices' = devices
          /\ \A o \in Objs : dev'[o] # dev[o] =>
                o = ptr[App] /\ dev'[o] = [dev[o] EXCEPT !.sub = dev'[o].sub]]_vars

\* In the libcurl build whoever holds the control point's lock releases it (the lock
\* is held across HTTP requests and, to signal, while waiting for expMutex).
LockReleased == \A t \in Threads : (cpLock = t) ~> (cpLock # t \/ fault)

\* In the libcurl build cg_upnp_controlpoint_stop returns, whatever the other threads
\* are doing.
StopReturns == (pc[App] = "stopLock") ~> (pc[App] = "stopped" \/ fault)

Lapsed(o) == o \in Cached /\ Expired(o, now)

\* cg_upnp_controlpoint_expirationhandler: a device whose lease has run out is
\* removed or announced again, it does not stay in the cache (until the stop).  One
\* under another name than its packet's may stay: the removal looks for the packet's.
LapsedRemoved ==
    \A o \in Objs : Lapsed(o) ~> (~Lapsed(o) \/ Misnamed(o) \/ fault \/ ~runnable)

\* ccontrolpoint.h on locking: a pointer into the cache is only used while it is
\* valid; no thread follows a pointer to a device that has been deleted.
NoUseAfterFree == ~fault
=============================================================================
