------------------------------- MODULE Device -------------------------------
(***************************************************************************)
(* The life of a root device on the network: cg_upnp_device_start and _stop*)
(* (cdevice), the advertiser thread (cdevice_advertiser, cthread) and the  *)
(* answers to M-SEARCH with their filter (cdevice_ssdp_server,             *)
(* cssdp_server), as a control point hears them.                           *)
(*                                                                         *)
(* One CgThread serves the advertiser for the device's whole life, but each*)
(* start creates a pthread of its own and stop does not join the old one:  *)
(* it clears the flag they all share, signals the last one and sleeps for a*)
(* second.  A generation is a start of the device with its two threads.    *)
(*                                                                         *)
(* The device has one interface.  Time is a countdown; a thread that can   *)
(* run does so before the next tick, and the second that stop sleeps is    *)
(* shorter than a tick.  Announcements are not lost.                       *)
(***************************************************************************)
EXTENDS Integers

CONSTANTS
    MaxStarts,       \* bound on the starts of the device in a run
    Leases,          \* lease times the application sets before a start
    Wrap,            \* usleep takes its microseconds modulo 2^32: so many ticks
    MaxPort,         \* bound on the ports the device may try
    Keys,            \* requester and search target of an M-SEARCH
    Hash,            \* the slot of the filter table for each key
    FilterInterval,  \* CG_UPNP_DEVICE_M_SEARCH_FILTER_INTERVAL
    None

Gens == 1 .. MaxStarts
Ports == 1 .. MaxPort
Slots == {Hash[k] : k \in Keys}

ASSUME DeviceAssumption ==
    /\ MaxStarts \in Nat \ {0} /\ Leases \subseteq Nat \ {0} /\ Wrap \in Nat \ {0}
    /\ FilterInterval \in Nat \ {0} /\ MaxPort \in Nat \ {0}

VARIABLES
    pc,       \* application: the next step of start or stop, or "idle"
    op,       \* application: the call it makes
    gen,      \* starts so far
    lease,    \* the device's lease time
    port,     \* the device's HTTP port, told in every LOCATION
    bound,    \* the port its HTTP servers are bound to, or None
    taken,    \* ports other programs have bound
    flag,     \* runnableFlag of the advertiser's CgThread
    adv,      \* where the advertiser thread of each generation is
    wait,     \* ticks left of its wait
    period,   \* the lease time it has read
    ssdp,     \* the current SSDP server: "open", "stopping", "closed"
    rx,       \* where the receive thread of each generation is
    quiet,    \* filter table: ticks left in which a slot's searches are dropped
    since,    \* ticks since a key was last answered, by the current receive thread
    heard,    \* at a control point: lease left and port of the device
    fault     \* a receive thread has used its freed CgThread

appVars == <<pc, op, gen, lease, port, bound, taken>>
advVars == <<flag, adv, wait, period>>
rxVars == <<ssdp, rx, quiet, since, fault>>
vars == <<appVars, advVars, rxVars, heard>>

Goto(l) == pc' = l

\* cg_upnp_device_announce and a search response: lease time and LOCATION.
TellAlive == heard' = [left |-> lease, port |-> port]

-----------------------------------------------------------------------------
(* The application: start and stop; start begins with a stop.              *)

CallStart ==
    /\ pc = "idle" /\ gen < MaxStarts
    /\ op' = "start" /\ lease' \in Leases
    /\ Goto("byebye")
    /\ UNCHANGED <<gen, port, bound, taken, advVars, rxVars, heard>>

CallStop ==
    /\ pc = "idle"
    /\ op' = "stop"
    /\ Goto("byebye")
    /\ UNCHANGED <<gen, lease, port, bound, taken, advVars, rxVars, heard>>

ByeBye ==
    /\ pc = "byebye"
    /\ heard' = [heard EXCEPT !.left = 0]
    /\ Goto("stopAdvertiser")
    /\ UNCHANGED <<op, gen, lease, port, bound, taken, advVars, rxVars>>

\* Mutant of StopAdvertiser: the thread is signalled, its flag is left.
StopAdvertiserSignals ==
    /\ pc = "stopAdvertiser"
    /\ wait' \in IF flag THEN {wait, [wait EXCEPT ![gen] = 0]} ELSE {wait}
    /\ Goto("stopHttp")
    /\ UNCHANGED <<flag, op, gen, lease, port, bound, taken, adv, period, rxVars, heard>>

\* cg_upnp_device_advertiser_stop, if it runs: the flag, and a signal to the last
\* thread created: SIGQUIT ends its wait, the 0 of OS X and iOS does not.
StopAdvertiser ==
    /\ pc = "stopAdvertiser"
    /\ flag' = FALSE
    /\ wait' \in IF flag THEN {wait, [wait EXCEPT ![gen] = 0]} ELSE {wait}
    /\ Goto("stopHttp")
    /\ UNCHANGED <<op, gen, lease, port, bound, taken, adv, period, rxVars, heard>>

\* What other programs may occupy: the last port stays free, or start would try on
\* for ever.
Occupied == SUBSET (Ports \ {MaxPort})

\* As soon as the port is closed it may be taken by another program.
StopHttp ==
    /\ pc = "stopHttp"
    /\ bound' = None /\ taken' \in Occupied
    /\ Goto("stopSsdp")
    /\ UNCHANGED <<op, gen, lease, port, advVars, rxVars, heard>>

\* cg_thread_stop of the receive thread ...
StopSsdp ==
    /\ pc = "stopSsdp"
    /\ ssdp' = IF ssdp = "open" THEN "stopping" ELSE ssdp
    /\ Goto("closeSsdp")
    /\ UNCHANGED <<op, gen, lease, port, bound, taken, advVars, rx, quiet, since, fault,
                   heard>>

\* ... and a second later its CgThread is freed and the socket closed.  The filter
\* table belongs to the packet of the thread.
CloseSsdp ==
    /\ pc = "closeSsdp"
    /\ ssdp' = "closed"
    /\ quiet' = [s \in Slots |-> 0] /\ since' = [k \in Keys |-> FilterInterval]
    /\ Goto(IF op = "start" THEN "openHttp" ELSE "idle")
    /\ UNCHANGED <<op, gen, lease, port, bound, taken, advVars, rx, fault, heard>>

\* Mutant of OpenHttp: the next port is tried but not kept.
OpenHttpForgets ==
    /\ pc = "openHttp"
    /\ \E p \in Ports \ taken : p >= port /\ bound' = p
    /\ Goto("openSsdp")
    /\ UNCHANGED <<port, op, gen, lease, taken, advVars, rxVars, heard>>

\* Mutant of OpenHttp: the same port is tried again and again.
OpenHttpSame ==
    /\ pc = "openHttp" /\ port \notin taken
    /\ bound' = port /\ Goto("openSsdp")
    /\ UNCHANGED <<port, op, gen, lease, taken, advVars, rxVars, heard>>

\* Ports are tried in turn; the port found is the one the LOCATION tells.
OpenHttp ==
    /\ pc = "openHttp"
    /\ IF port \in taken
       THEN port' = port + 1 /\ UNCHANGED <<pc, bound>>
       ELSE bound' = port /\ Goto("openSsdp") /\ UNCHANGED port
    /\ UNCHANGED <<op, gen, lease, taken, advVars, rxVars, heard>>

\* Neither a socket that cannot be bound nor a thread that cannot be created makes
\* start fail.
OpenSsdp ==
    /\ pc = "openSsdp"
    /\ gen' = gen + 1
    /\ \/ ssdp' = "open" /\ rx' = [rx EXCEPT ![gen + 1] = "recv"]
       \/ UNCHANGED <<ssdp, rx>>
    /\ Goto("announce")
    /\ UNCHANGED <<op, lease, port, bound, taken, advVars, quiet, since, fault,
                   heard>>

Announce ==
    /\ pc = "announce"
    /\ TellAlive
    /\ Goto("startAdvertiser")
    /\ UNCHANGED <<op, gen, lease, port, bound, taken, advVars, rxVars>>

\* Mutant of StartAdvertiser: the flag stays set when no thread can be created.
StartAdvertiserKeepsFlag ==
    /\ pc = "startAdvertiser"
    /\ flag' = TRUE
    /\ \/ adv' = [adv EXCEPT ![gen] = "created"]
       \/ UNCHANGED adv
    /\ Goto("idle")
    /\ UNCHANGED <<op, gen, lease, port, bound, taken, wait, period, rxVars, heard>>

\* cg_thread_start: the flag is set first, and cleared if no thread can be created;
\* start does not look at the result.
StartAdvertiser ==
    /\ pc = "startAdvertiser"
    /\ \/ flag' = TRUE /\ adv' = [adv EXCEPT ![gen] = "created"]
       \/ flag' = FALSE /\ UNCHANGED adv
    /\ Goto("idle")
    /\ UNCHANGED <<op, gen, lease, port, bound, taken, wait, period, rxVars, heard>>

AppStep ==
    \/ ByeBye \/ StopAdvertiser \/ StopHttp \/ StopSsdp \/ CloseSsdp
    \/ OpenHttp \/ OpenSsdp \/ Announce \/ StartAdvertiser

-----------------------------------------------------------------------------
(* The advertiser threads: cg_upnp_device_advertiser_action.               *)

AdvCreated(g) ==
    /\ adv[g] = "created"
    /\ period' = [period EXCEPT ![g] = lease]
    /\ adv' = [adv EXCEPT ![g] = "check"]
    /\ UNCHANGED <<appVars, flag, wait, rxVars, heard>>

\* Mutant of Interval: up to a whole lease time.
IntervalWhole(l) == {(l \div 4 + r) % Wrap : r \in 0 .. l}

\* A quarter of the lease time and up to a quarter more, as usleep takes it.
Interval(l) == {(l \div 4 + r) % Wrap : r \in 0 .. l \div 4}

End(g) == adv' = [adv EXCEPT ![g] = "gone"] /\ period' = [period EXCEPT ![g] = 0]

AdvCheck(g) ==
    /\ adv[g] = "check"
    /\ IF flag
       THEN /\ wait' \in {[wait EXCEPT ![g] = n] : n \in Interval(period[g])}
            /\ adv' = [adv EXCEPT ![g] = "wait"]
            /\ UNCHANGED period
       ELSE End(g) /\ UNCHANGED wait
    /\ UNCHANGED <<appVars, flag, rxVars, heard>>

\* After the wait the flag is read again.
AdvAwake(g) ==
    /\ adv[g] = "wait" /\ wait[g] = 0
    /\ IF flag THEN adv' = [adv EXCEPT ![g] = "announce"] /\ UNCHANGED period
               ELSE End(g)
    /\ UNCHANGED <<appVars, flag, wait, rxVars, heard>>

AdvAnnounce(g) ==
    /\ adv[g] = "announce"
    /\ TellAlive
    /\ adv' = [adv EXCEPT ![g] = "check"]
    /\ UNCHANGED <<appVars, flag, wait, period, rxVars>>

AdvStep(g) == AdvCreated(g) \/ AdvCheck(g) \/ AdvAwake(g) \/ AdvAnnounce(g)

-----------------------------------------------------------------------------
(* The receive threads: cg_upnp_ssdp_server_thread with                    *)
(* cg_upnp_device_ssdpmessagereceived as its listener.                     *)

Current(g) == g = gen /\ ssdp # "closed"

\* Mutant of FilteredFor: the table is cleared with the packet after every search.
FilteredForCleared(k) == 0

\* filter_duplicate_m_search writes the time of every search into its slot: so many
\* ticks will the next one be dropped.
FilteredFor(k) == FilterInterval

RxSearch(g, k) ==
    /\ rx[g] = "recv" /\ Current(g)
    /\ IF quiet[Hash[k]] = 0
       THEN /\ rx' = [rx EXCEPT ![g] = "delay"]
            /\ since' = [since EXCEPT ![k] = 0]
       ELSE UNCHANGED <<rx, since>>
    /\ quiet' = [quiet EXCEPT ![Hash[k]] = FilteredFor(k)]
    /\ UNCHANGED <<appVars, advVars, ssdp, fault, heard>>

\* The answers, after a random part of MX.
RxAnswer(g) ==
    /\ rx[g] = "delay"
    /\ TellAlive
    /\ rx' = [rx EXCEPT ![g] = "loop"]
    /\ UNCHANGED <<appVars, advVars, ssdp, quiet, since, fault>>

RxLoop(g) ==
    /\ rx[g] = "loop" /\ Current(g)
    /\ rx' = [rx EXCEPT ![g] = IF ssdp = "open" THEN "recv" ELSE "gone"]
    /\ UNCHANGED <<appVars, advVars, ssdp, quiet, since, fault, heard>>

\* The answers took longer than the second that stop grants.
RxUseAfterFree(g) ==
    /\ rx[g] = "loop" /\ ~Current(g)
    /\ fault' = TRUE
    /\ rx' = [rx EXCEPT ![g] = "gone"]
    /\ UNCHANGED <<appVars, advVars, ssdp, quiet, since, heard>>

\* The signal, or the closed socket, ends the receive.
RxEnd(g) ==
    /\ rx[g] = "recv"
    /\ ~Current(g) \/ ssdp = "stopping"
    /\ rx' = [rx EXCEPT ![g] = "gone"]
    /\ UNCHANGED <<appVars, advVars, ssdp, quiet, since, fault, heard>>

RxStep(g) == RxAnswer(g) \/ RxLoop(g) \/ RxEnd(g) \/ RxUseAfterFree(g)

-----------------------------------------------------------------------------
(* The specification.                                                      *)

Less(n) == IF n = 0 THEN 0 ELSE n - 1

Urgent == \/ pc # "idle" 
          \/ \E g \in Gens : adv[g] \notin {"none", "wait", "gone"}
          \/ \E g \in Gens : adv[g] = "wait" /\ wait[g] = 0
          \/ \E g \in Gens : rx[g] \in {"delay", "loop"}

\* cg_getcurrentsystemtime
Tick ==
    /\ ~Urgent
    /\ wait' = [g \in Gens |-> Less(wait[g])]
    /\ quiet' = [s \in Slots |-> Less(quiet[s])]
    /\ since' = [k \in Keys |-> IF since[k] < FilterInterval THEN since[k] + 1 ELSE since[k]]
    /\ heard' = [heard EXCEPT !.left = Less(@)]
    /\ UNCHANGED <<appVars, flag, adv, period, ssdp, rx, fault>>

Next ==
    /\ ~fault
    /\ \/ CallStart \/ CallStop \/ AppStep \/ Tick
       \/ \E g \in Gens : AdvStep(g) \/ RxStep(g) \/ \E k \in Keys : RxSearch(g, k)

Init ==
    /\ pc = "idle" /\ op = "stop" /\ gen = 0
    /\ lease \in Leases
    /\ port = 1 /\ bound = None
    /\ taken = {}
    /\ flag = FALSE
    /\ adv = [g \in Gens |-> "none"] /\ wait = [g \in Gens |-> 0]
    /\ period = [g \in Gens |-> 0]
    /\ ssdp = "closed" /\ rx = [g \in Gens |-> "none"]
    /\ quiet = [s \in Slots |-> 0] /\ since = [k \in Keys |-> FilterInterval]
    /\ heard = [left |-> 0, port |-> None]
    /\ fault = FALSE

Spec == Init /\ [][Next]_vars

\* Every thread keeps running, and time passes.
FairSpec ==
    /\ Spec
    /\ WF_vars(~fault /\ AppStep) /\ WF_vars(~fault /\ Tick)
    /\ \A g \in Gens : WF_vars(~fault /\ AdvStep(g)) /\ WF_vars(~fault /\ RxStep(g))

-----------------------------------------------------------------------------
(* Properties.                                                             *)

\* The variables have their types.
TypeOK ==
    /\ pc \in {"idle", "byebye", "stopAdvertiser", "stopHttp", "stopSsdp", "closeSsdp",
               "openHttp", "openSsdp", "announce", "startAdvertiser"}
    /\ op \in {"start", "stop"} /\ gen \in 0 .. MaxStarts
    /\ lease \in Leases
    /\ port \in Ports /\ bound \in Ports \cup {None} /\ taken \subseteq Ports
    /\ flag \in BOOLEAN
    /\ adv \in [Gens -> {"none", "created", "check", "wait", "announce", "gone"}]
    /\ wait \in [Gens -> Nat] /\ period \in [Gens -> Leases \cup {0}]
    /\ ssdp \in {"open", "stopping", "closed"}
    /\ rx \in [Gens -> {"none", "recv", "delay", "loop", "gone"}]
    /\ quiet \in [Slots -> 0 .. FilterInterval] /\ since \in [Keys -> 0 .. FilterInterval]
    /\ heard \in [left : Nat, port : Ports \cup {None}]
    /\ fault \in BOOLEAN

\* cg_upnp_device_isrunning, as the application sees it between its calls.
Running == flag /\ pc = "idle"

\* cdevice.h of the lease time: "the maximum amount of time that can elapse before
\* an advertisement is broadcast again".  A device that runs is announced before
\* the lease it has told runs out, over restarts and with old advertiser threads
\* still about.
AnnouncedInLease == Running => heard.left > 0

\* The LOCATION a control point holds of a running device is one where the device
\* listens, though start may have had to look for a free port and old threads
\* announce while it looks.
LocationServed == Running => heard.port = bound

\* A search is not answered twice within the filter's interval.
AnswerSpacing ==
    [][\A g \in Gens, k \in Keys :
          RxSearch(g, k) /\ rx'[g] = "delay" => since[k] = FilterInterval]_vars

Stopped == pc = "idle" /\ bound = None

\* A device that has been stopped does not stay in a control point's cache, though an
\* advertiser or a receive thread may announce it once more after its byebye.
StoppedFadesAway == Stopped ~> (heard.left = 0 \/ ~Stopped \/ fault)

\* Start and stop return to the application.
CallsReturn == (pc # "idle") ~> (pc = "idle" \/ fault)
=============================================================================
