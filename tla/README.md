# Verification of CyberLink for C

This directory holds TLA+ models of the UPnP stack in `src/clinkc` (CyberLink for C,
the library below the iOS application `src/DLNASample`), the TLC runs that check them and proofs,
checked by TLAPS, of the safety properties of the control point's cache, of eventing, of
the device, of the HTTP server, of control and of the cache of connections, with the
refinement of an abstract pool.

Paths below are relative to `src/clinkc/src/cybergarage/` unless they start with `src/`.

## The system

The stack implements both roles of UPnP. It is written in C over pthreads; all the state
below lives in linked lists (`util/clist.c`) of objects that several threads use.

| Part | State it keeps | Operations | What is hard |
|---|---|---|---|
| Control point (`upnp/ccontrolpoint.c`, `ccontrolpoint_event.c`) | the list of devices with their SSDP packets and subscriptions; `mutex`; the expiration thread with `expMutex`, `expCond` | start, stop, search, alive / byebye / search response, expiry, renewal, `ipchanged` | receive threads, expiration thread and application share the list; every removal unlocks for the application's listener; HTTP requests are made with the lock held; wake-ups of the condition |
| Eventing, publisher (`upnp/cservice_notify.c`, `upnp/event/csubscriber*.c`, `cdevice_http_server.c`, `cstatevariable.c`) | the evented variables, the subscriber list with SID, delivery URL, SEQ counter and lease; the service's mutex | set a variable, NOTIFY, SUBSCRIBE, renewal, UNSUBSCRIBE | NOTIFY is posted with the service's lock held; delivery failures; leases that lapse |
| Eventing, subscriber (`ccontrolpoint_event.c`, `ccontrolpoint_http_server.c`) | the service's SID and event key, the copy of the variables | subscribe, resubscribe, unsubscribe, NOTIFY handler | requests are posted with the control point's lock held, and the NOTIFY handler needs it; SEQ gaps; wrap of SEQ |
| Device (`upnp/cdevice.c`, `cdevice_advertiser.c`, `cdevice_ssdp_server.c`, `upnp/ssdp/cssdp_server*.c`) | lease time, HTTP port, the advertiser's `CgThread`, the M-SEARCH filter | start, stop, announce, answer to M-SEARCH | threads are signalled and not joined; a restart shares the `CgThread` with a thread that is still there; ports that are taken; time limits |
| HTTP server (`http/chttp_server.c`, `chttp_packet.c`, `util/cthread_list.c`, `util/cthread.c`) | the list of client threads, the accepting thread, the body being read | accept, read, serve, stop | client threads delete themselves while stop walks and deletes the list; the description is a shared tree; clients that stall or hang up within a body |
| HTTP client (`http/chttp_request.c`, `chttp_persistent_connection.c`) | with curl: the cache of open connections | post | timeouts; a global mutex over the exchange |
| Descriptions and discovery (`upnp/cdevice.c`, `cdevice_ssdp_server.c`, `cservice.c`, `cservice_ssdp_server.c`, `ccontrolpoint.c`) | the tree of embedded devices and services, on both sides; the last packet of each cached device | announce, withdraw, answer; fetch, refetch, look up by name, type and URL | messages that are late, repeated or lost; devices that crash, move or take over a port; three walks of one tree |
| Control (`upnp/control/*`, `caction.c`, `cargument_list.c`) | the argument list of each action | action call, state variable query | concurrent calls share the list |
| XML, SOAP, HTTP and SSDP messages, strings, URIs, sockets, files, log | sequential data | parse, print | none beyond parsing |
| AV library (`src/clinkc/std/av`) | a tree of containers and items | Browse, transport actions | paging; sharing between threads |
| iOS sample (`src/DLNASample`, `src/NDLNAUtility`) | the lists its views show | views | none of its own |

How they interact: a device announces itself over multicast SSDP; the control point
fetches its description over HTTP and caches the device until its lease or a byebye ends
it. A control point subscribes to a service by an HTTP request to the device, and the
device posts events by HTTP requests to the control point: each is a server to the other,
and each side of an exchange waits with a lock held. Below all of it are `cg_thread_stop`
(clear a flag, signal, sleep for a second, no join) and lists that are walked while
entries leave them.

What makes each part correct:

* control point: one entry for each device; no entry outlives its lease; pointers are used
  only while they are valid; whoever takes a lock gives it back; what the application sees
  under the lock does not change.
* eventing: the publisher's counter and the subscriber's key stay in step; events reach
  the listener in order; the copy catches up; an acknowledged UNSUBSCRIBE is final;
  nobody waits for ever.
* device: a running device is not forgotten and is found where it says; a stopped device is
  forgotten; searches are not answered too often; start and stop return.
* HTTP client and control: no connection is used by two or deleted in use, and none is lost
  that was kept; a call
  returns, with the result of its own job; the subscriber ends with the variable's value.
* HTTP server: one answer to each request, in order; a body whole or not at all; the right
  address in the description; the list is exact; every thread ends; stop returns.
* discovery: what is announced, withdrawn and answered agrees; the cache has each device
  once, whole, from where it is; what was announced is found; a device that is gone is
  forgotten and one that stays is found again.

`PROJECT.json` lists the hazards, each at its line, with the properties that cover it.

## Modules

| Module | Models | Runs |
|---|---|---|
| `ControlPoint` (+ `MCControlPoint`, `MCControlPointLive`) | the cache, its threads and locks | `cp_race`, `cp_loops`, `cp_live`, `cp_dangling`, `cp_lapse` |
| `ControlPoint_proofs` | theorems about `ControlPoint` | (TLAPS) |
| `Eventing` (+ `MCEventing`) | publisher and subscribers, composed | `eventing`, `event_deadlock` |
| `Eventing_proofs` | theorems about `Eventing` | (TLAPS) |
| `Device` (+ `MCDevice`) | start, stop, advertiser, search responses, as a control point hears them | `device` |
| `Device_proofs` | theorems about `Device` | (TLAPS) |
| `HttpServer` (+ `MCHttpServer`) | accepting thread, client threads, bodies, stop | `http_server`, `http_body` |
| `HttpServer_proofs` | theorems about `HttpServer` | (TLAPS) |
| `ConnectionPool` | what the cache of connections promises | (refined by `remote_control`) |
| `ConnectionCache` | the cache of connections, its mutex, creation and deletion | `remote_control` |
| `ConnectionCache_proofs`, `ConnectionCache_refinement` | theorems about `ConnectionCache` | (TLAPS) |
| `Control` (+ `MCControl`) | action calls and queries over the cache, and the device's jobs | `remote_control` |
| `Control_proofs` | theorems about `Control` | (TLAPS) |
| `Description` | the tree of a description: its messages and its look-ups | `discovery` |
| `Discovery` (+ `MCDiscovery`) | devices with such trees on a network, and what a control point makes of them | `discovery` |
| `Discovery_proofs` | theorems about `Discovery` and `Description` | (TLAPS) |

Conventions in all of them:

* A step of a thread is the code between two points where another thread can matter: a
  lock, an unlock, a wait, a request or an answer. `pc` says where a thread is.
* A variable has the name of the field or local it stands for where there is one; the
  comment beside each VARIABLE says which.
* A use of freed memory is undefined. The step that makes it sets `fault` and the model
  stops there; a property about what happens afterwards would say nothing. Liveness
  properties therefore read `P ~> (Q \/ fault)`.
* A definition whose comment starts with "Mutant of" is a wrong version of the operator
  that follows it. It is in no specification; `PROJECT.json` names the property that
  fails when it takes the operator's place.

### ControlPoint

`devices` is `deviceList`, `dev` the content of the objects (name, description URL, USN,
interface, expiry, subscription). The objects are cells that are allocated exactly while
they are linked and may be reused, as `malloc` may do. One action is one section of
`adddevicebyssdppacket` (lookup, first fetch, refetch, signal, unlock, listener),
`removedevicebyssdppacket` (lookup, listener without the lock, delete), the expiration
handler (enter, scan, unlocked removal, renewal, `expMutex`, wait, time-out or wake-up),
`ipchanged` and `stop`; the application locks, uses a pointer, subscribes and unlocks.
The signal is delivered only to a thread that waits.

The name of a device is the one in its description, not the one in the packet that led to it:
nobody compares them (`upnp/ccontrolpoint.c:651-671`, `upnp/cdevice.c:255-262`). `Carries` says
which descriptions may be found at a location, and a fetch brings the name of one of them; a
refetch brings it too, leaves the old description, or clears it and leaves a nameless device.
The ghost variable `foreign` has every name that was read in this way under another device's
packet. Lookups and removals take the first device of a name (`Found`). `UniqueUdn` says that
there is only one, for every name that is not in `foreign`: a device that is announced under a
second one's location may be cached twice, and nothing else has this effect.

A device whose packet has another name than its description, or that has none (`Misnamed`), is
fetched again whenever it is announced under the packet's name, and its expiry removes whichever
device has that name; it stays in the cache itself, and so `LapsedRemoved` excepts it.

`Stop` joins no thread. A receive thread that was in flight goes on, may still insert the
device it fetches, and nobody removes that one: `StoppedHoldsFew` says that this is all a
stopped control point can hold.

### Eventing

One service with one evented variable, of which the age counts; `subs` and `sub` are the
subscriber list, `queue` what the notifying thread has still to serve; `conn`, `call` and
`answer` are the HTTP exchanges in flight. The NOTIFY handler of a control point, its
locks and its reaction to a gap (UNSUBSCRIBE, SUBSCRIBE, all within the handler) are
there, and so are the client threads of the device that serve subscriptions.
`build`, fixed from the start, is the build of the stack and the use made of it: with `curl`
a request is given up after a while; the socket build sets its timeout before the socket
exists and so has none (`http/chttp_request.c:323`). `lossy` lets connections be refused,
`ops` is what the applications do, `maxSeq` and `maxCount` are where the control point and
the publisher wrap SEQ.
Device and control point are two processes there, and the requests of one process are
already ordered by the service's or by the control point's mutex, so that the mutex of
the connection cache adds nothing (`Control` has it). A
client that gives up leaves the server to finish the request it had taken.

### Device

A *generation* is one start with its two threads; `flag` is the one `runnableFlag` that
the advertiser threads of all generations read. `heard` is what a control point
remembers: the lease that is left and the port in the LOCATION. Time is a countdown in
ticks; a thread that can run does so before the next tick, so the second that stop sleeps
is shorter than a tick, and `wait` may go on after it. Whether the signal of
`cg_thread_stop` ends a wait is left open: SIGQUIT does on Linux, and 0, which OS X and
iOS send, does not (`util/cthread.c:466-470`). `Interval` takes the wait modulo the
range of `usleep`. Ports are tried upwards from the last one; other programs take ports
when the device has let go of its own.

### HttpServer

The list of client threads, the accepting thread, the client threads and the loop of
`cg_threadlist_stop`. A thread that has left the list is its own successor
(`cg_list_remove` links it to itself), so the loop meets it again until it has freed
itself, which is a fault. A handler modelled in detail is the GET of the description, which
rewrites `URLBase` in the shared tree before printing it, under the device's mutex.

A request may have a body, which comes in pieces: `rx` is what has been read, what the client
has still to send and the tries that have been counted. A client may stall, so that a read
times out with -1, or hang up, so that every further read returns 0 at once. The -1 is added to
the count, which is the place in the buffer too: with nothing read yet the next piece is
written before the buffer, a `fault`. Tries are counted only while the total is not positive,
so a client that sends a part and hangs up keeps its thread for ever; `ConnectionsEnd`
excepts exactly this thread (`Stuck`), and `http_body` shows it.

### ConnectionPool and ConnectionCache

`ConnectionPool` is the promise: at most `Size` connections are kept; a connection is
taken by one user at a time, for the host it was opened to; it is kept again or closed. A
connection is lost, still open, only where there is no pool or where there is no memory for
the node of a new one: `cg_http_persistent_connection_put` then returns FALSE, which
`cg_http_request_post_main` does not look at (`http/chttp_request.c:735`). `PutFails` is that
step, which may have evicted a connection before, and `Forget` is what the pool makes of it.
`ConnectionCache` is
`http/chttp_persistent_connection.c` with the steps of `cg_http_request_post_main` (curl
build) that use it: `list` is the list of nodes in the order of their last use, `conn` and
`host` what the nodes hold, `pc` the step of each user between lock, look-up, expiry,
exchange, put with eviction, and unlock. `initmutex`, `init`, `clear` and the deletion
of the mutex are the steps of the application that creates and deletes control points;
a use of the freed cache or mutex is a `fault`. `PoolSpec` is the refinement, with the
mapping in `ConnectionCache` (`Pool == INSTANCE ConnectionPool WITH ...`): what is kept is
the list less the connection that is being looked up, expired or evicted.

### Control

Composes `ConnectionCache` (its users are the callers and the notifying service) with
`cg_upnp_action_post`, `cg_upnp_statevariable_post` and the device's side,
`cg_upnp_device_controlrequestrecieved`, `cg_upnp_action_performlistner` and
`cg_upnp_statevariable_performlistner`. `argIn` and `argOut` are the action's one argument
list, `value` is the variable, `told` what the subscriber was last told. A *job* is one
request at the device; its steps share the argument list and the variable with the other
jobs, since nothing on the device locks them. A scenario (`plan`) says what the callers
call, whether the device lives in the process of its control point (`together`: then its
NOTIFY needs the mutex its caller holds, until curl gives the exchange up), which hosts
want M-POST, how often the variable is set and the control point deleted.
`Eventing` leaves this mutex out; where it matters is the scenario `together`, and it is
here.

### Description and Discovery

`Description` has the operators over the tree of a description: what
`cg_upnp_device_announcefrom`, `cg_upnp_device_byebyefrom` and the two recursions that answer
a search send, in order, and what the look-ups by UDN, by type with and without version and
by the three URLs of a service find, including that control URLs are matched as substrings.
The walks that send are recursive functions over the paths of the tree. A look-up is what it
returns: the first place that fits in the order in which the code walks (`Before`: a device
before what is below it, and all of that before the next sibling); of the roots of a control
point, the trees one after the other. `IsTree` says what the parser builds
(`cg_upnp_device_initdevicelist`): a finite tree whose embedded devices are numbered without a
gap.

`Discovery` puts devices with such trees on a network. `air` has every SSDP message ever
sent: each may be heard at any later time, any number of times, or never, which is loss,
repetition, delay and reordering at once. A device starts, stops with a byebye, crashes
without one, and takes the first port that is free; `Crash` puts the port back to the first,
since the next process begins there. A handler of the control point is one step: its locks
and threads are the matter of `ControlPoint`, what it does to the tree is the matter here. A
fetch goes to whoever owns the port now, or fails; a refetch may install the new description,
fail to parse it or leave the old one; the services below are then fetched again and the
device is deleted if one of them cannot be had.

`misled` marks the steps after which the control point has been told or keeps something wrong
through no message that could have helped: an answer to a search that names an embedded
device and is not filtered as announcements are (`upnp/ccontrolpoint.c:947`), a description or
service that another device serves at the port and whose UDN nobody compares
(`upnp/ccontrolpoint.c:651`), and a refetch that fails after the new LOCATION has been stored
(`upnp/cdevice.c:403`). The model ends there, and the properties say that nothing else makes
the cache wrong. Embedded devices keep the port they were loaded with in their own messages
(`upnp/cdevice.c:926`); `AnswersMatch` therefore compares NT and USN, and the LOCATION of the
root's messages only.

## Runs and bounds

| Run | Instance | Shows |
|---|---|---|
| `cp_race` | 2 receive threads, 2 names announced at one location, whose description has the first; max-age or none; 2 cells, clock to 2, an application that uses and subscribes, listener present or not | lock discipline, names that are unique but for foreign descriptions, a cache that is stable while the application holds the lock |
| `cp_loops` | 1 receive thread, 2 devices with 2 locations each, which may lose their names, 2 interfaces of which one may go, `ipchanged` and stop | the list is never corrupted and pointers under the lock are live while three loops walk the list and give up the lock; what is left after stop was in flight |
| `cp_live` | the libcurl build, 2 devices: one keeps announcing itself, the other either has two locations or sees the control point stop | locks are released, stop returns, lapsed devices go unless they are misnamed |
| `cp_dangling` | 1 device, announce and byebye | **violated**: a device freed by one thread is used by another |
| `cp_lapse` | 1 device, no further announcements | **violated**: a lost wake-up leaves an expired device for ever |
| `eventing` | 1 control point, 1 setter, 1 worker, 2 handlers, 2 SUBSCRIBEs, 2 values, in three builds: refused connections (`Refusing`), leases that lapse (`Lapsing`), curl with UNSUBSCRIBE and a SEQ that wraps earlier at the control point (`Timeouts`) | counters agree until the control point wraps, a gap is seen only at the wrap, events in order, the copy converges, UNSUBSCRIBE is final, both locks come free |
| `event_deadlock` | socket build, UNSUBSCRIBE | **violated**: device and control point wait for each other |
| `device` | 2 starts, leases 2 and 4, 2 ports, 1 search key, filter interval 2, `usleep` wraps at 3 | announced within the lease, LOCATION served, spacing of answers, a stopped device fades, calls return |
| `http_server` | 2 connections with up to 2 and 1 requests of 3 kinds, one with a body of 2 pieces, 2 tries, clients that stall and hang up, stop at any time | answers in order, whole bodies, own address, exact list, threads end, stop returns |
| `http_body` | the same | **violated**: a body that is cut short is read for ever |
| `remote_control` | 2 callers and a notifier, a cache of 2 connections, 3 hosts, 7 scenarios, one of them (`scarce`) with a node that gets no memory | each call has its own result, the subscriber the current value, the cache implements the pool, no connection is lost but a new one without a cache or without memory, deletion is safe outside requests, calls and sets return |
| `discovery` | 2 devices of one host, one with 2 embedded devices, 2 ports, 3 starts, searches for all and for root devices | messages agree, the cache is exact, announced devices and services are reached, gone devices fade as long as another stays, staying ones are found |

The bounds and why they are enough to show what they are for:

* Two threads that do the same thing are needed for a race, and two are enough for the
  hazards listed: each of them is about two parties. Two cells allow a cell to be freed
  and reused. The clock (`MaxTime`) allows one lease to run out and another to be granted.
* `MaxStrays` bounds the misnamed entries of the cache: 2 is every cell of `cp_race` and
  `cp_loops`; with the one of `cp_live` the cells cannot all be lost to them, and
  `BeaconHasRoom` keeps a cell for the device that announces itself, because the bound on the
  heap is the model's and not the code's. `moving` in `MCControlPointLive` is fixed from the
  start: a device that moves, or a stop; both together are too many states.
* `Carries` is one name at the location of two (`OneName`), where each fetch for the second
  name brings the first again, or a location for each name and a second one to move to
  (`OwnNames`).
* `MaxSid` 2 is a subscription and the one that replaces it; `MaxValue` 2 is an event that
  can be overtaken. `maxSeq` and `maxCount` stand for 2147483647 and 4294967295: what matters
  is that they are reached and which is smaller. Two builds of `eventing` take them equal,
  the third takes 1 and 3, and `GapOnlyAtWrap` says what follows from that.
* `MaxStarts` 2 gives an old and a new thread on one `CgThread`. The leases are the
  smallest that make the interval 0 and 1. `MaxPort` 2 is a port that is taken and one
  that is not; that some port is free is assumed, because the loop of
  `cg_upnp_device_start` has no other end.
* `Offers` of two requests allow a request after one that was refused and after one that was
  answered; a body of two pieces can stall before, between and after its pieces; `MaxTries`
  2 stands for 20.
* `discovery`: with 2 ports each device can be on the other's; 3 starts are a device that
  comes back and one that takes its place; `MaxCached` 3 is one entry more than there are
  root devices and `MaxDepth` 2 one level more than the trees have, so that a wrong entry or
  a tree that grows would be seen.
* `Size` 2 stands for the five connections of the cache: with three hosts the third evicts,
  and the order of the list decides which. `Period` 1 stands for its 60 seconds.

Symmetry is used in `cp_race` and `cp_loops` only, where no liveness is checked. Deadlock
is not checked in any run: after stop, after the last permitted value or start, or after a
fault the system stops.

### Findings

* `cp_dangling`: `ccontrolpoint.c:778` and `ccontrolpoint_event.c:154-158` use pointers
  across an unlock, which `ccontrolpoint.h:190-193` forbids.
* `cp_lapse`: `ccontrolpoint_event.c:184` waits without looking again.
* `event_deadlock`: `cservice_notify.c:43` holds the service's lock across the exchange.
* `http_body`: `chttp_packet.c:473` counts a try by the total read so far, so the loop that
  should get "tired of trying" (468) does not when a client hangs up within a body.
* `eventing`: `src/clinkc/include/cybergarage/upnp/event/csubscriber.h:92-93` and
  `upnp/event/csubscriber.c:108-109` say that a renewal "resets notify count (== event key)".
  The code does not (`csubscriber.c:114-122`), and it must not: the control point keeps its key
  over a renewal. `SeqAgreement` holds of what the code does, and is violated by its mutant
  `RenewApplyRestarts`, which does what the comments say.

More faults are in the models, and no run asks for them because no line of the repository
promises the contrary:

* a renewal uses a subscriber it found without the lock (`Eventing`, `UseAfterFree`);
* the publisher counts on where the control point wraps SEQ to 0
  (`ccontrolpoint_http_server.c:90`), so the event after the wrap is taken for a gap and the
  control point subscribes again (`Eventing`, `GapOnlyAtWrap`);
* the receive thread of a stopped SSDP server uses its freed `CgThread` when its answers take
  longer than a second (`Device`, `RxUseAfterFree`);
* the loop of `cg_threadlist_stop` meets threads that free themselves (`HttpServer`);
* a read that fails before any of a body has come moves the place to write to before the
  buffer (`HttpServer`);
* a thread that posts while the last control point is deleted uses a freed mutex
  (`ConnectionCache`; `SafeDelete` says that nothing else does);
* a connection whose node gets no memory stays open and is forgotten, though there is a cache
  (`http/chttp_persistent_connection.c:286`, `ConnectionCache`, `PutFails`);
* a device that is announced at the location of another, or that has lost its name, is cached
  once more at each announcement and no expiry removes it (`ControlPoint`, `Misnamed`);
* in the socket build a request of the control point to a peer that accepts and stays silent
  never ends, and keeps the control point's lock (`http/chttp_request.c:323`; `ControlPoint`,
  `Requesting`);
* the three kinds of step that `Misled` names (`Discovery`).

## Fairness

* Threads keep running: weak fairness of each thread's step. Where a step waits for a
  mutex that others take again and again it is strong fairness (`ControlPoint`, the
  handlers of `Eventing`, the client threads of `HttpServer`): pthread mutexes do not
  promise it in so many words, and the schedulers the stack runs on give it in practice.
* `Eventing` asks less: of the notifiers, of the workers and of the handlers, that some
  one of them moves.
* Time passes (`Tick`), and a read or a wait ends with its timeout.
* An HTTP request that the control point makes with its lock held ends, with whatever outcome,
  in the libcurl build (`Curl`): `cg_http_request_post_main` sets curl's connect and transfer
  timeouts there. In the socket build, the default, it sets the timeout before there is a
  socket (`http/chttp_request.c:323`, `net/csocket.c:706-708`), and nothing ends a request
  to a silent peer. `Fairness` therefore takes no step that ends a request (`Requesting`) for
  granted unless `Curl`, and `LockReleased`, `StopReturns` and `LapsedRemoved` are claimed of
  the libcurl build alone: `cp_live` has `Curl = TRUE`.
* Nothing is assumed of the application, of the network, of other programs or of the
  outcome of a request, with one exception: `BeaconSpec` of `cp_live` lets one device
  announce itself again and again and its description be fetched, as the standard
  demands of a device. `cp_lapse` shows what happens without.
* `Control`: each user of the connection cache gets its mutex in the end (strong), an
  exchange ends with an answer or by curl's time limit, what has been posted is delivered
  (`ServiceStep`). Nobody has to begin a call, and no job of a device has to go on: that a
  call returns does not rest on the device.
* In `Eventing` a request is given up, in the end, only in the curl build (`build.curl`).
* `Discovery`: a lease that is not renewed runs out and is noticed (weak) only while some device
  stays up, whose announcements wake the expiration thread (`cp_live`); when nobody is left to
  announce anything the thread may have missed its wake-up and sleep for ever (`cp_lapse`), and
  `GoneFades` says nothing of that case. Of a device that stays some
  true announcement is heard and its requests are answered again and again (strong,
  `HearTrue`): devices repeat their announcements, and no network loses them all. Nothing is
  assumed of byebyes, of false announcements or of failed fetches.

## Proofs

`ControlPoint_proofs` proves, for every set of receive threads, devices, packets, interfaces
and cells and every bound on the clock, from the named assumptions of `ControlPoint`
(`ThreadAssumption`, `NoneAssumption`, `DataAssumption`):

| Theorem | Property |
|---|---|
| `TypeCorrect` | `TypeOK` (types; in no run) |
| `LocksCorrect` | `LockDiscipline` |
| `PointersCorrect` | `LockedPointersLive` |
| `ListCorrect` | `ListIntact` |
| `UdnsUnique` | `UniqueUdn` |
| `StopLeavesFew` | `StoppedHoldsFew` |
| `LockedStable` | `LockedCacheIsStable` |

The argument has two inductions. None of the first three is inductive alone: the loops
stay in the list because the pointers they hold are live, and those are live because
nobody else holds the lock. They are proved together as
`Base == TypeOK /\ LockDiscipline /\ LockedPointersLive /\ PacketKnown`, where
`PacketKnown` says that a thread that adds a device has its packet and name. There is one
lemma `Base<Action>` for each action, over lemmas about the list (`PositionFact`,
`NextFact`, `UnlinkFact`, `DeleteFact`). The second induction, on top of `Base`, is
`Names == ListIntact /\ UniqueUdn /\ FetchFresh /\ RefetchKnown`: names that are not foreign
stay unique because the thread that fetches a description holds the lock, so the name it found
absent is still absent (`FetchFresh`) when it inserts, and the device that it fetches again still
has the name it was found by (`RefetchKnown`). A third, `Halted`, says that nobody takes a
packet once stop has begun (`Deaf`) and counts the receive threads that may still insert
(`Inserting`, of which there are finitely many): each insertion takes one of them away. `LockedStable` needs `Base`
only: while the application is in its locked section `LockDiscipline` leaves no other
thread in one. What the runs show for one or two devices is thus true of any number.

`ConnectionCache_proofs`, `ConnectionCache_refinement` and `Control_proofs` hold for every set of
users, hosts and connections and every size of the cache (`CacheAssumption`), and every
set of scenarios (`ControlAssumption`):

| Theorem | States |
|---|---|
| `CacheInvariant`, `CacheTypeCorrect` | the inductive invariant `CInv`, `CacheTypeOK` |
| `HandlesCorrect` | `HandlesOwned`: no connection in two places |
| `DeleteCorrect` | `SafeDelete` |
| `LeakFree` | `NoLeak` |
| `CacheImplementsPool` | `CacheSpec => PoolSpec` |
| `ControlUsesCache` | `Spec => CacheSpec`: `Control` uses the cache by its own steps only |
| `ControlUsesPool`, `ControlHandles`, `ControlDelete`, `ControlLeakFree` | the four above, for `Control` |
| `SubscriberTold` | `ToldCurrent` |
| `ControlTypeCorrect` | `TypeOK` of `Control` |
| `CallsGetOwnResult` | `OwnResult` |

`CInv` says who can be at which step while who holds the mutex (`Locks`, `Phases`), which
connection each step has in its hands (`Hands`, `Quiet`) and that the list has no
connection twice and is ordered by last use (`Ordered`): eviction of the first element is
right only because of the last. The refinement goes action by action: a step of the
cache is a step of the pool or a stutter. `Control` repeats each step of the cache as a
conjunct, so `ControlUsesCache` needs no invariant, and all theorems of the cache come
for free. `SubscriberTold` rests on the invariant `Pending`: whoever has set the variable
and has not been told of it is still in `wants` or holds the service's lock.

`CallsGetOwnResult` rests on `OwnInv`. As long as no request has been given up while its job
goes on and no control point has been deleted (`Undisturbed`), the mutex of the cache keeps all
but one job waiting (`Serial`), so that the arguments and the status in the action, which the
jobs share without a lock, are those of the one that is served (`Served`), and so are the answer
on its way (`Answers`, `Replied`) and what the caller has returned with (`Returned`).

`Eventing_proofs` holds for any control points, setters, workers, handlers and builds and any
bounds (`ThreadAssumption`, `BoundsAssumption`, `BuildAssumption`):

| Theorem | States |
|---|---|
| `EventTypes` | `TypeOK` |
| `UnsubscribeFinal` | `UnsubscribedIsQuiet` |
| `CountsAgree` | `SeqAgreement` |
| `GapsOnlyAtWrap` | `GapOnlyAtWrap` |
| `HeardInOrder` | `ListenerInOrder` |

The invariant `EInv` follows a request through its hands: a SID is given out once and belongs
to one control point wherever it has got to (`Known`, `Starting`); a caller holds its control
point's lock and is served by one worker (`Calling`); the notifier holds the service's lock and
its target is in the list (`Notifying`); a handler whose answer nobody waits for has an event of
a subscriber that has been removed (`Stale`); and an UNSUBSCRIBE that has found its subscriber
leaves no event of it anywhere (`Finished`). `SInv`, on top of it, is said of every
build, wherever its two ends wrap. `Counting` is the agreement of the counters
with the moments it does not hold explained: between the control point's check of SEQ and the
publisher's increment the key is the wrapped count, and afterwards the key may be 0 where the
publisher counts on beyond the wrap. `Arriving` is what is needed of the events under way:
there is one of a subscription, it is the first while the subscription is being granted, and
until it has been checked it is in step even if the publisher has given it up, since the key
moves only with an event of the same subscription. A gap is then the wrap, and where both ends
wrap alike there is none. `Hearing` is the order of the values: in the socket build the handler
the publisher waits for is the only one that has an event, and its value is not older than the
one heard last.

`Device_proofs` holds for any number of starts, leases, ports, searches and filter table
(`DeviceAssumption`):

| Theorem | States |
|---|---|
| `DeviceTypes` | `TypeOK` |
| `LeaseKept` | `AnnouncedInLease` |
| `LocationCorrect` | `LocationServed` |
| `AnswersSpaced` | `AnswerSpacing` |

The invariant `Heard` ties what a control point remembers to the threads that will announce
next. While the device runs the advertiser of the last start is there and its wait, which is
less than the lease even where `usleep` wraps (`IntervalFact`), ends before the lease that
is left (`Leased`). Advertisers of earlier starts may announce more often, but nothing else:
the flag they all read is down from the stop until the server has its port and has told it
(`Quiet`, `Located`), and none is there of a start to come (`Fresh`).

`HttpServer_proofs` holds for any connections, requests, offers and number of tries
(`RequestsAssumption`):

| Theorem | States |
|---|---|
| `ServerTypes` | `TypeOK` |
| `ListCorrect` | `ListExact` |
| `AnswersInOrder` | `AnsweredInOrder` |
| `OwnAddress` | `OwnBase` |
| `BodiesWhole` | `WholeBody` |

`Served` is the part that all threads share: the list (`Listing`), why a thread is not in it
(`Tracked`), and that a thread that reads has a request and tries left (`Reading`). `Owned`, on
top of it, is said of each connection by itself: its answers are counted against its requests
(`Counted`) and are those of their requests (`Told`); the address in the tree is its own while
it prints, since it holds the device's mutex from the write to the print, and what has come
of a body and what is to come are never more than was announced (`Turn`).

`Discovery_proofs` holds for any devices with descriptions of any depth and shape, any ports
and bounds, and any order, loss and repetition of messages:

| Theorem | States |
|---|---|
| `CacheStaysExact` | `CacheIsExact` |
| `AnnouncementsReach` | `AnnouncedReached` |
| `AnswersAlwaysMatch` | `AnswersMatch` |

It assumes of the descriptions what the code does not enforce and would be lost without: they
are trees of devices with a name, a type, services and a port (`TreeAssumption`), no name is used
twice (`UdnAssumption`), and no two services of a device are described or subscribed to at
the same URL (`UrlAssumption`; of control URLs the property itself says what it needs).
`NothingAssumption` says that NULL is not a place. A run of `Discovery` checks all four of its
own trees.

The invariant `DInv` is small: the devices that are up and their ports have their types, an
announcement of a root device has the name of one (`RootsNamed`), and while the control
point has not been misled its cache is `Exact`, which is `CacheIsExact` with the device of each
entry named. The work is in the operators. Each way a handler may end, adding, moving,
refetching, deleting and having its services fetched again, gives an exact cache or a
misled control point (`AddedExact`, `ReplacedExact`, `RefreshedExact`, `DeletedExact`). `Before` is an
order of the places of a tree (`BeforeTransitive` and the lemmas around it), so a look-up by type
finds a place that fits whenever there is one, the first, and a look-up by a name or a URL that
only one place has finds that place. For the messages there is an induction over trees
from the leaves up (`TreeInduction`), itself from the least number principle: no induction scheme
of the library can be used, as each takes an operator. With it, a recursive walk exists and
is made of its devices' parts (`WalkExists`, `WalkType`), and an operator on sequences that respects
concatenation can be moved inside a walk (`WalkMap`). Reading NT and USN off the messages is
such an operator, and so is keeping what was asked for; the three walks then say the same because
their parts say the same at each device (`WalksAgree`).

So every invariant and every action property of the runs is a theorem. Only model-checked is
liveness, which is beyond the proof system: `LockReleased`, `StopReturns` and `LapsedRemoved` of
`cp_live`, `Converges`, `NotifierReturns` and `ControlPointFree` of `eventing`,
`StoppedFadesAway` and `CallsReturn` of `device`, `ConnectionsEnd` and `StopReturns` of
`http_server`, `CallsReturn` of `remote_control`, `GoneFades` and `StayingFound` of `discovery`.

## Not modelled

* A second start of a control point whose old threads are still about; several evented
  variables of a service; the search of a control point (it sends datagrams and keeps
  nothing); `cg_upnp_controlpoint_subscribeall`, whose loop over embedded devices steps from the
  parent (`ccontrolpoint_event.c:368`).
* Validation of SUBSCRIBE headers and of control requests; NMPR mode (the description
  without `URLBase`); several interfaces of a device; chunked bodies and clients that do not
  read their answer.
* Parsing and printing of XML, SOAP, HTTP and SSDP messages, URIs, strings, files,
  sockets and logging: sequential code without a protocol; where a failure of it matters
  (a description that does not parse, a connection that is refused, a body that is cut short)
  the models have the failure. Most of the lines of the repository are of this kind, or are
  headers, of which the iOS build has a second copy.
* The AV library: its services are constant documents and action listeners that read a tree
  only the application changes, or call back the application. How an action gets to its
  listener and its result back, which is where the threads meet, is in `Control`.
* The iOS sample, whose controllers show the lists of the stack.
* Windows CE, ITRON, T-Engine and BTRON variants of threads and locks.

## Plan

Done, in this order: `ControlPoint`, its proofs, `Eventing`, `Device`, `HttpServer`,
`ConnectionCache` with `ConnectionPool`, `Control`, their proofs, `Description` and `Discovery`,
the proofs of `Device`, `HttpServer`, `Eventing`, the rest of `Control`, and `Discovery`.

What would add most next:

1. An abstract specification of a control point (a set of names with leases) that both
   `ControlPoint` and `Discovery` implement, which would tie the one's threads to the other's
   trees; an abstract channel (a sequence of values of which a prefix is delivered) for
   `Eventing`.
2. `ContentDirectory` of the AV library: Browse with its paging, as an operator checked
   against a reference definition, over a tree that the application changes meanwhile.
