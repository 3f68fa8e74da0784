----------------------------- MODULE Discovery ------------------------------
(***************************************************************************)
(* Devices with embedded devices on a network, and what one control point  *)
(* caches of them: SSDP messages that are lost, repeated, late and out of  *)
(* order, descriptions fetched from wherever a message says, and requests  *)
(* that are sent to what was cached.                                       *)
(*                                                                         *)
(* The devices share a host: one that starts takes the first free port from*)
(* its own, which another one may have had before.  A handler of the       *)
(* control point is one step; its locks and threads are in ControlPoint.   *)
(***************************************************************************)
EXTENDS Description, FiniteSets

CONSTANTS
    Devices,    \* the (root) devices
    Tree,       \* Tree[d]: the description of d, as its process loads it
    Searches,   \* what an application may search for
    FirstPort, MaxPort,
    MaxStarts,  \* bound: how often devices start, all together
    MaxCached,  \* bound: entries in the cache
    MaxDepth    \* bound: depth of a cached tree

ASSUME NothingAssumption == Nothing \notin Seq(Nat) \cup (Nat \X Seq(Nat)) \cup (Seq(Nat) \X Nat)

\* Each device of a description has its name, its type, its services and its port.
ASSUME TreeAssumption ==
    \A d \in Devices :
        /\ IsTree(Tree[d])
        /\ \A p \in DOMAIN Tree[d] :
              LET n == Tree[d][p]
              IN /\ n = [udn |-> n.udn, type |-> n.type, services |-> n.services, port |-> n.port]
                 /\ n.services \in Seq(ToSet(n.services))

\* No two devices have the same name, wherever they are embedded.
ASSUME UdnAssumption ==
    \A d, e \in Devices : \A p \in DOMAIN Tree[d], q \in DOMAIN Tree[e] :
        Tree[d][p].udn = Tree[e][q].udn => d = e /\ p = q

\* A control URL is a sequence; no two services of a description are described or
\* subscribed to at the same URL.
ASSUME UrlAssumption ==
    \A d \in Devices : \A p, q \in DOMAIN Tree[d] :
        \A k \in DOMAIN Tree[d][p].services, j \in DOMAIN Tree[d][q].services :
            LET s == Tree[d][p].services[k]
                o == Tree[d][q].services[j]
            IN /\ s.control \in Seq(ToSet(s.control))
               /\ s.scpd = o.scpd \/ s.event = o.event => p = q /\ k = j

VARIABLES
    up,      \* the devices that are running
    port,    \* port[d]: the root device's httpPort
    starts,  \* how many starts there have been
    air,     \* every SSDP message ever sent: each may be heard, any number of times
    search,  \* what the control point's application searches for
    cache,   \* deviceList: trees with the last packet of each device, and URLBase
    misled   \* has the control point been told or kept something wrong? (see Misled)

network == <<up, port, starts>>
vars == <<network, air, search, cache, misled>>

Ports == FirstPort .. MaxPort

\* The description as d walks it: sethttpport reaches the root device only.
At(d) == [Tree[d] EXCEPT ![<<>>].port = port[d]]

Owners(p) == {d \in up : port[d] = p}

Udns(t) == {t[p].udn : p \in DOMAIN t}

\* What a control point looks at in a message: NTS, whether NT is the root device's, the
\* UDN in USN, and LOCATION.
Sent(nts, messages) ==
    {[nts |-> nts, root |-> m.nt = RootDevice, udn |-> m.usn[1], port |-> m.port] :
        m \in ToSet(messages)}

-----------------------------------------------------------------------------
(* The devices.                                                            *)

\* The ports d tries before it finds a free one are taken by others.
Free(d, p) == p >= port[d] /\ Owners(p) = {} /\ \A q \in port[d] .. p - 1 : Owners(q) # {}

\* Mutant of Start: the device is announced before its server has found a port.
StartAnnouncesFirst(d) ==
    /\ d \notin up /\ starts < MaxStarts
    /\ \E p \in Ports :
          /\ Free(d, p)
          /\ port' = [port EXCEPT ![d] = p]
          /\ air' = air \cup Sent("byebye", Withdrawn(At(d))) \cup Sent("alive", Announced(At(d)))
    /\ up' = up \cup {d}
    /\ starts' = starts + 1
    /\ UNCHANGED <<search, cache, misled>>

\* cg_upnp_device_start stops the device first, with a byebye.
Start(d) ==
    /\ d \notin up /\ starts < MaxStarts
    /\ \E p \in Ports :
          /\ Free(d, p)
          /\ port' = [port EXCEPT ![d] = p]
          /\ air' = air \cup Sent("byebye", Withdrawn(At(d)))
                        \cup Sent("alive", Announced([At(d) EXCEPT ![<<>>].port = p]))
    /\ up' = up \cup {d}
    /\ starts' = starts + 1
    /\ UNCHANGED <<search, cache, misled>>

Stop(d) ==
    /\ d \in up
    /\ up' = up \ {d}
    /\ air' = air \cup Sent("byebye", Withdrawn(At(d)))
    /\ UNCHANGED <<port, starts, search, cache, misled>>

\* The process ends; the next one begins at the first port again.
Crash(d) ==
    /\ d \in up
    /\ up' = up \ {d}
    /\ port' = [port EXCEPT ![d] = FirstPort]
    /\ UNCHANGED <<starts, air, search, cache, misled>>

\* A search reaches d.
AnswerSearch(d) ==
    /\ d \in up
    /\ air' = air \cup Sent("answer", Answers(At(d), search))
    /\ UNCHANGED <<network, search, cache, misled>>

-----------------------------------------------------------------------------
(* The control point's trees.  A cached device has the packet it was last   *)
(* heard of with; an entry the URLBase of its root's description.          *)

Packet(m) == [udn |-> m.udn, port |-> m.port]

Forest == [i \in DOMAIN cache |-> cache[i].tree]

\* The description that a server sends, parsed: embedded devices have no packet.
Parsed(d) == [p \in DOMAIN Tree[d] |->
    [udn |-> Tree[d][p].udn, type |-> Tree[d][p].type, services |-> Tree[d][p].services,
     packet |-> Nothing]]

\* A device whose new description could not be parsed (cg_upnp_device_clear).
Cleared == [p \in {<<>>} |->
    [udn |-> Nothing, type |-> Nothing, services |-> <<>>, packet |-> Nothing]]

WithPacket(t, m) == [t EXCEPT ![<<>>].packet = Packet(m)]

\* The part of t at p and below.
Part(t, p) ==
    LET below == {q \in DOMAIN t : IsPrefix(p, q)}
    IN [r \in {SubSeq(q, Len(p) + 1, Len(q)) : q \in below} |-> t[p \o r]]

\* t with u in place of what is at p and below.
Graft(t, p, u) ==
    [q \in {q \in DOMAIN t : ~IsPrefix(p, q)} \cup {p \o r : r \in DOMAIN u} |->
        IF IsPrefix(p, q) THEN u[SubSeq(q, Len(p) + 1, Len(q))] ELSE t[q]]

\* t without what is at p and below; its next siblings move up in the list.
Pruned(t, p) ==
    LET n == Len(p)
        kept == {q \in DOMAIN t : ~IsPrefix(p, q)}
        Shifted(q) == IF IsPrefix(Front(p), q) /\ Len(q) >= n /\ q[n] > p[n]
                      THEN [q EXCEPT ![n] = @ - 1] ELSE q
    IN [r \in {Shifted(q) : q \in kept} |-> t[CHOOSE q \in kept : Shifted(q) = r]]

\* cg_upnp_device_delete of the device at a place of the forest
Deleted(c, at) ==
    IF at[2] = <<>>
    THEN [i \in 1 .. Len(c) - 1 |-> IF i < at[1] THEN c[i] ELSE c[i + 1]]
    ELSE [c EXCEPT ![at[1]].tree = Pruned(@, at[2])]

\* Where the relative URLs of an entry lead: URLBase, else the root's LOCATION.
Base(entry) == IF entry.base # Nothing THEN entry.base ELSE entry.tree[<<>>].packet.port

\* Who has every service description of t when asked at port p.
HaveServices(t, p) ==
    {d \in Owners(p) : \A q \in DOMAIN t : \A i \in DOMAIN t[q].services :
        ServiceByScpdUrl(Tree[d], t[q].services[i].scpd) # Nothing}

NoServices(t) == \A q \in DOMAIN t : t[q].services = <<>>

-----------------------------------------------------------------------------
(* Outcomes of an announcement: the cache and whether it misleads.         *)

Outcome(c, wrong) == [cache |-> c, wrong |-> wrong]

IsOf(m, d) == m.udn \in Udns(Tree[d])

\* Mutant of Created: the description is not fetched from the location.
CreatedUnfetched(m) ==
    {Outcome(Append(cache, [tree |-> WithPacket(Parsed(d), m), base |-> m.port]), FALSE) :
        d \in {d \in Devices : IsOf(m, d)}}

\* A new device: description and services must all be fetched.
Created(m) ==
    {Outcome(Append(cache, [tree |-> WithPacket(Parsed(d), m), base |-> m.port]), ~IsOf(m, d)) :
        d \in Owners(m.port)}

NotCreated == Outcome(cache, FALSE)

\* Mutant of Moved: a packet is stored whatever its location.
MovedNever(node, m) == FALSE

\* Has the location changed?  The packet of an embedded device is empty.
Moved(node, m) == node.packet = Nothing \/ node.packet.port # m.port

\* The cache with u at a place, and its URLBase if the place is a root.
Replaced(at, u, base) ==
    [cache EXCEPT ![at[1]] =
        [tree |-> Graft(@.tree, at[2], u), base |-> IF at[2] = <<>> THEN base ELSE @.base]]

\* After a refetch, successful or not, the services below are fetched again; if one
\* of them cannot be had, the device is deleted.
Refreshed(at, m, u, base, wrong) ==
    LET c == Replaced(at, WithPacket(u, m), base)
    IN IF NoServices(u) THEN {Outcome(c, wrong)}
       ELSE {Outcome(c, wrong \/ ~IsOf(m, d)) : d \in HaveServices(u, Base(c[at[1]]))}
            \cup {Outcome(Deleted(c, at), FALSE)}

\* cg_upnp_device_updatefromssdppacket: if the device has moved, the new description is
\* there, or is broken, or the request fails and the old one stays.
Updated(at, m) ==
    LET entry == cache[at[1]]
        old == Part(entry.tree, at[2])
    IN IF ~Moved(old[<<>>], m)
       THEN {Outcome(Replaced(at, WithPacket(old, m), entry.base), FALSE)}
       ELSE (UNION {Refreshed(at, m, Parsed(d), m.port, ~IsOf(m, d))
                    \cup Refreshed(at, m, Cleared, Nothing, TRUE) : d \in Owners(m.port)})
            \cup Refreshed(at, m, old, entry.base, TRUE)

\* cg_upnp_controlpoint_adddevicebyssdppacket
Added(m) ==
    LET at == ByUdn(Forest, m.udn)
    IN IF at = Nothing THEN Created(m) \cup {NotCreated} ELSE Updated(at, m)

\* The control point goes wrong when it follows an answer that names an embedded
\* device, when the description or the services at a location are another device's,
\* and when an old or a broken description stays under a new location (Updated).
Misled(m, outcome) ==
    misled \/ outcome.wrong
           \/ (m.nts = "answer" /\ \A d \in Devices : Tree[d][<<>>].udn # m.udn)

Within(c) == Len(c) <= MaxCached /\ \A i \in DOMAIN c : \A p \in DOMAIN c[i].tree : Len(p) <= MaxDepth

Take(m, outcome) ==
    /\ Within(outcome.cache)
    /\ cache' = outcome.cache
    /\ misled' = Misled(m, outcome)
    /\ UNCHANGED <<network, air, search>>

-----------------------------------------------------------------------------
(* The control point.                                                      *)

\* Notifications count when they are for the root device.
HearAlive(m) ==
    /\ m \in air /\ m.nts = "alive" /\ m.root
    /\ \E outcome \in Added(m) : Take(m, outcome)

\* Search responses are not filtered.
HearAnswer(m) ==
    /\ m \in air /\ m.nts = "answer"
    /\ \E outcome \in Added(m) : Take(m, outcome)

\* cg_upnp_controlpoint_removedevicebyssdppacket
RemoveNamed(udn) ==
    LET at == ByUdn(Forest, udn)
    IN cache' = IF at = Nothing THEN cache ELSE Deleted(cache, at)

HearBye(m) ==
    /\ m \in air /\ m.nts = "byebye" /\ m.root
    /\ RemoveNamed(m.udn)
    /\ UNCHANGED <<network, air, search, misled>>

\* A lease has run out: the expiration thread removes by the name in the packet.
Expire(udn) ==
    /\ \E i \in DOMAIN cache : cache[i].tree[<<>>].packet.udn = udn
    /\ RemoveNamed(udn)
    /\ UNCHANGED <<network, air, search, misled>>

-----------------------------------------------------------------------------
Init ==
    /\ up = {} /\ port = [d \in Devices |-> FirstPort] /\ starts = 0
    /\ air = {}
    /\ search \in Searches
    /\ cache = <<>>
    /\ misled = FALSE

\* Once the control point is misled the model stops.
Next ==
    /\ ~misled
    /\ \/ \E d \in Devices : Start(d) \/ Stop(d) \/ Crash(d) \/ AnswerSearch(d)
       \/ \E m \in air : HearAlive(m) \/ HearAnswer(m) \/ HearBye(m)
       \/ \E d \in Devices : \E u \in Udns(Tree[d]) : Expire(u)

Spec == Init /\ [][Next]_vars

Root(d) == Tree[d][<<>>].udn

\* Entry i is d's, with the description at the location d has now.
Current(i, d, c) == c[i].tree[<<>>].udn = Root(d) /\ c[i].base = port[d]

\* An announcement of d that is true is heard, and its requests are answered.
HearTrue(d) ==
    /\ UNCHANGED <<network, air, search, misled>>
    /\ \E m \in {m \in air : m.udn = Root(d) /\ m.port = port[d]} :
        /\ d \in up
        /\ HearAlive(m)
        /\ \E i \in DOMAIN cache' : Current(i, d, cache')

\* A device that stays is heard of.  A lease that has run out is noticed as long as some
\* device stays: only what it announces is sure to wake the expiration thread, whose own
\* timeout may be gone (the runs of ControlPoint on LapsedRemoved).
FairSpec ==
    /\ Spec
    /\ \A d \in Devices :
          /\ WF_vars(~misled /\ up # {} /\ Expire(Root(d)))
          /\ SF_vars(~misled /\ HearTrue(d))

-----------------------------------------------------------------------------
(* Properties.                                                             *)

\* What messages say, whatever their location.
Said(messages) == [i \in DOMAIN messages |-> <<messages[i].nt, messages[i].usn>>]

\* A search is answered by those of the announcements that it asks for, each once and in
\* their order, with the root device's location, and a byebye takes back what was
\* announced: three walks of the tree in three files.
AnswersMatch ==
    \A d \in up :
        LET said == Said(Announced(At(d)))
        IN /\ Said(Withdrawn(At(d))) = said
           /\ \A st \in {All, RootDevice} \cup {s[1] : s \in ToSet(said)} :
                 LET answers == Answers(At(d), st)
                 IN /\ Said(answers) = Only(said, {s \in ToSet(said) : st = All \/ st = s[1]})
                    /\ \A m \in ToSet(answers) : m.port = port[d]

\* Unless it was misled in one of the listed ways, the control point has one entry for a
\* root device, under its own packet, with its whole description from the location in
\* that packet, whatever was lost, late, repeated, moved or restarted.
CacheIsExact ==
    ~misled =>
        \A i \in DOMAIN cache :
            LET root == cache[i].tree[<<>>]
            IN /\ \E d \in Devices :
                     cache[i].tree = [Parsed(d) EXCEPT ![<<>>].packet = root.packet]
               /\ root.packet = [udn |-> root.udn, port |-> cache[i].base]
               /\ \A j \in DOMAIN cache : cache[j].tree[<<>>].udn = root.udn => j = i

\* Whatever an announcement of a cached device names is found: the embedded or root
\* device by its UDN, a device or a service of that type and version by its type.  A
\* request to a service's URLs reaches that service at its device, provided no other
\* control URL contains the one asked for.
AnnouncedReached ==
    ~misled =>
        \A i \in DOMAIN cache, d \in Devices : cache[i].tree[<<>>].udn = Root(d) =>
            /\ \A p \in DOMAIN Tree[d] : ByUdn(Forest, Tree[d][p].udn) = <<i, p>>
            /\ \A m \in ToSet(Announced(At(d))) : m.nt.kind = "urn" =>
                  LET byType == ByExactType(Forest, m.nt.name)
                      anyVersion == ByType(Forest, m.nt.name.urn)
                      service == ServiceByExactType(cache[i].tree, m.nt.name)
                  IN \/ service # Nothing
                     \/ /\ Forest[byType[1]][byType[2]].type = m.nt.name
                        /\ anyVersion[1] <= byType[1] /\ byType[1] <= i
            /\ \A p \in DOMAIN Tree[d] : \A k \in DOMAIN Tree[d][p].services :
                  LET s == cache[i].tree[p].services[k]
                      Others == {Tree[d][q].services : q \in DOMAIN Tree[d]}
                  IN /\ ServiceByScpdUrl(Tree[d], s.scpd) = <<p, k>>
                     /\ ServiceByEventUrl(Tree[d], s.event) = <<p, k>>
                     /\ (\A o \in Others : \A j \in DOMAIN o :
                            o[j] # s => ~HasPart(o[j].control, s.control))
                        => ServiceByControlUrl(Tree[d], s.control) = <<p, k>>

Cached(d) == \E i \in DOMAIN cache : cache[i].tree[<<>>].udn = Root(d)

\* A device that is gone for good, with or without a byebye, is forgotten for good, provided
\* that the network does not fall silent.
GoneFades ==
    \A d \in Devices :
        ([]~misled /\ <>[](d \notin up /\ up # {})) => <>[]~Cached(d)

\* A device that stays is found, at the location it has, however often the control point
\* loses it to a late byebye, a lapsed lease or a failed request.
StayingFound ==
    \A d \in Devices :
        ([]~misled /\ <>[](d \in up)) => []<>(\E i \in DOMAIN cache : Current(i, d, cache))
=============================================================================
