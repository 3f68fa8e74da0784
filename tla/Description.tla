----------------------------- MODULE Description -----------------------------
(***************************************************************************)
(* A device description as the stack walks it: a tree of devices with their*)
(* services.  What is announced, taken back and answered over the tree     *)
(* (cdevice, cdevice_ssdp_server, cservice, cservice_ssdp_server), and what*)
(* the look-ups of a control point and of the device's HTTP server find.   *)
(*                                                                         *)
(* A tree is a function from paths to devices: <<>> is the root device and *)
(* p \o <<i>> the i-th embedded device of p.  A device has its udn, type,  *)
(* services and the port it believes to be served at.  Control points have *)
(* the same trees of what they fetched (Discovery).                        *)
(***************************************************************************)
EXTENDS SequencesExt

CONSTANT Nothing  \* NULL

\* A URN without its version, and the version.
Type(urn, version) == [urn |-> urn, version |-> version]

EmbeddedIn(t, p) == {q \in DOMAIN t : Len(q) = Len(p) + 1 /\ IsPrefix(p, q)}

\* The paths of the embedded devices of p, in their order.
Kids(t, p) == [i \in 1 .. Cardinality(EmbeddedIn(t, p)) |-> Append(p, i)]

\* What a parsed description is: finite, with a root, each embedded device in one that is
\* there too, and those of a device numbered from 1 without a gap.
IsTree(t) ==
    /\ IsFiniteSet(DOMAIN t) /\ DOMAIN t \subseteq Seq(Nat) /\ <<>> \in DOMAIN t
    /\ \A p \in DOMAIN t : p # <<>> => Front(p) \in DOMAIN t
    /\ \A p \in DOMAIN t : ToSet(Kids(t, p)) = EmbeddedIn(t, p)

\* The results for the entries of s, one after the other.
Each(s, result) == FlattenSeq([i \in DOMAIN s |-> result[s[i]]])

\* The entries of s that are in S, in their order.
Only(s, S) == FlattenSeq([i \in DOMAIN s |-> IF s[i] \in S THEN <<s[i]>> ELSE <<>>])

\* Does a walk of the tree come to p first, or is p = q?  It comes to a device before what is
\* below it, and to what is below a device before the device's next sibling.
Before(p, q) ==
    \/ IsPrefix(p, q)
    \/ \E n \in DOMAIN p \cap DOMAIN q : p[n] < q[n] /\ \A k \in 1 .. n - 1 : p[k] = q[k]

\* The first place of those found, or NULL.
FirstFound(found, Earlier(_, _)) ==
    IF found = {} THEN Nothing ELSE CHOOSE at \in found : \A other \in found : Earlier(at, other)

-----------------------------------------------------------------------------
(* Announcements.  A target is what NT and ST carry.  The LOCATION of what  *)
(* a device says of itself has the device's own port; that of its services *)
(* and of the answers to a search has the root device's.                   *)

All == [kind |-> "ssdp:all"]
RootDevice == [kind |-> "upnp:rootdevice"]
Uuid(udn) == [kind |-> "uuid", name |-> udn]
Urn(type) == [kind |-> "urn", name |-> type]

Message(udn, target, port) ==
    [nt |-> target, usn |-> IF target.kind = "uuid" THEN <<udn>> ELSE <<udn, target>>,
     port |-> port]

DeviceMessages(d, port) ==
    <<Message(d.udn, Urn(d.type), port), Message(d.udn, Uuid(d.udn), port)>>

ServiceMessages(d, port) ==
    [i \in DOMAIN d.services |-> Message(d.udn, Urn(d.services[i].type), port)]

\* cg_upnp_device_announcefrom
Announced(t) ==
    LET root == t[<<>>]
        from[p \in DOMAIN t] ==
            (IF p = <<>> THEN <<Message(root.udn, RootDevice, root.port)>> ELSE <<>>)
            \o DeviceMessages(t[p], t[p].port) \o ServiceMessages(t[p], root.port)
            \o Each(Kids(t, p), from)
    IN from[<<>>]

\* Mutant of Withdrawn: the services of embedded devices are forgotten.
WithdrawnRootServices(t) ==
    LET from[p \in DOMAIN t] ==
            (IF p = <<>> THEN <<Message(t[p].udn, RootDevice, Nothing)>> ELSE <<>>)
            \o DeviceMessages(t[p], Nothing)
            \o (IF p = <<>> THEN ServiceMessages(t[p], Nothing) ELSE <<>>)
            \o Each(Kids(t, p), from)
    IN from[<<>>]

\* cg_upnp_device_byebyefrom: without a location.
Withdrawn(t) ==
    LET from[p \in DOMAIN t] ==
            (IF p = <<>> THEN <<Message(t[p].udn, RootDevice, Nothing)>> ELSE <<>>)
            \o DeviceMessages(t[p], Nothing) \o ServiceMessages(t[p], Nothing)
            \o Each(Kids(t, p), from)
    IN from[<<>>]

\* The device's own part of cg_upnp_device_ssdpmessagereceived.
DeviceAnswers(d, isRoot, st, port) ==
    CASE st = All ->
            (IF isRoot THEN <<Message(d.udn, RootDevice, port)>> ELSE <<>>)
            \o DeviceMessages(d, port)
      [] st = RootDevice -> IF isRoot THEN <<Message(d.udn, st, port)>> ELSE <<>>
      [] st.kind = "uuid" -> IF st.name = d.udn THEN <<Message(d.udn, st, port)>> ELSE <<>>
      [] st.kind = "urn" -> IF st.name = d.type THEN <<Message(d.udn, st, port)>> ELSE <<>>

\* cg_upnp_service_ssdpmessagereceived, for the services of a device.
ServiceAnswers(d, st, port) ==
    LET all == ServiceMessages(d, port)
    IN Only(all, {m \in ToSet(all) : st = All \/ (st.kind = "urn" /\ st = m.nt)})

\* cg_upnp_device_ssdpmessagereceived, once the filter has let the search pass.
Answers(t, st) ==
    LET port == t[<<>>].port
        from[p \in DOMAIN t] ==
            DeviceAnswers(t[p], p = <<>>, st, port) \o ServiceAnswers(t[p], st, port)
            \o Each(Kids(t, p), from)
    IN from[<<>>]

-----------------------------------------------------------------------------
(* Look-ups of devices.  A forest is the sequence of a control point's root *)
(* devices; a place in it is the number of the tree and a path.            *)

\* A look-up returns the first device that fits on a walk of each tree in turn:
\* cg_upnp_device_getdevicebyudn, ...byexacttype, ...bytype look at each embedded device,
\* then at what is below it.
InForest(f, Fits(_)) ==
    FirstFound({at \in UNION {{i} \X DOMAIN f[i] : i \in DOMAIN f} : Fits(f[at[1]][at[2]])},
               LAMBDA a, b : a[1] < b[1] \/ (a[1] = b[1] /\ Before(a[2], b[2])))

\* Mutant of ByUdn: only the root devices are looked at.
ByUdnRootsOnly(f, udn) ==
    FirstFound({<<i, <<>>>> : i \in {i \in DOMAIN f : f[i][<<>>].udn = udn}},
               LAMBDA a, b : a[1] <= b[1])

ByUdn(f, udn) == InForest(f, LAMBDA d : d.udn = udn)
ByExactType(f, type) == InForest(f, LAMBDA d : d.type = type)

\* "urn:schemas-upnp-org:device:FooDevice" without a version.
ByType(f, urn) == InForest(f, LAMBDA d : d.type.urn = urn)

-----------------------------------------------------------------------------
(* Look-ups of services at the device, by type and by the URL of a request. *)
(* URLs are absolute paths, sequences of characters.                       *)

\* The services of a device, then those of its embedded devices: place and number.
ServiceBelow(t, Fits(_)) ==
    FirstFound({at \in UNION {{p} \X DOMAIN t[p].services : p \in DOMAIN t} :
                   Fits(t[at[1]].services[at[2]])},
               LAMBDA a, b : IF a[1] = b[1] THEN a[2] <= b[2] ELSE Before(a[1], b[1]))

HasPart(s, part) == \E i \in 0 .. Len(s) - Len(part) : SubSeq(s, i + 1, i + Len(part)) = part

ServiceByExactType(t, type) == ServiceBelow(t, LAMBDA s : s.type = type)
ServiceByEventUrl(t, url) == ServiceBelow(t, LAMBDA s : s.event = url)
ServiceByScpdUrl(t, url) == ServiceBelow(t, LAMBDA s : s.scpd = url)

\* The service's own URL contains the one asked for.
ServiceByControlUrl(t, url) == ServiceBelow(t, LAMBDA s : HasPart(s.control, url))
=============================================================================
