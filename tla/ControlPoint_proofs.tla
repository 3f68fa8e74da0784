------------------------ MODULE ControlPoint_proofs ------------------------
(***************************************************************************)
(* Proofs about ControlPoint for any set of receive threads, devices,      *)
(* packets and heap cells and any bound on the clock.                      *)
(*                                                                         *)
(* Types, locks and pointers depend on each other: the loops only stay     *)
(* inside the list because the pointers they hold are live, and those are  *)
(* live because nobody else has the lock.  They are proved together as the *)
(* inductive invariant Base; the facts about the list and the names follow *)
(* in a second induction on top of it.                                     *)
(***************************************************************************)
EXTENDS ControlPoint, TLAPS, SequenceTheorems, FiniteSetTheorems

Adding == {"add", "fetch", "refetch", "signal", "unlock", "tellAdd"}

\* A thread that adds a device has the packet and the name it works on.
PacketKnown == \A t \in Threads : pc[t] \in Adding => pkt[t] \in Alive /\ udn[t] \in Udns

Base == TypeOK /\ LockDiscipline /\ LockedPointersLive /\ PacketKnown

-----------------------------------------------------------------------------
(* The list operations.                                                    *)

\* Position finds a cached cell.
LEMMA PositionFact ==
    ASSUME devices \in Seq(Objs), NEW o \in Cached
    PROVE  /\ Position(o) \in 1 .. Len(devices)
           /\ devices[Position(o)] = o
<1>1. \E i \in DOMAIN devices : devices[i] = o
  BY DEF Cached
<1>2. Position(o) \in DOMAIN devices /\ devices[Position(o)] = o
  BY <1>1 DEF Position
<1> QED BY <1>2

\* What is cached is a cell.
LEMMA CachedCells ==
    ASSUME devices \in Seq(Objs) PROVE Cached \subseteq Objs
BY DEF Cached

\* The successor of a cached cell is cached or None.
LEMMA NextFact ==
    ASSUME devices \in Seq(Objs), NEW o \in Cached
    PROVE  NextOf(o) \in Cached \cup {None}
<1>1. CASE Position(o) < Len(devices)
  <2>1. Position(o) + 1 \in DOMAIN devices
    BY <1>1, PositionFact
  <2> QED BY <1>1, <2>1 DEF NextOf, Cached
<1>2. CASE ~(Position(o) < Len(devices))
  BY <1>2 DEF NextOf
<1> QED BY <1>1, <1>2

\* The head of the list is cached or None.
LEMMA FirstFact ==
    ASSUME devices \in Seq(Objs)
    PROVE  First \in Cached \cup {None}
<1>1. CASE devices = <<>>
  BY <1>1 DEF First
<1>2. CASE devices # <<>>
  <2>1. 1 \in DOMAIN devices
    BY <1>2, EmptySeq
  <2> QED BY <1>2, <2>1 DEF First, Cached
<1> QED BY <1>1, <1>2

\* Unlinking a cell shortens the list and brings nothing new into it.
LEMMA UnlinkFact ==
    ASSUME devices \in Seq(Objs), NEW o \in Cached
    PROVE  /\ Unlinked(o) \in Seq(Objs)
           /\ \A i \in DOMAIN Unlinked(o) : Unlinked(o)[i] \in Cached
<1> DEFINE n == Len(devices) - 1
<1>1. Position(o) \in 1 .. Len(devices) /\ Len(devices) \in Nat
  BY PositionFact
<1>2. n \in Nat
  BY <1>1
<1>3. \A i \in 1 .. n : /\ i \in DOMAIN devices /\ i + 1 \in DOMAIN devices
                        /\ Unlinked(o)[i] \in {devices[i], devices[i + 1]}
  BY <1>1, <1>2 DEF Unlinked
<1>4. \A i \in 1 .. n : Unlinked(o)[i] \in Cached
  BY <1>3 DEF Cached
<1>5. Unlinked(o) = [i \in 1 .. n |-> Unlinked(o)[i]]
  BY DEF Unlinked
<1>6. \A i \in 1 .. n : Unlinked(o)[i] \in Objs
  BY <1>4, CachedCells
<1>7. Unlinked(o) \in [1 .. n -> Objs]
  BY <1>5, <1>6
<1>8. Unlinked(o) \in Seq(Objs)
  BY <1>2, <1>7, SeqDef
<1>9. DOMAIN Unlinked(o) = 1 .. n
  BY DEF Unlinked
<1> QED BY <1>4, <1>8, <1>9

\* A freed cell is a cell.
LEMMA FreedCell == Freed \in Cells
BY DEF Freed, Cells

\* Deleting a cached device keeps the types and only takes away from the cache.
LEMMA DeleteFact ==
    ASSUME devices \in Seq(Objs), dev \in [Objs -> Cells], NEW o \in Cached,
           DeleteDevice(o)
    PROVE  /\ devices' \in Seq(Objs) /\ dev' \in [Objs -> Cells]
           /\ Cached' \subseteq Cached
           /\ \A p \in Objs : dev'[p] = IF p = o THEN Freed ELSE dev[p]
<1>1. devices' \in Seq(Objs) /\ \A i \in DOMAIN devices' : devices'[i] \in Cached
  BY UnlinkFact DEF DeleteDevice
<1>2. Cached' \subseteq Cached
  BY <1>1 DEF Cached
<1>3. dev' = [dev EXCEPT ![o] = Freed]
  BY DEF DeleteDevice
<1>4. o \in Objs
  BY CachedCells
<1>5. dev' \in [Objs -> Cells] /\ \A p \in Objs : dev'[p] = IF p = o THEN Freed ELSE dev[p]
  BY <1>3, <1>4, FreedCell
<1> QED BY <1>1, <1>2, <1>5

-----------------------------------------------------------------------------
(* The base invariant, action by action. *)


\* Storing an SSDP packet in a cell keeps its type.
LEMMA PacketCell ==
    ASSUME now \in Nat, NEW d \in Cells, NEW p \in Alive
    PROVE  WithPacket(d, p) \in Cells
<1>1. p.udn \in Udns /\ p.loc \in Locs /\ p.ifc \in Ifcs /\ p.age \in Nat
  BY DataAssumption DEF Alive
<1>2. Expiry(p.age) \in Nat
  BY <1>1 DEF Expiry
<1> QED BY <1>1, <1>2 DEF WithPacket, Cells

\* Setting a subscription time keeps the type of a cell.
LEMMA SubCell ==
    ASSUME NEW d \in Cells, NEW s \in Nat
    PROVE  [d EXCEPT !.sub = s] \in Cells
BY DEF Cells

\* A cell with another description, or none, is a cell.
LEMMA RenamedCell ==
    ASSUME NEW d \in Cells, NEW u \in Udns \cup {None}
    PROVE  [d EXCEPT !.sub = 0, !.udn = u] \in Cells
BY DEF Cells

\* A new device is a cell.
LEMMA NamedCell ==
    ASSUME NEW u \in Udns
    PROVE  [Freed EXCEPT !.udn = u] \in Cells
BY DEF Cells, Freed

\* Earlier returns a time.
LEMMA EarlierFact ==
    ASSUME NEW m \in Nat, NEW e \in Nat
    PROVE  Earlier(m, e) \in Nat
BY DEF Earlier

\* Deadline returns a time.
LEMMA DeadlineFact ==
    ASSUME minExp \in Nat, clk \in Nat, now \in Nat PROVE Deadline \in Nat
BY DEF Deadline

\* Looking at the services of a device keeps the types of the cells.
LEMMA ServiceFact ==
    ASSUME now \in Nat, dev \in [Objs -> Cells], NEW o \in Objs, NEW m \in Nat,
           ServiceCheck(o, m)
    PROVE  dev' \in [Objs -> Cells] /\ minExp' \in Nat
<1>1. dev[o].sub \in Nat
  BY DEF Cells
<1>2. PICK s \in IF dev[o].sub > 0 /\ dev[o].sub <= now THEN {0, now + SubTime}
                                                       ELSE {dev[o].sub} :
         /\ dev' = [dev EXCEPT ![o].sub = s]
         /\ minExp' = IF s > 0 /\ s < m THEN s ELSE m
  BY DEF ServiceCheck, Renewing
<1>3. s \in Nat
  BY <1>1, <1>2, DataAssumption
<1>4. [dev[o] EXCEPT !.sub = s] \in Cells
  BY <1>3, SubCell
<1>5. dev' = [dev EXCEPT ![o] = [dev[o] EXCEPT !.sub = s]]
  BY <1>2
<1> QED BY <1>2, <1>3, <1>4, <1>5

\* AddLookup preserves Base.
LEMMA BaseAddLookup ==
    ASSUME Base, NEW t \in Ssdp, AddLookup(t) PROVE Base'
<1> USE ThreadAssumption, NoneAssumption, DataAssumption DEF Threads, cache, locks, locals, expVars, appVars, ghosts, Goto
<1>1. devices \in Seq(Objs) /\ dev \in [Objs -> Cells] /\ now \in Nat
  BY DEF Base, TypeOK
<1>2. Cached \subseteq Objs
  BY <1>1, CachedCells
<1>3. Cached' = Cached
  BY DEF Cached, AddLookup, Acquire
<1>4. pkt[t] \in Alive
  BY DEF Base, PacketKnown, Adding, AddLookup
<1>5. \A o \in Cached : WithPacket(dev[o], pkt[t]) \in Cells
  BY <1>1, <1>2, <1>4, PacketCell
<1>6. dev' \in [Objs -> Cells]
  BY <1>1, <1>2, <1>5 DEF AddLookup, Found, WithUdn
<1>7. ptr' \in [Threads -> Objs \cup {None}] /\ (pc'[t] = "refetch" => ptr'[t] \in Cached)
  BY <1>2 DEF Base, TypeOK, AddLookup, Found, WithUdn
<1>8. TypeOK'
  BY <1>1, <1>2, <1>3, <1>4, <1>5, <1>6, <1>7 DEF Base, TypeOK, PacketKnown, Adding, LockedPointersLive, Labels, AddLookup, Acquire
<1>9. LockDiscipline'
  BY DEF Base, TypeOK, LockDiscipline, Critical, AddLookup, Acquire
<1>10. LockedPointersLive'
  BY <1>1, <1>2, <1>3, <1>4, <1>5, <1>6, <1>7 DEF Base, TypeOK, LockDiscipline, LockedPointersLive, Critical, AddLookup, Acquire
<1>11. PacketKnown'
  BY DEF Base, TypeOK, PacketKnown, Adding, AddLookup, Acquire
<1> QED BY <1>8, <1>9, <1>10, <1>11 DEF Base

\* FetchOk preserves Base.
LEMMA BaseFetchOk ==
    ASSUME Base, NEW t \in Ssdp, FetchOk(t) PROVE Base'
<1> USE ThreadAssumption, NoneAssumption, DataAssumption DEF Threads, cache, locks, locals, expVars, appVars, ghosts, Goto
<1>1. devices \in Seq(Objs) /\ dev \in [Objs -> Cells] /\ now \in Nat
  BY DEF Base, TypeOK
<1>2. Cached \subseteq Objs
  BY <1>1, CachedCells
<1>3. pkt[t] \in Alive /\ udn[t] \in Udns
  BY DEF Base, PacketKnown, Adding, FetchOk
<1>4. \A u \in Udns : WithPacket([Freed EXCEPT !.udn = u], pkt[t]) \in Cells
  BY <1>1, <1>3, NamedCell, PacketCell
<1>5. dev' \in [Objs -> Cells] /\ devices' \in Seq(Objs) /\ foreign' \subseteq Udns
  <2>1. PICK o \in Objs \ Cached, u \in Carried(pkt[t].loc) :
           /\ devices' = Append(devices, o)
           /\ dev' = [dev EXCEPT ![o] = WithPacket([Freed EXCEPT !.udn = u], pkt[t])]
           /\ foreign' = foreign \cup ({u} \ {udn[t]})
    BY DEF FetchOk
  <2>2. u \in Udns
    BY DEF Carried
  <2> QED BY <1>1, <1>4, <2>1, <2>2 DEF Base, TypeOK
<1>6. TypeOK'
  BY <1>1, <1>2, <1>3, <1>4, <1>5 DEF Base, TypeOK, PacketKnown, Adding, LockedPointersLive, Labels, FetchOk
<1>7. LockDiscipline'
  BY DEF Base, TypeOK, LockDiscipline, Critical, FetchOk
<1>8. LockedPointersLive'
  BY <1>1, <1>2, <1>3, <1>4, <1>5 DEF Base, TypeOK, LockDiscipline, LockedPointersLive, Critical, FetchOk
<1>9. PacketKnown'
  BY DEF Base, TypeOK, PacketKnown, Adding, FetchOk
<1> QED BY <1>6, <1>7, <1>8, <1>9 DEF Base

\* FetchFails preserves Base.
LEMMA BaseFetchFails ==
    ASSUME Base, NEW t \in Ssdp, FetchFails(t) PROVE Base'
<1> USE ThreadAssumption, NoneAssumption, DataAssumption DEF Threads, cache, locks, locals, expVars, appVars, ghosts, Goto
<1>1. TypeOK'
  BY DEF Base, TypeOK, PacketKnown, Adding, LockedPointersLive, Labels, FetchFails
<1>2. LockDiscipline'
  BY DEF Base, TypeOK, LockDiscipline, Critical, FetchFails
<1>3. LockedPointersLive'
  BY DEF Base, TypeOK, LockDiscipline, LockedPointersLive, Critical, Cached, FetchFails
<1>4. PacketKnown'
  BY DEF Base, TypeOK, PacketKnown, Adding, FetchFails
<1> QED BY <1>1, <1>2, <1>3, <1>4 DEF Base

\* RefetchOk preserves Base.
LEMMA BaseRefetchOk ==
    ASSUME Base, NEW t \in Ssdp, RefetchOk(t) PROVE Base'
<1> USE ThreadAssumption, NoneAssumption, DataAssumption DEF Threads, cache, locks, locals, expVars, appVars, ghosts, Goto
<1>1. devices \in Seq(Objs) /\ dev \in [Objs -> Cells] /\ now \in Nat
  BY DEF Base, TypeOK
<1>2. Cached \subseteq Objs
  BY <1>1, CachedCells
<1>3. Cached' = Cached
  BY DEF Cached, RefetchOk
<1>4. ptr[t] \in Objs /\ dev[ptr[t]] \in Cells
  BY <1>1, <1>2 DEF Base, LockedPointersLive, RefetchOk
<1>5. dev' \in [Objs -> Cells] /\ foreign' \subseteq Udns
  <2>1. PICK d \in {dev[ptr[t]]} \cup {[dev[ptr[t]] EXCEPT !.sub = 0, !.udn = u] :
                                        u \in Carried(pkt[t].loc) \cup {None}} :
           /\ dev' = [dev EXCEPT ![ptr[t]] = d]
           /\ foreign' = foreign \cup ({d.udn} \ {udn[t], None})
    BY DEF RefetchOk
  <2>2. \A u \in Udns \cup {None} : [dev[ptr[t]] EXCEPT !.sub = 0, !.udn = u] \in Cells
    BY <1>4, RenamedCell
  <2>3. d \in Cells
    BY <1>4, <2>1, <2>2 DEF Carried
  <2>4. d.udn \in Udns \cup {None}
    BY <2>3 DEF Cells
  <2> QED BY <1>1, <1>4, <2>1, <2>3, <2>4 DEF Base, TypeOK
<1>6. TypeOK'
  BY <1>1, <1>2, <1>3, <1>4, <1>5 DEF Base, TypeOK, PacketKnown, Adding, LockedPointersLive, Labels, RefetchOk
<1>7. LockDiscipline'
  BY DEF Base, TypeOK, LockDiscipline, Critical, RefetchOk
<1>8. LockedPointersLive'
  BY <1>1, <1>2, <1>3, <1>4, <1>5 DEF Base, TypeOK, LockDiscipline, LockedPointersLive, Critical, RefetchOk
<1>9. PacketKnown'
  BY DEF Base, TypeOK, PacketKnown, Adding, RefetchOk
<1> QED BY <1>6, <1>7, <1>8, <1>9 DEF Base

\* RefetchFails preserves Base.
LEMMA BaseRefetchFails ==
    ASSUME Base, NEW t \in Ssdp, RefetchFails(t) PROVE Base'
<1> USE ThreadAssumption, NoneAssumption, DataAssumption DEF Threads, cache, locks, locals, expVars, appVars, ghosts, Goto
<1>1. devices \in Seq(Objs) /\ dev \in [Objs -> Cells] /\ now \in Nat
  BY DEF Base, TypeOK
<1>2. Cached \subseteq Objs
  BY <1>1, CachedCells
<1>3. ptr[t] \in Cached
  BY DEF Base, LockedPointersLive, RefetchFails
<1>4. devices' \in Seq(Objs) /\ dev' \in [Objs -> Cells] /\ Cached' \subseteq Cached
  BY <1>1, <1>3, DeleteFact DEF RefetchFails
<1>5. TypeOK'
  BY <1>1, <1>2, <1>3, <1>4 DEF Base, TypeOK, PacketKnown, Adding, LockedPointersLive, Labels, RefetchFails
<1>6. LockDiscipline'
  BY DEF Base, TypeOK, LockDiscipline, Critical, RefetchFails
<1>7. LockedPointersLive'
  BY <1>1, <1>2, <1>3, <1>4 DEF Base, TypeOK, LockDiscipline, LockedPointersLive, Critical, RefetchFails
<1>8. PacketKnown'
  BY DEF Base, TypeOK, PacketKnown, Adding, RefetchFails
<1> QED BY <1>5, <1>6, <1>7, <1>8 DEF Base

\* AddSignal preserves Base.
LEMMA BaseAddSignal ==
    ASSUME Base, NEW t \in Ssdp, AddSignal(t) PROVE Base'
<1> USE ThreadAssumption, NoneAssumption, DataAssumption DEF Threads, cache, locks, locals, expVars, appVars, ghosts, Goto
<1>1. TypeOK'
  BY DEF Base, TypeOK, PacketKnown, Adding, LockedPointersLive, Labels, AddSignal, SignalAndGoto, ExpSignalled
<1>2. LockDiscipline'
  BY DEF Base, TypeOK, LockDiscipline, Critical, AddSignal, SignalAndGoto, ExpSignalled
<1>3. LockedPointersLive'
  BY DEF Base, TypeOK, LockDiscipline, LockedPointersLive, Critical, Cached, AddSignal, SignalAndGoto, ExpSignalled
<1>4. PacketKnown'
  BY DEF Base, TypeOK, PacketKnown, Adding, AddSignal, SignalAndGoto, ExpSignalled
<1> QED BY <1>1, <1>2, <1>3, <1>4 DEF Base

\* AddUnlock preserves Base.
LEMMA BaseAddUnlock ==
    ASSUME Base, NEW t \in Ssdp, AddUnlock(t) PROVE Base'
<1> USE ThreadAssumption, NoneAssumption, DataAssumption DEF Threads, cache, locks, locals, expVars, appVars, ghosts, Goto
<1>1. TypeOK'
  BY DEF Base, TypeOK, PacketKnown, Adding, LockedPointersLive, Labels, AddUnlock, Release
<1>2. LockDiscipline'
  BY DEF Base, TypeOK, LockDiscipline, Critical, AddUnlock, Release
<1>3. LockedPointersLive'
  BY DEF Base, TypeOK, LockDiscipline, LockedPointersLive, Critical, Cached, AddUnlock, Release
<1>4. PacketKnown'
  BY DEF Base, TypeOK, PacketKnown, Adding, AddUnlock, Release
<1> QED BY <1>1, <1>2, <1>3, <1>4 DEF Base

\* TellAdd preserves Base.
LEMMA BaseTellAdd ==
    ASSUME Base, NEW t \in Ssdp, TellAdd(t) PROVE Base'
<1> USE ThreadAssumption, NoneAssumption, DataAssumption DEF Threads, cache, locks, locals, expVars, appVars, ghosts, Goto
<1>1. TypeOK'
  BY DEF Base, TypeOK, PacketKnown, Adding, LockedPointersLive, Labels, TellAdd, Forget, CallListener, NoListener
<1>2. LockDiscipline'
  BY DEF Base, TypeOK, LockDiscipline, Critical, TellAdd, Forget, CallListener, NoListener
<1>3. LockedPointersLive'
  BY DEF Base, TypeOK, LockDiscipline, LockedPointersLive, Critical, Cached, TellAdd, Forget, CallListener, NoListener
<1>4. PacketKnown'
  BY DEF Base, TypeOK, PacketKnown, Adding, TellAdd, Forget, CallListener, NoListener
<1> QED BY <1>1, <1>2, <1>3, <1>4 DEF Base

\* ReadVictim preserves Base.
LEMMA BaseReadVictim ==
    ASSUME Base, NEW t \in Threads, ReadVictim(t) PROVE Base'
<1> USE ThreadAssumption, NoneAssumption, DataAssumption DEF Threads, cache, locks, locals, expVars, appVars, ghosts, Goto
<1>1. devices \in Seq(Objs) /\ dev \in [Objs -> Cells] /\ now \in Nat
  BY DEF Base, TypeOK
<1>2. Cached \subseteq Objs
  BY <1>1, CachedCells
<1>3. Cached' = Cached
  BY DEF Cached, ReadVictim
<1>4. dev[ptr[t]].usn \in Udns \cup {None}
  BY <1>1, <1>2 DEF ReadVictim, Cells
<1>5. TypeOK'
  BY <1>1, <1>2, <1>3, <1>4 DEF Base, TypeOK, PacketKnown, Adding, LockedPointersLive, Labels, ReadVictim
<1>6. LockDiscipline'
  BY DEF Base, TypeOK, LockDiscipline, Critical, ReadVictim
<1>7. LockedPointersLive'
  BY <1>1, <1>2, <1>3, <1>4 DEF Base, TypeOK, LockDiscipline, LockedPointersLive, Critical, ReadVictim
<1>8. PacketKnown'
  BY DEF Base, TypeOK, PacketKnown, Adding, ReadVictim
<1> QED BY <1>5, <1>6, <1>7, <1>8 DEF Base

\* RemoveUnknown preserves Base.
LEMMA BaseRemoveUnknown ==
    ASSUME Base, NEW t \in Threads, RemoveUnknown(t) PROVE Base'
<1> USE ThreadAssumption, NoneAssumption, DataAssumption DEF Threads, cache, locks, locals, expVars, appVars, ghosts, Goto
<1>1. TypeOK'
  BY DEF Base, TypeOK, PacketKnown, Adding, LockedPointersLive, Labels, RemoveUnknown, Forget, ReturnPc
<1>2. LockDiscipline'
  BY DEF Base, TypeOK, LockDiscipline, Critical, RemoveUnknown, Forget, ReturnPc
<1>3. LockedPointersLive'
  BY DEF Base, TypeOK, LockDiscipline, LockedPointersLive, Critical, Cached, RemoveUnknown, Forget, ReturnPc
<1>4. PacketKnown'
  BY DEF Base, TypeOK, PacketKnown, Adding, RemoveUnknown, Forget, ReturnPc
<1> QED BY <1>1, <1>2, <1>3, <1>4 DEF Base

\* RemoveLookup preserves Base.
LEMMA BaseRemoveLookup ==
    ASSUME Base, NEW t \in Threads, RemoveLookup(t) PROVE Base'
<1> USE ThreadAssumption, NoneAssumption, DataAssumption DEF Threads, cache, locks, locals, expVars, appVars, ghosts, Goto
<1>1. devices \in Seq(Objs) /\ dev \in [Objs -> Cells] /\ now \in Nat
  BY DEF Base, TypeOK
<1>2. Cached \subseteq Objs
  BY <1>1, CachedCells
<1>3. Cached' = Cached
  BY DEF Cached, RemoveLookup, CallListener
<1>4. ptr' \in [Threads -> Objs \cup {None}]
  BY <1>2 DEF Base, TypeOK, RemoveLookup, Found, WithUdn
<1>5. TypeOK'
  BY <1>1, <1>2, <1>3, <1>4 DEF Base, TypeOK, PacketKnown, Adding, LockedPointersLive, Labels, RemoveLookup, CallListener
<1>6. LockDiscipline'
  BY DEF Base, TypeOK, LockDiscipline, Critical, RemoveLookup, CallListener
<1>7. LockedPointersLive'
  BY <1>1, <1>2, <1>3, <1>4 DEF Base, TypeOK, LockDiscipline, LockedPointersLive, Critical, RemoveLookup, CallListener
<1>8. PacketKnown'
  BY DEF Base, TypeOK, PacketKnown, Adding, RemoveLookup, CallListener
<1> QED BY <1>5, <1>6, <1>7, <1>8 DEF Base

\* RemoveSilently preserves Base.
LEMMA BaseRemoveSilently ==
    ASSUME Base, NEW t \in Threads, RemoveSilently(t) PROVE Base'
<1> USE ThreadAssumption, NoneAssumption, DataAssumption DEF Threads, cache, locks, locals, expVars, appVars, ghosts, Goto
<1>1. devices \in Seq(Objs) /\ dev \in [Objs -> Cells] /\ now \in Nat
  BY DEF Base, TypeOK
<1>2. Cached \subseteq Objs
  BY <1>1, CachedCells
<1>3. devices' \in Seq(Objs) /\ dev' \in [Objs -> Cells] /\ Cached' \subseteq Cached
  BY <1>1, DeleteFact DEF RemoveSilently, Found, WithUdn
<1>4. TypeOK'
  BY <1>1, <1>2, <1>3 DEF Base, TypeOK, PacketKnown, Adding, LockedPointersLive, Labels, RemoveSilently, Forget, ReturnPc, NoListener
<1>5. LockDiscipline'
  BY DEF Base, TypeOK, LockDiscipline, Critical, RemoveSilently, Forget, ReturnPc, NoListener
<1>6. LockedPointersLive'
  BY <1>1, <1>2, <1>3 DEF Base, TypeOK, LockDiscipline, LockedPointersLive, Critical, RemoveSilently, Forget, ReturnPc, NoListener
<1>7. PacketKnown'
  BY DEF Base, TypeOK, PacketKnown, Adding, RemoveSilently, Forget, ReturnPc, NoListener
<1> QED BY <1>4, <1>5, <1>6, <1>7 DEF Base

\* TellRemove preserves Base.
LEMMA BaseTellRemove ==
    ASSUME Base, NEW t \in Threads, TellRemove(t) PROVE Base'
<1> USE ThreadAssumption, NoneAssumption, DataAssumption DEF Threads, cache, locks, locals, expVars, appVars, ghosts, Goto
<1>1. TypeOK'
  BY DEF Base, TypeOK, PacketKnown, Adding, LockedPointersLive, Labels, TellRemove, CallListener
<1>2. LockDiscipline'
  BY DEF Base, TypeOK, LockDiscipline, Critical, TellRemove, CallListener
<1>3. LockedPointersLive'
  BY DEF Base, TypeOK, LockDiscipline, LockedPointersLive, Critical, Cached, TellRemove, CallListener
<1>4. PacketKnown'
  BY DEF Base, TypeOK, PacketKnown, Adding, TellRemove, CallListener
<1> QED BY <1>1, <1>2, <1>3, <1>4 DEF Base

\* RemoveDelete preserves Base.
LEMMA BaseRemoveDelete ==
    ASSUME Base, NEW t \in Threads, RemoveDelete(t) PROVE Base'
<1> USE ThreadAssumption, NoneAssumption, DataAssumption DEF Threads, cache, locks, locals, expVars, appVars, ghosts, Goto
<1>1. devices \in Seq(Objs) /\ dev \in [Objs -> Cells] /\ now \in Nat
  BY DEF Base, TypeOK
<1>2. Cached \subseteq Objs
  BY <1>1, CachedCells
<1>3. ptr[t] \in Cached
  BY DEF Base, LockedPointersLive, RemoveDelete
<1>4. devices' \in Seq(Objs) /\ dev' \in [Objs -> Cells] /\ Cached' \subseteq Cached
  BY <1>1, <1>3, DeleteFact DEF RemoveDelete
<1>5. TypeOK'
  BY <1>1, <1>2, <1>3, <1>4 DEF Base, TypeOK, PacketKnown, Adding, LockedPointersLive, Labels, RemoveDelete, Forget, ReturnPc
<1>6. LockDiscipline'
  BY DEF Base, TypeOK, LockDiscipline, Critical, RemoveDelete, Forget, ReturnPc
<1>7. LockedPointersLive'
  BY <1>1, <1>2, <1>3, <1>4 DEF Base, TypeOK, LockDiscipline, LockedPointersLive, Critical, RemoveDelete, Forget, ReturnPc
<1>8. PacketKnown'
  BY DEF Base, TypeOK, PacketKnown, Adding, RemoveDelete, Forget, ReturnPc
<1> QED BY <1>5, <1>6, <1>7, <1>8 DEF Base

\* ExpEnter preserves Base.
LEMMA BaseExpEnter ==
    ASSUME Base, ExpEnter PROVE Base'
<1> USE ThreadAssumption, NoneAssumption, DataAssumption DEF Threads, cache, locks, locals, expVars, appVars, ghosts, Goto
<1>1. TypeOK'
  BY DEF Base, TypeOK, PacketKnown, Adding, LockedPointersLive, Labels, ExpEnter
<1>2. LockDiscipline'
  BY DEF Base, TypeOK, LockDiscipline, Critical, ExpEnter
<1>3. LockedPointersLive'
  BY DEF Base, TypeOK, LockDiscipline, LockedPointersLive, Critical, Cached, ExpEnter
<1>4. PacketKnown'
  BY DEF Base, TypeOK, PacketKnown, Adding, ExpEnter
<1> QED BY <1>1, <1>2, <1>3, <1>4 DEF Base

\* ExpCheck preserves Base.
LEMMA BaseExpCheck ==
    ASSUME Base, ExpCheck PROVE Base'
<1> USE ThreadAssumption, NoneAssumption, DataAssumption DEF Threads, cache, locks, locals, expVars, appVars, ghosts, Goto
<1>1. TypeOK'
  <2>1. clk' \in Nat /\ minExp' \in Nat
    BY DEF Base, TypeOK, ExpCheck
  <2>2. pc' \in [Threads -> Labels]
    BY DEF Base, TypeOK, Labels, ExpCheck
  <2> QED BY <2>1, <2>2 DEF Base, TypeOK, ExpCheck
<1>2. LockDiscipline'
  BY DEF Base, TypeOK, LockDiscipline, Critical, ExpCheck
<1>3. LockedPointersLive'
  BY DEF Base, TypeOK, LockDiscipline, LockedPointersLive, Critical, Cached, ExpCheck
<1>4. PacketKnown'
  BY DEF Base, TypeOK, PacketKnown, Adding, ExpCheck
<1> QED BY <1>1, <1>2, <1>3, <1>4 DEF Base

\* ExpLock preserves Base.
LEMMA BaseExpLock ==
    ASSUME Base, ExpLock PROVE Base'
<1> USE ThreadAssumption, NoneAssumption, DataAssumption DEF Threads, cache, locks, locals, expVars, appVars, ghosts, Goto
<1>1. devices \in Seq(Objs) /\ dev \in [Objs -> Cells] /\ now \in Nat
  BY DEF Base, TypeOK
<1>2. Cached \subseteq Objs
  BY <1>1, CachedCells
<1>3. Cached' = Cached
  BY DEF Cached, ExpLock, Acquire
<1>4. First \in Cached \cup {None}
  BY <1>1, FirstFact
<1>5. TypeOK'
  BY <1>1, <1>2, <1>3, <1>4 DEF Base, TypeOK, PacketKnown, Adding, LockedPointersLive, Labels, ExpLock, Acquire
<1>6. LockDiscipline'
  BY DEF Base, TypeOK, LockDiscipline, Critical, ExpLock, Acquire
<1>7. LockedPointersLive'
  BY <1>1, <1>2, <1>3, <1>4 DEF Base, TypeOK, LockDiscipline, LockedPointersLive, Critical, ExpLock, Acquire
<1>8. PacketKnown'
  BY DEF Base, TypeOK, PacketKnown, Adding, ExpLock, Acquire
<1> QED BY <1>5, <1>6, <1>7, <1>8 DEF Base

\* ExpScanExpired preserves Base.
LEMMA BaseExpScanExpired ==
    ASSUME Base, ExpScanExpired PROVE Base'
<1> USE ThreadAssumption, NoneAssumption, DataAssumption DEF Threads, cache, locks, locals, expVars, appVars, ghosts, Goto
<1>1. devices \in Seq(Objs) /\ dev \in [Objs -> Cells] /\ now \in Nat
  BY DEF Base, TypeOK
<1>2. Cached \subseteq Objs
  BY <1>1, CachedCells
<1>3. Cached' = Cached
  BY DEF Cached, ExpScanExpired, Release
<1>4. cur[Exp] \in Cached
  BY DEF Base, LockedPointersLive, ExpScanExpired, Release
<1>5. NextOf(cur[Exp]) \in Cached \cup {None}
  BY <1>1, NextFact, <1>4
<1>6. TypeOK'
  BY <1>1, <1>2, <1>3, <1>4, <1>5 DEF Base, TypeOK, PacketKnown, Adding, LockedPointersLive, Labels, ExpScanExpired, Release
<1>7. LockDiscipline'
  BY DEF Base, TypeOK, LockDiscipline, Critical, ExpScanExpired, Release
<1>8. LockedPointersLive'
  BY <1>1, <1>2, <1>3, <1>4, <1>5 DEF Base, TypeOK, LockDiscipline, LockedPointersLive, Critical, ExpScanExpired, Release
<1>9. PacketKnown'
  BY DEF Base, TypeOK, PacketKnown, Adding, ExpScanExpired, Release
<1> QED BY <1>6, <1>7, <1>8, <1>9 DEF Base

\* ExpScan preserves Base.
LEMMA BaseExpScan ==
    ASSUME Base, ExpScan PROVE Base'
<1> USE ThreadAssumption, NoneAssumption, DataAssumption DEF Threads, cache, locks, locals, expVars, appVars, ghosts, Goto
<1>1. devices \in Seq(Objs) /\ dev \in [Objs -> Cells] /\ now \in Nat
  BY DEF Base, TypeOK
<1>2. Cached \subseteq Objs
  BY <1>1, CachedCells
<1>3. Cached' = Cached
  BY DEF Cached, ExpScan
<1>4. cur[Exp] \in Cached
  BY DEF Base, LockedPointersLive, ExpScan
<1>5. NextOf(cur[Exp]) \in Cached \cup {None}
  BY <1>1, NextFact, <1>4
<1>6. Earlier(minExp, dev[cur[Exp]].expiry) \in Nat
  BY <1>1, <1>2, <1>4, EarlierFact DEF Base, TypeOK, Cells
<1>7. dev' \in [Objs -> Cells] /\ minExp' \in Nat
  BY <1>1, <1>2, <1>4, <1>6, ServiceFact DEF ExpScan
<1>8. TypeOK'
  BY <1>1, <1>2, <1>3, <1>4, <1>5, <1>6, <1>7 DEF Base, TypeOK, PacketKnown, Adding, LockedPointersLive, Labels, ExpScan
<1>9. LockDiscipline'
  BY DEF Base, TypeOK, LockDiscipline, Critical, ExpScan
<1>10. LockedPointersLive'
  BY <1>1, <1>2, <1>3, <1>4, <1>5, <1>6, <1>7 DEF Base, TypeOK, LockDiscipline, LockedPointersLive, Critical, ExpScan
<1>11. PacketKnown'
  BY DEF Base, TypeOK, PacketKnown, Adding, ExpScan
<1> QED BY <1>8, <1>9, <1>10, <1>11 DEF Base

\* ExpRelock preserves Base.
LEMMA BaseExpRelock ==
    ASSUME Base, ExpRelock PROVE Base'
<1> USE ThreadAssumption, NoneAssumption, DataAssumption DEF Threads, cache, locks, locals, expVars, appVars, ghosts, Goto
<1>1. devices \in Seq(Objs) /\ dev \in [Objs -> Cells] /\ now \in Nat
  BY DEF Base, TypeOK
<1>2. Cached \subseteq Objs
  BY <1>1, CachedCells
<1>3. Cached' = Cached
  BY DEF Cached, ExpRelock, Acquire
<1>4. cur[Exp] # None => cur[Exp] \in Cached /\ NextOf(cur[Exp]) \in Cached \cup {None}
  BY <1>1, NextFact DEF ExpRelock
<1>5. dev' \in [Objs -> Cells] /\ minExp' \in Nat
  BY <1>1, <1>2, <1>4, ServiceFact DEF Base, TypeOK, ExpRelock
<1>6. TypeOK'
  BY <1>1, <1>2, <1>3, <1>4, <1>5 DEF Base, TypeOK, PacketKnown, Adding, LockedPointersLive, Labels, ExpRelock, Acquire
<1>7. LockDiscipline'
  BY DEF Base, TypeOK, LockDiscipline, Critical, ExpRelock, Acquire
<1>8. LockedPointersLive'
  BY <1>1, <1>2, <1>3, <1>4, <1>5 DEF Base, TypeOK, LockDiscipline, LockedPointersLive, Critical, ExpRelock, Acquire
<1>9. PacketKnown'
  BY DEF Base, TypeOK, PacketKnown, Adding, ExpRelock, Acquire
<1> QED BY <1>6, <1>7, <1>8, <1>9 DEF Base

\* ExpScanEnd preserves Base.
LEMMA BaseExpScanEnd ==
    ASSUME Base, ExpScanEnd PROVE Base'
<1> USE ThreadAssumption, NoneAssumption, DataAssumption DEF Threads, cache, locks, locals, expVars, appVars, ghosts, Goto
<1>1. TypeOK'
  BY DEF Base, TypeOK, PacketKnown, Adding, LockedPointersLive, Labels, ExpScanEnd, Release
<1>2. LockDiscipline'
  BY DEF Base, TypeOK, LockDiscipline, Critical, ExpScanEnd, Release
<1>3. LockedPointersLive'
  BY DEF Base, TypeOK, LockDiscipline, LockedPointersLive, Critical, Cached, ExpScanEnd, Release
<1>4. PacketKnown'
  BY DEF Base, TypeOK, PacketKnown, Adding, ExpScanEnd, Release
<1> QED BY <1>1, <1>2, <1>3, <1>4 DEF Base

\* ExpSleep preserves Base.
LEMMA BaseExpSleep ==
    ASSUME Base, ExpSleep PROVE Base'
<1> USE ThreadAssumption, NoneAssumption, DataAssumption DEF Threads, cache, locks, locals, expVars, appVars, ghosts, Goto
<1>1. TypeOK'
  <2>1. Deadline \in Nat
    BY DeadlineFact DEF Base, TypeOK
  <2> QED BY <2>1 DEF Base, TypeOK, Labels, ExpSleep
<1>2. LockDiscipline'
  BY DEF Base, TypeOK, LockDiscipline, Critical, ExpSleep
<1>3. LockedPointersLive'
  BY DEF Base, TypeOK, LockDiscipline, LockedPointersLive, Critical, Cached, ExpSleep
<1>4. PacketKnown'
  BY DEF Base, TypeOK, PacketKnown, Adding, ExpSleep
<1> QED BY <1>1, <1>2, <1>3, <1>4 DEF Base

\* ExpCommit preserves Base.
LEMMA BaseExpCommit ==
    ASSUME Base, ExpCommit PROVE Base'
<1> USE ThreadAssumption, NoneAssumption, DataAssumption DEF Threads, cache, locks, locals, expVars, appVars, ghosts, Goto
<1>1. TypeOK'
  BY DEF Base, TypeOK, PacketKnown, Adding, LockedPointersLive, Labels, ExpCommit
<1>2. LockDiscipline'
  BY DEF Base, TypeOK, LockDiscipline, Critical, ExpCommit
<1>3. LockedPointersLive'
  BY DEF Base, TypeOK, LockDiscipline, LockedPointersLive, Critical, Cached, ExpCommit
<1>4. PacketKnown'
  BY DEF Base, TypeOK, PacketKnown, Adding, ExpCommit
<1> QED BY <1>1, <1>2, <1>3, <1>4 DEF Base

\* ExpWait preserves Base.
LEMMA BaseExpWait ==
    ASSUME Base, ExpWait PROVE Base'
<1> USE ThreadAssumption, NoneAssumption, DataAssumption DEF Threads, cache, locks, locals, expVars, appVars, ghosts, Goto
<1>1. TypeOK'
  BY DEF Base, TypeOK, PacketKnown, Adding, LockedPointersLive, Labels, ExpWait
<1>2. LockDiscipline'
  BY DEF Base, TypeOK, LockDiscipline, Critical, ExpWait
<1>3. LockedPointersLive'
  BY DEF Base, TypeOK, LockDiscipline, LockedPointersLive, Critical, Cached, ExpWait
<1>4. PacketKnown'
  BY DEF Base, TypeOK, PacketKnown, Adding, ExpWait
<1> QED BY <1>1, <1>2, <1>3, <1>4 DEF Base

\* ExpTimeout preserves Base.
LEMMA BaseExpTimeout ==
    ASSUME Base, ExpTimeout PROVE Base'
<1> USE ThreadAssumption, NoneAssumption, DataAssumption DEF Threads, cache, locks, locals, expVars, appVars, ghosts, Goto
<1>1. TypeOK'
  BY DEF Base, TypeOK, PacketKnown, Adding, LockedPointersLive, Labels, ExpTimeout
<1>2. LockDiscipline'
  BY DEF Base, TypeOK, LockDiscipline, Critical, ExpTimeout
<1>3. LockedPointersLive'
  BY DEF Base, TypeOK, LockDiscipline, LockedPointersLive, Critical, Cached, ExpTimeout
<1>4. PacketKnown'
  BY DEF Base, TypeOK, PacketKnown, Adding, ExpTimeout
<1> QED BY <1>1, <1>2, <1>3, <1>4 DEF Base

\* AppLock preserves Base.
LEMMA BaseAppLock ==
    ASSUME Base, AppLock PROVE Base'
<1> USE ThreadAssumption, NoneAssumption, DataAssumption DEF Threads, cache, locks, locals, expVars, appVars, ghosts, Goto
<1>1. devices \in Seq(Objs) /\ dev \in [Objs -> Cells] /\ now \in Nat
  BY DEF Base, TypeOK
<1>2. Cached \subseteq Objs
  BY <1>1, CachedCells
<1>3. Cached' = Cached
  BY DEF Cached, AppLock, Acquire
<1>4. ptr' \in [Threads -> Objs \cup {None}]
  BY <1>2 DEF Base, TypeOK, AppLock
<1>5. TypeOK'
  BY <1>1, <1>2, <1>3, <1>4 DEF Base, TypeOK, PacketKnown, Adding, LockedPointersLive, Labels, AppLock, Acquire
<1>6. LockDiscipline'
  BY DEF Base, TypeOK, LockDiscipline, Critical, AppLock, Acquire
<1>7. LockedPointersLive'
  BY <1>1, <1>2, <1>3, <1>4 DEF Base, TypeOK, LockDiscipline, LockedPointersLive, Critical, AppLock, Acquire
<1>8. PacketKnown'
  BY DEF Base, TypeOK, PacketKnown, Adding, AppLock, Acquire
<1> QED BY <1>5, <1>6, <1>7, <1>8 DEF Base

\* AppSubscribe preserves Base.
LEMMA BaseAppSubscribe ==
    ASSUME Base, AppSubscribe PROVE Base'
<1> USE ThreadAssumption, NoneAssumption, DataAssumption DEF Threads, cache, locks, locals, expVars, appVars, ghosts, Goto
<1>1. devices \in Seq(Objs) /\ dev \in [Objs -> Cells] /\ now \in Nat
  BY DEF Base, TypeOK
<1>2. Cached \subseteq Objs
  BY <1>1, CachedCells
<1>3. Cached' = Cached
  BY DEF Cached, AppSubscribe, SignalAndGoto, ExpSignalled
<1>4. ptr[App] \in Objs /\ dev[ptr[App]] \in Cells
  BY <1>1, <1>2 DEF Base, LockedPointersLive, AppSubscribe, SignalAndGoto, ExpSignalled
<1>5. now + SubTime \in Nat
  BY <1>1, DataAssumption
<1>6. dev' \in [Objs -> Cells]
  BY <1>1, <1>4, <1>5, SubCell DEF AppSubscribe
<1>7. TypeOK'
  BY <1>1, <1>2, <1>3, <1>4, <1>5, <1>6 DEF Base, TypeOK, PacketKnown, Adding, LockedPointersLive, Labels, AppSubscribe, SignalAndGoto, ExpSignalled
<1>8. LockDiscipline'
  BY DEF Base, TypeOK, LockDiscipline, Critical, AppSubscribe, SignalAndGoto, ExpSignalled
<1>9. LockedPointersLive'
  BY <1>1, <1>2, <1>3, <1>4, <1>5, <1>6 DEF Base, TypeOK, LockDiscipline, LockedPointersLive, Critical, AppSubscribe, SignalAndGoto, ExpSignalled
<1>10. PacketKnown'
  BY DEF Base, TypeOK, PacketKnown, Adding, AppSubscribe, SignalAndGoto, ExpSignalled
<1> QED BY <1>7, <1>8, <1>9, <1>10 DEF Base

\* AppResubscribe preserves Base.
LEMMA BaseAppResubscribe ==
    ASSUME Base, AppResubscribe PROVE Base'
<1> USE ThreadAssumption, NoneAssumption, DataAssumption DEF Threads, cache, locks, locals, expVars, appVars, ghosts, Goto
<1>1. devices \in Seq(Objs) /\ dev \in [Objs -> Cells] /\ now \in Nat
  BY DEF Base, TypeOK
<1>2. Cached \subseteq Objs
  BY <1>1, CachedCells
<1>3. Cached' = Cached
  BY DEF Cached, AppResubscribe
<1>4. ptr[App] \in Objs /\ dev[ptr[App]] \in Cells
  BY <1>1, <1>2 DEF Base, LockedPointersLive, AppResubscribe
<1>5. now + SubTime \in Nat
  BY <1>1, DataAssumption
<1>6. dev' \in [Objs -> Cells]
  <2>1. PICK s \in {0, now + SubTime} :
           dev' = [dev EXCEPT ![ptr[App]] = [dev[ptr[App]] EXCEPT !.sub = s]]
    BY DEF AppResubscribe
  <2>2. [dev[ptr[App]] EXCEPT !.sub = s] \in Cells
    BY <1>4, <1>5, <2>1, SubCell
  <2> QED BY <1>1, <1>4, <2>1, <2>2
<1>7. TypeOK'
  BY <1>1, <1>2, <1>3, <1>4, <1>5, <1>6 DEF Base, TypeOK, PacketKnown, Adding, LockedPointersLive, Labels, AppResubscribe
<1>8. LockDiscipline'
  BY DEF Base, TypeOK, LockDiscipline, Critical, AppResubscribe
<1>9. LockedPointersLive'
  BY <1>1, <1>2, <1>3, <1>4, <1>5, <1>6 DEF Base, TypeOK, LockDiscipline, LockedPointersLive, Critical, AppResubscribe
<1>10. PacketKnown'
  BY DEF Base, TypeOK, PacketKnown, Adding, AppResubscribe
<1> QED BY <1>7, <1>8, <1>9, <1>10 DEF Base

\* AppUnlock preserves Base.
LEMMA BaseAppUnlock ==
    ASSUME Base, AppUnlock PROVE Base'
<1> USE ThreadAssumption, NoneAssumption, DataAssumption DEF Threads, cache, locks, locals, expVars, appVars, ghosts, Goto
<1>1. TypeOK'
  BY DEF Base, TypeOK, PacketKnown, Adding, LockedPointersLive, Labels, AppUnlock, Release
<1>2. LockDiscipline'
  BY DEF Base, TypeOK, LockDiscipline, Critical, AppUnlock, Release
<1>3. LockedPointersLive'
  BY DEF Base, TypeOK, LockDiscipline, LockedPointersLive, Critical, Cached, AppUnlock, Release
<1>4. PacketKnown'
  BY DEF Base, TypeOK, PacketKnown, Adding, AppUnlock, Release
<1> QED BY <1>1, <1>2, <1>3, <1>4 DEF Base

\* IpLock preserves Base.
LEMMA BaseIpLock ==
    ASSUME Base, IpLock PROVE Base'
<1> USE ThreadAssumption, NoneAssumption, DataAssumption DEF Threads, cache, locks, locals, expVars, appVars, ghosts, Goto
<1>1. devices \in Seq(Objs) /\ dev \in [Objs -> Cells] /\ now \in Nat
  BY DEF Base, TypeOK
<1>2. Cached \subseteq Objs
  BY <1>1, CachedCells
<1>3. Cached' = Cached
  BY DEF Cached, IpLock, Acquire
<1>4. First \in Cached \cup {None}
  BY <1>1, FirstFact
<1>5. TypeOK'
  BY <1>1, <1>2, <1>3, <1>4 DEF Base, TypeOK, PacketKnown, Adding, LockedPointersLive, Labels, IpLock, Acquire
<1>6. LockDiscipline'
  BY DEF Base, TypeOK, LockDiscipline, Critical, IpLock, Acquire
<1>7. LockedPointersLive'
  BY <1>1, <1>2, <1>3, <1>4 DEF Base, TypeOK, LockDiscipline, LockedPointersLive, Critical, IpLock, Acquire
<1>8. PacketKnown'
  BY DEF Base, TypeOK, PacketKnown, Adding, IpLock, Acquire
<1> QED BY <1>5, <1>6, <1>7, <1>8 DEF Base

\* IpScanGone preserves Base.
LEMMA BaseIpScanGone ==
    ASSUME Base, IpScanGone PROVE Base'
<1> USE ThreadAssumption, NoneAssumption, DataAssumption DEF Threads, cache, locks, locals, expVars, appVars, ghosts, Goto
<1>1. devices \in Seq(Objs) /\ dev \in [Objs -> Cells] /\ now \in Nat
  BY DEF Base, TypeOK
<1>2. Cached \subseteq Objs
  BY <1>1, CachedCells
<1>3. Cached' = Cached
  BY DEF Cached, IpScanGone, Release
<1>4. cur[App] \in Cached
  BY DEF Base, LockedPointersLive, IpScanGone, Release
<1>5. NextOf(cur[App]) \in Cached \cup {None}
  BY <1>1, NextFact, <1>4
<1>6. TypeOK'
  BY <1>1, <1>2, <1>3, <1>4, <1>5 DEF Base, TypeOK, PacketKnown, Adding, LockedPointersLive, Labels, IpScanGone, Release
<1>7. LockDiscipline'
  BY DEF Base, TypeOK, LockDiscipline, Critical, IpScanGone, Release
<1>8. LockedPointersLive'
  BY <1>1, <1>2, <1>3, <1>4, <1>5 DEF Base, TypeOK, LockDiscipline, LockedPointersLive, Critical, IpScanGone, Release
<1>9. PacketKnown'
  BY DEF Base, TypeOK, PacketKnown, Adding, IpScanGone, Release
<1> QED BY <1>6, <1>7, <1>8, <1>9 DEF Base

\* IpScan preserves Base.
LEMMA BaseIpScan ==
    ASSUME Base, IpScan PROVE Base'
<1> USE ThreadAssumption, NoneAssumption, DataAssumption DEF Threads, cache, locks, locals, expVars, appVars, ghosts, Goto
<1>1. devices \in Seq(Objs) /\ dev \in [Objs -> Cells] /\ now \in Nat
  BY DEF Base, TypeOK
<1>2. Cached \subseteq Objs
  BY <1>1, CachedCells
<1>3. Cached' = Cached
  BY DEF Cached, IpScan
<1>4. cur[App] \in Cached
  BY DEF Base, LockedPointersLive, IpScan
<1>5. NextOf(cur[App]) \in Cached \cup {None}
  BY <1>1, NextFact, <1>4
<1>6. TypeOK'
  BY <1>1, <1>2, <1>3, <1>4, <1>5 DEF Base, TypeOK, PacketKnown, Adding, LockedPointersLive, Labels, IpScan
<1>7. LockDiscipline'
  BY DEF Base, TypeOK, LockDiscipline, Critical, IpScan
<1>8. LockedPointersLive'
  BY <1>1, <1>2, <1>3, <1>4, <1>5 DEF Base, TypeOK, LockDiscipline, LockedPointersLive, Critical, IpScan
<1>9. PacketKnown'
  BY DEF Base, TypeOK, PacketKnown, Adding, IpScan
<1> QED BY <1>6, <1>7, <1>8, <1>9 DEF Base

\* IpRelock preserves Base.
LEMMA BaseIpRelock ==
    ASSUME Base, IpRelock PROVE Base'
<1> USE ThreadAssumption, NoneAssumption, DataAssumption DEF Threads, cache, locks, locals, expVars, appVars, ghosts, Goto
<1>1. TypeOK'
  BY DEF Base, TypeOK, PacketKnown, Adding, LockedPointersLive, Labels, IpRelock, Acquire
<1>2. LockDiscipline'
  BY DEF Base, TypeOK, LockDiscipline, Critical, IpRelock, Acquire
<1>3. LockedPointersLive'
  BY DEF Base, TypeOK, LockDiscipline, LockedPointersLive, Critical, Cached, IpRelock, Acquire
<1>4. PacketKnown'
  BY DEF Base, TypeOK, PacketKnown, Adding, IpRelock, Acquire
<1> QED BY <1>1, <1>2, <1>3, <1>4 DEF Base

\* IpScanEnd preserves Base.
LEMMA BaseIpScanEnd ==
    ASSUME Base, IpScanEnd PROVE Base'
<1> USE ThreadAssumption, NoneAssumption, DataAssumption DEF Threads, cache, locks, locals, expVars, appVars, ghosts, Goto
<1>1. TypeOK'
  BY DEF Base, TypeOK, PacketKnown, Adding, LockedPointersLive, Labels, IpScanEnd, Release
<1>2. LockDiscipline'
  BY DEF Base, TypeOK, LockDiscipline, Critical, IpScanEnd, Release
<1>3. LockedPointersLive'
  BY DEF Base, TypeOK, LockDiscipline, LockedPointersLive, Critical, Cached, IpScanEnd, Release
<1>4. PacketKnown'
  BY DEF Base, TypeOK, PacketKnown, Adding, IpScanEnd, Release
<1> QED BY <1>1, <1>2, <1>3, <1>4 DEF Base

\* Stop preserves Base.
LEMMA BaseStop ==
    ASSUME Base, Stop PROVE Base'
<1> USE ThreadAssumption, NoneAssumption, DataAssumption DEF Threads, cache, locks, locals, expVars, appVars, ghosts, Goto
<1>1. TypeOK'
  BY DEF Base, TypeOK, PacketKnown, Adding, LockedPointersLive, Labels, Stop, ExpSignalled
<1>2. LockDiscipline'
  BY DEF Base, TypeOK, LockDiscipline, Critical, Stop, ExpSignalled
<1>3. LockedPointersLive'
  BY DEF Base, TypeOK, LockDiscipline, LockedPointersLive, Critical, Cached, Stop, ExpSignalled
<1>4. PacketKnown'
  BY DEF Base, TypeOK, PacketKnown, Adding, Stop, ExpSignalled
<1> QED BY <1>1, <1>2, <1>3, <1>4 DEF Base

\* StopLock preserves Base.
LEMMA BaseStopLock ==
    ASSUME Base, StopLock PROVE Base'
<1> USE ThreadAssumption, NoneAssumption, DataAssumption DEF Threads, cache, locks, locals, expVars, appVars, ghosts, Goto
<1>1. devices \in Seq(Objs) /\ dev \in [Objs -> Cells] /\ now \in Nat
  BY DEF Base, TypeOK
<1>2. Cached \subseteq Objs
  BY <1>1, CachedCells
<1>3. Cached' = Cached
  BY DEF Cached, StopLock, Acquire
<1>4. First \in Cached \cup {None}
  BY <1>1, FirstFact
<1>5. TypeOK'
  BY <1>1, <1>2, <1>3, <1>4 DEF Base, TypeOK, PacketKnown, Adding, LockedPointersLive, Labels, StopLock, Acquire
<1>6. LockDiscipline'
  BY DEF Base, TypeOK, LockDiscipline, Critical, StopLock, Acquire
<1>7. LockedPointersLive'
  BY <1>1, <1>2, <1>3, <1>4 DEF Base, TypeOK, LockDiscipline, LockedPointersLive, Critical, StopLock, Acquire
<1>8. PacketKnown'
  BY DEF Base, TypeOK, PacketKnown, Adding, StopLock, Acquire
<1> QED BY <1>5, <1>6, <1>7, <1>8 DEF Base

\* StopScanTell preserves Base.
LEMMA BaseStopScanTell ==
    ASSUME Base, StopScanTell PROVE Base'
<1> USE ThreadAssumption, NoneAssumption, DataAssumption DEF Threads, cache, locks, locals, expVars, appVars, ghosts, Goto
<1>1. devices \in Seq(Objs) /\ dev \in [Objs -> Cells] /\ now \in Nat
  BY DEF Base, TypeOK
<1>2. Cached \subseteq Objs
  BY <1>1, CachedCells
<1>3. Cached' = Cached
  BY DEF Cached, StopScanTell, Release
<1>4. cur[App] \in Cached
  BY DEF Base, LockedPointersLive, StopScanTell, Release
<1>5. dev[cur[App]].udn \in Udns \cup {None}
  BY <1>1, <1>2, <1>4 DEF Cells
<1>6. TypeOK'
  BY <1>1, <1>2, <1>3, <1>4, <1>5 DEF Base, TypeOK, PacketKnown, Adding, LockedPointersLive, Labels, StopScanTell, Release
<1>7. LockDiscipline'
  BY DEF Base, TypeOK, LockDiscipline, Critical, StopScanTell, Release
<1>8. LockedPointersLive'
  BY <1>1, <1>2, <1>3, <1>4, <1>5 DEF Base, TypeOK, LockDiscipline, LockedPointersLive, Critical, StopScanTell, Release
<1>9. PacketKnown'
  BY DEF Base, TypeOK, PacketKnown, Adding, StopScanTell, Release
<1> QED BY <1>6, <1>7, <1>8, <1>9 DEF Base

\* StopScanSkip preserves Base.
LEMMA BaseStopScanSkip ==
    ASSUME Base, StopScanSkip PROVE Base'
<1> USE ThreadAssumption, NoneAssumption, DataAssumption DEF Threads, cache, locks, locals, expVars, appVars, ghosts, Goto
<1>1. devices \in Seq(Objs) /\ dev \in [Objs -> Cells] /\ now \in Nat
  BY DEF Base, TypeOK
<1>2. Cached \subseteq Objs
  BY <1>1, CachedCells
<1>3. Cached' = Cached
  BY DEF Cached, StopScanSkip
<1>4. cur[App] \in Cached
  BY DEF Base, LockedPointersLive, StopScanSkip
<1>5. NextOf(cur[App]) \in Cached \cup {None}
  BY <1>1, NextFact, <1>4
<1>6. TypeOK'
  BY <1>1, <1>2, <1>3, <1>4, <1>5 DEF Base, TypeOK, PacketKnown, Adding, LockedPointersLive, Labels, StopScanSkip
<1>7. LockDiscipline'
  BY DEF Base, TypeOK, LockDiscipline, Critical, StopScanSkip
<1>8. LockedPointersLive'
  BY <1>1, <1>2, <1>3, <1>4, <1>5 DEF Base, TypeOK, LockDiscipline, LockedPointersLive, Critical, StopScanSkip
<1>9. PacketKnown'
  BY DEF Base, TypeOK, PacketKnown, Adding, StopScanSkip
<1> QED BY <1>6, <1>7, <1>8, <1>9 DEF Base

\* StopTell preserves Base.
LEMMA BaseStopTell ==
    ASSUME Base, StopTell PROVE Base'
<1> USE ThreadAssumption, NoneAssumption, DataAssumption DEF Threads, cache, locks, locals, expVars, appVars, ghosts, Goto
<1>1. TypeOK'
  BY DEF Base, TypeOK, PacketKnown, Adding, LockedPointersLive, Labels, StopTell, CallListener
<1>2. LockDiscipline'
  BY DEF Base, TypeOK, LockDiscipline, Critical, StopTell, CallListener
<1>3. LockedPointersLive'
  BY DEF Base, TypeOK, LockDiscipline, LockedPointersLive, Critical, Cached, StopTell, CallListener
<1>4. PacketKnown'
  BY DEF Base, TypeOK, PacketKnown, Adding, StopTell, CallListener
<1> QED BY <1>1, <1>2, <1>3, <1>4 DEF Base

\* StopRelock preserves Base.
LEMMA BaseStopRelock ==
    ASSUME Base, StopRelock PROVE Base'
<1> USE ThreadAssumption, NoneAssumption, DataAssumption DEF Threads, cache, locks, locals, expVars, appVars, ghosts, Goto
<1>1. devices \in Seq(Objs) /\ dev \in [Objs -> Cells] /\ now \in Nat
  BY DEF Base, TypeOK
<1>2. Cached \subseteq Objs
  BY <1>1, CachedCells
<1>3. Cached' = Cached
  BY DEF Cached, StopRelock, Acquire
<1>4. cur[App] \in Cached
  BY DEF Base, LockedPointersLive, StopRelock, Acquire
<1>5. NextOf(cur[App]) \in Cached \cup {None}
  BY <1>1, NextFact, <1>4
<1>6. TypeOK'
  BY <1>1, <1>2, <1>3, <1>4, <1>5 DEF Base, TypeOK, PacketKnown, Adding, LockedPointersLive, Labels, StopRelock, Acquire
<1>7. LockDiscipline'
  BY DEF Base, TypeOK, LockDiscipline, Critical, StopRelock, Acquire
<1>8. LockedPointersLive'
  BY <1>1, <1>2, <1>3, <1>4, <1>5 DEF Base, TypeOK, LockDiscipline, LockedPointersLive, Critical, StopRelock, Acquire
<1>9. PacketKnown'
  BY DEF Base, TypeOK, PacketKnown, Adding, StopRelock, Acquire
<1> QED BY <1>6, <1>7, <1>8, <1>9 DEF Base

\* StopClear preserves Base.
LEMMA BaseStopClear ==
    ASSUME Base, StopClear PROVE Base'
<1> USE ThreadAssumption, NoneAssumption, DataAssumption DEF Threads, cache, locks, locals, expVars, appVars, ghosts, Goto
<1>1. devices \in Seq(Objs) /\ dev \in [Objs -> Cells] /\ now \in Nat
  BY DEF Base, TypeOK
<1>2. Cached \subseteq Objs
  BY <1>1, CachedCells
<1>3. devices' \in Seq(Objs) /\ dev' \in [Objs -> Cells]
  BY FreedCell DEF StopClear
<1>4. TypeOK'
  BY <1>1, <1>2, <1>3 DEF Base, TypeOK, PacketKnown, Adding, LockedPointersLive, Labels, StopClear, Release
<1>5. LockDiscipline'
  BY DEF Base, TypeOK, LockDiscipline, Critical, StopClear, Release
<1>6. LockedPointersLive'
  BY <1>1, <1>2, <1>3 DEF Base, TypeOK, LockDiscipline, LockedPointersLive, Critical, StopClear, Release
<1>7. PacketKnown'
  BY DEF Base, TypeOK, PacketKnown, Adding, StopClear, Release
<1> QED BY <1>4, <1>5, <1>6, <1>7 DEF Base

\* Base holds at the start.
LEMMA BaseInit == ASSUME Init PROVE Base
<1> USE ThreadAssumption, NoneAssumption, DataAssumption DEF Threads, Init
<1>1. Freed \in Cells
  BY FreedCell
<1>2. devices \in Seq(Objs) /\ dev \in [Objs -> Cells]
  BY <1>1, EmptySeq
<1>3. pc \in [Threads -> Labels]
  BY DEF Labels
<1>4. TypeOK
  <2>1. now \in Nat \ {0} /\ clk \in Nat /\ minExp \in Nat /\ deadline \in Nat
    OBVIOUS
  <2>2. /\ expMutex \in BOOLEAN /\ runnable \in BOOLEAN /\ serving \in BOOLEAN
        /\ fault \in BOOLEAN /\ foreign \subseteq Udns
    OBVIOUS
  <2>3. /\ pkt \in [Threads -> Packets \cup {None}] /\ udn \in [Threads -> Udns \cup {None}]
        /\ ptr \in [Threads -> Objs \cup {None}] /\ cur \in [Threads -> Objs \cup {None}]
        /\ status \in [Threads -> {"Added", "Updated", "Invalid"}]
    OBVIOUS
  <2>4. cpLock \in Threads \cup {None} /\ gone \in Ifcs \cup {None}
    OBVIOUS
  <2> QED BY <1>2, <1>3, <2>1, <2>2, <2>3, <2>4 DEF TypeOK
<1>5. LockDiscipline /\ LockedPointersLive /\ PacketKnown
  BY DEF LockDiscipline, Critical, LockedPointersLive, PacketKnown, Adding
<1> QED BY <1>4, <1>5 DEF Base

\* External preserves Base.
LEMMA BaseExternal == ASSUME Base, External PROVE Base'
<1> USE ThreadAssumption, NoneAssumption, DataAssumption
        DEF Threads, cache, locks, locals, expVars, appVars, ghosts, Goto, Base, TypeOK,
            LockDiscipline, LockedPointersLive, Critical, PacketKnown, Adding, Labels
<1>1. ASSUME NEW t \in Ssdp, NEW p \in Packets, ReceiveAlive(t, p) PROVE Base'
  <2>1. p \in Alive /\ p.udn \in Udns
    BY DEF Alive
  <2>2. TypeOK'
    BY <1>1, <2>1 DEF ReceiveAlive
  <2>3. LockDiscipline' /\ LockedPointersLive'
    BY <1>1, <2>1 DEF ReceiveAlive, Cached
  <2>4. PacketKnown'
    BY <1>1, <2>1 DEF ReceiveAlive
  <2> QED BY <2>2, <2>3, <2>4
<1>2. ASSUME NEW t \in Ssdp, NEW u \in Byebyes, ReceiveByebye(t, u) PROVE Base'
  <2>1. TypeOK'
    BY <1>2 DEF ReceiveByebye
  <2>2. LockDiscipline' /\ LockedPointersLive' /\ PacketKnown'
    BY <1>2 DEF ReceiveByebye, Cached
  <2> QED BY <2>1, <2>2
<1>3. ASSUME NEW i \in Ifcs, IpChanged(i) PROVE Base'
  <2>1. TypeOK'
    BY <1>3 DEF IpChanged
  <2>2. LockDiscipline' /\ LockedPointersLive' /\ PacketKnown'
    BY <1>3 DEF IpChanged, Cached
  <2> QED BY <2>1, <2>2
<1> QED
  BY <1>1, <1>2, <1>3, BaseAppLock, BaseAppSubscribe, BaseAppResubscribe, BaseStop
     DEF External

\* Thread preserves Base.
LEMMA BaseThread == ASSUME Base, NEW t \in Threads, ThreadStep(t) PROVE Base'
<1>1. CASE t \in Ssdp /\ AddStep(t)
    BY <1>1, BaseAddLookup, BaseFetchOk, BaseFetchFails, BaseRefetchOk,
       BaseRefetchFails, BaseAddSignal, BaseAddUnlock, BaseTellAdd DEF AddStep
<1>2. CASE RemoveStep(t)
    BY <1>2, BaseReadVictim, BaseRemoveUnknown, BaseRemoveLookup, BaseRemoveSilently,
       BaseTellRemove, BaseRemoveDelete DEF RemoveStep
<1>3. CASE ExpStep
    BY <1>3, BaseExpEnter, BaseExpCheck, BaseExpLock, BaseExpScanExpired, BaseExpScan,
       BaseExpRelock, BaseExpScanEnd, BaseExpSleep, BaseExpCommit, BaseExpWait,
       BaseExpTimeout DEF ExpStep
<1>4. CASE AppUnlock \/ IpStep \/ StopStep
    BY <1>4, BaseAppUnlock, BaseIpLock, BaseIpScanGone, BaseIpScan, BaseIpRelock,
       BaseIpScanEnd, BaseStopLock, BaseStopScanTell, BaseStopScanSkip, BaseStopTell,
       BaseStopRelock, BaseStopClear DEF IpStep, StopStep
<1>5. CASE UseAfterFree(t)
  BY <1>5 DEF UseAfterFree, Base, TypeOK, LockDiscipline, LockedPointersLive, PacketKnown,
     Cached, cache, locks, locals, expVars, appVars, ghosts
<1> QED BY <1>1, <1>2, <1>3, <1>4, <1>5 DEF ThreadStep

\* Next preserves Base.
LEMMA BaseNext == ASSUME Base, [Next]_vars PROVE Base'
<1>1. CASE External
  BY <1>1, BaseExternal
<1>2. CASE \E t \in Threads : ThreadStep(t)
  BY <1>2, BaseThread
<1>3. CASE Tick
  BY <1>3 DEF Tick, Base, TypeOK, LockDiscipline, LockedPointersLive, PacketKnown,
     Cached, cache, locks, locals, expVars, appVars, ghosts
<1>4. CASE UNCHANGED vars
  BY <1>4 DEF vars, Base, TypeOK, LockDiscipline, LockedPointersLive, PacketKnown,
     Cached, cache, locks, locals, expVars, appVars, ghosts
<1> QED BY <1>1, <1>2, <1>3, <1>4 DEF Next

\* Base is an invariant of the specification.
THEOREM BaseInvariant == Spec => []Base
<1>1. Init => Base
  BY BaseInit
<1>2. Base /\ [Next]_vars => Base'
  BY BaseNext
<1> QED BY <1>1, <1>2, PTL DEF Spec

\* Every variable keeps its type (TypeOK is not inductive without Base).
THEOREM TypeCorrect == Spec => []TypeOK
<1>1. Base => TypeOK
  BY DEF Base
<1> QED BY <1>1, BaseInvariant, PTL

\* The control point's mutex is held exactly inside the locked sections, by one
\* thread, and expMutex exactly where the expiration thread takes and drops it.
THEOREM LocksCorrect == Spec => []LockDiscipline
<1>1. Base => LockDiscipline
  BY DEF Base
<1> QED BY <1>1, BaseInvariant, PTL

\* What ccontrolpoint.h promises for pointers taken under the lock, however many
\* receive threads there are.
THEOREM PointersCorrect == Spec => []LockedPointersLive
<1>1. Base => LockedPointersLive
  BY DEF Base
<1> QED BY <1>1, BaseInvariant, PTL

-----------------------------------------------------------------------------
(* The list and the names.                                                 *)

\* While a new device is fetched its name is not in the cache, and while the description
\* of a device is fetched again it has the name that was looked up: the lock is held.
FetchFresh == \A t \in Threads : pc[t] = "fetch" => WithUdn(udn[t]) = {}
RefetchKnown == \A t \in Threads : pc[t] = "refetch" => dev[ptr[t]].udn = udn[t]

Names == ListIntact /\ UniqueUdn /\ FetchFresh /\ RefetchKnown

Fetching == {"fetch", "refetch"}

\* Nobody begins to fetch, and who fetches goes on with the same name and device.
NoNewFetch ==
    \A t \in Threads : pc'[t] \in Fetching =>
        pc'[t] = pc[t] /\ udn'[t] = udn[t] /\ ptr'[t] = ptr[t]

\* A step that leaves the list and the names alone keeps them apart.
LEMMA SameNames ==
    ASSUME Base, Names, devices' = devices, foreign' = foreign,
           \A o \in Objs : dev'[o].udn = dev[o].udn
    PROVE  Cached' = Cached /\ Cached \subseteq Objs /\ ListIntact' /\ UniqueUdn'
<1>1. Cached' = Cached /\ Cached \subseteq Objs
  BY CachedCells DEF Base, TypeOK, Cached
<1>2. ListIntact'
  BY DEF Names, ListIntact
<1>3. UniqueUdn'
  BY <1>1 DEF Names, UniqueUdn
<1> QED BY <1>1, <1>2, <1>3

\* Names survives a step that leaves the list, the names and the fetching threads alone.
LEMMA KeepNames ==
    ASSUME Base, Names, NoNewFetch, devices' = devices, foreign' = foreign,
           \A o \in Objs : dev'[o].udn = dev[o].udn
    PROVE  Names'
<1>1. Cached' = Cached /\ Cached \subseteq Objs /\ ListIntact' /\ UniqueUdn'
  BY SameNames
<1>2. FetchFresh'
  <2> SUFFICES ASSUME NEW t \in Threads, pc'[t] = "fetch", NEW o \in Cached,
                      dev'[o].udn = udn'[t]
               PROVE  FALSE
    BY <1>1 DEF FetchFresh, WithUdn
  <2>1. pc[t] = "fetch" /\ udn'[t] = udn[t]
    BY DEF NoNewFetch, Fetching
  <2>2. dev[o].udn = udn[t]
    BY <1>1, <2>1
  <2> QED BY <2>1, <2>2 DEF Names, FetchFresh, WithUdn
<1>3. RefetchKnown'
  <2> SUFFICES ASSUME NEW t \in Threads, pc'[t] = "refetch"
               PROVE  dev'[ptr'[t]].udn = udn'[t]
    BY DEF RefetchKnown
  <2>1. pc[t] = "refetch" /\ udn'[t] = udn[t] /\ ptr'[t] = ptr[t]
    BY DEF NoNewFetch, Fetching
  <2>2. ptr[t] \in Objs
    BY <1>1, <2>1 DEF Base, LockedPointersLive
  <2>3. dev[ptr[t]].udn = udn[t]
    BY <2>1 DEF Names, RefetchKnown
  <2> QED BY <2>1, <2>2, <2>3
<1> QED BY <1>1, <1>2, <1>3 DEF Names

\* Names survives the deletion of a cached device: nobody else fetches meanwhile.
LEMMA DeleteNames ==
    ASSUME Base, Names, foreign' = foreign, \A t \in Threads : pc'[t] \notin Fetching,
           NEW o \in Cached, DeleteDevice(o)
    PROVE  Names'
<1>1. /\ devices \in Seq(Objs) /\ dev \in [Objs -> Cells] /\ Cached \subseteq Objs
      /\ Position(o) \in 1 .. Len(devices) /\ Len(devices) \in Nat
  BY PositionFact, CachedCells DEF Base, TypeOK
<1>2. /\ Cached' \subseteq Cached
      /\ \A p \in Objs : dev'[p] = IF p = o THEN Freed ELSE dev[p]
  BY <1>1, DeleteFact
<1>3. \A p \in Objs : dev'[p].udn \in {dev[p].udn, None}
  BY <1>2 DEF Freed
<1>4. ListIntact'
  <2> SUFFICES ASSUME NEW i \in DOMAIN devices', NEW j \in DOMAIN devices',
                      devices'[i] = devices'[j]
               PROVE  i = j
    BY DEF ListIntact
  <2> DEFINE At(k) == IF k < Position(o) THEN k ELSE k + 1
  <2>1. i \in 1 .. Len(devices) - 1 /\ j \in 1 .. Len(devices) - 1
    BY DEF DeleteDevice, Unlinked
  <2>2. devices'[i] = devices[At(i)] /\ devices'[j] = devices[At(j)]
    BY <2>1 DEF DeleteDevice, Unlinked
  <2>3. At(i) \in DOMAIN devices /\ At(j) \in DOMAIN devices
    BY <1>1, <2>1
  <2>4. At(i) = At(j)
    BY <2>2, <2>3 DEF Names, ListIntact
  <2> QED BY <1>1, <2>1, <2>4
<1>5. UniqueUdn'
  BY <1>1, <1>2, <1>3 DEF Names, UniqueUdn
<1>6. FetchFresh' /\ RefetchKnown'
  BY DEF FetchFresh, RefetchKnown, Fetching
<1> QED BY <1>4, <1>5, <1>6 DEF Names

\* Names survives the insertion of a fetched device: the lock kept the name that was
\* looked up out of the cache, and any other name is marked as foreign.
LEMMA FetchNames ==
    ASSUME Base, Names, NEW t \in Ssdp, FetchOk(t) PROVE Names'
<1>1. devices \in Seq(Objs) /\ dev \in [Objs -> Cells] /\ Cached \subseteq Objs
  BY CachedCells DEF Base, TypeOK
<1>2. PICK o \in Objs \ Cached, u \in Carried(pkt[t].loc) :
         /\ devices' = Append(devices, o)
         /\ dev' = [dev EXCEPT ![o] = WithPacket([Freed EXCEPT !.udn = u], pkt[t])]
         /\ foreign' = foreign \cup ({u} \ {udn[t]})
  BY DEF FetchOk
<1>3. dev'[o].udn = u /\ \A p \in Cached : dev'[p] = dev[p]
  BY <1>1, <1>2 DEF WithPacket, Freed
<1>4. /\ DOMAIN devices' = 1 .. Len(devices) + 1 /\ Len(devices) \in Nat
      /\ devices'[Len(devices) + 1] = o
      /\ \A i \in 1 .. Len(devices) : devices'[i] = devices[i] /\ devices[i] \in Cached
  BY <1>1, <1>2 DEF Cached
<1>5. Cached' = Cached \cup {o}
  BY <1>4 DEF Cached
<1>6. ListIntact'
  BY <1>1, <1>2, <1>4 DEF Names, ListIntact
<1>7. \A p \in Cached : dev[p].udn # udn[t]
  BY DEF Names, FetchFresh, WithUdn, FetchOk, Threads
<1>8. UniqueUdn'
  <2>1. foreign \subseteq foreign' /\ (u \in foreign' \/ u = udn[t])
    BY <1>2
  <2> QED BY <1>3, <1>5, <1>7, <2>1 DEF Names, UniqueUdn
<1>9. FetchFresh' /\ RefetchKnown'
  <2>1. \A s \in Threads : pc'[s] \notin Fetching
    BY ThreadAssumption, NoneAssumption
       DEF FetchOk, Goto, Base, TypeOK, LockDiscipline, Critical, Threads, Fetching
  <2> QED BY <2>1 DEF FetchFresh, RefetchKnown, Fetching
<1> QED BY <1>6, <1>8, <1>9 DEF Names

\* Names survives a new description for a cached device: it keeps the name that was
\* looked up, loses it, or the new name is marked as foreign.
LEMMA RefetchNames ==
    ASSUME Base, Names, NEW t \in Ssdp, RefetchOk(t) PROVE Names'
<1> DEFINE o == ptr[t]
<1>1. /\ devices \in Seq(Objs) /\ dev \in [Objs -> Cells] /\ Cached \subseteq Objs
      /\ t \in Threads /\ pc[t] = "refetch"
  BY CachedCells DEF Base, TypeOK, RefetchOk, Threads
<1>2. o \in Cached /\ dev[o].udn = udn[t] /\ Cached' = Cached /\ devices' = devices
  <2>1. o \in Cached
    BY <1>1 DEF Base, LockedPointersLive
  <2>2. dev[o].udn = udn[t]
    BY <1>1 DEF Names, RefetchKnown
  <2>3. devices' = devices
    BY DEF RefetchOk
  <2>4. Cached' = Cached
    BY <2>3 DEF Cached
  <2> QED BY <2>1, <2>2, <2>3, <2>4
<1>3. PICK d : dev' = [dev EXCEPT ![o] = d] /\ foreign' = foreign \cup ({d.udn} \ {udn[t], None})
  BY DEF RefetchOk
<1>4. \A p \in Cached : dev'[p] = IF p = o THEN d ELSE dev[p]
  BY <1>1, <1>2, <1>3
<1>5. ListIntact'
  BY <1>2 DEF Names, ListIntact
<1>6. UniqueUdn'
  <2>1. foreign \subseteq foreign' /\ d.udn \in foreign' \cup {udn[t], None}
    BY <1>3
  <2>2. \A p \in Cached : p # o /\ dev[p].udn = d.udn => d.udn \in foreign' \cup {None}
    BY <1>2, <2>1 DEF Names, UniqueUdn
  <2> HIDE DEF o
  <2> QED BY <1>2, <1>4, <2>1, <2>2 DEF Names, UniqueUdn
<1>7. FetchFresh' /\ RefetchKnown'
  <2>1. \A s \in Threads : pc'[s] \notin Fetching
    BY ThreadAssumption, NoneAssumption
       DEF RefetchOk, Goto, Base, TypeOK, LockDiscipline, Critical, Threads, Fetching
  <2> QED BY <2>1 DEF FetchFresh, RefetchKnown, Fetching
<1> QED BY <1>5, <1>6, <1>7 DEF Names

\* Names survives a lookup: whoever starts a fetch has found nobody of that name.
LEMMA LookupNames ==
    ASSUME Base, Names, NEW t \in Ssdp, AddLookup(t) PROVE Names'
<1>1. /\ devices' = devices /\ udn' = udn /\ foreign' = foreign /\ t \in Threads
      /\ pc \in [Threads -> Labels] /\ ptr \in [Threads -> Objs \cup {None}]
  BY DEF AddLookup, Threads, Base, TypeOK, ghosts
<1>2. \A s \in Threads : pc[s] \notin Fetching
  BY NoneAssumption DEF AddLookup, Acquire, Base, LockDiscipline, Critical, Fetching, Threads
<1>3. CASE WithUdn(udn[t]) = {} /\ Goto(t, "fetch") /\ dev' = dev
  <2>1. Cached' = Cached /\ Cached \subseteq Objs /\ ListIntact' /\ UniqueUdn'
    BY <1>1, <1>3, SameNames
  <2>2. \A s \in Threads : pc'[s] \in Fetching => s = t /\ pc'[s] = "fetch"
    BY <1>1, <1>2, <1>3 DEF Goto
  <2> QED BY <1>1, <1>3, <2>1, <2>2 DEF Names, FetchFresh, RefetchKnown, WithUdn, Fetching
<1>4. CASE \E o \in Found(udn[t]) :
              /\ dev' = [dev EXCEPT ![o] = WithPacket(@, pkt[t])]
              /\ ptr' = [ptr EXCEPT ![t] = o]
              /\ Goto(t, IF dev[o].loc = pkt[t].loc THEN "signal" ELSE "refetch")
  <2>1. PICK o \in WithUdn(udn[t]) :
              /\ dev' = [dev EXCEPT ![o] = WithPacket(dev[o], pkt[t])]
              /\ ptr' = [ptr EXCEPT ![t] = o]
              /\ Goto(t, IF dev[o].loc = pkt[t].loc THEN "signal" ELSE "refetch")
    BY <1>4 DEF Found
  <2>2. \A p \in Objs : dev'[p].udn = dev[p].udn
    BY <2>1 DEF Base, TypeOK, WithPacket, Cells
  <2>3. Cached' = Cached /\ Cached \subseteq Objs /\ ListIntact' /\ UniqueUdn'
    BY <1>1, <2>2, SameNames
  <2>4. \A s \in Threads : pc'[s] \in Fetching => s = t /\ pc'[s] = "refetch"
    BY <1>1, <1>2, <2>1 DEF Goto, Fetching
  <2>5. ptr'[t] = o /\ dev'[o].udn = udn'[t]
    BY <1>1, <2>1, <2>2, <2>3 DEF WithUdn
  <2>6. FetchFresh' /\ RefetchKnown'
    BY <2>4, <2>5 DEF FetchFresh, RefetchKnown, Fetching
  <2> QED BY <2>3, <2>6 DEF Names
<1> QED BY <1>3, <1>4 DEF AddLookup

\* External preserves Names.
LEMMA NamesExternal == ASSUME Base, Names, External PROVE Names'
<1> SUFFICES /\ NoNewFetch /\ devices' = devices /\ foreign' = foreign
             /\ \A o \in Objs : dev'[o].udn = dev[o].udn
  BY KeepNames
<1> USE DEF NoNewFetch, Fetching, cache, ghosts, Goto, Base, TypeOK, Threads
<1>1. CASE \E t \in Ssdp, p \in Packets : ReceiveAlive(t, p)
  BY <1>1 DEF ReceiveAlive
<1>2. CASE \E t \in Ssdp, u \in Byebyes : ReceiveByebye(t, u)
  BY <1>2 DEF ReceiveByebye
<1>3. CASE AppLock
  BY <1>3 DEF AppLock, locals
<1>4. CASE AppSubscribe
  BY <1>4 DEF AppSubscribe, locals, SignalAndGoto, ExpSignalled, Cells
<1>5. CASE AppResubscribe
  BY <1>5 DEF AppResubscribe, locals, Cells
<1>6. CASE \E i \in Ifcs : IpChanged(i)
  BY <1>6 DEF IpChanged, locals
<1>7. CASE Stop
  BY <1>7 DEF Stop, locals, ExpSignalled
<1> QED BY <1>1, <1>2, <1>3, <1>4, <1>5, <1>6, <1>7 DEF External

\* Add preserves Names.
LEMMA NamesAdd == ASSUME Base, Names, NEW t \in Ssdp, AddStep(t) PROVE Names'
<1> t \in Threads
  BY DEF Threads
<1>1. CASE AddLookup(t)
  BY <1>1, LookupNames
<1>2. CASE FetchOk(t)
  BY <1>2, FetchNames
<1>3. CASE RefetchFails(t)
  <2>1. ptr[t] \in Cached /\ DeleteDevice(ptr[t]) /\ foreign' = foreign
    BY <1>3 DEF RefetchFails, Base, LockedPointersLive, ghosts
  <2>2. \A s \in Threads : pc'[s] \notin Fetching
    BY <1>3, NoneAssumption
       DEF RefetchFails, Goto, Base, TypeOK, LockDiscipline, Critical, Fetching
  <2> QED BY <2>1, <2>2, DeleteNames
<1>4. CASE RefetchOk(t)
  BY <1>4, RefetchNames
<1>5. CASE FetchFails(t) \/ AddSignal(t) \/ AddUnlock(t) \/ TellAdd(t)
  <2>1. devices' = devices /\ dev' = dev /\ foreign' = foreign
    BY <1>5 DEF FetchFails, AddSignal, AddUnlock, TellAdd, cache, ghosts
  <2>2. NoNewFetch
    BY <1>5 DEF FetchFails, AddSignal, AddUnlock, TellAdd, NoNewFetch, Fetching, Goto,
       locals, Forget, SignalAndGoto, ExpSignalled, Base, TypeOK
  <2> QED BY <2>1, <2>2, KeepNames
<1> QED BY <1>1, <1>2, <1>3, <1>4, <1>5 DEF AddStep

\* Remove preserves Names.
LEMMA NamesRemove == ASSUME Base, Names, NEW t \in Threads, RemoveStep(t) PROVE Names'
<1>1. foreign' = foreign
  BY DEF RemoveStep, ReadVictim, RemoveUnknown, RemoveLookup, RemoveSilently, TellRemove,
     RemoveDelete, ghosts
<1>2. CASE RemoveSilently(t) \/ RemoveDelete(t)
  <2>1. \A s \in Threads : pc'[s] \notin Fetching
    BY <1>2, NoneAssumption
       DEF RemoveSilently, RemoveDelete, Goto, ReturnPc, Base, TypeOK, LockDiscipline,
           Critical, Fetching, Threads
  <2>2. \E o \in Cached : DeleteDevice(o)
    BY <1>2 DEF RemoveSilently, RemoveDelete, Found, WithUdn
  <2> QED BY <1>1, <2>1, <2>2, DeleteNames
<1>3. CASE ReadVictim(t) \/ RemoveUnknown(t) \/ RemoveLookup(t) \/ TellRemove(t)
  <2>1. devices' = devices /\ dev' = dev
    BY <1>3 DEF ReadVictim, RemoveUnknown, RemoveLookup, TellRemove, cache
  <2>2. NoNewFetch
    BY <1>3 DEF ReadVictim, RemoveUnknown, RemoveLookup, TellRemove, NoNewFetch, Fetching,
       Goto, locals, Forget, ReturnPc, Base, TypeOK
  <2> QED BY <1>1, <2>1, <2>2, KeepNames
<1> QED BY <1>2, <1>3 DEF RemoveStep

\* Exp preserves Names.
LEMMA NamesExp == ASSUME Base, Names, ExpStep PROVE Names'
<1>1. NoNewFetch /\ foreign' = foreign
  BY DEF ExpStep, ExpEnter, ExpCheck, ExpLock, ExpScanExpired, ExpScan, ExpRelock,
     ExpScanEnd, ExpSleep, ExpCommit, ExpWait, ExpTimeout, NoNewFetch, Fetching, Goto,
     locals, ghosts, Base, TypeOK
<1>2. CASE ExpScan
  <2>1. \A o \in Objs : dev'[o].udn = dev[o].udn
    BY <1>2 DEF ExpScan, ServiceCheck, Base, TypeOK, Cells
  <2> QED BY <1>1, <1>2, <2>1, KeepNames DEF ExpScan
<1>3. CASE ExpRelock
  <2>1. ASSUME cur[Exp] = None PROVE \A o \in Objs : dev'[o].udn = dev[o].udn
    BY <1>3, <2>1 DEF ExpRelock
  <2>2. ASSUME cur[Exp] # None PROVE \A o \in Objs : dev'[o].udn = dev[o].udn
    <3>1. PICK s : dev' = [dev EXCEPT ![cur[Exp]].sub = s]
      BY <1>3, <2>2 DEF ExpRelock, ServiceCheck
    <3> QED BY <3>1 DEF Base, TypeOK, Cells
  <2>3. \A o \in Objs : dev'[o].udn = dev[o].udn
    BY <2>1, <2>2
  <2> QED BY <1>1, <1>3, <2>3, KeepNames DEF ExpRelock
<1>4. CASE \/ ExpEnter \/ ExpCheck \/ ExpLock \/ ExpScanExpired \/ ExpScanEnd
           \/ ExpSleep \/ ExpCommit \/ ExpWait \/ ExpTimeout
  <2>1. devices' = devices /\ dev' = dev
    BY <1>4 DEF ExpEnter, ExpCheck, ExpLock, ExpScanExpired, ExpScanEnd, ExpSleep,
       ExpCommit, ExpWait, ExpTimeout, cache
  <2> QED BY <1>1, <2>1, KeepNames
<1> QED BY <1>2, <1>3, <1>4 DEF ExpStep

\* The application's own steps preserve Names.
LEMMA NamesApp ==
    ASSUME Base, Names, AppUnlock \/ IpStep \/ StopStep PROVE Names'
<1>1. NoNewFetch /\ foreign' = foreign
  BY DEF AppUnlock, IpStep, StopStep, IpLock, IpScanGone, IpScan, IpRelock, IpScanEnd,
     StopLock, StopScanTell, StopScanSkip, StopTell, StopRelock, StopClear, NoNewFetch,
     Fetching, Goto, locals, ghosts, Base, TypeOK, Threads
<1>2. CASE StopClear
  <2>1. devices' = <<>> /\ Cached' = {}
    BY <1>2 DEF StopClear, Cached
  <2>2. \A s \in Threads : pc'[s] \notin Fetching
    BY <1>2, ThreadAssumption, NoneAssumption
       DEF StopClear, Goto, Base, TypeOK, LockDiscipline, Critical, Fetching, Threads
  <2> QED BY <2>1, <2>2 DEF Names, ListIntact, UniqueUdn, FetchFresh, RefetchKnown, Fetching
<1>3. CASE AppUnlock \/ IpStep \/ (StopStep /\ ~StopClear)
  <2>1. devices' = devices /\ dev' = dev
    BY <1>3 DEF AppUnlock, IpStep, StopStep, IpLock, IpScanGone, IpScan, IpRelock,
       IpScanEnd, StopLock, StopScanTell, StopScanSkip, StopTell, StopRelock, cache
  <2> QED BY <1>1, <2>1, KeepNames
<1> QED BY <1>2, <1>3

\* Next preserves Names.
LEMMA NamesNext == ASSUME Base, Names, [Next]_vars PROVE Names'
<1>1. CASE External
  BY <1>1, NamesExternal
<1>2. ASSUME NEW t \in Threads, ThreadStep(t) PROVE Names'
  <2>1. CASE UseAfterFree(t)
    BY <2>1, KeepNames DEF UseAfterFree, cache, locals, NoNewFetch
  <2> QED BY <1>2, <2>1, NamesAdd, NamesRemove, NamesExp, NamesApp DEF ThreadStep
<1>3. CASE Tick \/ UNCHANGED vars
  BY <1>3, KeepNames DEF Tick, vars, cache, locals, ghosts, NoNewFetch
<1> QED BY <1>1, <1>2, <1>3 DEF Next

\* Names holds at the start.
LEMMA NamesInit == ASSUME Init PROVE Names
BY DEF Init, Names, ListIntact, UniqueUdn, FetchFresh, RefetchKnown, Cached, Threads

\* Names is an invariant of the specification.
THEOREM NamesInvariant == Spec => []Names
<1>1. Init => Names
  BY NamesInit
<1>2. Base /\ Names /\ [Next]_vars => Names'
  BY NamesNext
<1> QED BY <1>1, <1>2, BaseInvariant, PTL DEF Spec

\* However many threads announce, expire and remove devices, no two cached devices
\* ever have the same name, unless a description with that name has been found under the
\* packet of another device.
THEOREM UdnsUnique == Spec => []UniqueUdn
<1>1. Names => UniqueUdn
  BY DEF Names
<1> QED BY <1>1, NamesInvariant, PTL

\* The device list never links a cell twice, in spite of the deletions through
\* pointers that were taken before the lock was given up.
THEOREM ListCorrect == Spec => []ListIntact
<1>1. Names => ListIntact
  BY DEF Names
<1> QED BY <1>1, NamesInvariant, PTL

-----------------------------------------------------------------------------
(* What a stopped control point may hold.                                  *)

Stopping == {"stopLock", "stopScan", "stopTell", "stopRelock", "stopped"}

\* From the moment stop has begun no receive thread takes another packet.
Deaf == pc[App] \in Stopping => ~serving

Halted == Deaf /\ StoppedHoldsFew

\* A step that makes no thread an inserting one and does not end a stop.
NoNewInsert == Inserting' \subseteq Inserting /\ (pc'[App] = "stopped" => pc[App] = "stopped")

\* Some receive threads are at most all of them, and there are finitely many.
LEMMA InsertingFact ==
    /\ IsFiniteSet(Inserting) /\ Cardinality(Inserting) \in Nat /\ Cardinality(Ssdp) \in Nat
    /\ \A S \in SUBSET Inserting : Cardinality(S) <= Cardinality(Inserting)
    /\ \A S \in SUBSET Ssdp : Cardinality(S) \in Nat /\ Cardinality(S) <= Cardinality(Ssdp)
<1>1. IsFiniteSet(Ssdp) /\ Inserting \subseteq Ssdp
  BY ThreadAssumption DEF Inserting
<1>2. \A S \in SUBSET Ssdp : IsFiniteSet(S) /\ Cardinality(S) <= Cardinality(Ssdp)
  BY <1>1, FS_Subset
<1>3. \A S \in SUBSET Ssdp : Cardinality(S) \in Nat
  BY <1>2, FS_CardinalityType
<1>4. \A S \in SUBSET Inserting : Cardinality(S) <= Cardinality(Inserting)
  BY <1>1, <1>2, FS_Subset
<1> QED BY <1>1, <1>2, <1>3, <1>4

\* StoppedHoldsFew survives a step that adds no device and no inserting thread.
LEMMA KeepFew ==
    ASSUME Base, Base', StoppedHoldsFew, NoNewInsert, Len(devices') <= Len(devices)
    PROVE  StoppedHoldsFew'
<1>1. Len(devices) \in Nat /\ Len(devices') \in Nat
  BY LenProperties DEF Base, TypeOK
<1>2. /\ Cardinality(Inserting') <= Cardinality(Inserting)
      /\ Cardinality(Inserting) \in Nat /\ Cardinality(Inserting') \in Nat
      /\ Cardinality(Ssdp) \in Nat
  <2>1. Inserting' \in SUBSET Inserting /\ Inserting' \in SUBSET Ssdp
    BY DEF NoNewInsert, Inserting
  <2> QED BY <2>1, InsertingFact
<1> QED BY <1>1, <1>2 DEF StoppedHoldsFew, NoNewInsert

\* A deletion makes the list shorter.
LEMMA DeleteShortens ==
    ASSUME Base, NEW o \in Cached, DeleteDevice(o) PROVE Len(devices') <= Len(devices)
<1>1. Position(o) \in 1 .. Len(devices) /\ Len(devices) \in Nat
  BY PositionFact DEF Base, TypeOK
<1>2. Len(devices) - 1 \in Nat
  BY <1>1
<1>3. devices' = Unlinked(o) /\ devices' \in Seq(Objs)
  BY DeleteFact DEF DeleteDevice, Base, TypeOK
<1>4. DOMAIN devices' = 1 .. Len(devices) - 1
  BY <1>3 DEF Unlinked
<1>5. Len(devices') = Len(devices) - 1
  BY <1>2, <1>3, <1>4, LenProperties
<1> QED BY <1>1, <1>5

\* An insertion makes the list longer by one, and its thread inserts no more.
LEMMA FetchFew ==
    ASSUME Base, StoppedHoldsFew, NEW t \in Ssdp, FetchOk(t) PROVE StoppedHoldsFew'
<1>1. t \in Inserting /\ Inserting' = Inserting \ {t} /\ pc'[App] = pc[App]
  BY ThreadAssumption DEF FetchOk, Inserting, Goto, Base, TypeOK, Threads
<1>2. Cardinality(Inserting') = Cardinality(Inserting) - 1
  BY <1>1, InsertingFact, FS_RemoveElement
<1>3. Len(devices') = Len(devices) + 1 /\ Len(devices) \in Nat
  BY LenProperties DEF FetchOk, Base, TypeOK, Cached
<1> QED BY <1>1, <1>2, <1>3, InsertingFact DEF StoppedHoldsFew

\* The steps of the receive threads that add devices preserve Halted.
LEMMA HaltedAdd ==
    ASSUME Base, Base', Halted, NEW t \in Ssdp, AddStep(t) PROVE Halted'
<1> USE ThreadAssumption DEF Threads
<1>1. pc'[App] = pc[App] /\ serving' = serving
  BY DEF AddStep, AddLookup, FetchOk, FetchFails, RefetchOk, RefetchFails, AddSignal,
     AddUnlock, TellAdd, Goto, SignalAndGoto, appVars, Base, TypeOK
<1>2. Deaf'
  BY <1>1 DEF Halted, Deaf
<1>3. CASE FetchOk(t)
  BY <1>2, <1>3, FetchFew DEF Halted
<1>4. CASE ~FetchOk(t)
  <2>1. Inserting' \subseteq Inserting
    BY <1>4 DEF AddStep, AddLookup, FetchFails, RefetchOk, RefetchFails, AddSignal,
       AddUnlock, TellAdd, Goto, SignalAndGoto, Inserting, Base, TypeOK
  <2>2. CASE RefetchFails(t)
    <3>1. ptr[t] \in Cached /\ DeleteDevice(ptr[t])
      BY <2>2 DEF RefetchFails, Base, LockedPointersLive
    <3> QED BY <1>1, <1>2, <2>1, <3>1, DeleteShortens, KeepFew DEF Halted, NoNewInsert
  <2>3. CASE ~RefetchFails(t)
    <3>1. devices' = devices /\ Len(devices) \in Nat
      BY <1>4, <2>3, LenProperties DEF AddStep, AddLookup, FetchFails, RefetchOk,
         AddSignal, AddUnlock, TellAdd, cache, Base, TypeOK
    <3>2. Len(devices') <= Len(devices)
      BY <3>1
    <3> QED BY <1>1, <1>2, <2>1, <3>2, KeepFew DEF Halted, NoNewInsert
  <2> QED BY <2>2, <2>3
<1> QED BY <1>3, <1>4

\* The steps of a removal preserve Halted.
LEMMA HaltedRemove ==
    ASSUME Base, Base', Halted, NEW t \in Threads, RemoveStep(t) PROVE Halted'
<1> USE ThreadAssumption DEF Threads
<1>1. /\ Inserting' \subseteq Inserting /\ serving' = serving
      /\ pc'[App] \in Stopping => pc'[App] = pc[App]
  BY DEF RemoveStep, ReadVictim, RemoveUnknown, RemoveLookup, RemoveSilently, TellRemove,
     RemoveDelete, Goto, ReturnPc, Inserting, Stopping, appVars, Base, TypeOK
<1>2. Deaf' /\ NoNewInsert
  BY <1>1 DEF Halted, Deaf, NoNewInsert, Stopping
<1>3. CASE RemoveSilently(t) \/ RemoveDelete(t)
  <2>1. \E o \in Cached : DeleteDevice(o)
    BY <1>3 DEF RemoveSilently, RemoveDelete, Found, WithUdn
  <2> QED BY <1>2, <2>1, DeleteShortens, KeepFew DEF Halted
<1>4. CASE ~(RemoveSilently(t) \/ RemoveDelete(t))
  <2>1. devices' = devices /\ Len(devices) \in Nat
    BY <1>4, LenProperties DEF RemoveStep, ReadVictim, RemoveUnknown, RemoveLookup,
       TellRemove, cache, Base, TypeOK
  <2>2. Len(devices') <= Len(devices)
    BY <2>1
  <2> QED BY <1>2, <2>2, KeepFew DEF Halted
<1> QED BY <1>3, <1>4

\* The end of a stop: the list is empty.
LEMMA HaltedClear == ASSUME Base, Halted, StopClear PROVE Halted'
<1>1. Len(devices') = 0 /\ Inserting' = Inserting
  BY ThreadAssumption DEF StopClear, Goto, Inserting, Base, TypeOK, Threads
<1>2. Inserting \in SUBSET Ssdp
  BY DEF Inserting
<1>3. StoppedHoldsFew'
  BY <1>1, <1>2, InsertingFact DEF StoppedHoldsFew
<1>4. Deaf'
  BY DEF StopClear, Goto, Halted, Deaf, Stopping, appVars, Base, TypeOK, Threads
<1> QED BY <1>3, <1>4 DEF Halted

\* A step that leaves the list alone and makes nobody insert preserves Halted.
LEMMA KeepHalted ==
    ASSUME Base, Base', Halted, Deaf', NoNewInsert, devices' = devices PROVE Halted'
<1>1. Len(devices') <= Len(devices)
  BY LenProperties DEF Base, TypeOK
<1> QED BY <1>1, KeepFew DEF Halted

\* The expiration thread's own steps and the application's preserve Halted.
LEMMA HaltedOwn ==
    ASSUME Base, Base', Halted, ExpStep \/ AppUnlock \/ IpStep \/ StopStep PROVE Halted'
<1> USE ThreadAssumption DEF Threads
<1>1. CASE StopClear
  BY <1>1, HaltedClear
<1>2. CASE ExpStep
  <2>1. pc'[App] = pc[App] /\ serving' = serving /\ devices' = devices
    BY <1>2 DEF ExpStep, ExpEnter, ExpCheck, ExpLock, ExpScanExpired, ExpScan, ExpRelock,
       ExpScanEnd, ExpSleep, ExpCommit, ExpWait, ExpTimeout, Goto, appVars, cache,
       Base, TypeOK
  <2>2. Inserting' = Inserting
    BY <1>2 DEF ExpStep, ExpEnter, ExpCheck, ExpLock, ExpScanExpired, ExpScan, ExpRelock,
       ExpScanEnd, ExpSleep, ExpCommit, ExpWait, ExpTimeout, Goto, Inserting, Base, TypeOK
  <2> QED BY <2>1, <2>2, KeepHalted DEF Halted, Deaf, NoNewInsert
<1>3. CASE AppUnlock \/ IpStep \/ (StopStep /\ ~StopClear)
  <2>1. /\ serving' = serving /\ devices' = devices
        /\ pc'[App] \in Stopping => pc[App] \in Stopping
        /\ pc'[App] # "stopped"
    BY <1>3 DEF AppUnlock, IpStep, StopStep, IpLock, IpScanGone, IpScan, IpRelock,
       IpScanEnd, StopLock, StopScanTell, StopScanSkip, StopTell, StopRelock, Goto,
       appVars, cache, Stopping, Base, TypeOK
  <2>2. Inserting' = Inserting
    BY <1>3 DEF AppUnlock, IpStep, StopStep, IpLock, IpScanGone, IpScan, IpRelock,
       IpScanEnd, StopLock, StopScanTell, StopScanSkip, StopTell, StopRelock, Goto,
       Inserting, Base, TypeOK
  <2> QED BY <2>1, <2>2, KeepHalted DEF Halted, Deaf, NoNewInsert
<1> QED BY <1>1, <1>2, <1>3

\* What the network and the application start preserves Halted.
LEMMA HaltedExternal == ASSUME Base, Base', Halted, External PROVE Halted'
<1> USE ThreadAssumption DEF Threads
<1>1. CASE \E t \in Ssdp, p \in Packets : ReceiveAlive(t, p)
  <2>1. /\ serving /\ serving' = serving /\ pc'[App] = pc[App] /\ devices' = devices
    BY <1>1 DEF ReceiveAlive, Goto, appVars, cache, Base, TypeOK
  <2>2. pc'[App] \notin Stopping
    BY <2>1 DEF Halted, Deaf
  <2> QED BY <2>2 DEF Halted, Deaf, StoppedHoldsFew, Stopping
<1>2. CASE \E t \in Ssdp, u \in Byebyes : ReceiveByebye(t, u)
  <2>1. /\ serving /\ serving' = serving /\ pc'[App] = pc[App]
    BY <1>2 DEF ReceiveByebye, Goto, appVars, Base, TypeOK
  <2>2. pc'[App] \notin Stopping
    BY <2>1 DEF Halted, Deaf
  <2> QED BY <2>2 DEF Halted, Deaf, StoppedHoldsFew, Stopping
<1>3. CASE Stop
  <2>1. pc'[App] = "stopLock" /\ ~serving'
    BY <1>3 DEF Stop, Base, TypeOK
  <2> QED BY <2>1 DEF Halted, Deaf, StoppedHoldsFew
<1>4. CASE AppLock \/ AppSubscribe \/ AppResubscribe \/ \E i \in Ifcs : IpChanged(i)
  <2>1. pc'[App] \in {"using", "ipLock"}
    BY <1>4 DEF AppLock, AppSubscribe, AppResubscribe, IpChanged, Goto, SignalAndGoto,
       Base, TypeOK
  <2> QED BY <2>1 DEF Halted, Deaf, StoppedHoldsFew, Stopping
<1> QED BY <1>1, <1>2, <1>3, <1>4 DEF External

\* Next preserves Halted.
LEMMA HaltedNext == ASSUME Base, Halted, [Next]_vars PROVE Halted'
<1> USE BaseNext
<1>1. CASE External
  BY <1>1, HaltedExternal
<1>2. ASSUME NEW t \in Threads, ThreadStep(t) PROVE Halted'
  <2>1. CASE UseAfterFree(t)
    <3>1. Deaf' /\ NoNewInsert /\ devices' = devices
      BY <2>1 DEF UseAfterFree, cache, appVars, Halted, Deaf, NoNewInsert, Inserting
    <3> QED BY <3>1, KeepHalted
  <2> QED BY <1>2, <2>1, HaltedAdd, HaltedRemove, HaltedOwn DEF ThreadStep
<1>3. CASE Tick \/ UNCHANGED vars
  <2>1. Deaf' /\ NoNewInsert /\ devices' = devices
    BY <1>3 DEF Tick, vars, cache, appVars, Halted, Deaf, NoNewInsert, Inserting
  <2> QED BY <2>1, KeepHalted
<1> QED BY <1>1, <1>2, <1>3 DEF Next

\* However many receive threads there are, a control point that has been stopped holds at
\* most one device for each of them, and only if it was in flight.
THEOREM StopLeavesFew == Spec => []StoppedHoldsFew
<1>1. Init => Halted
  BY ThreadAssumption DEF Init, Halted, Deaf, StoppedHoldsFew, Stopping, Threads
<1>2. Base /\ Halted /\ [Next]_vars => Halted'
  BY HaltedNext
<1>3. Halted => StoppedHoldsFew
  BY DEF Halted
<1> QED BY <1>1, <1>2, <1>3, BaseInvariant, PTL DEF Spec

-----------------------------------------------------------------------------
(* What the application sees under the lock.                               *)

\* The cache is as it was, but for the subscription of the application's device.
StableCache ==
    /\ devices' = devices
    /\ \A o \in Objs : dev'[o] # dev[o] =>
          o = ptr[App] /\ dev'[o] = [dev[o] EXCEPT !.sub = dev'[o].sub]

\* While the application has the lock no other thread is in a locked section, and
\* it is nowhere else itself.
LEMMA UsingAlone ==
    ASSUME Base, pc[App] = "using"
    PROVE  cpLock = App /\ cpLock # None /\ \A t \in Threads \ {App} : pc[t] \notin Critical
BY NoneAssumption DEF Base, LockDiscipline, Critical, Threads

\* A receive thread cannot change the cache meanwhile.
LEMMA StableAdd ==
    ASSUME Base, pc[App] = "using", NEW t \in Ssdp, AddStep(t) PROVE UNCHANGED cache
<1>1. t \in Threads \ {App}
  BY ThreadAssumption DEF Threads
<1> QED BY <1>1, UsingAlone DEF AddStep, AddLookup, FetchOk, FetchFails, RefetchOk,
           RefetchFails, AddSignal, AddUnlock, TellAdd, Acquire, Critical, cache

\* Nor can a removal.
LEMMA StableRemove ==
    ASSUME Base, pc[App] = "using", NEW t \in Threads, RemoveStep(t) PROVE UNCHANGED cache
BY UsingAlone DEF RemoveStep, ReadVictim, RemoveUnknown, RemoveLookup, RemoveSilently,
   TellRemove, RemoveDelete, cache

\* Nor can the expiration thread, or another operation of the application.
LEMMA StableOwn ==
    ASSUME Base, pc[App] = "using", ExpStep \/ AppUnlock \/ IpStep \/ StopStep
    PROVE  UNCHANGED cache
<1>1. Exp \in Threads \ {App}
  BY ThreadAssumption DEF Threads
<1>2. CASE ExpStep
  BY <1>1, <1>2, UsingAlone DEF ExpStep, ExpEnter, ExpCheck, ExpLock, ExpScanExpired,
     ExpScan, ExpRelock, ExpScanEnd, ExpSleep, ExpCommit, ExpWait, ExpTimeout, Acquire,
     Critical, cache
<1>3. CASE AppUnlock \/ IpStep \/ StopStep
  BY <1>3 DEF AppUnlock, IpStep, StopStep, IpLock, IpScanGone, IpScan, IpRelock,
     IpScanEnd, StopLock, StopScanTell, StopScanSkip, StopTell, StopRelock, StopClear,
     cache
<1> QED BY <1>2, <1>3

\* The application itself changes one subscription.
LEMMA StableSubscribe ==
    ASSUME Base, AppSubscribe \/ AppResubscribe PROVE StableCache
<1>1. PICK s : dev' = [dev EXCEPT ![ptr[App]].sub = s]
  BY DEF AppSubscribe, AppResubscribe
<1>2. dev \in [Objs -> Cells] /\ devices' = devices
  BY DEF AppSubscribe, AppResubscribe, Base, TypeOK
<1>3. ASSUME NEW o \in Objs, dev'[o] # dev[o]
      PROVE  o = ptr[App] /\ dev'[o] = [dev[o] EXCEPT !.sub = dev'[o].sub]
  <2>1. o = ptr[App]
    BY <1>1, <1>2, <1>3
  <2>2. dev'[o] = [dev[o] EXCEPT !.sub = s]
    BY <1>1, <1>2, <2>1
  <2>3. dev'[o].sub = s
    BY <1>2, <2>2 DEF Cells
  <2> QED BY <2>1, <2>2, <2>3
<1> QED BY <1>2, <1>3 DEF StableCache

\* A step from a state in which the application has the lock leaves the cache stable.
LEMMA StableStep == ASSUME Base, [Next]_vars, pc[App] = "using" PROVE StableCache
<1>1. CASE UNCHANGED cache
  BY <1>1 DEF cache, StableCache
<1>2. CASE External
  <2>1. CASE AppSubscribe \/ AppResubscribe
    BY <2>1, StableSubscribe
  <2>2. CASE ~(AppSubscribe \/ AppResubscribe)
    BY <1>1, <1>2, <2>2 DEF External, ReceiveAlive, ReceiveByebye, AppLock, IpChanged,
       Stop
  <2> QED BY <2>1, <2>2
<1>3. ASSUME NEW t \in Threads, ThreadStep(t) PROVE StableCache
  BY <1>1, <1>3, StableAdd, StableRemove, StableOwn DEF ThreadStep, UseAfterFree
<1>4. CASE Tick \/ UNCHANGED vars
  BY <1>1, <1>4 DEF Tick, vars
<1> QED BY <1>2, <1>3, <1>4 DEF Next

\* What ccontrolpoint.h promises of the lock holds for any number of threads: nothing is
\* added, removed or updated while the application has it.
THEOREM LockedStable == Spec => LockedCacheIsStable
<1>1. Base /\ [Next]_vars =>
        [pc[App] = "using" =>
            /\ devices' = devices
            /\ \A o \in Objs : dev'[o] # dev[o] =>
                  o = ptr[App] /\ dev'[o] = [dev[o] EXCEPT !.sub = dev'[o].sub]]_vars
  BY StableStep DEF StableCache
<1> QED BY <1>1, BaseInvariant, PTL DEF Spec, LockedCacheIsStable
=============================================================================
