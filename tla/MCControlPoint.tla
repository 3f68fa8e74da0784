--------------------------- MODULE MCControlPoint ---------------------------
(* Small instances of ControlPoint for TLC.                                *)
EXTENDS ControlPoint, TLC

CONSTANTS u1, u2, l1, l2, l3, l4

\* Every device is announced at every location with every lease.
EveryPacket == Alive

\* The receive threads behave alike, and so do the heap cells.
Alike == Permutations(Ssdp) \cup Permutations(Objs)

\* Only one of the devices has a description, at the location of both.
OneName == {<<l1, u1>>}
OnceForTheOther == {p \in Alive : p.udn = u1 \/ p.age = 1}

\* Two devices that move, each between locations of its own, heard on one interface.
OwnNames == {<<l1, u1>>, <<l2, u1>>, <<l3, u2>>, <<l4, u2>>}
OwnLocations == {p \in Alive : <<p.loc, p.udn>> \in OwnNames /\ p.ifc = CHOOSE i \in Ifcs : TRUE}
MovingAlike ==
    Permutations(Objs)
    \cup {l1 :> l2 @@ l2 :> l1, l3 :> l4 @@ l4 :> l3,
          u1 :> u2 @@ u2 :> u1 @@ l1 :> l3 @@ l3 :> l1 @@ l2 :> l4 @@ l4 :> l2}
=============================================================================
