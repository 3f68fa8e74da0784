------------------------- MODULE MCControlPointLive -------------------------
(* The instance of ControlPoint for the liveness properties: one device, the  *)
(* Beacon, announces itself again and again, as the standard asks of every    *)
(* device, and its description can be fetched; the other falls silent         *)
(* whenever it likes.                                                         *)
EXTENDS MCControlPoint

Beacon == u1

\* Either the other device moves, or it is not heard at its second location and the
\* application may stop the control point: the two together are too many states.
VARIABLE moving

Separately ==
    IF moving THEN runnable' ELSE \A t \in Ssdp : pkt'[t] # None => pkt'[t].loc # l4

\* A device that has moved may leave a cell under no name, which nobody frees: the others
\* leave one for the Beacon.
BeaconHasRoom == WithUdn(Beacon)' = {} => Len(devices') < Cardinality(Objs)

LiveNext == Next /\ UNCHANGED moving /\ Separately /\ BeaconHasRoom

BeaconSpec ==
    /\ Init /\ moving \in BOOLEAN
    /\ [][LiveNext]_<<vars, moving>>
    /\ Fairness
    /\ \A t \in Ssdp :
          /\ \A p \in {q \in Packets : q.udn = Beacon} : SF_vars(~fault /\ ReceiveAlive(t, p))
          /\ SF_vars(~fault /\ udn[t] = Beacon /\ FetchOk(t) /\ WithUdn(Beacon)' # {})
=============================================================================
