----------------------------- MODULE MCEventing -----------------------------
(***************************************************************************)
(* Small instances of Eventing for TLC.                                    *)
(***************************************************************************)
EXTENDS Eventing, TLC

\* The socket build: connections are refused, or leases lapse, and both ends wrap SEQ at
\* the same number.
Refusing == [curl |-> FALSE, lossy |-> TRUE, tracked |-> TRUE,
             ops |-> {"subscribe", "renew"}, maxSeq |-> 2, maxCount |-> 2]
Lapsing == [Refusing EXCEPT !.lossy = FALSE, !.ops = @ \cup {"lapse"}]

\* The curl build, with UNSUBSCRIBE; the publisher counts on when the control point wraps.
Timeouts == [curl |-> TRUE, lossy |-> FALSE, tracked |-> FALSE,
             ops |-> {"subscribe", "unsubscribe"}, maxSeq |-> 1, maxCount |-> 3]

\* The socket build, with UNSUBSCRIBE.
Crossing == [curl |-> FALSE, lossy |-> FALSE, tracked |-> TRUE,
             ops |-> {"subscribe", "unsubscribe"}, maxSeq |-> 3, maxCount |-> 3]

AllBuilds == {Refusing, Lapsing, Timeouts}
CrossingBuild == {Crossing}
=============================================================================
