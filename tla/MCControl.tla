----------------------------- MODULE MCControl -----------------------------
(* Instance of Control for TLC: two callers, a cache of two connections.     *)
EXTENDS Control, TLC

CONSTANTS c1, c2, h1, h2, h3

Scenario(first, second) ==
    [calls |-> c1 :> first @@ c2 :> second, together |-> FALSE, subscribed |-> TRUE,
     scarce |-> FALSE, mpost |-> {}, sets |-> 0, clears |-> 0, time |-> 0]

ScenariosDef ==
    { \* three hosts for a cache of two, and time for a connection to expire
      [Scenario(<<h1, h2, h3>>, <<h2>>) EXCEPT !.time = 2],
      [Scenario(<<h1, h2>>, <<h3, h1>>) EXCEPT !.mpost = {h3}],
      \* no memory for the node of one connection, with and without an eviction
      [Scenario(<<h1, h2>>, <<h3>>) EXCEPT !.scarce = TRUE],
      \* the control point is deleted while others use the cache
      [Scenario(<<h1>>, <<h1>>) EXCEPT !.clears = 1],
      \* calls and queries of a device in another process
      Scenario(<<"action", "query">>, <<"action">>),
      [Scenario(<<"query">>, <<"query">>) EXCEPT !.sets = 1],
      \* a device in the same process
      [Scenario(<<"query">>, <<"unknown">>) EXCEPT !.together = TRUE, !.sets = 1] }
=============================================================================
