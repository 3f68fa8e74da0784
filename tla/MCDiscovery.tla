----------------------------- MODULE MCDiscovery ------------------------------
(* Instance of Discovery for TLC: a clock without embedded devices and a lamp  *)
(* with two of them, on one host.                                              *)
EXTENDS Discovery

CONSTANTS clock, lamp, timer, light, d1, e1, e2, e3

\* A service with its three URLs, as absolute paths.
Service(type, control, event, scpd) ==
    [type |-> type, control |-> control, event |-> event, scpd |-> scpd]

Timer == Service(Type(timer, 1), <<"/", "t", "c">>, <<"/", "t", "e">>, <<"/", "t", "d">>)

\* Its control URL is the beginning of the other service's.
Light == Service(Type(light, 2), <<"/", "t">>, <<"/", "l", "e">>, <<"/", "l", "d">>)

Node(udn, type, services) ==
    [udn |-> udn, type |-> type, services |-> services, port |-> FirstPort]

\* The embedded clock has the service of the other device; the embedded lamp has a newer
\* version of the root device's type.
TreeDef == [d \in {clock, lamp} |->
    IF d = clock
    THEN [p \in {<<>>} |-> Node(d1, Type(clock, 1), <<Timer>>)]
    ELSE [p \in {<<>>, <<1>>, <<2>>} |->
            CASE p = <<>> -> Node(e1, Type(lamp, 1), <<Light>>)
              [] p = <<1>> -> Node(e2, Type(clock, 1), <<Timer>>)
              [] p = <<2>> -> Node(e3, Type(lamp, 2), <<>>)]]

SearchesDef == {RootDevice, All}
=============================================================================
