---------------------------- MODULE MCTriAdapter ----------------------------
(***************************************************************************)
(* Instances of TriAdapter: two components; the first has a GeoNetworking   *)
(* port and an upper tester port, as the component of a node has.           *)
(***************************************************************************)
EXTENDS TriAdapter

CONSTANTS h1, h2, h3, c1, c2, gn, ut_

\* Connections of both ports of c1, and of the GeoNetworking port of c2.
ThreePorts ==
  [h \in Handler |-> CASE h = h1 -> [comp |-> c1, name |-> gn]
                       [] h = h2 -> [comp |-> c1, name |-> ut_]
                       [] OTHER  -> [comp |-> c2, name |-> gn]]

\* ... and the upper tester port twice, one connection after the other.
PortTwice ==
  [h \in Handler |-> CASE h = h1 -> [comp |-> c1, name |-> gn]
                       [] OTHER  -> [comp |-> c1, name |-> ut_]]

=============================================================================
