----------------------------- MODULE RoomGraphs -----------------------------
(***************************************************************************)
(* Undirected graphs on peers, given by their edges: a link is the set of  *)
(* its one or two ends (LinkKey in relay_server.cpp).  Connection is       *)
(* defined by the sets no link leaves, so that it can be reasoned about    *)
(* without recursion.                                                      *)
(***************************************************************************)
EXTENDS Naturals

CONSTANT Vips   \* the vips peers may have, as numbers

\* Every room has a lowest vip to be named by.
ASSUME VipsOrdered ==
  /\ Vips \subseteq Nat \ {0}
  /\ \A S \in SUBSET Vips : S # {} => \E m \in S : \A x \in S : m <= x

LinkKey(a, b) == {a, b}
AllLinks == {LinkKey(a, b) : a, b \in Vips}

Lowest(S) == CHOOSE m \in S : \A x \in S : m <= x

\* No link of E has one end in S and the other outside.
Closed(E, S) == \A a, b \in Vips : LinkKey(a, b) \in E => (a \in S <=> b \in S)

Connected(E, a, b) == \A S \in SUBSET Vips : Closed(E, S) /\ a \in S => b \in S

Component(E, a) == {b \in Vips : Connected(E, a, b)}
=============================================================================
