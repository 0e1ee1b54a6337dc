---------------------------- MODULE RoomUnionFind ---------------------------
(***************************************************************************)
(* The union-find inside recompute_rooms (relay_server.cpp): the pass that *)
(* RelayRooms takes in one step, link by link.  The links come in the      *)
(* order of an unordered_map, which is any order, and root() shortens the  *)
(* paths it walks as a side effect, on both ends of every link.            *)
(***************************************************************************)
EXTENDS RoomGraphs

VARIABLES
  todo,     \* the links not looked at yet
  kept,     \* the links looked at
  parent,   \* [Vips -> Vips]
  room      \* [Vips -> Vips or 0]: the room of each peer, 0 before it is given

vars == <<todo, kept, parent, room>>

Init ==
  /\ todo \in SUBSET {l \in AllLinks : \E a, b \in Vips : a # b /\ l = LinkKey(a, b)}
  /\ kept = {}
  /\ parent = [v \in Vips |-> v]
  /\ room = [v \in Vips |-> 0]

\* The vips on the way from x up to its root in the forest p.
WayUp(p, x) ==
  LET way[y \in Vips] == IF p[y] = y THEN {y} ELSE {y} \cup way[p[y]] IN way[x]

Root(p, x) == CHOOSE r \in WayUp(p, x) : p[r] = r

\* Fault: the wrong end of the path is shortened to.
Shortened_ToStart(p, x) ==
  [y \in Vips |-> IF y \in WayUp(p, x) /\ p[y] # y THEN p[x] ELSE p[y]]

\* The forest after root(x): everything on the way hangs under the root.
Shortened(p, x) ==
  [y \in Vips |-> IF y \in WayUp(p, x) THEN Root(p, x) ELSE p[y]]

\* Fault: the root of the second end always goes under that of the first.
Hang_SecondUnderFirst(p, ra, rb) == [p EXCEPT ![rb] = ra]

\* The larger root goes under the smaller.
Hang(p, ra, rb) ==
  IF ra < rb THEN [p EXCEPT ![rb] = ra] ELSE [p EXCEPT ![ra] = rb]

\* One turn of the loop over links, for one that is kept; LinkKey puts the
\* lower vip first.
TakeLink(a, b) ==
  /\ a < b /\ LinkKey(a, b) \in todo
  /\ LET ra == Root(parent, a)
         rb == Root(parent, b)
         p  == Shortened(Shortened(parent, a), b)
     IN parent' = IF ra = rb THEN p ELSE Hang(p, ra, rb)
  /\ todo' = todo \ {LinkKey(a, b)}
  /\ kept' = kept \cup {LinkKey(a, b)}
  /\ UNCHANGED room

\* One turn of the loop over peers.
GiveRoom(v) ==
  /\ todo = {} /\ room[v] = 0
  /\ room' = [room EXCEPT ![v] = Root(parent, v)]
  /\ parent' = Shortened(parent, v)
  /\ UNCHANGED <<todo, kept>>

Next ==
  \/ \E a, b \in Vips : TakeLink(a, b)
  \/ \E v \in Vips : GiveRoom(v)

Spec == Init /\ [][Next]_vars

-----------------------------------------------------------------------------
\* The forest only points down in number, so root() always comes to an end,
\* and hangs together only what the links seen so far do.
Forest ==
  \A v \in Vips : parent[v] <= v /\ Connected(kept, v, parent[v])

\* What RelayRooms takes recompute_rooms to give: after any links in any order
\* a room is called after the lowest vip of its component ("every root is its
\* component's minimum"), though giving the first rooms still moves parents.
RoomIsLowest ==
  \A v \in Vips : room[v] # 0 => room[v] = Lowest(Component(kept, v))
=============================================================================
