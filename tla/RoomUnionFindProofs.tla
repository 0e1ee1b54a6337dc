------------------------ MODULE RoomUnionFindProofs ------------------------
(***************************************************************************)
(* The union-find names every component after its lowest vip, for any set  *)
(* of vips, any links and any order of them.  No induction on paths is     *)
(* needed: the way up from a vip is the least set that holds the vip and   *)
(* the parent of each member, so that what holds at the vip and is handed  *)
(* on to parents holds at the root.                                        *)
(***************************************************************************)
EXTENDS RoomUnionFind, TLAPS

IsForest(p) == p \in [Vips -> Vips] /\ \A v \in Vips : p[v] <= v

Upward(p, S) == \A z \in S : p[z] \in S

\* The way up without recursion.
Way(p, x) == {y \in Vips : \A S \in SUBSET Vips : x \in S /\ Upward(p, S) => y \in S}

LEMMA VipsAreNumbers == Vips \subseteq Nat /\ 0 \notin Vips
BY VipsOrdered

LEMMA VipOrder ==
  /\ \A a \in Vips : a <= a
  /\ \A a, b \in Vips : a <= b /\ b <= a => a = b
  /\ \A a, b, c \in Vips : a <= b /\ b <= c => a <= c
<1>1. \A a, b, c \in Nat :
        /\ a <= a
        /\ a <= b /\ b <= a => a = b
        /\ a <= b /\ b <= c => a <= c
  OBVIOUS
<1> QED
  BY <1>1, VipsAreNumbers

LEMMA WaySteps ==
  ASSUME NEW p \in [Vips -> Vips], NEW x \in Vips
  PROVE  /\ Way(p, x) \in SUBSET Vips /\ x \in Way(p, x) /\ Upward(p, Way(p, x))
         /\ Way(p, x) = {x} \cup Way(p, p[x])
<1>1. ASSUME NEW y \in Vips
      PROVE  Way(p, y) \in SUBSET Vips /\ y \in Way(p, y) /\ Upward(p, Way(p, y))
  BY DEF Way, Upward
<1>2. Way(p, x) \subseteq {x} \cup Way(p, p[x])
  <2>1. Upward(p, {x} \cup Way(p, p[x])) /\ {x} \cup Way(p, p[x]) \in SUBSET Vips
    BY <1>1 DEF Upward
  <2> QED
    BY <2>1 DEF Way
<1>3. Way(p, p[x]) \subseteq Way(p, x)
  BY DEF Way, Upward
<1> QED
  BY <1>1, <1>2, <1>3

\* The recursive function of the model computes it.
LEMMA WayUpIsWay ==
  ASSUME NEW p, IsForest(p), NEW x \in Vips
  PROVE  WayUp(p, x) = Way(p, x)
<1> DEFINE Eq(f) == f = [y \in Vips |-> IF p[y] = y THEN {y} ELSE {y} \cup f[p[y]]]
           way == CHOOSE f : Eq(f)
<1>1. p \in [Vips -> Vips]
  BY DEF IsForest
<1>2. \E f : Eq(f)
  <2> DEFINE g == [y \in Vips |-> Way(p, y)]
  <2>1. ASSUME NEW y \in Vips
        PROVE  Way(p, y) = IF p[y] = y THEN {y} ELSE {y} \cup Way(p, p[y])
    <3>1. CASE p[y] = y
      <4>1. Upward(p, {y}) /\ {y} \in SUBSET Vips
        BY <3>1 DEF Upward
      <4>2. Way(p, y) \subseteq {y}
        BY <4>1 DEF Way
      <4> QED
        BY <1>1, <3>1, <4>2, WaySteps
    <3>2. CASE p[y] # y
      BY <1>1, <3>2, WaySteps
    <3> QED
      BY <3>1, <3>2
  <2>2. Eq(g)
    BY <1>1, <2>1
  <2> QED
    BY <2>2
<1>3. Eq(way)
  BY <1>2
<1>4. \A y \in Vips : way[y] = IF p[y] = y THEN {y} ELSE {y} \cup way[p[y]]
  <2> HIDE DEF way
  <2> QED
    BY <1>3
<1>5. WayUp(p, x) = way[x]
  BY DEF WayUp
<1> HIDE DEF way
<1>6. \A y \in Vips : way[y] = Way(p, y)
  <2> DEFINE Wrong == {y \in Vips : way[y] # Way(p, y)}
  <2>1. SUFFICES ASSUME Wrong # {} PROVE FALSE
    OBVIOUS
  <2>2. PICK y \in Wrong : \A z \in Wrong : y <= z
    BY <2>1, VipsOrdered
  <2>3. p[y] \in Vips /\ p[y] <= y
    BY <2>2 DEF IsForest
  <2>4. CASE p[y] = y
    <3>1. Upward(p, {y}) /\ {y} \in SUBSET Vips
      BY <2>4, <2>3 DEF Upward
    <3>2. Way(p, y) \subseteq {y}
      BY <3>1 DEF Way
    <3>3. Way(p, y) = {y}
      BY <1>1, <2>2, <3>2, WaySteps
    <3> QED
      BY <1>4, <2>2, <2>4, <3>3
  <2>5. CASE p[y] # y
    <3>1. p[y] \notin Wrong
      <4>1. \A z \in Wrong : z \in Vips /\ y <= z
        BY <2>2
      <4> HIDE DEF Wrong
      <4> QED
        BY <2>2, <2>3, <2>5, <4>1, VipOrder
    <3>2. way[p[y]] = Way(p, p[y])
      BY <2>3, <3>1
    <3>3. way[y] = {y} \cup Way(p, p[y]) /\ Way(p, y) = {y} \cup Way(p, p[y])
      BY <1>1, <1>4, <2>2, <2>5, <3>2, WaySteps
    <3> QED
      BY <2>2, <3>3
  <2> QED
    BY <2>4, <2>5
<1> QED
  BY <1>5, <1>6

\* What holds at x and is handed on to parents holds all the way up.
LEMMA UpTheWay ==
  ASSUME NEW p, IsForest(p), NEW x \in Vips, NEW S \in SUBSET Vips, x \in S, Upward(p, S)
  PROVE  WayUp(p, x) \subseteq S
BY WayUpIsWay DEF Way

\* There is one root on the way up.
LEMMA OneRoot ==
  ASSUME NEW p, IsForest(p), NEW x \in Vips
  PROVE  /\ Root(p, x) \in WayUp(p, x) /\ p[Root(p, x)] = Root(p, x)
         /\ \A s \in WayUp(p, x) : p[s] = s => s = Root(p, x)
<1>1. p \in [Vips -> Vips] /\ WayUp(p, x) \in SUBSET Vips /\ x \in WayUp(p, x)
      /\ Upward(p, WayUp(p, x))
  BY WayUpIsWay, WaySteps DEF IsForest
<1>2. \E r \in WayUp(p, x) : p[r] = r
  <2>1. PICK r \in WayUp(p, x) : \A y \in WayUp(p, x) : r <= y
    BY <1>1, VipsOrdered
  <2>2. p[r] \in WayUp(p, x) /\ p[r] <= r
    BY <1>1, <2>1 DEF Upward, IsForest
  <2>3. p[r] = r
    BY <1>1, <2>1, <2>2, VipOrder
  <2> QED
    BY <2>3
<1>3. ASSUME NEW r \in WayUp(p, x), NEW s \in WayUp(p, x), p[r] = r, p[s] = s
      PROVE  r = s
  <2> DEFINE S == {y \in Vips : r \in Way(p, y)}
  <2>1. x \in S
    BY <1>3, WayUpIsWay
  <2>2. ASSUME NEW y \in S
        PROVE  p[y] \in S
    <3>1. Way(p, y) = {y} \cup Way(p, p[y])
      BY <1>1, WaySteps
    <3>2. CASE y = r
      BY <1>3, <3>2
    <3>3. CASE y # r
      BY <1>1, <3>1, <3>3
    <3> QED
      BY <3>2, <3>3
  <2>3. s \in S
    <3>1. Upward(p, S)
      BY <2>2 DEF Upward
    <3> HIDE DEF S
    <3>2. S \in SUBSET Vips
      BY DEF S
    <3> QED
      BY <2>1, <3>1, <3>2, UpTheWay
  <2>4. Upward(p, {s}) /\ {s} \in SUBSET Vips
    BY <1>1, <1>3 DEF Upward
  <2>5. Way(p, s) \subseteq {s}
    BY <2>4 DEF Way
  <2> QED
    BY <2>3, <2>5
<1> QED
  BY <1>2, <1>3 DEF Root

LEMMA RootFacts ==
  ASSUME NEW p, IsForest(p), NEW x \in Vips
  PROVE  /\ Root(p, x) \in Vips /\ Root(p, x) <= x /\ p[Root(p, x)] = Root(p, x)
         /\ Root(p, p[x]) = Root(p, x)
         /\ \A y \in WayUp(p, x) : y \in Vips /\ Root(p, y) = Root(p, x)
         /\ p[x] = x => Root(p, x) = x
<1>1. p \in [Vips -> Vips] /\ WayUp(p, x) \in SUBSET Vips /\ x \in WayUp(p, x)
  BY WayUpIsWay, WaySteps DEF IsForest
<1>2. ASSUME NEW y \in Vips
      PROVE  Root(p, p[y]) = Root(p, y)
  <2>1. WayUp(p, p[y]) \subseteq WayUp(p, y) /\ p[y] \in Vips
    BY <1>1, WayUpIsWay, WaySteps
  <2> QED
    BY <2>1, OneRoot
<1>3. Root(p, x) <= x
  <2> DEFINE S == {y \in Vips : y <= x}
  <2>1. S \in SUBSET Vips /\ x \in S
    BY VipsAreNumbers
  <2>2. Upward(p, S)
    <3>1. ASSUME NEW z \in Vips, z <= x
          PROVE  p[z] \in Vips /\ p[z] <= x
      BY <1>1, <3>1, VipOrder DEF IsForest
    <3> QED
      BY <3>1 DEF Upward
  <2> HIDE DEF S
  <2>3. Root(p, x) \in S
    BY <2>1, <2>2, UpTheWay, OneRoot
  <2> QED
    BY <2>3 DEF S
<1>4. ASSUME NEW y \in WayUp(p, x)
      PROVE  Root(p, y) = Root(p, x)
  <2> DEFINE S == {z \in Vips : Root(p, z) = Root(p, x)}
  <2>1. S \in SUBSET Vips /\ x \in S /\ Upward(p, S)
    BY <1>1, <1>2 DEF Upward
  <2> HIDE DEF S
  <2>2. y \in S
    BY <2>1, UpTheWay
  <2> QED
    BY <2>2 DEF S
<1> QED
  BY <1>1, <1>2, <1>3, <1>4, OneRoot

\* The root of y in q is f[y], if f is the same at parents and is a root
\* itself at roots.
LEMMA RootIs ==
  ASSUME NEW q, IsForest(q), NEW f \in [Vips -> Vips],
         \A y \in Vips : f[q[y]] = f[y],
         \A r \in Vips : q[r] = r => f[r] = r
  PROVE  \A y \in Vips : Root(q, y) = f[y]
<1> TAKE y \in Vips
<1> DEFINE S == {z \in Vips : f[z] = f[y]}
<1>1. S \in SUBSET Vips /\ y \in S /\ Upward(q, S)
  BY DEF Upward, IsForest
<1> HIDE DEF S
<1>2. Root(q, y) \in S
  BY <1>1, UpTheWay, OneRoot
<1> QED
  BY <1>2, RootFacts DEF S

-----------------------------------------------------------------------------
(* What root() and a link do to the forest.                                *)

\* A forest that only joins what the links E connect.
Grown(E, p) == IsForest(p) /\ \A v \in Vips : Connected(E, v, p[v])

LEMMA ConnectedRefl ==
  ASSUME NEW E, NEW a \in Vips
  PROVE  Connected(E, a, a)
BY DEF Connected

LEMMA ConnectedSym ==
  ASSUME NEW E, NEW a \in Vips, NEW b \in Vips, Connected(E, a, b)
  PROVE  Connected(E, b, a)
<1> SUFFICES ASSUME NEW S \in SUBSET Vips, Closed(E, S), b \in S, a \notin S
             PROVE  FALSE
  BY DEF Connected
<1>1. Vips \ S \in SUBSET Vips /\ Closed(E, Vips \ S)
  BY DEF Closed
<1> QED
  BY <1>1 DEF Connected

LEMMA ConnectedTrans ==
  ASSUME NEW E, NEW a \in Vips, NEW b \in Vips, NEW c \in Vips,
         Connected(E, a, b), Connected(E, b, c)
  PROVE  Connected(E, a, c)
BY DEF Connected

LEMMA ConnectedMono ==
  ASSUME NEW E, NEW F, E \subseteq F, NEW a \in Vips, NEW b \in Vips, Connected(E, a, b)
  PROVE  Connected(F, a, b)
BY DEF Connected, Closed

LEMMA RootConnected ==
  ASSUME NEW E, NEW p, Grown(E, p), NEW x \in Vips
  PROVE  Connected(E, x, Root(p, x))
<1> DEFINE S == {y \in Vips : Connected(E, x, y)}
<1>1. S \in SUBSET Vips /\ x \in S
  BY ConnectedRefl
<1>2. Upward(p, S)
  BY ConnectedTrans DEF Upward, Grown, IsForest
<1> HIDE DEF S
<1>3. Root(p, x) \in S
  BY <1>1, <1>2, UpTheWay, OneRoot DEF Grown
<1> QED
  BY <1>3 DEF S

\* Shortening paths moves parents and no roots.
LEMMA ShortenedKeepsRoots ==
  ASSUME NEW E, NEW p, Grown(E, p), NEW x \in Vips
  PROVE  /\ Grown(E, Shortened(p, x))
         /\ \A y \in Vips : Root(Shortened(p, x), y) = Root(p, y)
<1> DEFINE q == Shortened(p, x)
           f == [y \in Vips |-> Root(p, y)]
<1>1. IsForest(p) /\ p \in [Vips -> Vips]
  BY DEF Grown, IsForest
<1>2. ASSUME NEW y \in Vips
      PROVE  q[y] = p[y] \/ q[y] = Root(p, y)
  BY <1>1, RootFacts DEF Shortened
<1>3. q = [y \in Vips |-> q[y]]
  BY DEF Shortened
<1> HIDE DEF q
<1>4. IsForest(q)
  <2>1. \A y \in Vips : q[y] \in Vips /\ q[y] <= y
    <3> TAKE y \in Vips
    <3>1. p[y] \in Vips /\ p[y] <= y
      BY <1>1 DEF IsForest
    <3>2. Root(p, y) \in Vips /\ Root(p, y) <= y
      BY <1>1, RootFacts
    <3> QED
      BY <1>2, <3>1, <3>2
  <2> QED
    BY <1>3, <2>1 DEF IsForest
<1>5. Grown(E, q)
  BY <1>2, <1>4, RootConnected DEF Grown
<1>6. f \in [Vips -> Vips]
  BY <1>1, RootFacts
<1>7. \A y \in Vips : f[q[y]] = f[y]
  <2> TAKE y \in Vips
  <2>1. p[y] \in Vips /\ Root(p, p[y]) = Root(p, y)
    BY <1>1, RootFacts
  <2>2. Root(p, y) \in Vips /\ Root(p, Root(p, y)) = Root(p, y)
    BY <1>1, RootFacts
  <2> QED
    BY <1>2, <2>1, <2>2
<1>8. \A r \in Vips : q[r] = r => f[r] = r
  BY <1>1, <1>2, RootFacts
<1>9. \A y \in Vips : Root(q, y) = f[y]
  <2> HIDE DEF f
  <2> QED
    BY <1>4, <1>6, <1>7, <1>8, RootIs
<1> QED
  BY <1>5, <1>9 DEF q

\* A link makes one tree of two, under the lower root.
LEMMA HangJoinsRoots ==
  ASSUME NEW E, NEW p, Grown(E, p), NEW ra \in Vips, NEW rb \in Vips,
         p[ra] = ra, p[rb] = rb, ra # rb, Connected(E, ra, rb)
  PROVE  /\ Grown(E, Hang(p, ra, rb))
         /\ \A x, y \in Vips : Root(p, x) = Root(p, y) =>
              Root(Hang(p, ra, rb), x) = Root(Hang(p, ra, rb), y)
         /\ Root(Hang(p, ra, rb), ra) = Root(Hang(p, ra, rb), rb)
<1> DEFINE q == Hang(p, ra, rb)
           lo == IF ra < rb THEN ra ELSE rb
           hi == IF ra < rb THEN rb ELSE ra
           f == [y \in Vips |-> IF Root(p, y) = hi THEN lo ELSE Root(p, y)]
<1>1. IsForest(p) /\ p \in [Vips -> Vips]
  BY DEF Grown, IsForest
<1>2. /\ lo \in Vips /\ hi \in Vips /\ lo <= hi /\ lo # hi /\ p[lo] = lo /\ p[hi] = hi
      /\ Connected(E, hi, lo) /\ {lo, hi} = {ra, rb}
  BY VipsAreNumbers, ConnectedSym
<1>3. q = [p EXCEPT ![hi] = lo]
  BY DEF Hang
<1> HIDE DEF q, lo, hi
<1>4. IsForest(q) /\ Grown(E, q)
  BY <1>1, <1>2, <1>3 DEF IsForest, Grown
<1>5. f \in [Vips -> Vips] /\ \A y \in Vips : f[y] = IF Root(p, y) = hi THEN lo ELSE Root(p, y)
  BY <1>1, <1>2, RootFacts
<1>6. Root(p, lo) = lo /\ Root(p, hi) = hi
  BY <1>1, <1>2, RootFacts
<1>7. \A y \in Vips : f[q[y]] = f[y]
  <2> TAKE y \in Vips
  <2> HIDE DEF f
  <2>1. CASE y = hi
    BY <1>1, <1>2, <1>3, <1>5, <1>6, <2>1
  <2>2. CASE y # hi
    <3>1. q[y] = p[y] /\ p[y] \in Vips /\ Root(p, p[y]) = Root(p, y)
      BY <1>1, <1>3, <2>2, RootFacts
    <3> QED
      BY <1>5, <3>1
  <2> QED
    BY <2>1, <2>2
<1>8. \A r \in Vips : q[r] = r => f[r] = r
  <2> TAKE r \in Vips
  <2> HAVE q[r] = r
  <2>1. r # hi
    BY <1>1, <1>2, <1>3
  <2>2. p[r] = r /\ Root(p, r) = r
    BY <1>1, <1>3, <2>1, RootFacts
  <2> QED
    BY <1>5, <2>1, <2>2
<1>9. \A y \in Vips : Root(q, y) = f[y]
  <2> HIDE DEF f
  <2> QED
    BY <1>4, <1>5, <1>7, <1>8, RootIs
<1>10. Root(q, ra) = Root(q, rb)
  BY <1>2, <1>5, <1>6, <1>9
<1> QED
  BY <1>4, <1>5, <1>9, <1>10 DEF q

-----------------------------------------------------------------------------
(* The invariant: the links seen so far are within trees, and trees within *)
(* their components.                                                       *)

Inv ==
  /\ todo \subseteq AllLinks /\ kept \subseteq AllLinks
  /\ room \in [Vips -> Vips \cup {0}]
  /\ Grown(kept, parent)
  /\ \A a, b \in Vips : LinkKey(a, b) \in kept => Root(parent, a) = Root(parent, b)
  /\ \A v \in Vips : room[v] # 0 => todo = {} /\ room[v] = Root(parent, v)

LEMMA InvInit == Init => Inv
<1> SUFFICES ASSUME Init PROVE Inv
  OBVIOUS
<1>1. Grown(kept, parent)
  BY VipsAreNumbers, ConnectedRefl DEF Init, Grown, IsForest
<1> QED
  BY <1>1 DEF Init, Inv

LEMMA TakeLinkStep ==
  ASSUME Inv, NEW a \in Vips, NEW b \in Vips, TakeLink(a, b)
  PROVE  Inv'
<1> DEFINE p1 == Shortened(parent, a)
           p == Shortened(p1, b)
           ra == Root(parent, a)
           rb == Root(parent, b)
           F == kept \cup {LinkKey(a, b)}
<1>1. kept' = F /\ todo' \subseteq AllLinks /\ F \subseteq AllLinks /\ UNCHANGED room
  BY DEF TakeLink, Inv, AllLinks
<1>2. IsForest(parent) /\ Grown(F, parent)
  BY ConnectedMono DEF Inv, Grown, IsForest
<1>3. Grown(F, p1) /\ \A y \in Vips : Root(p1, y) = Root(parent, y)
  BY <1>2, ShortenedKeepsRoots
<1>4. Grown(F, p) /\ \A y \in Vips : Root(p, y) = Root(parent, y)
  <2> HIDE DEF p1
  <2>1. Grown(F, p) /\ \A y \in Vips : Root(p, y) = Root(p1, y)
    BY <1>3, ShortenedKeepsRoots
  <2> QED
    BY <1>3, <2>1
<1>5. parent' = IF ra = rb THEN p ELSE Hang(p, ra, rb)
  BY DEF TakeLink
<1> HIDE DEF p, p1
<1>6. /\ Grown(F, parent')
      /\ \A x, y \in Vips : Root(parent, x) = Root(parent, y) => Root(parent', x) = Root(parent', y)
      /\ Root(parent', a) = Root(parent', b)
  <2>1. CASE ra = rb
    BY <1>4, <1>5, <2>1
  <2>2. CASE ra # rb
    <3>1. /\ ra \in Vips /\ rb \in Vips
          /\ Root(parent, ra) = ra /\ Root(parent, rb) = rb
      BY <1>2, RootFacts
    <3>2. p[ra] = ra /\ p[rb] = rb
      BY <1>4, <3>1, RootFacts DEF Grown
    <3>3. Connected(F, ra, rb)
      <4>1. Connected(F, ra, a) /\ Connected(F, b, rb)
        BY <1>2, <3>1, RootConnected, ConnectedSym
      <4>2. Connected(F, a, b)
        BY DEF Connected, Closed
      <4> QED
        BY <3>1, <4>1, <4>2, ConnectedTrans
    <3> HIDE DEF ra, rb, F
    <3>4. /\ Grown(F, Hang(p, ra, rb))
          /\ \A x, y \in Vips : Root(p, x) = Root(p, y) =>
               Root(Hang(p, ra, rb), x) = Root(Hang(p, ra, rb), y)
          /\ Root(Hang(p, ra, rb), ra) = Root(Hang(p, ra, rb), rb)
      BY <1>4, <2>2, <3>1, <3>2, <3>3, HangJoinsRoots
    <3>5. Root(parent, a) = Root(parent, ra) /\ Root(parent, b) = Root(parent, rb)
      BY <3>1 DEF ra, rb
    <3> QED
      BY <1>4, <1>5, <2>2, <3>1, <3>4, <3>5
  <2> QED
    BY <2>1, <2>2
<1>7. \A x, y \in Vips : LinkKey(x, y) \in kept' => Root(parent', x) = Root(parent', y)
  <2> TAKE x, y \in Vips
  <2> HAVE LinkKey(x, y) \in kept'
  <2>1. CASE LinkKey(x, y) \in kept
    BY <1>6, <2>1 DEF Inv
  <2>2. CASE LinkKey(x, y) = LinkKey(a, b)
    <3>1. (x = a /\ y = b) \/ (x = b /\ y = a) \/ x = y
      BY <2>2 DEF LinkKey
    <3> QED
      BY <1>6, <3>1
  <2> QED
    BY <1>1, <2>1, <2>2
<1>8. \A v \in Vips : room[v] = 0
  BY DEF Inv, TakeLink
<1> QED
  BY <1>1, <1>6, <1>7, <1>8 DEF Inv

LEMMA GiveRoomStep ==
  ASSUME Inv, NEW v \in Vips, GiveRoom(v)
  PROVE  Inv'
<1>1. Grown(kept, parent') /\ \A y \in Vips : Root(parent', y) = Root(parent, y)
  BY ShortenedKeepsRoots DEF Inv, GiveRoom
<1>2. Root(parent, v) \in Vips
  BY RootFacts DEF Inv, Grown
<1> QED
  BY <1>1, <1>2 DEF Inv, GiveRoom

LEMMA InvStep == Inv /\ [Next]_vars => Inv'
<1> SUFFICES ASSUME Inv, [Next]_vars PROVE Inv'
  OBVIOUS
<1>1. CASE UNCHANGED vars
  BY <1>1 DEF vars, Inv
<1> QED
  BY <1>1, TakeLinkStep, GiveRoomStep DEF Next

-----------------------------------------------------------------------------
\* However root() rewrites the forest while links and peers are walked, it
\* points down in number, so that every walk ends, and joins only what links
\* join.
THEOREM ForestStays == Spec => []Forest
<1>1. Inv => Forest
  BY DEF Inv, Grown, IsForest, Forest
<1> QED
  BY InvInit, InvStep, <1>1, PTL DEF Spec

\* The rooms that recompute_rooms gives are called after the lowest vips of
\* their components, whatever the links and the order they are taken in:
\* RelayRooms may take the pass as one step.
THEOREM RoomsAreLowest == Spec => []RoomIsLowest
<1>1. Inv => RoomIsLowest
  <2> SUFFICES ASSUME Inv, NEW v \in Vips, room[v] # 0
               PROVE  room[v] = Lowest(Component(kept, v))
    BY DEF RoomIsLowest
  <2> DEFINE r == Root(parent, v)
             S == {u \in Vips : Root(parent, u) = r}
  <2>1. IsForest(parent) /\ Grown(kept, parent)
    BY DEF Inv, Grown
  <2>2. r \in Vips /\ r \in Component(kept, v)
    BY <2>1, RootFacts, RootConnected DEF Component
  <2>3. S \in SUBSET Vips /\ v \in S /\ Closed(kept, S)
    BY DEF Inv, Closed
  <2>4. ASSUME NEW u \in Component(kept, v)
        PROVE  r <= u
    <3>1. u \in Vips /\ u \in S
      BY <2>3 DEF Component, Connected
    <3> QED
      BY <2>1, <3>1, RootFacts
  <2> HIDE DEF r
  <2>5. Component(kept, v) \subseteq Nat
    BY VipsAreNumbers DEF Component
  <2>6. \A m \in Component(kept, v) : (\A x \in Component(kept, v) : m <= x) => m = r
    BY <2>2, <2>4, <2>5
  <2>7. Lowest(Component(kept, v)) = r
    BY <2>2, <2>4, <2>6 DEF Lowest
  <2> QED
    BY <2>7 DEF Inv, r
<1> QED
  BY InvInit, InvStep, <1>1, PTL DEF Spec
=============================================================================
