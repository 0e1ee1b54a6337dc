------------------------- MODULE BrowserJoinProofs -------------------------
(***************************************************************************)
(* What a join leaves in the game while it goes on and when it is over:    *)
(* the filter, the session, the strip.  All three rest on JoinInv, which   *)
(* holds but for the moment between the tick's reading of a new request    *)
(* and what it does about it ("fresh"), when the game stands still.        *)
(***************************************************************************)
EXTENDS BrowserJoin, TLAPS

Types ==
  /\ g_phase \in Phases /\ g_status \in Phases
  /\ g_request \in Vips \cup {None, Any} /\ req \in Vips \cup {None, Any}
  /\ g_target_vip \in Vips \cup {None}
  /\ tick \in {"idle", "fresh", "same", "over"}
  /\ found \subseteq Vips

\* The request a join goes by is the one that was left last, unless there is a
\* new one.
Heeded == ~g_request_new => req = g_request

Hunts == g_phase \in {"Searching", "Joining"}

\* A join has a room; with the filter on, only that one answers.
JoinInv ==
  tick # "fresh" =>
    /\ g_phase \in Waiting => req # None
    /\ g_target_vip # None => Hunts
    /\ Hunts => g_target_vip = IF req = Any THEN None ELSE req
    /\ Hunts /\ req # Any => /\ found \subseteq {req}
                             /\ doing # "hosts"
                             /\ doing \in {"joins", "joined"} => room = req
    /\ ~g_request_new /\ g_phase # "GoingOnline" => g_status = g_phase

Inv == Types /\ Heeded /\ JoinInv

LEMMA RoomsDiffer == None \notin Vips /\ Any \notin Vips /\ None # Any
  BY JoinConstants DEF None, Any

LEMMA InvInit == Init => Inv
  BY DEF Init, Inv, Types, Heeded, JoinInv, Hunts, Waiting, Phases

-----------------------------------------------------------------------------
(* Steps of the window and of other threads.                               *)

LEMMA WindowStep ==
  ASSUME Inv, Window
  PROVE  Inv'
<1> USE DEF Inv
<1>1. Types'
  BY DEF Types, Window, RequestJoin, CancelJoin, game, Phases, Waiting
<1>2. Heeded'
  BY DEF Heeded, Window, RequestJoin, CancelJoin
<1>3. JoinInv'
  BY DEF JoinInv, Hunts, Window, RequestJoin, CancelJoin, game
<1> QED
  BY <1>1, <1>2, <1>3

LEMMA AsideStep ==
  ASSUME Inv, Player \/ Late
  PROVE  Inv'
<1> USE DEF Inv
<1>1. Types' /\ Heeded'
  BY DEF Types, Heeded, Player, Late, join, game
<1>2. JoinInv'
  BY DEF JoinInv, Hunts, Player, Late, join, game
<1> QED
  BY <1>1, <1>2

LEMMA NetStep ==
  ASSUME Inv, Net
  PROVE  Inv'
<1> USE DEF Inv
<1>1. Types' /\ Heeded'
  BY DEF Types, Heeded, Net, game
<1>2. JoinInv'
  BY DEF JoinInv, Hunts, Net, game
<1> QED
  BY <1>1, <1>2

-----------------------------------------------------------------------------
(* Steps of the tick.                                                      *)

LEMMA ReadsStep ==
  ASSUME Inv, TickReads
  PROVE  Inv'
<1> USE DEF Inv
<1>1. Types' /\ Heeded'
  BY DEF Types, Heeded, TickReads, game
<1>2. JoinInv'
  BY DEF JoinInv, Heeded, Hunts, TickReads, game
<1> QED
  BY <1>1, <1>2

LEMMA FreshStep ==
  ASSUME Inv, TickDrops \/ TickBegins
  PROVE  Inv'
<1> USE DEF Inv
<1>1. Types' /\ Heeded'
  BY DEF Types, Heeded, TickDrops, TickBegins, Finish, Ticked, game, Phases, Waiting
<1>2. JoinInv'
  BY DEF JoinInv, Hunts, TickDrops, TickBegins, Finish, Ticked, game, Waiting
<1> QED
  BY <1>1, <1>2

LEMMA StartStep ==
  ASSUME Inv, TickOnline \/ TickCity \/ TickMenu
  PROVE  Inv'
<1> USE DEF Inv
<1>1. Types' /\ Heeded'
  BY DEF Types, Heeded, TickOnline, TickCity, TickMenu, Enters, Finish, Ticked, game,
         Phases, Waiting
<1>2. JoinInv'
  BY DEF JoinInv, Hunts, TickOnline, TickCity, TickMenu, Enters, Finish, Ticked, game, Waiting
<1> QED
  BY <1>1, <1>2

\* The search begins with nobody found, and not in a session.
LEMMA SearchStep ==
  ASSUME Inv, TickSearch
  PROVE  Inv'
<1> USE DEF Inv
<1>1. req # None
  BY DEF JoinInv, TickSearch, Waiting
<1>2. Types' /\ Heeded'
  BY <1>1 DEF Types, Heeded, TickSearch, Enters, Ticked, Phases, Waiting
<1>3. JoinInv'
  BY <1>1 DEF JoinInv, Hunts, TickSearch, Enters, Ticked, Waiting
<1> QED
  BY <1>2, <1>3

LEMMA EndStep ==
  ASSUME Inv, TickEnds \/ TickNothing
  PROVE  Inv'
<1> USE DEF Inv
<1>1. Types' /\ Heeded'
  BY DEF Types, Heeded, TickEnds, TickNothing, Finish, Ticked, game, Phases, Waiting
<1>2. JoinInv'
  BY DEF JoinInv, Hunts, TickEnds, TickNothing, Finish, Ticked, game, Waiting
<1> QED
  BY <1>1, <1>2

-----------------------------------------------------------------------------
(* Steps of the game, at the hooks.                                        *)

LEMMA GameStep ==
  ASSUME Inv, Game
  PROVE  Inv'
<1> USE DEF Inv
<1>1. CASE PlayerSearches \/ PlayerLeaves \/ Joined
  <2>1. Types' /\ Heeded'
    BY <1>1 DEF Types, Heeded, PlayerSearches, PlayerLeaves, Joined, join
  <2>2. JoinInv'
    BY <1>1 DEF JoinInv, Hunts, PlayerSearches, PlayerLeaves, Joined, join
  <2> QED
    BY <2>1, <2>2
<1>2. CASE CreateGame
  <2>1. Types' /\ Heeded'
    BY <1>2 DEF Types, Heeded, CreateGame, Finish, Phases
  <2>2. JoinInv'
    BY <1>2, RoomsDiffer DEF JoinInv, Types, Hunts, CreateGame, GuestFree, Finish, Waiting
  <2> QED
    BY <2>1, <2>2
<1>3. CASE \E v \in Vips : Answer(v)
  <2>1. Types' /\ Heeded'
    BY <1>3 DEF Types, Heeded, Answer, join
  <2>2. JoinInv'
    BY <1>3, RoomsDiffer DEF JoinInv, Types, Hunts, Answer, GuestFree, join, Waiting
  <2> QED
    BY <2>1, <2>2
<1>4. CASE \E v \in Vips : JoinSession(v)
  <2>1. Types' /\ Heeded'
    BY <1>4 DEF Types, Heeded, JoinSession, Enters, Phases, Waiting
  <2>2. JoinInv'
    BY <1>4 DEF JoinInv, Hunts, JoinSession, Enters, Waiting
  <2> QED
    BY <2>1, <2>2
<1> QED
  BY <1>1, <1>2, <1>3, <1>4 DEF Game

LEMMA InvStep == Inv /\ [Next]_vars => Inv'
<1> SUFFICES ASSUME Inv, [Next]_vars PROVE Inv'
  OBVIOUS
<1>1. CASE UNCHANGED vars
  BY <1>1 DEF vars, join, game, Inv, Types, Heeded, JoinInv, Hunts
<1>2. CASE TickActs
  BY <1>2, FreshStep, StartStep, SearchStep, EndStep DEF TickActs
<1> QED
  BY <1>1, <1>2, WindowStep, AsideStep, NetStep, ReadsStep, GameStep DEF Next

-----------------------------------------------------------------------------
(* Theorems.                                                               *)

\* Whatever is asked for, cancelled or replaced while the game searches, the
\* filter is on for the picked room only, and gone with its join.
THEOREM FilterAlwaysFits == Spec => []FilterFits
<1>1. Inv => FilterFits
  BY RoomsDiffer DEF Inv, Types, JoinInv, Hunts, FilterFits
<1> QED
  BY InvInit, InvStep, <1>1, PTL DEF Spec

\* A picked room is the only one the game joins, and it hosts none instead.
THEOREM OnlyThePicked == Spec => []PickedOnly
<1>1. Inv => PickedOnly
  BY DEF Inv, JoinInv, Hunts, PickedOnly
<1> QED
  BY InvInit, InvStep, <1>1, PTL DEF Spec

\* The strip shows the phase of the join, but while it goes online.
THEOREM StripStaysTrue == Spec => []StripTrue
<1>1. Inv => StripTrue
  BY DEF Inv, JoinInv, StripTrue
<1> QED
  BY InvInit, InvStep, <1>1, PTL DEF Spec
-----------------------------------------------------------------------------
(* The switch.  A request in the middle of another is taken up in the end, *)
(* however many there are, unless the overlay wrote the cvar in between.   *)

\* What the update looked at; asked again since, it finds out.
LookedOK ==
  update = "looked" =>
    /\ seen.req \in {"on", "off"} /\ state # 0
    /\ ~crossed => /\ seen.live = cvar
                   /\ seen.done = (Word(cvar) = seen.req /\ Applied = seen.req)
    /\ burst < 2 => request = seen.req
    /\ ~Tangled /\ request = seen.req =>
         IF seen.done THEN Word(cvar) = request /\ Applied = request
         ELSE request = "on" => ~seen.live \/ cvar

SwitchRules ==
  /\ applied = "unknown" => Quiet
  /\ Pending => wanted = PendingOn
  /\ ~Quiet => burst >= 1
  /\ crossed => burst >= 2
  /\ request = "none" => update # "looked"
  /\ request = "none" /\ ~Tangled => /\ cvar = wanted /\ Applied = Word(cvar)
                                     /\ state = 2 => bound = Word(cvar)
  /\ request = "flip" => state = 0 /\ update = "idle"
  /\ update = "waits" => state = 0
  /\ request = "on" /\ burst < 2 => state = 2
  /\ state = 2 /\ burst < 2 => bound = Applied
  /\ state = 2 /\ ~Tangled => bound \in {Word(cvar), Applied}
  /\ state = 2 /\ ~Tangled /\ Pending /\ Word(cvar) = request /\ Applied = request =>
       bound = request
  /\ LookedOK

SwitchInv == SwitchTypeOK /\ SwitchRules

\* Only the window and other threads act between the tick and the update.
InTurn == tick # "over" => update = "idle"

LEMMA SwitchInvInit == SwitchInit => SwitchInv
<1> SUFFICES ASSUME SwitchInit PROVE SwitchInv
  OBVIOUS
<1>1. SwitchTypeOK
  <2>1. cvar \in BOOLEAN /\ waited \in BOOLEAN /\ wanted \in BOOLEAN
    BY DEF SwitchInit
  <2>2. NothingSeen \in [req : {"none", "on", "off"}, live : BOOLEAN, done : BOOLEAN]
    BY DEF NothingSeen
  <2>3. bound \in {"on", "off"}
    BY DEF SwitchInit, Word
  <2>4. burst \in 0 .. 3 /\ asks \in Nat /\ state \in 0 .. 2
    BY DEF SwitchInit
  <2>5. crossed \in BOOLEAN
    BY DEF SwitchInit
  <2> QED
    BY <2>1, <2>2, <2>3, <2>4, <2>5 DEF SwitchInit, SwitchTypeOK
<1>2. SwitchRules
  BY <1>1 DEF SwitchInit, SwitchTypeOK, SwitchRules, LookedOK, Quiet, Pending, PendingOn,
     Applied, Word
<1> QED
  BY <1>1, <1>2 DEF SwitchInv

\* A request that finds all settled begins anew; any other adds to the burst.
LEMMA AskedFacts ==
  ASSUME SwitchInv, Asked(TRUE) \/ Asked(FALSE)
  PROVE  /\ burst' \in 1 .. 3 /\ crossed' \in BOOLEAN
         /\ crossed' => burst' >= 2
         /\ ~Tangled' => ~Tangled
         /\ burst' < 2 => Quiet /\ ~Tangled
         /\ ~Tangled' => Quiet \/ ~crossed
         /\ Asked(TRUE) /\ ~crossed' => Quiet
         /\ Asked(TRUE) /\ ~Tangled' => Quiet \/ burst < 2
<1>1. burst \in 0 .. 3 /\ (crossed => burst >= 2) /\ (~Quiet => burst >= 1)
  BY DEF SwitchInv, SwitchTypeOK, SwitchRules
<1>2. CASE Quiet /\ ~Tangled
  <2>1. burst' = 1 /\ crossed' = FALSE
    BY <1>2 DEF Asked
  <2>2. crossed' \in BOOLEAN /\ ~crossed' /\ ~Tangled'
    BY <2>1 DEF Tangled
  <2> QED
    BY <1>2, <2>1, <2>2
<1>3. CASE ~(Quiet /\ ~Tangled)
  <2>1. burst' = IF burst = 3 THEN 3 ELSE burst + 1
    BY <1>3 DEF Asked
  <2>2. crossed' = (crossed \/ TRUE) \/ crossed' = (crossed \/ FALSE)
    BY <1>3 DEF Asked
  <2>3. crossed' \in BOOLEAN /\ (~crossed' => ~crossed)
    BY <2>2
  <2>4. Asked(TRUE) => crossed'
    BY <1>3 DEF Asked
  <2>5. burst >= 1
    BY <1>1, <1>3 DEF Tangled
  <2>6. burst' \in 1 .. 3 /\ burst' >= 2 /\ ~(burst' < 2) /\ (burst >= 2 => burst' = 3)
    BY <1>1, <2>1, <2>5
  <2>7. ~Tangled' => ~Tangled
    BY <2>1, <2>3 DEF Tangled
  <2>8. crossed => Tangled'
    BY <1>1, <2>3, <2>6 DEF Tangled
  <2>9. burst < 2 \/ burst' = 3
    BY <1>1, <2>6
  <2>10. Asked(TRUE) => burst < 2 \/ Tangled'
    BY <2>4, <2>9 DEF Tangled
  <2> QED
    BY <2>3, <2>4, <2>6, <2>7, <2>8, <2>10
<1> QED
  BY <1>2, <1>3

LEMMA QuietFacts ==
  ASSUME SwitchInv, Quiet
  PROVE  /\ state = 2 /\ update # "looked"
         /\ ~Tangled => bound = Applied /\ cvar = wanted /\ Applied = Word(cvar)
BY DEF SwitchInv, SwitchRules, Quiet

\* The first request of a burst finds the sockets as they were set up.
LEMMA FirstFacts ==
  ASSUME SwitchInv, Asked(TRUE) \/ Asked(FALSE)
  PROVE  (state = 2 /\ burst' < 2 => bound = Applied) /\ (burst' < 2 => state = 2) /\ burst' >= 1
<1>1. burst' < 2 => state = 2 /\ bound = Applied
  BY AskedFacts, QuietFacts
<1>2. burst' \in 1 .. 3
  BY AskedFacts
<1> QED
  BY <1>1, <1>2

LEMMA ToggleStep ==
  ASSUME SwitchInv, Toggle
  PROVE  SwitchInv'
<1>1. Asked(FALSE)
  BY DEF Toggle, Asked
<1>2. SwitchTypeOK'
  <2>1. asks' \in Nat
    BY DEF SwitchInv, SwitchTypeOK, Toggle, MayAsk
  <2>2. waited' \in BOOLEAN /\ wanted' \in BOOLEAN
    BY DEF Toggle, Request, PendingOn, Connected
  <2>3. request' \in {"none", "on", "off", "flip"} /\ applied' \in {"unknown", "on", "off"}
    BY DEF SwitchInv, SwitchTypeOK, Toggle, Request, Word
  <2>4. burst' \in 0 .. 3 /\ crossed' \in BOOLEAN
    BY <1>1, AskedFacts
  <2> QED
    BY <2>1, <2>2, <2>3, <2>4 DEF SwitchInv, SwitchTypeOK, Toggle, sockets
<1>3. SwitchRules'
  <2>1. /\ request' \in {"on", "off"} /\ wanted' = PendingOn' /\ UNCHANGED <<sockets, update, seen>>
    BY DEF Toggle, Request, Word, PendingOn
  <2>2. Applied' = Applied /\ applied' # "unknown"
    BY DEF SwitchInv, SwitchTypeOK, SwitchRules, Toggle, Request, Applied, Word, Quiet, Pending,
       PendingOn, Connected
  <2>3. (state = 2 /\ burst' < 2 => bound = Applied) /\ (burst' < 2 => state = 2) /\ burst' >= 1
    BY <1>1, FirstFacts
  <2>4. state = 2 /\ ~Tangled' => bound \in {Word(cvar'), Applied}
    BY <1>1, AskedFacts DEF SwitchInv, SwitchRules, Toggle
  <2>5. state = 2 /\ ~Tangled' /\ Word(cvar') = request' /\ Applied' = request' => bound = request'
    BY <2>2, <2>4
  <2>6. LookedOK'
    <3> SUFFICES ASSUME update = "looked" PROVE LookedOK'
      BY <2>1 DEF LookedOK
    <3>1. ~Quiet /\ ~(burst' < 2)
      BY <1>1, AskedFacts, QuietFacts
    <3>2. (~crossed' => ~crossed) /\ (~Tangled' => ~crossed)
      BY <1>1, <3>1, AskedFacts DEF Tangled
    <3>3. cvar' = cvar
      BY DEF Toggle
    <3> QED
      BY <2>1, <2>2, <3>1, <3>2, <3>3
      DEF SwitchInv, SwitchRules, SwitchTypeOK, LookedOK, sockets, Word
  <2> QED
    BY <1>1, <2>1, <2>2, <2>3, <2>4, <2>5, <2>6, AskedFacts
    DEF SwitchRules, SwitchInv, Quiet, Pending, sockets
<1> QED
  BY <1>2, <1>3 DEF SwitchInv

LEMMA OverlayStep ==
  ASSUME SwitchInv, Overlay
  PROVE  SwitchInv'
<1>1. Asked(TRUE)
  BY DEF Overlay, Asked
<1>2. SwitchTypeOK'
  <2>1. asks' \in Nat
    BY DEF SwitchInv, SwitchTypeOK, Overlay, MayAsk
  <2>2. cvar' \in BOOLEAN /\ waited' \in BOOLEAN /\ wanted' \in BOOLEAN
    BY DEF SwitchInv, SwitchTypeOK, Overlay, Request
  <2>3. request' \in {"none", "on", "off", "flip"} /\ applied' \in {"unknown", "on", "off"}
    BY DEF SwitchInv, SwitchTypeOK, Overlay, Request, Word
  <2>4. burst' \in 0 .. 3 /\ crossed' \in BOOLEAN
    BY <1>1, AskedFacts
  <2> QED
    BY <2>1, <2>2, <2>3, <2>4 DEF SwitchInv, SwitchTypeOK, Overlay, sockets
<1>3. SwitchRules'
  <2>1. /\ request' \in {"on", "off"} /\ wanted' = PendingOn' /\ UNCHANGED <<sockets, update, seen>>
    BY DEF Overlay, Request, Word, PendingOn
  <2>2. Applied' = Applied /\ applied' # "unknown"
    BY DEF SwitchInv, SwitchTypeOK, SwitchRules, Overlay, Request, Applied, Word, Quiet, Pending,
       PendingOn, Connected
  <2>3. (state = 2 /\ burst' < 2 => bound = Applied) /\ (burst' < 2 => state = 2) /\ burst' >= 1
    BY <1>1, FirstFacts
  <2>4. state = 2 /\ ~Tangled' => bound \in {Word(cvar'), Applied}
    <3>1. (Quiet /\ ~Tangled) \/ burst < 2 \/ Tangled'
      BY <1>1, AskedFacts
    <3> QED
      BY <3>1, QuietFacts DEF SwitchInv, SwitchRules
  <2>5. state = 2 /\ ~Tangled' /\ Word(cvar') = request' /\ Applied' = request' => bound = request'
    BY <2>2, <2>4
  <2>6. LookedOK'
    <3> SUFFICES ASSUME update = "looked" PROVE LookedOK'
      BY <2>1 DEF LookedOK
    <3>1. ~Quiet /\ ~(burst' < 2)
      BY <1>1, AskedFacts, QuietFacts
    <3>2. crossed' /\ (~Tangled' => burst < 2 /\ ~crossed)
      BY <1>1, <3>1, AskedFacts DEF SwitchInv, SwitchRules
    <3>3. cvar' = ~cvar /\ request' = Word(~cvar)
      BY DEF Overlay, Request
    <3> QED
      BY <2>1, <2>2, <3>1, <3>2, <3>3
      DEF SwitchInv, SwitchRules, SwitchTypeOK, LookedOK, sockets, Word
  <2> QED
    BY <1>1, <2>1, <2>2, <2>3, <2>4, <2>5, <2>6, AskedFacts
    DEF SwitchRules, SwitchInv, Quiet, Pending, sockets
<1> QED
  BY <1>2, <1>3 DEF SwitchInv

LEMMA NetUpStep ==
  ASSUME SwitchInv, NetUp
  PROVE  SwitchInv'
<1>1. SwitchTypeOK'
  <2>1. waited' \in BOOLEAN
    BY DEF NetUp
  <2>2. bound' \in {"on", "off", "closed"} /\ state' \in 0 .. 2
    BY DEF SwitchInv, SwitchTypeOK, NetUp, Goes, Word
  <2> QED
    BY <2>1, <2>2 DEF SwitchInv, SwitchTypeOK, NetUp, Goes, settings, history
<1>2. SwitchRules'
  BY <1>1 DEF SwitchInv, SwitchTypeOK, NetUp, Goes, settings,
     SwitchRules, LookedOK, Quiet, Tangled, Pending, PendingOn, Applied, Word, history
<1> QED
  BY <1>1, <1>2 DEF SwitchInv

LEMMA NetLookStep ==
  ASSUME SwitchInv, NetLook
  PROVE  SwitchInv'
<1>1. SwitchTypeOK'
  BY DEF SwitchInv, SwitchTypeOK, NetLook, settings, sockets, history
<1>2. SwitchRules'
  BY <1>1 DEF SwitchInv, SwitchTypeOK, NetLook, settings, sockets,
     SwitchRules, LookedOK, Quiet, Tangled, Pending, PendingOn, Applied, Word, history
<1> QED
  BY <1>1, <1>2 DEF SwitchInv

LEMMA NetTakeStep ==
  ASSUME SwitchInv, NetTake
  PROVE  SwitchInv'
<1>1. SwitchTypeOK'
  <2>1. cvar' \in BOOLEAN
    BY DEF SwitchInv, SwitchTypeOK, NetTake, settings
  <2>2. seen' \in [req : {"none", "on", "off"}, live : BOOLEAN, done : BOOLEAN]
    BY DEF NetTake, NothingSeen
  <2>3. bound' \in {"on", "off", "closed"} /\ state' \in 0 .. 2
        /\ update' \in {"idle", "looked", "waits"}
    BY DEF SwitchInv, SwitchTypeOK, NetTake, Goes, Word
  <2>4. request' \in {"none", "on", "off", "flip"} /\ applied' \in {"unknown", "on", "off"}
    BY DEF SwitchInv, SwitchTypeOK, NetTake, settings
  <2> QED
    BY <2>1, <2>2, <2>3, <2>4 DEF SwitchInv, SwitchTypeOK, NetTake, history
<1>2. SwitchRules'
  BY <1>1 DEF SwitchInv, SwitchTypeOK, NetTake, NothingSeen, Goes, settings,
     SwitchRules, LookedOK, Quiet, Tangled, Pending, PendingOn, Applied, Word, history
<1> QED
  BY <1>1, <1>2 DEF SwitchInv

LEMMA AnswersStep ==
  ASSUME SwitchInv, ServerAnswers
  PROVE  SwitchInv'
<1>1. SwitchTypeOK'
  BY DEF SwitchInv, SwitchTypeOK, ServerAnswers, settings, sockets, history
<1>2. SwitchRules'
  BY <1>1 DEF SwitchInv, SwitchTypeOK, ServerAnswers, settings, sockets,
     SwitchRules, LookedOK, Quiet, Tangled, Pending, PendingOn, Applied, Word, history
<1> QED
  BY <1>1, <1>2 DEF SwitchInv

LEMMA NoServerStep ==
  ASSUME SwitchInv, NoServer
  PROVE  SwitchInv'
<1> DEFINE told == /\ request' = "off" /\ update' = "idle"
                   /\ ~cvar' /\ ~wanted' /\ ~waited'
                   /\ applied' = IF applied = "unknown" THEN "on" ELSE applied
                   /\ UNCHANGED <<sockets, seen, asks, burst, crossed>>
<1>1. SwitchTypeOK'
  <2>1. cvar' \in BOOLEAN /\ wanted' \in BOOLEAN /\ waited' \in BOOLEAN
    BY DEF NoServer, Request
  <2>2. told
    BY DEF NoServer, Request, Word
  <2> QED
    BY <2>1, <2>2 DEF SwitchInv, SwitchTypeOK, sockets
<1>2. SwitchRules'
  <2>1. told /\ update = "waits"
    BY DEF NoServer, Request, Word
  <2> QED
    BY <1>1, <2>1 DEF SwitchInv, SwitchTypeOK, sockets,
       SwitchRules, LookedOK, Quiet, Tangled, Pending, PendingOn, Applied, Word, history
<1> QED
  BY <1>1, <1>2 DEF SwitchInv

LEMMA NetDownStep ==
  ASSUME SwitchInv, NetDown
  PROVE  SwitchInv'
<1>1. SwitchTypeOK'
  <2>1. cvar' \in BOOLEAN
    BY DEF SwitchInv, SwitchTypeOK, NetDown, settings
  <2>2. request' \in {"none", "on", "off", "flip"} /\ applied' \in {"unknown", "on", "off"}
    BY DEF SwitchInv, SwitchTypeOK, NetDown, settings
  <2> QED
    BY <2>1, <2>2 DEF SwitchInv, SwitchTypeOK, NetDown, history
<1>2. SwitchRules'
  BY <1>1 DEF SwitchInv, SwitchTypeOK, NetDown, settings,
     SwitchRules, LookedOK, Quiet, Tangled, Pending, PendingOn, Applied, Word, history
<1> QED
  BY <1>1, <1>2 DEF SwitchInv

\* A join asks to go online, out of the update's way.
LEMMA JoinAsks ==
  ASSUME SwitchInv, InTurn, TickBegins
  PROVE  SwitchInv'
<1>1. CASE UNCHANGED switch
  BY <1>1 DEF SwitchInv, SwitchTypeOK, SwitchRules, LookedOK, Quiet, Tangled, Pending, PendingOn,
     Applied, history, switch, settings, sockets
<1>2. CASE ~UNCHANGED switch
  <2>1. /\ update = "idle" /\ ~PendingOn /\ ~Connected
        /\ Request(TRUE) /\ wanted' = TRUE /\ Asked(FALSE)
        /\ UNCHANGED <<cvar, sockets, update, seen, asks>>
    BY <1>2 DEF InTurn, TickBegins
  <2>2. /\ request' = "on" /\ wanted' \in BOOLEAN /\ wanted' /\ waited' \in BOOLEAN
        /\ applied' = IF applied = "unknown" THEN "off" ELSE applied
    BY <2>1 DEF Request, Word
  <2>3. burst' \in 0 .. 3 /\ crossed' \in BOOLEAN
    BY <2>1, AskedFacts
  <2>4. SwitchTypeOK'
    BY <2>1, <2>2, <2>3 DEF SwitchInv, SwitchTypeOK, sockets
  <2>5. SwitchRules'
    <3>1. Applied' = Applied /\ applied' # "unknown"
      BY <2>1, <2>2, <2>4 DEF SwitchInv, SwitchTypeOK, Connected, Applied, Word
    <3>2. (state = 2 /\ burst' < 2 => bound = Applied) /\ (burst' < 2 => state = 2) /\ burst' >= 1
      BY <2>1, FirstFacts
    <3>3. ~(Word(cvar) = "on" /\ Applied = "on")
      BY <2>1 DEF Connected, Word
    <3>4. wanted' = PendingOn'
      BY <2>2 DEF PendingOn
    <3>5. state = 2 /\ ~Tangled' => bound \in {Word(cvar), Applied}
      BY <2>1, AskedFacts DEF SwitchInv, SwitchRules
    <3> QED
      BY <2>1, <2>2, <3>1, <3>2, <3>3, <3>4, <3>5, AskedFacts
      DEF SwitchRules, SwitchInv, LookedOK, Quiet, Pending, sockets
  <2> QED
    BY <2>4, <2>5 DEF SwitchInv
<1> QED
  BY <1>1, <1>2

LEMMA SwitchSame == SwitchInv /\ UNCHANGED switch => SwitchInv'
BY DEF SwitchInv, SwitchTypeOK, SwitchRules, LookedOK, Quiet, Tangled, Pending, PendingOn,
   Applied, history, switch, settings, sockets

LEMMA InTurnStep == InTurn /\ [Next]_vars => InTurn'
<1> SUFFICES ASSUME InTurn, [Next]_vars PROVE InTurn'
  OBVIOUS
<1>1. CASE Player \/ Window \/ TickReads \/ Late \/ Game \/ UNCHANGED vars
  BY <1>1 DEF InTurn, Player, Toggle, Overlay, Window, RequestJoin, CancelJoin, TickReads, Late,
     Game, PlayerSearches, PlayerLeaves, Joined, CreateGame, Answer, JoinSession, vars, join,
     switch
<1>2. CASE TickActs
  <2>1. tick' = "over"
    BY <1>2 DEF TickActs, TickDrops, TickBegins, TickOnline, TickCity, TickMenu, TickSearch,
       TickEnds, TickNothing, Ticked
  <2> QED
    BY <2>1 DEF InTurn
<1>3. CASE Net
  BY <1>3 DEF InTurn, Net
<1> QED
  BY <1>1, <1>2, <1>3 DEF Next

LEMMA SwitchStepKeeps ==
  ASSUME SwitchInv, InTurn, [Next]_vars
  PROVE  SwitchInv'
<1>1. CASE Player
  BY <1>1, ToggleStep, OverlayStep DEF Player
<1>2. CASE Net
  BY <1>2, NetUpStep, NetLookStep, NetTakeStep, AnswersStep, NoServerStep, NetDownStep
  DEF Net, NetUpdate
<1>3. CASE TickBegins
  BY <1>3, JoinAsks
<1>4. CASE UNCHANGED switch
  BY <1>4, SwitchSame
<1> QED
  BY <1>1, <1>2, <1>3, <1>4
  DEF Next, Window, RequestJoin, CancelJoin, TickReads, TickActs, TickDrops, TickOnline, TickCity,
      TickMenu, TickSearch, TickEnds, TickNothing, Late, Game, PlayerSearches, PlayerLeaves,
      Joined, CreateGame, Answer, JoinSession, vars

\* However often it is switched, and whatever joins ask, the game is wholly
\* online or wholly offline in the end, as was asked for last, but where the
\* overlay wrote the cvar in the middle of three requests.
THEOREM SwitchSettles == Spec => []Settled
<1>1. Init => SwitchInv /\ InTurn
  BY SwitchInvInit DEF Init, InTurn, SwitchInit
<1>2. SwitchInv /\ InTurn /\ [Next]_vars => SwitchInv' /\ InTurn'
  BY SwitchStepKeeps, InTurnStep
<1>3. SwitchInv => Settled
  BY DEF SwitchInv, SwitchTypeOK, SwitchRules, Settled, Quiet, Connected, Applied, Word
<1> QED
  BY <1>1, <1>2, <1>3, PTL DEF Spec

\* Sockets that the relay knows are closed with the cvar on, unless the
\* overlay wrote the cvar in the middle of a switch: but for that, what the
\* update read when it looked still holds when it closes them.
THEOREM ClosesOnline == Spec => ClosedOnline
<1>1. SwitchInv /\ InTurn /\ [Next]_vars =>
        [bound = "on" /\ bound' = "closed" => cvar' \/ crossed]_switch
  <2> SUFFICES ASSUME SwitchInv, [Next]_vars, bound = "on", bound' = "closed"
               PROVE  cvar' \/ crossed
    OBVIOUS
  <2>1. NetTake
    BY DEF Next, vars, switch, sockets, Player, Toggle, Overlay, Window, RequestJoin, CancelJoin,
       TickReads, TickActs, TickDrops, TickBegins, TickOnline, TickCity, TickMenu, TickSearch,
       TickEnds, TickNothing, Late, Net, NetUpdate, NetUp, NetLook, ServerAnswers, NoServer,
       NetDown, Goes, Word, Game, PlayerSearches, PlayerLeaves, Joined, CreateGame, Answer,
       JoinSession
  <2>2. cvar' = (~seen.live \/ cvar)
    BY <2>1 DEF NetTake, Goes, Word
  <2>3. ~crossed => seen.live = cvar
    BY <2>1 DEF NetTake, SwitchInv, SwitchRules, LookedOK
  <2> QED
    BY <2>2, <2>3
<1>2. Init => SwitchInv /\ InTurn
  BY SwitchInvInit DEF Init, InTurn, SwitchInit
<1>3. SwitchInv /\ InTurn /\ [Next]_vars => SwitchInv' /\ InTurn'
  BY SwitchStepKeeps, InTurnStep
<1> QED
  BY <1>1, <1>2, <1>3, PTL DEF Spec, ClosedOnline
=============================================================================
