---------------------------- MODULE BrowserJoin ----------------------------
(***************************************************************************)
(* Joining the room picked in the server browser                           *)
(* (src/mc_engine/online/server_browser/browser_join.cpp).  The window, a  *)
(* thread of its own, leaves a request; the guest thread's tick switches   *)
(* online (OnlineSwitch), drives the menus to the game's own Quick Match   *)
(* and sets a filter, so that hooks in the game keep the picked host only  *)
(* and stop the game from hosting instead.                                 *)
(*                                                                         *)
(* A tick is two steps, as the window may ask for another join after it    *)
(* has read the request.  The tick, the network update and the game are    *)
(* one thread and take turns.  The game itself is modelled by what the     *)
(* hooks see of it: answers to a search, then a session joined or created. *)
(***************************************************************************)
EXTENDS OnlineSwitch

CONSTANTS
  Vips,       \* hosts of rooms
  MaxJoins    \* bound: joins asked for

None == 0     \* no room: JoinRequest{}
Any == 99     \* any_room

ASSUME JoinConstants == Vips \subseteq 1 .. 98 /\ MaxJoins \in Nat

VARIABLES
  g_request, g_request_new,
  g_status,      \* the phase that the strip over the game shows
  g_target_vip,  \* the filter of the search hooks, or None
  g_phase,
  g_start_step,
  late,          \* the phase's deadline has passed
  tick,          \* the guest thread's frame: "idle", in the tick with a
                 \* "fresh" request or the "same", or "over", past it
  req,           \* the request the tick has read
  doing,         \* the game: "plays", "searches", "joins", "joined", "hosts"
  found,         \* the hosts whose answers were kept
  room,          \* the host of the session it joins
  joins          \* bound: joins asked for

join == <<g_request, g_request_new, g_status, g_target_vip, g_phase,
          g_start_step, late, tick, req>>
game == <<doing, found, room>>
vars == <<switch, join, game, joins>>

Waiting == {"GoingOnline", "Starting", "Searching", "Joining"}
Phases == Waiting \cup {"Idle", "Failed"}

Init ==
  /\ SwitchInit
  /\ g_request = None /\ g_request_new = FALSE
  /\ g_status = "Idle" /\ g_phase = "Idle"
  /\ g_target_vip = None /\ g_start_step = 0 /\ late = FALSE
  /\ tick = "idle" /\ req = None
  /\ doing = "plays" /\ found = {} /\ room = None
  /\ joins = 0

-----------------------------------------------------------------------------
(* The window.                                                             *)

RequestJoin(r) ==
  /\ joins < MaxJoins /\ joins' = joins + 1
  /\ g_request' = r /\ g_request_new' = TRUE
  /\ g_status' = "GoingOnline"
  /\ UNCHANGED <<switch, g_target_vip, g_phase, g_start_step, late, tick, req, game>>

\* DrawJoinStrip: a failure was shown for its six seconds.
CancelJoin ==
  /\ g_status = "Failed"
  /\ g_request' = None /\ g_request_new' = TRUE
  /\ UNCHANGED <<switch, g_status, g_target_vip, g_phase, g_start_step, late,
                 tick, req, game, joins>>

-----------------------------------------------------------------------------
(* The guest thread: TickServerBrowserJoin.                                *)

TickReads ==
  /\ tick = "idle"
  /\ tick' = IF g_request_new THEN "fresh" ELSE "same"
  /\ g_request_new' = FALSE
  /\ req' = g_request
  /\ UNCHANGED <<switch, g_request, g_status, g_target_vip, g_phase, g_start_step,
                 late, game, joins>>

\* The phase begins, with a deadline of its own, and the strip says so.
Enters(phase) ==
  /\ g_phase' = phase /\ g_status' = phase /\ late' = FALSE

\* Fault: a join that ends leaves its filter behind.
Finish_KeepsFilter(phase) ==
  /\ g_start_step' = 0
  /\ g_phase' = phase /\ g_status' = phase /\ late' = FALSE
  /\ UNCHANGED g_target_vip

Finish(phase) ==
  /\ g_target_vip' = None /\ g_start_step' = 0
  /\ g_phase' = phase /\ g_status' = phase /\ late' = FALSE

Ticked ==
  /\ tick' = "over"
  /\ UNCHANGED <<g_request, g_request_new, req, joins>>

\* A join was cancelled.
TickDrops ==
  /\ tick = "fresh" /\ req = None
  /\ Finish("Idle") /\ Ticked
  /\ UNCHANGED <<switch, game>>

\* A new join: what was under way is forgotten.  If the game is online the
\* same tick goes on with Starting, or else it is switched on first.
TickBegins ==
  /\ tick = "fresh" /\ req # None
  /\ IF Connected \/ PendingOn
     THEN UNCHANGED switch
     ELSE /\ Request(TRUE) /\ wanted' = TRUE
          /\ Asked(FALSE)
          /\ UNCHANGED <<cvar, sockets, update, seen, asks>>
  /\ g_target_vip' = None /\ g_start_step' = 0 /\ late' = FALSE
  /\ IF ~Pending /\ Connected
     THEN g_phase' = "Starting" /\ g_status' = "Starting"
     ELSE g_phase' = "GoingOnline" /\ UNCHANGED g_status
  /\ Ticked
  /\ UNCHANGED game

TickOnline ==
  /\ tick = "same" /\ g_phase = "GoingOnline"
  /\ \/ /\ ~Pending /\ Connected
        /\ Enters("Starting") /\ g_start_step' = 0
        /\ UNCHANGED g_target_vip
     \/ /\ Pending \/ ~Connected
        /\ late /\ Finish("Failed")
  /\ Ticked
  /\ UNCHANGED <<switch, game>>

\* The city is not loaded, or no more; only the first step has a deadline.
TickCity ==
  /\ tick = "same" /\ g_phase = "Starting"
  /\ g_start_step = 0
  /\ IF late THEN Finish("Failed")
     ELSE g_status' = "Starting" /\ UNCHANGED <<g_phase, g_target_vip, g_start_step, late>>
  /\ Ticked
  /\ UNCHANGED <<switch, game>>

\* To the online menu, which may not be there.
TickMenu ==
  /\ tick = "same" /\ g_phase = "Starting" /\ g_start_step = 0
  /\ \/ g_start_step' = 1 /\ UNCHANGED <<g_phase, g_status, g_target_vip, late>>
     \/ Finish("Failed")
  /\ Ticked
  /\ UNCHANGED <<switch, game>>

\* The frame after: the filter, and the game searches anew.
TickSearch ==
  /\ tick = "same" /\ g_phase = "Starting" /\ g_start_step = 1
  /\ g_target_vip' = IF req = Any THEN None ELSE req
  /\ Enters("Searching") /\ UNCHANGED g_start_step
  /\ doing' = "searches" /\ found' = {} /\ room' = None
  /\ Ticked
  /\ UNCHANGED switch

\* Fault: no deadline once the game joins.
TickEnds_SearchOnly ==
  /\ tick = "same" /\ g_phase = "Searching" /\ late
  /\ Finish(IF req # Any THEN "Failed" ELSE "Idle")
  /\ Ticked
  /\ UNCHANGED <<switch, game>>

TickEnds ==
  /\ tick = "same" /\ g_phase \in {"Searching", "Joining"} /\ late
  /\ Finish(IF g_phase = "Searching" /\ req # Any THEN "Failed" ELSE "Idle")
  /\ Ticked
  /\ UNCHANGED <<switch, game>>

TickNothing ==
  /\ tick = "same"
  /\ \/ g_phase \in {"Idle", "Failed"}
     \/ g_phase = "GoingOnline" /\ (Pending \/ ~Connected) /\ ~late
     \/ g_phase = "Starting" /\ g_start_step = 1
     \/ g_phase \in {"Searching", "Joining"} /\ ~late
  /\ Ticked
  /\ UNCHANGED <<switch, g_status, g_target_vip, g_phase, g_start_step, late, game>>

\* 12 s, 120 s, 45 s or 30 s have passed.
Late ==
  /\ g_phase \in Waiting /\ ~late
  /\ late' = TRUE
  /\ UNCHANGED <<switch, g_request, g_request_new, g_status, g_target_vip, g_phase,
                 g_start_step, tick, req, game, joins>>

\* The network update comes once in a frame, like the tick.
Net ==
  /\ tick = "over" /\ NetUpdate
  /\ tick' = IF update' = "idle" THEN "idle" ELSE "over"
  /\ UNCHANGED <<g_request, g_request_new, g_status, g_target_vip, g_phase,
                 g_start_step, late, req, game, joins>>

-----------------------------------------------------------------------------
(* The game, at the hooks.                                                 *)

GuestFree == update = "idle" /\ tick \in {"idle", "over"}

\* The player searches by himself, leaves a session, or breaks off.
PlayerSearches ==
  /\ GuestFree /\ doing = "plays"
  /\ doing' = "searches" /\ found' = {}
  /\ UNCHANGED <<switch, join, room, joins>>

PlayerLeaves ==
  /\ GuestFree /\ doing # "plays"
  /\ doing' = "plays" /\ found' = {} /\ room' = None
  /\ UNCHANGED <<switch, join, joins>>

\* Fault: a search answer is kept whoever sent it.
Answer_KeepsAll(v) ==
  /\ GuestFree /\ doing = "searches"
  /\ found' = found \cup {v}
  /\ UNCHANGED <<switch, join, doing, room, joins>>

\* Hook_BrowserLanResult, Hook_BrowserLiveResult: a room answers a search.
Answer(v) ==
  /\ GuestFree /\ doing = "searches"
  /\ found' = IF g_target_vip \in {None, v} THEN found \cup {v} ELSE found
  /\ UNCHANGED <<switch, join, doing, room, joins>>

\* Fault: the strip is not told.
JoinSession_Silent(v) ==
  /\ GuestFree /\ doing = "searches" /\ v \in found
  /\ doing' = "joins" /\ room' = v
  /\ IF g_phase = "Searching" THEN g_phase' = "Joining" /\ late' = FALSE
     ELSE UNCHANGED <<g_phase, late>>
  /\ UNCHANGED <<switch, g_request, g_request_new, g_status, g_target_vip, g_start_step,
                 tick, req, found, joins>>

\* Hook_BrowserJoinSession: the script joins one that it found.
JoinSession(v) ==
  /\ GuestFree /\ doing = "searches" /\ v \in found
  /\ doing' = "joins" /\ room' = v
  /\ IF g_phase = "Searching" THEN Enters("Joining")
     ELSE UNCHANGED <<g_phase, g_status, late>>
  /\ UNCHANGED <<switch, g_request, g_request_new, g_target_vip, g_start_step,
                 tick, req, found, joins>>

Joined ==
  /\ GuestFree /\ doing = "joins"
  /\ doing' = "joined"
  /\ UNCHANGED <<switch, join, found, room, joins>>

\* Hook_BrowserCreateGameVeto: nothing was found, or it could not be joined.
CreateGame ==
  /\ GuestFree
  /\ (doing = "searches" /\ found = {}) \/ doing = "joins"
  /\ IF g_target_vip # None
     THEN doing' = "plays" /\ Finish("Failed")
     ELSE doing' = "hosts" /\ UNCHANGED <<g_target_vip, g_start_step, g_phase, g_status, late>>
  /\ found' = {} /\ room' = None
  /\ UNCHANGED <<switch, g_request, g_request_new, tick, req, joins>>

-----------------------------------------------------------------------------
Player ==
  /\ Toggle \/ Overlay
  /\ UNCHANGED <<join, game, joins>>

Window == (\E r \in Vips \cup {Any} : RequestJoin(r)) \/ CancelJoin

TickActs ==
  \/ TickDrops \/ TickBegins \/ TickOnline \/ TickCity \/ TickMenu
  \/ TickSearch \/ TickEnds \/ TickNothing

Game ==
  \/ PlayerSearches \/ PlayerLeaves \/ Joined \/ CreateGame
  \/ \E v \in Vips : Answer(v) \/ JoinSession(v)

Next == Player \/ Window \/ TickReads \/ TickActs \/ Late \/ Net \/ Game

Spec == Init /\ [][Next]_vars

\* A frame has a tick and a network update, and time goes on.
FairSpec ==
  Spec /\ WF_vars(TickReads) /\ WF_vars(TickActs) /\ WF_vars(Late) /\ WF_vars(Net)

-----------------------------------------------------------------------------
TypeOK ==
  /\ SwitchTypeOK
  /\ g_request \in Vips \cup {None, Any} /\ g_request_new \in BOOLEAN
  /\ g_status \in Phases /\ g_phase \in Phases
  /\ g_target_vip \in Vips \cup {None}
  /\ g_start_step \in {0, 1} /\ late \in BOOLEAN
  /\ tick \in {"idle", "fresh", "same", "over"} /\ req \in Vips \cup {None, Any}
  /\ doing \in {"plays", "searches", "joins", "joined", "hosts"}
  /\ found \subseteq Vips /\ room \in Vips \cup {None}
  /\ joins \in Nat

\* The filter is on only while the game searches for, or joins, the room that
\* was picked last: a join that ended, failed, was cancelled or replaced leaves
\* none behind that would narrow, or veto, the game's own Quick Match.
FilterFits ==
  tick # "fresh" /\ g_target_vip # None =>
    /\ g_phase \in {"Searching", "Joining"}
    /\ g_target_vip = req

\* "the game's search keeps only that host", "If the host is gone the script
\* would make us host instead; that is vetoed" (browser_join.h): as long as a
\* picked room is searched for or joined, the game joins no other and hosts
\* none, whatever answered an earlier search or the player does meanwhile.
PickedOnly ==
  tick # "fresh" /\ g_phase \in {"Searching", "Joining"} /\ req # Any =>
    /\ doing # "hosts"
    /\ doing \in {"joins", "joined"} => room = req

\* "this strip says how it goes" (browser_ui.cpp): what the player sees is the
\* phase the join is in, except while it goes online: there the strip may
\* still show what became of the join before, and cancel on that account.
StripTrue ==
  tick \in {"idle", "over"} /\ ~g_request_new /\ g_phase # "GoingOnline" => g_status = g_phase

\* The filter does not stay: the game's own searches find everybody again.
FilterEnds == g_target_vip # None ~> g_target_vip = None
=============================================================================
