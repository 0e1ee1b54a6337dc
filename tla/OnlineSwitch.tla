---------------------------- MODULE OnlineSwitch ----------------------------
(***************************************************************************)
(* Switching the game online and offline while it runs                     *)
(* (src/mc_engine/online/system_link.cpp): a request is left by any thread *)
(* (the pause menu, the F4 overlay, a join) and carried out by two hooks   *)
(* in the guest's network update, which close the game's sockets and open  *)
(* them again with the cvar mcla_online_enable the other way.              *)
(*                                                                         *)
(* The hook is two steps, what it reads and the compare-exchange that      *)
(* takes the request, as another thread may ask in between.  The rest of   *)
(* an update is one step with that, but for the wait for the server.       *)
(***************************************************************************)
EXTENDS Naturals

CONSTANTS
  MaxAsks    \* bound: switches the player asks for

ASSUME SwitchConstants == MaxAsks \in Nat

VARIABLES
  cvar,      \* mcla_online_enable
  request,   \* g_link_request: "none", "on", "off", "flip"
  applied,   \* g_link_applied: what the sockets were set up with, or "unknown"
  waited,    \* an update has passed since the last request
  state,     \* the net hardware state: 0 down, 1 coming up, 2 up
  bound,     \* how the sockets were opened: "on", "off", or "closed"
  update,    \* the network update: "idle", "looked", "waits"
  seen,      \* what it read when it looked
  asks,      \* bound: switches asked for
  burst,     \* history: requests since all was settled, three for more
  crossed,   \* history: one of these came from the overlay, not the first
  wanted     \* history: what was asked for last, or off when the server
             \* did not answer

settings == <<cvar, applied>>
sockets == <<state, bound>>
history == <<burst, crossed, wanted>>
switch == <<settings, request, waited, sockets, update, seen, asks, history>>

Word(on) == IF on THEN "on" ELSE "off"

NothingSeen == [req |-> "none", live |-> FALSE, done |-> FALSE]

SwitchInit ==
  /\ cvar \in BOOLEAN
  /\ request = "none" /\ applied = "unknown" /\ waited = FALSE
  /\ state = 2 /\ bound = Word(cvar)
  /\ update = "idle" /\ seen = NothingSeen
  /\ asks = 0 /\ burst = 0 /\ crossed = FALSE /\ wanted = cvar

-----------------------------------------------------------------------------
(* What other code asks.                                                   *)

\* Applied: until a request says otherwise the cvar is what the boot used.
\* (That it stores the answer changes nothing.)
Applied == IF applied = "unknown" THEN Word(cvar) ELSE applied

Pending == request # "none"
PendingOn == request = "on"
Connected == cvar /\ Applied = "on"

\* SystemLinkOnlineRequest: a request is a flip of what is set up now.
Request(on) ==
  /\ applied' = IF applied = "unknown" THEN Word(~on) ELSE applied
  /\ waited' = FALSE
  /\ request' = Word(on)

Quiet == request = "none" /\ update = "idle" /\ state = 2

\* The overlay writes the cvar at once, and what it writes while a switch is
\* under way is not written back.  With three requests or more two may cancel
\* each other out, and what the cvar was left as is nobody's wish.
Tangled == crossed /\ burst = 3

Asked(overlay) ==
  /\ burst' = IF Quiet /\ ~Tangled THEN 1 ELSE IF burst = 3 THEN 3 ELSE burst + 1
  /\ crossed' = IF Quiet /\ ~Tangled THEN FALSE ELSE crossed \/ overlay

MayAsk == asks < MaxAsks /\ asks' = asks + 1

\* LanOnlineToggle: what the box in the menu does not show.
Toggle ==
  LET on == IF Pending THEN ~PendingOn ELSE ~Connected
  IN  /\ MayAsk /\ Asked(FALSE)
      /\ Request(on)
      /\ wanted' = on
      /\ UNCHANGED <<cvar, sockets, update, seen>>

\* The F4 overlay writes the cvar, whose change callback asks.  The registry
\* is locked meanwhile, so nobody reads the cvar in between.
Overlay ==
  LET on == ~cvar
  IN  /\ MayAsk /\ Asked(TRUE)
      /\ cvar' = on
      /\ Request(on)
      /\ wanted' = on
      /\ UNCHANGED <<sockets, update, seen>>

-----------------------------------------------------------------------------
(* The network update.                                                     *)

\* The update goes on as ever: a link that came up opens the sockets.
Goes ==
  /\ state' = 2
  /\ bound' = IF state = 1 THEN Word(cvar) ELSE bound
  /\ update' = "idle"

\* Hook_NetLinkWhileUp: nothing to do, or not yet.
NetUp ==
  /\ update = "idle" /\ state # 0
  /\ request \notin {"on", "off"} \/ (request = "on" /\ ~waited)
  /\ waited' = TRUE
  /\ Goes
  /\ UNCHANGED <<settings, request, seen, asks, history>>

NetLook ==
  /\ update = "idle" /\ state # 0
  /\ request = "off" \/ (request = "on" /\ waited)
  /\ update' = "looked"
  /\ waited' = TRUE
  /\ seen' = [req |-> request, live |-> cvar,
              done |-> Word(cvar) = request /\ Applied = request]
  /\ UNCHANGED <<settings, request, sockets, asks, history>>

\* Fault: the request is cleared by a store, whatever it is by now.
NetTake_Stores ==
  /\ update = "looked"
  /\ LET on == seen.req = "on"
     IN  /\ request' = IF on \/ seen.done THEN "none" ELSE "flip"
         /\ IF ~seen.done
            THEN /\ cvar' = (~seen.live \/ cvar)
                 /\ applied' = IF on THEN "on" ELSE applied
                 /\ state' = 0 /\ bound' = "closed"
                 /\ update' = IF on THEN "waits" ELSE "idle"
            ELSE Goes /\ UNCHANGED settings
  /\ seen' = NothingSeen
  /\ UNCHANGED <<waited, asks, history>>

\* Fault: the cvar is left as the overlay set it.
NetTake_LeavesCvar ==
  /\ update = "looked"
  /\ LET on == seen.req = "on"
         taken == request = seen.req
     IN  /\ request' = IF ~taken THEN request
                       ELSE IF on \/ seen.done THEN "none" ELSE "flip"
         /\ IF taken /\ ~seen.done
            THEN /\ cvar' = (on \/ cvar)
                 /\ applied' = IF on THEN "on" ELSE applied
                 /\ state' = 0 /\ bound' = "closed"
                 /\ update' = IF on THEN "waits" ELSE "idle"
            ELSE Goes /\ UNCHANGED settings
  /\ seen' = NothingSeen
  /\ UNCHANGED <<waited, asks, history>>

\* The request is taken, and the link goes down, unless there is a newer one
\* or nothing to be done.
NetTake ==
  /\ update = "looked"
  /\ LET on == seen.req = "on"
         taken == request = seen.req
     IN  /\ request' = IF ~taken THEN request
                       ELSE IF on \/ seen.done THEN "none" ELSE "flip"
         /\ IF taken /\ ~seen.done
            THEN /\ cvar' = (~seen.live \/ cvar)
                 /\ applied' = IF on THEN "on" ELSE applied
                 /\ state' = 0 /\ bound' = "closed"
                 /\ update' = IF on THEN "waits" ELSE "idle"
            ELSE Goes /\ UNCHANGED settings
  /\ seen' = NothingSeen
  /\ UNCHANGED <<waited, asks, history>>

\* The players' records are rebuilt, the SDK starts its client and waits for
\* the server, with the game frozen.
ServerAnswers ==
  /\ update = "waits"
  /\ update' = "idle"
  /\ UNCHANGED <<settings, request, waited, sockets, seen, asks, history>>

\* It does not answer: the SDK switches the cvar off, and the callback makes
\* that a request like the overlay's.
NoServer ==
  /\ update = "waits"
  /\ cvar' = FALSE
  /\ Request(FALSE)
  /\ update' = "idle"
  /\ wanted' = FALSE
  /\ UNCHANGED <<sockets, seen, asks, burst, crossed>>

\* Fault: the flip is left to an update that finds the link up.
NetDown_NoFlip ==
  /\ update = "idle" /\ state = 0
  /\ state' = 1
  /\ UNCHANGED <<request, settings, waited, bound, update, seen, asks, history>>

\* Hook_NetLinkWhileDown, as the link comes back.
NetDown ==
  /\ update = "idle" /\ state = 0
  /\ state' = 1
  /\ IF request = "flip"
     THEN request' = "none" /\ cvar' = FALSE /\ applied' = "off"
     ELSE UNCHANGED <<request, settings>>
  /\ UNCHANGED <<waited, bound, update, seen, asks, history>>

NetUpdate == NetUp \/ NetLook \/ NetTake \/ ServerAnswers \/ NoServer \/ NetDown

SwitchStep == Toggle \/ Overlay \/ NetUpdate

-----------------------------------------------------------------------------
(* Properties.                                                             *)

SwitchTypeOK ==
  /\ cvar \in BOOLEAN
  /\ request \in {"none", "on", "off", "flip"}
  /\ applied \in {"unknown", "on", "off"}
  /\ waited \in BOOLEAN /\ state \in 0 .. 2
  /\ bound \in {"on", "off", "closed"}
  /\ update \in {"idle", "looked", "waits"}
  /\ seen \in [req : {"none", "on", "off"}, live : BOOLEAN, done : BOOLEAN]
  /\ asks \in Nat /\ burst \in 0 .. 3 /\ crossed \in BOOLEAN /\ wanted \in BOOLEAN

\* "Either way they reopen consistent with the cvar" (system_link.cpp): once
\* nothing is asked for any more the game is wholly online or wholly offline,
\* sockets, cvar and what the menus show, and that as it was asked for last,
\* however often it was: no request is lost to one that was being carried out
\* or to the SDK's change of the cvar.  Not so where the overlay has written
\* the cvar in the middle of three requests: there the code breaks its word.
Settled ==
  Quiet /\ ~Tangled => bound = Word(cvar) /\ cvar = wanted /\ Connected = cvar

\* "Off has to close the sockets while online is still on": sockets the relay
\* knows are closed with the cvar on, whether the menu or the overlay asked,
\* and whatever the menu, a join or the SDK asks between the look and the
\* close.  Not so if the overlay writes the cvar while a switch is under way.
ClosedOnline ==
  [][bound = "on" /\ bound' = "closed" => cvar' \/ crossed]_switch

\* Every request is carried out, in the end.
SwitchDone == Pending ~> ~Pending
=============================================================================
