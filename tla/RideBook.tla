------------------------------ MODULE RideBook ------------------------------
(***************************************************************************)
(* What the Rate My Ride server promises (rmr_store.h, "Rules the game     *)
(* relies on"): a book with one ride per player.  No files, no crashes.    *)
(***************************************************************************)
EXTENDS Naturals

CONSTANTS Players, None

VARIABLES
  rides,  \* [Players -> a ride or None]
  given   \* what rides were ever listed as: [id, owner, ver]

bvars == <<rides, given>>

Init == rides = [p \in Players |-> None] /\ given = {}

Listed(p) == rides[p] # None

\* p lists an upload of which nothing was ever seen, or puts it in place of
\* the one he has.  It keeps the id that its raters and buyers know, or gets
\* one nobody ever knew; the scores of the old one are gone, what it sold and
\* was not paid for stays.
Publish(p) ==
  /\ rides'[p] # None /\ rides'[p].raters = {}
  /\ \A g \in given : g.ver # rides'[p].ver
  /\ IF Listed(p)
     THEN rides'[p].id = rides[p].id /\ rides'[p].owed = rides[p].owed
     ELSE (\A g \in given : g.id # rides'[p].id) /\ rides'[p].owed = 0
  /\ given' = given \cup {[id |-> rides'[p].id, owner |-> p, ver |-> rides'[p].ver]}

\* Somebody else rates p's ride, for the first time or again.
Rate(p) ==
  /\ Listed(p)
  /\ \E by \in Players \ {p} :
       rides'[p] = [rides[p] EXCEPT !.raters = @ \cup {by}]
  /\ UNCHANGED given

Sell(p) ==
  /\ Listed(p) /\ rides[p].for_sale
  /\ rides'[p] = [rides[p] EXCEPT !.owed = @ + 1]
  /\ UNCHANGED given

\* p offers his ride or withdraws it, and collects what he is owed.
Change(p) ==
  /\ Listed(p) /\ rides'[p] # None
  /\ rides'[p] = [rides[p] EXCEPT !.for_sale = rides'[p].for_sale,
                                  !.owed = rides'[p].owed]
  /\ UNCHANGED given

\* A step is about one player's ride.
Next ==
  \E p \in Players :
    /\ \A q \in Players \ {p} : rides'[q] = rides[q]
    /\ Publish(p) \/ Rate(p) \/ Sell(p) \/ Change(p)

Spec == Init /\ [][Next]_bvars
=============================================================================
