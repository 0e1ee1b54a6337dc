---------------------------- MODULE NickOwnership ---------------------------
(***************************************************************************)
(* What the nick registry promises (identity_registry.h): "a nick changes  *)
(* hands only by its recovery code (after a hold the current owner can     *)
(* cancel from the game) or by sitting unused past the expiry".  No disk,  *)
(* no restart, no answers that get lost.                                   *)
(***************************************************************************)
EXTENDS Integers

CONSTANTS Nicks, Keys, None, HoldTime, ExpireTime

VARIABLES
  clock,
  owner,   \* [Nicks -> Keys or None]
  seen,    \* [Nicks -> Nat]: when the owner last showed up
  asker,   \* [Nicks -> Keys or None]: who asked for the nick with its code
  asked    \* [Nicks -> Int]: when

nvars == <<clock, owner, seen, asker, asked>>

Init ==
  /\ clock \in Nat
  /\ owner = [n \in Nicks |-> None]
  /\ seen = [n \in Nicks |-> 0]
  /\ asker = [n \in Nicks |-> None]
  /\ asked = [n \in Nicks |-> 0]

Abandoned(n) == clock - seen[n] > ExpireTime

\* Nothing is asked of n any more.
Settled(n) ==
  /\ asker' = [asker EXCEPT ![n] = None]
  /\ asked' = [asked EXCEPT ![n] = 0]

ShowsUp(n) == seen' = [seen EXCEPT ![n] = clock]

\* A free or abandoned nick goes to whoever comes first.
Take(n, k) ==
  /\ owner[n] = None \/ Abandoned(n)
  /\ owner' = [owner EXCEPT ![n] = k]
  /\ ShowsUp(n) /\ Settled(n)
  /\ UNCHANGED clock

Keep(n) ==
  /\ owner[n] # None
  /\ ShowsUp(n)
  /\ UNCHANGED <<clock, owner, asker, asked>>

\* Somebody else has the code; the hold starts, or starts again.
Ask(n, k) ==
  /\ owner[n] \notin {None, k}
  /\ asker' = [asker EXCEPT ![n] = k]
  /\ asked' = [asked EXCEPT ![n] = clock]
  /\ UNCHANGED <<clock, owner, seen>>

\* The owner says no.
Refuse(n) ==
  /\ asker[n] # None
  /\ ShowsUp(n) /\ Settled(n)
  /\ UNCHANGED <<clock, owner>>

\* The hold is over and nobody said no.
Pass(n) ==
  /\ asker[n] # None /\ clock - asked[n] >= HoldTime
  /\ owner' = [owner EXCEPT ![n] = asker[n]]
  /\ ShowsUp(n) /\ Settled(n)
  /\ UNCHANGED clock

Tick == clock' = clock + 1 /\ UNCHANGED <<owner, seen, asker, asked>>

Next ==
  \/ \E n \in Nicks, k \in Keys : Take(n, k) \/ Ask(n, k)
  \/ \E n \in Nicks : Keep(n) \/ Refuse(n) \/ Pass(n)
  \/ Tick

Spec == Init /\ [][Next]_nvars
=============================================================================
