-------------------------- MODULE RmrServerProofs --------------------------
(***************************************************************************)
(* The Rate My Ride server keeps what it serves, for any players, uploads, *)
(* races, crashes and write failures.  rmr.db is the truth: while the      *)
(* process runs its memory agrees with it, but for file numbers, and what  *)
(* is proved of rmr.db holds of what is served before and after a crash.   *)
(***************************************************************************)
EXTENDS RmrServer, FiniteSetTheorems, TLAPS

-----------------------------------------------------------------------------
(* The invariants of the store.                                            *)

\* What ride r was listed as with upload ver.
Offered(r, ver) == [id |-> r.id, owner |-> r.owner, ver |-> ver]

\* Rides and scores that may be served, if gs is all that was ever listed: one
\* ride per id and per owner, each listed and each thing listed still there
\* as its ride; each score for a ride as it was listed, none by its owner,
\* and counted.
Sound(rs, xs, gs) ==
  /\ rs \subseteq Ride /\ xs \subseteq Score /\ IsFiniteSet(xs)
  /\ \A r, s \in rs : r.id = s.id \/ r.owner = s.owner => r = s
  /\ \A r \in rs : Offered(r, r.ver) \in gs
  /\ \A g \in gs : \E r \in rs : r.id = g.id /\ r.owner = g.owner
  /\ \A r \in rs : r.num = Cardinality(Scores(xs, r.id))
  /\ \A x \in xs : \E r \in rs :
       r.id = x.id /\ r.owner # x.rater /\ Offered(r, x.ver) \in gs

\* The upload under way is newer than all that was listed, and replaces the
\* one ride of its owner, or he has none.
UploadOK ==
  op # None =>
    /\ up
    /\ op.ver <= uploads /\ \A g \in given : g.ver < op.ver
    /\ op.old # None => op.old \in records /\ op.old.owner = op.owner
    /\ op.old = None => FindByOwner(op.owner) = {}

StoreInv ==
  /\ StoreTypeOK
  /\ Sound(db.records, db.ratings, given)
  /\ \A g \in given : g.id < db.next_record /\ g.ver <= uploads
  /\ up => /\ records = db.records /\ ratings = db.ratings
           /\ next_record = db.next_record /\ db.next_file <= next_file
  /\ ~up => records = {} /\ ratings = {}
  /\ UploadOK

\* The files of rmr.db are numbered below the next it hands out after a
\* crash, and no car is another ride's file.
Numbered ==
  /\ \A r \in db.records :
       /\ r.files # <<>>
       /\ \A i \in DOMAIN r.files : r.files[i] < db.next_file
  /\ \A r, s \in db.records : \A i \in DOMAIN s.files : r.files[1] = s.files[i] => r = s

Cars(d, id) == {x \in d : x.id = id /\ x.ext = "car"}

\* Under the number id there is the car of upload ver, or what is left of it.
Car(d, id, ver) ==
  \E v \in {ver, Short} : Cars(d, id) = {[id |-> id, ext |-> "car", ver |-> v]}

\* A ride's car is there, or it went with the files of a replaced ride.
CarKept(r) ==
  \/ Car(disk, r.files[1], r.ver)
  \/ /\ Cars(disk, r.files[1]) = {}
     /\ r.id \in cut \/ (Replaces /\ op.old = r /\ op.removed > 0)

\* An upload writes above the files of rmr.db, its car first.
UploadFiles ==
  op # None =>
    /\ \A i \in DOMAIN op.files : db.next_file <= op.files[i] /\ op.files[i] < next_file
    /\ op.files = <<>> => op.left > 0 \/ op.failed
    /\ op.files # <<>> /\ ~op.failed => Car(disk, op.files[1], op.ver)
    /\ op.left > 0 => op.removed = 0 /\ ~op.failed

FilesInv == Numbered /\ (\A r \in db.records : CarKept(r)) /\ UploadFiles

\* The invariants of the board: while the server runs it knows the results
\* whose games were told so, whatever became of the file.
BoardInv ==
  /\ BoardTypeOK
  /\ up => \A p \in Players : told[p] <= rows[p].sum + local[p]
  /\ ~up => rows = Empty
  /\ \A p \in Players : rows[p].reached <= seconds
  /\ saved # None => \A p \in Players : saved[p].reached <= seconds
  /\ ToldIsKept

Inv == StoreInv /\ FilesInv /\ BoardInv /\ crashes \in Nat

-----------------------------------------------------------------------------
(* Lemmas about rides and scores.                                          *)

LEMMA ScoresFinite ==
  ASSUME NEW xs, IsFiniteSet(xs), NEW id
  PROVE  IsFiniteSet(Scores(xs, id)) /\ Cardinality(Scores(xs, id)) \in Nat
<1>1. Scores(xs, id) \subseteq xs
  BY DEF Scores
<1> QED
  BY <1>1, FS_Subset, FS_CardinalityType

\* A ride changed by a rating, a sale or its owner.
LEMMA AmendSound ==
  ASSUME NEW rs, NEW xs, NEW gs, Sound(rs, xs, gs), NEW r \in rs, NEW r2 \in Ride,
         r2.id = r.id, r2.owner = r.owner, r2.ver = r.ver,
         NEW ys \in SUBSET Score, IsFiniteSet(ys),
         \A y \in ys : \/ y \in xs
                       \/ y.id = r.id /\ y.rater # r.owner /\ Offered(r, y.ver) \in gs,
         \A s \in rs : s.id # r.id => Scores(ys, s.id) = Scores(xs, s.id),
         r2.num = Cardinality(Scores(ys, r.id))
  PROVE  Sound((rs \ {r}) \cup {r2}, ys, gs)
<1> DEFINE ss == (rs \ {r}) \cup {r2}
<1>1. ss \subseteq Ride
  BY DEF Sound
<1>2. \A s, t \in ss : s.id = t.id \/ s.owner = t.owner => s = t
  BY DEF Sound
<1>3. \A s \in ss : s.num = Cardinality(Scores(ys, s.id))
  BY DEF Sound
<1>4. \A ver : Offered(r2, ver) = Offered(r, ver)
  BY DEF Offered
<1>5. ASSUME NEW y \in ys
      PROVE  \E s \in ss : s.id = y.id /\ s.owner # y.rater /\ Offered(s, y.ver) \in gs
  <2>1. PICK s \in rs : s.id = y.id /\ s.owner # y.rater /\ Offered(s, y.ver) \in gs
    BY DEF Sound
  <2>2. CASE s = r
    BY <1>4, <2>1, <2>2
  <2>3. CASE s # r
    BY <2>1, <2>3
  <2> QED
    BY <2>2, <2>3
<1>6. \A s \in ss : Offered(s, s.ver) \in gs
  BY <1>4 DEF Sound
<1>7. ASSUME NEW g \in gs
      PROVE  \E s \in ss : s.id = g.id /\ s.owner = g.owner
  <2>1. PICK s \in rs : s.id = g.id /\ s.owner = g.owner
    BY DEF Sound
  <2>2. CASE s = r
    BY <2>1, <2>2
  <2>3. CASE s # r
    BY <2>1, <2>3
  <2> QED
    BY <2>2, <2>3
<1> QED
  BY <1>1, <1>2, <1>3, <1>5, <1>6, <1>7 DEF Sound

\* A new ride, or one in place of old, without scores.
LEMMA EnterSound ==
  ASSUME NEW rs, NEW xs, NEW gs, Sound(rs, xs, gs), NEW old, NEW new \in Ride,
         old \in rs => old.id = new.id /\ old.owner = new.owner,
         old \notin rs => \A r \in rs : r.id # new.id /\ r.owner # new.owner,
         new.num = 0
  PROVE  Sound((rs \ {old}) \cup {new}, {x \in xs : x.id # new.id},
               gs \cup {Offered(new, new.ver)})
<1> DEFINE ss == (rs \ {old}) \cup {new}
           ys == {x \in xs : x.id # new.id}
           hs == gs \cup {Offered(new, new.ver)}
<1>1. ss \subseteq Ride /\ ys \subseteq Score /\ IsFiniteSet(ys)
  BY FS_Subset DEF Sound
<1>2. \A s \in ss : s # new => s \in rs /\ s.id # new.id /\ s.owner # new.owner
  BY DEF Sound
<1>3. \A s, t \in ss : s.id = t.id \/ s.owner = t.owner => s = t
  BY <1>2 DEF Sound
<1>4. ASSUME NEW s \in ss
      PROVE  s.num = Cardinality(Scores(ys, s.id))
  <2>1. CASE s = new
    <3>1. Scores(ys, s.id) = {}
      BY <2>1 DEF Scores
    <3> QED
      BY <2>1, <3>1, FS_EmptySet
  <2>2. CASE s # new
    <3>1. Scores(ys, s.id) = Scores(xs, s.id)
      BY <1>2, <2>2 DEF Scores
    <3> QED
      BY <1>2, <2>2, <3>1 DEF Sound
  <2> QED
    BY <2>1, <2>2
<1>5. ASSUME NEW y \in ys
      PROVE  \E s \in ss : s.id = y.id /\ s.owner # y.rater /\ Offered(s, y.ver) \in hs
  <2>1. PICK s \in rs : s.id = y.id /\ s.owner # y.rater /\ Offered(s, y.ver) \in gs
    BY DEF Sound
  <2>2. s # old
    BY <2>1
  <2> QED
    BY <2>1, <2>2
<1>6. \A s \in ss : Offered(s, s.ver) \in hs
  BY <1>2 DEF Sound
<1>7. ASSUME NEW g \in hs
      PROVE  \E s \in ss : s.id = g.id /\ s.owner = g.owner
  <2>1. CASE g \in gs
    <3>1. PICK s \in rs : s.id = g.id /\ s.owner = g.owner
      BY <2>1 DEF Sound
    <3>2. CASE s = old
      BY <3>1, <3>2
    <3>3. CASE s # old
      BY <3>1, <3>3
    <3> QED
      BY <3>2, <3>3
  <2>2. CASE g = Offered(new, new.ver)
    BY <2>2 DEF Offered
  <2> QED
    BY <2>1, <2>2
<1> QED
  BY <1>1, <1>3, <1>4, <1>5, <1>6, <1>7 DEF Sound

\* Counting the scores again finds the numbers already there.
LEMMA RecountSame ==
  ASSUME NEW rs, NEW xs, NEW gs, Sound(rs, xs, gs)
  PROVE  Recount(rs, xs) = rs
<1>1. ASSUME NEW r \in rs
      PROVE  [r EXCEPT !.num = Cardinality(Scores(xs, r.id))] = r
  BY DEF Sound, Ride
<1> QED
  BY <1>1 DEF Recount

\* What a rating, a sale or an update is about is one ride there is.
LEMMA TargetIsRide ==
  ASSUME NEW id, NEW p, NEW r \in Target(id, p)
  PROVE  r \in records
BY DEF Target, FindById, FindByOwner

LEMMA ReplacedIsMine ==
  ASSUME NEW me, NEW id
  PROVE  /\ \A r \in Replaced(me, id) : r \in records /\ r.owner = me
         /\ Replaced(me, id) = {} => FindByOwner(me) = {}
BY DEF Replaced, FindById, FindByOwner
-----------------------------------------------------------------------------
(* Every step of the store preserves StoreInv.                             *)

LEMMA SharedFacts ==
  ASSUME StoreInv
  PROVE  /\ up \in BOOLEAN /\ records \subseteq Ride /\ ratings \subseteq Score
         /\ next_record \in Nat \ {0} /\ next_file \in Nat \ {0}
         /\ db.records \subseteq Ride /\ db.ratings \subseteq Score
         /\ db.next_record \in Nat \ {0} /\ db.next_file \in Nat \ {0}
         /\ uploads \in Nat /\ None \notin Ride /\ None \notin Upload
         /\ op # None => op \in Upload /\ up
         /\ op # None /\ op.old # None => op.old \in Ride /\ op.old \in records
         /\ up => Sound(records, ratings, given)
         /\ given \subseteq Offer
BY NoneApart DEF StoreInv, StoreTypeOK, UploadOK, Upload

LEMMA InitStoreInv == StoreInit => StoreInv
<1> SUFFICES ASSUME StoreInit PROVE StoreInv
  OBVIOUS
<1>1. StoreTypeOK
  <2>1. db \in [records : SUBSET Ride, ratings : SUBSET Score,
                next_record : Nat \ {0}, next_file : Nat \ {0}]
    BY DEF StoreInit, Index
  <2>2. up \in BOOLEAN
    BY DEF StoreInit
  <2>3. /\ records \subseteq Ride /\ ratings \subseteq Score
        /\ next_record \in Nat \ {0} /\ next_file \in Nat \ {0}
        /\ disk \subseteq [id : Nat, ext : {"car", "jpg"}, ver : Nat]
        /\ op \in Upload \cup {None}
        /\ uploads \in Nat /\ given \subseteq Offer /\ cut \subseteq Nat
    BY DEF StoreInit
  <2> QED
    BY <2>1, <2>2, <2>3 DEF StoreTypeOK
<1>2. Sound({}, {}, {})
  BY FS_EmptySet DEF Sound
<1> QED
  BY <1>1, <1>2 DEF StoreInit, StoreInv, Index, UploadOK

LEMMA BeginStore ==
  ASSUME StoreInv, NEW me \in Players, NEW id, NEW n \in 1 .. MaxFiles,
         NEW sells \in BOOLEAN, Begin(me, id, n, sells)
  PROVE  StoreInv' /\ op' \in Upload
<1>1. PICK old \in IF Replaced(me, id) = {} THEN {None} ELSE Replaced(me, id) :
        op' = [owner |-> me, old |-> old, ver |-> uploads + 1, sells |-> sells,
               files |-> <<>>, left |-> n, failed |-> FALSE, removed |-> 0]
  BY DEF Begin
<1>2. /\ old # None => old \in records /\ old.owner = me
      /\ old = None => FindByOwner(me) = {}
  BY <1>1, ReplacedIsMine, SharedFacts
<1>3. n \in Nat /\ <<>> \in Seq(Nat)
  BY StoreConstants
<1>4. op' \in Upload
  BY <1>1, <1>2, <1>3, SharedFacts DEF Upload
<1>5. StoreTypeOK'
  BY <1>4 DEF StoreInv, StoreTypeOK, Begin, memory
<1>6. uploads' = uploads + 1 /\ \A g \in given : g.ver \in Nat /\ g.ver <= uploads
  BY SharedFacts DEF Begin, StoreInv, Offer
<1>7. UploadOK'
  BY <1>1, <1>2, <1>6, SharedFacts DEF Begin, Handles, UploadOK, FindByOwner, memory
<1>8. \A g \in given : g.ver <= uploads'
  BY <1>6, SharedFacts
<1> QED
  BY <1>4, <1>5, <1>7, <1>8 DEF StoreInv, Begin, memory

LEMMA StoreFileStore ==
  ASSUME StoreInv, StoreFile
  PROVE  StoreInv' /\ op' \in Upload
<1>1. op \in Upload /\ op # None /\ up
  BY SharedFacts DEF StoreFile
<1>2. Append(op.files, next_file) \in Seq(Nat) /\ op.left - 1 \in Nat
  BY <1>1, SharedFacts DEF Upload, StoreFile
<1>3. op' \in Upload /\ op'.old = op.old /\ op'.owner = op.owner /\ op'.ver = op.ver
  BY <1>1, <1>2 DEF StoreFile, Upload
<1>4. disk' \subseteq [id : Nat, ext : {"car", "jpg"}, ver : Nat]
  BY <1>1, SharedFacts DEF StoreFile, WriteFile, Short, StoreInv, StoreTypeOK, Upload
<1>5. StoreTypeOK'
  BY <1>3, <1>4, SharedFacts DEF StoreInv, StoreTypeOK, StoreFile
<1>6. UploadOK'
  BY <1>1, <1>3 DEF StoreInv, StoreFile, UploadOK, FindByOwner
<1> QED
  BY <1>3, <1>5, <1>6, SharedFacts DEF StoreInv, StoreFile

LEMMA StoreFileFailsStore ==
  ASSUME StoreInv, StoreFileFails
  PROVE  StoreInv' /\ op' \in Upload
<1>1. op \in Upload /\ op # None /\ up
  BY SharedFacts DEF StoreFileFails
<1>2. op' \in Upload /\ op'.old = op.old /\ op'.owner = op.owner /\ op'.ver = op.ver
  BY <1>1 DEF StoreFileFails, Upload
<1>3. StoreTypeOK'
  BY <1>2, SharedFacts DEF StoreInv, StoreTypeOK, StoreFileFails
<1>4. UploadOK'
  BY <1>1, <1>2 DEF StoreInv, StoreFileFails, UploadOK, FindByOwner
<1> QED
  BY <1>2, <1>3, <1>4, SharedFacts DEF StoreInv, StoreFileFails

LEMMA DeleteFileStore ==
  ASSUME StoreInv, DeleteFile
  PROVE  StoreInv' /\ op' \in Upload
<1>1. op \in Upload /\ op # None /\ up
  BY SharedFacts DEF DeleteFile
<1>2. op' \in Upload /\ op'.old = op.old /\ op'.owner = op.owner /\ op'.ver = op.ver
  <2>1. op' = [op EXCEPT !.removed = op.removed + 1]
    BY DEF DeleteFile
  <2>2. op.removed + 1 \in Nat
    BY <1>1 DEF Upload
  <2> QED
    BY <1>1, <2>1, <2>2 DEF Upload
<1>3. StoreTypeOK'
  BY <1>2 DEF StoreInv, StoreTypeOK, DeleteFile, memory
<1>4. UploadOK'
  BY <1>1, <1>2 DEF StoreInv, DeleteFile, UploadOK, FindByOwner, memory
<1> QED
  BY <1>2, <1>3, <1>4 DEF StoreInv, DeleteFile, memory

LEMMA GiveUpStore ==
  ASSUME StoreInv, GiveUp
  PROVE  StoreInv'
<1>1. StoreTypeOK'
  BY DEF StoreInv, StoreTypeOK, GiveUp, memory
<1> QED
  BY <1>1 DEF StoreInv, GiveUp, UploadOK, memory

\* The ride that Enter enters, and what it takes the place of.
NewRide ==
  [id |-> IF Replaces THEN op.old.id ELSE next_record, owner |-> op.owner,
   ver |-> op.ver, files |-> op.files, for_sale |-> op.sells, num |-> 0,
   pending |-> IF Replaces THEN op.old.pending ELSE 0]

LEMMA EnterFacts ==
  ASSUME StoreInv, Enter
  PROVE  /\ op \in Upload /\ op # None /\ up /\ NewRide \in Ride
         /\ records' = (records \ {op.old}) \cup {NewRide}
         /\ ratings' = {x \in ratings : x.id # NewRide.id}
         /\ next_record' = IF Replaces THEN next_record ELSE next_record + 1
         /\ next_file' = next_file
         /\ db' = Index(records', ratings', next_record', next_file')
         /\ given' = given \cup {Offered(NewRide, NewRide.ver)} /\ cut' = cut \ {NewRide.id}
         /\ NewRide.ver <= uploads /\ \A g \in given : g.ver < NewRide.ver
         /\ op' = None /\ UNCHANGED <<up, disk, uploads>>
         /\ Replaces => op.old \in records /\ op.old.id = NewRide.id
                         /\ op.old.owner = NewRide.owner
         /\ ~Replaces => /\ op.old \notin records
                         /\ \A r \in records : r.id # NewRide.id /\ r.owner # NewRide.owner
                         /\ \A g \in given : g.id < NewRide.id
<1>1. op \in Upload /\ op # None /\ up
  BY SharedFacts DEF Enter
<1>2. Replaces => op.old \in records /\ op.old \in Ride /\ op.old.owner = op.owner
  BY <1>1 DEF StoreInv, StoreTypeOK, UploadOK, Replaces
<1>3. NewRide \in Ride
  BY <1>1, <1>2, SharedFacts DEF NewRide, Ride, Upload
<1>4. ~Replaces => /\ op.old \notin records
                   /\ \A r \in records : r.id # NewRide.id /\ r.owner # NewRide.owner
                   /\ \A g \in given : g.id < NewRide.id
  <2> SUFFICES ASSUME ~Replaces
               PROVE  /\ op.old \notin records
                      /\ \A r \in records : r.id # NewRide.id /\ r.owner # NewRide.owner
                      /\ \A g \in given : g.id < NewRide.id
    OBVIOUS
  <2>1. op.old = None /\ FindByOwner(op.owner) = {}
    BY <1>1 DEF Replaces, StoreInv, UploadOK, Enter
  <2>2. NewRide.id = next_record /\ NewRide.owner = op.owner
    BY DEF NewRide
  <2>3. \A g \in given : g.id \in Nat /\ g.id < next_record
    BY <1>1, SharedFacts DEF StoreInv, Offer
  <2>4. \A r \in records : Offered(r, r.ver) \in given
    BY <1>1, SharedFacts DEF Sound
  <2>5. ASSUME NEW r \in records PROVE r.id # next_record
    <3>1. Offered(r, r.ver).id = r.id
      BY DEF Offered
    <3>2. r.id \in Nat /\ r.id < next_record
      BY <2>3, <2>4, <3>1
    <3> QED
      BY <3>2, SharedFacts
  <2> QED
    BY <2>1, <2>2, <2>3, <2>5, SharedFacts DEF FindByOwner
<1>5. NewRide.ver <= uploads /\ \A g \in given : g.ver < NewRide.ver
  BY <1>1 DEF NewRide, StoreInv, UploadOK
<1>6. Offered(NewRide, NewRide.ver) = [id |-> NewRide.id, owner |-> op.owner, ver |-> op.ver]
  BY DEF Offered, NewRide
<1> QED
  BY <1>1, <1>2, <1>3, <1>4, <1>5, <1>6 DEF Enter, Save, NewRide

LEMMA EnterStore ==
  ASSUME StoreInv, Enter
  PROVE  StoreInv'
<1>1. Sound(records', ratings', given')
  BY EnterFacts, SharedFacts, EnterSound DEF NewRide
<1>2. /\ db'.records = records' /\ db'.ratings = ratings'
      /\ db'.next_record = next_record' /\ db'.next_file = next_file'
  BY EnterFacts DEF Index
<1>3. next_record' \in Nat \ {0} /\ next_file' \in Nat \ {0}
  BY EnterFacts, SharedFacts
<1>4. NewRide.id \in Nat \ {0} /\ NewRide.id < next_record'
  <2>1. CASE Replaces
    <3>1. Offered(op.old, op.old.ver) \in given
      BY <2>1, EnterFacts, SharedFacts DEF Sound
    <3>2. op.old.id < next_record
      BY <3>1, EnterFacts DEF StoreInv, Offered
    <3> QED
      BY <2>1, <3>2, EnterFacts DEF Ride
  <2>2. CASE ~Replaces
    BY <2>2, EnterFacts, SharedFacts DEF NewRide
  <2> QED
    BY <2>1, <2>2
<1>5. \A g \in given' : g.id < next_record' /\ g.ver <= uploads'
  <2> TAKE g \in given'
  <2>1. CASE g \in given
    <3>1. g.id \in Nat /\ g.id < next_record /\ g.ver <= uploads
      BY <2>1, EnterFacts, SharedFacts DEF StoreInv, Offer
    <3> QED
      BY <3>1, EnterFacts, SharedFacts
  <2>2. CASE g = Offered(NewRide, NewRide.ver)
    BY <1>4, <2>2, EnterFacts DEF Offered
  <2> QED
    BY <2>1, <2>2, EnterFacts
<1>6. db' \in [records : SUBSET Ride, ratings : SUBSET Score,
               next_record : Nat \ {0}, next_file : Nat \ {0}]
  BY <1>1, <1>3, EnterFacts DEF Index, Sound
<1>7. given' \subseteq Offer /\ cut' \subseteq Nat
  <2>1. Offered(NewRide, NewRide.ver) \in Offer
    BY EnterFacts DEF Ride, Offer, Offered
  <2>2. given \subseteq Offer /\ cut \subseteq Nat
    BY DEF StoreInv, StoreTypeOK
  <2> QED
    BY <2>1, <2>2, EnterFacts
<1>8. StoreTypeOK'
  BY <1>1, <1>3, <1>6, <1>7, EnterFacts DEF StoreInv, StoreTypeOK, Sound
<1>9. UploadOK'
  BY EnterFacts DEF UploadOK
<1>10. up' /\ db'.next_file <= next_file'
  BY <1>2, <1>3, EnterFacts
<1> QED
  BY <1>1, <1>2, <1>5, <1>8, <1>9, <1>10 DEF StoreInv

\* A rating, a sale or an update: ride r becomes r2 and the scores ys.
Amends(r, r2, ys) ==
  /\ Handles /\ r \in records /\ r2 \in Ride
  /\ r2.id = r.id /\ r2.owner = r.owner /\ r2.ver = r.ver /\ r2.files = r.files
  /\ ys \subseteq Score /\ IsFiniteSet(ys)
  /\ \A y \in ys : \/ y \in ratings
                   \/ y.id = r.id /\ y.rater # r.owner /\ Offered(r, y.ver) \in given
  /\ \A s \in records : s.id # r.id => Scores(ys, s.id) = Scores(ratings, s.id)
  /\ r2.num = Cardinality(Scores(ys, r.id))
  /\ Save((records \ {r}) \cup {r2}, ys, next_record, next_file)
  /\ UNCHANGED <<up, disk, op, uploads, given, cut>>

LEMMA AmendsStore ==
  ASSUME StoreInv, NEW r, NEW r2, NEW ys, Amends(r, r2, ys)
  PROVE  StoreInv'
<1>1. up /\ op = None /\ op' = None /\ UNCHANGED <<up, disk, uploads, given, cut>>
  BY DEF Amends, Handles
<1>2. /\ records' = (records \ {r}) \cup {r2} /\ ratings' = ys
      /\ next_record' = next_record /\ next_file' = next_file
      /\ db' = Index(records', ratings', next_record', next_file')
  BY DEF Amends, Save
<1>3. Sound(records', ratings', given')
  BY <1>1, <1>2, SharedFacts, AmendSound DEF Amends
<1>4. /\ db'.records = records' /\ db'.ratings = ratings'
      /\ db'.next_record = next_record' /\ db'.next_file = next_file'
  BY <1>2 DEF Index
<1>5. db' \in [records : SUBSET Ride, ratings : SUBSET Score,
               next_record : Nat \ {0}, next_file : Nat \ {0}]
  BY <1>2, <1>3, SharedFacts DEF Index, Sound
<1>6. StoreTypeOK'
  BY <1>1, <1>2, <1>3, <1>5 DEF StoreInv, StoreTypeOK, Sound
<1>7. \A g \in given' : g.id < db'.next_record /\ g.ver <= uploads'
  BY <1>1, <1>2, <1>4 DEF StoreInv
<1>8. UploadOK'
  BY <1>1 DEF UploadOK
<1>9. /\ Sound(db'.records, db'.ratings, given') /\ db'.next_file <= next_file'
       /\ next_record' = db'.next_record /\ up'
  BY <1>1, <1>2, <1>3, <1>4, SharedFacts
<1> QED
  BY <1>4, <1>6, <1>7, <1>8, <1>9 DEF StoreInv

\* What was ever listed is still there as a ride, and a request finds it.
LEMMA TargetWasOffered ==
  ASSUME StoreInv, Handles, NEW g \in given, NEW r \in Target(g.id, g.owner)
  PROVE  Offered(r, g.ver) = g
<1>1. Sound(records, ratings, given) /\ g \in Offer /\ r \in records
  BY TargetIsRide, SharedFacts DEF Handles
<1>2. PICK s \in records : s.id = g.id /\ s.owner = g.owner
  BY <1>1 DEF Sound
<1>3. r = s
  BY <1>1, <1>2 DEF Target, FindById, FindByOwner, Sound
<1> QED
  BY <1>1, <1>2, <1>3 DEF Offered, Offer

LEMMA RateAmends ==
  ASSUME StoreInv, NEW me \in Players, NEW g \in given, NEW r \in Target(g.id, g.owner),
         r.owner # me, Handles, UNCHANGED <<up, disk, op, uploads, given, cut>>,
         NEW xs, xs = {x \in ratings : ~(x.id = r.id /\ x.rater = me)}
                        \cup {[id |-> r.id, rater |-> me, ver |-> g.ver]},
         NEW r2, r2 = [r EXCEPT !.num = Cardinality(Scores(xs, r.id))],
         Save((records \ {r}) \cup {r2}, xs, next_record, next_file)
  PROVE  Amends(r, r2, xs)
<1>1. r \in records /\ r \in Ride /\ Sound(records, ratings, given) /\ g.ver \in Nat
  BY TargetIsRide, SharedFacts DEF Handles, Offer
<1>2. xs \subseteq Score
  BY <1>1, SharedFacts DEF Ride, Score
<1>3. IsFiniteSet(xs)
  <2> DEFINE old == {x \in ratings : ~(x.id = r.id /\ x.rater = me)}
  <2>1. IsFiniteSet(old)
    BY <1>1, FS_Subset DEF Sound
  <2> HIDE DEF old
  <2>2. IsFiniteSet(old \cup {[id |-> r.id, rater |-> me, ver |-> g.ver]})
    BY <2>1, FS_AddElement
  <2> QED
    BY <2>2 DEF old
<1>4. Cardinality(Scores(xs, r.id)) \in Nat
  BY <1>3, ScoresFinite
<1>5. /\ r2 \in Ride /\ r2.id = r.id /\ r2.owner = r.owner /\ r2.ver = r.ver
      /\ r2.files = r.files /\ r2.num = Cardinality(Scores(xs, r.id))
  BY <1>1, <1>4 DEF Ride
<1>6. \A y \in xs : \/ y \in ratings
                    \/ y.id = r.id /\ y.rater # r.owner /\ Offered(r, y.ver) \in given
  BY TargetWasOffered
<1>7. \A s \in records : s.id # r.id => Scores(xs, s.id) = Scores(ratings, s.id)
  BY DEF Scores
<1> QED
  BY <1>1, <1>2, <1>3, <1>5, <1>6, <1>7 DEF Amends

\* A change of the ride alone.
LEMMA RideAmends ==
  ASSUME StoreInv, NEW r \in records, Handles, UNCHANGED <<up, disk, op, uploads, given, cut>>,
         NEW r2 \in Ride, r2.id = r.id, r2.owner = r.owner, r2.ver = r.ver,
         r2.files = r.files, r2.num = r.num,
         Save((records \ {r}) \cup {r2}, ratings, next_record, next_file)
  PROVE  Amends(r, r2, ratings)
BY SharedFacts DEF Amends, Sound, Handles

\* How the players know ride r with the scores xs.
RatersOf(xs, id) == {x.rater : x \in Scores(xs, id)}
Shown(r, xs) ==
  [id |-> r.id, ver |-> r.ver, for_sale |-> r.for_sale, owed |-> r.pending,
   raters |-> RatersOf(xs, r.id)]

\* What the players see of it: a rating, a sale, or a change by the owner.
SeenAs(r, r2, ys) ==
  LET old == Shown(r, ratings)
      new == Shown(r2, ys)
  IN  \/ \E by \in Players \ {r.owner} :
           new = [old EXCEPT !.raters = old.raters \cup {by}]
      \/ r.for_sale /\ new = [old EXCEPT !.owed = old.owed + 1]
      \/ new = [old EXCEPT !.for_sale = new.for_sale, !.owed = new.owed]

LEMMA RateIsAmends ==
  ASSUME StoreInv, NEW me \in Players, NEW g \in given, Rate(me, g)
  PROVE  \E r, r2, ys : Amends(r, r2, ys) /\ SeenAs(r, r2, ys)
<1>1. PICK r \in Target(g.id, g.owner) :
        /\ r.owner # me
        /\ LET xs == {x \in ratings : ~(x.id = r.id /\ x.rater = me)}
                       \cup {[id |-> r.id, rater |-> me, ver |-> g.ver]}
           IN  Save((records \ {r}) \cup
                      {[r EXCEPT !.num = Cardinality(Scores(xs, r.id))]},
                    xs, next_record, next_file)
  BY DEF Rate
<1> DEFINE xs == {x \in ratings : ~(x.id = r.id /\ x.rater = me)}
                   \cup {[id |-> r.id, rater |-> me, ver |-> g.ver]}
           r2 == [r EXCEPT !.num = Cardinality(Scores(xs, r.id))]
<1>2. r.owner # me /\ Save((records \ {r}) \cup {r2}, xs, next_record, next_file)
  BY <1>1
<1>3. Handles /\ UNCHANGED <<up, disk, op, uploads, given, cut>>
  BY DEF Rate
<1>4. Amends(r, r2, xs)
  BY <1>2, <1>3, RateAmends
<1>5. SeenAs(r, r2, xs)
  <2>1. r \in Ride
    BY TargetIsRide, SharedFacts
  <2>2. /\ r2.id = r.id /\ r2.ver = r.ver
        /\ r2.for_sale = r.for_sale /\ r2.pending = r.pending
    BY <2>1 DEF Ride
  <2>3. RatersOf(xs, r.id) = RatersOf(ratings, r.id) \cup {me}
    <3>1. \A x \in Scores(xs, r.id) : x \in Scores(ratings, r.id) \/ x.rater = me
      BY DEF Scores
    <3>2. \A x \in Scores(ratings, r.id) : x \in Scores(xs, r.id) \/ x.rater = me
      BY DEF Scores
    <3>3. [id |-> r.id, rater |-> me, ver |-> g.ver] \in Scores(xs, r.id)
      BY DEF Scores
    <3> HIDE DEF xs
    <3>4. me \in RatersOf(xs, r.id)
      BY <3>3 DEF RatersOf
    <3> QED
      BY <3>1, <3>2, <3>4 DEF RatersOf
  <2> HIDE DEF xs, r2
  <2>4. Shown(r2, xs) = [Shown(r, ratings) EXCEPT !.raters = Shown(r, ratings).raters \cup {me}]
    BY <2>2, <2>3 DEF Shown
  <2> QED
    BY <1>2, <2>4 DEF SeenAs
<1> HIDE DEF xs, r2
<1> QED
  BY <1>4, <1>5

LEMMA BuyIsAmends ==
  ASSUME StoreInv, NEW me, NEW id, NEW p, Buy(me, id, p)
  PROVE  \E r, r2, ys : Amends(r, r2, ys) /\ SeenAs(r, r2, ys)
<1>1. PICK r \in Target(id, p) :
        r.for_sale /\ Save((records \ {r}) \cup {[r EXCEPT !.pending = r.pending + 1]},
                             ratings, next_record, next_file)
  BY DEF Buy
<1>2. r \in records /\ r \in Ride
  BY TargetIsRide, SharedFacts
<1> DEFINE r2 == [r EXCEPT !.pending = r.pending + 1]
<1>3. /\ r2 \in Ride /\ r2.id = r.id /\ r2.owner = r.owner /\ r2.ver = r.ver
      /\ r2.files = r.files /\ r2.num = r.num
  <2>1. r.pending + 1 \in Nat
    BY <1>2 DEF Ride
  <2> QED
    BY <1>2, <2>1 DEF Ride
<1>4. r2.for_sale = r.for_sale /\ r2.pending = r.pending + 1
  BY <1>2 DEF Ride
<1> HIDE DEF r2
<1>5. Amends(r, r2, ratings)
  <2>1. Save((records \ {r}) \cup {r2}, ratings, next_record, next_file)
    BY <1>1 DEF r2
  <2> QED
    BY <1>2, <1>3, <2>1, RideAmends DEF Buy
<1>6. SeenAs(r, r2, ratings)
  <2>1. Shown(r2, ratings) = [Shown(r, ratings) EXCEPT !.owed = Shown(r, ratings).owed + 1]
    BY <1>3, <1>4 DEF Shown
  <2> QED
    BY <1>1, <2>1 DEF SeenAs
<1> QED
  BY <1>5, <1>6

LEMMA UpdateIsAmends ==
  ASSUME StoreInv, NEW me, NEW id, NEW p, NEW sells \in BOOLEAN, NEW owed \in 0 .. MaxSales,
         Update(me, id, p, sells, owed)
  PROVE  \E r, r2, ys : Amends(r, r2, ys) /\ SeenAs(r, r2, ys)
<1>1. PICK r \in Target(id, p) :
        Save((records \ {r}) \cup {[r EXCEPT !.for_sale = sells, !.pending = owed]},
             ratings, next_record, next_file)
  BY Zenon DEF Update
<1>2. r \in records /\ r \in Ride
  BY TargetIsRide, SharedFacts
<1> DEFINE r2 == [r EXCEPT !.for_sale = sells, !.pending = owed]
<1>3. /\ r2 \in Ride /\ r2.id = r.id /\ r2.owner = r.owner /\ r2.ver = r.ver
      /\ r2.files = r.files /\ r2.num = r.num
  <2>1. owed \in Nat
    BY StoreConstants
  <2> QED
    BY <1>2, <2>1 DEF Ride
<1> HIDE DEF r2
<1>4. Amends(r, r2, ratings)
  <2>1. Save((records \ {r}) \cup {r2}, ratings, next_record, next_file)
    BY <1>1 DEF r2
  <2> QED
    BY <1>2, <1>3, <2>1, RideAmends DEF Update
<1>5. SeenAs(r, r2, ratings)
  <2>1. Shown(r2, ratings)
          = [Shown(r, ratings) EXCEPT !.for_sale = Shown(r2, ratings).for_sale,
                                      !.owed = Shown(r2, ratings).owed]
    <3>1. Shown(r2, ratings).for_sale = r2.for_sale /\ Shown(r2, ratings).owed = r2.pending
      BY DEF Shown
    <3>2. Shown(r2, ratings)
            = [Shown(r, ratings) EXCEPT !.for_sale = r2.for_sale, !.owed = r2.pending]
      <4> DEFINE mid == [Shown(r, ratings) EXCEPT !.for_sale = r2.for_sale]
      <4>1. mid = [id |-> r.id, ver |-> r.ver, for_sale |-> r2.for_sale,
                   owed |-> r.pending, raters |-> RatersOf(ratings, r.id)]
        BY DEF Shown
      <4> HIDE DEF mid
      <4>2. [mid EXCEPT !.owed = r2.pending] = Shown(r2, ratings)
        BY <1>3, <4>1 DEF Shown
      <4> QED
        BY <4>2 DEF mid
    <3> QED
      BY <3>1, <3>2
  <2> QED
    BY <2>1 DEF SeenAs
<1> QED
  BY <1>4, <1>5

LEMMA CrashStore == StoreInv /\ StoreCrash => StoreInv'
<1> SUFFICES ASSUME StoreInv, StoreCrash PROVE StoreInv'
  OBVIOUS
<1>1. cut' \subseteq Nat
  BY SharedFacts DEF StoreCrash, Replaces, Ride, StoreInv, StoreTypeOK
<1>2. StoreTypeOK'
  <2>1. up' \in BOOLEAN
    BY DEF StoreCrash
  <2>2. /\ records' = {} /\ ratings' = {}
        /\ next_record' = 1 /\ next_file' = 1 /\ op' = None
        /\ UNCHANGED <<db, disk, uploads, given>>
    BY DEF StoreCrash
  <2> QED
    BY <1>1, <2>1, <2>2 DEF StoreInv, StoreTypeOK
<1> QED
  BY <1>2 DEF StoreInv, StoreCrash, UploadOK

LEMMA OpenStore == StoreInv /\ StoreOpen => StoreInv'
<1> SUFFICES ASSUME StoreInv, StoreOpen PROVE StoreInv'
  OBVIOUS
<1>1. records' = db.records
  BY RecountSame DEF StoreInv, StoreOpen
<1>2. op = None
  BY SharedFacts DEF StoreOpen
<1>3. StoreTypeOK'
  BY <1>1, SharedFacts DEF StoreInv, StoreTypeOK, StoreOpen
<1> QED
  BY <1>1, <1>2, <1>3, SharedFacts DEF StoreInv, StoreOpen, UploadOK
LEMMA StepStore == StoreInv /\ StoreStep => StoreInv'
<1> SUFFICES ASSUME StoreInv, StoreStep PROVE StoreInv'
  OBVIOUS
<1>1. ASSUME NEW me \in Players, NEW id, NEW n \in 1 .. MaxFiles, NEW sells \in BOOLEAN,
             Begin(me, id, n, sells)
      PROVE  StoreInv'
  BY <1>1, BeginStore
<1>2. ASSUME NEW me \in Players, NEW g \in given, Rate(me, g)
      PROVE  StoreInv'
  BY <1>2, RateIsAmends, AmendsStore
<1>3. ASSUME NEW me \in Players, NEW p \in Players, NEW id, Buy(me, id, p)
      PROVE  StoreInv'
  BY <1>3, BuyIsAmends, AmendsStore
<1>4. ASSUME NEW me \in Players, NEW p \in Players, NEW id, NEW sells \in BOOLEAN,
             NEW owed \in 0 .. MaxSales, Update(me, id, p, sells, owed)
      PROVE  StoreInv'
  BY <1>4, UpdateIsAmends, AmendsStore
<1> QED
  BY <1>1, <1>2, <1>3, <1>4, StoreFileStore, StoreFileFailsStore, DeleteFileStore, GiveUpStore,
     EnterStore DEF StoreStep

-----------------------------------------------------------------------------
(* Every step of the store preserves FilesInv.                             *)

LEMMA FileNumbers ==
  ASSUME StoreInv, FilesInv
  PROVE  /\ \A r \in db.records :
              /\ r \in Ride /\ 1 \in DOMAIN r.files
              /\ \A i \in DOMAIN r.files : r.files[i] \in Nat /\ r.files[i] < db.next_file
         /\ up => db.next_file <= next_file
         /\ op # None =>
              /\ op \in Upload /\ up
              /\ op.files # <<>> => 1 \in DOMAIN op.files
              /\ \A i \in DOMAIN op.files :
                   op.files[i] \in Nat /\ db.next_file <= op.files[i] /\ op.files[i] < next_file
<1>1. ASSUME NEW q \in Seq(Nat)
      PROVE  /\ q # <<>> => 1 \in DOMAIN q
             /\ \A i \in DOMAIN q : q[i] \in Nat
  OBVIOUS
<1>2. \A r \in Ride : r.files \in Seq(Nat)
  BY DEF Ride
<1>3. \A u \in Upload : u.files \in Seq(Nat)
  BY DEF Upload
<1> QED
  BY <1>1, <1>2, <1>3, SharedFacts DEF StoreInv, FilesInv, Numbered, UploadFiles

LEMMA InitFilesInv == StoreInit => FilesInv
BY DEF StoreInit, Index, FilesInv, Numbered, UploadFiles

LEMMA BeginFiles ==
  ASSUME StoreInv, FilesInv, NEW me \in Players, NEW id, NEW n \in 1 .. MaxFiles,
         NEW sells \in BOOLEAN, Begin(me, id, n, sells)
  PROVE  FilesInv'
<1>1. op = None /\ UNCHANGED <<db, disk, cut>>
  BY DEF Begin, Handles
<1>2. op'.files = <<>> /\ op'.left > 0 /\ op'.removed = 0 /\ ~op'.failed
  BY StoreConstants DEF Begin
<1>3. UploadFiles'
  BY <1>2 DEF UploadFiles
<1>4. ASSUME NEW r \in db.records
      PROVE  CarKept(r)'
  BY <1>1 DEF FilesInv, CarKept, Car, Cars, Replaces
<1> QED
  BY <1>1, <1>3, <1>4 DEF FilesInv, Numbered

LEMMA StoreFileFiles ==
  ASSUME StoreInv, FilesInv, StoreFile
  PROVE  FilesInv'
<1> DEFINE ext == IF op.files = <<>> THEN "car" ELSE "jpg"
<1>1. /\ op # None /\ op \in Upload /\ up /\ UNCHANGED <<db, cut>> /\ next_file \in Nat
      /\ next_file' = next_file + 1 /\ op.left > 0 /\ op.removed = 0 /\ ~op.failed
  BY SharedFacts DEF StoreFile, FilesInv, UploadFiles
<1>2. PICK ver \in {op.ver, Short} :
        disk' = {x \in disk : ~(x.id = next_file /\ x.ext = ext)}
                  \cup {[id |-> next_file, ext |-> ext, ver |-> ver]}
  BY DEF StoreFile, WriteFile
<1>3. \A id : id # next_file => Cars(disk', id) = Cars(disk, id)
  BY <1>2 DEF Cars
<1>4. /\ op'.files = Append(op.files, next_file) /\ op'.left = op.left - 1
      /\ op'.old = op.old /\ op'.removed = 0 /\ op'.failed = op.failed
      /\ op'.ver = op.ver /\ op' # None
  BY <1>1, StoreFileStore, SharedFacts DEF StoreFile, Upload
<1>5. ASSUME NEW r \in db.records
      PROVE  CarKept(r)'
  <2>1. r.files[1] \in Nat /\ r.files[1] < next_file
    BY <1>1, FileNumbers, SharedFacts
  <2>2. Cars(disk', r.files[1]) = Cars(disk, r.files[1])
    BY <1>1, <1>3, <2>1
  <2> QED
    BY <1>1, <1>4, <2>2 DEF FilesInv, CarKept, Car, Replaces
<1>6. UploadFiles'
  <2>1. op.files \in Seq(Nat)
    BY <1>1 DEF Upload
  <2>2. \A i \in DOMAIN op'.files : db.next_file <= op'.files[i] /\ op'.files[i] < next_file + 1
    BY <1>1, <1>4, <2>1, FileNumbers, SharedFacts
  <2>3. op'.files # <<>>
    BY <1>1, <1>4, <2>1
  <2>4. Car(disk', op'.files[1], op'.ver)
    <3>1. CASE op.files = <<>>
      <4>1. op'.files[1] = next_file /\ ext = "car"
        BY <1>1, <1>4, <3>1
      <4>2. Cars(disk', next_file) = {[id |-> next_file, ext |-> "car", ver |-> ver]}
        BY <1>2, <4>1 DEF Cars
      <4> QED
        BY <1>2, <1>4, <4>1, <4>2 DEF Car
    <3>2. CASE op.files # <<>>
      <4>1. op'.files[1] = op.files[1]
        BY <1>1, <1>4, <2>1, <3>2
      <4>2. op.files[1] \in Nat /\ op.files[1] < next_file
        BY <1>1, <3>2, FileNumbers
      <4>3. Cars(disk', op.files[1]) = Cars(disk, op.files[1])
        BY <1>1, <1>3, <4>2
      <4> QED
        BY <1>1, <1>4, <3>2, <4>1, <4>3 DEF FilesInv, UploadFiles, Car
    <3> QED
      BY <3>1, <3>2
  <2> QED
    BY <1>1, <1>4, <2>2, <2>3, <2>4 DEF UploadFiles
<1> QED
  BY <1>1, <1>5, <1>6 DEF FilesInv, Numbered

LEMMA StoreFileFailsFiles ==
  ASSUME StoreInv, FilesInv, StoreFileFails
  PROVE  FilesInv'
<1>1. /\ op # None /\ op \in Upload /\ up /\ UNCHANGED <<db, disk, cut>>
      /\ next_file' = next_file + 1 /\ next_file \in Nat
      /\ op.left > 0 /\ op.removed = 0
  BY SharedFacts DEF StoreFileFails, FilesInv, UploadFiles
<1>2. /\ op'.files = op.files /\ op'.failed /\ op'.left = 0 /\ op' # None
  BY <1>1, StoreFileFailsStore, SharedFacts DEF StoreFileFails, Upload
<1>3. ASSUME NEW r \in db.records
      PROVE  CarKept(r)'
  <2>1. CarKept(r) /\ ~(op.removed > 0)
    BY <1>1 DEF FilesInv
  <2> QED
    BY <1>1, <2>1 DEF CarKept, Car
<1>4. UploadFiles'
  <2>1. \A i \in DOMAIN op.files :
          /\ op.files[i] \in Nat /\ db.next_file <= op.files[i]
          /\ op.files[i] < next_file + 1
    BY <1>1, FileNumbers
  <2> QED
    BY <1>1, <1>2, <2>1 DEF UploadFiles
<1> QED
  BY <1>1, <1>3, <1>4 DEF FilesInv, Numbered

\* What DeleteFile removes: a name of a file that was stored in vain, or of
\* one of the ride to be replaced.
LEMMA DeleteFileFacts ==
  ASSUME StoreInv, FilesInv, DeleteFile
  PROVE  \E id \in Nat :
           /\ \A x : x.id # id => (x \in disk' <=> x \in disk)
           /\ disk' \subseteq disk
           /\ \/ Cars(disk', id) = Cars(disk, id)
              \/ Cars(disk', id) = {}
           /\ \/ op.failed /\ \E i \in DOMAIN op.files : id = op.files[i]
              \/ Replaces /\ \E i \in DOMAIN op.old.files : id = op.old.files[i]
<1> DEFINE k == op.removed \div 2 + 1
           ext == IF op.removed % 2 = 0 THEN "car" ELSE "jpg"
<1>1. /\ op # None /\ op \in Upload /\ op.removed < 2 * Len(Doomed)
  BY SharedFacts DEF DeleteFile, Undeleted
<1>2. Replaces => op.old \in Ride
  BY <1>1, SharedFacts DEF Replaces
<1>3. Doomed \in Seq(Nat) /\ op.removed \in Nat
  BY <1>1, <1>2 DEF Doomed, Upload, Ride
<1>4. Len(Doomed) \in Nat /\ DOMAIN Doomed = 1 .. Len(Doomed)
  BY <1>3
<1>5. k \in DOMAIN Doomed
  BY <1>1, <1>3, <1>4
<1>6. Doomed[k] \in Nat
  BY <1>3, <1>5
<1>7. disk' = {x \in disk : ~(x.id = Doomed[k] /\ x.ext = ext)}
  BY DEF DeleteFile
<1>8. \/ Cars(disk', Doomed[k]) = Cars(disk, Doomed[k])
      \/ Cars(disk', Doomed[k]) = {}
  BY <1>7 DEF Cars
<1>9. \/ op.failed /\ \E i \in DOMAIN op.files : Doomed[k] = op.files[i]
      \/ Replaces /\ \E i \in DOMAIN op.old.files : Doomed[k] = op.old.files[i]
  <2>1. CASE op.failed
    BY <1>5, <2>1 DEF Doomed
  <2>2. CASE ~op.failed /\ Replaces
    BY <1>5, <2>2 DEF Doomed
  <2>3. CASE ~op.failed /\ ~Replaces
    BY <1>4, <1>5, <2>3 DEF Doomed
  <2> QED
    BY <2>1, <2>2, <2>3
<1> HIDE DEF k, ext
<1> QED
  BY <1>6, <1>7, <1>8, <1>9

LEMMA DeleteFileFiles ==
  ASSUME StoreInv, FilesInv, DeleteFile
  PROVE  FilesInv'
<1>1. /\ op # None /\ op \in Upload /\ up /\ UNCHANGED <<db, cut, next_file>>
      /\ op.left = 0 /\ op.removed \in Nat
  BY SharedFacts DEF DeleteFile, memory, Upload
<1>2. /\ op'.old = op.old /\ op'.files = op.files /\ op'.left = op.left
      /\ op'.ver = op.ver /\ op'.failed = op.failed
      /\ op'.removed = op.removed + 1 /\ op' # None
  BY <1>1, DeleteFileStore, SharedFacts DEF DeleteFile, Upload
<1>3. PICK gone \in Nat :
        /\ \A x : x.id # gone => (x \in disk' <=> x \in disk)
        /\ \/ Cars(disk', gone) = Cars(disk, gone)
           \/ Cars(disk', gone) = {}
        /\ \/ op.failed /\ \E i \in DOMAIN op.files : gone = op.files[i]
           \/ Replaces /\ \E i \in DOMAIN op.old.files : gone = op.old.files[i]
  BY DeleteFileFacts
<1>4. ASSUME NEW id, id # gone
      PROVE  Cars(disk', id) = Cars(disk, id)
  BY <1>3, <1>4 DEF Cars
<1>5. Replaces => op.old \in db.records
  BY <1>1, SharedFacts DEF Replaces, StoreInv
<1>6. Replaces' = Replaces
  BY <1>1, <1>2 DEF Replaces
<1>7. op.removed + 1 > 0
  BY <1>1
<1>8. ASSUME NEW r \in db.records
      PROVE  CarKept(r)'
  <2>1. CarKept(r)
    BY DEF FilesInv
  <2>2. CASE Cars(disk', r.files[1]) = Cars(disk, r.files[1])
    BY <1>1, <1>2, <1>6, <1>7, <2>1, <2>2 DEF CarKept, Car
  <2>3. CASE r.files[1] = gone /\ Cars(disk', r.files[1]) = {}
    <3>1. ~(op.failed /\ \E i \in DOMAIN op.files : gone = op.files[i])
      BY <1>1, <2>3, FileNumbers, SharedFacts
    <3>2. Replaces /\ \E i \in DOMAIN op.old.files : gone = op.old.files[i]
      BY <1>3, <3>1
    <3>3. r = op.old
      BY <1>5, <2>3, <3>2 DEF FilesInv, Numbered
    <3> QED
      BY <1>2, <1>6, <1>7, <2>3, <3>2, <3>3 DEF CarKept
  <2> QED
    BY <1>3, <1>4, <2>2, <2>3
<1>9. UploadFiles'
  <2>1. op.files # <<>> /\ ~op.failed => Car(disk', op.files[1], op.ver)
    <3> SUFFICES ASSUME op.files # <<>>, ~op.failed PROVE Car(disk', op.files[1], op.ver)
      OBVIOUS
    <3>1. PICK i \in DOMAIN op.old.files : gone = op.old.files[i]
      BY <1>3
    <3>2. gone < db.next_file
      BY <1>3, <1>5, <3>1, FileNumbers
    <3>3. op.files[1] # gone
      BY <1>1, <3>2, FileNumbers, SharedFacts
    <3>4. Cars(disk', op.files[1]) = Cars(disk, op.files[1])
      BY <1>4, <3>3
    <3> QED
      BY <1>1, <3>4 DEF FilesInv, UploadFiles, Car
  <2> QED
    BY <1>1, <1>2, <2>1 DEF FilesInv, UploadFiles
<1> QED
  BY <1>1, <1>8, <1>9 DEF FilesInv, Numbered

LEMMA GiveUpFiles ==
  ASSUME StoreInv, FilesInv, GiveUp
  PROVE  FilesInv'
<1>1. op' = None /\ op.failed /\ UNCHANGED <<db, disk, cut>>
  BY DEF GiveUp
<1>2. ASSUME NEW r \in db.records
      PROVE  CarKept(r)'
  BY <1>1 DEF FilesInv, CarKept, Car, Replaces
<1> QED
  BY <1>1, <1>2 DEF FilesInv, Numbered, UploadFiles

LEMMA EnterFiles ==
  ASSUME StoreInv, FilesInv, Enter
  PROVE  FilesInv'
<1>1. /\ op # None /\ op \in Upload /\ up /\ op' = None /\ disk' = disk
      /\ records = db.records /\ db.next_file <= next_file
      /\ db.next_file \in Nat /\ next_file \in Nat
  BY EnterFacts, SharedFacts DEF StoreInv
<1>2. /\ db'.records = (records \ {op.old}) \cup {NewRide} /\ db'.next_file = next_file
      /\ cut' = cut \ {NewRide.id}
  BY EnterFacts DEF Index
<1>3. NewRide.files = op.files /\ NewRide.ver = op.ver
  BY DEF NewRide
<1>4. op.left = 0 /\ ~op.failed /\ op.files # <<>>
  BY <1>1 DEF Enter, FilesInv, UploadFiles
<1>5. \A i \in DOMAIN op.files :
        op.files[i] \in Nat /\ db.next_file <= op.files[i] /\ op.files[i] < next_file
  BY <1>1, FileNumbers
<1>6. 1 \in DOMAIN op.files
  BY <1>1, <1>4, FileNumbers
<1>7. ASSUME NEW r \in db'.records, r # NewRide
      PROVE  /\ r \in db.records /\ r # op.old /\ r.id # NewRide.id
             /\ r \in Ride /\ r.files # <<>> /\ 1 \in DOMAIN r.files
             /\ \A i \in DOMAIN r.files : r.files[i] \in Nat /\ r.files[i] < db.next_file
  <2>1. r \in db.records /\ r # op.old
    BY <1>1, <1>2, <1>7
  <2>2. \A t, u \in records : t.id = u.id => t = u
    BY <1>1, SharedFacts DEF Sound
  <2>3. r.id # NewRide.id
    BY <1>1, <2>1, <2>2, EnterFacts
  <2> QED
    BY <2>1, <2>3, FileNumbers DEF FilesInv, Numbered
<1>8. Numbered'
  <2>1. ASSUME NEW r \in db'.records
        PROVE  /\ r.files # <<>>
               /\ \A i \in DOMAIN r.files : r.files[i] < next_file
    <3>1. CASE r = NewRide
      BY <1>3, <1>4, <1>5, <3>1
    <3>2. CASE r # NewRide
      BY <1>1, <1>7, <3>2
    <3> QED
      BY <3>1, <3>2
  <2>2. ASSUME NEW r \in db'.records, NEW s \in db'.records, NEW i \in DOMAIN s.files,
               r.files[1] = s.files[i]
        PROVE  r = s
    <3>1. CASE r = NewRide /\ s # NewRide
      BY <1>1, <1>3, <1>5, <1>6, <1>7, <2>2, <3>1
    <3>2. CASE r # NewRide /\ s = NewRide
      BY <1>1, <1>3, <1>5, <1>7, <2>2, <3>2
    <3>3. CASE r # NewRide /\ s # NewRide
      BY <1>7, <2>2, <3>3 DEF FilesInv, Numbered
    <3> QED
      BY <3>1, <3>2, <3>3
  <2> QED
    BY <1>2, <2>1, <2>2 DEF Numbered
<1>9. ASSUME NEW r \in db'.records
      PROVE  CarKept(r)'
  <2>1. CASE r = NewRide
    BY <1>1, <1>3, <1>4, <2>1 DEF CarKept, Car, FilesInv, UploadFiles
  <2>2. CASE r # NewRide
    <3>1. r \in db.records /\ r # op.old /\ (r.id \in cut => r.id \in cut')
      BY <1>2, <1>7, <2>2
    <3> QED
      BY <1>1, <3>1 DEF CarKept, Car, FilesInv, Replaces
  <2> QED
    BY <2>1, <2>2
<1> QED
  BY <1>1, <1>8, <1>9 DEF FilesInv, UploadFiles

LEMMA AmendsFiles ==
  ASSUME StoreInv, FilesInv, NEW r, NEW r2, NEW ys, Amends(r, r2, ys)
  PROVE  FilesInv'
<1>1. /\ op = None /\ op' = None /\ disk' = disk /\ cut' = cut /\ up
      /\ r \in db.records /\ r2.files = r.files /\ r2.ver = r.ver /\ r2.id = r.id
      /\ db.next_file \in Nat /\ next_file \in Nat /\ db.next_file <= next_file
  BY SharedFacts DEF Amends, Handles, StoreInv
<1>2. db'.records = (db.records \ {r}) \cup {r2} /\ db'.next_file = next_file
  BY <1>1 DEF Amends, Save, Index, StoreInv
<1> DEFINE was(s) == IF s = r2 THEN r ELSE s
<1>3. ASSUME NEW s \in db'.records
      PROVE  /\ was(s) \in db.records /\ was(s).files = s.files
             /\ was(s).ver = s.ver /\ was(s).id = s.id
  BY <1>1, <1>2
<1>4. \A s, t \in db'.records : was(s) = was(t) => s = t
  BY <1>1, <1>2
<1> HIDE DEF was
<1>5. Numbered'
  <2>1. ASSUME NEW s \in db'.records
        PROVE  s.files # <<>> /\ \A i \in DOMAIN s.files : s.files[i] < next_file
    <3>1. \A i \in DOMAIN s.files : s.files[i] \in Nat /\ s.files[i] < db.next_file
      BY <1>3, FileNumbers
    <3>2. s.files # <<>>
      BY <1>3 DEF FilesInv, Numbered
    <3> QED
      BY <1>1, <3>1, <3>2
  <2>2. ASSUME NEW s \in db'.records, NEW t \in db'.records, NEW i \in DOMAIN t.files,
               s.files[1] = t.files[i]
        PROVE  s = t
    <3>1. was(s) = was(t)
      BY <1>3, <2>2 DEF FilesInv, Numbered
    <3> QED
      BY <1>4, <3>1
  <2> QED
    BY <1>2, <2>1, <2>2 DEF Numbered
<1>6. ASSUME NEW s \in db'.records
      PROVE  CarKept(s)'
  <2>1. CarKept(was(s))
    BY <1>3 DEF FilesInv
  <2> QED
    BY <1>1, <1>3, <2>1 DEF CarKept, Car, Replaces
<1> QED
  BY <1>1, <1>5, <1>6 DEF FilesInv, UploadFiles

LEMMA CrashFiles == StoreInv /\ FilesInv /\ StoreCrash => FilesInv'
<1> SUFFICES ASSUME StoreInv, FilesInv, StoreCrash PROVE FilesInv'
  OBVIOUS
<1>1. op' = None /\ UNCHANGED <<db, disk>>
  BY DEF StoreCrash
<1>2. ASSUME NEW r \in db.records
      PROVE  CarKept(r)'
  <2>1. CASE Replaces /\ op.old = r /\ op.removed > 0
    <3>1. r.id \in cut'
      BY <2>1 DEF StoreCrash
    <3> QED
      BY <1>1, <3>1 DEF FilesInv, CarKept, Car
  <2>2. CASE ~(Replaces /\ op.old = r /\ op.removed > 0)
    <3>1. cut \subseteq cut'
      BY DEF StoreCrash
    <3> QED
      BY <1>1, <2>2, <3>1 DEF FilesInv, CarKept, Car
  <2> QED
    BY <2>1, <2>2
<1> QED
  BY <1>1, <1>2 DEF FilesInv, Numbered, UploadFiles

LEMMA OpenFiles == StoreInv /\ FilesInv /\ StoreOpen => FilesInv'
<1> SUFFICES ASSUME StoreInv, FilesInv, StoreOpen PROVE FilesInv'
  OBVIOUS
<1>1. op = None /\ UNCHANGED <<db, disk, op, cut>>
  BY SharedFacts DEF StoreOpen
<1> QED
  BY <1>1 DEF FilesInv, Numbered, UploadFiles, CarKept, Car, Replaces

LEMMA StepFiles == StoreInv /\ FilesInv /\ StoreStep => FilesInv'
<1> SUFFICES ASSUME StoreInv, FilesInv, StoreStep PROVE FilesInv'
  OBVIOUS
<1>1. ASSUME NEW me \in Players, NEW id, NEW n \in 1 .. MaxFiles, NEW sells \in BOOLEAN,
             Begin(me, id, n, sells)
      PROVE  FilesInv'
  BY <1>1, BeginFiles
<1>2. ASSUME NEW me \in Players, NEW g \in given, Rate(me, g)
      PROVE  FilesInv'
  BY <1>2, RateIsAmends, AmendsFiles
<1>3. ASSUME NEW me \in Players, NEW p \in Players, NEW id, Buy(me, id, p)
      PROVE  FilesInv'
  BY <1>3, BuyIsAmends, AmendsFiles
<1>4. ASSUME NEW me \in Players, NEW p \in Players, NEW id, NEW sells \in BOOLEAN,
             NEW owed \in 0 .. MaxSales, Update(me, id, p, sells, owed)
      PROVE  FilesInv'
  BY <1>4, UpdateIsAmends, AmendsFiles
<1> QED
  BY <1>1, <1>2, <1>3, <1>4, StoreFileFiles, StoreFileFailsFiles, DeleteFileFiles, GiveUpFiles,
     EnterFiles DEF StoreStep
-----------------------------------------------------------------------------
(* Every step of the board preserves BoardInv.                             *)

LEMMA InitBoardInv == StoreInit /\ BoardInit => BoardInv
<1> SUFFICES ASSUME StoreInit, BoardInit PROVE BoardInv
  OBVIOUS
<1>1. NoRow \in Row /\ Empty \in [Players -> Row]
  BY DEF NoRow, Row, Empty
<1>2. BoardTypeOK
  <2>1. backlog \in Seq(Attempt)
    BY DEF BoardInit
  <2>2. job \in [Players -> Result \cup {None}]
    BY DEF BoardInit
  <2> QED
    BY <1>1, <2>1, <2>2 DEF BoardInit, BoardTypeOK
<1>3. ~up
  BY DEF StoreInit
<1>4. \A p \in Players : rows[p].reached <= seconds /\ saved[p].reached <= seconds
  BY DEF BoardInit, Empty, NoRow
<1>5. ToldIsKept
  <2>1. \A p \in Players : told[p] = 0 /\ saved[p].sum = 0 /\ local[p] = 0
    BY DEF BoardInit, Empty, NoRow
  <2> QED
    BY <2>1 DEF ToldIsKept
<1>6. rows = Empty
  BY DEF BoardInit
<1> QED
  BY <1>2, <1>3, <1>4, <1>5, <1>6 DEF BoardInv

\* A result goes to the local store.
LEMMA RunLocalKeeps ==
  ASSUME BoardInv, NEW p \in Players, RunLocal(p), UNCHANGED <<up, rows, saved>>
  PROVE  /\ ToldIsKept' /\ job' \in [Players -> Result \cup {None}]
         /\ local' \in [Players -> Nat] /\ told' \in [Players -> Nat]
         /\ up => \A q \in Players : told'[q] <= rows[q].sum + local'[q]
<1>1. /\ local \in [Players -> Nat] /\ told \in [Players -> Nat]
      /\ rows \in [Players -> Row] /\ (saved # None => saved \in [Players -> Row])
  BY DEF BoardInv, BoardTypeOK
<1>2. local' = [local EXCEPT ![p] = local[p] + 1] /\ told' = [told EXCEPT ![p] = told[p] + 1]
  BY DEF RunLocal
<1>3. ASSUME NEW q \in Players, NEW sum \in Nat, told[q] <= sum + local[q]
      PROVE  told'[q] <= sum + local'[q]
  BY <1>1, <1>2, <1>3
<1>4. ASSUME NEW q \in Players
      PROVE  rows[q].sum \in Nat /\ (saved # None => saved[q].sum \in Nat)
  <2>1. rows[q] \in Row /\ (saved # None => saved[q] \in Row)
    BY <1>1
  <2> QED
    BY <2>1 DEF Row
<1>5. ToldIsKept'
  BY <1>3, <1>4 DEF BoardInv, ToldIsKept
<1>6. up => \A q \in Players : told'[q] <= rows[q].sum + local'[q]
  BY <1>3, <1>4 DEF BoardInv
<1> QED
  BY <1>1, <1>2, <1>5, <1>6 DEF RunLocal, BoardInv, BoardTypeOK

LEMMA WorkerBoard ==
  ASSUME BoardInv, UNCHANGED <<rows, saved, serves, seconds, up>>,
         backlog' \in Seq(Attempt), no_service' \subseteq Players, results' \in Nat,
         job' \in [Players -> Result \cup {None}], UNCHANGED <<local, told>>
  PROVE  BoardInv'
BY DEF BoardInv, BoardTypeOK, ToldIsKept

LEMMA SubmitBoard ==
  ASSUME BoardInv, UNCHANGED up, NEW p \in Players, NEW rating \in 1 .. MaxRating, Submit(p, rating)
  PROVE  BoardInv'
<1>1. [number |-> results + 1, rating |-> rating, attempt |-> 1, sent |-> FALSE] \in Result
  BY DEF Result, BoardInv, BoardTypeOK
<1>2. job' \in [Players -> Result \cup {None}]
  BY <1>1 DEF Submit, BoardInv, BoardTypeOK
<1> QED
  BY <1>2, WorkerBoard DEF Submit, BoardInv, BoardTypeOK

LEMMA ElsewhereBoard ==
  ASSUME BoardInv, UNCHANGED up, NEW p \in Players, Elsewhere(p)
  PROVE  BoardInv'
BY RunLocalKeeps DEF Elsewhere, BoardInv, BoardTypeOK

LEMMA UnansweredBoard ==
  ASSUME BoardInv, UNCHANGED up, NEW p \in Players, Unanswered(p)
  PROVE  BoardInv'
<1>1. job[p] \in Result
  BY DEF Unanswered, BoardInv, BoardTypeOK
<1> DEFINE again == [job[p] EXCEPT !.attempt = job[p].attempt + 1, !.sent = FALSE]
<1>2. again \in Result
  <2>1. job[p].attempt + 1 \in Nat
    BY <1>1 DEF Result
  <2> QED
    BY <1>1, <2>1 DEF Result
<1>3. job' \in [Players -> Result \cup {None}]
  <2>1. job' = [job EXCEPT ![p] = IF job[p].attempt < WriteAttempts THEN again ELSE None]
    BY DEF Unanswered
  <2> HIDE DEF again
  <2> QED
    BY <1>2, <2>1 DEF BoardInv, BoardTypeOK
<1> QED
  BY <1>3, WorkerBoard DEF Unanswered, BoardInv, BoardTypeOK

LEMMA PostBoard ==
  ASSUME BoardInv, UNCHANGED up, NEW p \in Players, Post(p)
  PROVE  BoardInv'
<1>1. job[p] \in Result
  BY DEF Post, BoardInv, BoardTypeOK
<1>2. [job[p] EXCEPT !.sent = TRUE] \in Result
  BY <1>1 DEF Result
<1>3. job' \in [Players -> Result \cup {None}]
  BY <1>2 DEF Post, BoardInv, BoardTypeOK
<1>4. [player |-> p, number |-> job[p].number, rating |-> job[p].rating,
       attempt |-> job[p].attempt] \in Attempt
  BY <1>1 DEF Result, Attempt
<1>5. backlog' \in Seq(Attempt)
  BY <1>4 DEF Post, BoardInv, BoardTypeOK
<1> QED
  BY <1>3, <1>5, WorkerBoard DEF Post, BoardInv, BoardTypeOK

LEMMA BacklogFacts ==
  ASSUME BoardInv, backlog # <<>>
  PROVE  Head(backlog) \in Attempt /\ Tail(backlog) \in Seq(Attempt)
         /\ Head(backlog).player \in Players /\ Head(backlog).rating \in Nat
<1>1. Head(backlog) \in Attempt /\ Tail(backlog) \in Seq(Attempt)
  BY DEF BoardInv, BoardTypeOK
<1> QED
  BY <1>1 DEF Attempt

LEMMA NotFoundBoard ==
  ASSUME BoardInv, UNCHANGED up, NotFound
  PROVE  BoardInv'
<1> DEFINE m == Head(backlog)
<1>1. m.player \in Players /\ backlog' \in Seq(Attempt)
  BY BacklogFacts DEF NotFound
<1>2. CASE Waits(m)
  <2>1. no_service' = no_service \cup {m.player} /\ RunLocal(m.player)
    BY <1>2 DEF NotFound
  <2>2. no_service' \subseteq Players
    BY <1>1, <2>1 DEF BoardInv, BoardTypeOK
  <2> QED
    BY <1>1, <2>1, <2>2, RunLocalKeeps DEF NotFound, BoardInv, BoardTypeOK
<1>3. CASE ~Waits(m)
  BY <1>1, <1>3, WorkerBoard DEF NotFound, BoardInv, BoardTypeOK
<1> QED
  BY <1>2, <1>3

LEMMA AggregateFacts ==
  ASSUME BoardInv, NEW p \in Players, NEW rating \in Nat
  PROVE  /\ Aggregate(p, rating) \in Row
         /\ Aggregate(p, rating).sum = rows[p].sum + 1
         /\ Aggregate(p, rating).reached <= seconds
         /\ \/ /\ Aggregate(p, rating).rating = rows[p].rating
               /\ Aggregate(p, rating).reached = rows[p].reached
            \/ /\ rows[p].sum = 0 \/ Aggregate(p, rating).rating > rows[p].rating
               /\ Aggregate(p, rating).reached = seconds
<1>1. /\ rows[p].sum \in Nat /\ rows[p].rating \in Nat /\ rows[p].reached \in Nat
      /\ seconds \in Nat /\ rows[p].reached <= seconds
  BY DEF BoardInv, BoardTypeOK, Row
<1>2. CASE rows[p].sum = 0 \/ rating > rows[p].rating
  <2>1. Aggregate(p, rating) = [sum |-> rows[p].sum + 1, rating |-> rating, reached |-> seconds]
    BY <1>2 DEF Aggregate
  <2> QED
    BY <1>1, <1>2, <2>1 DEF Row
<1>3. CASE ~(rows[p].sum = 0 \/ rating > rows[p].rating)
  <2>1. Aggregate(p, rating)
          = [sum |-> rows[p].sum + 1, rating |-> rows[p].rating, reached |-> rows[p].reached]
    BY <1>3 DEF Aggregate
  <2> QED
    BY <1>1, <2>1 DEF Row
<1> QED
  BY <1>2, <1>3

LEMMA WriteBoard ==
  ASSUME BoardInv, up, UNCHANGED up, Write
  PROVE  BoardInv'
<1> DEFINE m == Head(backlog)
           p == m.player
           after == [rows EXCEPT ![p] = Aggregate(p, m.rating)]
<1>1. p \in Players /\ m.rating \in Nat /\ backlog' \in Seq(Attempt)
  BY BacklogFacts DEF Write
<1>2. PICK ok \in BOOLEAN :
        /\ AtomicWrite(after, ok)
        /\ IF Waits(m)
           THEN /\ job' = [job EXCEPT ![p] = None]
                /\ told' = IF ok THEN [told EXCEPT ![p] = told[p] + 1] ELSE told
           ELSE UNCHANGED <<job, told>>
  BY DEF Write
<1>3. rows' = after /\ UNCHANGED <<serves, seconds, no_service, local, results>>
  BY DEF Write
<1>4. /\ rows \in [Players -> Row] /\ saved \in [Players -> Row] \cup {None}
      /\ told \in [Players -> Nat] /\ local \in [Players -> Nat]
      /\ job \in [Players -> Result \cup {None}] /\ seconds \in Nat
  BY DEF BoardInv, BoardTypeOK
<1>5. after \in [Players -> Row] /\ \A q \in Players : after[q].reached <= seconds
  BY <1>1, <1>4, AggregateFacts DEF BoardInv
<1>6. ASSUME NEW q \in Players
      PROVE  /\ rows[q].sum \in Nat /\ told[q] <= rows[q].sum + local[q]
             /\ after[q].sum = IF q = p THEN rows[q].sum + 1 ELSE rows[q].sum
             /\ told[q] \in Nat /\ local[q] \in Nat
  BY <1>1, <1>4, AggregateFacts DEF BoardInv, Row
<1>7. \/ saved' = after \/ saved' = None
      \/ ~ok /\ saved' = saved
  BY <1>2 DEF AtomicWrite
<1> HIDE DEF after
<1>8. job' \in [Players -> Result \cup {None}] /\ told' \in [Players -> Nat]
      /\ saved' \in [Players -> Row] \cup {None}
  BY <1>2, <1>4, <1>5, <1>7
<1>9. BoardTypeOK'
  BY <1>1, <1>3, <1>5, <1>8 DEF BoardInv, BoardTypeOK
<1>10. ASSUME NEW q \in Players
       PROVE  told'[q] <= after[q].sum + local[q]
  <2>1. told'[q] <= IF q = p THEN told[q] + 1 ELSE told[q]
    BY <1>2, <1>4, <1>6
  <2>2. told'[q] \in Nat
    BY <1>8
  <2> QED
    BY <1>6, <2>1, <2>2
<1>11. ASSUME saved' # None, NEW q \in Players
       PROVE  saved'[q].reached <= seconds /\ told'[q] <= saved'[q].sum + local[q]
  <2>1. CASE saved' = after
    BY <1>5, <1>10, <2>1
  <2>2. CASE ~ok /\ saved' = saved
    <3>1. told' = told
      BY <1>2, <2>2
    <3> QED
      BY <1>11, <2>2, <3>1 DEF BoardInv, ToldIsKept
  <2> QED
    BY <1>7, <1>11, <2>1, <2>2
<1> QED
  BY <1>3, <1>5, <1>9, <1>10, <1>11 DEF BoardInv, ToldIsKept

LEMMA TickBoard == BoardInv /\ UNCHANGED up /\ Tick => BoardInv'
<1> SUFFICES ASSUME BoardInv, UNCHANGED up, Tick PROVE BoardInv'
  OBVIOUS
<1>1. \A p \in Players :
        rows[p].reached \in Nat /\ (saved # None => saved[p].reached \in Nat)
  BY DEF BoardInv, BoardTypeOK, Row
<1>2. seconds' = seconds + 1 /\ seconds \in Nat /\ UNCHANGED <<rows, saved, serves, backlog, worker>>
  BY DEF Tick, BoardInv, BoardTypeOK
<1>3. \A p \in Players :
        rows'[p].reached <= seconds' /\ (saved' # None => saved'[p].reached <= seconds')
  BY <1>1, <1>2 DEF BoardInv
<1> QED
  BY <1>2, <1>3 DEF BoardInv, BoardTypeOK, ToldIsKept, worker

LEMMA CrashBoard == BoardInv /\ ~up' /\ BoardCrash => BoardInv'
<1> SUFFICES ASSUME BoardInv, ~up', BoardCrash PROVE BoardInv'
  OBVIOUS
<1>1. Empty \in [Players -> Row] /\ \A p \in Players : Empty[p].reached = 0
  BY DEF Empty, NoRow, Row
<1>2. backlog' \in Seq(Attempt) /\ rows' = Empty /\ UNCHANGED <<saved, serves, seconds, worker>>
  BY DEF BoardCrash
<1>3. \A p \in Players : rows'[p].reached <= seconds
  BY <1>1, <1>2 DEF BoardInv, BoardTypeOK
<1> QED
  BY <1>1, <1>2, <1>3 DEF BoardInv, BoardTypeOK, ToldIsKept, worker

LEMMA OpenBoard == BoardInv /\ up' /\ BoardOpen => BoardInv'
<1> SUFFICES ASSUME BoardInv, up', BoardOpen PROVE BoardInv'
  OBVIOUS
<1>1. /\ saved # None /\ rows' = saved /\ serves' \in BOOLEAN
      /\ UNCHANGED <<saved, seconds, backlog, worker>>
  BY DEF BoardOpen, BoardInv, BoardTypeOK
<1> QED
  BY <1>1 DEF BoardInv, BoardTypeOK, ToldIsKept, worker

LEMMA StepBoard ==
  ASSUME BoardInv, UNCHANGED up, BoardStep(Handles)
  PROVE  BoardInv'
<1>1. Handles => up
  BY DEF Handles
<1> QED
  BY <1>1, SubmitBoard, ElsewhereBoard, UnansweredBoard, PostBoard, NotFoundBoard, WriteBoard,
     TickBoard DEF BoardStep
-----------------------------------------------------------------------------
(* The server keeps its invariant.                                         *)

LEMMA InvInit == Init => Inv
BY InitStoreInv, InitFilesInv, InitBoardInv DEF Init, Inv

LEMMA StoreStepUp == StoreStep => UNCHANGED up
<1>1. StoreFile \/ StoreFileFails \/ DeleteFile \/ GiveUp \/ Enter => UNCHANGED up
  BY DEF StoreFile, StoreFileFails, DeleteFile, GiveUp, Enter
<1>2. ASSUME NEW me, NEW p, NEW id, NEW n, NEW sells, NEW owed, NEW g
      PROVE  /\ Begin(me, id, n, sells) => UNCHANGED up
             /\ Rate(me, g) => UNCHANGED up
             /\ Buy(me, id, p) => UNCHANGED up
             /\ Update(me, id, p, sells, owed) => UNCHANGED up
  <2>1. Begin(me, id, n, sells) => UNCHANGED up
    BY DEF Begin
  <2>2. Rate(me, g) => UNCHANGED up
    BY DEF Rate
  <2>3. Buy(me, id, p) => UNCHANGED up
    BY DEF Buy
  <2>4. Update(me, id, p, sells, owed) => UNCHANGED up
    BY DEF Update
  <2> QED
    BY <2>1, <2>2, <2>3, <2>4
<1> QED
  BY <1>1, <1>2 DEF StoreStep

LEMMA StoreSame ==
  ASSUME StoreInv, FilesInv, UNCHANGED store
  PROVE  StoreInv' /\ FilesInv'
<1>1. StoreInv'
  BY DEF StoreInv, StoreTypeOK, UploadOK, FindByOwner, store, memory
<1>2. FilesInv'
  BY DEF FilesInv, Numbered, CarKept, Car, Replaces, UploadFiles, store, memory
<1> QED
  BY <1>1, <1>2

LEMMA BoardSame ==
  ASSUME BoardInv, UNCHANGED <<up, board>>
  PROVE  BoardInv'
BY DEF BoardInv, BoardTypeOK, ToldIsKept, board, worker

LEMMA InvStep == Inv /\ [Next]_vars => Inv'
<1> SUFFICES ASSUME Inv, [Next]_vars PROVE Inv'
  OBVIOUS
<1> USE DEF Inv
<1>1. CASE Rides
  BY <1>1, StepStore, StepFiles, StoreStepUp, BoardSame DEF Rides
<1>2. CASE Boards
  <2>1. UNCHANGED up
    BY <1>2 DEF Boards, store
  <2> QED
    BY <1>2, <2>1, StepBoard, StoreSame DEF Boards
<1>3. CASE Crash
  <2>1. StoreInv' /\ FilesInv' /\ BoardInv'
    <3>1. ~up'
      BY <1>3 DEF Crash, StoreCrash
    <3> QED
      BY <1>3, <3>1, CrashStore, CrashFiles, CrashBoard DEF Crash
  <2> QED
    BY <1>3, <2>1 DEF Crash
<1>4. CASE Open
  <2>1. up'
    BY <1>4 DEF Open, StoreOpen
  <2> QED
    BY <1>4, <2>1, OpenStore, OpenFiles, OpenBoard DEF Open
<1>5. CASE UNCHANGED vars
  BY <1>5, StoreSame, BoardSame DEF vars, store
<1> QED
  BY <1>1, <1>2, <1>3, <1>4, <1>5 DEF Next

LEMMA InvAlways == Spec => []Inv
BY InvInit, InvStep, PTL DEF Spec

-----------------------------------------------------------------------------
\* The state of the store and of the board is of the types stated.
THEOREM TypesHold == Spec => []TypeOK
<1>1. Inv => TypeOK
  BY DEF Inv, StoreInv, BoardInv, TypeOK
<1> QED
  BY <1>1, InvAlways, PTL

\* Whoever downloads a ride gets the car of its last upload, or what is left
\* of it, whatever was cut off by crashes or failed writes; unless the ride's
\* own replacement was: then at worst a photo.
THEOREM CarsAreTheirs == Spec => []CarsTheirs
<1>1. Inv => CarsTheirs
  <2> SUFFICES ASSUME Inv, Handles, NEW r \in records
               PROVE  \/ \E x \in ReadFile(r.files[1]) :
                           /\ ReadFile(r.files[1]) = {x}
                           /\ x.ext = "car" /\ x.ver \in {r.ver, Short}
                      \/ r.id \in cut /\ \A x \in ReadFile(r.files[1]) : x.ext = "jpg"
    BY DEF CarsTheirs
  <2>1. /\ op = None /\ CarKept(r) /\ \A x \in disk : x.ext \in {"car", "jpg"}
    BY DEF Handles, Inv, StoreInv, StoreTypeOK, FilesInv
  <2>2. CASE Car(disk, r.files[1], r.ver)
    <3>1. PICK v \in {r.ver, Short} :
            Cars(disk, r.files[1]) = {[id |-> r.files[1], ext |-> "car", ver |-> v]}
      BY <2>2 DEF Car
    <3>2. ReadFile(r.files[1]) = {[id |-> r.files[1], ext |-> "car", ver |-> v]}
      BY <3>1 DEF ReadFile, Cars
    <3> QED
      BY <3>2
  <2>3. CASE Cars(disk, r.files[1]) = {} /\ r.id \in cut
    BY <2>1, <2>3 DEF ReadFile, Cars
  <2> QED
    BY <2>1, <2>2, <2>3 DEF CarKept, Replaces
<1> QED
  BY <1>1, InvAlways, PTL

\* The scores that count for a ride were given to it, as it is listed or was,
\* none by its owner, and their number is the one that is served.
THEOREM RatingsAreFair == Spec => []RatingsFair
<1>1. Inv => RatingsFair
  <2> SUFFICES ASSUME Inv PROVE RatingsFair
    OBVIOUS
  <2>1. up => Sound(records, ratings, given)
    BY SharedFacts DEF Inv
  <2>2. ~up => records = {} /\ ratings = {}
    BY DEF Inv, StoreInv
  <2> QED
    BY <2>1, <2>2 DEF RatingsFair, Sound, Offered
<1> QED
  BY <1>1, InvAlways, PTL

\* What a game was told is taken is on disk, through crashes, lost answers
\* and failed writes, unless the board's file was cut short unnoticed.
THEOREM ToldStaysKept == Spec => []ToldIsKept
<1>1. Inv => ToldIsKept
  BY DEF Inv, BoardInv
<1> QED
  BY <1>1, InvAlways, PTL

\* Nobody gets past another by equalling his rating, but in the second in
\* which the other reached it.
THEOREM TiesKeepOrder == Spec => TieKeepsOrder
<1> DEFINE Kept(p, q) ==
      /\ Above(rows, p, q) /\ Above(rows', q, p)
      /\ rows'[p].rating = rows'[q].rating
      => rows'[q].rating # rows[q].rating /\ rows'[p].reached = seconds
<1>1. ASSUME Inv, [Next]_vars, NEW p \in Players, NEW q \in Players
      PROVE  Kept(p, q)
  <2>1. CASE rows' = rows
    <3>1. rows[p] \in Row /\ rows[q] \in Row /\ p \in Nat /\ q \in Nat
      BY <1>1, ProcessConstants DEF Inv, BoardInv, BoardTypeOK
    <3>2. rows'[p] = rows[p] /\ rows'[q] = rows[q]
      BY <2>1
    <3> QED
      BY <3>1, <3>2 DEF Above, Row
  <2>2. CASE Crash
    <3>1. rows'[p].sum = 0
      BY <2>2 DEF Crash, BoardCrash, Empty, NoRow
    <3> QED
      BY <3>1 DEF Above
  <2>3. CASE Open
    <3>1. rows[p].sum = 0
      BY <1>1, <2>3 DEF Open, StoreOpen, Inv, BoardInv, Empty, NoRow
    <3> QED
      BY <3>1 DEF Above
  <2>4. CASE Write
    <3> SUFFICES ASSUME Above(rows, p, q), Above(rows', q, p),
                        rows'[p].rating = rows'[q].rating
                 PROVE  rows'[q].rating # rows[q].rating /\ rows'[p].reached = seconds
      OBVIOUS
    <3> DEFINE m == Head(backlog)
               a == Aggregate(m.player, m.rating)
    <3>1. m.player \in Players /\ m.rating \in Nat
      BY <1>1, <2>4, BacklogFacts DEF Write, Inv
    <3>2. rows' = [rows EXCEPT ![m.player] = a]
      BY <2>4 DEF Write
    <3>3. /\ rows \in [Players -> Row] /\ seconds \in Nat
          /\ rows[p] \in Row /\ rows[q] \in Row /\ a \in Row
          /\ rows[p].reached <= seconds /\ rows[q].reached <= seconds
      BY <1>1, <3>1, AggregateFacts DEF Inv, BoardInv, BoardTypeOK
    <3>4. \/ a.rating = rows[m.player].rating /\ a.reached = rows[m.player].reached
          \/ /\ rows[m.player].sum = 0 \/ a.rating > rows[m.player].rating
             /\ a.reached = seconds
      BY <1>1, <3>1, AggregateFacts DEF Inv
    <3> HIDE DEF a, m
    <3>5. p \in Nat /\ q \in Nat /\ p # q
      <4>1. p \in Nat /\ q \in Nat
        BY ProcessConstants
      <4>2. p # q
        BY <3>3, <4>1 DEF Above, Row
      <4> QED
        BY <4>1, <4>2
    <3>6. CASE Head(backlog).player = q
      <4>1. rows'[q] = a /\ rows'[p] = rows[p]
        BY <3>1, <3>2, <3>3, <3>5, <3>6 DEF m
      <4> QED
        BY <3>3, <3>4, <3>5, <3>6, <4>1 DEF Above, Row, m
    <3>7. CASE Head(backlog).player = p
      <4>1. rows'[p] = a /\ rows'[q] = rows[q]
        BY <3>1, <3>2, <3>3, <3>5, <3>7 DEF m
      <4> QED
        BY <3>3, <3>4, <3>5, <3>7, <4>1 DEF Above, Row, m
    <3>8. CASE Head(backlog).player # q /\ Head(backlog).player # p
      <4>1. rows'[p] = rows[p] /\ rows'[q] = rows[q]
        BY <3>1, <3>2, <3>3, <3>8 DEF m
      <4> QED
        BY <3>3, <3>5, <4>1 DEF Above, Row
    <3> QED
      BY <3>6, <3>7, <3>8
  <2>5. rows' = rows \/ Crash \/ Open \/ Write
    <3>1. NotFound \/ Tick => rows' = rows
      BY DEF NotFound, Tick
    <3>2. ASSUME NEW w, NEW rating
          PROVE  Submit(w, rating) \/ Elsewhere(w) \/ Unanswered(w) \/ Post(w) => rows' = rows
      BY DEF Submit, Elsewhere, Unanswered, Post
    <3>3. BoardStep(Handles) => rows' = rows \/ Write
      BY <3>1, <3>2 DEF BoardStep
    <3> QED
      BY <1>1, <3>3 DEF Next, vars, Rides, Boards, board
  <2> QED
    BY <2>1, <2>2, <2>3, <2>4, <2>5
<1>2. Inv /\ [Next]_vars => [\A p, q \in Players : Kept(p, q)]_board
  BY <1>1
<1> QED
  BY <1>2, InvAlways, PTL DEF Spec, TieKeepsOrder
-----------------------------------------------------------------------------
(* The server is the book of rides that RideBook describes.                *)

Mine(rs, p) == {r \in rs : r.owner = p}
View(rs, xs, p) ==
  IF Mine(rs, p) = {} THEN None ELSE Shown(CHOOSE r \in Mine(rs, p) : TRUE, xs)

LEMMA ViewOfRide ==
  ASSUME NEW rs, NEW xs, NEW gs, Sound(rs, xs, gs), NEW r \in rs
  PROVE  /\ View(rs, xs, r.owner) = Shown(r, xs)
         /\ Shown(r, xs) \in Listing /\ Shown(r, xs) # None
<1>1. Mine(rs, r.owner) = {r}
  BY DEF Mine, Sound
<1>2. (CHOOSE s \in Mine(rs, r.owner) : TRUE) = r
  BY <1>1
<1>3. Shown(r, xs) \in Listing
  <2>1. RatersOf(xs, r.id) \in SUBSET Players
    BY DEF RatersOf, Scores, Sound, Score
  <2>2. r.id \in Nat /\ r.ver \in Nat /\ r.for_sale \in BOOLEAN /\ r.pending \in Nat
    BY DEF Sound, Ride
  <2> QED
    BY <2>1, <2>2 DEF Shown, Listing
<1> QED
  BY <1>1, <1>2, <1>3, NoneApart DEF View

\* What a player lists depends on his ride and its scores alone.
LEMMA ViewSame ==
  ASSUME NEW rs, NEW xs, NEW ss, NEW ys, NEW p, Mine(rs, p) = Mine(ss, p),
         \A r \in Mine(rs, p) : Scores(xs, r.id) = Scores(ys, r.id)
  PROVE  View(rs, xs, p) = View(ss, ys, p)
<1>1. CASE Mine(rs, p) = {}
  BY <1>1 DEF View
<1>2. CASE Mine(rs, p) # {}
  <2>1. (CHOOSE r \in Mine(rs, p) : TRUE) \in Mine(rs, p)
    BY <1>2
  <2> QED
    BY <1>2, <2>1 DEF View, Shown, RatersOf
<1> QED
  BY <1>1, <1>2

\* The rides of the book, in this state and the next.
BookRides == [p \in Players |-> RideOf(p)]

LEMMA BookIsView ==
  ASSUME StoreInv
  PROVE  BookRides = [p \in Players |-> View(db.records, db.ratings, p)]
<1>1. Served.records = db.records /\ Served.ratings = db.ratings
  BY SharedFacts DEF Served, Index, StoreInv
<1> QED
  BY <1>1 DEF BookRides, RideOf, View, Mine, Shown, RatersOf
LEMMA BookIsViewNext ==
  ASSUME StoreInv'
  PROVE  BookRides' = [p \in Players |-> View(db'.records, db'.ratings, p)]
<1>1. Served'.records = db'.records /\ Served'.ratings = db'.ratings
  BY DEF Served, Index, StoreInv
<1> QED
  BY <1>1 DEF BookRides, RideOf, View, Mine, Shown, RatersOf

\* A step that leaves the rides and the scores of rmr.db alone.
LEMMA BookStutters ==
  ASSUME StoreInv, StoreInv', db'.records = db.records, db'.ratings = db.ratings
  PROVE  BookRides' = BookRides
BY BookIsView, BookIsViewNext

LEMMA BookPublishes ==
  ASSUME StoreInv, StoreInv', Enter
  PROVE  Book!Next
<1> DEFINE p == op.owner
           new == NewRide
<1>1. /\ records = db.records /\ ratings = db.ratings /\ Sound(records, ratings, given)
      /\ db'.records = (records \ {op.old}) \cup {new}
      /\ given' = given \cup {Offered(new, new.ver)}
      /\ db'.ratings = {x \in ratings : x.id # new.id} /\ new.owner = p
      /\ p \in Players /\ Sound(db'.records, db'.ratings, given')
  BY EnterFacts, SharedFacts DEF StoreInv, Index, NewRide, Upload
<1> HIDE DEF new
<1>2. ASSUME NEW q \in Players \ {p}
      PROVE  BookRides'[q] = BookRides[q]
  <2>1. Mine(records, q) = Mine(db'.records, q)
    <3>1. op.old \in records => op.old.owner = p
      BY <1>1, EnterFacts DEF new
    <3> QED
      BY <1>1, <3>1 DEF Mine
  <2>2. ASSUME NEW r \in Mine(records, q)
        PROVE  Scores(ratings, r.id) = Scores(db'.ratings, r.id)
    <3>1. r \in db'.records /\ new \in db'.records /\ r # new
      BY <1>1, <2>1 DEF Mine
    <3>2. r.id # new.id
      BY <1>1, <3>1 DEF Sound
    <3> QED
      BY <1>1, <3>2 DEF Scores
  <2>3. View(records, ratings, q) = View(db'.records, db'.ratings, q)
    BY <2>1, <2>2, ViewSame
  <2>4. BookRides[q] = View(records, ratings, q)
    BY <1>1, BookIsView
  <2>5. BookRides'[q] = View(db'.records, db'.ratings, q)
    BY BookIsViewNext
  <2> QED
    BY <2>3, <2>4, <2>5
<1>3. /\ BookRides'[p] = Shown(new, db'.ratings) /\ BookRides'[p] # None
  <2>1. new \in db'.records
    BY <1>1
  <2>2. View(db'.records, db'.ratings, p) = Shown(new, db'.ratings)
        /\ Shown(new, db'.ratings) # None
    BY <1>1, <2>1, ViewOfRide
  <2> QED
    BY <1>1, <2>2, BookIsViewNext
<1>4. /\ BookRides'[p].raters = {} /\ BookRides'[p].id = new.id
      /\ BookRides'[p].ver = new.ver /\ BookRides'[p].owed = new.pending
  BY <1>1, <1>3 DEF Shown, RatersOf, Scores
<1> DEFINE offer == [id |-> BookRides'[p].id, owner |-> p, ver |-> BookRides'[p].ver]
<1>5. given' = given \cup {offer} /\ \A g \in given : g.ver # BookRides'[p].ver
  <2>1. offer = Offered(new, new.ver)
    BY <1>1, <1>4 DEF Offered
  <2>2. new.ver \in Nat /\ \A g \in given : g.ver \in Nat /\ g.ver < new.ver
    BY EnterFacts, SharedFacts DEF new, Ride, Offer
  <2> QED
    BY <1>1, <1>4, <2>1, <2>2
<1>6. CASE Replaces
  <2>1. op.old \in records /\ op.old.owner = p /\ new.id = op.old.id /\ new.pending = op.old.pending
    BY <1>6, EnterFacts DEF new, NewRide
  <2>2. BookRides[p] = Shown(op.old, ratings) /\ BookRides[p] # None
    BY <1>1, <2>1, BookIsView, ViewOfRide
  <2>3. BookRides[p].id = new.id /\ BookRides[p].owed = new.pending
    BY <2>1, <2>2 DEF Shown
  <2>4. Book!Publish(p)
    BY <1>1, <1>3, <1>4, <1>5, <2>2, <2>3 DEF Book!Publish, Book!Listed, BookRides
  <2> QED
    BY <1>1, <1>2, <2>4 DEF Book!Next, BookRides
<1>7. CASE ~Replaces
  <2>1. /\ Mine(records, p) = {} /\ new.pending = 0 /\ \A g \in given : g.id < new.id
    BY <1>1, <1>7, EnterFacts DEF Mine, new, NewRide
  <2>2. BookRides[p] = None
    BY <1>1, <2>1, BookIsView DEF View
  <2>3. \A g \in given : g.id # new.id
    <3>1. new.id \in Nat /\ \A g \in given : g.id \in Nat
      BY EnterFacts, SharedFacts DEF new, Ride, Offer
    <3> QED
      BY <2>1, <3>1
  <2>4. Book!Publish(p)
    BY <1>1, <1>3, <1>4, <1>5, <2>1, <2>2, <2>3 DEF Book!Publish, Book!Listed, BookRides
  <2> QED
    BY <1>1, <1>2, <2>4 DEF Book!Next, BookRides
<1> QED
  BY <1>6, <1>7

LEMMA BookAmends ==
  ASSUME StoreInv, StoreInv', NEW r, NEW r2, NEW ys, Amends(r, r2, ys), SeenAs(r, r2, ys)
  PROVE  Book!Next
<1> DEFINE p == r.owner
<1>1. /\ records = db.records /\ ratings = db.ratings /\ Sound(records, ratings, given)
      /\ r \in records /\ r2.owner = p /\ r2.id = r.id /\ given' = given
      /\ \A s \in records : s.id # r.id => Scores(ys, s.id) = Scores(ratings, s.id)
  BY SharedFacts DEF Amends, Handles, StoreInv
<1>2. /\ db'.records = (records \ {r}) \cup {r2} /\ db'.ratings = ys
      /\ Sound(db'.records, db'.ratings, given) /\ p \in Players
  BY <1>1 DEF Amends, Save, Index, StoreInv, Sound, Ride
<1>3. ASSUME NEW q \in Players \ {p}
      PROVE  BookRides'[q] = BookRides[q]
  <2>1. Mine(records, q) = Mine(db'.records, q)
    BY <1>1, <1>2 DEF Mine
  <2>2. \A s \in Mine(records, q) : Scores(ratings, s.id) = Scores(db'.ratings, s.id)
    BY <1>1, <1>2 DEF Mine, Sound
  <2>3. View(records, ratings, q) = View(db'.records, db'.ratings, q)
    BY <2>1, <2>2, ViewSame
  <2> QED
    BY <1>1, <2>3, BookIsView, BookIsViewNext
<1>4. /\ BookRides'[p] = Shown(r2, ys) /\ BookRides'[p] # None
      /\ BookRides[p] = Shown(r, ratings) /\ BookRides[p] # None
  <2>1. r2 \in db'.records
    BY <1>2
  <2>2. View(db'.records, db'.ratings, p) = Shown(r2, ys) /\ Shown(r2, ys) # None
    BY <1>1, <1>2, <2>1, ViewOfRide
  <2>3. View(db.records, db.ratings, p) = Shown(r, ratings) /\ Shown(r, ratings) # None
    BY <1>1, ViewOfRide
  <2> QED
    BY <1>2, <2>2, <2>3, BookIsView, BookIsViewNext
<1>5. BookRides[p].for_sale = r.for_sale
  BY <1>4 DEF Shown
<1>6. Book!Rate(p) \/ Book!Sell(p) \/ Book!Change(p)
  BY <1>1, <1>4, <1>5 DEF SeenAs, Book!Rate, Book!Sell, Book!Change, Book!Listed, BookRides
<1> QED
  BY <1>2, <1>3, <1>6 DEF Book!Next, BookRides

\* Through uploads cut in pieces, crashes and restarts, the server is seen by
\* its players as the book of rides of RideBook: nothing served is taken back.
THEOREM RidesAreABook == Spec => ImplementsRideBook
<1>1. Init => Book!Init
  <2> SUFFICES ASSUME Init PROVE Book!Init
    OBVIOUS
  <2>1. StoreInv /\ db.records = {} /\ given = {}
    BY InitStoreInv DEF Init, StoreInit, Index
  <2>2. BookRides = [p \in Players |-> None]
    BY <2>1, BookIsView DEF View, Mine
  <2> QED
    BY <2>1, <2>2 DEF Book!Init, BookRides
<1>2. Inv /\ Inv' /\ [Next]_vars => [Book!Next]_(Book!bvars)
  <2> SUFFICES ASSUME Inv, Inv', [Next]_vars
               PROVE  Book!Next \/ (BookRides' = BookRides /\ given' = given)
    BY DEF Book!bvars, BookRides
  <2>1. StoreInv /\ StoreInv'
    BY DEF Inv
  <2>2. CASE Enter
    BY <2>1, <2>2, BookPublishes
  <2>3. CASE \/ \E me \in Players, g \in given : Rate(me, g)
            \/ \E me, p \in Players, id \in 0 .. MaxUploads : Buy(me, id, p)
    BY <2>1, <2>3, RateIsAmends, BuyIsAmends, BookAmends
  <2>4. CASE \E me, p \in Players, id \in 0 .. MaxUploads, sells \in BOOLEAN,
                owed \in 0 .. MaxSales : Update(me, id, p, sells, owed)
    BY <2>1, <2>4, UpdateIsAmends, BookAmends
  <2>5. CASE UNCHANGED <<db, given>>
    BY <2>1, <2>5, BookStutters
  <2> QED
    BY <2>2, <2>3, <2>4, <2>5
    DEF Next, Rides, Boards, Crash, Open, vars, store, StoreStep, Begin, StoreFile,
        StoreFileFails, DeleteFile, GiveUp, StoreCrash, StoreOpen
<1> QED
  BY <1>1, <1>2, InvAlways, PTL DEF Spec, ImplementsRideBook, Book!Spec
=============================================================================
