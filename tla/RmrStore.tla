------------------------------ MODULE RmrStore ------------------------------
(***************************************************************************)
(* The Rate My Ride database (src/mc_engine/online/rate_my_ride/           *)
(* rmr_store.cpp): the rides, who rated what, and the uploaded files.  The *)
(* index, rmr.db, is replaced whole by a rename; the cars and photos it    *)
(* names are files of their own, written before it and deleted before it.  *)
(* Requests are handled one at a time under one mutex, so an upload's      *)
(* steps only matter to what a crash leaves behind.                        *)
(*                                                                         *)
(* A score is told apart by the upload its rater was shown, a file by the  *)
(* upload it belongs to.  User data always has the game's full length.     *)
(* rmr.db can always be written (the result of Save is not looked at).     *)
(* Requests that only read, and those refused, are no steps.               *)
(***************************************************************************)
EXTENDS RmrProcess

CONSTANTS
  MaxFiles,              \* kMaxFiles: the car and its photos
  MaxUploads, MaxSales   \* bounds: uploads in all, sales not yet collected

ASSUME StoreConstants ==
  MaxFiles \in Nat \ {0} /\ MaxUploads \in Nat /\ MaxSales \in Nat

VARIABLES
  records,      \* the rides
  ratings,      \* the scores: [id, rater, ver]
  next_record, next_file,
  db,           \* rmr.db
  disk,         \* the files directory: [id, ext, ver]
  op,           \* the upload under way, or None
  uploads,      \* bound, and what tells uploads apart
  given,        \* history: what rides were ever listed as: [id, owner, ver]
  cut           \* history: the ids of rides whose replacement was cut off
                \* while the old files were being deleted

memory == <<records, ratings, next_record, next_file>>
store == <<up, memory, db, disk, op, uploads, given, cut>>

\* What is left of a file that the disk had no room for.
Short == 0

\* What rmr.db holds.
Index(rs, xs, nr, nf) ==
  [records |-> rs, ratings |-> xs, next_record |-> nr, next_file |-> nf]

\* Fault: rides numbered from 0, which is no ride to FindById.
StoreInit_FromZero ==
  /\ up = FALSE
  /\ records = {} /\ ratings = {} /\ next_record = 0 /\ next_file = 1
  /\ db = Index({}, {}, 0, 1)
  /\ disk = {}
  /\ op = None
  /\ uploads = 0 /\ given = {} /\ cut = {}

StoreInit ==
  /\ up = FALSE
  /\ records = {} /\ ratings = {} /\ next_record = 1 /\ next_file = 1
  /\ db = Index({}, {}, 1, 1)
  /\ disk = {}
  /\ op = None
  /\ uploads = 0 /\ given = {} /\ cut = {}

-----------------------------------------------------------------------------
FindById(id) == {r \in records : r.id = id}
FindByOwner(p) == {r \in records : r.owner = p}

\* The ride a rating, a purchase or an update is about: by its id, or if
\* there is none by its owner.
Target(id, p) == IF FindById(id) # {} THEN FindById(id) ELSE FindByOwner(p)

\* The ride that an upload by me replaces: the one named, if it is his.
Replaced(me, id) ==
  LET mine == {r \in FindById(id) : r.owner = me}
  IN  IF mine # {} THEN mine ELSE FindByOwner(me)

Scores(xs, id) == {x \in xs : x.id = id}
Recount(rs, xs) == {[r EXCEPT !.num = Cardinality(Scores(xs, r.id))] : r \in rs}

\* WriteFile: under this name there is now this content.
WriteFile(id, ext, ver) ==
  disk' = {x \in disk : ~(x.id = id /\ x.ext = ext)}
            \cup {[id |-> id, ext |-> ext, ver |-> ver]}

\* What ReadFile opens under an id: a car before a photo.
ReadFile(id) ==
  LET cars == {x \in disk : x.id = id /\ x.ext = "car"}
  IN  IF cars # {} THEN cars ELSE {x \in disk : x.id = id}

\* The change is made in memory and written.
Save(rs, xs, nr, nf) ==
  /\ records' = rs /\ ratings' = xs /\ next_record' = nr /\ next_file' = nf
  /\ db' = Index(rs, xs, nr, nf)

Handles == up /\ op = None

-----------------------------------------------------------------------------
(* Upload and Overwrite, file by file.                                     *)

Begin(me, id, n, sells) ==
  /\ Handles /\ uploads < MaxUploads
  /\ uploads' = uploads + 1
  /\ \E old \in IF Replaced(me, id) = {} THEN {None} ELSE Replaced(me, id) :
       op' = [owner |-> me, old |-> old, ver |-> uploads + 1, sells |-> sells,
              files |-> <<>>, left |-> n, failed |-> FALSE, removed |-> 0]
  /\ UNCHANGED <<up, memory, db, disk, given, cut>>

\* AtomicWrite looks at the stream before its destructor flushes it, so a
\* file may end up short and count as written.
StoreFile ==
  /\ op # None /\ op.left > 0
  /\ \E ver \in {op.ver} \cup (IF "short" \in Faults THEN {Short} ELSE {}) :
       WriteFile(next_file, IF op.files = <<>> THEN "car" ELSE "jpg", ver)
  /\ next_file' = next_file + 1
  /\ op' = [op EXCEPT !.files = Append(@, next_file), !.left = @ - 1]
  /\ UNCHANGED <<up, records, ratings, next_record, db, uploads, given, cut>>

\* A file cannot be written: those before it will go, the ride stays.
StoreFileFails ==
  /\ "file" \in Faults
  /\ op # None /\ op.left > 0
  /\ next_file' = next_file + 1
  /\ op' = [op EXCEPT !.left = 0, !.failed = TRUE]
  /\ UNCHANGED <<up, records, ratings, next_record, db, disk, uploads, given, cut>>

Replaces == op # None /\ op.old # None /\ ~op.failed

\* Fault: the files of the ride go whether or not there are others for it.
Doomed_Old ==
  IF op.old # None THEN op.old.files ELSE IF op.failed THEN op.files ELSE <<>>

\* The files to delete: what was stored in vain, or the old ride's.
Doomed ==
  IF op.failed THEN op.files ELSE IF Replaces THEN op.old.files ELSE <<>>

\* Each may have two names.
Undeleted == op # None /\ op.removed < 2 * Len(Doomed)

\* DeleteFiles removes one name after the other: .car, then .jpg.
DeleteFile ==
  /\ op # None /\ op.left = 0 /\ Undeleted
  /\ LET id == Doomed[op.removed \div 2 + 1]
         ext == IF op.removed % 2 = 0 THEN "car" ELSE "jpg"
     IN  disk' = {x \in disk : ~(x.id = id /\ x.ext = ext)}
  /\ op' = [op EXCEPT !.removed = @ + 1]
  /\ UNCHANGED <<up, memory, db, uploads, given, cut>>

\* The upload that failed is refused; the numbers it took stay taken.
GiveUp ==
  /\ op # None /\ op.failed /\ ~Undeleted
  /\ op' = None
  /\ UNCHANGED <<up, memory, db, disk, uploads, given, cut>>

\* Fault: the scores of the ride replaced are not dropped.
Enter_KeepsScores ==
  /\ op # None /\ op.left = 0 /\ ~op.failed /\ ~Undeleted
  /\ LET id == IF Replaces THEN op.old.id ELSE next_record
         new == [id |-> id, owner |-> op.owner, ver |-> op.ver,
                 files |-> op.files, for_sale |-> op.sells, num |-> 0,
                 pending |-> IF Replaces THEN op.old.pending ELSE 0]
     IN  /\ Save((records \ {op.old}) \cup {new}, ratings,
                 IF Replaces THEN next_record ELSE next_record + 1, next_file)
         /\ given' = given \cup {[id |-> id, owner |-> op.owner, ver |-> op.ver]}
         /\ cut' = cut \ {id}
  /\ op' = None
  /\ UNCHANGED <<up, disk, uploads>>

\* The new ride is entered, without scores, and the index is written.  (To
\* the old ride's uncollected sales Overwrite adds those that the uploaded
\* copy claims; "a new upload starts with no sales".)
Enter ==
  /\ op # None /\ op.left = 0 /\ ~op.failed /\ ~Undeleted
  /\ LET id == IF Replaces THEN op.old.id ELSE next_record
         new == [id |-> id, owner |-> op.owner, ver |-> op.ver,
                 files |-> op.files, for_sale |-> op.sells, num |-> 0,
                 pending |-> IF Replaces THEN op.old.pending ELSE 0]
     IN  /\ Save((records \ {op.old}) \cup {new}, {x \in ratings : x.id # id},
                 IF Replaces THEN next_record ELSE next_record + 1, next_file)
         /\ given' = given \cup {[id |-> id, owner |-> op.owner, ver |-> op.ver]}
         /\ cut' = cut \ {id}
  /\ op' = None
  /\ UNCHANGED <<up, disk, uploads>>

-----------------------------------------------------------------------------
(* Ratings, purchases and the owner's own updates.                         *)

\* Fault: a score is counted in memory only.
Rate_NoSave(me, g) ==
  /\ Handles
  /\ \E r \in Target(g.id, g.owner) :
       /\ r.owner # me
       /\ ratings' = {x \in ratings : ~(x.id = r.id /\ x.rater = me)}
                        \cup {[id |-> r.id, rater |-> me, ver |-> g.ver]}
       /\ records' = (records \ {r}) \cup
                        {[r EXCEPT !.num = Cardinality(Scores(ratings', r.id))]}
  /\ UNCHANGED <<up, next_record, next_file, db, disk, op, uploads, given, cut>>

\* me scores what he was shown as g, now or some time ago: the request names
\* the ride and its owner, not the upload.
Rate(me, g) ==
  /\ Handles
  /\ \E r \in Target(g.id, g.owner) :
       /\ r.owner # me
       /\ LET xs == {x \in ratings : ~(x.id = r.id /\ x.rater = me)}
                      \cup {[id |-> r.id, rater |-> me, ver |-> g.ver]}
          IN  Save((records \ {r}) \cup
                     {[r EXCEPT !.num = Cardinality(Scores(xs, r.id))]},
                   xs, next_record, next_file)
  /\ UNCHANGED <<up, disk, op, uploads, given, cut>>

\* Counted here, one by one, whatever counters the buyer's copy has.
Buy(me, id, p) ==
  /\ Handles
  /\ \E r \in Target(id, p) :
       /\ r.owner # me /\ r.for_sale /\ r.pending < MaxSales
       /\ Save((records \ {r}) \cup {[r EXCEPT !.pending = @ + 1]},
               ratings, next_record, next_file)
  /\ UNCHANGED <<up, disk, op, uploads, given, cut>>

\* The owner's game sends its whole copy, with the counters as it read them
\* some time ago, or with the reward collected.
Update(me, id, p, sells, owed) ==
  /\ Handles
  /\ \E r \in Target(id, p) :
       /\ r.owner = me
       /\ Save((records \ {r}) \cup
                 {[r EXCEPT !.for_sale = sells, !.pending = owed]},
               ratings, next_record, next_file)
  /\ UNCHANGED <<up, disk, op, uploads, given, cut>>

\* The process dies, in the middle of an upload or not.
StoreCrash ==
  /\ up
  /\ up' = FALSE
  /\ records' = {} /\ ratings' = {} /\ next_record' = 1 /\ next_file' = 1
  /\ op' = None
  /\ cut' = IF Replaces /\ op.removed > 0 THEN cut \cup {op.old.id} ELSE cut
  /\ UNCHANGED <<db, disk, uploads, given>>

\* Open: what rmr.db says, with the scores counted again.
StoreOpen ==
  /\ ~up
  /\ up' = TRUE
  /\ records' = Recount(db.records, db.ratings)
  /\ ratings' = db.ratings
  /\ next_record' = db.next_record /\ next_file' = db.next_file
  /\ UNCHANGED <<db, disk, op, uploads, given, cut>>

\* One step of the store, but for its start and end.
StoreStep ==
  \/ \E me \in Players, id \in 0 .. MaxUploads, n \in 1 .. MaxFiles, sells \in BOOLEAN :
       Begin(me, id, n, sells)
  \/ StoreFile \/ StoreFileFails \/ DeleteFile \/ GiveUp \/ Enter
  \/ \E me \in Players, g \in given : Rate(me, g)
  \/ \E me, p \in Players, id \in 0 .. MaxUploads : Buy(me, id, p)
  \/ \E me, p \in Players, id \in 0 .. MaxUploads, sells \in BOOLEAN, owed \in 0 .. MaxSales :
       Update(me, id, p, sells, owed)

-----------------------------------------------------------------------------
(* Properties.                                                             *)

Ride ==
  [id : Nat \ {0}, owner : Players, ver : Nat, files : Seq(Nat),
   for_sale : BOOLEAN, num : Nat, pending : Nat]
Upload ==
  [owner : Players, old : Ride \cup {None}, ver : Nat, sells : BOOLEAN,
   files : Seq(Nat), left : Nat, failed : BOOLEAN, removed : Nat]
Score == [id : Nat, rater : Players, ver : Nat]
Offer == [id : Nat \ {0}, owner : Players, ver : Nat]

\* What the players see of a ride.
Listing ==
  [id : Nat, ver : Nat, for_sale : BOOLEAN, owed : Nat, raters : SUBSET Players]

ASSUME NoneApart == None \notin Ride /\ None \notin Upload /\ None \notin Listing

StoreTypeOK ==
  /\ up \in BOOLEAN
  /\ records \subseteq Ride /\ ratings \subseteq Score
  /\ next_record \in Nat \ {0} /\ next_file \in Nat \ {0}
  /\ db \in [records : SUBSET Ride, ratings : SUBSET Score,
             next_record : Nat \ {0}, next_file : Nat \ {0}]
  /\ disk \subseteq [id : Nat, ext : {"car", "jpg"}, ver : Nat]
  /\ op \in Upload \cup {None}
  /\ uploads \in Nat /\ given \subseteq Offer /\ cut \subseteq Nat

\* Whoever downloads a ride gets the car of its last upload, or what of it
\* the disk had room for, and never another's: uploads that crashed or failed
\* on the way leave files about whose numbers are used again.  Only of a ride
\* whose own replacement was cut off by a crash, as its old files went, the
\* car may be gone (Overwrite deletes them before Save); then nothing is
\* found, or a photo that an upload left behind under the car's number.
CarsTheirs ==
  Handles => \A r \in records :
    LET found == ReadFile(r.files[1])
    IN  \/ \E x \in found : found = {x} /\ x.ext = "car" /\ x.ver \in {r.ver, Short}
        \/ r.id \in cut /\ \A x \in found : x.ext = "jpg"

\* Every score that counts was given to a ride of this id and owner, as it is
\* listed or once was, by somebody who is not its owner, and their number is
\* the one served and ranked by: "nobody rates their own ride" (rmr_store.h),
\* through replacements, reused ids, crashes and restarts.  A score for the
\* upload that a replacement took the place of counts for the new one if it
\* comes late; those that came before are dropped (Publish in RideBook).
RatingsFair ==
  /\ \A r \in records : r.num = Cardinality(Scores(ratings, r.id))
  /\ \A x \in ratings : \E r \in records :
       /\ r.id = x.id /\ r.owner # x.rater
       /\ [id |-> r.id, owner |-> r.owner, ver |-> x.ver] \in given

\* The server as its players know it: what it serves, and while it is down
\* what it will serve, is the book of rides of RideBook, so nothing that was
\* served is ever taken back, and the half of an upload is never seen.
Served == IF up THEN Index(records, ratings, next_record, next_file) ELSE db

RideOf(p) ==
  LET mine == {r \in Served.records : r.owner = p}
      r == CHOOSE r \in mine : TRUE
  IN  IF mine = {} THEN None
      ELSE [id |-> r.id, ver |-> r.ver, for_sale |-> r.for_sale, owed |-> r.pending,
            raters |-> {x.rater : x \in Scores(Served.ratings, r.id)}]

Book == INSTANCE RideBook WITH
  rides <- [p \in Players |-> RideOf(p)]

ImplementsRideBook == Book!Spec
=============================================================================
