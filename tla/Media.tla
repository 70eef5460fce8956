-------------------------------- MODULE Media ---------------------------------
(***************************************************************************)
(* Photos: the gallery of one event, filled by the experiences of those    *)
(* who were there, the event's cover, and the profile photo of every       *)
(* account.  A photo is a row in the database and an object in one bucket, *)
(* written by separate calls that fail separately; a worker may die        *)
(* between any two.  A cover may name any object of the bucket.            *)
(***************************************************************************)
EXTENDS Naturals, FiniteSets

CONSTANTS
  User,         \* people; each may write one experience about the event
  Organizer,    \* who organizes the event
  Session,      \* web sessions
  Object,       \* bound: objects ever uploaded
  None,         \* no row, no object, a null column
  PhotoLimit,   \* experience_photo_limit
  MaxFailures   \* bound: crashes, refused commits and storage errors

VARIABLES
  \* committed rows
  status,      \* status[u]: the participation
  experience,  \* experience[u]: whether u has written one
  gallery,     \* gallery[p]: the author of the active photo with object p
  profile,     \* profile[u]: profile_photo_url
  cover,       \* cover_photo_url of the event
  deleted,     \* accounts with deleted_at
  \* object storage
  stored,      \* objects that exist
  \* requests
  pc,          \* pc[s]: the call session s is about to make
  who,         \* who[s]: whose experience or account it is about, if it matters
  object,      \* object[s]: the object, or the photo read, it works on
  rowLock,     \* rowLock[u]: the session that holds u's experience row
  \* environment, bounds and history
  ended,       \* whether ends_at is past
  minted,      \* objects used for an upload
  failures,
  excused,     \* objects a failure, a crash, a deletion or a race left behind
  doubtful,    \* photos committed by a request that was told it failed
  retired      \* photos on show that were the cover until an edit changed it

rows == <<status, experience, gallery, profile, cover, deleted>>
work == <<pc, who, object, rowLock>>
vars == <<rows, stored, work, ended, minted, failures, excused, doubtful, retired>>

ASSUME MediaAssumption ==
  /\ PhotoLimit \in Nat /\ MaxFailures \in Nat
  /\ IsFiniteSet(Object)
  /\ Organizer \in User
  /\ None \notin User /\ None \notin Object /\ None \notin Session

Stage == {"idle", "upload photo", "insert", "upload profile", "set", "upload cover",
          "change cover", "unlist", "drop", "erase"}

(* Every variable has its type; who uploads a photo holds the experience.  *)
TypeOK ==
  /\ status \in [User -> {"CONFIRMED", "CANCELLED"}]
  /\ experience \in [User -> BOOLEAN]
  /\ gallery \in [Object -> User \cup {None}]
  /\ profile \in [User -> Object \cup {None}] /\ cover \in Object \cup {None}
  /\ deleted \subseteq User
  /\ stored \subseteq minted /\ minted \subseteq Object
  /\ pc \in [Session -> Stage]
  /\ who \in [Session -> User \cup {None}]
  /\ object \in [Session -> Object \cup {None}]
  /\ rowLock \in [User -> Session \cup {None}]
  /\ \A s \in Session : pc[s] \in {"upload photo", "insert"} => rowLock[who[s]] = s
  /\ ended \in BOOLEAN /\ failures \in 0..MaxFailures
  /\ excused \subseteq Object /\ doubtful \subseteq Object /\ retired \subseteq Object

Init ==
  /\ status = [u \in User |-> "CONFIRMED"]
  /\ experience = [u \in User |-> FALSE]
  /\ gallery = [p \in Object |-> None] /\ profile = [u \in User |-> None]
  /\ cover = None /\ deleted = {} /\ stored = {}
  /\ pc = [s \in Session |-> "idle"] /\ who = [s \in Session |-> None]
  /\ object = [s \in Session |-> None] /\ rowLock = [u \in User |-> None]
  /\ ended = FALSE /\ minted = {} /\ failures = 0
  /\ excused = {} /\ doubtful = {} /\ retired = {}

-----------------------------------------------------------------------------

(* What the gallery and the profiles name.                                 *)
Shown == {p \in Object : gallery[p] # None \/ \E u \in User : profile[u] = p}

Begin(s, stage, u, p) ==
  /\ pc[s] = "idle"
  /\ pc' = [pc EXCEPT ![s] = stage]
  /\ who' = [who EXCEPT ![s] = u] /\ object' = [object EXCEPT ![s] = p]

Finish(s) ==
  /\ pc' = [pc EXCEPT ![s] = "idle"]
  /\ who' = [who EXCEPT ![s] = None] /\ object' = [object EXCEPT ![s] = None]

(* The session deletes object p next, if there is one.                     *)
ThenDrop(s, p) ==
  IF p = None THEN Finish(s)
  ELSE /\ pc' = [pc EXCEPT ![s] = "drop"]
       /\ object' = [object EXCEPT ![s] = p]
       /\ who' = [who EXCEPT ![s] = None]

Unlocked(s) == [u \in User |-> IF rowLock[u] = s THEN None ELSE rowLock[u]]

Fail == failures < MaxFailures /\ failures' = failures + 1

-----------------------------------------------------------------------------
(* Experiences                                                             *)

CanWrite(u) == u \notin deleted /\ status[u] = "CONFIRMED" /\ ended

(* POST /events/{id}/experiences holds the event from its check to its     *)
(* commit; a second experience of a participant is refused by the index.   *)
CreateExperience(u) ==
  /\ CanWrite(u) /\ ~experience[u]
  /\ experience' = [experience EXCEPT ![u] = TRUE]
  /\ UNCHANGED <<status, gallery, profile, cover, deleted, stored, work, ended,
                 minted, failures, excused, doubtful, retired>>

(* PATCH /experiences/{id}, under the lock of the row: another text.       *)
UpdateDescription(u) ==
  /\ u \notin deleted /\ experience[u] /\ rowLock[u] = None
  /\ UNCHANGED vars

Leave(u) ==
  /\ status[u] = "CONFIRMED" /\ u \notin deleted
  /\ status' = [status EXCEPT ![u] = "CANCELLED"]
  /\ UNCHANGED <<experience, gallery, profile, cover, deleted, stored, work, ended,
                 minted, failures, excused, doubtful, retired>>

-----------------------------------------------------------------------------
(* POST /experiences/{id}/images                                           *)

ActivePhotos(u) == {p \in Object : gallery[p] = u}

HasRoom(u) == Cardinality(ActivePhotos(u)) < PhotoLimit

(* Does not lock the experience. *)
MutLocksExperience(s, u) == rowLock' = [rowLock EXCEPT ![u] = s]

(* SELECT ... FOR UPDATE of the experience.                                *)
LocksExperience(s, u) ==
  rowLock[u] = None /\ rowLock' = [rowLock EXCEPT ![u] = s]

(* Refuses before anything is stored.                                      *)
RequestPhoto(s, u) ==
  /\ u \notin deleted /\ experience[u]
  /\ LocksExperience(s, u)
  /\ status[u] = "CONFIRMED" /\ HasRoom(u)
  /\ Begin(s, "upload photo", u, None)
  /\ UNCHANGED <<rows, stored, ended, minted, failures, excused, doubtful, retired>>

After == [stage \in {"upload photo", "upload profile"} |->
            IF stage = "upload photo" THEN "insert" ELSE "set"]

(* A new object under a key of its own.  No row names an image uploaded for *)
(* a cover until an event is edited; nothing deletes it if none is.        *)
Upload(s, p) ==
  /\ pc[s] \in {"upload photo", "upload profile", "upload cover"} /\ p \notin minted
  /\ minted' = minted \cup {p} /\ stored' = stored \cup {p}
  /\ IF pc[s] = "upload cover"
     THEN Finish(s) /\ excused' = excused \cup {p}
     ELSE /\ pc' = [pc EXCEPT ![s] = After[pc[s]]]
          /\ object' = [object EXCEPT ![s] = p]
          /\ UNCHANGED <<who, excused>>
  /\ UNCHANGED <<rows, rowLock, ended, failures, doubtful, retired>>

(* Storage refuses, or answers too late for an object it has.              *)
UploadFails(s, p) ==
  /\ pc[s] \in {"upload photo", "upload profile", "upload cover"} /\ p \notin minted
  /\ Fail
  /\ minted' = minted \cup {p} /\ stored' \in {stored, stored \cup {p}}
  /\ excused' = excused \cup {p}
  /\ rowLock' = Unlocked(s) /\ Finish(s)
  /\ UNCHANGED <<rows, ended, doubtful, retired>>

InsertPhoto(s) ==
  /\ pc[s] = "insert"
  /\ gallery' = [gallery EXCEPT ![object[s]] = who[s]]
  /\ rowLock' = Unlocked(s) /\ Finish(s)
  /\ UNCHANGED <<status, experience, profile, cover, deleted, stored, ended, minted,
                 failures, excused, doubtful, retired>>

(* A failed INSERT is rolled back; a failed refresh comes after the commit *)
(* and is treated alike: the object goes either way.                       *)
InsertFails(s) ==
  /\ pc[s] = "insert" /\ Fail
  /\ \/ UNCHANGED <<gallery, doubtful>>
     \/ /\ gallery' = [gallery EXCEPT ![object[s]] = who[s]]
        /\ doubtful' = doubtful \cup {object[s]}
  /\ rowLock' = Unlocked(s) /\ ThenDrop(s, object[s])
  /\ UNCHANGED <<status, experience, profile, cover, deleted, stored, ended, minted,
                 excused, retired>>

-----------------------------------------------------------------------------
(* DELETE /experiences/images/{id}                                         *)

MayRemove(u, p) == gallery[p] \notin deleted /\ u \in {gallery[p], Organizer}

(* Deletes the object first. *)
MutRequestRemoval(s, u, p) ==
  /\ u \notin deleted /\ gallery[p] # None /\ MayRemove(u, p)
  /\ Begin(s, "unlist", None, p)
  /\ stored' = stored \ {p}
  /\ UNCHANGED <<rows, rowLock, ended, minted, failures, excused, doubtful, retired>>

(* Reads the photo, its author and the organizer.                          *)
RequestRemoval(s, u, p) ==
  /\ u \notin deleted /\ gallery[p] # None /\ MayRemove(u, p)
  /\ Begin(s, "unlist", None, p)
  /\ UNCHANGED <<rows, stored, rowLock, ended, minted, failures, excused,
                 doubtful, retired>>

(* Only the request whose UPDATE changed the row goes on to the object.    *)
UnlistPhoto(s) ==
  /\ pc[s] = "unlist"
  /\ gallery' = [gallery EXCEPT ![object[s]] = None]
  /\ ThenDrop(s, IF gallery[object[s]] = None THEN None ELSE object[s])
  /\ UNCHANGED <<status, experience, profile, cover, deleted, stored, rowLock, ended,
                 minted, failures, excused, doubtful, retired>>

DropObject(s) ==
  /\ pc[s] = "drop"
  /\ stored' = stored \ {object[s]}
  /\ Finish(s)
  /\ UNCHANGED <<rows, rowLock, ended, minted, failures, excused, doubtful, retired>>

(* Logged, and the request goes on.                                        *)
DropFails(s) ==
  /\ pc[s] = "drop" /\ Fail
  /\ excused' = excused \cup {object[s]}
  /\ Finish(s)
  /\ UNCHANGED <<rows, stored, rowLock, ended, minted, doubtful, retired>>

-----------------------------------------------------------------------------
(* POST /users/me/photo and POST /uploads/event-covers                     *)

RequestProfilePhoto(s, u) ==
  /\ u \notin deleted
  /\ Begin(s, "upload profile", u, None)
  /\ UNCHANGED <<rows, stored, rowLock, ended, minted, failures, excused,
                 doubtful, retired>>

RequestCover(s, u) ==
  /\ u \notin deleted
  /\ Begin(s, "upload cover", None, None)
  /\ UNCHANGED <<rows, stored, rowLock, ended, minted, failures, excused,
                 doubtful, retired>>

(* Drops no previous photo. *)
MutReplaced(s) ==
  IF who[s] \in deleted THEN object[s] ELSE None

(* What to delete once the commit is done: the photo it took the place of, *)
(* or the new one if the account is gone.                                  *)
Replaced(s) == IF who[s] \in deleted THEN object[s] ELSE profile[who[s]]

(* SELECT ... FOR UPDATE of the user, and the commit.                      *)
SetProfilePhoto(s) ==
  /\ pc[s] = "set"
  /\ profile' = IF who[s] \in deleted THEN profile
                ELSE [profile EXCEPT ![who[s]] = object[s]]
  /\ ThenDrop(s, Replaced(s))
  /\ UNCHANGED <<status, experience, gallery, cover, deleted, stored, rowLock, ended,
                 minted, failures, excused, doubtful, retired>>

(* The new object goes, even if the commit was applied before it raised:   *)
(* then the profile names it, and nothing deletes the photo it replaced.   *)
SetFails(s) ==
  /\ pc[s] = "set" /\ Fail
  /\ \/ UNCHANGED <<profile, excused, doubtful>>
     \/ /\ who[s] \notin deleted
        /\ profile' = [profile EXCEPT ![who[s]] = object[s]]
        /\ doubtful' = doubtful \cup {object[s]}
        /\ excused' = excused \cup ({profile[who[s]]} \ {None})
  /\ ThenDrop(s, object[s])
  /\ UNCHANGED <<status, experience, gallery, cover, deleted, stored, rowLock, ended,
                 minted, retired>>

-----------------------------------------------------------------------------
(* PATCH /events/{id} of the cover                                         *)

(* Reads the event, with the cover it has.                                 *)
RequestCoverChange(s) ==
  /\ Organizer \notin deleted
  /\ Begin(s, "change cover", None, cover)
  /\ UNCHANGED <<rows, stored, rowLock, ended, minted, failures, excused,
                 doubtful, retired>>

(* The URL of object p has been given to whoever uploaded it.  Whether the *)
(* object is a cover, a photo on show or gone already is not looked at.    *)
Nameable(p) ==
  p \in minted /\ \A t \in Session : pc[t] \in {"insert", "set"} => object[t] # p

(* The commit of cover p, after which the cover that was read goes.  A     *)
(* cover another edit put there meanwhile is overwritten; nothing deletes  *)
(* it.  An edit whose commit fails is a Crash.                             *)
ChangeCover(s, p) ==
  /\ pc[s] = "change cover" /\ (p # None => Nameable(p))
  /\ IF p = object[s] THEN Finish(s) /\ UNCHANGED <<cover, excused, retired>>
     ELSE /\ cover' = p
          /\ excused' = (excused \ {p}) \cup ({cover} \ {None, object[s], p})
          /\ retired' = retired \cup ({object[s]} \cap Shown)
          /\ ThenDrop(s, object[s])
  /\ UNCHANGED <<status, experience, gallery, profile, deleted, stored, rowLock, ended,
                 minted, failures, doubtful>>

-----------------------------------------------------------------------------
(* DELETE /users/me; a dead worker; the end of the event                   *)

RequestErase(s, u) ==
  /\ u \notin deleted
  /\ Begin(s, "erase", u, profile[u])
  /\ UNCHANGED <<rows, stored, rowLock, ended, minted, failures, excused,
                 doubtful, retired>>

(* Clears the photo it read, and no other: a column read as null is not    *)
(* written.  The object stays.                                             *)
Erase(s) ==
  /\ pc[s] = "erase"
  /\ deleted' = deleted \cup {who[s]}
  /\ status' = [status EXCEPT ![who[s]] = "CANCELLED"]
  /\ IF object[s] = None THEN UNCHANGED <<profile, excused>>
     ELSE /\ profile' = [profile EXCEPT ![who[s]] = None]
          /\ excused' = excused \cup ({profile[who[s]]} \ {None})
  /\ Finish(s)
  /\ UNCHANGED <<experience, gallery, cover, stored, rowLock, ended, minted, failures,
                 doubtful, retired>>

(* The object a dying request had uploaded, or was to delete, is nobody's. *)
Crash(s) ==
  /\ pc[s] # "idle" /\ Fail
  /\ excused' = IF pc[s] \in {"insert", "set", "drop"} THEN excused \cup {object[s]}
                ELSE excused
  /\ rowLock' = Unlocked(s) /\ Finish(s)
  /\ UNCHANGED <<rows, stored, ended, minted, doubtful, retired>>

End ==
  /\ ~ended /\ ended' = TRUE
  /\ UNCHANGED <<rows, stored, work, minted, failures, excused, doubtful, retired>>

Next ==
  \/ \E u \in User : CreateExperience(u) \/ UpdateDescription(u) \/ Leave(u)
  \/ \E s \in Session :
       \/ \E u \in User :
            \/ RequestPhoto(s, u) \/ RequestProfilePhoto(s, u) \/ RequestCover(s, u)
            \/ RequestErase(s, u)
            \/ \E p \in Object : RequestRemoval(s, u, p)
       \/ RequestCoverChange(s)
       \/ \E p \in Object \cup {None} : ChangeCover(s, p)
       \/ \E p \in Object : Upload(s, p) \/ UploadFails(s, p)
       \/ InsertPhoto(s) \/ InsertFails(s)
       \/ UnlistPhoto(s) \/ DropObject(s) \/ DropFails(s)
       \/ SetProfilePhoto(s) \/ SetFails(s) \/ Erase(s) \/ Crash(s)
  \/ End

Spec == Init /\ [][Next]_vars

-----------------------------------------------------------------------------
(* Properties *)

(* Uploads that count at the same time do not exceed the limit together    *)
(* (repository/experience.py:232).                                         *)
PhotoLimitHolds == \A u \in User : Cardinality(ActivePhotos(u)) <= PhotoLimit

(* A photo on show has its object, whatever is replaced, removed or fails  *)
(* half way.  Two kinds of photo are excepted: one whose request failed    *)
(* after its commit, which the handlers take for a write that failed       *)
(* (services/experience.py:257, services/profile_photo.py:43), and one     *)
(* that an event had as its cover until an edit changed it, which deletes  *)
(* the object whoever else shows it (services/event.py:331).               *)
ShownPhotosExist == Shown \subseteq stored \cup doubtful \cup retired

(* Once the requests are done nothing is in storage that no row names.     *)
(* Excused are objects left by a crash, a refused call or a deleted        *)
(* account, images uploaded for a cover that no event took, and a cover    *)
(* that an overlapping edit overwrote (services/profile_photo.py:50,       *)
(* services/experience.py:243, services/event.py:331).                     *)
NothingLeaks ==
  (\A s \in Session : pc[s] = "idle") => stored \ excused \subseteq Shown \cup {cover}
=============================================================================
