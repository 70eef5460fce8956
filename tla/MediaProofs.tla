----------------------------- MODULE MediaProofs ------------------------------
(***************************************************************************)
(* Theorems about Media.tla, for any number of users, sessions, objects    *)
(* and failures.                                                           *)
(***************************************************************************)
EXTENDS Media, FiniteSetTheorems, TLAPS

-----------------------------------------------------------------------------
(* Types                                                                   *)

(* Who is named where a call needs a user, and what where it needs a photo.*)
Named(s) ==
  /\ pc[s] \in {"upload photo", "insert", "upload profile", "set", "erase"} => who[s] \in User
  /\ pc[s] \in {"insert", "unlist", "set", "drop"} => object[s] \in Object

WorkTyped ==
  /\ pc \in [Session -> Stage]
  /\ who \in [Session -> User \cup {None}]
  /\ object \in [Session -> Object \cup {None}]

WorkInv == TypeOK /\ \A s \in Session : Named(s)

(* Session s goes on to a call about user u and object p.                  *)
GoesTo(s, stage, u, p) ==
  /\ pc'[s] = stage /\ who'[s] = u /\ object'[s] = p
  /\ \A t \in Session \ {s} : pc'[t] = pc[t] /\ who'[t] = who[t] /\ object'[t] = object[t]

(* What the helpers leave of the work of the sessions.                     *)
LEMMA WorkMoves ==
  ASSUME WorkTyped, NEW s \in Session
  PROVE  /\ Finish(s) => WorkTyped' /\ GoesTo(s, "idle", None, None)
         /\ \A stage \in Stage, u \in User \cup {None}, p \in Object \cup {None} :
              Begin(s, stage, u, p) =>
                WorkTyped' /\ pc[s] = "idle" /\ GoesTo(s, stage, u, p)
         /\ \A p \in Object \cup {None} :
              ThenDrop(s, p) =>
                WorkTyped' /\ GoesTo(s, IF p = None THEN "idle" ELSE "drop", None, p)
<1>1. Finish(s) => WorkTyped' /\ GoesTo(s, "idle", None, None)
  BY DEF Finish, WorkTyped, GoesTo, Stage
<1>2. ASSUME NEW stage \in Stage, NEW u \in User \cup {None}, NEW p \in Object \cup {None},
             Begin(s, stage, u, p)
      PROVE  WorkTyped' /\ pc[s] = "idle" /\ GoesTo(s, stage, u, p)
  BY <1>2 DEF Begin, WorkTyped, GoesTo
<1>3. ASSUME NEW p \in Object \cup {None}, ThenDrop(s, p)
      PROVE  WorkTyped' /\ GoesTo(s, IF p = None THEN "idle" ELSE "drop", None, p)
  <2>1. CASE p = None
    BY <1>1, <1>3, <2>1 DEF ThenDrop
  <2>2. CASE p # None
    BY <1>3, <2>2 DEF ThenDrop, WorkTyped, GoesTo, Stage
  <2> QED
    BY <2>1, <2>2
<1> QED
  BY <1>1, <1>2, <1>3

(* The steps of a session, and the steps that are not of a session.        *)
Steps(s) ==
  \/ \E u \in User : RequestPhoto(s, u)
  \/ \E u \in User : RequestProfilePhoto(s, u)
  \/ \E u \in User : RequestCover(s, u)
  \/ \E u \in User : RequestErase(s, u)
  \/ \E u \in User, p \in Object : RequestRemoval(s, u, p)
  \/ RequestCoverChange(s)
  \/ \E p \in Object \cup {None} : ChangeCover(s, p)
  \/ \E p \in Object : Upload(s, p)
  \/ \E p \in Object : UploadFails(s, p)
  \/ InsertPhoto(s) \/ InsertFails(s)
  \/ UnlistPhoto(s) \/ DropObject(s) \/ DropFails(s)
  \/ SetProfilePhoto(s) \/ SetFails(s) \/ Erase(s) \/ Crash(s)

Around == (\E u \in User : CreateExperience(u) \/ UpdateDescription(u) \/ Leave(u)) \/ End

LEMMA NextIsASessionsOrAround ==
  ASSUME [Next]_vars
  PROVE  \/ \E s \in Session : Steps(s)
         \/ Around \/ UNCHANGED vars
BY DEF Next, Steps, Around

(* How each step moves the work of its session.                            *)
Moves(s) ==
  \/ \E u \in User : RequestPhoto(s, u) /\ pc[s] = "idle" /\ GoesTo(s, "upload photo", u, None)
  \/ \E u \in User :
       RequestProfilePhoto(s, u) /\ pc[s] = "idle" /\ GoesTo(s, "upload profile", u, None)
  \/ \E u \in User : RequestCover(s, u) /\ pc[s] = "idle" /\ GoesTo(s, "upload cover", None, None)
  \/ \E u \in User : RequestErase(s, u) /\ pc[s] = "idle" /\ GoesTo(s, "erase", u, profile[u])
  \/ \E u \in User, p \in Object :
       RequestRemoval(s, u, p) /\ pc[s] = "idle" /\ GoesTo(s, "unlist", None, p)
  \/ RequestCoverChange(s) /\ pc[s] = "idle" /\ GoesTo(s, "change cover", None, cover)
  \/ \E p \in Object \cup {None} :
       /\ ChangeCover(s, p) /\ pc[s] = "change cover"
       /\ p = object[s] \/ object[s] = None
       /\ GoesTo(s, "idle", None, None)
  \/ \E p \in Object \cup {None} :
       /\ ChangeCover(s, p) /\ pc[s] = "change cover" /\ object[s] \in Object
       /\ p # object[s] /\ GoesTo(s, "drop", None, object[s])
  \/ \E p \in Object : Upload(s, p) /\ pc[s] = "upload cover" /\ GoesTo(s, "idle", None, None)
  \/ \E p \in Object :
       Upload(s, p) /\ pc[s] = "upload photo" /\ GoesTo(s, "insert", who[s], p)
  \/ \E p \in Object :
       Upload(s, p) /\ pc[s] = "upload profile" /\ GoesTo(s, "set", who[s], p)
  \/ \E p \in Object : UploadFails(s, p) /\ GoesTo(s, "idle", None, None)
  \/ InsertPhoto(s) /\ GoesTo(s, "idle", None, None)
  \/ InsertFails(s) /\ GoesTo(s, "drop", None, object[s])
  \/ UnlistPhoto(s) /\ gallery[object[s]] = None /\ GoesTo(s, "idle", None, None)
  \/ UnlistPhoto(s) /\ gallery[object[s]] # None /\ GoesTo(s, "drop", None, object[s])
  \/ DropObject(s) /\ GoesTo(s, "idle", None, None)
  \/ DropFails(s) /\ GoesTo(s, "idle", None, None)
  \/ SetProfilePhoto(s) /\ Replaced(s) = None /\ GoesTo(s, "idle", None, None)
  \/ SetProfilePhoto(s) /\ Replaced(s) \in Object /\ GoesTo(s, "drop", None, Replaced(s))
  \/ SetFails(s) /\ GoesTo(s, "drop", None, object[s])
  \/ Erase(s) /\ GoesTo(s, "idle", None, None)
  \/ Crash(s) /\ GoesTo(s, "idle", None, None)

(* A step of a session moves its work and nobody else's.                   *)
LEMMA SessionMoves ==
  ASSUME WorkInv, NEW s \in Session, Steps(s)
  PROVE  Moves(s) /\ WorkTyped'
<1>1. /\ WorkTyped /\ Named(s) /\ None \notin Object
      /\ profile \in [User -> Object \cup {None}] /\ cover \in Object \cup {None}
      /\ object[s] \in Object \cup {None}
  BY MediaAssumption DEF WorkInv, TypeOK, WorkTyped
<1>2. /\ "upload photo" \in Stage /\ "upload profile" \in Stage /\ "upload cover" \in Stage
      /\ "erase" \in Stage /\ "unlist" \in Stage /\ "change cover" \in Stage
  BY DEF Stage
<1>3. ASSUME NEW u \in User, RequestPhoto(s, u) PROVE Moves(s) /\ WorkTyped'
  <2>1. Begin(s, "upload photo", u, None)
    BY <1>3 DEF RequestPhoto
  <2> QED
    BY <1>1, <1>2, <1>3, <2>1, WorkMoves DEF Moves
<1>4. ASSUME NEW u \in User, RequestProfilePhoto(s, u) PROVE Moves(s) /\ WorkTyped'
  <2>1. Begin(s, "upload profile", u, None)
    BY <1>4 DEF RequestProfilePhoto
  <2> QED
    BY <1>1, <1>2, <1>4, <2>1, WorkMoves DEF Moves
<1>5. ASSUME NEW u \in User, RequestCover(s, u) PROVE Moves(s) /\ WorkTyped'
  <2>1. Begin(s, "upload cover", None, None)
    BY <1>5 DEF RequestCover
  <2> QED
    BY <1>1, <1>2, <1>5, <2>1, WorkMoves DEF Moves
<1>6. ASSUME NEW u \in User, RequestErase(s, u) PROVE Moves(s) /\ WorkTyped'
  <2>1. Begin(s, "erase", u, profile[u]) /\ profile[u] \in Object \cup {None}
    BY <1>1, <1>6 DEF RequestErase
  <2> QED
    BY <1>1, <1>2, <1>6, <2>1, WorkMoves DEF Moves
<1>7. ASSUME NEW u \in User, NEW p \in Object, RequestRemoval(s, u, p)
      PROVE  Moves(s) /\ WorkTyped'
  <2>1. Begin(s, "unlist", None, p)
    BY <1>7 DEF RequestRemoval
  <2> QED
    BY <1>1, <1>2, <1>7, <2>1, WorkMoves DEF Moves
<1>8. ASSUME NEW p \in Object, Upload(s, p) PROVE Moves(s) /\ WorkTyped'
  <2>1. CASE pc[s] = "upload cover"
    <3>1. Finish(s)
      BY <1>8, <2>1 DEF Upload
    <3> QED
      BY <1>1, <1>8, <2>1, <3>1, WorkMoves DEF Moves
  <2>2. CASE pc[s] = "upload photo"
    <3>1. /\ pc' = [pc EXCEPT ![s] = "insert"] /\ object' = [object EXCEPT ![s] = p]
          /\ who' = who
      BY <1>8, <2>2 DEF Upload, After
    <3>2. WorkTyped' /\ GoesTo(s, "insert", who[s], p)
      BY <1>1, <3>1 DEF WorkTyped, GoesTo, Stage
    <3> QED
      BY <1>8, <2>2, <3>2 DEF Moves
  <2>3. CASE pc[s] = "upload profile"
    <3>1. /\ pc' = [pc EXCEPT ![s] = "set"] /\ object' = [object EXCEPT ![s] = p]
          /\ who' = who
      BY <1>8, <2>3 DEF Upload, After
    <3>2. WorkTyped' /\ GoesTo(s, "set", who[s], p)
      BY <1>1, <3>1 DEF WorkTyped, GoesTo, Stage
    <3> QED
      BY <1>8, <2>3, <3>2 DEF Moves
  <2> QED
    BY <1>8, <2>1, <2>2, <2>3 DEF Upload
<1>9. ASSUME NEW p \in Object, UploadFails(s, p) PROVE Moves(s) /\ WorkTyped'
  <2>1. Finish(s)
    BY <1>9 DEF UploadFails
  <2> QED
    BY <1>1, <1>9, <2>1, WorkMoves DEF Moves
<1>10. CASE InsertPhoto(s) \/ DropObject(s) \/ DropFails(s) \/ Erase(s) \/ Crash(s)
  <2>1. Finish(s)
    BY <1>10 DEF InsertPhoto, DropObject, DropFails, Erase, Crash
  <2> QED
    BY <1>1, <1>10, <2>1, WorkMoves DEF Moves
<1>11. CASE InsertFails(s) \/ SetFails(s)
  <2>1. ThenDrop(s, object[s]) /\ object[s] \in Object
    BY <1>1, <1>11 DEF InsertFails, SetFails, Named
  <2> QED
    BY <1>1, <1>11, <2>1, WorkMoves DEF Moves
<1>12. CASE UnlistPhoto(s)
  <2>1. object[s] \in Object
    BY <1>1, <1>12 DEF UnlistPhoto, Named
  <2>2. CASE gallery[object[s]] = None
    <3>1. ThenDrop(s, None)
      BY <1>12, <2>2 DEF UnlistPhoto
    <3> QED
      BY <1>1, <1>12, <2>2, <3>1, WorkMoves DEF Moves
  <2>3. CASE gallery[object[s]] # None
    <3>1. ThenDrop(s, object[s])
      BY <1>12, <2>3 DEF UnlistPhoto
    <3> QED
      BY <1>1, <1>12, <2>1, <2>3, <3>1, WorkMoves DEF Moves
  <2> QED
    BY <2>2, <2>3
<1>13. CASE SetProfilePhoto(s)
  <2>1. ThenDrop(s, Replaced(s)) /\ Replaced(s) \in Object \cup {None}
    BY <1>1, <1>13 DEF SetProfilePhoto, Replaced, Named
  <2> QED
    BY <1>1, <1>13, <2>1, WorkMoves DEF Moves
<1>14. CASE RequestCoverChange(s)
  <2>1. Begin(s, "change cover", None, cover)
    BY <1>14 DEF RequestCoverChange
  <2> QED
    BY <1>1, <1>2, <1>14, <2>1, WorkMoves DEF Moves
<1>15. ASSUME NEW p \in Object \cup {None}, ChangeCover(s, p) PROVE Moves(s) /\ WorkTyped'
  <2>1. pc[s] = "change cover"
    BY <1>15 DEF ChangeCover
  <2>2. CASE p = object[s]
    <3>1. Finish(s)
      BY <1>15, <2>2 DEF ChangeCover
    <3> QED
      BY <1>1, <1>15, <2>1, <2>2, <3>1, WorkMoves DEF Moves
  <2>3. CASE p # object[s]
    <3>1. ThenDrop(s, object[s])
      BY <1>15, <2>3 DEF ChangeCover
    <3>2. WorkTyped' /\ GoesTo(s, IF object[s] = None THEN "idle" ELSE "drop", None, object[s])
      BY <1>1, <3>1, WorkMoves
    <3>3. CASE object[s] = None
      BY <1>15, <2>1, <3>2, <3>3 DEF Moves
    <3>4. CASE object[s] \in Object
      BY <1>1, <1>15, <2>1, <2>3, <3>2, <3>4 DEF Moves
    <3> QED
      BY <1>1, <3>3, <3>4
  <2> QED
    BY <2>2, <2>3
<1> QED
  BY <1>3, <1>4, <1>5, <1>6, <1>7, <1>8, <1>9, <1>10, <1>11, <1>12, <1>13, <1>14, <1>15
  DEF Steps

(* Whoever uploads or inserts a photo holds the experience it is for.      *)
LEMMA SessionKeepsNames ==
  ASSUME WorkInv, NEW s \in Session, Moves(s)
  PROVE  \A t \in Session : Named(t)'
<1>1. \A t \in Session : Named(t)
  BY DEF WorkInv
<1>2. \A t \in Session \ {s} : Named(t)'
  BY <1>1 DEF Moves, GoesTo, Named
<1>3. Named(s)'
  BY <1>1 DEF Moves, GoesTo, Named, InsertPhoto, InsertFails, UnlistPhoto, SetFails
<1> QED
  BY <1>2, <1>3

RowsTyped ==
  /\ status \in [User -> {"CONFIRMED", "CANCELLED"}]
  /\ experience \in [User -> BOOLEAN]
  /\ gallery \in [Object -> User \cup {None}]
  /\ profile \in [User -> Object \cup {None}] /\ cover \in Object \cup {None}
  /\ deleted \subseteq User
  /\ stored \subseteq minted /\ minted \subseteq Object
  /\ ended \in BOOLEAN /\ failures \in 0..MaxFailures
  /\ excused \subseteq Object /\ doubtful \subseteq Object /\ retired \subseteq Object

LEMMA SessionKeepsRows ==
  ASSUME WorkInv, NEW s \in Session, Steps(s)
  PROVE  RowsTyped'
<1>1. /\ RowsTyped /\ Named(s) /\ None \notin Object /\ MaxFailures \in Nat
      /\ object[s] \in Object \cup {None}
  BY MediaAssumption DEF WorkInv, TypeOK, RowsTyped
<1>2. Fail => failures' \in 0..MaxFailures
  BY <1>1 DEF Fail, RowsTyped
<1>3. CASE \E u \in User : \/ RequestPhoto(s, u) \/ RequestProfilePhoto(s, u)
                           \/ RequestCover(s, u) \/ RequestErase(s, u)
                           \/ \E p \in Object : RequestRemoval(s, u, p)
  BY <1>1, <1>3 DEF RequestPhoto, RequestProfilePhoto, RequestCover, RequestErase,
     RequestRemoval, rows, RowsTyped
<1>4. CASE \E p \in Object : Upload(s, p)
  BY <1>1, <1>4 DEF Upload, rows, RowsTyped
<1>5. CASE \E p \in Object : UploadFails(s, p)
  BY <1>1, <1>2, <1>5 DEF UploadFails, rows, RowsTyped
<1>6. CASE InsertPhoto(s)
  BY <1>1, <1>6 DEF InsertPhoto, Named, RowsTyped
<1>7. CASE InsertFails(s)
  BY <1>1, <1>2, <1>7 DEF InsertFails, Named, RowsTyped
<1>8. CASE UnlistPhoto(s)
  BY <1>1, <1>8 DEF UnlistPhoto, RowsTyped
<1>9. CASE DropObject(s)
  BY <1>1, <1>9 DEF DropObject, rows, RowsTyped
<1>10. CASE DropFails(s)
  BY <1>1, <1>2, <1>10 DEF DropFails, Named, rows, RowsTyped
<1>11. CASE SetProfilePhoto(s)
  BY <1>1, <1>11 DEF SetProfilePhoto, Named, RowsTyped
<1>12. CASE SetFails(s)
  BY <1>1, <1>2, <1>12 DEF SetFails, Named, RowsTyped
<1>13. CASE Erase(s)
  BY <1>1, <1>13 DEF Erase, Named, RowsTyped
<1>14. CASE Crash(s)
  BY <1>1, <1>2, <1>14 DEF Crash, Named, rows, RowsTyped
<1>15. CASE RequestCoverChange(s)
  BY <1>1, <1>15 DEF RequestCoverChange, rows, RowsTyped
<1>16. CASE \E p \in Object \cup {None} : ChangeCover(s, p)
  <2>1. PICK p \in Object \cup {None} : ChangeCover(s, p)
    BY <1>16
  <2>2. cover' \in Object \cup {None} /\ excused' \subseteq Object /\ retired' \subseteq Object
    <3>1. CASE p = object[s]
      BY <1>1, <2>1, <3>1 DEF ChangeCover, RowsTyped
    <3>2. CASE p # object[s]
      <4>1. /\ cover' = p /\ retired' = retired \cup ({object[s]} \cap Shown)
            /\ excused' = (excused \ {p}) \cup ({cover} \ {None, object[s], p})
        BY <2>1, <3>2 DEF ChangeCover
      <4>2. Shown \subseteq Object
        BY DEF Shown
      <4> QED
        BY <1>1, <4>1, <4>2 DEF RowsTyped
    <3> QED
      BY <3>1, <3>2
  <2>3. UNCHANGED <<status, experience, gallery, profile, deleted, stored, ended, minted,
                    failures, doubtful>>
    BY <2>1 DEF ChangeCover
  <2> QED
    BY <1>1, <2>2, <2>3 DEF RowsTyped
<1> QED
  BY <1>3, <1>4, <1>5, <1>6, <1>7, <1>8, <1>9, <1>10, <1>11, <1>12, <1>13, <1>14, <1>15, <1>16
  DEF Steps

(* A request locks its experience or none, and gives up only its own lock. *)
Holder(s) == pc[s] \in {"upload photo", "insert"} => rowLock[who[s]] = s

LEMMA SessionKeepsLocks ==
  ASSUME WorkInv, NEW s \in Session, Steps(s)
  PROVE  /\ rowLock' \in [User -> Session \cup {None}]
         /\ \A t \in Session : Holder(t)'
<1>1. /\ rowLock \in [User -> Session \cup {None}] /\ None \notin Session
      /\ \A t \in Session : Named(t) /\ Holder(t)
      /\ Moves(s)
  BY SessionMoves, MediaAssumption DEF WorkInv, TypeOK, Holder
<1>2. CASE rowLock' = rowLock /\ (pc'[s] \notin {"upload photo", "insert"}
                                    \/ (pc[s] = "upload photo" /\ who'[s] = who[s]))
  <2>1. Holder(s)'
    BY <1>1, <1>2 DEF Holder
  <2>2. ASSUME NEW t \in Session \ {s} PROVE Holder(t)'
    BY <1>1, <1>2, <2>2 DEF Holder, Moves, GoesTo
  <2> QED
    BY <1>1, <1>2, <2>1, <2>2
<1>3. CASE rowLock' = Unlocked(s) /\ pc'[s] \notin {"upload photo", "insert"}
  <2>1. rowLock' \in [User -> Session \cup {None}]
    BY <1>1, <1>3 DEF Unlocked
  <2>2. Holder(s)'
    BY <1>3 DEF Holder
  <2>3. ASSUME NEW t \in Session \ {s} PROVE Holder(t)'
    <3>1. pc'[t] = pc[t] /\ who'[t] = who[t]
      BY <1>1 DEF Moves, GoesTo
    <3> QED
      BY <1>1, <1>3, <3>1 DEF Holder, Named, Unlocked
  <2> QED
    BY <2>1, <2>2, <2>3
<1>4. ASSUME NEW u \in User, RequestPhoto(s, u), GoesTo(s, "upload photo", u, None)
      PROVE  /\ rowLock' \in [User -> Session \cup {None}]
             /\ \A t \in Session : Holder(t)'
  <2>1. rowLock[u] = None /\ rowLock' = [rowLock EXCEPT ![u] = s]
    BY <1>4 DEF RequestPhoto, LocksExperience
  <2>2. Holder(s)'
    BY <1>1, <1>4, <2>1 DEF Holder, GoesTo
  <2>3. ASSUME NEW t \in Session \ {s} PROVE Holder(t)'
    <3>1. pc'[t] = pc[t] /\ who'[t] = who[t]
      BY <1>4 DEF GoesTo
    <3> QED
      BY <1>1, <2>1, <3>1 DEF Holder, Named
  <2> QED
    BY <1>1, <2>1, <2>2, <2>3
<1>5. CASE \E u \in User : RequestPhoto(s, u)
  <2>1. PICK u \in User : RequestPhoto(s, u)
    BY <1>5
  <2>2. /\ pc' = [pc EXCEPT ![s] = "upload photo"] /\ who' = [who EXCEPT ![s] = u]
        /\ object' = [object EXCEPT ![s] = None]
    BY <2>1 DEF RequestPhoto, Begin
  <2>3. GoesTo(s, "upload photo", u, None)
    BY <2>2 DEF GoesTo, WorkInv, TypeOK
  <2> QED
    BY <1>4, <2>1, <2>3
<1>6. CASE ~\E u \in User : RequestPhoto(s, u)
  <2>1. CASE /\ rowLock' = rowLock
    <3>1. pc'[s] \in {"upload photo", "insert"} => pc[s] = "upload photo" /\ who'[s] = who[s]
      BY <1>1, <1>6 DEF Moves, GoesTo
    <3> QED
      BY <1>2, <2>1, <3>1
  <2>2. CASE rowLock' = Unlocked(s)
    <3>1. \/ \E p \in Object : UploadFails(s, p)
          \/ InsertPhoto(s) \/ InsertFails(s) \/ Crash(s)
          \/ rowLock' = rowLock
      BY <1>6 DEF Steps, RequestProfilePhoto, RequestCover, RequestErase, RequestRemoval,
         Upload, UnlistPhoto, DropObject, DropFails, SetProfilePhoto, SetFails, Erase,
         RequestCoverChange, ChangeCover
    <3>2. CASE rowLock' = rowLock
      BY <2>1, <3>2
    <3>3. CASE \/ \E p \in Object : UploadFails(s, p)
               \/ InsertPhoto(s) \/ InsertFails(s) \/ Crash(s)
      <4>1. pc'[s] \notin {"upload photo", "insert"}
        <5>1. pc \in [Session -> Stage]
          BY DEF WorkInv, TypeOK
        <5>2. Finish(s) => pc'[s] = "idle"
          BY <5>1 DEF Finish
        <5>3. InsertFails(s) => pc'[s] \in {"idle", "drop"}
          BY <5>1, <5>2 DEF InsertFails, ThenDrop
        <5> QED
          BY <3>3, <5>2, <5>3 DEF UploadFails, InsertPhoto, Crash
      <4> QED
        BY <1>3, <2>2, <4>1
    <3> QED
      BY <3>1, <3>2, <3>3
  <2>3. rowLock' = rowLock \/ rowLock' = Unlocked(s)
    BY <1>6 DEF Steps, RequestProfilePhoto, RequestCover, RequestErase, RequestRemoval,
       Upload, UploadFails, InsertPhoto, InsertFails, UnlistPhoto, DropObject, DropFails,
       SetProfilePhoto, SetFails, Erase, Crash, RequestCoverChange, ChangeCover
  <2> QED
    BY <2>1, <2>2, <2>3
<1> QED
  BY <1>5, <1>6

LEMMA InitWorkInv == Init => WorkInv
<1> SUFFICES ASSUME Init PROVE WorkInv
  OBVIOUS
<1>1. "idle" \in Stage /\ 0 \in 0..MaxFailures
  BY MediaAssumption DEF Stage
<1>2. /\ pc \in [Session -> Stage] /\ who \in [Session -> User \cup {None}]
      /\ object \in [Session -> Object \cup {None}]
      /\ rowLock \in [User -> Session \cup {None}]
      /\ \A s \in Session : pc[s] = "idle"
  BY <1>1 DEF Init
<1>3. RowsTyped
  BY <1>1 DEF Init, RowsTyped
<1> QED
  BY <1>2, <1>3 DEF WorkInv, TypeOK, RowsTyped, Named

LEMMA NextKeepsWorkInv ==
  ASSUME WorkInv, [Next]_vars
  PROVE  WorkInv'
<1>1. ASSUME NEW s \in Session, Steps(s) PROVE WorkInv'
  <2>1. WorkTyped' /\ Moves(s) /\ RowsTyped'
    BY <1>1, SessionMoves, SessionKeepsRows
  <2>2. \A t \in Session : Named(t)'
    BY <2>1, SessionKeepsNames
  <2>3. rowLock' \in [User -> Session \cup {None}] /\ \A t \in Session : Holder(t)'
    BY <1>1, SessionKeepsLocks
  <2> QED
    BY <2>1, <2>2, <2>3 DEF WorkInv, TypeOK, WorkTyped, RowsTyped, Holder
<1>2. CASE Around
  BY <1>2 DEF Around, CreateExperience, UpdateDescription, Leave, End, vars, work, rows,
     WorkInv, TypeOK, Named
<1>3. CASE UNCHANGED vars
  BY <1>3 DEF vars, work, rows, WorkInv, TypeOK, Named
<1> QED
  BY <1>1, <1>2, <1>3, NextIsASessionsOrAround

(* Every variable keeps its type, and a session that uploads or inserts a  *)
(* photo holds the row of its experience until it is done.                 *)
THEOREM TypeCorrect == Spec => []TypeOK
<1>1. WorkInv => TypeOK
  BY DEF WorkInv
<1> QED
  BY <1>1, InitWorkInv, NextKeepsWorkInv, PTL DEF Spec

-----------------------------------------------------------------------------
(* The limit of photos                                                     *)

(* The limit holds, and whoever is about to add a photo has room for it.   *)
Uploads(s) == pc[s] \in {"upload photo", "insert"}

RoomInv ==
  /\ WorkInv /\ PhotoLimitHolds
  /\ \A s \in Session : Uploads(s) => HasRoom(who[s])

LEMMA PhotoSets ==
  /\ PhotoLimit \in Nat
  /\ \A set \in SUBSET Object :
       /\ Cardinality(set) \in Nat
       /\ \A part \in SUBSET set : Cardinality(part) <= Cardinality(set)
       /\ \A p \in Object : Cardinality(set \cup {p}) <= Cardinality(set) + 1
<1>1. IsFiniteSet(Object) /\ PhotoLimit \in Nat
  BY MediaAssumption
<1>2. ASSUME NEW set \in SUBSET Object
      PROVE  /\ Cardinality(set) \in Nat
             /\ \A part \in SUBSET set : Cardinality(part) <= Cardinality(set)
             /\ \A p \in Object : Cardinality(set \cup {p}) <= Cardinality(set) + 1
  <2>1. IsFiniteSet(set)
    BY <1>1, FS_Subset
  <2>2. Cardinality(set) \in Nat
    BY <2>1, FS_CardinalityType
  <2>3. \A part \in SUBSET set : Cardinality(part) <= Cardinality(set)
    BY <2>1, FS_Subset
  <2>4. ASSUME NEW p \in Object PROVE Cardinality(set \cup {p}) <= Cardinality(set) + 1
    <3>1. CASE p \in set
      <4>1. Cardinality(set \cup {p}) = Cardinality(set)
        <5>1. set \cup {p} = set
          BY <3>1
        <5> QED
          BY <5>1
      <4> QED
        BY <2>2, <4>1
    <3>2. CASE p \notin set
      <4>1. Cardinality(set \cup {p}) = Cardinality(set) + 1
        BY <2>1, <3>2, FS_AddElement
      <4> QED
        BY <2>2, <4>1
    <3> QED
      BY <3>1, <3>2
  <2> QED
    BY <2>2, <2>3, <2>4
<1> QED
  BY <1>1, <1>2

(* A step adds one photo to the gallery, takes one away or leaves it.      *)
LEMMA GalleryMoves ==
  ASSUME NEW s \in Session, Steps(s)
  PROVE  \/ gallery' = gallery
         \/ UnlistPhoto(s) /\ gallery' = [gallery EXCEPT ![object[s]] = None]
         \/ /\ pc[s] = "insert" /\ (InsertPhoto(s) \/ InsertFails(s))
            /\ gallery' = [gallery EXCEPT ![object[s]] = who[s]]
BY DEF Steps, RequestPhoto, RequestProfilePhoto, RequestCover, RequestErase, RequestRemoval,
   Upload, UploadFails, InsertPhoto, InsertFails, UnlistPhoto, DropObject, DropFails,
   SetProfilePhoto, SetFails, Erase, Crash, RequestCoverChange, ChangeCover, rows

LEMMA RoomStep ==
  ASSUME RoomInv, NEW s \in Session, Steps(s)
  PROVE  PhotoLimitHolds' /\ \A t \in Session : (Uploads(t) => HasRoom(who[t]))'
<1>1. /\ WorkInv /\ Moves(s) /\ WorkTyped' /\ gallery \in [Object -> User \cup {None}]
      /\ None \notin User /\ None \notin Object /\ None \notin Session
      /\ PhotoLimit \in Nat
      /\ \A t \in Session : Named(t) /\ Holder(t)
  BY SessionMoves, MediaAssumption DEF RoomInv, WorkInv, TypeOK, Holder
<1>2. /\ \A u \in User : Cardinality(ActivePhotos(u)) <= PhotoLimit
      /\ \A t \in Session : Uploads(t) => Cardinality(ActivePhotos(who[t])) < PhotoLimit
      /\ \A u \in User : ActivePhotos(u) \in SUBSET Object
      /\ \A u \in User : Cardinality(ActivePhotos(u)) \in Nat
  BY PhotoSets DEF RoomInv, PhotoLimitHolds, HasRoom, ActivePhotos
<1>3. ASSUME NEW t \in Session, Uploads(t)'
      PROVE  /\ who'[t] \in User
             /\ Cardinality(ActivePhotos(who'[t])) < PhotoLimit
             /\ ~(pc[s] = "insert" /\ (InsertPhoto(s) \/ InsertFails(s)) /\ t = s)
  <2>1. CASE Uploads(t) /\ who'[t] = who[t]
    BY <1>1, <1>2, <1>3, <2>1 DEF Uploads, Named, Moves, GoesTo
  <2>2. CASE t = s /\ \E u \in User : RequestPhoto(s, u) /\ who'[s] = u /\ pc[s] = "idle"
    BY <2>2 DEF RequestPhoto, HasRoom
  <2> QED
    BY <1>1, <1>3, <2>1, <2>2 DEF Uploads, Moves, GoesTo
<1>4. ASSUME \A u \in User : ActivePhotos(u)' \in SUBSET ActivePhotos(u)
      PROVE  PhotoLimitHolds' /\ \A t \in Session : (Uploads(t) => HasRoom(who[t]))'
  <2>1. \A u \in User : /\ Cardinality(ActivePhotos(u)') \in Nat
                        /\ Cardinality(ActivePhotos(u)') <= Cardinality(ActivePhotos(u))
    BY <1>2, <1>4, PhotoSets
  <2>2. PhotoLimitHolds'
    BY <1>1, <1>2, <2>1 DEF PhotoLimitHolds
  <2>3. ASSUME NEW t \in Session, Uploads(t)' PROVE HasRoom(who[t])'
    BY <1>1, <1>2, <1>3, <2>1, <2>3 DEF HasRoom
  <2> QED
    BY <2>2, <2>3
<1>5. CASE gallery' = gallery
  BY <1>4, <1>5 DEF ActivePhotos
<1>6. CASE UnlistPhoto(s) /\ gallery' = [gallery EXCEPT ![object[s]] = None]
  <2>1. \A u \in User : ActivePhotos(u)' \in SUBSET ActivePhotos(u)
    BY <1>1, <1>6 DEF ActivePhotos
  <2> QED
    BY <1>4, <2>1
<1>7. CASE /\ pc[s] = "insert" /\ (InsertPhoto(s) \/ InsertFails(s))
           /\ gallery' = [gallery EXCEPT ![object[s]] = who[s]]
  <2>1. PICK w \in User : w = who[s]
    BY <1>1, <1>7 DEF Named
  <2>2. /\ object[s] \in Object
        /\ Cardinality(ActivePhotos(w)) < PhotoLimit
    BY <1>1, <1>2, <1>7, <2>1 DEF Named, Uploads
  <2>3. /\ \A u \in User \ {w} : ActivePhotos(u)' \in SUBSET ActivePhotos(u)
        /\ ActivePhotos(w)' \in SUBSET (ActivePhotos(w) \cup {object[s]})
    BY <1>1, <1>7, <2>1, <2>2 DEF ActivePhotos
  <2>4. \A u \in User \ {w} : /\ Cardinality(ActivePhotos(u)') \in Nat
                              /\ Cardinality(ActivePhotos(u)') <= Cardinality(ActivePhotos(u))
    BY <1>2, <2>3, PhotoSets
  <2>5. Cardinality(ActivePhotos(w)') \in Nat /\ Cardinality(ActivePhotos(w)') <= PhotoLimit
    <3>1. PICK more \in SUBSET Object : more = ActivePhotos(w) \cup {object[s]}
      BY <1>2, <2>2
    <3>2. Cardinality(more) \in Nat /\ Cardinality(more) <= Cardinality(ActivePhotos(w)) + 1
      BY <1>2, <2>2, <3>1, PhotoSets
    <3>3. ActivePhotos(w)' \in SUBSET more /\ ActivePhotos(w)' \in SUBSET Object
      BY <2>3, <3>1
    <3>4. Cardinality(ActivePhotos(w)') \in Nat /\ Cardinality(ActivePhotos(w)') <= Cardinality(more)
      BY <3>3, PhotoSets
    <3> QED
      BY <1>1, <1>2, <2>2, <3>2, <3>4
  <2>6. PhotoLimitHolds'
    BY <1>1, <1>2, <2>4, <2>5 DEF PhotoLimitHolds
  <2>7. ASSUME NEW t \in Session, Uploads(t)' PROVE HasRoom(who[t])'
    <3>1. /\ who'[t] \in User /\ t # s
          /\ Cardinality(ActivePhotos(who'[t])) < PhotoLimit
      BY <1>3, <1>7, <2>7
    <3>2. who'[t] = who[t] /\ Uploads(t)
      BY <1>1, <2>7, <3>1 DEF Moves, GoesTo, Uploads
    <3>3. who'[t] # w
      BY <1>1, <1>7, <2>1, <3>1, <3>2 DEF Holder, Uploads
    <3> QED
      BY <1>1, <1>2, <2>4, <3>1, <3>3 DEF HasRoom
  <2> QED
    BY <2>6, <2>7
<1> QED
  BY <1>5, <1>6, <1>7, GalleryMoves

(* A participant never has more active photos of an event than the limit,  *)
(* however many uploads count them at once: the count and the INSERT are   *)
(* under one lock of the experience (repository/experience.py:232).        *)
THEOREM LimitOfPhotos == Spec => []PhotoLimitHolds
<1>1. Init => RoomInv
  <2>1. ASSUME Init, NEW u \in User PROVE Cardinality(ActivePhotos(u)) <= PhotoLimit
    <3>1. ActivePhotos(u) = {}
      BY <2>1, MediaAssumption DEF Init, ActivePhotos
    <3> QED
      BY <3>1, FS_EmptySet, PhotoSets
  <2>2. ASSUME Init, NEW s \in Session PROVE ~Uploads(s)
    BY <2>2 DEF Init, Uploads
  <2> QED
    BY <2>1, <2>2, InitWorkInv DEF RoomInv, PhotoLimitHolds
<1>2. RoomInv /\ [Next]_vars => RoomInv'
  <2> SUFFICES ASSUME RoomInv, [Next]_vars PROVE RoomInv'
    OBVIOUS
  <2>1. WorkInv'
    BY NextKeepsWorkInv DEF RoomInv
  <2>2. CASE \E s \in Session : Steps(s)
    BY <2>1, <2>2, RoomStep DEF RoomInv
  <2>3. CASE Around \/ UNCHANGED vars
    <3>1. UNCHANGED <<gallery, pc, who>>
      BY <2>3 DEF Around, CreateExperience, UpdateDescription, Leave, End, vars, rows, work
    <3> QED
      BY <2>1, <3>1 DEF RoomInv, PhotoLimitHolds, HasRoom, ActivePhotos, Uploads
  <2> QED
    BY <2>2, <2>3, NextIsASessionsOrAround
<1>3. RoomInv => PhotoLimitHolds
  BY DEF RoomInv
<1> QED
  BY <1>1, <1>2, <1>3, PTL DEF Spec

-----------------------------------------------------------------------------
(* What is on show exists                                                  *)

(* A new object is one request's alone, on show nowhere and no cover; what *)
(* is to be unlisted is nobody's profile photo; an object that is to be    *)
(* dropped is off show, but for the photos the property excepts; and a     *)
(* profile photo is one profile's alone.                                   *)
New(s) == pc[s] \in {"insert", "set"}
Busy(s) == pc[s] \in {"insert", "set", "unlist", "drop", "change cover"}

Apart(s) ==
  /\ New(s) => /\ object[s] \in stored /\ gallery[object[s]] = None /\ cover # object[s]
               /\ \A t \in Session \ {s} : Busy(t) => object[t] # object[s]
  /\ Busy(s) => object[s] \in minted \cup {None}
  /\ New(s) \/ pc[s] = "unlist" => \A u \in User : profile[u] # object[s]
  /\ pc[s] = "drop" => object[s] \notin Shown \/ object[s] \in doubtful \cup retired

OneProfileEach ==
  \A u \in User : profile[u] # None =>
    gallery[profile[u]] = None /\ \A v \in User \ {u} : profile[v] # profile[u]

NamedMinted ==
  /\ cover \in minted \cup {None}
  /\ \A p \in Object : gallery[p] # None => p \in minted
  /\ \A u \in User : profile[u] \in minted \cup {None}

ShownRest ==
  ShownPhotosExist /\ OneProfileEach /\ NamedMinted /\ \A s \in Session : Apart(s)

ShownInv == WorkInv /\ ShownRest

LEMMA ShownTypes ==
  ASSUME WorkInv
  PROVE  /\ None \notin Object /\ None \notin User
         /\ gallery \in [Object -> User \cup {None}] /\ profile \in [User -> Object \cup {None}]
         /\ stored \subseteq minted /\ minted \subseteq Object
         /\ cover \in Object \cup {None}
         /\ \A s \in Session : Named(s) /\ object[s] \in Object \cup {None}
BY MediaAssumption DEF WorkInv, TypeOK

(* A step that only moves the work of a session to a call that needs no    *)
(* object, or to drop a new one.                                           *)
LEMMA ShownByWork ==
  ASSUME ShownInv, NEW s \in Session,
         gallery' = gallery, profile' = profile, stored' = stored, minted' = minted,
         doubtful' = doubtful, retired' = retired, cover' = cover,
         \A t \in Session \ {s} : pc'[t] = pc[t] /\ object'[t] = object[t],
         ~Busy(s)' \/ (pc[s] = "set" /\ pc'[s] = "drop" /\ object'[s] = object[s])
  PROVE  ShownRest'
<1>1. Shown' = Shown
  BY DEF Shown
<1>2. ShownPhotosExist' /\ OneProfileEach' /\ NamedMinted'
  BY <1>1 DEF ShownInv, ShownRest, ShownPhotosExist, OneProfileEach, NamedMinted
<1>3. ASSUME NEW t \in Session PROVE Apart(t)'
  <2>1. Apart(t) /\ Apart(s)
    BY DEF ShownInv, ShownRest
  <2>2. CASE t = s
    <3>1. CASE ~Busy(s)'
      BY <2>2, <3>1 DEF Apart, New, Busy
    <3>2. CASE pc[s] = "set" /\ pc'[s] = "drop" /\ object'[s] = object[s]
      <4>1. object[s] \in minted \cup {None} /\ gallery[object[s]] = None
            /\ \A u \in User : profile[u] # object[s]
        BY <2>1, <3>2 DEF Apart, New, Busy
      <4>2. object[s] \notin Shown
        BY <4>1 DEF Shown
      <4> QED
        BY <1>1, <2>2, <3>2, <4>1, <4>2 DEF Apart, New, Busy
    <3> QED
      BY <3>1, <3>2
  <2>3. CASE t # s
    <3>1. /\ pc'[t] = pc[t] /\ object'[t] = object[t]
          /\ \A q \in Session : Busy(q)' => Busy(q) /\ object'[q] = object[q]
      BY <2>3 DEF Busy
    <3> QED
      BY <1>1, <2>1, <2>3, <3>1 DEF Apart, New, Busy
  <2> QED
    BY <2>2, <2>3
<1> QED
  BY <1>2, <1>3 DEF ShownRest

LEMMA ShownStep ==
  ASSUME ShownInv, NEW s \in Session, Moves(s)
  PROVE  ShownRest'
<1>1. /\ None \notin Object /\ None \notin User
      /\ gallery \in [Object -> User \cup {None}] /\ profile \in [User -> Object \cup {None}]
      /\ stored \subseteq minted /\ minted \subseteq Object /\ cover \in Object \cup {None}
      /\ \A t \in Session : Named(t) /\ Apart(t) /\ object[t] \in Object \cup {None}
      /\ ShownPhotosExist /\ OneProfileEach /\ NamedMinted
      /\ \A p \in Object : gallery[p] # None => p \in minted
  BY ShownTypes DEF ShownInv, ShownRest, NamedMinted
<1>2. CASE \E u \in User :
             \/ RequestPhoto(s, u) /\ GoesTo(s, "upload photo", u, None)
             \/ RequestProfilePhoto(s, u) /\ GoesTo(s, "upload profile", u, None)
             \/ RequestCover(s, u) /\ GoesTo(s, "upload cover", None, None)
             \/ RequestErase(s, u) /\ GoesTo(s, "erase", u, profile[u])
  BY <1>2, ShownByWork DEF RequestPhoto, RequestProfilePhoto, RequestCover, RequestErase,
     GoesTo, Busy, rows
<1>3. CASE \/ DropFails(s) /\ GoesTo(s, "idle", None, None)
           \/ Crash(s) /\ GoesTo(s, "idle", None, None)
  BY <1>3, ShownByWork DEF DropFails, Crash, GoesTo, Busy, rows
<1>4. ASSUME NEW u \in User, NEW p \in Object,
             RequestRemoval(s, u, p), pc[s] = "idle", GoesTo(s, "unlist", None, p)
      PROVE  ShownRest'
  <2>1. /\ gallery[p] # None
        /\ UNCHANGED <<gallery, profile, cover, stored, minted, doubtful, retired>>
    BY <1>4 DEF RequestRemoval, rows
  <2>2. p \in minted /\ \A v \in User : profile[v] # p
    BY <1>1, <2>1 DEF OneProfileEach
  <2>3. Shown' = Shown
    BY <2>1 DEF Shown
  <2>4. ASSUME NEW t \in Session PROVE Apart(t)'
    <3>1. CASE t = s
      BY <1>4, <2>1, <2>2, <3>1 DEF Apart, New, Busy, GoesTo
    <3>2. CASE t # s
      <4>1. pc'[t] = pc[t] /\ object'[t] = object[t] /\ Apart(t) /\ (New(t) => object[t] # p)
        BY <1>1, <1>4, <2>1, <3>2 DEF GoesTo, Apart
      <4> QED
        BY <1>4, <2>1, <2>3, <3>2, <4>1 DEF Apart, New, Busy, GoesTo
    <3> QED
      BY <3>1, <3>2
  <2> QED
    BY <1>1, <2>1, <2>3, <2>4 DEF ShownRest, ShownPhotosExist, OneProfileEach, NamedMinted
<1>5. ASSUME NEW p \in Object, Upload(s, p) \/ UploadFails(s, p),
             \/ GoesTo(s, "idle", None, None)
             \/ Upload(s, p) /\ GoesTo(s, "insert", who[s], p)
             \/ Upload(s, p) /\ GoesTo(s, "set", who[s], p)
      PROVE  ShownRest'
  <2>1. /\ UNCHANGED <<gallery, profile, cover, doubtful, retired>> /\ p \notin minted
        /\ minted' = minted \cup {p} /\ stored' \in {stored, stored \cup {p}}
        /\ Upload(s, p) => stored' = stored \cup {p}
    BY <1>5 DEF Upload, UploadFails, rows
  <2>2. gallery[p] = None /\ cover # p /\ \A v \in User : profile[v] # p
    BY <1>1, <2>1 DEF NamedMinted
  <2>3. Shown' = Shown
    BY <2>1 DEF Shown
  <2>4. ASSUME NEW t \in Session PROVE Apart(t)'
    <3>1. CASE t = s
      <4>1. \A q \in Session \ {s} : Busy(q)' => Busy(q) /\ object'[q] # p
        <5>1. ASSUME NEW q \in Session \ {s}, Busy(q)' PROVE Busy(q) /\ object'[q] # p
          <6>1. pc'[q] = pc[q] /\ object'[q] = object[q] /\ Apart(q)
            BY <1>1, <1>5 DEF GoesTo
          <6>2. Busy(q)
            BY <5>1, <6>1 DEF Busy
          <6>3. object[q] \in minted \cup {None}
            BY <6>1, <6>2 DEF Apart
          <6> QED
            BY <1>1, <2>1, <6>1, <6>2, <6>3
        <5> QED
          BY <5>1
      <4>2. \/ ~Busy(s)'
            \/ Upload(s, p) /\ object'[s] = p /\ pc'[s] \in {"insert", "set"}
        BY <1>5 DEF Busy, GoesTo
      <4>3. CASE ~Busy(s)'
        BY <3>1, <4>3 DEF Apart, New, Busy
      <4>4. CASE Upload(s, p) /\ object'[s] = p /\ pc'[s] \in {"insert", "set"}
        <5>1. p \in stored' /\ p \in minted' /\ UNCHANGED <<gallery, profile, cover>>
          BY <2>1, <4>4
        <5> QED
          BY <2>2, <3>1, <4>1, <4>4, <5>1 DEF Apart, New, Busy
      <4> QED
        BY <4>2, <4>3, <4>4
    <3>2. CASE t # s
      <4>1. /\ pc'[t] = pc[t] /\ object'[t] = object[t] /\ Apart(t)
            /\ New(t) => object[t] # p
        BY <1>1, <1>5, <2>1, <3>2 DEF GoesTo, Apart, New
      <4>2. \A q \in Session \ {s} : pc'[q] = pc[q] /\ object'[q] = object[q]
        BY <1>5 DEF GoesTo
      <4>3. Busy(s)' => object'[s] = p
        BY <1>5 DEF GoesTo, Busy
      <4> QED
        BY <2>1, <2>3, <3>2, <4>1, <4>2, <4>3 DEF Apart, New, Busy
    <3> QED
      BY <3>1, <3>2
  <2> QED
    BY <1>1, <2>1, <2>3, <2>4 DEF ShownRest, ShownPhotosExist, OneProfileEach, NamedMinted
<1>6. ASSUME pc[s] = "insert", UNCHANGED <<profile, cover, stored, minted, retired>>,
             \/ gallery' = gallery /\ doubtful' = doubtful
             \/ gallery' = [gallery EXCEPT ![object[s]] = who[s]]
                  /\ GoesTo(s, "idle", None, None) /\ doubtful' = doubtful
             \/ gallery' = [gallery EXCEPT ![object[s]] = who[s]]
                  /\ doubtful' = doubtful \cup {object[s]},
             GoesTo(s, "idle", None, None) \/ GoesTo(s, "drop", None, object[s])
      PROVE  ShownRest'
  <2>1. /\ object[s] \in Object /\ object[s] \in stored /\ \A v \in User : profile[v] # object[s]
        /\ gallery[object[s]] = None
        /\ \A t \in Session \ {s} : Busy(t) => object[t] # object[s]
    BY <1>1, <1>6 DEF Named, Apart, New
  <2>2. \A q \in Object \ {object[s]} : gallery'[q] = gallery[q]
    BY <1>1, <1>6
  <2>3. ASSUME NEW t \in Session PROVE Apart(t)'
    <3>1. CASE t = s
      <4>1. /\ ~New(t)' /\ minted' = minted /\ object[s] \in minted /\ pc'[t] # "unlist"
            /\ Busy(t)' => pc'[t] = "drop" /\ object'[t] = object[s]
        BY <1>1, <1>6, <2>1, <3>1 DEF New, Busy, GoesTo
      <4>2. Busy(t)' => gallery'[object[s]] = None \/ object[s] \in doubtful'
        BY <1>1, <1>6, <2>1, <3>1 DEF Busy, GoesTo
      <4>3. pc'[t] = "drop" => object'[t] \notin Shown' \/ object'[t] \in doubtful' \cup retired'
        BY <1>6, <2>1, <3>1, <4>1, <4>2 DEF Shown, Busy
      <4>4. object'[t] \in {None, object[s]}
        BY <1>6, <3>1 DEF GoesTo
      <4> QED
        BY <1>6, <4>1, <4>3, <4>4 DEF Apart, Busy
    <3>2. CASE t # s
      <4>1. /\ pc'[t] = pc[t] /\ object'[t] = object[t] /\ Apart(t) /\ Named(t)
            /\ \A r \in Session \ {t} : Busy(r)' => Busy(r) /\ object'[r] = object[r]
        BY <1>1, <1>6, <3>2 DEF GoesTo, Busy
      <4>2. New(t) \/ pc[t] = "drop" => gallery'[object[t]] = gallery[object[t]]
        BY <2>1, <2>2, <3>2, <4>1 DEF New, Busy, Named
      <4>3. doubtful \subseteq doubtful' /\ UNCHANGED <<profile, cover, stored, minted, retired>>
        BY <1>6
      <4>4. pc[t] = "drop" /\ object[t] \notin Shown => object'[t] \notin Shown'
        BY <4>1, <4>2, <4>3 DEF Shown
      <4> QED
        BY <4>1, <4>2, <4>3, <4>4 DEF Apart, New, Busy
    <3> QED
      BY <3>1, <3>2
  <2>4. ShownPhotosExist' /\ OneProfileEach'
    <3>1. Shown' \subseteq Shown \cup {object[s]}
      BY <1>6, <2>1, <2>2 DEF Shown
    <3>2. OneProfileEach'
      BY <1>1, <1>6, <2>1, <2>2 DEF OneProfileEach
    <3> QED
      BY <1>1, <1>6, <2>1, <3>1, <3>2 DEF ShownPhotosExist
  <2>5. NamedMinted'
    BY <1>1, <1>6, <2>1, <2>2 DEF NamedMinted
  <2> QED
    BY <2>3, <2>4, <2>5 DEF ShownRest
<1>7. ASSUME UnlistPhoto(s),
             \/ gallery[object[s]] = None /\ GoesTo(s, "idle", None, None)
             \/ gallery[object[s]] # None /\ GoesTo(s, "drop", None, object[s])
      PROVE  ShownRest'
  <2>1. /\ pc[s] = "unlist" /\ UNCHANGED <<profile, cover, stored, minted, doubtful, retired>>
        /\ object[s] \in Object /\ object[s] \in minted
        /\ \A v \in User : profile[v] # object[s]
        /\ gallery'[object[s]] = None
        /\ \A q \in Object \ {object[s]} : gallery'[q] = gallery[q]
    BY <1>1, <1>7 DEF UnlistPhoto, Named, Apart, Busy
  <2>2. ASSUME NEW t \in Session PROVE Apart(t)'
    <3>1. CASE t = s
      <4>1. object[s] \notin Shown'
        BY <2>1 DEF Shown
      <4> QED
        BY <1>7, <2>1, <3>1, <4>1 DEF Apart, New, Busy, GoesTo
    <3>2. CASE t # s
      <4>1. /\ pc'[t] = pc[t] /\ object'[t] = object[t] /\ Apart(t) /\ Named(t)
            /\ \A q \in Session \ {t} : Busy(q)' => Busy(q) /\ object'[q] = object[q]
        BY <1>1, <1>7, <2>1, <3>2 DEF GoesTo, Busy
      <4>2. New(t) \/ pc[t] = "drop" => gallery'[object[t]] \in {gallery[object[t]], None}
        BY <2>1, <4>1 DEF New, Named
      <4>3. pc[t] = "drop" /\ object[t] \notin Shown => object'[t] \notin Shown'
        BY <2>1, <4>1, <4>2 DEF Shown
      <4> QED
        BY <2>1, <4>1, <4>2, <4>3 DEF Apart, New, Busy
    <3> QED
      BY <3>1, <3>2
  <2>3. ShownPhotosExist' /\ OneProfileEach'
    <3>1. Shown' \subseteq Shown
      BY <2>1 DEF Shown
    <3> QED
      BY <1>1, <2>1, <3>1 DEF ShownPhotosExist, OneProfileEach
  <2>4. NamedMinted'
    BY <1>1, <2>1 DEF NamedMinted
  <2> QED
    BY <2>2, <2>3, <2>4 DEF ShownRest
<1>8. ASSUME DropObject(s), GoesTo(s, "idle", None, None) PROVE ShownRest'
  <2>1. /\ pc[s] = "drop" /\ UNCHANGED <<gallery, profile, cover, minted, doubtful, retired>>
        /\ stored' = stored \ {object[s]} /\ object[s] \in Object
        /\ object[s] \notin Shown \/ object[s] \in doubtful \cup retired
    BY <1>1, <1>8 DEF DropObject, Named, Apart, rows
  <2>2. ASSUME NEW t \in Session PROVE Apart(t)'
    <3>1. t = s \/ (pc'[t] = pc[t] /\ object'[t] = object[t])
      BY <1>8 DEF GoesTo
    <3>2. CASE t = s
      BY <1>8, <3>2 DEF Apart, New, Busy, GoesTo
    <3>3. CASE t # s
      <4>1. \A q \in Session \ {t} : Busy(q)' => Busy(q) /\ object'[q] = object[q]
        BY <1>8 DEF Busy, GoesTo
      <4>2. New(t) => object[t] # object[s]
        BY <1>1, <2>1, <3>3 DEF Apart, Busy
      <4>3. Shown' = Shown
        BY <2>1 DEF Shown
      <4> QED
        BY <1>1, <2>1, <3>1, <3>3, <4>1, <4>2, <4>3 DEF Apart, New, Busy
    <3> QED
      BY <3>2, <3>3
  <2>3. ShownPhotosExist' /\ OneProfileEach' /\ NamedMinted'
    BY <1>1, <2>1 DEF ShownPhotosExist, OneProfileEach, Shown, NamedMinted
  <2> QED
    BY <2>2, <2>3 DEF ShownRest
<1>9. ASSUME pc[s] = "set", who[s] \in User, profile' = [profile EXCEPT ![who[s]] = object[s]],
             UNCHANGED <<gallery, cover, stored, minted, retired>>, doubtful \subseteq doubtful',
             \A t \in Session \ {s} : pc'[t] = pc[t] /\ object'[t] = object[t],
             pc'[s] \in {"idle", "drop"},
             pc'[s] = "drop" =>
               \/ (object'[s] = profile[who[s]] /\ object'[s] \in Object)
               \/ (object'[s] = object[s] /\ object[s] \in doubtful')
      PROVE  ShownRest'
  <2>1. /\ object[s] \in Object /\ object[s] \in stored
        /\ \A v \in User : profile[v] # object[s]
        /\ gallery[object[s]] = None
        /\ \A t \in Session \ {s} : Busy(t) => object[t] # object[s]
    BY <1>1, <1>9 DEF Named, Apart, New
  <2>2. profile'[who[s]] = object[s] /\ \A v \in User \ {who[s]} : profile'[v] = profile[v]
    BY <1>1, <1>9
  <2>3. ShownPhotosExist' /\ OneProfileEach' /\ NamedMinted'
    <3>1. Shown' \subseteq Shown \cup {object[s]}
      BY <1>9, <2>2 DEF Shown
    <3>2. ShownPhotosExist' /\ NamedMinted'
      BY <1>1, <1>9, <2>1, <2>2, <3>1 DEF ShownPhotosExist, NamedMinted
    <3>3. OneProfileEach'
      BY <1>1, <1>9, <2>1, <2>2 DEF OneProfileEach
    <3> QED
      BY <3>2, <3>3
  <2>4. ASSUME NEW t \in Session \ {s} PROVE Apart(t)'
    <3>1. pc'[t] = pc[t] /\ object'[t] = object[t] /\ Apart(t)
      BY <1>1, <1>9
    <3>2. New(t) => (Busy(s)' => object'[s] # object[t])
      BY <1>1, <1>9, <2>1, <3>1 DEF New, Busy, Apart
    <3>3. Busy(t) => \A v \in User : profile'[v] = profile[v] \/ profile'[v] # object[t]
      BY <2>1, <2>2
    <3>4. pc[t] = "drop" /\ object[t] \notin Shown => object'[t] \notin Shown'
      BY <1>9, <3>3 DEF Shown, Busy
    <3>5. \A q \in Session \ {s} : pc'[q] = pc[q] /\ object'[q] = object[q]
      BY <1>9
    <3> QED
      BY <1>9, <3>1, <3>2, <3>3, <3>4, <3>5 DEF Apart, New, Busy
  <2>5. Apart(s)'
    <3>1. CASE pc'[s] = "idle"
      BY <3>1 DEF Apart, New, Busy
    <3>2. CASE pc'[s] = "drop" /\ object'[s] = object[s] /\ object[s] \in doubtful'
      BY <1>1, <1>9, <2>1, <3>2 DEF Apart, New, Busy
    <3>3. CASE pc'[s] = "drop" /\ object'[s] = profile[who[s]] /\ object'[s] \in Object
      <4>1. /\ gallery[profile[who[s]]] = None
            /\ \A v \in User \ {who[s]} : profile[v] # profile[who[s]]
            /\ profile[who[s]] # object[s] /\ profile[who[s]] \in minted
        BY <1>1, <1>9, <2>1, <3>3 DEF OneProfileEach, NamedMinted
      <4>2. object'[s] \notin Shown'
        BY <1>9, <2>2, <3>3, <4>1 DEF Shown
      <4> QED
        BY <1>9, <3>3, <4>1, <4>2 DEF Apart, New, Busy
    <3> QED
      BY <1>9, <3>1, <3>2, <3>3
  <2> QED
    BY <2>3, <2>4, <2>5 DEF ShownRest
<1>10. ASSUME SetProfilePhoto(s),
              \/ Replaced(s) = None /\ GoesTo(s, "idle", None, None)
              \/ Replaced(s) \in Object /\ GoesTo(s, "drop", None, Replaced(s))
       PROVE  ShownRest'
  <2>1. /\ pc[s] = "set" /\ UNCHANGED <<gallery, cover, stored, minted, doubtful, retired>>
        /\ object[s] \in Object /\ who[s] \in User
    BY <1>1, <1>10 DEF SetProfilePhoto, Named
  <2>2. CASE who[s] \in deleted
    <3>1. profile' = profile /\ Replaced(s) = object[s]
      BY <1>10, <2>2 DEF SetProfilePhoto, Replaced
    <3>2. GoesTo(s, "drop", None, object[s])
      BY <1>1, <1>10, <2>1, <3>1
    <3> QED
      BY <2>1, <3>1, <3>2, ShownByWork DEF GoesTo
  <2>3. CASE who[s] \notin deleted
    <3>1. Replaced(s) = profile[who[s]] /\ profile' = [profile EXCEPT ![who[s]] = object[s]]
      BY <1>10, <2>3 DEF SetProfilePhoto, Replaced
    <3> QED
      BY <1>1, <1>9, <1>10, <2>1, <3>1 DEF GoesTo
  <2> QED
    BY <2>2, <2>3
<1>11. ASSUME SetFails(s), GoesTo(s, "drop", None, object[s]) PROVE ShownRest'
  <2>1. pc[s] = "set" /\ who[s] \in User /\ UNCHANGED <<gallery, cover, stored, minted, retired>>
    BY <1>1, <1>11 DEF SetFails, Named
  <2>2. CASE UNCHANGED <<profile, excused, doubtful>>
    BY <1>11, <2>1, <2>2, ShownByWork DEF GoesTo
  <2>3. CASE ~UNCHANGED <<profile, excused, doubtful>>
    <3>1. /\ profile' = [profile EXCEPT ![who[s]] = object[s]]
          /\ doubtful' = doubtful \cup {object[s]}
      BY <1>11, <2>3 DEF SetFails
    <3> QED
      BY <1>9, <1>11, <2>1, <3>1 DEF GoesTo
  <2> QED
    BY <2>2, <2>3
<1>12. ASSUME Erase(s), GoesTo(s, "idle", None, None) PROVE ShownRest'
  <2>1. /\ pc[s] = "erase"
        /\ UNCHANGED <<gallery, cover, stored, minted, doubtful, retired>>
        /\ who[s] \in User
        /\ \A v \in User : profile'[v] \in {profile[v], None}
    BY <1>1, <1>12 DEF Erase, Named
  <2>2. ASSUME NEW t \in Session PROVE Apart(t)'
    <3>1. \A r \in Session : Busy(r)' => Busy(r) /\ pc'[r] = pc[r] /\ object'[r] = object[r]
      BY <1>12 DEF Busy, GoesTo
    <3>2. (New(t) \/ pc[t] = "unlist")' => \A v \in User : profile'[v] # object'[t]
      <4>1. CASE New(t)' \/ pc'[t] = "unlist"
        <5>1. /\ pc'[t] = pc[t] /\ object'[t] = object[t] /\ object[t] # None
              /\ \A v \in User : profile[v] # object[t]
          BY <1>1, <3>1, <4>1 DEF Apart, New, Busy, Named
        <5> QED
          BY <2>1, <5>1
      <4> QED
        BY <4>1
    <3>3. pc'[t] = "drop" /\ object[t] \notin Shown => object'[t] \notin Shown'
      <4>1. Shown' \subseteq Shown
        BY <1>1, <2>1 DEF Shown
      <4> QED
        BY <3>1, <4>1 DEF Busy
    <3>4. Apart(t)
      BY <1>1
    <3> QED
      BY <2>1, <3>1, <3>2, <3>3, <3>4 DEF Apart, New, Busy
  <2>3. ShownPhotosExist' /\ OneProfileEach' /\ NamedMinted'
    <3>1. Shown' \subseteq Shown
      BY <1>1, <2>1 DEF Shown
    <3> QED
      BY <1>1, <2>1, <3>1 DEF ShownPhotosExist, OneProfileEach, NamedMinted
  <2> QED
    BY <2>2, <2>3 DEF ShownRest
<1>13. CASE \/ InsertPhoto(s) /\ GoesTo(s, "idle", None, None)
            \/ InsertFails(s) /\ GoesTo(s, "drop", None, object[s])
  BY <1>6, <1>13 DEF InsertPhoto, InsertFails
<1>14. ASSUME RequestCoverChange(s), GoesTo(s, "change cover", None, cover) PROVE ShownRest'
  <2>1. UNCHANGED <<gallery, profile, cover, stored, minted, doubtful, retired>>
    BY <1>14 DEF RequestCoverChange, rows
  <2>2. ASSUME NEW t \in Session PROVE Apart(t)'
    <3>1. CASE t = s
      BY <1>1, <1>14, <2>1, <3>1 DEF Apart, New, Busy, GoesTo, NamedMinted
    <3>2. CASE t # s
      <4>1. Shown' = Shown
        BY <2>1 DEF Shown
      <4>2. pc'[t] = pc[t] /\ object'[t] = object[t] /\ Apart(t)
        BY <1>1, <1>14, <3>2 DEF GoesTo
      <4> QED
        BY <1>14, <2>1, <3>2, <4>1, <4>2 DEF Apart, New, Busy, GoesTo
    <3> QED
      BY <3>1, <3>2
  <2>3. ShownPhotosExist' /\ OneProfileEach' /\ NamedMinted'
    <3>1. Shown' = Shown
      BY <1>1, <2>1 DEF Shown
    <3> QED
      BY <1>1, <2>1, <3>1 DEF ShownPhotosExist, OneProfileEach, NamedMinted
  <2> QED
    BY <2>2, <2>3 DEF ShownRest
<1>15. ASSUME NEW p \in Object \cup {None}, ChangeCover(s, p), pc[s] = "change cover",
              \/ GoesTo(s, "idle", None, None) /\ (p = object[s] \/ object[s] = None)
              \/ GoesTo(s, "drop", None, object[s]) /\ p # object[s] /\ object[s] \in Object
       PROVE  ShownRest'
  <2>1. /\ UNCHANGED <<gallery, profile, stored, minted, doubtful>> /\ cover' \in {cover, p}
        /\ p # None => Nameable(p)
        /\ retired \subseteq retired'
        /\ p # object[s] => retired' = retired \cup ({object[s]} \cap Shown)
    BY <1>15 DEF ChangeCover
  <2>2. /\ p \in minted \cup {None}
        /\ \A t \in Session : New(t) => cover' # object[t]
    BY <1>1, <2>1 DEF Nameable, New, Apart, Named
  <2>3. ShownPhotosExist' /\ OneProfileEach' /\ NamedMinted'
    <3>1. Shown' = Shown
      BY <2>1 DEF Shown
    <3> QED
      BY <1>1, <2>1, <2>2, <3>1 DEF ShownPhotosExist, OneProfileEach, NamedMinted
  <2>4. ASSUME NEW t \in Session \ {s} PROVE Apart(t)'
    <3>1. /\ pc'[t] = pc[t] /\ object'[t] = object[t] /\ Apart(t)
          /\ \A q \in Session : Busy(q)' => Busy(q) /\ object'[q] = object[q]
      BY <1>1, <1>15 DEF GoesTo, Busy
    <3>2. Shown' = Shown
      BY <2>1 DEF Shown
    <3> QED
      BY <2>1, <2>2, <3>1, <3>2 DEF Apart, New, Busy
  <2>5. Apart(s)'
    <3>1. CASE pc'[s] = "idle"
      BY <3>1 DEF Apart, New, Busy
    <3>2. CASE pc'[s] = "drop"
      <4>1. /\ object'[s] = object[s] /\ object[s] \in minted \cup {None}
            /\ retired' = retired \cup ({object[s]} \cap Shown)
        BY <1>1, <1>15, <2>1, <3>2 DEF GoesTo, Apart, Busy
      <4>2. object'[s] \notin Shown' \/ object[s] \in retired'
        BY <2>1, <4>1 DEF Shown
      <4> QED
        BY <2>1, <3>2, <4>1, <4>2 DEF Apart, New, Busy
    <3> QED
      BY <1>15, <3>1, <3>2 DEF GoesTo
  <2> QED
    BY <2>3, <2>4, <2>5 DEF ShownRest
<1> QED
  BY <1>2, <1>3, <1>4, <1>5, <1>7, <1>8, <1>10, <1>11, <1>12, <1>13, <1>14, <1>15 DEF Moves

(* Every photo of the gallery and of a profile has its object, whatever is *)
(* replaced, removed, refused or left half way.  Excepted are a photo whose*)
(* request failed after its commit (services/experience.py:257) and one    *)
(* that was an event's cover until an edit changed it                      *)
(* (services/event.py:331).                                                *)
THEOREM WhatIsShownExists == Spec => []ShownPhotosExist
<1>1. Init => ShownInv
  <2>1. ASSUME Init PROVE ShownRest
    <3>1. Shown = {}
      BY <2>1, MediaAssumption DEF Init, Shown
    <3> QED
      BY <2>1, <3>1 DEF Init, ShownRest, ShownPhotosExist, OneProfileEach, NamedMinted, Apart,
         New, Busy
  <2> QED
    BY <2>1, InitWorkInv DEF ShownInv
<1>2. ShownInv /\ [Next]_vars => ShownInv'
  <2> SUFFICES ASSUME ShownInv, [Next]_vars PROVE ShownInv'
    OBVIOUS
  <2>1. WorkInv'
    BY NextKeepsWorkInv DEF ShownInv
  <2>2. CASE \E s \in Session : Steps(s)
    <3>1. PICK s \in Session : Steps(s)
      BY <2>2
    <3>2. ShownRest'
      BY <3>1, SessionMoves, ShownStep DEF ShownInv
    <3> QED
      BY <2>1, <3>2 DEF ShownInv
  <2>3. CASE Around \/ UNCHANGED vars
    <3>1. UNCHANGED <<gallery, profile, cover, stored, minted, doubtful, retired, pc, object>>
      BY <2>3 DEF Around, CreateExperience, UpdateDescription, Leave, End, vars, rows, work
    <3> QED
      BY <2>1, <3>1 DEF ShownInv, ShownRest, ShownPhotosExist, OneProfileEach, NamedMinted,
         Apart, New, Busy, Shown
  <2> QED
    BY <2>2, <2>3, NextIsASessionsOrAround
<1>3. ShownInv => ShownPhotosExist
  BY DEF ShownInv, ShownRest
<1> QED
  BY <1>1, <1>2, <1>3, PTL DEF Spec

-----------------------------------------------------------------------------
(* What nothing shows is gone                                              *)

(* Someone is about to put object p on show, or to delete it.              *)
Holding(s, p) == pc[s] \in {"insert", "set", "drop"} /\ object[s] = p

Accounted(p) ==
  \/ gallery[p] # None
  \/ \E u \in User : profile[u] = p
  \/ cover = p
  \/ \E s \in Session : Holding(s, p)

LeakInv == WorkInv /\ \A p \in stored \ excused : Accounted(p)

(* Whatever a step takes off show or gives up is held, excused or gone.    *)
LEMMA LeakStep ==
  ASSUME LeakInv, NEW s \in Session, Moves(s),
         NEW p \in stored' \ excused'
  PROVE  Accounted(p)'
<1>1. /\ None \notin Object /\ None \notin User
      /\ gallery \in [Object -> User \cup {None}] /\ profile \in [User -> Object \cup {None}]
      /\ stored \subseteq minted /\ minted \subseteq Object
      /\ \A t \in Session : Named(t)
      /\ \A q \in stored \ excused : Accounted(q)
  BY ShownTypes DEF LeakInv
<1>2. \A t \in Session \ {s} : Holding(t, p) => Holding(t, p)'
  BY DEF Moves, GoesTo, Holding
<1>3. ASSUME Accounted(p),
             gallery[p] # None => gallery'[p] # None \/ Holding(s, p)',
             \A u \in User : profile[u] = p => profile'[u] = p \/ Holding(s, p)',
             cover = p => cover' = p \/ Holding(s, p)',
             Holding(s, p) => \/ Holding(s, p)' \/ gallery'[p] # None
                              \/ \E u \in User : profile'[u] = p
      PROVE  Accounted(p)'
  BY <1>2, <1>3 DEF Accounted
<1>4. CASE \/ \E u \in User :
                \/ RequestPhoto(s, u) \/ RequestProfilePhoto(s, u) \/ RequestCover(s, u)
                \/ RequestErase(s, u) \/ \E q \in Object : RequestRemoval(s, u, q)
           \/ RequestCoverChange(s)
  <2>1. pc[s] = "idle" /\ UNCHANGED <<gallery, profile, cover, stored, excused>>
    BY <1>4 DEF RequestPhoto, RequestProfilePhoto, RequestCover, RequestErase, RequestRemoval,
       RequestCoverChange, Begin, rows
  <2> QED
    BY <1>1, <1>3, <2>1 DEF Holding
<1>5. ASSUME NEW q \in Object, Upload(s, q) \/ UploadFails(s, q),
             \/ pc[s] = "upload cover"
             \/ UploadFails(s, q)
             \/ GoesTo(s, "insert", who[s], q)
             \/ GoesTo(s, "set", who[s], q)
      PROVE  Accounted(p)'
  <2>1. /\ UNCHANGED <<gallery, profile, cover>> /\ pc[s] \in {"upload photo", "upload profile", "upload cover"}
        /\ stored' \subseteq stored \cup {q} /\ excused \subseteq excused'
        /\ (pc[s] = "upload cover" \/ UploadFails(s, q)) => q \in excused'
    BY <1>5 DEF Upload, UploadFails, rows
  <2>2. CASE p = q
    BY <1>5, <2>1, <2>2 DEF Accounted, Holding, GoesTo
  <2>3. CASE p # q
    BY <1>1, <1>3, <2>1, <2>3 DEF Holding
  <2> QED
    BY <2>2, <2>3
<1>6. CASE \/ InsertPhoto(s)
           \/ InsertFails(s) /\ GoesTo(s, "drop", None, object[s])
  <2>1. /\ object[s] \in Object /\ who[s] \in User /\ pc[s] = "insert"
        /\ UNCHANGED <<profile, cover, stored, excused>>
    BY <1>1, <1>6 DEF InsertPhoto, InsertFails, Named
  <2>2. gallery[p] # None => gallery'[p] # None
    BY <1>1, <1>6, <2>1 DEF InsertPhoto, InsertFails
  <2>3. Holding(s, p) => Holding(s, p)' \/ gallery'[p] # None
    BY <1>1, <1>6, <2>1 DEF InsertPhoto, InsertFails, Holding, GoesTo
  <2> QED
    BY <1>1, <1>3, <2>1, <2>2, <2>3
<1>7. ASSUME UnlistPhoto(s),
             \/ gallery[object[s]] = None
             \/ GoesTo(s, "drop", None, object[s])
      PROVE  Accounted(p)'
  <2>1. pc[s] = "unlist" /\ object[s] \in Object /\ UNCHANGED <<profile, cover, stored, excused>>
    BY <1>1, <1>7 DEF UnlistPhoto, Named
  <2>2. gallery[p] # None => gallery'[p] # None \/ Holding(s, p)'
    BY <1>1, <1>7, <2>1 DEF UnlistPhoto, Holding, GoesTo
  <2> QED
    BY <1>1, <1>3, <2>1, <2>2 DEF Holding
<1>8. CASE DropObject(s) \/ DropFails(s) \/ Crash(s)
  <2>1. /\ UNCHANGED <<gallery, profile, cover>> /\ p \in stored \ excused
        /\ ~Holding(s, p)
    BY <1>8 DEF DropObject, DropFails, Crash, Holding, rows
  <2> QED
    BY <1>1, <1>3, <2>1
<1>9. ASSUME SetProfilePhoto(s),
             \/ Replaced(s) = None
             \/ GoesTo(s, "drop", None, Replaced(s))
      PROVE  Accounted(p)'
  <2>1. /\ pc[s] = "set" /\ UNCHANGED <<gallery, cover, stored, excused>>
        /\ object[s] \in Object /\ who[s] \in User /\ p # None
    BY <1>1, <1>9 DEF SetProfilePhoto, Named
  <2>2. CASE who[s] \in deleted
    BY <1>1, <1>3, <1>9, <2>1, <2>2 DEF SetProfilePhoto, Replaced, Holding, GoesTo
  <2>3. CASE who[s] \notin deleted
    <3>1. /\ Replaced(s) = profile[who[s]] /\ profile'[who[s]] = object[s]
          /\ \A v \in User \ {who[s]} : profile'[v] = profile[v]
      BY <1>1, <1>9, <2>1, <2>3 DEF SetProfilePhoto, Replaced
    <3>2. profile[who[s]] = p => Holding(s, p)'
      BY <1>9, <2>1, <3>1 DEF Holding, GoesTo
    <3>3. Holding(s, p) => \E u \in User : profile'[u] = p
      BY <2>1, <3>1 DEF Holding
    <3> QED
      BY <1>1, <1>3, <2>1, <3>1, <3>2, <3>3
  <2> QED
    BY <2>2, <2>3
<1>10. CASE SetFails(s) /\ GoesTo(s, "drop", None, object[s])
  <2>1. /\ pc[s] = "set" /\ UNCHANGED <<gallery, cover, stored>> /\ excused \subseteq excused'
        /\ Holding(s, p) => Holding(s, p)'
    BY <1>10 DEF SetFails, Holding, GoesTo
  <2>2. ASSUME NEW u \in User, profile[u] = p PROVE profile'[u] = p
    <3>1. CASE profile' = profile
      BY <2>2, <3>1
    <3>2. CASE /\ profile' = [profile EXCEPT ![who[s]] = object[s]]
               /\ excused' = excused \cup ({profile[who[s]]} \ {None})
      <4>1. p # None /\ who[s] # u
        BY <1>1, <2>1, <2>2, <3>2
      <4> QED
        BY <1>1, <2>2, <3>2, <4>1
    <3> QED
      BY <1>10, <3>1, <3>2 DEF SetFails
  <2> QED
    BY <1>1, <1>3, <2>1, <2>2
<1>11. CASE Erase(s)
  <2>1. /\ pc[s] = "erase" /\ UNCHANGED <<gallery, cover, stored>> /\ who[s] \in User
        /\ p \in stored \ excused /\ p # None
        /\ \A u \in User : profile[u] = p => profile'[u] = p
    BY <1>1, <1>11 DEF Erase, Named
  <2> QED
    BY <1>1, <1>3, <2>1 DEF Holding
<1>12. ASSUME NEW q \in Object \cup {None}, ChangeCover(s, q),
              pc[s] = "change cover",
              \/ q = object[s] \/ object[s] = None
              \/ GoesTo(s, "drop", None, object[s])
       PROVE  Accounted(p)'
  <2>1. UNCHANGED <<gallery, profile, stored>> /\ ~Holding(s, p) /\ p # None
    BY <1>1, <1>12 DEF ChangeCover, Holding
  <2>2. CASE q = object[s]
    <3>1. UNCHANGED <<cover, excused>>
      BY <1>12, <2>2 DEF ChangeCover
    <3> QED
      BY <1>1, <1>3, <2>1, <3>1
  <2>3. CASE q # object[s]
    <3>1. cover' = q /\ excused' = (excused \ {q}) \cup ({cover} \ {None, object[s], q})
      BY <1>12, <2>3 DEF ChangeCover
    <3>2. CASE p = q
      BY <3>1, <3>2 DEF Accounted
    <3>3. CASE p # q
      <4>1. p \in stored \ excused /\ (cover = p => object[s] = p)
        BY <2>1, <3>1, <3>3
      <4>2. object[s] = p => Holding(s, p)'
        BY <1>12, <2>1, <2>3 DEF Holding, GoesTo
      <4> QED
        BY <1>1, <1>3, <2>1, <4>1, <4>2
    <3> QED
      BY <3>2, <3>3
  <2> QED
    BY <2>2, <2>3
<1> QED
  BY <1>4, <1>5, <1>6, <1>7, <1>8, <1>9, <1>10, <1>11, <1>12 DEF Moves

(* Once the requests are done, storage holds nothing that no row names,    *)
(* unless a failure, a crash, a deletion, an unused cover or two edits of  *)
(* the cover at once left it there (services/profile_photo.py:50,          *)
(* services/experience.py:243, services/event.py:331).                     *)
THEOREM StorageIsAccountedFor == Spec => []NothingLeaks
<1>1. Init => LeakInv
  <2>1. Init => stored = {}
    BY DEF Init
  <2> QED
    BY <2>1, InitWorkInv DEF LeakInv
<1>2. LeakInv /\ [Next]_vars => LeakInv'
  <2> SUFFICES ASSUME LeakInv, [Next]_vars PROVE LeakInv'
    OBVIOUS
  <2>1. WorkInv'
    BY NextKeepsWorkInv DEF LeakInv
  <2>2. ASSUME NEW s \in Session, Steps(s) PROVE LeakInv'
    <3>1. Moves(s)
      BY <2>2, SessionMoves DEF LeakInv
    <3> QED
      BY <2>1, <3>1, LeakStep DEF LeakInv
  <2>3. CASE Around \/ UNCHANGED vars
    <3>1. UNCHANGED <<gallery, profile, cover, stored, excused, pc, object>>
      BY <2>3 DEF Around, CreateExperience, UpdateDescription, Leave, End, vars, rows, work
    <3> QED
      BY <2>1, <3>1 DEF LeakInv, Accounted, Holding
  <2> QED
    BY <2>2, <2>3, NextIsASessionsOrAround
<1>3. LeakInv => NothingLeaks
  <2> SUFFICES ASSUME LeakInv, \A s \in Session : pc[s] = "idle", NEW p \in stored \ excused
               PROVE  p \in Shown \cup {cover}
    BY DEF NothingLeaks
  <2>1. Accounted(p) /\ p \in Object
    BY DEF LeakInv, WorkInv, TypeOK
  <2> QED
    BY <2>1 DEF Accounted, Holding, Shown
<1> QED
  BY <1>1, <1>2, <1>3, PTL DEF Spec
=============================================================================
