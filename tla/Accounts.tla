------------------------------- MODULE Accounts -------------------------------
(***************************************************************************)
(* Accounts: registration of persons and businesses, edits of a profile,   *)
(* interest tags, devices, follows, and the deletion that erases all this. *)
(* A profile is two rows, the user and its person or business profile; an  *)
(* edit writes the user first and a deletion writes it last.               *)
(***************************************************************************)
EXTENDS Naturals, FiniteSets

CONSTANTS
  Id,          \* accounts ever made
  Business,    \* those of them that are businesses
  Email, Document, Tag, Device,
  Value,       \* what the fields of a profile may hold
  Session,     \* web sessions
  None,        \* a null or erased column, no row
  Gone,        \* a row that was read and then deleted
  MaxRequests  \* bound: requests made

VARIABLES
  \* committed rows
  email,     \* email[u]: None until u is registered and once it is erased
  document,  \* document[u]: the CPF or the CNPJ
  profile,   \* profile[u]: name and description, of the user row, place, of the other
  deleted,   \* accounts with deleted_at
  tags,      \* tags[u]: user_tag
  device,    \* device[d]: the account push token d is registered for
  follows,   \* rows of user_follows, as <<follower, business>>
  \* requests
  pc,        \* pc[s]: the statement session s is about to run
  by,        \* by[s]: the account it works for
  asked,     \* asked[s]: what it is to write
  read,      \* read[s]: the tags, the device row or the user row it read
  doomed,    \* doomed[s]: the devices and follows its DELETEs matched
  userLock,  \* userLock[u]: the session that wrote the user row
  profileLock,
  \* bound and history
  requests,
  late,      \* accounts described by an edit after their deletion saw no description
  alone,     \* alone[s]: no other request overlapped this one
  outcome    \* outcome[s]: how the last request ended

rows == <<email, document, profile, deleted, tags, device, follows>>
work == <<pc, by, asked, read, doomed, userLock, profileLock>>
vars == <<rows, work, requests, late, alone, outcome>>

About == {None, "text"}  \* a description, which may be null
Fields == [name : Value, place : Value, about : About]
Blank == [name |-> None, place |-> None, about |-> None]
Leftover == [name : {None}, place : {None}, about : About]
NoRows == [devices |-> {}, follows |-> {}]
Wish == [email : Email, document : Document, about : About] \cup Fields
          \cup [tags : SUBSET Tag] \cup [device : Device] \cup [business : Business]
(* What the module asks of its constants.                                  *)
AccountsConstants ==
  /\ MaxRequests \in Nat /\ Business \subseteq Id /\ "given" \in Value
  /\ None \notin Id /\ None \notin Email /\ None \notin Document /\ None \notin Session
  /\ Gone \notin Id /\ Gone # None

Stage == {"idle", "insert", "edit user", "edit profile", "tags", "device", "remove",
          "follow", "erase profile", "erase rest", "erase user"}

(* Every variable has its type. *)
TypeOK ==
  /\ email \in [Id -> Email \cup {None}] /\ document \in [Id -> Document \cup {None}]
  /\ profile \in [Id -> Fields \cup Leftover] /\ deleted \subseteq Id
  /\ tags \in [Id -> SUBSET Tag] /\ device \in [Device -> Id \cup {None}]
  /\ follows \subseteq Id \X Business
  /\ pc \in [Session -> Stage] /\ by \in [Session -> Id \cup {None}]
  /\ \A s \in Session :
       /\ asked[s] = None \/ asked[s] \in Wish
       /\ read[s] \in [tags : SUBSET Tag] \cup [owner : Id \cup {None, Gone}]
                     \cup [about : About] \cup {None}
       /\ doomed[s].devices \subseteq Device /\ doomed[s].follows \subseteq Id \X Business
  /\ userLock \in [Id -> Session \cup {None}] /\ profileLock \in [Id -> Session \cup {None}]
  /\ requests \in 0..MaxRequests /\ late \subseteq Id /\ alone \in [Session -> BOOLEAN]
  /\ outcome \in [Session -> {"none", "done", "refused", "failed"}]

Init ==
  /\ email = [u \in Id |-> None] /\ document = [u \in Id |-> None]
  /\ profile = [u \in Id |-> Blank] /\ deleted = {}
  /\ tags = [u \in Id |-> {}] /\ device = [d \in Device |-> None] /\ follows = {}
  /\ pc = [s \in Session |-> "idle"] /\ by = [s \in Session |-> None]
  /\ asked = [s \in Session |-> None] /\ read = [s \in Session |-> None]
  /\ doomed = [s \in Session |-> NoRows]
  /\ userLock = [u \in Id |-> None] /\ profileLock = [u \in Id |-> None]
  /\ requests = 0 /\ late = {} /\ alone = [s \in Session |-> TRUE]
  /\ outcome = [s \in Session |-> "none"]

-----------------------------------------------------------------------------

Registered(u) == email[u] # None
ActiveUser(u) == Registered(u) /\ u \notin deleted

(* A request has read r and goes on to its first statement.                *)
Begin(s, stage, u, wish, r) ==
  /\ pc[s] = "idle" /\ requests < MaxRequests
  /\ requests' = requests + 1
  /\ pc' = [pc EXCEPT ![s] = stage] /\ by' = [by EXCEPT ![s] = u]
  /\ asked' = [asked EXCEPT ![s] = wish] /\ read' = [read EXCEPT ![s] = r]
  /\ alone' = [t \in Session |-> pc[t] = "idle" /\ \A o \in Session : pc[o] = "idle"]
  /\ UNCHANGED <<rows, doomed, userLock, profileLock, late, outcome>>

(* The transaction ends and its locks are free.                            *)
End(s, how) ==
  /\ pc' = [pc EXCEPT ![s] = "idle"] /\ by' = [by EXCEPT ![s] = None]
  /\ asked' = [asked EXCEPT ![s] = None]
  /\ doomed' = [doomed EXCEPT ![s] = NoRows]
  /\ userLock' = [u \in Id |-> IF userLock[u] = s THEN None ELSE userLock[u]]
  /\ profileLock' = [u \in Id |-> IF profileLock[u] = s THEN None ELSE profileLock[u]]
  /\ outcome' = [outcome EXCEPT ![s] = how]
  /\ UNCHANGED <<requests, alone>>

Forget(s) == read' = [read EXCEPT ![s] = None]

-----------------------------------------------------------------------------
(* POST /auth/register                                                     *)

Namesakes(u) == {v \in Id \ {u} : (v \in Business) = (u \in Business)}

EmailTaken(e) == \E v \in Id : ActiveUser(v) /\ email[v] = e
DocumentTaken(u, d) == \E v \in Namesakes(u) : document[v] = d

(* Looks for the email and the document before it hashes the password.     *)
(* Only a business may describe itself.                                    *)
RequestPersonal(s, u, e, d) ==
  /\ u \notin Business /\ ~Registered(u) /\ u \notin deleted
  /\ \A t \in Session : by[t] # u
  /\ ~EmailTaken(e) /\ ~DocumentTaken(u, d)
  /\ Begin(s, "insert", u, [email |-> e, document |-> d, about |-> None], None)

RequestBusiness(s, u, e, d, about) ==
  /\ u \in Business /\ ~Registered(u) /\ u \notin deleted
  /\ \A t \in Session : by[t] # u
  /\ ~EmailTaken(e) /\ ~DocumentTaken(u, d)
  /\ Begin(s, "insert", u, [email |-> e, document |-> d, about |-> about], None)

(* Trusts the look at the documents. *)
MutCollides(u, wish) == EmailTaken(wish.email)

(* The unique index on emails of active accounts, and the one on documents.*)
Collides(u, wish) == EmailTaken(wish.email) \/ DocumentTaken(u, wish.document)

Fresh(about) == [name |-> "given", place |-> "given", about |-> about]

Insert(s) ==
  /\ pc[s] = "insert" /\ ~Collides(by[s], asked[s])
  /\ email' = [email EXCEPT ![by[s]] = asked[s].email]
  /\ document' = [document EXCEPT ![by[s]] = asked[s].document]
  /\ profile' = [profile EXCEPT ![by[s]] = Fresh(asked[s].about)]
  /\ UNCHANGED <<deleted, tags, device, follows, late>>
  /\ Forget(s) /\ End(s, "done")

(* 409, for the document if it is still taken, and for the email otherwise.*)
InsertRefused(s) ==
  /\ pc[s] = "insert" /\ Collides(by[s], asked[s])
  /\ UNCHANGED <<rows, late>>
  /\ Forget(s) /\ End(s, "refused")

-----------------------------------------------------------------------------
(* PATCH /users/me/profile and PATCH /businesses/me/profile                *)

(* Takes a field that was not sent for one that was emptied. *)
MutMerged(u, change) ==
  [f \in {"name", "place", "about"} |-> IF f \in DOMAIN change THEN change[f] ELSE None]

(* A field that was not sent keeps the value that was read; the values as  *)
(* they are make no edit.                                                  *)
Merged(u, change) ==
  [f \in {"name", "place", "about"} |-> IF f \in DOMAIN change THEN change[f] ELSE profile[u][f]]

Changes == [name : Value] \cup [place : Value] \cup [about : About]

RequestPersonalEdit(s, u, change) ==
  /\ ActiveUser(u) /\ u \notin Business /\ Merged(u, change) # profile[u]
  /\ Begin(s, "edit user", u, Merged(u, change), None)

RequestBusinessEdit(s, u, change) ==
  /\ ActiveUser(u) /\ u \in Business /\ Merged(u, change) # profile[u]
  /\ Begin(s, "edit user", u, Merged(u, change), None)

(* Edits whatever row has the id. *)
MutEditable(u) == TRUE

(* Both UPDATEs look for an account that is not deleted.                   *)
Editable(u) == u \notin deleted

EditUser(s) ==
  /\ pc[s] = "edit user" /\ userLock[by[s]] = None
  /\ userLock' = IF Editable(by[s]) THEN [userLock EXCEPT ![by[s]] = s] ELSE userLock
  /\ pc' = [pc EXCEPT ![s] = "edit profile"]
  /\ UNCHANGED <<rows, by, asked, read, doomed, profileLock, requests, late, alone, outcome>>

(* A deletion of the account is under way that read no description of it.  *)
SawNoAbout(u) ==
  \E t \in Session : /\ by[t] = u /\ pc[t] \in {"erase profile", "erase rest", "erase user"}
                    /\ read[t].about = None

(* The second UPDATE and the commit.  Without a row to write it answers    *)
(* what it was asked all the same.                                         *)
EditCommit(s) ==
  LET u == by[s] IN
  /\ pc[s] = "edit profile" /\ profileLock[u] = None
  /\ profile' =
       [profile EXCEPT
          ![u].name = IF userLock[u] = s THEN asked[s].name ELSE @,
          ![u].about = IF userLock[u] = s THEN asked[s].about ELSE @,
          ![u].place = IF Editable(u) THEN asked[s].place ELSE @]
  /\ late' = IF userLock[u] = s /\ SawNoAbout(u) THEN late \cup {u} ELSE late
  /\ UNCHANGED <<email, document, deleted, tags, device, follows>>
  /\ Forget(s) /\ End(s, "done")

-----------------------------------------------------------------------------
(* PUT /users/me/tags                                                      *)

RequestTags(s, u, chosen) ==
  /\ ActiveUser(u)
  /\ Begin(s, "tags", u, [tags |-> chosen], [tags |-> tags[u]])

Removed(s) == read[s].tags \ asked[s].tags
Added(s) == asked[s].tags \ read[s].tags

(* Removes nothing. *)
MutReplaceTags(s) ==
  /\ pc[s] = "tags" /\ Added(s) \cap tags[by[s]] = {}
  /\ tags' = [tags EXCEPT ![by[s]] = @ \cup Added(s)]
  /\ UNCHANGED <<email, document, profile, deleted, device, follows, late>>
  /\ Forget(s) /\ End(s, "done")

(* The flush writes the difference from what was read.                     *)
ReplaceTags(s) ==
  /\ pc[s] = "tags" /\ Added(s) \cap tags[by[s]] = {}
  /\ tags' = [tags EXCEPT ![by[s]] = (@ \ Removed(s)) \cup Added(s)]
  /\ UNCHANGED <<email, document, profile, deleted, device, follows, late>>
  /\ Forget(s) /\ End(s, "done")

(* A link that is there twice breaks the primary key; one that is not      *)
(* there to remove may fail the flush, where the driver counts rows.       *)
TagsFail(s) ==
  /\ pc[s] = "tags"
  /\ Added(s) \cap tags[by[s]] # {} \/ ~(Removed(s) \subseteq tags[by[s]])
  /\ UNCHANGED <<rows, late>>
  /\ Forget(s) /\ End(s, "failed")

-----------------------------------------------------------------------------
(* POST and DELETE /users/me/devices                                       *)

RequestDevice(s, u, d) ==
  /\ ActiveUser(u)
  /\ Begin(s, "device", u, [device |-> d], [owner |-> device[d]])

(* Whether a deletion under way holds the row.                             *)
DeviceHeld(d) == \E s \in Session : d \in doomed[s].devices

(* Inserts the row, or gives the row it read to the account; the owner it  *)
(* read is not written again.                                              *)
UpsertDevice(s) ==
  LET d == asked[s].device IN
  /\ pc[s] = "device" /\ read[s].owner # Gone
  /\ \/ read[s].owner = by[s] /\ UNCHANGED device
     \/ /\ read[s].owner # by[s] /\ ~DeviceHeld(d)
        /\ read[s].owner = None => device[d] = None
        /\ device' = [device EXCEPT ![d] = by[s]]
  /\ UNCHANGED <<email, document, profile, deleted, tags, follows, late>>
  /\ Forget(s) /\ End(s, "done")

(* Someone else inserted the token, or deleted the row, meanwhile.         *)
UpsertFails(s) ==
  LET d == asked[s].device IN
  /\ pc[s] = "device" /\ ~DeviceHeld(d)
  /\ read[s].owner = Gone \/ (read[s].owner = None /\ device[d] # None)
  /\ UNCHANGED <<rows, late>>
  /\ Forget(s) /\ End(s, "failed")

RequestDeviceRemoval(s, u, d) ==
  /\ ActiveUser(u) /\ device[d] = u
  /\ Begin(s, "remove", u, [device |-> d], [owner |-> u])

(* Rows read by other requests are gone with their devices.                *)
ForgetDevices(s, devices) ==
  read' = [t \in Session |->
    CASE t = s -> None
      [] t # s /\ pc[t] \in {"device", "remove"} /\ read[t].owner # None
               /\ asked[t].device \in devices -> [owner |-> Gone]
      [] OTHER -> read[t]]

(* Deletes the row it read, whoever has it by then.                        *)
RemoveDevice(s) ==
  LET d == asked[s].device IN
  /\ pc[s] = "remove" /\ ~DeviceHeld(d)
  /\ device' = IF read[s].owner = Gone THEN device ELSE [device EXCEPT ![d] = None]
  /\ UNCHANGED <<email, document, profile, deleted, tags, follows, late>>
  /\ ForgetDevices(s, IF read[s].owner = Gone THEN {} ELSE {d}) /\ End(s, "done")

-----------------------------------------------------------------------------
(* POST and DELETE /users/{id}/follow                                      *)

(* An active business; whoever follows it already has nothing to do.       *)
RequestFollow(s, u, b) ==
  /\ ActiveUser(u) /\ ActiveUser(b) /\ <<u, b>> \notin follows
  /\ Begin(s, "follow", u, [business |-> b], None)

(* A row inserted meanwhile makes the same outcome.                        *)
Follow(s) ==
  /\ pc[s] = "follow"
  /\ follows' = follows \cup {<<by[s], asked[s].business>>}
  /\ UNCHANGED <<email, document, profile, deleted, tags, device, late>>
  /\ Forget(s) /\ End(s, "done")

Unfollow(u, b) ==
  /\ ActiveUser(u) /\ ActiveUser(b) /\ <<u, b>> \in follows
  /\ \A s \in Session : <<u, b>> \notin doomed[s].follows
  /\ follows' = follows \ {<<u, b>>}
  /\ alone' = [s \in Session |-> FALSE]
  /\ UNCHANGED <<email, document, profile, deleted, tags, device, work, requests, late, outcome>>

-----------------------------------------------------------------------------
(* DELETE /users/me                                                        *)

(* Reads the user row, which it writes last.                               *)
RequestDeletion(s, u) ==
  /\ ActiveUser(u)
  /\ Begin(s, "erase profile", u, None, [about |-> profile[u].about])

EraseProfile(s) ==
  /\ pc[s] = "erase profile" /\ profileLock[by[s]] = None
  /\ profileLock' = [profileLock EXCEPT ![by[s]] = s]
  /\ pc' = [pc EXCEPT ![s] = "erase rest"]
  /\ UNCHANGED <<rows, by, asked, read, doomed, userLock, requests, late, alone, outcome>>

(* The DELETEs of devices and of follows, both ways.                       *)
EraseRest(s) ==
  /\ pc[s] = "erase rest"
  /\ doomed' = [doomed EXCEPT ![s] =
       [devices |-> {d \in Device : device[d] = by[s]},
        follows |-> {f \in follows : by[s] \in {f[1], f[2]}}]]
  /\ \A d \in Device : device[d] = by[s] => ~DeviceHeld(d)
  /\ \A t \in Session : doomed[t].follows \cap doomed'[s].follows # {} => t = s
  /\ pc' = [pc EXCEPT ![s] = "erase user"]
  /\ UNCHANGED <<rows, by, asked, read, userLock, profileLock, requests, late, alone, outcome>>

(* The flush at the commit writes the columns of the user row that differ  *)
(* from what was read: not a description that was null.                    *)
Remains(s) ==
  [Blank EXCEPT !.about = IF read[s].about = None THEN profile[by[s]].about ELSE None]

EraseCommit(s) ==
  LET u == by[s] IN
  /\ pc[s] = "erase user" /\ userLock[u] = None
  /\ email' = [email EXCEPT ![u] = None] /\ document' = [document EXCEPT ![u] = None]
  /\ profile' = [profile EXCEPT ![u] = Remains(s)]
  /\ deleted' = deleted \cup {u}
  /\ device' = [d \in Device |-> IF d \in doomed[s].devices THEN None ELSE device[d]]
  /\ follows' = follows \ doomed[s].follows
  /\ UNCHANGED <<tags, late>>
  /\ ForgetDevices(s, doomed[s].devices) /\ End(s, "done")

(* An edit has the user row and a deletion the profile row, and each wants *)
(* the other's: the database rolls one of them back.                       *)
DeadlockVictim(s) ==
  LET u == by[s] IN
  /\ \/ pc[s] = "edit profile" /\ userLock[u] = s /\ profileLock[u] # None
     \/ pc[s] = "erase user" /\ profileLock[u] = s /\ userLock[u] # None
  /\ \E t \in Session \ {s} : by[t] = u /\ pc[t] \in {"edit profile", "erase user"}
  /\ UNCHANGED <<rows, late>>
  /\ Forget(s) /\ End(s, "failed")

Crash(s) ==
  /\ pc[s] # "idle"
  /\ UNCHANGED <<rows, late>>
  /\ Forget(s) /\ End(s, "failed")

Next ==
  \/ \E s \in Session :
       \/ \E u \in Id :
            \/ \E e \in Email, d \in Document :
                 \/ RequestPersonal(s, u, e, d)
                 \/ \E about \in About : RequestBusiness(s, u, e, d, about)
            \/ \E c \in Changes : RequestPersonalEdit(s, u, c) \/ RequestBusinessEdit(s, u, c)
            \/ \E chosen \in SUBSET Tag : RequestTags(s, u, chosen)
            \/ \E d \in Device : RequestDevice(s, u, d) \/ RequestDeviceRemoval(s, u, d)
            \/ \E b \in Business : RequestFollow(s, u, b)
            \/ RequestDeletion(s, u)
       \/ Insert(s) \/ InsertRefused(s)
       \/ EditUser(s) \/ EditCommit(s)
       \/ ReplaceTags(s) \/ TagsFail(s)
       \/ UpsertDevice(s) \/ UpsertFails(s) \/ RemoveDevice(s) \/ Follow(s)
       \/ EraseProfile(s) \/ EraseRest(s) \/ EraseCommit(s)
       \/ DeadlockVictim(s) \/ Crash(s)
  \/ \E u \in Id, b \in Business : Unfollow(u, b)

Spec == Init /\ [][Next]_vars

-----------------------------------------------------------------------------
(* Properties *)

(* Two registrations that both found an email or a document free do not    *)
(* both get it, and a deletion frees it once                               *)
(* (services/register_personal.py:47, models/user_model.py:88).            *)
UniqueAccounts ==
  \A u \in Id : ActiveUser(u) =>
    \A v \in Id \ {u} : ActiveUser(v) =>
      /\ email[u] # email[v]
      /\ v \in Namesakes(u) => document[u] # document[v]

(* Nothing an edit under way writes brings back what a deletion erased; a  *)
(* description is left on a deleted account only by an edit that wrote it  *)
(* between the deletion's read of a null one and its flush, which then does*)
(* not write the column (repository/user_profile.py:190,                   *)
(* repository/business_profile.py:118, repository/user.py:71).             *)
DeletedStaysBlank ==
  \A u \in deleted :
    /\ email[u] = None /\ document[u] = None
    /\ profile[u].name = None /\ profile[u].place = None
    /\ profile[u].about = None \/ u \in late

(* What request s leaves behind when it is done.                           *)
Landed(s) ==
  LET u == by[s]
      w == asked[s] IN
  CASE pc[s] = "insert" -> email'[u] = w.email /\ document'[u] = w.document
    [] pc[s] = "edit profile" -> profile'[u] = w
    [] pc[s] = "tags" -> tags'[u] = w.tags
    [] pc[s] = "device" -> device'[w.device] = u
    [] pc[s] = "remove" -> device'[w.device] = None
    [] pc[s] = "follow" -> <<u, w.business>> \in follows'
    [] OTHER -> /\ u \in deleted' /\ \A d \in Device : device'[d] # u
                /\ \A f \in follows' : u \notin {f[1], f[2]}

LoneWriteLands ==
  \A s \in Session :
    (pc[s] # "idle" /\ pc'[s] = "idle" /\ alone[s] /\ outcome'[s] = "done") => Landed(s)

(* A request that nothing overlapped leaves exactly what it was asked for, *)
(* although it writes a difference from, or over, what it read             *)
(* (repository/user_tags.py:58, services/user_profile.py:110).             *)
LoneWritesLand == [][LoneWriteLands]_vars
=============================================================================
