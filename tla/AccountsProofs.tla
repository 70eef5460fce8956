---------------------------- MODULE AccountsProofs -----------------------------
(***************************************************************************)
(* Theorems about Accounts.tla, for any number of accounts, sessions and   *)
(* requests.                                                               *)
(***************************************************************************)
EXTENDS Accounts, TLAPS

-----------------------------------------------------------------------------
(* Types                                                                   *)

Card == [email : Email, document : Document, about : About]
Sets == [tags : SUBSET Tag]
Owned == [owner : Id \cup {None, Gone}]
Seen == [about : About]
Readings == Sets \cup Owned \cup Seen \cup {None}
Doomed == [devices : SUBSET Device, follows : SUBSET (Id \X Business)]

Erasing == {"erase profile", "erase rest", "erase user"}

(* What a session holds of its request, by the call it is about to make.   *)
Asks(s) ==
  /\ pc[s] # "idle" => by[s] \in Id
  /\ pc[s] = "insert" => asked[s] \in Card
  /\ pc[s] \in {"edit user", "edit profile"} => asked[s] \in Fields
  /\ pc[s] = "tags" => asked[s] \in Sets /\ read[s] \in Sets
  /\ pc[s] \in {"device", "remove"} => asked[s] \in [device : Device] /\ read[s] \in Owned
  /\ pc[s] = "follow" => asked[s] \in [business : Business]
  /\ pc[s] \in Erasing => read[s] \in Seen

WorkTyped ==
  /\ pc \in [Session -> Stage] /\ by \in [Session -> Id \cup {None}]
  /\ asked \in [Session -> Wish \cup {None}]
  /\ read \in [Session -> Readings]
  /\ doomed \in [Session -> Doomed]
  /\ userLock \in [Id -> Session \cup {None}] /\ profileLock \in [Id -> Session \cup {None}]
  /\ requests \in 0..MaxRequests /\ late \subseteq Id /\ alone \in [Session -> BOOLEAN]
  /\ outcome \in [Session -> {"none", "done", "refused", "failed"}]

RowsTyped ==
  /\ email \in [Id -> Email \cup {None}] /\ document \in [Id -> Document \cup {None}]
  /\ profile \in [Id -> Fields \cup Leftover] /\ deleted \subseteq Id
  /\ tags \in [Id -> SUBSET Tag] /\ device \in [Device -> Id \cup {None}]
  /\ follows \subseteq Id \X Business

LEMMA TypesSuffice == WorkTyped /\ RowsTyped => TypeOK
<1> SUFFICES ASSUME WorkTyped, RowsTyped PROVE TypeOK
  OBVIOUS
<1>1. ASSUME NEW s \in Session
      PROVE  /\ asked[s] = None \/ asked[s] \in Wish
             /\ read[s] \in Readings
             /\ doomed[s].devices \subseteq Device /\ doomed[s].follows \subseteq Id \X Business
  BY DEF WorkTyped, Doomed
<1> QED
  BY <1>1 DEF WorkTyped, RowsTyped, TypeOK, Sets, Owned, Seen, Readings

(* Session s starts a request, ends one, or goes on to its next statement. *)
Others(s) ==
  \A t \in Session \ {s} :
    pc'[t] = pc[t] /\ by'[t] = by[t] /\ asked'[t] = asked[t] /\ outcome'[t] = outcome[t]

Starts(s, stage, u, wish, r) ==
  /\ pc[s] = "idle" /\ Others(s)
  /\ pc'[s] = stage /\ by'[s] = u /\ asked'[s] = wish /\ read'[s] = r
  /\ \A t \in Session \ {s} : read'[t] = read[t]
  /\ \A t \in Session : alone'[t] => \A o \in Session : pc[o] = "idle"
  /\ UNCHANGED <<email, document, profile, deleted, tags, device, follows, doomed,
                 userLock, profileLock, late, outcome>>

Ends(s, how) ==
  /\ Others(s)
  /\ pc'[s] = "idle" /\ by'[s] = None /\ asked'[s] = None /\ outcome'[s] = how
  /\ doomed'[s] = NoRows /\ \A t \in Session \ {s} : doomed'[t] = doomed[t]
  /\ \A u \in Id : /\ userLock'[u] = IF userLock[u] = s THEN None ELSE userLock[u]
                   /\ profileLock'[u] = IF profileLock[u] = s THEN None ELSE profileLock[u]
  /\ alone' = alone

LEMMA Starting ==
  ASSUME AccountsConstants, WorkTyped, NEW s \in Session,
         NEW stage \in Stage, NEW u \in Id, NEW wish \in Wish \cup {None},
         NEW r \in Readings, Begin(s, stage, u, wish, r)
  PROVE  WorkTyped' /\ Starts(s, stage, u, wish, r)
<1>1. requests' \in 0..MaxRequests
  BY DEF Begin, WorkTyped, AccountsConstants
<1>2. alone' \in [Session -> BOOLEAN] /\ \A t \in Session : alone'[t] => \A o \in Session : pc[o] = "idle"
  BY DEF Begin
<1> QED
  BY <1>1, <1>2 DEF Begin, WorkTyped, Starts, Others, rows

LEMMA Ending ==
  ASSUME WorkTyped, NEW s \in Session, NEW how \in {"done", "refused", "failed"},
         End(s, how)
  PROVE  /\ Ends(s, how)
         /\ read' \in [Session -> Readings] /\ late' \subseteq Id => WorkTyped'
<1>1. NoRows \in Doomed /\ "idle" \in Stage
  BY DEF NoRows, Doomed, Stage
<1>2. Ends(s, how)
  BY DEF End, WorkTyped, Ends, Others
<1>3. /\ pc' \in [Session -> Stage] /\ by' \in [Session -> Id \cup {None}]
      /\ asked' \in [Session -> Wish \cup {None}] /\ doomed' \in [Session -> Doomed]
      /\ outcome' \in [Session -> {"none", "done", "refused", "failed"}]
  BY <1>1 DEF End, WorkTyped
<1>4. /\ userLock' \in [Id -> Session \cup {None}] /\ profileLock' \in [Id -> Session \cup {None}]
      /\ requests' \in 0..MaxRequests /\ alone' \in [Session -> BOOLEAN]
  BY DEF End, WorkTyped
<1> QED
  BY <1>2, <1>3, <1>4 DEF WorkTyped

(* A change merged into the fields of a profile gives fields again.        *)
LEMMA MergedTyped ==
  ASSUME NEW u \in Id, profile[u] \in Fields, NEW change \in Changes
  PROVE  Merged(u, change) \in Fields
<1>1. profile[u].name \in Value /\ profile[u].place \in Value /\ profile[u].about \in About
  BY DEF Fields
<1>2. CASE change \in [name : Value]
  BY <1>1, <1>2 DEF Merged, Fields
<1>3. CASE change \in [place : Value]
  BY <1>1, <1>3 DEF Merged, Fields
<1>4. CASE change \in [about : About]
  BY <1>1, <1>4 DEF Merged, Fields
<1> QED
  BY <1>2, <1>3, <1>4 DEF Changes

Goes(s, stage) ==
  /\ Others(s)
  /\ pc'[s] = stage /\ by'[s] = by[s] /\ asked'[s] = asked[s] /\ outcome'[s] = outcome[s]
  /\ UNCHANGED <<email, document, profile, deleted, tags, device, follows, read, late, alone>>

(* The steps of a session, and how each of them moves its work.            *)
Steps(s) ==
  \/ \E u \in Id :
       \/ \E e \in Email, d \in Document :
            \/ RequestPersonal(s, u, e, d)
            \/ \E about \in About : RequestBusiness(s, u, e, d, about)
       \/ \E c \in Changes : RequestPersonalEdit(s, u, c) \/ RequestBusinessEdit(s, u, c)
       \/ \E chosen \in SUBSET Tag : RequestTags(s, u, chosen)
       \/ \E d \in Device : RequestDevice(s, u, d) \/ RequestDeviceRemoval(s, u, d)
       \/ \E b \in Business : RequestFollow(s, u, b)
       \/ RequestDeletion(s, u)
  \/ Insert(s) \/ InsertRefused(s)
  \/ EditUser(s) \/ EditCommit(s)
  \/ ReplaceTags(s) \/ TagsFail(s)
  \/ UpsertDevice(s) \/ UpsertFails(s) \/ RemoveDevice(s) \/ Follow(s)
  \/ EraseProfile(s) \/ EraseRest(s) \/ EraseCommit(s)
  \/ DeadlockVictim(s) \/ Crash(s)

LEMMA NextIsASessionsOrAnUnfollow ==
  ASSUME [Next]_vars
  PROVE  \/ \E s \in Session : Steps(s)
         \/ \E u \in Id, b \in Business : Unfollow(u, b)
         \/ UNCHANGED vars
BY DEF Next, Steps

Asking(s) ==
  \/ \E u \in Id, card \in Card :
       /\ ~Registered(u) /\ u \notin deleted /\ \A t \in Session : by[t] # u
       /\ Starts(s, "insert", u, card, None)
  \/ \E u \in Id :
       /\ ActiveUser(u)
       /\ \/ \E w \in Fields : Starts(s, "edit user", u, w, None)
          \/ \E chosen \in SUBSET Tag :
               Starts(s, "tags", u, [tags |-> chosen], [tags |-> tags[u]])
          \/ \E d \in Device : Starts(s, "device", u, [device |-> d], [owner |-> device[d]])
          \/ \E d \in Device : Starts(s, "remove", u, [device |-> d], [owner |-> u])
          \/ \E b \in Business : Starts(s, "follow", u, [business |-> b], None)
          \/ Starts(s, "erase profile", u, None, [about |-> profile[u].about])

(* Rows that other sessions read may be gone.                              *)
OthersRead(s) ==
  \A t \in Session \ {s} :
    \/ read'[t] = read[t]
    \/ pc[t] \in {"device", "remove"} /\ read'[t] = [owner |-> Gone]

Moves(s) ==
  \/ Asking(s)
  \/ EditUser(s) /\ Goes(s, "edit profile")
  \/ EraseProfile(s) /\ Goes(s, "erase rest")
  \/ EraseRest(s) /\ Goes(s, "erase user")
  \/ /\ \/ Insert(s) \/ EditCommit(s) \/ ReplaceTags(s) \/ UpsertDevice(s)
        \/ RemoveDevice(s) \/ Follow(s) \/ EraseCommit(s)
     /\ Ends(s, "done") /\ OthersRead(s)
  \/ /\ InsertRefused(s) \/ TagsFail(s) \/ UpsertFails(s) \/ DeadlockVictim(s) \/ Crash(s)
     /\ \E how \in {"refused", "failed"} : Ends(s, how)
     /\ OthersRead(s) /\ UNCHANGED <<rows, late>>

(* An account somebody registered, even if it is deleted.                  *)
Known(u) == Registered(u) \/ u \in deleted

Origin(s) ==
  /\ pc[s] = "insert" => ~Known(by[s]) /\ \A t \in Session \ {s} : by[t] # by[s]
  /\ pc[s] \notin {"idle", "insert"} => Known(by[s])

(* A deletion that saw no description still finds none, unless an edit that*)
(* is on record wrote one.                                                 *)
Covered(u) == profile[u].about = None \/ u \in late
Saw(s) == pc[s] \in Erasing /\ read[s].about = None => Covered(by[s])

AccountInv ==
  /\ WorkTyped /\ RowsTyped /\ DeletedStaysBlank
  /\ \A s \in Session : Asks(s) /\ Origin(s) /\ Saw(s)
  /\ \A u \in Id : ActiveUser(u) => profile[u] \in Fields
  /\ \A u \in deleted : userLock[u] = None

LEMMA AskingMoves ==
  ASSUME AccountsConstants, AccountInv, NEW s \in Session,
         \E u \in Id :
           \/ \E e \in Email, d \in Document :
                \/ RequestPersonal(s, u, e, d)
                \/ \E about \in About : RequestBusiness(s, u, e, d, about)
           \/ \E c \in Changes : RequestPersonalEdit(s, u, c) \/ RequestBusinessEdit(s, u, c)
           \/ \E chosen \in SUBSET Tag : RequestTags(s, u, chosen)
           \/ \E d \in Device : RequestDevice(s, u, d) \/ RequestDeviceRemoval(s, u, d)
           \/ \E b \in Business : RequestFollow(s, u, b)
           \/ RequestDeletion(s, u)
  PROVE  Asking(s) /\ WorkTyped'
<1> PICK u \in Id :
      \/ \E e \in Email, d \in Document :
           \/ RequestPersonal(s, u, e, d)
           \/ \E about \in About : RequestBusiness(s, u, e, d, about)
      \/ \E c \in Changes : RequestPersonalEdit(s, u, c) \/ RequestBusinessEdit(s, u, c)
      \/ \E chosen \in SUBSET Tag : RequestTags(s, u, chosen)
      \/ \E d \in Device : RequestDevice(s, u, d) \/ RequestDeviceRemoval(s, u, d)
      \/ \E b \in Business : RequestFollow(s, u, b)
      \/ RequestDeletion(s, u)
  OBVIOUS
<1>1. /\ WorkTyped /\ RowsTyped
      /\ {"insert", "edit user", "tags", "device", "remove", "follow", "erase profile"} \subseteq Stage
      /\ None \in Wish \cup {None} /\ None \in Readings
  BY DEF AccountInv, Stage, Readings
<1>2. ASSUME NEW e \in Email, NEW d \in Document,
             RequestPersonal(s, u, e, d) \/ \E about \in About : RequestBusiness(s, u, e, d, about)
      PROVE  Asking(s) /\ WorkTyped'
  <2>1. PICK about \in About :
          /\ Begin(s, "insert", u, [email |-> e, document |-> d, about |-> about], None)
          /\ ~Registered(u) /\ u \notin deleted /\ \A t \in Session : by[t] # u
    BY <1>2 DEF RequestPersonal, RequestBusiness, About
  <2>2. PICK card \in Card : card = [email |-> e, document |-> d, about |-> about]
    BY DEF Card
  <2>3. card \in Wish \cup {None}
    BY <2>2 DEF Wish
  <2>4. WorkTyped' /\ Starts(s, "insert", u, card, None)
    BY <1>1, <2>1, <2>2, <2>3, Starting
  <2> QED
    BY <2>1, <2>4 DEF Asking
<1>3. ASSUME NEW c \in Changes, RequestPersonalEdit(s, u, c) \/ RequestBusinessEdit(s, u, c)
      PROVE  Asking(s) /\ WorkTyped'
  <2>1. ActiveUser(u) /\ Begin(s, "edit user", u, Merged(u, c), None)
    BY <1>3 DEF RequestPersonalEdit, RequestBusinessEdit
  <2>2. Merged(u, c) \in Fields
    BY <2>1, MergedTyped DEF AccountInv
  <2>3. Merged(u, c) \in Wish \cup {None}
    BY <2>2 DEF Wish
  <2>4. WorkTyped' /\ Starts(s, "edit user", u, Merged(u, c), None)
    BY <1>1, <2>1, <2>3, Starting
  <2> QED
    BY <2>1, <2>2, <2>4 DEF Asking
<1>4. ASSUME NEW chosen \in SUBSET Tag, RequestTags(s, u, chosen)
      PROVE  Asking(s) /\ WorkTyped'
  <2>1. ActiveUser(u) /\ Begin(s, "tags", u, [tags |-> chosen], [tags |-> tags[u]])
    BY <1>4 DEF RequestTags
  <2>2. [tags |-> chosen] \in Wish \cup {None} /\ [tags |-> tags[u]] \in Readings
    BY <1>1 DEF Wish, Sets, Readings, RowsTyped
  <2>3. WorkTyped' /\ Starts(s, "tags", u, [tags |-> chosen], [tags |-> tags[u]])
    BY <1>1, <2>1, <2>2, Starting
  <2> QED
    BY <2>1, <2>3 DEF Asking
<1>5. ASSUME NEW d \in Device, RequestDevice(s, u, d)
      PROVE  Asking(s) /\ WorkTyped'
  <2>1. ActiveUser(u) /\ Begin(s, "device", u, [device |-> d], [owner |-> device[d]])
    BY <1>5 DEF RequestDevice
  <2>2. [device |-> d] \in Wish \cup {None} /\ [owner |-> device[d]] \in Readings
    BY <1>1 DEF Wish, Owned, Readings, RowsTyped
  <2>3. WorkTyped' /\ Starts(s, "device", u, [device |-> d], [owner |-> device[d]])
    BY <1>1, <2>1, <2>2, Starting
  <2> QED
    BY <2>1, <2>3 DEF Asking
<1>6. ASSUME NEW d \in Device, RequestDeviceRemoval(s, u, d)
      PROVE  Asking(s) /\ WorkTyped'
  <2>1. ActiveUser(u) /\ Begin(s, "remove", u, [device |-> d], [owner |-> u])
    BY <1>6 DEF RequestDeviceRemoval
  <2>2. [device |-> d] \in Wish \cup {None} /\ [owner |-> u] \in Readings
    BY DEF Wish, Owned, Readings
  <2>3. WorkTyped' /\ Starts(s, "remove", u, [device |-> d], [owner |-> u])
    BY <1>1, <2>1, <2>2, Starting
  <2> QED
    BY <2>1, <2>3 DEF Asking
<1>7. ASSUME NEW b \in Business, RequestFollow(s, u, b)
      PROVE  Asking(s) /\ WorkTyped'
  <2>1. ActiveUser(u) /\ Begin(s, "follow", u, [business |-> b], None)
    BY <1>7 DEF RequestFollow
  <2>2. [business |-> b] \in Wish \cup {None}
    BY DEF Wish
  <2>3. WorkTyped' /\ Starts(s, "follow", u, [business |-> b], None)
    BY <1>1, <2>1, <2>2, Starting
  <2> QED
    BY <2>1, <2>3 DEF Asking
<1>8. CASE RequestDeletion(s, u)
  <2>1. ActiveUser(u) /\ Begin(s, "erase profile", u, None, [about |-> profile[u].about])
    BY <1>8 DEF RequestDeletion
  <2>2. profile[u] \in Fields
    BY <2>1 DEF AccountInv
  <2>3. [about |-> profile[u].about] \in Readings
    BY <2>2 DEF Fields, Seen, Readings
  <2>4. WorkTyped' /\ Starts(s, "erase profile", u, None, [about |-> profile[u].about])
    BY <1>1, <2>1, <2>3, Starting
  <2> QED
    BY <2>1, <2>4 DEF Asking
<1> QED
  BY <1>2, <1>3, <1>4, <1>5, <1>6, <1>7, <1>8

LEMMA ReadsTyped ==
  ASSUME WorkTyped, NEW s \in Session
  PROVE  /\ Forget(s) => /\ read' \in [Session -> Readings]
                         /\ \A t \in Session \ {s} : read'[t] = read[t]
         /\ \A lost : ForgetDevices(s, lost) =>
              /\ read' \in [Session -> Readings]
              /\ OthersRead(s)
<1>1. [owner |-> Gone] \in Readings /\ None \in Readings
  BY DEF Owned, Readings
<1>2. ASSUME NEW lost, ForgetDevices(s, lost)
      PROVE  /\ read' \in [Session -> Readings]
             /\ OthersRead(s)
  <2>1. ASSUME NEW t \in Session PROVE read'[t] \in {None, [owner |-> Gone], read[t]}
    BY <1>2 DEF ForgetDevices
  <2>2. read' \in [Session -> Readings]
    BY <1>1, <1>2, <2>1 DEF ForgetDevices, WorkTyped
  <2>3. OthersRead(s)
    BY <1>2 DEF ForgetDevices, OthersRead
  <2> QED
    BY <2>2, <2>3
<1> QED
  BY <1>1, <1>2 DEF Forget, WorkTyped

LEMMA SessionMoves ==
  ASSUME AccountsConstants, AccountInv, NEW s \in Session, Steps(s)
  PROVE  Moves(s) /\ WorkTyped'
<1>1. WorkTyped /\ RowsTyped /\ Asks(s)
  BY DEF AccountInv
<1>2. CASE Insert(s) \/ EditCommit(s) \/ ReplaceTags(s) \/ UpsertDevice(s) \/ Follow(s)
  <2>1. Forget(s) /\ End(s, "done") /\ late' \subseteq Id
    <3>1. EditCommit(s) => late' \subseteq late \cup {by[s]} /\ by[s] \in Id
      BY <1>1 DEF EditCommit, Asks
    <3> QED
      BY <1>1, <1>2, <3>1 DEF WorkTyped, Insert, EditCommit, ReplaceTags, UpsertDevice, Follow
  <2>2. OthersRead(s) /\ Ends(s, "done") /\ WorkTyped'
    BY <1>1, <2>1, ReadsTyped, Ending DEF OthersRead
  <2> QED
    BY <1>2, <2>2 DEF Moves
<1>3. CASE RemoveDevice(s) \/ EraseCommit(s)
  <2>1. End(s, "done") /\ late' \subseteq Id /\ \E lost : ForgetDevices(s, lost)
    BY <1>1, <1>3 DEF WorkTyped, RemoveDevice, EraseCommit
  <2>2. OthersRead(s) /\ Ends(s, "done") /\ WorkTyped'
    BY <1>1, <2>1, ReadsTyped, Ending
  <2> QED
    BY <1>3, <2>2 DEF Moves
<1>4. CASE InsertRefused(s) \/ TagsFail(s) \/ UpsertFails(s) \/ DeadlockVictim(s) \/ Crash(s)
  <2>1. PICK how \in {"refused", "failed"} : Forget(s) /\ End(s, how) /\ UNCHANGED <<rows, late>>
    BY <1>4 DEF InsertRefused, TagsFail, UpsertFails, DeadlockVictim, Crash
  <2>2. OthersRead(s) /\ Ends(s, how) /\ WorkTyped'
    BY <1>1, <2>1, ReadsTyped, Ending DEF OthersRead, WorkTyped
  <2> QED
    BY <1>4, <2>1, <2>2 DEF Moves
<1>5. CASE EditUser(s)
  <2>1. by[s] \in Id /\ "edit profile" \in Stage
    BY <1>1, <1>5 DEF EditUser, Asks, Stage
  <2>2. WorkTyped' /\ Goes(s, "edit profile")
    BY <1>1, <1>5, <2>1 DEF EditUser, WorkTyped, Goes, Others, rows
  <2> QED
    BY <1>5, <2>2 DEF Moves
<1>6. CASE EraseProfile(s)
  <2>1. by[s] \in Id /\ "erase rest" \in Stage
    BY <1>1, <1>6 DEF EraseProfile, Asks, Stage
  <2>2. WorkTyped' /\ Goes(s, "erase rest")
    BY <1>1, <1>6, <2>1 DEF EraseProfile, WorkTyped, Goes, Others, rows
  <2> QED
    BY <1>6, <2>2 DEF Moves
<1>7. CASE EraseRest(s)
  <2>1. [devices |-> {d \in Device : device[d] = by[s]},
         follows |-> {f \in follows : by[s] \in {f[1], f[2]}}] \in Doomed
    BY <1>1 DEF Doomed, RowsTyped
  <2>2. "erase user" \in Stage
    BY DEF Stage
  <2>3. WorkTyped' /\ Goes(s, "erase user")
    BY <1>1, <1>7, <2>1, <2>2 DEF EraseRest, WorkTyped, Goes, Others, rows
  <2> QED
    BY <1>7, <2>3 DEF Moves
<1> QED
  BY <1>2, <1>3, <1>4, <1>5, <1>6, <1>7, AskingMoves DEF Steps, Moves

(* What the rows become.                                                   *)
LEMMA RowsMove ==
  ASSUME AccountsConstants, AccountInv, NEW s \in Session, Moves(s)
  PROVE  /\ RowsTyped' /\ late \subseteq late'
         /\ \A v \in deleted :
              \/ profile'[v] = profile[v]
              \/ v = by[s] /\ (Insert(s) \/ EraseCommit(s))
         /\ \A v \in Id : ActiveUser(v) => profile'[v] \in Fields \/ (EraseCommit(s) /\ v = by[s])
         /\ \/ UNCHANGED <<email, document, deleted>> /\ ~Insert(s) /\ ~EraseCommit(s)
            \/ /\ Insert(s) /\ by[s] \in Id /\ deleted' = deleted
               /\ email'[by[s]] = asked[s].email /\ asked[s].email \in Email
               /\ document'[by[s]] = asked[s].document
               /\ profile'[by[s]] \in Fields
               /\ \A v \in Id \ {by[s]} : email'[v] = email[v] /\ document'[v] = document[v]
            \/ /\ EraseCommit(s) /\ by[s] \in Id /\ deleted' = deleted \cup {by[s]}
               /\ email'[by[s]] = None /\ document'[by[s]] = None
               /\ profile'[by[s]] = Remains(s) /\ late' = late
               /\ \A v \in Id \ {by[s]} : email'[v] = email[v] /\ document'[v] = document[v]
<1>1. /\ RowsTyped /\ Asks(s)
      /\ \A v \in Id : ActiveUser(v) => profile[v] \in Fields
  BY DEF AccountInv
<1>2. CASE Insert(s)
  <2>1. /\ by[s] \in Id /\ asked[s].email \in Email /\ asked[s].document \in Document
        /\ asked[s].about \in About
    BY <1>1, <1>2 DEF Insert, Asks, Card
  <2>2. Fresh(asked[s].about) \in Fields
    BY <2>1 DEF Fresh, Fields, AccountsConstants
  <2>3. ~EraseCommit(s)
    BY <1>2 DEF Insert, EraseCommit
  <2> QED
    BY <1>1, <1>2, <2>1, <2>2, <2>3 DEF Insert, RowsTyped
<1>3. CASE EraseCommit(s)
  <2>1. by[s] \in Id
    BY <1>1, <1>3 DEF EraseCommit, Asks
  <2>2. Remains(s) \in Leftover
    <3>1. profile[by[s]].about \in About
      BY <1>1, <2>1 DEF RowsTyped, Fields, Leftover
    <3> QED
      BY <3>1 DEF Remains, Blank, Leftover, About
  <2>3. ~Insert(s)
    BY <1>3 DEF Insert, EraseCommit
  <2> QED
    BY <1>1, <1>3, <2>1, <2>2, <2>3 DEF EraseCommit, RowsTyped
<1>4. CASE EditCommit(s)
  <2>1. by[s] \in Id /\ asked[s] \in Fields /\ Known(by[s])
    BY <1>1, <1>4 DEF EditCommit, Asks, AccountInv, Origin
  <2>2. asked[s].name \in Value /\ asked[s].place \in Value /\ asked[s].about \in About
    BY <2>1 DEF Fields
  <2>3. ~Insert(s) /\ ~EraseCommit(s) /\ late \subseteq late'
    BY <1>4 DEF EditCommit, Insert, EraseCommit
  <2>4. CASE by[s] \in deleted
    <3>1. userLock[by[s]] # s /\ ~Editable(by[s])
      BY <2>4 DEF AccountInv, Editable, AccountsConstants
    <3>2. profile[by[s]] \in [name : Value, place : Value, about : About] \cup Leftover
      BY <1>1, <2>1 DEF RowsTyped, Fields
    <3>3. profile' = [profile EXCEPT ![by[s]] = [profile[by[s]] EXCEPT
                        !.name = profile[by[s]].name, !.about = profile[by[s]].about,
                        !.place = profile[by[s]].place]]
      BY <1>1, <1>4, <2>1, <3>1 DEF EditCommit, RowsTyped
    <3>4. \A v \in Id : profile'[v] = profile[v]
      BY <1>1, <2>1, <3>2, <3>3 DEF RowsTyped, Leftover
    <3>5. profile' \in [Id -> Fields \cup Leftover]
      BY <1>1, <3>3, <3>4 DEF RowsTyped
    <3>6. UNCHANGED <<email, document, deleted, tags, device, follows>> /\ deleted \subseteq Id
      BY <1>1, <1>4 DEF EditCommit, RowsTyped
    <3> QED
      BY <1>1, <2>3, <3>4, <3>5, <3>6 DEF RowsTyped
  <2>5. CASE by[s] \notin deleted
    <3>1. profile[by[s]] \in Fields
      BY <2>1, <2>5 DEF AccountInv, Known, ActiveUser
    <3>2. /\ profile' \in [Id -> Fields \cup Leftover] /\ profile'[by[s]] \in Fields
          /\ \A v \in Id \ {by[s]} : profile'[v] = profile[v]
      BY <1>1, <1>4, <2>1, <2>2, <3>1 DEF EditCommit, RowsTyped, Fields
    <3>3. UNCHANGED <<email, document, deleted, tags, device, follows>> /\ deleted \subseteq Id
      BY <1>1, <1>4 DEF EditCommit, RowsTyped
    <3> QED
      BY <1>1, <2>3, <2>5, <3>2, <3>3 DEF RowsTyped
  <2> QED
    BY <2>4, <2>5
<1>5. CASE ReplaceTags(s)
  <2>1. by[s] \in Id /\ asked[s].tags \subseteq Tag
    BY <1>1, <1>5 DEF ReplaceTags, Asks, Sets
  <2>2. ~Insert(s) /\ ~EraseCommit(s)
    BY <1>5 DEF ReplaceTags, Insert, EraseCommit
  <2> QED
    BY <1>1, <1>5, <2>1, <2>2 DEF ReplaceTags, Added, Removed, RowsTyped
<1>6. CASE UpsertDevice(s)
  <2>1. by[s] \in Id /\ asked[s].device \in Device
    BY <1>1, <1>6 DEF UpsertDevice, Asks
  <2>2. ~Insert(s) /\ ~EraseCommit(s)
    BY <1>6 DEF UpsertDevice, Insert, EraseCommit
  <2> QED
    BY <1>1, <1>6, <2>1, <2>2 DEF UpsertDevice, RowsTyped
<1>7. CASE RemoveDevice(s)
  <2>1. asked[s].device \in Device
    BY <1>1, <1>7 DEF RemoveDevice, Asks
  <2>2. ~Insert(s) /\ ~EraseCommit(s)
    BY <1>7 DEF RemoveDevice, Insert, EraseCommit
  <2> QED
    BY <1>1, <1>7, <2>1, <2>2 DEF RemoveDevice, RowsTyped
<1>8. CASE Follow(s)
  <2>1. by[s] \in Id /\ asked[s].business \in Business
    BY <1>1, <1>8 DEF Follow, Asks
  <2>2. ~Insert(s) /\ ~EraseCommit(s)
    BY <1>8 DEF Follow, Insert, EraseCommit
  <2> QED
    BY <1>1, <1>8, <2>1, <2>2 DEF Follow, RowsTyped
<1>9. CASE UNCHANGED <<rows, late>> /\ ~Insert(s) /\ ~EraseCommit(s)
  BY <1>1, <1>9 DEF rows, RowsTyped
<1>10. Asking(s) \/ EditUser(s) \/ EraseProfile(s) \/ EraseRest(s) =>
         UNCHANGED <<rows, late>> /\ ~Insert(s) /\ ~EraseCommit(s)
  BY DEF Asking, Starts, EditUser, EraseProfile, EraseRest, rows, Insert, EraseCommit
<1> QED
  BY <1>2, <1>3, <1>4, <1>5, <1>6, <1>7, <1>8, <1>9, <1>10 DEF Moves

(* An account becomes known by its own registration and stays known.       *)
LEMMA KnownStays ==
  ASSUME AccountsConstants, AccountInv, NEW s \in Session, Moves(s), NEW u \in Id
  PROVE  /\ Known(u) => Known(u)'
         /\ Known(u)' => Known(u) \/ (Insert(s) /\ u = by[s] /\ ~Known(u))
<1>1. email \in [Id -> Email \cup {None}] /\ None \notin Email /\ None \notin Id
  BY DEF AccountInv, RowsTyped, AccountsConstants
<1>2. CASE UNCHANGED <<email, document, deleted>>
  BY <1>2 DEF Known, Registered
<1>3. CASE /\ Insert(s) /\ by[s] \in Id /\ deleted' = deleted
           /\ email'[by[s]] = asked[s].email /\ asked[s].email \in Email
           /\ \A v \in Id \ {by[s]} : email'[v] = email[v] /\ document'[v] = document[v]
  BY <1>1, <1>3 DEF Known, Registered, Insert, AccountInv, Origin
<1>4. CASE /\ EraseCommit(s) /\ by[s] \in Id /\ deleted' = deleted \cup {by[s]}
           /\ email'[by[s]] = None
           /\ \A v \in Id \ {by[s]} : email'[v] = email[v] /\ document'[v] = document[v]
  <2>1. Known(by[s])
    BY <1>4 DEF EraseCommit, AccountInv, Origin
  <2> QED
    BY <1>1, <1>4, <2>1 DEF Known, Registered
<1> QED
  BY <1>2, <1>3, <1>4, RowsMove

LEMMA SessionKeepsAsks ==
  ASSUME AccountsConstants, AccountInv, NEW s \in Session, Moves(s)
  PROVE  \A t \in Session : Asks(t)'
<1>1. (\A t \in Session : Asks(t)) /\ WorkTyped /\ RowsTyped
  BY DEF AccountInv
<1>2. ASSUME NEW t \in Session, t # s PROVE Asks(t)'
  <2>1. /\ pc'[t] = pc[t] /\ by'[t] = by[t] /\ asked'[t] = asked[t]
        /\ read'[t] = read[t] \/ (pc[t] \in {"device", "remove"} /\ read'[t] = [owner |-> Gone])
    BY <1>2 DEF Moves, Asking, Starts, Ends, Goes, Others, OthersRead
  <2>2. [owner |-> Gone] \in Owned
    BY DEF Owned
  <2> QED
    BY <1>1, <2>1, <2>2 DEF Asks, Erasing
<1>3. Asks(s)'
  <2>1. CASE Asking(s)
    <3>1. CASE \E u \in Id, card \in Card : Starts(s, "insert", u, card, None)
      BY <3>1 DEF Starts, Asks, Erasing
    <3>2. ASSUME NEW u \in Id, NEW w \in Fields, Starts(s, "edit user", u, w, None)
          PROVE  Asks(s)'
      BY <3>2 DEF Starts, Asks, Erasing
    <3>3. ASSUME NEW u \in Id, NEW b \in Business, Starts(s, "follow", u, [business |-> b], None)
          PROVE  Asks(s)'
      <4>1. [business |-> b] \in [business : Business]
        OBVIOUS
      <4> QED
        BY <3>3, <4>1 DEF Starts, Asks, Erasing
    <3>4. ASSUME NEW u \in Id, ActiveUser(u),
                 Starts(s, "erase profile", u, None, [about |-> profile[u].about])
          PROVE  Asks(s)'
      <4>1. [about |-> profile[u].about] \in Seen
        BY <3>4 DEF AccountInv, Fields, Seen
      <4> QED
        BY <3>4, <4>1 DEF Starts, Asks, Erasing
    <3>5. ASSUME NEW u \in Id, NEW chosen \in SUBSET Tag,
                 Starts(s, "tags", u, [tags |-> chosen], [tags |-> tags[u]])
          PROVE  Asks(s)'
      <4>1. [tags |-> chosen] \in Sets /\ [tags |-> tags[u]] \in Sets
        BY <1>1 DEF Sets, RowsTyped
      <4> QED
        BY <3>5, <4>1 DEF Starts, Asks, Erasing
    <3>6. ASSUME NEW u \in Id, NEW d \in Device, NEW o \in {device[d], u},
                 \E stage \in {"device", "remove"} :
                   Starts(s, stage, u, [device |-> d], [owner |-> o])
          PROVE  Asks(s)'
      <4>1. [device |-> d] \in [device : Device] /\ [owner |-> o] \in Owned
        BY <1>1, <3>6 DEF Owned, RowsTyped
      <4> QED
        BY <3>6, <4>1 DEF Starts, Asks, Erasing
    <3> QED
      BY <2>1, <3>1, <3>2, <3>3, <3>4, <3>5, <3>6 DEF Asking
  <2>2. CASE pc'[s] = "idle"
    BY <2>2 DEF Asks, Erasing
  <2>3. CASE \/ EditUser(s) /\ Goes(s, "edit profile")
             \/ EraseProfile(s) /\ Goes(s, "erase rest")
             \/ EraseRest(s) /\ Goes(s, "erase user")
    BY <1>1, <2>3 DEF Asks, EditUser, EraseProfile, EraseRest, Goes, Erasing
  <2> QED
    BY <2>1, <2>2, <2>3 DEF Moves, Ends
<1> QED
  BY <1>2, <1>3

LEMMA SessionKeepsOrigin ==
  ASSUME AccountsConstants, AccountInv, NEW s \in Session, Moves(s)
  PROVE  \A t \in Session : Origin(t)'
<1>1. /\ \A t \in Session : Asks(t) /\ Origin(t)
      /\ None \notin Id /\ WorkTyped
  BY DEF AccountInv, AccountsConstants
<1>2. \A t \in Session \ {s} : pc'[t] = pc[t] /\ by'[t] = by[t]
  BY DEF Moves, Asking, Starts, Ends, Goes, Others
<1>3. ASSUME NEW t \in Session, pc'[t] \notin {"idle", "insert"}
      PROVE  email'[by'[t]] # None \/ by'[t] \in deleted'
  <2>1. by'[t] \in Id /\ Known(by'[t])
    <3>1. CASE t # s \/ (by'[t] = by[t] /\ pc[t] \notin {"idle", "insert"})
      BY <1>1, <1>2, <1>3, <3>1 DEF Asks, Origin
    <3>2. CASE t = s /\ Asking(s)
      BY <1>3, <3>2 DEF Asking, Starts, Known, ActiveUser
    <3> QED
      BY <1>3, <3>1, <3>2 DEF Moves, Ends, Goes, EditUser, EraseProfile, EraseRest
  <2>2. PICK u \in Id : u = by'[t]
    BY <2>1
  <2>3. Known(u)'
    BY <2>1, <2>2, KnownStays
  <2> QED
    BY <2>2, <2>3 DEF Known, Registered
<1>4. ASSUME NEW t \in Session, pc'[t] = "insert"
      PROVE  /\ email'[by'[t]] = None /\ by'[t] \notin deleted'
             /\ \A r \in Session \ {t} : by'[r] # by'[t]
  <2>1. CASE t = s
    <3>1. PICK u \in Id, card \in Card :
            /\ ~Registered(u) /\ u \notin deleted /\ \A r \in Session : by[r] # u
            /\ Starts(s, "insert", u, card, None)
      BY <1>4, <2>1 DEF Moves, Asking, Starts, Ends, Goes
    <3> QED
      BY <1>2, <2>1, <3>1 DEF Starts, Known, Registered
  <2>2. CASE t # s
    <3>1. /\ by'[t] = by[t] /\ by[t] \in Id /\ ~Known(by[t]) /\ pc[t] = "insert"
          /\ \A r \in Session \ {t} : by[r] # by[t]
      BY <1>1, <1>2, <1>4, <2>2 DEF Asks, Origin
    <3>2. PICK u \in Id : u = by[t]
      BY <3>1
    <3>3. ~Known(u)'
      BY <2>2, <3>1, <3>2, KnownStays
    <3>4. by'[s] # u
      BY <1>1, <2>2, <3>1, <3>2 DEF Moves, Asking, Starts, Ends, Goes, Known, ActiveUser
    <3> QED
      BY <1>2, <3>1, <3>2, <3>3, <3>4 DEF Known, Registered
  <2> QED
    BY <2>1, <2>2
<1> QED
  BY <1>3, <1>4 DEF Origin, Known, Registered

LEMMA SessionKeepsSaw ==
  ASSUME AccountsConstants, AccountInv, NEW s \in Session, Moves(s)
  PROVE  \A t \in Session : Saw(t)'
<1>1. /\ \A t \in Session : Asks(t) /\ Origin(t) /\ Saw(t)
      /\ WorkTyped /\ RowsTyped
  BY DEF AccountInv
<1>2. ASSUME NEW t \in Session, pc'[t] \in Erasing, read'[t].about = None
      PROVE  profile'[by'[t]].about = None \/ by'[t] \in late'
  <2>1. CASE t = s /\ Asking(s)
    <3>1. PICK u \in Id : Starts(s, "erase profile", u, None, [about |-> profile[u].about])
      BY <1>2, <2>1 DEF Asking, Starts, Erasing
    <3>2. read'[s] = [about |-> profile[u].about] /\ by'[s] = u /\ profile' = profile
      BY <3>1 DEF Starts
    <3>3. read'[s].about = profile[u].about
      BY <3>2
    <3> QED
      BY <1>2, <2>1, <3>2, <3>3
  <2>2. CASE ~(t = s /\ Asking(s))
    <3>1. pc[t] \in Erasing /\ by'[t] = by[t] /\ read'[t] = read[t]
      <4>1. CASE t = s
        BY <1>2, <2>2, <4>1 DEF Moves, Goes, Ends, EditUser, EraseProfile, EraseRest, Erasing
      <4>2. CASE t # s
        BY <1>2, <4>2 DEF Moves, Asking, Starts, Goes, Ends, Others, OthersRead, Erasing
      <4> QED
        BY <4>1, <4>2
    <3>2. PICK u \in Id : u = by[t] /\ (profile[u].about = None \/ u \in late)
      BY <1>1, <1>2, <3>1 DEF Saw, Covered, Asks, Erasing
    <3>3. CASE u \in late
      BY <3>1, <3>2, <3>3, RowsMove
    <3>4. CASE profile[u].about = None /\ Insert(s)
      <4>1. by[s] # u /\ by[s] \in Id
        BY <1>1, <3>1, <3>2, <3>4 DEF Insert, Origin, Asks, Erasing
      <4> QED
        BY <1>1, <3>1, <3>2, <3>4, <4>1 DEF Insert, RowsTyped
    <3>5. CASE profile[u].about = None /\ EditCommit(s)
      <4>1. by[s] \in Id /\ pc[s] = "edit profile"
        BY <1>1, <3>5 DEF EditCommit, Asks
      <4>2. CASE u = by[s] /\ userLock[u] = s
        <5>1. SawNoAbout(u)
          BY <1>2, <3>1, <3>2 DEF SawNoAbout, Erasing
        <5> QED
          BY <3>1, <3>2, <3>5, <4>2, <5>1 DEF EditCommit
      <4>3. CASE u = by[s] /\ userLock[u] # s
        <5>1. /\ profile[u] \in [name : Value, place : Value, about : About] \cup Leftover
              /\ profile'[u] = [profile[u] EXCEPT !.name = @, !.about = @,
                                  !.place = IF Editable(u) THEN asked[s].place ELSE @]
          BY <1>1, <3>2, <3>5, <4>3 DEF EditCommit, RowsTyped, Fields
        <5>2. profile'[u].about = profile[u].about
          BY <5>1 DEF Leftover
        <5> QED
          BY <3>1, <3>2, <3>5, <5>2
      <4>4. CASE u # by[s]
        BY <1>1, <3>1, <3>2, <3>5, <4>1, <4>4 DEF EditCommit, RowsTyped
      <4> QED
        BY <4>2, <4>3, <4>4
    <3>6. CASE profile[u].about = None /\ EraseCommit(s)
      <4>1. profile' = [profile EXCEPT ![by[s]] = Remains(s)]
        BY <3>6 DEF EraseCommit
      <4>2. u = by[s] => Remains(s).about = None
        BY <3>6 DEF Remains, Blank
      <4> QED
        BY <1>1, <3>1, <3>2, <3>6, <4>1, <4>2 DEF RowsTyped
    <3>7. CASE profile[u].about = None /\ profile' = profile
      BY <3>1, <3>2, <3>7
    <3>8. profile' = profile \/ Insert(s) \/ EditCommit(s) \/ EraseCommit(s)
      BY DEF Moves, Asking, Starts, Goes, ReplaceTags, UpsertDevice, RemoveDevice, Follow, rows
    <3> QED
      BY <3>2, <3>3, <3>4, <3>5, <3>6, <3>7, <3>8
  <2> QED
    BY <2>1, <2>2
<1> QED
  BY <1>2 DEF Saw, Covered

LEMMA SessionKeepsInv ==
  ASSUME AccountsConstants, AccountInv, NEW s \in Session, Steps(s)
  PROVE  AccountInv'
<1>1. /\ Moves(s) /\ WorkTyped' /\ RowsTyped'
      /\ \A t \in Session : Asks(t)' /\ Origin(t)' /\ Saw(t)'
  BY SessionMoves, RowsMove, SessionKeepsAsks, SessionKeepsOrigin, SessionKeepsSaw
<1>2. /\ None \notin Id /\ None \notin Email /\ None \notin Session
      /\ WorkTyped /\ RowsTyped /\ DeletedStaysBlank /\ Asks(s) /\ Origin(s) /\ Saw(s)
      /\ \A u \in deleted : userLock[u] = None
      /\ "given" \in Value
  BY DEF AccountInv, AccountsConstants
<1>3. ASSUME NEW v \in deleted'
      PROVE  /\ email'[v] = None /\ document'[v] = None
             /\ profile'[v].name = None /\ profile'[v].place = None
             /\ profile'[v].about = None \/ v \in late'
  <2>1. CASE EraseCommit(s) /\ v = by[s]
    <3>1. /\ email'[v] = None /\ document'[v] = None /\ late' = late
          /\ profile'[v] = Remains(s) /\ pc[s] = "erase user"
      BY <1>1, <2>1, RowsMove DEF EraseCommit, Insert
    <3>2. Remains(s).name = None /\ Remains(s).place = None
      BY DEF Remains, Blank
    <3>3. Remains(s).about = None \/ v \in late
      BY <1>2, <2>1, <3>1 DEF Remains, Blank, Saw, Covered, Erasing
    <3> QED
      BY <3>1, <3>2, <3>3
  <2>2. CASE ~(EraseCommit(s) /\ v = by[s])
    <3>1. v \in deleted /\ v \in Id
      BY <1>1, <1>2, <1>3, <2>2, RowsMove DEF RowsTyped
    <3>2. ~(Insert(s) /\ v = by[s])
      BY <1>2, <3>1 DEF Insert, Origin, Known
    <3>3. email'[v] = email[v] /\ document'[v] = document[v]
      BY <1>1, <2>2, <3>1, <3>2, RowsMove
    <3>4. profile'[v] = profile[v] /\ late \subseteq late'
      BY <1>1, <2>2, <3>1, <3>2, RowsMove
    <3> QED
      BY <1>2, <3>1, <3>3, <3>4 DEF DeletedStaysBlank
  <2> QED
    BY <2>1, <2>2
<1>4. ASSUME NEW u \in Id, ActiveUser(u)' PROVE profile'[u] \in Fields
  <2>1. CASE ActiveUser(u)
    <3>1. EraseCommit(s) /\ u = by[s] => u \in deleted'
      BY DEF EraseCommit
    <3> QED
      BY <1>1, <1>4, <2>1, <3>1, RowsMove DEF ActiveUser
  <2>2. CASE ~ActiveUser(u)
    <3>1. Known(u)' /\ u \notin deleted'
      BY <1>4 DEF ActiveUser, Known
    <3>2. deleted \subseteq deleted'
      BY <1>1, RowsMove
    <3>3. Insert(s) /\ u = by[s]
      BY <1>1, <2>2, <3>1, <3>2, KnownStays DEF ActiveUser, Known
    <3> QED
      BY <1>1, <3>3, RowsMove DEF Insert, EraseCommit
  <2> QED
    BY <2>1, <2>2
<1>5. ASSUME NEW u \in deleted' PROVE userLock'[u] = None
  <2>1. u \in Id
    BY <1>1 DEF RowsTyped
  <2>2. CASE \E how \in {"done", "refused", "failed"} : Ends(s, how)
    <3>1. userLock'[u] = userLock[u] \/ userLock'[u] = None
      BY <2>1, <2>2 DEF Ends
    <3>2. u \in deleted \/ (EraseCommit(s) /\ u = by[s])
      BY <1>1, RowsMove
    <3> QED
      BY <1>2, <3>1, <3>2 DEF EraseCommit
  <2>3. CASE Asking(s)
    BY <1>2, <2>3 DEF Asking, Starts
  <2>4. CASE EditUser(s)
    BY <1>2, <2>1, <2>4 DEF EditUser, Editable, RowsTyped, WorkTyped, rows
  <2>5. CASE EraseProfile(s) \/ EraseRest(s)
    BY <1>2, <2>5 DEF EraseProfile, EraseRest, rows
  <2> QED
    BY <1>1, <2>2, <2>3, <2>4, <2>5 DEF Moves
<1> QED
  BY <1>1, <1>3, <1>4, <1>5 DEF AccountInv, DeletedStaysBlank

LEMMA InitAccountInv ==
  ASSUME AccountsConstants
  PROVE  Init => AccountInv
<1> SUFFICES ASSUME Init PROVE AccountInv
  OBVIOUS
<1>1. "idle" \in Stage /\ NoRows \in Doomed /\ 0 \in 0..MaxRequests
  BY DEF Stage, NoRows, Doomed, AccountsConstants
<1>2. WorkTyped
  BY <1>1 DEF Init, WorkTyped, Readings
<1>3. RowsTyped
  <2>1. Blank \in Leftover
    BY DEF Blank, Leftover, About
  <2> QED
    BY <2>1 DEF Init, RowsTyped
<1>4. (\A s \in Session : pc[s] = "idle") /\ (\A u \in Id : email[u] = None) /\ deleted = {}
  BY DEF Init
<1> QED
  BY <1>2, <1>3, <1>4 DEF AccountInv, Asks, Origin, Saw, Erasing, ActiveUser, Registered, DeletedStaysBlank

LEMMA NextKeepsAccountInv ==
  ASSUME AccountsConstants, AccountInv, [Next]_vars
  PROVE  AccountInv'
<1>1. CASE \E s \in Session : Steps(s)
  BY <1>1, SessionKeepsInv
<1>2. CASE \E u \in Id, b \in Business : Unfollow(u, b)
  <2>1. /\ UNCHANGED <<email, document, profile, deleted, tags, device, work, requests, late, outcome>>
        /\ follows' \subseteq follows /\ alone' = [s \in Session |-> FALSE]
    BY <1>2 DEF Unfollow
  <2> QED
    BY <2>1 DEF work, AccountInv, WorkTyped, RowsTyped, Asks, Origin, Known, ActiveUser, Registered,
       DeletedStaysBlank, Saw, Covered
<1>3. CASE UNCHANGED vars
  BY <1>3 DEF vars, rows, work, AccountInv, WorkTyped, RowsTyped, Asks, Origin, Known, ActiveUser,
     Registered, DeletedStaysBlank, Saw, Covered
<1> QED
  BY <1>1, <1>2, <1>3, NextIsASessionsOrAnUnfollow

(* Every variable keeps its type; in particular an edit that overlaps a    *)
(* deletion never leaves a name without a place.                           *)
THEOREM TypeCorrect ==
  ASSUME AccountsConstants
  PROVE  Spec => []TypeOK
<1>1. AccountInv => TypeOK
  BY TypesSuffice DEF AccountInv
<1> QED
  BY <1>1, InitAccountInv, NextKeepsAccountInv, PTL DEF Spec

(* Nothing an edit or a registration under way writes brings back what the *)
(* deletion of the account erased; what may be left is a description that  *)
(* an edit wrote between the deletion's read of a null one and its flush   *)
(* (repository/user_profile.py:190, repository/business_profile.py:118,    *)
(* repository/user.py:71).                                                 *)
THEOREM DeletionsErase ==
  ASSUME AccountsConstants
  PROVE  Spec => []DeletedStaysBlank
<1>1. AccountInv => DeletedStaysBlank
  BY DEF AccountInv
<1> QED
  BY <1>1, InitAccountInv, NextKeepsAccountInv, PTL DEF Spec

-----------------------------------------------------------------------------
(* Registration                                                            *)

LEMMA UniqueStep ==
  ASSUME AccountsConstants, AccountInv, UniqueAccounts, NEW s \in Session, Moves(s)
  PROVE  UniqueAccounts'
<1>1. email \in [Id -> Email \cup {None}] /\ None \notin Email /\ deleted \subseteq Id
  BY DEF AccountInv, RowsTyped, AccountsConstants
<1>2. SUFFICES ASSUME NEW u \in Id, NEW v \in Id \ {u}, ActiveUser(u)', ActiveUser(v)'
               PROVE  email'[u] # email'[v] /\ (v \in Namesakes(u) => document'[u] # document'[v])
  BY DEF UniqueAccounts, Namesakes
<1>3. v \in Namesakes(u) <=> u \in Namesakes(v)
  BY DEF Namesakes
<1>4. CASE /\ ActiveUser(u) /\ ActiveUser(v)
           /\ email'[u] = email[u] /\ email'[v] = email[v]
           /\ document'[u] = document[u] /\ document'[v] = document[v]
  BY <1>4 DEF UniqueAccounts
<1>5. CASE UNCHANGED <<email, document, deleted>>
  BY <1>2, <1>4, <1>5 DEF ActiveUser, Registered
<1>6. CASE /\ EraseCommit(s) /\ by[s] \in Id /\ deleted' = deleted \cup {by[s]}
           /\ \A w \in Id \ {by[s]} : email'[w] = email[w] /\ document'[w] = document[w]
  BY <1>2, <1>4, <1>6 DEF ActiveUser, Registered
<1>7. CASE /\ Insert(s) /\ by[s] \in Id /\ deleted' = deleted
           /\ email'[by[s]] = asked[s].email /\ document'[by[s]] = asked[s].document
           /\ \A w \in Id \ {by[s]} : email'[w] = email[w] /\ document'[w] = document[w]
  <2>1. /\ \A w \in Id : ActiveUser(w) => email[w] # asked[s].email
        /\ \A w \in Namesakes(by[s]) : document[w] # asked[s].document
    BY <1>7 DEF Insert, Collides, EmailTaken, DocumentTaken
  <2>2. \A w \in Id \ {by[s]} : ActiveUser(w)' => ActiveUser(w)
    BY <1>7 DEF ActiveUser, Registered
  <2>3. CASE u # by[s] /\ v # by[s]
    BY <1>2, <1>4, <1>7, <2>2, <2>3
  <2>4. CASE u = by[s]
    BY <1>2, <1>7, <2>1, <2>2, <2>4
  <2>5. CASE v = by[s]
    BY <1>2, <1>3, <1>7, <2>1, <2>2, <2>5
  <2> QED
    BY <2>3, <2>4, <2>5
<1> QED
  BY <1>5, <1>6, <1>7, RowsMove

(* Of two registrations that both found an email or a document free, one   *)
(* is refused: active accounts share no email, no two persons a CPF and no *)
(* two businesses a CNPJ (services/register_personal.py:47).               *)
THEOREM AccountsAreUnique ==
  ASSUME AccountsConstants
  PROVE  Spec => []UniqueAccounts
<1>1. Init => UniqueAccounts
  BY DEF Init, UniqueAccounts, ActiveUser, Registered
<1>2. AccountInv /\ UniqueAccounts /\ [Next]_vars => UniqueAccounts'
  <2> SUFFICES ASSUME AccountInv, UniqueAccounts, [Next]_vars PROVE UniqueAccounts'
    OBVIOUS
  <2>1. CASE \E s \in Session : Steps(s)
    BY <2>1, SessionMoves, UniqueStep
  <2>2. CASE UNCHANGED vars \/ \E u \in Id, b \in Business : Unfollow(u, b)
    <3>1. UNCHANGED <<email, document, deleted>>
      BY <2>2 DEF Unfollow, vars, rows
    <3> QED
      BY <3>1 DEF UniqueAccounts, ActiveUser, Registered
  <2> QED
    BY <2>1, <2>2, NextIsASessionsOrAnUnfollow
<1> QED
  BY <1>1, <1>2, InitAccountInv, NextKeepsAccountInv, PTL DEF Spec

-----------------------------------------------------------------------------
(* Requests that nothing overlapped                                        *)

(* What request s read is still so when nothing has overlapped it.         *)
UpToDate(s) ==
  /\ \A t \in Session \ {s} : pc[t] = "idle"
  /\ pc[s] \in {"edit user", "edit profile"} => ActiveUser(by[s])
  /\ pc[s] = "edit profile" => userLock[by[s]] = s
  /\ pc[s] = "tags" => read[s].tags = tags[by[s]]
  /\ pc[s] = "device" => read[s].owner = device[asked[s].device]
  /\ pc[s] = "remove" => read[s].owner # Gone
  /\ pc[s] = "erase user" =>
       /\ \A d \in Device : device[d] = by[s] => d \in doomed[s].devices
       /\ \A f \in follows : by[s] \in {f[1], f[2]} => f \in doomed[s].follows

AloneInv == AccountInv /\ \A s \in Session : (alone[s] /\ pc[s] # "idle") => UpToDate(s)

(* A new request that is alone has just read what it read.                 *)
LEMMA AskingIsUpToDate ==
  ASSUME AccountsConstants, AloneInv, NEW s \in Session, Asking(s), alone'[s]
  PROVE  UpToDate(s)'
<1>1. \A o \in Session : pc[o] = "idle"
  BY DEF Asking, Starts
<1>2. \A t \in Session \ {s} : pc'[t] = "idle"
  BY <1>1 DEF Asking, Starts, Others
<1>3. Gone \notin Id
  BY DEF AccountsConstants
<1>4. CASE \E u \in Id, card \in Card : Starts(s, "insert", u, card, None)
  BY <1>2, <1>4 DEF UpToDate, Starts
<1>5. ASSUME NEW u \in Id, ActiveUser(u), NEW w \in Fields, Starts(s, "edit user", u, w, None)
      PROVE  UpToDate(s)'
  BY <1>2, <1>5 DEF UpToDate, Starts, ActiveUser, Registered
<1>6. ASSUME NEW u \in Id, NEW chosen \in SUBSET Tag,
             Starts(s, "tags", u, [tags |-> chosen], [tags |-> tags[u]])
      PROVE  UpToDate(s)'
  BY <1>2, <1>6 DEF UpToDate, Starts
<1>7. ASSUME NEW u \in Id, NEW d \in Device, Starts(s, "remove", u, [device |-> d], [owner |-> u])
      PROVE  UpToDate(s)'
  BY <1>2, <1>3, <1>7 DEF UpToDate, Starts
<1>8. ASSUME NEW u \in Id, NEW d \in Device,
             Starts(s, "device", u, [device |-> d], [owner |-> device[d]])
      PROVE  UpToDate(s)'
  BY <1>2, <1>8 DEF UpToDate, Starts
<1>9. ASSUME NEW u \in Id,
             \/ \E b \in Business : Starts(s, "follow", u, [business |-> b], None)
             \/ Starts(s, "erase profile", u, None, [about |-> profile[u].about])
      PROVE  UpToDate(s)'
  <2>1. pc'[s] \in {"follow", "erase profile"}
    BY <1>9 DEF Starts
  <2> QED
    BY <1>2, <2>1 DEF UpToDate
<1> QED
  BY <1>4, <1>5, <1>6, <1>7, <1>8, <1>9 DEF Asking

(* Another statement of a request that is alone finds what it left.        *)
LEMMA GoingIsUpToDate ==
  ASSUME AccountsConstants, AloneInv, NEW s \in Session, alone[s],
         \/ EditUser(s) /\ Goes(s, "edit profile")
         \/ EraseProfile(s) /\ Goes(s, "erase rest")
         \/ EraseRest(s) /\ Goes(s, "erase user")
  PROVE  UpToDate(s)'
<1>1. pc[s] # "idle" /\ UpToDate(s) /\ WorkTyped /\ RowsTyped /\ Asks(s)
  BY DEF AloneInv, AccountInv, EditUser, EraseProfile, EraseRest
<1>2. (\A t \in Session \ {s} : pc'[t] = "idle") /\ by[s] \in Id /\ by'[s] = by[s]
  BY <1>1 DEF UpToDate, Asks, Goes, Others
<1>3. CASE EditUser(s) /\ Goes(s, "edit profile")
  <2>1. ActiveUser(by[s]) /\ userLock' = [userLock EXCEPT ![by[s]] = s]
    BY <1>1, <1>3 DEF UpToDate, EditUser, ActiveUser, Editable
  <2>2. userLock'[by[s]] = s
    BY <1>1, <1>2, <2>1 DEF WorkTyped
  <2> QED
    BY <1>2, <1>3, <2>1, <2>2 DEF UpToDate, Goes, ActiveUser, Registered
<1>4. CASE EraseProfile(s) /\ Goes(s, "erase rest")
  BY <1>2, <1>4 DEF UpToDate, Goes
<1>5. CASE EraseRest(s) /\ Goes(s, "erase user")
  <2>1. /\ doomed'[s].devices = {d \in Device : device[d] = by[s]}
        /\ doomed'[s].follows = {f \in follows : by[s] \in {f[1], f[2]}}
        /\ UNCHANGED <<device, follows>>
    BY <1>1, <1>5 DEF EraseRest, WorkTyped, Goes
  <2> QED
    BY <1>2, <1>5, <2>1 DEF UpToDate, Goes
<1> QED
  BY <1>3, <1>4, <1>5

LEMMA NextKeepsAloneInv ==
  ASSUME AccountsConstants, AloneInv, [Next]_vars
  PROVE  AloneInv'
<1>1. AccountInv'
  BY NextKeepsAccountInv DEF AloneInv
<1>2. ASSUME NEW s \in Session, Steps(s), NEW t \in Session, alone'[t], pc'[t] # "idle"
      PROVE  UpToDate(t)'
  <2>1. Moves(s)
    BY <1>2, SessionMoves DEF AloneInv
  <2>2. CASE Asking(s)
    <3>1. \A o \in Session : pc[o] = "idle"
      BY <1>2, <2>2 DEF Asking, Starts
    <3>2. t = s
      BY <1>2, <2>2, <3>1 DEF Asking, Starts, Others
    <3> QED
      BY <1>2, <2>2, <3>2, AskingIsUpToDate
  <2>3. CASE ~Asking(s)
    <3>1. pc[s] # "idle" /\ alone' = alone /\ Others(s)
      BY <2>1, <2>3 DEF Moves, EditUser, EraseProfile, EraseRest, Insert, EditCommit, ReplaceTags,
         UpsertDevice, RemoveDevice, Follow, EraseCommit, InsertRefused, TagsFail, UpsertFails,
         DeadlockVictim, Crash, Goes, Ends
    <3>2. t = s
      BY <1>2, <3>1 DEF AloneInv, UpToDate, Others
    <3>3. ~\E how \in {"done", "refused", "failed"} : Ends(s, how)
      BY <1>2, <3>2 DEF Ends
    <3> QED
      BY <1>2, <2>1, <2>3, <3>1, <3>2, <3>3, GoingIsUpToDate DEF Moves
  <2> QED
    BY <2>2, <2>3
<1>3. CASE \E s \in Session : Steps(s)
  BY <1>1, <1>2, <1>3 DEF AloneInv
<1>4. CASE \E u \in Id, b \in Business : Unfollow(u, b)
  <2>1. \A s \in Session : ~alone'[s]
    BY <1>4 DEF Unfollow
  <2> QED
    BY <1>1, <2>1 DEF AloneInv
<1>5. CASE UNCHANGED vars
  BY <1>1, <1>5 DEF AloneInv, UpToDate, ActiveUser, Registered, vars, rows, work
<1> QED
  BY <1>3, <1>4, <1>5, NextIsASessionsOrAnUnfollow

LEMMA LoneStep ==
  ASSUME AccountsConstants, AloneInv, NEW s \in Session, pc[s] # "idle", alone[s],
         Moves(s), pc'[s] = "idle", outcome'[s] = "done"
  PROVE  Landed(s)
<1>1. /\ UpToDate(s) /\ Asks(s) /\ Origin(s) /\ WorkTyped /\ RowsTyped /\ RowsTyped'
      /\ by[s] \in Id /\ None \notin Id
      /\ \A u \in Id : ActiveUser(u) => profile[u] \in Fields
  BY RowsMove DEF AloneInv, AccountInv, Asks, AccountsConstants
<1>2. \/ Insert(s) \/ EditCommit(s) \/ ReplaceTags(s) \/ UpsertDevice(s)
      \/ RemoveDevice(s) \/ Follow(s) \/ EraseCommit(s)
  BY DEF Moves, Asking, Starts, Goes, Ends
<1>3. CASE Insert(s)
  BY <1>1, <1>3 DEF Insert, Landed, RowsTyped
<1>4. CASE EditCommit(s)
  <2>1. /\ userLock[by[s]] = s /\ Editable(by[s]) /\ profile[by[s]] \in Fields
        /\ asked[s] \in Fields /\ pc[s] = "edit profile"
    BY <1>1, <1>4 DEF EditCommit, UpToDate, ActiveUser, Editable, Asks
  <2>2. profile'[by[s]] = [profile[by[s]] EXCEPT !.name = asked[s].name,
                             !.about = asked[s].about, !.place = asked[s].place]
    BY <1>1, <1>4, <2>1 DEF EditCommit, RowsTyped
  <2>3. \A p, w \in Fields :
           [p EXCEPT !.name = w.name, !.about = w.about, !.place = w.place] = w
    BY DEF Fields
  <2>4. profile'[by[s]] = asked[s]
    BY <2>1, <2>2, <2>3
  <2> QED
    BY <2>1, <2>4 DEF Landed
<1>5. CASE ReplaceTags(s)
  <2>1. /\ pc[s] = "tags" /\ read[s].tags = tags[by[s]]
        /\ tags'[by[s]] = (tags[by[s]] \ Removed(s)) \cup Added(s)
    BY <1>1, <1>5 DEF ReplaceTags, UpToDate, RowsTyped
  <2>2. tags'[by[s]] = asked[s].tags
    BY <2>1 DEF Removed, Added
  <2> QED
    BY <2>1, <2>2 DEF Landed
<1>6. CASE UpsertDevice(s)
  <2>1. /\ asked[s].device \in Device /\ pc[s] = "device"
        /\ read[s].owner = device[asked[s].device]
    BY <1>1, <1>6 DEF UpsertDevice, Asks, UpToDate
  <2> QED
    BY <1>1, <1>6, <2>1 DEF UpsertDevice, Landed, RowsTyped
<1>7. CASE RemoveDevice(s)
  <2>1. asked[s].device \in Device /\ read[s].owner # Gone /\ pc[s] = "remove"
    BY <1>1, <1>7 DEF RemoveDevice, Asks, UpToDate
  <2> QED
    BY <1>1, <1>7, <2>1 DEF RemoveDevice, Landed, RowsTyped
<1>8. CASE Follow(s)
  BY <1>8 DEF Follow, Landed
<1>9. CASE EraseCommit(s)
  <2>1. /\ pc[s] = "erase user" /\ by[s] \in deleted'
        /\ \A d \in Device : device[d] = by[s] => d \in doomed[s].devices
        /\ \A f \in follows : by[s] \in {f[1], f[2]} => f \in doomed[s].follows
    BY <1>1, <1>9 DEF EraseCommit, UpToDate
  <2>2. \A d \in Device : device'[d] # by[s]
    BY <1>1, <1>9, <2>1 DEF EraseCommit
  <2>3. \A f \in follows' : by[s] \notin {f[1], f[2]}
    BY <1>9, <2>1 DEF EraseCommit
  <2> QED
    BY <2>1, <2>2, <2>3 DEF Landed
<1> QED
  BY <1>2, <1>3, <1>4, <1>5, <1>6, <1>7, <1>8, <1>9

(* A request that nothing overlapped leaves exactly what it was asked for, *)
(* although it writes a difference from what it read, or writes over it    *)
(* (repository/user_tags.py:58, services/user_profile.py:110).             *)
THEOREM LoneRequestsLand ==
  ASSUME AccountsConstants
  PROVE  Spec => LoneWritesLand
<1>1. Init => AloneInv
  BY InitAccountInv DEF AloneInv, Init
<1>2. AloneInv /\ [Next]_vars => AloneInv'
  BY NextKeepsAloneInv
<1>3. AloneInv /\ [Next]_vars => [LoneWriteLands]_vars
  <2> SUFFICES ASSUME AloneInv, [Next]_vars, ~UNCHANGED vars,
                      NEW t \in Session, pc[t] # "idle", pc'[t] = "idle", alone[t], outcome'[t] = "done"
               PROVE  Landed(t)
    BY DEF LoneWriteLands
  <2>1. CASE \E s \in Session : Steps(s)
    <3>1. PICK s \in Session : Steps(s)
      BY <2>1
    <3>2. Moves(s)
      BY <3>1, SessionMoves DEF AloneInv
    <3>3. t = s
      BY <3>2 DEF Moves, Asking, Starts, Goes, Ends, Others
    <3> QED
      BY <3>2, <3>3, LoneStep
  <2>2. CASE \E u \in Id, b \in Business : Unfollow(u, b)
    BY <2>2 DEF Unfollow, work
  <2> QED
    BY <2>1, <2>2, NextIsASessionsOrAnUnfollow
<1> QED
  BY <1>1, <1>2, <1>3, PTL DEF Spec, LoneWritesLand
=============================================================================
