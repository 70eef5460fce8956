------------------------------- MODULE Paging --------------------------------
(***************************************************************************)
(* A client walks a listing page by page while others change it.  Every    *)
(* paginated endpoint asks for the rows after the last one it returned, in *)
(* the order of a timestamp and then of the id, and for one row more than  *)
(* the page to know whether another page follows.  One SELECT per page:    *)
(* nothing is locked between two pages.                                    *)
(***************************************************************************)
EXTENDS Naturals, FiniteSets

CONSTANTS
  MaxRow,      \* bound: rows are 1..MaxRow, in the order of their ids
  MaxKey,      \* bound: timestamps are 0..MaxKey
  Limits,      \* page sizes clients ask for
  MaxChanges   \* bound: changes while the client walks

(* Page sizes are at least one: a smaller limit is refused, or raised to   *)
(* it (MIN_..._LIMIT of each service).                                     *)
PagingConstants ==
  /\ MaxRow \in Nat /\ MaxKey \in Nat /\ MaxChanges \in Nat
  /\ Limits \subseteq Nat \ {0}

Row == 1..MaxRow
Start == [key |-> MaxKey + 1, row |-> 0]
Cursor == [key : 0..MaxKey, row : Row]

VARIABLES
  listing,    \* the endpoint walked
  key,        \* key[r]: the timestamp row r is ordered by
  flaws,      \* flaws[r]: what keeps row r out of a list; "absent" is no row
  cursor,     \* the last row of the last page, or Start
  done,       \* whether the last page had no next_cursor
  seen,       \* seen[r]: how often the client was given row r
  disturbed,  \* rows that appeared, disappeared or moved since the first page
  moved,      \* rows whose timestamp changed since the first page
  changes     \* changes made

pagingVars == <<listing, key, flaws, cursor, done, seen, disturbed, moved, changes>>

-----------------------------------------------------------------------------
(* What the query of each listing leaves out *)

NotificationsHide == {"absent", "answered", "read"}
ParticipantsHide == {"absent", "left"}
FollowingHide == {"absent", "deleted"}
FollowersHide == {"absent", "deleted", "blocked"}
BlockedHide == {"absent", "deleted"}
PendingHide == {"absent", "answered", "deleted", "blocked"}
ConnectionsHide == {"absent", "deleted", "blocked"}
UserPhotosHide == {"absent"}
EventPhotosHide == {"absent", "deleted"}
UserEventsHide == {"absent", "cancelled", "blocked"}

Hides ==
  [notifications |-> NotificationsHide, participants |-> ParticipantsHide,
   following |-> FollowingHide, followers |-> FollowersHide, blocked |-> BlockedHide,
   pending |-> PendingHide, connections |-> ConnectionsHide,
   userPhotos |-> UserPhotosHide, eventPhotos |-> EventPhotosHide,
   userEvents |-> UserEventsHide, history |-> UserEventsHide]

Listing == DOMAIN Hides

(* The listings that start from the oldest row.                            *)
Ascending == {"participants", "userEvents"}

(* Those whose rows move: an event is rescheduled, a participant rejoins,  *)
(* a pair connects again, a business is followed or a user blocked again.  *)
Moving == Listing \ {"notifications", "pending", "userPhotos", "eventPhotos"}

(* Every variable has its type. *)
PagingTypeOK ==
  /\ listing \in Listing
  /\ key \in [Row -> 0..MaxKey]
  /\ \A r \in Row : flaws[r] \subseteq Hides[listing]
  /\ cursor \in Cursor \cup {Start}
  /\ done \in BOOLEAN /\ seen \in [Row -> Nat] /\ disturbed \subseteq Row
  /\ moved \subseteq disturbed
  /\ changes \in 0..MaxChanges

PagingInit ==
  /\ listing \in Listing
  /\ key \in [Row -> 0..MaxKey]
  /\ flaws \in [Row -> {{}, {"absent"}}]
  /\ cursor = Start /\ done = FALSE
  /\ seen = [r \in Row |-> 0] /\ disturbed = {} /\ moved = {} /\ changes = 0

-----------------------------------------------------------------------------
(* A page *)

Shown(r) == flaws[r] = {}

(* ORDER BY the timestamp and the id, both ways down or both up.           *)
Precedes(j, q, k, r) ==
  IF listing \in Ascending THEN j < k \/ (j = k /\ q < r)
                           ELSE j > k \/ (j = k /\ q > r)

(* Compares the timestamps alone.                                          *)
MutAfter(k, r, c) ==
  c = Start \/ IF listing \in Ascending THEN k > c.key ELSE k < c.key

(* Row r with timestamp k comes after the cursor c.                        *)
After(k, r, c) == c = Start \/ Precedes(c.key, c.row, k, r)

CursorOf(r) == [key |-> key[r], row |-> r]
Rest == {r \in Row : Shown(r) /\ After(key[r], r, cursor)}
Before(r) == {q \in Rest : Precedes(key[q], q, key[r], r)}
Page(limit) == {r \in Rest : Cardinality(Before(r)) < limit}
HasMore(limit) == Cardinality(Rest) > limit

(* A limit out of range or a cursor that does not decode is refused, or    *)
(* clamped and ignored (participants): clients send what they were given.  *)
ReadPage(name, limit) ==
  /\ listing = name /\ ~done
  /\ seen' = [r \in Row |-> IF r \in Page(limit) THEN seen[r] + 1 ELSE seen[r]]
  /\ done' = ~HasMore(limit)
  /\ cursor' = IF HasMore(limit)
               THEN CursorOf(CHOOSE r \in Page(limit) : Cardinality(Before(r)) = limit - 1)
               ELSE cursor
  /\ UNCHANGED <<listing, key, flaws, disturbed, moved, changes>>

ListNotifications == \E limit \in Limits : ReadPage("notifications", limit)
ListParticipants == \E limit \in Limits : ReadPage("participants", limit)
ListFollowing == \E limit \in Limits : ReadPage("following", limit)
ListFollowers == \E limit \in Limits : ReadPage("followers", limit)
ListBlocked == \E limit \in Limits : ReadPage("blocked", limit)
ListPending == \E limit \in Limits : ReadPage("pending", limit)
ListConnections == \E limit \in Limits : ReadPage("connections", limit)
ListUserPhotos == \E limit \in Limits : ReadPage("userPhotos", limit)
ListEventPhotos == \E limit \in Limits : ReadPage("eventPhotos", limit)
ListUserEvents == \E limit \in Limits : ReadPage("userEvents", limit) \/ ReadPage("history", limit)

-----------------------------------------------------------------------------
(* What others do between two pages *)

Change ==
  LET touched == {r \in Row : flaws'[r] # flaws[r] \/ key'[r] # key[r]} IN
  /\ ~done
  /\ changes < MaxChanges /\ changes' = changes + 1
  /\ disturbed' = IF cursor = Start THEN {} ELSE disturbed \cup touched
  /\ moved' = IF cursor = Start THEN {}
              ELSE moved \cup {r \in Row : key'[r] # key[r]}
  /\ UNCHANGED <<listing, cursor, done, seen>>

(* A row appears.  Its timestamp may be behind that of rows already        *)
(* listed: it is the start of an event, or of the transaction.             *)
Insert(r, k) ==
  /\ flaws[r] = {"absent"}
  /\ flaws' = [flaws EXCEPT ![r] = {}] /\ key' = [key EXCEPT ![r] = k]
  /\ Change

(* A row stops being listed, or is deleted.                                *)
Hide(r, flaw) ==
  /\ flaw # "read" /\ "absent" \notin flaws[r] /\ flaw \notin flaws[r]
  /\ flaws' = [flaws EXCEPT ![r] = IF flaw = "absent" THEN {flaw} ELSE @ \cup {flaw}]
  /\ UNCHANGED key
  /\ Change

(* PATCH /notifications/{id}/read and /notifications/read-all, while the   *)
(* client walks the unread ones.                                           *)
MarkAsRead(r) ==
  /\ listing = "notifications" /\ Shown(r)
  /\ flaws' = [flaws EXCEPT ![r] = {"read"}]
  /\ UNCHANGED key
  /\ Change

MarkAllAsRead ==
  /\ listing = "notifications" /\ \E r \in Row : Shown(r)
  /\ flaws' = [r \in Row |-> IF "absent" \in flaws[r] THEN flaws[r]
                             ELSE flaws[r] \cup {"read"}]
  /\ UNCHANGED key
  /\ Change

(* A block is lifted, which restores no connection, or a participant       *)
(* rejoins: with a new joined_at.                                          *)
Reappear(r, flaw, k) ==
  /\ flaw \in flaws[r] \cap {"blocked", "left"}
  /\ listing \notin {"pending", "connections"}
  /\ flaw = "blocked" => k = key[r]
  /\ flaws' = [flaws EXCEPT ![r] = @ \ {flaw}] /\ key' = [key EXCEPT ![r] = k]
  /\ Change

Move(r, k) ==
  /\ listing \in Moving \ {"participants"}
  /\ Shown(r) /\ k # key[r]
  /\ key' = [key EXCEPT ![r] = k]
  /\ UNCHANGED flaws
  /\ Change

PagingNext ==
  \/ ListNotifications \/ ListParticipants \/ ListFollowing \/ ListFollowers
  \/ ListBlocked \/ ListPending \/ ListConnections
  \/ ListUserPhotos \/ ListEventPhotos \/ ListUserEvents
  \/ \E r \in Row :
       \/ \E k \in 0..MaxKey : Insert(r, k) \/ Move(r, k)
       \/ MarkAsRead(r)
       \/ \E flaw \in Hides[listing] :
            Hide(r, flaw) \/ \E k \in 0..MaxKey : Reappear(r, flaw, k)
  \/ MarkAllAsRead

PagingSpec == PagingInit /\ [][PagingNext]_pagingVars

-----------------------------------------------------------------------------
(* Properties *)

(* "Pages are stable even as new rows arrive" (NotificationService), on    *)
(* every paginated list: a client that follows next_cursor to the end is   *)
(* given each row nobody touched exactly once, whatever rows appear,       *)
(* disappear or move meanwhile and whatever page sizes it asks for; no row *)
(* that kept its place is given twice, even one hidden and shown again.    *)
EachRowOnce ==
  /\ \A r \in Row \ moved : seen[r] <= 1
  /\ done => \A r \in Row \ disturbed : seen[r] = IF Shown(r) THEN 1 ELSE 0
=============================================================================
