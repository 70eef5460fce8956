---------------------------- MODULE Participation ----------------------------
(***************************************************************************)
(* The requests that move people in and out of events, at the grain of     *)
(* their PostgreSQL transactions: asking to join, accepting an invite      *)
(* link, the organizer's answer, leaving, cancelling the event, telling    *)
(* its participants that it was rescheduled, blocking and unblocking, and  *)
(* deleting an account.                                                    *)
(*                                                                         *)
(* Each session serves one HTTP request at a time and is one READ          *)
(* COMMITTED transaction: what it reads is what others have committed,     *)
(* what it writes becomes visible in one step, its commit.  The locks are  *)
(* the ones the code takes: the event row (SELECT ... FOR UPDATE, or the   *)
(* UPDATE of a cancellation), the advisory lock of a pair of users, and    *)
(* the participant row (SELECT ... FOR UPDATE).  A row that refers to an   *)
(* event also takes its KEY SHARE lock, which only a SELECT ... FOR UPDATE *)
(* excludes.  Locks are held until the transaction ends.                   *)
(***************************************************************************)
EXTENDS Naturals, FiniteSets

CONSTANTS
  User,         \* people with an account
  Event,        \* event ids
  Session,      \* database sessions, one per request being served
  Organizer,    \* Organizer[e] is the user who creates event e
  MaxCapacity,  \* largest max_participants considered
  Operations,   \* bound: the kinds of request users make
  MaxRequests,  \* bound: requests started in a behaviour
  None          \* the null of a nullable column, of a free lock

ASSUME ParticipationAssumption ==
  /\ IsFiniteSet(User)
  /\ Organizer \in [Event -> User]
  /\ MaxCapacity \in Nat
  /\ MaxRequests \in Nat
  /\ None \notin Session
  /\ None \notin 1..MaxCapacity

VARIABLES
  \* what the organizer asked for when creating the event; never updated
  privacy,        \* privacy[e]: event_privacy
  capacity,       \* capacity[e]: max_participants, None when there is no limit
  \* committed rows
  eventStatus,    \* eventStatus[e]: "ABSENT" before the INSERT, then event_status
  participation,  \* participation[e][u]: "NONE" while there is no row, then status
  blocks,         \* rows of user_block, as <<blocker, blocked>>
  deleted,        \* users whose deleted_at is set
  links,          \* events with a row in event_invite_link
  inbox,          \* rows of notification, with their detail row
  \* locks: the session that holds each, or None
  eventLock, pairLock, rowLock,
  \* sessions
  pc,             \* pc[s]: the statement session s is about to run
  job,            \* job[s]: the request session s serves
  recipients,     \* recipients[s]: who its notices have still to reach
  draft,          \* draft[s]: notices inserted and not yet committed
  doomed,         \* doomed[s]: the rows that a deletion's UPDATE found
  \* environment
  phase,          \* phase[e]: where the clock is relative to starts_at, ends_at
  served,         \* requests started so far
  raced           \* users who asked for a seat and for their deletion at once

params      == <<privacy, capacity>>
rows        == <<eventStatus, participation, blocks, deleted, links, inbox>>
locks       == <<eventLock, pairLock, rowLock>>
sessionVars == <<pc, job, recipients, draft, doomed>>
environment == <<phase, served, raced>>
vars == <<params, rows, locks, sessionVars, environment>>

-----------------------------------------------------------------------------
(* Values *)

Privacy     == {"PUBLIC", "PRIVATE", "INVITE_ONLY"}
EventStatus == {"ABSENT", "PUBLISHED", "CANCELLED"}
Status      == {"NONE", "PENDING", "CONFIRMED", "REJECTED", "REMOVED", "CANCELLED"}
Phase       == {"UPCOMING", "STARTED", "OVER"}
Capacity    == 1..MaxCapacity \cup {None}
Pair        == {{a, b} : a, b \in User}

Active      == {"PENDING", "CONFIRMED"}
(* A removed user could come back. *)
MutReenterable == {"NONE", "CANCELLED", "REMOVED"}
Reenterable == {"NONE", "CANCELLED"}

(* Notices to the organizer about a participant, and to a participant.     *)
ToOrganizer   == {"EVENT_PARTICIPATION_REQUEST", "EVENT_PARTICIPANT_JOINED"}
ToParticipant == {"EVENT_REQUEST_APPROVED", "EVENT_REQUEST_REJECTED",
                  "EVENT_PARTICIPANT_REMOVED", "EVENT_CANCELLED", "EVENT_UPDATED"}
Notice == [type : ToOrganizer \cup ToParticipant, event : Event, user : User]

MakeNotice(type, e, u) == [type |-> type, event |-> e, user |-> u]

EventOps   == {"join", "accept", "answer", "leave", "cancel", "reschedule", "create"}
AccountOps == {"block", "unblock", "delete"}
Granting   == {"join", "accept", "answer"}
Entering   == {"join", "accept"}
Notifying  == {"cancel", "reschedule"}
Step       == {"idle", "event", "pair", "row", "scan", "write", "next", "flush", "push",
               "drop"}

MakeJob(op, a, e, u, g) == [op |-> op, actor |-> a, event |-> e, user |-> u, goal |-> g]
NoJob == MakeJob("none", None, None, None, "NONE")
AnswerGoal == {"CONFIRMED", "REJECTED", "REMOVED"}
EventJob   == [op : EventOps \ {"answer"}, actor : User, event : Event, user : User,
               goal : {"NONE", "PENDING", "CONFIRMED"}]
AnswerJob  == [op : {"answer"}, actor : User, event : Event, user : User, goal : AnswerGoal]
AccountJob == [op : AccountOps, actor : User, event : {None}, user : User, goal : {"NONE"}]
Job == EventJob \cup AnswerJob \cup AccountJob

ParamsTyped ==
  /\ privacy \in [Event -> Privacy]
  /\ capacity \in [Event -> Capacity]

RowsTyped ==
  /\ eventStatus \in [Event -> EventStatus]
  /\ participation \in [Event -> [User -> Status]]
  /\ blocks \subseteq User \X User
  /\ deleted \subseteq User
  /\ links \subseteq Event
  /\ inbox \subseteq Notice

LocksTyped ==
  /\ eventLock \in [Event -> Session \cup {None}]
  /\ pairLock \in [Pair -> Session \cup {None}]
  /\ rowLock \in [Event -> [User -> Session \cup {None}]]

SessionsTyped ==
  /\ pc \in [Session -> Step]
  /\ job \in [Session -> Job \cup {NoJob}]
  /\ recipients \in [Session -> SUBSET User]
  /\ draft \in [Session -> SUBSET Notice]
  /\ doomed \in [Session -> SUBSET (Event \X User)]

EnvironmentTyped ==
  /\ phase \in [Event -> Phase]
  /\ served \in 0..MaxRequests
  /\ raced \subseteq User

(* Every variable has its type; in particular a session that serves a      *)
(* request about an event knows an event and a user that exist.            *)
TypeOK == ParamsTyped /\ RowsTyped /\ LocksTyped /\ SessionsTyped /\ EnvironmentTyped

Init ==
  /\ privacy \in [Event -> Privacy]
  /\ capacity \in [Event -> Capacity]
  /\ eventStatus = [e \in Event |-> "ABSENT"]
  /\ participation = [e \in Event |-> [u \in User |-> "NONE"]]
  /\ blocks = {} /\ deleted = {} /\ links = {} /\ inbox = {}
  /\ eventLock = [e \in Event |-> None]
  /\ pairLock = [p \in Pair |-> None]
  /\ rowLock = [e \in Event |-> [u \in User |-> None]]
  /\ pc = [s \in Session |-> "idle"]
  /\ job = [s \in Session |-> NoJob]
  /\ recipients = [s \in Session |-> {}]
  /\ draft = [s \in Session |-> {}]
  /\ doomed = [s \in Session |-> {}]
  /\ phase = [e \in Event |-> "UPCOMING"]
  /\ served = 0 /\ raced = {}

-----------------------------------------------------------------------------
(* Queries over committed rows *)

Confirmed(e) == {u \in User : participation[e][u] = "CONFIRMED"}

(* Off by one at the limit. *)
MutHasSeat(e) ==
  IF capacity[e] = None THEN TRUE ELSE Cardinality(Confirmed(e)) <= capacity[e]

HasSeat(e) ==
  IF capacity[e] = None THEN TRUE ELSE Cardinality(Confirmed(e)) < capacity[e]

BlockedBetween(a, b) == <<a, b>> \in blocks \/ <<b, a>> \in blocks

PairOf(e, u) == {Organizer[e], u}

(* What dispatch adds to the inbox: nothing across a block, and nothing    *)
(* when the actor would be the recipient.                                  *)
Dispatch(type, e, u) ==
  IF \/ BlockedBetween(Organizer[e], u)
     \/ type \in ToOrganizer /\ u = Organizer[e]
  THEN {}
  ELSE {MakeNotice(type, e, u)}

RequestNotice(e, u) == MakeNotice("EVENT_PARTICIPATION_REQUEST", e, u)

(* Forgets the pending requests. *)
MutRowsBetween(a, b) ==
  {r \in Event \X User :
     PairOf(r[1], r[2]) = {a, b} /\ participation[r[1]][r[2]] = "CONFIRMED"}

(* The active rows between two users, in either direction: what a block    *)
(* cancels.                                                                *)
RowsBetween(a, b) ==
  {r \in Event \X User :
     PairOf(r[1], r[2]) = {a, b} /\ participation[r[1]][r[2]] \in Active}

(* Forgets the pending requests. *)
MutRowsOf(u) == {r \in Event \X {u} : participation[r[1]][u] = "CONFIRMED"}

RowsOf(u) == {r \in Event \X {u} : participation[r[1]][u] \in Active}

PublishedAhead(u) ==
  {e \in Event : Organizer[e] = u /\ eventStatus[e] = "PUBLISHED" /\ phase[e] # "OVER"}

-----------------------------------------------------------------------------
(* Sessions and locks *)

At(s, op, step) == pc[s] = step /\ job[s].op = op

Goto(s, step) == pc' = [pc EXCEPT ![s] = step]

(* A lock is free for s if nobody holds it, or s itself does.              *)
Available(holder, s) == holder \in {None, s}

(* SELECT without FOR UPDATE. *)
MutTakeEvent(s, e) == Available(eventLock[e], s) /\ UNCHANGED eventLock

TakeEvent(s, e) ==
  /\ Available(eventLock[e], s)
  /\ eventLock' = [eventLock EXCEPT ![e] = s]

(* Waits for the pair but does not keep it. *)
MutTakePair(s, p) == Available(pairLock[p], s) /\ UNCHANGED pairLock

TakePair(s, p) ==
  /\ Available(pairLock[p], s)
  /\ pairLock' = [pairLock EXCEPT ![p] = s]

TakeRow(s, e, u) ==
  /\ Available(rowLock[e][u], s)
  /\ rowLock' = [rowLock EXCEPT ![e][u] = s]

(* The row a notice is about refers to its event; it is inserted by the    *)
(* flush after the one that inserts the notice, so from its second notice  *)
(* on a transaction holds the KEY SHARE lock of the event.                 *)
Shares(s, e) ==
  /\ job[s].op = "reschedule" /\ job[s].event = e
  /\ \E m, n \in draft[s] : m # n

(* A SELECT ... FOR UPDATE waits for these, ...                            *)
Unshared(e) == \A s \in Session : ~Shares(s, e)

(* ... and they wait for it, but not for the UPDATE of a cancellation.     *)
ShareEvent(e) == eventLock[e] # None => job[eventLock[e]].op = "cancel"

(* A bulk UPDATE waits for whoever holds one of the rows it matches.       *)
RowsAvailable(s, matched) ==
  \A r \in matched : Available(rowLock[r[1]][r[2]], s)

(* COMMIT and ROLLBACK both release the locks of the transaction.          *)
Unlock(s) ==
  /\ eventLock' = [e \in Event |-> IF eventLock[e] = s THEN None ELSE eventLock[e]]
  /\ pairLock' = [p \in Pair |-> IF pairLock[p] = s THEN None ELSE pairLock[p]]
  /\ rowLock' = [e \in Event |->
       [u \in User |-> IF rowLock[e][u] = s THEN None ELSE rowLock[e][u]]]

(* The session is not closed: its transaction keeps its locks. *)
MutEndRequest(s) ==
  /\ Goto(s, "idle")
  /\ job' = [job EXCEPT ![s] = NoJob]
  /\ recipients' = [recipients EXCEPT ![s] = {}]
  /\ draft' = [draft EXCEPT ![s] = {}]
  /\ doomed' = [doomed EXCEPT ![s] = {}]
  /\ UNCHANGED locks

(* The transaction ends and the session goes back to the pool.             *)
EndRequest(s) ==
  /\ Unlock(s)
  /\ Goto(s, "idle")
  /\ job' = [job EXCEPT ![s] = NoJob]
  /\ recipients' = [recipients EXCEPT ![s] = {}]
  /\ draft' = [draft EXCEPT ![s] = {}]
  /\ doomed' = [doomed EXCEPT ![s] = {}]

(* An error answer: whatever was not committed is rolled back.             *)
Abort(s) == EndRequest(s) /\ UNCHANGED <<params, rows, environment>>

Racing ==
  {u \in User : \E s, t \in Session :
     /\ job[s].op = "delete" /\ job[s].user = u
     /\ job[t].op \in Entering /\ job[t].user = u}

(* A request passes authentication: its user exists and is not deleted.    *)
Begin(s, j, step) ==
  /\ pc[s] = "idle"
  /\ j.op \in Operations /\ served < MaxRequests
  /\ j.actor \notin deleted
  /\ served' = served + 1
  /\ job' = [job EXCEPT ![s] = j]
  /\ raced' = raced \cup Racing'
  /\ Goto(s, step)
  /\ UNCHANGED <<params, rows, locks, draft, doomed, phase>>

(* Moving to the next statement having taken event, pair or row lock.      *)
Proceed(s, step) ==
  /\ Goto(s, step)
  /\ UNCHANGED <<params, rows, environment, job, recipients, draft, doomed>>

(* Cancel the rows in `withdrawn`, whatever their event.                   *)
Withdraw(withdrawn) ==
  participation' = [e \in Event |-> [u \in User |->
      IF <<e, u>> \in withdrawn THEN "CANCELLED" ELSE participation[e][u]]]

-----------------------------------------------------------------------------
(* POST /events/{id}/participation: confirm, or ask to join.               *)

RequestJoin(s, u, e) ==
  /\ Begin(s, MakeJob("join", u, e, u, "NONE"), "event")
  /\ UNCHANGED recipients

JoinLockEvent(s) ==
  LET e == job[s].event IN
  /\ At(s, "join", "event")
  /\ \/ eventStatus[e] = "ABSENT" /\ Abort(s)
     \/ /\ eventStatus[e] # "ABSENT"
        /\ Unshared(e) /\ TakeEvent(s, e)
        /\ Proceed(s, "pair")
        /\ UNCHANGED <<pairLock, rowLock>>

JoinCheckPair(s) ==
  LET e == job[s].event
      u == job[s].user
      refused == \/ BlockedBetween(Organizer[e], u)
                 \/ privacy[e] = "INVITE_ONLY"
                 \/ eventStatus[e] # "PUBLISHED"
                 \/ Organizer[e] = u
  IN
  /\ At(s, "join", "pair")
  /\ Available(pairLock[PairOf(e, u)], s)
  /\ \/ refused /\ Abort(s)
     \/ /\ ~refused
        /\ TakePair(s, PairOf(e, u))
        /\ Proceed(s, "row")
        /\ UNCHANGED <<eventLock, rowLock>>

(* The existing row is locked and re-read; a public event confirms, a      *)
(* private one leaves the request to the organizer.                        *)
JoinDecide(s) ==
  LET e == job[s].event
      u == job[s].user
      exists == participation[e][u] # "NONE"
      refused == participation[e][u] \notin Reenterable \/ ~HasSeat(e)
      target == IF privacy[e] = "PUBLIC" THEN "CONFIRMED" ELSE "PENDING"
  IN
  /\ At(s, "join", "row")
  /\ exists => Available(rowLock[e][u], s)
  /\ \/ refused /\ Abort(s)
     \/ /\ ~refused
        /\ IF exists THEN TakeRow(s, e, u) ELSE UNCHANGED rowLock
        /\ job' = [job EXCEPT ![s].goal = target]
        /\ Goto(s, "write")
        /\ UNCHANGED <<params, rows, environment, eventLock, pairLock, recipients, draft,
                       doomed>>

JoinCommit(s) ==
  LET e == job[s].event
      u == job[s].user
      g == job[s].goal
      type == IF g = "CONFIRMED" THEN "EVENT_PARTICIPANT_JOINED"
                                 ELSE "EVENT_PARTICIPATION_REQUEST"
  IN
  /\ At(s, "join", "write")
  /\ participation' = [participation EXCEPT ![e][u] = g]
  /\ inbox' = inbox \cup Dispatch(type, e, u)
  /\ EndRequest(s)
  /\ UNCHANGED <<params, environment, eventStatus, blocks, deleted, links>>

-----------------------------------------------------------------------------
(* POST /invites/{token}/accept.  The link is looked up, and its expiry    *)
(* (the event's starts_at) compared with the clock, before any lock.       *)

RequestAccept(s, u, e) ==
  /\ e \in links
  /\ phase[e] = "UPCOMING"
  /\ Begin(s, MakeJob("accept", u, e, u, "CONFIRMED"), "event")
  /\ UNCHANGED recipients

(* Without event_status in the query. *)
MutAcceptLockEvent(s) ==
  LET e == job[s].event IN
  /\ At(s, "accept", "event")
  /\ eventStatus[e] # "ABSENT"
  /\ Unshared(e) /\ TakeEvent(s, e)
  /\ Proceed(s, "pair")
  /\ UNCHANGED <<pairLock, rowLock>>

AcceptLockEvent(s) ==
  LET e == job[s].event IN
  /\ At(s, "accept", "event")
  /\ \/ eventStatus[e] # "PUBLISHED" /\ Abort(s)
     \/ /\ eventStatus[e] = "PUBLISHED"
        /\ Unshared(e) /\ TakeEvent(s, e)
        /\ Proceed(s, "pair")
        /\ UNCHANGED <<pairLock, rowLock>>

AcceptCheckPair(s) ==
  LET e == job[s].event
      p == PairOf(e, job[s].user)
      refused == BlockedBetween(Organizer[e], job[s].user)
  IN
  /\ At(s, "accept", "pair")
  /\ Available(pairLock[p], s)
  /\ \/ refused /\ Abort(s)
     \/ /\ ~refused
        /\ TakePair(s, p)
        /\ Proceed(s, "row")
        /\ UNCHANGED <<eventLock, rowLock>>

(* Unlike JoinDecide, the existing row is read without locking it.         *)
AcceptDecide(s) ==
  LET e == job[s].event
      refused == participation[e][job[s].user] \notin Reenterable \/ ~HasSeat(e)
  IN
  /\ At(s, "accept", "row")
  /\ \/ refused /\ Abort(s)
     \/ ~refused /\ Proceed(s, "write") /\ UNCHANGED locks

AcceptCommit(s) ==
  LET e == job[s].event
      u == job[s].user
  IN
  /\ At(s, "accept", "write")
  /\ Available(rowLock[e][u], s)
  /\ participation' = [participation EXCEPT ![e][u] = "CONFIRMED"]
  /\ inbox' = inbox \cup Dispatch("EVENT_PARTICIPANT_JOINED", e, u)
  /\ EndRequest(s)
  /\ UNCHANGED <<params, environment, eventStatus, blocks, deleted, links>>

-----------------------------------------------------------------------------
(* PATCH /events/{id}/participants/{participant_id}: approve, reject or    *)
(* remove.  The status of the event plays no part.                         *)

ValidTransitions == {<<"PENDING", "CONFIRMED">>, <<"PENDING", "REJECTED">>,
                     <<"CONFIRMED", "REMOVED">>}

(* The type nothing of this code sends. *)
MutAnswerNotice(g) ==
  CASE g = "CONFIRMED" -> "EVENT_REQUEST_APPROVED"
    [] g = "REJECTED"  -> "EVENT_REQUEST_REJECTED"
    [] g = "REMOVED"   -> "EVENT_PARTICIPANT_CANCELLED"

AnswerNotice(g) ==
  CASE g = "CONFIRMED" -> "EVENT_REQUEST_APPROVED"
    [] g = "REJECTED"  -> "EVENT_REQUEST_REJECTED"
    [] g = "REMOVED"   -> "EVENT_PARTICIPANT_REMOVED"

RequestAnswer(s, a, e, u, g) ==
  /\ Begin(s, MakeJob("answer", a, e, u, g), "event")
  /\ UNCHANGED recipients

(* Locks the participant along with the event. *)
MutAnswerLockEvent(s) ==
  LET e == job[s].event IN
  /\ At(s, "answer", "event")
  /\ \/ eventStatus[e] = "ABSENT" /\ Abort(s)
     \/ /\ eventStatus[e] # "ABSENT"
        /\ Unshared(e) /\ TakeEvent(s, e)
        /\ TakeRow(s, e, job[s].user)
        /\ Proceed(s, "pair")
        /\ UNCHANGED pairLock

AnswerLockEvent(s) ==
  LET e == job[s].event IN
  /\ At(s, "answer", "event")
  /\ \/ eventStatus[e] = "ABSENT" /\ Abort(s)
     \/ /\ eventStatus[e] # "ABSENT"
        /\ Organizer[e] # job[s].actor
        /\ Unshared(e) /\ Available(eventLock[e], s)
        /\ Abort(s)
     \/ /\ eventStatus[e] # "ABSENT"
        /\ Organizer[e] = job[s].actor
        /\ Unshared(e) /\ TakeEvent(s, e)
        /\ Proceed(s, "pair")
        /\ UNCHANGED <<pairLock, rowLock>>

AnswerCheckPair(s) ==
  LET e == job[s].event
      u == job[s].user
      found == participation[e][u] # "NONE" /\ ~BlockedBetween(Organizer[e], u)
  IN
  /\ At(s, "answer", "pair")
  /\ participation[e][u] # "NONE" => Available(pairLock[PairOf(e, u)], s)
  /\ \/ ~found /\ Abort(s)
     \/ /\ found
        /\ TakePair(s, PairOf(e, u))
        /\ Proceed(s, "row")
        /\ UNCHANGED <<eventLock, rowLock>>

AnswerDecide(s) ==
  LET e == job[s].event
      u == job[s].user
      g == job[s].goal
      allowed == /\ <<participation[e][u], g>> \in ValidTransitions
                 /\ g = "CONFIRMED" => HasSeat(e)
  IN
  /\ At(s, "answer", "row")
  /\ Available(rowLock[e][u], s)
  /\ \/ ~allowed /\ Abort(s)
     \/ /\ allowed
        /\ TakeRow(s, e, u)
        /\ Proceed(s, "write")
        /\ UNCHANGED <<eventLock, pairLock>>

(* Settling a request also drops the organizer's notice of it.             *)
AnswerCommit(s) ==
  LET e == job[s].event
      u == job[s].user
      g == job[s].goal
      settled == IF g = "REMOVED" THEN {} ELSE {RequestNotice(e, u)}
  IN
  /\ At(s, "answer", "write")
  /\ participation' = [participation EXCEPT ![e][u] = g]
  /\ inbox' = (inbox \ settled) \cup Dispatch(AnswerNotice(g), e, u)
  /\ EndRequest(s)
  /\ UNCHANGED <<params, environment, eventStatus, blocks, deleted, links>>

-----------------------------------------------------------------------------
(* DELETE /events/{id}/participation: the user gives up a seat or a        *)
(* request.  No pair lock, no notice.                                      *)

RequestLeave(s, u, e) ==
  /\ Begin(s, MakeJob("leave", u, e, u, "NONE"), "event")
  /\ UNCHANGED recipients

LeaveLockEvent(s) ==
  LET e == job[s].event IN
  /\ At(s, "leave", "event")
  /\ \/ eventStatus[e] = "ABSENT" /\ Abort(s)
     \/ /\ eventStatus[e] # "ABSENT"
        /\ Unshared(e) /\ TakeEvent(s, e)
        /\ Proceed(s, "row")
        /\ UNCHANGED <<pairLock, rowLock>>

LeaveDecide(s) ==
  LET e == job[s].event
      u == job[s].user
      allowed == participation[e][u] \in Active /\ phase[e] # "OVER"
  IN
  /\ At(s, "leave", "row")
  /\ participation[e][u] # "NONE" => Available(rowLock[e][u], s)
  /\ \/ ~allowed /\ Abort(s)
     \/ /\ allowed
        /\ TakeRow(s, e, u)
        /\ Proceed(s, "write")
        /\ UNCHANGED <<eventLock, pairLock>>

(* Leaves the organizer's notice behind. *)
MutLeaveCommit(s) ==
  /\ At(s, "leave", "write")
  /\ participation' = [participation EXCEPT ![job[s].event][job[s].user] = "CANCELLED"]
  /\ EndRequest(s)
  /\ UNCHANGED <<params, environment, eventStatus, blocks, deleted, links, inbox>>

LeaveCommit(s) ==
  LET e == job[s].event
      u == job[s].user
  IN
  /\ At(s, "leave", "write")
  /\ participation' = [participation EXCEPT ![e][u] = "CANCELLED"]
  /\ inbox' = inbox \ {RequestNotice(e, u)}
  /\ EndRequest(s)
  /\ UNCHANGED <<params, environment, eventStatus, blocks, deleted, links>>

-----------------------------------------------------------------------------
(* POST and DELETE /users/{id}/block.                                      *)

RequestBlock(s, a, b) ==
  /\ a # b
  /\ b \notin deleted
  /\ Begin(s, MakeJob("block", a, None, b, "NONE"), "pair")
  /\ UNCHANGED recipients

BlockLockPair(s) ==
  /\ At(s, "block", "pair")
  /\ TakePair(s, {job[s].actor, job[s].user})
  /\ Proceed(s, "write")
  /\ UNCHANGED <<eventLock, rowLock>>

(* Also when the block already exists: its effects are applied again       *)
(* before the request is refused.                                          *)
BlockCommit(s) ==
  LET a == job[s].actor
      b == job[s].user
  IN
  /\ At(s, "block", "write")
  /\ RowsAvailable(s, RowsBetween(a, b))
  /\ blocks' = blocks \cup {<<a, b>>}
  /\ Withdraw(RowsBetween(a, b))
  /\ inbox' = {n \in inbox : PairOf(n.event, n.user) # {a, b}}
  /\ EndRequest(s)
  /\ UNCHANGED <<params, environment, eventStatus, deleted, links>>

RequestUnblock(s, a, b) ==
  /\ Begin(s, MakeJob("unblock", a, None, b, "NONE"), "pair")
  /\ UNCHANGED recipients

UnblockCommit(s) ==
  LET a == job[s].actor
      b == job[s].user
  IN
  /\ At(s, "unblock", "pair")
  /\ Available(pairLock[{a, b}], s)
  /\ blocks' = blocks \ {<<a, b>>}
  /\ EndRequest(s)
  /\ UNCHANGED <<params, environment, eventStatus, participation, deleted, links, inbox>>

-----------------------------------------------------------------------------
(* DELETE /users/me: refused while the user organizes a published event    *)
(* that is not over; that check takes no lock the others respect.  The     *)
(* UPDATE of the participations finds the rows that are committed and      *)
(* active when it starts; it waits for those that others hold, and leaves  *)
(* alone the ones that are no longer active by then.  A row that becomes   *)
(* active after it started is never touched.                               *)

RequestDelete(s, u) ==
  /\ PublishedAhead(u) = {}
  /\ Begin(s, MakeJob("delete", u, None, u, "NONE"), "scan")
  /\ UNCHANGED recipients

DeleteScan(s) ==
  /\ At(s, "delete", "scan")
  /\ doomed' = [doomed EXCEPT ![s] = RowsOf(job[s].user)]
  /\ Goto(s, "write")
  /\ UNCHANGED <<params, rows, locks, environment, job, recipients, draft>>

Doomed(s) == doomed[s] \cap RowsOf(job[s].user)

(* The UPDATE ends and the deletion commits.  In between nobody can change *)
(* the rows it reached, so the two are one step.                           *)
DeleteCommit(s) ==
  /\ At(s, "delete", "write")
  /\ RowsAvailable(s, Doomed(s))
  /\ deleted' = deleted \cup {job[s].user}
  /\ Withdraw(Doomed(s))
  /\ EndRequest(s)
  /\ UNCHANGED <<params, environment, eventStatus, blocks, links, inbox>>

-----------------------------------------------------------------------------
(* POST /events and POST /events/{id}/invite-link.                         *)

RequestCreate(s, e) ==
  /\ eventStatus[e] = "ABSENT"
  /\ phase[e] = "UPCOMING"
  /\ \A t \in Session : ~(job[t].op = "create" /\ job[t].event = e)
  /\ Begin(s, MakeJob("create", Organizer[e], e, Organizer[e], "NONE"), "write")
  /\ UNCHANGED recipients

CreateCommit(s) ==
  /\ At(s, "create", "write")
  /\ eventStatus' = [eventStatus EXCEPT ![job[s].event] = "PUBLISHED"]
  /\ EndRequest(s)
  /\ UNCHANGED <<params, environment, participation, blocks, deleted, links, inbox>>

(* One read of the event and one INSERT, in one step: nothing it reads     *)
(* changes once the event exists.                                          *)
CreateInviteLink(e) ==
  /\ e \notin links
  /\ Organizer[e] \notin deleted
  /\ eventStatus[e] # "ABSENT"
  /\ privacy[e] = "INVITE_ONLY"
  /\ links' = links \cup {e}
  /\ UNCHANGED <<params, eventStatus, participation, blocks, deleted, inbox,
                 locks, sessionVars, environment>>

-----------------------------------------------------------------------------
(* PATCH /events/{id}/cancel.  The organizer check and the list of active  *)
(* participants are plain SELECTs; the new status stays in the session     *)
(* until the first flush, which is the UPDATE that waits for the event     *)
(* row.  Each recipient is notified under the lock of its pair with the    *)
(* organizer, so the locks of a cancellation are taken pair first, event   *)
(* second, the reverse of the requests that change a participation.  A     *)
(* PATCH /events/{id} that moved the event, in a transaction of its own,   *)
(* notifies the confirmed participants in the same way.                    *)

RequestCancel(s, a, e) ==
  /\ eventStatus[e] # "ABSENT"
  /\ Organizer[e] = a
  /\ Begin(s, MakeJob("cancel", a, e, a, "NONE"), "next")
  /\ recipients' = [recipients EXCEPT ![s] = {u \in User : participation[e][u] \in Active}]

RequestReschedule(s, a, e) ==
  /\ eventStatus[e] # "ABSENT"
  /\ Organizer[e] = a
  /\ Begin(s, MakeJob("reschedule", a, e, a, "NONE"), "next")
  /\ recipients' = [recipients EXCEPT ![s] = Confirmed(e)]

NotifyNext(s, u) ==
  /\ job[s].op \in Notifying /\ pc[s] = "next"
  /\ u \in recipients[s]
  /\ job' = [job EXCEPT ![s].user = u]
  /\ recipients' = [recipients EXCEPT ![s] = @ \ {u}]
  /\ Goto(s, "pair")
  /\ UNCHANGED <<params, rows, locks, environment, draft, doomed>>

NotifyCheckPair(s) ==
  LET e == job[s].event
      u == job[s].user
  IN
  /\ job[s].op \in Notifying /\ pc[s] = "pair"
  /\ TakePair(s, PairOf(e, u))
  /\ Proceed(s, IF BlockedBetween(Organizer[e], u) THEN "next" ELSE "flush")
  /\ UNCHANGED <<eventLock, rowLock>>

CancelFlush(s) ==
  LET e == job[s].event IN
  /\ At(s, "cancel", "flush")
  /\ TakeEvent(s, e)
  /\ draft' = [draft EXCEPT ![s] = @ \cup {MakeNotice("EVENT_CANCELLED", e, job[s].user)}]
  /\ Goto(s, "push")
  /\ UNCHANGED <<params, rows, environment, job, recipients, doomed, pairLock, rowLock>>

(* Expo takes the push.                                                    *)
CancelPushed(s) ==
  /\ At(s, "cancel", "push")
  /\ Proceed(s, "next")
  /\ UNCHANGED locks

(* Expo rejects a token: removing it commits the session the cancellation  *)
(* is still using, which publishes what was flushed and frees its locks.   *)
CancelTokenRejected(s) ==
  LET e == job[s].event IN
  /\ At(s, "cancel", "push")
  /\ eventStatus' = [eventStatus EXCEPT ![e] = "CANCELLED"]
  /\ inbox' = inbox \cup draft[s]
  /\ draft' = [draft EXCEPT ![s] = {}]
  /\ Unlock(s)
  /\ Goto(s, "next")
  /\ UNCHANGED <<params, environment, participation, blocks, deleted, links,
                 job, recipients, doomed>>

CancelCommit(s) ==
  LET e == job[s].event IN
  /\ At(s, "cancel", "next")
  /\ recipients[s] = {}
  /\ Available(eventLock[e], s)
  /\ eventStatus' = [eventStatus EXCEPT ![e] = "CANCELLED"]
  /\ inbox' = inbox \cup draft[s]
  /\ EndRequest(s)
  /\ UNCHANGED <<params, environment, participation, blocks, deleted, links>>

(* The flush of a notice also inserts what the one before it left pending. *)
RescheduleFlush(s) ==
  LET e == job[s].event IN
  /\ At(s, "reschedule", "flush")
  /\ draft[s] # {} => ShareEvent(e)
  /\ draft' = [draft EXCEPT ![s] = @ \cup {MakeNotice("EVENT_UPDATED", e, job[s].user)}]
  /\ \E step \in {"next", "drop"} : Goto(s, step)
  /\ UNCHANGED <<params, rows, locks, environment, job, recipients, doomed>>

(* Expo rejected a token: removing it commits what was written so far.     *)
RescheduleTokenRejected(s) ==
  /\ At(s, "reschedule", "drop")
  /\ ShareEvent(job[s].event)
  /\ inbox' = inbox \cup draft[s]
  /\ draft' = [draft EXCEPT ![s] = {}]
  /\ Unlock(s)
  /\ Goto(s, "next")
  /\ UNCHANGED <<params, environment, eventStatus, participation, blocks, deleted, links,
                 job, recipients, doomed>>

RescheduleCommit(s) ==
  /\ At(s, "reschedule", "next")
  /\ recipients[s] = {}
  /\ draft[s] # {} => ShareEvent(job[s].event)
  /\ inbox' = inbox \cup draft[s]
  /\ EndRequest(s)
  /\ UNCHANGED <<params, environment, eventStatus, participation, blocks, deleted, links>>

-----------------------------------------------------------------------------
(* Who waits for whom, and what PostgreSQL does about a cycle.             *)

WaitsForShare(s) ==
  /\ job[s].op = "reschedule"
  /\ \/ pc[s] = "flush" /\ draft[s] # {}
     \/ pc[s] = "drop"
     \/ pc[s] = "next" /\ recipients[s] = {} /\ draft[s] # {}

WaitsForEvent(s) ==
  \/ pc[s] = "event" /\ eventStatus[job[s].event] # "ABSENT"
  \/ At(s, "cancel", "flush")
  \/ At(s, "cancel", "next") /\ recipients[s] = {}

PairWanted(s) ==
  IF job[s].op \in AccountOps THEN {job[s].actor, job[s].user}
                              ELSE PairOf(job[s].event, job[s].user)

RowsWanted(s) ==
  CASE pc[s] = "row" /\ job[s].op # "accept" -> {<<job[s].event, job[s].user>>}
    [] At(s, "accept", "write") -> {<<job[s].event, job[s].user>>}
    [] At(s, "block", "write")  -> RowsBetween(job[s].actor, job[s].user)
    [] At(s, "delete", "write") -> Doomed(s)
    [] OTHER                    -> {}

WaitsFor(s, t) ==
  /\ s # t
  /\ \/ WaitsForEvent(s) /\ eventLock[job[s].event] = t
     \/ WaitsForShare(s) /\ eventLock[job[s].event] = t /\ job[t].op # "cancel"
     \/ pc[s] = "event" /\ WaitsForEvent(s) /\ Shares(t, job[s].event)
     \/ pc[s] = "pair" /\ pairLock[PairWanted(s)] = t
     \/ \E r \in RowsWanted(s) : rowLock[r[1]][r[2]] = t

HoldsPair(s) == \E p \in Pair : pairLock[p] = s
HoldsRow(s)  == \E e \in Event, u \in User : rowLock[e][u] = s

(* The transactions of a deadlock: each waits for another of the set.      *)
Deadlocked(cycle) ==
  /\ cycle # {}
  /\ \A s \in cycle : \E t \in cycle : WaitsFor(s, t)

(* The detector rolls back one transaction of a cycle.                     *)
DeadlockVictim(s) ==
  /\ \E cycle \in SUBSET Session : s \in cycle /\ Deadlocked(cycle)
  /\ Abort(s)

(* The process dies, or a statement fails: PostgreSQL rolls back.          *)
Crash(s) == pc[s] # "idle" /\ Abort(s)

EventStarts(e) ==
  /\ eventStatus[e] # "ABSENT" /\ phase[e] = "UPCOMING"
  /\ phase' = [phase EXCEPT ![e] = "STARTED"]
  /\ UNCHANGED <<params, rows, locks, sessionVars, served, raced>>

EventEnds(e) ==
  /\ phase[e] = "STARTED"
  /\ phase' = [phase EXCEPT ![e] = "OVER"]
  /\ UNCHANGED <<params, rows, locks, sessionVars, served, raced>>

(* An edit moves the dates: a new start lies ahead, a new end may.         *)
EventMoves(e) ==
  /\ eventLock[e] = None
  /\ \/ phase[e] # "UPCOMING" /\ phase' = [phase EXCEPT ![e] = "UPCOMING"]
     \/ phase[e] = "OVER" /\ phase' = [phase EXCEPT ![e] = "STARTED"]
  /\ UNCHANGED <<params, rows, locks, sessionVars, served, raced>>

-----------------------------------------------------------------------------

Request(s) ==
  \/ \E u \in User, e \in Event :
        \/ RequestJoin(s, u, e) \/ RequestAccept(s, u, e) \/ RequestLeave(s, u, e)
        \/ RequestCancel(s, u, e) \/ RequestReschedule(s, u, e)
        \/ \E v \in User, g \in AnswerGoal :
              RequestAnswer(s, u, e, v, g)
  \/ \E a, b \in User : RequestBlock(s, a, b) \/ RequestUnblock(s, a, b)
  \/ \E u \in User : RequestDelete(s, u)
  \/ \E e \in Event : RequestCreate(s, e)

Statement(s) ==
  \/ JoinLockEvent(s) \/ JoinCheckPair(s) \/ JoinDecide(s) \/ JoinCommit(s)
  \/ AcceptLockEvent(s) \/ AcceptCheckPair(s) \/ AcceptDecide(s) \/ AcceptCommit(s)
  \/ AnswerLockEvent(s) \/ AnswerCheckPair(s) \/ AnswerDecide(s) \/ AnswerCommit(s)
  \/ LeaveLockEvent(s) \/ LeaveDecide(s) \/ LeaveCommit(s)
  \/ BlockLockPair(s) \/ BlockCommit(s) \/ UnblockCommit(s)
  \/ DeleteScan(s) \/ DeleteCommit(s) \/ CreateCommit(s)
  \/ (\E u \in User : NotifyNext(s, u)) \/ NotifyCheckPair(s)
  \/ CancelFlush(s) \/ CancelPushed(s) \/ CancelTokenRejected(s) \/ CancelCommit(s)
  \/ RescheduleFlush(s) \/ RescheduleTokenRejected(s) \/ RescheduleCommit(s)

Next ==
  \/ \E s \in Session : Request(s) \/ Statement(s) \/ DeadlockVictim(s) \/ Crash(s)
  \/ \E e \in Event : CreateInviteLink(e) \/ EventStarts(e) \/ EventEnds(e) \/ EventMoves(e)

Spec == Init /\ [][Next]_vars

(* Requests that were started run on: the web server keeps executing them  *)
(* and PostgreSQL's detector looks for cycles.  Nothing forces a user to   *)
(* make a request, the process to crash, or the clock to pass an event.    *)
FairSpec ==
  /\ Spec
  /\ \A s \in Session : WF_vars(Statement(s)) /\ WF_vars(DeadlockVictim(s))

-----------------------------------------------------------------------------
(* Properties *)

(* An event never has more confirmed participants than max_participants,   *)
(* however direct confirmations, accepted invites and approvals interleave *)
(* (participation.py:74-76).                                               *)
CapacityRespected ==
  \A e \in Event : capacity[e] # None => Cardinality(Confirmed(e)) <= capacity[e]

(* While a block exists between an organizer and a user, neither a seat or *)
(* request nor any notice survives between them, on either side            *)
(* (block.py of the services, lines 64-66).                                *)
BlockSeparates ==
  \A e \in Event, u \in User :
    BlockedBetween(Organizer[e], u) =>
      /\ participation[e][u] \notin Active
      /\ \A n \in inbox : ~(n.event = e /\ n.user = u)

(* The organizer's inbox shows exactly the open requests: a pending row    *)
(* has its notice, and a notice without a pending row can only be about an *)
(* account that was deleted (notification.py:327-331).                     *)
RequestNoticesMatch ==
  \A e \in Event, u \in User :
    /\ participation[e][u] = "PENDING" => RequestNotice(e, u) \in inbox
    /\ RequestNotice(e, u) \in inbox =>
         participation[e][u] = "PENDING" \/ u \in deleted

(* The documented lock order, event before pair before participant row, is *)
(* followed by every request but those that notify all participants, a     *)
(* cancellation and a change of date or place: no other asks for an event  *)
(* while it holds a pair or a row, nor for a pair while it holds a row     *)
(* (block_access.py:39-41).                                                *)
LockOrderFollowed ==
  \A s \in Session :
    job[s].op \notin Notifying =>
      /\ WaitsForEvent(s) => ~HoldsPair(s) /\ ~HoldsRow(s)
      /\ pc[s] = "pair" => ~HoldsRow(s)

(* Event writers take the event before the pair, and block cleanup never   *)
(* takes an event, so no two requests wait for each other                  *)
(* (block_access.py:39-41).                                                *)
NoWaitCycle == ~\E cycle \in SUBSET Session : Deadlocked(cycle)

(* Only the requests that notify all participants can close a circle of    *)
(* waits: the others follow the documented order over events, pairs and    *)
(* rows, which excludes one (block_access.py:39-41).                       *)
OnlyNoticesDeadlock ==
  ~\E cycle \in SUBSET {s \in Session : job[s].op \notin Notifying} : Deadlocked(cycle)

(* A deleted account keeps neither a seat nor an open request, unless it   *)
(* asked for one while its deletion was under way: whatever else runs, the *)
(* deletion ends every participation that it found and that is still       *)
(* active when it commits (user.py of the repositories, 122-134).          *)
DeletedKeepNothing ==
  \A u \in deleted \ raced, e \in Event : participation[e][u] \notin Active

(* A rejection and a removal are final: the row never changes again, so    *)
(* the user cannot come back by another door (participation.py:100-103).   *)
AnswersAreFinal ==
  [][\A e \in Event, u \in User :
       participation[e][u] \in {"REJECTED", "REMOVED"} =>
         participation'[e][u] = participation[e][u]]_vars

(* Once an event is cancelled nobody who was out gets in: a request that   *)
(* read it as published cannot commit after the cancellation did           *)
(* (participation.py:86-87).  A request that was open when the event was   *)
(* cancelled can still be answered.                                        *)
NobodyEntersCancelledEvent ==
  [][\A e \in Event, u \in User :
       eventStatus[e] = "CANCELLED" /\ participation[e][u] \in Reenterable =>
         participation'[e][u] \in Reenterable]_vars

Confirms(s) == job[s].op = "accept" \/ job[s].goal = "CONFIRMED"

(* Between the decision to grant a request and its commit nothing can take *)
(* the seat away: the request still holds the event, and the seat it saw   *)
(* is still free (participation.py:74-76, event.py of the services, 178).  *)
GrantStaysValid ==
  \A s \in Session :
    job[s].op \in Granting =>
      /\ pc[s] \in {"pair", "row", "write"} => eventLock[job[s].event] = s
      /\ pc[s] = "write" /\ Confirms(s) => HasSeat(job[s].event)

(* Everyone with a seat or an open request at a cancelled event was told,  *)
(* once no cancellation of it is running (test_events.py:124).             *)
CancellationReachesEveryone ==
  \A e \in Event, u \in User :
    /\ eventStatus[e] = "CANCELLED"
    /\ participation[e][u] \in Active
    /\ \A s \in Session : ~(job[s].op = "cancel" /\ job[s].event = e)
    => MakeNotice("EVENT_CANCELLED", e, u) \in inbox

(* An account is never deleted while its user organizes a published event  *)
(* that has not started (delete_account.py:19-20).                         *)
NoOrphanedEvent ==
  \A e \in Event :
    ~(eventStatus[e] = "PUBLISHED" /\ phase[e] = "UPCOMING" /\ Organizer[e] \in deleted)

(* A request to join that is decided after the event ended is refused      *)
(* (routes/events.py:585).                                                 *)
FinishedEventRefusesJoins ==
  [][\A s \in Session :
       At(s, "join", "row") /\ phase[job[s].event] = "OVER" => pc'[s] # "write"]_vars

(* Every request ends: no chain of waits lasts forever.                    *)
EveryRequestEnds == \A s \in Session : pc[s] # "idle" ~> pc[s] = "idle"

(* The transactions implement the atomic operations of EventLifecycle.     *)
Lifecycle == INSTANCE EventLifecycle
ImplementsLifecycle == Lifecycle!Spec
=============================================================================
