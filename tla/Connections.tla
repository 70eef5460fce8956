----------------------------- MODULE Connections -----------------------------
(***************************************************************************)
(* Connections between people, at the grain of their PostgreSQL            *)
(* transactions: asking, accepting, rejecting, undoing, blocking,          *)
(* unblocking, and deleting an account.                                    *)
(*                                                                         *)
(* As in Participation, a session serves one request in one READ COMMITTED *)
(* transaction: it reads what is committed, and what it writes becomes     *)
(* visible in one step.  Everything but a deletion takes the advisory lock *)
(* of the pair before it locks the row of their connection.                *)
(***************************************************************************)
EXTENDS Naturals, Sequences, FiniteSets

CONSTANTS
  User,         \* people with a personal account
  Session,      \* database sessions, one per request being served
  MaxRequests,  \* bound: requests started in a behaviour
  None          \* nobody, and the holder of a free lock

ASSUME ConnectionsAssumption ==
  /\ MaxRequests \in Nat
  /\ None \notin Session
  /\ None \notin User

VARIABLES
  \* committed rows
  connections,  \* rows of user_connection, in the order of their insertion
  blocks,       \* rows of user_block, as <<blocker, blocked>>
  deleted,      \* users whose deleted_at is set
  inbox,        \* rows of notification about a connection
  \* locks
  pairLock,     \* pairLock[p]: the session that holds p's advisory lock, or None
  rowLock,      \* rowLock[s]: the connection session s holds FOR UPDATE, or 0
  \* sessions
  pc,           \* pc[s]: the statement session s is about to run
  job,          \* job[s]: the request session s serves
  doomed,       \* doomed[s]: the rows that a deletion's UPDATE found
  \* environment
  served,       \* requests started so far
  raced         \* users asked for, or asking, while their deletion was under way

rows        == <<connections, blocks, deleted, inbox>>
locks       == <<pairLock, rowLock>>
environment == <<served, raced>>
vars == <<rows, locks, pc, job, doomed, environment>>

-----------------------------------------------------------------------------
(* Values *)

Pair   == {{a, b} : a, b \in User}
Status == {"PENDING", "CONFIRMED", "REJECTED"}
Row    == [requester : User, receiver : User, status : Status, gone : BOOLEAN]

NoticeType == {"CONNECTION_REQUEST", "CONNECTION_ACCEPTED"}
MakeNotice(type, c) == [type |-> type, connection |-> c]

AnswerOps == {"accept", "reject"}
PairOps   == {"send", "block", "unblock", "delete"}
Step      == {"idle", "pair", "find", "row", "scan", "write"}

MakeJob(op, a, b, c) == [op |-> op, actor |-> a, other |-> b, connection |-> c]
NoJob == MakeJob("none", None, None, 0)
Job == [op : AnswerOps \cup {"undo"}, actor : User, other : {None}, connection : Nat \ {0}]
         \cup [op : PairOps, actor : User, other : User, connection : {0}]

(* Every variable has its type; in particular a request about a connection *)
(* knows a row that exists.                                                *)
TypeOK ==
  /\ connections \in Seq(Row)
  /\ blocks \subseteq User \X User
  /\ deleted \subseteq User
  /\ \A n \in inbox : n.type \in NoticeType /\ n.connection \in DOMAIN connections
  /\ pairLock \in [Pair -> Session \cup {None}]
  /\ rowLock \in [Session -> Nat]
  /\ pc \in [Session -> Step]
  /\ job \in [Session -> Job \cup {NoJob}]
  /\ doomed \in [Session -> SUBSET (DOMAIN connections)]
  /\ \A s \in Session : {rowLock[s], job[s].connection} \subseteq {0} \cup DOMAIN connections
  /\ served \in 0..MaxRequests
  /\ raced \subseteq User

Init ==
  /\ connections = <<>>
  /\ blocks = {} /\ deleted = {} /\ inbox = {}
  /\ pairLock = [p \in Pair |-> None]
  /\ rowLock = [s \in Session |-> 0]
  /\ pc = [s \in Session |-> "idle"]
  /\ job = [s \in Session |-> NoJob]
  /\ doomed = [s \in Session |-> {}]
  /\ served = 0 /\ raced = {}

-----------------------------------------------------------------------------
(* Queries over committed rows *)

BlockedBetween(a, b) == <<a, b>> \in blocks \/ <<b, a>> \in blocks

Ends(c) == {connections[c].requester, connections[c].receiver}

ActiveBetween(a, b) ==
  {c \in DOMAIN connections : ~connections[c].gone /\ Ends(c) = {a, b}}

(* Forgets the requests the user received. *)
MutActiveOf(u) ==
  {c \in DOMAIN connections : ~connections[c].gone /\ connections[c].requester = u}

ActiveOf(u) == {c \in DOMAIN connections : ~connections[c].gone /\ u \in Ends(c)}

(* Treats a request that is still open as no connection. *)
MutToCut(a, b) ==
  {c \in ActiveBetween(a, b) : connections[c].status = "CONFIRMED"}

(* What a block ends: a rejection stays.                                   *)
ToCut(a, b) == {c \in ActiveBetween(a, b) : connections[c].status # "REJECTED"}

RequestNotice(c) == MakeNotice("CONNECTION_REQUEST", c)

(* What dispatch adds to the inbox: nothing across a block.                *)
Dispatch(type, c, a, b) ==
  IF BlockedBetween(a, b) THEN {} ELSE {MakeNotice(type, c)}

SoftDelete(gone) ==
  connections' = [c \in DOMAIN connections |->
      IF c \in gone THEN [connections[c] EXCEPT !.gone = TRUE] ELSE connections[c]]

-----------------------------------------------------------------------------
(* Sessions and locks *)

At(s, ops, step) == pc[s] = step /\ job[s].op \in ops

Goto(s, step) == pc' = [pc EXCEPT ![s] = step]

PairOf(s) ==
  IF job[s].op \in PairOps THEN {job[s].actor, job[s].other} ELSE Ends(job[s].connection)

PairFree(s) == pairLock[PairOf(s)] \in {None, s}

(* Waits for the pair and does not keep it. *)
MutTakePair(s) == PairFree(s) /\ UNCHANGED pairLock

TakePair(s) ==
  /\ PairFree(s)
  /\ pairLock' = [pairLock EXCEPT ![PairOf(s)] = s]

RowsFree(s, matched) == \A t \in Session \ {s} : rowLock[t] \notin matched

EndRequest(s) ==
  /\ pairLock' = [p \in Pair |-> IF pairLock[p] = s THEN None ELSE pairLock[p]]
  /\ rowLock' = [rowLock EXCEPT ![s] = 0]
  /\ Goto(s, "idle")
  /\ job' = [job EXCEPT ![s] = NoJob]
  /\ doomed' = [doomed EXCEPT ![s] = {}]
  /\ UNCHANGED environment

(* An error answer, or a crash: nothing of the transaction stays.          *)
Abort(s) == EndRequest(s) /\ UNCHANGED rows

Racing ==
  {u \in User : \E s, t \in Session :
     /\ job[s].op = "delete" /\ job[s].actor = u
     /\ job[t].op = "send" /\ u \in {job[t].actor, job[t].other}}

(* A request passes authentication: its user is not deleted.               *)
Begin(s, j, step) ==
  /\ pc[s] = "idle"
  /\ served < MaxRequests
  /\ j.actor \notin deleted
  /\ served' = served + 1
  /\ job' = [job EXCEPT ![s] = j]
  /\ raced' = raced \cup Racing'
  /\ Goto(s, step)
  /\ UNCHANGED <<rows, locks, doomed>>

Proceed(s, step) == Goto(s, step) /\ UNCHANGED <<rows, job, doomed, environment>>

-----------------------------------------------------------------------------
(* POST /connections                                                       *)

RequestSend(s, a, b) ==
  /\ a # b
  /\ b \notin deleted
  /\ Begin(s, MakeJob("send", a, b, 0), "pair")

SendCheckPair(s) ==
  LET blocked == BlockedBetween(job[s].actor, job[s].other) IN
  /\ At(s, {"send"}, "pair")
  /\ PairFree(s)
  /\ \/ blocked /\ Abort(s)
     \/ ~blocked /\ TakePair(s) /\ Proceed(s, "find") /\ UNCHANGED rowLock

SendFind(s) ==
  LET taken == ActiveBetween(job[s].actor, job[s].other) # {} IN
  /\ At(s, {"send"}, "find")
  /\ \/ taken /\ Abort(s)
     \/ ~taken /\ Proceed(s, "write") /\ UNCHANGED locks

(* The INSERT, which the unique index on active pairs may refuse, and the  *)
(* notice to the receiver.                                                 *)
SendCommit(s) ==
  LET a == job[s].actor
      b == job[s].other
      new == [requester |-> a, receiver |-> b, status |-> "PENDING", gone |-> FALSE]
  IN
  /\ At(s, {"send"}, "write")
  /\ ActiveBetween(a, b) = {}
  /\ connections' = Append(connections, new)
  /\ inbox' = inbox \cup Dispatch("CONNECTION_REQUEST", Len(connections) + 1, a, b)
  /\ EndRequest(s)
  /\ UNCHANGED <<blocks, deleted>>

-----------------------------------------------------------------------------
(* PATCH and DELETE /connections/{id}                                      *)

RequestOn(s, op, a, c) == Begin(s, MakeJob(op, a, None, c), "pair")

(* Locks the row alone, as if the pair did not matter. *)
MutLockPair(s) ==
  /\ At(s, AnswerOps \cup {"undo"}, "pair")
  /\ Proceed(s, "row")
  /\ UNCHANGED locks

LockPair(s) ==
  /\ At(s, AnswerOps \cup {"undo"}, "pair")
  /\ TakePair(s)
  /\ Proceed(s, "row")
  /\ UNCHANGED rowLock

(* A row that is gone is not waited for; any other is re-read once locked. *)
LockRow(s, allowed) ==
  LET c == job[s].connection IN
  /\ connections[c].gone \/ RowsFree(s, {c})
  /\ \/ (connections[c].gone \/ ~allowed) /\ Abort(s)
     \/ /\ ~connections[c].gone /\ allowed
        /\ rowLock' = [rowLock EXCEPT ![s] = c]
        /\ Proceed(s, "write")
        /\ UNCHANGED pairLock

(* Answers a request that was answered already. *)
MutAnswerDecide(s) ==
  /\ At(s, AnswerOps, "row")
  /\ LockRow(s, connections[job[s].connection].receiver = job[s].actor)

AnswerDecide(s) ==
  LET row == connections[job[s].connection] IN
  /\ At(s, AnswerOps, "row")
  /\ LockRow(s, row.receiver = job[s].actor /\ row.status = "PENDING")

AcceptCommit(s) ==
  LET c == job[s].connection
      row == connections[c]
  IN
  /\ At(s, {"accept"}, "write")
  /\ PairFree(s)
  /\ connections' = [connections EXCEPT ![c].status = "CONFIRMED"]
  /\ inbox' = (inbox \ {RequestNotice(c)})
                \cup Dispatch("CONNECTION_ACCEPTED", c, row.requester, row.receiver)
  /\ EndRequest(s)
  /\ UNCHANGED <<blocks, deleted>>

RejectCommit(s) ==
  LET c == job[s].connection IN
  /\ At(s, {"reject"}, "write")
  /\ connections' = [connections EXCEPT ![c].status = "REJECTED"]
  /\ inbox' = inbox \ {RequestNotice(c)}
  /\ EndRequest(s)
  /\ UNCHANGED <<blocks, deleted>>

UndoDecide(s) ==
  /\ At(s, {"undo"}, "row")
  /\ LockRow(s, job[s].actor \in Ends(job[s].connection))

(* The receiver's list keeps the request. *)
MutUndoCommit(s) ==
  /\ At(s, {"undo"}, "write")
  /\ SoftDelete({job[s].connection})
  /\ EndRequest(s)
  /\ UNCHANGED <<blocks, deleted, inbox>>

UndoCommit(s) ==
  /\ At(s, {"undo"}, "write")
  /\ SoftDelete({job[s].connection})
  /\ inbox' = inbox \ {RequestNotice(job[s].connection)}
  /\ EndRequest(s)
  /\ UNCHANGED <<blocks, deleted>>

-----------------------------------------------------------------------------
(* POST and DELETE /users/{id}/block, DELETE /users/me                     *)

RequestBlock(s, a, b) ==
  /\ a # b
  /\ b \notin deleted
  /\ Begin(s, MakeJob("block", a, b, 0), "pair")

BlockLockPair(s) ==
  /\ At(s, {"block"}, "pair")
  /\ TakePair(s)
  /\ Proceed(s, "row")
  /\ UNCHANGED rowLock

BlockLockRow(s) ==
  LET found == ToCut(job[s].actor, job[s].other) IN
  /\ At(s, {"block"}, "row")
  /\ RowsFree(s, found)
  /\ \E c \in IF found = {} THEN {0} ELSE found : rowLock' = [rowLock EXCEPT ![s] = c]
  /\ Proceed(s, "write")
  /\ UNCHANGED pairLock

(* A block that exists is repeated in full before it is refused.           *)
BlockCommit(s) ==
  LET a == job[s].actor
      b == job[s].other
  IN
  /\ At(s, {"block"}, "write")
  /\ blocks' = blocks \cup {<<a, b>>}
  /\ SoftDelete({rowLock[s]})
  /\ inbox' = {n \in inbox : Ends(n.connection) # {a, b}}
  /\ EndRequest(s)
  /\ UNCHANGED deleted

RequestUnblock(s, a, b) == Begin(s, MakeJob("unblock", a, b, 0), "pair")

UnblockCommit(s) ==
  /\ At(s, {"unblock"}, "pair")
  /\ PairFree(s)
  /\ blocks' = blocks \ {<<job[s].actor, job[s].other>>}
  /\ EndRequest(s)
  /\ UNCHANGED <<connections, deleted, inbox>>

(* No pair lock, and the notices stay.  The UPDATE of the connections      *)
(* finds the active rows that are committed when it starts, waits for      *)
(* those that others hold, and leaves alone the ones that are gone by      *)
(* then; a row inserted after it started is never touched.                 *)

RequestDelete(s, u) == Begin(s, MakeJob("delete", u, u, 0), "scan")

DeleteScan(s) ==
  /\ At(s, {"delete"}, "scan")
  /\ doomed' = [doomed EXCEPT ![s] = ActiveOf(job[s].actor)]
  /\ Goto(s, "write")
  /\ UNCHANGED <<rows, locks, job, environment>>

Doomed(s) == doomed[s] \cap ActiveOf(job[s].actor)

(* The UPDATE ends and the deletion commits.  In between nobody can change *)
(* the rows it reached, so the two are one step.                           *)
DeleteCommit(s) ==
  /\ At(s, {"delete"}, "write")
  /\ RowsFree(s, Doomed(s))
  /\ deleted' = deleted \cup {job[s].actor}
  /\ SoftDelete(Doomed(s))
  /\ EndRequest(s)
  /\ UNCHANGED <<blocks, inbox>>

-----------------------------------------------------------------------------

RowsWanted(s) ==
  CASE At(s, AnswerOps \cup {"undo"}, "row") ->
         {c \in {job[s].connection} : ~connections[c].gone}
    [] At(s, {"block"}, "row")    -> ToCut(job[s].actor, job[s].other)
    [] At(s, {"delete"}, "write") -> Doomed(s)
    [] OTHER                      -> {}

(* A dispatch asks for the pair again, which costs nothing while it is     *)
(* held.                                                                   *)
WaitsFor(s, t) ==
  /\ s # t
  /\ \/ /\ pc[s] = "pair" \/ At(s, {"accept"}, "write")
        /\ pairLock[PairOf(s)] = t
     \/ rowLock[t] \in RowsWanted(s)

Crash(s) == pc[s] # "idle" /\ Abort(s)

Request(s) ==
  \/ \E a, b \in User :
        RequestSend(s, a, b) \/ RequestBlock(s, a, b) \/ RequestUnblock(s, a, b)
  \/ \E a \in User, c \in DOMAIN connections, op \in AnswerOps \cup {"undo"} :
        RequestOn(s, op, a, c)
  \/ \E u \in User : RequestDelete(s, u)

Statement(s) ==
  \/ SendCheckPair(s) \/ SendFind(s) \/ SendCommit(s)
  \/ LockPair(s) \/ AnswerDecide(s) \/ AcceptCommit(s) \/ RejectCommit(s)
  \/ UndoDecide(s) \/ UndoCommit(s)
  \/ BlockLockPair(s) \/ BlockLockRow(s) \/ BlockCommit(s) \/ UnblockCommit(s)
  \/ DeleteScan(s) \/ DeleteCommit(s)

Next == \E s \in Session : Request(s) \/ Statement(s) \/ Crash(s)

Spec == Init /\ [][Next]_vars

-----------------------------------------------------------------------------
(* Properties *)

(* The pair a request found free is still free when it inserts: two people *)
(* who ask each other at once meet at the pair lock, and the unique index  *)
(* never has to refuse (services/connection.py:116-118).                   *)
FoundPairStaysFree ==
  \A s \in Session :
    At(s, {"send"}, "write") => ActiveBetween(job[s].actor, job[s].other) = {}

(* While a block exists between two people they are neither connected nor  *)
(* waiting for an answer, and neither inbox holds a notice of the other    *)
(* (services/block.py:64-66).                                              *)
BlockSeparates ==
  \A a, b \in User :
    BlockedBetween(a, b) =>
      /\ ToCut(a, b) = {}
      /\ \A n \in inbox : Ends(n.connection) # {a, b}

(* The receiver's list offers exactly the requests that can be answered;   *)
(* one that cannot is left only by the deletion of an account              *)
(* (repository/notification.py:290-294).                                   *)
RequestNoticesMatch ==
  \A c \in DOMAIN connections :
    LET row == connections[c]
        offered == RequestNotice(c) \in inbox
    IN
    /\ row.status = "PENDING" /\ ~row.gone => offered
    /\ offered => row.status = "PENDING" /\ (row.gone => Ends(c) \cap deleted # {})

(* An answer is given once, and what is undone, cut or deleted never comes *)
(* back, whatever else is under way (services/connection.py:127, 137).     *)
SettledOnce ==
  [][\A c \in DOMAIN connections :
       /\ connections[c].gone => connections'[c] = connections[c]
       /\ connections[c].status # "PENDING" =>
            connections'[c].status = connections[c].status]_vars

(* A deleted account is left in no connection and no request, on either    *)
(* side, unless somebody asked for one while the deletion was under way:   *)
(* whatever else runs, the deletion ends every row that it found and that  *)
(* is still there when it commits (repository/user.py:103-113).            *)
DeletedKeepNoRelation ==
  \A c \in DOMAIN connections :
    Ends(c) \cap (deleted \ raced) # {} => connections[c].gone

(* No requests wait for each other: the pair is always taken before the    *)
(* row (block_access.py:39-41).                                            *)
NoWaitCycle ==
  ~\E cycle \in SUBSET Session :
      cycle # {} /\ \A s \in cycle : \E t \in cycle : WaitsFor(s, t)

(* The transactions implement PairRelations: the relation of two people is *)
(* their active row.                                                       *)
Couple == {p \in Pair : Cardinality(p) = 2}

RelationOf(p) ==
  LET active == {c \in DOMAIN connections : ~connections[c].gone /\ Ends(c) = p} IN
  IF active = {} THEN [by |-> None, status |-> "NONE"]
  ELSE LET row == connections[CHOOSE c \in active : TRUE]
       IN [by |-> row.requester, status |-> row.status]

Relations == INSTANCE PairRelations WITH relation <- [p \in Couple |-> RelationOf(p)]
ImplementsRelations == Relations!Spec
=============================================================================
