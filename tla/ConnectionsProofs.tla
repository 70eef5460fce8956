-------------------------- MODULE ConnectionsProofs --------------------------
(***************************************************************************)
(* Theorems about Connections.tla, for every set of people and sessions    *)
(* and any number of requests.                                             *)
(***************************************************************************)
EXTENDS Connections, SequenceTheorems, FiniteSetTheorems, TLAPS

Steps(s) == Request(s) \/ Statement(s) \/ Crash(s)

OnRow == AnswerOps \cup {"undo"}

-----------------------------------------------------------------------------
(* Types *)

(* The rows of a table keep their type when one is added or changed.       *)
LEMMA RowsAsSequence ==
  ASSUME connections \in Seq(Row)
  PROVE  /\ Len(connections) \in Nat /\ DOMAIN connections = 1..Len(connections)
         /\ \A c \in DOMAIN connections : connections[c] \in Row /\ c \in Nat \ {0}
         /\ \A new \in [DOMAIN connections -> Row] : new \in Seq(Row)
         /\ \A row \in Row : /\ Append(connections, row) \in Seq(Row)
                             /\ DOMAIN Append(connections, row) =
                                  DOMAIN connections \cup {Len(connections) + 1}
                             /\ Append(connections, row)[Len(connections) + 1] = row
                             /\ \A c \in DOMAIN connections :
                                  Append(connections, row)[c] = connections[c]
<1>1. Len(connections) \in Nat /\ DOMAIN connections = 1..Len(connections)
  OBVIOUS
<1>2. \A c \in DOMAIN connections : connections[c] \in Row /\ c \in Nat \ {0}
  BY <1>1
<1>3. ASSUME NEW new \in [DOMAIN connections -> Row] PROVE new \in Seq(Row)
  BY <1>1, SeqDef
<1>4. ASSUME NEW row \in Row
      PROVE  /\ Append(connections, row) \in Seq(Row)
             /\ DOMAIN Append(connections, row) =
                  DOMAIN connections \cup {Len(connections) + 1}
             /\ Append(connections, row)[Len(connections) + 1] = row
             /\ \A c \in DOMAIN connections :
                  Append(connections, row)[c] = connections[c]
  BY <1>1, AppendProperties
<1> QED
  BY <1>1, <1>2, <1>3, <1>4

NewRow(a, b) == [requester |-> a, receiver |-> b, status |-> "PENDING", gone |-> FALSE]

(* What the three kinds of write do to the table.                          *)
LEMMA WritesOfRows ==
  ASSUME connections \in Seq(Row)
  PROVE  /\ \A a, b \in User : connections' = Append(connections, NewRow(a, b)) =>
              /\ connections' \in Seq(Row)
              /\ DOMAIN connections' = DOMAIN connections \cup {Len(connections) + 1}
              /\ Len(connections) + 1 \notin DOMAIN connections
              /\ connections'[Len(connections) + 1] = NewRow(a, b)
              /\ \A c \in DOMAIN connections : connections'[c] = connections[c]
         /\ \A c \in DOMAIN connections, status \in Status :
              connections' = [connections EXCEPT ![c].status = status] =>
                /\ connections' \in Seq(Row)
                /\ DOMAIN connections' = DOMAIN connections
                /\ connections'[c] = [connections[c] EXCEPT !.status = status]
                /\ \A d \in DOMAIN connections : d # c => connections'[d] = connections[d]
         /\ \A gone : SoftDelete(gone) =>
              /\ connections' \in Seq(Row)
              /\ DOMAIN connections' = DOMAIN connections
              /\ \A c \in DOMAIN connections :
                   connections'[c] = IF c \in gone THEN [connections[c] EXCEPT !.gone = TRUE]
                                                   ELSE connections[c]
<1>1. ASSUME NEW a \in User, NEW b \in User, connections' = Append(connections, NewRow(a, b))
      PROVE  /\ connections' \in Seq(Row)
             /\ DOMAIN connections' = DOMAIN connections \cup {Len(connections) + 1}
             /\ Len(connections) + 1 \notin DOMAIN connections
             /\ connections'[Len(connections) + 1] = NewRow(a, b)
             /\ \A c \in DOMAIN connections : connections'[c] = connections[c]
  <2>1. NewRow(a, b) \in Row
    BY DEF NewRow, Row, Status
  <2>2. Len(connections) + 1 \notin DOMAIN connections
    BY RowsAsSequence
  <2> QED
    BY <1>1, <2>1, <2>2, RowsAsSequence
<1>2. ASSUME NEW c \in DOMAIN connections, NEW status \in Status,
             connections' = [connections EXCEPT ![c].status = status]
      PROVE  /\ connections' \in Seq(Row)
             /\ DOMAIN connections' = DOMAIN connections
             /\ connections'[c] = [connections[c] EXCEPT !.status = status]
             /\ \A d \in DOMAIN connections : d # c => connections'[d] = connections[d]
  <2>1. [connections[c] EXCEPT !.status = status] \in Row
    BY RowsAsSequence DEF Row
  <2>2. connections' = [d \in DOMAIN connections |->
                          IF d = c THEN [connections[c] EXCEPT !.status = status] ELSE connections[d]]
    BY <1>2
  <2>3. connections' \in [DOMAIN connections -> Row]
    BY <2>1, <2>2, RowsAsSequence
  <2> QED
    BY <2>2, <2>3, RowsAsSequence
<1>3. ASSUME NEW gone, SoftDelete(gone)
      PROVE  /\ connections' \in Seq(Row)
             /\ DOMAIN connections' = DOMAIN connections
             /\ \A c \in DOMAIN connections :
                  connections'[c] = IF c \in gone THEN [connections[c] EXCEPT !.gone = TRUE]
                                                  ELSE connections[c]
  <2>1. \A c \in DOMAIN connections : [connections[c] EXCEPT !.gone = TRUE] \in Row
    BY RowsAsSequence DEF Row
  <2>2. connections' \in [DOMAIN connections -> Row]
    BY <1>3, <2>1, RowsAsSequence DEF SoftDelete
  <2> QED
    BY <1>3, <2>2, RowsAsSequence DEF SoftDelete
<1> QED
  BY <1>1, <1>2, <1>3

(* The rows other variables point to are still there.                      *)
PointersTyped ==
  /\ \A n \in inbox : n.type \in NoticeType /\ n.connection \in DOMAIN connections
  /\ \A s \in Session : {rowLock[s], job[s].connection} \subseteq {0} \cup DOMAIN connections

(* Ending a request, or going on to the next statement, keeps the types of *)
(* sessions and locks.                                                     *)
LEMMA SessionMovesKeepType ==
  ASSUME TypeOK, NEW s \in Session
  PROVE  /\ EndRequest(s) =>
              /\ pairLock' \in [Pair -> Session \cup {None}] /\ rowLock' \in [Session -> Nat]
              /\ pc' \in [Session -> Step] /\ job' \in [Session -> Job \cup {NoJob}]
              /\ \A t \in Session : {rowLock'[t], job'[t].connection}
                                       \subseteq {0} \cup DOMAIN connections
              /\ doomed' \in [Session -> SUBSET (DOMAIN connections)]
              /\ served' \in 0..MaxRequests /\ raced' \subseteq User
         /\ Abort(s) => TypeOK'
         /\ \A step \in Step : Proceed(s, step) =>
              /\ UNCHANGED <<rows, job, doomed, served, raced>> /\ pc' \in [Session -> Step]
         /\ TakePair(s) => pairLock' \in [Pair -> Session \cup {None}]
<1>1. ASSUME EndRequest(s)
      PROVE  /\ pairLock' \in [Pair -> Session \cup {None}] /\ rowLock' \in [Session -> Nat]
             /\ pc' \in [Session -> Step] /\ job' \in [Session -> Job \cup {NoJob}]
             /\ \A t \in Session : {rowLock'[t], job'[t].connection}
                                      \subseteq {0} \cup DOMAIN connections
             /\ doomed' \in [Session -> SUBSET (DOMAIN connections)]
             /\ served' \in 0..MaxRequests /\ raced' \subseteq User
  <2>1. NoJob.connection = 0
    BY DEF NoJob, MakeJob
  <2> QED
    BY <1>1, <2>1 DEF TypeOK, EndRequest, Goto, Step, environment
<1>2. Abort(s) => TypeOK'
  BY <1>1 DEF Abort, TypeOK, rows
<1>3. \A step \in Step : Proceed(s, step) =>
        UNCHANGED <<rows, job, doomed, served, raced>> /\ pc' \in [Session -> Step]
  BY DEF Proceed, Goto, TypeOK, environment
<1>4. TakePair(s) => pairLock' \in [Pair -> Session \cup {None}]
  BY DEF TakePair, TypeOK
<1> QED
  BY <1>1, <1>2, <1>3, <1>4

LEMMA RequestKeepsType ==
  ASSUME TypeOK, NEW s \in Session, Request(s)
  PROVE  TypeOK'
<1>1. ASSUME NEW j \in Job, NEW step \in Step, Begin(s, j, step),
             j.connection \in {0} \cup DOMAIN connections
      PROVE  TypeOK'
  <2>1. raced' \subseteq User
    BY <1>1 DEF Begin, Racing, TypeOK
  <2>2. doomed' \in [Session -> SUBSET (DOMAIN connections')]
    BY <1>1 DEF Begin, rows, TypeOK
  <2> QED
    BY <1>1, <2>1, <2>2, ConnectionsAssumption
       DEF TypeOK, Begin, Goto, rows, locks, ConnectionsAssumption
<1>2. \A a, b \in User, op \in PairOps : MakeJob(op, a, b, 0) \in Job /\ MakeJob(op, a, b, 0).connection = 0
  BY DEF MakeJob, Job
<1>3. \A a \in User, c \in DOMAIN connections, op \in OnRow :
        MakeJob(op, a, None, c) \in Job /\ MakeJob(op, a, None, c).connection = c
  BY RowsAsSequence DEF MakeJob, Job, OnRow, TypeOK
<1>4. {"pair", "scan"} \subseteq Step /\ {"send", "block", "unblock", "delete"} \subseteq PairOps
  BY DEF Step, PairOps
<1>5. ASSUME NEW a \in User, NEW b \in User,
             RequestSend(s, a, b) \/ RequestBlock(s, a, b) \/ RequestUnblock(s, a, b)
      PROVE  TypeOK'
  BY <1>1, <1>2, <1>4, <1>5 DEF RequestSend, RequestBlock, RequestUnblock
<1>6. ASSUME NEW a \in User, NEW c \in DOMAIN connections, NEW op \in OnRow, RequestOn(s, op, a, c)
      PROVE  TypeOK'
  BY <1>1, <1>3, <1>4, <1>6 DEF RequestOn
<1>7. ASSUME NEW u \in User, RequestDelete(s, u) PROVE TypeOK'
  BY <1>1, <1>2, <1>4, <1>7 DEF RequestDelete
<1> QED
  BY <1>5, <1>6, <1>7 DEF Request, OnRow

LEMMA JobFacts ==
  ASSUME TypeOK, NEW s \in Session
  PROVE  /\ job[s].op \in PairOps =>
              /\ job[s].actor \in User /\ job[s].other \in User
              /\ PairOf(s) = {job[s].actor, job[s].other} /\ PairOf(s) \in Pair
         /\ job[s].op \in OnRow =>
              /\ job[s].actor \in User /\ job[s].connection \in DOMAIN connections
              /\ PairOf(s) = Ends(job[s].connection) /\ PairOf(s) \in Pair
<1>1. job[s] \in Job \cup {NoJob} /\ connections \in Seq(Row)
      /\ {rowLock[s], job[s].connection} \subseteq {0} \cup DOMAIN connections
  BY DEF TypeOK
<1>2. \A c \in DOMAIN connections : Ends(c) \in Pair
  BY <1>1, RowsAsSequence DEF Ends, Pair, Row
<1>3. job[s].op \in PairOps =>
        job[s] \in [op : PairOps, actor : User, other : User, connection : {0}]
  BY <1>1 DEF Job, NoJob, MakeJob, PairOps, AnswerOps
<1>4. job[s].op \in OnRow =>
        job[s] \in [op : OnRow, actor : User, other : {None}, connection : Nat \ {0}]
  BY <1>1 DEF Job, NoJob, MakeJob, PairOps, AnswerOps, OnRow
<1>5. job[s].op \in PairOps => PairOf(s) = {job[s].actor, job[s].other} /\ PairOf(s) \in Pair
  BY <1>3 DEF PairOf, Pair
<1>6. job[s].op \in OnRow => PairOf(s) = Ends(job[s].connection)
  BY DEF PairOf, OnRow, PairOps, AnswerOps
<1> QED
  BY <1>1, <1>2, <1>3, <1>4, <1>5, <1>6

LEMMA StatementKeepsType ==
  ASSUME TypeOK, NEW s \in Session, Statement(s)
  PROVE  TypeOK'
<1>1. /\ connections \in Seq(Row) /\ PointersTyped
      /\ {"idle", "pair", "find", "row", "write"} \subseteq Step
  BY DEF TypeOK, PointersTyped, Step
<1>2. Abort(s) => TypeOK'
  BY SessionMovesKeepType
<1>3. ASSUME NEW step \in Step, Proceed(s, step), TakePair(s) \/ UNCHANGED pairLock, UNCHANGED rowLock
      PROVE  TypeOK'
  <2>1. UNCHANGED <<rows, job, doomed, served, raced>> /\ pc' \in [Session -> Step]
    BY <1>3, SessionMovesKeepType
  <2>2. pairLock' \in [Pair -> Session \cup {None}]
    BY <1>3, SessionMovesKeepType DEF TypeOK
  <2> QED
    BY <1>3, <2>1, <2>2 DEF TypeOK, rows
<1>4. ASSUME NEW c \in {0} \cup DOMAIN connections, Proceed(s, "write"), UNCHANGED pairLock,
             rowLock' = [rowLock EXCEPT ![s] = c]
      PROVE  TypeOK'
  <2>1. UNCHANGED <<rows, job, doomed, served, raced>> /\ pc' \in [Session -> Step]
    BY <1>1, <1>4, SessionMovesKeepType
  <2>2. c \in Nat
    BY <1>1, RowsAsSequence
  <2> QED
    BY <1>4, <2>1, <2>2 DEF TypeOK, rows
<1>5. ASSUME EndRequest(s), connections' \in Seq(Row), DOMAIN connections \subseteq DOMAIN connections',
             blocks' \subseteq User \X User, deleted' \subseteq User,
             \A n \in inbox' : n.type \in NoticeType /\ n.connection \in DOMAIN connections'
      PROVE  TypeOK'
  <2>1. /\ pairLock' \in [Pair -> Session \cup {None}] /\ rowLock' \in [Session -> Nat]
        /\ pc' \in [Session -> Step] /\ job' \in [Session -> Job \cup {NoJob}]
        /\ \A t \in Session : {rowLock'[t], job'[t].connection}
                                 \subseteq {0} \cup DOMAIN connections
        /\ doomed' \in [Session -> SUBSET (DOMAIN connections)]
        /\ served' \in 0..MaxRequests /\ raced' \subseteq User
    BY <1>5, SessionMovesKeepType
  <2>2. doomed' \in [Session -> SUBSET (DOMAIN connections')]
    BY <1>5, <2>1
  <2> QED
    BY <1>5, <2>1, <2>2 DEF TypeOK
<1>6. \A c, a, b : \A type \in NoticeType : \A n \in Dispatch(type, c, a, b) :
        n.type \in NoticeType /\ n.connection = c
  BY DEF Dispatch, MakeNotice
<1>7. CASE SendCheckPair(s) \/ SendFind(s) \/ LockPair(s) \/ BlockLockPair(s)
  BY <1>1, <1>2, <1>3, <1>7 DEF SendCheckPair, SendFind, LockPair, BlockLockPair, locks
<1>8. CASE AnswerDecide(s) \/ UndoDecide(s)
  <2>1. job[s].connection \in {0} \cup DOMAIN connections
    BY DEF TypeOK
  <2> QED
    BY <1>2, <1>4, <1>8, <2>1 DEF AnswerDecide, UndoDecide, LockRow
<1>9. CASE BlockLockRow(s)
  BY <1>4, <1>9 DEF BlockLockRow, ToCut, ActiveBetween
<1>10. CASE SendCommit(s)
  <2>1. job[s].actor \in User /\ job[s].other \in User
    BY <1>10, JobFacts DEF SendCommit, At, PairOps
  <2>2. /\ connections' = Append(connections, NewRow(job[s].actor, job[s].other))
        /\ EndRequest(s) /\ UNCHANGED <<blocks, deleted>>
        /\ inbox' = inbox \cup Dispatch("CONNECTION_REQUEST", Len(connections) + 1,
                                        job[s].actor, job[s].other)
    BY <1>10 DEF SendCommit, NewRow
  <2>3. /\ connections' \in Seq(Row)
        /\ DOMAIN connections' = DOMAIN connections \cup {Len(connections) + 1}
    BY <1>1, <2>1, <2>2, WritesOfRows
  <2>4. \A n \in inbox' : n.type \in NoticeType /\ n.connection \in DOMAIN connections'
    BY <1>1, <1>6, <2>2, <2>3 DEF NoticeType, PointersTyped
  <2> QED
    BY <1>5, <2>2, <2>3, <2>4 DEF TypeOK
<1>11. CASE AcceptCommit(s) \/ RejectCommit(s)
  <2> DEFINE c == job[s].connection
  <2>1. c \in DOMAIN connections
    BY <1>11, JobFacts DEF AcceptCommit, RejectCommit, At, OnRow, AnswerOps
  <2>2. \E status \in Status : connections' = [connections EXCEPT ![c].status = status]
    BY <1>11 DEF AcceptCommit, RejectCommit, Status
  <2>3. connections' \in Seq(Row) /\ DOMAIN connections' = DOMAIN connections
    BY <1>1, <2>1, <2>2, WritesOfRows
  <2>4. inbox' \subseteq inbox
          \cup Dispatch("CONNECTION_ACCEPTED", c, connections[c].requester, connections[c].receiver)
    BY <1>11 DEF AcceptCommit, RejectCommit
  <2>5. \A n \in inbox' : n.type \in NoticeType /\ n.connection \in DOMAIN connections'
    BY <1>1, <1>6, <2>1, <2>3, <2>4 DEF NoticeType, PointersTyped
  <2> QED
    BY <1>5, <1>11, <2>3, <2>5 DEF TypeOK, AcceptCommit, RejectCommit
<1>12. CASE UndoCommit(s) \/ BlockCommit(s) \/ DeleteCommit(s)
  <2>1. /\ \E gone : SoftDelete(gone)
        /\ inbox' \subseteq inbox /\ EndRequest(s)
    BY <1>12 DEF UndoCommit, BlockCommit, DeleteCommit
  <2>2. connections' \in Seq(Row) /\ DOMAIN connections' = DOMAIN connections
    BY <1>1, <2>1, WritesOfRows
  <2>3. blocks' \subseteq User \X User /\ deleted' \subseteq User
    <3>1. BlockCommit(s) => job[s].actor \in User /\ job[s].other \in User
      BY JobFacts DEF BlockCommit, At, PairOps
    <3>2. DeleteCommit(s) => job[s].actor \in User
      BY JobFacts DEF DeleteCommit, At, PairOps
    <3>3. blocks \subseteq User \X User /\ deleted \subseteq User
      BY DEF TypeOK
    <3>4. CASE UndoCommit(s)
      BY <3>3, <3>4 DEF UndoCommit
    <3>5. CASE BlockCommit(s)
      BY <3>1, <3>3, <3>5 DEF BlockCommit
    <3>6. CASE DeleteCommit(s)
      BY <3>2, <3>3, <3>6 DEF DeleteCommit
    <3> QED
      BY <1>12, <3>4, <3>5, <3>6
  <2> QED
    BY <1>1, <1>5, <2>1, <2>2, <2>3 DEF PointersTyped
<1>13. CASE UnblockCommit(s)
  BY <1>1, <1>5, <1>13 DEF UnblockCommit, TypeOK
<1>14. CASE DeleteScan(s)
  <2>1. pc' \in [Session -> Step]
    BY <1>1, <1>14 DEF DeleteScan, Goto, TypeOK
  <2>2. doomed' \in [Session -> SUBSET (DOMAIN connections)]
    BY <1>14 DEF DeleteScan, ActiveOf, TypeOK
  <2>3. UNCHANGED <<connections, blocks, deleted, inbox, pairLock, rowLock, job, served, raced>>
    BY <1>14 DEF DeleteScan, rows, locks, environment
  <2> QED
    BY <2>1, <2>2, <2>3 DEF TypeOK
<1> QED
  BY <1>7, <1>8, <1>9, <1>10, <1>11, <1>12, <1>13, <1>14 DEF Statement

LEMMA InitTyped == Init => TypeOK
<1>1. Init => connections \in Seq(Row)
  BY DEF Init
<1>2. NoJob.connection = 0
  BY DEF NoJob, MakeJob
<1> QED
  BY <1>1, <1>2, ConnectionsAssumption DEF Init, TypeOK, Step, ConnectionsAssumption

LEMMA NextKeepsType == TypeOK /\ [Next]_vars => TypeOK'
<1>1. ASSUME TypeOK, NEW s \in Session, Steps(s) PROVE TypeOK'
  BY <1>1, RequestKeepsType, StatementKeepsType, SessionMovesKeepType DEF Steps, Crash
<1>2. TypeOK /\ UNCHANGED vars => TypeOK'
  BY DEF TypeOK, vars, rows, locks, environment
<1> QED
  BY <1>1, <1>2 DEF Next, Steps

(* Every variable has its type: in particular no notice, lock or request   *)
(* points to a connection that does not exist.                             *)
THEOREM TypeCorrect == Spec => []TypeOK
  BY InitTyped, NextKeepsType, PTL DEF Spec

-----------------------------------------------------------------------------
(* The inductive invariant                                                 *)

(* The statements a request runs while it holds the lock of its pair.      *)
Inside(s) == pc[s] \in {"find", "row", "write"} /\ job[s].op # "delete"

(* A session is at a statement of its request, and holds exactly the locks *)
(* that statement comes after.                                             *)
HoldsInOrder(s) ==
  /\ pc[s] = "idle" => job[s] = NoJob
  /\ pc[s] # "idle" => job[s].op # "none"
  /\ pc[s] = "find" => job[s].op = "send"
  /\ pc[s] = "row" => job[s].op \in OnRow \cup {"block"}
  /\ \A p \in Pair : (pairLock[p] = s) <=> (Inside(s) /\ p = PairOf(s))
  /\ rowLock[s] # 0 => At(s, OnRow \cup {"block"}, "write")

(* What a session decided on still holds when it writes.                   *)
DecisionHolds(s) ==
  /\ At(s, OnRow, "write") =>
       rowLock[s] = job[s].connection /\ ~connections[job[s].connection].gone
  /\ At(s, AnswerOps, "write") => connections[job[s].connection].status = "PENDING"
  /\ At(s, {"block"}, "write") => ToCut(job[s].actor, job[s].other) = {rowLock[s]} \ {0}
  /\ job[s].op \in {"send", "block"} => job[s].actor # job[s].other
  /\ At(s, {"send"}, "find") \/ At(s, {"send"}, "write") =>
       ~BlockedBetween(job[s].actor, job[s].other)
  /\ At(s, {"send"}, "write") => ActiveBetween(job[s].actor, job[s].other) = {}

(* Nobody is connected to themselves, and two people have one active row.  *)
OneRowEach ==
  /\ \A c \in DOMAIN connections : connections[c].requester # connections[c].receiver
  /\ \A c, d \in DOMAIN connections :
       ~connections[c].gone /\ ~connections[d].gone /\ Ends(c) = Ends(d) => c = d

PairInv ==
  /\ TypeOK
  /\ \A s \in Session : HoldsInOrder(s) /\ DecisionHolds(s)
  /\ OneRowEach

-----------------------------------------------------------------------------
(* What the step of a session does to the rows and to other sessions       *)

(* Rows are only added, their people never change, and what is gone or     *)
(* answered stays so.                                                      *)
RowsKept ==
  /\ DOMAIN connections \subseteq DOMAIN connections'
  /\ \A c \in DOMAIN connections :
       /\ connections'[c].requester = connections[c].requester
       /\ connections'[c].receiver = connections[c].receiver
       /\ connections[c].gone => connections'[c] = connections[c]
       /\ connections[c].status # "PENDING" => connections'[c].status = connections[c].status

(* A row changes, and a block appears, only under the lock of its pair;    *)
(* the deletion of an account, which takes none, leaves alone the rows     *)
(* others hold.                                                            *)
RowsGuarded(s) ==
  /\ \A c \in DOMAIN connections :
       \/ connections'[c] = connections[c]
       \/ pairLock[Ends(c)] = s
       \/ \A t \in Session \ {s} : rowLock[t] # c
  /\ \A c \in DOMAIN connections' \ DOMAIN connections :
       pairLock[{connections'[c].requester, connections'[c].receiver}] = s
  /\ \A a, b \in User : <<a, b>> \in blocks' \ blocks => pairLock[{a, b}] = s

LEMMA StepCases ==
  ASSUME TypeOK, NEW s \in Session, Steps(s), HoldsInOrder(s)
  PROVE  \/ UNCHANGED rows
         \/ SendCommit(s) \/ AcceptCommit(s) \/ RejectCommit(s) \/ UndoCommit(s)
         \/ BlockCommit(s) \/ UnblockCommit(s) \/ DeleteCommit(s)
<1>1. CASE Request(s)
  BY <1>1 DEF Request, RequestSend, RequestBlock, RequestUnblock, RequestOn, RequestDelete, Begin
<1>2. CASE Crash(s)
  BY <1>2 DEF Crash, Abort
<1>3. CASE Statement(s)
  BY <1>3 DEF Statement, SendCheckPair, SendFind, LockPair, AnswerDecide, UndoDecide, LockRow,
     BlockLockPair, BlockLockRow, DeleteScan, Abort, Proceed
<1> QED
  BY <1>1, <1>2, <1>3 DEF Steps

LEMMA OthersKeepLocks ==
  ASSUME TypeOK, NEW s \in Session, NEW t \in Session \ {s}, Steps(s)
  PROVE  /\ pc'[t] = pc[t] /\ job'[t] = job[t] /\ rowLock'[t] = rowLock[t]
         /\ \A p \in Pair : (pairLock'[p] = t) <=> (pairLock[p] = t)
<1>1. pc \in [Session -> Step] /\ job \in [Session -> Job \cup {NoJob}]
      /\ rowLock \in [Session -> Nat] /\ pairLock \in [Pair -> Session \cup {None}]
      /\ None \notin Session
  BY ConnectionsAssumption DEF TypeOK, ConnectionsAssumption
<1>2. EndRequest(s) => /\ pc'[t] = pc[t] /\ job'[t] = job[t] /\ rowLock'[t] = rowLock[t]
                       /\ \A p \in Pair : (pairLock'[p] = t) <=> (pairLock[p] = t)
  BY <1>1 DEF EndRequest, Goto
<1>3. TakePair(s) => \A p \in Pair : (pairLock'[p] = t) <=> (pairLock[p] = t)
  BY <1>1 DEF TakePair, PairFree
<1>4. \A step : Goto(s, step) => pc'[t] = pc[t]
  BY <1>1 DEF Goto
<1>5. \A c : rowLock' = [rowLock EXCEPT ![s] = c] => rowLock'[t] = rowLock[t]
  BY <1>1
<1>6. \A step : Proceed(s, step) => pc'[t] = pc[t] /\ job'[t] = job[t]
  BY <1>4 DEF Proceed
<1>7. \A j, step : Begin(s, j, step) =>
        /\ pc'[t] = pc[t] /\ job'[t] = job[t] /\ UNCHANGED <<pairLock, rowLock>>
  BY <1>1, <1>4 DEF Begin, locks
<1>8. CASE Request(s)
  <2>1. \E j, step : Begin(s, j, step)
    BY <1>8 DEF Request, RequestSend, RequestBlock, RequestUnblock, RequestOn, RequestDelete
  <2> QED
    BY <1>7, <2>1
<1>9. CASE EndRequest(s)
  BY <1>2, <1>9
<1>10. CASE /\ \E step : Proceed(s, step)
            /\ TakePair(s) \/ UNCHANGED pairLock
            /\ UNCHANGED rowLock \/ \E c : rowLock' = [rowLock EXCEPT ![s] = c]
  BY <1>3, <1>5, <1>6, <1>10
<1>11. CASE Statement(s)
  <2>1. CASE SendCheckPair(s) \/ SendFind(s) \/ LockPair(s) \/ BlockLockPair(s)
    BY <1>9, <1>10, <2>1 DEF SendCheckPair, SendFind, LockPair, BlockLockPair, Abort, locks
  <2>2. CASE AnswerDecide(s) \/ UndoDecide(s) \/ BlockLockRow(s)
    BY <1>9, <1>10, <2>2 DEF AnswerDecide, UndoDecide, LockRow, BlockLockRow, Abort
  <2>3. CASE \/ SendCommit(s) \/ AcceptCommit(s) \/ RejectCommit(s) \/ UndoCommit(s)
             \/ BlockCommit(s) \/ UnblockCommit(s) \/ DeleteCommit(s)
    BY <1>9, <2>3 DEF SendCommit, AcceptCommit, RejectCommit, UndoCommit, BlockCommit,
       UnblockCommit, DeleteCommit
  <2>4. CASE DeleteScan(s)
    BY <1>4, <2>4 DEF DeleteScan, locks
  <2> QED
    BY <1>11, <2>1, <2>2, <2>3, <2>4 DEF Statement
<1>12. CASE Crash(s)
  BY <1>9, <1>12 DEF Crash, Abort
<1> QED
  BY <1>8, <1>11, <1>12 DEF Steps

(* The rows keep what they settled, and change under their locks.          *)
LEMMA RowsMove ==
  ASSUME PairInv, NEW s \in Session, Steps(s)
  PROVE  RowsKept /\ RowsGuarded(s)
<1>1. TypeOK /\ connections \in Seq(Row) /\ HoldsInOrder(s) /\ DecisionHolds(s)
  BY DEF PairInv, TypeOK
<1>2. CASE UNCHANGED rows
  BY <1>2 DEF rows, RowsKept, RowsGuarded
<1>3. CASE SendCommit(s)
  <2> DEFINE a == job[s].actor  b == job[s].other
  <2>1. a \in User /\ b \in User /\ PairOf(s) = {a, b} /\ {a, b} \in Pair
    BY <1>1, <1>3, JobFacts DEF SendCommit, At, PairOps
  <2>2. connections' = Append(connections, NewRow(a, b)) /\ blocks' = blocks
    BY <1>3 DEF SendCommit, NewRow
  <2>3. pairLock[{a, b}] = s
    BY <1>1, <1>3, <2>1 DEF SendCommit, At, HoldsInOrder, Inside
  <2>4. /\ DOMAIN connections' = DOMAIN connections \cup {Len(connections) + 1}
        /\ connections'[Len(connections) + 1] = NewRow(a, b)
        /\ \A c \in DOMAIN connections : connections'[c] = connections[c]
    BY <1>1, <2>1, <2>2, WritesOfRows
  <2>5. NewRow(a, b).requester = a /\ NewRow(a, b).receiver = b
    BY DEF NewRow
  <2> QED
    BY <2>2, <2>3, <2>4, <2>5 DEF RowsKept, RowsGuarded
<1>4. CASE AcceptCommit(s) \/ RejectCommit(s)
  <2> DEFINE c == job[s].connection
  <2>1. c \in DOMAIN connections /\ PairOf(s) = Ends(c) /\ Ends(c) \in Pair
    BY <1>1, <1>4, JobFacts DEF AcceptCommit, RejectCommit, At, OnRow, AnswerOps
  <2>2. \E status \in Status : connections' = [connections EXCEPT ![c].status = status]
    BY <1>4 DEF AcceptCommit, RejectCommit, Status
  <2>3. /\ pairLock[Ends(c)] = s
        /\ connections[c].status = "PENDING" /\ ~connections[c].gone
    BY <1>1, <1>4, <2>1 DEF AcceptCommit, RejectCommit, At, HoldsInOrder, Inside, DecisionHolds,
       OnRow, AnswerOps
  <2>4. PICK status \in Status :
          /\ DOMAIN connections' = DOMAIN connections
          /\ connections'[c] = [connections[c] EXCEPT !.status = status]
          /\ \A d \in DOMAIN connections : d # c => connections'[d] = connections[d]
    BY <1>1, <2>1, <2>2, WritesOfRows
  <2>5. connections[c] \in Row
    BY <1>1, <2>1
  <2>6. /\ connections'[c].requester = connections[c].requester
        /\ connections'[c].receiver = connections[c].receiver
    BY <2>4, <2>5 DEF Row
  <2>7. blocks' = blocks
    BY <1>4 DEF AcceptCommit, RejectCommit
  <2>8. RowsKept
    BY <2>3, <2>4, <2>6 DEF RowsKept
  <2>9. RowsGuarded(s)
    BY <2>3, <2>4, <2>7 DEF RowsGuarded
  <2> QED
    BY <2>8, <2>9
<1>5. ASSUME NEW gone, SoftDelete(gone),
             \A c \in gone \cap DOMAIN connections :
               pairLock[Ends(c)] = s \/ \A t \in Session \ {s} : rowLock[t] # c,
             \A a, b \in User : <<a, b>> \in blocks' \ blocks => pairLock[{a, b}] = s
      PROVE  RowsKept /\ RowsGuarded(s)
  <2>1. /\ DOMAIN connections' = DOMAIN connections
        /\ \A c \in DOMAIN connections :
             connections'[c] = IF c \in gone THEN [connections[c] EXCEPT !.gone = TRUE]
                                             ELSE connections[c]
    BY <1>1, <1>5, WritesOfRows
  <2>2. \A c \in DOMAIN connections : connections[c] \in Row
    BY <1>1, RowsAsSequence
  <2>3. ASSUME NEW c \in DOMAIN connections
        PROVE  /\ connections'[c].requester = connections[c].requester
               /\ connections'[c].receiver = connections[c].receiver
               /\ connections[c].gone => connections'[c] = connections[c]
               /\ connections[c].status # "PENDING" =>
                    connections'[c].status = connections[c].status
    <3>1. CASE c \notin gone
      BY <2>1, <3>1
    <3>2. CASE c \in gone
      <4>1. connections'[c] = [connections[c] EXCEPT !.gone = TRUE] /\ connections[c] \in Row
        BY <2>1, <2>2, <3>2
      <4> QED
        BY <4>1 DEF Row
    <3> QED
      BY <3>1, <3>2
  <2>4. RowsKept
    BY <2>1, <2>3 DEF RowsKept
  <2>5. RowsGuarded(s)
    BY <1>5, <2>1 DEF RowsGuarded
  <2> QED
    BY <2>4, <2>5
<1>6. CASE UndoCommit(s)
  <2>1. PairOf(s) = Ends(job[s].connection) /\ Ends(job[s].connection) \in Pair
    BY <1>1, <1>6, JobFacts DEF UndoCommit, At, OnRow
  <2>2. pairLock[Ends(job[s].connection)] = s
    BY <1>1, <1>6, <2>1 DEF UndoCommit, At, HoldsInOrder, Inside
  <2> QED
    BY <1>5, <1>6, <2>2 DEF UndoCommit
<1>7. CASE BlockCommit(s)
  <2> DEFINE a == job[s].actor  b == job[s].other
  <2>1. a \in User /\ b \in User /\ PairOf(s) = {a, b} /\ {a, b} \in Pair
    BY <1>1, <1>7, JobFacts DEF BlockCommit, At, PairOps
  <2>2. pairLock[{a, b}] = s
    BY <1>1, <1>7, <2>1 DEF BlockCommit, At, HoldsInOrder, Inside
  <2>3. \A c \in {rowLock[s]} \cap DOMAIN connections : Ends(c) = {a, b}
    <3>1. ToCut(a, b) = {rowLock[s]} \ {0}
      BY <1>1, <1>7 DEF BlockCommit, At, DecisionHolds
    <3>2. 0 \notin DOMAIN connections
      BY <1>1, RowsAsSequence
    <3> QED
      BY <3>1, <3>2 DEF ToCut, ActiveBetween
  <2>4. \A x, y \in User : <<x, y>> \in blocks' \ blocks => pairLock[{x, y}] = s
    BY <1>7, <2>2 DEF BlockCommit
  <2> QED
    BY <1>5, <1>7, <2>2, <2>3, <2>4 DEF BlockCommit
<1>8. CASE UnblockCommit(s)
  BY <1>8 DEF UnblockCommit, RowsKept, RowsGuarded
<1>9. CASE DeleteCommit(s)
  BY <1>5, <1>9 DEF DeleteCommit, RowsFree
<1> QED
  BY <1>1, <1>2, <1>3, <1>4, <1>6, <1>7, <1>8, <1>9, StepCases

-----------------------------------------------------------------------------
(* The invariant holds in every reachable state                            *)

(* What an existing row and an existing pair say of the next state.        *)
LEMMA KeptRows ==
  ASSUME TypeOK, RowsKept
  PROVE  /\ \A c \in DOMAIN connections : Ends(c)' = Ends(c)
         /\ \A s \in Session : job'[s] = job[s] /\ job[s].op \in PairOps \cup OnRow =>
              PairOf(s)' = PairOf(s)
<1>1. \A c \in DOMAIN connections : Ends(c)' = Ends(c)
  BY DEF RowsKept, Ends
<1>2. ASSUME NEW s \in Session, job'[s] = job[s], job[s].op \in PairOps \cup OnRow
      PROVE  PairOf(s)' = PairOf(s)
  <2>1. CASE job[s].op \in PairOps
    BY <1>2, <2>1 DEF PairOf
  <2>2. CASE job[s].op \in OnRow
    <3>1. job[s].connection \in DOMAIN connections /\ PairOf(s) = Ends(job[s].connection)
      BY <2>2, JobFacts
    <3>2. PairOf(s)' = Ends(job[s].connection)'
      BY <1>2, <2>2 DEF PairOf, OnRow, AnswerOps, PairOps
    <3>3. Ends(job[s].connection)' = Ends(job[s].connection)
      BY <1>1, <1>2, <3>1 DEF Ends, RowsKept
    <3> QED
      BY <3>1, <3>2, <3>3
  <2> QED
    BY <1>2, <2>1, <2>2
<1> QED
  BY <1>1, <1>2

(* What is active between two people stays as it is while another session  *)
(* holds the lock of their pair, except for rows nobody holds, which an    *)
(* account's deletion may end.                                             *)
LEMMA GuardedPair ==
  ASSUME PairInv, NEW s \in Session, NEW t \in Session \ {s}, Steps(s),
         NEW a \in User, NEW b \in User, pairLock[{a, b}] = t
  PROVE  /\ ActiveBetween(a, b)' \subseteq ActiveBetween(a, b)
         /\ ToCut(a, b)' \subseteq ToCut(a, b)
         /\ rowLock[t] \in ToCut(a, b) => rowLock[t] \in ToCut(a, b)'
         /\ ~BlockedBetween(a, b) => ~BlockedBetween(a, b)'
<1>1. RowsKept /\ RowsGuarded(s) /\ TypeOK /\ OneRowEach
  BY RowsMove DEF PairInv
<1>2. \A c \in DOMAIN connections : Ends(c)' = Ends(c)
  BY <1>1, KeptRows
<1>3. \A c \in DOMAIN connections' \ DOMAIN connections : Ends(c)' # {a, b}
  BY <1>1 DEF RowsGuarded, Ends
<1>4. \A c \in DOMAIN connections : ~connections'[c].gone => ~connections[c].gone
  BY <1>1 DEF RowsKept
<1>5. \A c \in DOMAIN connections : connections'[c].status # "REJECTED" => connections[c].status # "REJECTED"
  BY <1>1 DEF RowsKept
<1>6. ActiveBetween(a, b)' \subseteq ActiveBetween(a, b)
  BY <1>2, <1>3, <1>4 DEF ActiveBetween
<1>7. ToCut(a, b)' \subseteq ToCut(a, b)
  BY <1>5, <1>6 DEF ToCut, ActiveBetween
<1>8. ASSUME rowLock[t] \in ToCut(a, b) PROVE rowLock[t] \in ToCut(a, b)'
  <2>1. PICK c \in DOMAIN connections : c = rowLock[t] /\ Ends(c) = {a, b}
    BY <1>8 DEF ToCut, ActiveBetween
  <2>2. connections'[c] = connections[c]
    BY <1>1, <2>1 DEF RowsGuarded
  <2>3. c \in DOMAIN connections' /\ Ends(c)' = Ends(c)
    BY <1>1, <1>2, <2>1 DEF RowsKept
  <2>4. c \in ToCut(a, b)'
    BY <1>8, <2>1, <2>2, <2>3 DEF ToCut, ActiveBetween
  <2>5. rowLock'[t] = rowLock[t]
    BY <1>1, OthersKeepLocks
  <2> QED
    BY <2>1, <2>4, <2>5
<1>9. ~BlockedBetween(a, b) => ~BlockedBetween(a, b)'
  <2>1. {b, a} = {a, b}
    OBVIOUS
  <2> QED
    BY <1>1, <2>1 DEF BlockedBetween, RowsGuarded
<1> QED
  BY <1>6, <1>7, <1>8, <1>9

LEMMA OthersKeepInv ==
  ASSUME PairInv, NEW s \in Session, NEW t \in Session \ {s}, Steps(s)
  PROVE  HoldsInOrder(t)' /\ DecisionHolds(t)'
<1>1. /\ RowsKept /\ RowsGuarded(s) /\ TypeOK /\ HoldsInOrder(t) /\ DecisionHolds(t)
      /\ connections \in Seq(Row) /\ job[t] \in Job \cup {NoJob}
  BY RowsMove DEF PairInv, TypeOK
<1>2. /\ pc'[t] = pc[t] /\ job'[t] = job[t] /\ rowLock'[t] = rowLock[t]
      /\ \A p \in Pair : (pairLock'[p] = t) <=> (pairLock[p] = t)
  BY <1>1, OthersKeepLocks
<1>3. \A ops, step : At(t, ops, step)' <=> At(t, ops, step)
  BY <1>2 DEF At
<1>4. Inside(t)' <=> Inside(t)
  BY <1>2 DEF Inside
<1>5. job[t].op \in PairOps \cup OnRow \cup {"none"}
  BY <1>1 DEF Job, NoJob, MakeJob, PairOps, OnRow, AnswerOps
<1>6. Inside(t) => job[t].op \in PairOps \cup OnRow /\ PairOf(t)' = PairOf(t)
  <2>1. Inside(t) => job[t].op # "none"
    BY <1>1 DEF Inside, HoldsInOrder
  <2> QED
    BY <1>1, <1>2, <1>5, <2>1, KeptRows
<1>7. HoldsInOrder(t)'
  BY <1>1, <1>2, <1>3, <1>4, <1>6 DEF HoldsInOrder
<1>8. ASSUME At(t, OnRow, "write")
      PROVE  connections'[job[t].connection] = connections[job[t].connection]
  <2>1. job[t].connection \in DOMAIN connections /\ PairOf(t) = Ends(job[t].connection)
        /\ PairOf(t) \in Pair
    BY <1>1, <1>8, JobFacts DEF At
  <2>2. pairLock[Ends(job[t].connection)] = t /\ rowLock[t] = job[t].connection
    BY <1>1, <1>8, <2>1 DEF At, HoldsInOrder, Inside, DecisionHolds, OnRow, AnswerOps
  <2> QED
    BY <1>1, <2>1, <2>2 DEF RowsGuarded
<1>9. ASSUME At(t, {"send", "block"}, "write") \/ At(t, {"send"}, "find")
      PROVE  /\ job[t].actor \in User /\ job[t].other \in User
             /\ pairLock[{job[t].actor, job[t].other}] = t
  <2>1. job[t].actor \in User /\ job[t].other \in User
        /\ PairOf(t) = {job[t].actor, job[t].other} /\ PairOf(t) \in Pair
    BY <1>1, <1>9, JobFacts DEF At, PairOps
  <2> QED
    BY <1>1, <1>9, <2>1 DEF HoldsInOrder, Inside, At
<1>10. At(t, {"block"}, "write") =>
         (ToCut(job[t].actor, job[t].other) = {rowLock[t]} \ {0})'
  <2> SUFFICES ASSUME At(t, {"block"}, "write")
               PROVE  (ToCut(job[t].actor, job[t].other) = {rowLock[t]} \ {0})'
    OBVIOUS
  <2> DEFINE a == job[t].actor  b == job[t].other
  <2>1. a \in User /\ b \in User /\ pairLock[{a, b}] = t
    BY <1>9 DEF At
  <2>2. PICK x \in User, y \in User : x = a /\ y = b
    BY <2>1
  <2>3. ToCut(x, y) = {rowLock[t]} \ {0}
    BY <1>1, <2>2 DEF DecisionHolds
  <2>4. /\ ToCut(x, y)' \subseteq ToCut(x, y)
        /\ rowLock[t] \in ToCut(x, y) => rowLock[t] \in ToCut(x, y)'
    BY <2>1, <2>2, GuardedPair
  <2>5. ToCut(x, y)' = {rowLock[t]} \ {0}
    BY <2>3, <2>4
  <2>6. ToCut(a, b)' = ToCut(x, y)'
    BY <1>2, <2>2 DEF ToCut, ActiveBetween, Ends
  <2> QED
    BY <1>2, <2>5, <2>6
<1>11. At(t, {"send"}, "find") \/ At(t, {"send"}, "write") =>
         /\ ~BlockedBetween(job[t].actor, job[t].other)'
         /\ At(t, {"send"}, "write") => (ActiveBetween(job[t].actor, job[t].other) = {})'
  <2> SUFFICES ASSUME At(t, {"send"}, "find") \/ At(t, {"send"}, "write")
               PROVE  /\ ~BlockedBetween(job[t].actor, job[t].other)'
                      /\ At(t, {"send"}, "write") =>
                           (ActiveBetween(job[t].actor, job[t].other) = {})'
    OBVIOUS
  <2> DEFINE a == job[t].actor  b == job[t].other
  <2>1. a \in User /\ b \in User /\ pairLock[{a, b}] = t
    BY <1>9 DEF At
  <2>2. PICK x \in User, y \in User : x = a /\ y = b
    BY <2>1
  <2>3. ~BlockedBetween(x, y) /\ (At(t, {"send"}, "write") => ActiveBetween(x, y) = {})
    BY <1>1, <2>2 DEF DecisionHolds
  <2>4. /\ ActiveBetween(x, y)' \subseteq ActiveBetween(x, y)
        /\ ~BlockedBetween(x, y)'
    BY <2>1, <2>2, <2>3, GuardedPair
  <2>5. BlockedBetween(a, b)' <=> BlockedBetween(x, y)'
    BY <1>2, <2>2 DEF BlockedBetween
  <2>6. ActiveBetween(a, b)' = ActiveBetween(x, y)'
    BY <1>2, <2>2 DEF ActiveBetween, Ends
  <2> QED
    BY <2>3, <2>4, <2>5, <2>6
<1>12. job'[t].op \in {"send", "block"} => job'[t].actor # job'[t].other
  BY <1>1, <1>2 DEF DecisionHolds
<1>13. At(t, OnRow, "write") =>
         /\ rowLock[t] = job[t].connection /\ ~connections'[job[t].connection].gone
         /\ At(t, AnswerOps, "write") => connections'[job[t].connection].status = "PENDING"
  BY <1>1, <1>8 DEF DecisionHolds
<1>14. At(t, AnswerOps, "write") => At(t, OnRow, "write")
  BY DEF At, OnRow
<1>15. DecisionHolds(t)'
  BY <1>2, <1>3, <1>10, <1>11, <1>12, <1>13, <1>14 DEF DecisionHolds
<1> QED
  BY <1>7, <1>15

LEMMA EndedIsClean ==
  ASSUME TypeOK, NEW s \in Session, EndRequest(s)
  PROVE  HoldsInOrder(s)' /\ DecisionHolds(s)'
<1>1. /\ pc'[s] = "idle" /\ job'[s] = NoJob /\ rowLock'[s] = 0
      /\ \A p \in Pair : pairLock'[p] # s
  BY ConnectionsAssumption DEF TypeOK, EndRequest, Goto, ConnectionsAssumption
<1>2. NoJob.op = "none"
  BY DEF NoJob, MakeJob
<1> QED
  BY <1>1, <1>2 DEF HoldsInOrder, DecisionHolds, At, Inside

(* A request begins with nothing held and nothing decided.                 *)
LEMMA RequestKeepsInv ==
  ASSUME TypeOK, NEW s \in Session, HoldsInOrder(s), Request(s)
  PROVE  HoldsInOrder(s)' /\ DecisionHolds(s)'
<1>1. ASSUME NEW j, NEW step, Begin(s, j, step),
             step = "pair" \/ (step = "scan" /\ j.op = "delete"),
             j.op \in PairOps \cup OnRow, j.op \in {"send", "block"} => j.actor # j.other
      PROVE  HoldsInOrder(s)' /\ DecisionHolds(s)'
  <2>1. /\ pc'[s] = step /\ job'[s] = j /\ UNCHANGED <<pairLock, rowLock>>
    BY <1>1 DEF Begin, Goto, TypeOK, locks
  <2>2. ~Inside(s) /\ ~Inside(s)'
    BY <1>1, <2>1 DEF Inside, Begin
  <2>3. (\A p \in Pair : pairLock[p] # s) /\ rowLock[s] = 0
    BY <1>1, <2>2 DEF HoldsInOrder, At, Begin
  <2>4. HoldsInOrder(s)'
    BY <1>1, <2>1, <2>2, <2>3 DEF HoldsInOrder, PairOps, OnRow, AnswerOps
  <2>5. DecisionHolds(s)'
    BY <1>1, <2>1 DEF DecisionHolds, At, OnRow, AnswerOps
  <2> QED
    BY <2>4, <2>5
<1>2. \A op, a, b, c : /\ MakeJob(op, a, b, c).op = op
                       /\ MakeJob(op, a, b, c).actor = a /\ MakeJob(op, a, b, c).other = b
  BY DEF MakeJob
<1>3. {"send", "block", "unblock", "delete"} \subseteq PairOps /\ OnRow \cap {"send", "block"} = {}
  BY DEF PairOps, OnRow, AnswerOps
<1>4. ASSUME NEW a \in User, NEW b \in User,
             RequestSend(s, a, b) \/ RequestBlock(s, a, b) \/ RequestUnblock(s, a, b)
      PROVE  HoldsInOrder(s)' /\ DecisionHolds(s)'
  <2>1. CASE RequestSend(s, a, b)
    BY <1>1, <1>2, <1>3, <2>1 DEF RequestSend
  <2>2. CASE RequestBlock(s, a, b)
    BY <1>1, <1>2, <1>3, <2>2 DEF RequestBlock
  <2>3. CASE RequestUnblock(s, a, b)
    BY <1>1, <1>2, <1>3, <2>3 DEF RequestUnblock
  <2> QED
    BY <1>4, <2>1, <2>2, <2>3
<1>5. ASSUME NEW a \in User, NEW c \in DOMAIN connections, NEW op \in OnRow, RequestOn(s, op, a, c)
      PROVE  HoldsInOrder(s)' /\ DecisionHolds(s)'
  BY <1>1, <1>2, <1>3, <1>5 DEF RequestOn
<1>6. ASSUME NEW u \in User, RequestDelete(s, u)
      PROVE  HoldsInOrder(s)' /\ DecisionHolds(s)'
  BY <1>1, <1>2, <1>3, <1>6 DEF RequestDelete
<1> QED
  BY <1>4, <1>5, <1>6 DEF Request, OnRow

(* A statement takes the lock it is about to hold, and what it decides     *)
(* holds when it runs.                                                     *)
LEMMA StatementKeepsInv ==
  ASSUME PairInv, NEW s \in Session, Statement(s)
  PROVE  HoldsInOrder(s)' /\ DecisionHolds(s)'
<1>1. /\ TypeOK /\ HoldsInOrder(s) /\ DecisionHolds(s) /\ OneRowEach
      /\ pc \in [Session -> Step] /\ rowLock \in [Session -> Nat]
      /\ pairLock \in [Pair -> Session \cup {None}]
      /\ connections \in Seq(Row)
  BY DEF PairInv, TypeOK
<1>2. CASE EndRequest(s)
  BY <1>1, <1>2, EndedIsClean
<1>3. ASSUME NEW step, Proceed(s, step)
      PROVE  /\ pc'[s] = step /\ UNCHANGED <<connections, blocks, job>>
             /\ PairOf(s)' = PairOf(s)
             /\ \A a, b : /\ ToCut(a, b)' = ToCut(a, b)
                          /\ ActiveBetween(a, b)' = ActiveBetween(a, b)
                          /\ BlockedBetween(a, b)' <=> BlockedBetween(a, b)
  <2>1. pc'[s] = step /\ UNCHANGED <<connections, blocks, job>>
    BY <1>1, <1>3 DEF Proceed, Goto, rows
  <2>2. PairOf(s)' = PairOf(s)
    BY <2>1 DEF PairOf, Ends
  <2>3. \A a, b : /\ ToCut(a, b)' = ToCut(a, b)
                  /\ ActiveBetween(a, b)' = ActiveBetween(a, b)
                  /\ BlockedBetween(a, b)' <=> BlockedBetween(a, b)
    BY <2>1 DEF ToCut, ActiveBetween, BlockedBetween, Ends
  <2> QED
    BY <2>1, <2>2, <2>3
<1>4. ASSUME pc[s] = "pair", TakePair(s), UNCHANGED rowLock, PairOf(s) \in Pair,
             NEW step \in {"find", "row"}, Proceed(s, step), job[s].op \in PairOps \cup OnRow,
             job[s].op # "delete", step = "find" => job[s].op = "send",
             step = "row" => job[s].op \in OnRow \cup {"block"}
      PROVE  HoldsInOrder(s)'
  <2>1. /\ pc'[s] = step /\ job'[s] = job[s] /\ rowLock'[s] = rowLock[s]
        /\ PairOf(s)' = PairOf(s)
    BY <1>3, <1>4
  <2>2. (\A p \in Pair : pairLock[p] # s) /\ rowLock[s] = 0
    BY <1>1, <1>4 DEF HoldsInOrder, Inside, At
  <2>3. \A p \in Pair : (pairLock'[p] = s) <=> (p = PairOf(s))
    BY <1>1, <1>4, <2>2 DEF TakePair
  <2>4. Inside(s)'
    BY <1>4, <2>1 DEF Inside
  <2>5. job[s].op # "none"
    BY <1>4 DEF PairOps, OnRow, AnswerOps
  <2> QED
    BY <1>4, <2>1, <2>2, <2>3, <2>4, <2>5 DEF HoldsInOrder, At
<1>5. ASSUME pc[s] \in {"find", "row"}, UNCHANGED pairLock, Proceed(s, "write"),
             job[s].op \notin {"delete", "none"},
             rowLock'[s] # 0 => job[s].op \in OnRow \cup {"block"}
      PROVE  HoldsInOrder(s)'
  <2>1. /\ pc'[s] = "write" /\ job'[s] = job[s] /\ PairOf(s)' = PairOf(s)
    BY <1>3, <1>5
  <2>2. Inside(s) /\ Inside(s)'
    BY <1>5, <2>1 DEF Inside
  <2> QED
    BY <1>1, <1>5, <2>1, <2>2 DEF HoldsInOrder, At
<1>6. CASE SendCheckPair(s) /\ ~EndRequest(s)
  <2>1. /\ At(s, {"send"}, "pair") /\ TakePair(s) /\ Proceed(s, "find") /\ UNCHANGED rowLock
        /\ ~BlockedBetween(job[s].actor, job[s].other)
    BY <1>6 DEF SendCheckPair, Abort
  <2>2. PairOf(s) \in Pair /\ job[s].op \in PairOps
    BY <1>1, <2>1, JobFacts DEF At, PairOps
  <2>3. HoldsInOrder(s)'
    BY <1>4, <2>1, <2>2 DEF At
  <2>4. DecisionHolds(s)'
    <3>1. pc'[s] = "find" /\ job'[s] = job[s] /\ job[s].op = "send"
      BY <1>3, <2>1 DEF At
    <3>2. ~BlockedBetween(job[s].actor, job[s].other)'
      BY <1>3, <2>1 DEF BlockedBetween
    <3> QED
      BY <1>1, <3>1, <3>2 DEF DecisionHolds, At, OnRow, AnswerOps
  <2> QED
    BY <2>3, <2>4
<1>7. CASE SendFind(s) /\ ~EndRequest(s)
  <2>1. /\ At(s, {"send"}, "find") /\ Proceed(s, "write") /\ UNCHANGED locks
        /\ ActiveBetween(job[s].actor, job[s].other) = {}
    BY <1>7 DEF SendFind, Abort
  <2>2. UNCHANGED <<pairLock, rowLock>> /\ rowLock[s] = 0
    BY <1>1, <2>1 DEF locks, HoldsInOrder, At
  <2>3. HoldsInOrder(s)'
    BY <1>5, <2>1, <2>2 DEF At
  <2>4. DecisionHolds(s)'
    <3>1. pc'[s] = "write" /\ job'[s] = job[s] /\ job[s].op = "send"
      BY <1>3, <2>1 DEF At
    <3>2. ~BlockedBetween(job[s].actor, job[s].other)
      BY <1>1, <2>1 DEF DecisionHolds
    <3>3. /\ ~BlockedBetween(job[s].actor, job[s].other)'
          /\ (ActiveBetween(job[s].actor, job[s].other) = {})'
      BY <1>3, <2>1, <3>2 DEF BlockedBetween, ActiveBetween, Ends
    <3> QED
      BY <1>1, <3>1, <3>3 DEF DecisionHolds, At, OnRow, AnswerOps
  <2> QED
    BY <2>3, <2>4
<1>8. CASE LockPair(s) \/ BlockLockPair(s)
  <2>1. /\ pc[s] = "pair" /\ job[s].op \in OnRow \cup {"block"}
        /\ TakePair(s) /\ Proceed(s, "row") /\ UNCHANGED rowLock
    BY <1>8 DEF LockPair, BlockLockPair, At, OnRow
  <2>2. PairOf(s) \in Pair /\ job[s].op \in PairOps \cup OnRow /\ job[s].op # "delete"
    BY <1>1, <2>1, JobFacts DEF PairOps, OnRow, AnswerOps
  <2>3. HoldsInOrder(s)'
    BY <1>4, <2>1, <2>2
  <2>4. DecisionHolds(s)'
    <3>1. pc'[s] = "row" /\ job'[s] = job[s]
      BY <1>3, <2>1
    <3> QED
      BY <1>1, <3>1 DEF DecisionHolds, At
  <2> QED
    BY <2>3, <2>4
<1>9. CASE (AnswerDecide(s) \/ UndoDecide(s)) /\ ~EndRequest(s)
  <2> DEFINE c == job[s].connection
  <2>1. /\ pc[s] = "row" /\ job[s].op \in OnRow
        /\ ~connections[c].gone /\ Proceed(s, "write") /\ UNCHANGED pairLock
        /\ rowLock' = [rowLock EXCEPT ![s] = c]
        /\ job[s].op \in AnswerOps => connections[c].status = "PENDING"
    BY <1>9 DEF AnswerDecide, UndoDecide, LockRow, Abort, At, OnRow, AnswerOps
  <2>2. HoldsInOrder(s)'
    BY <1>5, <2>1 DEF OnRow, AnswerOps
  <2>3. DecisionHolds(s)'
    <3>1. pc'[s] = "write" /\ UNCHANGED <<job, connections>> /\ rowLock'[s] = c
      BY <1>1, <1>3, <2>1
    <3> QED
      BY <2>1, <3>1 DEF DecisionHolds, At, OnRow, AnswerOps
  <2> QED
    BY <2>2, <2>3
<1>10. CASE BlockLockRow(s)
  <2> DEFINE found == ToCut(job[s].actor, job[s].other)
  <2>1. /\ pc[s] = "row" /\ job[s].op = "block" /\ Proceed(s, "write") /\ UNCHANGED pairLock
    BY <1>10 DEF BlockLockRow, At
  <2>2. PICK c \in IF found = {} THEN {0} ELSE found : rowLock' = [rowLock EXCEPT ![s] = c]
    BY <1>10 DEF BlockLockRow
  <2>3. rowLock'[s] = c /\ 0 \notin DOMAIN connections
    BY <1>1, <2>2, RowsAsSequence
  <2>4. \A d \in found : d \in DOMAIN connections /\ ~connections[d].gone
                         /\ Ends(d) = {job[s].actor, job[s].other}
    BY DEF ToCut, ActiveBetween
  <2>5. found = {c} \ {0}
    BY <1>1, <2>2, <2>3, <2>4 DEF OneRowEach
  <2>6. HoldsInOrder(s)'
    BY <1>5, <2>1
  <2>7. DecisionHolds(s)'
    <3>1. pc'[s] = "write" /\ job'[s] = job[s] /\ job[s].op = "block"
      BY <1>3, <2>1
    <3>2. (ToCut(job[s].actor, job[s].other) = {rowLock[s]} \ {0})'
      BY <1>3, <2>1, <2>3, <2>5, <3>1
    <3> QED
      BY <1>1, <3>1, <3>2 DEF DecisionHolds, At, OnRow, AnswerOps
  <2> QED
    BY <2>6, <2>7
<1>11. CASE \/ SendCommit(s) \/ AcceptCommit(s) \/ RejectCommit(s) \/ UndoCommit(s)
            \/ BlockCommit(s) \/ UnblockCommit(s) \/ DeleteCommit(s)
  BY <1>2, <1>11 DEF SendCommit, AcceptCommit, RejectCommit, UndoCommit, BlockCommit,
     UnblockCommit, DeleteCommit
<1>12. CASE DeleteScan(s)
  <2>1. /\ pc'[s] = "write" /\ job[s].op = "delete" /\ job' = job
        /\ pairLock' = pairLock /\ rowLock' = rowLock /\ pc[s] = "scan"
    BY <1>1, <1>12 DEF DeleteScan, At, Goto, locks
  <2>2. ~Inside(s) /\ ~Inside(s)'
    BY <2>1 DEF Inside
  <2>3. HoldsInOrder(s)'
    BY <1>1, <2>1, <2>2 DEF HoldsInOrder, At
  <2>4. DecisionHolds(s)'
    BY <2>1 DEF DecisionHolds, At, OnRow, AnswerOps
  <2> QED
    BY <2>3, <2>4
<1> QED
  BY <1>2, <1>6, <1>7, <1>8, <1>9, <1>10, <1>11, <1>12 DEF Statement

(* A second active row of a pair is never added, and a row that is gone    *)
(* never comes back.                                                       *)
LEMMA RowsStaySingle ==
  ASSUME PairInv, NEW s \in Session, Steps(s)
  PROVE  OneRowEach'
<1>1. /\ RowsKept /\ TypeOK /\ OneRowEach /\ connections \in Seq(Row) /\ HoldsInOrder(s)
      /\ DecisionHolds(s)
  BY RowsMove DEF PairInv, TypeOK
<1>2. \A c \in DOMAIN connections : Ends(c)' = Ends(c)
  BY <1>1, KeptRows
<1>3. ASSUME DOMAIN connections' = DOMAIN connections PROVE OneRowEach'
  BY <1>1, <1>2, <1>3 DEF OneRowEach, RowsKept
<1>4. CASE SendCommit(s)
  <2> DEFINE a == job[s].actor  b == job[s].other  new == Len(connections) + 1
  <2>1. a \in User /\ b \in User
    BY <1>1, <1>4, JobFacts DEF SendCommit, At, PairOps
  <2>2. connections' = Append(connections, NewRow(a, b)) /\ ActiveBetween(a, b) = {} /\ a # b
    BY <1>1, <1>4 DEF SendCommit, NewRow, DecisionHolds, At
  <2>3. /\ DOMAIN connections' = DOMAIN connections \cup {new}
        /\ connections'[new] = NewRow(a, b)
    BY <1>1, <2>1, <2>2, WritesOfRows
  <2>4. connections'[new].requester = a /\ connections'[new].receiver = b
    BY <2>3 DEF NewRow
  <2>5. \A c \in DOMAIN connections : {connections'[c].requester, connections'[c].receiver} = Ends(c)
    BY <1>1 DEF Ends, RowsKept
  <2>6. \A c \in DOMAIN connections : ~connections'[c].gone => Ends(c) # {a, b}
    BY <1>1, <2>2 DEF ActiveBetween, RowsKept
  <2>7. {connections'[new].requester, connections'[new].receiver} = {a, b}
    BY <2>4
  <2>8. \A c \in DOMAIN connections' : connections'[c].requester # connections'[c].receiver
    BY <1>1, <2>2, <2>3, <2>4 DEF OneRowEach, RowsKept
  <2>9. ASSUME NEW c \in DOMAIN connections', NEW d \in DOMAIN connections',
               ~connections'[c].gone, ~connections'[d].gone,
               {connections'[c].requester, connections'[c].receiver}
                 = {connections'[d].requester, connections'[d].receiver}
        PROVE  c = d
    <3>1. CASE c \in DOMAIN connections /\ d \in DOMAIN connections
      <4>1. ~connections[c].gone /\ ~connections[d].gone
        BY <1>1, <2>9, <3>1 DEF RowsKept
      <4> QED
        BY <1>1, <2>5, <2>9, <3>1, <4>1 DEF OneRowEach
    <3>2. CASE c \in DOMAIN connections /\ d = new
      BY <2>5, <2>6, <2>7, <2>9, <3>2
    <3>3. CASE c = new /\ d \in DOMAIN connections
      BY <2>5, <2>6, <2>7, <2>9, <3>3
    <3> QED
      BY <2>3, <2>9, <3>1, <3>2, <3>3
  <2> QED
    BY <2>8, <2>9 DEF OneRowEach, Ends
<1>5. ~SendCommit(s) => DOMAIN connections' = DOMAIN connections
  <2>1. UNCHANGED rows => DOMAIN connections' = DOMAIN connections
    BY DEF rows
  <2>2. AcceptCommit(s) \/ RejectCommit(s) => DOMAIN connections' = DOMAIN connections
    BY <1>1 DEF AcceptCommit, RejectCommit
  <2>3. UndoCommit(s) \/ BlockCommit(s) \/ DeleteCommit(s) => DOMAIN connections' = DOMAIN connections
    BY DEF UndoCommit, BlockCommit, DeleteCommit, SoftDelete
  <2>4. UnblockCommit(s) => DOMAIN connections' = DOMAIN connections
    BY DEF UnblockCommit
  <2> QED
    BY <1>1, <2>1, <2>2, <2>3, <2>4, StepCases
<1> QED
  BY <1>3, <1>4, <1>5

LEMMA InitPairInv == Init => PairInv
<1>1. NoJob.op = "none"
  BY DEF NoJob, MakeJob
<1> QED
  BY <1>1, InitTyped, ConnectionsAssumption
     DEF Init, PairInv, HoldsInOrder, DecisionHolds, OneRowEach, Inside, At, ConnectionsAssumption

LEMMA StepKeepsPairInv ==
  ASSUME PairInv, NEW s \in Session, Steps(s)
  PROVE  PairInv'
<1>1. TypeOK'
  <2>1. TypeOK /\ [Next]_vars
    BY DEF PairInv, Next, Steps
  <2> QED
    BY <2>1, NextKeepsType
<1>2. HoldsInOrder(s)' /\ DecisionHolds(s)'
  BY RequestKeepsInv, StatementKeepsInv, EndedIsClean DEF PairInv, Steps, Crash, Abort
<1> QED
  BY <1>1, <1>2, OthersKeepInv, RowsStaySingle DEF PairInv

LEMMA NextKeepsPairInv == PairInv /\ [Next]_vars => PairInv'
<1>1. ASSUME PairInv, UNCHANGED vars PROVE PairInv'
  <2>1. TypeOK'
    BY <1>1 DEF PairInv, TypeOK, vars, rows, locks, environment
  <2>2. \A s \in Session : HoldsInOrder(s)'
    BY <1>1 DEF PairInv, HoldsInOrder, Inside, At, PairOf, Ends, vars, rows, locks
  <2>3. \A s \in Session : DecisionHolds(s)'
    BY <1>1 DEF PairInv, DecisionHolds, At, ToCut, ActiveBetween, BlockedBetween, Ends, vars, rows, locks
  <2>4. OneRowEach'
    BY <1>1 DEF PairInv, OneRowEach, Ends, vars, rows
  <2> QED
    BY <2>1, <2>2, <2>3, <2>4 DEF PairInv
<1> QED
  BY <1>1, StepKeepsPairInv DEF Next, Steps

LEMMA PairInvHolds == Spec => []PairInv
  BY InitPairInv, NextKeepsPairInv, PTL DEF Spec

-----------------------------------------------------------------------------
(* Theorems                                                                *)

(* Two people who ask each other at once meet at the lock of their pair:   *)
(* the one that found no connection still finds none when it inserts, so   *)
(* the unique index never refuses (services/connection.py:116-118).        *)
THEOREM FreePairs == Spec => []FoundPairStaysFree
<1>1. PairInv => FoundPairStaysFree
  BY DEF PairInv, DecisionHolds, FoundPairStaysFree
<1> QED
  BY <1>1, PairInvHolds, PTL

(* A connection is answered once, and one that was undone, cut or deleted  *)
(* never comes back (services/connection.py:127, 137).                     *)
THEOREM AnsweredOnce == Spec => SettledOnce
<1> DEFINE Settled ==
      \A c \in DOMAIN connections :
        /\ connections[c].gone => connections'[c] = connections[c]
        /\ connections[c].status # "PENDING" => connections'[c].status = connections[c].status
<1>1. PairInv /\ [Next]_vars => [Settled]_vars
  <2>1. RowsKept => Settled
    BY DEF RowsKept
  <2>2. ASSUME PairInv, NEW s \in Session, Steps(s) PROVE Settled
    BY <2>1, <2>2, RowsMove
  <2> QED
    BY <2>2 DEF Next, Steps
<1>2. Spec => [][Settled]_vars
  BY <1>1, PairInvHolds, PTL DEF Spec
<1> QED
  BY <1>2 DEF SettledOnce

(* Who holds the row of a connection waits for nothing, and who holds a    *)
(* pair waits for rows at most: the requests never wait for each other in  *)
(* a circle (block_access.py:39-41).                                       *)
THEOREM NoDeadlock == Spec => []NoWaitCycle
<1>1. ASSUME PairInv, NEW cycle \in SUBSET Session, cycle # {},
             \A s \in cycle : \E t \in cycle : WaitsFor(s, t)
      PROVE  FALSE
  <2>1. TypeOK /\ connections \in Seq(Row) /\ \A s \in Session : HoldsInOrder(s)
    BY <1>1 DEF PairInv, TypeOK
  <2>2. \A s \in Session : 0 \notin RowsWanted(s)
    <3>1. 0 \notin DOMAIN connections
      BY <2>1, RowsAsSequence
    <3>2. \A s \in Session : RowsWanted(s) \subseteq DOMAIN connections
      <4>1. ASSUME NEW s \in Session PROVE RowsWanted(s) \subseteq DOMAIN connections
        <5>1. At(s, OnRow, "row") => job[s].connection \in DOMAIN connections
          BY <2>1, JobFacts DEF At
        <5> QED
          BY <5>1 DEF RowsWanted, OnRow, At, ToCut, ActiveBetween, Doomed, ActiveOf, AnswerOps
      <4> QED
        BY <4>1
    <3> QED
      BY <3>1, <3>2
  <2>3. ASSUME NEW s \in cycle, At(s, OnRow \cup {"block"}, "write") PROVE FALSE
    <3>1. PICK t \in cycle : WaitsFor(s, t)
      BY <1>1
    <3>2. RowsWanted(s) = {}
      BY <2>3 DEF RowsWanted, At, OnRow, AnswerOps
    <3>3. At(s, {"accept"}, "write") /\ pairLock[PairOf(s)] = t /\ s # t
      BY <2>3, <3>1, <3>2 DEF WaitsFor, At
    <3>4. PairOf(s) \in Pair /\ Inside(s)
      BY <2>1, <3>3, JobFacts DEF At, OnRow, AnswerOps, Inside
    <3> QED
      BY <2>1, <3>3, <3>4 DEF HoldsInOrder
  <2>4. \A s, t \in cycle : WaitsFor(s, t) => rowLock[t] \notin RowsWanted(s)
    <3>1. \A t \in cycle : rowLock[t] # 0 => At(t, OnRow \cup {"block"}, "write")
      BY <2>1 DEF HoldsInOrder
    <3> QED
      BY <2>2, <2>3, <3>1
  <2>5. \A s \in cycle : ~Inside(s)
    <3>1. ASSUME NEW s \in cycle, Inside(s) PROVE FALSE
      <4>1. PICK t \in cycle : WaitsFor(s, t)
        BY <1>1
      <4>2. s # t /\ pairLock[PairOf(s)] = t /\ (pc[s] = "pair" \/ At(s, {"accept"}, "write"))
        BY <2>4, <4>1 DEF WaitsFor
      <4>3. ~At(s, {"accept"}, "write")
        BY <2>3 DEF At, OnRow, AnswerOps
      <4> QED
        BY <3>1, <4>2, <4>3 DEF Inside
    <3> QED
      BY <3>1
  <2>6. PICK s \in cycle, t \in cycle : WaitsFor(s, t)
    BY <1>1
  <2>7. pairLock[PairOf(s)] = t /\ (pc[s] = "pair" \/ At(s, {"accept"}, "write"))
    BY <2>4, <2>6 DEF WaitsFor
  <2>8. PairOf(s) \in Pair
    <3>1. pc[s] # "idle"
      BY <2>7 DEF At
    <3>2. job[s] \in Job \cup {NoJob} /\ job[s].op # "none"
      BY <2>1, <3>1 DEF TypeOK, HoldsInOrder
    <3>3. job[s].op \in PairOps \cup OnRow
      BY <3>2 DEF Job, NoJob, MakeJob, PairOps, OnRow, AnswerOps
    <3> QED
      BY <2>1, <3>3, JobFacts
  <2>9. Inside(t)
    BY <2>1, <2>7, <2>8 DEF HoldsInOrder
  <2> QED
    BY <2>5, <2>9
<1>2. PairInv => NoWaitCycle
  BY <1>1 DEF NoWaitCycle
<1> QED
  BY <1>2, PairInvHolds, PTL

-----------------------------------------------------------------------------
(* Blocks and notices                                                      *)

(* What a notice points to keeps its people.                               *)
LEMMA NoticePeople ==
  ASSUME TypeOK, RowsKept, NEW n \in inbox
  PROVE  Ends(n.connection)' = Ends(n.connection)
  BY KeptRows DEF TypeOK

(* What Dispatch adds.                                                     *)
LEMMA DispatchAdds ==
  ASSUME NEW type, NEW c, NEW a, NEW b
  PROVE  /\ \A n \in Dispatch(type, c, a, b) :
              n = MakeNotice(type, c) /\ n.connection = c /\ ~BlockedBetween(a, b)
         /\ ~BlockedBetween(a, b) => MakeNotice(type, c) \in Dispatch(type, c, a, b)
  BY DEF Dispatch, MakeNotice

LEMMA BlockedIsMutual ==
  ASSUME NEW a, NEW b, NEW c, NEW d, {a, b} = {c, d}
  PROVE  BlockedBetween(a, b) <=> BlockedBetween(c, d)
<1>1. (a = c /\ b = d) \/ (a = d /\ b = c)
  OBVIOUS
<1> QED
  BY <1>1 DEF BlockedBetween

LEMMA StepKeepsBlocksApart ==
  ASSUME PairInv, BlockSeparates, NEW s \in Session, Steps(s)
  PROVE  BlockSeparates'
<1>1. /\ RowsKept /\ TypeOK /\ OneRowEach /\ connections \in Seq(Row) /\ HoldsInOrder(s)
      /\ DecisionHolds(s)
  BY RowsMove DEF PairInv, TypeOK
<1>2. /\ \A c \in DOMAIN connections : Ends(c)' = Ends(c)
      /\ \A n \in inbox : Ends(n.connection)' = Ends(n.connection)
  BY <1>1, KeptRows, NoticePeople
<1>3. ASSUME DOMAIN connections' = DOMAIN connections
      PROVE  \A a, b \in User : ToCut(a, b)' \subseteq ToCut(a, b)
  BY <1>1, <1>2, <1>3 DEF ToCut, ActiveBetween, RowsKept
<1>4. ASSUME DOMAIN connections' = DOMAIN connections, blocks' \subseteq blocks,
             inbox' \subseteq inbox
      PROVE  BlockSeparates'
  BY <1>2, <1>3, <1>4 DEF BlockSeparates, BlockedBetween
<1>5. CASE UNCHANGED rows
  BY <1>4, <1>5 DEF rows
<1>6. CASE SendCommit(s)
  <2> DEFINE a == job[s].actor  b == job[s].other  new == Len(connections) + 1
  <2>1. a \in User /\ b \in User
    BY <1>1, <1>6, JobFacts DEF SendCommit, At, PairOps
  <2>2. /\ connections' = Append(connections, NewRow(a, b)) /\ blocks' = blocks
        /\ inbox' = inbox \cup Dispatch("CONNECTION_REQUEST", new, a, b)
        /\ ~BlockedBetween(a, b)
    BY <1>1, <1>6 DEF SendCommit, NewRow, DecisionHolds, At
  <2>3. /\ DOMAIN connections' = DOMAIN connections \cup {new}
        /\ connections'[new] = NewRow(a, b)
        /\ \A c \in DOMAIN connections : connections'[c] = connections[c]
    BY <1>1, <2>1, <2>2, WritesOfRows
  <2>4. {connections'[new].requester, connections'[new].receiver} = {a, b}
    BY <2>3 DEF NewRow
  <2>5. ASSUME NEW x \in User, NEW y \in User, BlockedBetween(x, y)'
        PROVE  /\ ToCut(x, y)' = {}
               /\ \A n \in inbox' : Ends(n.connection)' # {x, y}
    <3>1. BlockedBetween(x, y)
      BY <2>2, <2>5 DEF BlockedBetween
    <3>2. {x, y} # {a, b}
      BY <2>2, <3>1, BlockedIsMutual
    <3>3. ToCut(x, y) = {} /\ \A n \in inbox : Ends(n.connection) # {x, y}
      BY <3>1 DEF BlockSeparates
    <3>4. ToCut(x, y)' = {}
      BY <2>3, <2>4, <3>2, <3>3 DEF ToCut, ActiveBetween, Ends
    <3>5. \A n \in inbox' \ inbox : n.connection = new
      BY <2>2, DispatchAdds
    <3>6. \A n \in inbox' : Ends(n.connection)' # {x, y}
      <4>1. ASSUME NEW n \in inbox' PROVE Ends(n.connection)' # {x, y}
        <5>1. CASE n \in inbox
          BY <1>2, <3>3, <5>1
        <5>2. CASE n \notin inbox
          BY <2>4, <3>2, <3>5, <4>1, <5>2 DEF Ends
        <5> QED
          BY <5>1, <5>2
      <4> QED
        BY <4>1
    <3> QED
      BY <3>4, <3>6
  <2> QED
    BY <2>5 DEF BlockSeparates
<1>7. CASE AcceptCommit(s)
  <2> DEFINE c == job[s].connection
  <2>1. c \in DOMAIN connections
    BY <1>1, <1>7, JobFacts DEF AcceptCommit, At, OnRow, AnswerOps
  <2>2. /\ blocks' = blocks /\ DOMAIN connections' = DOMAIN connections
        /\ inbox' \subseteq inbox \cup Dispatch("CONNECTION_ACCEPTED", c, connections[c].requester,
                                                connections[c].receiver)
    BY <1>7 DEF AcceptCommit
  <2>3. ASSUME NEW x \in User, NEW y \in User, BlockedBetween(x, y)'
        PROVE  /\ ToCut(x, y)' = {}
               /\ \A n \in inbox' : Ends(n.connection)' # {x, y}
    <3>1. BlockedBetween(x, y)
      BY <2>2, <2>3 DEF BlockedBetween
    <3>2. ToCut(x, y) = {} /\ \A n \in inbox : Ends(n.connection) # {x, y}
      BY <3>1 DEF BlockSeparates
    <3>3. \A n \in inbox' \ inbox :
            n.connection = c /\ ~BlockedBetween(connections[c].requester, connections[c].receiver)
      BY <2>2, DispatchAdds
    <3>4. \A n \in inbox' : Ends(n.connection)' # {x, y}
      <4>1. ASSUME NEW n \in inbox' PROVE Ends(n.connection)' # {x, y}
        <5>1. CASE n \in inbox
          BY <1>2, <3>2, <5>1
        <5>2. CASE n \notin inbox
          <6>1. n.connection = c /\ Ends(c) # {x, y}
            BY <3>1, <3>3, <4>1, <5>2, BlockedIsMutual DEF Ends
          <6>2. Ends(n.connection)' = Ends(n.connection)
            BY <1>1, <2>1, <6>1 DEF RowsKept, Ends
          <6> QED
            BY <6>1, <6>2
        <5> QED
          BY <5>1, <5>2
      <4> QED
        BY <4>1
    <3> QED
      BY <1>3, <2>2, <3>2, <3>4
  <2> QED
    BY <2>3 DEF BlockSeparates
<1>8. CASE RejectCommit(s)
  BY <1>4, <1>8 DEF RejectCommit
<1>9. CASE UndoCommit(s) \/ DeleteCommit(s)
  BY <1>4, <1>9 DEF UndoCommit, DeleteCommit, SoftDelete
<1>10. CASE BlockCommit(s)
  <2> DEFINE a == job[s].actor  b == job[s].other
  <2>1. /\ blocks' = blocks \cup {<<a, b>>} /\ SoftDelete({rowLock[s]})
        /\ inbox' = {n \in inbox : Ends(n.connection) # {a, b}}
        /\ ToCut(a, b) = {rowLock[s]} \ {0}
    BY <1>1, <1>10 DEF BlockCommit, DecisionHolds, At
  <2>2. /\ DOMAIN connections' = DOMAIN connections
        /\ \A c \in DOMAIN connections :
             connections'[c] = IF c \in {rowLock[s]} THEN [connections[c] EXCEPT !.gone = TRUE]
                                                     ELSE connections[c]
    BY <1>1, <2>1, WritesOfRows
  <2>3. \A c \in DOMAIN connections : c = rowLock[s] => connections'[c].gone
    BY <1>1, <2>2, RowsAsSequence DEF Row
  <2>4. \A x, y \in User : ToCut(x, y)' \subseteq ToCut(x, y)
    BY <1>3, <2>2
  <2>5. \A x, y \in User : {x, y} = {a, b} => ToCut(x, y)' = {}
    <3>1. \A x, y \in User : {x, y} = {a, b} => ToCut(x, y) = ToCut(a, b)
      BY DEF ToCut, ActiveBetween
    <3>2. \A x, y \in User : rowLock[s] \notin ToCut(x, y)'
      BY <2>2, <2>3 DEF ToCut, ActiveBetween
    <3> QED
      BY <2>1, <2>4, <3>1, <3>2
  <2>6. ASSUME NEW x \in User, NEW y \in User, BlockedBetween(x, y)'
        PROVE  /\ ToCut(x, y)' = {}
               /\ \A n \in inbox' : Ends(n.connection)' # {x, y}
    <3>1. CASE {x, y} = {a, b}
      BY <1>2, <2>1, <2>5, <3>1
    <3>2. CASE {x, y} # {a, b}
      <4>1. BlockedBetween(x, y)
        BY <2>1, <2>6, <3>2 DEF BlockedBetween
      <4> QED
        BY <1>2, <2>1, <2>4, <4>1 DEF BlockSeparates
    <3> QED
      BY <3>1, <3>2
  <2> QED
    BY <2>6 DEF BlockSeparates
<1>11. CASE UnblockCommit(s)
  BY <1>4, <1>11 DEF UnblockCommit
<1> QED
  BY <1>1, <1>5, <1>6, <1>7, <1>8, <1>9, <1>10, <1>11, StepCases

(* While a block stands between two people they are neither connected nor  *)
(* waiting for an answer, and neither has a notice of the other            *)
(* (services/block.py:64-66).                                              *)
THEOREM BlocksKeepApart == Spec => []BlockSeparates
<1>1. Init => BlockSeparates
  BY DEF Init, BlockSeparates, BlockedBetween
<1>2. PairInv /\ BlockSeparates /\ [Next]_vars => BlockSeparates'
  <2>1. ASSUME BlockSeparates, UNCHANGED vars PROVE BlockSeparates'
    <3>1. UNCHANGED <<connections, blocks, inbox>>
      BY <2>1 DEF vars, rows
    <3>2. \A a, b \in User :
            ToCut(a, b)' = ToCut(a, b) /\ (BlockedBetween(a, b)' <=> BlockedBetween(a, b))
      BY <3>1 DEF ToCut, ActiveBetween, BlockedBetween, Ends
    <3>3. \A n \in inbox : Ends(n.connection)' = Ends(n.connection)
      BY <3>1 DEF Ends
    <3> QED
      BY <2>1, <3>1, <3>2, <3>3 DEF BlockSeparates
  <2> QED
    BY <2>1, StepKeepsBlocksApart DEF Next, Steps
<1> QED
  BY <1>1, <1>2, PairInvHolds, PTL DEF Spec

(* What is offered for a row depends on nothing else than the row, its     *)
(* notice and who is deleted.                                              *)
NoticeMatches(c) ==
  /\ connections[c].status = "PENDING" /\ ~connections[c].gone => RequestNotice(c) \in inbox
  /\ RequestNotice(c) \in inbox =>
       /\ connections[c].status = "PENDING"
       /\ connections[c].gone => Ends(c) \cap deleted # {}

LEMMA StepKeepsNoticesMatched ==
  ASSUME PairInv, RequestNoticesMatch, NEW s \in Session, Steps(s)
  PROVE  RequestNoticesMatch'
<1>1. /\ RowsKept /\ TypeOK /\ OneRowEach /\ connections \in Seq(Row) /\ HoldsInOrder(s)
      /\ DecisionHolds(s)
  BY RowsMove DEF PairInv, TypeOK
<1>2. \A c \in DOMAIN connections : Ends(c)' = Ends(c)
  BY <1>1, KeptRows
<1>3. \A c \in DOMAIN connections : NoticeMatches(c)
  BY DEF RequestNoticesMatch, NoticeMatches
<1>4. SUFFICES \A c \in DOMAIN connections' : NoticeMatches(c)'
  BY DEF RequestNoticesMatch, NoticeMatches
<1>5. \A c : RequestNotice(c)' = RequestNotice(c)
  BY DEF RequestNotice, MakeNotice
<1>6. \A c, d : RequestNotice(c).connection = c /\ (RequestNotice(c) = RequestNotice(d) => c = d)
                /\ RequestNotice(c) # MakeNotice("CONNECTION_ACCEPTED", d)
  BY DEF RequestNotice, MakeNotice
<1>7. ASSUME NEW c \in DOMAIN connections, connections'[c] = connections[c], deleted \subseteq deleted',
             (RequestNotice(c) \in inbox') <=> (RequestNotice(c) \in inbox)
      PROVE  NoticeMatches(c)'
  BY <1>2, <1>3, <1>5, <1>7 DEF NoticeMatches
<1>8. ASSUME NEW c \in DOMAIN connections, RequestNotice(c) \notin inbox',
             connections'[c].gone \/ connections'[c].status # "PENDING"
      PROVE  NoticeMatches(c)'
  BY <1>5, <1>8 DEF NoticeMatches
<1>9. CASE UNCHANGED rows
  BY <1>7, <1>9 DEF rows
<1>10. CASE SendCommit(s)
  <2> DEFINE a == job[s].actor  b == job[s].other
  <2>1. a \in User /\ b \in User
    BY <1>1, <1>10, JobFacts DEF SendCommit, At, PairOps
  <2>2. PICK new : new = Len(connections) + 1
    OBVIOUS
  <2>3. /\ connections' = Append(connections, NewRow(a, b)) /\ deleted' = deleted
        /\ inbox' = inbox \cup Dispatch("CONNECTION_REQUEST", new, a, b)
        /\ ~BlockedBetween(a, b)
    BY <1>1, <1>10, <2>2 DEF SendCommit, NewRow, DecisionHolds, At
  <2>4. /\ DOMAIN connections' = DOMAIN connections \cup {new} /\ new \notin DOMAIN connections
        /\ connections'[new] = NewRow(a, b)
        /\ \A c \in DOMAIN connections : connections'[c] = connections[c]
    BY <1>1, <2>1, <2>2, <2>3, WritesOfRows
  <2>5. \A n \in inbox' \ inbox : n.connection = new
    BY <2>3, DispatchAdds
  <2>6. RequestNotice(new) \in inbox'
    BY <2>3, DispatchAdds DEF RequestNotice
  <2>7. NoticeMatches(new)'
    BY <1>5, <2>4, <2>6 DEF NoticeMatches, NewRow
  <2>8. ASSUME NEW c \in DOMAIN connections PROVE NoticeMatches(c)'
    BY <1>6, <1>7, <2>3, <2>4, <2>5
  <2> QED
    BY <2>4, <2>7, <2>8
<1>11. CASE AcceptCommit(s) \/ RejectCommit(s)
  <2>1. PICK c \in DOMAIN connections : c = job[s].connection
    BY <1>1, <1>11, JobFacts DEF AcceptCommit, RejectCommit, At, OnRow, AnswerOps
  <2>2. PICK status \in {"CONFIRMED", "REJECTED"} :
          connections' = [connections EXCEPT ![c].status = status]
    BY <1>11, <2>1 DEF AcceptCommit, RejectCommit
  <2>3. deleted' = deleted
    BY <1>11 DEF AcceptCommit, RejectCommit
  <2>4. \A n : n \in inbox' => \/ n \in inbox \ {RequestNotice(c)}
                               \/ n = MakeNotice("CONNECTION_ACCEPTED", c)
    BY <1>11, <2>1, DispatchAdds DEF AcceptCommit, RejectCommit
  <2>5. \A n \in inbox : n \in inbox' \/ n = RequestNotice(c)
    BY <1>11, <2>1 DEF AcceptCommit, RejectCommit
  <2>6. /\ DOMAIN connections' = DOMAIN connections
        /\ connections'[c] = [connections[c] EXCEPT !.status = status]
        /\ \A d \in DOMAIN connections : d # c => connections'[d] = connections[d]
    BY <1>1, <2>2, WritesOfRows DEF Status
  <2>7. connections[c] \in Row
    BY <1>1
  <2>8. connections'[c].status = status
    BY <2>6, <2>7 DEF Row
  <2>9. NoticeMatches(c)'
    BY <1>6, <1>8, <2>4, <2>8
  <2>10. ASSUME NEW d \in DOMAIN connections, d # c PROVE NoticeMatches(d)'
    <3>1. (RequestNotice(d) \in inbox') <=> (RequestNotice(d) \in inbox)
      BY <1>6, <2>4, <2>5, <2>10
    <3> QED
      BY <1>7, <2>3, <2>6, <2>10, <3>1
  <2> QED
    BY <2>6, <2>9, <2>10
<1>12. CASE UndoCommit(s)
  <2>1. PICK c \in DOMAIN connections : c = job[s].connection
    BY <1>1, <1>12, JobFacts DEF UndoCommit, At, OnRow
  <2>2. SoftDelete({c}) /\ inbox' = inbox \ {RequestNotice(c)} /\ deleted' = deleted
    BY <1>12, <2>1 DEF UndoCommit
  <2>3. /\ DOMAIN connections' = DOMAIN connections
        /\ \A d \in DOMAIN connections :
             connections'[d] = IF d \in {c} THEN [connections[d] EXCEPT !.gone = TRUE]
                                            ELSE connections[d]
    BY <1>1, <2>2, WritesOfRows
  <2>4. connections'[c].gone
    BY <1>1, <2>3, RowsAsSequence DEF Row
  <2>5. NoticeMatches(c)'
    BY <1>8, <2>2, <2>4
  <2>6. ASSUME NEW d \in DOMAIN connections, d # c PROVE NoticeMatches(d)'
    BY <1>6, <1>7, <2>2, <2>3, <2>6
  <2> QED
    BY <2>3, <2>5, <2>6
<1>13. CASE BlockCommit(s)
  <2> DEFINE a == job[s].actor  b == job[s].other
  <2>1. /\ SoftDelete({rowLock[s]}) /\ deleted' = deleted
        /\ inbox' = {n \in inbox : Ends(n.connection) # {a, b}}
        /\ ToCut(a, b) = {rowLock[s]} \ {0}
    BY <1>1, <1>13 DEF BlockCommit, DecisionHolds, At
  <2>2. /\ DOMAIN connections' = DOMAIN connections
        /\ \A c \in DOMAIN connections :
             connections'[c] = IF c \in {rowLock[s]} THEN [connections[c] EXCEPT !.gone = TRUE]
                                                     ELSE connections[c]
    BY <1>1, <2>1, WritesOfRows
  <2>3. ASSUME NEW c \in DOMAIN connections PROVE NoticeMatches(c)'
    <3>1. CASE Ends(c) = {a, b}
      <4>1. RequestNotice(c) \notin inbox'
        BY <1>6, <2>1, <3>1
      <4>2. connections'[c].gone \/ connections'[c].status # "PENDING"
        <5>1. CASE c = rowLock[s]
          BY <1>1, <2>2, <5>1, RowsAsSequence DEF Row
        <5>2. CASE c # rowLock[s]
          BY <2>1, <2>2, <3>1, <5>2 DEF ToCut, ActiveBetween
        <5> QED
          BY <5>1, <5>2
      <4> QED
        BY <1>8, <4>1, <4>2
    <3>2. CASE Ends(c) # {a, b}
      <4>1. c # rowLock[s]
        <5>1. 0 \notin DOMAIN connections
          BY <1>1, RowsAsSequence
        <5> QED
          BY <2>1, <3>2, <5>1 DEF ToCut, ActiveBetween
      <4>2. (RequestNotice(c) \in inbox') <=> (RequestNotice(c) \in inbox)
        BY <1>6, <2>1, <3>2
      <4> QED
        BY <1>7, <2>1, <2>2, <4>1, <4>2
    <3> QED
      BY <3>1, <3>2
  <2> QED
    BY <2>2, <2>3
<1>14. CASE UnblockCommit(s)
  BY <1>7, <1>14 DEF UnblockCommit
<1>15. CASE DeleteCommit(s)
  <2> DEFINE u == job[s].actor
  <2>1. /\ SoftDelete(Doomed(s)) /\ deleted' = deleted \cup {u} /\ inbox' = inbox
        /\ Doomed(s) \subseteq ActiveOf(u)
    BY <1>15 DEF DeleteCommit, Doomed
  <2>2. /\ DOMAIN connections' = DOMAIN connections
        /\ \A c \in DOMAIN connections :
             connections'[c] = IF c \in Doomed(s) THEN [connections[c] EXCEPT !.gone = TRUE]
                                                  ELSE connections[c]
    BY <1>1, <2>1, WritesOfRows
  <2>3. ASSUME NEW c \in DOMAIN connections PROVE NoticeMatches(c)'
    <3>1. CASE c \in Doomed(s)
      <4>1. connections'[c].gone /\ connections'[c].status = connections[c].status
        BY <1>1, <2>2, <3>1, RowsAsSequence DEF Row
      <4>2. Ends(c)' \cap deleted' # {}
        BY <1>2, <2>1, <3>1 DEF ActiveOf
      <4> QED
        BY <1>3, <1>5, <2>1, <4>1, <4>2 DEF NoticeMatches
    <3>2. CASE c \notin Doomed(s)
      BY <1>7, <2>1, <2>2, <3>2
    <3> QED
      BY <3>1, <3>2
  <2> QED
    BY <2>2, <2>3
<1> QED
  BY <1>1, <1>9, <1>10, <1>11, <1>12, <1>13, <1>14, <1>15, StepCases

(* The receiver's list offers exactly the requests that can be answered;   *)
(* one that cannot is left only by the deletion of an account              *)
(* (repository/notification.py:290-294).                                   *)
THEOREM NoticesMatch == Spec => []RequestNoticesMatch
<1>1. Init => RequestNoticesMatch
  BY DEF Init, RequestNoticesMatch
<1>2. PairInv /\ RequestNoticesMatch /\ [Next]_vars => RequestNoticesMatch'
  <2>1. RequestNoticesMatch /\ UNCHANGED vars => RequestNoticesMatch'
    BY DEF RequestNoticesMatch, RequestNotice, MakeNotice, Ends, vars, rows
  <2> QED
    BY <2>1, StepKeepsNoticesMatched DEF Next, Steps
<1> QED
  BY <1>1, <1>2, PairInvHolds, PTL DEF Spec

-----------------------------------------------------------------------------
(* What a deletion leaves behind                                           *)

Asks(t, u)    == job[t].op = "send" /\ u \in {job[t].actor, job[t].other}
Deletes(t, u) == job[t].op = "delete" /\ job[t].actor = u

(* A user asked for, or asking, beside their own deletion has raced; for   *)
(* everybody else the rows active when the deletion commits are among      *)
(* those it found, and no request is about to add one afterwards.          *)
DeletionInv ==
  /\ Racing \subseteq raced
  /\ \A u \in deleted \ raced, t \in Session : ~Asks(t, u)
  /\ \A t \in Session, u \in User :
       Deletes(t, u) /\ pc[t] = "write" /\ u \notin raced => ActiveOf(u) \subseteq doomed[t]
  /\ DeletedKeepNoRelation

(* After it began, a request stays as it is until it ends; the rows a      *)
(* deletion found stay the ones it found.                                  *)
LEMMA DoomedKept ==
  ASSUME TypeOK, NEW s \in Session, Statement(s) \/ Crash(s)
  PROVE  /\ raced' = raced
         /\ \A t \in Session \ {s} : doomed'[t] = doomed[t]
         /\ \/ job'[s] = NoJob
            \/ job'[s] = job[s] /\ (job[s].op = "delete" => DeleteScan(s))
<1>1. job \in [Session -> Job \cup {NoJob}] /\ doomed \in [Session -> SUBSET (DOMAIN connections)]
  BY DEF TypeOK
<1>2. EndRequest(s) => /\ raced' = raced /\ job'[s] = NoJob
                       /\ \A t \in Session \ {s} : doomed'[t] = doomed[t]
  BY <1>1 DEF EndRequest, environment
<1>3. \A step : Proceed(s, step) => raced' = raced /\ doomed' = doomed /\ job' = job
  BY DEF Proceed, environment
<1>4. CASE EndRequest(s)
  BY <1>2, <1>4
<1>5. CASE job[s].op # "delete" /\ \E step : Proceed(s, step)
  BY <1>3, <1>5
<1>6. CASE DeleteScan(s)
  BY <1>1, <1>6 DEF DeleteScan, environment
<1>7. CASE SendCheckPair(s) \/ SendFind(s) \/ LockPair(s) \/ BlockLockPair(s)
  BY <1>4, <1>5, <1>7 DEF SendCheckPair, SendFind, LockPair, BlockLockPair, Abort, At, AnswerOps
<1>8. CASE AnswerDecide(s) \/ UndoDecide(s) \/ BlockLockRow(s)
  BY <1>4, <1>5, <1>8 DEF AnswerDecide, UndoDecide, LockRow, BlockLockRow, Abort, At, AnswerOps
<1>9. CASE \/ SendCommit(s) \/ AcceptCommit(s) \/ RejectCommit(s) \/ UndoCommit(s)
           \/ BlockCommit(s) \/ UnblockCommit(s) \/ DeleteCommit(s) \/ Crash(s)
  BY <1>4, <1>9 DEF SendCommit, AcceptCommit, RejectCommit, UndoCommit, BlockCommit,
     UnblockCommit, DeleteCommit, Crash, Abort
<1> QED
  BY <1>6, <1>7, <1>8, <1>9 DEF Statement

(* A request starts before the statement that commits it, and neither by   *)
(* nor for somebody who is deleted.                                        *)
Starts(s) ==
  /\ raced' = raced \cup Racing' /\ UNCHANGED <<rows, doomed>>
  /\ job'[s].op = "send" => {job'[s].actor, job'[s].other} \cap deleted = {}
  /\ pc'[s] # "write"

LEMMA RequestsStart ==
  ASSUME TypeOK, NEW s \in Session, Request(s)
  PROVE  Starts(s)
<1> USE DEF MakeJob
<1>1. ASSUME NEW j, NEW step, Begin(s, j, step), step # "write",
             j.op = "send" => j.other \notin deleted
      PROVE  Starts(s)
  BY <1>1 DEF Starts, Begin, Goto, TypeOK
<1>2. ASSUME NEW a \in User, NEW b \in User,
             RequestSend(s, a, b) \/ RequestBlock(s, a, b) \/ RequestUnblock(s, a, b)
      PROVE  Starts(s)
  BY <1>1, <1>2 DEF RequestSend, RequestBlock, RequestUnblock
<1>3. ASSUME NEW a \in User, NEW c \in DOMAIN connections, NEW op \in OnRow, RequestOn(s, op, a, c)
      PROVE  Starts(s)
  BY <1>1, <1>3 DEF RequestOn, OnRow, AnswerOps
<1>4. ASSUME NEW u \in User, RequestDelete(s, u) PROVE Starts(s)
  BY <1>1, <1>4 DEF RequestDelete
<1> QED
  BY <1>2, <1>3, <1>4 DEF Request, OnRow

(* A row of a user becomes active only by the commit of a request that     *)
(* asks the user or is theirs.                                             *)
LEMMA OnlyRequestsActivate ==
  ASSUME PairInv, NEW s \in Session, Steps(s), NEW u \in User, NEW c \in ActiveOf(u)',
         c \notin ActiveOf(u)
  PROVE  Asks(s, u) /\ deleted' = deleted
<1>1. RowsKept /\ TypeOK /\ connections \in Seq(Row) /\ HoldsInOrder(s)
  BY RowsMove DEF PairInv, TypeOK
<1>2. c \in DOMAIN connections' \ DOMAIN connections
  <2>1. ASSUME c \in DOMAIN connections PROVE FALSE
    <3>1. Ends(c)' = Ends(c) /\ ~connections[c].gone
      BY <1>1, <2>1, KeptRows DEF ActiveOf, RowsKept
    <3> QED
      BY <2>1, <3>1 DEF ActiveOf
  <2> QED
    BY <2>1 DEF ActiveOf
<1>3. CASE SendCommit(s)
  <2>1. PICK a \in User, b \in User : a = job[s].actor /\ b = job[s].other
    BY <1>1, <1>3, JobFacts DEF SendCommit, At, PairOps
  <2>2. connections' = Append(connections, NewRow(a, b)) /\ deleted' = deleted
        /\ job[s].op = "send"
    BY <1>3, <2>1 DEF SendCommit, NewRow, At
  <2>3. /\ DOMAIN connections' = DOMAIN connections \cup {Len(connections) + 1}
        /\ connections'[Len(connections) + 1] = NewRow(a, b)
    BY <1>1, <2>2, WritesOfRows
  <2>4. connections'[c].requester = a /\ connections'[c].receiver = b
    BY <1>2, <2>3 DEF NewRow
  <2>5. u \in {a, b}
    BY <2>4 DEF ActiveOf, Ends
  <2> QED
    BY <2>1, <2>2, <2>5 DEF Asks
<1>4. ~SendCommit(s) => DOMAIN connections' = DOMAIN connections
  <2>1. UNCHANGED rows => DOMAIN connections' = DOMAIN connections
    BY DEF rows
  <2>2. AcceptCommit(s) \/ RejectCommit(s) => DOMAIN connections' = DOMAIN connections
    BY <1>1 DEF AcceptCommit, RejectCommit
  <2>3. UndoCommit(s) \/ BlockCommit(s) \/ DeleteCommit(s) => DOMAIN connections' = DOMAIN connections
    BY DEF UndoCommit, BlockCommit, DeleteCommit, SoftDelete
  <2>4. UnblockCommit(s) => DOMAIN connections' = DOMAIN connections
    BY DEF UnblockCommit
  <2> QED
    BY <1>1, <2>1, <2>2, <2>3, <2>4, StepCases
<1> QED
  BY <1>2, <1>3, <1>4

LEMMA DeletionStepKeeps ==
  ASSUME PairInv, DeletionInv, NEW s \in Session, Steps(s)
  PROVE  DeletionInv'
<1>1. /\ TypeOK /\ RowsKept /\ HoldsInOrder(s) /\ connections \in Seq(Row)
      /\ deleted \subseteq User
  BY RowsMove DEF PairInv, TypeOK
<1>2. \A t \in Session \ {s} : pc'[t] = pc[t] /\ job'[t] = job[t]
  BY <1>1, OthersKeepLocks
<1>3. CASE Request(s)
  <2>1. /\ raced' = raced \cup Racing' /\ UNCHANGED <<connections, deleted, doomed>>
        /\ job'[s].op = "send" => {job'[s].actor, job'[s].other} \cap deleted = {}
        /\ pc'[s] # "write"
    BY <1>1, <1>3, RequestsStart DEF Starts, rows
  <2>2. \A u \in deleted' \ raced', t \in Session : ~Asks(t, u)'
    BY <1>2, <2>1 DEF DeletionInv, Asks
  <2>3. ASSUME NEW t \in Session, NEW u \in User, Deletes(t, u)', pc'[t] = "write",
               u \notin raced'
        PROVE  ActiveOf(u)' \subseteq doomed'[t]
    BY <1>2, <2>1, <2>3 DEF DeletionInv, Deletes, ActiveOf, Ends
  <2>4. DeletedKeepNoRelation'
    BY <2>1 DEF DeletionInv, DeletedKeepNoRelation, Ends
  <2> QED
    BY <2>1, <2>2, <2>3, <2>4 DEF DeletionInv
<1>4. CASE Statement(s) \/ Crash(s)
  <2>1. /\ raced' = raced
        /\ \A t \in Session \ {s} : doomed'[t] = doomed[t]
        /\ \/ job'[s] = NoJob
           \/ job'[s] = job[s] /\ (job[s].op = "delete" => DeleteScan(s))
    BY <1>1, <1>4, DoomedKept
  <2>2. \A t \in Session, u \in User :
           (Asks(t, u)' => Asks(t, u)) /\ (Deletes(t, u)' => Deletes(t, u))
    BY <1>2, <2>1 DEF Asks, Deletes, NoJob, MakeJob
  <2>3. \A t, r \in Session, u \in User : Asks(t, u) /\ Deletes(r, u) => u \in raced
    BY DEF DeletionInv, Racing, Asks, Deletes
  <2>4. Racing' \subseteq raced'
    BY <2>1, <2>2, <2>3 DEF Racing, Asks, Deletes
  <2>5. deleted' = deleted \/ (DeleteCommit(s) /\ deleted' = deleted \cup {job[s].actor})
    BY <1>1, StepCases
    DEF rows, SendCommit, AcceptCommit, RejectCommit, UndoCommit, BlockCommit,
        UnblockCommit, DeleteCommit
  <2>6. DeleteCommit(s) =>
          Deletes(s, job[s].actor) /\ pc[s] = "write" /\ job[s].actor \in User
    BY <1>1, JobFacts DEF DeleteCommit, At, Deletes, PairOps
  <2>7. ASSUME NEW u \in deleted' \ raced', NEW t \in Session PROVE ~Asks(t, u)'
    <3>1. u \in User /\ u \notin raced
      BY <1>1, <2>1, <2>5, <2>6, <2>7
    <3>2. ~Asks(t, u)
      BY <2>3, <2>5, <2>6, <2>7, <3>1 DEF DeletionInv
    <3> QED
      BY <2>2, <3>1, <3>2
  <2>8. ASSUME NEW t \in Session, NEW u \in User, Deletes(t, u)', pc'[t] = "write",
               u \notin raced'
        PROVE  ActiveOf(u)' \subseteq doomed'[t]
    <3>1. ActiveOf(u)' \subseteq ActiveOf(u)
      BY <2>1, <2>2, <2>3, <2>8, OnlyRequestsActivate
    <3>2. CASE t # s
      BY <1>2, <2>1, <2>2, <2>8, <3>1, <3>2 DEF DeletionInv
    <3>3. CASE t = s
      <4>1. DeleteScan(s) /\ job[s].actor = u
        BY <2>1, <2>8, <3>3 DEF Deletes, NoJob, MakeJob
      <4>2. doomed'[s] = ActiveOf(u)
        BY <1>1, <4>1 DEF DeleteScan, TypeOK
      <4> QED
        BY <3>1, <3>3, <4>2
    <3> QED
      BY <3>2, <3>3
  <2>9. ASSUME NEW c \in DOMAIN connections', NEW u \in Ends(c)' \cap (deleted' \ raced')
        PROVE  connections'[c].gone
    <3>1. u \in User /\ u \notin raced
      BY <1>1, <2>1, <2>5, <2>6, <2>9
    <3>2. SUFFICES ASSUME c \in ActiveOf(u)' PROVE FALSE
      BY <2>9 DEF ActiveOf
    <3>3. CASE u \in deleted
      <4>1. c \notin ActiveOf(u) /\ \A t \in Session : ~Asks(t, u)
        BY <3>1, <3>3 DEF DeletionInv, DeletedKeepNoRelation, ActiveOf
      <4> QED
        BY <3>1, <3>2, <4>1, OnlyRequestsActivate
    <3>4. CASE u \notin deleted
      <4>1. DeleteCommit(s) /\ u = job[s].actor
        BY <2>5, <2>9, <3>4
      <4>2. c \in ActiveOf(u)
        BY <2>3, <2>6, <3>1, <3>2, <4>1, OnlyRequestsActivate
      <4>3. c \in Doomed(s) /\ SoftDelete(Doomed(s)) /\ c \in DOMAIN connections
        BY <2>6, <3>1, <4>1, <4>2 DEF DeletionInv, Doomed, DeleteCommit, ActiveOf
      <4>4. connections'[c] = [connections[c] EXCEPT !.gone = TRUE] /\ connections[c] \in Row
        BY <1>1, <4>3, RowsAsSequence, WritesOfRows
      <4>5. connections'[c].gone
        BY <4>4 DEF Row
      <4> QED
        BY <3>2, <4>5 DEF ActiveOf
    <3> QED
      BY <3>3, <3>4
  <2>10. DeletedKeepNoRelation'
    BY <2>9 DEF DeletedKeepNoRelation
  <2> QED
    BY <2>4, <2>7, <2>8, <2>10 DEF DeletionInv
<1> QED
  BY <1>3, <1>4 DEF Steps

(* A deleted account is left in no connection and no open request, on      *)
(* either side, unless somebody asked for one beside the deletion          *)
(* (user.py of the repositories, 103-113).                                 *)
THEOREM DeletedAccountsKeepNoRelation == Spec => []DeletedKeepNoRelation
<1>1. Init => DeletionInv
  BY DEF Init, DeletionInv, Racing, Deletes, DeletedKeepNoRelation, NoJob, MakeJob
<1>2. PairInv /\ DeletionInv /\ [Next]_vars => DeletionInv'
  <2>1. ASSUME DeletionInv, UNCHANGED vars PROVE DeletionInv'
    <3>1. UNCHANGED <<connections, deleted, pc, job, doomed, raced>>
      BY <2>1 DEF vars, rows, environment
    <3> QED
      BY <2>1, <3>1
      DEF DeletionInv, DeletedKeepNoRelation, Racing, Asks, Deletes, ActiveOf, Ends
  <2> QED
    BY <2>1, DeletionStepKeeps DEF Next, Steps
<1>3. DeletionInv => DeletedKeepNoRelation
  BY DEF DeletionInv
<1> QED
  BY <1>1, <1>2, <1>3, PairInvHolds, PTL DEF Spec

-----------------------------------------------------------------------------
(* The transactions implement PairRelations                                *)

(* RelationOf for any table of rows, so that it can be used of this state  *)
(* and of the next.                                                        *)
ActiveIn(table, p) ==
  {c \in DOMAIN table : ~table[c].gone /\ {table[c].requester, table[c].receiver} = p}

RelationIn(table, p) ==
  IF ActiveIn(table, p) = {} THEN [by |-> None, status |-> "NONE"]
  ELSE LET row == table[CHOOSE c \in ActiveIn(table, p) : TRUE]
       IN [by |-> row.requester, status |-> row.status]

LEMMA RelationBothStates ==
  /\ \A p : RelationOf(p) = RelationIn(connections, p)
  /\ \A p : RelationOf(p)' = RelationIn(connections', p)
BY DEF RelationOf, RelationIn, ActiveIn, Ends

LEMMA RelationOfRow ==
  ASSUME NEW table, NEW p, NEW c, ActiveIn(table, p) = {c}
  PROVE  RelationIn(table, p) = [by |-> table[c].requester, status |-> table[c].status]
<1>1. (CHOOSE d \in ActiveIn(table, p) : TRUE) = c
  OBVIOUS
<1>2. ActiveIn(table, p) # {}
  OBVIOUS
<1> QED
  BY <1>1, <1>2 DEF RelationIn

LEMMA RelationUnchanged ==
  ASSUME NEW old, NEW new, NEW p, ActiveIn(new, p) = ActiveIn(old, p),
         \A c \in ActiveIn(old, p) :
           new[c].requester = old[c].requester /\ new[c].status = old[c].status
  PROVE  RelationIn(new, p) = RelationIn(old, p)
<1>1. CASE ActiveIn(old, p) = {}
  BY <1>1 DEF RelationIn
<1>2. CASE ActiveIn(old, p) # {}
  <2> DEFINE c == CHOOSE d \in ActiveIn(old, p) : TRUE
  <2>1. c \in ActiveIn(old, p)
    BY <1>2
  <2>2. new[c].requester = old[c].requester /\ new[c].status = old[c].status
    BY <2>1
  <2> QED
    BY <1>2, <2>2 DEF RelationIn
<1> QED
  BY <1>1, <1>2

(* The pairs of both specifications are the same sets of two people.       *)
LEMMA SameCouples ==
  /\ Couple = Relations!Couple
  /\ \A a, b \in User : a # b => {a, b} \in Couple
<1>1. ASSUME NEW a \in User, NEW b \in User PROVE Cardinality({a, b}) = 2 <=> a # b
  <2>1. CASE a = b
    <3>1. {a, b} = {a}
      BY <2>1
    <3>2. Cardinality({a, b}) = 1
      BY <3>1, FS_Singleton
    <3> QED
      BY <2>1, <3>2
  <2>2. CASE a # b
    <3>1. IsFiniteSet({a}) /\ Cardinality({a}) = 1 /\ b \notin {a} /\ {a} \cup {b} = {a, b}
      BY <2>2, FS_Singleton
    <3>2. Cardinality({a} \cup {b}) = Cardinality({a}) + 1
      BY <3>1, FS_AddElement
    <3> QED
      BY <2>2, <3>1, <3>2
  <2> QED
    BY <2>1, <2>2
<1>2. \A a, b \in User : a # b => {a, b} \in Couple
  BY <1>1 DEF Couple, Pair
<1>3. \A p : p \in Couple <=> \E a, b \in User : a # b /\ p = {a, b}
  <2>1. ASSUME NEW p \in Couple PROVE \E a, b \in User : a # b /\ p = {a, b}
    <3>1. PICK a \in User, b \in User : p = {a, b} /\ Cardinality(p) = 2
      BY DEF Couple, Pair
    <3> QED
      BY <1>1, <3>1
  <2> QED
    BY <1>2, <2>1
<1>4. \A p : p \in Relations!Couple <=> \E a, b \in User : a # b /\ p = {a, b}
  BY DEF Relations!Couple
<1> QED
  BY <1>3, <1>4

(* What the current rows say of each pair.                                 *)
LEMMA RelationNow ==
  ASSUME TypeOK, OneRowEach
  PROVE  /\ \A p, c : c \in ActiveIn(connections, p) =>
              /\ ActiveIn(connections, p) = {c}
              /\ RelationOf(p) = [by |-> connections[c].requester,
                                  status |-> connections[c].status]
         /\ \A p : ActiveIn(connections, p) = {} => RelationOf(p) = Relations!Nothing
         /\ \A a, b : ActiveBetween(a, b) = ActiveIn(connections, {a, b})
         /\ \A c \in DOMAIN connections :
              /\ connections[c] \in Row /\ Ends(c) \in Couple
              /\ ~connections[c].gone => c \in ActiveIn(connections, Ends(c))
         /\ \A p, c : c \in ActiveIn(connections, p) => Ends(c) = p
<1>1. \A c \in DOMAIN connections : connections[c] \in Row
  BY RowsAsSequence DEF TypeOK
<1>2. \A p, c : c \in ActiveIn(connections, p) => ActiveIn(connections, p) = {c}
  BY DEF OneRowEach, ActiveIn, Ends
<1>3. \A p, c : c \in ActiveIn(connections, p) =>
        RelationOf(p) = [by |-> connections[c].requester, status |-> connections[c].status]
  BY <1>2, RelationOfRow, RelationBothStates
<1>4. \A p : ActiveIn(connections, p) = {} => RelationOf(p) = Relations!Nothing
  BY RelationBothStates DEF RelationIn, Relations!Nothing
<1>5. \A a, b : ActiveBetween(a, b) = ActiveIn(connections, {a, b})
  BY DEF ActiveBetween, ActiveIn, Ends
<1>6. \A c \in DOMAIN connections : Ends(c) \in Couple
  BY <1>1, SameCouples DEF Ends, OneRowEach, Row
<1>7. \A c \in DOMAIN connections : ~connections[c].gone => c \in ActiveIn(connections, Ends(c))
  BY DEF ActiveIn, Ends
<1>8. \A p, c : c \in ActiveIn(connections, p) => Ends(c) = p
  BY DEF ActiveIn, Ends
<1> QED
  BY <1>1, <1>2, <1>3, <1>4, <1>5, <1>6, <1>7, <1>8

(* What ending rows does to the relations.                                 *)
LEMMA RelationsAfterDelete ==
  ASSUME TypeOK, OneRowEach, NEW gone, SoftDelete(gone)
  PROVE  \A p : /\ ActiveIn(connections, p) \cap gone = {} => RelationOf(p)' = RelationOf(p)
                /\ ActiveIn(connections, p) \subseteq gone => RelationOf(p)' = Relations!Nothing
<1>1. /\ DOMAIN connections' = DOMAIN connections
      /\ \A c \in DOMAIN connections :
           connections'[c] = IF c \in gone THEN [connections[c] EXCEPT !.gone = TRUE]
                                           ELSE connections[c]
  BY WritesOfRows DEF TypeOK
<1>2. \A c \in gone \cap DOMAIN connections : connections'[c].gone
  BY <1>1, RowsAsSequence DEF Row, TypeOK
<1>3. \A c \in DOMAIN connections \ gone : connections'[c] = connections[c]
  BY <1>1
<1>4. ASSUME NEW p
      PROVE  ActiveIn(connections', p) = ActiveIn(connections, p) \ gone
  BY <1>1, <1>2, <1>3 DEF ActiveIn
<1>5. ASSUME NEW p, ActiveIn(connections, p) \cap gone = {}
      PROVE  RelationOf(p)' = RelationOf(p)
  <2>1. ActiveIn(connections', p) = ActiveIn(connections, p)
    BY <1>4, <1>5
  <2>2. \A c \in ActiveIn(connections, p) : connections'[c] = connections[c]
    BY <1>3, <1>5 DEF ActiveIn
  <2> QED
    BY <2>1, <2>2, RelationUnchanged, RelationBothStates
<1>6. ASSUME NEW p, ActiveIn(connections, p) \subseteq gone
      PROVE  RelationOf(p)' = Relations!Nothing
  BY <1>4, <1>6, RelationBothStates DEF RelationIn, Relations!Nothing
<1> QED
  BY <1>5, <1>6

RelationNowOf == [p \in Couple |-> RelationOf(p)]

LEMMA StepImplementsRelations ==
  ASSUME PairInv, NEW s \in Session, Steps(s)
  PROVE  Relations!Next \/ UNCHANGED <<RelationNowOf, blocks, deleted>>
<1>1. /\ TypeOK /\ OneRowEach /\ connections \in Seq(Row) /\ HoldsInOrder(s) /\ DecisionHolds(s)
  BY DEF PairInv, TypeOK
<1>2. CASE UNCHANGED rows
  <2>1. \A p : RelationOf(p)' = RelationOf(p)
    BY <1>2, RelationBothStates DEF rows
  <2> QED
    BY <1>2, <2>1 DEF RelationNowOf, rows
<1>3. CASE SendCommit(s)
  <2>1. PICK a \in User, b \in User : a = job[s].actor /\ b = job[s].other
    BY <1>1, <1>3, JobFacts DEF SendCommit, At, PairOps
  <2>2. /\ connections' = Append(connections, NewRow(a, b)) /\ UNCHANGED <<blocks, deleted>>
        /\ a # b /\ ~BlockedBetween(a, b) /\ ActiveBetween(a, b) = {}
    BY <1>1, <1>3, <2>1 DEF SendCommit, NewRow, DecisionHolds, At
  <2>3. PICK new : new = Len(connections) + 1
    OBVIOUS
  <2>4. /\ DOMAIN connections' = DOMAIN connections \cup {new} /\ new \notin DOMAIN connections
        /\ connections'[new] = NewRow(a, b)
        /\ \A c \in DOMAIN connections : connections'[c] = connections[c]
    BY <1>1, <2>2, <2>3, WritesOfRows
  <2>5. {a, b} \in Couple /\ RelationOf({a, b}) = Relations!Nothing
    BY <1>1, <2>2, RelationNow, SameCouples
  <2>6. RelationOf({a, b})' = [by |-> a, status |-> "PENDING"]
    <3>1. ActiveIn(connections', {a, b}) = {new}
      <4>1. ActiveIn(connections, {a, b}) = {}
        BY <1>1, <2>2, RelationNow
      <4> QED
        BY <2>4, <4>1 DEF ActiveIn, NewRow
    <3>2. connections'[new].requester = a /\ connections'[new].status = "PENDING"
      BY <2>4 DEF NewRow
    <3> QED
      BY <3>1, <3>2, RelationOfRow, RelationBothStates
  <2>7. ASSUME NEW p \in Couple, p # {a, b} PROVE RelationOf(p)' = RelationOf(p)
    <3>1. ActiveIn(connections', p) = ActiveIn(connections, p)
      BY <2>4, <2>7 DEF ActiveIn, NewRow
    <3>2. \A c \in ActiveIn(connections, p) : connections'[c] = connections[c]
      BY <2>4 DEF ActiveIn
    <3> QED
      BY <3>1, <3>2, RelationUnchanged, RelationBothStates
  <2>8. RelationNowOf' = [RelationNowOf EXCEPT ![{a, b}] = [by |-> a, status |-> "PENDING"]]
    BY <2>6, <2>7 DEF RelationNowOf
  <2>9. Relations!Ask(a, b)
    BY <2>2, <2>5, <2>8 DEF Relations!Ask, Relations!Parted, BlockedBetween, RelationNowOf
  <2> QED
    BY <2>9 DEF Relations!Next
<1>4. CASE AcceptCommit(s) \/ RejectCommit(s)
  <2>1. PICK c \in DOMAIN connections : c = job[s].connection
    BY <1>1, <1>4, JobFacts DEF AcceptCommit, RejectCommit, At, OnRow, AnswerOps
  <2>2. PICK status \in {"CONFIRMED", "REJECTED"} :
          connections' = [connections EXCEPT ![c].status = status]
    BY <1>4, <2>1 DEF AcceptCommit, RejectCommit
  <2>3. /\ UNCHANGED <<blocks, deleted>>
        /\ connections[c].status = "PENDING" /\ ~connections[c].gone
    BY <1>1, <1>4, <2>1 DEF AcceptCommit, RejectCommit, At, DecisionHolds, OnRow, AnswerOps
  <2>4. /\ DOMAIN connections' = DOMAIN connections
        /\ connections'[c] = [connections[c] EXCEPT !.status = status]
        /\ \A d \in DOMAIN connections : d # c => connections'[d] = connections[d]
    BY <1>1, <2>2, WritesOfRows DEF Status
  <2>5. PICK p \in Couple : p = Ends(c)
    BY <1>1, RelationNow
  <2>6. connections[c] \in Row /\ ActiveIn(connections, p) = {c}
        /\ RelationOf(p) = [by |-> connections[c].requester, status |-> "PENDING"]
    BY <1>1, <2>3, <2>5, RelationNow
  <2>7. /\ connections'[c].requester = connections[c].requester
        /\ connections'[c].receiver = connections[c].receiver
        /\ connections'[c].gone = connections[c].gone /\ connections'[c].status = status
    BY <2>4, <2>6 DEF Row
  <2>8. ASSUME NEW q PROVE ActiveIn(connections', q) = ActiveIn(connections, q)
    <3>1. ASSUME NEW d \in DOMAIN connections
          PROVE  d \in ActiveIn(connections', q) <=> d \in ActiveIn(connections, q)
      <4>1. CASE d = c
        BY <2>4, <2>7, <4>1 DEF ActiveIn
      <4>2. CASE d # c
        BY <2>4, <4>2 DEF ActiveIn
      <4> QED
        BY <4>1, <4>2
    <3> QED
      BY <2>4, <3>1 DEF ActiveIn
  <2>9. RelationOf(p)' = [by |-> connections[c].requester, status |-> status]
    BY <2>6, <2>7, <2>8, RelationOfRow, RelationBothStates
  <2>10. ASSUME NEW q \in Couple, q # p PROVE RelationOf(q)' = RelationOf(q)
    <3>1. \A d \in ActiveIn(connections, q) : connections'[d] = connections[d]
      BY <2>4, <2>5, <2>10 DEF ActiveIn, Ends
    <3> QED
      BY <2>8, <3>1, RelationUnchanged, RelationBothStates
  <2>11. RelationNowOf[p] = RelationOf(p)
    BY DEF RelationNowOf
  <2>12. [RelationOf(p) EXCEPT !.status = status] = RelationOf(p)'
    BY <2>6, <2>9
  <2>13. RelationNowOf' = [RelationNowOf EXCEPT ![p].status = status]
    BY <2>10, <2>12 DEF RelationNowOf
  <2>14. Relations!Answer(p, status)
    BY <2>3, <2>6, <2>11, <2>13 DEF Relations!Answer, RelationNowOf
  <2> QED
    BY <2>14, SameCouples DEF Relations!Next
<1>5. CASE UndoCommit(s)
  <2>1. PICK c \in DOMAIN connections : c = job[s].connection
    BY <1>1, <1>5, JobFacts DEF UndoCommit, At, OnRow
  <2>2. SoftDelete({c}) /\ UNCHANGED <<blocks, deleted>> /\ ~connections[c].gone
    BY <1>1, <1>5, <2>1 DEF UndoCommit, At, DecisionHolds, OnRow
  <2>3. PICK p \in Couple : p = Ends(c)
    BY <1>1, RelationNow
  <2>4. /\ connections[c] \in Row /\ ActiveIn(connections, p) = {c}
        /\ RelationOf(p).status = connections[c].status
    BY <1>1, <2>2, <2>3, RelationNow
  <2>5. RelationOf(p) # Relations!Nothing
    BY <2>4 DEF Row, Status, Relations!Nothing
  <2>6. RelationOf(p)' = Relations!Nothing
    BY <1>1, <2>2, <2>4, RelationsAfterDelete
  <2>7. ASSUME NEW q \in Couple, q # p PROVE RelationOf(q)' = RelationOf(q)
    <3>1. c \notin ActiveIn(connections, q)
      BY <1>1, <2>3, <2>7, RelationNow
    <3> QED
      BY <1>1, <2>2, <3>1, RelationsAfterDelete
  <2>8. RelationNowOf' = [RelationNowOf EXCEPT ![p] = Relations!Nothing]
    BY <2>6, <2>7 DEF RelationNowOf
  <2>9. Relations!Undo(p)
    BY <2>2, <2>5, <2>8 DEF Relations!Undo, RelationNowOf
  <2> QED
    BY <2>9, SameCouples DEF Relations!Next
<1>6. CASE BlockCommit(s)
  <2>1. PICK a \in User, b \in User : a = job[s].actor /\ b = job[s].other
    BY <1>1, <1>6, JobFacts DEF BlockCommit, At, PairOps
  <2>2. /\ blocks' = blocks \cup {<<a, b>>} /\ SoftDelete({rowLock[s]}) /\ deleted' = deleted
        /\ ToCut(a, b) = {rowLock[s]} \ {0} /\ a # b
    BY <1>1, <1>6, <2>1 DEF BlockCommit, DecisionHolds, At
  <2>3. PICK p \in Couple : p = {a, b}
    BY <2>2, SameCouples
  <2>4. 0 \notin DOMAIN connections
    BY <1>1, RowsAsSequence
  <2>5. ToCut(a, b) = {c \in ActiveIn(connections, p) : connections[c].status # "REJECTED"}
    BY <1>1, <2>3, RelationNow DEF ToCut
  <2>6. ASSUME NEW q \in Couple, q # p PROVE RelationOf(q)' = RelationOf(q)
    <3>1. rowLock[s] \notin ActiveIn(connections, q)
      <4>1. ASSUME rowLock[s] \in ActiveIn(connections, q) PROVE FALSE
        <5>1. rowLock[s] # 0 /\ Ends(rowLock[s]) = q
          BY <1>1, <2>4, <4>1, RelationNow DEF ActiveIn
        <5>2. rowLock[s] \in ActiveIn(connections, p)
          BY <2>2, <2>5, <5>1
        <5> QED
          BY <1>1, <2>6, <5>1, <5>2, RelationNow
      <4> QED
        BY <4>1
    <3> QED
      BY <1>1, <2>2, <3>1, RelationsAfterDelete
  <2>7. ASSUME RelationOf(p).status = "REJECTED" PROVE Relations!Block(a, b)
    <3>1. ActiveIn(connections, p) \cap {rowLock[s]} = {}
      <4>1. ASSUME NEW c \in ActiveIn(connections, p), c = rowLock[s] PROVE FALSE
        <5>1. connections[c].status = "REJECTED"
          BY <1>1, <2>7, RelationNow
        <5>2. c # 0
          BY <2>4 DEF ActiveIn
        <5> QED
          BY <2>2, <2>5, <4>1, <5>1, <5>2
      <4> QED
        BY <4>1
    <3>2. RelationOf(p)' = RelationOf(p)
      BY <1>1, <2>2, <3>1, RelationsAfterDelete
    <3>3. RelationNowOf' = RelationNowOf
      BY <2>6, <3>2 DEF RelationNowOf
    <3> QED
      BY <2>2, <2>3, <2>7, <3>3 DEF Relations!Block, RelationNowOf
  <2>8. ASSUME RelationOf(p).status # "REJECTED" PROVE Relations!Block(a, b)
    <3>1. ActiveIn(connections, p) \subseteq {rowLock[s]}
      <4>1. ASSUME NEW c \in ActiveIn(connections, p) PROVE c = rowLock[s]
        <5>1. connections[c].status # "REJECTED"
          BY <1>1, <2>8, RelationNow
        <5> QED
          BY <2>2, <2>5, <5>1
      <4> QED
        BY <4>1
    <3>2. RelationOf(p)' = Relations!Nothing
      BY <1>1, <2>2, <3>1, RelationsAfterDelete
    <3>3. RelationNowOf' = [RelationNowOf EXCEPT ![p] = Relations!Nothing]
      BY <2>6, <3>2 DEF RelationNowOf
    <3> QED
      BY <2>2, <2>3, <2>8, <3>3 DEF Relations!Block, RelationNowOf
  <2>9. Relations!Block(a, b)
    BY <2>7, <2>8
  <2> QED
    BY <2>9 DEF Relations!Next
<1>7. CASE UnblockCommit(s)
  <2>1. job[s].actor \in User /\ job[s].other \in User
    BY <1>1, <1>7, JobFacts DEF UnblockCommit, At, PairOps
  <2>2. \A p : RelationOf(p)' = RelationOf(p)
    BY <1>7, RelationBothStates DEF UnblockCommit
  <2>3. Relations!Unblock(job[s].actor, job[s].other)
    BY <1>7, <2>2 DEF UnblockCommit, Relations!Unblock
  <2> QED
    BY <2>1, <2>3 DEF Relations!Next
<1>8. CASE DeleteCommit(s)
  <2>1. PICK u \in User : u = job[s].actor
    BY <1>1, <1>8, JobFacts DEF DeleteCommit, At, PairOps
  <2> DEFINE kept == {p \in Couple : ActiveIn(connections, p) \cap Doomed(s) = {}}
  <2>2. /\ SoftDelete(Doomed(s)) /\ deleted' = deleted \cup {u} /\ blocks' = blocks
        /\ Doomed(s) \subseteq ActiveOf(u)
    BY <1>8, <2>1 DEF DeleteCommit, Doomed
  <2>3. ASSUME NEW p \in Couple
        PROVE  RelationOf(p)' =
                 IF u \in p /\ p \notin kept THEN Relations!Nothing ELSE RelationOf(p)
    <3>1. CASE p \in kept
      BY <1>1, <2>2, <3>1, RelationsAfterDelete
    <3>2. CASE p \notin kept
      <4>1. PICK c \in ActiveIn(connections, p) : c \in Doomed(s)
        BY <3>2
      <4>2. ActiveIn(connections, p) = {c} /\ Ends(c) = p
        BY <1>1, RelationNow
      <4>3. u \in p
        BY <2>2, <4>1, <4>2 DEF ActiveOf
      <4>4. RelationOf(p)' = Relations!Nothing
        BY <1>1, <2>2, <4>1, <4>2, RelationsAfterDelete
      <4> QED
        BY <3>2, <4>3, <4>4
    <3> QED
      BY <3>1, <3>2
  <2>4. RelationNowOf' = [p \in Couple |-> IF u \in p /\ p \notin kept THEN Relations!Nothing
                                                                    ELSE RelationNowOf[p]]
    BY <2>3 DEF RelationNowOf
  <2>5. kept \in SUBSET Relations!Couple
    BY SameCouples
  <2>6. Relations!DeleteAccount(u)
    BY <2>2, <2>4, <2>5, SameCouples DEF Relations!DeleteAccount, RelationNowOf
  <2> QED
    BY <2>6 DEF Relations!Next
<1> QED
  BY <1>1, <1>2, <1>3, <1>4, <1>5, <1>6, <1>7, <1>8, StepCases

(* Seen from outside, the requests act on the relation of two people one   *)
(* at a time and in one step each, as PairRelations describes: however the *)
(* statements of requests, blocks and deletions interleave, each commit is *)
(* one step of that specification and every other statement is none.       *)
THEOREM TransactionsImplementRelations == Spec => ImplementsRelations
<1>1. Init => Relations!Init
  <2>1. ASSUME Init PROVE Relations!Init
    <3>1. connections = <<>> /\ blocks = {} /\ deleted = {}
      BY <2>1 DEF Init
    <3>2. \A p : ActiveIn(connections, p) = {}
      BY <3>1 DEF ActiveIn
    <3>3. \A p : RelationOf(p) = Relations!Nothing
      BY <3>2, RelationBothStates DEF RelationIn, Relations!Nothing
    <3> QED
      BY <3>1, <3>3, SameCouples DEF Relations!Init
  <2> QED
    BY <2>1
<1>2. PairInv /\ [Next]_vars => [Relations!Next]_(Relations!relationVars)
  <2>1. ASSUME PairInv, NEW s \in Session, Steps(s)
        PROVE  [Relations!Next]_(Relations!relationVars)
    BY <2>1, StepImplementsRelations DEF Relations!relationVars, RelationNowOf
  <2>2. ASSUME UNCHANGED vars PROVE [Relations!Next]_(Relations!relationVars)
    <3>1. UNCHANGED <<connections, blocks, deleted>>
      BY <2>2 DEF vars, rows
    <3>2. \A p : RelationOf(p)' = RelationOf(p)
      BY <3>1, RelationBothStates
    <3> QED
      BY <3>1, <3>2 DEF Relations!relationVars
  <2> QED
    BY <2>1, <2>2 DEF Next, Steps
<1> QED
  BY <1>1, <1>2, PairInvHolds, PTL DEF Spec, ImplementsRelations, Relations!Spec
=============================================================================
