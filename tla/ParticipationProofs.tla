------------------------ MODULE ParticipationProofs ------------------------
(***************************************************************************)
(* Theorems about Participation.tla, for every set of users, events and    *)
(* sessions, every capacity and any number of requests: types, capacity,   *)
(* and what rests on the locks: the lock order and the absence of          *)
(* deadlock, blocks, notices, final answers, and the refinement of         *)
(* EventLifecycle.tla.                                                     *)
(***************************************************************************)
EXTENDS Participation, FiniteSetTheorems, TLAPS

(* A session at a statement of an event request serves a job about an      *)
(* existing event and user; the goal of an answer is one of the three the  *)
(* organizer can ask for.                                                  *)
LEMMA EventJobTyped ==
  ASSUME SessionsTyped, NEW s \in Session, job[s].op \in EventOps
  PROVE  /\ job[s].event \in Event /\ job[s].user \in User /\ job[s].goal \in Status
         /\ job[s].op = "answer" => job[s].goal \in AnswerGoal
         /\ job[s].op # "answer" => job[s] \in EventJob
<1>1. job[s] \in Job \cup {NoJob}
  BY DEF SessionsTyped
<1>2. job[s] # NoJob
  BY DEF NoJob, MakeJob, EventOps
<1>3. job[s] \notin AccountJob
  BY DEF EventOps, AccountOps, AccountJob
<1>4. job[s] \in EventJob \/ job[s] \in AnswerJob
  BY <1>1, <1>2, <1>3 DEF Job
<1> QED
  BY <1>4 DEF EventJob, AnswerJob, AnswerGoal, Status

LEMMA AccountJobTyped ==
  ASSUME SessionsTyped, NEW s \in Session, job[s].op \in AccountOps
  PROVE  job[s].user \in User /\ job[s].actor \in User
<1>1. job[s] \in Job \cup {NoJob}
  BY DEF SessionsTyped
<1>2. job[s] # NoJob
  BY DEF NoJob, MakeJob, AccountOps
<1> QED
  BY <1>1, <1>2 DEF Job, EventJob, AnswerJob, AccountJob

(* Taking and releasing locks leaves them held by sessions or free.        *)
LEMMA LocksKeepType ==
  ASSUME LocksTyped, NEW s \in Session
  PROVE  /\ Unlock(s) => LocksTyped'
         /\ \A e : TakeEvent(s, e) /\ UNCHANGED <<pairLock, rowLock>> => LocksTyped'
         /\ \A p : TakePair(s, p) /\ UNCHANGED <<eventLock, rowLock>> => LocksTyped'
         /\ \A e \in Event, u \in User : TakeRow(s, e, u) /\ UNCHANGED <<eventLock, pairLock>>
              => LocksTyped'
         /\ UNCHANGED locks => LocksTyped'
<1>1. Unlock(s) => LocksTyped'
  BY DEF Unlock, LocksTyped
<1>2. \A e : TakeEvent(s, e) /\ UNCHANGED <<pairLock, rowLock>> => LocksTyped'
  BY DEF TakeEvent, LocksTyped
<1>3. \A p : TakePair(s, p) /\ UNCHANGED <<eventLock, rowLock>> => LocksTyped'
  BY DEF TakePair, LocksTyped
<1>4. \A e \in Event, u \in User : TakeRow(s, e, u) /\ UNCHANGED <<eventLock, pairLock>>
              => LocksTyped'
  BY DEF TakeRow, LocksTyped
<1>5. UNCHANGED locks => LocksTyped'
  BY DEF locks, LocksTyped
<1> QED
  BY <1>1, <1>2, <1>3, <1>4, <1>5

(* Ending a transaction, and so an error answer, keeps the types.          *)
LEMMA EndKeepsType ==
  ASSUME TypeOK, NEW s \in Session, EndRequest(s)
  PROVE  LocksTyped' /\ SessionsTyped'
<1>1. LocksTyped'
  BY LocksKeepType DEF TypeOK, EndRequest
<1>2. SessionsTyped'
  BY DEF TypeOK, SessionsTyped, EndRequest, Goto, Step
<1> QED
  BY <1>1, <1>2

LEMMA AbortKeepsType ==
  ASSUME TypeOK, NEW s \in Session, Abort(s)
  PROVE  TypeOK'
<1>1. LocksTyped' /\ SessionsTyped'
  BY EndKeepsType DEF Abort
<1>2. ParamsTyped' /\ RowsTyped' /\ EnvironmentTyped'
  BY DEF Abort, TypeOK, params, rows, environment, ParamsTyped, RowsTyped, EnvironmentTyped
<1> QED
  BY <1>1, <1>2 DEF TypeOK

(* Starting a request keeps the types, if its job has its type.            *)
LEMMA BeginKeepsType ==
  ASSUME TypeOK, NEW s \in Session, NEW j \in Job, NEW step \in Step,
         Begin(s, j, step), recipients' \in [Session -> SUBSET User]
  PROVE  TypeOK'
<1>1. ParamsTyped' /\ RowsTyped' /\ LocksTyped'
  BY DEF Begin, TypeOK, params, rows, locks, ParamsTyped, RowsTyped, LocksTyped
<1>2. SessionsTyped'
  BY DEF Begin, Goto, TypeOK, SessionsTyped
<1>3. EnvironmentTyped'
  <2>1. served' \in 0..MaxRequests
    BY ParticipationAssumption DEF Begin, TypeOK, EnvironmentTyped, ParticipationAssumption
  <2>2. Racing' \subseteq User
    BY DEF Racing
  <2> QED
    BY <2>1, <2>2 DEF Begin, TypeOK, EnvironmentTyped
<1> QED
  BY <1>1, <1>2, <1>3 DEF TypeOK

LEMMA ProceedKeepsType ==
  ASSUME TypeOK, NEW s \in Session, NEW step \in Step, Proceed(s, step), LocksTyped'
  PROVE  TypeOK'
<1>1. ParamsTyped' /\ RowsTyped' /\ EnvironmentTyped'
  BY DEF Proceed, TypeOK, params, rows, environment, ParamsTyped, RowsTyped, EnvironmentTyped
<1>2. SessionsTyped'
  BY DEF Proceed, Goto, TypeOK, SessionsTyped
<1> QED
  BY <1>1, <1>2 DEF TypeOK

(* A commit that leaves rows of their types keeps all the types.           *)
LEMMA CommitKeepsType ==
  ASSUME TypeOK, NEW s \in Session, EndRequest(s), UNCHANGED <<params, environment>>,
         RowsTyped'
  PROVE  TypeOK'
<1>1. LocksTyped' /\ SessionsTyped'
  BY EndKeepsType
<1>2. ParamsTyped' /\ EnvironmentTyped'
  BY DEF TypeOK, params, environment, ParamsTyped, EnvironmentTyped
<1> QED
  BY <1>1, <1>2 DEF TypeOK

LEMMA NoticesTyped ==
  ASSUME NEW type \in ToOrganizer \cup ToParticipant, NEW e \in Event, NEW u \in User
  PROVE  /\ MakeNotice(type, e, u) \in Notice
         /\ Dispatch(type, e, u) \subseteq Notice
<1>1. MakeNotice(type, e, u) \in Notice
  BY DEF MakeNotice, Notice
<1> QED
  BY <1>1 DEF Dispatch

(* Every request that arrives keeps the types.                             *)
LEMMA RequestKeepsType ==
  ASSUME TypeOK, NEW s \in Session, Request(s)
  PROVE  TypeOK'
<1>1. recipients \in [Session -> SUBSET User]
  BY DEF TypeOK, SessionsTyped
<1>2. /\ Organizer \in [Event -> User]
      /\ {"idle", "event", "pair", "row", "scan", "write", "next"} \subseteq Step
  BY ParticipationAssumption DEF ParticipationAssumption, Step
<1>3. \A op \in EventOps \ {"answer"}, a \in User, e \in Event, u \in User,
         g \in {"NONE", "CONFIRMED"} : MakeJob(op, a, e, u, g) \in Job
  BY DEF MakeJob, Job, EventJob
<1>4. \A op \in AccountOps, a \in User, u \in User : MakeJob(op, a, None, u, "NONE") \in Job
  BY DEF MakeJob, Job, AccountJob
<1>5. ASSUME NEW u \in User, NEW e \in Event, RequestJoin(s, u, e)
      PROVE  TypeOK'
  <2>1. MakeJob("join", u, e, u, "NONE") \in Job
    BY <1>3 DEF EventOps
  <2> QED
    BY <1>1, <1>2, <1>5, <2>1, BeginKeepsType DEF RequestJoin
<1>6. ASSUME NEW u \in User, NEW e \in Event, RequestAccept(s, u, e)
      PROVE  TypeOK'
  <2>1. MakeJob("accept", u, e, u, "CONFIRMED") \in Job
    BY <1>3 DEF EventOps
  <2> QED
    BY <1>1, <1>2, <1>6, <2>1, BeginKeepsType DEF RequestAccept
<1>7. ASSUME NEW u \in User, NEW e \in Event, RequestLeave(s, u, e)
      PROVE  TypeOK'
  <2>1. MakeJob("leave", u, e, u, "NONE") \in Job
    BY <1>3 DEF EventOps
  <2> QED
    BY <1>1, <1>2, <1>7, <2>1, BeginKeepsType DEF RequestLeave
<1>8. ASSUME NEW u \in User, NEW e \in Event, RequestCancel(s, u, e)
      PROVE  TypeOK'
  <2>1. MakeJob("cancel", u, e, u, "NONE") \in Job
    BY <1>3 DEF EventOps
  <2>2. recipients' \in [Session -> SUBSET User]
    BY <1>1, <1>8 DEF RequestCancel
  <2> QED
    BY <1>2, <1>8, <2>1, <2>2, BeginKeepsType DEF RequestCancel
<1>9. ASSUME NEW u \in User, NEW e \in Event, NEW v \in User,
             NEW g \in AnswerGoal, RequestAnswer(s, u, e, v, g)
      PROVE  TypeOK'
  <2>1. MakeJob("answer", u, e, v, g) \in Job
    BY DEF MakeJob, Job, AnswerJob
  <2> QED
    BY <1>1, <1>2, <1>9, <2>1, BeginKeepsType DEF RequestAnswer
<1>10. ASSUME NEW a \in User, NEW b \in User, RequestBlock(s, a, b)
       PROVE  TypeOK'
  <2>1. MakeJob("block", a, None, b, "NONE") \in Job
    BY <1>4 DEF AccountOps
  <2> QED
    BY <1>1, <1>2, <1>10, <2>1, BeginKeepsType DEF RequestBlock
<1>11. ASSUME NEW a \in User, NEW b \in User, RequestUnblock(s, a, b)
       PROVE  TypeOK'
  <2>1. MakeJob("unblock", a, None, b, "NONE") \in Job
    BY <1>4 DEF AccountOps
  <2> QED
    BY <1>1, <1>2, <1>11, <2>1, BeginKeepsType DEF RequestUnblock
<1>12. ASSUME NEW u \in User, RequestDelete(s, u)
       PROVE  TypeOK'
  <2>1. MakeJob("delete", u, None, u, "NONE") \in Job
    BY <1>4 DEF AccountOps
  <2> QED
    BY <1>1, <1>2, <1>12, <2>1, BeginKeepsType DEF RequestDelete
<1>13. ASSUME NEW e \in Event, RequestCreate(s, e)
       PROVE  TypeOK'
  <2>1. MakeJob("create", Organizer[e], e, Organizer[e], "NONE") \in Job
    BY <1>2, <1>3 DEF EventOps
  <2> QED
    BY <1>1, <1>2, <1>13, <2>1, BeginKeepsType DEF RequestCreate
<1>14. ASSUME NEW u \in User, NEW e \in Event, RequestReschedule(s, u, e)
       PROVE  TypeOK'
  <2>1. MakeJob("reschedule", u, e, u, "NONE") \in Job
    BY <1>3 DEF EventOps
  <2>2. recipients' \in [Session -> SUBSET User]
    BY <1>1, <1>14 DEF RequestReschedule, Confirmed
  <2> QED
    BY <1>2, <1>14, <2>1, <2>2, BeginKeepsType DEF RequestReschedule
<1> QED
  BY <1>5, <1>6, <1>7, <1>8, <1>9, <1>10, <1>11, <1>12, <1>13, <1>14 DEF Request

(* The steps of a request to join, of an accepted invite, of the           *)
(* organizer's answer and of a withdrawal.                                 *)
LEMMA EntryStepsKeepType ==
  ASSUME TypeOK, NEW s \in Session,
         \/ JoinLockEvent(s) \/ JoinCheckPair(s) \/ JoinDecide(s) \/ JoinCommit(s)
         \/ AcceptLockEvent(s) \/ AcceptCheckPair(s) \/ AcceptDecide(s) \/ AcceptCommit(s)
  PROVE  TypeOK'
<1> DEFINE e == job[s].event
           u == job[s].user
<1>1. /\ TypeOK /\ SessionsTyped /\ LocksTyped /\ RowsTyped
      /\ {"idle", "event", "pair", "row", "write", "next"} \subseteq Step
      /\ {"join", "accept"} \subseteq EventOps
  BY DEF TypeOK, Step, EventOps
<1>2. ASSUME job[s].op \in {"join", "accept"}
      PROVE  e \in Event /\ u \in User /\ job[s].goal \in Status
  BY <1>1, <1>2, EventJobTyped
<1>3. CASE JoinLockEvent(s)
  <2>1. CASE Abort(s)
    BY <2>1, AbortKeepsType
  <2>2. CASE TakeEvent(s, e) /\ Proceed(s, "pair") /\ UNCHANGED <<pairLock, rowLock>>
    BY <1>1, <2>2, LocksKeepType, ProceedKeepsType
  <2> QED
    BY <1>3, <2>1, <2>2 DEF JoinLockEvent
<1>4. CASE JoinCheckPair(s)
  <2>1. CASE Abort(s)
    BY <2>1, AbortKeepsType
  <2>2. CASE TakePair(s, PairOf(e, u)) /\ Proceed(s, "row") /\ UNCHANGED <<eventLock, rowLock>>
    BY <1>1, <2>2, LocksKeepType, ProceedKeepsType
  <2> QED
    BY <1>4, <2>1, <2>2 DEF JoinCheckPair
<1>5. CASE JoinDecide(s)
  <2>1. CASE Abort(s)
    BY <2>1, AbortKeepsType
  <2>2. CASE ~Abort(s)
    <3>1. PICK target \in {"CONFIRMED", "PENDING"} :
            /\ job[s].op = "join"
            /\ TakeRow(s, e, u) \/ UNCHANGED rowLock
            /\ job' = [job EXCEPT ![s].goal = target]
            /\ Goto(s, "write")
            /\ UNCHANGED <<params, rows, environment, eventLock, pairLock, recipients, draft,
                           doomed>>
      BY <1>5, <2>2 DEF JoinDecide, At
    <3>2. job[s] \in EventJob
      BY <1>1, <3>1, EventJobTyped
    <3>3. [job[s] EXCEPT !.goal = target] \in Job
      BY <3>2 DEF Job, EventJob
    <3>4. job' = [job EXCEPT ![s] = [job[s] EXCEPT !.goal = target]]
      BY <3>1
    <3>5. SessionsTyped'
      BY <1>1, <3>1, <3>3, <3>4 DEF SessionsTyped, Goto
    <3>6. LocksTyped'
      BY <1>1, <1>2, <3>1, LocksKeepType DEF locks
    <3> QED
      BY <3>1, <3>5, <3>6
      DEF TypeOK, ParamsTyped, RowsTyped, EnvironmentTyped, params, rows, environment
  <2> QED
    BY <2>1, <2>2
<1>6. CASE JoinCommit(s)
  <2>1. job[s].op = "join"
    BY <1>6 DEF JoinCommit, At
  <2>2. PICK type \in ToOrganizer : inbox' = inbox \cup Dispatch(type, e, u)
    BY <1>6 DEF JoinCommit, ToOrganizer
  <2>3. Dispatch(type, e, u) \subseteq Notice
    BY <1>2, <2>1, NoticesTyped
  <2>4. RowsTyped'
    BY <1>1, <1>2, <1>6, <2>1, <2>2, <2>3 DEF JoinCommit, RowsTyped
  <2> QED
    BY <1>6, <2>4, CommitKeepsType DEF JoinCommit
<1>7. CASE AcceptLockEvent(s)
  <2>1. CASE Abort(s)
    BY <2>1, AbortKeepsType
  <2>2. CASE TakeEvent(s, e) /\ Proceed(s, "pair") /\ UNCHANGED <<pairLock, rowLock>>
    BY <1>1, <2>2, LocksKeepType, ProceedKeepsType
  <2> QED
    BY <1>7, <2>1, <2>2 DEF AcceptLockEvent
<1>8. CASE AcceptCheckPair(s)
  <2>1. CASE Abort(s)
    BY <2>1, AbortKeepsType
  <2>2. CASE TakePair(s, PairOf(e, u)) /\ Proceed(s, "row") /\ UNCHANGED <<eventLock, rowLock>>
    BY <1>1, <2>2, LocksKeepType, ProceedKeepsType
  <2> QED
    BY <1>8, <2>1, <2>2 DEF AcceptCheckPair
<1>9. CASE AcceptDecide(s)
  <2>1. CASE Abort(s)
    BY <2>1, AbortKeepsType
  <2>2. CASE Proceed(s, "write") /\ UNCHANGED locks
    BY <1>1, <2>2, LocksKeepType, ProceedKeepsType
  <2> QED
    BY <1>9, <2>1, <2>2 DEF AcceptDecide
<1>10. CASE AcceptCommit(s)
  <2>1. job[s].op = "accept"
    BY <1>10 DEF AcceptCommit, At
  <2>2. Dispatch("EVENT_PARTICIPANT_JOINED", e, u) \subseteq Notice
    BY <1>2, <2>1, NoticesTyped DEF ToOrganizer
  <2>3. RowsTyped'
    BY <1>1, <1>2, <1>10, <2>1, <2>2 DEF AcceptCommit, RowsTyped, Status
  <2> QED
    BY <1>10, <2>3, CommitKeepsType DEF AcceptCommit
<1> QED
  BY <1>3, <1>4, <1>5, <1>6, <1>7, <1>8, <1>9, <1>10

LEMMA AnswerStepsKeepType ==
  ASSUME TypeOK, NEW s \in Session,
         \/ AnswerLockEvent(s) \/ AnswerCheckPair(s) \/ AnswerDecide(s) \/ AnswerCommit(s)
         \/ LeaveLockEvent(s) \/ LeaveDecide(s) \/ LeaveCommit(s)
  PROVE  TypeOK'
<1> DEFINE e == job[s].event
           u == job[s].user
<1>1. /\ TypeOK /\ SessionsTyped /\ LocksTyped /\ RowsTyped
      /\ {"idle", "event", "pair", "row", "write", "next"} \subseteq Step
      /\ {"answer", "leave"} \subseteq EventOps
  BY DEF TypeOK, Step, EventOps
<1>2. ASSUME job[s].op \in {"answer", "leave"}
      PROVE  e \in Event /\ u \in User /\ job[s].goal \in Status
  BY <1>1, <1>2, EventJobTyped
<1>3. CASE AnswerLockEvent(s)
  <2>1. CASE Abort(s)
    BY <2>1, AbortKeepsType
  <2>2. CASE TakeEvent(s, e) /\ Proceed(s, "pair") /\ UNCHANGED <<pairLock, rowLock>>
    BY <1>1, <2>2, LocksKeepType, ProceedKeepsType
  <2> QED
    BY <1>3, <2>1, <2>2 DEF AnswerLockEvent
<1>4. CASE AnswerCheckPair(s)
  <2>1. CASE Abort(s)
    BY <2>1, AbortKeepsType
  <2>2. CASE TakePair(s, PairOf(e, u)) /\ Proceed(s, "row") /\ UNCHANGED <<eventLock, rowLock>>
    BY <1>1, <2>2, LocksKeepType, ProceedKeepsType
  <2> QED
    BY <1>4, <2>1, <2>2 DEF AnswerCheckPair
<1>5. CASE AnswerDecide(s)
  <2>1. CASE Abort(s)
    BY <2>1, AbortKeepsType
  <2>2. CASE TakeRow(s, e, u) /\ Proceed(s, "write") /\ UNCHANGED <<eventLock, pairLock>>
    BY <1>1, <1>2, <1>5, <2>2, LocksKeepType, ProceedKeepsType DEF AnswerDecide, At
  <2> QED
    BY <1>5, <2>1, <2>2 DEF AnswerDecide
<1>6. CASE AnswerCommit(s)
  <2> DEFINE g == job[s].goal
  <2>1. job[s].op = "answer"
    BY <1>6 DEF AnswerCommit, At
  <2>2. Dispatch(AnswerNotice(g), e, u) \subseteq Notice
    <3>1. g \in AnswerGoal
      BY <1>1, <2>1, EventJobTyped
    <3>2. AnswerNotice(g) \in ToParticipant
      BY <3>1 DEF AnswerGoal, AnswerNotice, ToParticipant
    <3> QED
      BY <1>2, <2>1, <3>2, NoticesTyped
  <2>3. RowsTyped'
    BY <1>1, <1>2, <1>6, <2>1, <2>2 DEF AnswerCommit, RowsTyped
  <2> QED
    BY <1>6, <2>3, CommitKeepsType DEF AnswerCommit
<1>7. CASE LeaveLockEvent(s)
  <2>1. CASE Abort(s)
    BY <2>1, AbortKeepsType
  <2>2. CASE TakeEvent(s, e) /\ Proceed(s, "row") /\ UNCHANGED <<pairLock, rowLock>>
    BY <1>1, <2>2, LocksKeepType, ProceedKeepsType
  <2> QED
    BY <1>7, <2>1, <2>2 DEF LeaveLockEvent
<1>8. CASE LeaveDecide(s)
  <2>1. CASE Abort(s)
    BY <2>1, AbortKeepsType
  <2>2. CASE TakeRow(s, e, u) /\ Proceed(s, "write") /\ UNCHANGED <<eventLock, pairLock>>
    BY <1>1, <1>2, <1>8, <2>2, LocksKeepType, ProceedKeepsType DEF LeaveDecide, At
  <2> QED
    BY <1>8, <2>1, <2>2 DEF LeaveDecide
<1>9. CASE LeaveCommit(s)
  <2>1. job[s].op = "leave"
    BY <1>9 DEF LeaveCommit, At
  <2>2. RowsTyped'
    BY <1>1, <1>2, <1>9, <2>1 DEF LeaveCommit, RowsTyped, Status
  <2> QED
    BY <1>9, <2>2, CommitKeepsType DEF LeaveCommit
<1> QED
  BY <1>3, <1>4, <1>5, <1>6, <1>7, <1>8, <1>9

LEMMA AccountStepsKeepType ==
  ASSUME TypeOK, NEW s \in Session,
         BlockLockPair(s) \/ BlockCommit(s) \/ UnblockCommit(s) \/ DeleteScan(s)
         \/ DeleteCommit(s)
  PROVE  TypeOK'
<1>1. /\ TypeOK /\ SessionsTyped /\ LocksTyped /\ RowsTyped
      /\ "write" \in Step
      /\ {"block", "unblock", "delete"} \subseteq AccountOps
  BY DEF TypeOK, Step, AccountOps
<1>w. ASSUME NEW withdrawn, Withdraw(withdrawn)
      PROVE  participation' \in [Event -> [User -> Status]]
  BY <1>1, <1>w DEF RowsTyped, Withdraw, Status
<1>2. CASE BlockLockPair(s)
  BY <1>1, <1>2, LocksKeepType, ProceedKeepsType DEF BlockLockPair
<1>3. CASE BlockCommit(s)
  <2>1. job[s].user \in User /\ job[s].actor \in User
    BY <1>1, <1>3, AccountJobTyped DEF BlockCommit, At
  <2>2. RowsTyped'
    BY <1>1, <1>w, <1>3, <2>1 DEF BlockCommit, RowsTyped
  <2> QED
    BY <1>3, <2>2, CommitKeepsType DEF BlockCommit
<1>4. CASE UnblockCommit(s)
  <2>1. RowsTyped'
    BY <1>1, <1>4 DEF UnblockCommit, RowsTyped
  <2> QED
    BY <1>4, <2>1, CommitKeepsType DEF UnblockCommit
<1>5. CASE DeleteCommit(s)
  <2>1. job[s].user \in User
    BY <1>1, <1>5, AccountJobTyped DEF DeleteCommit, At
  <2>2. RowsTyped'
    BY <1>1, <1>w, <1>5, <2>1 DEF DeleteCommit, RowsTyped
  <2> QED
    BY <1>5, <2>2, CommitKeepsType DEF DeleteCommit
<1>6. CASE DeleteScan(s)
  <2>1. job[s].user \in User
    BY <1>1, <1>6, AccountJobTyped DEF DeleteScan, At
  <2>2. RowsOf(job[s].user) \subseteq Event \X User
    BY <2>1 DEF RowsOf
  <2>3. SessionsTyped'
    BY <1>1, <1>6, <2>2 DEF DeleteScan, SessionsTyped, Goto
  <2> QED
    BY <1>6, <2>3 DEF DeleteScan, TypeOK, ParamsTyped, RowsTyped, LocksTyped,
                       EnvironmentTyped, params, rows, locks, environment
<1> QED
  BY <1>2, <1>3, <1>4, <1>5, <1>6

LEMMA NoticeStepsKeepType ==
  ASSUME TypeOK, NEW s \in Session,
         \/ CreateCommit(s)
         \/ \E u \in User : NotifyNext(s, u)
         \/ NotifyCheckPair(s) \/ CancelFlush(s) \/ CancelPushed(s)
         \/ CancelTokenRejected(s) \/ CancelCommit(s)
         \/ RescheduleFlush(s) \/ RescheduleTokenRejected(s) \/ RescheduleCommit(s)
  PROVE  TypeOK'
<1> DEFINE e == job[s].event
           u == job[s].user
<1>1. /\ TypeOK /\ SessionsTyped /\ LocksTyped /\ RowsTyped
      /\ {"idle", "pair", "next", "flush", "push", "drop"} \subseteq Step
      /\ {"cancel", "reschedule", "create"} \subseteq EventOps
      /\ Notifying \subseteq EventOps
  BY DEF TypeOK, Step, EventOps, Notifying
<1>2. CASE CreateCommit(s)
  <2>1. RowsTyped'
    BY <1>1, <1>2 DEF CreateCommit, RowsTyped, EventStatus
  <2> QED
    BY <1>2, <2>1, CommitKeepsType DEF CreateCommit
<1>3. ASSUME NEW v \in User, NotifyNext(s, v)
      PROVE  TypeOK'
  <2>1. job[s] \in EventJob
    BY <1>1, <1>3, EventJobTyped DEF NotifyNext, Notifying
  <2>2. [job[s] EXCEPT !.user = v] \in Job
    BY <2>1 DEF Job, EventJob
  <2>3. job' = [job EXCEPT ![s] = [job[s] EXCEPT !.user = v]]
    BY <1>3 DEF NotifyNext
  <2>4. SessionsTyped'
    BY <1>1, <1>3, <2>2, <2>3 DEF NotifyNext, SessionsTyped, Goto
  <2> QED
    BY <1>3, <2>4 DEF NotifyNext, TypeOK, ParamsTyped, RowsTyped, LocksTyped,
                       EnvironmentTyped, params, rows, locks, environment
<1>4. CASE NotifyCheckPair(s)
  <2>1. PICK step \in {"next", "flush"} : Proceed(s, step)
    BY <1>4 DEF NotifyCheckPair
  <2> QED
    BY <1>1, <1>4, <2>1, LocksKeepType, ProceedKeepsType DEF NotifyCheckPair
<1>5. CASE CancelFlush(s)
  <2>1. e \in Event /\ u \in User
    BY <1>1, <1>5, EventJobTyped DEF CancelFlush, At
  <2>2. MakeNotice("EVENT_CANCELLED", e, u) \in Notice
    BY <2>1, NoticesTyped DEF ToParticipant
  <2>3. SessionsTyped'
    BY <1>1, <1>5, <2>2 DEF CancelFlush, SessionsTyped, Goto
  <2>4. LocksTyped'
    BY <1>1, <1>5, LocksKeepType DEF CancelFlush
  <2> QED
    BY <1>5, <2>3, <2>4 DEF CancelFlush, TypeOK, ParamsTyped, RowsTyped,
                             EnvironmentTyped, params, rows, environment
<1>6. CASE CancelPushed(s)
  BY <1>1, <1>6, LocksKeepType, ProceedKeepsType DEF CancelPushed
<1>7. CASE CancelTokenRejected(s)
  <2>1. LocksTyped'
    BY <1>1, <1>7, LocksKeepType DEF CancelTokenRejected
  <2>2. RowsTyped'
    BY <1>1, <1>7 DEF CancelTokenRejected, RowsTyped, SessionsTyped, EventStatus
  <2>3. SessionsTyped'
    BY <1>1, <1>7 DEF CancelTokenRejected, SessionsTyped, Goto
  <2> QED
    BY <1>7, <2>1, <2>2, <2>3 DEF CancelTokenRejected, TypeOK, ParamsTyped,
                                   EnvironmentTyped, params, environment
<1>8. CASE CancelCommit(s)
  <2>1. RowsTyped'
    BY <1>1, <1>8 DEF CancelCommit, RowsTyped, SessionsTyped, EventStatus
  <2> QED
    BY <1>8, <2>1, CommitKeepsType DEF CancelCommit
<1>9. CASE RescheduleFlush(s)
  <2>1. e \in Event /\ u \in User
    BY <1>1, <1>9, EventJobTyped DEF RescheduleFlush, At
  <2>2. MakeNotice("EVENT_UPDATED", e, u) \in Notice
    BY <2>1, NoticesTyped DEF ToParticipant
  <2>3. SessionsTyped'
    BY <1>1, <1>9, <2>2 DEF RescheduleFlush, SessionsTyped, Goto
  <2> QED
    BY <1>9, <2>3 DEF RescheduleFlush, TypeOK, ParamsTyped, RowsTyped, LocksTyped,
                       EnvironmentTyped, params, rows, locks, environment
<1>10. CASE RescheduleTokenRejected(s)
  <2>1. LocksTyped'
    BY <1>1, <1>10, LocksKeepType DEF RescheduleTokenRejected
  <2>2. RowsTyped'
    BY <1>1, <1>10 DEF RescheduleTokenRejected, RowsTyped, SessionsTyped
  <2>3. SessionsTyped'
    BY <1>1, <1>10 DEF RescheduleTokenRejected, SessionsTyped, Goto
  <2> QED
    BY <1>10, <2>1, <2>2, <2>3 DEF RescheduleTokenRejected, TypeOK, ParamsTyped,
                                    EnvironmentTyped, params, environment
<1>11. CASE RescheduleCommit(s)
  <2>1. RowsTyped'
    BY <1>1, <1>11 DEF RescheduleCommit, RowsTyped, SessionsTyped
  <2> QED
    BY <1>11, <2>1, CommitKeepsType DEF RescheduleCommit
<1> QED
  BY <1>2, <1>3, <1>4, <1>5, <1>6, <1>7, <1>8, <1>9, <1>10, <1>11

LEMMA InitTyped == Init => TypeOK
<1> SUFFICES ASSUME Init PROVE TypeOK
  OBVIOUS
<1>1. ParamsTyped /\ RowsTyped /\ LocksTyped
  BY DEF Init, ParamsTyped, RowsTyped, LocksTyped, EventStatus, Status
<1>2. SessionsTyped
  BY DEF Init, SessionsTyped, Step
<1>3. EnvironmentTyped
  BY ParticipationAssumption DEF Init, EnvironmentTyped, Phase, ParticipationAssumption
<1> QED
  BY <1>1, <1>2, <1>3 DEF TypeOK

LEMMA NextKeepsType == TypeOK /\ [Next]_vars => TypeOK'
<1> SUFFICES ASSUME TypeOK, [Next]_vars PROVE TypeOK'
  OBVIOUS
<1>1. CASE UNCHANGED vars
  BY <1>1 DEF TypeOK, vars, params, rows, locks, sessionVars, environment,
              ParamsTyped, RowsTyped, LocksTyped, SessionsTyped, EnvironmentTyped
<1>2. ASSUME NEW s \in Session, Request(s) PROVE TypeOK'
  BY <1>2, RequestKeepsType
<1>3. ASSUME NEW s \in Session, Statement(s) PROVE TypeOK'
  BY <1>3, EntryStepsKeepType, AnswerStepsKeepType, AccountStepsKeepType,
     NoticeStepsKeepType DEF Statement
<1>4. ASSUME NEW s \in Session, DeadlockVictim(s) \/ Crash(s) PROVE TypeOK'
  BY <1>4, AbortKeepsType DEF DeadlockVictim, Crash
<1>5. ASSUME NEW e \in Event, CreateInviteLink(e) PROVE TypeOK'
  BY <1>5 DEF CreateInviteLink, TypeOK, params, locks, sessionVars, environment,
              ParamsTyped, RowsTyped, LocksTyped, SessionsTyped, EnvironmentTyped
<1>6. ASSUME NEW e \in Event, EventStarts(e) \/ EventEnds(e) \/ EventMoves(e) PROVE TypeOK'
  BY <1>6 DEF EventStarts, EventEnds, EventMoves, TypeOK, params, rows, locks, sessionVars,
              ParamsTyped, RowsTyped, LocksTyped, SessionsTyped, EnvironmentTyped, Phase
<1> QED
  BY <1>1, <1>2, <1>3, <1>4, <1>5, <1>6 DEF Next

(* In every behaviour every variable keeps its type: each statement of a   *)
(* transaction runs for a request about rows that can exist.               *)
THEOREM TypeCorrect == Spec => []TypeOK
<1> QED
  BY InitTyped, NextKeepsType, PTL DEF Spec

-----------------------------------------------------------------------------
(* Capacity.  The invariant CapacityRespected is not inductive: a grant is *)
(* decided in one statement and written in another.  What makes it so is   *)
(* GrantStaysValid: between the two the request holds the event, so no     *)
(* other session can confirm anybody at it.                                *)

(* A step of a session leaves the program counters, the jobs and the event *)
(* locks of the others alone.                                              *)
LEMMA OthersUndisturbed ==
  ASSUME TypeOK, NEW s \in Session, NEW t \in Session, s # t,
         Request(s) \/ Statement(s) \/ DeadlockVictim(s) \/ Crash(s)
  PROVE  /\ pc'[t] = pc[t] /\ job'[t] = job[t]
         /\ \A e \in Event : eventLock[e] = t => eventLock'[e] = t
<1> DEFINE Undisturbed ==
             /\ pc'[t] = pc[t] /\ job'[t] = job[t]
             /\ \A e \in Event : eventLock[e] = t => eventLock'[e] = t
<1> USE DEF TypeOK, SessionsTyped, LocksTyped
<1>1. t # None
  BY ParticipationAssumption DEF ParticipationAssumption
<1>2. EndRequest(s) => Undisturbed
  BY DEF EndRequest, Unlock, Goto
<1>3. \A step : Proceed(s, step) => pc'[t] = pc[t] /\ job'[t] = job[t]
  BY DEF Proceed, Goto
<1>4. \A e : TakeEvent(s, e) => \A f \in Event : eventLock[f] = t => eventLock'[f] = t
  BY <1>1 DEF TakeEvent, Available
<1>5. \A j, step : Begin(s, j, step) => Undisturbed
  BY DEF Begin, Goto, locks
<1>6. ASSUME \/ JoinLockEvent(s) \/ JoinCheckPair(s) \/ JoinDecide(s) \/ JoinCommit(s)
             \/ AcceptLockEvent(s) \/ AcceptCheckPair(s) \/ AcceptDecide(s)
             \/ AcceptCommit(s)
      PROVE  Undisturbed
  BY <1>2, <1>3, <1>4, <1>6
  DEF JoinLockEvent, JoinCheckPair, JoinDecide, JoinCommit, AcceptLockEvent,
      AcceptCheckPair, AcceptDecide, AcceptCommit, Abort, Goto, locks
<1>7. ASSUME \/ AnswerLockEvent(s) \/ AnswerCheckPair(s) \/ AnswerDecide(s)
             \/ AnswerCommit(s) \/ LeaveLockEvent(s) \/ LeaveDecide(s) \/ LeaveCommit(s)
      PROVE  Undisturbed
  BY <1>2, <1>3, <1>4, <1>7
  DEF AnswerLockEvent, AnswerCheckPair, AnswerDecide, AnswerCommit, LeaveLockEvent,
      LeaveDecide, LeaveCommit, Abort
<1>8. ASSUME \/ BlockLockPair(s) \/ BlockCommit(s) \/ UnblockCommit(s) \/ DeleteScan(s)
             \/ DeleteCommit(s) \/ CreateCommit(s)
      PROVE  Undisturbed
  BY <1>2, <1>3, <1>8
  DEF BlockLockPair, BlockCommit, UnblockCommit, DeleteScan, DeleteCommit, CreateCommit,
      Goto, locks
<1>9. ASSUME \/ \E u \in User : NotifyNext(s, u)
             \/ NotifyCheckPair(s) \/ CancelFlush(s) \/ CancelPushed(s)
             \/ CancelTokenRejected(s) \/ CancelCommit(s)
             \/ RescheduleFlush(s) \/ RescheduleTokenRejected(s) \/ RescheduleCommit(s)
      PROVE  Undisturbed
  BY <1>2, <1>3, <1>4, <1>9
  DEF NotifyNext, NotifyCheckPair, CancelFlush, CancelPushed, CancelTokenRejected,
      CancelCommit, RescheduleFlush, RescheduleTokenRejected, RescheduleCommit, Goto,
      Unlock, locks
<1>10. Request(s) => Undisturbed
  BY <1>5 DEF Request, RequestJoin, RequestAccept, RequestLeave, RequestCancel, RequestReschedule,
     RequestAnswer, RequestBlock, RequestUnblock, RequestDelete, RequestCreate
<1>11. DeadlockVictim(s) \/ Crash(s) => Undisturbed
  BY <1>2 DEF DeadlockVictim, Crash, Abort
<1> QED
  BY <1>6, <1>7, <1>8, <1>9, <1>10, <1>11 DEF Statement

Grants(s, e) ==
  /\ job[s].op \in Granting
  /\ pc[s] = "write"
  /\ Confirms(s)
  /\ job[s].event = e

(* Only the commit of a grant adds to the confirmed participants of an     *)
(* event, and it adds one.                                                 *)
LEMMA OnlyGrantsConfirm ==
  ASSUME TypeOK, NEW s \in Session, NEW e \in Event,
         Request(s) \/ Statement(s) \/ DeadlockVictim(s) \/ Crash(s)
  PROVE  /\ capacity' = capacity
         /\ \/ Confirmed(e)' \subseteq Confirmed(e)
            \/ Grants(s, e) /\ Confirmed(e)' \subseteq Confirmed(e) \cup {job[s].user}
<1> DEFINE Shape ==
      /\ capacity' = capacity
      /\ \/ Confirmed(e)' \subseteq Confirmed(e)
         \/ Grants(s, e) /\ Confirmed(e)' \subseteq Confirmed(e) \cup {job[s].user}
<1> USE DEF params, rows
<1>1. participation \in [Event -> [User -> Status]] /\ SessionsTyped
  BY DEF TypeOK, RowsTyped
<1>2. UNCHANGED <<params, participation>> => Shape
  BY DEF Confirmed
<1>3. Abort(s) => Shape
  BY <1>2 DEF Abort
<1>4. \A step : Proceed(s, step) => Shape
  BY <1>2 DEF Proceed
<1>5. \A j, step : Begin(s, j, step) => Shape
  BY <1>2 DEF Begin
<1>6. ASSUME NEW withdrawn, Withdraw(withdrawn), UNCHANGED params PROVE Shape
  BY <1>1, <1>6 DEF Withdraw, Confirmed
<1>7. ASSUME JoinCommit(s) \/ AcceptCommit(s) \/ AnswerCommit(s) \/ LeaveCommit(s)
      PROVE  Shape
  <2>1. PICK g \in Status :
          /\ participation' = [participation EXCEPT ![job[s].event][job[s].user] = g]
          /\ g = "CONFIRMED" => Grants(s, job[s].event)
          /\ job[s].event \in Event /\ job[s].user \in User /\ UNCHANGED params
    <3>1. {"join", "accept", "answer", "leave"} \subseteq EventOps
      BY DEF EventOps
    <3>2. job[s].op \in {"join", "accept", "answer", "leave"} /\ pc[s] = "write"
      BY <1>7 DEF JoinCommit, AcceptCommit, AnswerCommit, LeaveCommit, At
    <3>3. job[s].event \in Event /\ job[s].user \in User /\ job[s].goal \in Status
      BY <1>1, <3>1, <3>2, EventJobTyped
    <3>4. CASE JoinCommit(s) \/ AnswerCommit(s)
      <4>1. participation' = [participation EXCEPT ![job[s].event][job[s].user] = job[s].goal]
        BY <3>4 DEF JoinCommit, AnswerCommit
      <4>2. job[s].goal = "CONFIRMED" => Grants(s, job[s].event)
        BY <3>2, <3>4 DEF JoinCommit, AnswerCommit, Grants, Granting, Confirms, At
      <4> QED
        BY <3>3, <3>4, <4>1, <4>2 DEF JoinCommit, AnswerCommit
    <3>5. CASE LeaveCommit(s)
      BY <3>3, <3>5 DEF LeaveCommit, Status
    <3>6. CASE AcceptCommit(s)
      BY <3>2, <3>3, <3>6 DEF AcceptCommit, Grants, Granting, Confirms, At, Status
    <3> QED
      BY <1>7, <3>4, <3>5, <3>6
  <2> QED
    BY <1>1, <2>1 DEF Confirmed
<1>8. ASSUME \/ JoinLockEvent(s) \/ JoinCheckPair(s) \/ JoinDecide(s)
             \/ AcceptLockEvent(s) \/ AcceptCheckPair(s) \/ AcceptDecide(s)
             \/ AnswerLockEvent(s) \/ AnswerCheckPair(s) \/ AnswerDecide(s)
             \/ LeaveLockEvent(s) \/ LeaveDecide(s)
      PROVE  Shape
  BY <1>2, <1>3, <1>4, <1>8
  DEF JoinLockEvent, JoinCheckPair, JoinDecide, AcceptLockEvent, AcceptCheckPair,
      AcceptDecide, AnswerLockEvent, AnswerCheckPair, AnswerDecide, LeaveLockEvent,
      LeaveDecide
<1>9. ASSUME BlockLockPair(s) \/ BlockCommit(s) \/ UnblockCommit(s) \/ DeleteScan(s)
             \/ DeleteCommit(s) \/ CreateCommit(s)
      PROVE  Shape
  BY <1>2, <1>4, <1>6, <1>9
  DEF BlockLockPair, BlockCommit, UnblockCommit, DeleteScan, DeleteCommit, CreateCommit
<1>10. ASSUME \/ \E u \in User : NotifyNext(s, u)
              \/ NotifyCheckPair(s) \/ CancelFlush(s) \/ CancelPushed(s)
              \/ CancelTokenRejected(s) \/ CancelCommit(s)
              \/ RescheduleFlush(s) \/ RescheduleTokenRejected(s) \/ RescheduleCommit(s)
       PROVE  Shape
  BY <1>2, <1>4, <1>10
  DEF NotifyNext, NotifyCheckPair, CancelFlush, CancelPushed, CancelTokenRejected,
      CancelCommit, RescheduleFlush, RescheduleTokenRejected, RescheduleCommit
<1>11. Request(s) => Shape
  BY <1>5 DEF Request, RequestJoin, RequestAccept, RequestLeave, RequestCancel, RequestReschedule,
     RequestAnswer, RequestBlock, RequestUnblock, RequestDelete, RequestCreate
<1>12. DeadlockVictim(s) \/ Crash(s) => Shape
  BY <1>3 DEF DeadlockVictim, Crash
<1> QED
  BY <1>7, <1>8, <1>9, <1>10, <1>11, <1>12 DEF Statement

(* What a session is about to grant is still there after its own step.     *)
LEMMA OwnGrantStaysValid ==
  ASSUME TypeOK, GrantStaysValid, NEW s \in Session,
         Request(s) \/ Statement(s) \/ DeadlockVictim(s) \/ Crash(s),
         job'[s].op \in Granting
  PROVE  /\ pc'[s] \in {"pair", "row", "write"} => eventLock'[job'[s].event] = s
         /\ pc'[s] = "write" /\ Confirms(s)' => HasSeat(job[s].event)'
<1> DEFINE e == job[s].event
           Held == pc[s] \in {"pair", "row", "write"} => eventLock[e] = s
           Valid ==
             /\ pc'[s] \in {"pair", "row", "write"} => eventLock'[job'[s].event] = s
             /\ pc'[s] = "write" /\ Confirms(s)' => HasSeat(job[s].event)'
<1> USE DEF TypeOK, SessionsTyped, LocksTyped
<1>1. job[s].op \in Granting => Held /\ e \in Event
  BY EventJobTyped DEF GrantStaysValid, Granting, EventOps
<1>2. EndRequest(s) => Valid
  BY DEF EndRequest, Goto
<1>3. ASSUME UNCHANGED <<participation, capacity>>
      PROVE  job'[s].event = e => HasSeat(job[s].event)' = HasSeat(e)
  BY <1>3 DEF HasSeat, Confirmed
<1>4. \A step : Proceed(s, step) =>
         pc'[s] = step /\ job' = job /\ UNCHANGED <<participation, capacity>>
  BY DEF Proceed, Goto, rows, params
<1>5. \A j, step : Begin(s, j, step) /\ j.op \in Granting => pc'[s] = step /\ job'[s] = j
  BY DEF Begin, Goto
<1>6. CASE JoinLockEvent(s)
  BY <1>1, <1>2, <1>4, <1>6 DEF JoinLockEvent, Abort, TakeEvent, At, Granting
<1>7. CASE JoinCheckPair(s)
  BY <1>1, <1>2, <1>4, <1>7 DEF JoinCheckPair, Abort, At, Granting
<1>8. CASE JoinDecide(s)
  <2>1. CASE Abort(s)
    BY <1>2, <2>1 DEF Abort
  <2>2. CASE ~Abort(s)
    <3>1. /\ job[s].op = "join" /\ pc[s] = "row" /\ HasSeat(e)
          /\ job'[s].event = e
          /\ UNCHANGED <<eventLock, participation, capacity>>
      <4>1. job[s].op = "join"
        BY <1>8 DEF JoinDecide, At
      <4>2. job[s] \in EventJob
        BY <4>1, EventJobTyped DEF EventOps
      <4> QED
        BY <1>8, <2>2, <4>1, <4>2 DEF JoinDecide, At, params, rows, EventJob
    <3> QED
      BY <1>1, <1>3, <3>1 DEF Granting
  <2> QED
    BY <2>1, <2>2
<1>9. CASE AcceptLockEvent(s)
  BY <1>1, <1>2, <1>4, <1>9 DEF AcceptLockEvent, Abort, TakeEvent, At, Granting
<1>10. CASE AcceptCheckPair(s)
  BY <1>1, <1>2, <1>4, <1>10 DEF AcceptCheckPair, Abort, At, Granting
<1>11. CASE AcceptDecide(s)
  BY <1>1, <1>2, <1>3, <1>4, <1>11 DEF AcceptDecide, Abort, At, Granting, locks
<1>12. CASE AnswerLockEvent(s)
  BY <1>1, <1>2, <1>4, <1>12 DEF AnswerLockEvent, Abort, TakeEvent, At, Granting
<1>13. CASE AnswerCheckPair(s)
  BY <1>1, <1>2, <1>4, <1>13 DEF AnswerCheckPair, Abort, At, Granting
<1>14. CASE AnswerDecide(s)
  <2>1. CASE Abort(s)
    BY <1>2, <2>1 DEF Abort
  <2>2. CASE ~Abort(s)
    <3>1. /\ job[s].op = "answer" /\ pc[s] = "row"
          /\ job[s].goal = "CONFIRMED" => HasSeat(e)
          /\ Proceed(s, "write")
          /\ UNCHANGED eventLock
      BY <1>14, <2>2 DEF AnswerDecide, At
    <3> QED
      BY <1>1, <1>3, <1>4, <3>1 DEF Granting, Confirms
  <2> QED
    BY <2>1, <2>2
<1>15. ASSUME JoinCommit(s) \/ AcceptCommit(s) \/ AnswerCommit(s) \/ LeaveCommit(s)
       PROVE  Valid
  BY <1>2, <1>15 DEF JoinCommit, AcceptCommit, AnswerCommit, LeaveCommit
<1>16. ASSUME LeaveLockEvent(s) \/ LeaveDecide(s) PROVE Valid
  BY <1>2, <1>4, <1>16 DEF LeaveLockEvent, LeaveDecide, Abort, At, Granting
<1>17. ASSUME BlockLockPair(s) \/ BlockCommit(s) \/ UnblockCommit(s) \/ DeleteScan(s)
              \/ DeleteCommit(s) \/ CreateCommit(s)
       PROVE  Valid
  BY <1>2, <1>4, <1>17
  DEF BlockLockPair, BlockCommit, UnblockCommit, DeleteScan, DeleteCommit, CreateCommit, At,
      Granting
<1>18. ASSUME \/ NotifyCheckPair(s) \/ CancelFlush(s) \/ CancelPushed(s)
              \/ CancelTokenRejected(s) \/ CancelCommit(s)
              \/ RescheduleFlush(s) \/ RescheduleTokenRejected(s) \/ RescheduleCommit(s)
       PROVE  Valid
  BY <1>2, <1>4, <1>18
  DEF NotifyCheckPair, CancelFlush, CancelPushed, CancelTokenRejected, CancelCommit,
      RescheduleFlush, RescheduleTokenRejected, RescheduleCommit, At, Granting, Notifying
<1>21. ASSUME NEW u \in User, NotifyNext(s, u) PROVE Valid
  <2>1. job[s].op \in Notifying
    BY <1>21 DEF NotifyNext
  <2>2. job[s] \in EventJob
    BY <2>1, EventJobTyped DEF EventOps, Notifying
  <2>3. job'[s].op \in Notifying
    BY <1>21, <2>1, <2>2 DEF NotifyNext, EventJob
  <2> QED
    BY <2>3 DEF Granting, Notifying
<1>19. ASSUME Request(s) PROVE Valid
  BY <1>5, <1>19
  DEF Request, RequestJoin, RequestAccept, RequestLeave, RequestCancel, RequestReschedule, RequestAnswer,
      RequestBlock, RequestUnblock, RequestDelete, RequestCreate, Begin, Goto, MakeJob, Granting
<1>20. DeadlockVictim(s) \/ Crash(s) => Valid
  BY <1>2 DEF DeadlockVictim, Crash, Abort
<1> QED
  BY <1>6, <1>7, <1>8, <1>9, <1>10, <1>11, <1>12, <1>13, <1>14, <1>15, <1>16, <1>17,
     <1>18, <1>19, <1>20, <1>21 DEF Statement

(* A free seat leaves room for one more.                                   *)
LEMMA SeatLeavesRoom ==
  ASSUME TypeOK, NEW e \in Event, HasSeat(e), capacity[e] # None,
         NEW u, NEW now \in SUBSET (Confirmed(e) \cup {u})
  PROVE  Cardinality(now) <= capacity[e]
<1>1. IsFiniteSet(Confirmed(e))
  BY ParticipationAssumption, FS_Subset DEF Confirmed, ParticipationAssumption
<1>2. Cardinality(Confirmed(e)) \in Nat /\ Cardinality(Confirmed(e)) < capacity[e]
  BY <1>1, FS_CardinalityType DEF HasSeat
<1>3. capacity[e] \in Nat
  BY ParticipationAssumption DEF TypeOK, ParamsTyped, Capacity, ParticipationAssumption
<1>4. /\ IsFiniteSet(Confirmed(e) \cup {u})
      /\ Cardinality(Confirmed(e) \cup {u}) <= Cardinality(Confirmed(e)) + 1
  <2>1. Cardinality(Confirmed(e) \cup {u}) \in
          {Cardinality(Confirmed(e)), Cardinality(Confirmed(e)) + 1}
    BY <1>1, FS_AddElement
  <2>2. IsFiniteSet(Confirmed(e) \cup {u})
    BY <1>1, FS_AddElement
  <2> QED
    BY <1>2, <2>1, <2>2
<1>5. IsFiniteSet(now) /\ Cardinality(now) <= Cardinality(Confirmed(e) \cup {u})
  BY <1>4, FS_Subset
<1>6. Cardinality(now) \in Nat /\ Cardinality(Confirmed(e) \cup {u}) \in Nat
  BY <1>4, <1>5, FS_CardinalityType
<1> QED
  BY <1>2, <1>3, <1>4, <1>5, <1>6

LEMMA FewerKeepSeat ==
  ASSUME TypeOK, NEW e \in Event, Confirmed(e)' \subseteq Confirmed(e), capacity' = capacity
  PROVE  /\ HasSeat(e) => HasSeat(e)'
         /\ capacity[e] # None /\ Cardinality(Confirmed(e)) <= capacity[e] =>
              Cardinality(Confirmed(e)') <= capacity[e]
<1>1. IsFiniteSet(Confirmed(e))
  BY ParticipationAssumption, FS_Subset DEF Confirmed, ParticipationAssumption
<1>2. IsFiniteSet(Confirmed(e)') /\ Cardinality(Confirmed(e)') <= Cardinality(Confirmed(e))
  BY <1>1, FS_Subset
<1>3. Cardinality(Confirmed(e)) \in Nat /\ Cardinality(Confirmed(e)') \in Nat
  BY <1>1, <1>2, FS_CardinalityType
<1>4. capacity[e] # None => capacity[e] \in Nat
  BY ParticipationAssumption DEF TypeOK, ParamsTyped, Capacity, ParticipationAssumption
<1> QED
  BY <1>2, <1>3, <1>4 DEF HasSeat

CapacityInv == TypeOK /\ GrantStaysValid /\ CapacityRespected

LEMMA SessionStepKeepsCapacity ==
  ASSUME CapacityInv, NEW s \in Session,
         Request(s) \/ Statement(s) \/ DeadlockVictim(s) \/ Crash(s)
  PROVE  GrantStaysValid' /\ CapacityRespected'
<1>1. TypeOK /\ SessionsTyped /\ GrantStaysValid /\ CapacityRespected
  BY DEF CapacityInv, TypeOK
<1>2. ASSUME NEW e \in Event
      PROVE  /\ capacity' = capacity
             /\ \/ Confirmed(e)' \subseteq Confirmed(e)
                \/ /\ Grants(s, e) /\ HasSeat(e) /\ eventLock[e] = s
                   /\ Confirmed(e)' \subseteq Confirmed(e) \cup {job[s].user}
  <2>1. Grants(s, e) => HasSeat(e) /\ eventLock[e] = s
    BY <1>1 DEF GrantStaysValid, Grants
  <2> QED
    BY <1>1, <2>1, OnlyGrantsConfirm
<1>3. ASSUME NEW e \in Event, capacity[e] # None
      PROVE  Cardinality(Confirmed(e)') <= capacity[e]
  BY <1>1, <1>2, <1>3, FewerKeepSeat, SeatLeavesRoom DEF CapacityRespected
<1>4. CapacityRespected'
  BY <1>2, <1>3 DEF CapacityRespected
<1>5. ASSUME NEW t \in Session, job'[t].op \in Granting
      PROVE  /\ pc'[t] \in {"pair", "row", "write"} => eventLock'[job'[t].event] = t
             /\ pc'[t] = "write" /\ Confirms(t)' => HasSeat(job[t].event)'
  <2>1. CASE t = s
    BY <1>1, <1>5, <2>1, OwnGrantStaysValid
  <2>2. CASE t # s
    <3>1. /\ pc'[t] = pc[t] /\ job'[t] = job[t]
          /\ \A f \in Event : eventLock[f] = t => eventLock'[f] = t
      BY <1>1, <2>2, OthersUndisturbed
    <3>2. PICK e \in Event : e = job[t].event
      BY <1>1, <1>5, <3>1, EventJobTyped DEF Granting, EventOps
    <3>3. /\ pc[t] \in {"pair", "row", "write"} => eventLock[e] = t
          /\ pc[t] = "write" /\ Confirms(t) => HasSeat(e)
      BY <1>1, <1>5, <3>1, <3>2 DEF GrantStaysValid
    <3>4. pc[t] = "write" /\ Confirms(t) => HasSeat(e)'
      BY <1>1, <1>2, <2>2, <3>2, <3>3, FewerKeepSeat
    <3>5. HasSeat(job[t].event)' <=> HasSeat(e)'
      BY <3>1, <3>2 DEF HasSeat, Confirmed
    <3> QED
      BY <3>1, <3>2, <3>3, <3>4, <3>5 DEF Confirms
  <2> QED
    BY <2>1, <2>2
<1> QED
  BY <1>4, <1>5 DEF GrantStaysValid

LEMMA CapacityInvInductive == CapacityInv /\ [Next]_vars => CapacityInv'
<1> SUFFICES ASSUME CapacityInv, [Next]_vars PROVE CapacityInv'
  OBVIOUS
<1>1. TypeOK'
  BY NextKeepsType DEF CapacityInv
<1>2. ASSUME NEW s \in Session,
             Request(s) \/ Statement(s) \/ DeadlockVictim(s) \/ Crash(s)
      PROVE  GrantStaysValid' /\ CapacityRespected'
  BY <1>2, SessionStepKeepsCapacity
<1>3. ASSUME UNCHANGED <<capacity, participation, eventLock, pc, job>>
      PROVE  GrantStaysValid' /\ CapacityRespected'
  BY <1>3 DEF CapacityInv, GrantStaysValid, CapacityRespected, Confirms, HasSeat, Confirmed
<1>4. ASSUME NEW e \in Event, CreateInviteLink(e) \/ EventStarts(e) \/ EventEnds(e) \/ EventMoves(e)
      PROVE  UNCHANGED <<capacity, participation, eventLock, pc, job>>
  BY <1>4 DEF CreateInviteLink, EventStarts, EventEnds, EventMoves, params, rows, locks, sessionVars
<1>5. UNCHANGED vars => UNCHANGED <<capacity, participation, eventLock, pc, job>>
  BY DEF vars, params, rows, locks, sessionVars
<1>6. GrantStaysValid' /\ CapacityRespected'
  BY <1>2, <1>3, <1>4, <1>5 DEF Next
<1> QED
  BY <1>1, <1>6 DEF CapacityInv

LEMMA CapacityInvInit == Init => CapacityInv
<1> SUFFICES ASSUME Init PROVE CapacityInv
  OBVIOUS
<1>1. TypeOK
  BY InitTyped
<1>2. GrantStaysValid
  BY DEF Init, GrantStaysValid
<1>3. ASSUME NEW e \in Event, capacity[e] # None
      PROVE  Cardinality(Confirmed(e)) <= capacity[e]
  <2>1. Confirmed(e) = {}
    BY DEF Init, Confirmed
  <2>2. capacity[e] \in Nat
    BY <1>1, <1>3, ParticipationAssumption
    DEF TypeOK, ParamsTyped, Capacity, ParticipationAssumption
  <2> QED
    BY <2>1, <2>2, FS_EmptySet
<1> QED
  BY <1>1, <1>2, <1>3 DEF CapacityInv, CapacityRespected

(* Between the decision to grant a request and its commit the request      *)
(* holds the event and the seat stays free.                                *)
THEOREM GrantsStayValid == Spec => []GrantStaysValid
<1>1. CapacityInv => GrantStaysValid
  BY DEF CapacityInv
<1> QED
  BY <1>1, CapacityInvInit, CapacityInvInductive, PTL DEF Spec

(* However confirmations, accepted invites and approvals interleave with   *)
(* each other, with withdrawals, blocks, deletions and crashes, no event   *)
(* ever has more confirmed participants than max_participants.             *)
THEOREM NoOverbooking == Spec => []CapacityRespected
<1>1. CapacityInv => CapacityRespected
  BY DEF CapacityInv
<1> QED
  BY <1>1, CapacityInvInit, CapacityInvInductive, PTL DEF Spec

-----------------------------------------------------------------------------
(* The inductive invariant *)

(* What a session holds by the statement it is at, unless it notifies.     *)
HoldsEvent(s, e) ==
  /\ job[s].op \in Granting \cup {"leave"}
  /\ pc[s] \in {"pair", "row", "write"}
  /\ e = job[s].event

HoldsThePair(s, p) ==
  /\ job[s].op \in Granting \cup {"block"}
  /\ pc[s] \in {"row", "write"}
  /\ p = PairWanted(s)

HoldsTheRow(s, e, u) ==
  /\ job[s].op \in {"join", "answer", "leave"}
  /\ pc[s] = "write"
  /\ e = job[s].event /\ u = job[s].user

HoldsInOrder(s) ==
  /\ pc[s] = "idle" => job[s] = NoJob
  /\ pc[s] # "idle" => job[s].op # "none"
  /\ pc[s] \in {"event", "row"} => job[s].op \in Granting \cup {"leave"}
  /\ job[s].op \notin Notifying =>
       /\ \A e \in Event : eventLock[e] = s => HoldsEvent(s, e)
       /\ \A p \in Pair : pairLock[p] = s => HoldsThePair(s, p)
  /\ \A e \in Event, u \in User : rowLock[e][u] = s => HoldsTheRow(s, e, u)

(* Locks a request counts on *)
Announcements == {"EVENT_CANCELLED", "EVENT_UPDATED"}

Secured(s, e, u) == pairLock[PairOf(e, u)] = s /\ ~BlockedBetween(Organizer[e], u)

KeepsLocks(s) ==
  /\ job[s].op \in Granting /\ pc[s] \in {"pair", "row", "write"} => eventLock[job[s].event] = s
  /\ job[s].op = "leave" /\ pc[s] \in {"row", "write"} => eventLock[job[s].event] = s
  /\ At(s, "cancel", "push") => eventLock[job[s].event] = s
  /\ job[s].op \in Granting /\ pc[s] \in {"row", "write"} => Secured(s, job[s].event, job[s].user)
  /\ job[s].op \in Notifying /\ pc[s] = "flush" => Secured(s, job[s].event, job[s].user)
  /\ At(s, "block", "write") => pairLock[{job[s].actor, job[s].user}] = s
  /\ job[s].op \in {"answer", "leave"} /\ pc[s] = "write" =>
       rowLock[job[s].event][job[s].user] = s
  /\ \A n \in draft[s] : n.type \in Announcements /\ Secured(s, n.event, n.user)

DecisionHolds(s) ==
  LET e == job[s].event
      u == job[s].user
      g == job[s].goal
  IN
  /\ job[s].op = "join" /\ pc[s] \in {"row", "write"} =>
       eventStatus[e] = "PUBLISHED" /\ Organizer[e] # u
  /\ job[s].op = "accept" /\ pc[s] \in {"pair", "row", "write"} => eventStatus[e] = "PUBLISHED"
  /\ job[s].op = "accept" => g = "CONFIRMED"
  /\ At(s, "join", "write") => g \in Active
  /\ job[s].op \in {"join", "accept"} /\ pc[s] = "write" =>
       participation[e][u] \in Reenterable /\ HasSeat(e)
  /\ At(s, "answer", "write") =>
       /\ <<participation[e][u], g>> \in ValidTransitions
       /\ g = "CONFIRMED" => HasSeat(e)
  /\ At(s, "leave", "write") => participation[e][u] \in Active
  /\ job[s].op \in Notifying => eventStatus[e] # "ABSENT"
  /\ job[s].op = "create" => eventStatus[e] = "ABSENT"
  /\ job[s].op = "block" => job[s].actor # job[s].user

CreatedOnce ==
  \A s, t \in Session :
    job[s].op = "create" /\ job[t].op = "create" /\ job[s].event = job[t].event => s = t

SessionInv(s) == HoldsInOrder(s) /\ KeepsLocks(s) /\ DecisionHolds(s)

TransactionInv == TypeOK /\ (\A s \in Session : SessionInv(s)) /\ CreatedOnce

Steps(s) == Request(s) \/ Statement(s) \/ DeadlockVictim(s) \/ Crash(s)

(* A step of a session leaves the program counters, jobs, notices and      *)
(* locks of the others alone.                                              *)
LEMMA OthersKeepLocks ==
  ASSUME TypeOK, NEW s \in Session, NEW t \in Session, s # t, Steps(s)
  PROVE  /\ pc'[t] = pc[t] /\ job'[t] = job[t] /\ draft'[t] = draft[t]
         /\ \A e \in Event : eventLock'[e] = t <=> eventLock[e] = t
         /\ \A p \in Pair : pairLock'[p] = t <=> pairLock[p] = t
         /\ \A e \in Event, u \in User : rowLock'[e][u] = t <=> rowLock[e][u] = t
<1> DEFINE Same ==
             /\ pc'[t] = pc[t] /\ job'[t] = job[t] /\ draft'[t] = draft[t]
             /\ \A e \in Event : eventLock'[e] = t <=> eventLock[e] = t
             /\ \A p \in Pair : pairLock'[p] = t <=> pairLock[p] = t
             /\ \A e \in Event, u \in User : rowLock'[e][u] = t <=> rowLock[e][u] = t
           EventsSame == \A e \in Event : eventLock'[e] = t <=> eventLock[e] = t
           PairsSame == \A p \in Pair : pairLock'[p] = t <=> pairLock[p] = t
           RowsSame == \A e \in Event, u \in User : rowLock'[e][u] = t <=> rowLock[e][u] = t
<1>a. /\ TypeOK /\ SessionsTyped /\ LocksTyped /\ t # None
  BY ParticipationAssumption DEF ParticipationAssumption, TypeOK
<1>1. Unlock(s) => EventsSame /\ PairsSame /\ RowsSame
  BY <1>a DEF Unlock, LocksTyped
<1>2. EndRequest(s) => Same
  BY <1>a, <1>1 DEF EndRequest, Goto, SessionsTyped
<1>3. \A step : Goto(s, step) => pc'[t] = pc[t]
  BY <1>a DEF Goto, SessionsTyped
<1>4. \A e : TakeEvent(s, e) => EventsSame
  BY <1>a DEF TakeEvent, Available, LocksTyped
<1>5. \A p : TakePair(s, p) => PairsSame
  BY <1>a DEF TakePair, Available, LocksTyped
<1>6. \A e, u : TakeRow(s, e, u) => RowsSame
  BY <1>a DEF TakeRow, Available, LocksTyped
<1>7. \A step : Proceed(s, step) => pc'[t] = pc[t] /\ job'[t] = job[t] /\ draft'[t] = draft[t]
  BY <1>3 DEF Proceed
<1>8. \A j, step : Begin(s, j, step) => Same
  BY <1>a, <1>3 DEF Begin, locks, SessionsTyped
<1>9. ASSUME NEW g, job' = [job EXCEPT ![s].goal = g] \/ job' = [job EXCEPT ![s].user = g]
      PROVE  job'[t] = job[t]
  BY <1>a, <1>9 DEF SessionsTyped
<1>10. ASSUME \/ JoinLockEvent(s) \/ JoinCheckPair(s) \/ JoinCommit(s)
              \/ AcceptLockEvent(s) \/ AcceptCheckPair(s) \/ AcceptDecide(s)
              \/ AcceptCommit(s)
       PROVE  Same
  BY <1>2, <1>4, <1>5, <1>7, <1>10
  DEF JoinLockEvent, JoinCheckPair, JoinCommit, AcceptLockEvent,
      AcceptCheckPair, AcceptDecide, AcceptCommit, Abort, locks
<1>11. ASSUME JoinDecide(s) PROVE Same
  BY <1>2, <1>3, <1>6, <1>9, <1>11 DEF JoinDecide, Abort
<1>12. ASSUME \/ AnswerLockEvent(s) \/ AnswerCheckPair(s) \/ AnswerDecide(s)
              \/ AnswerCommit(s) \/ LeaveLockEvent(s) \/ LeaveDecide(s) \/ LeaveCommit(s)
       PROVE  Same
  BY <1>2, <1>4, <1>5, <1>6, <1>7, <1>12
  DEF AnswerLockEvent, AnswerCheckPair, AnswerDecide, AnswerCommit, LeaveLockEvent,
      LeaveDecide, LeaveCommit, Abort
<1>13. ASSUME \/ BlockLockPair(s) \/ BlockCommit(s) \/ UnblockCommit(s) \/ DeleteScan(s)
              \/ DeleteCommit(s) \/ CreateCommit(s)
       PROVE  Same
  BY <1>2, <1>3, <1>5, <1>7, <1>13
  DEF BlockLockPair, BlockCommit, UnblockCommit, DeleteScan, DeleteCommit, CreateCommit, locks
<1>14. ASSUME \/ \E u \in User : NotifyNext(s, u)
              \/ NotifyCheckPair(s) \/ CancelFlush(s) \/ CancelPushed(s)
              \/ CancelTokenRejected(s) \/ CancelCommit(s)
              \/ RescheduleFlush(s) \/ RescheduleTokenRejected(s) \/ RescheduleCommit(s)
       PROVE  Same
  <2>1. ASSUME NEW u \in User, NotifyNext(s, u) PROVE Same
    BY <1>3, <1>9, <2>1 DEF NotifyNext, locks
  <2>2. CASE CancelFlush(s)
    BY <1>a, <1>3, <1>4, <2>2 DEF CancelFlush, SessionsTyped
  <2>3. CASE CancelTokenRejected(s) \/ RescheduleTokenRejected(s)
    BY <1>a, <1>1, <1>3, <2>3 DEF CancelTokenRejected, RescheduleTokenRejected, SessionsTyped
  <2>4. CASE NotifyCheckPair(s) \/ CancelPushed(s) \/ CancelCommit(s) \/ RescheduleCommit(s)
    BY <1>2, <1>5, <1>7, <2>4
    DEF NotifyCheckPair, CancelPushed, CancelCommit, RescheduleCommit, locks
  <2>5. CASE RescheduleFlush(s)
    BY <1>a, <1>3, <2>5 DEF RescheduleFlush, SessionsTyped, locks
  <2> QED
    BY <1>14, <2>1, <2>2, <2>3, <2>4, <2>5
<1>15. Request(s) => Same
  BY <1>8 DEF Request, RequestJoin, RequestAccept, RequestLeave, RequestCancel, RequestReschedule,
     RequestAnswer, RequestBlock, RequestUnblock, RequestDelete, RequestCreate
<1>16. DeadlockVictim(s) \/ Crash(s) => Same
  BY <1>2 DEF DeadlockVictim, Crash, Abort
<1> QED
  BY <1>10, <1>11, <1>12, <1>13, <1>14, <1>15, <1>16 DEF Statement, Steps

(* A transaction that ended holds nothing and has decided nothing.         *)
LEMMA EndedIsClean ==
  ASSUME TypeOK, NEW s \in Session, EndRequest(s)
  PROVE  SessionInv(s)'
<1>1. /\ pc'[s] = "idle" /\ job'[s] = NoJob /\ draft'[s] = {}
      /\ \A e \in Event : eventLock'[e] # s
      /\ \A p \in Pair : pairLock'[p] # s
      /\ \A e \in Event, u \in User : rowLock'[e][u] # s
  BY ParticipationAssumption
  DEF EndRequest, Unlock, Goto, TypeOK, SessionsTyped, LocksTyped, ParticipationAssumption
<1>2. job'[s].op = "none"
  BY <1>1 DEF NoJob, MakeJob
<1>3. HoldsInOrder(s)'
  BY <1>1, <1>2 DEF HoldsInOrder
<1>4. KeepsLocks(s)'
  BY <1>1, <1>2 DEF KeepsLocks, At, Granting, Notifying
<1>5. DecisionHolds(s)'
  BY <1>1, <1>2 DEF DecisionHolds, At, Notifying
<1> QED
  BY <1>3, <1>4, <1>5 DEF SessionInv

(* The notices a session has written stay covered by the pairs it holds.   *)
LEMMA DraftStaysSecured ==
  ASSUME NEW s \in Session, KeepsLocks(s), draft'[s] = draft[s], blocks' = blocks,
         \A e \in Event, u \in User : pairLock[PairOf(e, u)] = s => pairLock'[PairOf(e, u)] = s,
         draft[s] \subseteq Notice
  PROVE  (\A n \in draft[s] : n.type \in Announcements /\ Secured(s, n.event, n.user))'
  BY DEF KeepsLocks, Secured, BlockedBetween, PairOf, Notice

(* What a request about an event knows of its job.                         *)
LEMMA EventJobFacts ==
  ASSUME TypeOK, NEW s \in Session, SessionInv(s), job[s].op \in EventOps
  PROVE  /\ job[s].event \in Event /\ job[s].user \in User
         /\ LocksTyped /\ SessionsTyped /\ RowsTyped /\ draft[s] \subseteq Notice
         /\ HoldsInOrder(s) /\ KeepsLocks(s) /\ DecisionHolds(s)
         /\ PairOf(job[s].event, job[s].user) \in Pair
         /\ PairWanted(s) = PairOf(job[s].event, job[s].user)
         /\ Organizer[job[s].event] \in User
<1>1. job[s].event \in Event /\ job[s].user \in User
  BY EventJobTyped DEF TypeOK
<1>2. Organizer[job[s].event] \in User
  BY <1>1, ParticipationAssumption DEF ParticipationAssumption
<1>3. PairOf(job[s].event, job[s].user) \in Pair
  BY <1>1, <1>2 DEF Pair, PairOf
<1> QED
  BY <1>1, <1>2, <1>3
  DEF TypeOK, SessionsTyped, SessionInv, EventOps, PairWanted, AccountOps

(* A request that takes the event row and goes on to the pair.             *)
LEMMA EventTaken ==
  ASSUME TypeOK, NEW s \in Session, SessionInv(s), NEW step \in {"pair", "row"},
         job[s].op \in Granting \cup {"leave"}, pc[s] = "event",
         step = IF job[s].op = "leave" THEN "row" ELSE "pair",
         TakeEvent(s, job[s].event), Proceed(s, step), UNCHANGED <<pairLock, rowLock>>,
         job[s].op = "accept" => eventStatus[job[s].event] = "PUBLISHED"
  PROVE  SessionInv(s)'
<1> DEFINE e == job[s].event
           u == job[s].user
<1>1. /\ e \in Event /\ u \in User /\ LocksTyped /\ SessionsTyped /\ draft[s] \subseteq Notice
      /\ HoldsInOrder(s) /\ KeepsLocks(s) /\ DecisionHolds(s)
  BY EventJobFacts DEF Granting, EventOps
<1>2. /\ pc'[s] = step /\ job' = job /\ draft' = draft /\ UNCHANGED rows
      /\ eventLock' = [eventLock EXCEPT ![e] = s]
  BY <1>1 DEF Proceed, Goto, SessionsTyped, TakeEvent
<1>3. HoldsInOrder(s)'
  BY <1>1, <1>2 DEF HoldsInOrder, HoldsEvent, HoldsThePair, HoldsTheRow, Granting, LocksTyped
<1>4. (\A n \in draft[s] : n.type \in Announcements /\ Secured(s, n.event, n.user))'
  BY <1>1, <1>2, DraftStaysSecured DEF rows
<1>5. KeepsLocks(s)'
  BY <1>1, <1>2, <1>4 DEF KeepsLocks, At, Granting, LocksTyped
<1>6. DecisionHolds(s)'
  BY <1>1, <1>2 DEF DecisionHolds, At, Granting, rows
<1> QED
  BY <1>3, <1>5, <1>6 DEF SessionInv

(* A request that takes the pair and goes on to the participant row.       *)
LEMMA PairTaken ==
  ASSUME TypeOK, NEW s \in Session, SessionInv(s),
         job[s].op \in Granting, pc[s] = "pair",
         TakePair(s, PairOf(job[s].event, job[s].user)), Proceed(s, "row"),
         UNCHANGED <<eventLock, rowLock>>,
         ~BlockedBetween(Organizer[job[s].event], job[s].user),
         job[s].op = "join" => /\ eventStatus[job[s].event] = "PUBLISHED"
                               /\ Organizer[job[s].event] # job[s].user
  PROVE  SessionInv(s)'
<1> DEFINE e == job[s].event
           u == job[s].user
<1>1. /\ e \in Event /\ u \in User /\ LocksTyped /\ SessionsTyped /\ draft[s] \subseteq Notice
      /\ HoldsInOrder(s) /\ KeepsLocks(s) /\ DecisionHolds(s)
      /\ PairOf(e, u) \in Pair /\ PairWanted(s) = PairOf(e, u)
  BY EventJobFacts DEF Granting, EventOps
<1>2. /\ pc'[s] = "row" /\ job' = job /\ draft' = draft /\ UNCHANGED <<rows, eventLock, rowLock>>
      /\ pairLock' = [pairLock EXCEPT ![PairOf(e, u)] = s]
  BY <1>1 DEF Proceed, Goto, SessionsTyped, TakePair
<1>3. PairWanted(s)' = PairOf(e, u) /\ PairOf(e, u)' = PairOf(e, u)
  BY <1>1, <1>2 DEF PairWanted, PairOf
<1>4. HoldsInOrder(s)'
  BY <1>1, <1>2, <1>3 DEF HoldsInOrder, HoldsEvent, HoldsThePair, HoldsTheRow, Granting, LocksTyped
<1>5. (\A n \in draft[s] : n.type \in Announcements /\ Secured(s, n.event, n.user))'
  <2>1. \A p : pairLock[p] = s /\ p \in Pair => pairLock'[p] = s
    BY <1>1, <1>2 DEF LocksTyped
  <2>2. \A f \in Event, v \in User : PairOf(f, v) \in Pair
    BY ParticipationAssumption DEF PairOf, Pair, ParticipationAssumption
  <2> QED
    BY <1>1, <1>2, <2>1, <2>2, DraftStaysSecured DEF rows
<1>6. Secured(s, e, u)'
  BY <1>1, <1>2 DEF Secured, PairOf, BlockedBetween, rows, LocksTyped
<1>7. KeepsLocks(s)'
  BY <1>1, <1>2, <1>5, <1>6 DEF KeepsLocks, At, Granting, LocksTyped
<1>8. DecisionHolds(s)'
  BY <1>1, <1>2 DEF DecisionHolds, At, Granting, rows
<1> QED
  BY <1>4, <1>7, <1>8 DEF SessionInv

(* A request that decides, with or without the participant row locked.     *)
LEMMA RowTaken ==
  ASSUME TypeOK, NEW s \in Session, SessionInv(s),
         job[s].op \in Granting \cup {"leave"}, pc[s] = "row",
         UNCHANGED <<params, rows, eventLock, pairLock, draft>>,
         \/ /\ job[s].op # "accept"
            /\ TakeRow(s, job[s].event, job[s].user)
         \/ /\ job[s].op \in {"join", "accept"}
            /\ UNCHANGED rowLock,
         Goto(s, "write"),
         NEW goal, job'[s] = [job[s] EXCEPT !.goal = goal], job[s].op # "join" => goal = job[s].goal,
         job[s].op = "join" => goal \in Active,
         job[s].op \in {"join", "accept"} =>
           /\ participation[job[s].event][job[s].user] \in Reenterable
           /\ HasSeat(job[s].event),
         job[s].op = "answer" =>
           /\ <<participation[job[s].event][job[s].user], goal>> \in ValidTransitions
           /\ goal = "CONFIRMED" => HasSeat(job[s].event),
         job[s].op = "leave" => participation[job[s].event][job[s].user] \in Active
  PROVE  SessionInv(s)'
<1> DEFINE e == job[s].event
           u == job[s].user
<1>1. /\ e \in Event /\ u \in User /\ LocksTyped /\ SessionsTyped /\ draft[s] \subseteq Notice
      /\ HoldsInOrder(s) /\ KeepsLocks(s) /\ DecisionHolds(s)
      /\ PairOf(e, u) \in Pair /\ PairWanted(s) = PairOf(e, u)
  BY EventJobFacts DEF Granting, EventOps
<1>2. /\ pc'[s] = "write" /\ draft' = draft
      /\ job'[s].op = job[s].op /\ job'[s].event = e /\ job'[s].user = u
      /\ job'[s].actor = job[s].actor /\ job'[s].goal = goal
  <2>1. job[s] \in Job
    BY <1>1 DEF SessionsTyped, NoJob, MakeJob, Granting
  <2>2. job[s] \in [op : EventOps \cup AccountOps, actor : User, event : Event \cup {None},
                    user : User, goal : Status]
    BY <2>1 DEF Job, EventJob, AnswerJob, AccountJob, EventOps, AnswerGoal, Status
  <2> QED
    BY <1>1, <2>2 DEF Goto, SessionsTyped
<1>3. PairWanted(s)' = PairOf(e, u) /\ PairOf(e, u)' = PairOf(e, u)
  BY <1>1, <1>2 DEF PairWanted, PairOf, Granting, AccountOps
<1>4. HoldsInOrder(s)'
  <2>1. \A f \in Event, v \in User : rowLock'[f][v] = s =>
           job[s].op # "accept" /\ f = e /\ v = u
    BY <1>1 DEF TakeRow, LocksTyped, HoldsInOrder, HoldsTheRow
  <2> QED
    BY <1>1, <1>2, <1>3, <2>1
    DEF HoldsInOrder, HoldsEvent, HoldsThePair, HoldsTheRow, Granting
<1>5. (\A n \in draft[s] : n.type \in Announcements /\ Secured(s, n.event, n.user))'
  BY <1>1, <1>2, DraftStaysSecured DEF rows
<1>6. Secured(s, e, u) => Secured(s, e, u)'
  BY DEF Secured, PairOf, BlockedBetween, rows
<1>7. job[s].op \in {"answer", "leave"} => rowLock'[e][u] = s
  BY <1>1 DEF TakeRow, LocksTyped
<1>8. KeepsLocks(s)'
  BY <1>1, <1>2, <1>5, <1>6, <1>7 DEF KeepsLocks, At, Granting, Secured, PairOf, BlockedBetween
<1>9. HasSeat(e)' <=> HasSeat(e)
  BY DEF HasSeat, Confirmed, params, rows
<1>10. DecisionHolds(s)'
  <2>1. HasSeat(job[s].event)' <=> HasSeat(e)'
    BY <1>2 DEF HasSeat, Confirmed
  <2> QED
    BY <1>1, <1>2, <1>9, <2>1 DEF DecisionHolds, At, Granting, rows
<1> QED
  BY <1>4, <1>8, <1>10 DEF SessionInv

(* The statements of requests about one participation keep it.             *)
LEMMA ParticipationStepsKeep ==
  ASSUME TypeOK, NEW s \in Session, SessionInv(s),
         \/ JoinLockEvent(s) \/ JoinCheckPair(s) \/ JoinDecide(s) \/ JoinCommit(s)
         \/ AcceptLockEvent(s) \/ AcceptCheckPair(s) \/ AcceptDecide(s) \/ AcceptCommit(s)
         \/ AnswerLockEvent(s) \/ AnswerCheckPair(s) \/ AnswerDecide(s) \/ AnswerCommit(s)
         \/ LeaveLockEvent(s) \/ LeaveDecide(s) \/ LeaveCommit(s)
  PROVE  SessionInv(s)'
<1> DEFINE e == job[s].event
           u == job[s].user
<1>1. Abort(s) => SessionInv(s)'
  BY EndedIsClean DEF Abort
<1>2. job \in [Session -> Job \cup {NoJob}]
  BY DEF TypeOK, SessionsTyped
<1>3. ASSUME JoinLockEvent(s) \/ AcceptLockEvent(s) \/ AnswerLockEvent(s) \/ LeaveLockEvent(s)
      PROVE  SessionInv(s)'
  BY <1>1, <1>3, EventTaken
  DEF JoinLockEvent, AcceptLockEvent, AnswerLockEvent, LeaveLockEvent, At, Granting
<1>4. ASSUME JoinCheckPair(s) \/ AcceptCheckPair(s) \/ AnswerCheckPair(s)
      PROVE  SessionInv(s)'
  BY <1>1, <1>4, PairTaken DEF JoinCheckPair, AcceptCheckPair, AnswerCheckPair, At, Granting
<1>5. CASE JoinDecide(s)
  <2>1. CASE Abort(s)
    BY <1>1, <2>1
  <2>2. CASE ~Abort(s)
    <3>1. PICK goal \in Active : job' = [job EXCEPT ![s].goal = goal]
      BY <1>5, <2>2 DEF JoinDecide, Active
    <3>2. job'[s] = [job[s] EXCEPT !.goal = goal]
      BY <1>2, <3>1
    <3> QED
      BY <1>5, <2>2, <3>1, <3>2, RowTaken DEF JoinDecide, At, Granting, environment
  <2> QED
    BY <2>1, <2>2
<1>6. ASSUME AcceptDecide(s) \/ AnswerDecide(s) \/ LeaveDecide(s)
      PROVE  SessionInv(s)'
  <2>1. CASE Abort(s)
    BY <1>1, <2>1
  <2>2. CASE ~Abort(s)
    <3>1. /\ Goto(s, "write") /\ pc[s] = "row"
          /\ UNCHANGED <<params, rows, eventLock, pairLock, draft, job>>
          /\ \/ AcceptDecide(s) /\ UNCHANGED rowLock
             \/ TakeRow(s, e, u) /\ ~AcceptDecide(s)
      BY <1>6, <2>2 DEF AcceptDecide, AnswerDecide, LeaveDecide, Proceed, At, locks
    <3>2. job'[s] = [job[s] EXCEPT !.goal = job[s].goal]
      <4>1. job[s] # NoJob
        BY <1>6 DEF AcceptDecide, AnswerDecide, LeaveDecide, At, NoJob, MakeJob
      <4> QED
        BY <1>2, <3>1, <4>1 DEF Job, EventJob, AnswerJob, AccountJob
    <3> QED
      BY <1>6, <2>2, <3>1, <3>2, RowTaken
      DEF AcceptDecide, AnswerDecide, LeaveDecide, At, Granting
  <2> QED
    BY <2>1, <2>2
<1>7. ASSUME JoinCommit(s) \/ AcceptCommit(s) \/ AnswerCommit(s) \/ LeaveCommit(s)
      PROVE  SessionInv(s)'
  BY <1>7, EndedIsClean DEF JoinCommit, AcceptCommit, AnswerCommit, LeaveCommit
<1> QED
  BY <1>3, <1>4, <1>5, <1>6, <1>7

LEMMA AccountStepsKeep ==
  ASSUME TypeOK, NEW s \in Session, SessionInv(s),
         \/ BlockLockPair(s) \/ BlockCommit(s) \/ UnblockCommit(s)
         \/ DeleteScan(s) \/ DeleteCommit(s) \/ CreateCommit(s)
  PROVE  SessionInv(s)'
<1>1. CASE BlockCommit(s) \/ UnblockCommit(s) \/ DeleteCommit(s) \/ CreateCommit(s)
  BY <1>1, EndedIsClean DEF BlockCommit, UnblockCommit, DeleteCommit, CreateCommit
<1>3. CASE DeleteScan(s)
  <2>1. /\ job[s].op = "delete" /\ pc'[s] = "write" /\ job' = job /\ draft' = draft
        /\ UNCHANGED <<rows, locks>>
    BY <1>3 DEF DeleteScan, At, Goto, TypeOK, SessionsTyped
  <2>2. HoldsInOrder(s) /\ KeepsLocks(s) /\ DecisionHolds(s) /\ draft[s] \subseteq Notice
    BY DEF SessionInv, TypeOK, SessionsTyped
  <2>3. pc[s] = "scan"
    BY <1>3 DEF DeleteScan, At
  <2>4. HoldsInOrder(s)'
    BY <2>1, <2>2, <2>3
    DEF HoldsInOrder, HoldsEvent, HoldsThePair, HoldsTheRow, Granting, Notifying, locks
  <2>5. (\A n \in draft[s] : n.type \in Announcements /\ Secured(s, n.event, n.user))'
    BY <2>1, <2>2, DraftStaysSecured DEF rows, locks
  <2>6. KeepsLocks(s)' /\ DecisionHolds(s)'
    BY <2>1, <2>2, <2>5 DEF KeepsLocks, DecisionHolds, At, Granting, Notifying, rows
  <2> QED
    BY <2>4, <2>6 DEF SessionInv
<1>2. CASE BlockLockPair(s)
  <2> DEFINE p == {job[s].actor, job[s].user}
  <2>1. job[s].op = "block" /\ pc[s] = "pair"
    BY <1>2 DEF BlockLockPair, At
  <2>2. p \in Pair
    BY <2>1, AccountJobTyped DEF TypeOK, AccountOps, Pair
  <2>3. /\ LocksTyped /\ SessionsTyped /\ draft[s] \subseteq Notice
        /\ HoldsInOrder(s) /\ KeepsLocks(s) /\ DecisionHolds(s)
    BY DEF TypeOK, SessionsTyped, SessionInv
  <2>4. /\ pc'[s] = "write" /\ job' = job /\ draft' = draft
        /\ UNCHANGED <<rows, eventLock, rowLock>>
        /\ pairLock' = [pairLock EXCEPT ![p] = s]
    BY <1>2, <2>3 DEF BlockLockPair, Proceed, Goto, SessionsTyped, TakePair
  <2>5. PairWanted(s)' = p
    BY <2>1, <2>4 DEF PairWanted, AccountOps
  <2>6. HoldsInOrder(s)'
    BY <2>1, <2>2, <2>3, <2>4, <2>5
    DEF HoldsInOrder, HoldsEvent, HoldsThePair, HoldsTheRow, Granting, LocksTyped
  <2>7. (\A n \in draft[s] : n.type \in Announcements /\ Secured(s, n.event, n.user))'
    <3>1. \A q \in Pair : pairLock[q] = s => pairLock'[q] = s
      BY <2>2, <2>3, <2>4 DEF LocksTyped
    <3>2. \A f \in Event, v \in User : PairOf(f, v) \in Pair
      BY ParticipationAssumption DEF PairOf, Pair, ParticipationAssumption
    <3> QED
      BY <2>3, <2>4, <3>1, <3>2, DraftStaysSecured DEF rows
  <2>8. KeepsLocks(s)'
    BY <2>1, <2>2, <2>3, <2>4, <2>7 DEF KeepsLocks, At, Granting, LocksTyped
  <2>9. DecisionHolds(s)'
    BY <2>1, <2>3, <2>4 DEF DecisionHolds, At, Notifying, rows
  <2> QED
    BY <2>6, <2>8, <2>9 DEF SessionInv
<1> QED
  BY <1>1, <1>2, <1>3

(* A request that notifies takes pairs and the event in its own order;     *)
(* what it has written is covered by the pairs it still holds.             *)
LEMMA NoticeStepsKeep ==
  ASSUME TypeOK, NEW s \in Session, SessionInv(s),
         \/ \E u \in User : NotifyNext(s, u)
         \/ NotifyCheckPair(s) \/ CancelFlush(s) \/ CancelPushed(s)
         \/ CancelTokenRejected(s) \/ CancelCommit(s)
         \/ RescheduleFlush(s) \/ RescheduleTokenRejected(s) \/ RescheduleCommit(s)
  PROVE  SessionInv(s)'
<1> DEFINE e == job[s].event
           u == job[s].user
           Covered == \A n \in draft[s] : n.type \in Announcements /\ Secured(s, n.event, n.user)
<1>1. job[s].op \in Notifying
  BY DEF NotifyNext, NotifyCheckPair, CancelFlush, CancelPushed, CancelTokenRejected,
     CancelCommit, RescheduleFlush, RescheduleTokenRejected, RescheduleCommit, At, Notifying
<1>2. /\ e \in Event /\ u \in User /\ LocksTyped /\ SessionsTyped /\ draft[s] \subseteq Notice
      /\ HoldsInOrder(s) /\ KeepsLocks(s) /\ DecisionHolds(s)
      /\ PairOf(e, u) \in Pair
      /\ \A f \in Event, v \in User : rowLock[f][v] # s
      /\ eventStatus[e] # "ABSENT"
  <2>1. /\ e \in Event /\ u \in User /\ LocksTyped /\ SessionsTyped /\ draft[s] \subseteq Notice
        /\ HoldsInOrder(s) /\ KeepsLocks(s) /\ DecisionHolds(s)
        /\ PairOf(e, u) \in Pair
    BY <1>1, EventJobFacts DEF EventOps, Notifying
  <2> QED
    BY <1>1, <2>1 DEF HoldsInOrder, HoldsTheRow, DecisionHolds, Notifying
<1>3. ASSUME job'[s].op \in Notifying, job'[s].event = e, pc'[s] \notin {"idle", "event", "row"},
             UNCHANGED <<rows, rowLock>>
      PROVE  HoldsInOrder(s)' /\ DecisionHolds(s)'
  BY <1>2, <1>3 DEF HoldsInOrder, DecisionHolds, At, Granting, Notifying, rows
<1>4. ASSUME NEW v \in User, NotifyNext(s, v) PROVE SessionInv(s)'
  <2>1. job[s] \in EventJob
    BY <1>1, <1>2, EventJobTyped DEF EventOps, Notifying
  <2>2. /\ job'[s].op \in Notifying /\ job'[s].event = e /\ pc'[s] = "pair"
        /\ draft' = draft /\ UNCHANGED <<rows, locks>>
    BY <1>1, <1>2, <1>4, <2>1 DEF NotifyNext, Goto, SessionsTyped, EventJob
  <2>3. Covered'
    BY <1>2, <2>2, DraftStaysSecured DEF rows, locks
  <2>4. KeepsLocks(s)'
    BY <1>2, <2>2, <2>3 DEF KeepsLocks, At, Granting, Notifying
  <2> QED
    BY <1>3, <2>2, <2>4 DEF SessionInv, locks
<1>5. CASE NotifyCheckPair(s)
  <2>1. /\ job' = job /\ pc'[s] = IF BlockedBetween(Organizer[e], u) THEN "next" ELSE "flush"
        /\ draft' = draft /\ UNCHANGED <<rows, eventLock, rowLock>>
        /\ pairLock' = [pairLock EXCEPT ![PairOf(e, u)] = s]
    BY <1>2, <1>5 DEF NotifyCheckPair, Proceed, Goto, SessionsTyped, TakePair
  <2>2. Covered'
    <3>1. \A p \in Pair : pairLock[p] = s => pairLock'[p] = s
      BY <1>2, <2>1 DEF LocksTyped
    <3>2. \A f \in Event, v \in User : PairOf(f, v) \in Pair
      BY ParticipationAssumption DEF PairOf, Pair, ParticipationAssumption
    <3> QED
      BY <1>2, <2>1, <3>1, <3>2, DraftStaysSecured DEF rows
  <2>3. pc'[s] = "flush" => Secured(s, e, u)'
    BY <1>2, <2>1 DEF Secured, PairOf, BlockedBetween, rows, LocksTyped
  <2>4. KeepsLocks(s)'
    BY <1>1, <1>2, <2>1, <2>2, <2>3 DEF KeepsLocks, At, Granting, Notifying
  <2> QED
    BY <1>1, <1>3, <2>1, <2>4 DEF SessionInv
<1>6. CASE CancelFlush(s)
  <2> DEFINE notice == MakeNotice("EVENT_CANCELLED", e, u)
  <2>1. /\ job' = job /\ pc'[s] = "push" /\ draft'[s] = draft[s] \cup {notice}
        /\ UNCHANGED <<rows, pairLock, rowLock>>
        /\ eventLock' = [eventLock EXCEPT ![e] = s]
    BY <1>2, <1>6 DEF CancelFlush, Goto, SessionsTyped, TakeEvent
  <2>2. Secured(s, e, u)
    BY <1>1, <1>2, <1>6 DEF KeepsLocks, CancelFlush, At
  <2>3. notice.type \in Announcements /\ notice.event = e /\ notice.user = u
    BY DEF MakeNotice, Announcements
  <2>4. ASSUME NEW n \in draft'[s]
        PROVE  n.type \in Announcements /\ Secured(s, n.event, n.user)
    BY <1>2, <2>1, <2>2, <2>3, <2>4 DEF KeepsLocks
  <2>5. ASSUME NEW n \in draft'[s]
        PROVE  n.type \in Announcements /\ Secured(s, n.event, n.user)'
    BY <2>1, <2>4, <2>5 DEF Secured, BlockedBetween, PairOf, rows
  <2>6. KeepsLocks(s)'
    <3>1. Covered'
      BY <2>5 DEF Secured, BlockedBetween, PairOf
    <3> QED
      BY <1>1, <1>2, <2>1, <3>1 DEF KeepsLocks, At, Granting, Notifying, LocksTyped
  <2> QED
    BY <1>1, <1>3, <2>1, <2>6 DEF SessionInv
<1>7. CASE CancelPushed(s)
  <2>1. job' = job /\ pc'[s] = "next" /\ draft' = draft /\ UNCHANGED <<rows, locks>>
    BY <1>2, <1>7 DEF CancelPushed, Proceed, Goto, SessionsTyped
  <2>2. Covered'
    BY <1>2, <2>1, DraftStaysSecured DEF rows, locks
  <2>3. KeepsLocks(s)'
    BY <1>1, <1>2, <2>1, <2>2, <1>7 DEF CancelPushed, KeepsLocks, At, Granting, Notifying
  <2> QED
    BY <1>1, <1>3, <2>1, <2>3 DEF SessionInv, locks
<1>8. CASE CancelTokenRejected(s) \/ RescheduleTokenRejected(s)
  <2>1. /\ job' = job /\ pc'[s] = "next" /\ draft'[s] = {}
        /\ eventStatus'[e] # "ABSENT"
        /\ \A f \in Event, v \in User : rowLock'[f][v] # s
    BY <1>2, <1>8, ParticipationAssumption
    DEF CancelTokenRejected, RescheduleTokenRejected, Goto, SessionsTyped, Unlock, TypeOK,
        RowsTyped, LocksTyped, ParticipationAssumption
  <2>2. KeepsLocks(s)'
    BY <1>1, <2>1 DEF KeepsLocks, At, Granting, Notifying
  <2>3. HoldsInOrder(s)'
    BY <1>1, <2>1 DEF HoldsInOrder, Notifying
  <2>4. DecisionHolds(s)'
    BY <1>1, <2>1 DEF DecisionHolds, At, Granting, Notifying
  <2> QED
    BY <2>2, <2>3, <2>4 DEF SessionInv
<1>9. CASE CancelCommit(s) \/ RescheduleCommit(s)
  BY <1>9, EndedIsClean DEF CancelCommit, RescheduleCommit
<1>10. CASE RescheduleFlush(s)
  <2> DEFINE notice == MakeNotice("EVENT_UPDATED", e, u)
  <2>1. /\ job' = job /\ pc'[s] \in {"next", "drop"} /\ draft'[s] = draft[s] \cup {notice}
        /\ UNCHANGED <<rows, locks>>
    BY <1>2, <1>10 DEF RescheduleFlush, Goto, SessionsTyped
  <2>2. Secured(s, e, u)
    BY <1>1, <1>2, <1>10 DEF KeepsLocks, RescheduleFlush, At
  <2>3. notice.type \in Announcements /\ notice.event = e /\ notice.user = u
    BY DEF MakeNotice, Announcements
  <2>4. ASSUME NEW n \in draft'[s]
        PROVE  n.type \in Announcements /\ Secured(s, n.event, n.user)
    BY <1>2, <2>1, <2>2, <2>3, <2>4 DEF KeepsLocks
  <2>5. ASSUME NEW n \in draft'[s]
        PROVE  n.type \in Announcements /\ Secured(s, n.event, n.user)'
    BY <2>1, <2>4, <2>5 DEF Secured, BlockedBetween, PairOf, rows, locks
  <2>6. KeepsLocks(s)'
    <3>1. Covered'
      BY <2>5 DEF Secured, BlockedBetween, PairOf
    <3> QED
      BY <1>1, <1>2, <1>10, <2>1, <3>1
      DEF RescheduleFlush, KeepsLocks, At, Granting, Notifying
  <2> QED
    BY <1>1, <1>3, <2>1, <2>6 DEF SessionInv, locks
<1> QED
  BY <1>4, <1>5, <1>6, <1>7, <1>8, <1>9, <1>10

(* A request that arrives holds nothing yet.                               *)
LEMMA BeginKeeps ==
  ASSUME TypeOK, NEW s \in Session, SessionInv(s), NEW j, NEW step,
         Begin(s, j, step), step \notin {"idle", "row"}, j.op # "none",
         step = "event" => j.op \in Granting \cup {"leave"},
         j.op \in Granting \cup {"leave"} => step = "event",
         j.op \in Notifying \cup {"block"} => step \notin {"row", "write", "flush", "push"},
         j.op = "accept" => j.goal = "CONFIRMED",
         j.op \in Notifying => eventStatus[j.event] # "ABSENT",
         j.op = "create" => eventStatus[j.event] = "ABSENT",
         j.op = "block" => j.actor # j.user
  PROVE  SessionInv(s)'
<1>1. /\ pc'[s] = step /\ job'[s] = j /\ draft' = draft /\ UNCHANGED <<rows, locks>>
  BY DEF Begin, Goto, TypeOK, SessionsTyped
<1>2. /\ HoldsInOrder(s) /\ KeepsLocks(s) /\ draft[s] \subseteq Notice
      /\ pc[s] = "idle" /\ job[s] = NoJob
  BY DEF SessionInv, Begin, HoldsInOrder, TypeOK, SessionsTyped
<1>3. /\ \A e \in Event : eventLock[e] # s
      /\ \A p \in Pair : pairLock[p] # s
      /\ \A e \in Event, u \in User : rowLock[e][u] # s
  BY <1>2
  DEF HoldsInOrder, HoldsEvent, HoldsThePair, HoldsTheRow, NoJob, MakeJob, Notifying
<1>4. HoldsInOrder(s)'
  BY <1>1, <1>3 DEF HoldsInOrder, locks
<1>5. (\A n \in draft[s] : n.type \in Announcements /\ Secured(s, n.event, n.user))'
  BY <1>1, <1>2, DraftStaysSecured DEF rows, locks
<1>6. KeepsLocks(s)'
  BY <1>1, <1>5 DEF KeepsLocks, At, Granting, Notifying
<1>7. DecisionHolds(s)'
  BY <1>1 DEF DecisionHolds, At, Granting, Notifying, rows
<1> QED
  BY <1>4, <1>6, <1>7 DEF SessionInv

(* Every step of a session keeps what is known of it.                      *)
LEMMA OwnStepKeeps ==
  ASSUME TypeOK, NEW s \in Session, SessionInv(s), Steps(s)
  PROVE  SessionInv(s)'
<1>1. CASE Request(s)
  <2> USE DEF MakeJob, Granting, Notifying
  <2>1. ASSUME NEW u \in User, NEW e \in Event,
               RequestJoin(s, u, e) \/ RequestAccept(s, u, e) \/ RequestLeave(s, u, e)
        PROVE  SessionInv(s)'
    BY <2>1, BeginKeeps DEF RequestJoin, RequestAccept, RequestLeave
  <2>2. ASSUME NEW u \in User, NEW e \in Event,
               RequestCancel(s, u, e) \/ RequestReschedule(s, u, e)
        PROVE  SessionInv(s)'
    BY <2>2, BeginKeeps DEF RequestCancel, RequestReschedule
  <2>3. ASSUME NEW u \in User, NEW e \in Event, NEW v \in User, NEW g \in AnswerGoal,
               RequestAnswer(s, u, e, v, g)
        PROVE  SessionInv(s)'
    BY <2>3, BeginKeeps DEF RequestAnswer
  <2>4. ASSUME NEW a \in User, NEW b \in User, RequestBlock(s, a, b) \/ RequestUnblock(s, a, b)
        PROVE  SessionInv(s)'
    BY <2>4, BeginKeeps DEF RequestBlock, RequestUnblock
  <2>5. ASSUME NEW u \in User, RequestDelete(s, u) PROVE SessionInv(s)'
    BY <2>5, BeginKeeps DEF RequestDelete
  <2>6. ASSUME NEW e \in Event, RequestCreate(s, e) PROVE SessionInv(s)'
    BY <2>6, BeginKeeps DEF RequestCreate
  <2> QED
    BY <1>1, <2>1, <2>2, <2>3, <2>4, <2>5, <2>6 DEF Request
<1>2. CASE Statement(s)
  BY <1>2, ParticipationStepsKeep, AccountStepsKeep, NoticeStepsKeep DEF Statement
<1>3. CASE DeadlockVictim(s) \/ Crash(s)
  BY <1>3, EndedIsClean DEF DeadlockVictim, Crash, Abort
<1> QED
  BY <1>1, <1>2, <1>3 DEF Steps

-----------------------------------------------------------------------------
(* What a step may change, and under which lock *)

(* The four commits that write one participant row.                        *)
RowCommit(s) == JoinCommit(s) \/ AcceptCommit(s) \/ AnswerCommit(s) \/ LeaveCommit(s)

(* A participant row changes under the lock of its event, or is withdrawn  *)
(* by a block or a deletion that found the row unlocked; an event is       *)
(* cancelled by whoever can lock it; a block needs its pair.               *)
ParticipationGuarded(s) ==
  \A e \in Event, u \in User :
    \/ participation'[e][u] = participation[e][u]
    \/ RowCommit(s) /\ e = job[s].event /\ u = job[s].user /\ eventLock[e] = s
    \/ /\ participation[e][u] \in Active /\ participation'[e][u] = "CANCELLED"
       /\ Available(rowLock[e][u], s)

StatusGuarded(s) ==
  \A e \in Event :
    \/ eventStatus'[e] = eventStatus[e]
    \/ /\ eventStatus[e] = "ABSENT" /\ eventStatus'[e] = "PUBLISHED"
       /\ CreateCommit(s) /\ e = job[s].event
    \/ /\ eventStatus[e] # "ABSENT" /\ eventStatus'[e] = "CANCELLED"
       /\ Available(eventLock[e], s)

BlocksGuarded(s) ==
  \A a, b \in User :
    BlockedBetween(a, b)' => BlockedBetween(a, b) \/ pairLock[{a, b}] = s

(* The two commits that only add notices.                                  *)
NoticesCommit(s) == RescheduleTokenRejected(s) \/ RescheduleCommit(s)

(* Only a commit changes what others can see.                              *)
LEMMA OnlyCommitsShow ==
  ASSUME NEW s \in Session, Steps(s)
  PROVE  /\ capacity' = capacity
         /\ \/ UNCHANGED rows
            \/ RowCommit(s) \/ BlockCommit(s) \/ UnblockCommit(s) \/ DeleteCommit(s)
            \/ CreateCommit(s) \/ CancelTokenRejected(s) \/ CancelCommit(s)
            \/ NoticesCommit(s)
<1> DEFINE Quiet == UNCHANGED <<params, rows>>
<1>1. Abort(s) => Quiet
  BY DEF Abort
<1>2. \A step : Proceed(s, step) => Quiet
  BY DEF Proceed
<1>3. \A j, step : Begin(s, j, step) => Quiet
  BY DEF Begin
<1>4. ASSUME \/ JoinLockEvent(s) \/ JoinCheckPair(s) \/ JoinDecide(s)
             \/ AcceptLockEvent(s) \/ AcceptCheckPair(s) \/ AcceptDecide(s)
             \/ AnswerLockEvent(s) \/ AnswerCheckPair(s) \/ AnswerDecide(s)
             \/ LeaveLockEvent(s) \/ LeaveDecide(s) \/ BlockLockPair(s)
      PROVE  Quiet
  BY <1>1, <1>2, <1>4
  DEF JoinLockEvent, JoinCheckPair, JoinDecide, AcceptLockEvent, AcceptCheckPair,
      AcceptDecide, AnswerLockEvent, AnswerCheckPair, AnswerDecide, LeaveLockEvent,
      LeaveDecide, BlockLockPair
<1>5. ASSUME \/ \E u \in User : NotifyNext(s, u)
             \/ NotifyCheckPair(s) \/ CancelFlush(s) \/ CancelPushed(s)
             \/ RescheduleFlush(s) \/ DeleteScan(s)
      PROVE  Quiet
  BY <1>2, <1>5
  DEF NotifyNext, NotifyCheckPair, CancelFlush, CancelPushed, RescheduleFlush, DeleteScan
<1>6. Request(s) => Quiet
  BY <1>3 DEF Request, RequestJoin, RequestAccept, RequestLeave, RequestCancel, RequestReschedule,
     RequestAnswer, RequestBlock, RequestUnblock, RequestDelete, RequestCreate
<1>7. DeadlockVictim(s) \/ Crash(s) => Quiet
  BY <1>1 DEF DeadlockVictim, Crash
<1>8. RowCommit(s) \/ BlockCommit(s) \/ UnblockCommit(s) \/ DeleteCommit(s)
        \/ CreateCommit(s) \/ CancelTokenRejected(s) \/ CancelCommit(s)
        \/ NoticesCommit(s) => UNCHANGED params
  BY DEF RowCommit, JoinCommit, AcceptCommit, AnswerCommit, LeaveCommit, BlockCommit,
     UnblockCommit, DeleteCommit, CreateCommit, CancelTokenRejected, CancelCommit,
     NoticesCommit, RescheduleTokenRejected, RescheduleCommit
<1> QED
  BY <1>4, <1>5, <1>6, <1>7, <1>8 DEF Steps, Statement, RowCommit, NoticesCommit, params

LEMMA RowsAreGuarded ==
  ASSUME TypeOK, NEW s \in Session, SessionInv(s), Steps(s)
  PROVE  ParticipationGuarded(s) /\ StatusGuarded(s) /\ BlocksGuarded(s)
<1> DEFINE Guarded == ParticipationGuarded(s) /\ StatusGuarded(s) /\ BlocksGuarded(s)
<1> USE DEF rows
<1>1. /\ participation \in [Event -> [User -> Status]] /\ eventStatus \in [Event -> EventStatus]
      /\ SessionsTyped /\ LocksTyped /\ KeepsLocks(s) /\ DecisionHolds(s)
  BY DEF TypeOK, RowsTyped, SessionInv
<1>2. UNCHANGED rows => Guarded
  BY DEF ParticipationGuarded, StatusGuarded, BlocksGuarded, BlockedBetween
<1>6. UNCHANGED <<eventStatus, participation>> => ParticipationGuarded(s) /\ StatusGuarded(s)
  BY DEF ParticipationGuarded, StatusGuarded
<1>7. UNCHANGED <<participation, blocks>> => ParticipationGuarded(s) /\ BlocksGuarded(s)
  BY DEF ParticipationGuarded, BlocksGuarded, BlockedBetween
<1>8. UNCHANGED <<eventStatus, blocks>> => StatusGuarded(s) /\ BlocksGuarded(s)
  BY DEF StatusGuarded, BlocksGuarded, BlockedBetween
<1>9. ASSUME RowCommit(s) PROVE Guarded
  <2>1. /\ job[s].op \in {"join", "accept", "answer", "leave"} /\ pc[s] = "write"
        /\ UNCHANGED <<eventStatus, blocks>>
    BY <1>9 DEF RowCommit, JoinCommit, AcceptCommit, AnswerCommit, LeaveCommit, At
  <2>2. job[s].event \in Event /\ job[s].user \in User
    BY <1>1, <2>1, EventJobTyped DEF EventOps
  <2>3. eventLock[job[s].event] = s
    BY <1>1, <2>1 DEF KeepsLocks, Granting
  <2>4. \A e \in Event, u \in User :
           \/ participation'[e][u] = participation[e][u]
           \/ e = job[s].event /\ u = job[s].user
    <3>1. PICK g : participation' = [participation EXCEPT ![job[s].event][job[s].user] = g]
      BY <1>9 DEF RowCommit, JoinCommit, AcceptCommit, AnswerCommit, LeaveCommit
    <3> QED
      BY <1>1, <2>2, <3>1
  <2> QED
    BY <1>8, <1>9, <2>1, <2>3, <2>4 DEF ParticipationGuarded
<1>10. CASE BlockCommit(s)
  <2> DEFINE a == job[s].actor
             b == job[s].user
  <2>1. pairLock[{a, b}] = s
    BY <1>1, <1>10 DEF BlockCommit, KeepsLocks
  <2>2. BlocksGuarded(s)
    BY <1>10, <2>1 DEF BlockCommit, BlocksGuarded, BlockedBetween
  <2>3. ParticipationGuarded(s)
    BY <1>1, <1>10 DEF BlockCommit, ParticipationGuarded, Withdraw, RowsAvailable, RowsBetween
  <2> QED
    BY <1>10, <2>2, <2>3 DEF BlockCommit, StatusGuarded
<1>11. CASE UnblockCommit(s)
  <2>1. BlocksGuarded(s)
    BY <1>11 DEF UnblockCommit, BlocksGuarded, BlockedBetween
  <2> QED
    BY <1>6, <1>11, <2>1 DEF UnblockCommit
<1>12. CASE DeleteCommit(s)
  <2>1. ParticipationGuarded(s)
    BY <1>1, <1>12
    DEF DeleteCommit, ParticipationGuarded, Withdraw, RowsAvailable, Doomed, RowsOf
  <2> QED
    BY <1>8, <1>12, <2>1 DEF DeleteCommit
<1>13. CASE CreateCommit(s)
  <2>1. job[s].op = "create"
    BY <1>13 DEF CreateCommit, At
  <2>2. job[s].event \in Event /\ eventStatus[job[s].event] = "ABSENT"
    BY <1>1, <2>1, EventJobTyped DEF EventOps, DecisionHolds
  <2>3. StatusGuarded(s)
    BY <1>1, <1>13, <2>2 DEF CreateCommit, StatusGuarded
  <2> QED
    BY <1>7, <1>13, <2>3 DEF CreateCommit
<1>14. CASE CancelTokenRejected(s) \/ CancelCommit(s)
  <2>1. job[s].op \in Notifying /\ eventStatus' = [eventStatus EXCEPT ![job[s].event] = "CANCELLED"]
        /\ UNCHANGED <<participation, blocks>>
    BY <1>14 DEF CancelTokenRejected, CancelCommit, At, Notifying
  <2>2. job[s].event \in Event /\ eventStatus[job[s].event] # "ABSENT"
    BY <1>1, <2>1, EventJobTyped DEF EventOps, Notifying, DecisionHolds
  <2>3. Available(eventLock[job[s].event], s)
    BY <1>1, <1>14, <2>2 DEF CancelTokenRejected, CancelCommit, KeepsLocks, Available
  <2>4. StatusGuarded(s)
    BY <1>1, <2>1, <2>2, <2>3 DEF StatusGuarded
  <2> QED
    BY <1>7, <2>1, <2>4
<1>15. CASE NoticesCommit(s)
  <2>1. UNCHANGED <<eventStatus, participation, blocks>>
    BY <1>15 DEF NoticesCommit, RescheduleTokenRejected, RescheduleCommit
  <2> QED
    BY <1>6, <1>7, <2>1
<1> QED
  BY <1>2, <1>9, <1>10, <1>11, <1>12, <1>13, <1>14, <1>15, OnlyCommitsShow

(* A session gets a new job only from a request.                           *)
LEMMA JobsComeFromRequests ==
  ASSUME TypeOK, NEW s \in Session, Steps(s)
  PROVE  \/ job'[s].op = job[s].op /\ job'[s].event = job[s].event
         \/ job'[s] = NoJob
         \/ Request(s) /\ job'[s].op \in Operations
<1> DEFINE Same == job'[s].op = job[s].op /\ job'[s].event = job[s].event
           Known == \/ Same
                    \/ job'[s] = NoJob
                    \/ Request(s) /\ job'[s].op \in Operations
<1>1. SessionsTyped
  BY DEF TypeOK
<1>2. EndRequest(s) => Known
  BY <1>1 DEF EndRequest, SessionsTyped
<1>3. \A j, step : Begin(s, j, step) => job'[s].op \in Operations
  BY <1>1 DEF Begin, SessionsTyped
<1>4. Request(s) => Known
  BY <1>3 DEF Request, RequestJoin, RequestAccept, RequestLeave, RequestCancel, RequestReschedule,
     RequestAnswer, RequestBlock, RequestUnblock, RequestDelete, RequestCreate
<1>5. ASSUME NEW u \in User, NotifyNext(s, u) PROVE Known
  <2>1. job[s] \in EventJob /\ job[s].op \in Notifying
    BY <1>1, <1>5, EventJobTyped DEF NotifyNext, EventOps, Notifying
  <2> QED
    BY <1>1, <1>5, <2>1 DEF NotifyNext, SessionsTyped, EventJob
<1>6. ASSUME JoinDecide(s) PROVE Known
  <2>1. job[s] \in EventJob /\ job[s].op = "join"
    BY <1>1, <1>6, EventJobTyped DEF JoinDecide, At, EventOps
  <2>2. ASSUME Abort(s) PROVE Known
    BY <1>2, <2>2 DEF Abort
  <2>3. ASSUME ~Abort(s) PROVE Known
    BY <1>1, <1>6, <2>1, <2>3 DEF JoinDecide, SessionsTyped, EventJob
  <2> QED
    BY <2>2, <2>3
<1>7. ASSUME \/ JoinLockEvent(s) \/ JoinCheckPair(s) \/ JoinCommit(s)
             \/ AcceptLockEvent(s) \/ AcceptCheckPair(s) \/ AcceptDecide(s) \/ AcceptCommit(s)
             \/ AnswerLockEvent(s) \/ AnswerCheckPair(s) \/ AnswerDecide(s) \/ AnswerCommit(s)
             \/ LeaveLockEvent(s) \/ LeaveDecide(s) \/ LeaveCommit(s)
      PROVE  Known
  BY <1>2, <1>7
  DEF JoinLockEvent, JoinCheckPair, JoinCommit, AcceptLockEvent, AcceptCheckPair,
      AcceptDecide, AcceptCommit, AnswerLockEvent, AnswerCheckPair, AnswerDecide,
      AnswerCommit, LeaveLockEvent, LeaveDecide, LeaveCommit, Proceed, Abort
<1>8. ASSUME \/ BlockLockPair(s) \/ BlockCommit(s) \/ UnblockCommit(s)
             \/ DeleteScan(s) \/ DeleteCommit(s) \/ CreateCommit(s)
             \/ NotifyCheckPair(s) \/ CancelFlush(s) \/ CancelPushed(s)
             \/ CancelTokenRejected(s) \/ CancelCommit(s)
             \/ RescheduleFlush(s) \/ RescheduleTokenRejected(s) \/ RescheduleCommit(s)
      PROVE  Known
  BY <1>2, <1>8
  DEF BlockLockPair, BlockCommit, UnblockCommit, DeleteScan, DeleteCommit, CreateCommit,
      NotifyCheckPair, CancelFlush, CancelPushed, CancelTokenRejected, CancelCommit,
      RescheduleFlush, RescheduleTokenRejected, RescheduleCommit, Proceed
<1>9. ASSUME DeadlockVictim(s) \/ Crash(s) PROVE Known
  BY <1>2, <1>9 DEF DeadlockVictim, Crash, Abort
<1> QED
  BY <1>4, <1>5, <1>6, <1>7, <1>8, <1>9 DEF Steps, Statement

(* Only one session at a time is about to create an event.                 *)
LEMMA CreatedOnceKept ==
  ASSUME TypeOK, CreatedOnce, NEW s \in Session, Steps(s)
  PROVE  CreatedOnce'
<1> DEFINE Alone == \A t \in Session : ~(job[t].op = "create" /\ job[t].event = job'[s].event)
<1>1. \A t \in Session : t # s => job'[t] = job[t]
  BY OthersKeepLocks
<1>2. ASSUME Request(s), job'[s].op = "create" PROVE Alone
  <2>1. \A j, step : Begin(s, j, step) => job'[s] = j
    BY DEF TypeOK, SessionsTyped, Begin
  <2>2. \A j, step : Begin(s, j, step) => j.op = "create"
    BY <1>2, <2>1
  <2>3. ASSUME NEW u \in User, NEW e \in Event
        PROVE  /\ ~RequestJoin(s, u, e) /\ ~RequestAccept(s, u, e)
               /\ ~RequestLeave(s, u, e) /\ ~RequestCancel(s, u, e)
               /\ ~RequestReschedule(s, u, e)
               /\ \A v \in User, g \in AnswerGoal : ~RequestAnswer(s, u, e, v, g)
    BY <2>2 DEF RequestJoin, RequestAccept, RequestLeave, RequestCancel, RequestReschedule,
       RequestAnswer, MakeJob
  <2>4. ASSUME NEW a \in User, NEW b \in User
        PROVE  ~RequestBlock(s, a, b) /\ ~RequestUnblock(s, a, b) /\ ~RequestDelete(s, a)
    BY <2>2 DEF RequestBlock, RequestUnblock, RequestDelete, MakeJob
  <2>5. PICK e \in Event : RequestCreate(s, e)
    BY <1>2, <2>3, <2>4 DEF Request
  <2> QED
    BY <2>1, <2>5 DEF RequestCreate, MakeJob
<1>3. job'[s].op = "create" =>
        Alone \/ (job[s].op = "create" /\ job[s].event = job'[s].event)
  BY <1>2, JobsComeFromRequests DEF NoJob, MakeJob
<1> QED
  BY <1>1, <1>3 DEF CreatedOnce

(* A step of one session takes nothing from what another counts on.        *)
LEMMA OthersStayKept ==
  ASSUME TransactionInv, NEW s \in Session, Steps(s), NEW t \in Session, t # s
  PROVE  SessionInv(t)'
<1> DEFINE e == job[t].event
           u == job[t].user
<1>1. /\ TypeOK /\ SessionsTyped /\ LocksTyped /\ t # None /\ None \notin Session
      /\ HoldsInOrder(t) /\ KeepsLocks(t) /\ DecisionHolds(t)
      /\ draft[t] \subseteq Notice
  BY ParticipationAssumption
  DEF TransactionInv, TypeOK, SessionInv, SessionsTyped, ParticipationAssumption
<1>2. /\ pc'[t] = pc[t] /\ job'[t] = job[t] /\ draft'[t] = draft[t]
      /\ \A f \in Event : eventLock'[f] = t <=> eventLock[f] = t
      /\ \A p \in Pair : pairLock'[p] = t <=> pairLock[p] = t
      /\ \A f \in Event, v \in User : rowLock'[f][v] = t <=> rowLock[f][v] = t
  BY <1>1, OthersKeepLocks
<1>3. ParticipationGuarded(s) /\ StatusGuarded(s) /\ BlocksGuarded(s)
  BY <1>1, RowsAreGuarded DEF TransactionInv
<1>4. HoldsInOrder(t)'
  BY <1>1, <1>2 DEF HoldsInOrder, HoldsEvent, HoldsThePair, HoldsTheRow, PairWanted, PairOf
<1>5. ASSUME NEW f \in Event, NEW v \in User, Secured(t, f, v)
      PROVE  Secured(t, f, v)'
  <2>1. PairOf(f, v) \in Pair /\ Organizer[f] \in User
    BY ParticipationAssumption DEF PairOf, Pair, ParticipationAssumption
  <2>2. pairLock[PairOf(f, v)] # s
    BY <1>5 DEF Secured
  <2>3. ~BlockedBetween(Organizer[f], v)'
    BY <1>3, <1>5, <2>1, <2>2 DEF BlocksGuarded, Secured, PairOf
  <2> QED
    BY <1>2, <1>5, <2>1, <2>3 DEF Secured, PairOf, BlockedBetween
<1>6. job[t].op \in EventOps => e \in Event /\ u \in User
  BY <1>1, EventJobTyped
<1>7. job[t].op = "block" => {job[t].actor, u} \in Pair
  BY <1>1, AccountJobTyped DEF AccountOps, Pair
<1>8. KeepsLocks(t)'
  <2>1. ASSUME job[t].op \in EventOps, Secured(t, e, u) PROVE Secured(t, job[t].event, job[t].user)'
    BY <1>2, <1>5, <1>6, <2>1 DEF Secured, PairOf, BlockedBetween
  <2>2. /\ job[t].op \in Granting /\ pc[t] \in {"pair", "row", "write"} => eventLock'[e] = t
        /\ job[t].op = "leave" /\ pc[t] \in {"row", "write"} => eventLock'[e] = t
        /\ At(t, "cancel", "push") => eventLock'[e] = t
        /\ At(t, "block", "write") => pairLock'[{job[t].actor, job[t].user}] = t
        /\ job[t].op \in {"answer", "leave"} /\ pc[t] = "write" => rowLock'[e][u] = t
    BY <1>1, <1>2, <1>6, <1>7 DEF KeepsLocks, At, Granting, EventOps
  <2>3. /\ job[t].op \in Granting /\ pc[t] \in {"row", "write"} =>
             Secured(t, job[t].event, job[t].user)'
        /\ job[t].op \in Notifying /\ pc[t] = "flush" =>
             Secured(t, job[t].event, job[t].user)'
    BY <1>1, <2>1 DEF KeepsLocks, Granting, Notifying, EventOps
  <2>4. (\A n \in draft[t] : n.type \in Announcements /\ Secured(t, n.event, n.user))'
    <3>1. ASSUME NEW n \in draft[t]
          PROVE  n.type \in Announcements /\ Secured(t, n.event, n.user)'
      BY <1>1, <1>5, <3>1 DEF KeepsLocks, Notice
    <3> QED
      BY <1>2, <3>1 DEF Secured, PairOf, BlockedBetween
  <2> QED
    BY <1>2, <2>2, <2>3, <2>4 DEF KeepsLocks, At
<1>9. ASSUME job[t].op \in Granting \cup {"leave"},
             pc[t] \in IF job[t].op = "leave" THEN {"write"} ELSE {"pair", "row", "write"}
      PROVE  /\ eventLock[e] = t /\ e \in Event /\ u \in User
             /\ eventStatus[e] = "PUBLISHED" => eventStatus'[e] = "PUBLISHED"
             /\ HasSeat(e) => HasSeat(e)'
             /\ participation[e][u] \in Reenterable \/ rowLock[e][u] = t =>
                  participation'[e][u] = participation[e][u]
  <2>1. eventLock[e] = t /\ e \in Event /\ u \in User
    BY <1>1, <1>6, <1>9 DEF KeepsLocks, Granting, EventOps
  <2>2. eventStatus[e] = "PUBLISHED" => eventStatus'[e] = "PUBLISHED"
    BY <1>1, <1>3, <2>1 DEF StatusGuarded, Available
  <2>3. ~Grants(s, e)
    <3>1. KeepsLocks(s)
      BY DEF TransactionInv, SessionInv
    <3> QED
      BY <2>1, <3>1 DEF Grants, KeepsLocks
  <2>4. HasSeat(e) => HasSeat(e)'
    <3>1. PICK f \in Event : f = e
      BY <2>1
    <3>2. capacity' = capacity /\ Confirmed(f)' \subseteq Confirmed(f)
      BY <1>1, <2>3, <3>1, OnlyGrantsConfirm DEF Steps
    <3>3. HasSeat(f) => HasSeat(f)'
      BY <1>1, <3>2, FewerKeepSeat
    <3>4. HasSeat(e)' <=> HasSeat(f)'
      BY <1>2, <3>1 DEF HasSeat, Confirmed
    <3> QED
      BY <3>1, <3>3, <3>4
  <2>5. participation[e][u] \in Reenterable \/ rowLock[e][u] = t =>
          participation'[e][u] = participation[e][u]
    BY <1>1, <1>3, <2>1 DEF ParticipationGuarded, Available, Active, Reenterable
  <2> QED
    BY <2>1, <2>2, <2>4, <2>5
<1>10. DecisionHolds(t)'
  <2>1. HasSeat(job[t].event)' <=> HasSeat(e)'
    BY <1>2 DEF HasSeat, Confirmed
  <2>2. job[t].op \in Notifying => eventStatus'[e] # "ABSENT"
    BY <1>1, <1>3, <1>6 DEF StatusGuarded, DecisionHolds, EventOps, Notifying
  <2>3. job[t].op = "create" => eventStatus'[e] = "ABSENT"
    <3>1. ASSUME job[t].op = "create" PROVE ~(CreateCommit(s) /\ e = job[s].event)
      BY <3>1 DEF TransactionInv, CreatedOnce, CreateCommit, At
    <3> QED
      BY <1>1, <1>3, <1>6, <3>1 DEF StatusGuarded, DecisionHolds, EventOps
  <2>4. /\ job[t].op = "join" /\ pc[t] \in {"row", "write"} => eventStatus'[e] = "PUBLISHED"
        /\ job[t].op = "accept" /\ pc[t] \in {"pair", "row", "write"} => eventStatus'[e] = "PUBLISHED"
    BY <1>1, <1>9 DEF DecisionHolds, Granting
  <2>5. job[t].op \in {"join", "accept"} /\ pc[t] = "write" =>
          participation'[e][u] \in Reenterable /\ HasSeat(e)'
    BY <1>1, <1>9 DEF DecisionHolds, Granting
  <2>6. At(t, "answer", "write") =>
          /\ <<participation'[e][u], job[t].goal>> \in ValidTransitions
          /\ job[t].goal = "CONFIRMED" => HasSeat(e)'
    BY <1>1, <1>9 DEF DecisionHolds, Granting, KeepsLocks, At
  <2>7. At(t, "leave", "write") => participation'[e][u] \in Active
    <3>1. ASSUME At(t, "leave", "write")
          PROVE  rowLock[e][u] = t /\ participation[e][u] \in Active
      BY <1>1, <3>1 DEF DecisionHolds, KeepsLocks, At
    <3> QED
      BY <1>9, <3>1 DEF At
  <2> QED
    BY <1>1, <1>2, <2>1, <2>2, <2>3, <2>4, <2>5, <2>6, <2>7 DEF DecisionHolds, At
<1> QED
  BY <1>4, <1>8, <1>10 DEF SessionInv

LEMMA TransactionInvInit == Init => TransactionInv
<1> SUFFICES ASSUME Init PROVE TransactionInv
  OBVIOUS
<1>1. TypeOK
  BY InitTyped
<1>2. ASSUME NEW s \in Session PROVE SessionInv(s)
  <2>1. /\ pc[s] = "idle" /\ job[s] = NoJob /\ draft[s] = {} /\ job[s].op = "none" /\ s # None
        /\ \A e \in Event : eventLock[e] = None
        /\ \A p \in Pair : pairLock[p] = None
        /\ \A e \in Event, u \in User : rowLock[e][u] = None
    BY ParticipationAssumption DEF Init, NoJob, MakeJob, ParticipationAssumption
  <2> QED
    BY <2>1 DEF SessionInv, HoldsInOrder, KeepsLocks, DecisionHolds, At, Granting, Notifying
<1>3. CreatedOnce
  BY DEF Init, CreatedOnce, NoJob, MakeJob
<1> QED
  BY <1>1, <1>2, <1>3 DEF TransactionInv

LEMMA TransactionInvInductive == TransactionInv /\ [Next]_vars => TransactionInv'
<1> SUFFICES ASSUME TransactionInv, [Next]_vars PROVE TransactionInv'
  OBVIOUS
<1>1. TypeOK'
  BY NextKeepsType DEF TransactionInv
<1>2. ASSUME NEW s \in Session, Steps(s) PROVE TransactionInv'
  <2>1. SessionInv(s)'
    BY <1>2, OwnStepKeeps DEF TransactionInv
  <2>2. \A t \in Session : t # s => SessionInv(t)'
    BY <1>2, OthersStayKept
  <2>3. CreatedOnce'
    BY <1>2, CreatedOnceKept DEF TransactionInv
  <2> QED
    BY <1>1, <2>1, <2>2, <2>3 DEF TransactionInv
<1>3. ASSUME UNCHANGED <<capacity, eventStatus, participation, blocks, locks, pc, job, draft>>
      PROVE  TransactionInv'
  <2>1. ASSUME NEW s \in Session PROVE SessionInv(s)'
    <3>1. SessionInv(s)
      BY DEF TransactionInv
    <3>2. HoldsInOrder(s)'
      BY <1>3, <3>1
      DEF SessionInv, HoldsInOrder, HoldsEvent, HoldsThePair, HoldsTheRow, PairWanted, PairOf, locks
    <3>3. KeepsLocks(s)'
      BY <1>3, <3>1 DEF SessionInv, KeepsLocks, Secured, PairOf, BlockedBetween, At, locks
    <3>4. DecisionHolds(s)'
      BY <1>3, <3>1 DEF SessionInv, DecisionHolds, At, HasSeat, Confirmed
    <3> QED
      BY <3>2, <3>3, <3>4 DEF SessionInv
  <2>2. CreatedOnce'
    BY <1>3 DEF TransactionInv, CreatedOnce
  <2> QED
    BY <1>1, <2>1, <2>2 DEF TransactionInv
<1>4. ASSUME NEW e \in Event, CreateInviteLink(e) \/ EventStarts(e) \/ EventEnds(e) \/ EventMoves(e)
      PROVE  UNCHANGED <<capacity, eventStatus, participation, blocks, locks, pc, job, draft>>
  BY <1>4 DEF CreateInviteLink, EventStarts, EventEnds, EventMoves, params, rows, sessionVars
<1>5. UNCHANGED vars =>
        UNCHANGED <<capacity, eventStatus, participation, blocks, locks, pc, job, draft>>
  BY DEF vars, params, rows, sessionVars
<1> QED
  BY <1>2, <1>3, <1>4, <1>5 DEF Next, Steps

(* Every step is a step of one session, or leaves rows, locks and jobs.    *)
LEMMA StepCases ==
  ASSUME [Next]_vars
  PROVE  \/ \E s \in Session : Steps(s)
         \/ /\ UNCHANGED <<capacity, eventStatus, participation, blocks, deleted, inbox>>
            /\ UNCHANGED <<locks, pc, job, recipients, draft>>
<1>1. ASSUME NEW e \in Event, CreateInviteLink(e) \/ EventStarts(e) \/ EventEnds(e) \/ EventMoves(e)
      PROVE  /\ UNCHANGED <<capacity, eventStatus, participation, blocks, deleted, inbox>>
             /\ UNCHANGED <<locks, pc, job, recipients, draft>>
  BY <1>1 DEF CreateInviteLink, EventStarts, EventEnds, EventMoves, params, rows, sessionVars
<1>2. UNCHANGED vars =>
        /\ UNCHANGED <<capacity, eventStatus, participation, blocks, deleted, inbox>>
        /\ UNCHANGED <<locks, pc, job, recipients, draft>>
  BY DEF vars, params, rows, sessionVars
<1> QED
  BY <1>1, <1>2 DEF Next, Steps

-----------------------------------------------------------------------------
(* Lock order and deadlock *)

(* No request but the two that notify all participants asks for an event   *)
(* while it holds a pair or a participant row, nor for a pair while it     *)
(* holds a row: the order block_access.py documents.                       *)
THEOREM LockOrderHolds == Spec => []LockOrderFollowed
<1>1. TransactionInv => LockOrderFollowed
  <2> SUFFICES ASSUME TransactionInv, NEW s \in Session, job[s].op \notin Notifying
               PROVE  /\ WaitsForEvent(s) => ~HoldsPair(s) /\ ~HoldsRow(s)
                      /\ pc[s] = "pair" => ~HoldsRow(s)
    BY DEF LockOrderFollowed
  <2>1. HoldsInOrder(s)
    BY DEF TransactionInv, SessionInv
  <2> QED
    BY <2>1
    DEF HoldsInOrder, HoldsThePair, HoldsTheRow, WaitsForEvent, At, HoldsPair, HoldsRow,
        Notifying
<1> QED
  BY <1>1, TransactionInvInit, TransactionInvInductive, PTL DEF Spec

(* Whoever holds a row waits for nothing, whoever holds a pair waits for   *)
(* rows at most, and whoever holds an event for pairs and rows at most.    *)
LEMMA HoldersWaitFurtherOn ==
  ASSUME TransactionInv, NEW t \in Session, job[t].op \notin Notifying
  PROVE  /\ HoldsRow(t) => ~WaitsForEvent(t) /\ pc[t] # "pair" /\ RowsWanted(t) = {}
         /\ HoldsPair(t) => ~WaitsForEvent(t) /\ pc[t] # "pair"
         /\ (\E e \in Event : eventLock[e] = t) => ~WaitsForEvent(t)
<1>1. HoldsInOrder(t)
  BY DEF TransactionInv, SessionInv
<1>2. HoldsRow(t) => pc[t] = "write" /\ job[t].op \in {"join", "answer", "leave"}
  BY <1>1 DEF HoldsInOrder, HoldsTheRow, HoldsRow
<1>3. pc[t] = "write" /\ job[t].op \in {"join", "answer", "leave"} => RowsWanted(t) = {}
  BY DEF RowsWanted, At
<1> QED
  BY <1>1, <1>2, <1>3
  DEF HoldsInOrder, HoldsEvent, HoldsThePair, HoldsPair, WaitsForEvent, At, Notifying

LEMMA LocksKeepOrderOut == TransactionInv => OnlyNoticesDeadlock
<1> SUFFICES ASSUME TransactionInv, NEW cycle \in SUBSET Session, Deadlocked(cycle),
                    \A s \in cycle : job[s].op \notin Notifying
             PROVE  FALSE
  BY DEF OnlyNoticesDeadlock
<1>1. ASSUME NEW s \in cycle
      PROVE  \E t \in cycle :
               \/ WaitsForEvent(s) /\ eventLock[job[s].event] = t
               \/ pc[s] = "pair" /\ pairLock[PairWanted(s)] = t
               \/ \E r \in RowsWanted(s) : rowLock[r[1]][r[2]] = t
  BY <1>1 DEF Deadlocked, WaitsFor, WaitsForShare, Shares, Notifying
<1>2. ASSUME NEW s \in cycle
      PROVE  /\ WaitsForEvent(s) => job[s].event \in Event
             /\ pc[s] = "pair" => PairWanted(s) \in Pair
             /\ RowsWanted(s) \subseteq Event \X User
  <2>1. SessionsTyped /\ HoldsInOrder(s) /\ job[s].op \notin Notifying
    BY DEF TransactionInv, TypeOK, SessionInv
  <2>2. /\ pc[s] # "idle" => job[s].op \in EventOps \cup AccountOps
        /\ pc[s] \in {"event", "row"} => job[s].op \in EventOps
    BY <2>1 DEF HoldsInOrder, SessionsTyped, Job, NoJob, MakeJob, EventJob, AnswerJob, AccountJob,
       Granting, EventOps
  <2>3. job[s].op \in EventOps =>
          job[s].event \in Event /\ job[s].user \in User /\ Organizer[job[s].event] \in User
    BY <2>1, EventJobTyped, ParticipationAssumption DEF ParticipationAssumption
  <2>4. job[s].op \in AccountOps => job[s].actor \in User /\ job[s].user \in User
    BY <2>1, AccountJobTyped
  <2>5. WaitsForEvent(s) => job[s].event \in Event
    BY <2>1, <2>2, <2>3 DEF WaitsForEvent, At, Notifying
  <2>6. pc[s] = "pair" => PairWanted(s) \in Pair
    BY <2>2, <2>3, <2>4 DEF PairWanted, PairOf, Pair
  <2>7. RowsWanted(s) \subseteq Event \X User
    BY <2>1, <2>2, <2>3, <2>4 DEF RowsWanted, RowsBetween, Doomed, RowsOf, At, EventOps, AccountOps
  <2> QED
    BY <2>5, <2>6, <2>7
<1>3. ASSUME NEW s \in cycle
      PROVE  \E t \in cycle :
               \/ WaitsForEvent(s) /\ \E e \in Event : eventLock[e] = t
               \/ pc[s] = "pair" /\ HoldsPair(t)
               \/ RowsWanted(s) # {} /\ HoldsRow(t)
  <2>1. PICK t \in cycle :
          \/ WaitsForEvent(s) /\ eventLock[job[s].event] = t
          \/ pc[s] = "pair" /\ pairLock[PairWanted(s)] = t
          \/ \E r \in RowsWanted(s) : rowLock[r[1]][r[2]] = t
    BY <1>1
  <2>2. CASE \E r \in RowsWanted(s) : rowLock[r[1]][r[2]] = t
    <3>1. HoldsRow(t) /\ RowsWanted(s) # {}
      BY <1>2, <2>2 DEF HoldsRow
    <3> QED
      BY <3>1
  <2>3. CASE pc[s] = "pair" /\ pairLock[PairWanted(s)] = t
    <3>1. HoldsPair(t)
      BY <1>2, <2>3 DEF HoldsPair
    <3> QED
      BY <2>3, <3>1
  <2>4. CASE WaitsForEvent(s) /\ eventLock[job[s].event] = t
    BY <1>2, <2>4
  <2> QED
    BY <2>1, <2>2, <2>3, <2>4
<1>4. \A s \in cycle : WaitsForEvent(s) \/ pc[s] = "pair"
  <2>1. ASSUME NEW t \in cycle PROVE ~HoldsRow(t)
    BY <1>3, <2>1, HoldersWaitFurtherOn
  <2> QED
    BY <1>3, <2>1
<1>5. \A s \in cycle : WaitsForEvent(s)
  <2>1. ASSUME NEW t \in cycle PROVE ~HoldsPair(t)
    BY <1>4, <2>1, HoldersWaitFurtherOn
  <2>2. ASSUME NEW t \in cycle PROVE ~HoldsRow(t)
    BY <1>3, <2>2, HoldersWaitFurtherOn
  <2> QED
    BY <1>3, <2>1, <2>2
<1>6. \A t \in cycle : ~HoldsRow(t) /\ ~HoldsPair(t) /\ ~\E e \in Event : eventLock[e] = t
  BY <1>5, HoldersWaitFurtherOn
<1>7. cycle = {}
  BY <1>3, <1>6
<1> QED
  BY <1>7 DEF Deadlocked

(* Every cycle of waits, for the locks of these requests, has a            *)
(* cancellation or the notices of a rescheduled event in it: the requests  *)
(* that follow the documented order never wait for each other in a circle. *)
THEOREM DeadlockNeedsNotices == Spec => []OnlyNoticesDeadlock
  BY LocksKeepOrderOut, TransactionInvInit, TransactionInvInductive, PTL DEF Spec

(* Without cancellations and rescheduled events the requests of this       *)
(* module, whichever run, never wait in a circle for its locks             *)
(* (block_access.py:39-41).                                                *)
THEOREM NoDeadlockWithoutNotices ==
  ASSUME Operations \cap Notifying = {}
  PROVE  Spec => []NoWaitCycle
<1> DEFINE NoNotices == \A s \in Session : job[s].op \notin Notifying
<1>1. Init => NoNotices
  BY DEF Init, NoJob, MakeJob, Notifying
<1>2. ASSUME TransactionInv, NoNotices, [Next]_vars PROVE NoNotices'
  <2>1. ASSUME NEW s \in Session, Steps(s) PROVE NoNotices'
    <3>1. TypeOK
      BY <1>2 DEF TransactionInv
    <3>2. job'[s].op \notin Notifying
      BY <1>2, <2>1, <3>1, JobsComeFromRequests DEF NoJob, MakeJob, Notifying
    <3>3. \A t \in Session : t # s => job'[t] = job[t]
      BY <2>1, <3>1, OthersKeepLocks
    <3> QED
      BY <1>2, <3>2, <3>3
  <2> QED
    BY <1>2, <2>1, StepCases
<1>3. TransactionInv /\ NoNotices => NoWaitCycle
  BY LocksKeepOrderOut DEF OnlyNoticesDeadlock, NoWaitCycle, Deadlocked
<1> QED
  BY <1>1, <1>2, <1>3, TransactionInvInit, TransactionInvInductive, PTL DEF Spec

-----------------------------------------------------------------------------
(* What a commit finds *)

(* A commit about one participant finds the row, the event and the block   *)
(* list as its decision did.                                               *)
LEMMA CommitFinds ==
  ASSUME TypeOK, NEW s \in Session, SessionInv(s), RowCommit(s)
  PROVE  LET e == job[s].event
             u == job[s].user
             g == job[s].goal
         IN
         /\ e \in Event /\ u \in User
         /\ UNCHANGED <<capacity, eventStatus, blocks, deleted>>
         /\ \A f \in Event, v \in User :
              f # e \/ v # u => participation'[f][v] = participation[f][v]
         /\ JoinCommit(s) => /\ g \in Active /\ Organizer[e] # u
                             /\ participation'[e][u] = g
         /\ AcceptCommit(s) => participation'[e][u] = "CONFIRMED"
         /\ AnswerCommit(s) => /\ <<participation[e][u], g>> \in ValidTransitions
                               /\ g = "CONFIRMED" => HasSeat(e)
                               /\ participation'[e][u] = g
         /\ LeaveCommit(s) => /\ participation[e][u] \in Active
                              /\ participation'[e][u] = "CANCELLED"
         /\ JoinCommit(s) \/ AcceptCommit(s) =>
              /\ eventStatus[e] = "PUBLISHED" /\ HasSeat(e)
              /\ participation[e][u] \in Reenterable
         /\ ~LeaveCommit(s) => ~BlockedBetween(Organizer[e], u)
<1> DEFINE e == job[s].event
           u == job[s].user
<1>0. participation \in [Event -> [User -> Status]]
  BY DEF TypeOK, RowsTyped
<1>1. /\ job[s].op \in {"join", "accept", "answer", "leave"} /\ pc[s] = "write"
      /\ UNCHANGED <<capacity, eventStatus, blocks, deleted>>
      /\ JoinCommit(s) => job[s].op = "join"
      /\ AcceptCommit(s) => job[s].op = "accept"
      /\ AnswerCommit(s) => job[s].op = "answer"
      /\ job[s].op = "leave" => LeaveCommit(s)
      /\ LeaveCommit(s) => job[s].op = "leave"
  BY DEF RowCommit, JoinCommit, AcceptCommit, AnswerCommit, LeaveCommit, At, params
<1>2. e \in Event /\ u \in User /\ KeepsLocks(s) /\ DecisionHolds(s)
  BY <1>1, EventJobFacts DEF EventOps
<1>3. ~LeaveCommit(s) => ~BlockedBetween(Organizer[e], u)
  BY <1>1, <1>2 DEF KeepsLocks, Secured, Granting
<1>4. \A f \in Event, v \in User :
         f # e \/ v # u => participation'[f][v] = participation[f][v]
  <2>1. PICK g : participation' = [participation EXCEPT ![e][u] = g]
    BY DEF RowCommit, JoinCommit, AcceptCommit, AnswerCommit, LeaveCommit
  <2> QED
    BY <1>0, <1>2, <2>1
<1>5. JoinCommit(s) => /\ job[s].goal \in Active /\ Organizer[e] # u
                       /\ participation'[e][u] = job[s].goal
  BY <1>1, <1>2, <1>0 DEF JoinCommit, DecisionHolds, At
<1>6. AcceptCommit(s) => participation'[e][u] = "CONFIRMED"
  BY <1>0, <1>2 DEF AcceptCommit
<1>7. AnswerCommit(s) => /\ <<participation[e][u], job[s].goal>> \in ValidTransitions
                         /\ job[s].goal = "CONFIRMED" => HasSeat(e)
                         /\ participation'[e][u] = job[s].goal
  BY <1>0, <1>2 DEF AnswerCommit, DecisionHolds
<1>8. LeaveCommit(s) => /\ participation[e][u] \in Active
                        /\ participation'[e][u] = "CANCELLED"
  BY <1>0, <1>2 DEF LeaveCommit, DecisionHolds
<1>9. JoinCommit(s) \/ AcceptCommit(s) =>
        /\ eventStatus[e] = "PUBLISHED" /\ HasSeat(e)
        /\ participation[e][u] \in Reenterable
  BY <1>1, <1>2 DEF DecisionHolds
<1> QED
  BY <1>1, <1>2, <1>3, <1>4, <1>5, <1>6, <1>7, <1>8, <1>9

(* A rejection and a removal are final.                                    *)
THEOREM FinalAnswers == Spec => AnswersAreFinal
<1> DEFINE Final == \A e \in Event, u \in User :
             participation[e][u] \in {"REJECTED", "REMOVED"} =>
               participation'[e][u] = participation[e][u]
<1>1. ASSUME TransactionInv, [Next]_vars PROVE Final
  <2>1. ASSUME NEW s \in Session, Steps(s), NEW e \in Event, NEW u \in User,
               participation[e][u] \in {"REJECTED", "REMOVED"}
        PROVE  participation'[e][u] = participation[e][u]
    <3>1. TypeOK /\ SessionInv(s)
      BY <1>1 DEF TransactionInv
    <3>2. ~(RowCommit(s) /\ e = job[s].event /\ u = job[s].user)
      BY <2>1, <3>1, CommitFinds DEF ValidTransitions, Reenterable, Active, RowCommit
    <3> QED
      BY <2>1, <3>1, <3>2, RowsAreGuarded DEF ParticipationGuarded, Active
  <2> QED
    BY <1>1, <2>1, StepCases
<1> QED
  BY <1>1, TransactionInvInit, TransactionInvInductive, PTL DEF Spec, AnswersAreFinal

(* No row that may enter, missing or left, becomes active in an event that *)
(* is cancelled.  An open request may still be answered there.             *)
THEOREM CancelledEventsClosed == Spec => NobodyEntersCancelledEvent
<1> DEFINE Closed == \A e \in Event, u \in User :
             eventStatus[e] = "CANCELLED" /\ participation[e][u] \in Reenterable =>
               participation'[e][u] \in Reenterable
<1>1. ASSUME TransactionInv, [Next]_vars PROVE Closed
  <2>1. ASSUME NEW s \in Session, Steps(s), NEW e \in Event, NEW u \in User,
               eventStatus[e] = "CANCELLED", participation[e][u] \in Reenterable
        PROVE  participation'[e][u] \in Reenterable
    <3>1. TypeOK /\ SessionInv(s)
      BY <1>1 DEF TransactionInv
    <3>2. ~(RowCommit(s) /\ e = job[s].event /\ u = job[s].user)
      BY <2>1, <3>1, CommitFinds DEF ValidTransitions, Reenterable, Active, RowCommit
    <3> QED
      BY <2>1, <3>1, <3>2, RowsAreGuarded
      DEF ParticipationGuarded, Active, Reenterable
  <2> QED
    BY <1>1, <2>1, StepCases
<1> QED
  BY <1>1, TransactionInvInit, TransactionInvInductive, PTL DEF Spec, NobodyEntersCancelledEvent

-----------------------------------------------------------------------------
(* Blocks, notices and open requests *)

(* While a block exists between an organizer and a user, neither a seat or *)
(* request nor a notice survives between them: every commit that adds one  *)
(* holds the pair a block would need.                                      *)
THEOREM BlocksSeparate == Spec => []BlockSeparates
<1>1. Init => BlockSeparates
  BY DEF Init, BlockSeparates, BlockedBetween
<1>2. ASSUME TransactionInv, BlockSeparates, NEW s \in Session, Steps(s)
      PROVE  BlockSeparates'
  <2> SUFFICES ASSUME NEW f \in Event, NEW v \in User, BlockedBetween(Organizer[f], v)'
               PROVE  /\ participation'[f][v] \notin Active
                      /\ \A n \in inbox' : ~(n.event = f /\ n.user = v)
    BY DEF BlockSeparates
  <2> DEFINE e == job[s].event
             u == job[s].user
  <2>1. /\ TypeOK /\ SessionInv(s) /\ KeepsLocks(s)
        /\ participation \in [Event -> [User -> Status]]
    BY <1>2 DEF TransactionInv, SessionInv, TypeOK, RowsTyped
  <2>2. BlockedBetween(Organizer[f], v) =>
          participation[f][v] \notin Active /\ \A n \in inbox : ~(n.event = f /\ n.user = v)
    BY <1>2 DEF BlockSeparates
  <2>3. ASSUME UNCHANGED rows PROVE BlockedBetween(Organizer[f], v)
    BY <2>3 DEF rows, BlockedBetween
  <2>4. CASE UNCHANGED rows
    BY <2>2, <2>3, <2>4 DEF rows
  <2>5. CASE RowCommit(s)
    <3>1. BlockedBetween(Organizer[f], v)
      BY <2>1, <2>5, CommitFinds DEF BlockedBetween
    <3>2. participation'[f][v] \notin Active
      <4>1. f # e \/ v # u => participation'[f][v] = participation[f][v]
        BY <2>1, <2>5, CommitFinds
      <4>2. f = e /\ v = u => LeaveCommit(s)
        BY <2>1, <2>5, <3>1, CommitFinds
      <4>3. f = e /\ v = u => participation'[f][v] = "CANCELLED"
        BY <2>1, <4>2 DEF LeaveCommit
      <4> QED
        BY <2>2, <3>1, <4>1, <4>3 DEF Active
    <3>3. \A n \in inbox' : ~(n.event = f /\ n.user = v)
      <4>1. \A type : \A n \in Dispatch(type, e, u) :
               n.event = e /\ n.user = u /\ ~BlockedBetween(Organizer[e], u)
        BY DEF Dispatch, MakeNotice
      <4>2. \A n \in inbox' : n \in inbox \/ \E type : n \in Dispatch(type, e, u)
        BY <2>5 DEF RowCommit, JoinCommit, AcceptCommit, AnswerCommit, LeaveCommit
      <4> QED
        BY <2>2, <3>1, <4>1, <4>2
    <3> QED
      BY <3>2, <3>3
  <2>6. CASE BlockCommit(s)
    <3>1. BlockedBetween(Organizer[f], v) \/ PairOf(f, v) = {job[s].actor, job[s].user}
      BY <2>6 DEF BlockCommit, BlockedBetween, PairOf
    <3>2. participation'[f][v] = IF <<f, v>> \in RowsBetween(job[s].actor, job[s].user)
                                 THEN "CANCELLED" ELSE participation[f][v]
      BY <2>6 DEF BlockCommit, Withdraw
    <3>3. PairOf(f, v) = {job[s].actor, job[s].user} /\ participation[f][v] \in Active =>
            <<f, v>> \in RowsBetween(job[s].actor, job[s].user)
      BY DEF RowsBetween
    <3>4. \A n \in inbox' : n \in inbox /\ PairOf(n.event, n.user) # {job[s].actor, job[s].user}
      BY <2>6 DEF BlockCommit
    <3> QED
      BY <2>2, <3>1, <3>2, <3>3, <3>4 DEF Active
  <2>7. CASE UnblockCommit(s)
    BY <2>2, <2>7 DEF UnblockCommit, BlockedBetween
  <2>8. CASE DeleteCommit(s)
    <3>1. BlockedBetween(Organizer[f], v) /\ inbox' = inbox
      BY <2>8 DEF DeleteCommit, BlockedBetween
    <3>2. participation'[f][v] \in {participation[f][v], "CANCELLED"}
      BY <2>8 DEF DeleteCommit, Withdraw
    <3> QED
      BY <2>2, <3>1, <3>2 DEF Active
  <2>9. CASE CreateCommit(s)
    BY <2>2, <2>9 DEF CreateCommit, BlockedBetween
  <2>10. CASE CancelTokenRejected(s) \/ CancelCommit(s)
    <3>1. /\ BlockedBetween(Organizer[f], v) /\ participation' = participation
          /\ inbox' = inbox \cup draft[s]
      BY <2>10 DEF CancelTokenRejected, CancelCommit, BlockedBetween
    <3>2. \A n \in draft[s] : ~(n.event = f /\ n.user = v)
      BY <2>1, <3>1 DEF KeepsLocks, Secured
    <3> QED
      BY <2>2, <3>1, <3>2
  <2>11. CASE NoticesCommit(s)
    <3>1. /\ BlockedBetween(Organizer[f], v) /\ participation' = participation
          /\ inbox' = inbox \cup draft[s]
      BY <2>11
      DEF NoticesCommit, RescheduleTokenRejected, RescheduleCommit, BlockedBetween
    <3>2. \A n \in draft[s] : ~(n.event = f /\ n.user = v)
      BY <2>1, <3>1 DEF KeepsLocks, Secured
    <3> QED
      BY <2>2, <3>1, <3>2
  <2> QED
    BY <1>2, <2>4, <2>5, <2>6, <2>7, <2>8, <2>9, <2>10, <2>11, OnlyCommitsShow
<1>3. ASSUME TransactionInv, BlockSeparates, [Next]_vars PROVE BlockSeparates'
  <2>1. ASSUME UNCHANGED <<participation, blocks, inbox>> PROVE BlockSeparates'
    BY <1>3, <2>1 DEF BlockSeparates, BlockedBetween
  <2> QED
    BY <1>2, <1>3, <2>1, StepCases
<1> QED
  BY <1>1, <1>3, TransactionInvInit, TransactionInvInductive, PTL DEF Spec

(* The organizer's inbox shows exactly the open requests: each pending row *)
(* has its notice, and a notice without one is about a deleted account.    *)
THEOREM NoticesMatchRequests == Spec => []RequestNoticesMatch
<1>1. Init => RequestNoticesMatch
  BY DEF Init, RequestNoticesMatch
<1>2. ASSUME TransactionInv, RequestNoticesMatch, NEW s \in Session, Steps(s)
      PROVE  RequestNoticesMatch'
  <2> SUFFICES ASSUME NEW f \in Event, NEW v \in User
               PROVE  /\ participation'[f][v] = "PENDING" => RequestNotice(f, v) \in inbox'
                      /\ RequestNotice(f, v) \in inbox' =>
                           participation'[f][v] = "PENDING" \/ v \in deleted'
    BY DEF RequestNoticesMatch, RequestNotice, MakeNotice
  <2> DEFINE e == job[s].event
             u == job[s].user
             g == job[s].goal
  <2>1. /\ TypeOK /\ SessionInv(s) /\ KeepsLocks(s)
        /\ participation \in [Event -> [User -> Status]]
    BY <1>2 DEF TransactionInv, SessionInv, TypeOK, RowsTyped
  <2>2. /\ participation[f][v] = "PENDING" => RequestNotice(f, v) \in inbox
        /\ RequestNotice(f, v) \in inbox => participation[f][v] = "PENDING" \/ v \in deleted
    BY <1>2 DEF RequestNoticesMatch
  <2>3. \A h, w : RequestNotice(h, w) = RequestNotice(f, v) => h = f /\ w = v
    BY DEF RequestNotice, MakeNotice
  <2>4. \A type, h, w : RequestNotice(f, v) \in Dispatch(type, h, w) =>
           type = "EVENT_PARTICIPATION_REQUEST" /\ h = f /\ w = v
    BY DEF Dispatch, RequestNotice, MakeNotice
  <2>11. RequestNotice(f, v) \notin draft[s]
    BY <2>1 DEF KeepsLocks, RequestNotice, MakeNotice, Announcements
  <2>5. CASE UNCHANGED rows
    BY <2>2, <2>5 DEF rows
  <2>6. CASE RowCommit(s)
    <3>1. /\ deleted' = deleted /\ e \in Event /\ u \in User
          /\ f # e \/ v # u => participation'[f][v] = participation[f][v]
      BY <2>1, <2>6, CommitFinds
    <3>2. CASE JoinCommit(s)
      <4>1. /\ participation'[e][u] = g /\ participation[e][u] # "PENDING" /\ g \in Active
            /\ ~BlockedBetween(Organizer[e], u) /\ Organizer[e] # u
        <5>1. ~LeaveCommit(s)
          BY <3>2 DEF JoinCommit, LeaveCommit, At
        <5> QED
          BY <2>1, <2>6, <3>2, <5>1, CommitFinds DEF Reenterable
      <4>2. g = "PENDING" => inbox' = inbox \cup Dispatch("EVENT_PARTICIPATION_REQUEST", e, u)
        BY <3>2 DEF JoinCommit
      <4>3. g = "CONFIRMED" => inbox' = inbox \cup Dispatch("EVENT_PARTICIPANT_JOINED", e, u)
        BY <3>2 DEF JoinCommit
      <4>4. Dispatch("EVENT_PARTICIPATION_REQUEST", e, u) = {RequestNotice(e, u)}
        BY <4>1 DEF Dispatch, RequestNotice
      <4> QED
        BY <2>2, <2>3, <2>4, <3>1, <4>1, <4>2, <4>3, <4>4 DEF Active
    <3>3. CASE AcceptCommit(s)
      <4>1. /\ participation'[e][u] = "CONFIRMED" /\ participation[e][u] # "PENDING"
            /\ inbox' = inbox \cup Dispatch("EVENT_PARTICIPANT_JOINED", e, u)
        BY <2>1, <2>6, <3>3, CommitFinds DEF Reenterable, AcceptCommit
      <4> QED
        BY <2>2, <2>4, <3>1, <4>1
    <3>4. CASE AnswerCommit(s)
      <4>1. /\ participation'[e][u] = g /\ <<participation[e][u], g>> \in ValidTransitions
        BY <2>1, <2>6, <3>4, CommitFinds DEF AnswerCommit
      <4>2. /\ g \in {"CONFIRMED", "REJECTED", "REMOVED"}
            /\ g = "REMOVED" <=> participation[e][u] = "CONFIRMED"
            /\ g # "REMOVED" <=> participation[e][u] = "PENDING"
        BY <4>1 DEF ValidTransitions
      <4>3. inbox' = (inbox \ (IF g = "REMOVED" THEN {} ELSE {RequestNotice(e, u)}))
                       \cup Dispatch(AnswerNotice(g), e, u)
        BY <3>4 DEF AnswerCommit
      <4>4. AnswerNotice(g) # "EVENT_PARTICIPATION_REQUEST"
        BY <4>2 DEF AnswerNotice
      <4>5. RequestNotice(f, v) \in inbox' <=>
              RequestNotice(f, v) \in inbox /\ ~(g # "REMOVED" /\ f = e /\ v = u)
        BY <2>3, <2>4, <4>3, <4>4
      <4> QED
        BY <2>2, <3>1, <4>1, <4>2, <4>5
    <3>5. CASE LeaveCommit(s)
      <4>1. participation'[e][u] = "CANCELLED" /\ inbox' = inbox \ {RequestNotice(e, u)}
        BY <2>1, <2>6, <3>5, CommitFinds DEF LeaveCommit
      <4> QED
        BY <2>2, <2>3, <3>1, <4>1
    <3> QED
      BY <2>6, <3>2, <3>3, <3>4, <3>5 DEF RowCommit
  <2>7. CASE BlockCommit(s)
    <3> DEFINE pair == {job[s].actor, job[s].user}
    <3>1. participation'[f][v] = IF <<f, v>> \in RowsBetween(job[s].actor, job[s].user)
                                 THEN "CANCELLED" ELSE participation[f][v]
      BY <2>7 DEF BlockCommit, Withdraw
    <3>2. <<f, v>> \in RowsBetween(job[s].actor, job[s].user) <=>
            PairOf(f, v) = pair /\ participation[f][v] \in Active
      BY DEF RowsBetween
    <3>3. RequestNotice(f, v) \in inbox' <=> RequestNotice(f, v) \in inbox /\ PairOf(f, v) # pair
      BY <2>7 DEF BlockCommit, RequestNotice, MakeNotice
    <3>4. deleted' = deleted
      BY <2>7 DEF BlockCommit
    <3> QED
      BY <2>2, <3>1, <3>2, <3>3, <3>4 DEF Active
  <2>8. CASE DeleteCommit(s)
    <3>1. participation'[f][v] = IF <<f, v>> \in Doomed(s)
                                 THEN "CANCELLED" ELSE participation[f][v]
      BY <2>8 DEF DeleteCommit, Withdraw
    <3>2. <<f, v>> \in Doomed(s) => v = job[s].user
      BY DEF Doomed, RowsOf
    <3>3. inbox' = inbox /\ deleted' = deleted \cup {job[s].user}
      BY <2>8 DEF DeleteCommit
    <3> QED
      BY <2>2, <3>1, <3>2, <3>3
  <2>9. CASE UnblockCommit(s) \/ CreateCommit(s)
    BY <2>2, <2>9 DEF UnblockCommit, CreateCommit
  <2>10. CASE CancelTokenRejected(s) \/ CancelCommit(s)
    <3>1. /\ UNCHANGED <<participation, deleted>>
          /\ inbox' = inbox \cup draft[s]
      BY <2>10 DEF CancelTokenRejected, CancelCommit
    <3> QED
      BY <2>2, <2>11, <3>1
  <2>12. CASE NoticesCommit(s)
    <3>1. /\ UNCHANGED <<participation, deleted>>
          /\ inbox' = inbox \cup draft[s]
      BY <2>12 DEF NoticesCommit, RescheduleTokenRejected, RescheduleCommit
    <3> QED
      BY <2>2, <2>11, <3>1
  <2> QED
    BY <1>2, <2>5, <2>6, <2>7, <2>8, <2>9, <2>10, <2>12, OnlyCommitsShow
<1>3. ASSUME TransactionInv, RequestNoticesMatch, [Next]_vars PROVE RequestNoticesMatch'
  <2>1. ASSUME UNCHANGED <<participation, deleted, inbox>> PROVE RequestNoticesMatch'
    BY <1>3, <2>1 DEF RequestNoticesMatch, RequestNotice, MakeNotice
  <2> QED
    BY <1>2, <1>3, <2>1, StepCases
<1> QED
  BY <1>1, <1>3, TransactionInvInit, TransactionInvInductive, PTL DEF Spec

-----------------------------------------------------------------------------
(* What a deletion leaves behind *)

Enters(t, u)  == job[t].op \in Entering /\ job[t].user = u
Deletes(t, u) == job[t].op = "delete" /\ job[t].user = u

(* A user who asked for a seat and for the deletion at once has raced;     *)
(* for everybody else the rows active when the deletion commits are among  *)
(* those it found, and nobody is about to add one afterwards.              *)
DeletionInv ==
  /\ Racing \subseteq raced
  /\ \A u \in deleted \ raced, t \in Session : ~Enters(t, u)
  /\ \A t \in Session, u \in User :
       Deletes(t, u) /\ pc[t] = "write" /\ u \notin raced => RowsOf(u) \subseteq doomed[t]
  /\ DeletedKeepNothing

(* Only a new request changes what somebody asked for, and the rows a      *)
(* deletion found stay the ones it found.                                  *)
LEMMA DoomedKept ==
  ASSUME TypeOK, NEW s \in Session, Steps(s), ~Request(s)
  PROVE  /\ raced' = raced
         /\ \A t \in Session : t # s =>
              pc'[t] = pc[t] /\ job'[t] = job[t] /\ doomed'[t] = doomed[t]
         /\ \/ job'[s].op \notin Entering \cup {"delete"}
            \/ /\ job'[s].op = job[s].op /\ job'[s].user = job[s].user
               /\ job[s].op = "delete" => DeleteScan(s)
<1> DEFINE Others == \A t \in Session : t # s =>
                       pc'[t] = pc[t] /\ job'[t] = job[t] /\ doomed'[t] = doomed[t]
           Own == \/ job'[s].op \notin Entering \cup {"delete"}
                  \/ /\ job'[s].op = job[s].op /\ job'[s].user = job[s].user
                     /\ job[s].op = "delete" => DeleteScan(s)
           Kept == raced' = raced /\ Others /\ Own
<1>1. /\ SessionsTyped
      /\ \A step : Goto(s, step) => \A t \in Session : t # s => pc'[t] = pc[t]
  BY DEF TypeOK, SessionsTyped, Goto
<1>2. EndRequest(s) => Others /\ Own
  BY <1>1 DEF EndRequest, SessionsTyped, NoJob, MakeJob, Entering
<1>3. Abort(s) => Kept
  BY <1>2 DEF Abort, environment
<1>4. \A step : Proceed(s, step) /\ job[s].op # "delete" => Kept
  BY <1>1 DEF Proceed, environment
<1>5. ASSUME \/ JoinLockEvent(s) \/ JoinCheckPair(s)
             \/ AcceptLockEvent(s) \/ AcceptCheckPair(s) \/ AcceptDecide(s)
             \/ AnswerLockEvent(s) \/ AnswerCheckPair(s) \/ AnswerDecide(s)
             \/ LeaveLockEvent(s) \/ LeaveDecide(s) \/ BlockLockPair(s)
             \/ NotifyCheckPair(s) \/ CancelPushed(s)
      PROVE  Kept
  BY <1>3, <1>4, <1>5
  DEF JoinLockEvent, JoinCheckPair, AcceptLockEvent, AcceptCheckPair, AcceptDecide,
      AnswerLockEvent, AnswerCheckPair, AnswerDecide, LeaveLockEvent, LeaveDecide,
      BlockLockPair, NotifyCheckPair, CancelPushed, At, Notifying
<1>6. ASSUME \/ JoinCommit(s) \/ AcceptCommit(s) \/ AnswerCommit(s) \/ LeaveCommit(s)
             \/ BlockCommit(s) \/ UnblockCommit(s) \/ DeleteCommit(s) \/ CreateCommit(s)
             \/ CancelCommit(s) \/ RescheduleCommit(s)
      PROVE  Kept
  BY <1>2, <1>6
  DEF JoinCommit, AcceptCommit, AnswerCommit, LeaveCommit, BlockCommit, UnblockCommit,
      DeleteCommit, CreateCommit, CancelCommit, RescheduleCommit, environment
<1>7. CASE JoinDecide(s)
  <2>1. job[s] \in EventJob /\ job[s].op = "join"
    BY <1>1, <1>7, EventJobTyped DEF JoinDecide, At, EventOps
  <2>2. CASE ~Abort(s)
    BY <1>1, <1>7, <2>1, <2>2 DEF JoinDecide, SessionsTyped, EventJob, environment
  <2> QED
    BY <1>3, <2>2
<1>8. ASSUME NEW u \in User, NotifyNext(s, u) PROVE Kept
  <2>1. job[s] \in EventJob /\ job[s].op \in Notifying
    BY <1>1, <1>8, EventJobTyped DEF NotifyNext, EventOps, Notifying
  <2>2. job'[s].op \notin Entering \cup {"delete"}
    BY <1>1, <1>8, <2>1 DEF NotifyNext, SessionsTyped, EventJob, Notifying, Entering
  <2> QED
    BY <1>1, <1>8, <2>2 DEF NotifyNext, SessionsTyped, environment
<1>9. CASE CancelFlush(s) \/ CancelTokenRejected(s) \/ RescheduleFlush(s)
           \/ RescheduleTokenRejected(s)
  BY <1>1, <1>9
  DEF CancelFlush, CancelTokenRejected, RescheduleFlush, RescheduleTokenRejected, At,
      environment
<1>10. CASE DeleteScan(s)
  BY <1>1, <1>10 DEF DeleteScan, SessionsTyped, environment
<1>11. CASE DeadlockVictim(s) \/ Crash(s)
  BY <1>3, <1>11 DEF DeadlockVictim, Crash
<1> QED
  BY <1>5, <1>6, <1>7, <1>8, <1>9, <1>10, <1>11 DEF Steps, Statement

(* A request starts before the statement that commits it; a user who is    *)
(* deleted makes none.                                                     *)
Starts(s) ==
  /\ raced' = raced \cup Racing' /\ UNCHANGED <<rows, doomed>>
  /\ \A t \in Session : t # s => pc'[t] = pc[t] /\ job'[t] = job[t]
  /\ job'[s].op \in Entering => job'[s].user \notin deleted
  /\ job'[s].op = "delete" => pc'[s] # "write"

LEMMA BeginStarts ==
  ASSUME TypeOK, NEW s \in Session, NEW j, NEW step, Begin(s, j, step),
         j.op \in Entering => j.user = j.actor, j.op = "delete" => step # "write"
  PROVE  Starts(s)
  BY DEF Starts, Begin, Goto, TypeOK, SessionsTyped

LEMMA RequestsStart ==
  ASSUME TypeOK, NEW s \in Session, Request(s)
  PROVE  Starts(s)
<1> USE DEF MakeJob, Entering
<1>1. ASSUME NEW u \in User, NEW e \in Event,
             RequestJoin(s, u, e) \/ RequestAccept(s, u, e) \/ RequestLeave(s, u, e)
      PROVE  Starts(s)
  BY <1>1, BeginStarts DEF RequestJoin, RequestAccept, RequestLeave
<1>2. ASSUME NEW u \in User, NEW e \in Event,
             RequestCancel(s, u, e) \/ RequestReschedule(s, u, e)
      PROVE  Starts(s)
  BY <1>2, BeginStarts DEF RequestCancel, RequestReschedule
<1>3. ASSUME NEW u \in User, NEW e \in Event, NEW v \in User, NEW g \in AnswerGoal,
             RequestAnswer(s, u, e, v, g)
      PROVE  Starts(s)
  BY <1>3, BeginStarts DEF RequestAnswer
<1>4. ASSUME NEW a \in User, NEW b \in User, RequestBlock(s, a, b) \/ RequestUnblock(s, a, b)
      PROVE  Starts(s)
  BY <1>4, BeginStarts DEF RequestBlock, RequestUnblock
<1>5. ASSUME NEW u \in User, RequestDelete(s, u) PROVE Starts(s)
  BY <1>5, BeginStarts DEF RequestDelete
<1>6. ASSUME NEW e \in Event, RequestCreate(s, e) PROVE Starts(s)
  BY <1>6, BeginStarts DEF RequestCreate
<1> QED
  BY <1>1, <1>2, <1>3, <1>4, <1>5, <1>6 DEF Request

(* A row becomes active only by the commit of a request of its user.       *)
LEMMA OnlyEntriesActivate ==
  ASSUME TypeOK, NEW s \in Session, SessionInv(s), Steps(s), NEW e \in Event, NEW u \in User,
         participation'[e][u] \in Active, participation[e][u] \notin Active
  PROVE  Enters(s, u) /\ deleted' = deleted /\ ~Request(s)
<1>1. RowCommit(s) /\ e = job[s].event /\ u = job[s].user
  BY RowsAreGuarded DEF ParticipationGuarded, Active
<1>2. JoinCommit(s) \/ AcceptCommit(s)
  BY <1>1, CommitFinds DEF RowCommit, ValidTransitions, Active
<1>3. job[s].op \in Entering /\ deleted' = deleted
  BY <1>2 DEF JoinCommit, AcceptCommit, At, Entering
<1>4. ~Request(s)
  BY RequestsStart DEF Starts, rows
<1> QED
  BY <1>1, <1>3, <1>4 DEF Enters

LEMMA DeletionInvInit == Init => DeletionInv
  BY DEF Init, DeletionInv, Racing, Deletes, DeletedKeepNothing, NoJob, MakeJob

LEMMA DeletionStepKeeps ==
  ASSUME TransactionInv, DeletionInv, NEW s \in Session, Steps(s)
  PROVE  DeletionInv'
<1>1. TypeOK /\ SessionInv(s) /\ deleted \subseteq User /\ raced \subseteq User
  BY DEF TransactionInv, TypeOK, RowsTyped, EnvironmentTyped
<1>2. CASE Request(s)
  <2>1. /\ raced' = raced \cup Racing' /\ UNCHANGED <<deleted, participation, doomed>>
        /\ \A t \in Session : t # s => pc'[t] = pc[t] /\ job'[t] = job[t]
        /\ job'[s].op \in Entering => job'[s].user \notin deleted
        /\ job'[s].op = "delete" => pc'[s] # "write"
    BY <1>1, <1>2, RequestsStart DEF Starts, rows
  <2>2. \A u \in deleted' \ raced', t \in Session : ~Enters(t, u)'
    BY <2>1 DEF DeletionInv, Enters
  <2>3. ASSUME NEW t \in Session, NEW u \in User, Deletes(t, u)', pc'[t] = "write",
               u \notin raced'
        PROVE  RowsOf(u)' \subseteq doomed'[t]
    BY <2>1, <2>3 DEF DeletionInv, Deletes, RowsOf
  <2>4. DeletedKeepNothing'
    BY <2>1 DEF DeletionInv, DeletedKeepNothing
  <2> QED
    BY <2>1, <2>2, <2>3, <2>4 DEF DeletionInv
<1>3. CASE ~Request(s)
  <2>1. /\ raced' = raced
        /\ \A t \in Session : t # s =>
             pc'[t] = pc[t] /\ job'[t] = job[t] /\ doomed'[t] = doomed[t]
        /\ \/ job'[s].op \notin Entering \cup {"delete"}
           \/ /\ job'[s].op = job[s].op /\ job'[s].user = job[s].user
              /\ job[s].op = "delete" => DeleteScan(s)
    BY <1>1, <1>3, DoomedKept
  <2>2. \A t \in Session, u \in User :
           (Enters(t, u)' => Enters(t, u)) /\ (Deletes(t, u)' => Deletes(t, u))
    BY <2>1 DEF Enters, Deletes
  <2>3. \A t, r \in Session, u \in User : Enters(t, u) /\ Deletes(r, u) => u \in raced
    BY DEF DeletionInv, Racing, Enters, Deletes
  <2>4. Racing' \subseteq raced'
    BY <2>1, <2>2, <2>3 DEF Racing, Enters, Deletes
  <2>5. deleted' = deleted \/ (DeleteCommit(s) /\ deleted' = deleted \cup {job[s].user})
    BY OnlyCommitsShow
    DEF rows, RowCommit, JoinCommit, AcceptCommit, AnswerCommit, LeaveCommit, BlockCommit,
        UnblockCommit, DeleteCommit, CreateCommit, CancelTokenRejected, CancelCommit,
        NoticesCommit, RescheduleTokenRejected, RescheduleCommit
  <2>6. DeleteCommit(s) => Deletes(s, job[s].user) /\ pc[s] = "write"
    BY DEF DeleteCommit, At, Deletes
  <2>7. ASSUME NEW u \in deleted' \ raced', NEW t \in Session PROVE ~Enters(t, u)'
    <3>1. u \in User /\ u \notin raced
      BY <1>1, <2>1, <2>5, <2>6, <2>7, AccountJobTyped DEF Deletes, AccountOps, TypeOK
    <3>2. ~Enters(t, u)
      BY <2>3, <2>5, <2>6, <2>7, <3>1 DEF DeletionInv
    <3> QED
      BY <2>2, <3>1, <3>2
  <2>8. ASSUME NEW t \in Session, NEW u \in User, Deletes(t, u)', pc'[t] = "write",
               u \notin raced'
        PROVE  RowsOf(u)' \subseteq doomed'[t]
    <3>1. \A e \in Event : participation'[e][u] \in Active => participation[e][u] \in Active
      BY <1>1, <2>1, <2>2, <2>3, <2>8, OnlyEntriesActivate
    <3>2. RowsOf(u)' \subseteq RowsOf(u)
      BY <3>1 DEF RowsOf
    <3>3. CASE t # s
      BY <2>1, <2>2, <2>8, <3>2, <3>3 DEF DeletionInv
    <3>4. CASE t = s
      <4>1. DeleteScan(s) /\ job[s].user = u
        BY <2>1, <2>8, <3>4 DEF Deletes
      <4>2. doomed'[s] = RowsOf(u)
        BY <1>1, <4>1 DEF DeleteScan, TypeOK, SessionsTyped
      <4> QED
        BY <3>2, <3>4, <4>2
    <3> QED
      BY <3>3, <3>4
  <2>9. ASSUME NEW u \in deleted' \ raced', NEW e \in Event
        PROVE  participation'[e][u] \notin Active
    <3>1. u \in User /\ u \notin raced
      BY <1>1, <2>1, <2>5, <2>6, <2>9, AccountJobTyped
      DEF Deletes, AccountOps, TypeOK
    <3>2. SUFFICES ASSUME participation'[e][u] \in Active PROVE FALSE
      OBVIOUS
    <3>3. CASE u \in deleted
      <4>1. participation[e][u] \notin Active /\ \A t \in Session : ~Enters(t, u)
        BY <3>1, <3>3 DEF DeletionInv, DeletedKeepNothing
      <4> QED
        BY <1>1, <3>1, <3>2, <4>1, OnlyEntriesActivate
    <3>4. CASE u \notin deleted
      <4>1. DeleteCommit(s) /\ u = job[s].user
        BY <2>5, <3>4
      <4>2. participation[e][u] \in Active
        BY <1>1, <2>3, <2>6, <3>1, <3>2, <4>1, OnlyEntriesActivate
      <4>3. <<e, u>> \in Doomed(s)
        BY <2>6, <3>1, <4>1, <4>2 DEF DeletionInv, Doomed, RowsOf
      <4>4. participation'[e][u] = "CANCELLED"
        BY <3>1, <4>1, <4>3 DEF DeleteCommit, Withdraw
      <4> QED
        BY <3>2, <4>4 DEF Active
    <3> QED
      BY <3>3, <3>4
  <2> QED
    BY <2>4, <2>7, <2>8, <2>9 DEF DeletionInv, DeletedKeepNothing
<1> QED
  BY <1>2, <1>3

(* A deleted account keeps neither a seat nor an open request, whatever    *)
(* runs beside its deletion, unless its own request for a seat did         *)
(* (user.py of the repositories, 122-134).                                 *)
THEOREM DeletedAccountsKeepNothing == Spec => []DeletedKeepNothing
<1>1. ASSUME TransactionInv, DeletionInv, [Next]_vars PROVE DeletionInv'
  <2>1. ASSUME UNCHANGED <<participation, deleted, pc, job, doomed, raced>>
        PROVE  DeletionInv'
    BY <1>1, <2>1
    DEF DeletionInv, DeletedKeepNothing, Racing, Enters, Deletes, RowsOf
  <2>2. UNCHANGED <<participation, deleted, pc, job, doomed, raced>>
          \/ \E s \in Session : Steps(s)
    BY <1>1
    DEF Next, Steps, CreateInviteLink, EventStarts, EventEnds, EventMoves, vars, rows,
        sessionVars, environment
  <2> QED
    BY <1>1, <2>1, <2>2, DeletionStepKeeps
<1>2. DeletionInv => DeletedKeepNothing
  BY DEF DeletionInv
<1> QED
  BY <1>1, <1>2, TransactionInvInit, TransactionInvInductive, DeletionInvInit, PTL DEF Spec

-----------------------------------------------------------------------------
(* The transactions implement the atomic operations *)

(* Withdrawing the active rows of a pair, or those that the deletion of a  *)
(* user found, is what the lifecycle does in one step.                     *)
LEMMA BlockWithdraws ==
  ASSUME NEW a, NEW b, Withdraw(RowsBetween(a, b))
  PROVE  Lifecycle!WithdrawRows({r \in Event \X User : {Organizer[r[1]], r[2]} = {a, b}})
<1> DEFINE between == {r \in Event \X User : {Organizer[r[1]], r[2]} = {a, b}}
<1>1. \A e \in Event, v \in User :
        <<e, v>> \in RowsBetween(a, b) <=> <<e, v>> \in between /\ participation[e][v] \in Active
  BY DEF RowsBetween, PairOf
<1>2. participation' = [e \in Event |-> [v \in User |->
                          IF <<e, v>> \in between /\ participation[e][v] \in Active
                          THEN "CANCELLED" ELSE participation[e][v]]]
  BY <1>1 DEF Withdraw
<1> QED
  BY <1>2 DEF Lifecycle!WithdrawRows, Lifecycle!Active, Active

LEMMA DeletionWithdraws ==
  ASSUME NEW s \in Session, Withdraw(Doomed(s))
  PROVE  \E kept \in SUBSET Event :
           Lifecycle!WithdrawRows((Event \ kept) \X {job[s].user})
<1> DEFINE u == job[s].user
           kept == {e \in Event : <<e, u>> \notin doomed[s]}
<1>1. \A e \in Event, v \in User :
        <<e, v>> \in Doomed(s) <=>
          <<e, v>> \in (Event \ kept) \X {u} /\ participation[e][v] \in Active
  BY DEF Doomed, RowsOf
<1>2. participation' = [e \in Event |-> [v \in User |->
                          IF /\ <<e, v>> \in (Event \ kept) \X {u}
                             /\ participation[e][v] \in Active
                          THEN "CANCELLED" ELSE participation[e][v]]]
  BY <1>1 DEF Withdraw
<1>3. Lifecycle!WithdrawRows((Event \ kept) \X {u})
  BY <1>2 DEF Lifecycle!WithdrawRows, Lifecycle!Active, Active
<1>4. kept \in SUBSET Event
  OBVIOUS
<1> QED
  BY <1>3, <1>4

(* Every commit is one operation of the lifecycle, every other step none.  *)
LEMMA StepsSimulate ==
  ASSUME TypeOK, NEW s \in Session, SessionInv(s), Steps(s)
  PROVE  Lifecycle!Next \/ UNCHANGED Lifecycle!lifecycleVars
<1> DEFINE e == job[s].event
           u == job[s].user
           a == job[s].actor
<1>1. /\ SessionsTyped /\ KeepsLocks(s) /\ DecisionHolds(s)
  BY DEF TypeOK, SessionInv
<1>2. capacity' = capacity
  BY OnlyCommitsShow
<1>3. CASE RowCommit(s)
  <2>1. /\ e \in Event /\ u \in User
        /\ UNCHANGED <<capacity, eventStatus, blocks, deleted>>
    BY <1>3, CommitFinds
  <2>2. Lifecycle!HasSeat(e) <=> HasSeat(e)
    <3>1. Confirmed(e) = {v \in User : participation[e][v] = "CONFIRMED"}
      BY DEF Confirmed
    <3>2. \A S : Lifecycle!Cardinality(S) = Cardinality(S)
      BY Zenon DEF Lifecycle!Cardinality, Cardinality
    <3> QED
      BY <3>1, <3>2 DEF Lifecycle!HasSeat, HasSeat
  <2>3. Lifecycle!Separated(e, u) <=> BlockedBetween(Organizer[e], u)
    BY DEF Lifecycle!Separated, BlockedBetween
  <2>4. ~LeaveCommit(s) => ~Lifecycle!Separated(e, u)
    BY <1>3, <2>3, CommitFinds
  <2>5. CASE JoinCommit(s)
    <3>1. ~LeaveCommit(s)
      BY <2>5 DEF JoinCommit, LeaveCommit, At
    <3>2. /\ eventStatus[e] = "PUBLISHED" /\ HasSeat(e)
          /\ participation[e][u] \in Reenterable /\ job[s].goal \in Active
      BY <1>3, <2>5, CommitFinds
    <3>3. Lifecycle!Enter(e, u, job[s].goal) /\ job[s].goal \in Lifecycle!Active
      BY <2>1, <2>2, <2>4, <2>5, <3>1, <3>2
      DEF JoinCommit, Lifecycle!Enter, Lifecycle!Reenterable, Lifecycle!Active, Reenterable, Active
    <3> QED
      BY <2>1, <3>3 DEF Lifecycle!Next
  <2>6. CASE AcceptCommit(s)
    <3>1. ~LeaveCommit(s)
      BY <2>6 DEF AcceptCommit, LeaveCommit, At
    <3>2. /\ eventStatus[e] = "PUBLISHED" /\ HasSeat(e)
          /\ participation[e][u] \in Reenterable
      BY <1>3, <2>6, CommitFinds
    <3>3. Lifecycle!Enter(e, u, "CONFIRMED") /\ "CONFIRMED" \in Lifecycle!Active
      BY <2>1, <2>2, <2>4, <2>6, <3>1, <3>2
      DEF AcceptCommit, Lifecycle!Enter, Lifecycle!Reenterable, Lifecycle!Active, Reenterable
    <3> QED
      BY <2>1, <3>3 DEF Lifecycle!Next
  <2>7. CASE AnswerCommit(s)
    <3>1. ~LeaveCommit(s)
      BY <2>7 DEF AnswerCommit, LeaveCommit, At
    <3>2. /\ <<participation[e][u], job[s].goal>> \in ValidTransitions
          /\ job[s].goal = "CONFIRMED" => HasSeat(e)
      BY <1>3, <2>7, CommitFinds
    <3>3. Lifecycle!Answer(e, u, job[s].goal)
      BY <2>1, <2>2, <2>4, <2>7, <3>1, <3>2
      DEF AnswerCommit, Lifecycle!Answer, Lifecycle!Answers, ValidTransitions
    <3>4. job[s].goal \in {"CONFIRMED", "REJECTED", "REMOVED"}
      BY <3>2 DEF ValidTransitions
    <3> QED
      BY <2>1, <3>3, <3>4 DEF Lifecycle!Next
  <2>8. CASE LeaveCommit(s)
    <3>1. participation[e][u] \in Active
      BY <1>3, <2>8, CommitFinds
    <3>2. Lifecycle!Leave(e, u)
      BY <2>1, <2>8, <3>1 DEF LeaveCommit, Lifecycle!Leave, Lifecycle!Active, Active
    <3> QED
      BY <2>1, <3>2 DEF Lifecycle!Next
  <2> QED
    BY <1>3, <2>5, <2>6, <2>7, <2>8 DEF RowCommit
<1>4. CASE BlockCommit(s)
  <2>1. a \in User /\ u \in User /\ a # u
    BY <1>1, <1>4, AccountJobTyped DEF BlockCommit, At, AccountOps, DecisionHolds
  <2>2. Lifecycle!Block(a, u)
    <3>1. Withdraw(RowsBetween(a, u)) /\ blocks' = blocks \cup {<<a, u>>}
          /\ UNCHANGED <<eventStatus, deleted>>
      BY <1>4 DEF BlockCommit
    <3>2. Lifecycle!WithdrawRows({r \in Event \X User : {Organizer[r[1]], r[2]} = {a, u}})
      BY <3>1, BlockWithdraws
    <3> QED
      BY <1>2, <2>1, <3>1, <3>2 DEF Lifecycle!Block
  <2> QED
    BY <2>1, <2>2 DEF Lifecycle!Next
<1>5. CASE UnblockCommit(s)
  <2>1. a \in User /\ u \in User
    BY <1>1, <1>5, AccountJobTyped DEF UnblockCommit, At, AccountOps
  <2>2. Lifecycle!Unblock(a, u)
    BY <1>2, <1>5 DEF UnblockCommit, Lifecycle!Unblock
  <2> QED
    BY <2>1, <2>2 DEF Lifecycle!Next
<1>6. CASE DeleteCommit(s)
  <2>1. u \in User
    BY <1>1, <1>6, AccountJobTyped DEF DeleteCommit, At, AccountOps
  <2>2. Lifecycle!DeleteAccount(u)
    BY <1>2, <1>6, DeletionWithdraws DEF DeleteCommit, Lifecycle!DeleteAccount
  <2> QED
    BY <2>1, <2>2 DEF Lifecycle!Next
<1>7. CASE CreateCommit(s)
  <2>1. e \in Event /\ eventStatus[e] = "ABSENT"
    BY <1>1, <1>7, EventJobTyped DEF CreateCommit, At, EventOps, DecisionHolds
  <2>2. Lifecycle!Publish(e)
    BY <1>2, <1>7, <2>1 DEF CreateCommit, Lifecycle!Publish
  <2> QED
    BY <2>1, <2>2 DEF Lifecycle!Next
<1>8. CASE CancelTokenRejected(s) \/ CancelCommit(s)
  <2>1. e \in Event /\ eventStatus[e] # "ABSENT"
    BY <1>1, <1>8, EventJobTyped
    DEF CancelTokenRejected, CancelCommit, At, EventOps, Notifying, DecisionHolds
  <2>2. Lifecycle!CancelEvent(e)
    BY <1>2, <1>8, <2>1 DEF CancelTokenRejected, CancelCommit, Lifecycle!CancelEvent
  <2> QED
    BY <2>1, <2>2 DEF Lifecycle!Next
<1>9. CASE UNCHANGED rows
  BY <1>2, <1>9 DEF rows, Lifecycle!lifecycleVars
<1>10. CASE NoticesCommit(s)
  BY <1>2, <1>10
  DEF NoticesCommit, RescheduleTokenRejected, RescheduleCommit, Lifecycle!lifecycleVars
<1> QED
  BY <1>3, <1>4, <1>5, <1>6, <1>7, <1>8, <1>9, <1>10, OnlyCommitsShow

(* The transactions, with all their locks, crashes and deadlocks, appear   *)
(* to everyone else as the atomic operations of EventLifecycle.            *)
THEOREM TransactionsImplementLifecycle == Spec => ImplementsLifecycle
<1>1. Init => Lifecycle!Init
  BY DEF Init, Lifecycle!Init
<1>2. TransactionInv /\ [Next]_vars => [Lifecycle!Next]_(Lifecycle!lifecycleVars)
  <2> SUFFICES ASSUME TransactionInv, [Next]_vars
               PROVE  Lifecycle!Next \/ UNCHANGED Lifecycle!lifecycleVars
    OBVIOUS
  <2>1. ASSUME NEW s \in Session, Steps(s)
        PROVE  Lifecycle!Next \/ UNCHANGED Lifecycle!lifecycleVars
    BY <2>1, StepsSimulate DEF TransactionInv
  <2>2. UNCHANGED <<capacity, eventStatus, participation, blocks, deleted, inbox>> =>
          UNCHANGED Lifecycle!lifecycleVars
    BY DEF Lifecycle!lifecycleVars
  <2> QED
    BY <2>1, <2>2, StepCases
<1> QED
  BY <1>1, <1>2, TransactionInvInit, TransactionInvInductive, PTL
  DEF Spec, ImplementsLifecycle, Lifecycle!Spec
=============================================================================
