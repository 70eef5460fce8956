---------------------------- MODULE EventEditing -----------------------------
(***************************************************************************)
(* One published event that its organizer edits and cancels while people   *)
(* come and go and the starting-soon job warns them.                       *)
(*                                                                         *)
(* An edit reads the event, merges the fields of the request into what it  *)
(* read, loads the row once more and lets SQLAlchemy write the columns     *)
(* whose merged value differs from the loaded one.  Nothing locks the row  *)
(* between the read and the commit.  The old cover is deleted from storage *)
(* and the participants are told after that commit, in steps of their own. *)
(***************************************************************************)
EXTENDS Naturals, FiniteSets

CONSTANTS
  User,         \* people who may take part
  Session,      \* web sessions that serve an edit
  Cover,        \* objects in storage that may be covers
  None,         \* a null column, and no cover
  Keep,         \* a field the request does not mention
  Created,      \* bound: the events considered, as created at instant 0
  Changes,      \* bound: the edits considered, see Change
  Horizon,      \* bound: instants are 0..Horizon
  Window,       \* starting_soon_window_minutes, in instants
  MaxEdits,     \* bound: edits started in a behaviour
  MaxCrashes    \* bound: crashes, and statements of the job that fail

Instant == 0..Horizon
Change == [start : Instant \cup {Keep}, end : Instant \cup {Keep},
           cover : Cover \cup {None, Keep}]
Columns == [start : Instant, end : Instant, cover : Cover \cup {None}]

ASSUME EditingAssumption ==
  /\ Created \subseteq {r \in Columns : 0 < r.start /\ r.start < r.end}
  /\ Changes \subseteq Change
  /\ {Horizon, Window, MaxEdits, MaxCrashes} \subseteq Nat
  /\ {None, Keep} \cap (Cover \cup Nat) = {} /\ None # Keep

VARIABLES
  \* committed rows
  status,     \* event_status
  row,        \* the columns an edit writes: starts_at, ends_at, cover
  confirmed,  \* users with a CONFIRMED participation
  blocked,    \* users with a block between them and the organizer
  warned,     \* warned[u]: EVENT_STARTING_SOON notices of u's participation
  \* object storage
  stored,     \* objects that exist
  \* edits
  pc,         \* pc[s]: the step session s is about to run
  change,     \* change[s]: the fields of its request
  seen,       \* seen[s]: the event as it read it
  loaded,     \* loaded[s]: the row as it loaded it to write
  toTell,     \* toTell[s]: participants it has still to notify
  draft,      \* draft[s]: participants whose notice it has not committed
  \* the job
  batch,      \* candidates the running job has still to handle
  \* environment, bounds and history
  now, edits, crashes,
  outdated,   \* users who have not heard of the current start
  overlapped, \* whether two edits were ever under way together
  reused      \* whether an edit ever named a cover that was gone from storage

rows     == <<status, row, confirmed, blocked, warned>>
editVars == <<pc, change, seen, loaded, toTell, draft>>
history  == <<outdated, overlapped, reused>>
vars == <<rows, stored, editVars, batch, now, edits, crashes, history>>

-----------------------------------------------------------------------------

Stage   == {"idle", "load", "write", "cover", "list", "tell"}
NoChange == [start |-> Keep, end |-> Keep, cover |-> Keep]
Blank    == [start |-> 0, end |-> 0, cover |-> None]

(* Every variable has its type; nobody is told or warned who cannot be.    *)
TypeOK ==
  /\ status \in {"PUBLISHED", "CANCELLED"}
  /\ row \in Columns
  /\ confirmed \subseteq User /\ blocked \subseteq User
  /\ warned \in [User -> Nat]
  /\ stored \subseteq Cover
  /\ pc \in [Session -> Stage]
  /\ change \in [Session -> Change]
  /\ seen \in [Session -> Columns] /\ loaded \in [Session -> Columns]
  /\ toTell \in [Session -> SUBSET User] /\ draft \in [Session -> SUBSET User]
  /\ batch \subseteq User
  /\ now \in Instant /\ edits \in 0..MaxEdits /\ crashes \in 0..MaxCrashes
  /\ outdated \subseteq User /\ {overlapped, reused} \subseteq BOOLEAN

Init ==
  /\ status = "PUBLISHED"
  /\ row \in Created
  /\ confirmed = {} /\ blocked = {} /\ warned = [u \in User |-> 0]
  /\ stored = Cover
  /\ pc = [s \in Session |-> "idle"]
  /\ change = [s \in Session |-> NoChange]
  /\ seen = [s \in Session |-> Blank] /\ loaded = [s \in Session |-> Blank]
  /\ toTell = [s \in Session |-> {}] /\ draft = [s \in Session |-> {}]
  /\ batch = {}
  /\ now = 0 /\ edits = 0 /\ crashes = 0
  /\ outdated = {} /\ overlapped = FALSE /\ reused = FALSE

-----------------------------------------------------------------------------
(* PATCH /events/{id}                                                      *)

Goto(s, stage) == pc' = [pc EXCEPT ![s] = stage]

Editing == {s \in Session : pc[s] # "idle"}

(* The event the request asks for: its fields over what was read.          *)
Merged(old, ch) ==
  [c \in {"start", "end", "cover"} |-> IF ch[c] = Keep THEN old[c] ELSE ch[c]]

(* A start is only compared with the clock when the request moves it.  Of  *)
(* a cover only the prefix of its URL is looked at: the object may be gone *)
(* from storage by then.                                                   *)
Valid(new, ch) ==
  /\ ch.start # Keep => new.start > now
  /\ new.end > new.start

(* Reads the event and refuses what does not hold for it.  The status is   *)
(* not looked at, except for FINISHED.                                     *)
RequestEdit(s, ch) ==
  /\ pc[s] = "idle" /\ edits < MaxEdits
  /\ Valid(Merged(row, ch), ch)
  /\ edits' = edits + 1
  /\ change' = [change EXCEPT ![s] = ch]
  /\ seen' = [seen EXCEPT ![s] = row]
  /\ Goto(s, "load")
  /\ overlapped' = (overlapped \/ Editing # {})
  /\ reused' = (reused \/ ch.cover \in Cover \ stored)
  /\ UNCHANGED <<rows, stored, loaded, toTell, draft, batch, now, crashes, outdated>>

EditLoad(s) ==
  /\ pc[s] = "load"
  /\ loaded' = [loaded EXCEPT ![s] = row]
  /\ Goto(s, "write")
  /\ UNCHANGED <<rows, stored, change, seen, toTell, draft, batch, now, edits,
                 crashes, history>>

(* The columns after the UPDATE: those whose merged value differs from the *)
(* loaded one, over whatever the row holds by then.                        *)
Written(s) ==
  LET new == Merged(seen[s], change[s]) IN
  [c \in {"start", "end", "cover"} |->
      IF new[c] # loaded[s][c] THEN new[c] ELSE row[c]]

(* Writes the status it read as well. *)
MutEditCommit(s) ==
  /\ pc[s] = "write"
  /\ row' = Written(s)
  /\ status' = "PUBLISHED"
  /\ outdated' = IF row'.start # row.start THEN confirmed ELSE outdated
  /\ Goto(s, "cover")
  /\ UNCHANGED <<confirmed, blocked, warned, stored, change, seen, loaded, toTell,
                 draft, batch, now, edits, crashes, overlapped, reused>>

EditCommit(s) ==
  /\ pc[s] = "write"
  /\ row' = Written(s)
  /\ outdated' = IF row'.start # row.start THEN confirmed ELSE outdated
  /\ loaded' = [loaded EXCEPT ![s] = Blank]
  /\ Goto(s, "cover")
  /\ UNCHANGED <<status, confirmed, blocked, warned, stored, change, seen, toTell,
                 draft, batch, now, edits, crashes, overlapped, reused>>

EndEdit(s) ==
  /\ Goto(s, "idle")
  /\ change' = [change EXCEPT ![s] = NoChange]
  /\ seen' = [seen EXCEPT ![s] = Blank] /\ loaded' = [loaded EXCEPT ![s] = Blank]
  /\ toTell' = [toTell EXCEPT ![s] = {}] /\ draft' = [draft EXCEPT ![s] = {}]

(* The cover this edit took down: the one it read.                         *)
Replaced(s) ==
  IF change[s].cover \in {Keep, seen[s].cover} THEN {} ELSE {seen[s].cover} \ {None}

(* Deletes the new cover. *)
MutEditDropCover(s) ==
  /\ pc[s] = "cover"
  /\ stored' = stored \ {change[s].cover}
  /\ Goto(s, "list")
  /\ UNCHANGED <<rows, change, seen, loaded, toTell, draft, batch, now, edits,
                 crashes, history>>

(* The storage may refuse; the edit goes on.  Only a new date is told.     *)
EditDropCover(s) ==
  /\ pc[s] = "cover"
  /\ stored' \in {stored, stored \ Replaced(s)}
  /\ \/ change[s].start = Keep /\ EndEdit(s)
     \/ /\ change[s].start # Keep
        /\ Goto(s, "list")
        /\ UNCHANGED <<change, seen, loaded, toTell, draft>>
  /\ UNCHANGED <<rows, batch, now, edits, crashes, history>>

EditList(s) ==
  /\ pc[s] = "list"
  /\ toTell' = [toTell EXCEPT ![s] = confirmed]
  /\ change' = [change EXCEPT ![s] = NoChange] /\ seen' = [seen EXCEPT ![s] = Blank]
  /\ Goto(s, "tell")
  /\ UNCHANGED <<rows, stored, loaded, draft, batch, now, edits,
                 crashes, history>>

(* One EVENT_UPDATED notice, not across a block.                           *)
EditTell(s, u) ==
  /\ pc[s] = "tell" /\ u \in toTell[s]
  /\ toTell' = [toTell EXCEPT ![s] = @ \ {u}]
  /\ draft' = [draft EXCEPT ![s] = @ \cup ({u} \ blocked)]
  /\ UNCHANGED <<rows, stored, pc, change, seen, loaded, batch, now, edits,
                 crashes, history>>

(* A rejected push token commits what was written so far.                  *)
EditTokenRejected(s) ==
  /\ pc[s] = "tell" /\ draft[s] # {}
  /\ outdated' = outdated \ draft[s]
  /\ draft' = [draft EXCEPT ![s] = {}]
  /\ UNCHANGED <<rows, stored, pc, change, seen, loaded, toTell, batch, now, edits,
                 crashes, overlapped, reused>>

(* Does not commit the notices. *)
MutEditTold(s) ==
  /\ pc[s] = "tell" /\ toTell[s] = {}
  /\ EndEdit(s)
  /\ UNCHANGED <<rows, stored, batch, now, edits, crashes, history>>

EditTold(s) ==
  /\ pc[s] = "tell" /\ toTell[s] = {}
  /\ outdated' = outdated \ draft[s]
  /\ EndEdit(s)
  /\ UNCHANGED <<rows, stored, batch, now, edits, crashes, overlapped, reused>>

(* The worker dies: what it committed stays, the rest never happens.       *)
EditCrash(s) ==
  /\ pc[s] # "idle" /\ crashes < MaxCrashes
  /\ crashes' = crashes + 1
  /\ EndEdit(s)
  /\ UNCHANGED <<rows, stored, batch, now, edits, history>>

-----------------------------------------------------------------------------
(* PATCH /events/{id}/cancel, and people who come and go, each in one step. *)

Cancel ==
  /\ status = "PUBLISHED"
  /\ status' = "CANCELLED"
  /\ UNCHANGED <<row, confirmed, blocked, warned, stored, editVars, batch, now, edits,
                 crashes, history>>

Join(u) ==
  /\ status = "PUBLISHED" /\ u \notin confirmed \cup blocked
  /\ confirmed' = confirmed \cup {u}
  /\ outdated' = outdated \ {u}
  /\ UNCHANGED <<status, row, blocked, warned, stored, editVars, batch, now, edits,
                 crashes, overlapped, reused>>

Leave(u) ==
  /\ u \in confirmed
  /\ confirmed' = confirmed \ {u}
  /\ UNCHANGED <<status, row, blocked, warned, stored, editVars, batch, now, edits,
                 crashes, history>>

(* A block ends the participation and deletes the notices of the pair.     *)
Block(u) ==
  /\ u \notin blocked
  /\ blocked' = blocked \cup {u}
  /\ confirmed' = confirmed \ {u}
  /\ warned' = [warned EXCEPT ![u] = 0]
  /\ UNCHANGED <<status, row, stored, editVars, batch, now, edits, crashes, history>>

-----------------------------------------------------------------------------
(* The starting-soon job, one run at a time.                               *)

(* Looks at the window only. *)
MutCandidates ==
  {u \in confirmed : status = "PUBLISHED" /\ row.start > now /\ row.start <= now + Window}

Candidates ==
  {u \in confirmed :
     /\ status = "PUBLISHED"
     /\ row.start > now /\ row.start <= now + Window
     /\ warned[u] = 0}

JobStart ==
  /\ batch = {} /\ Candidates # {}
  /\ batch' = Candidates
  /\ UNCHANGED <<rows, stored, editVars, now, edits, crashes, history>>

(* Does not commit the notice. *)
MutJobWarn(u) ==
  /\ u \in batch
  /\ batch' = batch \ {u}
  /\ UNCHANGED <<rows, stored, editVars, now, edits, crashes, history>>

(* A notice and its commit; nothing across a block.  The row may have been *)
(* cancelled since it was listed.                                          *)
JobWarn(u) ==
  /\ u \in batch
  /\ batch' = batch \ {u}
  /\ warned' = IF u \in blocked THEN warned ELSE [warned EXCEPT ![u] = @ + 1]
  /\ UNCHANGED <<status, row, confirmed, blocked, stored, editVars, now, edits, crashes,
                 history>>

(* A statement fails: rolled back and skipped.                             *)
JobFails(u) ==
  /\ u \in batch /\ crashes < MaxCrashes
  /\ crashes' = crashes + 1
  /\ batch' = batch \ {u}
  /\ UNCHANGED <<rows, stored, editVars, now, edits, history>>

JobCrash ==
  /\ batch # {} /\ crashes < MaxCrashes
  /\ crashes' = crashes + 1
  /\ batch' = {}
  /\ UNCHANGED <<rows, stored, editVars, now, edits, history>>

Tick ==
  /\ now < Horizon
  /\ now' = now + 1
  /\ UNCHANGED <<rows, stored, editVars, batch, edits, crashes, history>>

-----------------------------------------------------------------------------

EditStep(s) ==
  \/ EditLoad(s) \/ EditCommit(s) \/ EditDropCover(s) \/ EditList(s)
  \/ \E u \in User : EditTell(s, u)
  \/ EditTokenRejected(s) \/ EditTold(s)

JobStep == JobStart \/ \E u \in User : JobWarn(u)

Next ==
  \/ \E s \in Session : EditStep(s) \/ EditCrash(s) \/ \E ch \in Changes : RequestEdit(s, ch)
  \/ Cancel \/ \E u \in User : Join(u) \/ Leave(u) \/ Block(u)
  \/ JobStep \/ JobCrash \/ \E u \in User : JobFails(u)
  \/ Tick

Spec == Init /\ [][Next]_vars

(* A timer starts the job every five minutes and it runs on.  The clock,   *)
(* the organizer, the participants and the crashes are not fair.           *)
FairSpec == Spec /\ WF_vars(JobStep)

-----------------------------------------------------------------------------
(* Properties *)

(* An edit that read the event before it was cancelled does not bring it   *)
(* back: a cancellation is final (repository/event.py:264-276).            *)
CancelledStays == [][status = "CANCELLED" => status' = "CANCELLED"]_vars

(* Each participation is warned once, whatever leaves, joins, failed       *)
(* commits and crashes of the job there are (starting_soon.py:30-32).      *)
WarnedOnce == \A u \in User : warned[u] <= 1

(* Edits that never overlap leave an event that ends after it starts, even *)
(* if they crash half way, and a cover that exists, unless one of them     *)
(* named a cover that was gone by then, which nothing refuses: an edit     *)
(* deletes the cover it took down, after its commit, and never the one the *)
(* event shows (services/event.py:330-337, 350-352).                       *)
LoneEditsConsistent ==
  ~overlapped =>
    /\ row.end > row.start
    /\ ~reused => row.cover \in stored \cup {None}

(* Whoever takes part when the start moves is told: between edits, if none *)
(* overlapped or crashed, every participant has seen the current start     *)
(* (services/event.py:343-346).                                            *)
RescheduleReachesAll ==
  ~overlapped /\ crashes = 0 /\ Editing = {} => outdated \cap confirmed = {}

(* A participant of an event about to start does not stay without a        *)
(* warning: the next run recovers a missed one (starting_soon.py:28-30).   *)
Due(u) == u \in Candidates /\ u \notin blocked
EveryoneWarned == \A u \in User : Due(u) ~> ~Due(u)

(* "Raised when the end date of an event is not after its start date": an  *)
(* event always ends after it starts (services/event.py:82).               *)
EndsAfterStarts == row.end > row.start
=============================================================================
