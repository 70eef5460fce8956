------------------------- MODULE EventEditingProofs --------------------------
(***************************************************************************)
(* Theorems about EventEditing.tla, for every event, every set of edits,   *)
(* covers, people and sessions, and any number of instants.                *)
(***************************************************************************)
EXTENDS EventEditing, TLAPS

-----------------------------------------------------------------------------
(* Types                                                                   *)

(* The request's fields over a row are a row, field by field.              *)
LEMMA MergedColumns ==
  ASSUME NEW old \in Columns, NEW ch \in Change
  PROVE  /\ Merged(old, ch) \in Columns
         /\ Merged(old, ch).start = IF ch.start = Keep THEN old.start ELSE ch.start
         /\ Merged(old, ch).end = IF ch.end = Keep THEN old.end ELSE ch.end
         /\ Merged(old, ch).cover = IF ch.cover = Keep THEN old.cover ELSE ch.cover
<1>1. /\ Merged(old, ch).start = IF ch.start = Keep THEN old.start ELSE ch.start
      /\ Merged(old, ch).end = IF ch.end = Keep THEN old.end ELSE ch.end
      /\ Merged(old, ch).cover = IF ch.cover = Keep THEN old.cover ELSE ch.cover
  BY DEF Merged
<1>2. Merged(old, ch) \in Columns
  BY <1>1 DEF Merged, Columns, Change
<1> QED
  BY <1>1, <1>2

LEMMA WrittenColumns ==
  ASSUME TypeOK, NEW s \in Session
  PROVE  /\ Written(s) \in Columns
         /\ Written(s).start = IF Merged(seen[s], change[s]).start # loaded[s].start
                               THEN Merged(seen[s], change[s]).start ELSE row.start
         /\ Written(s).end = IF Merged(seen[s], change[s]).end # loaded[s].end
                             THEN Merged(seen[s], change[s]).end ELSE row.end
         /\ Written(s).cover = IF Merged(seen[s], change[s]).cover # loaded[s].cover
                               THEN Merged(seen[s], change[s]).cover ELSE row.cover
<1>1. Merged(seen[s], change[s]) \in Columns /\ row \in Columns
  BY MergedColumns DEF TypeOK
<1>2. /\ Written(s).start = IF Merged(seen[s], change[s]).start # loaded[s].start
                            THEN Merged(seen[s], change[s]).start ELSE row.start
      /\ Written(s).end = IF Merged(seen[s], change[s]).end # loaded[s].end
                          THEN Merged(seen[s], change[s]).end ELSE row.end
      /\ Written(s).cover = IF Merged(seen[s], change[s]).cover # loaded[s].cover
                            THEN Merged(seen[s], change[s]).cover ELSE row.cover
  BY DEF Written
<1>3. Written(s) \in Columns
  BY <1>1, <1>2 DEF Written, Columns
<1> QED
  BY <1>2, <1>3

LEMMA InitTyped == Init => TypeOK
<1>1. Blank \in Columns /\ NoChange \in Change
  BY EditingAssumption DEF EditingAssumption, Blank, NoChange, Columns, Change, Instant
<1>2. Created \subseteq Columns /\ 0 \in Instant /\ 0 \in 0..MaxEdits /\ 0 \in 0..MaxCrashes
  BY EditingAssumption DEF EditingAssumption, Instant
<1>3. ASSUME Init PROVE TypeOK
  <2>1. /\ status \in {"PUBLISHED", "CANCELLED"} /\ row \in Columns
        /\ confirmed \subseteq User /\ blocked \subseteq User /\ stored \subseteq Cover
        /\ batch \subseteq User /\ outdated \subseteq User
        /\ {overlapped, reused} \subseteq BOOLEAN
        /\ now \in Instant /\ edits \in 0..MaxEdits /\ crashes \in 0..MaxCrashes
    BY <1>2, <1>3 DEF Init
  <2>2. warned \in [User -> Nat] /\ pc \in [Session -> Stage]
    BY <1>3 DEF Init, Stage
  <2>3. /\ change \in [Session -> Change]
        /\ seen \in [Session -> Columns] /\ loaded \in [Session -> Columns]
        /\ toTell \in [Session -> SUBSET User] /\ draft \in [Session -> SUBSET User]
    BY <1>1, <1>3 DEF Init
  <2> QED
    BY <2>1, <2>2, <2>3 DEF TypeOK
<1> QED
  BY <1>3

(* What each variable of an edit is reset to has its type.                 *)
LEMMA EndKeepsType ==
  ASSUME TypeOK, NEW s \in Session, EndEdit(s)
  PROVE  /\ pc' \in [Session -> Stage] /\ change' \in [Session -> Change]
         /\ seen' \in [Session -> Columns] /\ loaded' \in [Session -> Columns]
         /\ toTell' \in [Session -> SUBSET User] /\ draft' \in [Session -> SUBSET User]
<1>1. Blank \in Columns /\ NoChange \in Change
  BY EditingAssumption DEF EditingAssumption, Blank, NoChange, Columns, Change, Instant
<1> QED
  BY <1>1 DEF EndEdit, Goto, TypeOK, Stage

LEMMA EditKeepsType ==
  ASSUME TypeOK, NEW s \in Session,
         EditStep(s) \/ EditCrash(s) \/ \E ch \in Changes : RequestEdit(s, ch)
  PROVE  TypeOK'
<1>1. Blank \in Columns /\ NoChange \in Change
  BY EditingAssumption DEF EditingAssumption, Blank, NoChange, Columns, Change, Instant
<1>2. {MaxEdits, MaxCrashes} \subseteq Nat /\ Changes \subseteq Change
  BY EditingAssumption DEF EditingAssumption
<1>3. {"idle", "load", "write", "cover", "list", "tell"} \subseteq Stage
  BY DEF Stage
<1>4. ASSUME NEW ch \in Changes, RequestEdit(s, ch) PROVE TypeOK'
  BY <1>2, <1>3, <1>4 DEF RequestEdit, Goto, TypeOK, rows
<1>5. CASE EditLoad(s)
  BY <1>3, <1>5 DEF EditLoad, Goto, TypeOK, rows, history
<1>6. CASE EditCommit(s)
  BY <1>1, <1>3, <1>6, WrittenColumns DEF EditCommit, Goto, TypeOK
<1>7. CASE EditDropCover(s)
  <2>1. stored' \subseteq Cover
    BY <1>7 DEF EditDropCover, TypeOK
  <2>2. CASE EndEdit(s)
    BY <1>7, <2>1, <2>2, EndKeepsType DEF EditDropCover, TypeOK, rows, history
  <2>3. CASE ~EndEdit(s)
    BY <1>3, <1>7, <2>1, <2>3 DEF EditDropCover, Goto, TypeOK, rows, history
  <2> QED
    BY <2>2, <2>3
<1>8. CASE EditList(s)
  BY <1>1, <1>3, <1>8 DEF EditList, Goto, TypeOK, rows, history
<1>9. ASSUME NEW u \in User, EditTell(s, u) PROVE TypeOK'
  BY <1>9 DEF EditTell, TypeOK, rows, history
<1>10. CASE EditTokenRejected(s)
  BY <1>10 DEF EditTokenRejected, TypeOK, rows
<1>11. CASE EditTold(s)
  BY <1>11, EndKeepsType DEF EditTold, TypeOK, rows
<1>12. CASE EditCrash(s)
  BY <1>2, <1>12, EndKeepsType DEF EditCrash, TypeOK, rows, history
<1> QED
  BY <1>4, <1>5, <1>6, <1>7, <1>8, <1>9, <1>10, <1>11, <1>12 DEF EditStep

(* The steps of everybody but the edits.                                   *)
Around ==
  \/ Cancel \/ \E u \in User : Join(u) \/ Leave(u) \/ Block(u)
  \/ JobStep \/ JobCrash \/ \E u \in User : JobFails(u)
  \/ Tick

LEMMA AroundKeepsType ==
  ASSUME TypeOK, Around
  PROVE  TypeOK'
<1>1. {Horizon, MaxCrashes} \subseteq Nat
  BY EditingAssumption DEF EditingAssumption
<1>2. CASE Cancel
  BY <1>2 DEF Cancel, TypeOK, editVars, history
<1>3. ASSUME NEW u \in User, Join(u) \/ Leave(u) PROVE TypeOK'
  BY <1>3 DEF Join, Leave, TypeOK, editVars, history
<1>4. ASSUME NEW u \in User, Block(u) PROVE TypeOK'
  BY <1>4 DEF Block, TypeOK, editVars, history
<1>5. CASE JobStart
  BY <1>5 DEF JobStart, Candidates, TypeOK, rows, editVars, history
<1>6. ASSUME NEW u \in User, JobWarn(u) PROVE TypeOK'
  BY <1>6 DEF JobWarn, TypeOK, editVars, history
<1>7. ASSUME NEW u \in User, JobFails(u) PROVE TypeOK'
  BY <1>1, <1>7 DEF JobFails, TypeOK, rows, editVars, history
<1>8. CASE JobCrash
  BY <1>1, <1>8 DEF JobCrash, TypeOK, rows, editVars, history
<1>9. CASE Tick
  BY <1>1, <1>9 DEF Tick, TypeOK, Instant, rows, editVars, history
<1> QED
  BY <1>2, <1>3, <1>4, <1>5, <1>6, <1>7, <1>8, <1>9 DEF Around, JobStep

LEMMA NextCases ==
  ASSUME Next
  PROVE  \/ \E s \in Session : EditStep(s) \/ EditCrash(s) \/ \E ch \in Changes : RequestEdit(s, ch)
         \/ Around
  BY DEF Next, Around

LEMMA NextKeepsType == TypeOK /\ [Next]_vars => TypeOK'
<1>1. TypeOK /\ UNCHANGED vars => TypeOK'
  BY DEF TypeOK, vars, rows, editVars, history
<1> QED
  BY <1>1, NextCases, EditKeepsType, AroundKeepsType

(* Every variable has its type: nobody is told or warned who cannot be,    *)
(* and the columns an edit writes are always columns of an event.          *)
THEOREM TypeCorrect == Spec => []TypeOK
  BY InitTyped, NextKeepsType, PTL DEF Spec

-----------------------------------------------------------------------------
(* The job                                                                 *)

(* A candidate the job has still to handle has not been warned: only the   *)
(* job adds warnings, and it handles each candidate once.                  *)
WarnInv ==
  /\ TypeOK
  /\ \A u \in User : warned[u] <= 1 /\ (u \in batch => warned[u] = 0)

LEMMA NextKeepsWarnInv == WarnInv /\ [Next]_vars => WarnInv'
<1> SUFFICES ASSUME WarnInv, [Next]_vars PROVE WarnInv'
  OBVIOUS
<1>1. TypeOK' /\ TypeOK
  BY NextKeepsType DEF WarnInv
<1>2. ASSUME UNCHANGED <<warned, batch>> PROVE WarnInv'
  BY <1>1, <1>2 DEF WarnInv
<1>3. ASSUME NEW s \in Session,
             EditStep(s) \/ EditCrash(s) \/ \E ch \in Changes : RequestEdit(s, ch)
      PROVE  UNCHANGED <<warned, batch>>
  BY <1>3 DEF EditStep, EditLoad, EditCommit, EditDropCover, EditList, EditTell,
     EditTokenRejected, EditTold, EditCrash, RequestEdit, rows
<1>4. ASSUME NEW u \in User, Block(u) PROVE WarnInv'
  BY <1>1, <1>4 DEF WarnInv, Block, TypeOK
<1>5. CASE JobStart
  BY <1>1, <1>5 DEF WarnInv, JobStart, Candidates, rows
<1>6. ASSUME NEW u \in User, JobWarn(u) PROVE WarnInv'
  BY <1>1, <1>6 DEF WarnInv, JobWarn, TypeOK
<1>7. CASE JobCrash \/ \E u \in User : JobFails(u)
  BY <1>1, <1>7 DEF WarnInv, JobCrash, JobFails, rows
<1>8. ASSUME Cancel \/ Tick \/ \E u \in User : Join(u) \/ Leave(u)
      PROVE  UNCHANGED <<warned, batch>>
  BY <1>8 DEF Cancel, Tick, Join, Leave, rows
<1>9. CASE Around
  BY <1>2, <1>4, <1>5, <1>6, <1>7, <1>8, <1>9 DEF Around, JobStep
<1>10. CASE UNCHANGED vars
  BY <1>2, <1>10 DEF vars, rows
<1> QED
  BY <1>2, <1>3, <1>9, <1>10, NextCases

(* Each participation is warned once, however its commits fail, the job    *)
(* crashes and people leave, come back and block each other between the    *)
(* statements of a run (starting_soon.py:30-32).                           *)
THEOREM OneWarning == Spec => []WarnedOnce
<1>1. Init => WarnInv
  BY InitTyped DEF Init, WarnInv
<1>2. WarnInv => WarnedOnce
  BY DEF WarnInv, WarnedOnce
<1> QED
  BY <1>1, <1>2, NextKeepsWarnInv, PTL DEF Spec

-----------------------------------------------------------------------------
(* Edits that do not overlap                                               *)

(* What an edit knows of the event while it is the only one: the event it  *)
(* read is the event there is, and what it wrote is what there is.         *)
Knows(s) ==
  /\ pc[s] \in {"load", "write"} =>
       /\ seen[s] = row
       /\ Merged(row, change[s]).end > Merged(row, change[s]).start
       /\ ~reused /\ change[s].cover \in Cover => change[s].cover \in stored
  /\ pc[s] = "write" => loaded[s] = row
  /\ pc[s] = "cover" => change[s].cover \in {Keep, row.cover}

EditsAlone == \A s, t \in Session : pc[s] # "idle" /\ pc[t] # "idle" => s = t

LoneInv ==
  /\ TypeOK
  /\ ~overlapped =>
       /\ EditsAlone
       /\ \A s \in Session : Knows(s)
       /\ row.end > row.start
       /\ ~reused => row.cover \in stored \cup {None}

LEMMA CoverNone == None \notin Cover /\ Keep \notin Cover /\ Keep # None
  BY EditingAssumption DEF EditingAssumption

LEMMA EditKeepsLoneInv ==
  ASSUME LoneInv, NEW s \in Session,
         EditStep(s) \/ EditCrash(s) \/ \E ch \in Changes : RequestEdit(s, ch)
  PROVE  LoneInv'
<1>1. TypeOK /\ TypeOK'
  BY EditKeepsType DEF LoneInv
<1>2. SUFFICES ASSUME ~overlapped'
               PROVE  /\ EditsAlone'
                      /\ \A t \in Session : Knows(t)'
                      /\ row'.end > row'.start
                      /\ ~reused' => row'.cover \in stored' \cup {None}
  BY <1>1 DEF LoneInv
<1>3. ~overlapped
  BY <1>1, <1>2 DEF EditStep, EditLoad, EditCommit, EditDropCover, EditList, EditTell,
     EditTokenRejected, EditTold, EditCrash, RequestEdit, history, TypeOK
<1>4. /\ EditsAlone /\ \A t \in Session : Knows(t)
      /\ row.end > row.start
      /\ ~reused => row.cover \in stored \cup {None}
  BY <1>3 DEF LoneInv
<1>5. pc \in [Session -> Stage] /\ change \in [Session -> Change] /\ seen \in [Session -> Columns]
      /\ loaded \in [Session -> Columns] /\ row \in Columns
  BY <1>1 DEF TypeOK
<1>6. /\ \A t \in Session \ {s} : pc'[t] = pc[t]
      /\ pc[s] # "idle" => \A t \in Session \ {s} : pc[t] = "idle"
  BY <1>4, <1>5 DEF EditsAlone, EditStep, EditLoad, EditCommit, EditDropCover, EditList, EditTell,
     EditTokenRejected, EditTold, EditCrash, RequestEdit, EndEdit, Goto
<1>7. ASSUME \A t \in Session \ {s} : pc[t] = "idle"
      PROVE  EditsAlone' /\ \A t \in Session \ {s} : Knows(t)'
  BY <1>6, <1>7 DEF EditsAlone, Knows
<1>8. ASSUME EndEdit(s) PROVE Knows(s)'
  BY <1>5, <1>8 DEF EndEdit, Goto, Knows
<1>9. ASSUME NEW ch \in Changes, RequestEdit(s, ch)
      PROVE  /\ EditsAlone' /\ \A t \in Session : Knows(t)'
             /\ UNCHANGED <<row, stored>> /\ (reused => reused')
  <2>1. Editing = {} /\ ch \in Change
    BY <1>2, <1>3, <1>9, EditingAssumption DEF RequestEdit, EditingAssumption, TypeOK
  <2>2. \A t \in Session \ {s} : pc[t] = "idle"
    BY <2>1 DEF Editing
  <2>3. /\ pc'[s] = "load" /\ seen'[s] = row /\ change'[s] = ch /\ UNCHANGED <<row, stored>>
        /\ reused' = (reused \/ ch.cover \in Cover \ stored)
    BY <1>5, <1>9 DEF RequestEdit, Goto, rows
  <2>4. Merged(row, ch).end > Merged(row, ch).start
    BY <1>9 DEF RequestEdit, Valid
  <2>5. Merged(row', change'[s]) = Merged(row, ch)
    BY <2>3
  <2>6. Knows(s)'
    BY <2>3, <2>4, <2>5 DEF Knows, Merged
  <2> QED
    BY <1>7, <2>2, <2>3, <2>6
<1>10. ASSUME EditLoad(s) PROVE Knows(s)' /\ UNCHANGED <<row, stored, reused>> /\ pc[s] # "idle"
  BY <1>4, <1>5, <1>10 DEF EditLoad, Goto, Knows, rows, history, Merged
<1>11. ASSUME EditCommit(s)
       PROVE  /\ Knows(s)' /\ row'.end > row'.start
              /\ ~reused' => row'.cover \in stored' \cup {None}
              /\ pc[s] # "idle"
  <2>1. seen[s] = row /\ loaded[s] = row /\ pc[s] = "write"
    BY <1>4, <1>11 DEF EditCommit, Knows
  <2>2. Merged(row, change[s]).end > Merged(row, change[s]).start
        /\ (~reused /\ change[s].cover \in Cover => change[s].cover \in stored)
    BY <1>4, <1>11 DEF EditCommit, Knows
  <2>3. row' = Written(s) /\ UNCHANGED <<stored, change, reused>> /\ pc'[s] = "cover"
    BY <1>5, <1>11 DEF EditCommit, Goto
  <2>4. /\ Written(s).start = Merged(row, change[s]).start
        /\ Written(s).end = Merged(row, change[s]).end
        /\ Written(s).cover = Merged(row, change[s]).cover
    BY <1>1, <2>1, WrittenColumns
  <2>5. row'.cover = IF change[s].cover = Keep THEN row.cover ELSE change[s].cover
    BY <1>5, <2>3, <2>4, MergedColumns
  <2>6. change[s].cover \in Cover \cup {None, Keep}
    BY <1>5 DEF Change
  <2>7. ~reused' => row'.cover \in stored' \cup {None}
    BY <1>4, <2>2, <2>3, <2>5, <2>6
  <2>8. Knows(s)'
    BY <2>3, <2>5 DEF Knows
  <2> QED
    BY <2>1, <2>2, <2>3, <2>4, <2>7, <2>8
<1>12. ASSUME EditDropCover(s)
       PROVE  /\ Knows(s)' /\ row' = row /\ pc[s] # "idle"
              /\ ~reused' => row'.cover \in stored' \cup {None}
  <2>1. row.cover \notin Replaced(s) \/ row.cover = None
    BY <1>4, <1>12 DEF EditDropCover, Knows, Replaced
  <2>2. row' = row /\ reused' = reused /\ pc'[s] \in {"idle", "list"}
    BY <1>5, <1>12 DEF EditDropCover, EndEdit, Goto, rows, history
  <2> QED
    BY <1>4, <1>12, <2>1, <2>2 DEF EditDropCover, Knows
<1>13. ASSUME EditList(s) \/ EditTokenRejected(s) \/ EditTold(s) \/ EditCrash(s)
              \/ \E u \in User : EditTell(s, u)
       PROVE  Knows(s)' /\ UNCHANGED <<row, stored, reused>> /\ pc[s] # "idle"
  <2>1. UNCHANGED <<row, stored, reused>> /\ pc[s] # "idle"
    BY <1>13 DEF EditList, EditTokenRejected, EditTold, EditCrash, EditTell, rows, history
  <2>2. pc'[s] \in {"idle", "tell"}
    BY <1>5, <1>13 DEF EditList, EditTokenRejected, EditTold, EditCrash, EditTell, EndEdit, Goto
  <2> QED
    BY <2>1, <2>2 DEF Knows
<1> QED
  BY <1>4, <1>6, <1>7, <1>9, <1>10, <1>11, <1>12, <1>13 DEF EditStep

LEMMA AroundKeepsLoneInv ==
  ASSUME LoneInv, Around
  PROVE  LoneInv'
<1>1. TypeOK'
  BY AroundKeepsType DEF LoneInv
<1>2. UNCHANGED <<row, stored, pc, change, seen, loaded, overlapped, reused>>
  BY DEF Around, Cancel, Join, Leave, Block, JobStep, JobStart, JobWarn, JobFails, JobCrash, Tick,
     rows, editVars, history
<1> QED
  BY <1>1, <1>2 DEF LoneInv, EditsAlone, Knows, Merged

LEMMA NextKeepsLoneInv == LoneInv /\ [Next]_vars => LoneInv'
<1>1. ASSUME LoneInv, UNCHANGED vars PROVE LoneInv'
  BY <1>1 DEF LoneInv, TypeOK, EditsAlone, Knows, Merged, vars, rows, editVars, history
<1> QED
  BY <1>1, NextCases, EditKeepsLoneInv, AroundKeepsLoneInv

LEMMA InitLone == Init => LoneInv
<1>1. ASSUME Init PROVE LoneInv
  <2>1. row.end > row.start /\ row.cover \in stored \cup {None}
    BY <1>1, EditingAssumption DEF Init, EditingAssumption, Columns, Instant
  <2> QED
    BY <1>1, <2>1, InitTyped DEF Init, LoneInv, EditsAlone, Knows
<1> QED
  BY <1>1

LEMMA LoneInvHolds == Spec => []LoneInv
  BY InitLone, NextKeepsLoneInv, PTL DEF Spec

(* Edits that never overlap leave an event that ends after it starts and,  *)
(* unless one of them named a cover that was gone by then, a cover that    *)
(* exists, wherever they crash: the old object goes only after the commit  *)
(* that took it down (services/event.py:330-337).                          *)
THEOREM LoneEditsAreConsistent == Spec => []LoneEditsConsistent
<1>1. LoneInv => LoneEditsConsistent
  BY DEF LoneInv, LoneEditsConsistent
<1> QED
  BY <1>1, LoneInvHolds, PTL

-----------------------------------------------------------------------------
(* Who is told of a new date                                               *)

(* Whom an edit has still to tell, while it is the only one and nothing    *)
(* crashed: nobody before it commits, anybody between the commit and the   *)
(* list of participants, and then those it lists or has drafted.           *)
Tells(s) ==
  /\ pc[s] \in {"load", "write"} => outdated \cap confirmed = {}
  /\ pc[s] = "cover" /\ change[s].start = Keep => outdated \cap confirmed = {}
  /\ pc[s] = "tell" => outdated \cap confirmed \subseteq toTell[s] \cup draft[s]

ToldInv ==
  /\ LoneInv
  /\ confirmed \cap blocked = {}
  /\ ~overlapped /\ crashes = 0 =>
       /\ \A s \in Session : Tells(s)
       /\ Editing = {} => outdated \cap confirmed = {}

LEMMA EditKeepsToldInv ==
  ASSUME ToldInv, NEW s \in Session,
         EditStep(s) \/ EditCrash(s) \/ \E ch \in Changes : RequestEdit(s, ch)
  PROVE  ToldInv'
<1>1. LoneInv' /\ LoneInv /\ TypeOK /\ TypeOK'
  BY EditKeepsLoneInv, EditKeepsType DEF ToldInv, LoneInv
<1>2. UNCHANGED <<confirmed, blocked>> /\ confirmed \cap blocked = {}
  BY DEF ToldInv, EditStep, EditLoad, EditCommit, EditDropCover, EditList, EditTell,
     EditTokenRejected, EditTold, EditCrash, RequestEdit, rows
<1>3. SUFFICES ASSUME ~overlapped', crashes' = 0
               PROVE  /\ \A t \in Session : Tells(t)'
                      /\ Editing' = {} => (outdated \cap confirmed = {})'
  BY <1>1, <1>2 DEF ToldInv
<1>4. ~overlapped /\ crashes = 0 /\ ~EditCrash(s)
  BY <1>1, <1>3 DEF EditStep, EditLoad, EditCommit, EditDropCover, EditList, EditTell,
     EditTokenRejected, EditTold, EditCrash, RequestEdit, history, TypeOK
<1>5. /\ EditsAlone /\ Knows(s) /\ Tells(s)
      /\ Editing = {} => outdated \cap confirmed = {}
  BY <1>4 DEF LoneInv, ToldInv
<1>6. /\ pc \in [Session -> Stage] /\ change \in [Session -> Change] /\ seen \in [Session -> Columns]
      /\ loaded \in [Session -> Columns] /\ row \in Columns
      /\ toTell \in [Session -> SUBSET User] /\ draft \in [Session -> SUBSET User]
  BY <1>1 DEF TypeOK
<1>7. \A t \in Session \ {s} : pc'[t] = "idle"
  <2>1. \A t \in Session \ {s} : pc'[t] = pc[t]
    BY <1>6 DEF EditStep, EditLoad, EditCommit, EditDropCover, EditList, EditTell,
       EditTokenRejected, EditTold, EditCrash, RequestEdit, EndEdit, Goto
  <2>2. CASE pc[s] # "idle"
    BY <1>5, <2>1, <2>2 DEF EditsAlone
  <2>3. CASE \E ch \in Changes : RequestEdit(s, ch)
    <3>1. Editing = {}
      BY <1>3, <1>4, <2>3 DEF RequestEdit
    <3> QED
      BY <2>1, <3>1 DEF Editing
  <2> QED
    BY <2>2, <2>3 DEF EditStep, EditLoad, EditCommit, EditDropCover, EditList, EditTell,
       EditTokenRejected, EditTold, EditCrash
<1>8. \A t \in Session \ {s} : Tells(t)'
  BY <1>7 DEF Tells
<1>9. ASSUME pc'[s] # "idle", Tells(s)'
      PROVE  /\ \A t \in Session : Tells(t)'
             /\ Editing' = {} => (outdated \cap confirmed = {})'
  BY <1>8, <1>9 DEF Editing
<1>10. ASSUME pc'[s] = "idle", (outdated \cap confirmed = {})'
       PROVE  /\ \A t \in Session : Tells(t)'
              /\ Editing' = {} => (outdated \cap confirmed = {})'
  BY <1>8, <1>10 DEF Tells
<1>11. ASSUME NEW ch \in Changes, RequestEdit(s, ch) PROVE pc'[s] # "idle" /\ Tells(s)'
  <2>1. Editing = {}
    BY <1>3, <1>4, <1>11 DEF RequestEdit
  <2>2. pc'[s] = "load" /\ outdated' = outdated
    BY <1>6, <1>11 DEF RequestEdit, Goto
  <2> QED
    BY <1>2, <1>5, <2>1, <2>2 DEF Tells
<1>12. ASSUME EditLoad(s) PROVE pc'[s] # "idle" /\ Tells(s)'
  <2>1. pc[s] = "load" /\ pc'[s] = "write" /\ outdated' = outdated
    BY <1>6, <1>12 DEF EditLoad, Goto, history
  <2> QED
    BY <1>2, <1>5, <2>1 DEF Tells
<1>13. ASSUME EditCommit(s) PROVE pc'[s] # "idle" /\ Tells(s)'
  <2>1. /\ pc[s] = "write" /\ pc'[s] = "cover" /\ UNCHANGED change /\ row' = Written(s)
        /\ seen[s] = row /\ loaded[s] = row /\ outdated \cap confirmed = {}
        /\ outdated' = IF row'.start # row.start THEN confirmed ELSE outdated
    BY <1>5, <1>6, <1>13 DEF EditCommit, Goto, Knows, Tells
  <2>2. ASSUME change[s].start = Keep PROVE row'.start = row.start
    <3>1. Merged(seen[s], change[s]).start = loaded[s].start
      BY <1>6, <2>1, <2>2, MergedColumns
    <3>2. Written(s).start = row.start
      BY <1>1, <3>1, WrittenColumns
    <3> QED
      BY <2>1, <3>2
  <2> QED
    BY <1>2, <2>1, <2>2 DEF Tells
<1>14. ASSUME EditDropCover(s)
       PROVE  \/ pc'[s] # "idle" /\ Tells(s)'
              \/ pc'[s] = "idle" /\ (outdated \cap confirmed = {})'
  <2>1. pc[s] = "cover" /\ outdated' = outdated
    BY <1>14 DEF EditDropCover, history
  <2>2. CASE change[s].start = Keep /\ EndEdit(s)
    BY <1>2, <1>5, <1>6, <2>1, <2>2 DEF EndEdit, Goto, Tells
  <2>3. CASE Goto(s, "list")
    BY <1>6, <2>3 DEF Goto, Tells
  <2> QED
    BY <1>14, <2>2, <2>3 DEF EditDropCover
<1>15. ASSUME EditList(s) PROVE pc'[s] # "idle" /\ Tells(s)'
  <2>1. pc'[s] = "tell" /\ toTell'[s] = confirmed
    BY <1>6, <1>15 DEF EditList, Goto
  <2> QED
    BY <1>2, <2>1 DEF Tells
<1>16. ASSUME NEW u \in User, EditTell(s, u) PROVE pc'[s] # "idle" /\ Tells(s)'
  <2>1. /\ pc[s] = "tell" /\ pc'[s] = "tell" /\ outdated' = outdated
        /\ toTell'[s] = toTell[s] \ {u} /\ draft'[s] = draft[s] \cup ({u} \ blocked)
    BY <1>6, <1>16 DEF EditTell, history
  <2>2. outdated \cap confirmed \subseteq toTell[s] \cup draft[s]
    BY <1>5, <2>1 DEF Tells
  <2>3. (outdated \cap confirmed)' \subseteq toTell'[s] \cup draft'[s]
    BY <1>2, <2>1, <2>2
  <2> QED
    BY <2>1, <2>3 DEF Tells
<1>17. ASSUME EditTokenRejected(s) PROVE pc'[s] # "idle" /\ Tells(s)'
  <2>1. /\ pc[s] = "tell" /\ pc'[s] = "tell" /\ outdated' = outdated \ draft[s]
        /\ toTell' = toTell
    BY <1>17 DEF EditTokenRejected
  <2>2. outdated \cap confirmed \subseteq toTell[s] \cup draft[s]
    BY <1>5, <2>1 DEF Tells
  <2> QED
    BY <1>2, <2>1, <2>2 DEF Tells
<1>18. ASSUME EditTold(s) PROVE pc'[s] = "idle" /\ (outdated \cap confirmed = {})'
  <2>1. /\ pc[s] = "tell" /\ pc'[s] = "idle" /\ outdated' = outdated \ draft[s]
        /\ toTell[s] = {}
    BY <1>6, <1>18 DEF EditTold, EndEdit, Goto
  <2>2. outdated \cap confirmed \subseteq toTell[s] \cup draft[s]
    BY <1>5, <2>1 DEF Tells
  <2> QED
    BY <1>2, <2>1, <2>2
<1> QED
  BY <1>4, <1>9, <1>10, <1>11, <1>12, <1>13, <1>14, <1>15, <1>16, <1>17, <1>18 DEF EditStep

LEMMA AroundKeepsToldInv ==
  ASSUME ToldInv, Around
  PROVE  ToldInv'
<1>1. LoneInv' /\ TypeOK
  BY AroundKeepsLoneInv DEF ToldInv, LoneInv
<1>2. UNCHANGED <<pc, change, toTell, draft, overlapped>>
  BY DEF Around, Cancel, Join, Leave, Block, JobStep, JobStart, JobWarn, JobFails, JobCrash, Tick,
     rows, editVars, history
<1>3. Editing' = Editing
  BY <1>2 DEF Editing
<1>4. /\ confirmed' \cap blocked' = {}
      /\ outdated' \cap confirmed' \subseteq outdated \cap confirmed
      /\ crashes' = 0 => crashes = 0
  <2>1. CASE UNCHANGED <<confirmed, blocked, outdated, crashes>>
    BY <2>1 DEF ToldInv
  <2>2. ASSUME NEW u \in User, Join(u) \/ Leave(u) \/ Block(u)
        PROVE  /\ confirmed' \cap blocked' = {}
               /\ outdated' \cap confirmed' \subseteq outdated \cap confirmed
               /\ crashes' = crashes
    BY <2>2 DEF ToldInv, Join, Leave, Block, history
  <2>3. CASE JobCrash \/ \E u \in User : JobFails(u)
    BY <1>1, <2>3 DEF ToldInv, JobCrash, JobFails, TypeOK, rows, history
  <2>4. CASE Cancel \/ JobStep \/ Tick
    BY <2>1, <2>4 DEF Cancel, JobStep, JobStart, JobWarn, Tick, rows, history
  <2> QED
    BY <2>2, <2>3, <2>4 DEF Around
<1>5. \A s \in Session : Tells(s) => Tells(s)'
  BY <1>2, <1>4 DEF Tells
<1> QED
  BY <1>1, <1>2, <1>3, <1>4, <1>5 DEF ToldInv

LEMMA NextKeepsToldInv == ToldInv /\ [Next]_vars => ToldInv'
<1>1. ASSUME ToldInv, UNCHANGED vars PROVE ToldInv'
  <2>1. LoneInv'
    BY <1>1, NextKeepsLoneInv DEF ToldInv
  <2>2. UNCHANGED <<pc, change, toTell, draft, overlapped, confirmed, blocked, outdated, crashes>>
    BY <1>1 DEF vars, rows, editVars, history
  <2> QED
    BY <1>1, <2>1, <2>2 DEF ToldInv, Tells, Editing
<1> QED
  BY <1>1, NextCases, EditKeepsToldInv, AroundKeepsToldInv

(* Whoever takes part when the start moves is told of it: when no edit is  *)
(* under way, none overlapped and nothing crashed, every participant has   *)
(* heard of the current start, whoever left, joined or was blocked while   *)
(* the notices were written (services/event.py:343-346).                   *)
THEOREM NewDatesReachAll == Spec => []RescheduleReachesAll
<1>1. Init => ToldInv
  <2>1. Init => LoneInv
    BY InitLone
  <2> QED
    BY <2>1 DEF Init, ToldInv, Tells
<1>2. ToldInv => RescheduleReachesAll
  BY DEF ToldInv, RescheduleReachesAll
<1> QED
  BY <1>1, <1>2, NextKeepsToldInv, PTL DEF Spec

(* A cancellation is final: no edit, whatever it read before, writes the   *)
(* status back (repository/event.py:264-276).                              *)
THEOREM CancellationIsFinal == Spec => CancelledStays
<1> DEFINE Stays == status = "CANCELLED" => status' = "CANCELLED"
<1>1. [Next]_vars => [Stays]_vars
  <2>1. ASSUME NEW s \in Session,
               EditStep(s) \/ EditCrash(s) \/ \E ch \in Changes : RequestEdit(s, ch)
        PROVE  status' = status
    BY <2>1 DEF EditStep, EditLoad, EditCommit, EditDropCover, EditList, EditTell,
       EditTokenRejected, EditTold, EditCrash, RequestEdit, rows
  <2>2. Around => Stays
    BY DEF Around, Cancel, Join, Leave, Block, JobStep, JobStart, JobWarn, JobFails, JobCrash, Tick,
       rows
  <2> QED
    BY <2>1, <2>2, NextCases
<1> QED
  BY <1>1, PTL DEF Spec, CancelledStays
=============================================================================
