--------------------------- MODULE EventLifecycle ---------------------------
(***************************************************************************)
(* What the participation endpoints promise, with every request taking     *)
(* effect in one atomic step: who may hold a seat at an event, and how a   *)
(* block, a withdrawal or the deletion of an account takes a seat away.    *)
(* Participation.tla is the transaction-level specification; it implements *)
(* this one.                                                               *)
(***************************************************************************)
EXTENDS Naturals, FiniteSets

CONSTANTS
  User,       \* people with an account
  Event,      \* event ids
  Organizer,  \* Organizer[e] is the user who creates event e
  None        \* the null of a nullable column

VARIABLES
  eventStatus,    \* eventStatus[e]: "ABSENT" before creation, then the column
  capacity,       \* capacity[e]: max_participants, or None for no limit
  participation,  \* participation[e][u]: status of the (event, user) row
  blocks,         \* rows of user_block, as <<blocker, blocked>>
  deleted         \* users whose deleted_at is set

lifecycleVars == <<eventStatus, capacity, participation, blocks, deleted>>

Active == {"PENDING", "CONFIRMED"}

(* Rows a user may (re)enter the event from: no row yet, or one the user   *)
(* (or a block) cancelled.                                                 *)
Reenterable == {"NONE", "CANCELLED"}

(* The organizer's state machine over a participant row.                   *)
Answers == {<<"PENDING", "CONFIRMED">>, <<"PENDING", "REJECTED">>,
            <<"CONFIRMED", "REMOVED">>}

HasSeat(e) ==
  IF capacity[e] = None THEN TRUE
  ELSE Cardinality({u \in User : participation[e][u] = "CONFIRMED"}) < capacity[e]

Separated(e, u) ==
  \/ <<Organizer[e], u>> \in blocks
  \/ <<u, Organizer[e]>> \in blocks

Init ==
  /\ eventStatus = [e \in Event |-> "ABSENT"]
  /\ participation = [e \in Event |-> [u \in User |-> "NONE"]]
  /\ blocks = {}
  /\ deleted = {}

(* Cancel every active row of `rows`, a set of <<event, user>> pairs.      *)
WithdrawRows(rows) ==
  participation' = [e \in Event |-> [u \in User |->
      IF <<e, u>> \in rows /\ participation[e][u] \in Active
      THEN "CANCELLED" ELSE participation[e][u]]]

Publish(e) ==
  /\ eventStatus[e] = "ABSENT"
  /\ eventStatus' = [eventStatus EXCEPT ![e] = "PUBLISHED"]
  /\ UNCHANGED <<capacity, participation, blocks, deleted>>

Enter(e, u, status) ==
  /\ eventStatus[e] = "PUBLISHED"
  /\ ~Separated(e, u)
  /\ participation[e][u] \in Reenterable
  /\ HasSeat(e)
  /\ participation' = [participation EXCEPT ![e][u] = status]
  /\ UNCHANGED <<eventStatus, capacity, blocks, deleted>>

Answer(e, u, status) ==
  /\ <<participation[e][u], status>> \in Answers
  /\ ~Separated(e, u)
  /\ status = "CONFIRMED" => HasSeat(e)
  /\ participation' = [participation EXCEPT ![e][u] = status]
  /\ UNCHANGED <<eventStatus, capacity, blocks, deleted>>

Leave(e, u) ==
  /\ participation[e][u] \in Active
  /\ participation' = [participation EXCEPT ![e][u] = "CANCELLED"]
  /\ UNCHANGED <<eventStatus, capacity, blocks, deleted>>

CancelEvent(e) ==
  /\ eventStatus[e] # "ABSENT"
  /\ eventStatus' = [eventStatus EXCEPT ![e] = "CANCELLED"]
  /\ UNCHANGED <<capacity, participation, blocks, deleted>>

Block(a, b) ==
  /\ a # b
  /\ blocks' = blocks \cup {<<a, b>>}
  /\ WithdrawRows({r \in Event \X User : {Organizer[r[1]], r[2]} = {a, b}})
  /\ UNCHANGED <<eventStatus, capacity, deleted>>

Unblock(a, b) ==
  /\ blocks' = blocks \ {<<a, b>>}
  /\ UNCHANGED <<eventStatus, capacity, participation, deleted>>

(* A participation that starts while the deletion is under way may outlive *)
(* it.                                                                     *)
DeleteAccount(u) ==
  /\ deleted' = deleted \cup {u}
  /\ \E kept \in SUBSET Event : WithdrawRows((Event \ kept) \X {u})
  /\ UNCHANGED <<eventStatus, capacity, blocks>>

Next ==
  \/ \E a, b \in User : Unblock(a, b) \/ Block(a, b)
  \/ \E u \in User : DeleteAccount(u)
  \/ \E e \in Event : Publish(e) \/ CancelEvent(e)
  \/ \E e \in Event, u \in User :
        \/ \E status \in Active : Enter(e, u, status)
        \/ \E status \in {"CONFIRMED", "REJECTED", "REMOVED"} : Answer(e, u, status)
        \/ Leave(e, u)

Spec == Init /\ [][Next]_lifecycleVars
=============================================================================
