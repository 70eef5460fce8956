---------------------------- MODULE PairRelations ----------------------------
(***************************************************************************)
(* What the connection endpoints promise about two people: there is at     *)
(* most one relation between them, asked for by one and answered once by   *)
(* the other, and a block ends it, as the deletion of an account ends what *)
(* there was before it.  Every request takes effect in one atomic step.    *)
(* Connections.tla implements this specification.                          *)
(***************************************************************************)
CONSTANTS
  User,  \* people with a personal account
  None   \* nobody

VARIABLES
  relation,  \* relation[p]: what there is between the two users of p
  blocks,    \* rows of user_block, as <<blocker, blocked>>
  deleted    \* users whose deleted_at is set

relationVars == <<relation, blocks, deleted>>

Couple == {p \in SUBSET User : \E a, b \in User : a # b /\ p = {a, b}}

Nothing == [by |-> None, status |-> "NONE"]

Parted(a, b) == <<a, b>> \in blocks \/ <<b, a>> \in blocks

Init ==
  /\ relation = [p \in Couple |-> Nothing]
  /\ blocks = {}
  /\ deleted = {}

Unblock(a, b) ==
  /\ blocks' = blocks \ {<<a, b>>}
  /\ UNCHANGED <<relation, deleted>>

Ask(a, b) ==
  /\ a # b
  /\ ~Parted(a, b)
  /\ relation[{a, b}] = Nothing
  /\ relation' = [relation EXCEPT ![{a, b}] = [by |-> a, status |-> "PENDING"]]
  /\ UNCHANGED <<blocks, deleted>>

Answer(p, status) ==
  /\ relation[p].status = "PENDING"
  /\ relation' = [relation EXCEPT ![p].status = status]
  /\ UNCHANGED <<blocks, deleted>>

Undo(p) ==
  /\ relation[p] # Nothing
  /\ relation' = [relation EXCEPT ![p] = Nothing]
  /\ UNCHANGED <<blocks, deleted>>

(* A rejection outlives the block: it keeps the pair from asking again.    *)
Block(a, b) ==
  /\ a # b
  /\ blocks' = blocks \cup {<<a, b>>}
  /\ relation' = IF relation[{a, b}].status = "REJECTED" THEN relation
                 ELSE [relation EXCEPT ![{a, b}] = Nothing]
  /\ UNCHANGED deleted

(* A relation that starts while the deletion is under way may outlive it.  *)
DeleteAccount(u) ==
  /\ deleted' = deleted \cup {u}
  /\ \E kept \in SUBSET Couple :
       relation' = [p \in Couple |->
                      IF u \in p /\ p \notin kept THEN Nothing ELSE relation[p]]
  /\ UNCHANGED blocks

Next ==
  \/ \E a, b \in User : Unblock(a, b) \/ Ask(a, b) \/ Block(a, b)
  \/ \E p \in Couple :
        Undo(p) \/ \E status \in {"CONFIRMED", "REJECTED"} : Answer(p, status)
  \/ \E u \in User : DeleteAccount(u)

Spec == Init /\ [][Next]_relationVars
=============================================================================
