------------------------------ MODULE MCEditing ------------------------------
(***************************************************************************)
(* EventEditing.tla on small instances.                                    *)
(***************************************************************************)
EXTENDS EventEditing

CONSTANTS ann,       \* a user
          s1, s2,    \* sessions
          c1, c2     \* covers

(* A short event and a long one, without and with a cover.                 *)
Events == {[start |-> 2, end |-> 3, cover |-> None], [start |-> 1, end |-> 3, cover |-> c1]}

(* A field at a time, a move of both dates, and a move with a new cover.   *)
FewChanges ==
  {ch \in Change :
     \/ ch \in {[NoChange EXCEPT !.start = 2], [NoChange EXCEPT !.end = 2],
               [NoChange EXCEPT !.start = 1, !.end = 2]}
     \/ ch = [NoChange EXCEPT !.cover = ch.cover] /\ ch.cover # Keep
     \/ ch = [NoChange EXCEPT !.start = 2, !.cover = c1]}

(* Moves of one date or of both.                                           *)
DateChanges == {ch \in Change : ch.cover = Keep /\ ch # NoChange}
=============================================================================
