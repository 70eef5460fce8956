-------------------------- MODULE MCParticipation --------------------------
(***************************************************************************)
(* Participation.tla on small instances.                                   *)
(***************************************************************************)
EXTENDS Participation, TLC

CONSTANTS org, ann, bob,   \* users
          e1, e2,          \* events
          s1, s2           \* sessions

(* One organizer and two guests.                                           *)
OneOrganizer == [e \in Event |-> org]

(* Guests are interchangeable, and so are sessions.                        *)
Interchangeable == Permutations({ann, bob}) \cup Permutations({s1, s2})
=============================================================================
