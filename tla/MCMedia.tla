------------------------------- MODULE MCMedia --------------------------------
(* Two guests, one of them the organizer, two objects and two sessions.     *)
EXTENDS Media, TLC

CONSTANTS a, b, s1, s2, o1, o2

(* Sessions are interchangeable, and so are objects of the storage.        *)
Interchangeable == Permutations({s1, s2}) \cup Permutations({o1, o2})
=============================================================================
