---------------------------- MODULE MCConnections ----------------------------
(***************************************************************************)
(* Connections.tla on a small instance.                                    *)
(***************************************************************************)
EXTENDS Connections, TLC

CONSTANTS ann, bob, cat,  \* users
          s1, s2          \* sessions

(* People are interchangeable, and so are sessions.                        *)
Interchangeable == Permutations({ann, bob, cat}) \cup Permutations({s1, s2})
=============================================================================
