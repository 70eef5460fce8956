----------------------------- MODULE MCServices ------------------------------
(* A small instance of each of the services. *)
EXTENDS Services, TLC

CONSTANTS a, b, p1, p2, b1,     \* users
          e1, e2,               \* events
          m1, m2, k1, k2,       \* emails, documents
          s1, s2                \* sessions

(* Each of two users organizes an event of some privacy, or both events    *)
(* are in the seed.                                                        *)
EachOther == (e1 :> b @@ e2 :> a)
Kinds(rule, stage) ==
  LET kind(i) == [privacy |-> rule[i], capacity |-> 1, status |-> stage[i]]
  IN (e1 :> kind(1) @@ e2 :> kind(2))
SomeSeeds ==
  {Kinds(rule, stage) :
     rule \in {<<"PUBLIC", "INVITE_ONLY">>, <<"PRIVATE", "PUBLIC">>,
               <<"INVITE_ONLY", "PRIVATE">>},
     stage \in {<<"ABSENT", "ABSENT">>, <<"DRAFT", "FINISHED">>}}

(* Sessions are interchangeable, and so are emails and documents, which    *)
(* are only compared.                                                      *)
Interchangeable ==
  Permutations({s1, s2}) \cup Permutations({m1, m2}) \cup Permutations({k1, k2})
=============================================================================
