------------------------------ MODULE Taxonomy -------------------------------
(***************************************************************************)
(* The tags a user picks and the sections of the feed: every interest is   *)
(* rolled up to its macro tag by loading the missing ancestors a level at  *)
(* a time and climbing what was loaded.  No request changes a tag, so the  *)
(* tree is any one the table can hold; the feed is a function of it and of *)
(* the interests.                                                          *)
(***************************************************************************)
EXTENDS Naturals, FiniteSets

CONSTANTS
  Tag,          \* tag ids
  NoParent,     \* the null of tag_parent_id
  MaxTagDepth   \* MAX_TAG_DEPTH, the rounds of loading

VARIABLES
  parent,      \* tag_parent_id of each tag
  interests    \* rows of user_tag of one user

taxonomyVars == <<parent, interests>>

(* What the module asks of its constants.                                  *)
TaxonomyConstants == IsFiniteSet(Tag) /\ NoParent \notin Tag /\ MaxTagDepth \in Nat

(* Every variable has its type. *)
TaxonomyTypeOK == parent \in [Tag -> Tag \cup {NoParent}] /\ interests \subseteq Tag

TaxonomyInit == parent \in [Tag -> Tag \cup {NoParent}] /\ interests = {}

-----------------------------------------------------------------------------
(* The lists of tags *)

MacroTags == {t \in Tag : parent[t] = NoParent}
MicroTags == Tag \ MacroTags

(* GET /tags with the children of a tag, which must be a macro.            *)
ListChildren(t) == IF t \in MacroTags THEN {c \in Tag : parent[c] = t} ELSE {}

(* PUT /users/me/tags: a macro tag among the chosen refuses them all.      *)
ReplaceInterests(chosen) ==
  /\ chosen \subseteq MicroTags
  /\ interests' = chosen
  /\ UNCHANGED parent

-----------------------------------------------------------------------------
(* The sections of the feed *)

MissingParents(tags, known) == {parent[t] : t \in tags} \ (known \cup {NoParent})

(* round[i]: what is known, and what is left to load, after i rounds.      *)
Rounds ==
  LET round[i \in 0..MaxTagDepth] ==
        IF i = 0 THEN [known |-> interests, pending |-> MissingParents(interests, interests)]
        ELSE LET last == round[i - 1]
                 known == last.known \cup last.pending
             IN [known |-> known, pending |-> MissingParents(last.pending, known)]
  IN round

(* Stops a round too early.                                                *)
MutKnownTags == Rounds[IF MaxTagDepth = 0 THEN 0 ELSE MaxTagDepth - 1].known

KnownTags == Rounds[MaxTagDepth].known

(* climb[i]: where _macro_tag_of is after i steps.  It stops at a tag with *)
(* no parent, below one that was not loaded, or at one already visited.    *)
MacroTagOf(t) ==
  LET climb[i \in 0..Cardinality(Tag)] ==
        IF i = 0 THEN [at |-> t, visited |-> {}]
        ELSE LET last == climb[i - 1]
                 up == parent[last.at]
             IN IF up \in KnownTags \ last.visited
                THEN [at |-> up, visited |-> last.visited \cup {up}]
                ELSE last
  IN climb[Cardinality(Tag)].at

(* The interests collected under one macro tag.                            *)
Section(m) == {t \in interests : MacroTagOf(t) = m}
Sections == {MacroTagOf(t) : t \in interests}

TaxonomyNext == \E chosen \in SUBSET Tag : ReplaceInterests(chosen)

TaxonomySpec == TaxonomyInit /\ [][TaxonomyNext]_taxonomyVars

-----------------------------------------------------------------------------
(* Properties *)

(* ancestors[i]: the tag i levels above t, NoParent above the last.        *)
Ancestors(t) ==
  LET up[i \in 0..(MaxTagDepth + 1)] ==
        IF i = 0 THEN t ELSE IF up[i - 1] = NoParent THEN NoParent ELSE parent[up[i - 1]]
  IN up

(* Whatever the table holds, cycles included, an interest with a macro tag *)
(* at most MAX_TAG_DEPTH levels above it is listed in the section of that  *)
(* macro tag, with every other interest below the same one, and in no      *)
(* other section.                                                          *)
GroupedUnderRoot ==
  \A t \in interests : \A i \in 1..(MaxTagDepth + 1) :
    LET root == Ancestors(t)[i - 1] IN
    root # NoParent /\ Ancestors(t)[i] = NoParent =>
      /\ root \in MacroTags
      /\ {m \in Sections : t \in Section(m)} = {root}
      /\ \A c \in interests \cap ListChildren(root) : c \in Section(root)
=============================================================================
