---------------------------- MODULE ListingsProofs -----------------------------
(***************************************************************************)
(* Theorems about what is read.  Listings.tla: on which points the queries *)
(* of the read endpoints agree, for any number of users and events.        *)
(* Paging.tla: what a client that walks a list page by page is given, for  *)
(* any number of rows, page sizes and changes.  Taxonomy.tla: under which  *)
(* macro tag the feed lists an interest, for every table of tags.          *)
(***************************************************************************)
EXTENDS Listings, Paging, Taxonomy, Integers, FiniteSetTheorems, FunctionTheorems,
        WellFoundedInduction, TLAPS

-----------------------------------------------------------------------------
(* Types, and who may still be a participant                               *)

(* Nobody blocks himself, and a block leaves no active participation       *)
(* between its two ends.                                                   *)
ListInv ==
  /\ TypeOK
  /\ \A u \in User : <<u, u>> \notin blocks
  /\ \A e \in Event, u \in User : participation[e][u] \in Active => ~Separated(e, u)

ParticipationTyped ==
  participation \in [Event -> [User ->
       {"NONE", "PENDING", "CONFIRMED", "REJECTED", "REMOVED", "CANCELLED"}]]

(* Withdrawing rows cancels the active ones among them.                    *)
LEMMA Withdrawn ==
  ASSUME ParticipationTyped, NEW withdrawn, WithdrawRows(withdrawn)
  PROVE  /\ ParticipationTyped'
         /\ \A e \in Event, u \in User :
              /\ participation'[e][u] \in Active => /\ participation[e][u] \in Active
                                                   /\ <<e, u>> \notin withdrawn
BY DEF ParticipationTyped, WithdrawRows, Active

LEMMA SeededListInv ==
  ASSUME ListingsConstants
  PROVE  Seeded => ListInv
<1> SUFFICES ASSUME Seeded PROVE ListInv
  OBVIOUS
<1>1. PICK kind \in [Event -> Kind] :
        /\ privacy = [e \in Event |-> kind[e].privacy]
        /\ capacity = [e \in Event |-> kind[e].capacity]
        /\ eventStatus = [e \in Event |-> kind[e].status]
  BY DEF Seeded, ListingsConstants
<1>2. \A e \in Event : /\ kind[e].privacy \in Privacy /\ kind[e].capacity \in Nat \cup {None}
                       /\ kind[e].status \in {"ABSENT", "DRAFT", "FINISHED"}
  BY DEF Kind
<1>3. /\ privacy \in [Event -> Privacy] /\ capacity \in [Event -> Nat \cup {None}]
      /\ eventStatus \in [Event -> {"ABSENT", "DRAFT", "PUBLISHED", "CANCELLED", "FINISHED"}]
  BY <1>1, <1>2
<1>4. /\ phase \in [Event -> Phase] /\ blocks = {} /\ deleted = {} /\ favorites = {}
      /\ ParticipationTyped /\ \A e \in Event, u \in User : participation[e][u] = "NONE"
  BY DEF Seeded, Phase, ParticipationTyped
<1> QED
  BY <1>3, <1>4 DEF ListInv, TypeOK, ParticipationTyped, Active

(* What no request on participations changes keeps its type.               *)
LEMMA ByParticipation ==
  ASSUME ListInv, ParticipationTyped',
         UNCHANGED <<eventStatus, capacity, blocks, deleted, privacy, phase, favorites>>,
         \A e \in Event, u \in User :
           participation'[e][u] \in Active => participation[e][u] \in Active \/ ~Separated(e, u)
  PROVE  ListInv'
BY DEF ListInv, TypeOK, ParticipationTyped, Separated

LEMMA ChangedKeepsListInv ==
  ASSUME ListingsConstants, ListInv, Changed
  PROVE  ListInv'
<1>1. /\ TypeOK /\ ParticipationTyped /\ Organizer \in [Event -> User]
      /\ \A u \in User : <<u, u>> \notin blocks
      /\ \A e \in Event, u \in User : participation[e][u] \in Active => ~Separated(e, u)
  BY DEF ListInv, TypeOK, ParticipationTyped, ListingsConstants
<1>2. ASSUME NEW e \in Event, CreateEvent(e) \/ OrganizerCancels(e) PROVE ListInv'
  BY <1>2 DEF ListInv, TypeOK, CreateEvent, Publish, OrganizerCancels, CancelEvent, ownVars, Separated
<1>3. ASSUME NEW e \in Event, Elapse(e) \/ \E p \in Phase : Reschedule(e, p) PROVE ListInv'
  <2>1. phase' \in [Event -> Phase]
    BY <1>1, <1>3 DEF TypeOK, Elapse, Reschedule, Phase
  <2>2. UNCHANGED <<lifecycleVars, privacy, favorites>>
    BY <1>3 DEF Elapse, Reschedule
  <2> QED
    BY <2>1, <2>2 DEF ListInv, TypeOK, lifecycleVars, Separated
<1>4. ASSUME NEW e \in Event, NEW u \in User,
             RequestOrJoin(e, u) \/ AcceptInvite(e, u) \/ CancelParticipation(e, u)
               \/ \E status \in {"CONFIRMED", "REJECTED", "REMOVED"} : AnswerRequest(e, u, status)
      PROVE  ListInv'
  <2>1. PICK status \in {"PENDING", "CONFIRMED", "REJECTED", "REMOVED", "CANCELLED"} :
          /\ participation' = [participation EXCEPT ![e][u] = status]
          /\ status \in Active => ~Separated(e, u)
          /\ UNCHANGED <<eventStatus, capacity, blocks, deleted, ownVars>>
    BY <1>4 DEF RequestOrJoin, AcceptInvite, CancelParticipation, AnswerRequest, Enter, Leave, Answer,
       Active
  <2>2. /\ ParticipationTyped' /\ participation'[e][u] = status
        /\ \A f \in Event, v \in User : f # e \/ v # u => participation'[f][v] = participation[f][v]
    BY <1>1, <2>1 DEF ParticipationTyped
  <2> QED
    BY <2>1, <2>2, ByParticipation DEF ownVars
<1>5. ASSUME NEW e \in Event, NEW u \in User, Favorite(e, u) \/ Unfavorite(e, u) PROVE ListInv'
  <2>1. favorites' \subseteq User \X Event
    BY <1>1, <1>5 DEF TypeOK, Favorite, Unfavorite
  <2>2. UNCHANGED <<lifecycleVars, privacy, phase>>
    BY <1>5 DEF Favorite, Unfavorite
  <2> QED
    BY <2>1, <2>2 DEF ListInv, TypeOK, lifecycleVars, Separated
<1>6. ASSUME NEW a \in User, NEW b \in User, BlockUser(a, b) PROVE ListInv'
  <2>1. /\ a # b /\ blocks' = blocks \cup {<<a, b>>}
        /\ UNCHANGED <<eventStatus, capacity, deleted, ownVars>>
    BY <1>6 DEF BlockUser, Block
  <2>2. /\ ParticipationTyped'
        /\ \A e \in Event, u \in User : participation'[e][u] \in Active =>
             /\ participation[e][u] \in Active
             /\ <<e, u>> \notin {r \in Event \X User : {Organizer[r[1]], r[2]} = {a, b}}
    <3>1. WithdrawRows({r \in Event \X User : {Organizer[r[1]], r[2]} = {a, b}})
      BY <1>6 DEF BlockUser, Block
    <3> QED
      BY <1>1, <3>1, Withdrawn
  <2>3. ASSUME NEW e \in Event, NEW u \in User, participation'[e][u] \in Active
        PROVE  ~Separated(e, u)'
    <3>1. {Organizer[e], u} # {a, b}
      BY <2>2, <2>3
    <3>2. ~Separated(e, u)
      BY <1>1, <2>2, <2>3
    <3> QED
      BY <2>1, <3>1, <3>2 DEF Separated
  <2>4. blocks' \subseteq User \X User /\ \A u \in User : <<u, u>> \notin blocks'
    BY <1>1, <2>1 DEF TypeOK
  <2> QED
    BY <1>1, <2>1, <2>2, <2>3, <2>4 DEF ListInv, TypeOK, ParticipationTyped, ownVars
<1>7. ASSUME NEW a \in User, NEW b \in User, UnblockUser(a, b) PROVE ListInv'
  BY <1>1, <1>7 DEF UnblockUser, Unblock, ListInv, TypeOK, Separated, ownVars
<1>8. ASSUME NEW u \in User, DeleteUser(u) PROVE ListInv'
  <2>1. /\ deleted' = deleted \cup {u} /\ UNCHANGED <<eventStatus, capacity, blocks, ownVars>>
        /\ \E withdrawn : WithdrawRows(withdrawn)
    BY <1>8 DEF DeleteUser, DeleteAccount
  <2>2. /\ ParticipationTyped'
        /\ \A e \in Event, v \in User :
             participation'[e][v] \in Active => participation[e][v] \in Active
    BY <1>1, <2>1, Withdrawn
  <2> QED
    BY <1>1, <2>1, <2>2 DEF ListInv, TypeOK, ParticipationTyped, Separated, ownVars
<1> QED
  BY <1>2, <1>3, <1>4, <1>5, <1>6, <1>7, <1>8 DEF Changed

LEMMA ListInvHolds ==
  ASSUME ListingsConstants
  PROVE  ListingSpec => []ListInv
<1>1. ListInv /\ [Changed]_listingVars => ListInv'
  <2>1. ListInv /\ UNCHANGED listingVars => ListInv'
    BY DEF listingVars, lifecycleVars, ListInv, TypeOK, Separated
  <2> QED
    BY <2>1, ChangedKeepsListInv
<1> QED
  BY <1>1, SeededListInv, PTL DEF ListingSpec

(* Every variable keeps its type.                                          *)
THEOREM TypeCorrect ==
  ASSUME ListingsConstants
  PROVE  ListingSpec => []TypeOK
<1>1. ListInv => TypeOK
  BY DEF ListInv
<1> QED
  BY <1>1, ListInvHolds, PTL

-----------------------------------------------------------------------------
(* The queries agree                                                       *)

(* Whatever list shows a user an event, the event opens for him.           *)
THEOREM ListsOpen ==
  ASSUME ListingsConstants
  PROVE  ListingSpec => []ListedCanBeOpened
<1>1. ListInv => ListedCanBeOpened
  <2> SUFFICES ASSUME TypeOK, NEW v \in User \ deleted, NEW e \in Event,
                      \/ e \in Feed(v) \cup Nearby(v)
                      \/ \E u \in User : \E tab \in AllowedTabs(u, v) : e \in ListForUser(u, tab, v)
               PROVE  Opens(e, v)
    BY DEF ListInv, ListedCanBeOpened
  <2>1. CASE e \in Feed(v) \cup Nearby(v)
    BY <2>1 DEF Feed, Nearby, Discoverable, Opens, Exists
  <2>2. ASSUME NEW u \in User, NEW tab \in AllowedTabs(u, v), e \in ListForUser(u, tab, v)
        PROVE  Opens(e, v)
    <3>1. /\ Exists(e) /\ ~Hidden(Organizer[e], v) /\ (u # v => privacy[e] = "PUBLIC")
          /\ InTab(e, u, tab, u # v) /\ tab \in Tab
      BY <2>2 DEF ListForUser, AllowedTabs, Tab
    <3> QED
      BY <3>1 DEF Opens, InTab, Tab
  <2> QED
    BY <2>1, <2>2
<1> QED
  BY <1>1, ListInvHolds, PTL

(* What the details offer is accepted, and the gallery opens with them.    *)
THEOREM OffersAccepted ==
  ASSUME ListingsConstants
  PROVE  ListingSpec => []OfferedActionsAccepted
<1>1. ListInv => OfferedActionsAccepted
  <2> SUFFICES ASSUME TypeOK, NEW v \in User \ deleted, NEW e \in Event
               PROVE  /\ GalleryOpens(e, v) => Opens(e, v)
                      /\ Opens(e, v) =>
                        /\ AvailableAction(e, v) \in {"CONFIRM", "REQUEST"} => MayRequest(e, v)
                        /\ AvailableAction(e, v) = "CANCEL_PRESENCE" /\ ~Over(e) => MayCancel(e, v)
                        /\ CanSeeParticipants(e, v) => ListsParticipants(e, v)
                        /\ GalleryOpens(e, v) = (eventStatus[e] # "DRAFT")
    BY DEF ListInv, OfferedActionsAccepted
  <2>1. GalleryOpens(e, v) => Opens(e, v)
    BY DEF GalleryOpens, Opens
  <2>2. ASSUME Opens(e, v), AvailableAction(e, v) \in {"CONFIRM", "REQUEST"} PROVE MayRequest(e, v)
    BY <2>2 DEF AvailableAction, Opens, MayRequest, Separated, Hidden, Reenterable
  <2>3. ASSUME AvailableAction(e, v) = "CANCEL_PRESENCE", ~Over(e) PROVE MayCancel(e, v)
    BY <2>3 DEF AvailableAction, MayCancel, Active
  <2>4. ASSUME Opens(e, v), CanSeeParticipants(e, v) PROVE ListsParticipants(e, v)
    BY <2>4 DEF Opens, CanSeeParticipants, ListsParticipants
  <2>5. ASSUME Opens(e, v) PROVE GalleryOpens(e, v) = (eventStatus[e] # "DRAFT")
    BY <2>5 DEF Opens, GalleryOpens
  <2> QED
    BY <2>1, <2>2, <2>3, <2>4, <2>5
<1> QED
  BY <1>1, ListInvHolds, PTL

(* A card shows the address exactly when the details of the event do.      *)
THEOREM AddressesAgree ==
  ASSUME ListingsConstants
  PROVE  ListingSpec => []LocationsAgree
<1>1. ListInv => LocationsAgree
  <2> SUFFICES ASSUME TypeOK, NEW v \in User \ deleted PROVE
         /\ \A e \in Event : Shareable(e) /\ SharePrecision(e) = "EXACT"
              => DetailsPrecision(e, v) = "EXACT"
         /\ \A e \in Feed(v) : FeedPrecision(e, v) = DetailsPrecision(e, v)
         /\ \A e \in Nearby(v) : NearbyPrecision(e, v) = DetailsPrecision(e, v)
         /\ \A u \in User : Visible(u, v) =>
              \A tab \in AllowedTabs(u, v) : \A e \in ListForUser(u, tab, v) :
                 ItemPrecision(e, u, v) = DetailsPrecision(e, v)
    BY DEF ListInv, LocationsAgree
  <2>1. ASSUME NEW u \in User, NEW tab, NEW e \in ListForUser(u, tab, v)
        PROVE  ItemPrecision(e, u, v) = DetailsPrecision(e, v)
    BY DEF ListForUser, ItemPrecision, DetailsPrecision, Precision, Confirmed
  <2> QED
    BY <2>1 DEF FeedPrecision, NearbyPrecision, DetailsPrecision, SharePrecision, Precision
<1> QED
  BY <1>1, ListInvHolds, PTL

-----------------------------------------------------------------------------
(* The counters                                                            *)

(* Nobody who takes part in an event, or organizes it, is blocked from it. *)
LEMMA ParticipantsSeeTheirEvents ==
  ASSUME ListingsConstants, ListInv, NEW e \in Event, NEW u \in User,
         Organizer[e] = u \/ Confirmed(e, u)
  PROVE  ~Hidden(Organizer[e], u)
BY DEF ListInv, Confirmed, Active, Separated, Hidden

(* The tab of future events and its counter have the same query.           *)
LEMMA ConfirmedTab ==
  ASSUME ListingsConstants, ListInv, NEW u \in User
  PROVE  ConfirmedCount(u) = Cardinality(ListForUser(u, "CONFIRMED", u))
<1>1. ListForUser(u, "CONFIRMED", u)
        = {e \in Event : Confirmed(e, u) /\ eventStatus[e] = "PUBLISHED" /\ ~Over(e)}
  BY ParticipantsSeeTheirEvents DEF ListForUser, InTab, Exists
<1> QED
  BY <1>1 DEF ConfirmedCount

LEMMA HistoryTab ==
  ASSUME ListingsConstants, ListInv, NEW u \in User
  PROVE  PastCount(u) = Cardinality(ListForUser(u, "HISTORY", u))
<1>1. ListForUser(u, "HISTORY", u)
        = {e \in Event : /\ eventStatus[e] \in {"PUBLISHED", "FINISHED"} /\ Over(e)
                         /\ Organizer[e] = u \/ Confirmed(e, u)}
  BY ParticipantsSeeTheirEvents DEF ListForUser, InTab, Exists
<1> QED
  BY <1>1 DEF PastCount

(* What u organized is listed in one of two tabs: ahead or in the past.    *)
LEMMA CreatedTab ==
  ASSUME ListingsConstants, ListInv, NEW u \in User, NEW v \in User, Visible(u, v)
  PROVE  CreatedCount(u, u # v)
           = Cardinality({e \in ListForUser(u, "CREATED", v) : eventStatus[e] # "DRAFT"})
           + Cardinality({e \in ListForUser(u, "HISTORY", v) : Organizer[e] = u})
<1> DEFINE ahead == {e \in ListForUser(u, "CREATED", v) : eventStatus[e] # "DRAFT"}
           past == {e \in ListForUser(u, "HISTORY", v) : Organizer[e] = u}
           created == {e \in Event : /\ Organizer[e] = u
                                     /\ eventStatus[e] \in {"PUBLISHED", "FINISHED"}
                                     /\ (u # v) => privacy[e] = "PUBLIC"}
<1>1. \A e \in Event : Organizer[e] = u => ~Hidden(Organizer[e], v)
  BY DEF Visible, Hidden
<1>2. created = ahead \cup past
  <2>1. ASSUME NEW e \in Event, Organizer[e] = u
        PROVE  e \in created <=> e \in ahead \/ e \in past
    BY <1>1, <2>1 DEF ListForUser, InTab, Exists, Over
  <2>2. \A e \in ahead \cup past : e \in Event /\ Organizer[e] = u
    BY DEF ListForUser, InTab
  <2> QED
    BY <2>1, <2>2
<1>3. ahead \cap past = {}
  BY DEF ListForUser, InTab
<1>4. IsFiniteSet(ahead) /\ IsFiniteSet(past)
  <2>1. ahead \subseteq Event /\ past \subseteq Event
    BY DEF ListForUser
  <2>2. IsFiniteSet(Event)
    BY DEF ListingsConstants
  <2> QED
    BY <2>1, <2>2, FS_Subset
<1> HIDE DEF ahead, past, created
<1>5. Cardinality(ahead \cup past) = Cardinality(ahead) + Cardinality(past)
  <2>1. Cardinality(ahead) \in Nat /\ Cardinality(past) \in Nat
    BY <1>4, FS_CardinalityType
  <2>2. Cardinality(ahead \cap past) = 0
    BY <1>3, FS_EmptySet
  <2>3. Cardinality(ahead \cup past)
          = Cardinality(ahead) + Cardinality(past) - Cardinality(ahead \cap past)
    BY <1>4, FS_Union
  <2> QED
    BY <2>1, <2>2, <2>3
<1>6. CreatedCount(u, u # v) = Cardinality(created)
  BY DEF CreatedCount, created
<1> QED
  BY <1>2, <1>5, <1>6 DEF ahead, past

(* The number on each tab of a profile is the length of its list, although *)
(* only the lists leave out events of organizers the user blocked: a block *)
(* has ended every participation in them (user_events.py).                 *)
THEOREM CountersAgree ==
  ASSUME ListingsConstants
  PROVE  ListingSpec => []CountersMatchLists
<1>1. ListInv => CountersMatchLists
  <2> SUFFICES ASSUME ListInv PROVE CountersMatchLists
    OBVIOUS
  <2>1. deleted \subseteq User
    BY DEF ListInv, TypeOK
  <2> QED
    BY <2>1, ConfirmedTab, HistoryTab, CreatedTab DEF CountersMatchLists
<1> QED
  BY <1>1, ListInvHolds, PTL

-----------------------------------------------------------------------------
(* The walk over a list, page by page                                      *)

(* The rows a client has gone past.                                        *)
Passed(r) == ~After(key[r], r, cursor)

(* While the walk goes on a row that kept its place was given if it was    *)
(* passed, and only then.                                                  *)
WalkInv ==
  /\ PagingTypeOK /\ flaws \in [Row -> SUBSET Hides[listing]]
  /\ \A r \in Row \ moved : seen[r] <= 1
  /\ ~done =>
       /\ cursor = Start => moved = {} /\ disturbed = {}
       /\ \A r \in Row \ moved : ~Passed(r) => seen[r] = 0
       /\ \A r \in Row \ disturbed : seen[r] = IF Shown(r) /\ Passed(r) THEN 1 ELSE 0
  /\ done => \A r \in Row \ disturbed : seen[r] = IF Shown(r) THEN 1 ELSE 0

(* The order of a list is total on its rows.                               *)
LEMMA ListOrder ==
  ASSUME NEW j \in Int, NEW q \in Int, NEW k \in Int, NEW r \in Int
  PROVE  /\ ~Precedes(j, q, j, q)
         /\ Precedes(j, q, k, r) => ~Precedes(k, r, j, q)
         /\ Precedes(j, q, k, r) \/ Precedes(k, r, j, q) \/ q = r
BY DEF Precedes

LEMMA OrderTransitive ==
  ASSUME NEW j \in Int, NEW q \in Int, NEW k \in Int, NEW r \in Int, NEW l \in Int, NEW s \in Int,
         Precedes(j, q, k, r), Precedes(k, r, l, s)
  PROVE  Precedes(j, q, l, s)
BY DEF Precedes

LEMMA RestFinite ==
  ASSUME PagingConstants, PagingTypeOK
  PROVE  /\ IsFiniteSet(Rest) /\ Cardinality(Rest) \in Nat
         /\ Rest \subseteq Row /\ Row \subseteq Nat \ {0}
         /\ \A r \in Row : key[r] \in 0..MaxKey /\ key[r] \in Nat
         /\ \A r \in Row : /\ IsFiniteSet(Before(r)) /\ Cardinality(Before(r)) \in Nat
                           /\ Before(r) \subseteq Rest
<1>1. IsFiniteSet(Row)
  BY FS_Interval DEF PagingConstants, Row
<1>2. Rest \subseteq Row /\ \A r \in Row : Before(r) \subseteq Rest
  BY DEF Rest, Before
<1>3. IsFiniteSet(Rest) /\ \A r \in Row : IsFiniteSet(Before(r))
  BY <1>1, <1>2, FS_Subset
<1>4. Cardinality(Rest) \in Nat /\ \A r \in Row : Cardinality(Before(r)) \in Nat
  BY <1>3, FS_CardinalityType
<1>5. \A r \in Row : key[r] \in 0..MaxKey /\ key[r] \in Nat
  BY DEF PagingTypeOK, PagingConstants
<1> QED
  BY <1>2, <1>3, <1>4, <1>5 DEF Row, PagingConstants

(* A row has fewer rows before it than any row that comes after it.        *)
LEMMA RanksGrow ==
  ASSUME PagingConstants, PagingTypeOK, NEW q \in Rest, NEW r \in Rest
  PROVE  /\ Precedes(key[q], q, key[r], r) => Cardinality(Before(q)) < Cardinality(Before(r))
         /\ Cardinality(Before(q)) < Cardinality(Rest)
<1>1. ASSUME NEW S \in SUBSET Rest, Before(q) \subseteq S, q \in S
      PROVE  Cardinality(Before(q)) < Cardinality(S)
  <2>1. IsFiniteSet(S) /\ IsFiniteSet(Before(q)) /\ Cardinality(S) \in Nat
    BY RestFinite, FS_Subset, FS_CardinalityType
  <2>2. q \notin Before(q)
    BY RestFinite, ListOrder DEF Before
  <2>3. Cardinality(Before(q)) <= Cardinality(S) /\ (Cardinality(S) = Cardinality(Before(q)) => S = Before(q))
    BY <1>1, <2>1, FS_Subset
  <2>4. Cardinality(Before(q)) \in Nat
    BY <2>1, FS_CardinalityType
  <2> QED
    BY <1>1, <2>1, <2>2, <2>3, <2>4
<1>2. Cardinality(Before(q)) < Cardinality(Rest)
  BY <1>1 DEF Before
<1>3. ASSUME Precedes(key[q], q, key[r], r) PROVE Cardinality(Before(q)) < Cardinality(Before(r))
  <2>1. q \in Before(r) /\ Before(r) \in SUBSET Rest
    BY <1>3 DEF Before
  <2>2. ASSUME NEW p \in Before(q) PROVE p \in Before(r)
    <3>1. p \in Rest /\ Precedes(key[p], p, key[q], q)
      BY <2>2 DEF Before
    <3>2. /\ key[p] \in Int /\ key[q] \in Int /\ key[r] \in Int
          /\ p \in Int /\ q \in Int /\ r \in Int
      BY <3>1, RestFinite
    <3>3. Precedes(key[p], p, key[r], r)
      BY <1>3, <3>1, <3>2, OrderTransitive
    <3> QED
      BY <3>1, <3>3 DEF Before
  <2> QED
    BY <1>1, <2>1, <2>2
<1> QED
  BY <1>2, <1>3

(* If more rows are left than a page holds, the page has a last row: one   *)
(* with exactly the others of the page before it.                          *)
LEMMA LastOfPage ==
  ASSUME PagingConstants, PagingTypeOK, NEW limit \in Limits, HasMore(limit)
  PROVE  \E r \in Page(limit) : Cardinality(Before(r)) = limit - 1
<1> DEFINE n == Cardinality(Rest)
           rank == [r \in Rest |-> Cardinality(Before(r))]
<1>1. limit \in Nat \ {0} /\ n \in Nat /\ limit < n
  BY RestFinite DEF PagingConstants, HasMore
<1>2. PICK ranks : ranks = 0..(n - 1)
  OBVIOUS
<1>3. IsFiniteSet(ranks) /\ Cardinality(ranks) = n
  BY <1>1, <1>2, FS_Interval
<1>4. \A r \in Rest : Cardinality(Before(r)) \in ranks
  BY <1>1, <1>2, RestFinite, RanksGrow
<1>5. ASSUME NEW q \in Rest, NEW r \in Rest, rank[q] = rank[r] PROVE q = r
  <2>1. key[q] \in Int /\ key[r] \in Int /\ q \in Int /\ r \in Int
    BY RestFinite
  <2>2. Cardinality(Before(q)) = Cardinality(Before(r)) /\ Cardinality(Before(q)) \in Nat
    BY <1>5, RestFinite
  <2>3. ~Precedes(key[q], q, key[r], r) /\ ~Precedes(key[r], r, key[q], q)
    BY <2>2, RanksGrow
  <2> QED
    BY <2>1, <2>3, ListOrder
<1>6. rank \in Injection(Rest, ranks)
  BY <1>4, <1>5 DEF Injection, IsInjective
<1>7. rank \in Surjection(Rest, ranks)
  BY <1>3, <1>6, FS_Injection
<1>8. limit - 1 \in ranks
  BY <1>1, <1>2
<1>9. PICK r \in Rest : rank[r] = limit - 1
  BY <1>7, <1>8 DEF Surjection
<1>10. Cardinality(Before(r)) = limit - 1
  BY <1>9
<1> QED
  BY <1>1, <1>10 DEF Page

-----------------------------------------------------------------------------

LEMMA PageKeepsType ==
  ASSUME PagingConstants, WalkInv, NEW name, NEW limit \in Limits, ReadPage(name, limit)
  PROVE  /\ PagingTypeOK' /\ flaws' \in [Row -> SUBSET Hides[listing']]
         /\ HasMore(limit) => \E r \in Page(limit) : /\ Cardinality(Before(r)) = limit - 1
                                                      /\ cursor' = CursorOf(r)
<1>1. PagingTypeOK /\ flaws \in [Row -> SUBSET Hides[listing]]
  BY DEF WalkInv
<1>2. ASSUME HasMore(limit)
      PROVE  \E r \in Page(limit) : Cardinality(Before(r)) = limit - 1 /\ cursor' = CursorOf(r)
  <2>1. PICK r \in Page(limit) : Cardinality(Before(r)) = limit - 1
    BY <1>1, <1>2, LastOfPage
  <2> DEFINE last == CHOOSE x \in Page(limit) : Cardinality(Before(x)) = limit - 1
  <2>2. last \in Page(limit) /\ Cardinality(Before(last)) = limit - 1
    BY <2>1
  <2>3. cursor' = CursorOf(last)
    BY <1>2 DEF ReadPage
  <2> QED
    BY <2>2, <2>3
<1>3. cursor' \in Cursor \cup {Start}
  <2>1. CASE HasMore(limit)
    <3>1. PICK r \in Page(limit) : cursor' = CursorOf(r)
      BY <1>2, <2>1
    <3>2. r \in Row /\ key[r] \in 0..MaxKey
      BY <1>1, RestFinite DEF Page
    <3> QED
      BY <3>1, <3>2 DEF CursorOf, Cursor
  <2>2. CASE ~HasMore(limit)
    BY <1>1, <2>2 DEF ReadPage, PagingTypeOK
  <2> QED
    BY <2>1, <2>2
<1>4. seen' \in [Row -> Nat]
  <2>1. \A r \in Row : seen[r] \in Nat
    BY <1>1 DEF PagingTypeOK
  <2>2. \A r \in Row : (IF r \in Page(limit) THEN seen[r] + 1 ELSE seen[r]) \in Nat
    BY <2>1
  <2> QED
    BY <2>2 DEF ReadPage
<1> QED
  BY <1>1, <1>2, <1>3, <1>4 DEF ReadPage, PagingTypeOK

(* A page gives the rows between the old cursor and the new one.           *)
LEMMA PageReachesCursor ==
  ASSUME PagingConstants, WalkInv, NEW name, NEW limit \in Limits, ReadPage(name, limit),
         HasMore(limit), NEW r \in Row
  PROVE  /\ cursor' # Start
         /\ Passed(r) => Passed(r)'
         /\ r \in Page(limit) => Passed(r)'
         /\ r \in Rest \ Page(limit) => ~Passed(r)'
<1>1. PagingTypeOK /\ listing' = listing /\ key' = key
  BY DEF WalkInv, ReadPage
<1>2. PICK x \in Page(limit) : Cardinality(Before(x)) = limit - 1 /\ cursor' = CursorOf(x)
  BY PageKeepsType
<1>3. /\ x \in Rest /\ x \in Nat \ {0} /\ r \in Nat \ {0} /\ key[x] \in Nat /\ key[r] \in Nat
      /\ limit \in Nat \ {0} /\ After(key[x], x, cursor)
  BY <1>1, RestFinite DEF Page, Rest, PagingConstants
<1>4. cursor'.key = key[x] /\ cursor'.row = x /\ cursor' # Start
  BY <1>2, <1>3 DEF CursorOf, Start
<1>5. Passed(r)' <=> ~Precedes(key[x], x, key[r], r)
  BY <1>1, <1>4 DEF Passed, After, Precedes
<1>6. ASSUME Passed(r) PROVE Passed(r)'
  <2>1. cursor # Start /\ ~Precedes(cursor.key, cursor.row, key[r], r)
        /\ Precedes(cursor.key, cursor.row, key[x], x)
    BY <1>3, <1>6 DEF Passed, After
  <2>2. cursor \in Cursor
    BY <1>1, <2>1 DEF PagingTypeOK
  <2>3. cursor.key \in Nat /\ cursor.row \in Nat
    BY <2>2 DEF Cursor, Row, PagingConstants
  <2>4. ~Precedes(key[x], x, key[r], r)
    BY <1>3, <2>1, <2>3, OrderTransitive
  <2> QED
    BY <1>5, <2>4
<1>7. ASSUME r \in Page(limit) PROVE ~Precedes(key[x], x, key[r], r)
  <2>1. r \in Rest /\ Cardinality(Before(r)) < limit /\ Cardinality(Before(r)) \in Nat
    BY <1>1, <1>7, RestFinite DEF Page
  <2>2. Precedes(key[x], x, key[r], r) => limit - 1 < Cardinality(Before(r))
    BY <1>1, <1>2, <1>3, <2>1, RanksGrow
  <2> QED
    BY <1>3, <2>1, <2>2
<1>8. ASSUME r \in Rest \ Page(limit) PROVE Precedes(key[x], x, key[r], r)
  <2>1. ~(Cardinality(Before(r)) < limit) /\ Cardinality(Before(r)) \in Nat
    BY <1>1, <1>8, RestFinite DEF Page
  <2>2. Precedes(key[r], r, key[x], x) => Cardinality(Before(r)) < limit - 1
    BY <1>1, <1>2, <1>3, <1>8, RanksGrow
  <2>3. r # x
    BY <1>8, <1>2
  <2> QED
    BY <1>3, <2>1, <2>2, <2>3, ListOrder
<1> QED
  BY <1>4, <1>5, <1>6, <1>7, <1>8

LEMMA PageKeepsWalkInv ==
  ASSUME PagingConstants, WalkInv, NEW name, NEW limit \in Limits, ReadPage(name, limit)
  PROVE  WalkInv'
<1>1. /\ PagingTypeOK /\ PagingTypeOK' /\ flaws' \in [Row -> SUBSET Hides[listing']] /\ ~done
      /\ flaws' = flaws /\ key' = key /\ moved' = moved /\ disturbed' = disturbed
      /\ moved \subseteq disturbed
  BY PageKeepsType DEF WalkInv, ReadPage, PagingTypeOK
<1>2. /\ \A r \in Row \ moved : seen[r] <= 1 /\ (~Passed(r) => seen[r] = 0)
      /\ \A r \in Row \ disturbed : seen[r] = IF Shown(r) /\ Passed(r) THEN 1 ELSE 0
  BY <1>1 DEF WalkInv
<1>3. ASSUME NEW r \in Row
      PROVE  /\ seen'[r] = IF r \in Page(limit) THEN seen[r] + 1 ELSE seen[r]
             /\ seen[r] \in Nat
             /\ r \in Rest <=> Shown(r) /\ ~Passed(r)
             /\ Shown(r)' <=> Shown(r)
             /\ r \in Page(limit) => r \in Rest
  <2>1. seen' = [q \in Row |-> IF q \in Page(limit) THEN seen[q] + 1 ELSE seen[q]]
    BY DEF ReadPage
  <2>2. r \in Rest <=> Shown(r) /\ ~Passed(r)
    BY DEF Rest, Passed
  <2>3. Shown(r)' <=> Shown(r)
    BY <1>1 DEF Shown
  <2> QED
    BY <1>1, <2>1, <2>2, <2>3 DEF PagingTypeOK, Page
<1>4. \A r \in Row \ moved : seen'[r] <= 1
  <2> SUFFICES ASSUME NEW r \in Row \ moved PROVE seen'[r] <= 1
    OBVIOUS
  <2>1. seen[r] <= 1 /\ (~Passed(r) => seen[r] = 0)
    BY <1>2
  <2> QED
    BY <1>3, <2>1
<1>5. ASSUME HasMore(limit) PROVE WalkInv'
  <2>1. ASSUME NEW r \in Row
        PROVE  /\ Passed(r) => Passed(r)'
               /\ r \in Page(limit) => Passed(r)'
               /\ r \in Rest \ Page(limit) => ~Passed(r)'
    BY <1>5, PageReachesCursor
  <2>2. cursor' # Start \/ Row = {}
    BY <1>5, PageReachesCursor
  <2>3. done' = FALSE
    BY <1>5 DEF ReadPage
  <2>4. ASSUME NEW r \in Row \ moved, ~Passed(r)' PROVE seen'[r] = 0
    <3>1. r \notin Page(limit) /\ ~Passed(r)
      BY <2>1, <2>4
    <3> QED
      BY <1>2, <1>3, <3>1
  <2>5. ASSUME NEW r \in Row \ disturbed
        PROVE  seen'[r] = IF Shown(r)' /\ Passed(r)' THEN 1 ELSE 0
    <3>1. /\ Passed(r) => Passed(r)' /\ r \notin Rest
          /\ r \in Page(limit) => Passed(r)' /\ r \in Rest
          /\ r \in Rest \ Page(limit) => ~Passed(r)'
      BY <1>3, <2>1
    <3>2. r \in Rest <=> Shown(r) /\ ~Passed(r)
      BY <1>3
    <3>3. seen[r] = IF Shown(r) /\ Passed(r) THEN 1 ELSE 0
      BY <1>2
    <3>4. seen'[r] = IF r \in Page(limit) THEN seen[r] + 1 ELSE seen[r]
      BY <1>3
    <3>5. Shown(r)' <=> Shown(r)
      BY <1>3
    <3> QED
      BY <3>1, <3>2, <3>3, <3>4, <3>5
  <2> QED
    BY <1>1, <1>4, <2>2, <2>3, <2>4, <2>5 DEF WalkInv, PagingTypeOK
<1>6. ASSUME ~HasMore(limit) PROVE WalkInv'
  <2>1. ASSUME NEW r \in Rest PROVE r \in Page(limit)
    <3>1. /\ Cardinality(Before(r)) < Cardinality(Rest) /\ ~(Cardinality(Rest) > limit)
          /\ Cardinality(Before(r)) \in Nat /\ Cardinality(Rest) \in Nat /\ limit \in Nat
      BY <1>1, <1>6, <2>1, RanksGrow, RestFinite DEF HasMore, PagingConstants
    <3>2. Cardinality(Before(r)) < limit
      BY <3>1
    <3> QED
      BY <3>2 DEF Page
  <2>2. ASSUME NEW r \in Row \ disturbed PROVE seen'[r] = IF Shown(r)' THEN 1 ELSE 0
    <3>1. r \in Page(limit) <=> Shown(r) /\ ~Passed(r)
      BY <1>3, <2>1
    <3>2. seen[r] = IF Shown(r) /\ Passed(r) THEN 1 ELSE 0
      BY <1>2
    <3>3. seen'[r] = IF r \in Page(limit) THEN seen[r] + 1 ELSE seen[r]
      BY <1>3
    <3>4. Shown(r)' <=> Shown(r)
      BY <1>3
    <3> QED
      BY <3>1, <3>2, <3>3, <3>4
  <2>3. done' = TRUE
    BY <1>6 DEF ReadPage
  <2> QED
    BY <1>1, <1>4, <2>2, <2>3 DEF WalkInv
<1> QED
  BY <1>5, <1>6

-----------------------------------------------------------------------------
(* A row that is not touched stays where it is in the list.                *)
LEMMA ChangeKeepsWalkInv ==
  ASSUME PagingConstants, WalkInv, Change,
         key' \in [Row -> 0..MaxKey], flaws' \in [Row -> SUBSET Hides[listing]]
  PROVE  WalkInv'
<1>1. /\ PagingTypeOK /\ ~done /\ done' = done /\ listing' = listing /\ cursor' = cursor /\ seen' = seen
      /\ changes < MaxChanges /\ changes' = changes + 1
      /\ disturbed' = IF cursor = Start THEN {}
                      ELSE disturbed \cup {r \in Row : flaws'[r] # flaws[r] \/ key'[r] # key[r]}
      /\ moved' = IF cursor = Start THEN {} ELSE moved \cup {r \in Row : key'[r] # key[r]}
  BY DEF WalkInv, Change
<1>2. PagingTypeOK'
  BY <1>1 DEF PagingTypeOK, PagingConstants
<1>3. ASSUME cursor = Start PROVE WalkInv'
  <2>1. \A r \in Row : ~Passed(r) /\ ~Passed(r)' /\ seen[r] = 0
    BY <1>1, <1>3 DEF Passed, After, WalkInv
  <2>2. moved' = {} /\ disturbed' = {}
    BY <1>1, <1>3
  <2> QED
    BY <1>1, <1>2, <2>1, <2>2 DEF WalkInv
<1>4. ASSUME cursor # Start PROVE WalkInv'
  <2>1. \A r \in Row \ moved' : r \notin moved /\ (Passed(r)' <=> Passed(r))
    BY <1>1, <1>4 DEF Passed, After, Precedes
  <2>2. \A r \in Row \ disturbed' : r \notin disturbed /\ r \notin moved' /\ (Shown(r)' <=> Shown(r))
    BY <1>1, <1>2, <1>4 DEF Shown, PagingTypeOK
  <2> QED
    BY <1>1, <1>2, <1>4, <2>1, <2>2 DEF WalkInv
<1> QED
  BY <1>3, <1>4

LEMMA NextKeepsWalkInv ==
  ASSUME PagingConstants
  PROVE  WalkInv /\ [PagingNext]_pagingVars => WalkInv'
<1> SUFFICES ASSUME WalkInv, [PagingNext]_pagingVars PROVE WalkInv'
  OBVIOUS
<1>1. PagingTypeOK /\ flaws \in [Row -> SUBSET Hides[listing]] /\ key \in [Row -> 0..MaxKey]
  BY DEF WalkInv, PagingTypeOK
<1>2. CASE UNCHANGED pagingVars
  BY <1>2 DEF pagingVars, WalkInv, PagingTypeOK, Passed, Shown, After, Precedes
<1>3. ASSUME NEW name, NEW limit \in Limits, ReadPage(name, limit) PROVE WalkInv'
  BY <1>3, PageKeepsWalkInv
<1>4. ASSUME NEW r \in Row, NEW k \in 0..MaxKey, Insert(r, k) \/ Move(r, k) PROVE WalkInv'
  <2>1. /\ key' \in [Row -> 0..MaxKey] /\ flaws' \in [Row -> SUBSET Hides[listing]] /\ Change
    BY <1>1, <1>4 DEF Insert, Move
  <2> QED
    BY <2>1, ChangeKeepsWalkInv
<1>5. ASSUME NEW r \in Row, MarkAsRead(r) PROVE WalkInv'
  <2>1. listing = "notifications" /\ {"read"} \subseteq Hides["notifications"]
    BY <1>5 DEF MarkAsRead, Hides, NotificationsHide
  <2>2. /\ key' \in [Row -> 0..MaxKey] /\ flaws' \in [Row -> SUBSET Hides[listing]] /\ Change
    BY <1>1, <1>5, <2>1 DEF MarkAsRead
  <2> QED
    BY <2>2, ChangeKeepsWalkInv
<1>6. ASSUME MarkAllAsRead PROVE WalkInv'
  <2>1. listing = "notifications" /\ {"read"} \subseteq Hides["notifications"]
    BY <1>6 DEF MarkAllAsRead, Hides, NotificationsHide
  <2>2. /\ key' \in [Row -> 0..MaxKey] /\ flaws' \in [Row -> SUBSET Hides[listing]] /\ Change
    BY <1>1, <1>6, <2>1 DEF MarkAllAsRead
  <2> QED
    BY <2>2, ChangeKeepsWalkInv
<1>7. ASSUME NEW r \in Row, NEW flaw \in Hides[listing],
             Hide(r, flaw) \/ \E k \in 0..MaxKey : Reappear(r, flaw, k)
      PROVE  WalkInv'
  <2>1. /\ key' \in [Row -> 0..MaxKey] /\ flaws' \in [Row -> SUBSET Hides[listing]] /\ Change
    BY <1>1, <1>7 DEF Hide, Reappear
  <2> QED
    BY <2>1, ChangeKeepsWalkInv
<1> QED
  BY <1>2, <1>3, <1>4, <1>5, <1>6, <1>7
  DEF PagingNext, ListNotifications, ListParticipants, ListFollowing, ListFollowers, ListBlocked,
      ListPending, ListConnections, ListUserPhotos, ListEventPhotos, ListUserEvents

LEMMA InitWalkInv ==
  ASSUME PagingConstants
  PROVE  PagingInit => WalkInv
<1> SUFFICES ASSUME PagingInit PROVE WalkInv
  OBVIOUS
<1>1. {"absent"} \subseteq Hides[listing]
  BY DEF PagingInit, Listing, Hides, NotificationsHide, ParticipantsHide, FollowingHide, FollowersHide,
     BlockedHide, PendingHide, ConnectionsHide, UserPhotosHide, EventPhotosHide, UserEventsHide
<1>2. flaws \in [Row -> SUBSET Hides[listing]]
  BY <1>1 DEF PagingInit
<1>3. PagingTypeOK
  <2>1. \A r \in Row : flaws[r] \subseteq Hides[listing]
    BY <1>2
  <2>2. 0 \in Nat /\ 0 \in 0..MaxChanges
    BY DEF PagingConstants
  <2> QED
    BY <2>1, <2>2 DEF PagingInit, PagingTypeOK
<1> QED
  BY <1>2, <1>3 DEF PagingInit, WalkInv, Passed, After

(* In every behaviour every variable of the walk has its type.             *)
THEOREM PagingTypeCorrect ==
  ASSUME PagingConstants
  PROVE  PagingSpec => []PagingTypeOK
<1>1. WalkInv => PagingTypeOK
  BY DEF WalkInv
<1> QED
  BY <1>1, InitWalkInv, NextKeepsWalkInv, PTL DEF PagingSpec

(* A client that follows next_cursor to the end is given each row nobody   *)
(* touched exactly once, on every list, for any number of rows, any page   *)
(* sizes and any changes between two pages (notification.py:93).           *)
THEOREM PagesAreStable ==
  ASSUME PagingConstants
  PROVE  PagingSpec => []EachRowOnce
<1>1. WalkInv => EachRowOnce
  BY DEF WalkInv, EachRowOnce
<1> QED
  BY <1>1, InitWalkInv, NextKeepsWalkInv, PTL DEF PagingSpec

-----------------------------------------------------------------------------
(* The roll-up of tags.  The loading and the climb are recursive functions *)
(* of a number of rounds, and what holds of every round is shown of a set  *)
(* of numbers that has 0 and, with each number, the next.                  *)

LEMMA AllNumbers ==
  ASSUME NEW S, 0 \in S, \A n \in Nat : n \in S => n + 1 \in S
  PROVE  Nat \subseteq S
<1> SUFFICES ASSUME Nat \ S # {} PROVE FALSE
  OBVIOUS
<1>1. PICK x \in Nat \ S : \A y \in Nat \ S : ~(<<y, x>> \in OpToRel(<, Nat))
  BY WFMin, NatLessThanWellFounded
<1>2. x \in Nat /\ x # 0 /\ x \notin S
  OBVIOUS
<1>3. x - 1 \in Nat /\ (x - 1) + 1 = x /\ x - 1 < x
  BY <1>2
<1>4. x - 1 \notin S
  BY <1>2, <1>3
<1> QED
  BY <1>1, <1>2, <1>3, <1>4 DEF OpToRel

(* A start and a step of a set into itself make a recursive function.      *)
Iterates(X, start, step, n, f) ==
  /\ f \in [0..n -> X]
  /\ f[0] = start
  /\ \A i \in 1..n : f[i] = step[f[i - 1]]

LEMMA RecursionExists ==
  ASSUME NEW X, NEW start \in X, NEW step \in [X -> X], NEW n \in Nat
  PROVE  \E f : Iterates(X, start, step, n, f)
<1> DEFINE S == {m \in Nat : \E f : Iterates(X, start, step, m, f)}
<1>1. 0 \in S
  <2> DEFINE f == [i \in 0..0 |-> start]
  <2>1. Iterates(X, start, step, 0, f)
    BY DEF Iterates
  <2> QED
    BY <2>1
<1>2. ASSUME NEW m \in Nat, m \in S PROVE m + 1 \in S
  <2>1. PICK f : Iterates(X, start, step, m, f)
    BY <1>2
  <2> DEFINE g == [i \in 0..(m + 1) |-> IF i = m + 1 THEN step[f[m]] ELSE f[i]]
  <2>2. Iterates(X, start, step, m + 1, g)
    BY <2>1 DEF Iterates
  <2> HIDE DEF g
  <2>3. m + 1 \in Nat
    OBVIOUS
  <2> QED
    BY <2>2, <2>3
<1>3. Nat \subseteq S
  <2> HIDE DEF S
  <2> QED
    BY <1>1, <1>2, AllNumbers
<1> QED
  BY <1>3

(* What is known and what is left to load.                                 *)
Loading == [known : SUBSET Tag, pending : SUBSET Tag]

LEMMA RoundsValue ==
  ASSUME TaxonomyConstants, TaxonomyTypeOK
  PROVE  /\ Rounds[0] = [known |-> interests, pending |-> MissingParents(interests, interests)]
         /\ \A i \in 1..MaxTagDepth :
              Rounds[i] =
                [known |-> Rounds[i - 1].known \cup Rounds[i - 1].pending,
                 pending |-> MissingParents(Rounds[i - 1].pending,
                                            Rounds[i - 1].known \cup Rounds[i - 1].pending)]
         /\ Rounds \in [0..MaxTagDepth -> Loading]
<1> DEFINE start == [known |-> interests, pending |-> MissingParents(interests, interests)]
           Load(x) == [known |-> x.known \cup x.pending,
                       pending |-> MissingParents(x.pending, x.known \cup x.pending)]
           step == [x \in Loading |-> Load(x)]
           Runs(f) == f = [i \in 0..MaxTagDepth |-> IF i = 0 THEN start ELSE Load(f[i - 1])]
<1>1. MaxTagDepth \in Nat
  BY DEF TaxonomyConstants
<1>2. start \in Loading /\ \A x \in Loading : Load(x) \in Loading
  BY DEF Loading, MissingParents, TaxonomyTypeOK
<1>3. \E f : Runs(f)
  <2>1. step \in [Loading -> Loading]
    BY <1>2
  <2> HIDE DEF start, step
  <2>2. PICK f : Iterates(Loading, start, step, MaxTagDepth, f)
    <3>1. start \in Loading
      BY <1>2
    <3> QED
      BY ONLY <1>1, <2>1, <3>1, RecursionExists
  <2>3. \A x \in Loading : step[x] = Load(x)
    BY DEF step
  <2> HIDE DEF Load
  <2>4. ASSUME NEW i \in 0..MaxTagDepth
        PROVE  f[i] = IF i = 0 THEN start ELSE Load(f[i - 1])
    BY <1>1, <2>2, <2>3 DEF Iterates
  <2>5. Runs(f)
    BY <2>2, <2>4 DEF Iterates
  <2> QED
    BY <2>5
<1>4. Rounds = CHOOSE f : Runs(f)
  BY DEF Rounds
<1>5. Runs(Rounds)
  BY <1>3, <1>4
<1> HIDE DEF start, Load
<1>6. Rounds[0] = start /\ \A i \in 1..MaxTagDepth : Rounds[i] = Load(Rounds[i - 1])
  BY <1>1, <1>5
<1> DEFINE S == {i \in Nat : i <= MaxTagDepth => Rounds[i] \in Loading}
<1>7. 0 \in S
  BY <1>2, <1>6
<1>8. ASSUME NEW i \in Nat, i \in S PROVE i + 1 \in S
  BY <1>1, <1>2, <1>6, <1>8
<1>9. Nat \subseteq S
  <2> HIDE DEF S
  <2> QED
    BY <1>7, <1>8, AllNumbers
<1>10. Rounds \in [0..MaxTagDepth -> Loading]
  <2>1. \A i \in 0..MaxTagDepth : Rounds[i] \in Loading
    BY <1>1, <1>9
  <2> QED
    BY <1>5, <2>1
<1> QED
  BY <1>6, <1>10 DEF start, Load

(* Where a climb stands, and the next step of it.                          *)
Climbed(x) ==
  IF parent[x.at] \in KnownTags \ x.visited
  THEN [at |-> parent[x.at], visited |-> x.visited \cup {parent[x.at]}]
  ELSE x

LEMMA KnownAreTags ==
  ASSUME TaxonomyConstants, TaxonomyTypeOK
  PROVE  KnownTags \subseteq Tag
<1>1. MaxTagDepth \in 0..MaxTagDepth
  BY DEF TaxonomyConstants
<1> QED
  BY <1>1, RoundsValue DEF KnownTags, Loading

LEMMA MacroTagValue ==
  ASSUME TaxonomyConstants, TaxonomyTypeOK, NEW t \in Tag
  PROVE  \E climb :
           /\ climb[0] = [at |-> t, visited |-> {}]
           /\ \A i \in 1..Cardinality(Tag) : climb[i] = Climbed(climb[i - 1])
           /\ MacroTagOf(t) = climb[Cardinality(Tag)].at
<1> DEFINE size == Cardinality(Tag)
           start == [at |-> t, visited |-> {}]
           Standing == [at : Tag, visited : SUBSET Tag]
           step == [x \in Standing |-> Climbed(x)]
           Runs(f) == f = [i \in 0..size |-> IF i = 0 THEN start ELSE Climbed(f[i - 1])]
           climb == CHOOSE f : Runs(f)
<1>1. size \in Nat
  BY FS_CardinalityType DEF TaxonomyConstants
<1>2. start \in Standing /\ \A x \in Standing : Climbed(x) \in Standing
  BY KnownAreTags DEF Climbed
<1>3. \E f : Runs(f)
  <2>1. step \in [Standing -> Standing]
    BY <1>2
  <2>2. start \in Standing
    BY <1>2
  <2> HIDE DEF start, step, size, Standing
  <2>3. PICK f : Iterates(Standing, start, step, size, f)
    BY ONLY <1>1, <2>1, <2>2, RecursionExists
  <2>4. \A x \in Standing : step[x] = Climbed(x)
    BY DEF step
  <2>5. ASSUME NEW i \in 0..size
        PROVE  f[i] = IF i = 0 THEN start ELSE Climbed(f[i - 1])
    BY <1>1, <2>3, <2>4 DEF Iterates
  <2>6. Runs(f)
    BY <2>3, <2>5 DEF Iterates
  <2> QED
    BY <2>6
<1>4. MacroTagOf(t) = climb[size].at
  BY DEF MacroTagOf, Climbed
<1>5. Runs(climb)
  BY <1>3
<1> HIDE DEF climb, start, size
<1>6. climb[0] = start /\ \A i \in 1..size : climb[i] = Climbed(climb[i - 1])
  BY <1>1, <1>5
<1> QED
  BY <1>4, <1>6 DEF start, size

(* A step up from a tag, or from above the last.                           *)
Above(x) == IF x = NoParent THEN NoParent ELSE parent[x]

LEMMA AncestorsValue ==
  ASSUME TaxonomyConstants, TaxonomyTypeOK, NEW t \in Tag
  PROVE  /\ Ancestors(t)[0] = t
         /\ \A i \in 1..(MaxTagDepth + 1) : Ancestors(t)[i] = Above(Ancestors(t)[i - 1])
<1> DEFINE Place == Tag \cup {NoParent}
           step == [x \in Place |-> Above(x)]
           last == MaxTagDepth + 1
           Runs(f) == f = [i \in 0..last |-> IF i = 0 THEN t ELSE Above(f[i - 1])]
<1>1. last \in Nat
  BY DEF TaxonomyConstants
<1>2. t \in Place /\ \A x \in Place : Above(x) \in Place
  BY DEF Above, TaxonomyTypeOK
<1>3. \E f : Runs(f)
  <2>1. step \in [Place -> Place]
    BY <1>2
  <2>2. t \in Place
    BY <1>2
  <2> HIDE DEF step, last, Place
  <2>3. PICK f : Iterates(Place, t, step, last, f)
    BY ONLY <1>1, <2>1, <2>2, RecursionExists
  <2>4. \A x \in Place : step[x] = Above(x)
    BY DEF step
  <2>5. ASSUME NEW i \in 0..last
        PROVE  f[i] = IF i = 0 THEN t ELSE Above(f[i - 1])
    BY <1>1, <2>3, <2>4 DEF Iterates
  <2>6. Runs(f)
    BY <2>3, <2>5 DEF Iterates
  <2> QED
    BY <2>6
<1>4. Ancestors(t) = CHOOSE f : Runs(f)
  BY DEF Ancestors, Above
<1>5. Runs(Ancestors(t))
  BY <1>3, <1>4
<1> HIDE DEF last
<1>6. Ancestors(t)[0] = t /\ \A i \in 1..last : Ancestors(t)[i] = Above(Ancestors(t)[i - 1])
  BY <1>1, <1>5
<1> QED
  BY <1>6 DEF last

LEMMA NextRound ==
  ASSUME TaxonomyConstants, TaxonomyTypeOK, NEW i \in Nat, i + 1 <= MaxTagDepth
  PROVE  LET known == Rounds[i].known \cup Rounds[i].pending IN
         Rounds[i + 1] = [known |-> known, pending |-> MissingParents(Rounds[i].pending, known)]
<1>1. i + 1 \in 1..MaxTagDepth /\ (i + 1) - 1 = i
  BY DEF TaxonomyConstants
<1> QED
  BY <1>1, RoundsValue

(* What is loaded is closed but for what is left to load.                  *)
LEMMA ParentsKnownOrPending ==
  ASSUME TaxonomyConstants, TaxonomyTypeOK, NEW i \in 0..MaxTagDepth, NEW x \in Rounds[i].known
  PROVE  parent[x] \in Rounds[i].known \cup Rounds[i].pending \cup {NoParent}
<1> DEFINE Closed(r) == \A y \in r.known : parent[y] \in r.known \cup r.pending \cup {NoParent}
           S == {j \in Nat : j <= MaxTagDepth => Closed(Rounds[j])}
<1>1. MaxTagDepth \in Nat
  BY DEF TaxonomyConstants
<1>2. 0 \in S
  BY RoundsValue DEF MissingParents
<1>3. ASSUME NEW j \in Nat, j \in S PROVE j + 1 \in S
  <2> SUFFICES ASSUME j + 1 <= MaxTagDepth PROVE Closed(Rounds[j + 1])
    OBVIOUS
  <2> DEFINE r == Rounds[j]  known == r.known \cup r.pending
  <2>2. Rounds[j + 1] = [known |-> known, pending |-> MissingParents(r.pending, known)]
    BY NextRound
  <2>3. Closed(r)
    BY <1>1, <1>3
  <2> QED
    BY <2>2, <2>3 DEF MissingParents
<1>4. Nat \subseteq S
  <2> HIDE DEF S
  <2> QED
    BY <1>2, <1>3, AllNumbers
<1> QED
  BY <1>1, <1>4

(* The ancestors of an interest that MAX_TAG_DEPTH rounds can reach are    *)
(* loaded.                                                                 *)
LEMMA AncestorsKnown ==
  ASSUME TaxonomyConstants, TaxonomyTypeOK, NEW d \in 0..MaxTagDepth,
         NEW path \in [0..d -> Tag], path[0] \in interests,
         \A j \in 0..(d - 1) : path[j + 1] = parent[path[j]]
  PROVE  \A j \in 0..d : path[j] \in KnownTags
<1> DEFINE S == {i \in Nat : i <= MaxTagDepth =>
                   \A j \in 0..i : j <= d => path[j] \in Rounds[i].known}
<1>1. MaxTagDepth \in Nat
  BY DEF TaxonomyConstants
<1>2. 0 \in S
  BY RoundsValue
<1>3. ASSUME NEW i \in Nat, i \in S PROVE i + 1 \in S
  <2> SUFFICES ASSUME i + 1 <= MaxTagDepth, NEW j \in 0..(i + 1), j <= d
               PROVE  path[j] \in Rounds[i + 1].known
    OBVIOUS
  <2>1. i \in 0..MaxTagDepth
    BY <1>1
  <2> DEFINE known == Rounds[i].known \cup Rounds[i].pending
  <2>2. Rounds[i + 1].known = known
    <3>1. Rounds[i + 1] = [known |-> known, pending |-> MissingParents(Rounds[i].pending, known)]
      BY NextRound
    <3> QED
      BY ONLY <3>1
  <2>3. \A k \in 0..i : k <= d => path[k] \in Rounds[i].known
    BY <1>1, <1>3
  <2>4. CASE j \in 0..i
    BY <2>2, <2>3, <2>4
  <2>5. CASE j = i + 1
    <3>1. path[i] \in Rounds[i].known /\ path[j] = parent[path[i]] /\ path[j] \in Tag
      BY <1>1, <2>3, <2>5
    <3>2. path[j] # NoParent
      BY <3>1 DEF TaxonomyConstants
    <3> QED
      BY <2>1, <2>2, <3>1, <3>2, ParentsKnownOrPending
  <2> QED
    BY <2>4, <2>5
<1>4. Nat \subseteq S
  <2> HIDE DEF S
  <2> QED
    BY <1>2, <1>3, AllNumbers
<1> QED
  BY <1>1, <1>4 DEF KnownTags

(* A path that ends below nothing does not meet itself.                    *)
LEMMA PathsDoNotCross ==
  ASSUME TaxonomyConstants, TaxonomyTypeOK, NEW d \in Nat, NEW path \in [0..d -> Tag],
         \A j \in 0..(d - 1) : path[j + 1] = parent[path[j]], parent[path[d]] = NoParent,
         NEW j \in 0..d, NEW k \in 0..d, j < k
  PROVE  path[j] # path[k]
<1> SUFFICES ASSUME path[j] = path[k] PROVE FALSE
  OBVIOUS
<1> DEFINE S == {m \in Nat : k + m <= d => path[j + m] = path[k + m]}
<1>1. 0 \in S
  OBVIOUS
<1>2. ASSUME NEW m \in Nat, m \in S PROVE m + 1 \in S
  <2> SUFFICES ASSUME k + (m + 1) <= d PROVE path[j + (m + 1)] = path[k + (m + 1)]
    OBVIOUS
  <2>1. j + m \in 0..(d - 1) /\ k + m \in 0..(d - 1)
        /\ j + (m + 1) = (j + m) + 1 /\ k + (m + 1) = (k + m) + 1 /\ k + m <= d
    OBVIOUS
  <2>2. path[j + m] = path[k + m]
    BY <1>2, <2>1
  <2>3. path[(j + m) + 1] = parent[path[j + m]] /\ path[(k + m) + 1] = parent[path[k + m]]
    BY <2>1
  <2> QED
    BY <2>1, <2>2, <2>3
<1>3. Nat \subseteq S
  <2> HIDE DEF S
  <2> QED
    BY <1>1, <1>2, AllNumbers
<1> DEFINE m == d - k
<1>4. m \in Nat /\ k + m = d /\ j + m \in 0..(d - 1) /\ (j + m) + 1 \in 0..d
  OBVIOUS
<1> HIDE DEF m
<1>5. path[j + m] = path[d]
  BY <1>3, <1>4
<1>6. path[(j + m) + 1] = NoParent /\ path[(j + m) + 1] \in Tag
  BY <1>4, <1>5
<1> QED
  BY <1>6 DEF TaxonomyConstants

(* A climb along tags that were loaded reaches the one without a parent.   *)
LEMMA ClimbReachesRoot ==
  ASSUME TaxonomyConstants, TaxonomyTypeOK, NEW d \in Nat, NEW path \in [0..d -> Tag],
         \A j \in 0..(d - 1) : path[j + 1] = parent[path[j]], parent[path[d]] = NoParent,
         \A j \in 1..d : path[j] \in KnownTags
  PROVE  MacroTagOf(path[0]) = path[d]
<1> DEFINE size == Cardinality(Tag)
<1>0. \A j, k \in 0..d : j < k => path[j] # path[k]
  BY PathsDoNotCross
<1>1. size \in Nat /\ d < size
  <2>1. Cardinality(0..d) = d + 1 /\ IsFiniteSet(0..d)
    BY FS_Interval
  <2>2. \A j, k \in 0..d : path[j] = path[k] => j = k
    BY <1>0
  <2>3. path \in Injection(0..d, Tag)
    BY <2>2, Fun_IsInj
  <2>4. Cardinality(0..d) <= size
    BY <2>3, FS_Injection DEF TaxonomyConstants
  <2>5. size \in Nat
    BY FS_CardinalityType DEF TaxonomyConstants
  <2> QED
    BY <2>1, <2>4, <2>5
<1>2. PICK climb :
        /\ climb[0] = [at |-> path[0], visited |-> {}]
        /\ \A i \in 1..size : climb[i] = Climbed(climb[i - 1])
        /\ MacroTagOf(path[0]) = climb[size].at
  <2>1. path[0] \in Tag
    OBVIOUS
  <2> QED
    BY <2>1, MacroTagValue
<1> HIDE DEF size
<1> DEFINE Reached(i, n) == climb[i].at = path[n] /\ climb[i].visited = {path[k] : k \in 1..n}
           S == {i \in Nat : i <= size => Reached(i, IF i < d THEN i ELSE d)}
<1>3. 0 \in S
  BY <1>2
<1>4. ASSUME NEW i \in Nat, i \in S PROVE i + 1 \in S
  <2> SUFFICES ASSUME i + 1 <= size PROVE Reached(i + 1, IF i + 1 < d THEN i + 1 ELSE d)
    OBVIOUS
  <2>1. i + 1 \in 1..size /\ (i + 1) - 1 = i /\ i <= size
    BY <1>1
  <2>2. climb[i + 1] = Climbed(climb[i])
    BY <1>2, <2>1
  <2>3. CASE i < d
    <3>1. Reached(i, i) /\ i \in 0..(d - 1) /\ i + 1 \in 0..d /\ i + 1 \in 1..d
      BY <1>4, <2>1, <2>3
    <3>2. parent[path[i]] = path[i + 1] /\ path[i + 1] \in KnownTags
      BY <3>1
    <3>3. path[i + 1] \notin {path[k] : k \in 1..i}
      <4>1. ASSUME NEW k \in 1..i PROVE path[k] # path[i + 1]
        <5>1. k \in 0..d /\ k < i + 1
          BY <3>1
        <5> QED
          BY ONLY <1>0, <3>1, <5>1
      <4> QED
        BY <4>1
    <3>4. climb[i + 1] = [at |-> path[i + 1], visited |-> {path[k] : k \in 1..i} \cup {path[i + 1]}]
      BY <2>2, <3>1, <3>2, <3>3 DEF Climbed
    <3>5. {path[k] : k \in 1..i} \cup {path[i + 1]} = {path[k] : k \in 1..(i + 1)}
      OBVIOUS
    <3> QED
      BY <2>3, <3>4, <3>5
  <2>4. CASE ~(i < d)
    <3>1. Reached(i, d) /\ ~(i + 1 < d)
      BY <1>4, <2>1, <2>4
    <3>2. NoParent \notin KnownTags
      BY KnownAreTags DEF TaxonomyConstants
    <3> QED
      BY <2>2, <3>1, <3>2 DEF Climbed
  <2> QED
    BY <2>3, <2>4
<1>5. Nat \subseteq S
  <2> HIDE DEF S
  <2> QED
    BY <1>3, <1>4, AllNumbers
<1>6. Reached(size, d)
  BY <1>1, <1>5
<1> QED
  BY <1>2, <1>6

(* In every behaviour parents and interests are tags.                      *)
THEOREM TaxonomyTypeCorrect ==
  ASSUME TaxonomyConstants
  PROVE  TaxonomySpec => []TaxonomyTypeOK
<1>1. TaxonomyInit => TaxonomyTypeOK
  BY DEF TaxonomyInit, TaxonomyTypeOK
<1>2. TaxonomyTypeOK /\ [TaxonomyNext]_taxonomyVars => TaxonomyTypeOK'
  BY DEF TaxonomyTypeOK, TaxonomyNext, ReplaceInterests, MicroTags, taxonomyVars
<1> QED
  BY <1>1, <1>2, PTL DEF TaxonomySpec

(* The line of ancestors from an interest to its macro tag is a path.      *)
LEMMA LineOfAncestors ==
  ASSUME TaxonomyConstants, TaxonomyTypeOK, NEW t \in Tag, NEW d \in 0..MaxTagDepth,
         Ancestors(t)[d] # NoParent
  PROVE  \A j \in 0..d :
           Ancestors(t)[j] \in Tag /\ (j # d => Ancestors(t)[j + 1] = parent[Ancestors(t)[j]])
<1> DEFINE up == Ancestors(t)
           S == {n \in Nat : n <= d => up[d - n] \in Tag}
           Typed == {n \in Nat : n <= d => up[n] \in Tag \cup {NoParent}}
<1>1. MaxTagDepth \in Nat
  BY DEF TaxonomyConstants
<1>2. up[0] = t /\ \A i \in 1..(MaxTagDepth + 1) : up[i] = Above(up[i - 1])
  BY AncestorsValue
<1> HIDE DEF up
<1>3. ASSUME NEW j \in Nat, j + 1 <= d PROVE up[j + 1] = Above(up[j])
  <2>1. j + 1 \in 1..(MaxTagDepth + 1) /\ (j + 1) - 1 = j
    BY <1>1, <1>3
  <2> QED
    BY <1>2, <2>1
<1>4. Nat \subseteq Typed
  <2>1. 0 \in Typed
    BY <1>2
  <2>2. ASSUME NEW j \in Nat, j \in Typed PROVE j + 1 \in Typed
    BY <1>3, <2>2 DEF Above, TaxonomyTypeOK
  <2> HIDE DEF Typed
  <2> QED
    BY <2>1, <2>2, AllNumbers
<1>5. Nat \subseteq S
  <2>1. 0 \in S
    BY <1>1, <1>4 DEF up
  <2>2. ASSUME NEW n \in Nat, n \in S PROVE n + 1 \in S
    <3> SUFFICES ASSUME n + 1 <= d PROVE up[d - (n + 1)] \in Tag
      OBVIOUS
    <3>1. d - (n + 1) \in Nat /\ (d - (n + 1)) + 1 = d - n /\ d - n <= d /\ d - (n + 1) <= d /\ n <= d
      BY <1>1
    <3>2. up[d - n] = Above(up[d - (n + 1)]) /\ up[d - n] \in Tag
      BY <1>3, <2>2, <3>1
    <3>3. up[d - (n + 1)] \in Tag \cup {NoParent}
      BY <1>4, <3>1
    <3> QED
      BY <3>2, <3>3 DEF Above, TaxonomyConstants
  <2> HIDE DEF S
  <2> QED
    BY <2>1, <2>2, AllNumbers
<1>6. ASSUME NEW j \in 0..d PROVE up[j] \in Tag /\ (j # d => up[j + 1] = parent[up[j]])
  <2>1. d - j \in Nat /\ d - j <= d /\ d - (d - j) = j
    BY <1>1
  <2>2. up[j] \in Tag
    BY <1>5, <2>1
  <2>3. up[j] # NoParent
    BY <2>2 DEF TaxonomyConstants
  <2> QED
    BY <1>3, <2>2, <2>3 DEF Above
<1> QED
  BY <1>6 DEF up

(* Whatever the table holds, cycles included, an interest with a macro tag *)
(* at most MAX_TAG_DEPTH levels above it is listed in the section of that  *)
(* macro tag, with every other interest below the same one, and in no      *)
(* other section (services/feed.py:134, 160).                              *)
THEOREM InterestsAreGrouped ==
  ASSUME TaxonomyConstants
  PROVE  TaxonomySpec => []GroupedUnderRoot
<1>1. TaxonomyTypeOK => GroupedUnderRoot
  <2> SUFFICES ASSUME TaxonomyTypeOK, NEW t \in interests, NEW i \in 1..(MaxTagDepth + 1),
                      Ancestors(t)[i - 1] # NoParent, Ancestors(t)[i] = NoParent
               PROVE  LET root == Ancestors(t)[i - 1] IN
                        /\ root \in MacroTags
                        /\ {m \in Sections : t \in Section(m)} = {root}
                        /\ \A c \in interests \cap ListChildren(root) : c \in Section(root)
    BY DEF GroupedUnderRoot
  <2> DEFINE d == i - 1
             root == Ancestors(t)[d]
             path == [j \in 0..d |-> Ancestors(t)[j]]
  <2>1. MaxTagDepth \in Nat /\ d \in 0..MaxTagDepth /\ d \in Nat /\ t \in Tag /\ d + 1 = i
    BY DEF TaxonomyConstants, TaxonomyTypeOK
  <2> HIDE DEF d
  <2>2. \A j \in 0..d : Ancestors(t)[j] \in Tag /\ (j # d => Ancestors(t)[j + 1] = parent[Ancestors(t)[j]])
    BY <2>1, LineOfAncestors DEF d
  <2>3. path \in [0..d -> Tag] /\ (\A j \in 0..(d - 1) : path[j + 1] = parent[path[j]])
        /\ path[d] = root
    BY <2>1, <2>2
  <2>4. path[0] = t
    BY <2>1, AncestorsValue
  <2>5. root \in Tag /\ parent[root] = NoParent
    <3>1. Ancestors(t)[i] = Above(Ancestors(t)[i - 1])
      BY <2>1, AncestorsValue
    <3>2. root \in Tag
      BY <2>1, <2>2
    <3> QED
      BY <3>1, <3>2 DEF Above, d
  <2> HIDE DEF path, root
  <2>6. \A j \in 0..d : path[j] \in KnownTags
    BY <2>1, <2>3, <2>4, AncestorsKnown
  <2>7. MacroTagOf(t) = root
    <3>1. \A j \in 1..d : path[j] \in KnownTags
      BY <2>1, <2>6
    <3> QED
      BY <2>1, <2>3, <2>4, <2>5, <3>1, ClimbReachesRoot
  <2>8. ASSUME NEW c \in interests \cap ListChildren(root) PROVE MacroTagOf(c) = root
    <3> DEFINE step == [j \in 0..1 |-> IF j = 0 THEN c ELSE root]
    <3>1. c \in Tag /\ parent[c] = root
      BY <2>5, <2>8 DEF ListChildren, TaxonomyTypeOK
    <3>2. step \in [0..1 -> Tag] /\ step[0] = c /\ step[1] = root
      BY <2>5, <3>1
    <3>3. root \in KnownTags
      BY <2>1, <2>3, <2>6
    <3> HIDE DEF step
    <3>4. /\ \A j \in 0..(1 - 1) : step[j + 1] = parent[step[j]]
          /\ \A j \in 1..1 : step[j] \in KnownTags
      BY <3>1, <3>2, <3>3
    <3> QED
      BY <2>5, <3>2, <3>4, ClimbReachesRoot
  <2>9. root \in MacroTags
    BY <2>5 DEF MacroTags
  <2> QED
    BY <2>7, <2>8, <2>9 DEF Section, Sections, root, d
<1> QED
  BY <1>1, TaxonomyTypeCorrect, PTL
=============================================================================
