------------------------------ MODULE Listings -------------------------------
(***************************************************************************)
(* What the read endpoints show of the state EventLifecycle.tla describes: *)
(* the feed, the events nearby, the tabs and counters of a profile, the    *)
(* details of an event, its participants and its gallery of favorites.     *)
(* Each endpoint has its own query; the properties say where they must     *)
(* agree.  A listing is one SELECT, so it is a set computed in one state.  *)
(***************************************************************************)
EXTENDS EventLifecycle

CONSTANTS
  Business,  \* users whose account is a business
  Seeds      \* bound: the [Event -> Kind] a run starts from

VARIABLES
  privacy,    \* event_privacy, which no request changes
  phase,      \* where now is between starts_at and ends_at
  favorites   \* rows of event_favorite, as <<user, event>>

listingVars == <<lifecycleVars, privacy, phase, favorites>>
ownVars == <<privacy, phase, favorites>>

Privacy == {"PUBLIC", "PRIVATE", "INVITE_ONLY"}
Phase == {"UPCOMING", "RUNNING", "OVER"}
Tab == {"HISTORY", "CREATED", "INTERESTS", "CONFIRMED"}

(* Every variable has its type. *)
TypeOK ==
  /\ eventStatus \in [Event -> {"ABSENT", "DRAFT", "PUBLISHED", "CANCELLED", "FINISHED"}]
  /\ capacity \in [Event -> Nat \cup {None}]
  /\ participation \in [Event -> [User ->
       {"NONE", "PENDING", "CONFIRMED", "REJECTED", "REMOVED", "CANCELLED"}]]
  /\ blocks \subseteq User \X User /\ deleted \subseteq User
  /\ privacy \in [Event -> Privacy] /\ phase \in [Event -> Phase]
  /\ favorites \subseteq User \X Event

(* What is chosen when an event is created, and whether it is already there, *)
(* as the draft and the finished event of the seed are.                      *)
Kind == [privacy : Privacy, capacity : Nat \cup {None},
         status : {"ABSENT", "DRAFT", "FINISHED"}]

(* What the module asks of its constants.                                  *)
ListingsConstants ==
  /\ IsFiniteSet(Event) /\ Organizer \in [Event -> User]
  /\ Seeds \subseteq [Event -> Kind]

Seeded ==
  /\ \E kind \in Seeds :
       /\ privacy = [e \in Event |-> kind[e].privacy]
       /\ capacity = [e \in Event |-> kind[e].capacity]
       /\ eventStatus = [e \in Event |-> kind[e].status]
  /\ phase = [e \in Event |-> IF eventStatus[e] = "FINISHED" THEN "OVER" ELSE "UPCOMING"]
  /\ participation = [e \in Event |-> [u \in User |-> "NONE"]]
  /\ blocks = {} /\ deleted = {} /\ favorites = {}

-----------------------------------------------------------------------------
(* The event and the viewer *)

Exists(e) == eventStatus[e] # "ABSENT"
Confirmed(e, u) == participation[e][u] = "CONFIRMED"
Over(e) == eventStatus[e] = "FINISHED" \/ phase[e] = "OVER"
Hidden(u, v) == <<u, v>> \in blocks \/ <<v, u>> \in blocks

(* _get_visible_user: a block hides a profile as if it were deleted.       *)
Visible(u, v) == u \notin deleted /\ ~Hidden(u, v)

(* resolve_location, with the participation the caller passes.             *)
Precision(e, isOrganizer, status) ==
  IF privacy[e] # "PRIVATE" \/ isOrganizer \/ status = "CONFIRMED"
  THEN "EXACT" ELSE "APPROXIMATE"

-----------------------------------------------------------------------------
(* The details of an event *)

(* The query finds the event and the service does not refuse it.           *)
Opens(e, v) ==
  /\ Exists(e)
  /\ ~Hidden(Organizer[e], v)
  /\ eventStatus[e] = "DRAFT" => Organizer[e] = v
  /\ privacy[e] = "INVITE_ONLY" => Organizer[e] = v \/ Confirmed(e, v)
  /\ eventStatus[e] # "CANCELLED"

(* A rejected or removed participant is offered the event again.           *)
MutAvailableAction(e, v) ==
  CASE Organizer[e] = v -> "MANAGE"
    [] Organizer[e] # v /\ eventStatus[e] # "PUBLISHED" -> "NONE"
    [] OTHER -> CASE participation[e][v] = "CONFIRMED" -> "CANCEL_PRESENCE"
                  [] participation[e][v] = "PENDING" -> "CANCEL_PRESENCE"
                  [] participation[e][v] \notin {"CONFIRMED", "PENDING"} ->
                       CASE privacy[e] = "PUBLIC" -> "CONFIRM"
                         [] privacy[e] = "PRIVATE" -> "REQUEST"
                         [] OTHER -> "NONE"

AvailableAction(e, v) ==
  LET status == participation[e][v] IN
  CASE Organizer[e] = v -> "MANAGE"
    [] Organizer[e] # v /\ eventStatus[e] # "PUBLISHED" -> "NONE"
    [] OTHER ->
         CASE status = "CONFIRMED" -> "CANCEL_PRESENCE"
           [] status = "PENDING" /\ privacy[e] = "PRIVATE" -> "CANCEL_PRESENCE"
           [] status \in Reenterable /\ privacy[e] = "PUBLIC" -> "CONFIRM"
           [] status \in Reenterable /\ privacy[e] = "PRIVATE" -> "REQUEST"
           [] OTHER -> "NONE"

DetailsPrecision(e, v) == Precision(e, Organizer[e] = v, participation[e][v])

CanSeeParticipants(e, v) ==
  privacy[e] = "PUBLIC" \/ Organizer[e] = v \/ Confirmed(e, v)

(* GET /events/{id}/participants answers with the confirmed ones.          *)
ListsParticipants(e, v) ==
  /\ Exists(e)
  /\ Organizer[e] # v => privacy[e] = "PUBLIC" \/ Confirmed(e, v)

(* ExperienceService._is_visible: who may see the photos of an event.      *)
GalleryOpens(e, v) ==
  /\ Exists(e)
  /\ ~Hidden(Organizer[e], v)
  /\ eventStatus[e] \notin {"DRAFT", "CANCELLED"}
  /\ privacy[e] = "INVITE_ONLY" => Organizer[e] = v \/ Confirmed(e, v)

(* What a shared link and an invite show before it is known to whom.       *)
Shareable(e) == eventStatus[e] = "PUBLISHED"
SharePrecision(e) == Precision(e, FALSE, "NONE")

-----------------------------------------------------------------------------
(* The lists *)

(* What the queries of the feed and of the map have in common.             *)
Discoverable(e, v) ==
  /\ eventStatus[e] = "PUBLISHED"
  /\ phase[e] = "UPCOMING"
  /\ privacy[e] \in {"PUBLIC", "PRIVATE"}
  /\ ~Hidden(Organizer[e], v)

Nearby(v) == {e \in Event : Discoverable(e, v)}
NearbyPrecision(e, v) == Precision(e, Organizer[e] = v, participation[e][v])

Feed(v) == {e \in Event : Discoverable(e, v) /\ Organizer[e] # v /\ ~Confirmed(e, v)}
FeedPrecision(e, v) == Precision(e, Organizer[e] = v, participation[e][v])

(* The condition of each tab of u; publicOnly is set for a visitor.        *)
InTab(e, u, tab, publicOnly) ==
  CASE tab = "HISTORY" ->
         /\ Over(e) /\ eventStatus[e] \in {"PUBLISHED", "FINISHED"}
         /\ Organizer[e] = u \/ Confirmed(e, u)
    [] tab = "CREATED" ->
         /\ Organizer[e] = u /\ ~Over(e)
         /\ eventStatus[e] \in IF publicOnly THEN {"PUBLISHED"} ELSE {"PUBLISHED", "DRAFT"}
    [] tab = "INTERESTS" ->
         /\ <<u, e>> \in favorites /\ ~Over(e) /\ eventStatus[e] = "PUBLISHED"
         /\ privacy[e] # "INVITE_ONLY" \/ Organizer[e] = u \/ Confirmed(e, u)
    [] tab = "CONFIRMED" ->
         Confirmed(e, u) /\ ~Over(e) /\ eventStatus[e] = "PUBLISHED"

(* A favorite is listed whatever became of its event's visibility.         *)
MutListForUser(u, tab, v) ==
  {e \in Event :
     /\ Exists(e) /\ ~Hidden(Organizer[e], v)
     /\ u # v => privacy[e] = "PUBLIC"
     /\ \/ InTab(e, u, tab, u # v)
        \/ tab = "INTERESTS" /\ <<u, e>> \in favorites /\ eventStatus[e] = "PUBLISHED"}

ListForUser(u, tab, v) ==
  {e \in Event :
     /\ Exists(e)
     /\ ~Hidden(Organizer[e], v)
     /\ u # v => privacy[e] = "PUBLIC"
     /\ InTab(e, u, tab, u # v)}

(* The tabs v may ask of u's profile.                                      *)
AllowedTabs(u, v) ==
  IF u = v /\ u \notin Business THEN Tab ELSE {"HISTORY", "CREATED"}

(* Forgets that the owner of the profile may be a participant.             *)
MutItemPrecision(e, u, v) == Precision(e, Organizer[e] = v, "NONE")

(* The participation of a card is the owner's and opens nothing to others. *)
ItemPrecision(e, u, v) ==
  Precision(e, Organizer[e] = v, IF u = v /\ Confirmed(e, u) THEN "CONFIRMED" ELSE "NONE")

-----------------------------------------------------------------------------
(* The counters *)

CreatedCount(u, publicOnly) ==
  Cardinality({e \in Event : /\ Organizer[e] = u
                             /\ eventStatus[e] \in {"PUBLISHED", "FINISHED"}
                             /\ publicOnly => privacy[e] = "PUBLIC"})

ConfirmedCount(u) ==
  Cardinality({e \in Event : Confirmed(e, u) /\ eventStatus[e] = "PUBLISHED" /\ ~Over(e)})

PastCount(u) ==
  Cardinality({e \in Event : /\ eventStatus[e] \in {"PUBLISHED", "FINISHED"} /\ Over(e)
                             /\ Organizer[e] = u \/ Confirmed(e, u)})

-----------------------------------------------------------------------------
(* Requests that change what is listed *)

CreateEvent(e) ==
  /\ Organizer[e] \notin deleted
  /\ Publish(e)
  /\ phase[e] = "UPCOMING"
  /\ UNCHANGED ownVars

(* request_or_join, as far as it does not depend on the seats.             *)
MayRequest(e, u) ==
  /\ ~Separated(e, u)
  /\ privacy[e] # "INVITE_ONLY"
  /\ eventStatus[e] = "PUBLISHED"
  /\ Organizer[e] # u
  /\ participation[e][u] \in Reenterable

RequestOrJoin(e, u) ==
  /\ u \notin deleted
  /\ MayRequest(e, u)
  /\ Enter(e, u, IF privacy[e] = "PUBLIC" THEN "CONFIRMED" ELSE "PENDING")
  /\ UNCHANGED ownVars

(* A link expires at the start its event had when the link was made, so    *)
(* the event may be at any phase; the organizer may hold one too.          *)
AcceptInvite(e, u) ==
  /\ u \notin deleted
  /\ privacy[e] = "INVITE_ONLY"
  /\ Enter(e, u, "CONFIRMED")
  /\ UNCHANGED ownVars

AnswerRequest(e, u, status) ==
  /\ Organizer[e] \notin deleted
  /\ Answer(e, u, status)
  /\ UNCHANGED ownVars

MayCancel(e, u) == participation[e][u] \in Active /\ ~Over(e)

CancelParticipation(e, u) ==
  /\ u \notin deleted
  /\ MayCancel(e, u)
  /\ Leave(e, u)
  /\ UNCHANGED ownVars

OrganizerCancels(e) ==
  /\ Organizer[e] \notin deleted
  /\ eventStatus[e] # "FINISHED"
  /\ CancelEvent(e)
  /\ UNCHANGED ownVars

(* A new start is in the future; a new end may leave a started event over. *)
Reschedule(e, p) ==
  /\ Organizer[e] \notin deleted
  /\ eventStatus[e] \notin {"ABSENT", "FINISHED"}
  /\ p # phase[e]
  /\ p = "UPCOMING" \/ phase[e] # "UPCOMING"
  /\ phase' = [phase EXCEPT ![e] = p]
  /\ UNCHANGED <<lifecycleVars, privacy, favorites>>

(* Withdraws the blocked user from the blocker's events only.              *)
MutBlockUser(a, b) ==
  /\ {a, b} \cap deleted = {} /\ a # b
  /\ blocks' = blocks \cup {<<a, b>>}
  /\ WithdrawRows({e \in Event : Organizer[e] = a} \X {b})
  /\ UNCHANGED <<eventStatus, capacity, deleted, ownVars>>

BlockUser(a, b) ==
  /\ {a, b} \cap deleted = {}
  /\ Block(a, b)
  /\ UNCHANGED ownVars

UnblockUser(a, b) ==
  /\ a \notin deleted
  /\ <<a, b>> \in blocks
  /\ Unblock(a, b)
  /\ UNCHANGED ownVars

(* An account with published events ahead is not deleted.                  *)
DeleteUser(u) ==
  /\ u \notin deleted
  /\ \A e \in Event : ~(Organizer[e] = u /\ eventStatus[e] = "PUBLISHED" /\ phase[e] # "OVER")
  /\ DeleteAccount(u)
  /\ UNCHANGED ownVars

(* _favorite_for: only what opens, and not a draft.                        *)
MayFavorite(e, u) ==
  u \notin Business \cup deleted /\ Opens(e, u) /\ eventStatus[e] # "DRAFT"

Favorite(e, u) ==
  /\ MayFavorite(e, u)
  /\ favorites' = favorites \cup {<<u, e>>}
  /\ UNCHANGED <<lifecycleVars, privacy, phase>>

Unfavorite(e, u) ==
  /\ MayFavorite(e, u)
  /\ favorites' = favorites \ {<<u, e>>}
  /\ UNCHANGED <<lifecycleVars, privacy, phase>>

Elapse(e) ==
  /\ phase[e] # "OVER"
  /\ phase' = [phase EXCEPT ![e] = IF @ = "UPCOMING" THEN "RUNNING" ELSE "OVER"]
  /\ UNCHANGED <<lifecycleVars, privacy, favorites>>

Changed ==
  \/ \E e \in Event :
       \/ CreateEvent(e) \/ OrganizerCancels(e) \/ Elapse(e)
       \/ \E p \in Phase : Reschedule(e, p)
       \/ \E u \in User :
            \/ RequestOrJoin(e, u) \/ AcceptInvite(e, u) \/ CancelParticipation(e, u)
            \/ \E status \in {"CONFIRMED", "REJECTED", "REMOVED"} : AnswerRequest(e, u, status)
            \/ Favorite(e, u) \/ Unfavorite(e, u)
  \/ \E a, b \in User : BlockUser(a, b) \/ UnblockUser(a, b)
  \/ \E u \in User : DeleteUser(u)

ListingSpec == Seeded /\ [][Changed]_listingVars

-----------------------------------------------------------------------------
(* Properties *)

(* Every event a user is shown, in the feed, on the map or in a tab of a   *)
(* profile, opens when the user taps it: the queries of the lists apply    *)
(* the same rules as get_details, which is written on its own.             *)
ListedCanBeOpened ==
  \A v \in User \ deleted : \A e \in Event :
     \/ e \in Feed(v) \cup Nearby(v)
     \/ \E u \in User : Visible(u, v) /\ \E tab \in AllowedTabs(u, v) : e \in ListForUser(u, tab, v)
     => Opens(e, v)

(* "A list never disagrees with the counter shown on its tab"              *)
(* (user_events.py): although only the lists leave out the events of       *)
(* organizers the user blocked.                                            *)
CountersMatchLists ==
  \A u \in User \ deleted :
     /\ ConfirmedCount(u) = Cardinality(ListForUser(u, "CONFIRMED", u))
     /\ PastCount(u) = Cardinality(ListForUser(u, "HISTORY", u))
     /\ \A v \in User \ deleted : Visible(u, v) =>
          CreatedCount(u, u # v) =
            Cardinality({e \in ListForUser(u, "CREATED", v) : eventStatus[e] # "DRAFT"})
          + Cardinality({e \in ListForUser(u, "HISTORY", v) : Organizer[e] = u})

(* What the details of an event offer is accepted in the same state: to    *)
(* join or to ask while there is a seat, to leave before the event is      *)
(* over, and to see the participants; the photos open exactly where the    *)
(* details of an event that is no draft do.                                *)
OfferedActionsAccepted ==
  \A v \in User \ deleted : \A e \in Event :
   /\ GalleryOpens(e, v) => Opens(e, v)
   /\ Opens(e, v) =>
     /\ AvailableAction(e, v) \in {"CONFIRM", "REQUEST"} => MayRequest(e, v)
     /\ AvailableAction(e, v) = "CANCEL_PRESENCE" /\ ~Over(e) => MayCancel(e, v)
     /\ CanSeeParticipants(e, v) => ListsParticipants(e, v)
     /\ GalleryOpens(e, v) = (eventStatus[e] # "DRAFT")

(* A card shows the address exactly when the details of the event do, on   *)
(* whichever list the user sees it: the lists of a profile resolve it with *)
(* what they know of its owner.  A shared link shows an address to nobody  *)
(* the details would deny it.                                              *)
LocationsAgree ==
  \A v \in User \ deleted :
     /\ \A e \in Event : Shareable(e) /\ SharePrecision(e) = "EXACT"
          => DetailsPrecision(e, v) = "EXACT"
     /\ \A e \in Feed(v) : FeedPrecision(e, v) = DetailsPrecision(e, v)
     /\ \A e \in Nearby(v) : NearbyPrecision(e, v) = DetailsPrecision(e, v)
     /\ \A u \in User : Visible(u, v) =>
          \A tab \in AllowedTabs(u, v) : \A e \in ListForUser(u, tab, v) :
             ItemPrecision(e, u, v) = DetailsPrecision(e, v)
=============================================================================
