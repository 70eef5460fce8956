------------------------------ MODULE Services --------------------------------
(***************************************************************************)
(* Password reset, accounts, listings, paging and the taxonomy in one      *)
(* specification.  They share no variable and no action of one is guarded  *)
(* by another, so interleaving them would reach no state that they         *)
(* do not reach alone: a behaviour is about one of them, its focus, and    *)
(* leaves the variables of the others at None.  Each module is             *)
(* instantiated with its theorems.                                         *)
(***************************************************************************)
EXTENDS Naturals

CONSTANTS
  None, Gone, Session,          \* nulls, sessions of the database
  \* PasswordReset
  Horizon, SecondLength, CodeLife, TokenLife, LimitWindow, RequestLimit,
  MaxAttempts, MaxCodes, MaxGuesses,
  \* Accounts
  Id, Shop, Email, Document, Interest, Device, Value, MaxRequests,
  \* Listings
  User, Event, Business, Organizers, EventSeeds,
  \* Paging
  MaxRow, MaxKey, Limits, MaxChanges,
  \* Taxonomy
  Tag, MaxTagDepth

VARIABLES focus, codes, password, changedAt, codesDeleted, recent, codesPc,
  held, at, swept, resetTokens, tokens, now, codesMinted, codesRequests, wrong,
  codesChanges, email, document, accountsProfile, accountsDeleted, tags,
  device, follows, accountsPc, by, asked, read, doomed, userLock,
  profileLock, accountsRequests, late, alone, outcome, eventStatus, capacity,
  participation, blocks, listingsDeleted, privacy, phase, favorites, listing,
  key, flaws, cursor, done, seen, disturbed, moved, pagingChanges, parent,
  interests

codesVars == <<codes, password, changedAt, codesDeleted, recent, codesPc,
  held, at, swept, resetTokens, tokens, now, codesMinted, codesRequests, wrong,
  codesChanges>>
accountsVars == <<email, document, accountsProfile, accountsDeleted, tags,
  device, follows, accountsPc, by, asked, read, doomed, userLock,
  profileLock, accountsRequests, late, alone, outcome>>
listingsVars == <<eventStatus, capacity, participation, blocks,
  listingsDeleted, privacy, phase, favorites>>
pagingVars == <<listing, key, flaws, cursor, done, seen, disturbed, moved,
  pagingChanges>>
taxonomyVars == <<parent, interests>>

Codes == INSTANCE PasswordResetProofs WITH MaxRequests <- MaxGuesses,
        deleted <- codesDeleted, pc <- codesPc, minted <- codesMinted,
        requests <- codesRequests, changes <- codesChanges
People == INSTANCE AccountsProofs WITH Tag <- Interest, Business <- Shop,
        profile <- accountsProfile, deleted <- accountsDeleted,
        pc <- accountsPc, requests <- accountsRequests
Lists == INSTANCE ListingsProofs WITH Organizer <- Organizers, Seeds <- EventSeeds,
        deleted <- listingsDeleted, changes <- pagingChanges,
        NoParent <- None

(* What the modules ask of their constants.                                *)
ASSUME ServicesAssumption ==
  /\ Codes!ResetConstants /\ People!AccountsConstants
  /\ Lists!ListingsConstants /\ Lists!PagingConstants /\ Lists!TaxonomyConstants

CodesIdle == codes = None /\ password = None /\ changedAt = None
  /\ codesDeleted = None /\ recent = None /\ codesPc = None /\ held = None
  /\ at = None /\ swept = None /\ resetTokens = None /\ tokens = None /\ now = None
  /\ codesMinted = None /\ codesRequests = None /\ wrong = None
  /\ codesChanges = None
AccountsIdle == email = None /\ document = None /\ accountsProfile = None
  /\ accountsDeleted = None /\ tags = None /\ device = None /\ follows = None
  /\ accountsPc = None /\ by = None /\ asked = None /\ read = None
  /\ doomed = None /\ userLock = None /\ profileLock = None
  /\ accountsRequests = None /\ late = None /\ alone = None /\ outcome = None
ListingsIdle == eventStatus = None /\ capacity = None /\ participation = None
  /\ blocks = None /\ listingsDeleted = None /\ privacy = None
  /\ phase = None /\ favorites = None
PagingIdle == listing = None /\ key = None /\ flaws = None /\ cursor = None
  /\ done = None /\ seen = None /\ disturbed = None /\ moved = None
  /\ pagingChanges = None
TaxonomyIdle == parent = None /\ interests = None

Init ==
  \/ /\ focus = "codes" /\ Codes!Init
     /\ AccountsIdle /\ ListingsIdle /\ PagingIdle
     /\ TaxonomyIdle
  \/ /\ focus = "accounts" /\ People!Init
     /\ CodesIdle /\ ListingsIdle /\ PagingIdle /\ TaxonomyIdle
  \/ /\ focus = "listings" /\ Lists!Seeded
     /\ CodesIdle /\ AccountsIdle /\ PagingIdle /\ TaxonomyIdle
  \/ /\ focus = "paging" /\ Lists!PagingInit
     /\ CodesIdle /\ AccountsIdle /\ ListingsIdle
     /\ TaxonomyIdle
  \/ /\ focus = "taxonomy" /\ Lists!TaxonomyInit
     /\ CodesIdle /\ AccountsIdle /\ ListingsIdle /\ PagingIdle

Next ==
  \/ /\ focus = "codes" /\ Codes!Next
     /\ UNCHANGED <<focus, accountsVars, listingsVars, pagingVars,
          taxonomyVars>>
  \/ /\ focus = "accounts" /\ People!Next
     /\ UNCHANGED <<focus, codesVars, listingsVars, pagingVars,
          taxonomyVars>>
  \/ /\ focus = "listings" /\ Lists!Changed
     /\ UNCHANGED <<focus, codesVars, accountsVars, pagingVars,
          taxonomyVars>>
  \/ /\ focus = "paging" /\ Lists!PagingNext
     /\ UNCHANGED <<focus, codesVars, accountsVars, listingsVars,
          taxonomyVars>>
  \/ /\ focus = "taxonomy" /\ Lists!TaxonomyNext
     /\ UNCHANGED <<focus, codesVars, accountsVars, listingsVars,
          pagingVars>>

vars == <<focus, codesVars, accountsVars, listingsVars, pagingVars, taxonomyVars>>

Spec == Init /\ [][Next]_vars

-----------------------------------------------------------------------------
(* The properties of the modules, each where the focus is on it *)

(* Every variable of every module has its type. *)
TypeOK ==
  /\ focus = "codes" => Codes!TypeOK
  /\ focus = "accounts" => People!TypeOK
  /\ focus = "listings" => Lists!TypeOK
  /\ focus = "paging" => Lists!PagingTypeOK
  /\ focus = "taxonomy" => Lists!TaxonomyTypeOK

(* Every wrong guess is on its code; only guesses under way pass the limit. *)
GuessesCounted == focus = "codes" => Codes!GuessesCounted

(* A code is used up by one change of password and by nothing else. *)
UsedCodesMadeChanges == focus = "codes" => Codes!UsedCodesMadeChanges

(* A token of a login with the current password is accepted. *)
FreshLoginAccepted == focus = "codes" => Codes!FreshLoginAccepted

(* Active accounts never share an email, a CPF or a CNPJ. *)
UniqueAccounts == focus = "accounts" => People!UniqueAccounts

(* What the deletion of an account erased stays erased. *)
DeletedStaysBlank == focus = "accounts" => People!DeletedStaysBlank

(* Every event a user is shown in a list opens. *)
ListedCanBeOpened == focus = "listings" => Lists!ListedCanBeOpened

(* The counters of a profile agree with its lists. *)
CountersMatchLists == focus = "listings" => Lists!CountersMatchLists

(* What the details of an event offer is accepted. *)
OfferedActionsAccepted == focus = "listings" => Lists!OfferedActionsAccepted

(* Every list shows an address exactly when the details do. *)
LocationsAgree == focus = "listings" => Lists!LocationsAgree

(* A client walking a list is given every undisturbed row exactly once. *)
EachRowOnce == focus = "paging" => Lists!EachRowOnce

(* Every interest is listed under its macro tag. *)
GroupedUnderRoot == focus = "taxonomy" => Lists!GroupedUnderRoot

(* A profile write, tag set, device or deletion nothing overlapped lands.  *)
LoneWritesLand == [][focus = "accounts" => People!LoneWriteLands]_<<focus, accountsVars>>
=============================================================================
