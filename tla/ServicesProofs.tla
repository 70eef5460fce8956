---------------------------- MODULE ServicesProofs ----------------------------
(***************************************************************************)
(* What was proved of each service holds in Services.tla, where a          *)
(* behaviour is about one of them: the focus never changes, so a behaviour *)
(* is one of the module in focus or the property has nothing to say.       *)
(***************************************************************************)
EXTENDS Services, TLAPS

-----------------------------------------------------------------------------
(* The focus                                                               *)

LEMMA CodesInFocus ==
  Spec => \/ [](focus = "codes") /\ Codes!Spec
          \/ []~(focus = "codes")
<1>1. Init => (focus = "codes" => Codes!Init)
  BY DEF Init
<1>2. [Next]_vars =>
        /\ focus = "codes" => (focus = "codes")' /\ [Codes!Next]_(Codes!vars)
        /\ ~(focus = "codes") => (~(focus = "codes"))'
  BY DEF Next, vars, codesVars, Codes!vars, Codes!rows, Codes!work
<1> QED
  BY <1>1, <1>2, PTL DEF Spec, Codes!Spec

LEMMA AccountsInFocus ==
  Spec => \/ [](focus = "accounts") /\ People!Spec
          \/ []~(focus = "accounts")
<1>1. Init => (focus = "accounts" => People!Init)
  BY DEF Init
<1>2. [Next]_vars =>
        /\ focus = "accounts" => (focus = "accounts")' /\ [People!Next]_(People!vars)
        /\ ~(focus = "accounts") => (~(focus = "accounts"))'
  BY DEF Next, vars, accountsVars, People!vars, People!rows, People!work
<1> QED
  BY <1>1, <1>2, PTL DEF Spec, People!Spec

LEMMA ListingsInFocus ==
  Spec => \/ [](focus = "listings") /\ Lists!ListingSpec
          \/ []~(focus = "listings")
<1>1. Init => (focus = "listings" => Lists!Seeded)
  BY DEF Init
<1>2. [Next]_vars =>
        /\ focus = "listings" => (focus = "listings")' /\ [Lists!Changed]_(Lists!listingVars)
        /\ ~(focus = "listings") => (~(focus = "listings"))'
  BY DEF Next, vars, listingsVars, Lists!listingVars, Lists!lifecycleVars
<1> QED
  BY <1>1, <1>2, PTL DEF Spec, Lists!ListingSpec

LEMMA PagingInFocus ==
  Spec => \/ [](focus = "paging") /\ Lists!PagingSpec
          \/ []~(focus = "paging")
<1>1. Init => (focus = "paging" => Lists!PagingInit)
  BY DEF Init
<1>2. [Next]_vars =>
        /\ focus = "paging" => (focus = "paging")' /\ [Lists!PagingNext]_(Lists!pagingVars)
        /\ ~(focus = "paging") => (~(focus = "paging"))'
  BY DEF Next, vars, pagingVars, Lists!pagingVars
<1> QED
  BY <1>1, <1>2, PTL DEF Spec, Lists!PagingSpec

LEMMA TaxonomyInFocus ==
  Spec => \/ [](focus = "taxonomy") /\ Lists!TaxonomySpec
          \/ []~(focus = "taxonomy")
<1>1. Init => (focus = "taxonomy" => Lists!TaxonomyInit)
  BY DEF Init
<1>2. [Next]_vars =>
        /\ focus = "taxonomy" => (focus = "taxonomy")' /\ [Lists!TaxonomyNext]_(Lists!taxonomyVars)
        /\ ~(focus = "taxonomy") => (~(focus = "taxonomy"))'
  BY DEF Next, vars, taxonomyVars, Lists!taxonomyVars
<1> QED
  BY <1>1, <1>2, PTL DEF Spec, Lists!TaxonomySpec

(* Every wrong guess is counted on its code, and only the guesses under    *)
(* way pass the limit.                                                     *)
THEOREM EveryGuessCounts == Spec => []GuessesCounted
<1>1. Codes!Spec => []Codes!GuessesCounted
  BY Codes!EveryGuessCounts, ServicesAssumption DEF ServicesAssumption
<1>2. GuessesCounted <=> (focus = "codes" => Codes!GuessesCounted)
  BY DEF GuessesCounted
<1> QED
  BY CodesInFocus, <1>1, <1>2, PTL

(* A code is used up by one change of password and by nothing else.        *)
THEOREM EveryChangeIsPaid == Spec => []UsedCodesMadeChanges
<1>1. Codes!Spec => []Codes!UsedCodesMadeChanges
  BY Codes!EveryChangeIsPaid, ServicesAssumption DEF ServicesAssumption
<1>2. UsedCodesMadeChanges <=> (focus = "codes" => Codes!UsedCodesMadeChanges)
  BY DEF UsedCodesMadeChanges
<1> QED
  BY CodesInFocus, <1>1, <1>2, PTL

(* A token of a login with the current password is accepted.               *)
THEOREM FreshLoginsWork == Spec => []FreshLoginAccepted
<1>1. Codes!Spec => []Codes!FreshLoginAccepted
  BY Codes!FreshLoginsWork, ServicesAssumption DEF ServicesAssumption
<1>2. FreshLoginAccepted <=> (focus = "codes" => Codes!FreshLoginAccepted)
  BY DEF FreshLoginAccepted
<1> QED
  BY CodesInFocus, <1>1, <1>2, PTL

(* Active accounts never share an email, a CPF or a CNPJ.                  *)
THEOREM AccountsAreUnique == Spec => []UniqueAccounts
<1>1. People!Spec => []People!UniqueAccounts
  BY People!AccountsAreUnique, ServicesAssumption DEF ServicesAssumption
<1>2. UniqueAccounts <=> (focus = "accounts" => People!UniqueAccounts)
  BY DEF UniqueAccounts
<1> QED
  BY AccountsInFocus, <1>1, <1>2, PTL

(* What the deletion of an account erased stays erased.                    *)
THEOREM DeletionsErase == Spec => []DeletedStaysBlank
<1>1. People!Spec => []People!DeletedStaysBlank
  BY People!DeletionsErase, ServicesAssumption DEF ServicesAssumption
<1>2. DeletedStaysBlank <=> (focus = "accounts" => People!DeletedStaysBlank)
  BY DEF DeletedStaysBlank
<1> QED
  BY AccountsInFocus, <1>1, <1>2, PTL

(* Every event a user is shown in a list opens.                            *)
THEOREM ListsOpen == Spec => []ListedCanBeOpened
<1>1. Lists!ListingSpec => []Lists!ListedCanBeOpened
  BY Lists!ListsOpen, ServicesAssumption DEF ServicesAssumption
<1>2. ListedCanBeOpened <=> (focus = "listings" => Lists!ListedCanBeOpened)
  BY DEF ListedCanBeOpened
<1> QED
  BY ListingsInFocus, <1>1, <1>2, PTL

(* The counters of a profile agree with its lists.                         *)
THEOREM CountersAgree == Spec => []CountersMatchLists
<1>1. Lists!ListingSpec => []Lists!CountersMatchLists
  BY Lists!CountersAgree, ServicesAssumption DEF ServicesAssumption
<1>2. CountersMatchLists <=> (focus = "listings" => Lists!CountersMatchLists)
  BY DEF CountersMatchLists
<1> QED
  BY ListingsInFocus, <1>1, <1>2, PTL

(* What the details of an event offer is accepted.                         *)
THEOREM OffersAccepted == Spec => []OfferedActionsAccepted
<1>1. Lists!ListingSpec => []Lists!OfferedActionsAccepted
  BY Lists!OffersAccepted, ServicesAssumption DEF ServicesAssumption
<1>2. OfferedActionsAccepted <=> (focus = "listings" => Lists!OfferedActionsAccepted)
  BY DEF OfferedActionsAccepted
<1> QED
  BY ListingsInFocus, <1>1, <1>2, PTL

(* Every list shows an address exactly when the details do.                *)
THEOREM AddressesAgree == Spec => []LocationsAgree
<1>1. Lists!ListingSpec => []Lists!LocationsAgree
  BY Lists!AddressesAgree, ServicesAssumption DEF ServicesAssumption
<1>2. LocationsAgree <=> (focus = "listings" => Lists!LocationsAgree)
  BY DEF LocationsAgree
<1> QED
  BY ListingsInFocus, <1>1, <1>2, PTL

(* A client walking a list is given every undisturbed row exactly once.    *)
THEOREM PagesAreStable == Spec => []EachRowOnce
<1>1. Lists!PagingSpec => []Lists!EachRowOnce
  BY Lists!PagesAreStable, ServicesAssumption DEF ServicesAssumption
<1>2. EachRowOnce <=> (focus = "paging" => Lists!EachRowOnce)
  BY DEF EachRowOnce
<1> QED
  BY PagingInFocus, <1>1, <1>2, PTL

(* Every interest is listed under its macro tag.                           *)
THEOREM InterestsAreGrouped == Spec => []GroupedUnderRoot
<1>1. Lists!TaxonomySpec => []Lists!GroupedUnderRoot
  BY Lists!InterestsAreGrouped, ServicesAssumption DEF ServicesAssumption
<1>2. GroupedUnderRoot <=> (focus = "taxonomy" => Lists!GroupedUnderRoot)
  BY DEF GroupedUnderRoot
<1> QED
  BY TaxonomyInFocus, <1>1, <1>2, PTL

(* A profile write, tag set, device or deletion nothing overlapped lands.  *)
THEOREM LoneRequestsLand == Spec => LoneWritesLand
<1>1. People!Spec => [][People!LoneWriteLands]_(People!vars)
  BY People!LoneRequestsLand, ServicesAssumption DEF ServicesAssumption, People!LoneWritesLand
<1>2. [Next]_vars /\ [People!LoneWriteLands]_(People!vars)
        => [focus = "accounts" => People!LoneWriteLands]_<<focus, accountsVars>>
  BY DEF Next, vars, accountsVars, People!vars, People!rows, People!work
<1>3. [Next]_vars /\ ~(focus = "accounts")
        => [focus = "accounts" => People!LoneWriteLands]_<<focus, accountsVars>>
  OBVIOUS
<1> QED
  BY AccountsInFocus, <1>1, <1>2, <1>3, PTL DEF Spec, LoneWritesLand

(* Every variable of the service in focus has its type.                    *)
THEOREM TypeCorrect == Spec => []TypeOK
<1>1. /\ Codes!Spec => []Codes!TypeOK
      /\ People!Spec => []People!TypeOK
      /\ Lists!ListingSpec => []Lists!TypeOK
      /\ Lists!PagingSpec => []Lists!PagingTypeOK
  BY Codes!TypeCorrect, People!TypeCorrect, Lists!TypeCorrect,
     Lists!PagingTypeCorrect, ServicesAssumption DEF ServicesAssumption
<1>2. Lists!TaxonomySpec => []Lists!TaxonomyTypeOK
  BY Lists!TaxonomyTypeCorrect, ServicesAssumption DEF ServicesAssumption
<1>3. TypeOK <=> /\ focus = "codes" => Codes!TypeOK
                 /\ focus = "accounts" => People!TypeOK
                 /\ focus = "listings" => Lists!TypeOK
                 /\ focus = "paging" => Lists!PagingTypeOK
                 /\ focus = "taxonomy" => Lists!TaxonomyTypeOK
  BY DEF TypeOK
<1> QED
  BY CodesInFocus, AccountsInFocus, ListingsInFocus, PagingInFocus,
     TaxonomyInFocus, <1>1, <1>2, <1>3, PTL
=============================================================================
