# Hangy backend: a TLA+ model

Hangy is a FastAPI service over PostgreSQL for publishing events, joining them, connecting with
people and telling everyone about it. Every HTTP request is served by a worker thread that opens
one SQLAlchemy session (`infrastructure/repository/session.py`), runs one READ COMMITTED transaction
and closes it. There is no queue and no background worker except a timed job, so all concurrency is
between transactions, and correctness rests on which rows are locked, in which order, and on what
is read before the lock is granted. Paths below are relative to `src/app/`.

## Components

| component | state | operations | what makes it correct |
|---|---|---|---|
| Participation (`domain/services/participation.py`, `infrastructure/repository/participation.py`) | `event_participant` rows | join / ask to join | capacity, no way back after a rejection, no one enters a cancelled event |
| Invite links (`invite.py`, `event_privacy.py`) | `event_invite_link` | make, accept | same guards as a join, through other code |
| Organizer answers (`event.py`) | participant status | approve, reject, remove | capacity, state machine, only the organizer |
| Leaving (`cancel_participation.py`) | participant status | cancel | the organizer's notice goes with the request |
| Events (`event.py`) | `event`, covers in storage | create, edit, cancel | everyone affected is told; a cancellation is final; dates and cover stay consistent |
| Blocks (`block.py`, `block_access.py`) | `user_block` | block, unblock | nothing survives between blocked users |
| Account deletion (`delete_account.py`, `user.py`) | `user.deleted_at` | delete | no orphaned event, no seat and no connection left but one asked for meanwhile |
| Notifications (`notification_dispatcher.py`, `notification.py`) | `notification` and detail rows | dispatch, delete on settlement, read | the inbox matches what it is about |
| Devices and push (`device.py`, `expo_push_sender.py`) | `user_device` | register, remove, drop rejected tokens | dropping a token commits its caller's transaction |
| Connections (`connection.py`) | `user_connection` | ask, accept, reject, undo | one active row per pair, no connection across a block |
| Starting-soon job (`starting_soon.py`) | notices of one type | a batch every five minutes | everyone warned, once |
| Password reset and sessions (`password_reset.py`, `auth.py`) | `password_reset_token`, `password_changed_at`, the limiter's memory | request, verify, confirm, login | guesses counted, one change per code, a fresh login works |
| Experiences and photos (`experience.py`, `profile_photo.py`, `s3_storage.py`) | rows and S3 objects | write, add, replace, delete | rows and objects agree, limit of photos |
| Registration, profiles, tags, follows (`register.py`, `user_profile.py`, `business_profile.py`, `user_tags.py`, `follow.py`) | `user`, the two profiles, `user_tag`, `user_follows` | register, edit, choose, follow | unique accounts; what a deletion erased stays erased |
| Tags and the feed's sections (`tags.py`, `feed.py`) | `tag`, `user_tag` | list, choose, roll up | every interest under its macro tag |
| Favorites (`event_favorite.py`) | `event_favorite` | add, remove | what is listed opens |
| Listings, nearby, visibility, location (`feed.py`, `nearby.py`, `user_events.py`, `event_details.py`, `event_location.py`) | none | read | lists, counters and details agree |
| Pagination cursors (`pagination.py`) | none | read a page | no row skipped or repeated |
| Admin dashboard, terms, health; DTOs, assemblers, mappers; migrations; seeds, infrastructure | none of their own | reads and conversions | not modelled, see the end |

Interaction: the services share the database only. `block_access.lock_user_pair` (an advisory lock
on a hash of two user ids) serialises a block with everything written between the two users; the
event row lock serialises everything that decides about seats; participant rows are locked last.
The dispatcher runs inside the caller's transaction and, when Expo rejects a push token, commits it
(`device.py:62`). Photos and event covers share one bucket, and an event may name any object of it as its cover
(`event.py:350` of the services).

Hard behaviours: the last seat; a block racing a request; a cancellation that reads its recipients before it
locks anything; lock cycles; deleting an account while publishing, joining or being asked to connect; status
read from a column nobody updates; two edits of an event that both start from the same read; a job that warns
about what its first query saw; codes guessed in parallel; storage and database committing separately, and a
cover that is somebody's photo; an edit of a profile against the deletion of the account; and a dozen separate
queries that must agree on what a viewer may see.

## Modules

| module | models | kind |
|---|---|---|
| `EventLifecycle` | what the participation endpoints promise, every request atomic | abstract specification |
| `Participation` | the same requests, and the notices of a rescheduled event, as transactions: one action per statement that can wait or that decides, one for the commit | implements `EventLifecycle` |
| `PairRelations` | what the connection endpoints promise about two people | abstract specification |
| `Connections` | asking, answering, undoing, blocking, unblocking, deleting, as transactions over `user_connection` | implements `PairRelations` |
| `EventEditing` | PATCH of an event, its notices and its cover, with cancellation, comings and goings and the starting-soon job | state machine |
| `PasswordReset` | codes, guesses, reset tokens, changes of password, logins, access tokens, the limiter | state machine |
| `Media` | the photos of an event's experiences, its cover and the profile photos, over a database and a storage | state machine |
| `Accounts` | registration, profile edits, interests, devices, follows, deletion | state machine |
| `Listings` | what feed, map, tabs, counters, details and gallery show; EXTENDS `EventLifecycle`, whose operators are its participation requests | views of a state machine |
| `Paging` | every paginated endpoint, walked while rows come, go and move | state machine |
| `Taxonomy` | tags, interests and their roll-up to macro tags | algorithm over every tree |
| `Services` | codes, accounts, listings, paging and taxonomy side by side, one of them at a time | composition |
| `ParticipationProofs`, `ConnectionsProofs`, `EventEditingProofs`, `PasswordResetProofs`, `MediaProofs`, `AccountsProofs`, `ListingsProofs` (with `Paging` and `Taxonomy`) | the theorems about each module | proofs |
| `ServicesProofs` | the same theorems for `Services` | proofs |
| `MCParticipation`, `MCConnections`, `MCEditing`, `MCMedia`, `MCServices` | instances for TLC | |

`Participation` and `Connections` both model `block.py` and `user.py`, each the part that touches its
own rows. The two share `user_block`, `user` and the pair lock, and each keeps its own kinds of notices and row
locks, so they are checked side by side and not as a product. What this leaves out are waits that mix
the two: a block and a deletion lock connections first and participations second, both in that order.

### How the state corresponds to the code

| variable | code |
|---|---|
| `privacy`, `capacity`, `eventStatus` | columns of `event`; "ABSENT" means no row |
| `participation[e][u]` | status of the row unique on (user, event); "NONE" means no row |
| `blocks`, `deleted`, `links`, `inbox` | `user_block`, `user.deleted_at`, `event_invite_link`, `notification` with its detail row |
| `eventLock`, `pairLock`, `rowLock` | row locks on `event` and `event_participant`, the advisory lock of a pair |
| `pc[s]`, `job[s]` | the statement session `s` is about to run, and its request |
| `recipients[s]`, `draft[s]` | whom a cancellation or a rescheduled event has still to notify, and the notices not yet committed |
| `doomed[s]` (in `Participation`, `Connections`) | the rows the bulk UPDATE of a deletion found when it started |
| `phase[e]` | the clock against `starts_at` and `ends_at` |
| `served` | requests started; a bound of the model |
| `row`, `seen[s]`, `loaded[s]` (in `EventEditing`) | the committed columns, the entity the service read, and the row `db.get` loaded before the UPDATE |
| `toTell[s]`, `draft[s]`; `batch`, `warned[u]` | recipients still to notify and notices not committed; candidates of the running job and its committed notices |
| `stored` (in `EventEditing`, `Media`); `cover` (in `Media`) | objects in the bucket; `cover_photo_url` |
| `codes[k]`, `changedAt`, `recent` (in `PasswordReset`) | rows of `password_reset_token` by insertion, `password_changed_at`, the limiter's timestamps in memory |
| `swept[s]` | the codes the UPDATE of a code request matched and locks until its commit |
| `resetTokens`, `tokens` | signed tokens returned to clients |
| `gallery[p]`, `profile[u]` (in `Media`) | the active photo row and `profile_photo_url` that name an object |
| `excused`, `doubtful`, `retired` | objects that were left without a row for a reason the property names; photos committed by a request that was told it failed; photos on show that an event had as its cover until an edit changed it |
| `userLock`, `profileLock`, `doomed` (in `Accounts`) | row locks of the user and of its profile row; rows the DELETEs of a deletion matched |
| `raced`, `late`, `reused` | users who asked for a seat or a connection while their account was being deleted; accounts described by an edit after their deletion had read no description; whether an edit named a cover that was gone |
| `alone`, `outcome`, `overlapped`, `outdated`, `wrong`, `moved`, `disturbed` | history too: the properties are about it and no guard reads it |
| `connections` (in `Connections`) | rows of `user_connection` by insertion; `gone` is `deleted_at` |
| `rowLock[s]` (in `Connections`) | the connection row a session selected FOR UPDATE; 0 means none |

A READ COMMITTED transaction reads what is committed when the statement runs, so reads look at the
committed rows and writes appear at the commit. What a session has written and not committed
matters to itself only where all participants are notified (`draft`): everywhere else the last statement that reads
comes before the first that writes. `LockEvent`, `CheckPair`, `Decide` and `Commit` are the four
steps of a request; a step that needs a lock is enabled when the lock is free, and re-reads what it
decides on, as `SELECT ... FOR UPDATE` does. `Request...` is authentication and whatever the handler
reads before the first lock. `CreateInviteLink` is one step because it reads columns nothing changes.
`DeadlockVictim` is PostgreSQL's deadlock detector, `Crash` a worker or a statement that fails at any
point.

### Abstractions

* The bulk UPDATEs of a deletion (`user.py:103`, `user.py:122`) work on the rows committed when the statement
  starts (`DeleteScan`), and on each only if it still matches when its lock is granted. A row that becomes
  active after that is never touched, so it outlives the account: `EventLifecycle` and `PairRelations` allow
  that, and `DeletedKeepNothing` and `DeletedKeepNoRelation` say when it cannot happen. The UPDATE of a block
  (`block.py:52`) runs under the pair lock, without which no row of the pair becomes active.
* A bulk UPDATE waits for all the rows it works on and takes them in one step, with its commit. The code takes
  them one after another; a deletion that holds one row and waits for the next is not a state of the model. What
  is said about deadlocks is said of the requests and the locks that are modelled, and of these steps.
* The flush and the commit of a granted request are one step. Nobody can observe the gap: every
  other reader sees committed rows, and every other writer of that row waits on the event or the
  pair, except the deletion of an account, whose UPDATE re-evaluates its condition on the committed
  version.
* The UPDATE of a cancellation is an exclusive event lock, from the first notice (`CancelFlush`) to
  the commit; after a mid-way commit by a rejected token the foreign-key share lock of the next
  notices is treated as exclusive too, which only adds waiting.
* The notices of a rescheduled event (`event.py:298` of the repositories) refer to the event and take its
  key-share lock (`ShareEvent`), which excludes the `SELECT ... FOR UPDATE` of a seat and nothing else here. The
  edit that moved the event has committed before; it is in `EventEditing`, and in `Participation` the clock may
  stand before the event again (`EventMoves`). A change of place sends the same notices.
* The mid-way commit is modelled for cancellations and rescheduled events only: elsewhere the dispatcher runs
  last, after the writes have been flushed, and the commit that follows is the request's own.
* Locks that foreign keys take on `user` rows, and locks on devices, are not modelled in `Participation` and
  `Connections`.
* In `Connections` every user has a personal account (a business receiver is refused like a missing
  one, `connection.py:110`). An index violation at the INSERT (`connection.py:223`) is not an action:
  `FoundPairStaysFree` shows that it cannot happen, because whoever inserts has held the pair lock since
  its block check. The deletion of an account takes no pair lock and leaves its notices, which the
  list hides (`_is_live`, `notification.py:39`). A rejected row stays active, so it keeps the pair from
  asking again until either side undoes it.
* In `Participation` a link is identified with its event. `Listings` lets a link be accepted at any phase, as
  its expiry does not follow the event.
* DRAFT and FINISHED are left out of `Participation`: no endpoint or job sets them, only the seed scripts
  do. `Listings` starts from a table with a draft and a finished event as well. No endpoint soft-deletes
  an event.
* `event_creator_id` is the constant `Organizer[e]`: it is never updated.
* `EventEditing` keeps the columns some rule relates to another: the start, the end and the cover. Title, place
  and tags are merged and written the same way. EVENT_UPDATED is sent for a new place too; only a new start is
  modelled. Of a new cover the code looks at the bucket in its URL only (`s3.py:50`), so an edit may name one
  that an earlier edit deleted. What joins, leaves, blocks and cancellations do to the event there is atomic;
  their statements are in `Participation`. When `db.get` answers from the session's identity map, the load
  happens right after the read, which is one of the interleavings of `EditLoad`.
* `PasswordReset` is about one account, since nothing relates two. A code is compared by whether the guess
  is right; hashing and signing are left out, expiry and the whole seconds of `iat` are kept
  (`SecondLength` instants to a second).
* `Media` numbers the objects in the order of their upload keys; validation of the bytes and presigned
  addresses are left out. A storage error may come before or after the object is there, and an exception at a
  commit before or after it was applied. One event stands for all of them: two events, each with a
  cover, are two owners of an object like an event and a profile. A cover may name any object that was ever
  handed to a client, a photo on show included; a cover that names somebody's photo loses its object with it.
* In `Accounts` a profile is a column of the user's row (`name`), one of the profile's row (`place`), and one
  that may be null (`about`, the description); every other one is merged and written with the one it is like. A
  deletion does not write a column it read as null (`user.py:71-81`; the ORM writes the columns that differ),
  which matters to columns that may be null: the description here, `profile_photo_url` in `Media`; the phone
  behaves as the description does. Emails, documents and tokens are members of small sets. Whether a DELETE that
  finds no row fails the flush depends on the driver, so both happen (`TagsFail`).
* `Listings` computes each list in one state, as each is one SELECT. Distance, dates, text and tag filters
  take events out of a list and never put one in, so they are left out; so is the random offset of an
  approximate location.
* In `Paging` timestamps come from a set with ties, the interesting case for a cursor. Encoding is left out:
  a client sends back what it was given.
* No request changes a tag, so `Taxonomy` starts from every parent table, cycles included.
* Calls to Expo, payloads and wording are left out.

## Runs

All run with `CHECK_DEADLOCK FALSE`: a behaviour stops when the bound on its requests is used up.

| run | instance | checks |
|---|---|---|
| `participation_core` | organizer and two guests, one event, two sessions, capacity 1, 4 requests of every kind but unblocking | `TypeOK`, `BlockSeparates`, `LockOrderFollowed`, `OnlyNoticesDeadlock`, `NobodyEntersCancelledEvent`, `DeletedKeepNothing`, `ImplementsLifecycle` |
| `participation_seats` | the same people, 6 requests among create, join, accept, answer, leave | `CapacityRespected`, `GrantStaysValid`, `RequestNoticesMatch`, `AnswersAreFinal` |
| `requests_end` | organizer and guest, 4 requests among create, join, leave, cancel, reschedule, block, unblock | `EveryRequestEnds` |
| `connections` | three people, two sessions, 5 requests of all kinds | `FoundPairStaysFree`, `BlockSeparates`, `RequestNoticesMatch`, `DeletedKeepNoRelation`, `NoWaitCycle`, `SettledOnce`, `ImplementsRelations` |
| `editing` | one participant, two covers, two sessions, 2 edits, instants 0 to 3, one crash or failed statement | `CancelledStays`, `LoneEditsConsistent`, `RescheduleReachesAll`, `WarnedOnce`, `EveryoneWarned` |
| `media` | two people, one the organizer, two objects, two sessions, a limit of one photo, one failure | `PhotoLimitHolds`, `ShownPhotosExist`, `NothingLeaks` |
| `services` | five modules, one at a time, see below | one type invariant, eleven invariants, `LoneWritesLand` |
| `lock_order_cycle` | organizer and guest: join against cancel | `NoWaitCycle`, violated |
| `cancel_notice` | the same | `CancellationReachesEveryone`, violated |
| `orphaned_event` | create against delete | `NoOrphanedEvent`, violated |
| `finished_join` | create, join, clock | `FinishedEventRefusesJoins`, violated |
| `edit_dates` | two edits of the dates | `EndsAfterStarts`, violated |

`participation_seats` has neither blocks nor deletions, so for the notices of withdrawn requests
`RequestNoticesMatch` rests on the theorem `NoticesMatchRequests`, which has them. `LoneEditsConsistent` and
`ShownPhotosExist` name their exceptions: an edit that named a cover already deleted, and a photo that was a
cover. Both are things the code does (`event.py:331-337`, `350-352` of the services), and each is reached in its
run. So are the exceptions of `DeletedKeepNothing`, `DeletedKeepNoRelation` and `DeletedStaysBlank`: a seat, a
connection or a description that came while the account was being deleted.

In `media` two objects give a photo and its successor, or a photo and a cover; both people may write an
experience and one of them organizes; the one failure is any call that raises, before or after it was applied,
or a worker that dies.

What `services` shows, module by module. The five share no variable and no guard, so interleaving them would
reach nothing that each does not reach alone; `focus` picks one at the start and the others stay at None.

| focus | instance | properties |
|---|---|---|
| codes | two codes, three other requests, two sessions, 4 instants | `GuessesCounted`: parallel guesses are all counted and pass the limit by those under way at most. `UsedCodesMadeChanges`: a code pays for exactly one change. `FreshLoginAccepted`: a token issued in the second of a change is accepted |
| accounts | two people and a business, two emails, two documents, two tags, one device, 4 requests | `UniqueAccounts`, `DeletedStaysBlank` against edits under way, `LoneWritesLand` for a request that nothing overlapped (not for two saves of tags that race) |
| listings | two users with an event each, three mixes of privacy, with and without seeded events | `ListedCanBeOpened`, `CountersMatchLists`, `OfferedActionsAccepted`, `LocationsAgree` |
| paging | three rows, two timestamps, page sizes 1 and 2, two changes, all eleven lists | `EachRowOnce` |
| taxonomy | four tags under every parent table, depth 2 | `GroupedUnderRoot` |

Sessions, emails and documents are symmetric there: no module treats one differently from another
(the order in `Paging` is on numbers), and the only temporal property, `LoneWritesLand`, is about single
steps and quantifies over sessions.

Why the bounds are enough: every interference is between two transactions, and two are in flight; a third actor
matters only for a seat taken by somebody else, hence two guests; capacity 1 makes the last seat the first, and
`capacity` also ranges over no limit; one request is spent on creating the event, the others are two racing ones
after a prefix of one (four requests) or three (six). One event is enough: a wait across two events goes through
a pair that two events share, which the theorems `DeadlockNeedsNotices` and `NoDeadlockWithoutNotices` cover,
for any number of events. In `connections` a third person is there for notices and pairs that must not be
touched; five requests allow ask, accept, block and unblock before the pair asks again, or a prefix of three
before a race. In `editing` one participant suffices because recipients and candidates are told one by one and
nothing relates two; two edits are the race; three instants let the start move in and out of the job's window,
and past; the edits are a field at a time, a move of both dates, and a new start with a new cover. In `media` a
limit of one photo makes the last place the first. In the focuses of `services` two sessions are again the race.
Three guesses exceed `MaxAttempts` = 1 by the two under way and one more; two codes give an old and a new one.
Four requests in `Accounts` register two accounts and race two more on them; an edit, a follow or a device
against a deletion needs three. Two users and two events make everybody an organizer and a guest, with blocks
both ways. Three rows and pages of one or two give a full page, a short one and an exact end; two timestamps
force ties. Four tags make every tree one level deeper than the depth of 2, and every cycle up to length four.

The five violations are disagreements between the code and what it says:

1. `event.py:114` (repository): a cancellation takes pair locks before its UPDATE takes the event, against the
   order in `block_access.py:39-41`. A join that holds the event and wants the pair closes the cycle; PostgreSQL
   aborts one of them (an error 500 for somebody, no wrong data). The notices of a rescheduled event
   (`event.py:298`) do the same from the second on: `MCWaitCycle.cfg` with `reschedule` in the place of `cancel`
   shows it.
2. `event.py:103`: who joins after the recipients were listed and before the UPDATE is in a cancelled
   event and never told.
3. `delete_account.py:36`: an event created between the check and the deletion has a deleted organizer.
4. `participation.py:86`: an event that is over still takes participants, as nothing ever sets FINISHED
   and `ends_at` is not compared.
5. `event.py:238`: an edit compares the new end with the new start, each taken from the request or from
   what it read, and commits only the columns that changed. An edit that moves the start later and one that
   moves the end earlier, each valid, leave an event that ends before it starts. `LoneEditsConsistent` shows
   that this needs two edits that overlap.

Seen while modelling, and not stated as a property:

* Two code requests that overlap (`password_reset.py:110`): the older request may commit last and expire the
  newer code, which is the only one `verify` looks at, so neither code that was mailed works.
* The limiter keeps its timestamps per process (`password_reset.py:171`): a restart or a second worker forgets
  them.
* `password_changed_at` is the instant the request began, so a token issued earlier in that second
  outlives the change.
* A profile photo set while a deletion is under way is not cleared if the deletion read none (`user.py:80`).
* A photo whose `refresh` fails after its commit is on show without its object (`doubtful`).
* An event may take anybody's photo as its cover; the next change of its cover deletes the photo's object, and
  the photo stays on show without it (`retired`). The other way round, a cover that is a photo loses its object
  when the photo is replaced or removed.
* A seat or a connection taken while an account is being deleted outlives the account (`raced`), and so does a
  description written between the deletion's read and its flush (`late`).
* An open request can still be approved after the event was cancelled (`event.py:178` of the services looks at
  the row's status and at the seats).
* A link documented as single-use is never consumed, and its expiry stays where the start was
  (`event_privacy.py:36`).
* CANCEL_PRESENCE is offered for an event that is over and refused when used; the list of participants
  does not look at blocks.
* `followers_count` counts accounts the list of followers hides.

### Fairness

`FairSpec` asks weak fairness of each session's `Statement` and `DeadlockVictim`: a worker thread keeps
running its request and PostgreSQL looks for cycles after `deadlock_timeout`. Users, the clock and
crashes are not fair. Weak fairness suffices although locks are taken and freed: requests are
bounded, so a lock cannot be taken away forever, and PostgreSQL queues waiters in order.

`EventEditing` has `FairSpec` with weak fairness of `JobStep`, one run of the job and its steps: a systemd
timer starts it every five minutes under `flock -n` (`src/infra/terraform/bootstrap-ec2.sh:17-43`), so one
run is not overtaken by the next, and a run that died is followed by another. The model assumes that a
run ends with its unit: the unit is stopped after 240 seconds, which ends `docker exec` and releases the lock,
and a process that lived on in the container could overlap the next run; two such runs may warn twice, as
nothing but the query of the job keeps a second notice out. Organizers, participants, the
clock and failures are not fair: `EveryoneWarned` says that a participant who is due does not stay due
for ever, be it that the warning comes or that the event starts, is cancelled or is left.

## Proofs

All theorems hold for every value of the constants that satisfies the assumptions: any number of users,
events, sessions, rows and requests, every operation, abort and crash. `ParticipationAssumption`,
`ConnectionsAssumption`, `EditingAssumption` and `MediaAssumption` are ASSUMEs of their modules; the conditions
`ResetConstants`, `AccountsConstants`, `ListingsConstants`, `PagingConstants` and
`TaxonomyConstants` are hypotheses of the theorems about the modules that `Services` instantiates, and
`ServicesAssumption` there gathers them, so that TLC evaluates them too.
They say that sets to be counted are finite, that bounds are numbers, that None is no user, session or
object, and where a subset is one. Nothing else is assumed; none excludes an input.

Each theorem has the same form: an inductive invariant holds initially, every step keeps it, it
implies the property. Most proofs go through a lemma on the shape of a step (what the step of a session may
change, and that other sessions keep their program counters, jobs and locks), so that the case of each
action is about the rows it writes.

| theorem | property |
|---|---|
| `ParticipationProofs!TypeCorrect`, `GrantsStayValid`, `NoOverbooking` | `TypeOK`, `GrantStaysValid`, `CapacityRespected` |
| `ParticipationProofs!LockOrderHolds` | `LockOrderFollowed` |
| `ParticipationProofs!DeadlockNeedsNotices`, `NoDeadlockWithoutNotices` | `OnlyNoticesDeadlock` (every circle has a cancellation or a rescheduled event in it); `NoWaitCycle` where no operation is one of these |
| `ParticipationProofs!FinalAnswers`, `CancelledEventsClosed` | `AnswersAreFinal`, `NobodyEntersCancelledEvent` |
| `ParticipationProofs!BlocksSeparate`, `NoticesMatchRequests` | `BlockSeparates`, `RequestNoticesMatch` |
| `ParticipationProofs!DeletedAccountsKeepNothing` | `DeletedKeepNothing` |
| `ParticipationProofs!TransactionsImplementLifecycle` | `ImplementsLifecycle` |
| `ConnectionsProofs!TypeCorrect`, `FreePairs`, `AnsweredOnce`, `NoDeadlock` | `TypeOK`, `FoundPairStaysFree`, `SettledOnce`, `NoWaitCycle` |
| `ConnectionsProofs!BlocksKeepApart`, `NoticesMatch` | `BlockSeparates`, `RequestNoticesMatch` |
| `ConnectionsProofs!DeletedAccountsKeepNoRelation` | `DeletedKeepNoRelation` |
| `ConnectionsProofs!TransactionsImplementRelations` | `ImplementsRelations` |
| `EventEditingProofs!TypeCorrect`, `OneWarning`, `LoneEditsAreConsistent`, `NewDatesReachAll`, `CancellationIsFinal` | `TypeOK`, `WarnedOnce`, `LoneEditsConsistent`, `RescheduleReachesAll`, `CancelledStays` |
| `PasswordResetProofs!TypeCorrect`, `EveryGuessCounts`, `EveryChangeIsPaid`, `FreshLoginsWork` | `TypeOK`, `GuessesCounted`, `UsedCodesMadeChanges`, `FreshLoginAccepted` |
| `MediaProofs!TypeCorrect`, `LimitOfPhotos`, `WhatIsShownExists`, `StorageIsAccountedFor` | `TypeOK`, `PhotoLimitHolds`, `ShownPhotosExist`, `NothingLeaks` |
| `AccountsProofs!TypeCorrect`, `AccountsAreUnique`, `DeletionsErase`, `LoneRequestsLand` | `TypeOK`, `UniqueAccounts`, `DeletedStaysBlank`, `LoneWritesLand` |
| `ListingsProofs!TypeCorrect`, `ListsOpen`, `CountersAgree`, `OffersAccepted`, `AddressesAgree` | `TypeOK`, `ListedCanBeOpened`, `CountersMatchLists`, `OfferedActionsAccepted`, `LocationsAgree` |
| `ListingsProofs!PagingTypeCorrect`, `PagesAreStable` | `PagingTypeOK`, `EachRowOnce` |
| `ListingsProofs!TaxonomyTypeCorrect`, `InterestsAreGrouped` | `TaxonomyTypeOK`, `GroupedUnderRoot` |
| `ServicesProofs`, a theorem for each property of `services` | the same properties in the composition TLC runs |

`ServicesProofs` is where the theorems about the five modules meet the run that checks them: the focus never
changes, so a behaviour of `Services` is one of the module in focus, whose theorem applies, or the property
has nothing to say (`CodesInFocus` and its likes).

### Participation

`CapacityRespected` is not inductive: a state in which two sessions are both about to confirm would
break it in two steps. What excludes it is `GrantStaysValid`: a request about to write holds its
event and the seat it counted is free. The inductive invariant is
`TypeOK /\ GrantStaysValid /\ CapacityRespected`. The argument has two halves. A session that
confirms holds the event, so no other session is between its decision and its commit for that event,
and one more confirmed participant fits the seat it had (`SeatLeavesRoom`). Every other step, including
those that take no event lock (block and delete), only removes confirmed participants, which keeps
every seat free that was free (`FewerKeepSeat`). `OthersUndisturbed` carries the other sessions'
grants through a step.

The other theorems rest on `TransactionInv`: per session, which locks it holds by the statement it is at
(`HoldsInOrder`), that it has not lost one (`KeepsLocks`) and that what it read before its write still holds
(`DecisionHolds`: the row, the status of the event, the absence of a block); and that two requests never
create the same event (`CreatedOnce`).

* Lock order and deadlock. In a circle of waits each session holds what the one before it wants. By
  `LockOrderFollowed` a session that notifies nobody and holds a row waits for nothing, one that holds a pair
  waits for a row at most, and one that waits for an event holds nothing. A circle without a cancellation or a
  rescheduled event would have to descend for ever. So among these requests violation 1, by a cancellation or by
  the notices of a rescheduled event, is the only cause.
* `NobodyEntersCancelledEvent` is about rows that may enter, those that are missing or were left. That a request
  which was open when the event was cancelled can still be answered is not excluded, by the code or by the
  theorem.
* `DeletedAccountsKeepNothing` (`DeletionInv`): who is being deleted, and never asked for a seat meanwhile, has
  only active rows that the deletion found, so its commit leaves none, and nothing makes one afterwards.
* `TransactionsImplementLifecycle`. A step of a session that is no commit, and every crash and abort of a
  request that has not committed, is a stutter of `EventLifecycle`. A commit is one action of it, whose guard
  holds at the commit because `DecisionHolds` carries it there from the statement that read it. The mid-way
  commits of a cancellation, and all of those of a rescheduled event, change notices only; a deletion withdraws
  what it found, and what it leaves is the set `kept` of the abstract one.

### Connections

`PairInv` has the locks a session holds (`HoldsInOrder`), that the pair stays free and unblocked, and the row
unanswered, from its check to its commit (`DecisionHolds`), and that two people have one active row
(`OneRowEach`), which is what makes a connection and its pair the same thing. Here `NoDeadlock` has no
hypothesis: rows are locked after pairs and nothing asks for a pair while it holds a row. The refinement of
`PairRelations` maps the rows of a pair to one relation; the deletion of an account ends the rows it found, in
one step, and may leave others. `DeletedAccountsKeepNoRelation` is about these, with the same argument as for
seats.

### Editing

`OneWarning`: `WarnInv` says that nobody has more than one committed warning and that who is in the running
batch has none, as one run at a time reads who is missing. `LoneEditsAreConsistent`: `LoneInv` says that while
no two edits have overlapped, at most one is under way (`EditsAlone`), it knows the committed row (`Knows`), and
the dates of that row are consistent; so is its cover, as long as every cover an edit named was in storage
(`reused`): what an edit deletes is the cover it read, which it has taken down by then. `NewDatesReachAll`:
`ToldInv` says for an edit at each statement who is still to be told (`Tells`): whoever is outdated and takes
part is on its list.

### Password reset

`CodesInv`: a number stands for no code until its INSERT commits, and a session that makes a code is alone
with its number; a session that checks or spends a code, and a reset token, have one that exists
(`CodesInOrder`). `EveryChangeIsPaid` counts: a code is used in the step that changes the password.
`GuessesCounted` is not inductive; `GuessInv` adds the guesses compared and not yet counted: attempts plus
those under way stay below the limit plus the number of sessions. `LoginInv` orders instants: no request is
of the future, a token of the present password is not older than the second of its change.

### Media

`RoomInv`: whoever is about to add a photo holds its experience and has room. `ShownInv`: a new object is
one request's alone, on show nowhere and no cover yet (`Apart`), a profile photo is one profile's, and what is about to
be deleted is off show but for `doubtful` and `retired` photos. `LeakInv`: every object in storage that nothing
excuses is on show, the cover, or held by a request that will put it on show or delete it; at rest the last case
is empty.

### Accounts

`AccountInv`: what a request asks for has its type, an account that is inserted is not known yet and only one
request inserts it (`Origin`), a deletion that read no description still finds none unless an edit on record (`late`)
wrote one (`Saw`), and a deleted account is blank but for that, and its row lock free, so no edit under way, which
needs that lock and an account, writes to it. Uniqueness rests on the guard of the INSERT, which is the unique
index, and on deletions clearing what they free. `AloneInv`: a request that nothing overlapped read what is
still there (`UpToDate`).

### Listings and paging

The agreement of queries is no matter of steps: each theorem compares definitions of queries in one state.
For three of them the types are enough, as the queries repeat the same conditions. `CountersAgree` needs more:
the lists leave out the events of organizers the user has blocked and the counters do not, so they agree only
because no active participation survives a block, which is the third conjunct of `ListInv`.

`PagesAreStable`: `WalkInv` says that a row nothing touched has been given once if it is shown and the cursor
has passed it and not at all otherwise, and that one that only kept its place never comes twice, also if it was
hidden and shown in between. The step
of a page needs that what it gives are the rows from the old cursor to the new one, so that the page must
have a last row: the ranks of the rows that remain, the numbers of rows before each, are an injection of these
rows into as many numbers, and the order is total. There the size of the list and of the page are arbitrary.

### Taxonomy

`InterestsAreGrouped` is about what two recursive functions compute, and no step matters. The library's
induction takes an operator as a parameter and its theorem that recursive functions exist rests on it; here both
are shown for sets instead (`AllNumbers`, from the least number outside a set; `RecursionExists`, for a start
and a step of a set into itself). Then: what is loaded is closed under parents but for what is left to load
(`ParentsKnownOrPending`), so round i has the first i ancestors (`AncestorsKnown`); a line of parents that ends
does not meet itself (`PathsDoNotCross`), so the climb is never stopped by a tag it has visited and the number
of tags is enough steps (`ClimbReachesRoot`).

### What stays with TLC

* Liveness under fairness: `EveryRequestEnds`, `EveryoneWarned`. Both need ENABLED, which the prover does not
  know.
* The five violations, which are counterexamples.

`NoWaitCycle` of `Participation` is a theorem only where nobody cancels or reschedules an event; otherwise it is
false (violation 1), and `OnlyNoticesDeadlock` says what is left of it, in `participation_core` and for all
constants.

The other way round, the type invariants of `Connections`, `EventEditing` and `Media` and
`NoDeadlockWithoutNotices` are theorems that no run checks.

## Plan

Every invariant and action property of the passing runs, and both refinements, have a theorem; only the two
liveness properties have none. Left to do: shorter proofs where the same argument is spelled out for several
actions; which of the waits of a cancellation can be part of a circle; how far `EndsAfterStarts` can fail when
edits do overlap; a bulk UPDATE that takes its rows one by one.

## Not modelled

* Admin dashboard, terms and health: counts over whole tables and constant answers. Nothing waits for them.
* DTOs, assemblers and mappers: shape conversions. The fields that decide something are inputs of actions.
* Migrations: the schema is taken from the models; a constraint is modelled where an operation meets it.
* Seeds, infrastructure, deployment: no behaviour at run time, but for the schedule of the job (fairness of
  `EventEditing`) and the drafts and finished events a seed leaves (`Listings`).
* The protocol with Expo beyond a rejected token, distances, text search and filters of lists, the bytes of
  images, the wording of mails.
