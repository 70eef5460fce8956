---------------------------- MODULE PasswordReset -----------------------------
(***************************************************************************)
(* The password of one account: codes sent by email, guesses, the reset    *)
(* token a right guess earns, the change of password, logins and the       *)
(* access tokens they return, and the deletion of the account.             *)
(*                                                                         *)
(* Nothing locks a code between the read of it and the statement that      *)
(* follows; each statement is one UPDATE with its own condition.           *)
(***************************************************************************)
EXTENDS Naturals, FiniteSets, Sequences

CONSTANTS
  Session,       \* web sessions
  None,          \* a null column
  Horizon,       \* bound: instants are 0..Horizon
  SecondLength,  \* instants in a second, the precision of iat
  CodeLife,      \* instants until a code expires
  TokenLife,     \* instants until a reset token expires
  LimitWindow,   \* request_window_seconds, in instants
  RequestLimit,  \* request_limit
  MaxAttempts,   \* max_code_attempts
  MaxCodes,      \* bound: codes requested
  MaxRequests    \* bound: requests other than those for a code

VARIABLES
  \* committed rows
  codes,       \* codes[k]: the k-th password_reset_token
  password,    \* the password: how many changes came before it
  changedAt,   \* password_changed_at
  deleted,     \* whether deleted_at is set
  \* memory of the web process
  recent,      \* request_timestamps of the account's email
  \* requests
  pc,          \* pc[s]: the statement session s is about to run
  held,        \* held[s]: the code, or the password, it read
  at,          \* at[s]: the instant it took as its now
  swept,       \* swept[s]: codes its UPDATE matched and locked
  \* what people hold
  resetTokens, \* reset tokens returned
  tokens,      \* access tokens returned
  \* environment, bounds and history
  now, minted, requests,
  wrong,       \* wrong[k]: guesses of code k answered as wrong
  changes      \* changes of password answered as done

rows == <<codes, password, changedAt, deleted>>
work == <<pc, held, at, swept>>
vars == <<rows, recent, work, resetTokens, tokens, now, minted, requests, wrong, changes>>

(* What the constants are, for the theorems and for MCServices.            *)
ResetConstants ==
  /\ {Horizon, CodeLife, TokenLife, LimitWindow, RequestLimit, MaxCodes, MaxRequests} \subseteq Nat
  /\ {SecondLength, MaxAttempts} \subseteq Nat \ {0}
  /\ IsFiniteSet(Session)
  /\ None \notin Nat

Instant == 0..(Horizon + CodeLife + TokenLife)
Code == [expires : Instant \cup {None}, attempts : Nat,
         verified : BOOLEAN, used : BOOLEAN]
NoCode == [expires |-> None, attempts |-> 0, verified |-> FALSE, used |-> FALSE]
Stage == {"idle", "expire", "create", "miss", "mark", "change", "issue"}

(* Every variable has its type. *)
TypeOK ==
  /\ codes \in [1..MaxCodes -> Code]
  /\ password \in Nat /\ changedAt \in (0..Horizon) \cup {None} /\ deleted \in BOOLEAN
  /\ recent \in Seq(0..Horizon) /\ Len(recent) <= RequestLimit
  /\ pc \in [Session -> Stage] /\ held \in [Session -> Nat] /\ at \in [Session -> 0..Horizon]
  /\ swept \in [Session -> SUBSET (1..MaxCodes)]
  /\ resetTokens \subseteq [code : 1..MaxCodes, expires : Instant]
  /\ tokens \subseteq [password : Nat, iat : Nat]
  /\ now \in 0..Horizon /\ minted \in 0..MaxCodes /\ requests \in 0..MaxRequests
  /\ wrong \in [1..MaxCodes -> Nat] /\ changes \in Nat

(* An account that registered at instant 0.  A seeded one has no           *)
(* password_changed_at, and like this one takes every token until its      *)
(* password changes.                                                       *)
Init ==
  /\ codes = [k \in 1..MaxCodes |-> NoCode]
  /\ password = 0 /\ changedAt = 0 /\ deleted = FALSE /\ recent = <<>>
  /\ pc = [s \in Session |-> "idle"]
  /\ held = [s \in Session |-> 0] /\ at = [s \in Session |-> 0]
  /\ swept = [s \in Session |-> {}]
  /\ resetTokens = {} /\ tokens = {}
  /\ now = 0 /\ minted = 0 /\ requests = 0
  /\ wrong = [k \in 1..MaxCodes |-> 0] /\ changes = 0

-----------------------------------------------------------------------------

(* The handler reaches its next statement with what it read.               *)
Proceed(s, stage, what) ==
  /\ pc[s] = "idle"
  /\ pc' = [pc EXCEPT ![s] = stage]
  /\ held' = [held EXCEPT ![s] = what]
  /\ at' = [at EXCEPT ![s] = now]
  /\ UNCHANGED swept

Finish(s) ==
  /\ pc' = [pc EXCEPT ![s] = "idle"]
  /\ held' = [held EXCEPT ![s] = 0] /\ at' = [at EXCEPT ![s] = 0]
  /\ swept' = [swept EXCEPT ![s] = {}]

(* Codes no UPDATE under way has locked.                                   *)
Unlocked == {k \in 1..MaxCodes : \A s \in Session : k \notin swept[s]}

Count == requests < MaxRequests /\ requests' = requests + 1

-----------------------------------------------------------------------------
(* POST /auth/password-reset/request                                       *)

(* The requests of the window: those that left it are dropped from the     *)
(* left, up to the first that has not.                                     *)
Counted ==
  LET left == {i \in DOMAIN recent : \A j \in 1..i : now - recent[j] >= LimitWindow}
  IN SubSeq(recent, Cardinality(left) + 1, Len(recent))

(* Refused above the limit; nothing to send for a deleted account.         *)
RequestCode(s) ==
  /\ minted < MaxCodes
  /\ Len(Counted) < RequestLimit
  /\ recent' = Append(Counted, now)
  /\ IF deleted
     THEN pc[s] = "idle" /\ UNCHANGED <<work, minted>>
     ELSE minted' = minted + 1 /\ Proceed(s, "expire", minted + 1)
  /\ UNCHANGED <<rows, resetTokens, tokens, now, requests, wrong, changes>>

NewCode(s) == [NoCode EXCEPT !.expires = at[s] + CodeLife]

Stored == {k \in 1..MaxCodes : codes[k].expires # None}

(* Codes neither verified nor used are to expire when a new one is made.   *)
ExpireCodes(s) ==
  LET old == {k \in Stored : ~codes[k].verified /\ ~codes[k].used} IN
  /\ pc[s] = "expire" /\ old \subseteq Unlocked
  /\ swept' = [swept EXCEPT ![s] = old]
  /\ pc' = [pc EXCEPT ![s] = "create"]
  /\ UNCHANGED <<rows, recent, held, at, resetTokens, tokens, now, minted, requests,
                 wrong, changes>>

(* The commit of both: a code that appeared since the UPDATE lives on.     *)
CreateCode(s) ==
  /\ pc[s] = "create"
  /\ codes' = [k \in 1..MaxCodes |->
                IF k = held[s] THEN NewCode(s)
                ELSE [codes[k] EXCEPT !.expires = IF k \in swept[s] THEN at[s] ELSE @]]
  /\ Finish(s)
  /\ UNCHANGED <<password, changedAt, deleted, recent, resetTokens, tokens, now, minted,
                 requests, wrong, changes>>

-----------------------------------------------------------------------------
(* POST /auth/password-reset/verify                                        *)

(* The last code made, of an account that exists.                          *)
IsLatest(k) == ~deleted /\ k \in Stored /\ \A j \in Stored : j <= k

(* Allows one guess too many. *)
MutGuessable(k) ==
  ~codes[k].used /\ codes[k].expires > now /\ codes[k].attempts <= MaxAttempts

Guessable(k) ==
  ~codes[k].used /\ codes[k].expires > now /\ codes[k].attempts < MaxAttempts

(* Reads the latest code and compares the guess with it.                   *)
RequestVerify(s, right) ==
  /\ Count
  /\ \E k \in 1..MaxCodes :
       IsLatest(k) /\ Guessable(k) /\ Proceed(s, IF right THEN "mark" ELSE "miss", k)
  /\ UNCHANGED <<rows, recent, resetTokens, tokens, now, minted, wrong, changes>>

IncrementAttempts(s) ==
  /\ pc[s] = "miss" /\ held[s] \in Unlocked
  /\ codes' = [codes EXCEPT ![held[s]].attempts = @ + 1]
  /\ wrong' = [wrong EXCEPT ![held[s]] = @ + 1]
  /\ Finish(s)
  /\ UNCHANGED <<password, changedAt, deleted, recent, resetTokens, tokens, now, minted,
                 requests, changes>>

(* The reset token names the code and dates from after the commit.         *)
ResetToken(k) == [code |-> k, expires |-> now + TokenLife]

MarkVerified(s) ==
  /\ pc[s] = "mark" /\ held[s] \in Unlocked
  /\ codes' = [codes EXCEPT ![held[s]].verified = TRUE]
  /\ resetTokens' = resetTokens \cup {ResetToken(held[s])}
  /\ Finish(s)
  /\ UNCHANGED <<password, changedAt, deleted, recent, tokens, now, minted,
                 requests, wrong, changes>>

-----------------------------------------------------------------------------
(* POST /auth/password-reset/confirm                                       *)

(* The code a reset token decodes to, while it lasts.                      *)
Decoded == {t.code : t \in {u \in resetTokens : now < u.expires}}

Confirmable(k) == codes[k].verified /\ ~codes[k].used

RequestConfirm(s) ==
  /\ Count
  /\ \E k \in Decoded : Confirmable(k) /\ Proceed(s, "change", k)
  /\ UNCHANGED <<rows, recent, resetTokens, tokens, now, minted, wrong, changes>>

(* Commits the used code of an account that is gone. *)
MutConfirmCommit(s) ==
  /\ pc[s] = "change"
  /\ codes' = [codes EXCEPT ![held[s]].used = TRUE]
  /\ IF Confirmable(held[s]) /\ ~deleted
     THEN /\ password' = password + 1 /\ changes' = changes + 1
          /\ changedAt' = at[s]
     ELSE UNCHANGED <<password, changes, changedAt>>
  /\ Finish(s)
  /\ UNCHANGED <<deleted, recent, resetTokens, tokens, now, minted, requests, wrong>>

(* Two UPDATEs, each with its condition, and a rollback unless both        *)
(* changed a row; password_changed_at is the now of the request.           *)
ConfirmCommit(s) ==
  /\ pc[s] = "change"
  /\ IF Confirmable(held[s]) /\ ~deleted
     THEN /\ codes' = [codes EXCEPT ![held[s]].used = TRUE]
          /\ password' = password + 1 /\ changes' = changes + 1
          /\ changedAt' = at[s]
     ELSE UNCHANGED <<codes, password, changes, changedAt>>
  /\ Finish(s)
  /\ UNCHANGED <<deleted, recent, resetTokens, tokens, now, minted, requests, wrong>>

-----------------------------------------------------------------------------
(* POST /auth/login, and every request that carries a token                *)

(* Checks the password it was given against the account's, unless deleted. *)
RequestLogin(s) ==
  /\ Count /\ ~deleted
  /\ Proceed(s, "issue", password)
  /\ UNCHANGED <<rows, recent, resetTokens, tokens, now, minted, wrong, changes>>

SecondOf(t) == t \div SecondLength

CreateAccessToken(s) ==
  /\ pc[s] = "issue"
  /\ tokens' = tokens \cup {[password |-> held[s], iat |-> SecondOf(now)]}
  /\ Finish(s)
  /\ UNCHANGED <<rows, recent, resetTokens, now, minted, requests, wrong, changes>>

(* Does not cut password_changed_at to the second. *)
MutAccepted(token) ==
  ~deleted /\ (changedAt = None \/ token.iat * SecondLength >= changedAt)

(* iat has whole seconds, and so is password_changed_at cut.               *)
Accepted(token) == ~deleted /\ (changedAt = None \/ token.iat >= SecondOf(changedAt))

-----------------------------------------------------------------------------
(* DELETE /users/me; a dead worker; a restart; the clock                   *)

DeleteAccount ==
  /\ ~deleted /\ deleted' = TRUE
  /\ UNCHANGED <<codes, password, changedAt, recent, work, resetTokens, tokens, now,
                 minted, requests, wrong, changes>>

Crash(s) ==
  /\ pc[s] # "idle"
  /\ Finish(s)
  /\ UNCHANGED <<rows, recent, resetTokens, tokens, now, minted, requests, wrong, changes>>

(* The limiter starts empty.                                               *)
Restart ==
  /\ recent # <<>> /\ \A s \in Session : pc[s] = "idle"
  /\ recent' = <<>>
  /\ UNCHANGED <<rows, work, resetTokens, tokens, now, minted, requests, wrong, changes>>

Tick ==
  /\ now < Horizon
  /\ now' = now + 1
  /\ UNCHANGED <<rows, recent, work, resetTokens, tokens, minted, requests, wrong, changes>>

Next ==
  \/ \E s \in Session :
       \/ RequestCode(s) \/ ExpireCodes(s) \/ CreateCode(s)
       \/ \E right \in BOOLEAN : RequestVerify(s, right)
       \/ IncrementAttempts(s) \/ MarkVerified(s)
       \/ RequestConfirm(s) \/ ConfirmCommit(s)
       \/ RequestLogin(s) \/ CreateAccessToken(s)
       \/ Crash(s)
  \/ DeleteAccount \/ Restart \/ Tick

Spec == Init /\ [][Next]_vars

-----------------------------------------------------------------------------
(* Properties *)

(* Every guess answered as wrong is on the code, however many are compared *)
(* at once, and at most the guesses under way pass the limit               *)
(* (password_reset.py:123, repository/password_reset_token.py:62).         *)
GuessesCounted ==
  \A k \in 1..MaxCodes :
    /\ codes[k].attempts = wrong[k]
    /\ codes[k].attempts < MaxAttempts + Cardinality(Session)

(* A code pays for one change of password and every change is paid: two    *)
(* confirmations of one code, and a confirmation that meets a deletion     *)
(* (repository/password_reset_token.py:106).                               *)
UsedCodesMadeChanges ==
  Cardinality({k \in 1..MaxCodes : codes[k].used}) = changes

(* Whoever logs in with the current password is not turned away, although  *)
(* a token dates from the start of its second (services/auth.py:118).      *)
FreshLoginAccepted ==
  \A token \in tokens : token.password = password /\ ~deleted => Accepted(token)
=============================================================================
