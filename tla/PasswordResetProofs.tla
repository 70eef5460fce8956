------------------------- MODULE PasswordResetProofs -------------------------
(***************************************************************************)
(* Theorems about PasswordReset.tla, for any number of sessions, codes,    *)
(* guesses and instants.                                                   *)
(***************************************************************************)
EXTENDS PasswordReset, SequenceTheorems, FiniteSetTheorems, TLAPS

-----------------------------------------------------------------------------
(* Types                                                                   *)

(* Dropping what left the window leaves a list of instants.                *)
LEMMA CountedTyped ==
  ASSUME TypeOK
  PROVE  Counted \in Seq(0..Horizon)
<1> DEFINE left == {i \in DOMAIN recent : \A j \in 1..i : now - recent[j] >= LimitWindow}
<1>1. PICK instants : instants = 0..Horizon
  OBVIOUS
<1>2. recent \in Seq(instants) /\ Len(recent) \in Nat /\ DOMAIN recent = 1..Len(recent)
  BY <1>1 DEF TypeOK
<1>3. IsFiniteSet(1..Len(recent)) /\ left \subseteq 1..Len(recent)
  BY <1>2, FS_Interval
<1>4. Cardinality(left) \in Nat
  BY <1>3, FS_Subset, FS_CardinalityType
<1> HIDE DEF left
<1>5. \A i \in (Cardinality(left) + 1)..Len(recent) : recent[i] \in instants
  BY <1>2, <1>4
<1>6. SubSeq(recent, Cardinality(left) + 1, Len(recent)) \in Seq(instants)
  BY <1>2, <1>4, <1>5, SubSeqProperties
<1> QED
  BY <1>1, <1>6 DEF Counted, left

(* The second of an instant is a number, and time does not run backwards.  *)
LEMMA Seconds ==
  ASSUME ResetConstants
  PROVE  /\ \A t \in Nat : SecondOf(t) \in Nat
         /\ \A t, u \in Nat : t <= u => SecondOf(t) <= SecondOf(u)
<1>1. SecondLength \in Nat /\ SecondLength > 0
  BY DEF ResetConstants
<1>2. ASSUME NEW t \in Nat PROVE SecondOf(t) \in Nat
  BY <1>1 DEF SecondOf
<1>3. ASSUME NEW t \in Nat, NEW u \in Nat, t <= u PROVE SecondOf(t) <= SecondOf(u)
  BY <1>1, <1>3 DEF SecondOf
<1> QED
  BY <1>2, <1>3

LEMMA InitTyped ==
  ASSUME ResetConstants
  PROVE  Init => TypeOK
<1>1. 0 \in Instant /\ NoCode \in Code /\ 0 \in 0..Horizon /\ 0 \in 0..MaxCodes /\ 0 \in 0..MaxRequests
  BY DEF ResetConstants, Instant, NoCode, Code
<1>2. ASSUME Init PROVE TypeOK
  <2>1. codes \in [1..MaxCodes -> Code] /\ wrong \in [1..MaxCodes -> Nat]
    BY <1>1, <1>2 DEF Init
  <2>2. recent \in Seq(0..Horizon) /\ Len(recent) <= RequestLimit
    BY <1>2 DEF Init, ResetConstants
  <2>3. /\ pc \in [Session -> Stage] /\ held \in [Session -> Nat] /\ at \in [Session -> 0..Horizon]
        /\ swept \in [Session -> SUBSET (1..MaxCodes)]
    BY <1>1, <1>2 DEF Init, Stage
  <2> QED
    BY <1>1, <1>2, <2>1, <2>2, <2>3 DEF Init, TypeOK
<1> QED
  BY <1>2

(* What Proceed and Finish leave of the work of a session.                 *)
WorkTyped ==
  /\ pc \in [Session -> Stage] /\ held \in [Session -> Nat] /\ at \in [Session -> 0..Horizon]
  /\ swept \in [Session -> SUBSET (1..MaxCodes)]

LEMMA WorkMoves ==
  ASSUME ResetConstants, TypeOK, NEW s \in Session
  PROVE  /\ Finish(s) =>
              /\ WorkTyped' /\ pc'[s] = "idle" /\ swept'[s] = {}
              /\ \A t \in Session \ {s} :
                   pc'[t] = pc[t] /\ held'[t] = held[t] /\ at'[t] = at[t] /\ swept'[t] = swept[t]
         /\ \A stage \in Stage, what \in Nat : Proceed(s, stage, what) =>
              /\ WorkTyped' /\ pc[s] = "idle" /\ swept' = swept
              /\ pc'[s] = stage /\ held'[s] = what /\ at'[s] = now
              /\ \A t \in Session \ {s} : pc'[t] = pc[t] /\ held'[t] = held[t] /\ at'[t] = at[t]
<1>1. 0 \in 0..Horizon /\ now \in 0..Horizon /\ WorkTyped
  BY DEF ResetConstants, TypeOK, WorkTyped
<1>2. ASSUME Finish(s)
      PROVE  /\ WorkTyped' /\ pc'[s] = "idle" /\ swept'[s] = {}
             /\ \A t \in Session \ {s} :
                  pc'[t] = pc[t] /\ held'[t] = held[t] /\ at'[t] = at[t] /\ swept'[t] = swept[t]
  BY <1>1, <1>2 DEF Finish, WorkTyped, Stage
<1>3. ASSUME NEW stage \in Stage, NEW what \in Nat, Proceed(s, stage, what)
      PROVE  /\ WorkTyped' /\ pc[s] = "idle" /\ swept' = swept
             /\ pc'[s] = stage /\ held'[s] = what /\ at'[s] = now
             /\ \A t \in Session \ {s} : pc'[t] = pc[t] /\ held'[t] = held[t] /\ at'[t] = at[t]
  BY <1>1, <1>3 DEF Proceed, WorkTyped
<1> QED
  BY <1>2, <1>3

(* What the statements write to a code.                                    *)
LEMMA CodesTyped ==
  ASSUME ResetConstants, TypeOK, NEW s \in Session
  PROVE  /\ CreateCode(s) =>
              /\ codes' \in [1..MaxCodes -> Code]
              /\ \A k \in 1..MaxCodes :
                   IF k = held[s]
                   THEN codes'[k] = NewCode(s) /\ codes'[k].expires \in Nat
                        /\ codes'[k].attempts = 0 /\ ~codes'[k].verified /\ ~codes'[k].used
                   ELSE /\ codes'[k].attempts = codes[k].attempts
                        /\ codes'[k].verified = codes[k].verified
                        /\ codes'[k].used = codes[k].used
                        /\ k \in swept[s] => codes'[k].expires \in Nat
                        /\ k \notin swept[s] => codes'[k] = codes[k]
         /\ \A k \in 1..MaxCodes :
              /\ codes' = [codes EXCEPT ![k].attempts = @ + 1] =>
                   /\ codes' \in [1..MaxCodes -> Code]
                   /\ codes'[k] = [codes[k] EXCEPT !.attempts = codes[k].attempts + 1]
                   /\ \A j \in 1..MaxCodes \ {k} : codes'[j] = codes[j]
              /\ codes' = [codes EXCEPT ![k].verified = TRUE] =>
                   /\ codes' \in [1..MaxCodes -> Code]
                   /\ codes'[k] = [codes[k] EXCEPT !.verified = TRUE]
                   /\ \A j \in 1..MaxCodes \ {k} : codes'[j] = codes[j]
              /\ codes' = [codes EXCEPT ![k].used = TRUE] =>
                   /\ codes' \in [1..MaxCodes -> Code]
                   /\ codes'[k] = [codes[k] EXCEPT !.used = TRUE]
                   /\ \A j \in 1..MaxCodes \ {k} : codes'[j] = codes[j]
<1>1. codes \in [1..MaxCodes -> Code] /\ at[s] \in 0..Horizon /\ Horizon \in Nat
  BY DEF TypeOK, ResetConstants
<1>2. ASSUME CreateCode(s)
      PROVE  /\ codes' \in [1..MaxCodes -> Code]
             /\ \A k \in 1..MaxCodes :
                  IF k = held[s]
                  THEN codes'[k] = NewCode(s) /\ codes'[k].expires \in Nat
                       /\ codes'[k].attempts = 0 /\ ~codes'[k].verified /\ ~codes'[k].used
                  ELSE /\ codes'[k].attempts = codes[k].attempts
                       /\ codes'[k].verified = codes[k].verified
                       /\ codes'[k].used = codes[k].used
                       /\ k \in swept[s] => codes'[k].expires \in Nat
                       /\ k \notin swept[s] => codes'[k] = codes[k]
  <2>1. /\ at[s] + CodeLife \in Instant /\ at[s] + CodeLife \in Nat
        /\ at[s] \in Instant /\ at[s] \in Nat
    BY <1>1 DEF ResetConstants, Instant
  <2>2. /\ NewCode(s) \in Code /\ NewCode(s).expires \in Nat
        /\ NewCode(s).attempts = 0 /\ ~NewCode(s).verified /\ ~NewCode(s).used
    BY <2>1 DEF NewCode, NoCode, Code
  <2>3. ASSUME NEW k \in 1..MaxCodes, k # held[s]
        PROVE  /\ codes'[k] \in Code
               /\ codes'[k].attempts = codes[k].attempts
               /\ codes'[k].verified = codes[k].verified
               /\ codes'[k].used = codes[k].used
               /\ k \in swept[s] => codes'[k].expires \in Nat
               /\ k \notin swept[s] => codes'[k] = codes[k]
    <3>1. codes'[k] = [codes[k] EXCEPT !.expires = IF k \in swept[s] THEN at[s] ELSE codes[k].expires]
      BY <1>2, <2>3 DEF CreateCode
    <3>2. codes[k] \in Code
      BY <1>1
    <3> QED
      BY <2>1, <3>1, <3>2 DEF Code
  <2>4. \A k \in 1..MaxCodes : k = held[s] => codes'[k] = NewCode(s)
    BY <1>2 DEF CreateCode
  <2>5. \A k \in 1..MaxCodes : codes'[k] \in Code
    BY <2>2, <2>3, <2>4
  <2>6. codes' \in [1..MaxCodes -> Code]
    BY <1>2, <2>5 DEF CreateCode
  <2> QED
    BY <2>2, <2>3, <2>4, <2>6
<1>3. ASSUME NEW k \in 1..MaxCodes, NEW new \in Code, codes' = [codes EXCEPT ![k] = new]
      PROVE  /\ codes' \in [1..MaxCodes -> Code] /\ codes'[k] = new
             /\ \A j \in 1..MaxCodes \ {k} : codes'[j] = codes[j]
  BY <1>1, <1>3
<1>4. ASSUME NEW k \in 1..MaxCodes
      PROVE  /\ [codes[k] EXCEPT !.attempts = codes[k].attempts + 1] \in Code
             /\ [codes[k] EXCEPT !.verified = TRUE] \in Code
             /\ [codes[k] EXCEPT !.used = TRUE] \in Code
  <2>1. codes[k] \in Code
    BY <1>1
  <2>2. [codes[k] EXCEPT !.attempts = codes[k].attempts + 1] \in Code
    BY <2>1 DEF Code
  <2>3. [codes[k] EXCEPT !.verified = TRUE] \in Code
    BY <2>1 DEF Code
  <2>4. [codes[k] EXCEPT !.used = TRUE] \in Code
    BY <2>1 DEF Code
  <2> QED
    BY <2>2, <2>3, <2>4
<1> QED
  BY <1>2, <1>3, <1>4

(* The steps of a session.                                                 *)
Steps(s) ==
  \/ RequestCode(s) \/ ExpireCodes(s) \/ CreateCode(s)
  \/ \E right \in BOOLEAN : RequestVerify(s, right)
  \/ IncrementAttempts(s) \/ MarkVerified(s)
  \/ RequestConfirm(s) \/ ConfirmCommit(s)
  \/ RequestLogin(s) \/ CreateAccessToken(s)
  \/ Crash(s)

Around == DeleteAccount \/ Restart \/ Tick

-----------------------------------------------------------------------------
(* The codes                                                               *)

Pending(s) == pc[s] \in {"expire", "create"}

Used == {k \in 1..MaxCodes : codes[k].used}

(* A number stands for no code until its INSERT commits; a session that    *)
(* makes one is alone with its number, and one that checks or spends one   *)
(* has a code that exists.                                                 *)
CodesInOrder ==
  /\ \A k \in 1..MaxCodes :
       /\ codes[k].expires = None =>
            codes[k].attempts = 0 /\ ~codes[k].verified /\ ~codes[k].used
       /\ k > minted => k \notin Stored
       /\ codes[k].attempts = wrong[k]
  /\ \A s \in Session :
       /\ Pending(s) => held[s] \in (1..minted) \ Stored
       /\ pc[s] \in {"miss", "mark", "change"} => held[s] \in Stored
       /\ swept[s] \subseteq Stored
  /\ \A s, t \in Session : Pending(s) /\ Pending(t) /\ held[s] = held[t] => s = t
  /\ \A t \in resetTokens : t.code \in Stored

CodesInv == TypeOK /\ CodesInOrder

LEMMA InitCodesInv ==
  ASSUME ResetConstants
  PROVE  Init => CodesInv
<1>1. NoCode.expires = None /\ NoCode.attempts = 0 /\ ~NoCode.verified /\ ~NoCode.used
  BY DEF NoCode
<1> QED
  BY <1>1, InitTyped DEF Init, CodesInv, CodesInOrder, Pending, Stored

LEMMA StageNames ==
  {"idle", "expire", "create", "miss", "mark", "change", "issue"} \subseteq Stage
  BY DEF Stage

(* The facts every case starts from.                                       *)
LEMMA Basics ==
  ASSUME ResetConstants, CodesInv
  PROVE  /\ TypeOK /\ CodesInOrder /\ WorkTyped /\ Stored \subseteq 1..MaxCodes
         /\ MaxCodes \in Nat /\ minted \in 0..MaxCodes /\ None \notin Nat
         /\ Horizon \in Nat /\ TokenLife \in Nat /\ CodeLife \in Nat
         /\ RequestLimit \in Nat /\ MaxRequests \in Nat
         /\ now \in 0..Horizon /\ requests \in 0..MaxRequests
         /\ password \in Nat /\ changes \in Nat
         /\ \A k \in 1..MaxCodes : codes[k] \in Code
         /\ \A s \in Session : swept[s] \subseteq 1..MaxCodes /\ held[s] \in Nat
                               /\ at[s] \in 0..Horizon
<1>1. TypeOK /\ CodesInOrder
  BY DEF CodesInv
<1>2. /\ MaxCodes \in Nat /\ None \notin Nat
      /\ Horizon \in Nat /\ TokenLife \in Nat /\ CodeLife \in Nat
      /\ RequestLimit \in Nat /\ MaxRequests \in Nat
  BY DEF ResetConstants
<1>3. /\ WorkTyped /\ Stored \subseteq 1..MaxCodes /\ minted \in 0..MaxCodes
      /\ now \in 0..Horizon /\ requests \in 0..MaxRequests
      /\ password \in Nat /\ changes \in Nat
      /\ \A k \in 1..MaxCodes : codes[k] \in Code
  BY <1>1 DEF TypeOK, WorkTyped, Stored
<1>4. \A s \in Session : swept[s] \subseteq 1..MaxCodes /\ held[s] \in Nat /\ at[s] \in 0..Horizon
  BY <1>3 DEF WorkTyped
<1> QED
  BY <1>1, <1>2, <1>3, <1>4

LEMMA RequestCodeKeeps ==
  ASSUME ResetConstants, CodesInv, NEW s \in Session, RequestCode(s)
  PROVE  CodesInv'
<1>1. /\ recent' \in Seq(0..Horizon) /\ Len(recent') <= RequestLimit
  <2>1. PICK instants : instants = 0..Horizon
    OBVIOUS
  <2>2. Counted \in Seq(instants) /\ now \in instants /\ RequestLimit \in Nat
    BY <2>1, CountedTyped DEF CodesInv, TypeOK, ResetConstants
  <2>3. Append(Counted, now) \in Seq(instants) /\ Len(Append(Counted, now)) = Len(Counted) + 1
        /\ Len(Counted) \in Nat
    BY <2>2, AppendProperties, LenProperties
  <2> QED
    BY <2>1, <2>2, <2>3 DEF RequestCode
<1>2. UNCHANGED <<rows, resetTokens, tokens, now, requests, wrong, changes>> /\ Stored' = Stored
  BY DEF RequestCode, rows, Stored
<1>3. CASE UNCHANGED <<work, minted>>
  BY <1>1, <1>2, <1>3 DEF CodesInv, TypeOK, CodesInOrder, Pending, rows, work
<1>4. CASE minted' = minted + 1 /\ Proceed(s, "expire", minted + 1) /\ minted < MaxCodes
  <2>1. /\ WorkTyped' /\ pc[s] = "idle" /\ swept' = swept
        /\ pc'[s] = "expire" /\ held'[s] = minted + 1 /\ minted + 1 \in 1..MaxCodes
        /\ \A t \in Session \ {s} : pc'[t] = pc[t] /\ held'[t] = held[t]
    BY <1>4, Basics, WorkMoves, StageNames
  <2>2. TypeOK'
    <3>1. minted' \in 0..MaxCodes
      BY <1>4, Basics
    <3> QED
      BY <1>1, <1>2, <2>1, <3>1, Basics DEF TypeOK, WorkTyped, rows
  <2>3. minted + 1 \notin Stored /\ \A k \in 1..MaxCodes : k > minted + 1 => k \notin Stored
    BY <2>1, Basics DEF CodesInOrder
  <2>4. \A t \in Session : Pending(t) => held[t] # minted + 1
    BY Basics DEF CodesInOrder
  <2>5. CodesInOrder'
    BY <1>2, <1>4, <2>1, <2>3, <2>4, Basics DEF CodesInOrder, Pending, rows
  <2> QED
    BY <2>2, <2>5 DEF CodesInv
<1> QED
  BY <1>3, <1>4 DEF RequestCode

LEMMA ExpireCodesKeeps ==
  ASSUME ResetConstants, CodesInv, NEW s \in Session, ExpireCodes(s)
  PROVE  CodesInv'
<1> DEFINE old == {k \in Stored : ~codes[k].verified /\ ~codes[k].used}
<1>1. /\ swept' = [swept EXCEPT ![s] = old] /\ pc' = [pc EXCEPT ![s] = "create"]
      /\ pc[s] = "expire" /\ old \subseteq Stored
      /\ UNCHANGED <<rows, recent, held, at, resetTokens, tokens, now, minted, requests, wrong, changes>>
  BY DEF ExpireCodes
<1> HIDE DEF old
<1>2. Stored' = Stored
  BY <1>1 DEF Stored, rows
<1>3. WorkTyped'
  BY <1>1, Basics, StageNames DEF WorkTyped
<1>4. TypeOK'
  BY <1>1, <1>3, Basics DEF TypeOK, WorkTyped, rows
<1>5. CodesInOrder'
  BY <1>1, <1>2, Basics DEF CodesInOrder, Pending, WorkTyped, rows
<1> QED
  BY <1>4, <1>5 DEF CodesInv

LEMMA CreateCodeKeeps ==
  ASSUME ResetConstants, CodesInv, NEW s \in Session, CreateCode(s)
  PROVE  CodesInv' /\ \A k \in 1..MaxCodes : /\ codes'[k].used = codes[k].used
                                             /\ codes'[k].attempts = codes[k].attempts
<1>1. /\ pc[s] = "create" /\ Finish(s)
      /\ UNCHANGED <<password, changedAt, deleted, recent, resetTokens, tokens, now, minted,
                     requests, wrong, changes>>
  BY DEF CreateCode
<1>2. /\ WorkTyped' /\ pc'[s] = "idle" /\ swept'[s] = {}
      /\ \A t \in Session \ {s} : pc'[t] = pc[t] /\ held'[t] = held[t] /\ swept'[t] = swept[t]
  BY <1>1, Basics, WorkMoves
<1>3. held[s] \in 1..MaxCodes /\ held[s] \notin Stored /\ held[s] <= minted
  BY <1>1, Basics DEF CodesInOrder, Pending
<1>4. codes' \in [1..MaxCodes -> Code] /\ TypeOK'
  BY <1>1, <1>2, Basics, CodesTyped DEF TypeOK, WorkTyped
<1>5. Stored' = Stored \cup {held[s]}
  BY <1>3, Basics, CodesTyped DEF CodesInOrder, Stored
<1>6. \A k \in 1..MaxCodes : codes'[k].attempts = codes[k].attempts
                             /\ (codes'[k].verified <=> codes[k].verified)
                             /\ (codes'[k].used <=> codes[k].used)
  <2>1. codes[held[s]].attempts = 0 /\ ~codes[held[s]].verified /\ ~codes[held[s]].used
    BY <1>3, Basics DEF CodesInOrder, Stored
  <2>2. TypeOK
    BY Basics
  <2>3. ASSUME NEW k \in 1..MaxCodes, k # held[s]
        PROVE  /\ codes'[k].attempts = codes[k].attempts
               /\ codes'[k].verified = codes[k].verified
               /\ codes'[k].used = codes[k].used
    BY <2>2, <2>3, CodesTyped
  <2>4. codes'[held[s]].attempts = 0 /\ ~codes'[held[s]].verified /\ ~codes'[held[s]].used
    BY <1>3, <2>2, CodesTyped
  <2> QED
    BY <2>1, <2>3, <2>4
<1>7. \A k \in 1..MaxCodes : codes'[k].expires = None => codes[k].expires = None
  BY <1>5 DEF Stored
<1>8. \A t \in Session : Pending(t)' => t # s /\ Pending(t) /\ held'[t] = held[t]
  BY <1>2 DEF Pending
<1>9. \A t \in Session \ {s} : Pending(t) => held[t] # held[s]
  BY <1>1, Basics DEF CodesInOrder, Pending
<1>10. \A k \in 1..MaxCodes :
         /\ codes'[k].expires = None =>
              codes'[k].attempts = 0 /\ ~codes'[k].verified /\ ~codes'[k].used
         /\ k > minted' => k \notin Stored'
         /\ codes'[k].attempts = wrong'[k]
  BY <1>1, <1>3, <1>5, <1>6, <1>7, Basics DEF CodesInOrder
<1>11. \A t \in Session :
         /\ Pending(t)' => held'[t] \in (1..minted') \ Stored'
         /\ pc'[t] \in {"miss", "mark", "change"} => held'[t] \in Stored'
         /\ swept'[t] \subseteq Stored'
  BY <1>1, <1>2, <1>5, <1>8, <1>9, Basics DEF CodesInOrder
<1>12. \A t, u \in Session : Pending(t)' /\ Pending(u)' /\ held'[t] = held'[u] => t = u
  BY <1>8, Basics DEF CodesInOrder
<1>13. \A t \in resetTokens' : t.code \in Stored'
  BY <1>1, <1>5, Basics DEF CodesInOrder
<1>14. CodesInv'
  BY <1>4, <1>10, <1>11, <1>12, <1>13 DEF CodesInv, CodesInOrder
<1>15. \A k \in 1..MaxCodes : codes[k].used \in BOOLEAN /\ codes'[k].used \in BOOLEAN
  BY <1>4 DEF CodesInv, TypeOK, Code
<1> QED
  BY <1>6, <1>14, <1>15

(* A request that reads, and holds what it read.                           *)
LEMMA ReadKeeps ==
  ASSUME ResetConstants, CodesInv, NEW s \in Session, NEW stage \in {"miss", "mark", "change", "issue"},
         NEW what \in Nat, Proceed(s, stage, what), stage # "issue" => what \in Stored, Count,
         UNCHANGED <<rows, recent, resetTokens, tokens, now, minted, wrong, changes>>
  PROVE  CodesInv'
<1>1. /\ WorkTyped' /\ pc[s] = "idle" /\ swept' = swept
      /\ pc'[s] = stage /\ held'[s] = what
      /\ \A t \in Session \ {s} : pc'[t] = pc[t] /\ held'[t] = held[t]
  BY Basics, WorkMoves, StageNames
<1>2. requests' \in 0..MaxRequests
  BY Basics DEF Count
<1>3. TypeOK'
  BY <1>1, <1>2, Basics DEF TypeOK, WorkTyped, rows
<1>4. Stored' = Stored
  BY DEF Stored, rows
<1>5. CodesInOrder'
  BY <1>1, <1>4, Basics DEF CodesInOrder, Pending, rows
<1> QED
  BY <1>3, <1>5 DEF CodesInv

(* A statement that ends its request.                                      *)
LEMMA EndKeeps ==
  ASSUME ResetConstants, CodesInv, NEW s \in Session, Finish(s), UNCHANGED minted, Stored' = Stored,
         /\ codes' \in [1..MaxCodes -> Code]
         /\ \A k \in 1..MaxCodes :
              /\ k \notin Stored => codes'[k] = codes[k]
              /\ codes'[k].attempts = wrong'[k],
         \A t \in resetTokens' : t.code \in Stored,
         TypeOK'
  PROVE  CodesInv'
<1>1. /\ WorkTyped' /\ pc'[s] = "idle" /\ swept'[s] = {}
      /\ \A t \in Session \ {s} : pc'[t] = pc[t] /\ held'[t] = held[t] /\ swept'[t] = swept[t]
  BY Basics, WorkMoves
<1>2. \A k \in 1..MaxCodes : codes'[k].expires = None => k \notin Stored
  BY DEF Stored
<1>3. CodesInOrder
  BY Basics
<1>4. \A k \in 1..MaxCodes :
        /\ codes'[k].expires = None =>
             codes'[k].attempts = 0 /\ ~codes'[k].verified /\ ~codes'[k].used
        /\ k > minted' => k \notin Stored'
        /\ codes'[k].attempts = wrong'[k]
  BY <1>2, <1>3 DEF CodesInOrder
<1>5. \A t \in Session :
        /\ Pending(t)' => Pending(t) /\ held'[t] = held[t]
        /\ pc'[t] \in {"miss", "mark", "change"} => held'[t] \in Stored'
        /\ swept'[t] \subseteq Stored'
  BY <1>1, <1>3 DEF CodesInOrder, Pending
<1>6. CodesInOrder'
  BY <1>3, <1>4, <1>5 DEF CodesInOrder
<1> QED
  BY <1>6 DEF CodesInv

LEMMA IncrementKeeps ==
  ASSUME ResetConstants, CodesInv, NEW s \in Session, IncrementAttempts(s)
  PROVE  /\ CodesInv' /\ held[s] \in 1..MaxCodes
         /\ codes'[held[s]].attempts = codes[held[s]].attempts + 1
         /\ \A k \in 1..MaxCodes : /\ codes'[k].used = codes[k].used
                                   /\ k # held[s] => codes'[k] = codes[k]
<1>1. /\ pc[s] = "miss" /\ Finish(s)
      /\ codes' = [codes EXCEPT ![held[s]].attempts = @ + 1]
      /\ wrong' = [wrong EXCEPT ![held[s]] = @ + 1]
      /\ UNCHANGED <<password, changedAt, deleted, recent, resetTokens, tokens, now, minted,
                     requests, changes>>
  BY DEF IncrementAttempts
<1>2. PICK h \in 1..MaxCodes : h = held[s] /\ h \in Stored
  BY <1>1, Basics DEF CodesInOrder
<1>3. /\ codes' \in [1..MaxCodes -> Code]
      /\ codes'[h] = [codes[h] EXCEPT !.attempts = codes[h].attempts + 1]
      /\ \A j \in 1..MaxCodes \ {h} : codes'[j] = codes[j]
  BY <1>1, <1>2, Basics, CodesTyped
<1>4. /\ codes'[h].attempts = codes[h].attempts + 1 /\ codes'[h].expires = codes[h].expires
      /\ codes'[h].used = codes[h].used
  BY <1>3, Basics DEF Code
<1>5. Stored' = Stored
  BY <1>3, <1>4 DEF Stored
<1>6. wrong' \in [1..MaxCodes -> Nat] /\ wrong'[h] = wrong[h] + 1
      /\ \A j \in 1..MaxCodes \ {h} : wrong'[j] = wrong[j]
  BY <1>1, <1>2, Basics DEF TypeOK
<1>7. TypeOK'
  <2>1. WorkTyped'
    BY <1>1, Basics, WorkMoves
  <2> QED
    BY <1>1, <1>3, <1>6, <2>1, Basics DEF TypeOK, WorkTyped
<1>8. \A k \in 1..MaxCodes : codes'[k].attempts = wrong'[k]
  BY <1>2, <1>3, <1>4, <1>6, Basics DEF CodesInOrder
<1>9. /\ \A k \in 1..MaxCodes : k \notin Stored => codes'[k] = codes[k]
      /\ \A t \in resetTokens' : t.code \in Stored
  BY <1>1, <1>2, <1>3, Basics DEF CodesInOrder
<1>10. CodesInv'
  BY <1>1, <1>3, <1>5, <1>7, <1>8, <1>9, EndKeeps
<1> QED
  BY <1>2, <1>3, <1>4, <1>10

LEMMA MarkKeeps ==
  ASSUME ResetConstants, CodesInv, NEW s \in Session, MarkVerified(s)
  PROVE  CodesInv' /\ \A k \in 1..MaxCodes : /\ codes'[k].used = codes[k].used
                                             /\ codes'[k].attempts = codes[k].attempts
<1>1. /\ pc[s] = "mark" /\ Finish(s)
      /\ codes' = [codes EXCEPT ![held[s]].verified = TRUE]
      /\ resetTokens' = resetTokens \cup {ResetToken(held[s])}
      /\ UNCHANGED <<password, changedAt, deleted, recent, tokens, now, minted,
                     requests, wrong, changes>>
  BY DEF MarkVerified
<1>2. PICK h \in 1..MaxCodes : h = held[s] /\ h \in Stored
  BY <1>1, Basics DEF CodesInOrder
<1>3. /\ codes' \in [1..MaxCodes -> Code]
      /\ codes'[h] = [codes[h] EXCEPT !.verified = TRUE]
      /\ \A j \in 1..MaxCodes \ {h} : codes'[j] = codes[j]
  BY <1>1, <1>2, Basics, CodesTyped
<1>4. /\ codes'[h].attempts = codes[h].attempts /\ codes'[h].expires = codes[h].expires
      /\ codes'[h].used = codes[h].used
  BY <1>3, Basics DEF Code
<1>5. Stored' = Stored
  BY <1>3, <1>4 DEF Stored
<1>6. /\ ResetToken(h) \in [code : 1..MaxCodes, expires : Instant]
      /\ ResetToken(h).code = h
  <2>1. now + TokenLife \in Instant
    BY Basics DEF Instant
  <2> QED
    BY <2>1 DEF ResetToken
<1>7. TypeOK'
  <2>1. WorkTyped'
    BY <1>1, Basics, WorkMoves
  <2> QED
    BY <1>1, <1>2, <1>3, <1>6, <2>1, Basics DEF TypeOK, WorkTyped
<1>8. \A k \in 1..MaxCodes : codes'[k].attempts = wrong'[k]
  BY <1>1, <1>2, <1>3, <1>4, Basics DEF CodesInOrder
<1>9. \A t \in resetTokens' : t.code \in Stored
  BY <1>1, <1>2, <1>6, Basics DEF CodesInOrder
<1>10. \A k \in 1..MaxCodes : k \notin Stored => codes'[k] = codes[k]
  BY <1>2, <1>3
<1>11. CodesInv'
  BY <1>1, <1>3, <1>5, <1>7, <1>8, <1>9, <1>10, EndKeeps
<1> QED
  BY <1>2, <1>3, <1>4, <1>11

LEMMA ConfirmKeeps ==
  ASSUME ResetConstants, CodesInv, NEW s \in Session, ConfirmCommit(s)
  PROVE  /\ CodesInv'
         /\ \A k \in 1..MaxCodes : codes'[k].attempts = codes[k].attempts
         /\ \/ UNCHANGED <<codes, password, changes, changedAt>>
            \/ /\ held[s] \in 1..MaxCodes \ Used /\ Used' = Used \cup {held[s]}
               /\ changes' = changes + 1 /\ password' = password + 1 /\ changedAt' = at[s]
<1>1. /\ pc[s] = "change" /\ Finish(s)
      /\ UNCHANGED <<deleted, recent, resetTokens, tokens, now, minted, requests, wrong>>
  BY DEF ConfirmCommit
<1>2. WorkTyped'
  BY <1>1, Basics, WorkMoves
<1>3. CASE UNCHANGED <<codes, password, changes, changedAt>>
  <2>1. TypeOK' /\ Stored' = Stored
    BY <1>1, <1>2, <1>3, Basics DEF TypeOK, WorkTyped, Stored
  <2>2. codes' \in [1..MaxCodes -> Code] /\ \A k \in 1..MaxCodes : codes'[k].attempts = wrong'[k]
    BY <1>1, <1>3, <2>1, Basics DEF CodesInOrder, TypeOK
  <2>3. CodesInv'
    BY <1>1, <1>3, <2>1, <2>2, Basics, EndKeeps DEF CodesInOrder
  <2> QED
    BY <1>3, <2>3
<1>4. CASE /\ codes' = [codes EXCEPT ![held[s]].used = TRUE] /\ ~codes[held[s]].used
           /\ password' = password + 1 /\ changes' = changes + 1 /\ changedAt' = at[s]
  <2>1. PICK h \in 1..MaxCodes : h = held[s] /\ h \in Stored
    BY <1>1, Basics DEF CodesInOrder
  <2>2. /\ codes' \in [1..MaxCodes -> Code]
        /\ codes'[h] = [codes[h] EXCEPT !.used = TRUE]
        /\ \A j \in 1..MaxCodes \ {h} : codes'[j] = codes[j]
    BY <1>4, <2>1, Basics, CodesTyped
  <2>3. /\ codes'[h].attempts = codes[h].attempts /\ codes'[h].expires = codes[h].expires
        /\ codes'[h].used
    BY <2>2, Basics DEF Code
  <2>4. Stored' = Stored /\ Used' = Used \cup {h} /\ h \notin Used
    BY <1>4, <2>1, <2>2, <2>3 DEF Stored, Used
  <2>5. TypeOK'
    <3>1. password' \in Nat /\ changes' \in Nat /\ changedAt' \in 0..Horizon
      BY <1>4, Basics
    <3> QED
      BY <1>1, <1>2, <2>2, <3>1, Basics DEF TypeOK, WorkTyped
  <2>6. \A k \in 1..MaxCodes : codes'[k].attempts = codes[k].attempts
    BY <2>2, <2>3
  <2>7. \A k \in 1..MaxCodes : codes'[k].attempts = wrong'[k]
    BY <1>1, <2>6, Basics DEF CodesInOrder
  <2>8. CodesInv'
    BY <1>1, <2>1, <2>2, <2>4, <2>5, <2>7, Basics, EndKeeps DEF CodesInOrder
  <2> QED
    BY <1>4, <2>1, <2>4, <2>6, <2>8
<1> QED
  BY <1>3, <1>4 DEF ConfirmCommit, Confirmable

LEMMA NextKeepsCodesInv ==
  ASSUME ResetConstants
  PROVE  CodesInv /\ [Next]_vars => CodesInv'
<1> SUFFICES ASSUME CodesInv, [Next]_vars PROVE CodesInv'
  OBVIOUS
<1>1. ASSUME NEW s \in Session, \E right \in BOOLEAN : RequestVerify(s, right) PROVE CodesInv'
  <2>1. PICK k \in Stored, stage \in {"miss", "mark"} :
          /\ Proceed(s, stage, k) /\ Count
          /\ UNCHANGED <<rows, recent, resetTokens, tokens, now, minted, wrong, changes>>
    BY <1>1 DEF RequestVerify, IsLatest
  <2> QED
    BY <2>1, ReadKeeps, Basics
<1>2. ASSUME NEW s \in Session, RequestConfirm(s) PROVE CodesInv'
  <2>1. PICK k \in Decoded :
          /\ Proceed(s, "change", k) /\ Count
          /\ UNCHANGED <<rows, recent, resetTokens, tokens, now, minted, wrong, changes>>
    BY <1>2 DEF RequestConfirm
  <2>2. k \in Stored /\ k \in Nat
    BY <2>1, Basics DEF Decoded, CodesInOrder
  <2> QED
    BY <2>1, <2>2, ReadKeeps
<1>3. ASSUME NEW s \in Session, RequestLogin(s) PROVE CodesInv'
  <2>1. password \in Nat
    BY Basics DEF TypeOK
  <2> QED
    BY <1>3, <2>1, ReadKeeps DEF RequestLogin
<1>4. ASSUME NEW s \in Session, CreateAccessToken(s) PROVE CodesInv'
  <2>1. SecondOf(now) \in Nat /\ held[s] \in Nat
    BY Seconds, Basics DEF TypeOK
  <2>2. Finish(s) /\ UNCHANGED <<rows, recent, resetTokens, now, minted, requests, wrong, changes>>
        /\ tokens' = tokens \cup {[password |-> held[s], iat |-> SecondOf(now)]}
    BY <1>4 DEF CreateAccessToken
  <2>3. WorkTyped' /\ Stored' = Stored /\ UNCHANGED codes
    BY <2>2, Basics, WorkMoves DEF Stored, rows
  <2>4. TypeOK'
    <3>1. tokens' \subseteq [password : Nat, iat : Nat]
      BY <2>1, <2>2, Basics DEF TypeOK
    <3> QED
      BY <2>2, <2>3, <3>1, Basics DEF TypeOK, WorkTyped, rows
  <2>5. codes' \in [1..MaxCodes -> Code] /\ \A k \in 1..MaxCodes : codes'[k].attempts = wrong'[k]
    BY <2>2, <2>3, <2>4, Basics DEF CodesInOrder, TypeOK
  <2> QED
    BY <2>2, <2>3, <2>4, <2>5, EndKeeps, Basics DEF CodesInOrder
<1>5. ASSUME NEW s \in Session, Crash(s) PROVE CodesInv'
  <2>1. Finish(s) /\ UNCHANGED <<rows, recent, resetTokens, tokens, now, minted, requests, wrong, changes>>
    BY <1>5 DEF Crash
  <2>2. WorkTyped' /\ Stored' = Stored /\ UNCHANGED codes
    BY <2>1, Basics, WorkMoves DEF Stored, rows
  <2>3. TypeOK'
    BY <2>1, <2>2, Basics DEF TypeOK, WorkTyped, rows
  <2>4. codes' \in [1..MaxCodes -> Code] /\ \A k \in 1..MaxCodes : codes'[k].attempts = wrong'[k]
    BY <2>1, <2>2, <2>3, Basics DEF CodesInOrder, TypeOK
  <2> QED
    BY <2>1, <2>2, <2>3, <2>4, EndKeeps, Basics DEF CodesInOrder
<1>6. ASSUME NEW s \in Session, Steps(s) PROVE CodesInv'
  BY <1>1, <1>2, <1>3, <1>4, <1>5, <1>6, RequestCodeKeeps, ExpireCodesKeeps, CreateCodeKeeps,
     IncrementKeeps, MarkKeeps, ConfirmKeeps DEF Steps
<1>7. ASSUME Around \/ UNCHANGED vars PROVE CodesInv'
  <2>1. UNCHANGED <<codes, minted, work, resetTokens, wrong>> /\ Stored' = Stored
    BY <1>7 DEF Around, DeleteAccount, Restart, Tick, vars, rows, Stored
  <2>2. TypeOK'
    <3>1. CASE DeleteAccount
      BY <3>1, Basics DEF DeleteAccount, TypeOK, work
    <3>2. CASE Restart
      <4>1. recent' \in Seq(0..Horizon) /\ Len(recent') <= RequestLimit
        BY <3>2, Basics DEF Restart
      <4> QED
        BY <3>2, <4>1, Basics DEF Restart, TypeOK, rows, work
    <3>3. CASE Tick
      <4>1. now' \in 0..Horizon
        BY <3>3, Basics DEF Tick
      <4> QED
        BY <3>3, <4>1, Basics DEF Tick, TypeOK, rows, work
    <3>4. CASE UNCHANGED vars
      BY <3>4, Basics DEF vars, rows, work, TypeOK
    <3> QED
      BY <1>7, <3>1, <3>2, <3>3, <3>4 DEF Around
  <2> QED
    BY <2>1, <2>2, Basics DEF CodesInv, CodesInOrder, Pending, work
<1> QED
  BY <1>6, <1>7 DEF Next, Steps, Around

LEMMA CodesInvHolds ==
  ASSUME ResetConstants
  PROVE  Spec => []CodesInv
  BY InitCodesInv, NextKeepsCodesInv, PTL DEF Spec

(* Every variable has its type.                                            *)
THEOREM TypeCorrect ==
  ASSUME ResetConstants
  PROVE  Spec => []TypeOK
<1>1. CodesInv => TypeOK
  BY DEF CodesInv
<1> QED
  BY <1>1, CodesInvHolds, PTL

-----------------------------------------------------------------------------
(* Codes and changes of password                                           *)

(* Only a confirmation that changes the password uses a code up, and only  *)
(* a wrong guess counts as an attempt.                                     *)
LEMMA UseOrGuess ==
  ASSUME ResetConstants, CodesInv, NEW s \in Session, Steps(s)
  PROVE  /\ \/ Used' = Used /\ changes' = changes
            \/ held[s] \in 1..MaxCodes \ Used /\ Used' = Used \cup {held[s]} /\ changes' = changes + 1
         /\ ~IncrementAttempts(s) =>
              \A k \in 1..MaxCodes : codes'[k].attempts = codes[k].attempts
<1>1. ASSUME \A k \in 1..MaxCodes : codes'[k].used = codes[k].used PROVE Used' = Used
  BY <1>1 DEF Used
<1>2. CASE CreateCode(s)
  BY <1>1, <1>2, CreateCodeKeeps DEF CreateCode
<1>3. CASE MarkVerified(s)
  BY <1>1, <1>3, MarkKeeps DEF MarkVerified
<1>4. CASE IncrementAttempts(s)
  BY <1>1, <1>4, IncrementKeeps DEF IncrementAttempts
<1>5. CASE ConfirmCommit(s)
  BY <1>5, ConfirmKeeps DEF Used
<1>6. CASE \/ RequestCode(s) \/ ExpireCodes(s) \/ RequestConfirm(s)
           \/ \E right \in BOOLEAN : RequestVerify(s, right)
           \/ RequestLogin(s) \/ CreateAccessToken(s) \/ Crash(s)
  <2>1. UNCHANGED <<codes, changes>>
    BY <1>6 DEF RequestCode, ExpireCodes, RequestConfirm, RequestVerify, RequestLogin,
       CreateAccessToken, Crash, rows
  <2> QED
    BY <2>1 DEF Used
<1> QED
  BY <1>2, <1>3, <1>4, <1>5, <1>6 DEF Steps

(* A code pays for one change of password and every change is paid: two    *)
(* confirmations of one code, and one that meets the deletion of the       *)
(* account, change nothing (repository/password_reset_token.py:106).       *)
THEOREM EveryChangeIsPaid ==
  ASSUME ResetConstants
  PROVE  Spec => []UsedCodesMadeChanges
<1> DEFINE Paid == CodesInv /\ Cardinality(Used) = changes
<1>1. MaxCodes \in Nat
  BY DEF ResetConstants
<1>2. \A set \in SUBSET (1..MaxCodes) : IsFiniteSet(set)
  <2>1. PICK all : all = 1..MaxCodes
    OBVIOUS
  <2>2. IsFiniteSet(all)
    BY <1>1, <2>1, FS_Interval
  <2>3. \A set \in SUBSET all : IsFiniteSet(set)
    BY <2>2, FS_Subset
  <2> QED
    BY <2>1, <2>3, Zenon
<1>3. Init => Paid
  <2>1. ASSUME Init PROVE Used = {} /\ changes = 0
    BY <2>1 DEF Init, Used, NoCode
  <2> QED
    BY <2>1, InitCodesInv, FS_EmptySet
<1>4. Paid /\ [Next]_vars => Paid'
  <2> SUFFICES ASSUME Paid, [Next]_vars PROVE Paid'
    OBVIOUS
  <2>1. CodesInv'
    BY NextKeepsCodesInv
  <2>2. ASSUME Used' = Used, changes' = changes PROVE Paid'
    BY <2>1, <2>2
  <2>3. ASSUME NEW s \in Session, Steps(s) PROVE Paid'
    <3>1. CASE Used' = Used /\ changes' = changes
      BY <2>2, <3>1
    <3>2. CASE held[s] \in 1..MaxCodes \ Used /\ Used' = Used \cup {held[s]} /\ changes' = changes + 1
      <4>1. IsFiniteSet(Used)
        BY <1>2 DEF Used
      <4>2. Cardinality(Used') = Cardinality(Used) + 1
        BY <3>2, <4>1, FS_AddElement
      <4> QED
        BY <2>1, <3>2, <4>2
    <3> QED
      BY <2>3, <3>1, <3>2, UseOrGuess
  <2>4. CASE Around \/ UNCHANGED vars
    <3>1. UNCHANGED <<codes, changes>>
      BY <2>4 DEF Around, DeleteAccount, Restart, Tick, vars, rows
    <3>2. Used' = Used
      BY <3>1 DEF Used
    <3> QED
      BY <2>2, <3>1, <3>2
  <2> QED
    BY <2>3, <2>4 DEF Next, Steps, Around
<1>5. Paid => UsedCodesMadeChanges
  BY DEF Used, UsedCodesMadeChanges
<1> QED
  BY <1>3, <1>4, <1>5, PTL DEF Spec

-----------------------------------------------------------------------------
(* Guesses                                                                 *)

(* The wrong guesses of a code that are compared but not yet counted.      *)
Missing(k) == {s \in Session : pc[s] = "miss" /\ held[s] = k}

GuessInv ==
  /\ CodesInv
  /\ \A k \in 1..MaxCodes :
       codes[k].attempts + Cardinality(Missing(k)) < MaxAttempts + Cardinality(Session)

LEMMA MissingFinite ==
  ASSUME ResetConstants
  PROVE  /\ Cardinality(Session) \in Nat /\ MaxAttempts \in Nat /\ MaxAttempts > 0
         /\ \A set \in SUBSET Session :
              /\ IsFiniteSet(set) /\ Cardinality(set) \in Nat
              /\ \A t \in SUBSET set : Cardinality(t) <= Cardinality(set)
<1>1. IsFiniteSet(Session) /\ MaxAttempts \in Nat /\ MaxAttempts > 0
  BY DEF ResetConstants
<1>2. \A set \in SUBSET Session : IsFiniteSet(set)
  BY <1>1, FS_Subset
<1> QED
  BY <1>1, <1>2, FS_Subset, FS_CardinalityType

LEMMA GuessStep ==
  ASSUME ResetConstants, GuessInv, NEW s \in Session, Steps(s), NEW k \in 1..MaxCodes
  PROVE  codes'[k].attempts + Cardinality(Missing(k)') < MaxAttempts + Cardinality(Session)
<1>1. /\ CodesInv /\ TypeOK /\ pc \in [Session -> Stage] /\ held \in [Session -> Nat]
      /\ codes[k].attempts + Cardinality(Missing(k)) < MaxAttempts + Cardinality(Session)
  BY Basics DEF GuessInv, WorkTyped
<1>2. /\ Missing(k) \in SUBSET Session /\ Missing(k)' \in SUBSET Session
      /\ codes[k].attempts \in Nat
  BY <1>1, Basics DEF Missing, Code
<1>3. /\ Cardinality(Missing(k)) \in Nat /\ Cardinality(Missing(k)') \in Nat
      /\ Cardinality(Session) \in Nat /\ MaxAttempts \in Nat
      /\ Cardinality(Missing(k)') <= Cardinality(Session)
  BY <1>2, MissingFinite
<1>4. ASSUME codes'[k].attempts = codes[k].attempts, Missing(k)' \subseteq Missing(k)
      PROVE  codes'[k].attempts + Cardinality(Missing(k)') < MaxAttempts + Cardinality(Session)
  <2>1. Cardinality(Missing(k)') <= Cardinality(Missing(k))
    BY <1>2, <1>4, MissingFinite
  <2> QED
    BY <1>1, <1>2, <1>3, <1>4, <2>1
<1>5. ASSUME pc'[s] # "miss", \A t \in Session \ {s} : pc'[t] = pc[t] /\ held'[t] = held[t]
      PROVE  Missing(k)' \subseteq Missing(k)
  BY <1>5 DEF Missing
<1>6. ASSUME Finish(s)
      PROVE  pc'[s] # "miss" /\ \A t \in Session \ {s} : pc'[t] = pc[t] /\ held'[t] = held[t]
  BY <1>1, <1>6, WorkMoves
<1>7. CASE IncrementAttempts(s)
  <2>1. /\ held[s] \in 1..MaxCodes
        /\ codes'[held[s]].attempts = codes[held[s]].attempts + 1
        /\ k # held[s] => codes'[k] = codes[k]
    BY <1>1, <1>7, IncrementKeeps
  <2>2. Finish(s) /\ pc[s] = "miss"
    BY <1>7 DEF IncrementAttempts
  <2>3. CASE k # held[s]
    BY <1>4, <1>5, <1>6, <2>1, <2>2, <2>3
  <2>4. CASE k = held[s]
    <3>1. Missing(k)' = Missing(k) \ {s} /\ s \in Missing(k)
      BY <1>6, <2>2, <2>4 DEF Missing
    <3>2. Cardinality(Missing(k)') = Cardinality(Missing(k)) - 1
      BY <1>2, <3>1, MissingFinite, FS_RemoveElement
    <3> QED
      BY <1>1, <1>2, <1>3, <2>1, <2>4, <3>2
  <2> QED
    BY <2>3, <2>4
<1>8. ASSUME NEW right \in BOOLEAN, RequestVerify(s, right)
      PROVE  codes'[k].attempts + Cardinality(Missing(k)') < MaxAttempts + Cardinality(Session)
  <2>1. PICK j \in Stored, stage \in {"miss", "mark"} :
          codes[j].attempts < MaxAttempts /\ Proceed(s, stage, j) /\ UNCHANGED codes
    BY <1>8 DEF RequestVerify, IsLatest, Guessable, rows
  <2>2. /\ pc'[s] = stage /\ held'[s] = j
        /\ \A t \in Session \ {s} : pc'[t] = pc[t] /\ held'[t] = held[t]
    BY <1>1, <2>1, WorkMoves, StageNames, Basics
  <2>3. CASE j # k
    <3>1. Missing(k)' \subseteq Missing(k)
      BY <2>2, <2>3 DEF Missing
    <3> QED
      BY <1>4, <2>1, <3>1
  <2>4. CASE j = k
    BY <1>2, <1>3, <2>1, <2>4
  <2> QED
    BY <2>3, <2>4
<1>9. CASE /\ ~IncrementAttempts(s) /\ ~\E right \in BOOLEAN : RequestVerify(s, right)
  <2>1. codes'[k].attempts = codes[k].attempts
    BY <1>1, <1>9, UseOrGuess
  <2>2. pc'[s] # "miss" /\ \A t \in Session \ {s} : pc'[t] = pc[t] /\ held'[t] = held[t]
    <3>1. CASE CreateCode(s) \/ MarkVerified(s) \/ ConfirmCommit(s) \/ CreateAccessToken(s) \/ Crash(s)
      BY <1>6, <3>1 DEF CreateCode, MarkVerified, ConfirmCommit, CreateAccessToken, Crash
    <3>2. CASE ExpireCodes(s)
      BY <1>1, <3>2 DEF ExpireCodes
    <3>3. CASE RequestLogin(s) \/ RequestConfirm(s) \/ RequestCode(s)
      BY <1>1, <3>3 DEF RequestLogin, RequestConfirm, RequestCode, Proceed, work
    <3> QED
      BY <1>9, <3>1, <3>2, <3>3 DEF Steps
  <2> QED
    BY <1>4, <1>5, <2>1, <2>2
<1> QED
  BY <1>7, <1>8, <1>9

(* Every guess answered as wrong is on its code, and the limit is passed   *)
(* by fewer guesses than there are sessions, however many are compared     *)
(* with a code at once (password_reset.py:123).                            *)
THEOREM EveryGuessCounts ==
  ASSUME ResetConstants
  PROVE  Spec => []GuessesCounted
<1>1. Init => GuessInv
  <2>1. ASSUME Init, NEW k \in 1..MaxCodes
        PROVE  codes[k].attempts + Cardinality(Missing(k)) < MaxAttempts + Cardinality(Session)
    <3>1. codes[k].attempts = 0 /\ Missing(k) = {}
      BY <2>1 DEF Init, NoCode, Missing
    <3> QED
      BY <3>1, MissingFinite, FS_EmptySet
  <2> QED
    BY <2>1, InitCodesInv DEF GuessInv
<1>2. GuessInv /\ [Next]_vars => GuessInv'
  <2> SUFFICES ASSUME GuessInv, [Next]_vars PROVE GuessInv'
    OBVIOUS
  <2>1. CodesInv'
    BY NextKeepsCodesInv DEF GuessInv
  <2>2. ASSUME NEW s \in Session, Steps(s) PROVE GuessInv'
    BY <2>1, <2>2, GuessStep DEF GuessInv
  <2>3. CASE Around \/ UNCHANGED vars
    <3>1. UNCHANGED <<codes, pc, held>>
      BY <2>3 DEF Around, DeleteAccount, Restart, Tick, vars, rows, work
    <3>2. \A k : Missing(k)' = Missing(k)
      BY <3>1 DEF Missing
    <3> QED
      BY <2>1, <3>1, <3>2 DEF GuessInv
  <2> QED
    BY <2>2, <2>3 DEF Next, Steps, Around
<1>3. GuessInv => GuessesCounted
  <2>1. ASSUME GuessInv, NEW k \in 1..MaxCodes
        PROVE  codes[k].attempts = wrong[k] /\ codes[k].attempts < MaxAttempts + Cardinality(Session)
    <3>1. codes[k].attempts = wrong[k] /\ codes[k].attempts \in Nat
      BY <2>1, Basics DEF GuessInv, CodesInOrder, Code
    <3>2. Missing(k) \in SUBSET Session
      BY DEF Missing
    <3>3. Cardinality(Missing(k)) \in Nat /\ Cardinality(Session) \in Nat /\ MaxAttempts \in Nat
      BY <3>2, MissingFinite
    <3>4. codes[k].attempts + Cardinality(Missing(k)) < MaxAttempts + Cardinality(Session)
      BY <2>1 DEF GuessInv
    <3> QED
      BY <3>1, <3>3, <3>4
  <2> QED
    BY <2>1 DEF GuessesCounted
<1> QED
  BY <1>1, <1>2, <1>3, PTL DEF Spec

-----------------------------------------------------------------------------
(* Logins                                                                  *)

(* No instant a request took, and none a password changed at, is in the    *)
(* future; what a login checked is a password the account has had, and a   *)
(* token of the current one is no older than its second.                   *)
LoginInv ==
  /\ CodesInv
  /\ changedAt # None => changedAt <= now
  /\ \A s \in Session : at[s] <= now /\ (pc[s] = "issue" => held[s] <= password)
  /\ \A t \in tokens :
       /\ t.password <= password
       /\ t.password = password /\ changedAt # None => t.iat >= SecondOf(changedAt)

LEMMA LoginStep ==
  ASSUME ResetConstants, LoginInv, NEW s \in Session, Steps(s)
  PROVE  LoginInv'
<1>1. /\ CodesInv /\ CodesInv' /\ TypeOK /\ TypeOK' /\ now \in Nat /\ password \in Nat
      /\ pc \in [Session -> Stage] /\ held \in [Session -> Nat] /\ at \in [Session -> 0..Horizon]
      /\ \A t \in Session : at[t] \in Nat
  <2>1. CodesInv /\ CodesInv'
    BY NextKeepsCodesInv DEF LoginInv, Next, Steps
  <2> QED
    BY <2>1, Basics DEF CodesInv, WorkTyped
<1>2. /\ changedAt # None => changedAt <= now
      /\ \A t \in Session : at[t] <= now /\ (pc[t] = "issue" => held[t] <= password)
      /\ \A t \in tokens :
           /\ t.password <= password
           /\ t.password = password /\ changedAt # None => t.iat >= SecondOf(changedAt)
  BY DEF LoginInv
<1>3. ASSUME Finish(s), now' = now
      PROVE  \A t \in Session : at'[t] <= now' /\ (pc'[t] = "issue" => pc[t] = "issue" /\ held'[t] = held[t])
  BY <1>1, <1>2, <1>3 DEF Finish
<1>4. ASSUME NEW stage, NEW what, Proceed(s, stage, what), stage = "issue" => what <= password,
             UNCHANGED <<changedAt, now, password, tokens>>
      PROVE  LoginInv'
  BY <1>1, <1>2, <1>4 DEF Proceed, LoginInv
<1>5. CASE ConfirmCommit(s)
  <2>1. Finish(s) /\ UNCHANGED <<tokens, now>>
    BY <1>5 DEF ConfirmCommit
  <2>2. CASE UNCHANGED <<password, changedAt>>
    BY <1>1, <1>2, <1>3, <2>1, <2>2 DEF LoginInv
  <2>3. CASE password' = password + 1 /\ changedAt' = at[s]
    <3>1. \A t \in tokens : t.password \in Nat
      BY <1>1 DEF TypeOK
    <3>2. \A t \in tokens : t.password <= password' /\ t.password # password'
      BY <1>1, <1>2, <2>3, <3>1
    <3>3. \A t \in Session : held[t] \in Nat
      BY <1>1
    <3>4. \A t \in Session : at'[t] <= now' /\ (pc'[t] = "issue" => held'[t] <= password')
      BY <1>1, <1>2, <1>3, <2>1, <2>3, <3>3
    <3>5. changedAt' <= now'
      BY <1>2, <2>1, <2>3
    <3> QED
      BY <1>1, <2>1, <3>2, <3>4, <3>5 DEF LoginInv
  <2> QED
    BY <1>1, <1>5, <2>2, <2>3, ConfirmKeeps
<1>6. CASE CreateAccessToken(s)
  <2>1. /\ Finish(s) /\ UNCHANGED <<password, changedAt, now>> /\ pc[s] = "issue"
        /\ tokens' = tokens \cup {[password |-> held[s], iat |-> SecondOf(now)]}
    BY <1>6 DEF CreateAccessToken, rows
  <2>2. changedAt # None => SecondOf(now) >= SecondOf(changedAt)
    <3>1. changedAt # None => changedAt \in Nat
      BY <1>1 DEF TypeOK
    <3>2. SecondOf(now) \in Nat /\ (changedAt # None => SecondOf(changedAt) \in Nat)
      BY <1>1, <3>1, Seconds
    <3> QED
      BY <1>1, <1>2, <3>1, <3>2, Seconds
  <2>3. held[s] <= password
    BY <1>2, <2>1
  <2>4. \A t \in tokens' :
          /\ t.password <= password
          /\ t.password = password /\ changedAt # None => t.iat >= SecondOf(changedAt)
    BY <1>2, <2>1, <2>2, <2>3
  <2>5. \A t \in Session : at'[t] <= now' /\ (pc'[t] = "issue" => held'[t] <= password)
    BY <1>2, <1>3, <2>1
  <2>6. SecondOf(changedAt)' = SecondOf(changedAt)
    BY <2>1 DEF SecondOf
  <2> QED
    BY <1>1, <1>2, <2>1, <2>4, <2>5, <2>6 DEF LoginInv
<1>7. CASE CreateCode(s) \/ IncrementAttempts(s) \/ MarkVerified(s) \/ Crash(s)
  <2>1. Finish(s) /\ UNCHANGED <<password, changedAt, now, tokens>>
    BY <1>7 DEF CreateCode, IncrementAttempts, MarkVerified, Crash, rows
  <2> QED
    BY <1>1, <1>2, <1>3, <2>1 DEF LoginInv, SecondOf
<1>8. CASE ExpireCodes(s)
  BY <1>1, <1>2, <1>8 DEF ExpireCodes, LoginInv, SecondOf, rows
<1>9. CASE RequestCode(s)
  <2>1. UNCHANGED <<changedAt, now, password, tokens>>
    BY <1>9 DEF RequestCode, rows
  <2>2. CASE UNCHANGED work
    BY <1>1, <1>2, <2>1, <2>2 DEF LoginInv, SecondOf, work
  <2>3. CASE Proceed(s, "expire", minted + 1)
    BY <1>4, <2>1, <2>3
  <2> QED
    BY <1>9, <2>2, <2>3 DEF RequestCode
<1>10. CASE RequestLogin(s)
  BY <1>1, <1>4, <1>10 DEF RequestLogin, rows
<1>11. CASE RequestConfirm(s) \/ \E right \in BOOLEAN : RequestVerify(s, right)
  <2>1. UNCHANGED <<changedAt, now, password, tokens>>
    BY <1>11 DEF RequestConfirm, RequestVerify, rows
  <2>2. \E stage \in {"miss", "mark", "change"} : \E k : Proceed(s, stage, k)
    BY <1>11 DEF RequestConfirm, RequestVerify
  <2> QED
    BY <1>4, <2>1, <2>2
<1> QED
  BY <1>5, <1>6, <1>7, <1>8, <1>9, <1>10, <1>11 DEF Steps

(* Whoever logs in with the current password is not turned away, although  *)
(* a token dates from the start of its second, whatever changes of         *)
(* password, slow logins and deletions come between (services/auth.py:118).*)
THEOREM FreshLoginsWork ==
  ASSUME ResetConstants
  PROVE  Spec => []FreshLoginAccepted
<1>1. Init => LoginInv
  <2>1. 0 <= 0 /\ None # 0
    BY DEF ResetConstants
  <2> QED
    BY <2>1, InitCodesInv DEF Init, LoginInv
<1>2. LoginInv /\ [Next]_vars => LoginInv'
  <2> SUFFICES ASSUME LoginInv, [Next]_vars PROVE LoginInv'
    OBVIOUS
  <2>1. CodesInv' /\ CodesInv
    BY NextKeepsCodesInv DEF LoginInv
  <2>2. CASE Tick
    <3>1. now \in Nat /\ \A s \in Session : at[s] \in Nat
      BY <2>1, Basics
    <3>2. changedAt # None => changedAt \in Nat
      BY <2>1 DEF CodesInv, TypeOK
    <3> QED
      BY <2>1, <2>2, <3>1, <3>2 DEF Tick, LoginInv, SecondOf, rows, work
  <2>3. CASE DeleteAccount \/ Restart \/ UNCHANGED vars
    <3>1. UNCHANGED <<password, changedAt, tokens, now, pc, at, held>>
      BY <2>3 DEF DeleteAccount, Restart, vars, rows, work
    <3> QED
      BY <2>1, <3>1 DEF LoginInv, SecondOf
  <2> QED
    BY <2>2, <2>3, LoginStep DEF Next, Steps
<1>3. LoginInv => FreshLoginAccepted
  BY DEF LoginInv, FreshLoginAccepted, Accepted
<1> QED
  BY <1>1, <1>2, <1>3, PTL DEF Spec
=============================================================================
