----------------------------- MODULE Referrals -----------------------------
(***************************************************************************)
(* Referral codes and rewards (src/referral).  A row of referrals is a     *)
(* code, its referrer, the user it was last applied by, and a status.      *)
(* rewardReferral credits the referrer through WalletsService, which has a *)
(* database transaction of its own, before the transaction that stores the *)
(* reward and the referral.  Every check is made on a row read without a   *)
(* lock; save() selects the row again, updates the columns that differ,    *)
(* and inserts the entity when account deletion has removed the row.       *)
(***************************************************************************)
EXTENDS Integers, FiniteSets

CONSTANTS Callers,      \* requests to the service
          Codes,
          Members,      \* users
          maxReferrals,
          MaxCredits,   \* bound: rewards attempted for one code
          Missing

VARIABLES issued,       \* the codes generated so far
          referral,     \* per code: the row; Missing: no such row
          rewards,      \* per code: rows of referral_rewards, all PAID
          credits,      \* per code: rewards credited to the referrer's wallet
          at,           \* per caller: its step
          entity,       \* per caller: the code and the entity it will save
          differs       \* per caller: the columns its UPDATE writes

referralVars == <<issued, referral, rewards, credits, at, entity, differs>>

Referral == [referrer : Members, referred : Members,
             status : {"pending", "qualified", "rewarded"}]

ASSUME ReferralAssumption ==
    /\ Missing \notin Codes \cup Members \cup Referral
    /\ maxReferrals \in Nat
    /\ MaxCredits \in Nat
    /\ IsFiniteSet(Callers)

Stored == {c \in Codes : referral[c] # Missing}
NoEntity == [code |-> Missing, row |-> Missing]

ReferralInit ==
    /\ issued = {}
    /\ referral = [c \in Codes |-> Missing]
    /\ rewards = [c \in Codes |-> 0]
    /\ credits = [c \in Codes |-> 0]
    /\ at = [k \in Callers |-> "idle"]
    /\ entity = [k \in Callers |-> NoEntity]
    /\ differs = [k \in Callers |-> {}]

Return(k) ==
    /\ at' = [at EXCEPT ![k] = "idle"]
    /\ entity' = [entity EXCEPT ![k] = NoEntity]
    /\ differs' = [differs EXCEPT ![k] = {}]

(* The unique index on referredId: nobody but the row of c has it. *)
Unreferred(u, c) == \A d \in Stored \ {c} : referral[d].referred # u

(* Until it is applied, a code refers its own referrer. *)
generateCode(u, c) ==
    /\ c \notin issued
    /\ issued' = issued \cup {c}
    /\ Unreferred(u, c)
    /\ referral' = [referral EXCEPT ![c] = [referrer |-> u, referred |-> u,
                                            status |-> "pending"]]
    /\ UNCHANGED <<rewards, credits, at, entity, differs>>

(* applyCode: the user has not been referred yet ... *)
applyCode(k, u) ==
    /\ at[k] = "idle"
    /\ \A d \in Stored : referral[d].referred # u
    /\ at' = [at EXCEPT ![k] = "apply"]
    /\ entity' = [entity EXCEPT ![k] = [code |-> Missing, row |-> u]]
    /\ UNCHANGED <<issued, referral, rewards, credits, differs>>

(* ... and the referrer's codes are fewer than the limit.  The status of   *)
(* the loaded row is not looked at.                                        *)
ApplyTo(k, c) ==
    /\ at[k] = "apply"
    /\ c \in Stored
    /\ Cardinality({d \in Stored : referral[d].referrer = referral[c].referrer})
            < maxReferrals
    /\ entity' = [entity EXCEPT ![k] =
                    [code |-> c, row |-> [referral[c] EXCEPT !.referred = entity[k].row,
                                                             !.status = "pending"]]]
    /\ at' = [at EXCEPT ![k] = "select"]
    /\ UNCHANGED <<issued, referral, rewards, credits, differs>>

qualifyReferral(k, c) ==
    /\ at[k] = "idle"
    /\ c \in Stored
    /\ referral[c].status = "pending"
    /\ entity' = [entity EXCEPT ![k] =
                    [code |-> c, row |-> [referral[c] EXCEPT !.status = "qualified"]]]
    /\ at' = [at EXCEPT ![k] = "select"]
    /\ UNCHANGED <<issued, referral, rewards, credits, differs>>

rewardReferral(k, c) ==
    /\ at[k] = "idle"
    /\ c \in Stored
    /\ referral[c].status = "qualified"
    /\ entity' = [entity EXCEPT ![k] =
                    [code |-> c, row |-> [referral[c] EXCEPT !.status = "rewarded"]]]
    /\ at' = [at EXCEPT ![k] = "credit"]
    /\ UNCHANGED <<issued, referral, rewards, credits, differs>>

(* Mutant: adjustBalance is not awaited, and its failure goes unnoticed. *)
CreditUnawaited(k) ==
    LET c == entity[k].code IN
    /\ at[k] = "credit"
    /\ credits[c] < MaxCredits
    /\ credits' \in {credits, [credits EXCEPT ![c] = @ + 1]}
    /\ at' = [at EXCEPT ![k] = "select"]
    /\ UNCHANGED <<issued, referral, rewards, entity, differs>>

(* adjustBalance commits by itself. *)
CreditReferrer(k) ==
    LET c == entity[k].code IN
    /\ at[k] = "credit"
    /\ credits[c] < MaxCredits
    /\ credits' = [credits EXCEPT ![c] = @ + 1]
    /\ at' = [at EXCEPT ![k] = "select"]
    /\ UNCHANGED <<issued, referral, rewards, entity, differs>>

(* save() looks for the row.  "insert": it is gone. *)
SelectReferral(k) ==
    LET c == entity[k].code
        e == entity[k].row IN
    /\ at[k] = "select"
    /\ differs' = [differs EXCEPT ![k] =
                    IF referral[c] = Missing THEN {"insert"}
                    ELSE {f \in {"referred", "status"} : referral[c][f] # e[f]}]
    /\ at' = [at EXCEPT ![k] = "write"]
    /\ UNCHANGED <<issued, referral, rewards, credits, entity>>

Written(old, e, columns) ==
    IF "insert" \in columns THEN e
    ELSE IF old = Missing THEN Missing      \* the UPDATE matches no row
    ELSE [old EXCEPT !.referred = IF "referred" \in columns THEN e.referred ELSE @,
                     !.status = IF "status" \in columns THEN e.status ELSE @]

(* The UPDATE or INSERT, with the reward's row in the same transaction.    *)
(* It fails on a referred user another code has, and on a row that came    *)
(* back under the same id.                                                 *)
WriteReferral(k) ==
    LET c == entity[k].code
        e == entity[k].row
        new == Written(referral[c], e, differs[k])
        ok == /\ new # Missing => Unreferred(new.referred, c)
              /\ "insert" \in differs[k] => referral[c] = Missing
    IN
    /\ at[k] = "write"
    /\ referral' = IF ok THEN [referral EXCEPT ![c] = new] ELSE referral
    /\ rewards' = IF ok /\ e.status = "rewarded"
                  THEN [rewards EXCEPT ![c] = @ + 1] ELSE rewards
    /\ Return(k)
    /\ UNCHANGED <<issued, credits>>

(* A refused or failing query, or the process stops. *)
Fail(k) ==
    /\ at[k] # "idle"
    /\ Return(k)
    /\ UNCHANGED <<issued, referral, rewards, credits>>

(* deleteAccount removes the user's referrals. *)
deleteAccount(u) ==
    /\ \E c \in Stored : u \in {referral[c].referrer, referral[c].referred}
    /\ referral' = [c \in Codes |->
                       IF c \in Stored /\ u \in {referral[c].referrer, referral[c].referred}
                       THEN Missing ELSE referral[c]]
    /\ UNCHANGED <<issued, rewards, credits, at, entity, differs>>

ReferralNext ==
    \/ \E u \in Members : \/ \E c \in Codes : generateCode(u, c)
                          \/ \E k \in Callers : applyCode(k, u)
                          \/ deleteAccount(u)
    \/ \E k \in Callers :
        \/ \E c \in Codes : ApplyTo(k, c) \/ qualifyReferral(k, c) \/ rewardReferral(k, c)
        \/ CreditReferrer(k) \/ SelectReferral(k) \/ WriteReferral(k) \/ Fail(k)

ReferralSpec == ReferralInit /\ [][ReferralNext]_referralVars

----------------------------------------------------------------------------
(* Type invariant. *)
ReferralTypeOK ==
    /\ issued \subseteq Codes
    /\ referral \in [Codes -> Referral \cup {Missing}]
    /\ Stored \subseteq issued
    /\ rewards \in [Codes -> Nat]
    /\ credits \in [Codes -> Nat]
    /\ at \in [Callers -> {"idle", "apply", "credit", "select", "write"}]
    /\ differs \in [Callers -> SUBSET {"insert", "referred", "status"}]
    /\ \A k \in Callers :
        /\ at[k] = "apply" => entity[k].row \in Members
        /\ at[k] \in {"credit", "select", "write"} =>
            entity[k] \in [code : Codes, row : Referral]

(* A stored reward was credited to the wallet before it, one credit per    *)
(* reward, and a referral shown as rewarded has one, whatever overlaps and *)
(* whatever fails.  (The converse is false: a credit may stay without a    *)
(* reward, and two overlapping rewards of one referral both pay.)          *)
RewardsAreReal ==
    \A c \in Codes :
        /\ rewards[c] <= credits[c]
        /\ c \in Stored /\ referral[c].status = "rewarded" => rewards[c] >= 1
============================================================================
