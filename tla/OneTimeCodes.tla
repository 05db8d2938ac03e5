--------------------------- MODULE OneTimeCodes ----------------------------
(***************************************************************************)
(* The secrets a user is mailed and brings back: one-time codes (OtpService*)
(* in src/otp), password-reset tokens (PasswordResetService in src/auth),  *)
(* and the reset and e-mail verification hashes in the row of the user     *)
(* (AuthService in src/modules/auth).  A behaviour is about one of the     *)
(* four stores, for one user (and one purpose).                            *)
(*                                                                         *)
(* Codes are numbered in the order in which they are stored (createdAt).   *)
(* Both one-time codes and reset tokens are replaced by a delete and a     *)
(* later insert, and are checked on a row that was read before.  Save() of *)
(* a row that was deleted meanwhile inserts it again.                      *)
(***************************************************************************)
EXTENDS Integers, FiniteSets

CONSTANTS Issuers, Checkers,    \* requests
          Stores,               \* the stores a behaviour may be about
          MAX_ATTEMPTS,         \* 5 for one-time codes, 3 for reset tokens
          MaxCodes,             \* bound
          MaxJudged,            \* bound of the history judged
          Absent                \* no row, no hash

VARIABLES store,
          codes,        \* per number: the row or column value
          expiredCodes, \* the codes whose expiresAt has passed
          lastCode,     \* the number of the newest code
          emailVerified, \* emailVerifiedAt is set
          issuing,      \* per issuer: has deleted, is to insert
          checking,     \* per checker: the code and the write it is about to do
          judged,       \* history: comparisons allowed with each code
          acceptances,  \* history: of each code
          contendedCodes, \* history: codes whose row two requests worked on at once
          outdated      \* history: codes accepted after a newer one was stored

codeHistory == <<judged, acceptances, contendedCodes, outdated>>
codeVars == <<store, codes, expiredCodes, lastCode, emailVerified, issuing, checking, codeHistory>>

AllStores == {"otps", "password_reset_tokens", "passwordResetTokenHash",
              "emailVerificationTokenHash"}
InTable == store \in {"otps", "password_reset_tokens"}
Numbers == 1..MaxCodes

Otp == [attempts : 0..MAX_ATTEMPTS, used : BOOLEAN]

ASSUME CodesAssumption ==
    /\ MAX_ATTEMPTS \in Nat \ {0} /\ MaxCodes \in Nat \ {0}
    /\ MaxJudged \in Nat /\ MaxJudged > MAX_ATTEMPTS
    /\ Absent \notin Otp

NewCode == [attempts |-> 0, used |-> FALSE]
Stored == {n \in Numbers : codes[n] # Absent}

Idle == [code |-> 0, write |-> "none", row |-> Absent]
Writes == {"none", "save", "count", "delete", "effect"}

CodesInit ==
    /\ store \in Stores
    /\ codes = [n \in Numbers |-> Absent]
    /\ expiredCodes = {}
    /\ emailVerified = FALSE
    /\ lastCode = 0
    /\ issuing = [i \in Issuers |-> FALSE]
    /\ checking = [k \in Checkers |-> Idle]
    /\ judged = [n \in Numbers |-> 0]
    /\ acceptances = [n \in Numbers |-> 0]
    /\ contendedCodes = {}
    /\ outdated = {}

Checked == {checking[k].code : k \in Checkers} \ {0}
Without(S) == [n \in Numbers |-> IF n \in S THEN Absent ELSE codes[n]]

----------------------------------------------------------------------------
(* Issuing a code. *)

(* Mutant: createResetToken leaves the earlier tokens. *)
DoomedNone == IF store = "otps" THEN Stored ELSE {}

(* generate deletes every code of the user and the purpose (undefined is   *)
(* no condition), createResetToken the unused tokens.                      *)
Doomed == IF store = "otps" THEN Stored ELSE {n \in Stored : ~codes[n].used}

deleteEarlier(i) ==
    /\ InTable /\ ~issuing[i]
    /\ codes' = Without(Doomed)
    /\ issuing' = [issuing EXCEPT ![i] = TRUE]
    /\ contendedCodes' = contendedCodes \cup (Checked \cap Doomed)
    /\ UNCHANGED <<store, emailVerified, expiredCodes, lastCode, checking, judged, acceptances, outdated>>

Others(i) == {j \in Issuers \ {i} : issuing[j]}

generate(i) ==
    /\ issuing[i] /\ lastCode < MaxCodes
    /\ lastCode' = lastCode + 1
    /\ codes' = [codes EXCEPT ![lastCode'] = NewCode]
    /\ issuing' = [issuing EXCEPT ![i] = FALSE]
    /\ contendedCodes' = IF Others(i) = {} THEN contendedCodes
                         ELSE contendedCodes \cup {lastCode'}
    /\ UNCHANGED <<store, emailVerified, expiredCodes, checking, judged, acceptances, outdated>>

issueFails(i) ==
    /\ issuing[i]
    /\ issuing' = [issuing EXCEPT ![i] = FALSE]
    /\ UNCHANGED <<store, emailVerified, expiredCodes, codes, lastCode, checking, codeHistory>>

(* The other two overwrite a column. *)
overwriteHash ==
    /\ lastCode < MaxCodes
    /\ lastCode' = lastCode + 1
    /\ codes' = [Without(Stored) EXCEPT ![lastCode'] = NewCode]
    /\ UNCHANGED <<store, emailVerified, expiredCodes, issuing, checking, codeHistory>>

forgotPassword == store = "passwordResetTokenHash" /\ overwriteHash

(* By signup, and by resendVerification as long as it is needed. *)
sendEmailVerification ==
    store = "emailVerificationTokenHash" /\ ~emailVerified /\ overwriteHash

----------------------------------------------------------------------------
(* Checking a code: the row is read and judged at once, written later.     *)

(* The comparison with the stored code n takes place, and what it says. *)
Judge(k, n, right, w) ==
    /\ judged[n] < MaxJudged
    /\ judged' = [judged EXCEPT ![n] = @ + 1]
    /\ acceptances' = [acceptances EXCEPT ![n] = IF right THEN @ + 1 ELSE @]
    /\ outdated' = IF right /\ n # lastCode THEN outdated \cup {n} ELSE outdated
    /\ contendedCodes' = contendedCodes \cup ({n} \cap Checked)
    /\ checking' = [checking EXCEPT ![k] = [code |-> n, write |-> w, row |->
            IF right THEN [codes[n] EXCEPT !.used = TRUE]
            ELSE [codes[n] EXCEPT !.attempts = @ + 1]]]
    /\ UNCHANGED <<store, emailVerified, expiredCodes, codes, lastCode, issuing>>

Newest(n) == n \in Stored /\ \A m \in Stored : m <= n

(* Mutant: a used code is not refused. *)
VerifiableAgain(n) == n \notin expiredCodes /\ codes[n].attempts < MAX_ATTEMPTS
(* Mutant: one attempt too many. *)
VerifiableOnceMore(n) == ~codes[n].used /\ n \notin expiredCodes /\ codes[n].attempts <= MAX_ATTEMPTS

Verifiable(n) == ~codes[n].used /\ n \notin expiredCodes /\ codes[n].attempts < MAX_ATTEMPTS

verify(k, n, right) ==
    /\ store = "otps" /\ checking[k] = Idle
    /\ Newest(n) /\ Verifiable(n)
    /\ Judge(k, n, right, "save")

(* validateToken looks the token up by its hash and counts every use. *)
validateToken(k, n) ==
    /\ store = "password_reset_tokens" /\ checking[k] = Idle
    /\ n \in Stored /\ ~codes[n].used
    /\ \/ Verifiable(n) /\ Judge(k, n, FALSE, "count")
       \/ /\ ~Verifiable(n)
          /\ checking' = [checking EXCEPT ![k] = [code |-> n, write |-> "delete", row |-> Absent]]
          /\ contendedCodes' = contendedCodes \cup ({n} \cap Checked)
          /\ UNCHANGED <<store, emailVerified, expiredCodes, codes, lastCode, issuing, judged, acceptances, outdated>>

(* After a successful reset. *)
consumeToken(n) ==
    /\ store = "password_reset_tokens" /\ n \in Stored /\ judged[n] > 0
    /\ acceptances' = [acceptances EXCEPT ![n] = IF codes[n].used THEN @ ELSE @ + 1]
    /\ outdated' = IF n = lastCode \/ codes[n].used THEN outdated ELSE outdated \cup {n}
    /\ codes' = [codes EXCEPT ![n].used = TRUE]
    /\ UNCHANGED <<store, emailVerified, expiredCodes, lastCode, issuing, checking, judged, contendedCodes>>

(* resetPassword and verifyEmail: the update names the hash undefined,     *)
(* which leaves it in place, so that it is accepted again.                 *)
resetPassword(k, n) ==
    /\ store = "passwordResetTokenHash" /\ checking[k] = Idle
    /\ n \in Stored \ expiredCodes
    /\ Judge(k, n, TRUE, "effect")

verifyEmail(k, n) ==
    /\ store = "emailVerificationTokenHash" /\ checking[k] = Idle
    /\ n \in Stored
    /\ Judge(k, n, TRUE, "effect")

(* save() inserts the row again when it is gone, update() does not; the    *)
(* effect is on other columns.                                             *)
writeCheck(k) ==
    LET w == checking[k] IN
    /\ w.write # "none"
    /\ codes' = CASE w.write = "save" -> [codes EXCEPT ![w.code] = w.row]
                  [] w.write = "count" /\ w.code \in Stored ->
                        [codes EXCEPT ![w.code].attempts = w.row.attempts]
                  [] w.write = "delete" -> Without({w.code})
                  [] OTHER -> codes
    /\ emailVerified' = (emailVerified \/ (w.write = "effect" /\ store = "emailVerificationTokenHash"))
    /\ checking' = [checking EXCEPT ![k] = Idle]
    /\ UNCHANGED <<store, expiredCodes, lastCode, issuing, codeHistory>>

(* The update of OtpService.invalidate. *)
invalidate(n) ==
    /\ store = "otps" /\ n \in Stored /\ ~codes[n].used
    /\ codes' = [codes EXCEPT ![n].used = TRUE]
    /\ UNCHANGED <<store, emailVerified, expiredCodes, lastCode, issuing, checking, codeHistory>>

codeExpires(n) ==
    /\ n \in Stored \ expiredCodes
    /\ expiredCodes' = expiredCodes \cup {n}
    /\ UNCHANGED <<store, emailVerified, codes, lastCode, issuing, checking, codeHistory>>

(* The nightly purge, and purgeExpiredTokens. *)
purgeSensitiveAuthArtifacts ==
    /\ InTable
    /\ Stored \cap expiredCodes # {}
    /\ codes' = Without(expiredCodes)
    /\ UNCHANGED <<store, emailVerified, expiredCodes, lastCode, issuing, checking, codeHistory>>

CodesNext ==
    \/ \E i \in Issuers : deleteEarlier(i) \/ generate(i) \/ issueFails(i)
    \/ forgotPassword \/ sendEmailVerification
    \/ \E k \in Checkers :
        \/ writeCheck(k)
        \/ \E n \in Numbers : validateToken(k, n) \/ resetPassword(k, n) \/ verifyEmail(k, n)
        \/ \E n \in Numbers, right \in BOOLEAN : verify(k, n, right)
    \/ \E n \in Numbers : consumeToken(n) \/ invalidate(n) \/ codeExpires(n)
    \/ purgeSensitiveAuthArtifacts

CodesSpec == CodesInit /\ [][CodesNext]_codeVars

----------------------------------------------------------------------------
(* Type invariant. *)
CodesTypeOK ==
    /\ store \in Stores
    /\ codes \in [Numbers -> Otp \cup {Absent}]
    /\ expiredCodes \subseteq Numbers
    /\ lastCode \in 0..MaxCodes
    /\ emailVerified \in BOOLEAN
    /\ issuing \in [Issuers -> BOOLEAN]
    /\ checking \in [Checkers -> [code : 0..MaxCodes, write : Writes, row : Otp \cup {Absent}]]
    /\ judged \in [Numbers -> 0..MaxJudged]
    /\ acceptances \in [Numbers -> 0..MaxJudged]
    /\ contendedCodes \subseteq Numbers
    /\ outdated \subseteq Numbers

(* At most MAX_ATTEMPTS comparisons with one code are allowed, right or    *)
(* wrong, counted or deleted meanwhile, unless two of them overlapped: the *)
(* counter is then incremented from the same value.                        *)
JudgementsBounded ==
    InTable => \A n \in Numbers \ contendedCodes : judged[n] <= MAX_ATTEMPTS

(* A one-time code is accepted once, unless two checks of it overlapped.   *)
AcceptedOnceUnlessContended ==
    store = "otps" => \A n \in Numbers \ contendedCodes : acceptances[n] <= 1

(* No code is accepted after a newer one was stored, unless the older was  *)
(* being checked or stored while the newer was issued: what was deleted    *)
(* then comes back with a save() or was not yet there to be deleted.       *)
AcceptedIsNewest == outdated \subseteq contendedCodes

(* How often and how long a code can be tried and used. *)
CodesAreOneTime == JudgementsBounded /\ AcceptedOnceUnlessContended /\ AcceptedIsNewest
============================================================================
