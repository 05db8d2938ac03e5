-------------------------- MODULE AccountClosure ---------------------------
(***************************************************************************)
(* The refresh tokens of one user (src/tokens) and the closure of the      *)
(* account (src/users): AccountClosureService and the nightly purge.       *)
(* Rotations, closures and credits are requests of their own; a rotation   *)
(* and a closure decide on rows they read, unlocked, and save later.       *)
(* Accounts share no rows: one is enough.                                  *)
(***************************************************************************)
EXTENDS Integers

CONSTANTS Clients,      \* requests that create or rotate tokens
          Closers,      \* requests that close the account
          TokenIds,
          MaxBalance,   \* bound
          NoRow

VARIABLES refreshTokens,  \* per id: the row, or NoRow
          account,        \* the row of user_accounts
          held,           \* per client: the token row its rotation has loaded
          closing,        \* per closer: its step
          purge,          \* the nightly job has loaded the account
          accountBalance, \* in wallet_balances: NoRow until the first credit
          cutOff,         \* history: families revoked with no rotation under way
          lateCredit      \* history: a credit came after a balance check

closureVars == <<refreshTokens, account, held, closing, purge, accountBalance, cutOff, lateCredit>>

(* The family is named by its first token. *)
RefreshToken == [familyId : TokenIds, parentTokenId : TokenIds \cup {NoRow},
                 revoked : BOOLEAN, expired : BOOLEAN]

ASSUME ClosureAssumption ==
    NoRow \notin TokenIds /\ NoRow \notin RefreshToken /\ NoRow \notin Nat /\ MaxBalance \in Nat \ {0}

Rows == {t \in TokenIds : refreshTokens[t] # NoRow}

UserAccount == [isActive : BOOLEAN, mailed : BOOLEAN,
                pii : {"kept", "due", "purged"}]    \* due: piiPurgeAt is reached

ClosureInit ==
    /\ refreshTokens = [t \in TokenIds |-> NoRow]
    /\ account = [isActive |-> TRUE, mailed |-> FALSE, pii |-> "kept"]
    /\ held = [k \in Clients |-> NoRow]
    /\ closing = [k \in Closers |-> "idle"]
    /\ purge = FALSE
    /\ accountBalance \in {NoRow} \cup 0..1
    /\ cutOff = {}
    /\ lateCredit = FALSE

----------------------------------------------------------------------------
(* RefreshTokensService. *)

NewToken(f, p) == [familyId |-> f, parentTokenId |-> p, revoked |-> FALSE, expired |-> FALSE]

createToken(t) ==
    /\ t \notin Rows
    /\ refreshTokens' = [refreshTokens EXCEPT ![t] = NewToken(t, NoRow)]
    /\ UNCHANGED <<account, held, closing, purge, accountBalance, cutOff, lateCredit>>

(* Mutant: rotateToken does not look at revokedAt. *)
RotatableUnlessExpired(t) == ~refreshTokens[t].expired

Rotatable(t) == ~refreshTokens[t].revoked /\ ~refreshTokens[t].expired

(* rotateToken(): the row is read and checked ... *)
rotateToken(k, t) ==
    /\ held[k] = NoRow
    /\ t \in Rows /\ Rotatable(t)
    /\ held' = [held EXCEPT ![k] = t]
    /\ UNCHANGED <<refreshTokens, account, closing, purge, accountBalance, cutOff, lateCredit>>

(* ... and saved, revoked, with its successor, in one transaction. *)
saveRotation(k, t) ==
    /\ held[k] # NoRow /\ t \notin Rows
    /\ refreshTokens' = [refreshTokens EXCEPT
                            ![held[k]].revoked = TRUE,
                            ![t] = NewToken(refreshTokens[held[k]].familyId, held[k])]
    /\ held' = [held EXCEPT ![k] = NoRow]
    /\ UNCHANGED <<account, closing, purge, accountBalance, cutOff, lateCredit>>

rotationFails(k) ==
    /\ held[k] # NoRow
    /\ held' = [held EXCEPT ![k] = NoRow]
    /\ UNCHANGED <<refreshTokens, account, closing, purge, accountBalance, cutOff, lateCredit>>

tokenExpires(t) ==
    /\ t \in Rows /\ ~refreshTokens[t].expired
    /\ refreshTokens' = [refreshTokens EXCEPT ![t].expired = TRUE]
    /\ UNCHANGED <<account, held, closing, purge, accountBalance, cutOff, lateCredit>>

Rotating == {refreshTokens[held[k]].familyId : k \in {c \in Clients : held[c] # NoRow}}

(* The update of closeAccount and of revokeUserTokens: every row at once. *)
RevokeAll ==
    /\ refreshTokens' = [t \in TokenIds |->
                            IF t \in Rows THEN [refreshTokens[t] EXCEPT !.revoked = TRUE]
                            ELSE NoRow]
    /\ cutOff' = cutOff \cup ({refreshTokens[t].familyId : t \in Rows} \ Rotating)

revokeUserTokens ==
    /\ Rows # {}
    /\ RevokeAll
    /\ UNCHANGED <<account, held, closing, purge, accountBalance, lateCredit>>

----------------------------------------------------------------------------
(* AccountClosureService. *)

ClosureStep(k, from, to) == closing[k] = from /\ closing' = [closing EXCEPT ![k] = to]

(* The token, the account, the password and the code are verified. *)
verifyRequest(k) ==
    /\ account.isActive
    /\ ClosureStep(k, "idle", "verified")
    /\ UNCHANGED <<refreshTokens, account, held, purge, accountBalance, cutOff, lateCredit>>

(* Mutant: a debt counts as empty and so does any other balance. *)
AnyBalance == TRUE

(* The column is a decimal, which the driver returns as a text, and the    *)
(* check compares it with the number 0 by !==: any wallet row, an empty    *)
(* one too, refuses the closure.  Only an account without one passes.      *)
NoFunds == accountBalance = NoRow

assertZeroBalance(k) ==
    /\ NoFunds
    /\ ClosureStep(k, "verified", "checked")
    /\ UNCHANGED <<refreshTokens, account, held, purge, accountBalance, cutOff, lateCredit>>

saveClosed(k) ==
    /\ ClosureStep(k, "checked", "saved")
    /\ account' = [account EXCEPT !.isActive = FALSE]
    /\ UNCHANGED <<refreshTokens, held, purge, accountBalance, cutOff, lateCredit>>

revokeAndMail(k) ==
    /\ ClosureStep(k, "saved", "mail")
    /\ RevokeAll
    /\ UNCHANGED <<account, held, purge, accountBalance, lateCredit>>

(* A failing mail or save is caught. *)
sendFinalConfirmation(k, delivered) ==
    /\ ClosureStep(k, "mail", "idle")
    /\ account' = [account EXCEPT !.mailed = @ \/ delivered]
    /\ UNCHANGED <<refreshTokens, held, purge, accountBalance, cutOff, lateCredit>>

(* A refusal, a failing query or a restart. *)
closureEnds(k) ==
    /\ closing[k] # "idle"
    /\ closing' = [closing EXCEPT ![k] = "idle"]
    /\ UNCHANGED <<refreshTokens, account, held, purge, accountBalance, cutOff, lateCredit>>

(* The years of retention: longer than any request. *)
retentionEnds ==
    /\ ~account.isActive /\ account.pii = "kept"
    /\ \A k \in Closers : closing[k] = "idle"
    /\ account' = [account EXCEPT !.pii = "due"]
    /\ UNCHANGED <<refreshTokens, held, closing, purge, accountBalance, cutOff, lateCredit>>

findDue ==
    /\ ~purge /\ account.pii = "due"
    /\ purge' = TRUE
    /\ UNCHANGED <<refreshTokens, account, held, closing, accountBalance, cutOff, lateCredit>>

purgeExpiredPersonalData(saved) ==
    /\ purge
    /\ purge' = FALSE
    /\ account' = IF saved THEN [account EXCEPT !.pii = "purged"] ELSE account
    /\ UNCHANGED <<refreshTokens, held, closing, accountBalance, cutOff, lateCredit>>

(* The wallets know nothing of the account. *)
walletMoves(n) ==
    /\ n # accountBalance
    /\ accountBalance' = n
    /\ lateCredit' = (lateCredit \/ ~account.isActive \/ \E k \in Closers : closing[k] = "checked")
    /\ UNCHANGED <<refreshTokens, account, held, closing, purge, cutOff>>

ClosureNext ==
    \/ \E t \in TokenIds : createToken(t) \/ tokenExpires(t)
    \/ \E k \in Clients, t \in TokenIds : rotateToken(k, t) \/ saveRotation(k, t)
    \/ \E k \in Clients : rotationFails(k)
    \/ revokeUserTokens
    \/ \E k \in Closers :
        \/ verifyRequest(k) \/ assertZeroBalance(k) \/ saveClosed(k) \/ revokeAndMail(k)
        \/ closureEnds(k)
        \/ \E delivered \in BOOLEAN : sendFinalConfirmation(k, delivered)
    \/ retentionEnds \/ findDue
    \/ \E saved \in BOOLEAN : purgeExpiredPersonalData(saved)
    \/ \E n \in 0..MaxBalance : walletMoves(n)

ClosureSpec == ClosureInit /\ [][ClosureNext]_closureVars

----------------------------------------------------------------------------
(* Type invariant. *)
ClosureTypeOK ==
    /\ refreshTokens \in [TokenIds -> RefreshToken \cup {NoRow}]
    /\ account \in UserAccount
    /\ held \in [Clients -> TokenIds \cup {NoRow}]
    /\ closing \in [Closers -> {"idle", "verified", "checked", "saved", "mail"}]
    /\ purge \in BOOLEAN
    /\ accountBalance \in {NoRow} \cup 0..MaxBalance
    /\ cutOff \subseteq TokenIds
    /\ lateCredit \in BOOLEAN

(* A family of tokens that was revoked while no rotation of it was under   *)
(* way never has a usable token again: rotateToken refuses its tokens, and *)
(* a rotation that began earlier is over.                                  *)
RevocationIsFinal ==
    \A t \in Rows : refreshTokens[t].familyId \in cutOff => refreshTokens[t].revoked

(* A closed account holds money only if the money moved after the account  *)
(* was found to have no wallet: closeAccount checks first and closes       *)
(* later.                                                                  *)
ClosedAccountsAreEmpty ==
    ~account.isActive /\ accountBalance \in 1..MaxBalance => lateCredit

(* What closing an account and revoking its tokens achieves for good. *)
ClosureIsFinal == RevocationIsFinal /\ ClosedAccountsAreEmpty
============================================================================
