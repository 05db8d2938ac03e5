------------------------------- MODULE Cases -------------------------------
(***************************************************************************)
(* The tables whose rows are cases with a status that users, admins and a  *)
(* nightly job change: disputes (src/disputes), KYC documents (src/kyc),   *)
(* KYC tier upgrades (src/modules/kyc-tiers), support tickets (src/support *)
(* and src/modules/support-tickets), account freezes and user              *)
(* deactivations (src/modules).  Disputes and support tickets have two     *)
(* entities each, which name the same table.                               *)
(*                                                                         *)
(* The services are written alike.  A handler loads a row, refuses or      *)
(* changes the loaded entity, and saves it; save() first selects the row   *)
(* again and then updates the columns that differ.  No row is locked.  So  *)
(* a method is here an operator from the loaded row to the entities it may *)
(* save, and the steps of a request are the same for every table.  No      *)
(* handler touches two of the tables: a behaviour is about one of them,    *)
(* chosen in the initial state.  Dates, messages and events are left out:  *)
(* no guard reads them.                                                    *)
(***************************************************************************)
EXTENDS Integers

CONSTANTS Handlers,     \* requests and runs of the nightly job
          Ids,          \* primary keys
          Owners,       \* users
          Tables,       \* the tables a behaviour may be about
          MaxLevel,     \* bound: escalations stop at this level
          Nobody

VARIABLES table,
          rows,         \* per id: the row; Nobody: no such row
          aged,         \* the rows older than the 30 days of the nightly job
          tier,         \* per user: metadata.kycTier, 0 for NONE
          step,         \* per handler
          form,         \* per handler: the row it is about to insert
          loaded,       \* per handler: the entities it has changed, by id
          dirty,        \* per handler: the id and columns its UPDATE writes
          grant,        \* per handler: the upgrade whose tier it still sets
          decided,      \* history: which handler saved which decision
          contended     \* history: cases that two handlers had loaded at once

memory == <<step, form, loaded, dirty, grant>>
caseVars == <<table, rows, aged, tier, memory, decided, contended>>

----------------------------------------------------------------------------
(* The entities. *)

(* TIER_LEVELS: NONE, BASIC, ADVANCED, VERIFIED. *)
TIER_LEVELS == 0..3

(* The statuses of the entities; isActive is active or lifted. *)
DisputeStatus == {"open", "under_review", "escalated", "resolved", "rejected"}
DisputeStatusV2 == DisputeStatus \ {"escalated"}
KycDocumentStatus == {"pending", "approved", "rejected", "appealed"}
KycTierUpgradeStatus == {"pending", "approved", "rejected"}
SupportTicketStatus == {"open", "in-progress", "resolved", "closed"}
TicketStatus == {"open", "in_progress", "waiting_customer", "resolved", "closed"}
FreezeActive == {"active", "lifted"}
DeactivationActive == {"active", "lifted"}

Statuses(t) == CASE t = "disputes" -> DisputeStatus \cup DisputeStatusV2
                 [] t = "kyc_documents" -> KycDocumentStatus
                 [] t = "kyc_tier_upgrades" -> KycTierUpgradeStatus
                 [] t = "support_tickets" -> SupportTicketStatus \cup TicketStatus
                 [] t = "account_freezes" -> FreezeActive
                 [] t = "user_deactivations" -> DeactivationActive

AllTables == {"disputes", "kyc_documents", "kyc_tier_upgrades", "support_tickets",
              "account_freezes", "user_deactivations"}

(* The tables whose handlers look for an open case of the user before they *)
(* insert: submit, requestUpgrade, freezeAccount and deactivate.           *)
LooksFirst == {"kyc_documents", "kyc_tier_upgrades", "account_freezes",
               "user_deactivations"}

(* The status of an open case, which a new row gets. *)
Fresh(t) == CASE t \in {"kyc_documents", "kyc_tier_upgrades"} -> "pending"
              [] t \in {"account_freezes", "user_deactivations"} -> "active"
              [] t \in {"disputes", "support_tickets"} -> "open"

Columns == {"status", "by", "level"}
Row == [status : UNION {Statuses(t) : t \in AllTables},
        by : Handlers \cup {Nobody},    \* reviewedBy, unfrozenBy, a ticket's
                                        \* assignee, a resolution's author
        level : 1..MaxLevel,            \* escalationLevel, 1 where there is none
        owner : Owners,
        want : TIER_LEVELS]             \* requestedTier, 0 where there is none

ASSUME CasesAssumption ==
    /\ Nobody \notin Handlers \cup Ids \cup Owners \cup Row
    /\ MaxLevel \in Nat \ {0}
    /\ Tables \subseteq AllTables

Live == {c \in Ids : rows[c] # Nobody}

Nothing == [c \in Ids |-> Nobody]
Clean == <<Nobody, {}>>

CaseInit ==
    /\ table \in Tables
    /\ rows = [c \in Ids |-> Nobody]
    /\ aged = {}
    /\ tier = [u \in Owners |-> 0]
    /\ step = [h \in Handlers |-> "idle"]
    /\ form = [h \in Handlers |-> Nobody]
    /\ loaded = [h \in Handlers |-> Nothing]
    /\ dirty = [h \in Handlers |-> Clean]
    /\ grant = [h \in Handlers |-> Nobody]
    /\ decided = {}
    /\ contended = {}

Finish(h) ==
    /\ step' = [step EXCEPT ![h] = "idle"]
    /\ form' = [form EXCEPT ![h] = Nobody]
    /\ loaded' = [loaded EXCEPT ![h] = Nothing]
    /\ dirty' = [dirty EXCEPT ![h] = Clean]
    /\ grant' = [grant EXCEPT ![h] = Nobody]

----------------------------------------------------------------------------
(* The methods: what they may save of the row e they loaded. *)

(* Mutant: a closed dispute is escalated too. *)
escalateAny(e, h) ==
    IF e.level = MaxLevel THEN {}
    ELSE {[e EXCEPT !.status = "escalated", !.level = @ + 1]}

escalate(e, h) ==
    IF e.status \in {"resolved", "rejected"} \/ e.level = MaxLevel THEN {}
    ELSE {[e EXCEPT !.status = "escalated", !.level = @ + 1]}

resolve(e, h) == {[e EXCEPT !.status = "resolved"]}
rejectDispute(e, h) == {[e EXCEPT !.status = "rejected"]}

resolveDispute(e, h) ==
    IF e.status \in {"resolved", "rejected"} THEN {}
    ELSE {[e EXCEPT !.status = s, !.by = h] : s \in {"resolved", "rejected"}}

(* Mutant: the second review, after an appeal, keeps the first reviewer. *)
reviewKeepsName(e, h) ==
    IF e.status \notin {"pending", "appealed"} THEN {}
    ELSE {[e EXCEPT !.status = s, !.by = IF @ = Nobody THEN h ELSE @] :
            s \in {"approved", "rejected"}}

(* The status is one of the two that ReviewKycDto names; nothing checks it *)
(* at run time.                                                            *)
review(e, h) ==
    IF e.status \notin {"pending", "appealed"} THEN {}
    ELSE {[e EXCEPT !.status = s, !.by = h] : s \in {"approved", "rejected"}}

(* Mutant: an appealed document gets a status of another table. *)
appealUnderReview(e, h) ==
    IF e.status # "rejected" THEN {} ELSE {[e EXCEPT !.status = "under_review"]}

appeal(e, h) ==
    IF e.status # "rejected" THEN {} ELSE {[e EXCEPT !.status = "appealed"]}

approve(e, h) ==
    IF e.status # "pending" THEN {}
    ELSE {[e EXCEPT !.status = "approved", !.by = h]}

reject(e, h) ==
    IF e.status # "pending" THEN {}
    ELSE {[e EXCEPT !.status = "rejected", !.by = h]}

updateTicket(e, h) ==
    {[e EXCEPT !.status = s, !.by = h] :
        s \in SupportTicketStatus}

(* With a status in the request, or without one. *)
assign(e, h) ==
    {[e EXCEPT !.status = s, !.by = h] :
        s \in TicketStatus
              \cup {IF e.status = "open" THEN "in_progress" ELSE e.status}}

unfreezeAccount(e, h) ==
    IF e.status # "active" THEN {} ELSE {[e EXCEPT !.status = "lifted", !.by = h]}

reactivate(e, h) ==
    IF e.status # "active" THEN {} ELSE {[e EXCEPT !.status = "lifted", !.by = h]}

Edits(e, h) ==
    CASE table = "disputes" -> escalate(e, h) \cup resolve(e, h)
                               \cup rejectDispute(e, h) \cup resolveDispute(e, h)
      [] table = "kyc_documents" -> review(e, h) \cup appeal(e, h)
      [] table = "kyc_tier_upgrades" -> approve(e, h) \cup reject(e, h)
      [] table = "support_tickets" -> updateTicket(e, h) \cup assign(e, h)
      [] table = "account_freezes" -> unfreezeAccount(e, h)
      [] table = "user_deactivations" -> reactivate(e, h)

----------------------------------------------------------------------------
(* Opening a case: the rows a method may insert for the user u. *)

NewRow(s, u, w) == [status |-> s, by |-> Nobody, level |-> 1, owner |-> u, want |-> w]

(* A request body is of the type its DTO declares; submit, which stores    *)
(* the whole body, sets no other column then.                              *)
fileDispute(u) == {NewRow("open", u, 0)}
openDispute(u) == {NewRow("open", u, 0)}        \* of a COMPLETED transaction
submit(u) == {NewRow("pending", u, 0)}
createTicket(u) == {NewRow("open", u, 0)}
createDeskTicket(u) == {NewRow("open", u, 0)}
freezeAccount(u) == {NewRow("active", u, 0)}
deactivate(u) == {NewRow("active", u, 0)}

(* A tier above the one the user has by now. *)
requestUpgrade(u) == {NewRow("pending", u, w) : w \in {l \in TIER_LEVELS : l > tier[u]}}

Forms(u) ==
    CASE table = "disputes" -> fileDispute(u) \cup openDispute(u)
      [] table = "kyc_documents" -> submit(u)
      [] table = "kyc_tier_upgrades" -> requestUpgrade(u)
      [] table = "support_tickets" -> createTicket(u) \cup createDeskTicket(u)
      [] table = "account_freezes" -> freezeAccount(u)
      [] table = "user_deactivations" -> deactivate(u)

Open(h, f) ==
    /\ step[h] = "idle"
    /\ form' = [form EXCEPT ![h] = f]
    /\ step' = [step EXCEPT ![h] = IF table \in LooksFirst THEN "look" ELSE "insert"]
    /\ UNCHANGED <<table, rows, aged, tier, loaded, dirty, grant, decided, contended>>

OpenCases(u) == {c \in Live : rows[c].owner = u /\ rows[c].status = Fresh(table)}

Look(h) ==
    /\ step[h] = "look"
    /\ IF OpenCases(form[h].owner) = {}
       THEN step' = [step EXCEPT ![h] = "insert"] /\ UNCHANGED <<form, loaded, dirty, grant>>
       ELSE Finish(h)
    /\ UNCHANGED <<table, rows, aged, tier, decided, contended>>

(* Mutant: the index is missing. *)
NoIndex(u) == TRUE

(* IDX_kyc_documents_active_user, the one index that repeats the check. *)
IndexAllows(u) == table = "kyc_documents" => OpenCases(u) = {}

Insert(h, c) ==
    /\ step[h] = "insert"
    /\ c \notin Live
    /\ rows' = IF IndexAllows(form[h].owner)
               THEN [rows EXCEPT ![c] = form[h]] ELSE rows
    /\ Finish(h)
    /\ UNCHANGED <<table, aged, tier, decided, contended>>

----------------------------------------------------------------------------
(* Changing a case. *)

Holds(h, c) == step[h] \in {"save", "update"} /\ loaded[h][c] # Nobody
Contenders(h, S) == {c \in S : \E g \in Handlers \ {h} : Holds(g, c)}

Load(h, c, e) ==
    /\ step[h] = "idle"
    /\ loaded' = [loaded EXCEPT ![h] = [Nothing EXCEPT ![c] = e]]
    /\ contended' = contended \cup Contenders(h, {c})
    /\ step' = [step EXCEPT ![h] = "save"]
    /\ UNCHANGED <<table, rows, aged, tier, form, dirty, grant, decided>>

Stale == {c \in aged : rows[c].status \in {"open", "under_review"}}

(* The nightly job loads every stale dispute at once. *)
autoCloseStaleDisputes(h) ==
    /\ table = "disputes"
    /\ step[h] = "idle"
    /\ Stale # {}
    /\ loaded' = [loaded EXCEPT ![h] =
                    [c \in Ids |-> IF c \in Stale
                                   THEN [rows[c] EXCEPT !.status = "resolved", !.by = h]
                                   ELSE Nobody]]
    /\ contended' = contended \cup Contenders(h, Stale)
    /\ step' = [step EXCEPT ![h] = "save"]
    /\ UNCHANGED <<table, rows, aged, tier, form, dirty, grant, decided>>

(* save() selects the row and finds the columns that differ. *)
Compare(h, c) ==
    /\ step[h] = "save"
    /\ loaded[h][c] # Nobody
    /\ dirty' = [dirty EXCEPT ![h] =
                    <<c, {f \in Columns : rows[c][f] # loaded[h][c][f]}>>]
    /\ step' = [step EXCEPT ![h] = "update"]
    /\ UNCHANGED <<table, rows, aged, tier, form, loaded, grant, decided, contended>>

(* Mutant: reject goes on to the user too. *)
GrantsAlways(e) == table = "kyc_tier_upgrades"

(* Only approve goes on to the user. *)
GrantsTier(e) == table = "kyc_tier_upgrades" /\ e.status = "approved"

(* The decisions that carry a reviewer's name. *)
Verdicts(c, h, e) ==
    IF table \in {"kyc_documents", "kyc_tier_upgrades"}
       /\ e.status \in {"approved", "rejected"}
    THEN {<<c, h, e.status>>} ELSE {}

(* ... and updates them.  The nightly job goes on with its next dispute. *)
Update(h) ==
    LET c == dirty[h][1]
        e == loaded[h][c]
        rest == [loaded[h] EXCEPT ![c] = Nobody]
        Write(f) == IF f \in dirty[h][2] THEN e[f] ELSE rows[c][f]
    IN
    /\ step[h] = "update"
    /\ rows' = [rows EXCEPT ![c] = [@ EXCEPT !.status = Write("status"),
                                             !.by = Write("by"),
                                             !.level = Write("level")]]
    /\ IF rest = Nothing /\ ~GrantsTier(e)
       THEN Finish(h)
       ELSE /\ loaded' = [loaded EXCEPT ![h] = rest]
            /\ dirty' = [dirty EXCEPT ![h] = Clean]
            /\ grant' = [grant EXCEPT ![h] = IF GrantsTier(e) THEN c ELSE Nobody]
            /\ step' = [step EXCEPT ![h] = IF GrantsTier(e) THEN "grant" ELSE "save"]
            /\ UNCHANGED form
    /\ decided' = decided \cup Verdicts(c, h, e)
    /\ UNCHANGED <<table, aged, tier, contended>>

GrantTier(h) ==
    /\ step[h] = "grant"
    /\ tier' = [tier EXCEPT ![rows[grant[h]].owner] = rows[grant[h]].want]
    /\ Finish(h)
    /\ UNCHANGED <<table, rows, aged, decided, contended>>

(* A query fails or the process stops: the handler ends where it is. *)
Drop(h) ==
    /\ step[h] # "idle"
    /\ Finish(h)
    /\ UNCHANGED <<table, rows, aged, tier, decided, contended>>

(* Thirty days pass. *)
Age(c) ==
    /\ table = "disputes"
    /\ c \in Live \ aged
    /\ aged' = aged \cup {c}
    /\ UNCHANGED <<table, rows, tier, memory, decided, contended>>

CaseNext ==
    \/ \E h \in Handlers :
        \/ \E u \in Owners : \E f \in Forms(u) : Open(h, f)
        \/ Look(h)
        \/ \E c \in Ids : Insert(h, c) \/ Compare(h, c)
        \/ \E c \in Live : \E e \in Edits(rows[c], h) : Load(h, c, e)
        \/ autoCloseStaleDisputes(h)
        \/ Update(h)
        \/ GrantTier(h)
        \/ Drop(h)
    \/ \E c \in Ids : Age(c)

CaseSpec == CaseInit /\ [][CaseNext]_caseVars

----------------------------------------------------------------------------
(* Type invariant. *)
CaseTypeOK ==
    /\ table \in Tables
    /\ rows \in [Ids -> Row \cup {Nobody}]
    /\ \A c \in Live : rows[c].status \in Statuses(table)
    /\ aged \subseteq Live
    /\ tier \in [Owners -> TIER_LEVELS]
    /\ step \in [Handlers -> {"idle", "look", "insert", "save", "update", "grant"}]
    /\ form \in [Handlers -> Row \cup {Nobody}]
    /\ loaded \in [Handlers -> [Ids -> Row \cup {Nobody}]]
    /\ \A h \in Handlers, c \in Ids : Holds(h, c) => c \in Live
    /\ dirty \in [Handlers -> (Ids \cup {Nobody}) \X SUBSET Columns]
    /\ grant \in [Handlers -> Ids \cup {Nobody}]
    /\ contended \subseteq Live

(* The statuses a case of the table never leaves for one outside the set.  *)
Settled == CASE table = "disputes" -> {"resolved", "rejected"}
             [] table = "kyc_documents" -> {"approved", "rejected", "appealed"}
             [] table = "kyc_tier_upgrades" -> {"approved", "rejected"}
             [] table = "support_tickets" -> {}
             [] OTHER -> {"lifted"}

(* A settled case stays settled, however many stale entities are saved     *)
(* over it: a document is pending only once, a lifted freeze or            *)
(* deactivation and a decided upgrade are not opened again.  A closed      *)
(* dispute is not reopened either, unless two handlers had it loaded at    *)
(* once: escalate() checks the status it loaded.                           *)
SettledStaysSettled ==
    [][\A c \in Live :
        /\ rows[c].status \in Settled
        /\ table = "disputes" => c \notin contended'
        => rows'[c].status \in Settled]_caseVars

(* However many submissions overlap, a user has one pending document: the  *)
(* transaction's look is not enough, the partial index is.                 *)
OnePendingDocument ==
    table = "kyc_documents" =>
        \A u \in Owners : \A c, d \in OpenCases(u) : c = d

(* A user's tier is one that some approve() was saved for, whatever was    *)
(* lost, refused or overwritten.                                           *)
TierWasApproved ==
    \A u \in Owners : tier[u] # 0 =>
        \E c \in Live, h \in Handlers :
            /\ rows[c].owner = u
            /\ rows[c].want = tier[u]
            /\ <<c, h, "approved">> \in decided

(* The reviewer on a decided document or upgrade is one who took that      *)
(* decision, as long as no two handlers had the case loaded at once (then  *)
(* save() may write one's status and leave the other's name).              *)
SignedUnlessContended ==
    table \in {"kyc_documents", "kyc_tier_upgrades"} =>
        \A c \in Live \ contended :
            rows[c].status \in {"approved", "rejected"} =>
                <<c, rows[c].by, rows[c].status>> \in decided

(* What overlapping requests on a case cannot spoil. *)
CasesAreSound == OnePendingDocument /\ TierWasApproved /\ SignedUnlessContended
============================================================================
