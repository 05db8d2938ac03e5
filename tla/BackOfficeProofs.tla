-------------------------- MODULE BackOfficeProofs --------------------------
(***************************************************************************)
(* Theorems about the components that MCBackOffice puts side by side, for  *)
(* any sets of handlers, cases, items and referral codes: the tables of    *)
(* cases, bulk payments, referrals.                                        *)
(***************************************************************************)
EXTENDS MCBackOffice, FiniteSetTheorems, TLAPS

----------------------------------------------------------------------------
(* Cases. *)

(* What the methods leave in the entity e that the handler h will save. *)
Edited(e, h) ==
    /\ e.status \in Statuses(table)
    /\ table \notin {"disputes", "support_tickets"} => e.status \in Settled
    /\ /\ table \in {"kyc_documents", "kyc_tier_upgrades"}
       /\ e.status \in {"approved", "rejected"}
       => e.by = h

(* The row has not changed since it was loaded, nor since it was compared. *)
Unchanged(h, c) ==
    /\ table = "disputes" => loaded[h][c].status \in Settled \/ rows[c].status \notin Settled
    /\ step[h] = "update" /\ dirty[h][1] = c =>
            /\ "status" \notin dirty[h][2] => rows[c].status = loaded[h][c].status
            /\ "by" \notin dirty[h][2] => rows[c].by = loaded[h][c].by

(* A row about to be inserted is an open case, one about to be updated is  *)
(* held, one about to be granted was approved.                             *)
HandlerFits(h) ==
    /\ step[h] \in {"look", "insert"} => form[h] \in Row /\ form[h].status = Fresh(table)
    /\ step[h] = "update" => dirty[h][1] \in Ids /\ loaded[h][dirty[h][1]] # Nobody
    /\ \A c \in Ids : Holds(h, c) => /\ Edited(loaded[h][c], h)
                                     /\ c \notin contended => Unchanged(h, c)
    /\ step[h] = "grant" => /\ grant[h] \in Live
                            /\ \E g \in Handlers : <<grant[h], g, "approved">> \in decided

(* A case that two handlers hold is contended. *)
HeldAlone == \A h, g \in Handlers, c \in Ids :
                h # g /\ Holds(h, c) /\ Holds(g, c) => c \in contended

CaseInv == /\ CaseTypeOK /\ (\A h \in Handlers : HandlerFits(h)) /\ HeldAlone
           /\ OnePendingDocument /\ TierWasApproved /\ SignedUnlessContended

(* A status of a table is a status of a row. *)
LEMMA StatusesAreStatuses ==
    ASSUME NEW t \in AllTables, NEW s \in Statuses(t)
    PROVE  s \in UNION {Statuses(u) : u \in AllTables}
  OBVIOUS

(* What an edit of a loaded row is. *)
LEMMA EditsFit ==
    ASSUME table \in AllTables, NEW e \in Row, e.status \in Statuses(table), NEW h \in Handlers,
           NEW x \in Edits(e, h)
    PROVE  /\ x \in Row /\ Edited(x, h)
           /\ table = "disputes" => x.status \in Settled \/ e.status \notin Settled
  <1> DEFINE S == UNION {Statuses(u) : u \in AllTables}
  <1>0. /\ e = [status |-> e.status, by |-> e.by, level |-> e.level, owner |-> e.owner, want |-> e.want]
        /\ e.by \in Handlers \cup {Nobody} /\ e.level \in 1..MaxLevel /\ e.owner \in Owners
        /\ e.want \in TIER_LEVELS
    BY DEF Row
  <1>1. ASSUME NEW s \in Statuses(table), NEW b \in {e.by, h}, NEW l \in 1..MaxLevel,
               x = [status |-> s, by |-> b, level |-> l, owner |-> e.owner, want |-> e.want]
        PROVE  x \in Row /\ x.status = s /\ x.by = b
    <2>1. s \in S
      BY StatusesAreStatuses
    <2> HIDE DEF S
    <2> QED BY <1>0, <1>1, <2>1 DEF Row, S
  <1>2. CASE table = "disputes"
    <2>1. x \in escalate(e, h) \cup resolve(e, h) \cup rejectDispute(e, h) \cup resolveDispute(e, h)
      BY <1>2 DEF Edits
    <2>2. CASE x \in escalate(e, h)
      <3>1. /\ e.status \notin {"resolved", "rejected"} /\ e.level # MaxLevel
            /\ x = [e EXCEPT !.status = "escalated", !.level = e.level + 1]
        BY <2>2 DEF escalate
      <3>2. e.level + 1 \in 1..MaxLevel
        BY <1>0, <3>1, CasesAssumption
      <3>3. x = [status |-> "escalated", by |-> e.by, level |-> e.level + 1, owner |-> e.owner,
                 want |-> e.want]
        BY <1>0, <3>1
      <3>4. "escalated" \in Statuses(table)
        BY <1>2 DEF Statuses, DisputeStatus
      <3>5. x \in Row /\ x.status = "escalated"
        BY <1>1, <3>2, <3>3, <3>4
      <3> QED BY <1>2, <3>1, <3>4, <3>5 DEF Edited, Settled
    <2>3. CASE x \notin escalate(e, h)
      <3>1. PICK s \in {"resolved", "rejected"}, b \in {e.by, h} :
                x = [status |-> s, by |-> b, level |-> e.level, owner |-> e.owner, want |-> e.want]
        BY <1>0, <2>1, <2>3 DEF resolve, rejectDispute, resolveDispute
      <3>2. s \in Statuses(table)
        BY <1>2 DEF Statuses, DisputeStatus
      <3>3. x \in Row /\ x.status = s
        BY <1>0, <1>1, <3>1, <3>2
      <3> QED BY <1>2, <3>2, <3>3 DEF Edited, Settled
    <2> QED BY <2>2, <2>3
  <1>3. CASE table = "kyc_documents"
    <2>1. x \in review(e, h) \cup appeal(e, h)
      BY <1>3 DEF Edits
    <2>2. PICK s \in {"approved", "rejected", "appealed"}, b \in {e.by, h} :
                /\ x = [status |-> s, by |-> b, level |-> e.level, owner |-> e.owner, want |-> e.want]
                /\ s # "appealed" => b = h
      BY <1>0, <2>1 DEF review, appeal
    <2>3. s \in Statuses(table)
      BY <1>3 DEF Statuses, KycDocumentStatus
    <2>4. x \in Row /\ x.status = s /\ x.by = b
      BY <1>0, <1>1, <2>2, <2>3
    <2> QED BY <1>3, <2>2, <2>3, <2>4 DEF Edited, Settled
  <1>4. CASE table = "kyc_tier_upgrades"
    <2>1. x \in approve(e, h) \cup reject(e, h)
      BY <1>4 DEF Edits
    <2>2. PICK s \in {"approved", "rejected"} :
                x = [status |-> s, by |-> h, level |-> e.level, owner |-> e.owner, want |-> e.want]
      BY <1>0, <2>1 DEF approve, reject
    <2>3. s \in Statuses(table)
      BY <1>4 DEF Statuses, KycTierUpgradeStatus
    <2>4. x \in Row /\ x.status = s /\ x.by = h
      BY <1>0, <1>1, <2>2, <2>3
    <2> QED BY <1>4, <2>3, <2>4 DEF Edited, Settled
  <1>5. CASE table = "support_tickets"
    <2>1. x \in updateTicket(e, h) \cup assign(e, h)
      BY <1>5 DEF Edits
    <2>2. Statuses(table) = SupportTicketStatus \cup TicketStatus
      BY <1>5 DEF Statuses
    <2>3. PICK s \in Statuses(table) :
                x = [status |-> s, by |-> h, level |-> e.level, owner |-> e.owner, want |-> e.want]
      <3>1. {IF e.status = "open" THEN "in_progress" ELSE e.status} \subseteq Statuses(table)
        BY <2>2 DEF SupportTicketStatus, TicketStatus
      <3>2. PICK s \in Statuses(table) : x = [e EXCEPT !.status = s, !.by = h]
        BY <2>1, <2>2, <3>1 DEF updateTicket, assign
      <3> QED BY <1>0, <3>2
    <2>4. x \in Row /\ x.status = s
      BY <1>0, <1>1, <2>3
    <2> QED BY <1>5, <2>4 DEF Edited
  <1>6. CASE table \in {"account_freezes", "user_deactivations"}
    <2>1. x \in unfreezeAccount(e, h) \cup reactivate(e, h)
      BY <1>6 DEF Edits
    <2>2. x = [status |-> "lifted", by |-> h, level |-> e.level, owner |-> e.owner, want |-> e.want]
      BY <1>0, <2>1 DEF unfreezeAccount, reactivate
    <2>3. "lifted" \in Statuses(table)
      BY <1>6 DEF Statuses, FreezeActive, DeactivationActive
    <2>4. x \in Row /\ x.status = "lifted"
      BY <1>0, <1>1, <2>2, <2>3
    <2> QED BY <1>6, <2>3, <2>4 DEF Edited, Settled
  <1> QED BY <1>2, <1>3, <1>4, <1>5, <1>6 DEF AllTables

(* A row a method inserts is an open case. *)
LEMMA FormsFit ==
    ASSUME table \in AllTables, NEW u \in Owners, NEW f \in Forms(u)
    PROVE  f \in Row /\ f.status = Fresh(table)
  <1>1. PICK w \in TIER_LEVELS : f = NewRow(Fresh(table), u, w)
    BY DEF Forms, Fresh, AllTables, fileDispute, openDispute, submit, requestUpgrade, createTicket,
           createDeskTicket, freezeAccount, deactivate, TIER_LEVELS
  <1>2. Fresh(table) \in Statuses(table)
    BY DEF Fresh, Statuses, AllTables, DisputeStatus, KycDocumentStatus, KycTierUpgradeStatus,
           SupportTicketStatus, FreezeActive, DeactivationActive
  <1>3. Fresh(table) \in UNION {Statuses(t) : t \in AllTables} /\ 1 \in 1..MaxLevel
    BY <1>2, StatusesAreStatuses, CasesAssumption
  <1>4. f = [status |-> Fresh(table), by |-> Nobody, level |-> 1, owner |-> u, want |-> w]
    BY <1>1 DEF NewRow
  <1> QED BY <1>3, <1>4 DEF Row

(* The memory of a handler has its types. *)
MemoryTyped ==
    /\ step \in [Handlers -> {"idle", "look", "insert", "save", "update", "grant"}]
    /\ form \in [Handlers -> Row \cup {Nobody}]
    /\ loaded \in [Handlers -> [Ids -> Row \cup {Nobody}]]
    /\ dirty \in [Handlers -> (Ids \cup {Nobody}) \X SUBSET Columns]
    /\ grant \in [Handlers -> Ids \cup {Nobody}]

(* The memory of a handler stays as it is. *)
SameMemory(g) == /\ step'[g] = step[g] /\ form'[g] = form[g] /\ loaded'[g] = loaded[g]
                 /\ dirty'[g] = dirty[g] /\ grant'[g] = grant[g]

(* Handler h moves, cases only get more and the ones another handler holds *)
(* alone keep their rows: what is said of every handler holds if it holds  *)
(* of h.                                                                   *)
LEMMA HandlerStep ==
    ASSUME CaseInv, NEW h \in Handlers, \A g \in Handlers \ {h} : SameMemory(g),
           table' = table, Live \subseteq Live', contended \subseteq contended',
           decided \subseteq decided',
           \A g \in Handlers \ {h}, c \in Ids : Holds(g, c) /\ c \notin contended => rows'[c] = rows[c],
           HandlerFits(h)', \A c \in Ids : Holds(h, c)' => c \in Live',
           \A g \in Handlers \ {h}, c \in Ids : Holds(h, c)' /\ Holds(g, c) => c \in contended'
    PROVE  /\ \A g \in Handlers : HandlerFits(g)'
           /\ HeldAlone'
           /\ \A g \in Handlers, c \in Ids : Holds(g, c)' => c \in Live'
  <1>1. \A g \in Handlers \ {h}, c \in Ids : Holds(g, c)' <=> Holds(g, c)
    BY DEF Holds, SameMemory
  <1>2. ASSUME NEW g \in Handlers \ {h} PROVE HandlerFits(g)'
    <2>1. HandlerFits(g)
      BY DEF CaseInv
    <2>2. /\ step'[g] \in {"look", "insert"} => form'[g] \in Row /\ form'[g].status = Fresh(table)'
          /\ step'[g] = "update" => dirty'[g][1] \in Ids /\ loaded'[g][dirty'[g][1]] # Nobody
          /\ step'[g] = "grant" => /\ grant'[g] \in Live'
                                   /\ \E k \in Handlers : <<grant'[g], k, "approved">> \in decided'
      BY <2>1 DEF HandlerFits, SameMemory, Fresh
    <2>3. ASSUME NEW c \in Ids, Holds(g, c)'
          PROVE  Edited(loaded[g][c], g)' /\ (c \notin contended' => Unchanged(g, c)')
      <3>1. Holds(g, c) /\ Edited(loaded[g][c], g) /\ (c \notin contended => Unchanged(g, c))
        BY <1>1, <2>1, <2>3 DEF HandlerFits
      <3>2. Edited(loaded[g][c], g)'
        BY <3>1 DEF Edited, SameMemory, Settled
      <3>3. ASSUME c \notin contended' PROVE Unchanged(g, c)'
        <4>1. rows'[c] = rows[c] /\ Unchanged(g, c)
          BY <3>1, <3>3
        <4> QED BY <4>1 DEF Unchanged, SameMemory, Settled
      <3> QED BY <3>2, <3>3
    <2> QED BY <2>2, <2>3 DEF HandlerFits
  <1>3. HeldAlone'
    BY <1>1 DEF CaseInv, HeldAlone
  <1>4. \A g \in Handlers, c \in Ids : Holds(g, c)' => c \in Live'
    BY <1>1 DEF CaseInv, CaseTypeOK
  <1> QED BY <1>2, <1>3, <1>4

(* A handler that ends holds nothing. *)
LEMMA FinishStep ==
    ASSUME CaseInv, NEW h \in Handlers, Finish(h)
    PROVE  /\ MemoryTyped' /\ \A g \in Handlers \ {h} : SameMemory(g)
           /\ step'[h] = "idle" /\ HandlerFits(h)' /\ \A c \in Ids : ~Holds(h, c)'
  <1>1. Nothing \in [Ids -> Row \cup {Nobody}] /\ Clean \in (Ids \cup {Nobody}) \X SUBSET Columns
    BY DEF Nothing, Clean
  <1>2. MemoryTyped'
    BY <1>1 DEF CaseInv, CaseTypeOK, MemoryTyped, Finish
  <1>3. step'[h] = "idle" /\ \A g \in Handlers \ {h} : SameMemory(g)
    BY DEF CaseInv, CaseTypeOK, Finish, SameMemory
  <1>4. \A c \in Ids : ~Holds(h, c)'
    BY <1>3 DEF Holds
  <1> QED BY <1>2, <1>3, <1>4 DEF HandlerFits

(* Handler h moves and the tables stay as they are. *)
LEMMA MemoryStep ==
    ASSUME CaseInv, NEW h \in Handlers, \A g \in Handlers \ {h} : SameMemory(g), MemoryTyped',
           UNCHANGED <<table, rows, aged, tier, decided>>,
           contended \subseteq contended', contended' \subseteq Live,
           HandlerFits(h)', \A c \in Ids : Holds(h, c)' => c \in Live,
           \A g \in Handlers \ {h}, c \in Ids : Holds(h, c)' /\ Holds(g, c) => c \in contended'
    PROVE  CaseInv'
  <1>1. Live' = Live
    BY DEF Live
  <1>2. /\ \A g \in Handlers : HandlerFits(g)'
        /\ HeldAlone'
        /\ \A g \in Handlers, c \in Ids : Holds(g, c)' => c \in Live'
    BY <1>1, HandlerStep
  <1>3. CaseTypeOK'
    BY <1>1, <1>2 DEF CaseInv, CaseTypeOK, MemoryTyped
  <1>4. OnePendingDocument'
    BY <1>1 DEF CaseInv, OnePendingDocument, OpenCases
  <1>5. TierWasApproved' /\ SignedUnlessContended'
    BY <1>1 DEF CaseInv, TierWasApproved, SignedUnlessContended
  <1> QED BY <1>2, <1>3, <1>4, <1>5 DEF CaseInv

(* The inductive invariant of the cases holds initially. *)
LEMMA CaseInvInit == CaseInit => CaseInv
  <1> SUFFICES ASSUME CaseInit PROVE CaseInv
    OBVIOUS
  <1>1. Nothing \in [Ids -> Row \cup {Nobody}] /\ Clean \in (Ids \cup {Nobody}) \X SUBSET Columns
    BY DEF Nothing, Clean
  <1>2. Live = {}
    BY DEF CaseInit, Live
  <1>3. \A h \in Handlers, c \in Ids : ~Holds(h, c)
    BY DEF CaseInit, Holds
  <1>4. CaseTypeOK
    BY <1>1, <1>2, <1>3 DEF CaseInit, CaseTypeOK, TIER_LEVELS
  <1>5. (\A h \in Handlers : HandlerFits(h)) /\ HeldAlone
    BY <1>3 DEF CaseInit, HandlerFits, HeldAlone
  <1>6. OnePendingDocument /\ TierWasApproved /\ SignedUnlessContended
    BY <1>2 DEF CaseInit, OnePendingDocument, OpenCases, TierWasApproved, SignedUnlessContended
  <1> QED BY <1>4, <1>5, <1>6 DEF CaseInv

(* Opening a case. *)
LEMMA OpenSteps ==
    ASSUME CaseInv, NEW h \in Handlers,
           \/ \E u \in Owners : \E f \in Forms(u) : Open(h, f)
           \/ Look(h) \/ \E c \in Ids : Insert(h, c)
    PROVE  CaseInv'
  <1>0. table \in AllTables
    BY CasesAssumption DEF CaseInv, CaseTypeOK
  <1>1. ASSUME NEW u \in Owners, NEW f \in Forms(u), Open(h, f) PROVE CaseInv'
    <2>1. f \in Row /\ f.status = Fresh(table)
      BY <1>0, FormsFit
    <2>2. /\ step'[h] \in {"look", "insert"} /\ form'[h] = f
          /\ \A g \in Handlers \ {h} : SameMemory(g)
          /\ MemoryTyped'
      BY <1>1, <2>1 DEF Open, CaseInv, CaseTypeOK, MemoryTyped, SameMemory
    <2>3. /\ UNCHANGED <<table, rows, aged, tier, decided, contended>> /\ \A c \in Ids : ~Holds(h, c)'
      BY <1>1, <2>2 DEF Open, Holds
    <2>4. HandlerFits(h)'
      BY <2>1, <2>2, <2>3 DEF HandlerFits, Fresh
    <2> QED BY <2>2, <2>3, <2>4, MemoryStep DEF CaseInv, CaseTypeOK
  <1>2. CASE Look(h)
    <2>1. UNCHANGED <<table, rows, aged, tier, decided, contended>> /\ step[h] = "look"
      BY <1>2 DEF Look
    <2>2. CASE Finish(h)
      <3>1. /\ MemoryTyped' /\ \A g \in Handlers \ {h} : SameMemory(g)
            /\ HandlerFits(h)' /\ \A c \in Ids : ~Holds(h, c)'
        BY <2>2, FinishStep
      <3> QED BY <2>1, <3>1, MemoryStep DEF CaseInv, CaseTypeOK
    <2>3. CASE step' = [step EXCEPT ![h] = "insert"] /\ UNCHANGED <<form, loaded, dirty, grant>>
      <3>1. /\ step'[h] = "insert" /\ MemoryTyped' /\ \A g \in Handlers \ {h} : SameMemory(g)
        BY <2>3 DEF CaseInv, CaseTypeOK, MemoryTyped, SameMemory
      <3>2. \A c \in Ids : ~Holds(h, c)'
        BY <3>1 DEF Holds
      <3>3. HandlerFits(h)'
        BY <2>1, <2>3, <3>1, <3>2 DEF CaseInv, HandlerFits, Fresh
      <3> QED BY <2>1, <3>1, <3>2, <3>3, MemoryStep DEF CaseInv, CaseTypeOK
    <2> QED BY <1>2, <2>2, <2>3 DEF Look
  <1>3. ASSUME NEW c \in Ids, Insert(h, c) PROVE CaseInv'
    <2>1. /\ step[h] = "insert" /\ c \notin Live /\ Finish(h)
          /\ UNCHANGED <<table, aged, tier, decided, contended>>
          /\ rows' = IF IndexAllows(form[h].owner) THEN [rows EXCEPT ![c] = form[h]] ELSE rows
      BY <1>3 DEF Insert
    <2>2. /\ MemoryTyped' /\ \A g \in Handlers \ {h} : SameMemory(g)
          /\ HandlerFits(h)' /\ \A d \in Ids : ~Holds(h, d)'
      BY <2>1, FinishStep
    <2>3. CASE ~IndexAllows(form[h].owner)
      BY <2>1, <2>2, <2>3, MemoryStep DEF CaseInv, CaseTypeOK
    <2>4. CASE IndexAllows(form[h].owner)
      <3>1. /\ form[h] \in Row /\ form[h].status = Fresh(table) /\ form[h] # Nobody
            /\ rows \in [Ids -> Row \cup {Nobody}]
        BY <2>1, CasesAssumption DEF CaseInv, HandlerFits, CaseTypeOK
      <3>2. /\ rows' \in [Ids -> Row \cup {Nobody}] /\ rows'[c] = form[h]
            /\ \A d \in Ids \ {c} : rows'[d] = rows[d]
        BY <2>1, <2>4, <3>1
      <3>3. Live' = Live \cup {c} /\ \A d \in Live : d \in Ids \ {c}
        BY <2>1, <3>1, <3>2 DEF Live
      <3>4. \A g \in Handlers, d \in Ids : Holds(g, d) => rows'[d] = rows[d]
        BY <3>2, <2>1 DEF CaseInv, CaseTypeOK
      <3>5. /\ \A g \in Handlers : HandlerFits(g)'
            /\ HeldAlone'
            /\ \A g \in Handlers, d \in Ids : Holds(g, d)' => d \in Live'
        BY <2>1, <2>2, <3>3, <3>4, HandlerStep
      <3>6. Fresh(table) \in Statuses(table)
        BY <1>0 DEF Fresh, Statuses, AllTables, DisputeStatus, KycDocumentStatus, KycTierUpgradeStatus,
               SupportTicketStatus, FreezeActive, DeactivationActive
      <3>7. \A d \in Live' : rows'[d].status \in Statuses(table)
        BY <3>1, <3>2, <3>3, <3>6 DEF CaseInv, CaseTypeOK
      <3>8. CaseTypeOK'
        BY <2>1, <2>2, <3>2, <3>3, <3>5, <3>7 DEF CaseInv, CaseTypeOK, MemoryTyped
      <3>9. OnePendingDocument'
        <4> SUFFICES ASSUME table = "kyc_documents", NEW u \in Owners, NEW a \in OpenCases(u)',
                            NEW b \in OpenCases(u)'
                     PROVE  a = b
          BY <2>1 DEF OnePendingDocument
        <4>1. \A d \in OpenCases(u)' : d = c \/ d \in OpenCases(u)
          BY <2>1, <3>2, <3>3 DEF OpenCases
        <4>2. c \in OpenCases(u)' => OpenCases(u) = {}
          BY <2>4, <3>2 DEF OpenCases, IndexAllows
        <4> QED BY <4>1, <4>2 DEF CaseInv, OnePendingDocument
      <3>10. TierWasApproved'
        BY <2>1, <3>2, <3>3 DEF CaseInv, TierWasApproved
      <3>11. SignedUnlessContended'
        <4>1. table \in {"kyc_documents", "kyc_tier_upgrades"} => rows'[c].status = "pending"
          BY <3>1, <3>2 DEF Fresh
        <4> QED BY <2>1, <3>2, <3>3, <4>1 DEF CaseInv, SignedUnlessContended
      <3> QED BY <3>5, <3>8, <3>9, <3>10, <3>11 DEF CaseInv
    <2> QED BY <2>3, <2>4
  <1> QED BY <1>1, <1>2, <1>3

(* Loading and comparing. *)
LEMMA LoadSteps ==
    ASSUME CaseInv, NEW h \in Handlers,
           \/ \E c \in Live : \E e \in Edits(rows[c], h) : Load(h, c, e)
           \/ autoCloseStaleDisputes(h) \/ \E c \in Ids : Compare(h, c)
    PROVE  CaseInv'
  <1>0. /\ table \in AllTables /\ contended \subseteq Live
        /\ \A c \in Live : c \in Ids /\ rows[c] \in Row /\ rows[c].status \in Statuses(table)
    BY CasesAssumption DEF CaseInv, CaseTypeOK, Live
  <1>1. ASSUME NEW c \in Live, NEW e \in Edits(rows[c], h), Load(h, c, e) PROVE CaseInv'
    <2>1. /\ e \in Row /\ e # Nobody /\ Edited(e, h) /\ c \in Ids
          /\ table = "disputes" => e.status \in Settled \/ rows[c].status \notin Settled
      BY <1>0, EditsFit, CasesAssumption
    <2> DEFINE l == [Nothing EXCEPT ![c] = e]
    <2>2. /\ l \in [Ids -> Row \cup {Nobody}] /\ l[c] = e /\ \A d \in Ids \ {c} : l[d] = Nobody
      BY <2>1 DEF Nothing
    <2> HIDE DEF l
    <2>3. /\ step' = [step EXCEPT ![h] = "save"] /\ loaded' = [loaded EXCEPT ![h] = l]
          /\ contended' = contended \cup Contenders(h, {c})
          /\ UNCHANGED <<table, rows, aged, tier, form, dirty, grant, decided>>
      BY <1>1 DEF Load, l
    <2>4. /\ step'[h] = "save" /\ loaded'[h] = l /\ \A g \in Handlers \ {h} : SameMemory(g)
          /\ MemoryTyped'
      BY <2>2, <2>3 DEF CaseInv, CaseTypeOK, MemoryTyped, SameMemory
    <2>5. \A d \in Ids : Holds(h, d)' => d = c
      BY <2>2, <2>4 DEF Holds
    <2>6. HandlerFits(h)'
      <3>1. Edited(loaded[h][c], h)' /\ Unchanged(h, c)'
        BY <2>1, <2>2, <2>3, <2>4 DEF Edited, Unchanged, Settled
      <3> QED BY <2>4, <2>5, <3>1 DEF HandlerFits
    <2>7. /\ contended \subseteq contended' /\ contended' \subseteq Live
          /\ \A g \in Handlers \ {h} : Holds(g, c) => c \in contended'
      BY <1>0, <2>3 DEF Contenders
    <2> QED BY <2>3, <2>4, <2>5, <2>6, <2>7, MemoryStep
  <1>2. CASE autoCloseStaleDisputes(h)
    <2> DEFINE l == [c \in Ids |-> IF c \in Stale
                                   THEN [rows[c] EXCEPT !.status = "resolved", !.by = h]
                                   ELSE Nobody]
    <2>1. /\ table = "disputes" /\ Stale \subseteq Live
          /\ step' = [step EXCEPT ![h] = "save"] /\ loaded' = [loaded EXCEPT ![h] = l]
          /\ contended' = contended \cup Contenders(h, Stale)
          /\ UNCHANGED <<table, rows, aged, tier, form, dirty, grant, decided>>
      BY <1>2 DEF autoCloseStaleDisputes, Stale, CaseInv, CaseTypeOK
    <2>2. ASSUME NEW c \in Ids
          PROVE  /\ c \notin Stale => l[c] = Nobody
                 /\ c \in Stale => l[c] \in Row /\ l[c].status = "resolved"
      <3>1. CASE c \notin Stale
        BY <3>1
      <3>2. CASE c \in Stale
        <4>1. rows[c] \in Row
          BY <1>0, <2>1, <3>2
        <4>2. "resolved" \in UNION {Statuses(t) : t \in AllTables}
          BY StatusesAreStatuses DEF Statuses, AllTables, DisputeStatus
        <4> DEFINE z == [rows[c] EXCEPT !.status = "resolved"]
        <4>3. z \in Row /\ z.status = "resolved"
          BY <4>1, <4>2 DEF Row
        <4>4. l[c] = [z EXCEPT !.by = h]
          BY <3>2, <4>1 DEF Row
        <4> HIDE DEF z, l
        <4>5. l[c] \in Row /\ l[c].status = "resolved"
          BY <4>3, <4>4 DEF Row
        <4> QED BY <3>2, <4>5
      <3> QED BY <3>1, <3>2
    <2>3. l \in [Ids -> Row \cup {Nobody}]
      BY <2>2
    <2> HIDE DEF l
    <2>4. /\ step'[h] = "save" /\ loaded'[h] = l /\ \A g \in Handlers \ {h} : SameMemory(g)
          /\ MemoryTyped'
      BY <2>1, <2>3 DEF CaseInv, CaseTypeOK, MemoryTyped, SameMemory
    <2>5. \A c \in Ids : Holds(h, c)' => c \in Stale
      BY <2>2, <2>4 DEF Holds
    <2>6. HandlerFits(h)'
      <3>1. ASSUME NEW c \in Ids, c \in Stale PROVE Edited(loaded[h][c], h)' /\ Unchanged(h, c)'
        <4>1. loaded'[h][c].status = "resolved"
          BY <2>2, <2>4, <3>1
        <4> QED BY <2>1, <2>4, <4>1 DEF Edited, Unchanged, Settled, Statuses, DisputeStatus
      <3> QED BY <2>4, <2>5, <3>1 DEF HandlerFits
    <2>7. /\ contended \subseteq contended' /\ contended' \subseteq Live
          /\ \A g \in Handlers \ {h}, c \in Stale : Holds(g, c) => c \in contended'
      BY <1>0, <2>1 DEF Contenders
    <2> QED BY <2>1, <2>4, <2>5, <2>6, <2>7, MemoryStep
  <1>3. ASSUME NEW c \in Ids, Compare(h, c) PROVE CaseInv'
    <2> DEFINE D == {f \in Columns : rows[c][f] # loaded[h][c][f]}
    <2>1. /\ step[h] = "save" /\ loaded[h][c] # Nobody
          /\ step' = [step EXCEPT ![h] = "update"] /\ dirty' = [dirty EXCEPT ![h] = <<c, D>>]
          /\ UNCHANGED <<table, rows, aged, tier, form, loaded, grant, decided, contended>>
      BY <1>3 DEF Compare
    <2>2. /\ D \in SUBSET Columns
          /\ "status" \notin D => rows[c].status = loaded[h][c].status
          /\ "by" \notin D => rows[c].by = loaded[h][c].by
      BY DEF Columns
    <2> HIDE DEF D
    <2>3. /\ step'[h] = "update" /\ dirty'[h] = <<c, D>> /\ loaded'[h] = loaded[h]
          /\ \A g \in Handlers \ {h} : SameMemory(g) /\ MemoryTyped'
      BY <2>1, <2>2 DEF CaseInv, CaseTypeOK, MemoryTyped, SameMemory
    <2>4. MemoryTyped'
      BY <2>1, <2>2 DEF CaseInv, CaseTypeOK, MemoryTyped
    <2>5. \A d \in Ids : Holds(h, d)' <=> Holds(h, d)
      BY <2>1, <2>3 DEF Holds
    <2>6. HandlerFits(h)'
      <3>1. ASSUME NEW d \in Ids, Holds(h, d)
            PROVE  Edited(loaded[h][d], h)' /\ (d \notin contended' => Unchanged(h, d)')
        <4>1. Edited(loaded[h][d], h) /\ (d \notin contended => Unchanged(h, d))
          BY <3>1 DEF CaseInv, HandlerFits
        <4>2. dirty'[h][1] = c /\ dirty'[h][2] = D
          BY <2>3
        <4>3. Edited(loaded[h][d], h)'
          BY <2>1, <2>3, <4>1 DEF Edited, Settled
        <4>4. ASSUME d \notin contended' PROVE Unchanged(h, d)'
          <5>1. table = "disputes" => loaded[h][d].status \in Settled \/ rows[d].status \notin Settled
            BY <2>1, <4>1, <4>4 DEF Unchanged
          <5> QED BY <2>1, <2>2, <4>2, <5>1 DEF Unchanged, Settled
        <4> QED BY <4>3, <4>4
      <3>2. step'[h] = "update" /\ dirty'[h][1] = c /\ loaded'[h][c] # Nobody
        BY <2>1, <2>3
      <3> QED BY <2>5, <3>1, <3>2 DEF HandlerFits
    <2>7. contended' = contended /\ \A d \in Ids : Holds(h, d) => d \in Live
      BY <2>1 DEF CaseInv, CaseTypeOK
    <2>8. \A g \in Handlers \ {h}, d \in Ids : Holds(h, d)' /\ Holds(g, d) => d \in contended'
      BY <2>5, <2>7 DEF CaseInv, HeldAlone
    <2> QED BY <1>0, <2>1, <2>3, <2>4, <2>5, <2>6, <2>7, <2>8, MemoryStep
  <1> QED BY <1>1, <1>2, <1>3

(* What an UPDATE leaves: in each column the row's value or the entity's,  *)
(* and the entity's in a case that nobody else holds.                      *)
LEMMA UpdateWrites ==
    ASSUME CaseInv, NEW h \in Handlers, Update(h)
    PROVE  LET c == dirty[h][1]
               e == loaded[h][c]
           IN  /\ c \in Live /\ c \in Ids /\ Holds(h, c) /\ e \in Row /\ Edited(e, h)
               /\ rows' \in [Ids -> Row \cup {Nobody}] /\ rows'[c] \in Row
               /\ \A d \in Ids \ {c} : rows'[d] = rows[d]
               /\ rows'[c].owner = rows[c].owner /\ rows'[c].want = rows[c].want
               /\ rows'[c].status \in {rows[c].status, e.status}
               /\ c \notin contended => rows'[c].status = e.status /\ rows'[c].by = e.by
               /\ Live' = Live
  <1> DEFINE c == dirty[h][1]
             e == loaded[h][c]
             s == IF "status" \in dirty[h][2] THEN e.status ELSE rows[c].status
             b == IF "by" \in dirty[h][2] THEN e.by ELSE rows[c].by
             l == IF "level" \in dirty[h][2] THEN e.level ELSE rows[c].level
             r == [status |-> s, by |-> b, level |-> l, owner |-> rows[c].owner, want |-> rows[c].want]
  <1>1. step[h] = "update"
    BY DEF Update
  <1>2. c \in Ids /\ e # Nobody /\ Holds(h, c)
    BY <1>1 DEF CaseInv, HandlerFits, Holds
  <1>3. /\ c \in Live /\ rows[c] \in Row /\ e \in Row /\ Edited(e, h)
        /\ c \notin contended => Unchanged(h, c)
    BY <1>2, CasesAssumption DEF CaseInv, CaseTypeOK, Live, HandlerFits
  <1>4. /\ s \in UNION {Statuses(t) : t \in AllTables} /\ b \in Handlers \cup {Nobody}
        /\ l \in 1..MaxLevel /\ rows[c].owner \in Owners /\ rows[c].want \in TIER_LEVELS
    BY <1>3 DEF Row
  <1>5. rows' = [rows EXCEPT ![c] = r]
    <2>1. rows' = [rows EXCEPT ![c] = [rows[c] EXCEPT !.status = s, !.by = b, !.level = l]]
      BY DEF Update
    <2>2. rows[c] = [status |-> rows[c].status, by |-> rows[c].by, level |-> rows[c].level,
                     owner |-> rows[c].owner, want |-> rows[c].want]
      BY <1>3 DEF Row
    <2>3. PICK x : x = [rows[c] EXCEPT !.status = s, !.by = b, !.level = l]
      OBVIOUS
    <2>4. x = r
      BY <2>2, <2>3
    <2> QED BY <2>1, <2>3, <2>4
  <1>6. s \in {rows[c].status, e.status} /\ (c \notin contended => s = e.status /\ b = e.by)
    BY <1>1, <1>3 DEF Unchanged
  <1> HIDE DEF s, b, l, c, e
  <1>7. /\ r \in Row /\ r.status = s /\ r.by = b /\ r.owner = rows[c].owner /\ r.want = rows[c].want
    BY <1>4 DEF Row
  <1> HIDE DEF r
  <1>8. /\ rows' \in [Ids -> Row \cup {Nobody}] /\ rows'[c] = r
        /\ \A d \in Ids \ {c} : rows'[d] = rows[d]
    BY <1>2, <1>5, <1>7 DEF CaseInv, CaseTypeOK
  <1>9. Live' = Live
    BY <1>3, <1>7, <1>8, CasesAssumption DEF Live
  <1> QED BY <1>2, <1>3, <1>6, <1>7, <1>8, <1>9 DEF c, e

(* Updating. *)
LEMMA UpdateStep ==
    ASSUME CaseInv, NEW h \in Handlers, Update(h) PROVE CaseInv'
  <1> DEFINE c == dirty[h][1]
             e == loaded[h][c]
             rest == [loaded[h] EXCEPT ![c] = Nobody]
  <1>1. /\ c \in Live /\ c \in Ids /\ Holds(h, c) /\ e \in Row /\ Edited(e, h)
        /\ rows' \in [Ids -> Row \cup {Nobody}] /\ rows'[c] \in Row
        /\ \A d \in Ids \ {c} : rows'[d] = rows[d]
        /\ rows'[c].owner = rows[c].owner /\ rows'[c].want = rows[c].want
        /\ rows'[c].status \in {rows[c].status, e.status}
        /\ c \notin contended => rows'[c].status = e.status /\ rows'[c].by = e.by
        /\ Live' = Live
    BY UpdateWrites
  <1>2. /\ UNCHANGED <<table, aged, tier, contended>>
        /\ decided' = decided \cup Verdicts(c, h, e)
        /\ step[h] = "update"
    BY DEF Update
  <1>3. /\ rest \in [Ids -> Row \cup {Nobody}] /\ rest[c] = Nobody
        /\ \A d \in Ids \ {c} : rest[d] = loaded[h][d]
    BY <1>1 DEF CaseInv, CaseTypeOK
  <1>4. /\ MemoryTyped' /\ \A g \in Handlers \ {h} : SameMemory(g)
        /\ step'[h] \in {"idle", "save", "grant"}
        /\ step'[h] = "save" => loaded'[h] = rest
        /\ step'[h] = "grant" => grant'[h] = c /\ GrantsTier(e)
    <2>1. CASE Finish(h)
      BY <2>1, FinishStep
    <2>2. CASE /\ loaded' = [loaded EXCEPT ![h] = rest]
               /\ dirty' = [dirty EXCEPT ![h] = Clean]
               /\ grant' = [grant EXCEPT ![h] = IF GrantsTier(e) THEN c ELSE Nobody]
               /\ step' = [step EXCEPT ![h] = IF GrantsTier(e) THEN "grant" ELSE "save"]
               /\ UNCHANGED form
      <3> HIDE DEF rest, e, c
      <3>1. Clean \in (Ids \cup {Nobody}) \X SUBSET Columns
        BY DEF Clean
      <3> QED BY <1>1, <1>3, <2>2, <3>1 DEF CaseInv, CaseTypeOK, MemoryTyped, SameMemory
    <2> QED BY <2>1, <2>2 DEF Update
  <1> HIDE DEF rest, e, c
  <1>5. \A d \in Ids : Holds(h, d)' => /\ d # c /\ step'[h] = "save" /\ loaded'[h][d] = loaded[h][d]
                                       /\ Holds(h, d)
    BY <1>2, <1>3, <1>4 DEF Holds
  <1>6. HandlerFits(h)'
    <2>1. ASSUME NEW d \in Ids, Holds(h, d)'
          PROVE  Edited(loaded[h][d], h)' /\ (d \notin contended' => Unchanged(h, d)')
      <3>1. /\ Holds(h, d) /\ Edited(loaded[h][d], h) /\ (d \notin contended => Unchanged(h, d))
            /\ loaded'[h][d] = loaded[h][d] /\ rows'[d] = rows[d] /\ step'[h] = "save"
        BY <1>1, <1>5, <2>1 DEF CaseInv, HandlerFits
      <3>2. Edited(loaded[h][d], h)'
        BY <1>2, <3>1 DEF Edited, Settled
      <3>3. d \notin contended' => Unchanged(h, d)'
        BY <1>2, <3>1 DEF Unchanged, Settled
      <3> QED BY <3>2, <3>3
    <2>2. step'[h] = "grant" => /\ grant'[h] \in Live'
                                /\ \E g \in Handlers : <<grant'[h], g, "approved">> \in decided'
      <3>1. GrantsTier(e) => <<c, h, "approved">> \in decided'
        BY <1>2 DEF GrantsTier, Verdicts
      <3> QED BY <1>1, <1>4, <3>1
    <2> QED BY <1>4, <2>1, <2>2 DEF HandlerFits
  <1>7. \A g \in Handlers \ {h}, d \in Ids : Holds(g, d) /\ d \notin contended => rows'[d] = rows[d]
    BY <1>1 DEF CaseInv, HeldAlone
  <1>8. \A d \in Ids : Holds(h, d)' => d \in Live'
    BY <1>1, <1>5 DEF CaseInv, CaseTypeOK
  <1>9. \A g \in Handlers \ {h}, d \in Ids : Holds(h, d)' /\ Holds(g, d) => d \in contended'
    BY <1>2, <1>5 DEF CaseInv, HeldAlone
  <1>10. /\ \A g \in Handlers : HandlerFits(g)'
         /\ HeldAlone'
         /\ \A g \in Handlers, d \in Ids : Holds(g, d)' => d \in Live'
    BY <1>1, <1>2, <1>4, <1>6, <1>7, <1>8, <1>9, HandlerStep
  <1>11. \A d \in Live' : rows'[d].status \in Statuses(table)
    BY <1>1 DEF CaseInv, CaseTypeOK, Edited, Live
  <1>12. CaseTypeOK'
    BY <1>1, <1>2, <1>4, <1>10, <1>11 DEF CaseInv, CaseTypeOK, MemoryTyped
  <1>13. OnePendingDocument'
    <2> SUFFICES ASSUME table = "kyc_documents" PROVE \A u \in Owners : OpenCases(u)' \subseteq OpenCases(u)
      BY <1>2 DEF CaseInv, OnePendingDocument
    <2>1. e.status # "pending" /\ Fresh(table) = "pending"
      BY <1>1 DEF Edited, Settled, Fresh
    <2> QED BY <1>1, <1>2, <2>1 DEF OpenCases, Live
  <1>14. TierWasApproved'
    <2>1. \A d \in Live : rows'[d].owner = rows[d].owner /\ rows'[d].want = rows[d].want
      BY <1>1 DEF Live
    <2> QED BY <1>1, <1>2, <2>1 DEF CaseInv, TierWasApproved
  <1>15. SignedUnlessContended'
    <2> SUFFICES ASSUME table \in {"kyc_documents", "kyc_tier_upgrades"}, NEW d \in Live \ contended,
                        rows'[d].status \in {"approved", "rejected"}
                 PROVE  <<d, rows'[d].by, rows'[d].status>> \in decided'
      BY <1>1, <1>2 DEF SignedUnlessContended
    <2>1. CASE d = c
      BY <1>1, <1>2, <2>1 DEF Edited, Verdicts
    <2>2. CASE d # c
      BY <1>1, <1>2, <2>2 DEF CaseInv, SignedUnlessContended, Live
    <2> QED BY <2>1, <2>2
  <1> QED BY <1>10, <1>12, <1>13, <1>14, <1>15 DEF CaseInv

(* Every step preserves the invariant. *)
LEMMA CaseInvStep == CaseInv /\ [CaseNext]_caseVars => CaseInv'
  <1> SUFFICES ASSUME CaseInv, [CaseNext]_caseVars PROVE CaseInv'
    OBVIOUS
  <1>1. ASSUME NEW h \in Handlers, GrantTier(h) PROVE CaseInv'
    <2> DEFINE c == grant[h]
    <2>1. /\ step[h] = "grant" /\ Finish(h) /\ UNCHANGED <<table, rows, aged, decided, contended>>
          /\ tier' = [tier EXCEPT ![rows[c].owner] = rows[c].want]
      BY <1>1 DEF GrantTier
    <2>2. /\ c \in Live /\ \E g \in Handlers : <<c, g, "approved">> \in decided
      BY <2>1 DEF CaseInv, HandlerFits
    <2>3. rows[c].owner \in Owners /\ rows[c].want \in TIER_LEVELS
      BY <2>2 DEF CaseInv, CaseTypeOK, Live, Row
    <2>4. /\ MemoryTyped' /\ \A g \in Handlers \ {h} : SameMemory(g)
          /\ HandlerFits(h)' /\ \A d \in Ids : ~Holds(h, d)'
      BY <2>1, FinishStep
    <2>5. Live' = Live
      BY <2>1 DEF Live
    <2>6. /\ \A g \in Handlers : HandlerFits(g)'
          /\ HeldAlone'
          /\ \A g \in Handlers, d \in Ids : Holds(g, d)' => d \in Live'
      BY <2>1, <2>4, <2>5, HandlerStep
    <2>7. /\ tier' \in [Owners -> TIER_LEVELS] /\ tier'[rows[c].owner] = rows[c].want
          /\ \A u \in Owners \ {rows[c].owner} : tier'[u] = tier[u]
      BY <2>1, <2>3 DEF CaseInv, CaseTypeOK
    <2>8. CaseTypeOK'
      BY <2>1, <2>4, <2>5, <2>6, <2>7 DEF CaseInv, CaseTypeOK, MemoryTyped
    <2>9. OnePendingDocument' /\ SignedUnlessContended'
      BY <2>1, <2>5 DEF CaseInv, OnePendingDocument, OpenCases, SignedUnlessContended
    <2>10. TierWasApproved'
      <3> SUFFICES ASSUME NEW u \in Owners, tier'[u] # 0
                   PROVE  \E d \in Live, g \in Handlers : /\ rows[d].owner = u /\ rows[d].want = tier'[u]
                                                          /\ <<d, g, "approved">> \in decided
        BY <2>1, <2>5 DEF TierWasApproved
      <3>1. CASE u = rows[c].owner
        BY <2>2, <2>7, <3>1
      <3>2. CASE u # rows[c].owner
        BY <2>7, <3>2 DEF CaseInv, TierWasApproved
      <3> QED BY <3>1, <3>2
    <2> QED BY <2>6, <2>8, <2>9, <2>10 DEF CaseInv
  <1>2. ASSUME NEW h \in Handlers, Drop(h) PROVE CaseInv'
    <2>1. /\ MemoryTyped' /\ \A g \in Handlers \ {h} : SameMemory(g)
          /\ HandlerFits(h)' /\ \A c \in Ids : ~Holds(h, c)'
      BY <1>2, FinishStep DEF Drop
    <2> QED BY <1>2, <2>1, MemoryStep DEF Drop, CaseInv, CaseTypeOK
  <1>3. ASSUME UNCHANGED <<table, rows, tier, memory, decided, contended>>, aged' \subseteq Live
        PROVE  CaseInv'
    <2>1. Live' = Live /\ \A h \in Handlers, c \in Ids : Holds(h, c)' <=> Holds(h, c)
      BY <1>3 DEF Live, Holds, memory
    <2>2. CaseTypeOK'
      BY <1>3, <2>1 DEF memory, CaseInv, CaseTypeOK
    <2>3. ASSUME NEW h \in Handlers PROVE HandlerFits(h)'
      BY <1>3, <2>1 DEF memory, CaseInv, HandlerFits, Edited, Unchanged, Settled, Fresh
    <2>4. HeldAlone' /\ OnePendingDocument' /\ TierWasApproved' /\ SignedUnlessContended'
      BY <1>3, <2>1 DEF memory, CaseInv, HeldAlone, OnePendingDocument, OpenCases, TierWasApproved,
                        SignedUnlessContended
    <2> QED BY <2>2, <2>3, <2>4 DEF CaseInv
  <1>4. ASSUME NEW c \in Ids, Age(c) PROVE CaseInv'
    BY <1>3, <1>4 DEF Age, CaseInv, CaseTypeOK
  <1>5. CASE UNCHANGED caseVars
    BY <1>3, <1>5 DEF caseVars, CaseInv, CaseTypeOK
  <1> QED BY <1>1, <1>2, <1>4, <1>5, OpenSteps, LoadSteps, UpdateStep DEF CaseNext

(* However requests overlap on a case: a user has one pending document,    *)
(* a tier that was approved, and decisions signed by who took them, unless *)
(* two handlers had the case loaded at once.                               *)
THEOREM CasesSound == CaseSpec => []CasesAreSound
  <1>1. CaseInv => CasesAreSound
    BY DEF CaseInv, CasesAreSound
  <1> QED BY <1>1, CaseInvInit, CaseInvStep, PTL DEF CaseSpec

(* A settled case stays settled, whatever stale entities are saved over    *)
(* it; a closed dispute unless two handlers had it loaded at once.         *)
THEOREM SettledForGood == CaseSpec => SettledStaysSettled
  <1> DEFINE Stays == \A c \in Live : (/\ rows[c].status \in Settled
                                       /\ table = "disputes" => c \notin contended')
                                      => rows'[c].status \in Settled
  <1>1. CaseInv /\ [CaseNext]_caseVars => [Stays]_caseVars
    <2> SUFFICES ASSUME CaseInv, CaseNext, NEW c \in Live, rows[c].status \in Settled,
                        table = "disputes" => c \notin contended'
                 PROVE  rows'[c].status \in Settled
      OBVIOUS
    <2>1. ASSUME NEW h \in Handlers, Update(h) PROVE rows'[c].status \in Settled
      <3>1. CASE c # dirty[h][1]
        BY <2>1, <3>1, UpdateWrites DEF Live
      <3>2. CASE c = dirty[h][1]
        <4>1. /\ Holds(h, c) /\ Edited(loaded[h][c], h) /\ c \in Ids
              /\ rows'[c].status \in {rows[c].status, loaded[h][c].status}
          BY <2>1, <3>2, UpdateWrites
        <4>2. table = "disputes" => Unchanged(h, c)
          BY <2>1, <4>1 DEF CaseInv, HandlerFits, Update
        <4>3. table # "support_tickets"
          BY DEF Settled
        <4> QED BY <4>1, <4>2, <4>3 DEF Edited, Unchanged
      <3> QED BY <3>1, <3>2
    <2>2. ASSUME NEW h \in Handlers, NEW d \in Ids, Insert(h, d) PROVE rows'[c].status \in Settled
      <3>1. rows'[c] = rows[c]
        BY <2>2 DEF Insert, Live, CaseInv, CaseTypeOK
      <3> QED BY <3>1
    <2>3. CASE UNCHANGED rows
      BY <2>3
    <2> QED BY <2>1, <2>2, <2>3
            DEF CaseNext, Open, Look, Compare, Load, autoCloseStaleDisputes, GrantTier, Drop, Age
  <1> QED BY <1>1, CaseInvInit, CaseInvStep, PTL DEF CaseSpec, SettledStaysSettled

----------------------------------------------------------------------------
(* Bulk payments. *)

(* The counts kept in local variables are those of the item rows. *)
CountsKept == /\ successCount = Cardinality(With("success"))
              /\ failCount = Cardinality(With("failed"))

(* What is behind the loop is settled, what is before it untouched. *)
LoopSplits ==
    /\ work \in {"none", "items"} => \A i \in Items : item[i] = "none" /\ payments[i] = 0
    /\ work = "scheduled" => \A i \in Items : item[i] = "pending" /\ payments[i] = 0
    /\ work \in {"loop", "mark", "catch"} =>
            \A i \in todo : item[i] = "pending" /\ payments[i] = 0
    /\ work = "loop" => \A i \in Items \ todo : item[i] \in {"success", "failed"}
    /\ work \in {"mark", "catch"} =>
            \E i \in Items \ todo :
                /\ current = {i} /\ item[i] = "pending"
                /\ payments[i] <= 1 /\ (work = "mark" => payments[i] = 1)
                /\ \A j \in Items \ (todo \cup {i}) : item[j] \in {"success", "failed"}

BulkInv == /\ BulkTypeOK /\ CountsKept /\ LoopSplits /\ VerdictIsHonest
           /\ bulk.status \in Final => work = "done"

(* The item rows of a status are finitely many. *)
LEMMA WithFinite == \A s : IsFiniteSet(With(s)) /\ Cardinality(With(s)) \in Nat
  <1> TAKE s
  <1>1. IsFiniteSet(With(s))
    BY BulkAssumption, FS_Subset DEF With
  <1> QED BY <1>1, FS_CardinalityType

(* An item that was pending gets the status s. *)
LEMMA MarkStep ==
    ASSUME BulkTypeOK, NEW i \in Items, item[i] = "pending", NEW s \in {"success", "failed"},
           item' = [item EXCEPT ![i] = s]
    PROVE  /\ item' \in [Items -> {"none", "pending", "success", "failed"}]
           /\ item'[i] = s /\ \A j \in Items \ {i} : item'[j] = item[j]
           /\ Cardinality(With(s))' = Cardinality(With(s)) + 1
           /\ \A t \in {"success", "failed"} \ {s} : Cardinality(With(t))' = Cardinality(With(t))
  <1> USE DEF BulkTypeOK
  <1>1. /\ item' \in [Items -> {"none", "pending", "success", "failed"}]
        /\ item'[i] = s /\ \A j \in Items \ {i} : item'[j] = item[j]
    OBVIOUS
  <1>2. With(s)' = With(s) \cup {i} /\ i \notin With(s)
    BY <1>1 DEF With
  <1>3. Cardinality(With(s) \cup {i}) = Cardinality(With(s)) + 1
    BY <1>2, WithFinite, FS_AddElement
  <1>4. \A t \in {"success", "failed"} \ {s} : With(t)' = With(t)
    BY <1>1 DEF With
  <1> QED BY <1>1, <1>2, <1>3, <1>4

(* The inductive invariant of a bulk payment holds initially. *)
LEMMA BulkInvInit == BulkInit => BulkInv
  <1> SUFFICES ASSUME BulkInit PROVE BulkInv
    OBVIOUS
  <1> USE DEF BulkInit
  <1>1. BulkTypeOK /\ LoopSplits /\ bulk.status \notin Final
    BY DEF BulkTypeOK, LoopSplits, Final
  <1>2. With("success") = {} /\ With("failed") = {}
    BY DEF With
  <1>3. CountsKept
    BY <1>2, FS_EmptySet DEF CountsKept
  <1>4. VerdictIsHonest
    BY <1>1 DEF VerdictIsHonest
  <1> QED BY <1>1, <1>3, <1>4 DEF BulkInv

(* Every step preserves it. *)
LEMMA BulkInvStep == BulkInv /\ [BulkNext]_bulkVars => BulkInv'
  <1> SUFFICES ASSUME BulkInv, [BulkNext]_bulkVars PROVE BulkInv'
    OBVIOUS
  <1> USE DEF BulkInv
  <1>1. CASE create
    <2>1. /\ work = "none" /\ work' = "items"
          /\ UNCHANGED <<item, payments, todo, current, successCount, failCount>>
          /\ bulk' = [bulk EXCEPT !.status = "pending"]
      BY <1>1 DEF create, local
    <2>2. bulk' \in [status : {"none", "pending", "processing"} \cup Final,
                     successCount : Nat, failCount : Nat] /\ bulk'.status \notin Final
      BY <2>1 DEF BulkTypeOK, Final
    <2>3. BulkTypeOK' /\ CountsKept'
      BY <2>1, <2>2 DEF BulkTypeOK, CountsKept, With
    <2>4. LoopSplits' /\ VerdictIsHonest'
      BY <2>1, <2>2 DEF LoopSplits, VerdictIsHonest
    <2> QED BY <2>2, <2>3, <2>4
  <1>2. CASE createItems
    <2>1. /\ work = "items" /\ work' = "scheduled" /\ item' = [i \in Items |-> "pending"]
          /\ UNCHANGED <<bulk, payments, todo, current, successCount, failCount>>
      BY <1>2 DEF createItems, local
    <2>2. \A s \in {"success", "failed"} : With(s) = {} /\ With(s)' = {}
      BY <2>1 DEF With, LoopSplits
    <2>3. BulkTypeOK' /\ CountsKept'
      BY <2>1, <2>2 DEF BulkTypeOK, CountsKept
    <2>4. LoopSplits' /\ VerdictIsHonest'
      BY <2>1 DEF LoopSplits, VerdictIsHonest
    <2> QED BY <2>1, <2>3, <2>4
  <1>3. CASE processBulkPayment
    <2>1. /\ work = "scheduled" /\ work' = "loop" /\ todo' = Items
          /\ UNCHANGED <<item, payments, current, successCount, failCount>>
          /\ bulk' = [bulk EXCEPT !.status = "processing"]
      BY <1>3 DEF processBulkPayment
    <2>2. bulk' \in [status : {"none", "pending", "processing"} \cup Final,
                     successCount : Nat, failCount : Nat] /\ bulk'.status \notin Final
      BY <2>1 DEF BulkTypeOK, Final
    <2>3. BulkTypeOK' /\ CountsKept'
      BY <2>1, <2>2 DEF BulkTypeOK, CountsKept, With
    <2>4. LoopSplits' /\ VerdictIsHonest'
      BY <2>1, <2>2 DEF LoopSplits, VerdictIsHonest
    <2> QED BY <2>2, <2>3, <2>4
  <1>4. ASSUME NEW i \in Items, PayItem(i) PROVE BulkInv'
    <2>1. /\ work = "loop" /\ i \in todo /\ todo' = todo \ {i} /\ current' = {i}
          /\ UNCHANGED <<bulk, item, successCount, failCount>>
          /\ \/ work' = "mark" /\ payments' = [payments EXCEPT ![i] = @ + 1]
             \/ work' = "catch" /\ UNCHANGED payments
      BY <1>4 DEF PayItem
    <2>2. item[i] = "pending" /\ payments[i] = 0
      BY <2>1 DEF LoopSplits
    <2>3. /\ payments' \in [Items -> Nat] /\ \A j \in Items \ {i} : payments'[j] = payments[j]
          /\ payments'[i] \in 0..1 /\ (work' = "mark" => payments'[i] = 1)
      BY <2>1, <2>2 DEF BulkTypeOK
    <2>4. BulkTypeOK' /\ CountsKept'
      BY <2>1, <2>3 DEF BulkTypeOK, CountsKept, With
    <2>5. LoopSplits'
      <3>1. \A j \in todo' : item'[j] = "pending" /\ payments'[j] = 0
        BY <2>1, <2>3 DEF LoopSplits, BulkTypeOK
      <3>2. /\ i \in Items \ todo' /\ current' = {i} /\ item'[i] = "pending"
            /\ payments'[i] <= 1 /\ (work' = "mark" => payments'[i] = 1)
            /\ \A j \in Items \ (todo' \cup {i}) : item'[j] \in {"success", "failed"}
        BY <2>1, <2>2, <2>3 DEF LoopSplits
      <3>3. work' \in {"mark", "catch"}
        BY <2>1
      <3> QED BY <3>1, <3>2, <3>3 DEF LoopSplits
    <2>6. VerdictIsHonest' /\ bulk'.status \notin Final
      BY <2>1, <2>2, <2>3 DEF VerdictIsHonest
    <2> QED BY <2>4, <2>5, <2>6
  <1>5. ASSUME NEW i \in Items, MarkSuccess(i) \/ MarkFailed(i) PROVE BulkInv'
    <2>1. PICK s \in {"success", "failed"} :
            /\ item' = [item EXCEPT ![i] = s] /\ i \in current
            /\ work \in {"mark", "catch"} /\ work' = "loop" /\ (s = "success" => work = "mark")
            /\ successCount' = (IF s = "success" THEN successCount + 1 ELSE successCount)
            /\ failCount' = (IF s = "failed" THEN failCount + 1 ELSE failCount)
            /\ UNCHANGED <<bulk, payments, todo, current>>
      BY <1>5 DEF MarkSuccess, MarkFailed
    <2>2. /\ item[i] = "pending" /\ i \notin todo /\ payments[i] <= 1
          /\ work = "mark" => payments[i] = 1
          /\ \A j \in Items \ (todo \cup {i}) : item[j] \in {"success", "failed"}
      BY <2>1 DEF LoopSplits
    <2>3. /\ item' \in [Items -> {"none", "pending", "success", "failed"}]
          /\ item'[i] = s /\ \A j \in Items \ {i} : item'[j] = item[j]
          /\ Cardinality(With(s))' = Cardinality(With(s)) + 1
          /\ \A t \in {"success", "failed"} \ {s} : Cardinality(With(t))' = Cardinality(With(t))
      BY <2>1, <2>2, MarkStep
    <2>4. BulkTypeOK' /\ CountsKept'
      BY <2>1, <2>3 DEF BulkTypeOK, CountsKept
    <2>5. LoopSplits'
      BY <2>1, <2>2, <2>3 DEF LoopSplits, BulkTypeOK
    <2>6. VerdictIsHonest' /\ bulk'.status \notin Final
      BY <2>1, <2>2, <2>3 DEF VerdictIsHonest
    <2> QED BY <2>4, <2>5, <2>6
  <1>6. CASE MarkThrows \/ Abandon
    BY <1>6 DEF MarkThrows, Abandon, local, BulkTypeOK, CountsKept, LoopSplits, VerdictIsHonest, With
  <1>7. CASE Conclude
    <2>1. /\ work = "loop" /\ todo = {} /\ work' = "done"
          /\ UNCHANGED <<item, payments, todo, current, successCount, failCount>>
          /\ bulk'.status = finalStatus /\ bulk'.successCount = successCount
          /\ bulk'.failCount = failCount
          /\ bulk' = [status |-> finalStatus, successCount |-> successCount, failCount |-> failCount]
      BY <1>7 DEF Conclude, local
    <2>2. finalStatus \in Final
      BY DEF finalStatus, Final
    <2>3. \A s : With(s)' = With(s)
      BY <2>1 DEF With
    <2>4. BulkTypeOK' /\ CountsKept'
      BY <2>1, <2>2, <2>3 DEF BulkTypeOK, CountsKept
    <2>5. LoopSplits'
      BY <2>1 DEF LoopSplits
    <2>6. With("success") \cup With("failed") = Items
      BY <2>1 DEF LoopSplits, With
    <2>7. /\ successCount = 0 <=> With("success") = {}
          /\ failCount = 0 <=> With("failed") = {}
      BY WithFinite, FS_EmptySet DEF CountsKept
    <2>8. VerdictIsHonest'
      BY <2>1, <2>3, <2>6, <2>7 DEF VerdictIsHonest, CountsKept, finalStatus
    <2> QED BY <2>1, <2>4, <2>5, <2>8
  <1>8. CASE UNCHANGED bulkVars
    BY <1>8 DEF bulkVars, local, BulkTypeOK, CountsKept, LoopSplits, VerdictIsHonest, With
  <1> QED BY <1>1, <1>2, <1>3, <1>4, <1>5, <1>6, <1>7, <1>8 DEF BulkNext

(* The verdict of a bulk payment is that of its items. *)
LEMMA VerdictHolds == BulkSpec => []VerdictIsHonest
  <1>1. BulkInv => VerdictIsHonest
    BY DEF BulkInv
  <1> QED BY <1>1, BulkInvInit, BulkInvStep, PTL DEF BulkSpec

----------------------------------------------------------------------------
(* Referrals. *)

(* The callers that have credited the referrer of c and are about to store *)
(* the reward.                                                             *)
Unrecorded(c) == {k \in Callers : /\ at[k] \in {"select", "write"}
                                  /\ entity[k].code = c
                                  /\ entity[k].row.status = "rewarded"}

EntitiesKept ==
    /\ entity \in [Callers -> [code : Codes \cup {Missing},
                               row : Referral \cup Members \cup {Missing}]]
    /\ \A k \in Callers : at[k] \in {"credit", "select", "write"} => entity[k].code \in issued

(* Each credit is that of at most one reward, stored or still to be. *)
CreditsCover == \A c \in Codes : rewards[c] + Cardinality(Unrecorded(c)) <= credits[c]

ReferralInv == ReferralTypeOK /\ EntitiesKept /\ CreditsCover /\ RewardsAreReal

(* The callers of a code are finitely many. *)
LEMMA UnrecordedFinite == \A c : IsFiniteSet(Unrecorded(c)) /\ Cardinality(Unrecorded(c)) \in Nat
  <1> TAKE c
  <1>1. IsFiniteSet(Unrecorded(c))
    BY ReferralAssumption, FS_Subset DEF Unrecorded
  <1> QED BY <1>1, FS_CardinalityType

(* A caller moves: the others stay recorded or not as they were. *)
LEMMA CallerStep ==
    ASSUME ReferralInv, NEW k \in Callers,
           NEW a \in {"idle", "apply", "credit", "select", "write"},
           at' = [at EXCEPT ![k] = a],
           NEW x \in [code : Codes \cup {Missing}, row : Referral \cup Members \cup {Missing}],
           entity' = [entity EXCEPT ![k] = x],
           a = "apply" => x.row \in Members,
           a \in {"credit", "select", "write"} => x \in [code : Codes, row : Referral],
           a \in {"credit", "select", "write"} => x.code \in issued,
           NEW S \in SUBSET {"insert", "referred", "status"}, differs' = [differs EXCEPT ![k] = S]
    PROVE  /\ at'[k] = a /\ entity'[k] = x
           /\ \A c : Unrecorded(c)' \ {k} = Unrecorded(c) \ {k}
           /\ at' \in [Callers -> {"idle", "apply", "credit", "select", "write"}]
           /\ differs' \in [Callers -> SUBSET {"insert", "referred", "status"}]
           /\ \A l \in Callers :
                /\ at'[l] = "apply" => entity'[l].row \in Members
                /\ at'[l] \in {"credit", "select", "write"} =>
                    entity'[l] \in [code : Codes, row : Referral]
           /\ issued \subseteq issued' => EntitiesKept'
  <1> USE DEF ReferralInv, ReferralTypeOK, EntitiesKept
  <1>1. /\ at'[k] = a /\ entity'[k] = x
        /\ \A l \in Callers \ {k} : at'[l] = at[l] /\ entity'[l] = entity[l]
    OBVIOUS
  <1>2. \A c : Unrecorded(c)' \ {k} = Unrecorded(c) \ {k}
    BY <1>1 DEF Unrecorded
  <1>3. /\ at' \in [Callers -> {"idle", "apply", "credit", "select", "write"}]
        /\ differs' \in [Callers -> SUBSET {"insert", "referred", "status"}]
        /\ entity' \in [Callers -> [code : Codes \cup {Missing},
                                    row : Referral \cup Members \cup {Missing}]]
    OBVIOUS
  <1>4. \A l \in Callers :
            /\ at'[l] = "apply" => entity'[l].row \in Members
            /\ at'[l] \in {"credit", "select", "write"} =>
                    entity'[l] \in [code : Codes, row : Referral] /\ entity'[l].code \in issued
    BY <1>1
  <1> QED BY <1>1, <1>2, <1>3, <1>4

(* Nothing is unrecorded any more, or as much as before. *)
LEMMA FewerUnrecorded ==
    ASSUME NEW c, Unrecorded(c)' \subseteq Unrecorded(c)
    PROVE  Cardinality(Unrecorded(c))' <= Cardinality(Unrecorded(c))
  <1>1. Cardinality(Unrecorded(c)') <= Cardinality(Unrecorded(c))
    BY UnrecordedFinite, FS_Subset
  <1> QED BY <1>1

(* The inductive invariant of the referrals holds initially. *)
LEMMA ReferralInvInit == ReferralInit => ReferralInv
  <1> SUFFICES ASSUME ReferralInit PROVE ReferralInv
    OBVIOUS
  <1> USE ReferralAssumption DEF ReferralInit
  <1>1. /\ NoEntity \in [code : Codes \cup {Missing}, row : Referral \cup Members \cup {Missing}]
        /\ Stored = {}
    BY DEF NoEntity, Stored
  <1>2. ReferralTypeOK /\ EntitiesKept
    BY <1>1 DEF ReferralTypeOK, EntitiesKept
  <1>3. \A c : Unrecorded(c) = {}
    BY DEF Unrecorded
  <1>4. CreditsCover
    BY <1>3, FS_EmptySet DEF CreditsCover
  <1>5. RewardsAreReal
    BY <1>1 DEF RewardsAreReal
  <1> QED BY <1>2, <1>4, <1>5 DEF ReferralInv

(* A caller that stores nothing: what it holds is not unrecorded. *)
LEMMA QuietStep ==
    ASSUME ReferralInv, NEW k \in Callers,
           NEW a \in {"idle", "apply", "credit", "select", "write"},
           at' = [at EXCEPT ![k] = a],
           NEW x \in [code : Codes \cup {Missing}, row : Referral \cup Members \cup {Missing}],
           entity' = [entity EXCEPT ![k] = x],
           a = "apply" => x.row \in Members,
           a \in {"credit", "select", "write"} => x \in [code : Codes, row : Referral],
           a \in {"credit", "select", "write"} => x.code \in issued,
           NEW S \in SUBSET {"insert", "referred", "status"}, differs' = [differs EXCEPT ![k] = S],
           a \in {"select", "write"} => x.row.status # "rewarded",
           UNCHANGED <<issued, referral, rewards, credits>>
    PROVE  ReferralInv'
  <1>1. /\ at'[k] = a /\ entity'[k] = x
        /\ \A c : Unrecorded(c)' \ {k} = Unrecorded(c) \ {k}
        /\ at' \in [Callers -> {"idle", "apply", "credit", "select", "write"}]
        /\ differs' \in [Callers -> SUBSET {"insert", "referred", "status"}]
        /\ \A l \in Callers :
                /\ at'[l] = "apply" => entity'[l].row \in Members
                /\ at'[l] \in {"credit", "select", "write"} =>
                    entity'[l] \in [code : Codes, row : Referral]
        /\ EntitiesKept'
    BY CallerStep
  <1>2. Stored' = Stored
    BY DEF Stored
  <1>3. ReferralTypeOK'
    BY <1>1, <1>2 DEF ReferralInv, ReferralTypeOK
  <1>4. \A c : Unrecorded(c)' \subseteq Unrecorded(c)
    BY <1>1 DEF Unrecorded
  <1>5. CreditsCover'
    <2> SUFFICES ASSUME NEW c \in Codes
                 PROVE  rewards[c] + Cardinality(Unrecorded(c))' <= credits[c]
      BY DEF CreditsCover
    <2>1. Cardinality(Unrecorded(c))' <= Cardinality(Unrecorded(c))
      BY <1>4, FewerUnrecorded
    <2>2. Cardinality(Unrecorded(c)) \in Nat /\ Cardinality(Unrecorded(c)') \in Nat
      BY UnrecordedFinite, <1>4, FS_Subset, FS_CardinalityType
    <2> QED BY <2>1, <2>2 DEF ReferralInv, ReferralTypeOK, CreditsCover
  <1>6. RewardsAreReal'
    BY <1>2 DEF ReferralInv, RewardsAreReal
  <1> QED BY <1>1, <1>3, <1>5, <1>6 DEF ReferralInv

(* Every step preserves the invariant. *)
LEMMA ReferralInvStep == ReferralInv /\ [ReferralNext]_referralVars => ReferralInv'
  <1> SUFFICES ASSUME ReferralInv, [ReferralNext]_referralVars PROVE ReferralInv'
    OBVIOUS
  <1> USE ReferralAssumption DEF ReferralInv
  <1>0. /\ NoEntity \in [code : Codes \cup {Missing}, row : Referral \cup Members \cup {Missing}]
        /\ \A c \in Stored : referral[c] \in Referral /\ c \in issued /\ c \in Codes
        /\ \A k \in Callers : at' = at => at' = [at EXCEPT ![k] = at[k]]
        /\ \A k \in Callers : differs' = differs => differs' = [differs EXCEPT ![k] = differs[k]]
        /\ \A k \in Callers : entity' = entity => entity' = [entity EXCEPT ![k] = entity[k]]
    BY DEF NoEntity, Stored, ReferralTypeOK, EntitiesKept
  <1>1. ASSUME NEW u \in Members, NEW c \in Codes, generateCode(u, c) PROVE ReferralInv'
    <2>1. /\ issued' = issued \cup {c} /\ c \notin issued
          /\ UNCHANGED <<rewards, credits, at, entity, differs>>
          /\ referral' = [referral EXCEPT ![c] = [referrer |-> u, referred |-> u, status |-> "pending"]]
      BY <1>1 DEF generateCode
    <2>2. /\ [referrer |-> u, referred |-> u, status |-> "pending"] \in Referral
          /\ [referrer |-> u, referred |-> u, status |-> "pending"].status = "pending"
      BY DEF Referral
    <2>3. /\ referral' \in [Codes -> Referral \cup {Missing}] /\ referral'[c].status = "pending"
          /\ \A d \in Codes \ {c} : referral'[d] = referral[d]
      BY <2>1, <2>2 DEF ReferralTypeOK
    <2>4. Stored' \subseteq Stored \cup {c}
      BY <2>3 DEF Stored
    <2>5. ReferralTypeOK' /\ EntitiesKept'
      BY <2>1, <2>3, <2>4 DEF ReferralTypeOK, EntitiesKept
    <2>6. CreditsCover'
      BY <2>1 DEF CreditsCover, Unrecorded
    <2>7. RewardsAreReal'
      BY <2>1, <2>3, <2>4 DEF RewardsAreReal, Stored
    <2> QED BY <2>5, <2>6, <2>7
  <1>2. ASSUME NEW u \in Members, NEW k \in Callers, applyCode(k, u) PROVE ReferralInv'
    <2> DEFINE x == [code |-> Missing, row |-> u]
    <2>1. /\ x \in [code : Codes \cup {Missing}, row : Referral \cup Members \cup {Missing}]
          /\ x.row = u
      OBVIOUS
    <2>2. /\ at' = [at EXCEPT ![k] = "apply"] /\ entity' = [entity EXCEPT ![k] = x]
          /\ UNCHANGED <<issued, referral, rewards, credits, differs>>
      BY <1>2 DEF applyCode
    <2>3. PICK S \in SUBSET {"insert", "referred", "status"} : differs' = [differs EXCEPT ![k] = S]
      BY <1>0, <2>2 DEF ReferralTypeOK
    <2> HIDE DEF x
    <2> QED BY <2>1, <2>2, <2>3, QuietStep
  <1>3. ASSUME NEW k \in Callers, NEW c \in Codes, ApplyTo(k, c) PROVE ReferralInv'
    <2> DEFINE y == [referral[c] EXCEPT !.referred = entity[k].row, !.status = "pending"]
               x == [code |-> c, row |-> y]
    <2>1. /\ c \in Stored /\ entity[k].row \in Members
          /\ at' = [at EXCEPT ![k] = "select"] /\ entity' = [entity EXCEPT ![k] = x]
          /\ UNCHANGED <<issued, referral, rewards, credits, differs>>
      BY <1>3 DEF ApplyTo, ReferralTypeOK
    <2>2. y \in Referral /\ y.status = "pending"
      <3>1. referral[c] \in Referral
        BY <1>0, <2>1
      <3> DEFINE z == [referral[c] EXCEPT !.referred = entity[k].row]
      <3>2. z \in Referral
        BY <2>1, <3>1 DEF Referral
      <3>3. y = [z EXCEPT !.status = "pending"]
        BY <3>1 DEF Referral
      <3> HIDE DEF z, y
      <3> QED BY <3>2, <3>3 DEF Referral
    <2> HIDE DEF y
    <2>3. /\ x \in [code : Codes, row : Referral] /\ x.code = c /\ x.row = y
          /\ x \in [code : Codes \cup {Missing}, row : Referral \cup Members \cup {Missing}]
      BY <2>2
    <2>4. PICK S \in SUBSET {"insert", "referred", "status"} : differs' = [differs EXCEPT ![k] = S]
      BY <1>0, <2>1 DEF ReferralTypeOK
    <2>5. c \in issued
      BY <1>0, <2>1
    <2> HIDE DEF x
    <2> QED BY <2>1, <2>2, <2>3, <2>4, <2>5, QuietStep
  <1>4. ASSUME NEW k \in Callers, NEW c \in Codes, qualifyReferral(k, c) PROVE ReferralInv'
    <2> DEFINE y == [referral[c] EXCEPT !.status = "qualified"]
               x == [code |-> c, row |-> y]
    <2>1. /\ c \in Stored
          /\ at' = [at EXCEPT ![k] = "select"] /\ entity' = [entity EXCEPT ![k] = x]
          /\ UNCHANGED <<issued, referral, rewards, credits, differs>>
      BY <1>4 DEF qualifyReferral
    <2>2. y \in Referral /\ y.status = "qualified"
      BY <1>0, <2>1 DEF Referral
    <2> HIDE DEF y
    <2>3. /\ x \in [code : Codes, row : Referral] /\ x.code = c /\ x.row = y
          /\ x \in [code : Codes \cup {Missing}, row : Referral \cup Members \cup {Missing}]
      BY <2>2
    <2>4. PICK S \in SUBSET {"insert", "referred", "status"} : differs' = [differs EXCEPT ![k] = S]
      BY <1>0, <2>1 DEF ReferralTypeOK
    <2>5. c \in issued
      BY <1>0, <2>1
    <2> HIDE DEF x
    <2> QED BY <2>1, <2>2, <2>3, <2>4, <2>5, QuietStep
  <1>5. ASSUME NEW k \in Callers, NEW c \in Codes, rewardReferral(k, c) PROVE ReferralInv'
    <2> DEFINE y == [referral[c] EXCEPT !.status = "rewarded"]
               x == [code |-> c, row |-> y]
    <2>1. /\ c \in Stored
          /\ at' = [at EXCEPT ![k] = "credit"] /\ entity' = [entity EXCEPT ![k] = x]
          /\ UNCHANGED <<issued, referral, rewards, credits, differs>>
      BY <1>5 DEF rewardReferral
    <2>2. y \in Referral
      BY <1>0, <2>1 DEF Referral
    <2> HIDE DEF y
    <2>3. /\ x \in [code : Codes, row : Referral] /\ x.code = c
          /\ x \in [code : Codes \cup {Missing}, row : Referral \cup Members \cup {Missing}]
      BY <2>2
    <2>4. PICK S \in SUBSET {"insert", "referred", "status"} : differs' = [differs EXCEPT ![k] = S]
      BY <1>0, <2>1 DEF ReferralTypeOK
    <2>5. c \in issued
      BY <1>0, <2>1
    <2> HIDE DEF x
    <2> QED BY <2>1, <2>3, <2>4, <2>5, QuietStep
  <1>6. ASSUME NEW k \in Callers, Fail(k) PROVE ReferralInv'
    BY <1>0, <1>6, QuietStep DEF Fail, Return
  <1>7. ASSUME NEW k \in Callers, CreditReferrer(k) PROVE ReferralInv'
    <2> DEFINE c == entity[k].code
    <2>1. /\ at[k] = "credit" /\ c \in Codes /\ c \in issued /\ entity[k] \in [code : Codes, row : Referral]
          /\ entity[k] \in [code : Codes \cup {Missing}, row : Referral \cup Members \cup {Missing}]
      BY <1>7 DEF CreditReferrer, ReferralTypeOK, EntitiesKept
    <2>2. /\ credits' = [credits EXCEPT ![c] = @ + 1] /\ at' = [at EXCEPT ![k] = "select"]
          /\ UNCHANGED <<issued, referral, rewards, entity, differs>>
      BY <1>7 DEF CreditReferrer
    <2>a. PICK S \in SUBSET {"insert", "referred", "status"} : differs' = [differs EXCEPT ![k] = S]
      BY <1>0, <2>2 DEF ReferralTypeOK
    <2>b. entity' = [entity EXCEPT ![k] = entity[k]]
      BY <1>0, <2>2
    <2>3. /\ \A d : Unrecorded(d)' \ {k} = Unrecorded(d) \ {k}
          /\ at' \in [Callers -> {"idle", "apply", "credit", "select", "write"}]
          /\ differs' \in [Callers -> SUBSET {"insert", "referred", "status"}]
          /\ \A l \in Callers :
                /\ at'[l] = "apply" => entity'[l].row \in Members
                /\ at'[l] \in {"credit", "select", "write"} =>
                    entity'[l] \in [code : Codes, row : Referral]
          /\ EntitiesKept'
      BY <2>1, <2>2, <2>a, <2>b, CallerStep
    <2>4. /\ credits' \in [Codes -> Nat] /\ credits'[c] = credits[c] + 1
          /\ \A d \in Codes \ {c} : credits'[d] = credits[d]
      BY <2>1, <2>2 DEF ReferralTypeOK
    <2>5. Stored' = Stored
      BY <2>2 DEF Stored
    <2>6. ReferralTypeOK'
      BY <2>2, <2>3, <2>4, <2>5 DEF ReferralTypeOK
    <2>7. CreditsCover'
      <3> SUFFICES ASSUME NEW d \in Codes
                   PROVE  rewards[d] + Cardinality(Unrecorded(d))' <= credits'[d]
        BY <2>2 DEF CreditsCover
      <3>1. /\ Cardinality(Unrecorded(d)) \in Nat /\ rewards[d] \in Nat /\ credits[d] \in Nat
            /\ rewards[d] + Cardinality(Unrecorded(d)) <= credits[d]
        BY UnrecordedFinite DEF CreditsCover, ReferralTypeOK
      <3>2. CASE d = c
        <4>1. k \notin Unrecorded(c)
          BY <2>1 DEF Unrecorded
        <4>2. Unrecorded(d)' \subseteq Unrecorded(d) \cup {k}
          BY <2>3
        <4>3. /\ IsFiniteSet(Unrecorded(d) \cup {k})
              /\ Cardinality(Unrecorded(d) \cup {k}) = Cardinality(Unrecorded(d)) + 1
          BY <3>2, <4>1, UnrecordedFinite, FS_AddElement
        <4>4. /\ Cardinality(Unrecorded(d)') <= Cardinality(Unrecorded(d) \cup {k})
              /\ Cardinality(Unrecorded(d)') \in Nat
          BY <4>2, <4>3, FS_Subset, FS_CardinalityType
        <4> QED BY <2>4, <3>1, <3>2, <4>3, <4>4
      <3>3. CASE d # c
        <4>1. Unrecorded(d)' \subseteq Unrecorded(d)
          BY <2>2, <2>3, <3>3 DEF Unrecorded
        <4>2. /\ Cardinality(Unrecorded(d)') <= Cardinality(Unrecorded(d))
              /\ Cardinality(Unrecorded(d)') \in Nat
          BY <4>1, UnrecordedFinite, FS_Subset, FS_CardinalityType
        <4> QED BY <2>4, <3>1, <3>3, <4>2
      <3> QED BY <3>2, <3>3
    <2>8. RewardsAreReal'
      <3>1. \A d \in Codes : rewards[d] \in Nat /\ credits[d] \in Nat /\ credits[d] <= credits'[d]
        BY <2>4 DEF ReferralTypeOK
      <3>2. \A d \in Codes : credits'[d] \in Nat
        BY <2>4
      <3> QED BY <2>2, <2>5, <3>1, <3>2 DEF RewardsAreReal
    <2> QED BY <2>3, <2>6, <2>7, <2>8
  <1>8. ASSUME NEW k \in Callers, SelectReferral(k) PROVE ReferralInv'
    <2>1. PICK S \in SUBSET {"insert", "referred", "status"} : differs' = [differs EXCEPT ![k] = S]
      <3> DEFINE S == IF referral[entity[k].code] = Missing THEN {"insert"}
                      ELSE {f \in {"referred", "status"} : referral[entity[k].code][f] # entity[k].row[f]}
      <3>1. S \in SUBSET {"insert", "referred", "status"} /\ differs' = [differs EXCEPT ![k] = S]
        BY <1>8 DEF SelectReferral
      <3> QED BY <3>1
    <2>2. /\ at[k] = "select" /\ at' = [at EXCEPT ![k] = "write"]
          /\ UNCHANGED <<issued, referral, rewards, credits, entity>>
      BY <1>8 DEF SelectReferral
    <2>3. /\ entity[k].code \in issued /\ entity[k] \in [code : Codes, row : Referral]
          /\ entity[k] \in [code : Codes \cup {Missing}, row : Referral \cup Members \cup {Missing}]
      BY <2>2 DEF ReferralTypeOK, EntitiesKept
    <2>4. /\ at' \in [Callers -> {"idle", "apply", "credit", "select", "write"}]
          /\ differs' \in [Callers -> SUBSET {"insert", "referred", "status"}]
          /\ \A l \in Callers :
                /\ at'[l] = "apply" => entity'[l].row \in Members
                /\ at'[l] \in {"credit", "select", "write"} =>
                    entity'[l] \in [code : Codes, row : Referral]
          /\ EntitiesKept'
      BY <1>0, <2>1, <2>2, <2>3, CallerStep
    <2>5. Stored' = Stored /\ \A c : Unrecorded(c)' = Unrecorded(c)
      BY <2>2 DEF Stored, Unrecorded, ReferralTypeOK
    <2>6. ReferralTypeOK'
      BY <2>2, <2>4, <2>5 DEF ReferralTypeOK
    <2> QED BY <2>2, <2>4, <2>5, <2>6 DEF CreditsCover, RewardsAreReal
  <1>9. ASSUME NEW k \in Callers, WriteReferral(k) PROVE ReferralInv'
    <2> DEFINE c == entity[k].code
               e == entity[k].row
               new == Written(referral[c], e, differs[k])
               ok == /\ new # Missing => Unreferred(new.referred, c)
                     /\ "insert" \in differs[k] => referral[c] = Missing
    <2>1. /\ at[k] = "write" /\ c \in Codes /\ c \in issued /\ e \in Referral
          /\ referral[c] \in Referral \cup {Missing}
      BY <1>9 DEF WriteReferral, ReferralTypeOK, EntitiesKept
    <2>2. /\ referral' = (IF ok THEN [referral EXCEPT ![c] = new] ELSE referral)
          /\ rewards' = (IF ok /\ e.status = "rewarded" THEN [rewards EXCEPT ![c] = @ + 1] ELSE rewards)
          /\ at' = [at EXCEPT ![k] = "idle"] /\ entity' = [entity EXCEPT ![k] = NoEntity]
          /\ differs' = [differs EXCEPT ![k] = {}]
          /\ UNCHANGED <<issued, credits>>
      BY <1>9 DEF WriteReferral, Return
    <2>3. /\ new \in Referral \cup {Missing}
          /\ new # Missing => \/ new.status = e.status
                              \/ referral[c] # Missing /\ new.status = referral[c].status
      <3>1. CASE "insert" \in differs[k]
        BY <2>1, <3>1 DEF Written
      <3>2. CASE "insert" \notin differs[k] /\ referral[c] = Missing
        BY <3>2 DEF Written
      <3>3. CASE "insert" \notin differs[k] /\ referral[c] # Missing
        <4> DEFINE r == IF "referred" \in differs[k] THEN e.referred ELSE referral[c].referred
                   s == IF "status" \in differs[k] THEN e.status ELSE referral[c].status
                   z == [referral[c] EXCEPT !.referred = r]
        <4>1. /\ r \in Members /\ s \in {"pending", "qualified", "rewarded"}
              /\ s \in {e.status, referral[c].status} /\ referral[c] \in Referral
          BY <2>1, <3>3 DEF Referral
        <4>2. new = [referral[c] EXCEPT !.referred = r, !.status = s]
          BY <3>3, <4>1 DEF Written, Referral
        <4> HIDE DEF r, s, new
        <4>3. z \in Referral
          BY <4>1 DEF Referral
        <4>4. new = [z EXCEPT !.status = s]
          BY <4>1, <4>2 DEF Referral
        <4> HIDE DEF z
        <4>5. new \in Referral /\ new.status = s
          BY <4>1, <4>3, <4>4 DEF Referral
        <4> QED BY <3>3, <4>1, <4>5
      <3> QED BY <2>1, <3>1, <3>2, <3>3
    <2> HIDE DEF new, ok
    <2>4. /\ at'[k] = "idle"
          /\ \A d : Unrecorded(d)' \ {k} = Unrecorded(d) \ {k}
          /\ at' \in [Callers -> {"idle", "apply", "credit", "select", "write"}]
          /\ differs' \in [Callers -> SUBSET {"insert", "referred", "status"}]
          /\ \A l \in Callers :
                /\ at'[l] = "apply" => entity'[l].row \in Members
                /\ at'[l] \in {"credit", "select", "write"} =>
                    entity'[l] \in [code : Codes, row : Referral]
          /\ EntitiesKept'
      BY <1>0, <2>2, CallerStep
    <2>5. /\ referral' \in [Codes -> Referral \cup {Missing}]
          /\ \A d \in Codes \ {c} : referral'[d] = referral[d]
          /\ referral'[c] = (IF ok THEN new ELSE referral[c])
      BY <2>1, <2>2, <2>3 DEF ReferralTypeOK
    <2>6. /\ rewards' \in [Codes -> Nat] /\ \A d \in Codes \ {c} : rewards'[d] = rewards[d]
          /\ rewards'[c] = (IF ok /\ e.status = "rewarded" THEN rewards[c] + 1 ELSE rewards[c])
          /\ rewards[c] \in Nat
      BY <2>1, <2>2 DEF ReferralTypeOK
    <2>7. Stored' \subseteq Stored \cup {c}
      BY <2>5 DEF Stored
    <2>8. ReferralTypeOK'
      BY <2>1, <2>2, <2>4, <2>5, <2>6, <2>7 DEF ReferralTypeOK
    <2>9. \A d : Unrecorded(d)' = Unrecorded(d) \ {k}
      BY <2>4 DEF Unrecorded
    <2>10. CreditsCover'
      <3> SUFFICES ASSUME NEW d \in Codes
                   PROVE  rewards'[d] + Cardinality(Unrecorded(d))' <= credits[d]
        BY <2>2 DEF CreditsCover
      <3>1. /\ Cardinality(Unrecorded(d)) \in Nat /\ rewards[d] \in Nat /\ credits[d] \in Nat
            /\ rewards[d] + Cardinality(Unrecorded(d)) <= credits[d]
        BY UnrecordedFinite DEF CreditsCover, ReferralTypeOK
      <3>2. /\ IsFiniteSet(Unrecorded(d) \ {k})
            /\ Cardinality(Unrecorded(d) \ {k}) =
                IF k \in Unrecorded(d) THEN Cardinality(Unrecorded(d)) - 1 ELSE Cardinality(Unrecorded(d))
        BY UnrecordedFinite, FS_RemoveElement
      <3>3. d = c /\ e.status = "rewarded" => k \in Unrecorded(d)
        BY <2>1 DEF Unrecorded
      <3>4. rewards'[d] = rewards[d] \/ (rewards'[d] = rewards[d] + 1 /\ k \in Unrecorded(d))
        BY <2>6, <3>3
      <3>5. Cardinality(Unrecorded(d))' = Cardinality(Unrecorded(d) \ {k})
        BY <2>9
      <3> QED BY <3>1, <3>2, <3>4, <3>5
    <2>11. RewardsAreReal'
      <3> SUFFICES ASSUME NEW d \in Codes
                   PROVE  /\ rewards'[d] <= credits[d]
                          /\ d \in Stored' /\ referral'[d].status = "rewarded" => rewards'[d] >= 1
        BY <2>2 DEF RewardsAreReal
      <3>1. rewards'[d] <= credits[d]
        <4>1. Cardinality(Unrecorded(d))' \in Nat
          <5>1. IsFiniteSet(Unrecorded(d) \ {k})
            BY UnrecordedFinite, FS_Subset
          <5>2. Cardinality(Unrecorded(d) \ {k}) \in Nat
            BY <5>1, FS_CardinalityType
          <5> QED BY <2>9, <5>2
        <4>2. rewards'[d] + Cardinality(Unrecorded(d))' <= credits[d]
          BY <2>2, <2>10 DEF CreditsCover
        <4>3. rewards'[d] \in Nat /\ credits[d] \in Nat
          BY <2>6 DEF ReferralTypeOK
        <4> QED BY <4>1, <4>2, <4>3
      <3>2. ASSUME d \in Stored', referral'[d].status = "rewarded" PROVE rewards'[d] >= 1
        <4>1. CASE d # c
          BY <2>5, <2>6, <3>2, <4>1 DEF RewardsAreReal, Stored
        <4>2. CASE d = c /\ ~ok
          BY <2>5, <2>6, <3>2, <4>2 DEF RewardsAreReal, Stored
        <4>3. CASE d = c /\ ok
          <5>1. new # Missing /\ new.status = "rewarded"
            BY <2>5, <3>2, <4>3 DEF Stored
          <5>2. CASE e.status = "rewarded"
            BY <2>6, <4>3, <5>2
          <5>3. CASE e.status # "rewarded"
            <6>1. c \in Stored /\ referral[c].status = "rewarded"
              BY <2>1, <2>3, <5>1, <5>3 DEF Stored
            <6> QED BY <2>1, <2>6, <4>3, <5>3, <6>1 DEF RewardsAreReal
          <5> QED BY <5>2, <5>3
        <4> QED BY <4>1, <4>2, <4>3
      <3> QED BY <3>1, <3>2
    <2> QED BY <2>4, <2>8, <2>10, <2>11
  <1>10. ASSUME NEW u \in Members, deleteAccount(u) PROVE ReferralInv'
    <2>1. /\ referral' \in [Codes -> Referral \cup {Missing}]
          /\ \A c \in Codes : referral'[c] \in {referral[c], Missing}
          /\ UNCHANGED <<issued, rewards, credits, at, entity, differs>>
      BY <1>10 DEF deleteAccount, ReferralTypeOK
    <2>2. Stored' \subseteq Stored /\ \A c \in Stored' : referral'[c] = referral[c]
      BY <2>1 DEF Stored
    <2>3. ReferralTypeOK' /\ EntitiesKept'
      BY <2>1, <2>2 DEF ReferralTypeOK, EntitiesKept
    <2> QED BY <2>1, <2>2, <2>3 DEF CreditsCover, Unrecorded, RewardsAreReal
  <1>11. CASE UNCHANGED referralVars
    BY <1>11 DEF referralVars, ReferralTypeOK, EntitiesKept, CreditsCover, Unrecorded, RewardsAreReal,
                 Stored
  <1> QED BY <1>1, <1>2, <1>3, <1>4, <1>5, <1>6, <1>7, <1>8, <1>9, <1>10, <1>11 DEF ReferralNext

(* A stored reward was credited, and a rewarded referral has one. *)
LEMMA RewardsHold == ReferralSpec => []RewardsAreReal
  <1>1. ReferralInv => RewardsAreReal
    BY DEF ReferralInv
  <1> QED BY <1>1, ReferralInvInit, ReferralInvStep, PTL DEF ReferralSpec

----------------------------------------------------------------------------
(* The three side by side. *)

(* What is paid out and what is recorded as paid agree: the counts and the *)
(* verdict of a bulk payment are those of its items, none of which is paid *)
(* twice, and each stored reward has a credit of its own.                  *)
THEOREM PayoutsHonest == BulkSpec /\ ReferralSpec => []PayoutsAreHonest
  BY VerdictHolds, RewardsHold, PTL DEF PayoutsAreHonest

(* Every variable keeps its type, in each of the three components; what a  *)
(* handler holds exists.                                                   *)
THEOREM BackOfficeTypes == Spec => []TypeOK
  <1> DEFINE Inv == CaseInv /\ BulkInv /\ ReferralInv
  <1>1. Init => Inv
    BY CaseInvInit, BulkInvInit, ReferralInvInit DEF Init
  <1>2. Inv /\ [Next]_vars => Inv'
    <2> SUFFICES ASSUME Inv, [Next]_vars PROVE Inv'
      OBVIOUS
    <2>1. [CaseNext]_caseVars /\ [BulkNext]_bulkVars /\ [ReferralNext]_referralVars
      <3>1. CASE Next
        BY <3>1 DEF Next
      <3>2. CASE UNCHANGED vars
        BY <3>2 DEF vars
      <3> QED BY <3>1, <3>2
    <2> QED BY <2>1, CaseInvStep, BulkInvStep, ReferralInvStep
  <1>3. Inv => TypeOK
    BY DEF TypeOK, CaseInv, BulkInv, ReferralInv
  <1> QED BY <1>1, <1>2, <1>3, PTL DEF Spec
=============================================================================
