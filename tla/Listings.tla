----------------------------- MODULE Listings ------------------------------
(***************************************************************************)
(* Reading a table page by page with OFFSET and LIMIT while it changes:    *)
(* the fourteen listings that a client turns page by page, and the export  *)
(* of transactions (src/admin/exports), a job that pages on the server.    *)
(* Rows appear, leave a filter when their status changes, and are moved    *)
(* away by the archival job (src/archival).  A behaviour is about one      *)
(* listing and one reader of it.                                           *)
(*                                                                         *)
(* Rows are numbered in the order of the sort column.  That is not the     *)
(* order in which they become visible: createdAt is the start of the       *)
(* transaction that inserts a row.  Rows of equal rank are not modelled.   *)
(***************************************************************************)
EXTENDS Integers, FiniteSets, Sequences, SequencesExt

CONSTANTS MaxRows,
          MAX_LIMIT,        \* the largest page (100)
          MaxAsked,         \* the largest limit a client asks for
          BATCH_SIZE,       \* rows per query of an export
          ArchiveBatch,     \* archive.batchSize
          MaxChanges        \* bound on changes of a row's status

ASSUME ListingsAssumption ==
    /\ MaxRows \in Nat /\ MaxChanges \in Nat /\ MaxAsked \in Nat
    /\ MAX_LIMIT \in Nat \ {0} /\ BATCH_SIZE \in Nat \ {0} /\ ArchiveBatch \in Nat \ {0}

VARIABLES listing,      \* which listing this behaviour is about
          present,      \* the rows of the table
          matching,     \* the rows whose status the filter accepts
          archive,      \* the rows of the archive table
          changes,      \* changes of status so far
          scan,         \* the reader: see Scan
          file,         \* an export's file in EXPORTS_DIR
          link,         \* its download token: "none", "valid", "expired"
          delivered     \* the answer the reader was given last

listingVars == <<listing, present, matching, archive, changes, scan, file, link, delivered>>

RowIds == 1..MaxRows
----------------------------------------------------------------------------
(* What a listing does with the limit it is asked for, whether its filter  *)
(* is on a column that changes, and whether its rows are archived.         *)

Listing(sort, limits, mutable, archived) ==
    [sort |-> sort, limits |-> limits, mutable |-> mutable, archived |-> archived]

ActivityFeed       == Listing("DESC", "clamped", FALSE, FALSE)
AmlScreenings      == Listing("DESC", "clamped", FALSE, FALSE)
findHistory        == Listing("DESC", "clamped", TRUE, TRUE)
AdminTransactions  == Listing("DESC", "refused", TRUE, TRUE)
SupportTickets     == Listing("DESC", "refused", TRUE, FALSE)
KycTierUpgrades    == Listing("DESC", "refused", TRUE, FALSE)
WalletSnapshots    == Listing("DESC", "refused", FALSE, FALSE)
FeeReports         == Listing("DESC", "refused", FALSE, FALSE)
FeeAuditTrail      == Listing("DESC", "as asked", FALSE, FALSE)
RateHistory        == Listing("DESC", "as asked", FALSE, FALSE)
RateAlertHistory   == Listing("DESC", "as asked", FALSE, FALSE)
DisputesOfUser     == Listing("DESC", "as asked", FALSE, FALSE)
BulkPaymentsOfUser == Listing("DESC", "as asked", FALSE, FALSE)
(* The search sorts by date or amount, either way. *)
searches           == {Listing(sort, "as asked", TRUE, TRUE) : sort \in {"ASC", "DESC"}}
TransactionExport  == Listing("ASC", "batches", TRUE, TRUE)

AllListings == searches \cup
    {ActivityFeed, AmlScreenings, findHistory, AdminTransactions, SupportTickets,
     KycTierUpgrades, WalletSnapshots, FeeReports, FeeAuditTrail, RateHistory,
     RateAlertHistory, DisputesOfUser, BulkPaymentsOfUser, TransactionExport}

IsExport == listing = TransactionExport

EffectiveLimit(asked) ==
    CASE listing.limits = "clamped" -> IF asked < 1 THEN 1
                                       ELSE IF asked > MAX_LIMIT THEN MAX_LIMIT ELSE asked
      [] listing.limits = "batches" -> BATCH_SIZE
      [] OTHER -> asked

(* A DTO with @Min(1) and @Max(100) answers 400; a service without either  *)
(* takes any limit (0 would mean no LIMIT at all and is not enumerated).   *)
Accepted(asked) == CASE listing.limits = "refused" -> asked \in 1..MAX_LIMIT
                     [] listing.limits = "as asked" -> asked >= 1
                     [] listing.limits = "batches" -> asked = BATCH_SIZE
                     [] OTHER -> TRUE
----------------------------------------------------------------------------
Visible == present \cap matching

(* The order of the listing, and the place of a row in it. *)
NotAfter(q, r) == IF listing.sort = "ASC" THEN q <= r ELSE q >= r
Upto(r, S) == {q \in S : NotAfter(q, r)}
Rank(r, S) == Cardinality(Upto(r, S))
Sorted(S) == [i \in 1..Cardinality(S) |-> CHOOSE r \in S : Rank(r, S) = i]
AmongFirst(n, S) == {r \in S : Rank(r, S) <= n}

NotReading == [stage |-> "none", limit |-> 1, page |-> 0, rows |-> <<>>, kept |-> {},
          departed |-> 0, entered |-> 0, stalled |-> FALSE]
NoRows == [rows |-> <<>>, kept |-> {}, departed |-> 0, entered |-> 0]
Answer == [rows |-> scan.rows, kept |-> scan.kept, departed |-> scan.departed,
           entered |-> scan.entered]

ListingsInit ==
    /\ listing \in AllListings
    /\ present = {} /\ archive = {} /\ matching = RowIds /\ changes = 0
    /\ scan = NotReading /\ file = NoRows /\ link = "none" /\ delivered = NoRows

TableUnchanged == UNCHANGED <<listing, present, matching, archive, changes>>
ReaderUnchanged == UNCHANGED <<listing, file, link, delivered>>

Cursor == scan.page * scan.limit

(* History: which rows were there throughout, and how many came or went in *)
(* the part of the listing that the reader has passed.                     *)
Witness(new) ==
    scan' = [scan EXCEPT
        !.kept = @ \cap new,
        !.departed = @ + Cardinality(AmongFirst(Cursor, Visible) \ new),
        !.entered = @ + Cardinality(AmongFirst(Cursor, new) \ Visible)]
----------------------------------------------------------------------------
(* The writers. *)

insertRow(r) ==
    /\ r \notin present \cup archive
    /\ present' = present \cup {r}
    /\ Witness(Visible \cup ({r} \cap matching))
    /\ UNCHANGED <<matching, archive, changes>> /\ ReaderUnchanged

(* A transaction settles or is overridden, a ticket or upgrade is decided. *)
changeStatus(r) ==
    /\ listing.mutable /\ r \in present /\ changes < MaxChanges
    /\ matching' = IF r \in matching THEN matching \ {r} ELSE matching \cup {r}
    /\ changes' = changes + 1
    /\ Witness(present \cap matching')
    /\ UNCHANGED <<present, archive>> /\ ReaderUnchanged

(* One statement deletes and inserts.  The driver returns no rows for it,  *)
(* so that the loop over batches ends after the first.                     *)
archiveTable(cutoff) ==
    /\ listing.archived
    /\ LET old == {r \in present : r < cutoff}
           size == IF Cardinality(old) < ArchiveBatch THEN Cardinality(old) ELSE ArchiveBatch
       IN \E moved \in SUBSET old :
            /\ Cardinality(moved) = size /\ moved # {}
            /\ present' = present \ moved
            /\ archive' = archive \cup moved
            /\ Witness(Visible \ moved)
    /\ UNCHANGED <<matching, changes>> /\ ReaderUnchanged
----------------------------------------------------------------------------
(* The reader. *)

Begun(limit) == [NotReading EXCEPT !.stage = "page", !.limit = limit, !.kept = Visible]

(* Page 1 is asked for, or the export's job is created and taken up. *)
begin(asked) ==
    /\ scan.stage = "none" /\ Accepted(asked)
    /\ scan' = Begun(EffectiveLimit(asked))
    /\ TableUnchanged /\ UNCHANGED <<file, link, delivered>>

Page == SubSeq(Sorted(Visible), Cursor + 1,
               IF Cursor + scan.limit <= Cardinality(Visible) THEN Cursor + scan.limit
               ELSE Cardinality(Visible))

(* Mutant: a full batch is taken for the last one. *)
AfterPageStopsOnFull(batch) ==
    CASE IsExport -> IF Len(batch) <= scan.limit THEN "ended" ELSE "page"
      [] OTHER -> "count"

(* getManyAndCount counts in a second query, unless a short page tells. *)
AfterPage(batch) ==
    CASE IsExport -> IF Len(batch) < scan.limit THEN "ended" ELSE "page"
      [] ~IsExport /\ Len(batch) < scan.limit /\ (batch # <<>> \/ scan.page = 0) -> "ended"
      [] OTHER -> "count"

fetchPage ==
    /\ scan.stage = "page"
    /\ scan' = [scan EXCEPT !.rows = @ \o Page, !.page = @ + 1, !.stage = AfterPage(Page)]
    /\ TableUnchanged /\ UNCHANGED <<file, link, delivered>>

(* The client asks for another page while page * limit < total. *)
countRows ==
    /\ scan.stage = "count"
    /\ scan' = [scan EXCEPT !.stage = IF Cursor < Cardinality(Visible) THEN "page" ELSE "ended"]
    /\ TableUnchanged /\ UNCHANGED <<file, link, delivered>>

readToTheEnd ==
    /\ ~IsExport /\ scan.stage = "ended"
    /\ delivered' = Answer
    /\ scan' = [NotReading EXCEPT !.stage = "done"]
    /\ TableUnchanged /\ UNCHANGED <<file, link>>

(* The temporary file is renamed and a token is signed. *)
store ==
    /\ IsExport /\ scan.stage = "ended"
    /\ file' = Answer /\ link' = "valid"
    /\ scan' = [NotReading EXCEPT !.stage = "stored", !.limit = scan.limit, !.stalled = scan.stalled]
    /\ TableUnchanged /\ UNCHANGED delivered

jobCompletes ==
    /\ IsExport /\ scan.stage = "stored"
    /\ scan' = [NotReading EXCEPT !.stage = "done"]
    /\ TableUnchanged /\ UNCHANGED <<file, link, delivered>>

(* The process stops: Bull runs a stalled job once more, from the start,   *)
(* and the temporary file is truncated.                                    *)
crash ==
    /\ IsExport /\ scan.stage \in {"page", "ended", "stored"} /\ ~scan.stalled
    /\ scan' = [Begun(scan.limit) EXCEPT !.stalled = TRUE]
    /\ TableUnchanged /\ UNCHANGED <<file, link, delivered>>

resolveLink == link = "valid"

download ==
    /\ resolveLink
    /\ delivered' = file
    /\ TableUnchanged /\ UNCHANGED <<scan, file, link>>

linkExpires ==
    /\ link = "valid" /\ link' = "expired"
    /\ TableUnchanged /\ UNCHANGED <<scan, file, delivered>>

ListingsNext ==
    \/ \E r \in RowIds : insertRow(r) \/ changeStatus(r)
    \/ \E cutoff \in 1..(MaxRows + 1) : archiveTable(cutoff)
    \/ \E asked \in 0..MaxAsked : begin(asked)
    \/ fetchPage \/ countRows \/ readToTheEnd
    \/ store \/ jobCompletes \/ crash \/ download \/ linkExpires

ListingsSpec == ListingsInit /\ [][ListingsNext]_listingVars

----------------------------------------------------------------------------
(* Type invariant. *)
Answers == [rows : Seq(RowIds), kept : SUBSET RowIds, departed : Nat, entered : Nat]
ListingsTypeOK ==
    /\ listing \in AllListings
    /\ present \subseteq RowIds /\ matching \subseteq RowIds /\ archive \subseteq RowIds
    /\ changes \in 0..MaxChanges
    /\ scan \in [stage : {"none", "page", "count", "ended", "stored", "done"}, limit : Nat,
                 page : Nat, rows : Seq(RowIds), kept : SUBSET RowIds, departed : Nat,
                 entered : Nat, stalled : BOOLEAN]
    /\ file \in Answers /\ delivered \in Answers
    /\ link \in {"none", "valid", "expired"}

(* What a reader is given in the end lacks a row that was there from the   *)
(* first page to the last only because another row left the pages already  *)
(* read, one for one; and it repeats a row only because another one joined *)
(* them.  In particular an export that no archival and no status change    *)
(* disturbs is exact, and one that stalls and runs again is too.           *)
PagesLoseOnlyToDepartures ==
    LET got == ToSet(delivered.rows)
    IN /\ Cardinality(delivered.kept \ got) <= delivered.departed
       /\ Len(delivered.rows) - Cardinality(got) <= delivered.entered
============================================================================
