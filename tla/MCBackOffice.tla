---------------------------- MODULE MCBackOffice ----------------------------
(***************************************************************************)
(* Small instances of Cases, BulkPayments and Referrals in one run.  The   *)
(* three share no state, so each property speaks of one of them, and the   *)
(* interleavings of different ones need not be explored: focus chooses the *)
(* one that moves.                                                         *)
(***************************************************************************)
EXTENDS Cases, BulkPayments, Referrals, TLC

CONSTANTS h1, h2, c1, c2, u1, k1, k2, r1, r2, m1, m2

VARIABLE focus

vars == <<focus, caseVars, bulkVars, referralVars>>

Init == /\ focus \in {"cases", "bulk", "referrals"}
        /\ CaseInit
        /\ focus # "cases" => table = "disputes"
        /\ BulkInit
        /\ ReferralInit

Next == /\ UNCHANGED focus
        /\ \/ focus = "cases" /\ CaseNext /\ UNCHANGED <<bulkVars, referralVars>>
           \/ focus = "bulk" /\ BulkNext /\ UNCHANGED <<caseVars, referralVars>>
           \/ focus = "referrals" /\ ReferralNext /\ UNCHANGED <<caseVars, bulkVars>>

Spec == Init /\ [][Next]_vars

Symmetry == Permutations(Handlers) \cup Permutations(Ids) \cup Permutations(Callers)

(* Type invariant of the three modules. *)
TypeOK == CaseTypeOK /\ BulkTypeOK /\ ReferralTypeOK

(* What is paid out and what is recorded as paid agree, for bulk payments  *)
(* and for rewards of referrals.                                           *)
PayoutsAreHonest == VerdictIsHonest /\ RewardsAreReal
============================================================================
