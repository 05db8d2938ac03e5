--------------------------- MODULE MCTransactions ---------------------------
(* Small instances of Transactions for TLC. *)
EXTENDS Transactions

CONSTANTS u1, u2, usd, eur, ref1, ref2, t2, x1, d1, v1, v2

(* Five sub-units to the half cent: a sub-unit is a tenth of a cent.  5.00 *)
(* pays a fee of half a cent.                                              *)
MCHalfCent == 5
MCAmounts == {5000}

(* In US dollars the first user opens with 9.00, enough for one payment    *)
(* and not for two, and the second with 5.00.                              *)
MCOpening == [k \in Keys |-> IF k = <<u1, usd>> THEN 900
                             ELSE IF k = <<u2, usd>> THEN 500 ELSE 0]

(* Bound of the run transfers: either a transfer races with another one, a *)
(* cancellation and a tagging, or two reversals with a tagging, a transfer *)
(* and a deposit.  Both together would only multiply the states.           *)
OneScenario == ~(TakesPart({t2, x1}) /\ TakesPart({d1, v1, v2}))

(***************************************************************************)
(* What comments and tests of the repository say, and the code does not    *)
(* always do.                                                              *)
(***************************************************************************)
(* 'All retries exhausted - restore balance, then write FAILED': a FAILED  *)
(* swap leaves the user with no credit.                                    *)
FailedSwapRestores == \A r \in Swaps : status[r] = "failed" => credited[r] = 0

(* 'Transaction has already been reversed': the sender is repaid once. *)
RepaidOnce == \A r \in Payments : repaid[r] <= 1
============================================================================
