---------------------------- MODULE AtomicWallet ----------------------------
(***************************************************************************)
(* What WalletsService.adjustBalance promises its callers: every request   *)
(* takes effect at most once, in one indivisible step, on the balance that *)
(* is stored at that moment, and never drives it below zero.               *)
(***************************************************************************)
EXTENDS Money

CONSTANTS Keys,         \* the (accountId, currency) pairs
          Requests      \* the calls of adjustBalance

VARIABLES bal,          \* balance of each key, in cents; 0 where no row exists
          exact,        \* the exact sum of what was added, in sub-units
          applied       \* the requests that have taken effect

vars == <<bal, exact, applied>>

Init == /\ bal = [k \in Keys |-> 0]
        /\ exact = [k \in Keys |-> 0]
        /\ applied = {}

(* Some request r adds some amount to the wallet k; the amount is what the *)
(* step adds to exact[k].                                                  *)
Apply(r, k) ==
    /\ r \notin applied
    /\ applied' = applied \cup {r}
    /\ exact'[k] \in Int
    /\ exact' = [exact EXCEPT ![k] = exact'[k]]
    /\ bal' = [bal EXCEPT ![k] = NewBalance(@, exact'[k] - exact[k])]
    /\ bal'[k] >= 0

Next == \E r \in Requests, k \in Keys : Apply(r, k)

Spec == Init /\ [][Next]_vars
============================================================================
