----------------------------- MODULE MCWallets -----------------------------
(***************************************************************************)
(* Small instances of Wallets, and of the cache of balances in front of    *)
(* it, for TLC.  The cache sees of a wallet only that its balance changes, *)
(* so the two need not be interleaved: focus chooses the one that moves.   *)
(***************************************************************************)
EXTENDS Wallets, BalanceCache, TLC

CONSTANTS r1, r2, r3, r4, a1, red,
          Parts         \* the modules a run is about

VARIABLE focus

MCInit == focus \in Parts /\ Init /\ BalanceInit

MCNext == /\ UNCHANGED focus
          /\ \/ focus = "wallets" /\ Next /\ UNCHANGED balanceVars
             \/ focus = "cache" /\ BalanceNext /\ UNCHANGED vars

MCSpec == MCInit /\ [][MCNext]_<<focus, vars, balanceVars>>

(* The fairness of the module that moves. *)
MCFairSpec == /\ MCSpec
              /\ focus = "wallets" => Fairness
              /\ focus = "cache" => BalanceFairness

(* One supported currency, written in upper and in lower case, and an      *)
(* unsupported one.                                                        *)
MCSpellings == {"USD", "usd", "XYZ"}
MCCodeOf == [s \in MCSpellings |-> IF s = "XYZ" THEN "XYZ" ELSE "USD"]
MCSupported == {"USD"}

(* Five sub-units to the half cent: amounts in tenths of a cent.  The      *)
(* deltas are two cents, 0.7 cents, and withdrawals of one cent and of     *)
(* one and a half.                                                         *)
MCDeltas == {20, 7, -10, -15, 0}
MCThresholds == {0, 1}

Symmetry == Permutations(Adjusters)
============================================================================
