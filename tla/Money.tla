------------------------------- MODULE Money -------------------------------
(***************************************************************************)
(* The arithmetic of amounts.                                              *)
(*                                                                         *)
(* Amounts that travel through the services are decimals with more digits  *)
(* than a wallet keeps: a fee is computed to eight decimals                *)
(* (fees.service.ts) and a wallet balance is rounded to two                *)
(* (wallets.service.ts, toFixed(2)).  An amount is an integer number of    *)
(* sub-units, SubUnits of them to the cent; a stored balance is an integer *)
(* number of cents.  SubUnits is even, so that the half cent the rounding  *)
(* rule speaks of is a whole number, HalfCent, of sub-units.               *)
(***************************************************************************)
EXTENDS Integers

CONSTANT HalfCent       \* sub-units in half a cent

ASSUME HalfCentAssumption == HalfCent \in Nat \ {0}

SubUnits == 2 * HalfCent

(* Number(new Big(x).toFixed(2)): big.js rounds half away from zero. *)
RoundCents(x) ==
    IF x >= 0 THEN (x + HalfCent) \div SubUnits
              ELSE -((HalfCent - x) \div SubUnits)

(* An amount that the rounding leaves alone. *)
WholeCents(x) == x % SubUnits = 0

(* wallet.balance plus delta, rounded to the two decimals that are kept. *)
NewBalance(balance, delta) == RoundCents(SubUnits * balance + delta)
============================================================================
