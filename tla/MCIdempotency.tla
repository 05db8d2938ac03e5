--------------------------- MODULE MCIdempotency ---------------------------
(***************************************************************************)
(* Small instances of Idempotency, Users, AccountClosure and OneTimeCodes  *)
(* for TLC.  They share no state: focus chooses the one that moves, among  *)
(* the Parts a run is about.                                               *)
(***************************************************************************)
EXTENDS Idempotency, Users, AccountClosure, OneTimeCodes

CONSTANT Parts

ASSUME PartsAssumption == Parts \subseteq {"keys", "users", "closure", "codes"}

VARIABLE focus

MCVars == <<focus, vars, userVars, closureVars, codeVars>>

(* The modules that stand still start in one fixed initial state. *)
MCInit == /\ focus \in Parts
          /\ Init
          /\ UserInit
          /\ ClosureInit
          /\ focus # "closure" => accountBalance = NoRow
          /\ CodesInit
          /\ focus # "codes" => store = "otps"

MCNext == /\ UNCHANGED focus
          /\ focus # "keys" => UNCHANGED vars
          /\ focus # "users" => UNCHANGED userVars
          /\ focus # "closure" => UNCHANGED closureVars
          /\ focus # "codes" => UNCHANGED codeVars
          /\ \/ focus = "keys" /\ Next
             \/ focus = "users" /\ UserNext
             \/ focus = "closure" /\ ClosureNext
             \/ focus = "codes" /\ CodesNext

MCSpec == MCInit /\ [][MCNext]_MCVars

(* Type invariant of the module that moves. *)
MCTypeOK == CASE focus = "keys" -> TypeOK
              [] focus = "users" -> UserTypeOK
              [] focus = "closure" -> ClosureTypeOK
              [] focus = "codes" -> CodesTypeOK
============================================================================
