------------------------------- MODULE Tables -------------------------------
(***************************************************************************)
(* Tables that the code writes down in one place and a model in parts:     *)
(* functions, each of some of the names.  No name is in two parts.         *)
(***************************************************************************)

Together(parts) ==
    [n \in UNION {DOMAIN p : p \in parts} |-> (CHOOSE p \in parts : n \in DOMAIN p)[n]]
=============================================================================
