------------------------------ MODULE MCSetScale ------------------------------
(* One to three replicas; and, for the order of the names, nine to eleven. *)
EXTENDS SetScale
=============================================================================
