------------------------------ MODULE MCFailOver ------------------------------
(* Three replicas, of which FailOver may take down one. *)
EXTENDS FailOver
=============================================================================
