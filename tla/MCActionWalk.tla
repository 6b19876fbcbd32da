---------------------------- MODULE MCActionWalk ----------------------------
(* Two ConfigMaps, which share their category, and a Service. *)
EXTENDS ActionWalk

MCResource == {[kind |-> "ConfigMap", of |-> "a"],
               [kind |-> "ConfigMap", of |-> "b"],
               [kind |-> "Service", of |-> "a"]}
MCAction == {"Create", "Update"}
=============================================================================
