--------------------------- MODULE MCReconcilePair ---------------------------
(* Two components, whose ConfigMaps share a category, behind a Service whose *)
(* fingerprint never settles: every list of commands has a head.  One has an *)
(* optional object, a PDB.                                                   *)
EXTENDS Reconcile

MCComponent == {"nn", "dn"}
MCLine == <<[kind |-> "Service", of |-> "nn"],
            [kind |-> "ConfigMap", of |-> "nn"],
            [kind |-> "ConfigMap", of |-> "dn"],
            [kind |-> "StatefulSet", of |-> "nn"],
            [kind |-> "PersistentVolumeClaim", of |-> "nn"],
            [kind |-> "PodDisruptionBudget", of |-> "nn"],
            [kind |-> "StatefulSet", of |-> "dn"],
            [kind |-> "PersistentVolumeClaim", of |-> "dn"]>>
=============================================================================
