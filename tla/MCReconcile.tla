----------------------------- MODULE MCReconcile -----------------------------
(* One component, the lines without which none works. *)
EXTENDS Reconcile

MCComponent == {"zk"}
MCLine == <<[kind |-> "ConfigMap", of |-> "zk"],
            [kind |-> "StatefulSet", of |-> "zk"],
            [kind |-> "PersistentVolumeClaim", of |-> "zk"]>>
=============================================================================
