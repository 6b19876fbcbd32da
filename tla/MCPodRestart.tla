---------------------------- MODULE MCPodRestart ----------------------------
(* Two replicas: each is once the one restarted and once the other one. *)
EXTENDS PodRestart
=============================================================================
