---------------------------- MODULE RollingRestart ----------------------------
(***************************************************************************)
(* What a restart of the pods of a StatefulSet promises: it succeeds only  *)
(* when none of the pods it was asked to restart runs on, and it takes a   *)
(* pod down only while all the others are up, except those that went down  *)
(* on their own and those it misjudges.  It may fail at any time, and be   *)
(* asked for again; each time it judges the pods anew.                     *)
(***************************************************************************)
CONSTANT Pod

VARIABLES phase,     \* "idle", "running", "done" or "failed"
          up,        \* the pods that are ready
          outdated,  \* the pods that still have to be restarted
          excused    \* the pods that went down on their own while it is running, and
                     \* those it misjudges

vars == <<phase, up, outdated, excused>>

Init == phase = "idle" /\ up = Pod /\ outdated = Pod /\ excused = {}

Ask == /\ phase \in {"idle", "failed"} /\ phase' = "running"
       /\ phase = "failed" => outdated' = outdated
       /\ outdated' \subseteq Pod
       /\ UNCHANGED <<up, excused>>

Misjudge(p) == /\ phase = "running" /\ excused' = excused \union {p}
               /\ UNCHANGED <<phase, up, outdated>>

TakeDown(p) == /\ phase = "running"
               /\ Pod \ (excused \union {p}) \subseteq up
               /\ up' = up \ {p} /\ outdated' = outdated \ {p}
               /\ UNCHANGED <<phase, excused>>

Finish == /\ phase = "running" /\ outdated = {}
          /\ phase' = "done" /\ excused' = {}
          /\ UNCHANGED <<up, outdated>>

GiveUp == /\ phase = "running" /\ phase' = "failed" /\ excused' = {}
          /\ UNCHANGED <<up, outdated>>

\* A pod comes up, or goes down on its own.
ComeUp(p) == up' = up \union {p} /\ UNCHANGED <<phase, outdated, excused>>
GoDown(p) == /\ up' \in {up, up \ {p}}
             /\ excused' = IF phase = "running" THEN excused \union {p}
                                                ELSE excused
             /\ outdated' \in {outdated, outdated \ {p}}
             /\ UNCHANGED phase

Next == \/ Ask \/ Finish \/ GiveUp
        \/ \E p \in Pod : \/ Misjudge(p) \/ TakeDown(p)
                          \/ ComeUp(p) \/ GoDown(p)

Spec == Init /\ [][Next]_vars
===============================================================================
