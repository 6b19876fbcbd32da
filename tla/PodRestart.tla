------------------------------ MODULE PodRestart ------------------------------
(***************************************************************************)
(* Restarting the pods of one StatefulSet one after the other              *)
(* (kernel/util/buildin_resource_client.go, Restart with failOver = false  *)
(* and waitReady = true), seen through an object cache that lags behind    *)
(* pod by pod, while pods break, are repaired and are evicted.             *)
(*                                                                         *)
(* A pod is the incarnation uid of its name.  The readiness check and the  *)
(* waiting loop of the operator look at cached, never at pod.              *)
(***************************************************************************)
EXTENDS Naturals

CONSTANTS N,             \* replicas
          MaxAttempts,   \* bound: reconciles that ask for the restart
          MaxBreaks,     \* bound: pods that stop being ready
          MaxEvictions   \* bound: pods deleted by somebody else

ASSUME ReplicasAssumption == N \in Nat \ {0}
ASSUME LimitAssumption ==
  MaxAttempts \in Nat \ {0} /\ MaxBreaks \in Nat /\ MaxEvictions \in Nat

Pod == 1..N

VARIABLES
  pod,       \* the pods in the API server
  cached,    \* the operator's copy of each
  pc,        \* where Restart is
  got,       \* what CheckIfExists has read so far
  look,      \* the pod CheckIfExists reads next
  before,    \* exists: the pods as they were read at the start
  cur,       \* the pod being restarted; those after it still have to be
  attempts, breaks, evictions,  \* what is used up of the bounds
  old,       \* history: incarnations the cache had shown when the restart was
             \* asked for first; one it did not show yet counts as restarted
  hurt,      \* history: pods that broke or were evicted since this call began
  misjudged  \* history: pods this call takes for ready though they may not be:
             \* it read a copy at its start that was not right any more, or one
             \* that is terminating, or it stopped waiting as it found no pod

calls == <<attempts, old>>
judged == <<hurt, misjudged>>
operator == <<pc, got, look, before, cur, calls>>
vars == <<pod, cached, operator, breaks, evictions, judged>>

\* pod and cached map every pod to [uid, phase].  The phases are "none",
\* "starting", "ready", "broken", "terminating" (a ready pod was deleted, and
\* still runs) and "ending" (any other pod was).
Exists(s) == s.phase # "none"

\* IsPodReady does not look at the deletion timestamp.
IsPodReady(s) == s.phase \in {"ready", "terminating"}

Dying(phase) == CASE phase = "ready" -> "terminating"
                  [] phase \in {"starting", "broken"} -> "ending"
                  [] OTHER -> phase

NothingRead == [p \in Pod |-> [uid |-> 0, phase |-> "none"]]
-----------------------------------------------------------------------------
Init ==
  /\ pod = [p \in Pod |-> [uid |-> 1, phase |-> "ready"]]
  /\ cached = pod
  /\ pc = "idle" /\ got = NothingRead /\ before = NothingRead
  /\ look = 1 /\ cur = 1
  /\ attempts = 0 /\ breaks = 0 /\ evictions = 0
  /\ old = [p \in Pod |-> 1] /\ hurt = {} /\ misjudged = {}
-----------------------------------------------------------------------------
(* The cluster.                                                            *)

Running == pc \notin {"idle", "done", "failed"}

Moves(p, from, to) ==
  /\ pod[p].phase \in from
  /\ pod' = [pod EXCEPT ![p] = [uid |-> @.uid, phase |-> to]]

Recreate(p) == /\ pod[p].phase = "none"
               /\ pod' = [pod EXCEPT ![p] = [uid |-> @.uid + 1,
                                             phase |-> "starting"]]
               /\ UNCHANGED <<cached, operator, breaks, evictions, judged>>
BecomeReady(p) == /\ Moves(p, {"starting", "broken"}, "ready")
                  /\ UNCHANGED <<cached, operator, breaks, evictions, judged>>
Vanish(p) == /\ Moves(p, {"terminating", "ending"}, "none")
             /\ UNCHANGED <<cached, operator, breaks, evictions, judged>>

Hurts(p) == /\ hurt' = IF Running THEN hurt \union {p} ELSE hurt
            /\ UNCHANGED <<cached, operator, misjudged>>

Break(p) == /\ breaks < MaxBreaks /\ breaks' = breaks + 1
            /\ Moves(p, {"ready"}, "broken")
            /\ Hurts(p) /\ UNCHANGED evictions

Evict(p) == /\ evictions < MaxEvictions /\ evictions' = evictions + 1
            /\ Moves(p, {"starting", "ready", "broken"}, Dying(pod[p].phase))
            /\ Hurts(p) /\ UNCHANGED breaks

\* The informer catches up with one pod.
Deliver(p) == /\ cached[p] # pod[p]
              /\ cached' = [cached EXCEPT ![p] = pod[p]]
              /\ UNCHANGED <<pod, operator, breaks, evictions, judged>>
-----------------------------------------------------------------------------
(* Restart.                                                                *)

Env == <<pod, cached, breaks, evictions>>

\* Restart returns to the reconcile.
End(outcome) == /\ pc' = outcome
                /\ got' = NothingRead /\ before' = NothingRead
                /\ look' = 1 /\ cur' = 1
                /\ hurt' = {} /\ misjudged' = {}

\* A reconcile asks for the restart, again if it failed before.
Call == /\ pc \in {"idle", "failed"} /\ attempts < MaxAttempts
        /\ pc' = "start"
        /\ attempts' = attempts + 1
        /\ old' = IF attempts = 0 THEN [p \in Pod |-> cached[p].uid] ELSE old
        /\ UNCHANGED <<got, look, before, cur, judged, Env>>

\* The copy of a pod is not of the pod as it is, or of one that still runs but
\* is about to end.
Misleading(p) == cached[p] # pod[p] \/ pod[p].phase = "terminating"

\* CheckIfExists reads one pod after the other, from the cache, for the start
\* and for each round of the wait.
CheckPod == /\ pc \in {"start", "wait"} /\ look <= N
            /\ got' = [got EXCEPT ![look] = cached[look]]
            /\ misjudged' = IF pc = "start" /\ Misleading(look)
                            THEN misjudged \union {look} ELSE misjudged
            /\ look' = look + 1
            /\ UNCHANGED <<pc, before, cur, calls, hurt, Env>>

\* A read fails: the start gives up, the wait goes for another round.
CheckFails == /\ pc \in {"start", "wait"} /\ look <= N
              /\ IF pc = "start" THEN End("failed")
                 ELSE /\ pc' = "check"
                      /\ UNCHANGED <<got, look, before, cur, judged>>
              /\ UNCHANGED <<calls, Env>>

\* What the start makes of the pods it found.  No pod at all counts as done, a
\* missing one as a failure.  And a mutant: one missing pod counts like none.
SomeMissing(found) == IF found = Pod THEN "loop" ELSE "done"
Outcome(found) == IF found = {} THEN "done"
                  ELSE IF found # Pod THEN "failed" ELSE "loop"

\* Ordered puts the pods that are not ready first, which matters to nothing as
\* the loop gives up on any of them.
Begin ==
  /\ pc = "start" /\ look > N
  /\ LET outcome == Outcome({p \in Pod : Exists(got[p])}) IN
     IF outcome # "loop" THEN End(outcome)
     ELSE /\ pc' = outcome /\ before' = got /\ got' = NothingRead
          /\ UNCHANGED <<look, cur, judged>>
  /\ UNCHANGED <<calls, Env>>

\* The readiness check of the loop: of the pods as they were at the start.  And
\* a mutant: the check is of the pod to restart only.
ThisReady == IsPodReady(before[cur])
AllReady == \A p \in Pod : IsPodReady(before[p])

NotReady == /\ pc = "loop" /\ cur <= N /\ ~AllReady
            /\ End("failed")
            /\ UNCHANGED <<calls, Env>>

\* Delete by name; a pod that is not there counts as deleted.
DeletePod ==
  /\ pc = "loop" /\ cur <= N /\ AllReady
  /\ pod' = [pod EXCEPT ![cur].phase = Dying(@)]
  /\ pc' = "wait" /\ look' = 1
  /\ UNCHANGED <<cached, got, before, cur, calls, breaks, evictions,
                 judged>>

DeleteFails == /\ pc = "loop" /\ cur <= N /\ AllReady
               /\ End("failed")
               /\ UNCHANGED <<calls, Env>>

\* TerminalWaitPodReady, on what was read: the pod is back when it exists, as
\* another incarnation, and is ready; so it is when there is no pod at all.
NoneFound == \A p \in Pod : ~Exists(got[p])

\* And a mutant: the incarnations are not compared.
PodIsThere == IsPodReady(got[cur])
PodIsBack ==
  NoneFound \/ (got[cur].uid # before[cur].uid /\ IsPodReady(got[cur]))

PodBack == /\ pc = "wait" /\ look > N /\ PodIsBack
           /\ pc' = "loop" /\ cur' = cur + 1
           /\ got' = NothingRead
           /\ misjudged' = IF NoneFound THEN misjudged \union {cur}
                                         ELSE misjudged
           /\ UNCHANGED <<look, before, calls, hurt, Env>>

PodNotBack == /\ pc = "wait" /\ look > N /\ ~PodIsBack
              /\ pc' = "check" /\ got' = NothingRead
              /\ UNCHANGED <<look, before, cur, calls, judged, Env>>

\* The body of the waiting loop: the deadline has passed, or it sleeps and looks
\* again.
LookAgain == /\ pc' = "wait" /\ look' = 1 /\ got' = NothingRead
             /\ UNCHANGED <<before, cur, judged>>
WaitOn == /\ pc = "check"
          /\ End("failed") \/ LookAgain
          /\ UNCHANGED <<calls, Env>>

Return == /\ pc = "loop" /\ cur > N
          /\ End("done")
          /\ UNCHANGED <<calls, Env>>
-----------------------------------------------------------------------------
Operator == \/ Call \/ CheckPod \/ CheckFails \/ Begin \/ NotReady \/ DeletePod
            \/ DeleteFails \/ PodBack \/ PodNotBack \/ WaitOn \/ Return

Next == \/ Operator
        \/ \E p \in Pod : \/ Recreate(p) \/ BecomeReady(p) \/ Vanish(p)
                          \/ Break(p) \/ Evict(p) \/ Deliver(p)

Spec == Init /\ [][Next]_vars
-----------------------------------------------------------------------------
Renewed(p) == \/ pod[p].phase \in {"none", "terminating", "ending"}
              \/ pod[p].uid > old[p]

\* A Restart that ends without an error has restarted every pod: none of those
\* the cache showed when it was asked for first runs on, however often it
\* failed and whatever was evicted meanwhile.
AllRenewed == pc = "done" => \A p \in Pod : Renewed(p)

\* One call takes down one pod at a time: when Restart deletes a pod, all the
\* others are ready, but for those that were broken or evicted since the call
\* began and those it misjudged (read at its start in a copy that was not right
\* any more or while they were terminating, or not waited for as no pod was
\* found).  A pod that an earlier call deleted is excepted only where this call
\* misjudged it.
OneAtATime ==
  [][DeletePod => \A p \in Pod \ (hurt \union misjudged \union {cur}) :
                    pod[p].phase = "ready"]_vars

\* The comment of the readiness check promises more: a pod that is not ready is
\* waited for (buildin_resource_client.go:292).  Pods that went down since then
\* are not its business.
OthersAreUp ==
  [][DeletePod => \A p \in Pod \ (hurt \union {cur}) :
                    pod[p].phase = "ready"]_vars

\* What Restart promises, see RollingRestart: it implements it, stale reads,
\* failures, breakdowns and evictions included.
Phase == IF Running THEN "running" ELSE pc
Promise == INSTANCE RollingRestart WITH
  phase <- Phase, up <- {p \in Pod : pod[p].phase = "ready"},
  outdated <- {p \in Pod : ~Renewed(p)}, excused <- hurt \union misjudged
Implements == Promise!Spec
=============================================================================
