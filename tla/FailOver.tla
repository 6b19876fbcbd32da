------------------------------- MODULE FailOver -------------------------------
(***************************************************************************)
(* Failing over the crashed pods of one StatefulSet                        *)
(* (kernel/util/buildin_resource_client.go, FailOver and Restart with      *)
(* failOver = true): mark the set with RECOVERY_MODE, delete each crashed  *)
(* pod together with its claim so that both come up on another node, wait  *)
(* for it, and take the mark back.                                         *)
(*                                                                         *)
(* Around one call stands the part of a reconcile that decides about it: a *)
(* set that still carries the mark differs from the desired one, so that   *)
(* the next reconcile creates it again and restarts its pods.  Creating a  *)
(* set again and restarting all pods are one step each here; Reconcile and *)
(* PodRestart have their detail.                                           *)
(***************************************************************************)
EXTENDS Naturals, FiniteSetsExt

CONSTANTS N,           \* replicas
          MaxCrashes,  \* bound: pods that crash, unless more are down at first
          MaxTouches,  \* bound: writes of the set's status
          MaxFaults    \* bound: failed requests and crashes of the operator

ASSUME ReplicasAssumption == N \in Nat \ {0}
ASSUME LimitAssumption ==
  MaxCrashes \in Nat /\ MaxTouches \in Nat /\ MaxFaults \in Nat

Pod == 1..N

VARIABLES
  pod,       \* the pods in the API server
  claim,     \* the claim of each pod's name
  cached,    \* the phase of the operator's copy of each pod
  behind,    \* the pods whose copy is of an earlier incarnation
  set,       \* the set in the API server carries RECOVERY_MODE
  seen,      \* the operator's copy of the set does
  seenFresh, \* that copy is the current version of the set
  pc,        \* where the reconcile is
  my,        \* the set being worked on is the current version
  failOvers, \* the pods found crashed
  todo,      \* those not failed over yet
  cur,       \* the pod being failed over
  changed,   \* the cache has shown another incarnation since it was read
  pending,   \* the status asks for a Restart of all pods
  crashes, touches, faults,  \* what is used up of the bounds
  old,       \* history: pods whose claim is the one the call began with
  wiped      \* history: pods whose claim this call deleted

cluster == <<pod, claim>>
counters == <<crashes, touches, faults>>
call == <<failOvers, todo, cur, changed, old, wiped>>
vars == <<cluster, cached, behind, set, seen, seenFresh, pc, my, call, pending,
          counters>>
-----------------------------------------------------------------------------
(* Pods and claims.                                                        *)

Phase == {"none", "pending", "stuck", "ready", "crashed"}
ClaimState == {"none", "bound", "terminating"}

Exists(phase) == phase # "none"
IsPodReady(phase) == phase = "ready"

\* IsPodCrash: not ready, and older than the restart timeout.
IsPodCrash(phase) == phase \in {"stuck", "crashed"}

\* A claim is protected while a pod that was scheduled mounts it.
InUse(p) == pod[p].phase \in {"ready", "crashed"}

Majority == N \div 2 + 1
-----------------------------------------------------------------------------
\* The operator starts while any of the pods are down.
Init ==
  /\ \E down \in SUBSET Pod :
       /\ pod = [p \in Pod |->
                   [phase |-> IF p \in down THEN "crashed" ELSE "ready",
                    dying |-> FALSE]]
       /\ crashes = Cardinality(down)
  /\ claim = [p \in Pod |-> "bound"]
  /\ cached = [p \in Pod |-> pod[p].phase] /\ behind = {}
  /\ set = FALSE /\ seen = FALSE /\ seenFresh = TRUE
  /\ pc = "idle" /\ my = FALSE
  /\ failOvers = {} /\ todo = {} /\ cur = 1 /\ changed = FALSE
  /\ pending = FALSE
  /\ touches = 0 /\ faults = 0
  /\ old = {} /\ wiped = {}
-----------------------------------------------------------------------------
(* The cluster.                                                            *)

Env == <<cluster, cached, behind, crashes, touches>>

\* Between two calls nothing is remembered.  And a mutant: the pods of the last
\* call are.
LastCall == /\ failOvers' = {} /\ todo' = {} /\ cur' = 1
            /\ changed' = FALSE /\ UNCHANGED <<old, wiped>>
NoCall == /\ failOvers' = {} /\ todo' = {} /\ cur' = 1
          /\ changed' = FALSE /\ old' = {} /\ wiped' = {}

\* What a step of the cluster leaves alone of the operator.
Operator == <<cached, set, seen, seenFresh, pc, my, pending, failOvers, todo,
              cur, changed, wiped>>

\* The StatefulSet controller creates a missing pod, and its claim if there is
\* none.
Recreate(p) ==
  /\ pod[p].phase = "none"
  /\ pod' = [pod EXCEPT ![p].phase = "pending"]
  /\ behind' = behind \union {p}
  /\ IF claim[p] = "none"
     THEN claim' = [claim EXCEPT ![p] = "bound"] /\ old' = old \ {p}
     ELSE UNCHANGED <<claim, old>>
  /\ UNCHANGED <<Operator, counters>>

\* A pod turns from one phase to another.
Turns(p, from, to) ==
  /\ pod[p].phase \in from /\ ~pod[p].dying
  /\ pod' = [pod EXCEPT ![p].phase = to]
  /\ UNCHANGED <<claim, behind, old, Operator, touches, faults>>

\* A pod is scheduled, if its claim is there and not being deleted, and gets
\* ready.
Boot(p) == /\ claim[p] = "bound"
           /\ Turns(p, {"pending", "stuck"}, "ready") /\ UNCHANGED crashes

\* A pod that cannot be scheduled gets older than the restart timeout.
Age(p) == /\ claim[p] # "bound"
          /\ Turns(p, {"pending"}, "stuck") /\ UNCHANGED crashes

Break(p) == /\ crashes < MaxCrashes /\ crashes' = crashes + 1
            /\ Turns(p, {"ready"}, "crashed")

Heal(p) == Turns(p, {"crashed"}, "ready") /\ UNCHANGED crashes

Vanish(p) == /\ pod[p].dying
             /\ pod' = [pod EXCEPT ![p] = [phase |-> "none", dying |-> FALSE]]
             /\ UNCHANGED <<claim, behind, old, Operator, counters>>

FreeClaim(p) == /\ claim[p] = "terminating" /\ ~InUse(p)
                /\ claim' = [claim EXCEPT ![p] = "none"]
                /\ UNCHANGED <<pod, behind, old, Operator, counters>>

\* The informers.
Deliver(p) ==
  /\ cached[p] # pod[p].phase \/ p \in behind
  /\ cached' = [cached EXCEPT ![p] = pod[p].phase]
  /\ behind' = behind \ {p}
  /\ changed' = (changed \/ (p = cur /\ p \in behind))
  /\ UNCHANGED <<cluster, set, seen, seenFresh, pc, my, failOvers, todo, cur,
                 old, wiped, pending, counters>>

DeliverSet == /\ ~seenFresh
              /\ seen' = set /\ seenFresh' = TRUE
              /\ UNCHANGED <<cluster, cached, behind, set, pc, my, call, pending,
                             counters>>

\* The StatefulSet controller writes the status of the set: copies of it carry
\* an old resourceVersion from now on.
Touch == /\ touches < MaxTouches /\ touches' = touches + 1
         /\ seenFresh' = FALSE /\ my' = FALSE
         /\ UNCHANGED <<cluster, cached, behind, set, seen, pc, call, pending,
                        crashes, faults>>

Fault == faults < MaxFaults /\ faults' = faults + 1
NoFault == faults' = faults

\* The operator dies and starts again with fresh copies.
Crash == /\ pc # "idle" /\ Fault
         /\ pc' = "idle"
         /\ cached' = [p \in Pod |-> pod[p].phase] /\ behind' = {}
         /\ seen' = set /\ seenFresh' = TRUE
         /\ my' = FALSE /\ NoCall
         /\ UNCHANGED <<cluster, set, pending, crashes, touches>>
-----------------------------------------------------------------------------
(* The reconcile around a call.                                            *)

\* A mutant of Marked: the fingerprint leaves the environment out.
EnvIsIgnored == FALSE
\* The observed set has RECOVERY_MODE, which the desired one has not.
Marked == seen

\* A marked set is changed: it is created again and its pods are restarted.
\* Otherwise Visitation checks for crashed pods.
Plan ==
  /\ pc = "idle"
  /\ pc' = IF Marked THEN "recreate" ELSE "look"
  /\ pending' = (pending \/ Marked)
  /\ my' = seenFresh
  /\ NoCall
  /\ UNCHANGED <<Env, set, seen, seenFresh, faults>>

\* The delete of ReCreate names the version that was observed.
ReCreate ==
  /\ pc = "recreate"
  /\ \/ /\ my /\ NoFault
        /\ set' = FALSE /\ seen' = FALSE /\ seenFresh' = TRUE
        /\ pc' = "restart"
     \/ /\ IF my THEN Fault ELSE NoFault
        /\ pc' = "idle"
        /\ UNCHANGED <<set, seen, seenFresh>>
  /\ UNCHANGED <<Env, my, call, pending>>

\* Restart with failOver = false, for all pods (PodRestart): it renews one pod
\* after the other if all are ready, and gives up otherwise.
RestartAll ==
  /\ pc = "restart"
  /\ pc' = "idle"
  /\ LET sound(p) == /\ IsPodReady(pod[p].phase) /\ ~pod[p].dying
                     /\ claim[p] = "bound" /\ p \notin behind
                     /\ IsPodReady(cached[p])
     IN  pending' = ~(\A p \in Pod : sound(p))
  /\ UNCHANGED <<Env, set, seen, seenFresh, my, call, faults>>

\* What follows FailOver in the list of commands; a failure drops it.
After(ok) == IF ok /\ pending THEN "restart" ELSE "idle"
-----------------------------------------------------------------------------
(* FailOver.                                                               *)

\* How many crashed pods are failed over, and a mutant: half of the pods and
\* one.
UpToMajority(n) == 0 < n /\ n <= Majority
IsMinority(n) == 0 < n /\ n < Majority

\* The pods are looked at: all of them have to be there, and fewer than a
\* majority crashed.
Look ==
  /\ pc = "look"
  /\ LET found == {p \in Pod : IsPodCrash(cached[p])} IN
       IF (\A p \in Pod : Exists(cached[p])) /\ IsMinority(Cardinality(found))
       THEN pc' = "mode" /\ failOvers' = found
       ELSE pc' = After(TRUE) /\ failOvers' = {}
  /\ todo' = failOvers'
  /\ old' = failOvers' /\ wiped' = {}
  /\ UNCHANGED <<Env, set, seen, seenFresh, my, cur, changed, pending, faults>>

\* A read of the pods fails.
LookFails == /\ pc = "look" /\ Fault
             /\ pc' = After(FALSE)
             /\ UNCHANGED <<Env, set, seen, seenFresh, my, call, pending>>

\* An Update of the set that conflicts, or whose answer gets lost.
Refused(mode) ==
  \/ /\ ~my /\ NoFault
     /\ UNCHANGED <<set, seenFresh>>
  \/ /\ my /\ Fault
     /\ \/ UNCHANGED <<set, seenFresh>>
        \/ set' = mode /\ seenFresh' = FALSE

\* Update of the set with RECOVERY_MODE = true.
SetMode ==
  /\ pc = "mode"
  /\ \/ /\ my /\ NoFault
        /\ set' = TRUE /\ seenFresh' = FALSE
        /\ pc' = "begin"
     \/ /\ Refused(TRUE)
        /\ pc' = After(FALSE)
  /\ UNCHANGED <<Env, seen, my, call, pending>>

\* Restart looks at the crashed pods again.  Its error is overwritten by what
\* follows: whatever happens, the mark is taken back next.
Begin ==
  /\ pc = "begin"
  /\ \/ /\ pc' = IF \A p \in failOvers : Exists(cached[p])
                 THEN "loop" ELSE "reset"
        /\ NoFault
     \/ pc' = "reset" /\ Fault
  /\ UNCHANGED <<Env, set, seen, seenFresh, my, call, pending>>

\* A pod that was not scheduled goes at once, another one has to end first.
Kill(p) == [pod EXCEPT ![p] =
              IF InUse(p) THEN [@ EXCEPT !.dying = TRUE]
              ELSE [phase |-> "none", dying |-> FALSE]]

\* The first deletion of the pod; its error is not looked at.  Ordered decides
\* which pod is next: the oldest that still counts as crashed.
DeletePod(p) ==
  /\ pc = "loop" /\ p \in todo
  /\ \/ pod' = Kill(p) /\ NoFault
     \/ UNCHANGED pod /\ Fault
  /\ pc' = "gone" /\ cur' = p
  /\ UNCHANGED <<claim, cached, behind, crashes, touches, set, seen, seenFresh,
                 my, failOvers, todo, changed, old, wiped, pending>>

\* One Get decides: a pod that is found is not waited for, one that is not
\* found is waited for until the deadline.  A Get that fails leaves the pod as
\* it was read before.
ReadPod ==
  /\ pc = "gone"
  /\ \/ /\ pc' = IF Exists(cached[cur]) THEN "claim" ELSE "spin"
        /\ changed' = FALSE /\ NoFault
     \/ pc' = "claim" /\ changed' \in BOOLEAN /\ Fault
  /\ UNCHANGED <<Env, set, seen, seenFresh, my, failOvers, todo, cur, old,
                 wiped, pending>>

\* The loop around a Get that is not made again ends at its deadline only.  And
\* a mutant: the deadline is not looked at.
SpinForever == pc = "spin" /\ UNCHANGED vars
Spin == /\ pc = "spin"
        /\ pc' = "reset"
        /\ UNCHANGED <<Env, set, seen, seenFresh, my, call, pending, faults>>

\* The claim is deleted.  One that is missing is no error, and neither is
\* waited for: the loop after the deletion tests the deletion's own answer, in
\* which IgnoreNotFound left nothing to find.
DeleteClaim ==
  /\ pc = "claim"
  /\ \/ /\ claim[cur] # "none"
        /\ claim' = [claim EXCEPT ![cur] = "terminating"]
        /\ wiped' = wiped \union {cur}
        /\ \/ pc' = "again" /\ NoFault
           \/ pc' = "reset" /\ Fault
     \/ /\ claim[cur] = "none" /\ NoFault
        /\ pc' = "again"
        /\ UNCHANGED <<claim, wiped>>
     \/ /\ Fault
        /\ pc' = "reset"
        /\ UNCHANGED <<claim, wiped>>
  /\ UNCHANGED <<pod, cached, behind, crashes, touches, set, seen, seenFresh,
                 my, failOvers, todo, cur, changed, old, pending>>

\* A mutant of DeleteAgain: the pod was deleted before.
DeletedBefore ==
  /\ pc = "again"
  /\ pc' = "wait"
  /\ UNCHANGED <<Env, set, seen, seenFresh, my, failOvers, todo, cur, changed,
                 old, wiped, pending, faults>>

\* The second deletion, of whatever has the pod's name by now.  That nothing
\* has it is no error (IgnoreNotFound): the call goes on to wait for the pod.
DeleteAgain ==
  /\ pc = "again"
  /\ \/ /\ pod' = IF Exists(pod[cur].phase) THEN Kill(cur) ELSE pod
        /\ \/ pc' = "wait" /\ NoFault
           \/ pc' = "reset" /\ Fault
     \/ /\ pc' = "reset" /\ Fault
        /\ UNCHANGED pod
  /\ UNCHANGED <<claim, cached, behind, crashes, touches, set, seen, seenFresh,
                 my, failOvers, todo, cur, changed, old, wiped, pending>>

\* TerminalWaitPodReady among the crashed pods.
PodIsBack ==
  \/ \A p \in failOvers : ~Exists(cached[p])
  \/ changed /\ IsPodReady(cached[cur])

PodBack ==
  /\ pc = "wait" /\ PodIsBack
  /\ todo' = todo \ {cur}
  /\ pc' = IF todo' = {} THEN "reset" ELSE "loop"
  /\ UNCHANGED <<Env, set, seen, seenFresh, my, failOvers, cur, changed,
                 old, wiped, pending, faults>>

\* The deadline passes.
PodNotBack ==
  /\ pc = "wait" /\ ~PodIsBack
  /\ pc' = "reset"
  /\ UNCHANGED <<Env, set, seen, seenFresh, my, call, pending, faults>>

\* The set is read again, from the cache; on an error the old copy is used.
ReadSet ==
  /\ pc = "reset"
  /\ pc' = "unset"
  /\ \/ my' = seenFresh /\ NoFault
     \/ my' = my /\ Fault
  /\ UNCHANGED <<Env, set, seen, seenFresh, call, pending>>

\* Update of the set without RECOVERY_MODE.
UnsetMode ==
  /\ pc = "unset"
  /\ \/ /\ my /\ NoFault
        /\ set' = FALSE /\ seenFresh' = FALSE
        /\ pc' = After(TRUE)
     \/ /\ Refused(FALSE)
        /\ pc' = After(FALSE)
  /\ UNCHANGED <<Env, seen, my, call, pending>>
-----------------------------------------------------------------------------
Work == \/ Plan \/ ReCreate \/ RestartAll
        \/ Look \/ LookFails \/ SetMode \/ Begin
        \/ (\E p \in Pod : DeletePod(p)) \/ ReadPod \/ Spin \/ DeleteClaim
        \/ DeleteAgain \/ PodBack \/ PodNotBack \/ ReadSet \/ UnsetMode

Cluster(p) == \/ Recreate(p) \/ Boot(p) \/ Age(p) \/ Break(p) \/ Heal(p)
              \/ Vanish(p) \/ FreeClaim(p)

Next == \/ Work \/ Touch \/ Crash \/ DeliverSet
        \/ \E p \in Pod : Cluster(p) \/ Deliver(p)

Spec == Init /\ [][Next]_vars

\* The reconcile goes on, its deadlines included, and the informer of the set
\* delivers.  What may leave the mark is an error or a crash, and a reconcile
\* comes again after both: an error is queued again, and so is every resource
\* when the operator starts; the status that changes from failed to successful
\* is one more event.  That the informer delivers before the last of these
\* reconciles is assumed.  Nothing is expected of pods and claims.
FairSpec == Spec /\ WF_vars(Work) /\ WF_vars(DeliverSet)
-----------------------------------------------------------------------------
TypeOK ==
  /\ pod \in [Pod -> [phase : Phase, dying : BOOLEAN]]
  /\ claim \in [Pod -> ClaimState]
  /\ cached \in [Pod -> Phase] /\ behind \in SUBSET Pod
  /\ set \in BOOLEAN /\ seen \in BOOLEAN /\ seenFresh \in BOOLEAN
  /\ pc \in {"idle", "recreate", "restart", "look", "mode", "begin", "loop",
             "gone", "spin", "claim", "again", "wait", "reset", "unset"}
  /\ my \in BOOLEAN /\ pending \in BOOLEAN
  /\ failOvers \in SUBSET Pod /\ todo \in SUBSET failOvers
  /\ cur \in Pod /\ changed \in BOOLEAN
  /\ crashes \in Nat /\ touches \in 0..MaxTouches
  /\ faults \in 0..MaxFaults
  /\ old \in SUBSET Pod /\ wiped \in SUBSET failOvers

\* One call never deletes the claims of a majority: whatever a majority of the
\* replicas had stored is still there.
QuorumSurvives == Cardinality(wiped) < Majority

\* A pod that was failed over does not run on the claim it had, even where the
\* StatefulSet controller was faster than the deletion of the claim and had
\* mounted it again.
OffTheOldClaim ==
  \A p \in failOvers \ todo : InUse(p) /\ ~pod[p].dying => p \notin old

\* The set does not keep RECOVERY_MODE: where FailOver fails to take it back,
\* or dies, the next reconcile does.
ModeIsReset == set ~> ~set

\* FailOver always comes back to the reconcile that called it.
Returns == pc = "mode" ~> pc = "idle"
=============================================================================
