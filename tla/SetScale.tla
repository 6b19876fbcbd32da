------------------------------- MODULE SetScale -------------------------------
(***************************************************************************)
(* Changing the replicas and the size of the claims of one StatefulSet     *)
(* (kernel/handler/category_statefulset_handler.go, kernel/util/pvc_util.go *)
(* and ReCreate of kernel/util/buildin_resource_client.go, step by step).  *)
(*                                                                         *)
(* A set with claims is never updated: it is deleted without its pods and  *)
(* created again, with one replica more or less per reconcile, after its   *)
(* claims were grown; claims beyond the replicas are deleted afterwards.   *)
(* An autoscaler writes the replicas as well, and the operator reads the   *)
(* set and the claims through a cache.  It runs when it is queued: by an   *)
(* edit, an error, or the status it has written itself; a change of the set *)
(* is no event.  Pods are modelled in PodRestart and FailOver.             *)
(***************************************************************************)
EXTENDS Integers, FiniteSets

CONSTANTS First,      \* there are more than First replicas at all times
          Last,       \* the highest ordinal
          MaxSize,    \* the largest size of a claim
          Limit,      \* the limit of a claim template that asks for no more
          Expandable, \* the storage class allows claims to grow
          Unstable,   \* the fingerprint may differ though nothing was edited
          MaxEdits,   \* bound: edits of the user
          MaxScales,  \* bound: writes of the autoscaler
          MaxFaults   \* bound: failed requests, deadlines, crashes

ASSUME OrdinalAssumption ==
  First \in Nat /\ Last \in Nat /\ First <= Last /\ Last < 100
ASSUME SizeAssumption == MaxSize \in Nat \ {0} /\ Limit \in Nat \ {0}
ASSUME FlagAssumption == Expandable \in BOOLEAN /\ Unstable \in BOOLEAN
ASSUME LimitAssumption ==
  MaxEdits \in Nat /\ MaxScales \in Nat /\ MaxFaults \in Nat

Ordinal == First..Last
Replicas == (First + 1)..(Last + 1)
Size == 1..MaxSize  \* of a claim, and of the set's claim template

VARIABLES
  want,      \* replicas and size in the custom resource
  set,       \* the set in the API server; when it is not there, the last one
  seen,      \* the operator's copy of it
  fresh,     \* the copy has the current resourceVersion
  claims,    \* the size of each ordinal's claim, 0: there is none
  cached,    \* the same as the operator's cache shows it
  lag,       \* claims whose copy in the cache is not the current one
  queued,    \* the custom resource is in the work queue
  pc,        \* where the reconcile is
  target,    \* the set it is about to create
  my,        \* the copy it works on has the current resourceVersion
  tail,      \* its command list ends with Recycle
  made,      \* it has created the set
  shown,     \* the cache has shown it the set it created
  todo,      \* claims it has listed and still has to grow, or to delete
  old,       \* those of them of which it holds a copy that is not current
  left,      \* history: claims the last enlargement left out
  unnoticed, \* history: see Unnoticed
  edits, scales, faults  \* what is used up of the bounds

SetType == [there : {"yes", "deleting", "no"}, replicas : Replicas, size : Size]

cluster == <<set, seen, fresh>>
volumes == <<claims, cached, lag>>
operator == <<pc, target, my, tail, made, shown, todo, old>>
history == <<left, unnoticed>>
bounds == <<edits, scales, faults>>
vars == <<want, cluster, volumes, queued, operator, history, bounds>>
-----------------------------------------------------------------------------
There(s) == s.there # "no"
Member(s) == {i \in Ordinal : i < s.replicas}
Claims == {i \in Ordinal : claims[i] # 0}

\* PvcList reads the cache.
Listed == {i \in Ordinal : cached[i] # 0}

\* One step from the observed replicas to the desired ones.  Mutants: the
\* wrong way; only down.
WrongWay(from, to) == IF from > to THEN from + 1
                      ELSE IF from < to THEN from - 1 ELSE from
OnlyDown(from, to) == IF from > to THEN from - 1 ELSE from
OneStepTo(from, to) == IF from > to THEN from - 1
                       ELSE IF from < to THEN from + 1 ELSE from

\* sort.Slice on the names: "pvc-zk-9" follows "pvc-zk-10".
NameLess(i, j) ==
  LET d(k) == IF k < 10 THEN <<k, 0>> ELSE <<k \div 10, 1 + (k % 10)>> IN
  \/ d(i)[1] < d(j)[1]
  \/ d(i)[1] = d(j)[1] /\ d(i)[2] < d(j)[2]

\* The claims beyond the first n in the list, highest names first.
Beyond(n) ==
  LET all == 0..(First - 1) \union Listed IN
  {i \in Listed : Cardinality({j \in all : NameLess(i, j)}) + n < Cardinality(all)}

Init ==
  /\ want \in [replicas : Replicas, size : {1}]
  /\ set = [there |-> "yes", replicas |-> want.replicas, size |-> 1]
  /\ seen = set /\ fresh = TRUE
  /\ claims = [i \in Ordinal |-> IF i < want.replicas THEN 1 ELSE 0]
  /\ cached = claims /\ lag = {}
  /\ queued = FALSE
  /\ pc = "idle" /\ target = set /\ my = FALSE /\ tail = FALSE
  /\ made = FALSE /\ shown = FALSE /\ todo = {} /\ old = {}
  /\ left = {} /\ unnoticed = FALSE
  /\ edits = 0 /\ scales = 0 /\ faults = 0
-----------------------------------------------------------------------------
(* The user, the autoscaler, and the cluster.                              *)

\* The controller watches the custom resource.
Edit == /\ edits < MaxEdits /\ edits' = edits + 1
        /\ want' \in [replicas : Replicas, size : Size] \ {want}
        /\ queued' = TRUE
        /\ UNCHANGED <<cluster, volumes, operator, history, scales, faults>>

\* The set changes: every copy of it is old.
Outdate == fresh' = FALSE /\ my' = FALSE

\* Nobody watches the set.
Autoscale == /\ scales < MaxScales /\ scales' = scales + 1
             /\ set.there = "yes"
             /\ \E n \in Replicas \ {set.replicas} :
                  set' = [set EXCEPT !.replicas = n]
             /\ Outdate
             /\ unnoticed' = TRUE
             /\ UNCHANGED <<want, seen, volumes, queued, pc, target, tail, made,
                            shown, todo, old, left, edits, faults>>

\* Claim i changes: every copy of it is old.
SetClaim(i, size) == /\ claims' = [claims EXCEPT ![i] = size]
                     /\ lag' = lag \union {i}

\* The StatefulSet controller creates a claim with its pod.
CreateClaim(i) ==
  /\ set.there = "yes" /\ i \in Member(set) /\ claims[i] = 0
  /\ SetClaim(i, set.size)
  /\ left' = IF pc \in {"grow", "delete"} THEN left \union {i} ELSE left
  /\ UNCHANGED <<want, cluster, cached, queued, operator, unnoticed, bounds>>

\* The garbage collector lets go of a set whose pods are orphaned.
Orphan == /\ set.there = "deleting"
          /\ set' = [set EXCEPT !.there = "no"]
          /\ Outdate
          /\ UNCHANGED <<want, seen, volumes, queued, pc, target, tail, made,
                         shown, todo, old, history, bounds>>

\* The informers bring the cache up to date.
Deliver == /\ ~fresh
           /\ seen' = set /\ fresh' = TRUE
           /\ shown' = made
           /\ UNCHANGED <<want, set, volumes, queued, pc, target, my, tail, made,
                          todo, old, history, bounds>>

DeliverClaim(i) ==
  /\ i \in lag /\ lag' = lag \ {i}
  /\ cached' = [cached EXCEPT ![i] = claims[i]]
  /\ UNCHANGED <<want, cluster, claims, queued, operator, history, bounds>>
-----------------------------------------------------------------------------
(* The operator: one reconcile of the set and of its claims.               *)

Fault == faults < MaxFaults /\ faults' = faults + 1

End == /\ pc' = "idle" /\ target' = set /\ my' = FALSE /\ tail' = FALSE
       /\ made' = FALSE /\ shown' = FALSE /\ todo' = {} /\ old' = {}

\* A crash of the operator, a request that fails, or ReCreate's deadline.  The
\* custom resource is queued again: for the error, or by the operator's start.
Fail == /\ pc # "idle" /\ Fault
        /\ End
        /\ queued' = TRUE
        /\ unnoticed' = (unnoticed \/ pc \in {"create", "look"})
        /\ UNCHANGED <<want, cluster, volumes, left, edits, scales>>

\* All lines of the claims carry the name of the last one, so that it alone
\* tells whether Visitation or PreApply (which does nothing) is called.
ClaimsUnchanged == cached[want.replicas - 1] = want.size

\* ValidatePersistentVolumeClaim: claims may only grow, and no further than the
\* limit of the template there is.
Enlarged(s) == want.size > s.size
Refused(s) == want.size < s.size \/ (Enlarged(s) /\ want.size > Limit)

\* What the pipeline decides from the copy.  What is Refused stays a plain
\* Update of the claim templates, which the API server does not allow: nothing
\* changes, and the custom resource is queued again for the error.  Otherwise
\* the status, which is not the one before, queues it; a calm reconcile may
\* have the same status as the one before.
PlanCreate ==
  /\ ~There(seen)
  /\ pc' = "make"
  /\ target' = [there |-> "yes", replicas |-> want.replicas, size |-> want.size]
  /\ queued' = TRUE
PlanReCreate ==
  /\ There(seen) /\ ~Refused(seen)
  /\ Enlarged(seen) \/ want.replicas # seen.replicas \/ Unstable
  /\ pc' = IF Enlarged(seen) THEN "list" ELSE "delete"
  /\ target' = [there |-> "yes", size |-> want.size,
                replicas |-> OneStepTo(seen.replicas, want.replicas)]
  /\ queued' = TRUE
PlanCalm ==
  /\ There(seen)
  /\ want.size = seen.size /\ want.replicas = seen.replicas
  /\ pc' = "recycle"
  /\ queued' \in BOOLEAN
  /\ UNCHANGED target
Plan ==
  /\ pc = "idle" /\ queued
  /\ PlanCreate \/ PlanReCreate \/ PlanCalm
  /\ my' = fresh /\ tail' = ClaimsUnchanged
  /\ unnoticed' = (unnoticed /\ ~(fresh /\ set.there # "deleting"))
  /\ UNCHANGED <<want, cluster, volumes, made, shown, todo, old, left, bounds>>

\* The callback of RollingUpdate lists the claims.
ListClaims ==
  /\ pc = "list" /\ pc' = "grow"
  /\ todo' = Listed /\ old' = Listed \intersect lag
  /\ left' = Claims \ Listed
  /\ UNCHANGED <<want, cluster, volumes, queued, target, my, tail, made, shown,
                 unnoticed, bounds>>

\* The API server takes an Update of the current copy to no smaller size, and
\* to a larger one if the storage class allows it.
Accepts(i) == /\ i \notin old /\ claims[i] # 0
              /\ claims[i] = target.size \/ (claims[i] < target.size /\ Expandable)

\* The callback updates the claims one by one.  The first error ends it and is
\* dropped; so was the one of the storage class before.
Grow(i) ==
  /\ pc = "grow" /\ i \in todo /\ Accepts(i)
  /\ SetClaim(i, target.size)
  /\ todo' = todo \ {i}
  /\ UNCHANGED <<want, cluster, cached, queued, pc, target, my, tail, made, shown,
                 old, history, bounds>>

GrowFails ==
  /\ pc = "grow" /\ todo # {}
  /\ \/ Fault
     \/ UNCHANGED faults /\ \E i \in todo : ~Accepts(i)
  /\ pc' = "delete" /\ todo' = {} /\ old' = {} /\ left' = left \union todo
  /\ UNCHANGED <<want, cluster, volumes, queued, target, my, tail, made, shown,
                 unnoticed, edits, scales>>

Grown == /\ pc = "grow" /\ todo = {} /\ pc' = "delete" /\ old' = {}
         /\ UNCHANGED <<want, cluster, volumes, queued, target, my, tail, made,
                        shown, todo, history, bounds>>

\* Mutants: the set is deleted before its claims are grown; no precondition.
DeleteEarly ==
  /\ pc \in {"grow", "delete"}
  /\ \/ /\ ~There(set) /\ UNCHANGED <<set, fresh, my>>
     \/ /\ There(set) /\ my
        /\ set' = [set EXCEPT !.there = "deleting"] /\ Outdate
  /\ pc' = "create" /\ todo' = {} /\ old' = {}
  /\ UNCHANGED <<want, seen, volumes, queued, target, tail, made, shown, history,
                 bounds>>
DeleteAny ==
  /\ pc = "delete"
  /\ \/ /\ ~There(set) /\ UNCHANGED <<set, fresh, my>>
     \/ /\ There(set)
        /\ set' = [set EXCEPT !.there = "deleting"] /\ Outdate
  /\ pc' = "create"
  /\ UNCHANGED <<want, seen, volumes, queued, target, tail, made, shown, todo, old,
                 history, bounds>>

\* ReCreate deletes the set it was shown, and no other; NotFound is fine.
DeleteSet ==
  /\ pc = "delete"
  /\ \/ /\ ~There(set) /\ UNCHANGED <<set, fresh, my>>
     \/ /\ There(set) /\ my
        /\ set' = [set EXCEPT !.there = "deleting"] /\ Outdate
  /\ pc' = "create"
  /\ UNCHANGED <<want, seen, volumes, queued, target, tail, made, shown, todo, old,
                 history, bounds>>

Conflict == /\ pc = "delete" /\ There(set) /\ ~my
            /\ End
            /\ UNCHANGED <<want, cluster, volumes, queued, history, bounds>>

CreateSet == /\ pc = "create" /\ set.there = "no"
             /\ set' = target /\ Outdate
             /\ pc' = "look" /\ made' = TRUE
             /\ UNCHANGED <<want, seen, volumes, queued, target, tail, shown,
                            todo, old, history, bounds>>

\* Once the cache shows another set than the deleted one, ReCreate returns.
\* A mutant: it does not wait for the cache.
LookOnce == /\ pc = "look" /\ pc' = "recycle"
            /\ UNCHANGED <<want, cluster, volumes, queued, target, my, tail, made,
                           shown, todo, old, history, bounds>>
LookSet == /\ pc = "look" /\ shown /\ There(seen)
           /\ pc' = "recycle"
           /\ UNCHANGED <<want, cluster, volumes, queued, target, my, tail, made,
                          shown, todo, old, history, bounds>>

\* Create when there was no set: all replicas at once, and the cache is not
\* waited for, nor are claims grown.  AlreadyExists is no error.
MakeSet == /\ pc = "make" /\ pc' = "recycle"
           /\ IF There(set)
                THEN UNCHANGED <<set, fresh, my>>
                ELSE set' = target /\ Outdate
           /\ UNCHANGED <<want, seen, volumes, queued, target, tail, made, shown,
                          todo, old, history, bounds>>

\* The callback of Recycle counts the replicas of the cached set, none when it
\* is not found, and deletes the cached claims beyond them one by one.
Recycle ==
  /\ pc = "recycle" /\ tail
  /\ pc' = "drop"
  /\ todo' = Beyond(IF There(seen) THEN seen.replicas ELSE 0)
  /\ UNCHANGED <<want, cluster, volumes, queued, target, my, tail, made, shown,
                 old, history, bounds>>

Highest(i) == i \in todo /\ \A j \in todo \ {i} : NameLess(j, i)

Drop(i) ==
  /\ pc = "drop" /\ Highest(i) /\ claims[i] # 0
  /\ SetClaim(i, 0)
  /\ todo' = todo \ {i}
  /\ UNCHANGED <<want, cluster, cached, queued, pc, target, my, tail, made, shown,
                 old, history, bounds>>

\* A claim that is gone already, or a request that fails: the callback ends,
\* and its error is dropped.
DropFails == /\ \/ pc = "drop" /\ UNCHANGED faults
                   /\ \E i \in todo : Highest(i) /\ claims[i] = 0
                \/ pc \in {"recycle", "drop"} /\ tail /\ Fault
             /\ End
             /\ UNCHANGED <<want, cluster, volumes, queued, history, edits, scales>>

Done == /\ \/ pc = "recycle" /\ ~tail
           \/ pc = "drop" /\ todo = {}
        /\ End
        /\ UNCHANGED <<want, cluster, volumes, queued, history, bounds>>

Reconcile == \/ Plan \/ ListClaims \/ GrowFails \/ Grown \/ DeleteSet \/ Conflict
             \/ CreateSet \/ LookSet \/ MakeSet \/ Recycle \/ DropFails \/ Done
             \/ \E i \in Ordinal : Grow(i) \/ Drop(i)

Next == \/ Edit \/ Autoscale \/ Orphan \/ Deliver \/ Fail \/ Reconcile
        \/ \E i \in Ordinal : CreateClaim(i) \/ DeliverClaim(i)

Spec == Init /\ [][Next]_vars

\* The worker takes what is queued and every call of a reconcile returns; the
\* informer of the set and the garbage collector work.
FairSpec == /\ Spec /\ WF_vars(Reconcile) /\ WF_vars(Deliver) /\ WF_vars(Orphan)
-----------------------------------------------------------------------------
TypeOK ==
  /\ want \in [replicas : Replicas, size : Size]
  /\ set \in SetType /\ seen \in SetType /\ target \in SetType
  /\ claims \in [Ordinal -> {0} \union Size]
  /\ cached \in [Ordinal -> {0} \union Size]
  /\ pc \in {"idle", "make", "list", "grow", "delete", "create", "look",
             "recycle", "drop"}
  /\ fresh \in BOOLEAN /\ queued \in BOOLEAN /\ my \in BOOLEAN
  /\ tail \in BOOLEAN /\ made \in BOOLEAN /\ shown \in BOOLEAN
  /\ unnoticed \in BOOLEAN
  /\ lag \subseteq Ordinal /\ todo \subseteq Ordinal
  /\ old \subseteq Ordinal /\ left \subseteq Ordinal
  /\ edits \in 0..MaxEdits /\ scales \in 0..MaxScales /\ faults \in 0..MaxFaults

Near(m, n) == m <= n + 1 /\ n <= m + 1

\* A set without failures replaces the one before it with at most one replica
\* more or less (RecreateCheck and the preconditions of ReCreate's Delete), also
\* when the autoscaler writes the replicas meanwhile.
OneStep == [][set.there = "no" /\ set'.there = "yes" /\ faults = 0
              => Near(set.replicas, set'.replicas)]_vars

Excepted == IF pc = "grow" THEN left \union todo ELSE left
AllGrown(size, but) == \A i \in Claims \ but : claims[i] >= size

\* As long as no request fails, and if the storage class allows it, a set asks
\* for larger claims only when they have been grown
\* (PersistentVolumeClaimVectorScale comes first in the list), but for those the
\* cache did not show when they were listed, those the controller created since
\* then, and those that were not updated because the API server refused the
\* Update of one: of a copy that was not current, or to a smaller size.
GrownFirst == faults = 0 /\ Expandable
              => AllGrown(set.size, Excepted)

\* Recycle deletes no claim of a replica of the set (down scale only), as long
\* as nobody else writes the replicas and no request fails, whatever claims the
\* cache shows.
ClaimsOfMembersStay ==
  [][scales = 0 /\ faults = 0
     => \A i \in Member(set) : claims[i] # 0 => claims'[i] # 0]_vars

\* The operator sleeps, and has made no plan from a current copy of a set that
\* stays since the autoscaler wrote it or a ReCreate failed on the way.
Unnoticed == pc = "idle" /\ ~queued /\ unnoticed

\* Step by step the set gets what the custom resource asks for, unless that is
\* refused (a smaller claim, or one beyond the limit) or the operator sleeps on
\* a change of the set that nothing has told it of.
Reaches == <>[](\/ Refused(set)
                \/ set.replicas = want.replicas /\ set.size = want.size
                \/ Unnoticed)
=============================================================================
