---------------------------- MODULE SetScaleProofs ----------------------------
(***************************************************************************)
(* SetScale for any ordinals, sizes and bounds: type correctness, claims    *)
(* are grown before the set, a set is replaced one replica at a time, and,  *)
(* up to ten replicas, no member of the set loses its claim.                *)
(***************************************************************************)
EXTENDS SetScale, FiniteSetTheorems, TLAPS

\* A copy with the current resourceVersion is the set; only a reconcile that
\* has created a set can have been shown it.
CopyInv ==
  /\ my => fresh
  /\ fresh => seen = set
  /\ pc \notin {"look", "recycle", "drop"} => ~made /\ ~shown

\* While nothing has failed, there is a set but for the one that is being
\* replaced, by one that is a step away from it and no smaller; the operator
\* knows its size.
StepInv ==
  faults = 0 =>
    /\ pc # "make"
    /\ IF pc = "create" THEN set.there # "yes" ELSE set.there = "yes"
    /\ pc \notin {"create", "look"} \/ shown => There(seen) /\ seen.size = set.size
    /\ pc \in {"list", "grow", "delete", "create"}
         => target.there = "yes" /\ set.size <= target.size
    /\ pc \in {"list", "grow", "delete"} /\ my => Near(set.replicas, target.replicas)
    /\ pc = "create" => Near(set.replicas, target.replicas)

\* The claims are grown to what the set to be created asks for.
GrownInv ==
  faults = 0 /\ Expandable =>
    /\ AllGrown(set.size, Excepted)
    /\ pc \in {"grow", "delete", "create"} => AllGrown(target.size, Excepted)

IInv == TypeOK /\ CopyInv /\ StepInv /\ GrownInv

\* One step leads to a number of replicas between the two.
LEMMA StepIsNear ==
  ASSUME NEW from \in Replicas, NEW to \in Replicas
  PROVE  OneStepTo(from, to) \in Replicas /\ Near(from, OneStepTo(from, to))
BY OrdinalAssumption DEF Replicas, OneStepTo, Near

\* The initial states satisfy all of it.
LEMMA InitInv == Init => IInv
<1> SUFFICES ASSUME Init PROVE IInv
  OBVIOUS
<1>a. set \in SetType
  BY SizeAssumption DEF Init, SetType, Size
<1>b. claims \in [Ordinal -> {0} \union Size]
  BY SizeAssumption DEF Init, Size
<1>c. edits \in 0..MaxEdits /\ scales \in 0..MaxScales /\ faults \in 0..MaxFaults
  BY LimitAssumption DEF Init
<1>d. want \in [replicas : Replicas, size : Size]
  BY SizeAssumption DEF Init, Size
<1>1. TypeOK
  BY <1>a, <1>b, <1>c, <1>d DEF Init, TypeOK
<1>2. AllGrown(set.size, Excepted)
  BY DEF Init, AllGrown, Claims
<1> QED
  BY <1>1, <1>2 DEF Init, IInv, CopyInv, GrownInv, StepInv, There

\* Every step keeps the types.
LEMMA NextType == TypeOK /\ [Next]_vars => TypeOK'
<1> SUFFICES ASSUME TypeOK, [Next]_vars PROVE TypeOK'
  OBVIOUS
<1> USE LimitAssumption, SizeAssumption DEF SetType, Size, TypeOK
<1>1. CASE Edit
  BY <1>1 DEF Edit, cluster, volumes, operator, history, bounds
<1>2. CASE Autoscale
  <2>1. set' \in SetType
    BY <1>2 DEF Autoscale
  <2>2. scales' \in 0..MaxScales
    BY <1>2 DEF Autoscale
  <2> QED
    BY <1>2, <2>1, <2>2 DEF Autoscale, Outdate, volumes
<1>3. CASE Orphan
  BY <1>3 DEF Orphan, cluster, volumes, operator, history, bounds, Outdate
<1>4. CASE Deliver
  BY <1>4 DEF Deliver, cluster, volumes, operator, history, bounds
<1>5. CASE Fail
  <2>1. faults' \in 0..MaxFaults
    BY <1>5 DEF Fail, Fault
  <2> QED
    BY <1>5, <2>1 DEF Fail, End, cluster, volumes
<1>6. CASE Plan
  <2>1. tail' \in BOOLEAN /\ my' \in BOOLEAN /\ unnoticed' \in BOOLEAN
    BY <1>6 DEF Plan, ClaimsUnchanged
  <2>2. target' \in SetType
    BY <1>6, StepIsNear DEF Plan, PlanCreate, PlanReCreate, PlanCalm
  <2>3. pc' \in {"make", "list", "delete", "recycle"} /\ queued' \in BOOLEAN
    BY <1>6 DEF Plan, PlanCreate, PlanReCreate, PlanCalm
  <2> QED
    BY <1>6, <2>1, <2>2, <2>3 DEF Plan, cluster, volumes, bounds
<1>7. CASE ListClaims
  <2>1. Listed \subseteq Ordinal /\ Claims \subseteq Ordinal
    BY DEF Listed, Claims
  <2> QED
    BY <1>7, <2>1 DEF ListClaims, cluster, volumes, bounds
<1>8. CASE GrowFails
  BY <1>8 DEF GrowFails, cluster, volumes, operator, history, bounds, Fault
<1>9. CASE Grown
  BY <1>9 DEF Grown, cluster, volumes, operator, history, bounds
<1>10. CASE DeleteSet
  BY <1>10 DEF DeleteSet, cluster, volumes, operator, history, bounds, Outdate
<1>11. CASE Conflict
  BY <1>11 DEF Conflict, cluster, volumes, operator, history, bounds, End
<1>12. CASE CreateSet
  BY <1>12 DEF CreateSet, cluster, volumes, operator, history, bounds, Outdate
<1>13. CASE LookSet
  BY <1>13 DEF LookSet, cluster, volumes, operator, history, bounds
<1>14. CASE MakeSet
  <2>1. set' \in SetType /\ fresh' \in BOOLEAN /\ my' \in BOOLEAN
    BY <1>14 DEF MakeSet, Outdate
  <2> QED
    BY <1>14, <2>1 DEF MakeSet, volumes, history, bounds
<1>15. CASE Recycle
  <2>1. todo' \subseteq Ordinal
    BY <1>15 DEF Recycle, Beyond, Listed
  <2> QED
    BY <1>15, <2>1 DEF Recycle, cluster, volumes, history, bounds
<1>16. CASE DropFails
  <2>1. faults' \in 0..MaxFaults
    BY <1>16 DEF DropFails, Fault
  <2> QED
    BY <1>16, <2>1 DEF DropFails, End, cluster, volumes, history
<1>17. CASE Done
  BY <1>17 DEF Done, cluster, volumes, operator, history, bounds, End
<1>18. ASSUME NEW i \in Ordinal, Grow(i) PROVE TypeOK'
  <2>1. claims' \in [Ordinal -> {0} \union Size] /\ lag' \subseteq Ordinal
    BY <1>18 DEF Grow, SetClaim
  <2> QED
    BY <1>18, <2>1 DEF Grow, cluster, history, bounds
<1>19. ASSUME NEW i \in Ordinal, Drop(i) PROVE TypeOK'
  <2>1. claims' \in [Ordinal -> {0} \union Size] /\ lag' \subseteq Ordinal
    BY <1>19 DEF Drop, SetClaim
  <2> QED
    BY <1>19, <2>1 DEF Drop, cluster, history, bounds
<1>20. ASSUME NEW i \in Ordinal, CreateClaim(i) PROVE TypeOK'
  <2>1. /\ claims' \in [Ordinal -> {0} \union Size] /\ lag' \subseteq Ordinal
        /\ left' \subseteq Ordinal
    BY <1>20 DEF CreateClaim, SetClaim
  <2> QED
    BY <1>20, <2>1 DEF CreateClaim, cluster, operator, bounds
<1>21. ASSUME NEW i \in Ordinal, DeliverClaim(i) PROVE TypeOK'
  BY <1>21 DEF DeliverClaim, cluster, volumes, operator, history, bounds
<1>22. CASE UNCHANGED vars
  BY <1>22 DEF vars, cluster, volumes, operator, history, bounds
<1> QED
  BY <1>1, <1>2, <1>3, <1>4, <1>5, <1>6, <1>7, <1>8, <1>9, <1>10, <1>11, <1>12, <1>13, <1>14, <1>15, <1>16, <1>17, <1>18, <1>19, <1>20, <1>21, <1>22
  DEF Next, Reconcile

\* Every step keeps the copy's part of the invariant.
LEMMA NextCopy == IInv /\ [Next]_vars => CopyInv'
<1> SUFFICES ASSUME IInv, [Next]_vars PROVE CopyInv'
  OBVIOUS
<1> USE DEF IInv, CopyInv
<1>1. CASE Edit
  BY <1>1 DEF Edit, cluster, volumes, operator, history, bounds
<1>2. CASE Autoscale
  BY <1>2 DEF Autoscale, cluster, volumes, operator, history, bounds, Outdate
<1>3. CASE Orphan
  BY <1>3 DEF Orphan, cluster, volumes, operator, history, bounds, Outdate
<1>4. CASE Deliver
  BY <1>4 DEF Deliver, cluster, volumes, operator, history, bounds
<1>5. CASE Fail
  BY <1>5 DEF Fail, cluster, volumes, operator, history, bounds, Fault, End
<1>6. CASE Plan
  BY <1>6 DEF Plan, cluster, volumes, operator, history, bounds, PlanCreate, PlanReCreate, PlanCalm, Enlarged, Refused
<1>7. CASE ListClaims
  BY <1>7 DEF ListClaims, cluster, volumes, operator, history, bounds
<1>8. CASE GrowFails
  BY <1>8 DEF GrowFails, cluster, volumes, operator, history, bounds, Fault
<1>9. CASE Grown
  BY <1>9 DEF Grown, cluster, volumes, operator, history, bounds
<1>10. CASE DeleteSet
  BY <1>10 DEF DeleteSet, cluster, volumes, operator, history, bounds, Outdate
<1>11. CASE Conflict
  BY <1>11 DEF Conflict, cluster, volumes, operator, history, bounds, End
<1>12. CASE CreateSet
  BY <1>12 DEF CreateSet, cluster, volumes, operator, history, bounds, Outdate
<1>13. CASE LookSet
  BY <1>13 DEF LookSet, cluster, volumes, operator, history, bounds
<1>14. CASE MakeSet
  BY <1>14 DEF MakeSet, cluster, volumes, operator, history, bounds, Outdate
<1>15. CASE Recycle
  BY <1>15 DEF Recycle, cluster, volumes, operator, history, bounds
<1>16. CASE DropFails
  BY <1>16 DEF DropFails, cluster, volumes, operator, history, bounds, Fault, End
<1>17. CASE Done
  BY <1>17 DEF Done, cluster, volumes, operator, history, bounds, End
<1>18. ASSUME NEW i \in Ordinal, Grow(i) PROVE CopyInv'
  BY <1>18 DEF Grow, cluster, volumes, operator, history, bounds, SetClaim
<1>19. ASSUME NEW i \in Ordinal, Drop(i) PROVE CopyInv'
  BY <1>19 DEF Drop, cluster, volumes, operator, history, bounds, SetClaim
<1>20. ASSUME NEW i \in Ordinal, CreateClaim(i) PROVE CopyInv'
  BY <1>20 DEF CreateClaim, cluster, volumes, operator, history, bounds, SetClaim
<1>21. ASSUME NEW i \in Ordinal, DeliverClaim(i) PROVE CopyInv'
  BY <1>21 DEF DeliverClaim, cluster, volumes, operator, history, bounds
<1>22. CASE UNCHANGED vars
  BY <1>22 DEF vars, cluster, volumes, operator, history, bounds
<1> QED
  BY <1>1, <1>2, <1>3, <1>4, <1>5, <1>6, <1>7, <1>8, <1>9, <1>10, <1>11, <1>12, <1>13, <1>14, <1>15, <1>16, <1>17, <1>18, <1>19, <1>20, <1>21, <1>22
  DEF Next, Reconcile

\* Every step keeps the distance between a set and the one that replaces it.
LEMMA NextStep == IInv /\ [Next]_vars => StepInv'
<1> SUFFICES ASSUME IInv, [Next]_vars PROVE StepInv'
  OBVIOUS
<1> USE LimitAssumption, SizeAssumption
    DEF IInv, StepInv, CopyInv, TypeOK, SetType, Size, There
<1>1. CASE Edit
  BY <1>1 DEF Edit, cluster, volumes, operator, history, bounds
<1>2. CASE Autoscale
  BY <1>2 DEF Autoscale, cluster, volumes, operator, history, bounds, Outdate
<1>3. CASE Orphan
  BY <1>3 DEF Orphan, cluster, volumes, operator, history, bounds, Outdate
<1>4. CASE Deliver
  BY <1>4 DEF Deliver, cluster, volumes, operator, history, bounds
<1>5. CASE Fail
  BY <1>5 DEF Fail, cluster, volumes, operator, history, bounds, Fault, End
<1>6. CASE Plan
  BY <1>6, StepIsNear
  DEF Plan, PlanCreate, PlanReCreate, PlanCalm, Enlarged, Refused, cluster, bounds
<1>7. CASE ListClaims
  BY <1>7 DEF ListClaims, cluster, volumes, operator, history, bounds
<1>8. CASE GrowFails
  BY <1>8 DEF GrowFails, cluster, volumes, operator, history, bounds, Fault
<1>9. CASE Grown
  BY <1>9 DEF Grown, cluster, volumes, operator, history, bounds
<1>10. CASE DeleteSet
  BY <1>10 DEF DeleteSet, cluster, volumes, operator, history, bounds, Outdate
<1>11. CASE Conflict
  BY <1>11 DEF Conflict, cluster, volumes, operator, history, bounds, End
<1>12. CASE CreateSet
  BY <1>12 DEF CreateSet, cluster, volumes, operator, history, bounds, Outdate
<1>13. CASE LookSet
  BY <1>13 DEF LookSet, cluster, volumes, operator, history, bounds
<1>14. CASE MakeSet
  BY <1>14 DEF MakeSet, cluster, volumes, operator, history, bounds, Outdate
<1>15. CASE Recycle
  BY <1>15 DEF Recycle, cluster, volumes, operator, history, bounds
<1>16. CASE DropFails
  BY <1>16 DEF DropFails, cluster, volumes, operator, history, bounds, Fault, End
<1>17. CASE Done
  BY <1>17 DEF Done, cluster, volumes, operator, history, bounds, End
<1>18. ASSUME NEW i \in Ordinal, Grow(i) PROVE StepInv'
  BY <1>18 DEF Grow, cluster, volumes, operator, history, bounds, SetClaim
<1>19. ASSUME NEW i \in Ordinal, Drop(i) PROVE StepInv'
  BY <1>19 DEF Drop, cluster, volumes, operator, history, bounds, SetClaim
<1>20. ASSUME NEW i \in Ordinal, CreateClaim(i) PROVE StepInv'
  BY <1>20 DEF CreateClaim, cluster, volumes, operator, history, bounds, SetClaim
<1>21. ASSUME NEW i \in Ordinal, DeliverClaim(i) PROVE StepInv'
  BY <1>21 DEF DeliverClaim, cluster, volumes, operator, history, bounds
<1>22. CASE UNCHANGED vars
  BY <1>22 DEF vars, cluster, volumes, operator, history, bounds
<1> QED
  BY <1>1, <1>2, <1>3, <1>4, <1>5, <1>6, <1>7, <1>8, <1>9, <1>10, <1>11, <1>12, <1>13, <1>14, <1>15, <1>16, <1>17, <1>18, <1>19, <1>20, <1>21, <1>22
  DEF Next, Reconcile

\* Every step keeps the claims' part of the invariant.
LEMMA NextGrown == IInv /\ [Next]_vars => GrownInv'
<1> SUFFICES ASSUME IInv, [Next]_vars PROVE GrownInv'
  OBVIOUS
<1> USE LimitAssumption, SizeAssumption
    DEF IInv, StepInv, GrownInv, AllGrown, Excepted, Claims, TypeOK, SetType, Size
<1>1. CASE Edit
  BY <1>1 DEF Edit, cluster, volumes, operator, history, bounds
<1>2. CASE Autoscale
  BY <1>2 DEF Autoscale, cluster, volumes, operator, history, bounds, Outdate
<1>3. CASE Orphan
  BY <1>3 DEF Orphan, cluster, volumes, operator, history, bounds, Outdate
<1>4. CASE Deliver
  BY <1>4 DEF Deliver, cluster, volumes, operator, history, bounds
<1>5. CASE Fail
  BY <1>5 DEF Fail, cluster, volumes, operator, history, bounds, Fault, End
<1>6. CASE Plan
  BY <1>6
  DEF Plan, PlanCreate, PlanReCreate, PlanCalm, Enlarged, Refused, cluster,
      volumes, bounds
<1>7. CASE ListClaims
  BY <1>7 DEF ListClaims, Listed, cluster, volumes, bounds
<1>8. CASE GrowFails
  BY <1>8 DEF GrowFails, cluster, volumes, operator, history, bounds, Fault
<1>9. CASE Grown
  BY <1>9 DEF Grown, cluster, volumes, operator, history, bounds
<1>10. CASE DeleteSet
  BY <1>10 DEF DeleteSet, cluster, volumes, operator, history, bounds, Outdate
<1>11. CASE Conflict
  BY <1>11 DEF Conflict, cluster, volumes, operator, history, bounds, End
<1>12. CASE CreateSet
  BY <1>12 DEF CreateSet, cluster, volumes, operator, history, bounds, Outdate
<1>13. CASE LookSet
  BY <1>13 DEF LookSet, cluster, volumes, operator, history, bounds
<1>14. CASE MakeSet
  BY <1>14 DEF MakeSet, cluster, volumes, operator, history, bounds, Outdate
<1>15. CASE Recycle
  BY <1>15 DEF Recycle, cluster, volumes, operator, history, bounds
<1>16. CASE DropFails
  BY <1>16 DEF DropFails, cluster, volumes, operator, history, bounds, Fault, End
<1>17. CASE Done
  BY <1>17 DEF Done, cluster, volumes, operator, history, bounds, End
<1>18. ASSUME NEW i \in Ordinal, Grow(i) PROVE GrownInv'
  BY <1>18 DEF Grow, cluster, volumes, operator, history, bounds, SetClaim
<1>19. ASSUME NEW i \in Ordinal, Drop(i) PROVE GrownInv'
  BY <1>19 DEF Drop, cluster, volumes, operator, history, bounds, SetClaim
<1>20. ASSUME NEW i \in Ordinal, CreateClaim(i) PROVE GrownInv'
  BY <1>20 DEF CreateClaim, cluster, volumes, operator, history, bounds, SetClaim
<1>21. ASSUME NEW i \in Ordinal, DeliverClaim(i) PROVE GrownInv'
  BY <1>21 DEF DeliverClaim, cluster, volumes, operator, history, bounds
<1>22. CASE UNCHANGED vars
  BY <1>22 DEF vars, cluster, volumes, operator, history, bounds
<1> QED
  BY <1>1, <1>2, <1>3, <1>4, <1>5, <1>6, <1>7, <1>8, <1>9, <1>10, <1>11, <1>12, <1>13, <1>14, <1>15, <1>16, <1>17, <1>18, <1>19, <1>20, <1>21, <1>22
  DEF Next, Reconcile

\* The invariant holds in every reachable state.
THEOREM Invariance == Spec => []IInv
<1>1. IInv /\ [Next]_vars => IInv'
  BY NextType, NextCopy, NextStep, NextGrown DEF IInv
<1> QED
  BY <1>1, InitInv, PTL DEF Spec

\* The state always has its type.
THEOREM TypeCorrect == Spec => []TypeOK
<1>1. IInv => TypeOK
  BY DEF IInv
<1> QED
  BY <1>1, Invariance, PTL

\* As long as no request fails, if the storage class allows it, a set asks for
\* larger claims only when those that were listed have been grown, up to the
\* first Update the API server refuses.
THEOREM ClaimsGrowFirst == Spec => []GrownFirst
<1>1. IInv => GrownFirst
  BY DEF IInv, GrownInv, GrownFirst
<1> QED
  BY <1>1, Invariance, PTL

\* As long as nothing has failed, a set is replaced by one with at most one
\* replica more or less, whatever the autoscaler writes meanwhile.
THEOREM ReplacedStepByStep == Spec => OneStep
<1> DEFINE Step == set.there = "no" /\ set'.there = "yes" /\ faults = 0
                   => Near(set.replicas, set'.replicas)
<1>1. IInv /\ [Next]_vars => [Step]_vars
  <2> SUFFICES ASSUME IInv, Next PROVE Step
    BY DEF vars
  <2> USE DEF Step
  <2>1. CASE CreateSet
    BY <2>1 DEF CreateSet, IInv, StepInv
  <2>2. CASE MakeSet
    BY <2>2 DEF MakeSet, IInv, StepInv
  <2>3. CASE set'.there # "yes" \/ set.there # "no"
    BY <2>3
  <2>4. CASE set' = set
    BY <2>4
  <2>5. CASE Autoscale \/ Orphan \/ DeleteSet
    BY <2>5 DEF Autoscale, Orphan, DeleteSet, There, IInv, TypeOK, SetType
  <2> QED
    BY <2>1, <2>2, <2>3, <2>4, <2>5
    DEF Next, Reconcile, Edit, Deliver, Fail, Plan, ListClaims, GrowFails, Grown,
        Conflict, LookSet, Recycle, DropFails, Done, Grow, Drop, CreateClaim,
        DeliverClaim, cluster
<1> QED
  BY <1>1, Invariance, PTL DEF Spec, OneStep
-----------------------------------------------------------------------------
(* The claims of the members.  Two names of claims are in the order of their *)
(* ordinals as long as these have one digit; with an eleventh replica they   *)
(* are not, and the property is violated (see the run claim_names).          *)

\* While nobody else writes the set and nothing fails, the operator's copy of
\* it is current, except while it replaces the set, and what it drops are
\* claims beyond the replicas.
ScaleInv ==
  scales = 0 /\ faults = 0 =>
    /\ pc \in {"create", "look"} \/ fresh
    /\ shown => fresh
    /\ pc = "drop" => \A i \in todo : set.replicas <= i

\* The names of the first ten claims are in the order of their ordinals.
LEMMA NamesInOrder ==
  ASSUME NEW i \in 0..9, NEW j \in 0..9
  PROVE  NameLess(i, j) <=> i < j
BY DEF NameLess

\* Of the claims in a list, those beyond the first n have an ordinal of n or
\* more: whatever claims are missing from it, or in it though they are gone, no
\* more than i + 1 of them come up to the claim i.
LEMMA BeyondMembers ==
  ASSUME Last < 10, NEW n \in Nat, NEW i \in Beyond(n)
  PROVE  n <= i
<1> DEFINE all == 0..(First - 1) \union Listed
           up == {j \in all : NameLess(i, j)}
           down == {j \in all : j <= i}
<1>1. i \in Listed /\ Cardinality(up) + n < Cardinality(all)
  BY DEF Beyond
<1>2. First \in Nat /\ Last \in Nat /\ First <= Last /\ Listed \subseteq First..Last
  BY OrdinalAssumption DEF Listed, Ordinal
<1>3. all \subseteq 0..9 /\ i \in 0..9
  BY <1>1, <1>2
<1> HIDE DEF all
<1>4. up = {j \in all : i < j}
  BY <1>3, NamesInOrder
<1> HIDE DEF up
<1>5. all = up \union down /\ up \intersect down = {}
  <2>1. \A j \in all : j \in Nat /\ (i < j \/ j <= i) /\ ~(i < j /\ j <= i)
    BY <1>3
  <2> QED
    BY <2>1, <1>4
<1>6. down \in SUBSET Nat /\ \A j \in down : j <= i
  <2>1. \A j \in all : j \in Nat
    BY <1>3
  <2> QED
    BY <2>1
<1>7. IsFiniteSet(down) /\ Cardinality(down) <= i + 1
  <2>1. i \in Nat
    BY <1>3
  <2> HIDE DEF down
  <2> QED
    BY <1>6, <2>1, FS_BoundedSetOfNaturals
<1>8. IsFiniteSet(up)
  <2>1. \A j \in all : j \in Nat /\ j <= 9
    BY <1>3
  <2>2. up \in SUBSET Nat /\ \A j \in up : j <= 9
    BY <2>1, <1>4
  <2> QED
    BY <2>2, FS_BoundedSetOfNaturals
<1> HIDE DEF down
<1>9. Cardinality(all) = Cardinality(up) + Cardinality(down)
  <2>1. /\ Cardinality(up \union down)
             = Cardinality(up) + Cardinality(down) - Cardinality(up \intersect down)
    BY <1>7, <1>8, FS_Union
  <2>2. Cardinality(up \intersect down) = 0
    BY <1>5, FS_EmptySet
  <2>3. Cardinality(up) \in Nat /\ Cardinality(down) \in Nat
    BY <1>7, <1>8, FS_CardinalityType
  <2> QED
    BY <1>5, <2>1, <2>2, <2>3
<1>10. Cardinality(up) \in Nat /\ Cardinality(down) \in Nat
  BY <1>7, <1>8, FS_CardinalityType
<1> QED
  BY <1>1, <1>3, <1>7, <1>9, <1>10

\* Every step keeps the operator's copy current, unless somebody else writes.
LEMMA NextScale ==
  ASSUME Last < 10, IInv, ScaleInv, [Next]_vars
  PROVE  ScaleInv'
<1> USE LimitAssumption DEF IInv, StepInv, ScaleInv, CopyInv, TypeOK, SetType, There
<1>1. CASE Edit
  BY <1>1 DEF Edit, cluster, volumes, operator, history, bounds
<1>2. CASE Autoscale
  BY <1>2 DEF Autoscale, cluster, volumes, operator, history, bounds, Outdate
<1>3. CASE Orphan
  <2>1. /\ set.there = "deleting"
        /\ UNCHANGED <<pc, made, shown, todo, bounds>>
    BY <1>3 DEF Orphan
  <2>2. faults = 0 => pc = "create"
    BY <2>1
  <2> QED
    BY <2>1, <2>2 DEF bounds
<1>4. CASE Deliver
  BY <1>4 DEF Deliver, cluster, volumes, operator, history, bounds
<1>5. CASE Fail
  BY <1>5 DEF Fail, cluster, volumes, operator, history, bounds, Fault, End
<1>6. CASE Plan
  BY <1>6 DEF Plan, cluster, volumes, operator, history, bounds, PlanCreate, PlanReCreate, PlanCalm, Enlarged, Refused
<1>7. CASE ListClaims
  BY <1>7 DEF ListClaims, cluster, volumes, operator, history, bounds
<1>8. CASE GrowFails
  BY <1>8 DEF GrowFails, cluster, volumes, operator, history, bounds, Fault
<1>9. CASE Grown
  BY <1>9 DEF Grown, cluster, volumes, operator, history, bounds
<1>10. CASE DeleteSet
  BY <1>10 DEF DeleteSet, cluster, volumes, operator, history, bounds, Outdate
<1>11. CASE Conflict
  BY <1>11 DEF Conflict, cluster, volumes, operator, history, bounds, End
<1>12. CASE CreateSet
  BY <1>12 DEF CreateSet, cluster, volumes, operator, history, bounds, Outdate
<1>13. CASE LookSet
  BY <1>13 DEF LookSet, cluster, volumes, operator, history, bounds
<1>14. CASE MakeSet
  <2>1. pc = "make" /\ UNCHANGED bounds
    BY <1>14 DEF MakeSet
  <2>2. faults' # 0
    BY <2>1 DEF bounds
  <2> QED
    BY <2>2
<1>15. CASE Recycle
  <2>1. /\ pc' = "drop" /\ UNCHANGED <<set, fresh, made, shown, bounds>>
        /\ pc = "recycle" /\ todo' = Beyond(IF There(seen) THEN seen.replicas ELSE 0)
    BY <1>15 DEF Recycle, cluster
  <2>2. ASSUME scales = 0, faults = 0, NEW i \in todo' PROVE set.replicas <= i
    <3>1. seen = set /\ There(seen)
      BY <2>1, <2>2
    <3>2. i \in Beyond(set.replicas)
      BY <2>1, <2>2, <3>1
    <3>3. set.replicas \in Nat
      BY OrdinalAssumption DEF Replicas
    <3> QED
      BY <3>2, <3>3, BeyondMembers
  <2> QED
    BY <2>1, <2>2 DEF bounds
<1>16. CASE DropFails
  BY <1>16 DEF DropFails, cluster, volumes, operator, history, bounds, Fault, End
<1>17. CASE Done
  BY <1>17 DEF Done, cluster, volumes, operator, history, bounds, End
<1>18. ASSUME NEW i \in Ordinal, Grow(i) PROVE ScaleInv'
  BY <1>18 DEF Grow, cluster, volumes, operator, history, bounds, SetClaim
<1>19. ASSUME NEW i \in Ordinal, Drop(i) PROVE ScaleInv'
  BY <1>19 DEF Drop, cluster, volumes, operator, history, bounds, SetClaim
<1>20. ASSUME NEW i \in Ordinal, CreateClaim(i) PROVE ScaleInv'
  BY <1>20 DEF CreateClaim, cluster, volumes, operator, history, bounds, SetClaim
<1>21. ASSUME NEW i \in Ordinal, DeliverClaim(i) PROVE ScaleInv'
  BY <1>21 DEF DeliverClaim, cluster, volumes, operator, history, bounds
<1>22. CASE UNCHANGED vars
  BY <1>22 DEF vars, cluster, volumes, operator, history, bounds
<1> QED
  BY <1>1, <1>2, <1>3, <1>4, <1>5, <1>6, <1>7, <1>8, <1>9, <1>10, <1>11, <1>12, <1>13, <1>14, <1>15, <1>16, <1>17, <1>18, <1>19, <1>20, <1>21, <1>22
  DEF Next, Reconcile

\* Up to ten replicas, no step deletes the claim of a member of the set, as
\* long as nobody else writes the replicas and nothing fails, however the user
\* scales it up and down, whatever claims the controller has not created yet and
\* however far the cache of the claims lags behind.
THEOREM MembersKeepClaims ==
  ASSUME Last < 10
  PROVE  Spec => ClaimsOfMembersStay
<1> DEFINE Stay == scales = 0 /\ faults = 0
                     => \A i \in Member(set) : claims[i] # 0 => claims'[i] # 0
<1>1. Init => ScaleInv
  BY DEF Init, ScaleInv
<1>2. IInv /\ ScaleInv /\ [Next]_vars => ScaleInv'
  BY NextScale
<1>3. IInv /\ ScaleInv /\ [Next]_vars => [Stay]_vars
  <2> SUFFICES ASSUME IInv, ScaleInv, Next PROVE Stay
    BY DEF vars
  <2>1. /\ claims \in [Ordinal -> {0} \union Size] /\ todo \subseteq Ordinal
        /\ target \in SetType /\ set \in SetType
    BY DEF IInv, TypeOK
  <2>2. ASSUME NEW i \in Ordinal, Drop(i) PROVE Stay
    <3>1. /\ pc = "drop" /\ i \in todo /\ claims' = [claims EXCEPT ![i] = 0]
      BY <2>2 DEF Drop, SetClaim, Highest
    <3>2. scales = 0 /\ faults = 0 => i \notin Member(set)
      BY <2>1, <3>1, OrdinalAssumption DEF ScaleInv, Member, SetType, Replicas, Ordinal
    <3> QED
      BY <2>1, <3>1, <3>2 DEF Member
  <2>3. ASSUME NEW i \in Ordinal, Grow(i) PROVE Stay
    BY <2>1, <2>3, SizeAssumption DEF Grow, SetClaim, Member, SetType, Size
  <2>4. ASSUME NEW i \in Ordinal, CreateClaim(i) PROVE Stay
    BY <2>1, <2>4, SizeAssumption DEF CreateClaim, SetClaim, Member, SetType, Size
  <2>5. CASE claims' = claims
    BY <2>5
  <2> HIDE DEF Stay
  <2> QED
    BY <2>2, <2>3, <2>4, <2>5
    DEF Next, Reconcile, Edit, Autoscale, Orphan, Deliver, Fail, Plan, ListClaims,
        GrowFails, Grown, DeleteSet, Conflict, CreateSet, LookSet, MakeSet, Recycle,
        DropFails, Done, DeliverClaim, volumes
<1> QED
  BY <1>1, <1>2, <1>3, Invariance, PTL DEF Spec, ClaimsOfMembersStay
=============================================================================
