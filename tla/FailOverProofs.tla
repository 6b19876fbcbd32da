---------------------------- MODULE FailOverProofs ----------------------------
(***************************************************************************)
(* FailOver for any number of replicas, crashes, writes and faults: type   *)
(* correctness, a majority of claims survives every call, and a pod that   *)
(* was failed over is off its old claim.                                   *)
(***************************************************************************)
EXTENDS FailOver, FiniteSetTheorems, TLAPS

\* Fewer pods than a majority are failed over.
FewInv == Cardinality(failOvers) < Majority

\* Once the claim of a pod has been deleted, the claim the call began with is
\* never bound again; once the pod has been deleted after that, only a pod that
\* is ending can still use it.
Deleted(p) == p \in old => claim[p] # "bound"
Replaced(p) == p \in old => claim[p] # "bound" /\ (InUse(p) => pod[p].dying)

\* The pod being failed over is one of those found crashed.
CurInv == pc \in {"gone", "claim", "again", "wait"} => cur \in failOvers

ClaimInv ==
  /\ pc = "again" => Deleted(cur)
  /\ pc = "wait" => Replaced(cur)
  /\ \A p \in failOvers \ todo : Replaced(p)

IInv == TypeOK /\ FewInv /\ CurInv /\ ClaimInv

\* Sets of pods are finite, and the majority of no pods is one.
LEMMA PodsFinite ==
  /\ Majority \in Nat /\ 0 < Majority
  /\ \A S \in SUBSET Pod : IsFiniteSet(S) /\ Cardinality(S) \in Nat
<1>1. N \in Nat /\ N \div 2 \in Nat
  BY ReplicasAssumption
<1>2. IsFiniteSet(Pod)
  BY <1>1, FS_Interval DEF Pod
<1>3. ASSUME NEW S \in SUBSET Pod PROVE IsFiniteSet(S) /\ Cardinality(S) \in Nat
  BY <1>2, FS_Subset, FS_CardinalityType
<1> QED
  BY <1>1, <1>3 DEF Majority

\* The initial states are of the right type and satisfy the invariant.
LEMMA InitIInv == Init => IInv
<1> SUFFICES ASSUME Init PROVE IInv
  OBVIOUS
<1>1. 1 \in Pod
  BY ReplicasAssumption DEF Pod
<1>2. crashes \in Nat
  BY PodsFinite DEF Init
<1>3. pod \in [Pod -> [phase : Phase, dying : BOOLEAN]]
  BY DEF Init, Phase
<1>4. cached \in [Pod -> Phase]
  BY <1>3 DEF Init
<1>5. touches \in 0..MaxTouches /\ faults \in 0..MaxFaults
  BY LimitAssumption DEF Init
<1>7. TypeOK
  BY <1>1, <1>2, <1>3, <1>4, <1>5 DEF Init, TypeOK, ClaimState
<1>6. FewInv
  BY PodsFinite, FS_EmptySet DEF Init, FewInv
<1> QED
  BY <1>7, <1>6 DEF Init, IInv, CurInv, ClaimInv

\* Deleting a pod leaves pods.
LEMMA KillType ==
  ASSUME NEW p \in Pod, pod \in [Pod -> [phase : Phase, dying : BOOLEAN]]
  PROVE  Kill(p) \in [Pod -> [phase : Phase, dying : BOOLEAN]]
BY DEF Kill, Phase

\* Every step keeps the types.
LEMMA NextType == TypeOK /\ CurInv /\ [Next]_vars => TypeOK'
<1> SUFFICES ASSUME TypeOK, CurInv, [Next]_vars PROVE TypeOK'
  OBVIOUS
<1>one. 1 \in Pod
  BY ReplicasAssumption DEF Pod
<1>faults. Fault \/ NoFault \/ UNCHANGED faults => faults' \in 0..MaxFaults
  BY LimitAssumption DEF TypeOK, Fault, NoFault
<1>1. CASE Plan
  BY <1>1, <1>one, <1>faults, LimitAssumption
  DEF TypeOK, Plan, Marked, Env, NoCall, Operator, cluster, counters,
     call, Refused, Turns, Kill, After, Phase, ClaimState
<1>2. CASE ReCreate
  BY <1>2, <1>one, <1>faults, LimitAssumption
  DEF TypeOK, ReCreate, Env, NoCall, Operator, cluster, counters,
     call, Refused, Turns, Kill, After, Phase, ClaimState
<1>3. CASE RestartAll
  BY <1>3, <1>one, <1>faults, LimitAssumption
  DEF TypeOK, RestartAll, Env, NoCall, Operator, cluster, counters,
     call, Refused, Turns, Kill, After, Phase, ClaimState
<1>4. CASE Look
  BY <1>4, <1>one, <1>faults, LimitAssumption
  DEF TypeOK, Look, Env, NoCall, Operator, cluster, counters,
     call, Refused, Turns, Kill, After, Phase, ClaimState
<1>5. CASE LookFails
  BY <1>5, <1>one, <1>faults, LimitAssumption
  DEF TypeOK, LookFails, Env, NoCall, Operator, cluster, counters,
     call, Refused, Turns, Kill, After, Phase, ClaimState
<1>6. CASE SetMode
  BY <1>6, <1>one, <1>faults, LimitAssumption
  DEF TypeOK, SetMode, Env, NoCall, Operator, cluster, counters,
     call, Refused, Turns, Kill, After, Phase, ClaimState
<1>7. CASE Begin
  BY <1>7, <1>one, <1>faults, LimitAssumption
  DEF TypeOK, Begin, Env, NoCall, Operator, cluster, counters,
     call, Refused, Turns, Kill, After, Phase, ClaimState
<1>8. ASSUME NEW p \in Pod, DeletePod(p) PROVE TypeOK'
  BY <1>8, <1>one, <1>faults, LimitAssumption, KillType
  DEF TypeOK, DeletePod, CurInv, Env, NoCall, Operator, cluster, counters,
     call, Refused, Turns, After, Phase, ClaimState
<1>9. CASE ReadPod
  BY <1>9, <1>one, <1>faults, LimitAssumption
  DEF TypeOK, ReadPod, Env, NoCall, Operator, cluster, counters,
     call, Refused, Turns, Kill, After, Phase, ClaimState
<1>10. CASE Spin
  BY <1>10, <1>one, <1>faults, LimitAssumption
  DEF TypeOK, Spin, Env, NoCall, Operator, cluster, counters,
     call, Refused, Turns, Kill, After, Phase, ClaimState
<1>11. CASE DeleteClaim
  BY <1>11, <1>one, <1>faults, LimitAssumption
  DEF TypeOK, DeleteClaim, CurInv, Env, NoCall, Operator, cluster, counters,
     call, Refused, Turns, Kill, After, Phase, ClaimState
<1>12. CASE DeleteAgain
  BY <1>12, <1>one, <1>faults, LimitAssumption, KillType
  DEF TypeOK, DeleteAgain, CurInv, Env, NoCall, Operator, cluster, counters,
     call, Refused, Turns, After, Phase, ClaimState
<1>13. CASE PodBack
  BY <1>13, <1>one, <1>faults, LimitAssumption
  DEF TypeOK, PodBack, Env, NoCall, Operator, cluster, counters,
     call, Refused, Turns, Kill, After, Phase, ClaimState
<1>14. CASE PodNotBack
  BY <1>14, <1>one, <1>faults, LimitAssumption
  DEF TypeOK, PodNotBack, Env, NoCall, Operator, cluster, counters,
     call, Refused, Turns, Kill, After, Phase, ClaimState
<1>15. CASE ReadSet
  BY <1>15, <1>one, <1>faults, LimitAssumption
  DEF TypeOK, ReadSet, Env, NoCall, Operator, cluster, counters,
     call, Refused, Turns, Kill, After, Phase, ClaimState
<1>16. CASE UnsetMode
  BY <1>16, <1>one, <1>faults, LimitAssumption
  DEF TypeOK, UnsetMode, Env, NoCall, Operator, cluster, counters,
     call, Refused, Turns, Kill, After, Phase, ClaimState
<1>touches. touches < MaxTouches => touches + 1 \in 0..MaxTouches
  BY LimitAssumption DEF TypeOK
<1>17. CASE Touch
  BY <1>17, <1>touches, <1>one, <1>faults, LimitAssumption
  DEF TypeOK, Touch, Env, NoCall, Operator, cluster, counters,
     call, Refused, Turns, Kill, After, Phase, ClaimState
<1>18. CASE Crash
  BY <1>18, <1>one, <1>faults, LimitAssumption
  DEF TypeOK, Crash, Env, NoCall, Operator, cluster, counters,
     call, Refused, Turns, Kill, After, Phase, ClaimState
<1>19. CASE DeliverSet
  BY <1>19, <1>one, <1>faults, LimitAssumption
  DEF TypeOK, DeliverSet, Env, NoCall, Operator, cluster, counters,
     call, Refused, Turns, Kill, After, Phase, ClaimState
<1>20. ASSUME NEW p \in Pod, Recreate(p) PROVE TypeOK'
  BY <1>20, <1>one, <1>faults, LimitAssumption
  DEF TypeOK, Recreate, Env, NoCall, Operator, cluster, counters,
     call, Refused, Turns, Kill, After, Phase, ClaimState
<1>21. ASSUME NEW p \in Pod, Boot(p) PROVE TypeOK'
  BY <1>21, <1>one, <1>faults, LimitAssumption
  DEF TypeOK, Boot, Env, NoCall, Operator, cluster, counters,
     call, Refused, Turns, Kill, After, Phase, ClaimState
<1>22. ASSUME NEW p \in Pod, Age(p) PROVE TypeOK'
  BY <1>22, <1>one, <1>faults, LimitAssumption
  DEF TypeOK, Age, Env, NoCall, Operator, cluster, counters,
     call, Refused, Turns, Kill, After, Phase, ClaimState
<1>23. ASSUME NEW p \in Pod, Break(p) PROVE TypeOK'
  BY <1>23, <1>one, <1>faults, LimitAssumption
  DEF TypeOK, Break, Env, NoCall, Operator, cluster, counters,
     call, Refused, Turns, Kill, After, Phase, ClaimState
<1>24. ASSUME NEW p \in Pod, Heal(p) PROVE TypeOK'
  BY <1>24, <1>one, <1>faults, LimitAssumption
  DEF TypeOK, Heal, Env, NoCall, Operator, cluster, counters,
     call, Refused, Turns, Kill, After, Phase, ClaimState
<1>25. ASSUME NEW p \in Pod, Vanish(p) PROVE TypeOK'
  BY <1>25, <1>one, <1>faults, LimitAssumption
  DEF TypeOK, Vanish, Env, NoCall, Operator, cluster, counters,
     call, Refused, Turns, Kill, After, Phase, ClaimState
<1>26. ASSUME NEW p \in Pod, FreeClaim(p) PROVE TypeOK'
  BY <1>26, <1>one, <1>faults, LimitAssumption
  DEF TypeOK, FreeClaim, Env, NoCall, Operator, cluster, counters,
     call, Refused, Turns, Kill, After, Phase, ClaimState
<1>27. ASSUME NEW p \in Pod, Deliver(p) PROVE TypeOK'
  BY <1>27, <1>one, <1>faults, LimitAssumption
  DEF TypeOK, Deliver, Env, NoCall, Operator, cluster, counters,
     call, Refused, Turns, Kill, After, Phase, ClaimState
<1>28. CASE UNCHANGED vars
  BY <1>28 DEF TypeOK, vars, cluster, counters, call
<1> QED
  BY <1>1, <1>2, <1>3, <1>4, <1>5, <1>6, <1>7, <1>8, <1>9, <1>10, <1>11, <1>12, <1>13, <1>14, <1>15, <1>16, <1>17, <1>18, <1>19, <1>20, <1>21, <1>22, <1>23, <1>24, <1>25, <1>26, <1>27, <1>28
  DEF Next, Work, Cluster

\* Every step keeps the rest of the invariant.
LEMMA NextRest == IInv /\ [Next]_vars => FewInv' /\ CurInv' /\ ClaimInv'
<1> DEFINE Rest == FewInv /\ CurInv /\ ClaimInv
<1> SUFFICES ASSUME IInv, [Next]_vars PROVE Rest'
  OBVIOUS
<1>empty. Cardinality({}) < Majority
  BY PodsFinite, FS_EmptySet
<1>1. CASE Plan
  BY <1>1, <1>empty DEF Rest, IInv, TypeOK, FewInv, CurInv, ClaimInv,
     Deleted, Replaced, InUse, Majority, Plan, Env, NoCall, Operator, cluster,
     counters, call, Turns, Kill, After, IsMinority
<1>2. CASE ReCreate
  BY <1>2 DEF Rest, IInv, TypeOK, FewInv, CurInv, ClaimInv,
     Deleted, Replaced, InUse, Majority, ReCreate, Env, NoCall, Operator, cluster,
     counters, call, Turns, Kill, After, IsMinority
<1>3. CASE RestartAll
  BY <1>3 DEF Rest, IInv, TypeOK, FewInv, CurInv, ClaimInv,
     Deleted, Replaced, InUse, Majority, RestartAll, Env, NoCall, Operator, cluster,
     counters, call, Turns, Kill, After, IsMinority
<1>4. CASE Look
  BY <1>4, <1>empty DEF Rest, IInv, TypeOK, FewInv, CurInv, ClaimInv,
     Deleted, Replaced, InUse, Majority, Look, Env, NoCall, Operator, cluster,
     counters, call, Turns, Kill, After, IsMinority
<1>5. CASE LookFails
  BY <1>5 DEF Rest, IInv, TypeOK, FewInv, CurInv, ClaimInv,
     Deleted, Replaced, InUse, Majority, LookFails, Env, NoCall, Operator, cluster,
     counters, call, Turns, Kill, After, IsMinority
<1>6. CASE SetMode
  BY <1>6 DEF Rest, IInv, TypeOK, FewInv, CurInv, ClaimInv,
     Deleted, Replaced, InUse, Majority, SetMode, Env, NoCall, Operator, cluster,
     counters, call, Turns, Kill, After, IsMinority
<1>7. CASE Begin
  BY <1>7 DEF Rest, IInv, TypeOK, FewInv, CurInv, ClaimInv,
     Deleted, Replaced, InUse, Majority, Begin, Env, NoCall, Operator, cluster,
     counters, call, Turns, Kill, After, IsMinority
<1>8. ASSUME NEW p \in Pod, DeletePod(p) PROVE Rest'
  BY <1>8 DEF Rest, IInv, TypeOK, FewInv, CurInv, ClaimInv,
     Deleted, Replaced, InUse, Majority, DeletePod, Env, NoCall, Operator, cluster,
     counters, call, Turns, Kill, After, IsMinority
<1>9. CASE ReadPod
  BY <1>9 DEF Rest, IInv, TypeOK, FewInv, CurInv, ClaimInv,
     Deleted, Replaced, InUse, Majority, ReadPod, Env, NoCall, Operator, cluster,
     counters, call, Turns, Kill, After, IsMinority
<1>10. CASE Spin
  BY <1>10 DEF Rest, IInv, TypeOK, FewInv, CurInv, ClaimInv,
     Deleted, Replaced, InUse, Majority, Spin, Env, NoCall, Operator, cluster,
     counters, call, Turns, Kill, After, IsMinority
<1>11. CASE DeleteClaim
  BY <1>11 DEF Rest, IInv, TypeOK, FewInv, CurInv, ClaimInv,
     Deleted, Replaced, InUse, Majority, DeleteClaim, Env, NoCall, Operator, cluster,
     counters, call, Turns, Kill, After, IsMinority
<1>12. CASE DeleteAgain
  <2>1. cur \in Pod /\ pod \in [Pod -> [phase : Phase, dying : BOOLEAN]]
    BY DEF IInv, TypeOK
  <2>2. pod' \in {Kill(cur), pod}
    BY <1>12 DEF DeleteAgain
  <2>3. \A p \in Pod : pod'[p] \in {pod[p], Kill(cur)[p]}
    BY <2>2
  <2>4. \A p \in Pod : Kill(cur)[p] = pod[p]
                         \/ Kill(cur)[p] = [pod[p] EXCEPT !.dying = TRUE]
                         \/ Kill(cur)[p] = [phase |-> "none", dying |-> FALSE]
    BY <2>1 DEF Kill
  <2>5. \A p \in Pod : InUse(p)' => InUse(p) /\ (pod[p].dying => pod'[p].dying)
    <3> SUFFICES ASSUME NEW p \in Pod, InUse(p)'
                 PROVE  InUse(p) /\ (pod[p].dying => pod'[p].dying)
      OBVIOUS
    <3>1. pod[p] \in [phase : Phase, dying : BOOLEAN]
      BY <2>1
    <3>2. CASE pod'[p] = pod[p]
      BY <3>2 DEF InUse
    <3>3. CASE pod'[p] = [pod[p] EXCEPT !.dying = TRUE]
      BY <3>1, <3>3 DEF InUse
    <3>4. CASE pod'[p] = [phase |-> "none", dying |-> FALSE]
      BY <3>4 DEF InUse
    <3> QED
      BY <2>3, <2>4, <3>2, <3>3, <3>4
  <2>6. pc' = "wait" => (InUse(cur)' => pod'[cur].dying)
    BY <1>12, <2>1 DEF DeleteAgain, Kill, InUse, Exists
  <2>7. /\ UNCHANGED <<claim, failOvers, todo, cur, old>>
        /\ pc = "again" /\ pc' \in {"wait", "reset"}
    BY <1>12 DEF DeleteAgain
  <2>8. failOvers \in SUBSET Pod
    BY DEF IInv, TypeOK
  <2>9. ClaimInv'
    BY <2>5, <2>6, <2>7, <2>8
    DEF IInv, ClaimInv, Deleted, Replaced
  <2> QED
    BY <2>7, <2>9 DEF Rest, IInv, FewInv, CurInv, Majority
<1>13. CASE PodBack
  BY <1>13 DEF Rest, IInv, TypeOK, FewInv, CurInv, ClaimInv,
     Deleted, Replaced, InUse, Majority, PodBack, Env, NoCall, Operator, cluster,
     counters, call, Turns, Kill, After, IsMinority
<1>14. CASE PodNotBack
  BY <1>14 DEF Rest, IInv, TypeOK, FewInv, CurInv, ClaimInv,
     Deleted, Replaced, InUse, Majority, PodNotBack, Env, NoCall, Operator, cluster,
     counters, call, Turns, Kill, After, IsMinority
<1>15. CASE ReadSet
  BY <1>15 DEF Rest, IInv, TypeOK, FewInv, CurInv, ClaimInv,
     Deleted, Replaced, InUse, Majority, ReadSet, Env, NoCall, Operator, cluster,
     counters, call, Turns, Kill, After, IsMinority
<1>16. CASE UnsetMode
  BY <1>16 DEF Rest, IInv, TypeOK, FewInv, CurInv, ClaimInv,
     Deleted, Replaced, InUse, Majority, UnsetMode, Env, NoCall, Operator, cluster,
     counters, call, Turns, Kill, After, IsMinority
<1>17. CASE Touch
  BY <1>17 DEF Rest, IInv, TypeOK, FewInv, CurInv, ClaimInv,
     Deleted, Replaced, InUse, Majority, Touch, Env, NoCall, Operator, cluster,
     counters, call, Turns, Kill, After, IsMinority
<1>18. CASE Crash
  BY <1>18, <1>empty DEF Rest, IInv, TypeOK, FewInv, CurInv, ClaimInv,
     Deleted, Replaced, InUse, Majority, Crash, Env, NoCall, Operator, cluster,
     counters, call, Turns, Kill, After, IsMinority
<1>19. CASE DeliverSet
  BY <1>19 DEF Rest, IInv, TypeOK, FewInv, CurInv, ClaimInv,
     Deleted, Replaced, InUse, Majority, DeliverSet, Env, NoCall, Operator, cluster,
     counters, call, Turns, Kill, After, IsMinority
<1>20. ASSUME NEW p \in Pod, Recreate(p) PROVE Rest'
  BY <1>20 DEF Rest, IInv, TypeOK, FewInv, CurInv, ClaimInv,
     Deleted, Replaced, InUse, Majority, Recreate, Env, NoCall, Operator, cluster,
     counters, call, Turns, Kill, After, IsMinority
<1>21. ASSUME NEW p \in Pod, Boot(p) PROVE Rest'
  BY <1>21 DEF Rest, IInv, TypeOK, FewInv, CurInv, ClaimInv,
     Deleted, Replaced, InUse, Majority, Boot, Env, NoCall, Operator, cluster,
     counters, call, Turns, Kill, After, IsMinority
<1>22. ASSUME NEW p \in Pod, Age(p) PROVE Rest'
  BY <1>22 DEF Rest, IInv, TypeOK, FewInv, CurInv, ClaimInv,
     Deleted, Replaced, InUse, Majority, Age, Env, NoCall, Operator, cluster,
     counters, call, Turns, Kill, After, IsMinority
<1>23. ASSUME NEW p \in Pod, Break(p) PROVE Rest'
  BY <1>23 DEF Rest, IInv, TypeOK, FewInv, CurInv, ClaimInv,
     Deleted, Replaced, InUse, Majority, Break, Env, NoCall, Operator, cluster,
     counters, call, Turns, Kill, After, IsMinority
<1>24. ASSUME NEW p \in Pod, Heal(p) PROVE Rest'
  BY <1>24 DEF Rest, IInv, TypeOK, FewInv, CurInv, ClaimInv,
     Deleted, Replaced, InUse, Majority, Heal, Env, NoCall, Operator, cluster,
     counters, call, Turns, Kill, After, IsMinority
<1>25. ASSUME NEW p \in Pod, Vanish(p) PROVE Rest'
  BY <1>25 DEF Rest, IInv, TypeOK, FewInv, CurInv, ClaimInv,
     Deleted, Replaced, InUse, Majority, Vanish, Env, NoCall, Operator, cluster,
     counters, call, Turns, Kill, After, IsMinority
<1>26. ASSUME NEW p \in Pod, FreeClaim(p) PROVE Rest'
  BY <1>26 DEF Rest, IInv, TypeOK, FewInv, CurInv, ClaimInv,
     Deleted, Replaced, InUse, Majority, FreeClaim, Env, NoCall, Operator, cluster,
     counters, call, Turns, Kill, After, IsMinority
<1>27. ASSUME NEW p \in Pod, Deliver(p) PROVE Rest'
  BY <1>27 DEF Rest, IInv, TypeOK, FewInv, CurInv, ClaimInv,
     Deleted, Replaced, InUse, Majority, Deliver, Env, NoCall, Operator, cluster,
     counters, call, Turns, Kill, After, IsMinority
<1>28. CASE UNCHANGED vars
  BY <1>28 DEF Rest, IInv, FewInv, CurInv, ClaimInv, Deleted, Replaced, InUse,
     Majority, vars, cluster, call
<1> QED
  BY <1>1, <1>2, <1>3, <1>4, <1>5, <1>6, <1>7, <1>8, <1>9, <1>10, <1>11, <1>12, <1>13, <1>14, <1>15, <1>16, <1>17, <1>18, <1>19, <1>20, <1>21, <1>22, <1>23, <1>24, <1>25, <1>26, <1>27, <1>28
  DEF Next, Work, Cluster

\* The invariant holds in every reachable state.
THEOREM Invariance == Spec => []IInv
<1>1. IInv /\ [Next]_vars => IInv'
  BY NextType, NextRest DEF IInv
<1> QED
  BY InitIInv, <1>1, PTL DEF Spec

\* FailOver keeps the types of its state, for any number of replicas.
THEOREM TypeCorrect == Spec => []TypeOK
<1>1. IInv => TypeOK
  BY DEF IInv
<1> QED
  BY Invariance, <1>1, PTL

\* For any number of replicas, crashes and faults, one call of FailOver leaves
\* a member of every majority its claim.
THEOREM MajorityKeepsClaims == Spec => []QuorumSurvives
<1>1. IInv => QuorumSurvives
  <2> SUFFICES ASSUME IInv PROVE QuorumSurvives
    OBVIOUS
  <2>1. wiped \subseteq failOvers /\ failOvers \in SUBSET Pod
    BY DEF IInv, TypeOK
  <2>2. Cardinality(wiped) <= Cardinality(failOvers)
    BY <2>1, PodsFinite, FS_Subset
  <2> QED
    BY <2>1, <2>2, PodsFinite DEF IInv, FewInv, QuorumSurvives
<1> QED
  BY Invariance, <1>1, PTL

\* For any number of replicas, a pod that was failed over is off the claim it
\* had when FailOver began.
THEOREM FailedOverIsOffItsClaim == Spec => []OffTheOldClaim
<1>1. IInv => OffTheOldClaim
  BY DEF IInv, ClaimInv, Replaced, OffTheOldClaim
<1> QED
  BY Invariance, <1>1, PTL
=============================================================================
