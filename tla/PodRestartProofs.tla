---------------------------- MODULE PodRestartProofs ----------------------------
(***************************************************************************)
(* Proofs about PodRestart, for any number of replicas: a restart that     *)
(* succeeds has renewed every pod, it takes down one pod at a time, and so *)
(* it implements RollingRestart.                                           *)
(***************************************************************************)
EXTENDS PodRestart, TLAPS

USE DEF calls, judged, Running

Phases == {"none", "starting", "ready", "broken", "terminating",
           "ending"}
Snapshot == [uid : Nat, phase : Phases]

Typed ==
  /\ pod \in [Pod -> Snapshot] /\ cached \in [Pod -> Snapshot]
  /\ got \in [Pod -> Snapshot] /\ before \in [Pod -> Snapshot]
  /\ old \in [Pod -> Nat] /\ hurt \subseteq Pod /\ misjudged \subseteq Pod

Control ==
  /\ pc \in {"idle", "start", "loop", "wait", "check", "done", "failed"}
  /\ look \in 1..(N + 1) /\ cur \in 1..(N + 1)
  /\ attempts \in Nat
  /\ (pc = "idle") <=> (attempts = 0)
  /\ pc \in {"idle", "start", "done", "failed"} => cur = 1
  /\ pc \in {"idle", "done", "failed"} => look = 1
  /\ pc \in {"idle", "loop", "done", "failed"} => got = NothingRead
  /\ pc \in {"idle", "start", "done", "failed"} => before = NothingRead
  /\ pc \in {"wait", "check"} => cur \in Pod /\ AllReady

\* A copy shows a pod as it was since the restart was asked for first.
Past(s, p) == /\ old[p] <= s.uid /\ s.uid <= pod[p].uid
              /\ s.phase = "none" /\ s.uid = pod[p].uid => pod[p].phase = "none"

Copies == /\ \A p \in Pod : Past(cached[p], p)
          /\ pc = "start" => \A p \in Pod : p < look => Past(got[p], p)

\* What Restart has dealt with is renewed.
Dealt(p) == \/ pc = "done"
            \/ pc \in {"loop", "wait", "check"} /\ p < cur
            \/ pc \in {"wait", "check"} /\ p = cur

Progress == \A p \in Pod : Dealt(p) => Renewed(p)

\* A copy of a pod not restarted yet: if it shows it ready, then so it is.
Steady(s, p) == /\ s.phase # "terminating"
                /\ s.phase = "ready" => pod[p] = s /\ cached[p] = s

\* A copy of the pod being restarted: if it shows it back, then so it is.
Back(s, p) == s.uid # before[p].uid /\ IsPodReady(s)
              => s.phase = "ready" /\ pod[p] = s

\* Pods that come: read at the start of this call, and not restarted yet.
Ahead(p) == \/ pc = "start" /\ p < look
            \/ pc = "loop" /\ cur <= p
            \/ pc \in {"wait", "check"} /\ cur < p

Waited(p) == pc \in {"wait", "check"} /\ p = cur

Passed(p) == pc \in {"loop", "wait", "check"} /\ p < cur

Sound(p) ==
  /\ Ahead(p) => /\ pod[p].phase # "terminating"
                 /\ Steady(cached[p], p) /\ Steady(got[p], p)
                 /\ Steady(before[p], p)
  /\ Waited(p) => /\ pod[p].uid = before[p].uid
                     => pod[p].phase \in {"terminating", "none"}
                  /\ pod[p].uid # before[p].uid
                     => pod[p].phase \in {"starting", "ready"}
                  /\ Back(cached[p], p) /\ Back(got[p], p)
  /\ Passed(p) => pod[p].phase = "ready"

Excused == hurt \union misjudged

Order == \A p \in Pod \ Excused : Sound(p)

IInv == Typed /\ Control /\ Copies /\ Progress /\ Order
-----------------------------------------------------------------------------
\* The initial states satisfy the invariant: no restart was asked for yet.
LEMMA InitInv == Init => IInv
<1> SUFFICES ASSUME Init PROVE IInv
  OBVIOUS
<1> USE ReplicasAssumption DEF Init, Pod
<1>1. Typed
  BY DEF Typed, Snapshot, Phases, NothingRead
<1>2. Control
  BY DEF Control
<1>3. Copies
  BY DEF Copies, Past
<1>4. Progress
  BY DEF Progress, Dealt
<1>5. Order
  BY DEF Order, Sound, Ahead, Waited, Passed
<1> QED
  BY <1>1, <1>2, <1>3, <1>4, <1>5 DEF IInv

\* What Restart starts from has read nothing.
LEMMA NothingTyped == NothingRead \in [Pod -> Snapshot]
BY DEF NothingRead, Snapshot, Phases

\* A pod that is deleted is in one of the phases.
LEMMA DyingPhase == \A phase \in Phases : Dying(phase) \in Phases
BY DEF Dying, Phases

\* A move of the cluster keeps the shape of the pods.
LEMMA MovesTyped ==
  ASSUME pod \in [Pod -> Snapshot], NEW p \in Pod, NEW to \in Phases,
         NEW from, Moves(p, from, to)
  PROVE  pod' \in [Pod -> Snapshot]
<1>1. [uid |-> pod[p].uid, phase |-> to] \in Snapshot
  BY DEF Snapshot
<1> QED
  BY <1>1 DEF Moves

\* Deleting the current pod lets it end, if it is there.
LEMMA DeleteOne ==
  ASSUME Typed, cur \in Pod, DeletePod
  PROVE  /\ pod'[cur] = [uid |-> pod[cur].uid, phase |-> Dying(pod[cur].phase)]
         /\ \A q \in Pod : q # cur => pod'[q] = pod[q]
BY DEF DeletePod, Typed, Snapshot

\* The types are kept.
LEMMA NextTyped ==
  ASSUME Typed, Control, [Next]_vars
  PROVE  Typed'
<1> USE DEF Typed
<1>1. ASSUME NEW p \in Pod, BecomeReady(p) \/ Vanish(p) \/ Break(p) \/ Evict(p)
      PROVE  Typed'
  <2>1. "ready" \in Phases /\ "none" \in Phases /\ "broken" \in Phases
        /\ Dying(pod[p].phase) \in Phases
    <3>1. pod[p].phase \in Phases
      BY DEF Snapshot
    <3> QED
      BY <3>1, DyingPhase DEF Phases
  <2>2. pod' \in [Pod -> Snapshot]
    BY <1>1, <2>1, MovesTyped DEF BecomeReady, Vanish, Break, Evict
  <2> QED
    BY <1>1, <2>2 DEF BecomeReady, Vanish, Break, Evict, Hurts, operator
<1>0. ASSUME NEW p \in Pod, Recreate(p) PROVE Typed'
  <2>1. [uid |-> pod[p].uid + 1, phase |-> "starting"] \in Snapshot
    BY DEF Snapshot, Phases
  <2> QED
    BY <1>0, <2>1 DEF Recreate, operator
<1>2. ASSUME NEW p \in Pod, Deliver(p) PROVE Typed'
  BY <1>2 DEF Deliver, operator
<1>4. CASE Call
  <2>1. \A p \in Pod : cached[p].uid \in Nat
    BY DEF Snapshot
  <2>2. old' \in [Pod -> Nat]
    BY <1>4, <2>1 DEF Call
  <2> QED
    BY <1>4, <2>2 DEF Call, Env
<1>5. CASE CheckPod
  <2>1. look \in Pod
    BY <1>5 DEF CheckPod, Control, Pod
  <2> QED
    BY <1>5, <2>1 DEF CheckPod, Env
<1>6. CASE CheckFails
  BY <1>6, NothingTyped DEF CheckFails, Env, End
<1>7. CASE Begin
  BY <1>7, NothingTyped DEF Begin, Env, End
<1>8. CASE NotReady \/ DeleteFails \/ Return
  BY <1>8, NothingTyped DEF NotReady, DeleteFails, Return, Env, End
<1>9. CASE DeletePod
  <2>1. cur \in Pod
    BY <1>9, ReplicasAssumption DEF DeletePod, Control, Pod
  <2>2. PICK ph \in Phases : pod' = [pod EXCEPT ![cur].phase = ph]
    BY <1>9, <2>1, DyingPhase DEF DeletePod, Snapshot
  <2>3. [pod[cur] EXCEPT !.phase = ph] \in Snapshot
    BY <2>1, <2>2 DEF Snapshot
  <2>4. pod' \in [Pod -> Snapshot]
    BY <2>1, <2>2, <2>3
  <2> QED
    BY <1>9, <2>4 DEF DeletePod
<1>10. CASE PodBack
  <2>1. cur \in Pod
    BY <1>10 DEF PodBack, Control
  <2> QED
    BY <1>10, <2>1, NothingTyped DEF PodBack, Env
<1>11. CASE PodNotBack \/ WaitOn
  BY <1>11, NothingTyped DEF PodNotBack, WaitOn, LookAgain, Env, End
<1>12. CASE UNCHANGED vars
  BY <1>12 DEF vars, operator
<1> QED
  BY <1>0, <1>1, <1>2, <1>4, <1>5, <1>6, <1>7, <1>8, <1>9, <1>10, <1>11, <1>12
  DEF Next, Operator

\* A pod that is waited for is one of the pods, and all of them were ready at
\* the start.
LEMMA NextControl ==
  ASSUME Typed, Control, [Next]_vars
  PROVE  Control'
<1> USE ReplicasAssumption, LimitAssumption DEF Control, AllReady
<1>1. ASSUME NEW p \in Pod, Recreate(p) \/ BecomeReady(p) \/ Vanish(p)
                             \/ Break(p) \/ Evict(p) \/ Deliver(p)
      PROVE  Control'
  BY <1>1 DEF Recreate, BecomeReady, Vanish, Break, Evict, Hurts, Deliver, operator
<1>3. CASE Call
  BY <1>3 DEF Call
<1>4. CASE CheckPod
  BY <1>4 DEF CheckPod, Env
<1>5. CASE CheckFails
  BY <1>5 DEF CheckFails, Env, End
<1>6. CASE Begin
  BY <1>6 DEF Begin, Env, End, Outcome
<1>7. CASE NotReady \/ DeleteFails \/ Return
  BY <1>7 DEF NotReady, DeleteFails, Return, Env, End
<1>8. CASE DeletePod
  BY <1>8 DEF DeletePod, Pod
<1>9. CASE PodBack
  BY <1>9 DEF PodBack, Pod
<1>10. CASE PodNotBack \/ WaitOn
  BY <1>10 DEF PodNotBack, WaitOn, LookAgain, Env, End
<1>11. CASE UNCHANGED vars
  BY <1>11 DEF vars, operator
<1> QED
  BY <1>1, <1>3, <1>4, <1>5, <1>6, <1>7, <1>8, <1>9, <1>10, <1>11
  DEF Next, Operator

\* What the steps of the cluster have in common: they move one pod, once, and a
\* pod that was shown as gone is not recreated under the same uid.
LEMMA ClusterStep ==
  ASSUME Typed, NEW p \in Pod,
         Recreate(p) \/ BecomeReady(p) \/ Vanish(p) \/ Break(p) \/ Evict(p)
  PROVE  /\ \A q \in Pod : q # p => pod'[q] = pod[q]
         /\ pod[p].uid \in Nat /\ pod[p].uid <= pod'[p].uid
         /\ \/ pod[p].phase = "none" /\ pod'[p].uid = pod[p].uid + 1
            \/ /\ pod[p].phase # "none" /\ pod'[p].uid = pod[p].uid
               /\ pod[p].phase \in {"terminating", "ending"}
                  => pod'[p].phase = "none"
         /\ UNCHANGED <<cached, operator>>
<1>1. pod[p].uid \in Nat
  BY DEF Typed, Snapshot
<1>2. CASE Recreate(p)
  BY <1>1, <1>2 DEF Typed, Recreate
<1>3. CASE BecomeReady(p)
  BY <1>1, <1>3 DEF Typed, BecomeReady, Moves
<1>4. CASE Vanish(p)
  BY <1>1, <1>4 DEF Typed, Vanish, Moves
<1>5. CASE Break(p)
  BY <1>1, <1>5 DEF Typed, Break, Hurts, Moves
<1>6. CASE Evict(p)
  BY <1>1, <1>6 DEF Typed, Evict, Hurts, Moves
<1> QED
  BY <1>2, <1>3, <1>4, <1>5, <1>6

\* A copy of the past stays one while the pod moves on.
LEMMA PastStays ==
  ASSUME Typed, NEW p \in Pod, NEW s \in Snapshot, Past(s, p), old' = old,
         \/ pod'[p] = pod[p]
         \/ /\ pod[p].phase = "none" /\ pod'[p].uid = pod[p].uid + 1
         \/ /\ pod[p].phase # "none" /\ pod'[p].uid = pod[p].uid
         \/ /\ pod'[p].phase = "none" /\ pod'[p].uid = pod[p].uid
  PROVE  Past(s, p)'
<1>1. pod[p].uid \in Nat /\ s.uid \in Nat /\ old[p] \in Nat
  BY DEF Typed, Snapshot
<1> QED
  BY <1>1 DEF Past

\* The copies show the past: the pods of the current incarnation or an earlier
\* one, since the restart was asked for first.
LEMMA NextCopies ==
  ASSUME Typed, Control, Copies, [Next]_vars
  PROVE  Copies'
<1>0. /\ \A p \in Pod : cached[p] \in Snapshot /\ got[p] \in Snapshot
                        /\ pod[p] \in Snapshot
      /\ \A p \in Pod : pod[p].uid \in Nat /\ cached[p].uid \in Nat
  BY DEF Typed, Snapshot
<1>1. ASSUME NEW p \in Pod, Recreate(p) \/ BecomeReady(p) \/ Vanish(p)
                             \/ Break(p) \/ Evict(p)
      PROVE  Copies'
  <2>1. /\ UNCHANGED <<cached, operator>>
        /\ \A q \in Pod : \/ pod'[q] = pod[q]
                          \/ pod[q].phase = "none" /\ pod'[q].uid = pod[q].uid + 1
                          \/ pod[q].phase # "none" /\ pod'[q].uid = pod[q].uid
    BY <1>1, ClusterStep
  <2>2. \A q \in Pod : Past(cached[q], q)'
    BY <1>0, <2>1, PastStays DEF Copies, operator, Past
  <2>3. ASSUME pc' = "start", NEW q \in Pod, q < look' PROVE Past(got[q], q)'
    BY <1>0, <2>1, <2>3, PastStays DEF Copies, operator, Past
  <2> QED
    BY <2>2, <2>3 DEF Copies
<1>2. ASSUME NEW p \in Pod, Deliver(p) PROVE Copies'
  BY <1>0, <1>2 DEF Typed, Copies, Past, Deliver, operator
<1>3. CASE Call
  BY <1>0, <1>3 DEF Typed, Control, Copies, Past, Call, Env, Pod
<1>4. CASE CheckPod
  BY <1>4 DEF Typed, Control, Copies, Past, CheckPod, Env, Pod
<1>5. CASE DeletePod
  <2>1. cur \in Pod /\ pc' = "wait" /\ UNCHANGED <<cached, old>>
    BY <1>5, ReplicasAssumption DEF DeletePod, Control, Pod
  <2>2. \A q \in Pod : \/ pod'[q] = pod[q]
                       \/ pod[q].phase # "none" /\ pod'[q].uid = pod[q].uid
                       \/ pod'[q].phase = "none" /\ pod'[q].uid = pod[q].uid
    BY <1>5, <2>1, DeleteOne DEF Dying
  <2>3. \A q \in Pod : Past(cached[q], q)'
    BY <1>0, <2>1, <2>2, PastStays DEF Copies, Past
  <2> QED
    BY <2>1, <2>3 DEF Copies
<1>6. CASE CheckFails \/ Begin \/ NotReady \/ DeleteFails
           \/ PodBack \/ PodNotBack \/ WaitOn \/ Return \/ UNCHANGED vars
  <2>1. UNCHANGED <<pod, cached, old>>
    BY <1>6 DEF CheckFails, Begin, NotReady, DeleteFails, PodBack,
                PodNotBack, WaitOn, Return, Env, vars, operator
  <2>2. pc' = "start" => pc = "start" /\ UNCHANGED <<got, look>>
    BY <1>6 DEF CheckFails, Begin, NotReady, DeleteFails, PodBack,
                PodNotBack, WaitOn, LookAgain, Return, End, Outcome, vars,
                operator
  <2> QED
    BY <2>1, <2>2 DEF Copies, Past
<1> QED
  BY <1>1, <1>2, <1>3, <1>4, <1>5, <1>6 DEF Next, Operator

\* Once renewed, a pod stays renewed while the restart is the same.
LEMMA RenewedStays ==
  ASSUME Typed, Control, Copies, [Next]_vars, old' = old, NEW q \in Pod,
         Renewed(q)
  PROVE  Renewed(q)'
<1>0. /\ pod[q].uid \in Nat /\ old[q] \in Nat /\ cached[q].uid \in Nat
      /\ old[q] <= pod[q].uid
  BY DEF Typed, Snapshot, Copies, Past
<1>1. ASSUME NEW p \in Pod, Recreate(p) \/ BecomeReady(p) \/ Vanish(p)
                             \/ Break(p) \/ Evict(p)
      PROVE  Renewed(q)'
  BY <1>0, <1>1, ClusterStep DEF Renewed
<1>2. CASE DeletePod
  <2>1. cur \in Pod
    BY <1>2, ReplicasAssumption DEF DeletePod, Control, Pod
  <2> QED
    BY <1>0, <1>2, <2>1, DeleteOne DEF Renewed, Dying
<1>3. CASE pod' = pod
  BY <1>3 DEF Renewed
<1> QED
  BY <1>1, <1>2, <1>3
  DEF Next, Operator, Deliver, Call, CheckPod, CheckFails, Begin,
      NotReady, DeleteFails, PodBack, PodNotBack, WaitOn, Return, Env, vars

\* What Restart has dealt with is renewed: the pods before the current one, the
\* one it waits for, and all of them when it finds no pod or reaches the end.
LEMMA NextProgress ==
  ASSUME Typed, Control, Copies, Progress, [Next]_vars
  PROVE  Progress'
<1> SUFFICES ASSUME NEW p \in Pod, Dealt(p)' PROVE Renewed(p)'
  BY DEF Progress
<1>0. old' = old
  BY DEF Next, Operator, Recreate, BecomeReady, Vanish, Break, Evict, Hurts, Deliver,
         operator, Call, CheckPod, CheckFails, Begin, NotReady,
         DeletePod, DeleteFails, PodBack, PodNotBack, WaitOn, Return, Env,
         vars, Dealt
<1>1. CASE Dealt(p)
  BY <1>0, <1>1, RenewedStays DEF Progress
<1>2. CASE Begin /\ ~Dealt(p)
  <2>1. pc = "start" /\ look > N /\ pod' = pod /\ p < look
    BY <1>2, ReplicasAssumption DEF Begin, Env, Pod, Control
  <2>2. \A q \in Pod : ~Exists(got[q])
    <3> DEFINE found == {q \in Pod : Exists(got[q])}
    <3>1. pc' = Outcome(found)
      BY <1>2 DEF Begin, End
    <3>2. pc' # "loop"
      BY <1>2, <2>1 DEF Begin, Outcome, End, Dealt, Control, Pod
    <3>3. pc' = "done"
      BY <3>1, <3>2 DEF Outcome, Dealt
    <3> QED
      BY <3>1, <3>3 DEF Outcome
  <2>3. Past(got[p], p) /\ got[p].phase = "none"
    BY <2>1, <2>2 DEF Copies, Exists
  <2>4. old[p] \in Nat /\ got[p].uid \in Nat /\ pod[p].uid \in Nat
    BY DEF Typed, Snapshot
  <2> QED
    BY <1>0, <2>1, <2>3, <2>4 DEF Past, Renewed
<1>3. CASE DeletePod /\ ~Dealt(p)
  <2>1. p = cur
    BY <1>3 DEF DeletePod, Dealt
  <2>2. pod[p].phase \in Phases
    BY DEF Typed, Snapshot
  <2> QED
    BY <1>3, <2>1, <2>2, DeleteOne DEF Renewed, Dying, Phases
<1>4. CASE PodBack
  BY <1>1, <1>4 DEF PodBack, Dealt, Control, Pod
<1>5. CASE Return
  BY <1>1, <1>5, ReplicasAssumption DEF Return, End, Dealt, Control, Pod
<1>6. CASE Call \/ CheckPod \/ CheckFails \/ NotReady
           \/ DeleteFails
  BY <1>1, <1>6 DEF Call, CheckPod, CheckFails, NotReady, DeleteFails,
                    End, Dealt, Control, Pod
<1>7. CASE PodNotBack \/ WaitOn
  BY <1>1, <1>7 DEF PodNotBack, WaitOn, LookAgain, End, Dealt, Control, Pod
<1>8. CASE UNCHANGED operator
  BY <1>1, <1>8 DEF operator, Dealt
<1> QED
  BY <1>1, <1>2, <1>3, <1>4, <1>5, <1>6, <1>7, <1>8
  DEF Next, Operator, Recreate, BecomeReady, Vanish, Break, Evict, Hurts, Deliver, vars

\* The cluster and the informer keep the copies sound: no pod goes down that is
\* not hurt by it, but the one that was deleted, and a copy that shows a pod as
\* it is stays right.
LEMMA ClusterOrder ==
  ASSUME Typed, Control, Copies, Order, NEW p \in Pod,
         \/ Recreate(p) \/ BecomeReady(p) \/ Vanish(p) \/ Break(p) \/ Evict(p)
         \/ Deliver(p)
  PROVE  Order'
<1> SUFFICES ASSUME NEW q \in Pod \ Excused' PROVE Sound(q)'
  BY DEF Order
<1>1. /\ UNCHANGED operator /\ q \notin Excused /\ Sound(q)
      /\ (Break(p) \/ Evict(p)) /\ Running => p \in Excused'
  BY DEF Recreate, BecomeReady, Vanish, Break, Evict, Hurts, Deliver, Order,
         Excused
<1>2. /\ Ahead(q)' = Ahead(q) /\ Waited(q)' = Waited(q)
      /\ Passed(q)' = Passed(q)
  BY <1>1 DEF operator, Ahead, Waited, Passed
<1>3. /\ pod[q] \in Snapshot /\ pod[q].uid \in Nat
      /\ cached[q] \in Snapshot /\ cached[q].uid \in Nat
      /\ cached[q].uid <= pod[q].uid
      /\ pc \in {"wait", "check"} => before[q].phase \in {"ready", "terminating"}
  BY DEF Typed, Snapshot, Copies, Past, Control, AllReady, IsPodReady
<1>4. CASE q # p
  <2>1. pod'[q] = pod[q] /\ cached'[q] = cached[q]
    BY <1>4 DEF Typed, Recreate, BecomeReady, Vanish, Break, Evict, Hurts, Deliver, Moves
  <2> QED
    BY <1>1, <1>2, <2>1 DEF Sound, Steady, Back, IsPodReady, operator
<1>5. CASE q = p /\ Deliver(p)
  <2>1. pod' = pod /\ cached'[q] = pod[q] /\ cached[q] # pod[q]
    BY <1>5 DEF Typed, Deliver
  <2>2. Ahead(q) => Steady(cached[q], q)' /\ Steady(got[q], q)'
                    /\ Steady(before[q], q)'
    BY <1>1, <2>1 DEF Sound, Steady, operator
  <2>3. Waited(q) => Back(cached[q], q)' /\ Back(got[q], q)'
    BY <1>1, <2>1 DEF Sound, Back, IsPodReady, operator
  <2> QED
    BY <1>1, <1>2, <2>1, <2>2, <2>3 DEF Sound, operator
<1>6. CASE q = p /\ Recreate(p)
  <2>1. /\ cached' = cached /\ pod[q].phase = "none"
        /\ pod'[q] = [uid |-> pod[q].uid + 1, phase |-> "starting"]
    BY <1>6 DEF Typed, Recreate, Moves
  <2>2. Ahead(q) => Sound(q)'
    BY <1>1, <1>2, <2>1 DEF Sound, Steady, operator, Ahead, Waited, Passed
  <2>3. Waited(q) => Sound(q)'
    BY <1>1, <1>2, <1>3, <2>1 DEF Sound, Back, IsPodReady, operator, Ahead, Waited,
                                  Passed
  <2> QED
    BY <1>1, <1>2, <2>1, <2>2, <2>3 DEF Sound
<1>7. CASE q = p /\ BecomeReady(p)
  <2>1. /\ cached' = cached /\ pod[q].phase \in {"starting", "broken"}
        /\ pod'[q] = [uid |-> pod[q].uid, phase |-> "ready"]
    BY <1>7 DEF Typed, BecomeReady, Moves
  <2>2. Ahead(q) => Sound(q)'
    BY <1>1, <1>2, <2>1 DEF Sound, Steady, operator, Ahead, Waited, Passed
  <2>3. Waited(q) => Sound(q)'
    BY <1>1, <1>2, <1>3, <2>1 DEF Sound, Back, IsPodReady, operator, Ahead, Waited,
                                  Passed
  <2> QED
    BY <1>1, <1>2, <2>1, <2>2, <2>3 DEF Sound
<1>8. CASE q = p /\ Vanish(p)
  <2>1. /\ cached' = cached /\ pod[q].phase \in {"terminating", "ending"}
        /\ pod'[q] = [uid |-> pod[q].uid, phase |-> "none"]
    BY <1>8 DEF Typed, Vanish, Moves
  <2>2. ~Passed(q)
    BY <1>1, <2>1 DEF Sound
  <2>4. Ahead(q) => Sound(q)'
    BY <1>1, <1>2, <2>1 DEF Sound, Steady, operator, Ahead, Waited, Passed
  <2>3. Waited(q) => Sound(q)'
    BY <1>1, <1>2, <1>3, <2>1 DEF Sound, Back, IsPodReady, operator, Ahead, Waited,
                                  Passed
  <2> QED
    BY <1>1, <1>2, <2>1, <2>2, <2>3, <2>4 DEF Sound
<1>9. CASE q = p /\ (Break(p) \/ Evict(p))
  <2>1. ~Running
    BY <1>1, <1>9
  <2>2. ~Ahead(q) /\ ~Waited(q) /\ ~Passed(q)
    BY <2>1 DEF Ahead, Waited, Passed
  <2> QED
    BY <1>2, <2>2 DEF Sound
<1> QED
  BY <1>4, <1>5, <1>6, <1>7, <1>8, <1>9

\* A call starts with nothing read.
LEMMA CallOrder ==
  ASSUME Typed, Control, Order, Call
  PROVE  Order'
<1>1. pc' = "start" /\ look' = 1
  BY DEF Call, Control
<1>2. \A q \in Pod : ~Ahead(q)' /\ ~Waited(q)' /\ ~Passed(q)'
  BY <1>1 DEF Ahead, Waited, Passed, Pod
<1> QED
  BY <1>2 DEF Order, Sound, Excused

\* Deleting a pod keeps the copies sound: it was ready, as all of them were, and
\* the copies of it show it as it was before.
LEMMA DeleteOrder ==
  ASSUME Typed, Control, Order, DeletePod
  PROVE  Order'
<1> SUFFICES ASSUME NEW q \in Pod \ Excused' PROVE Sound(q)'
  BY DEF Order
<1>1. /\ cur \in Pod /\ Sound(q) /\ pc = "loop" /\ pc' = "wait" /\ AllReady
      /\ UNCHANGED <<cached, got, before, cur>>
  BY ReplicasAssumption DEF DeletePod, Order, Excused, Pod, Control
<1>2. got[q].phase = "none"
  BY <1>1 DEF Control, NothingRead
<1>3. CASE q # cur
  <2>1. pod'[q] = pod[q]
    BY <1>3 DEF DeletePod, Typed
  <2>2. ~Waited(q)'
    BY <1>1, <1>3 DEF Waited
  <2>3. Ahead(q)' => Ahead(q)
    BY <1>1, <1>3 DEF Ahead, Control, Pod
  <2>4. Passed(q)' => Passed(q)
    BY <1>1 DEF Passed
  <2> QED
    BY <1>1, <2>1, <2>2, <2>3, <2>4 DEF Sound, Steady
<1>4. CASE q = cur
  <2>1. Ahead(q)
    BY <1>1, <1>4 DEF Ahead, Control, Pod
  <2>2. before[q].phase = "ready"
    BY <1>1, <2>1 DEF Sound, Steady, AllReady, IsPodReady
  <2>3. pod[q] = before[q] /\ cached[q] = before[q]
    BY <1>1, <2>1, <2>2 DEF Sound, Steady
  <2>4. pod'[q].phase = "terminating" /\ pod'[q].uid = before[q].uid
    BY <1>1, <1>4, <2>2, <2>3, DeleteOne DEF Dying
  <2>5. Back(cached[q], q)' /\ Back(got[q], q)'
    BY <1>1, <1>2, <2>3 DEF Back, IsPodReady
  <2>6. ~Ahead(q)' /\ ~Passed(q)'
    BY <1>1, <1>4 DEF Ahead, Passed, Control
  <2> QED
    BY <2>4, <2>5, <2>6, <1>1 DEF Sound
<1> QED
  BY <1>3, <1>4

\* A pod found back is back: it is ready in the cluster, too.
LEMMA BackOrder ==
  ASSUME Typed, Control, Order, PodBack
  PROVE  Order'
<1> SUFFICES ASSUME NEW q \in Pod \ Excused' PROVE Sound(q)'
  BY DEF Order
<1>1. /\ Sound(q) /\ pc = "wait" /\ pc' = "loop" /\ cur' = cur + 1 /\ cur \in Pod
      /\ UNCHANGED <<pod, cached, before>> /\ got'[q].phase = "none"
      /\ PodIsBack /\ (NoneFound => q # cur)
  BY DEF PodBack, Order, Excused, Env, Control, NothingRead
<1>2. ~Waited(q)' /\ (Ahead(q)' => Ahead(q))
  BY <1>1 DEF Waited, Ahead, Pod
<1>3. Passed(q)' => Passed(q) \/ q = cur
  BY <1>1 DEF Passed, Pod
<1>4. q = cur => pod[q].phase = "ready"
  BY <1>1 DEF PodIsBack, Sound, Waited, Back
<1> QED
  BY <1>1, <1>2, <1>3, <1>4 DEF Sound, Steady

\* Reading a pod keeps the copies sound: what is read is the cached copy, and a
\* pod is misjudged if that is not right at the start.
LEMMA CheckOrder ==
  ASSUME Typed, Control, Order, CheckPod
  PROVE  Order'
<1> SUFFICES ASSUME NEW q \in Pod \ Excused' PROVE Sound(q)'
  BY DEF Order
<1>1. /\ Sound(q) /\ UNCHANGED <<pod, cached, before, pc, cur>>
      /\ got'[q] = got[q] \/ (q = look /\ got'[q] = cached[q])
      /\ look \in Nat /\ look' = look + 1 /\ q \in Nat
  BY DEF CheckPod, Env, Order, Typed, Excused, Control, Pod
<1>2. Waited(q)' = Waited(q) /\ Passed(q)' = Passed(q)
  BY <1>1 DEF Waited, Passed
<1>3. UNCHANGED <<pod[q], cached[q], before[q]>>
  BY <1>1
<1>4. CASE Ahead(q) \/ ~Ahead(q)'
  <2>1. Ahead(q) => Steady(got[q], q)'
    BY <1>1 DEF Sound, Steady
  <2>2. Waited(q) => Back(got[q], q)'
    BY <1>1 DEF Sound, Back, IsPodReady
  <2> QED
    BY <1>1, <1>2, <1>3, <1>4, <2>1, <2>2 DEF Sound, Steady, Back
<1>5. CASE ~Ahead(q) /\ Ahead(q)'
  <2>1. pc = "start" /\ q = look
    BY <1>1, <1>5 DEF Ahead
  <2>2. cached[q] = pod[q] /\ pod[q].phase # "terminating"
    BY <2>1 DEF CheckPod, Excused, Misleading
  <2>3. got'[q] = cached[q] /\ before[q].phase = "none"
    BY <2>1 DEF CheckPod, Typed, Control, NothingRead
  <2>4. ~Waited(q)' /\ ~Passed(q)'
    BY <1>1, <2>1 DEF Waited, Passed
  <2> QED
    BY <1>1, <1>3, <2>2, <2>3, <2>4 DEF Sound, Steady
<1> QED
  BY <1>4, <1>5

\* The other steps of Restart touch neither the pods nor the cache: they keep
\* what was read or forget it.
LEMMA OperatorOrder ==
  ASSUME Typed, Control, Order,
         \/ CheckFails \/ Begin \/ NotReady \/ DeleteFails \/ PodNotBack
         \/ WaitOn \/ Return \/ UNCHANGED vars
  PROVE  Order'
<1> SUFFICES ASSUME NEW q \in Pod \ Excused' PROVE Sound(q)'
  BY DEF Order
<1>1. UNCHANGED <<pod, cached>>
  BY DEF CheckFails, Begin, NotReady, DeleteFails, PodNotBack, WaitOn, Return,
         Env, vars
<1>0. pc' \in {"done", "failed"} \/ Sound(q)
  <2>1. pc' \in {"done", "failed"} \/ UNCHANGED <<hurt, misjudged>>
    BY DEF CheckFails, Begin, NotReady, DeleteFails, PodNotBack, WaitOn,
           LookAgain, Return, End, Outcome, vars
  <2> QED
    BY <2>1 DEF Order, Excused
<1>2. CASE pc' \in {"done", "failed"}
  BY <1>2 DEF Sound, Ahead, Waited, Passed
<1>3. CASE Begin /\ pc' = "loop"
  <2>1. /\ Ahead(q) /\ before' = got /\ got'[q].phase = "none" /\ cur' = 1
        /\ Sound(q)
    <3>1. pc = "start" /\ look > N /\ before' = got /\ got' = NothingRead
      BY <1>3 DEF Begin, End
    <3>2. cur' = 1
      BY <1>3, <3>1 DEF Begin, End, Control
    <3>3. q < look
      BY <3>1, ReplicasAssumption DEF Control, Pod
    <3> QED
      BY <1>0, <1>3, <3>1, <3>2, <3>3 DEF Ahead, NothingRead
  <2>2. ~Waited(q)' /\ ~Passed(q)'
    BY <1>3, <2>1 DEF Waited, Passed, Pod
  <2> QED
    BY <1>1, <2>1, <2>2 DEF Sound, Steady
<1>4. CASE (PodNotBack \/ WaitOn \/ CheckFails) /\ pc' \in {"check", "wait"}
  <2>1. /\ pc \in {"check", "wait"} /\ UNCHANGED <<before, cur>>
        /\ got' = got \/ got'[q].phase = "none"
    BY <1>4 DEF PodNotBack, WaitOn, LookAgain, CheckFails, End, NothingRead
  <2>2. /\ Ahead(q)' => Ahead(q)
        /\ Waited(q)' => Waited(q)
        /\ Passed(q)' => Passed(q)
    BY <1>4, <2>1 DEF Ahead, Waited, Passed
  <2> QED
    BY <1>1, <1>0, <1>4, <2>1, <2>2 DEF Sound, Steady, Back, IsPodReady
<1>5. CASE UNCHANGED vars
  BY <1>1, <1>0, <1>5 DEF vars, operator, Sound, Steady, Back, Ahead, Waited, Passed
<1> QED
  BY <1>2, <1>3, <1>4, <1>5
  DEF CheckFails, Begin, Outcome, NotReady, DeleteFails, PodNotBack, WaitOn,
      LookAgain, Return, End

\* Every step keeps the copies sound.
LEMMA NextOrder ==
  ASSUME Typed, Control, Copies, Order, [Next]_vars
  PROVE  Order'
BY ClusterOrder, CallOrder, DeleteOrder, BackOrder, CheckOrder, OperatorOrder
DEF Next, Operator

\* The invariant holds always.
THEOREM Invariance == Spec => []IInv
<1>1. IInv /\ [Next]_vars => IInv'
  BY NextTyped, NextControl, NextCopies, NextProgress, NextOrder DEF IInv
<1> QED
  BY InitInv, <1>1, PTL DEF Spec

\* AllRenewed holds for any number of replicas and any number of failures,
\* breakdowns and evictions: a restart that succeeds has restarted every pod.
THEOREM EveryPodRenewed == Spec => []AllRenewed
<1>1. IInv => AllRenewed
  BY DEF IInv, Progress, Dealt, AllRenewed
<1> QED
  BY Invariance, <1>1, PTL

\* When Restart deletes a pod, all the others that are not excused are ready.
LEMMA OthersReady ==
  ASSUME IInv, DeletePod, NEW p \in Pod \ (hurt \union misjudged \union {cur})
  PROVE  pod[p].phase = "ready"
<1>1. Sound(p) /\ pc = "loop" /\ IsPodReady(before[p]) /\ cur \in Nat
  BY DEF IInv, Order, Excused, DeletePod, AllReady, Control
<1>2. CASE cur <= p
  BY <1>1, <1>2 DEF Sound, Ahead, Steady, IsPodReady
<1>3. CASE p < cur
  BY <1>1, <1>3 DEF Sound, Passed
<1> QED
  BY <1>1, <1>2, <1>3 DEF Pod

\* OneAtATime holds for any number of replicas: what one call of Restart deletes
\* is one pod at a time, but for pods that were broken or evicted meanwhile and
\* those the call misjudged.
THEOREM OnePodAtATime == Spec => OneAtATime
<1>1. IInv /\ [Next]_vars =>
        [DeletePod => \A p \in Pod \ (hurt \union misjudged \union {cur}) :
                        pod[p].phase = "ready"]_vars
  BY OthersReady
<1> QED
  BY Invariance, <1>1, PTL DEF Spec, OneAtATime

(* The refinement: what each step is to the reader of RollingRestart.      *)

Up == {p \in Pod : pod[p].phase = "ready"}
Outdated == {p \in Pod : ~Renewed(p)}

\* Restart starts as promised: all pods are up and outdated, none is excused.
LEMMA PromiseInit == Init => Promise!Init
<1> SUFFICES ASSUME Init PROVE Promise!Init
  OBVIOUS
<1>1. \A p \in Pod : pod[p].phase = "ready" /\ ~Renewed(p)
  BY DEF Init, Renewed
<1> QED
  BY <1>1 DEF Init, Promise!Init, Phase

\* What the cluster does to a pod is that it comes up, goes down or neither.
LEMMA ClusterPromised ==
  ASSUME IInv, NEW p \in Pod,
         \/ Recreate(p) \/ BecomeReady(p) \/ Vanish(p) \/ Break(p) \/ Evict(p)
  PROVE  [Promise!Next]_Promise!vars
<1>1. /\ Typed /\ old[p] \in Nat /\ pod[p].uid \in Nat /\ old[p] <= pod[p].uid
      /\ old' = old /\ pc' = pc /\ Phase' = Phase
  BY DEF IInv, Typed, Snapshot, Copies, Past, Recreate, BecomeReady, Vanish,
         Break, Evict, Hurts, operator, Phase
<1>2. \A q \in Pod \ {p} : pod'[q] = pod[q] /\ Renewed(q)' = Renewed(q)
  BY <1>1 DEF Recreate, BecomeReady, Vanish, Break, Evict, Hurts, Moves, Typed, Renewed
<1>3. CASE Recreate(p) \/ Vanish(p)
  <2>1. /\ Renewed(p) /\ Renewed(p)' /\ UNCHANGED <<hurt, misjudged>>
        /\ pod[p].phase # "ready" /\ pod'[p].phase # "ready"
    BY <1>1, <1>3 DEF Recreate, Vanish, Moves, Typed, Renewed
  <2> QED
    BY <1>1, <1>2, <2>1 DEF Promise!vars
<1>4. CASE BecomeReady(p)
  <2>1. /\ Renewed(p)' = Renewed(p) /\ UNCHANGED <<hurt, misjudged>>
        /\ pod'[p].phase = "ready"
    BY <1>1, <1>4 DEF BecomeReady, Moves, Typed, Renewed
  <2>2. Up' = Up \union {p} /\ Outdated' = Outdated
    BY <1>2, <2>1 DEF Up, Outdated
  <2> QED
    BY <1>1, <2>1, <2>2 DEF Up, Outdated, Promise!Next, Promise!ComeUp
<1>5. CASE Break(p) \/ Evict(p)
  <2>0. /\ pod[p].phase \in {"starting", "ready", "broken"}
        /\ pod'[p].phase \in {"broken", "terminating", "ending"}
        /\ pod'[p].uid = pod[p].uid
    <3>1. CASE Break(p)
      BY <1>1, <3>1 DEF Break, Moves, Typed
    <3>2. CASE Evict(p)
      BY <1>1, <3>2 DEF Evict, Moves, Typed, Dying
    <3> QED
      BY <1>5, <3>1, <3>2
  <2>1. /\ Renewed(p) => Renewed(p)'
        /\ hurt' = (IF Phase = "running" THEN hurt \union {p} ELSE hurt)
        /\ misjudged' = misjudged /\ pod'[p].phase # "ready"
    BY <1>1, <1>5, <2>0 DEF Break, Evict, Hurts, Renewed, Phase
  <2>2. Up' = Up \ {p}
    BY <1>2, <2>1 DEF Up
  <2>3. Outdated' \in {Outdated, Outdated \ {p}}
    <3>1. CASE ~Renewed(p)'
      BY <1>2, <2>1, <3>1 DEF Outdated
    <3>2. CASE Renewed(p)'
      BY <1>2, <3>2 DEF Outdated
    <3> QED
      BY <3>1, <3>2
  <2> QED
    BY <1>1, <2>1, <2>2, <2>3 DEF Up, Outdated, Promise!Next, Promise!GoDown
<1> QED
  BY <1>3, <1>4, <1>5

\* Asking for the restart: what is outdated is decided by the first call.
LEMMA CallPromised == ASSUME IInv, Call PROVE [Promise!Next]_Promise!vars
<1>1. /\ Phase \in {"idle", "failed"} /\ Phase' = "running"
      /\ pod' = pod /\ UNCHANGED <<hurt, misjudged>>
  BY DEF Call, Env, Phase, IInv, Typed
<1>2. Phase = "failed" => old' = old
  BY DEF Call, Phase, IInv, Control
<1>3. Phase = "failed" => Outdated' = Outdated
  BY <1>1, <1>2 DEF Outdated, Renewed
<1> QED
  BY <1>1, <1>3 DEF Outdated, Promise!Next, Promise!Ask

\* Deleting a pod takes it down, and all the others that are not excused are up.
LEMMA DeletePromised == ASSUME IInv, DeletePod PROVE [Promise!Next]_Promise!vars
<1>1. cur \in Pod /\ pod[cur] \in Snapshot /\ Typed /\ Phase = "running"
  BY ReplicasAssumption DEF DeletePod, IInv, Control, Pod, Typed, Phase
<1>2. /\ \A q \in Pod \ {cur} : pod'[q] = pod[q] /\ Renewed(q)' = Renewed(q)
      /\ pod'[cur].phase \in {"none", "terminating", "ending"}
      /\ Phase' = Phase /\ UNCHANGED <<hurt, misjudged>>
  <2>1. pod[cur].phase \in Phases
    BY <1>1 DEF Snapshot
  <2>2. pod'[cur].phase \in {"none", "terminating", "ending"}
    BY <1>1, <2>1, DeleteOne DEF Dying, Phases
  <2> QED
    BY <1>1, <2>2, DeleteOne DEF DeletePod, Renewed, Phase
<1>3. Up' = Up \ {cur} /\ Outdated' = Outdated \ {cur}
  BY <1>1, <1>2 DEF Up, Outdated, Renewed
<1>4. Pod \ (hurt \union misjudged \union {cur}) \subseteq Up
  BY OthersReady DEF Up
<1> QED
  BY <1>1, <1>2, <1>3, <1>4 DEF Up, Outdated, Promise!Next, Promise!TakeDown

\* The end of a restart is a success only if no pod is outdated, else a failure;
\* a pod is misjudged when it is read, or when no pod was found.
LEMMA ReturnPromised ==
  ASSUME IInv, IInv',
         \/ CheckPod \/ CheckFails \/ Begin \/ NotReady \/ DeleteFails
         \/ PodBack \/ PodNotBack \/ WaitOn \/ Return
  PROVE  [Promise!Next]_Promise!vars
<1>1. /\ UNCHANGED <<pod, old>> /\ Up' = Up /\ Outdated' = Outdated
      /\ Phase = "running"
  BY DEF CheckPod, CheckFails, Begin, NotReady, DeleteFails, PodBack,
         PodNotBack, WaitOn, Return, Env, Up, Outdated, Renewed, Phase
<1>0. Phase' = IF pc' \in {"done", "failed"} THEN pc' ELSE "running"
  BY DEF CheckPod, CheckFails, Begin, Outcome, NotReady, DeleteFails, PodBack,
         PodNotBack, WaitOn, LookAgain, Return, End, Phase
<1>2. CASE pc' \in {"done", "failed"}
  <2>1. hurt' = {} /\ misjudged' = {}
    BY <1>2 DEF CheckPod, CheckFails, Begin, NotReady, DeleteFails, PodBack,
                PodNotBack, WaitOn, LookAgain, Return, End
  <2>2. pc' = "done" => Outdated' = {}
    BY DEF IInv, Progress, Dealt, Outdated
  <2>3. CASE pc' = "done"
    BY <1>0, <1>1, <2>1, <2>2, <2>3
    DEF Up, Outdated, Promise!Next, Promise!Finish
  <2>4. CASE pc' = "failed"
    BY <1>0, <1>1, <2>1, <2>4 DEF Up, Outdated, Promise!Next, Promise!GiveUp
  <2> QED
    BY <1>2, <2>3, <2>4
<1>3. CASE pc' \notin {"done", "failed"}
  <2>1. hurt' = hurt
    BY <1>3 DEF CheckPod, CheckFails, Begin, Outcome, NotReady, DeleteFails,
                PodBack, PodNotBack, WaitOn, LookAgain, Return, End
  <2>2. \/ misjudged' = misjudged
        \/ \E p \in Pod : misjudged' = misjudged \union {p}
    <3>1. CASE CheckPod
      <4>1. look \in Pod
        BY <3>1, ReplicasAssumption DEF CheckPod, IInv, Control, Pod
      <4> QED
        BY <3>1, <4>1 DEF CheckPod
    <3>2. CASE PodBack
      <4>1. cur \in Pod
        BY <3>2 DEF PodBack, IInv, Control
      <4> QED
        BY <3>2, <4>1 DEF PodBack
    <3>3. CASE ~CheckPod /\ ~PodBack
      BY <1>3, <3>3 DEF CheckFails, Begin, Outcome, NotReady, DeleteFails,
                        PodNotBack, WaitOn, LookAgain, Return, End
    <3> QED
      BY <3>1, <3>2, <3>3
  <2>3. CASE misjudged' = misjudged
    BY <1>0, <1>1, <1>3, <2>1, <2>3 DEF Up, Outdated, Promise!vars
  <2>4. ASSUME NEW p \in Pod, misjudged' = misjudged \union {p}
        PROVE  [Promise!Next]_Promise!vars
    BY <1>0, <1>1, <1>3, <2>1, <2>4
    DEF Up, Outdated, Promise!Next, Promise!Misjudge
  <2> QED
    BY <2>2, <2>3, <2>4
<1> QED
  BY <1>2, <1>3

\* Implements holds for any number of replicas: the restart is a RollingRestart.
THEOREM RestartIsRolling == Spec => Implements
<1>1. IInv /\ IInv' /\ [Next]_vars => [Promise!Next]_Promise!vars
  <2> SUFFICES ASSUME IInv, IInv', [Next]_vars
               PROVE  [Promise!Next]_Promise!vars
    OBVIOUS
  <2>1. ASSUME NEW p \in Pod, Deliver(p) PROVE UNCHANGED Promise!vars
    BY <2>1 DEF Deliver, operator, Promise!vars, Phase, Renewed
  <2>2. CASE UNCHANGED vars
    BY <2>2 DEF vars, operator, Promise!vars, Phase, Renewed
  <2> QED
    BY <2>1, <2>2, ClusterPromised, CallPromised, DeletePromised,
       ReturnPromised DEF Next, Operator
<1> QED
  BY PromiseInit, Invariance, <1>1, PTL DEF Spec, Implements, Promise!Spec
=============================================================================
