---------------------------- MODULE ReconcileProofs ----------------------------
(***************************************************************************)
(* Theorems about Reconcile, for every cluster, plan and bound.            *)
(***************************************************************************)
EXTENDS Reconcile, ActionLineProofs

\* What the assumptions say of the constants: every line of the plan is a
\* resource, and so are the inputs of the pods and the claims.
LEMMA ResourceFacts ==
  /\ Len(Line) \in Nat
  /\ Resource \subseteq [kind : Kind, of : Component]
  /\ \A i \in 1..Len(Line) : Line[i] \in Resource
  /\ \A c \in Component : Claim(c) \in Resource /\ Workload(c) \in Resource
  /\ PodInput \subseteq Resource
<1> USE LineAssumption
<1>1. Len(Line) \in Nat /\ DOMAIN Line = 1..Len(Line)
  BY LenProperties
<1>2. Resource \subseteq [kind : Kind, of : Component]
  BY RangeOfSeq DEF Resource
<1>3. \A i \in 1..Len(Line) : Line[i] \in Resource
  BY <1>1 DEF Resource, Range
<1>4. PodInput \subseteq Resource
  BY DEF PodInput, Input
<1>5. QED
  BY <1>1, <1>2, <1>3, <1>4

\* The head of the list is a command.
LEMMA HeadIsCommand ==
  ASSUME TypeOK, cmds # <<>>
  PROVE  /\ Head(cmds) \in Command
         /\ Tail(cmds) \in Seq(Command)
         /\ Res \in Resource /\ Version \in Nat /\ Base \in Nat
         /\ Res.of \in Component
<1>1. cmds \in Seq(Command)
  BY DEF TypeOK
<1>2. Head(cmds) \in Command /\ Tail(cmds) \in Seq(Command)
  BY <1>1, HeadTailProperties
<1>3. QED
  BY <1>2, ResourceFacts DEF Command, Res, Version, Base
-----------------------------------------------------------------------------
(* Type correctness: what an action leaves alone keeps its type, and what   *)
(* several actions do is stated once.                                       *)

CrdTypeOK == crd \in Crd /\ cache \in Crd /\ cacheFresh \in BOOLEAN
WorldTypeOK == /\ objs \in [Resource -> Nat] /\ seen \in [Resource -> Nat]
               /\ booted \in [PodInput -> Nat]
               /\ queued \in BOOLEAN /\ timer \in BOOLEAN
LocalTypeOK ==
  /\ pc \in {"idle", "plan", "exec", "retry"}
  /\ idx \in 1..(Len(Line) + 1)
  /\ my \in Copy /\ myFresh \in BOOLEAN
  /\ cmds \in Seq(Command)
  /\ owner \in [Component -> SUBSET Resource] /\ skip \in SUBSET Component
  /\ failed \in BOOLEAN /\ calm \in BOOLEAN
BoundTypeOK ==
  /\ edits \in 0..MaxEdits /\ faults \in 0..MaxFaults /\ stale \in 0..MaxStale
  /\ lost \in SUBSET PodInput

\* The type invariant, cut into the part of the running reconcile and the rest.
LEMMA TypeParts ==
  TypeOK <=> CrdTypeOK /\ WorldTypeOK /\ LocalTypeOK /\ BoundTypeOK
BY DEF TypeOK, CrdTypeOK, WorldTypeOK, LocalTypeOK, BoundTypeOK

\* The copy an idle operator holds is a copy of a custom resource.
LEMMA NoCopyType == NoCopy \in Copy
BY DEF NoCopy, Copy, RestartState

\* Ending a reconcile leaves well-typed variables of the reconcile.
LEMMA GoIdleType == GoIdle => LocalTypeOK'
<1>1. 1 \in 1..(Len(Line) + 1)
  BY ResourceFacts
<1>2. QED
  BY <1>1, NoCopyType, EmptySeq DEF GoIdle, LocalTypeOK

\* A read of the object cache keeps the count of stale reads in its bound.
LEMMA ReadType ==
  ASSUME TypeOK, NEW r \in Resource, NEW v, Read(r, v)
  PROVE  v \in Nat /\ stale' \in 0..MaxStale
BY BoundAssumption DEF TypeOK, Read

\* A fault keeps the count of faults in its bound.
LEMMA FaultType == TypeOK /\ Fault => faults' \in 0..MaxFaults
BY BoundAssumption DEF TypeOK, Fault

\* An edit preserves the type invariant if it writes a custom resource.
LEMMA EditType ==
  ASSUME TypeOK, NEW new \in Crd, Edit(new)
  PROVE  TypeOK'
<1>1. CrdTypeOK'
  BY DEF TypeOK, Edit, Write, CrdTypeOK
<1>2. WorldTypeOK'
  BY DEF TypeOK, Edit, WorldTypeOK
<1>3. LocalTypeOK'
  BY DEF TypeOK, Edit, LocalTypeOK
<1>4. edits' \in 0..MaxEdits
  BY BoundAssumption DEF TypeOK, Edit
<1>5. BoundTypeOK'
  BY <1>4 DEF TypeOK, Edit, BoundTypeOK
<1>6. QED
  BY <1>1, <1>2, <1>3, <1>5 DEF TypeOK, CrdTypeOK, WorldTypeOK, LocalTypeOK,
                                BoundTypeOK

\* The end of a command preserves the types of what Finish changes.
LEMMA FinishType ==
  ASSUME TypeOK, cmds # <<>>, NEW ok, Finish(ok)
  PROVE  LocalTypeOK' /\ CrdTypeOK' /\ queued' \in BOOLEAN /\ timer' \in BOOLEAN
         /\ edits' \in 0..MaxEdits
<1>1. cmds' \in Seq(Command)
  BY HeadIsCommand, EmptySeq DEF Finish
<1>2. my' \in Copy
  BY HeadIsCommand DEF Finish, TypeOK, Copy, RestartState
<1>3. QED
  BY <1>1, <1>2 DEF Finish, TypeOK, LocalTypeOK, CrdTypeOK

\* What the StatefulSet controller does to the pods and the claims.
LEMMA BootType ==
  ASSUME TypeOK, NEW c \in Component
  PROVE  /\ BootedNow(c) \in [PodInput -> Nat] /\ NoPods(c) \in [PodInput -> Nat]
         /\ [objs EXCEPT ![Claim(c)] = 1] \in [Resource -> Nat]
BY ResourceFacts DEF TypeOK, BootedNow, NoPods

\* The object that the head of the list is about.
LEMMA PutType ==
  ASSUME TypeOK, NEW v \in Nat
  PROVE  Put(v) \in [Resource -> Nat]
BY DEF TypeOK, Put

\* A line of the plan adds commands about resources, and restarts.
LEMMA AskType ==
  ASSUME TypeOK, NEW r \in Resource, NEW act \in Action \union {"none"},
         NEW restart \in BOOLEAN, NEW base \in Nat,
         pc = "plan", idx <= Len(Line), Ask(r, act, restart, base),
         UNCHANGED <<pc, myFresh, failed>>
  PROVE  LocalTypeOK'
<1>1. cmds' \in Seq(Command)
  <2>1. CASE act = "none"
    BY <2>1 DEF TypeOK, Ask, AskAction
  <2>2. CASE act # "none"
    <3> DEFINE command == [act |-> act, res |-> r, ver |-> Want(r), base |-> base]
    <3>1. command \in Command
      BY <2>2 DEF TypeOK, Copy, Want, Command
    <3>2. cmds' = MoveIfAbsent(cmds, command)
      BY <2>2 DEF Ask, AskAction
    <3>3. QED
      BY <3>1, <3>2, MoveIfAbsentElements DEF TypeOK
  <2>3. QED
    BY <2>1, <2>2
<1>2. skip' \in SUBSET Component
  <2>1. r.of \in Component /\ skip \in SUBSET Component
    BY ResourceFacts DEF TypeOK
  <2>2. skip' \in {skip, skip \union {r.of}}
    BY DEF Ask, AskAction
  <2>3. QED
    BY <2>1, <2>2
<1>3. my' \in Copy
  <2>1. my \in Copy
    BY DEF TypeOK
  <2>2. my' \in {my, [my EXCEPT !.status[r] = "WaitRestart"]}
    BY DEF Ask, AskRestart
  <2>3. QED
    BY <2>1, <2>2 DEF Copy, RestartState
<1>4. owner' \in [Component -> SUBSET Resource]
  <2>1. owner \in [Component -> SUBSET Resource] /\ {r} \in SUBSET Resource
    BY DEF TypeOK
  <2>2. owner' \in {owner, [owner EXCEPT ![r.of] = {r}]}
    BY DEF Ask, AskRestart
  <2>3. QED
    BY <2>1, <2>2
<1>5. idx' \in 1..(Len(Line) + 1)
  BY ResourceFacts DEF TypeOK, Ask, NextLine
<1>6. calm' \in BOOLEAN
  BY DEF TypeOK, Ask
<1>7. QED
  BY <1>1, <1>2, <1>3, <1>4, <1>5, <1>6 DEF TypeOK, LocalTypeOK

\* PreApply and Visitation choose from the actions there are.
LEMMA ChoiceType ==
  ASSUME NEW r \in Resource, NEW o
  PROVE  /\ PreApply(r, o) \in Action \union {"none"}
         /\ Visitation(r, o) \in Action \union {"none"}
         /\ PreApplyRestarts(r, o) \in BOOLEAN
         /\ VisitationRestarts(r) \in BOOLEAN
BY DEF PreApply, BaseAction, Visitation, Action, PreApplyRestarts,
       VisitationRestarts, Pending
-----------------------------------------------------------------------------
\* The initial state is well typed.
LEMMA InitType == Init => TypeOK
<1> SUFFICES ASSUME Init PROVE TypeOK
  OBVIOUS
<1>1. CrdTypeOK
  <2> DEFINE new == [life |-> "active", spec |-> [r \in Resource |-> 1],
                     control |-> {},
                     status |-> [r \in Resource |-> "None"], calm |-> FALSE]
  <2>1. crd = new /\ cache = new /\ cacheFresh = TRUE
    BY DEF Init
  <2>2. new \in Crd
    BY DEF Crd, Life, RestartState
  <2> HIDE DEF new
  <2>3. QED
    BY <2>1, <2>2 DEF CrdTypeOK
<1>2. WorldTypeOK
  <2>1. /\ objs = [r \in Resource |-> 0] /\ seen = [r \in Resource |-> 0]
        /\ booted = [r \in PodInput |-> 0]
        /\ queued = TRUE /\ timer = FALSE
    BY DEF Init
  <2>2. QED
    BY <2>1 DEF WorldTypeOK
<1>3. LocalTypeOK
  <2>1. pc = "idle" /\ idx = 1 /\ myFresh = FALSE /\ failed = FALSE /\ calm = TRUE
    BY DEF Init
  <2>2. /\ my = NoCopy /\ cmds = <<>> /\ skip = {}
        /\ owner = [c \in Component |-> {}]
    BY DEF Init
  <2>3. cmds \in Seq(Command) /\ my \in Copy /\ 1 \in 1..(Len(Line) + 1)
    BY <2>2, EmptySeq, NoCopyType, ResourceFacts
  <2>4. QED
    BY <2>1, <2>2, <2>3 DEF LocalTypeOK
<1>4. BoundTypeOK
  BY BoundAssumption DEF Init, BoundTypeOK
<1>5. QED
  BY <1>1, <1>2, <1>3, <1>4, TypeParts

\* What users do preserves the type invariant.
LEMMA UserType == TypeOK /\ User => TypeOK'
<1> SUFFICES ASSUME TypeOK, User PROVE TypeOK'
  OBVIOUS
<1>1. edits \in Nat /\ NewVersion \in Nat /\ crd \in Crd
  BY DEF TypeOK, NewVersion
<1>2. ASSUME NEW r \in Resource, EditResource(r) PROVE TypeOK'
  BY <1>1, <1>2, EditType DEF EditResource, Crd
<1>3. ASSUME NEW r \in Resource, Toggle(r) PROVE TypeOK'
  BY <1>1, <1>3, EditType DEF Toggle, Crd
<1>4. ASSUME NEW r \in Resource, Control(r) PROVE TypeOK'
  BY <1>1, <1>4, EditType DEF Control, Crd
<1>5. ASSUME NEW c \in Component, Scale(c) PROVE TypeOK'
  <2> DEFINE scaled(r) == r.of = c /\ r.kind \in {"ConfigMap", "StatefulSet",
                                                  "PersistentVolumeClaim"}
             version(r) == IF crd.spec[r] # 0 THEN 0
                           ELSE IF r.kind = "PersistentVolumeClaim" THEN 1
                           ELSE NewVersion
             spec == [r \in Resource |->
                        IF scaled(r) THEN version(r) ELSE crd.spec[r]]
  <2>1. spec \in [Resource -> Nat]
    BY <1>1 DEF Crd
  <2>2. Edit([crd EXCEPT !.spec = spec])
    BY <1>5 DEF Scale
  <2> HIDE DEF spec
  <2>3. [crd EXCEPT !.spec = spec] \in Crd
    BY <1>1, <2>1 DEF Crd
  <2>4. QED
    BY <2>2, <2>3, EditType
<1>6. CASE Pause
  BY <1>1, <1>6, EditType DEF Pause, Crd, Life
<1>7. CASE Resume
  BY <1>1, <1>7, EditType DEF Resume, Crd, Life
<1>8. CASE Terminate
  BY <1>1, <1>8, EditType DEF Terminate, Crd, Life
<1>9. CASE Erase
  BY <1>1, <1>9, EditType DEF Erase, Crd, Life
<1>10. QED
  BY <1>2, <1>3, <1>4, <1>5, <1>6, <1>7, <1>8, <1>9 DEF User

\* What informers, timers, controllers and crashes do preserves the type
\* invariant.
LEMMA WorldType ==
  ASSUME TypeOK,
         Sync \/ TimerFires \/ (\E c \in Component : Boot(c)) \/ Collect \/ Crash
  PROVE  TypeOK'
<1>1. CASE Sync
  BY <1>1 DEF Sync, TypeOK, local
<1>2. CASE TimerFires
  BY <1>2 DEF TimerFires, TypeOK, local
<1>3. ASSUME NEW c \in Component, Boot(c) PROVE TypeOK'
  <2>1. WorldTypeOK'
    BY <1>3, BootType DEF Boot, WorldTypeOK, TypeOK
  <2>2. CrdTypeOK' /\ LocalTypeOK' /\ BoundTypeOK'
    BY <1>3 DEF Boot, CrdTypeOK, LocalTypeOK, BoundTypeOK, TypeOK, local
  <2>3. QED
    BY <2>1, <2>2 DEF TypeOK, CrdTypeOK, WorldTypeOK, LocalTypeOK, BoundTypeOK
<1>4. CASE Collect
  BY <1>4 DEF Collect, TypeOK, local
<1>5. CASE Crash
  <2>1. LocalTypeOK' /\ faults' \in 0..MaxFaults
    BY <1>5, GoIdleType, FaultType DEF Crash
  <2>2. CrdTypeOK' /\ WorldTypeOK'
    BY <1>5 DEF Crash, TypeOK, CrdTypeOK, WorldTypeOK
  <2>3. BoundTypeOK'
    BY <1>5, <2>1 DEF Crash, TypeOK, BoundTypeOK, Forgotten
  <2>4. QED
    BY <2>1, <2>2, <2>3 DEF TypeOK, CrdTypeOK, WorldTypeOK, LocalTypeOK,
                            BoundTypeOK
<1>6. QED
  BY <1>1, <1>2, <1>3, <1>4, <1>5

\* Planning preserves the type invariant.
LEMMA PlanType ==
  ASSUME TypeOK, Start \/ Plan
  PROVE  TypeOK'
<1>1. CASE Start
  <2>1. my' \in Copy
    BY <1>1 DEF Start, TypeOK, Crd, Copy
  <2>2. QED
    BY <1>1, <2>1 DEF Start, TypeOK
<1>2. CASE PlanLine
  <2>1. PICK o \in {seen[Line[idx]], objs[Line[idx]]},
             t \in {seen[Line[idx]], objs[Line[idx]]} :
          /\ Read(Line[idx], o)
          /\ seen' = [seen EXCEPT ![Line[idx]] = t]
          /\ IF Changed(Line[idx], o)
             THEN Ask(Line[idx], PreApply(Line[idx], o),
                      PreApplyRestarts(Line[idx], o), IF o = 0 THEN t ELSE o)
             ELSE Ask(Line[idx], Visitation(Line[idx], o),
                      VisitationRestarts(Line[idx]), o)
    BY <1>2 DEF PlanLine
  <2>2. Line[idx] \in Resource
    BY <1>2, ResourceFacts DEF PlanLine, TypeOK
  <2>3. o \in Nat /\ t \in Nat /\ stale' \in 0..MaxStale
    BY <2>1, <2>2, ReadType DEF TypeOK
  <2>4. pc = "plan" /\ idx <= Len(Line) /\ UNCHANGED <<pc, myFresh, failed>>
    BY <1>2 DEF PlanLine
  <2>5. LocalTypeOK'
    BY <2>1, <2>2, <2>3, <2>4, AskType, ChoiceType
  <2>6. WorldTypeOK'
    BY <1>2, <2>1, <2>2, <2>3 DEF PlanLine, TypeOK, WorldTypeOK
  <2>7. CrdTypeOK' /\ BoundTypeOK'
    BY <1>2, <2>3 DEF PlanLine, TypeOK, CrdTypeOK, BoundTypeOK
  <2>8. QED
    BY <2>5, <2>6, <2>7 DEF TypeOK, CrdTypeOK, WorldTypeOK, LocalTypeOK,
                            BoundTypeOK
<1>3. CASE PlanPanics
  <2>1. PICK o \in {seen[Line[idx]], objs[Line[idx]]},
             t \in {seen[Line[idx]], objs[Line[idx]]} :
          /\ Read(Line[idx], o)
          /\ seen' = [seen EXCEPT ![Line[idx]] = t]
    BY <1>3 DEF PlanPanics
  <2>2. Line[idx] \in Resource
    BY <1>3, ResourceFacts DEF PlanPanics, TypeOK
  <2>3. t \in Nat /\ stale' \in 0..MaxStale
    BY <2>1, <2>2, ReadType DEF TypeOK
  <2>4. LocalTypeOK'
    BY <1>3, GoIdleType DEF PlanPanics
  <2>5. WorldTypeOK'
    BY <1>3, <2>1, <2>2, <2>3 DEF PlanPanics, TypeOK, WorldTypeOK
  <2>6. CrdTypeOK' /\ BoundTypeOK'
    BY <1>3, <2>3 DEF PlanPanics, TypeOK, CrdTypeOK, BoundTypeOK
  <2>7. QED
    BY <2>4, <2>5, <2>6 DEF TypeOK, CrdTypeOK, WorldTypeOK, LocalTypeOK,
                            BoundTypeOK
<1>4. ASSUME NEW c \in Component, QueueRestart(c) PROVE TypeOK'
  <2>1. PICK r \in owner[c] :
          cmds' = IF Skipped(c) THEN cmds
                  ELSE Append(cmds, [act |-> "Restart", res |-> r,
                                     ver |-> Want(r), base |-> 0])
    BY <1>4 DEF QueueRestart
  <2>2. r \in Resource
    BY DEF TypeOK
  <2>3. [act |-> "Restart", res |-> r, ver |-> Want(r), base |-> 0] \in Command
    BY <2>2 DEF Command, Action, Want, TypeOK, Copy
  <2>4. cmds' \in Seq(Command)
    BY <2>1, <2>3, AppendProperties DEF TypeOK
  <2>5. owner' \in [Component -> SUBSET Resource]
    BY <1>4 DEF QueueRestart, TypeOK
  <2>6. QED
    BY <1>4, <2>4, <2>5 DEF QueueRestart, TypeOK
<1>5. CASE NothingToDo
  <2>1. LocalTypeOK'
    BY <1>5, GoIdleType DEF NothingToDo
  <2>2. QED
    BY <1>5, <2>1 DEF NothingToDo, TypeOK, LocalTypeOK
<1>6. CASE BeginExec
  BY <1>6 DEF BeginExec, TypeOK
<1>7. QED
  BY <1>1, <1>2, <1>3, <1>4, <1>5, <1>6 DEF Plan, EndPlan

\* Every command ends with Finish.
LEMMA ExecFinishes ==
  ASSUME Exec
  PROVE  pc = "exec" /\ cmds # <<>> /\ \E ok : Finish(ok)
<1>1. pc = "exec" /\ cmds # <<>>
  BY DEF Exec, ExecCreate, ExecUpdate, ExecDelete, ExecReCreate, ExecFailOver,
         ExecRecycle, ExecRestart, Executes
<1>2. Finish(TRUE) \/ Finish(FALSE) \/ ExecCreate \/ ExecUpdate \/ ExecReCreate
  BY DEF Exec, ExecDelete, ExecFailOver, ExecRecycle, ExecRestart
<1>3. ExecCreate => Finish(Base = 0) \/ Finish(FALSE)
  BY DEF ExecCreate
<1>4. ExecUpdate => Finish(objs[Res] # 0 /\ objs[Res] = Base) \/ Finish(FALSE)
  BY DEF ExecUpdate
<1>5. ExecReCreate => Finish(objs[Res] \in {0, Base}) \/ Finish(FALSE)
  BY DEF ExecReCreate
<1>6. QED
  BY <1>1, <1>2, <1>3, <1>4, <1>5, Zenon

\* Finish keeps its share of the types; what is left to show for each command
\* is what it does to the cluster.
LEMMA ExecType ==
  ASSUME TypeOK, Exec
  PROVE  TypeOK'
<1>1. cmds # <<>> /\ \E ok : Finish(ok)
  BY ExecFinishes
<1>2. /\ LocalTypeOK' /\ CrdTypeOK' /\ queued' \in BOOLEAN /\ timer' \in BOOLEAN
      /\ edits' \in 0..MaxEdits
  BY <1>1, FinishType
<1>3. /\ Res \in Resource /\ Version \in Nat /\ Base \in Nat
      /\ Res.of \in Component
  BY <1>1, HeadIsCommand
<1>4. /\ objs' \in [Resource -> Nat] /\ seen' \in [Resource -> Nat]
      /\ booted' \in [PodInput -> Nat]
  <2>1. CASE ExecCreate
    BY <2>1, <1>3, PutType DEF ExecCreate, TypeOK
  <2>2. CASE ExecUpdate
    BY <2>2, <1>3, PutType DEF ExecUpdate, TypeOK
  <2>3. CASE ExecDelete
    <3>1. /\ objs' \in {objs, Put(0)} /\ booted' \in {booted, NoPods(Res.of)}
          /\ seen' = seen
      BY <2>3 DEF ExecDelete
    <3>2. Put(0) \in [Resource -> Nat] /\ NoPods(Res.of) \in [PodInput -> Nat]
      BY <1>3, PutType, BootType
    <3>3. QED
      BY <3>1, <3>2 DEF TypeOK
  <2>4. CASE ExecReCreate
    <3>1. objs' \in {objs, Put(0), Put(Version)}
      BY <2>4 DEF ExecReCreate
    <3>2. seen' \in {seen, [seen EXCEPT ![Res] = Version]}
      BY <2>4 DEF ExecReCreate
    <3>3. QED
      BY <2>4, <3>1, <3>2, <1>3, PutType DEF ExecReCreate, TypeOK
  <2>5. CASE ExecFailOver
    BY <2>5 DEF ExecFailOver, TypeOK
  <2>6. CASE ExecRecycle
    <3>1. Workload(Res.of) \in Resource
      BY <1>3, ResourceFacts
    <3>2. PICK v \in {seen[Workload(Res.of)], objs[Workload(Res.of)]} :
            /\ seen' = [seen EXCEPT ![Workload(Res.of)] = v]
            /\ objs' = IF v = 0 THEN Put(0) ELSE objs
      BY <2>6 DEF ExecRecycle
    <3>3. v \in Nat
      BY <3>1 DEF TypeOK
    <3>4. QED
      BY <2>6, <3>2, <3>3, PutType DEF ExecRecycle, TypeOK
  <2>7. CASE ExecRestart
    <3>1. objs' \in {objs, [objs EXCEPT ![Claim(Res.of)] = 1]}
      BY <2>7 DEF ExecRestart
    <3>2. booted' \in {booted, BootedNow(Res.of), NoPods(Res.of)}
      BY <2>7 DEF ExecRestart
    <3>3. QED
      BY <2>7, <3>1, <3>2, <1>3, BootType DEF ExecRestart, TypeOK
  <2>8. QED
    BY <2>1, <2>2, <2>3, <2>4, <2>5, <2>6, <2>7 DEF Exec
<1>5. faults' \in 0..MaxFaults /\ stale' \in 0..MaxStale
  <2>1. CASE ExecRecycle
    BY <2>1, <1>3, ResourceFacts, ReadType DEF ExecRecycle, TypeOK
  <2>2. CASE ~ExecRecycle
    <3>1. faults' = faults \/ Fault
      BY <2>2 DEF Exec, ExecCreate, ExecUpdate, ExecDelete, ExecReCreate,
                  ExecFailOver, ExecRestart
    <3>2. stale' = stale
      BY <2>2 DEF Exec, ExecCreate, ExecUpdate, ExecDelete, ExecReCreate,
                  ExecFailOver, ExecRestart
    <3>3. QED
      BY <3>1, <3>2, FaultType DEF TypeOK
  <2>3. QED
    BY <2>1, <2>2
<1>6. lost' \in SUBSET PodInput
  BY DEF Exec, ExecCreate, ExecUpdate, ExecDelete, ExecReCreate, ExecFailOver,
         ExecRecycle, ExecRestart, TypeOK
<1>7. QED
  BY <1>2, <1>4, <1>5, <1>6, TypeParts
     DEF TypeOK, CrdTypeOK, WorldTypeOK, LocalTypeOK, BoundTypeOK

\* Writing the status, and asking for a retry, preserve the type invariant.
LEMMA ReduceType ==
  ASSUME TypeOK, Reduce
  PROVE  TypeOK'
<1>1. CASE ReduceWrites
  <2>1. LocalTypeOK'
    BY <1>1, GoIdleType DEF ReduceWrites, Reduced
  <2>2. [crd EXCEPT !.status = my.status, !.calm = calm] \in Crd
    BY DEF TypeOK, Crd, Copy
  <2>3. CrdTypeOK'
    BY <1>1, <2>2 DEF ReduceWrites, Write, TypeOK, CrdTypeOK
  <2>4. queued' \in BOOLEAN
    BY <1>1 DEF ReduceWrites, Reduced, Requeue, TypeOK
  <2>5. QED
    BY <1>1, <2>1, <2>3, <2>4 DEF ReduceWrites, TypeOK, CrdTypeOK, LocalTypeOK
<1>2. CASE ReduceWritesNothing
  <2>1. LocalTypeOK' /\ queued' \in BOOLEAN
    BY <1>2, GoIdleType DEF ReduceWritesNothing, Reduced, Requeue, TypeOK
  <2>2. QED
    BY <1>2, <2>1 DEF ReduceWritesNothing, TypeOK, LocalTypeOK
<1>3. CASE ReduceConflicts
  BY <1>3 DEF ReduceConflicts, TypeOK
<1>4. CASE ReduceFails
  <2>1. LocalTypeOK' /\ queued' \in BOOLEAN
    BY <1>4, GoIdleType DEF ReduceFails, Requeue, TypeOK
  <2>2. faults' \in 0..MaxFaults /\ lost' \in SUBSET PodInput
    BY <1>4, FaultType DEF ReduceFails, Forgotten, TypeOK
  <2>3. QED
    BY <1>4, <2>1, <2>2 DEF ReduceFails, TypeOK, LocalTypeOK
<1>5. CASE Retry
  <2>1. LocalTypeOK' /\ queued' \in BOOLEAN
    BY <1>5, GoIdleType DEF Retry, Requeue, TypeOK
  <2>2. lost' \in SUBSET PodInput
    BY <1>5 DEF Retry, Forgotten, TypeOK
  <2>3. QED
    BY <1>5, <2>1, <2>2 DEF Retry, TypeOK, LocalTypeOK
<1>6. QED
  BY <1>1, <1>2, <1>3, <1>4, <1>5 DEF Reduce

\* Every step preserves the type invariant.
LEMMA NextType == TypeOK /\ [Next]_vars => TypeOK'
<1> SUFFICES ASSUME TypeOK, [Next]_vars PROVE TypeOK'
  OBVIOUS
<1>1. CASE User
  BY <1>1, UserType
<1>2. CASE Sync \/ TimerFires \/ (\E c \in Component : Boot(c)) \/ Collect \/ Crash
  BY <1>2, WorldType
<1>3. CASE Start \/ Plan
  BY <1>3, PlanType
<1>4. CASE Exec
  BY <1>4, ExecType
<1>5. CASE Reduce
  BY <1>5, ReduceType
<1>6. CASE UNCHANGED vars
  BY <1>6 DEF vars, local, TypeOK
<1>7. QED
  BY <1>1, <1>2, <1>3, <1>4, <1>5, <1>6 DEF Next, Operator

\* Every variable keeps its type, whatever the cluster, the plan and the
\* bounds: a reconcile never looks at a line beyond the end of its plan, and
\* its list only ever holds commands about lines of the plan.
THEOREM TypeCorrect == Spec => []TypeOK
BY InitType, NextType, PTL DEF Spec
=============================================================================
