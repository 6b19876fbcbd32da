----------------------------- MODULE RestartProofs -----------------------------
(***************************************************************************)
(* What the reconcile loop does about restarts, and when it sleeps.  From  *)
(* one inductive invariant: a pending restart is not forgotten, and a      *)
(* component whose set is being created or deleted is not restarted.  With *)
(* what each of them adds to it: the operator sleeps only when all is      *)
(* applied, a restart follows what it is for, and the loop implements      *)
(* RestartJournal.                                                         *)
(***************************************************************************)
EXTENDS ReconcileProofs

\* What holds of every command of the list: restarts leave out the components
\* in skip; a command that changes what pods boot with goes with a copy that
\* has their restart pending; a ConfigMap is deleted only when it is not
\* desired; only claims are recycled.
CommandInv(command) ==
  /\ command.act = "Restart" => command.res.of \notin skip
  /\ command.act \in {"Create", "Delete"} /\ command.res.kind = "StatefulSet"
       => command.res.of \in skip
  /\ command.act \in {"Update", "ReCreate"} /\ command.res \in PodInput
       => Pending(my.status[command.res])
  /\ command.act = "Delete" /\ command.res.kind = "ConfigMap"
       => Want(command.res) = 0
  /\ command.act = "Recycle" => command.res.kind = "PersistentVolumeClaim"

\* The list of commands: it is filled by a plan from its start, and the
\* restarts come last.
ListInv ==
  /\ pc \in {"idle", "retry"} => cmds = <<>>
  /\ pc = "idle" => idx = 1
  /\ \A c \in Component : \A r \in owner[c] : r.of = c
  /\ pc = "plan" /\ idx <= Len(Line) =>
       \A i \in 1..Len(cmds) : cmds[i].act # "Restart"
  /\ \A i \in 1..Len(cmds) : CommandInv(cmds[i])
  /\ \A i \in 1..Len(cmds) : cmds[i].act = "Restart" =>
       \A j \in i..Len(cmds) : cmds[j].act = "Restart"

\* Only services and components carry the control label, and a component
\* without replicas has neither a ConfigMap nor a claim.
Consistent(copy) ==
  /\ \A r \in copy.control : r.kind \in {"Service", "StatefulSet"}
  /\ \A r \in Resource : r.kind = "ConfigMap" =>
       (copy.spec[r] = 0 <=> copy.spec[Claim(r.of)] = 0)

\* The copies of the custom resource; a plan with a component without replicas
\* panics, so that none is ever executed.
CopyInv ==
  /\ Consistent(crd) /\ Consistent(cache) /\ Consistent(my)
  /\ cacheFresh => cache = crd
  /\ pc = "plan" => \A k \in 1..(idx - 1) :
       Line[k].kind = "PersistentVolumeClaim" => Want(Line[k]) # 0
  /\ pc = "exec" => \A c \in Component : Want(Claim(c)) # 0

\* A reconcile whose copy is still current knows every restart that is due: its
\* status write will not lose one.
FreshInv ==
  pc # "idle" /\ myFresh /\ crd.life # "gone" =>
    \A r \in PodInput \ lost : Outdated(r) => Pending(my.status[r])

IInv == TypeOK /\ ListInv /\ CopyInv /\ FreshInv /\ RestartNotForgotten
-----------------------------------------------------------------------------
(* The list.                                                               *)

\* A reconcile that ends or dies leaves no commands behind.
LEMMA GoIdleList == GoIdle => ListInv'
<1> SUFFICES ASSUME GoIdle PROVE ListInv'
  OBVIOUS
<1>1. cmds' = <<>> /\ pc' = "idle" /\ idx' = 1
  BY DEF GoIdle
<1>2. Len(cmds') = 0
  BY <1>1
<1>3. \A c \in Component : owner'[c] = {}
  BY DEF GoIdle
<1>4. QED
  BY <1>1, <1>2, <1>3 DEF ListInv

\* A list to which a command is added holds nothing else that is new.
LEMMA AddedFromList ==
  ASSUME NEW queue \in Seq(Command), NEW new \in Command
  PROVE  \A i \in 1..Len(MoveIfAbsent(queue, new)) :
           \/ MoveIfAbsent(queue, new)[i] = new
           \/ \E j \in 1..Len(queue) : MoveIfAbsent(queue, new)[i] = queue[j]
BY MoveIfAbsentElements

\* The command that is added is in the list.
LEMMA AddedIsThere ==
  ASSUME NEW queue \in Seq(Command), NEW new \in Command
  PROVE  \E i \in 1..Len(MoveIfAbsent(queue, new)) :
           MoveIfAbsent(queue, new)[i] = new
<1>1. PICK kept \in Seq(Command) : MoveIfAbsent(queue, new) = Append(kept, new)
  BY MoveIfAbsentShape
<1>2. /\ Len(Append(kept, new)) = Len(kept) + 1
      /\ Append(kept, new)[Len(kept) + 1] = new
      /\ Len(kept) \in Nat
  BY AppendProperties, LenProperties
<1>3. QED
  BY <1>1, <1>2

\* Commands of another key are kept.
LEMMA AddedKeeps ==
  ASSUME NEW queue \in Seq(Command), NEW new \in Command,
         NEW j \in 1..Len(queue), ~SameAction(queue[j], new)
  PROVE  \E i \in 1..Len(MoveIfAbsent(queue, new)) :
           MoveIfAbsent(queue, new)[i] = queue[j]
<1>1. \E i \in 1..(Len(MoveIfAbsent(queue, new)) - 1) :
        MoveIfAbsent(queue, new)[i] = queue[j]
  BY MoveIfAbsentKeepsOthers
<1>2. Len(MoveIfAbsent(queue, new)) \in Nat
  BY MoveIfAbsentElements, LenProperties
<1>3. QED
  BY <1>1, <1>2

\* A reconcile adds a command to the list while it plans.
LEMMA AskList ==
  ASSUME IInv, NEW r \in Resource, NEW o \in Nat, NEW t \in Nat,
         pc = "plan", idx <= Len(Line), r = Line[idx], ~Panics(r, o, t),
         UNCHANGED <<pc, myFresh, failed>>,
         IF Changed(r, o)
         THEN Ask(r, PreApply(r, o), PreApplyRestarts(r, o),
                  IF o = 0 THEN t ELSE o)
         ELSE Ask(r, Visitation(r, o), VisitationRestarts(r), o)
  PROVE  ListInv'
<1>1. PICK act \in Action \union {"none"}, restart \in BOOLEAN, base \in Nat :
        /\ Ask(r, act, restart, base)
        /\ act # "Restart"
        /\ act \in {"Update", "ReCreate"} /\ r \in PodInput => restart
        /\ act = "Delete" /\ r.kind = "ConfigMap" => Want(r) = 0
        /\ act = "Recycle" => r.kind = "PersistentVolumeClaim"
  <2>1. CASE Changed(r, o)
    <3> DEFINE act == PreApply(r, o)
               restart == PreApplyRestarts(r, o)
    <3>1. act \in Action \union {"none"} /\ restart \in BOOLEAN
      BY ChoiceType
    <3>2. Ask(r, act, restart, IF o = 0 THEN t ELSE o)
      BY <2>1
    <3>3. act # "Restart" /\ act # "Recycle"
      BY DEF PreApply, BaseAction
    <3>4. act \in {"Update", "ReCreate"} /\ r \in PodInput => restart
      BY DEF PreApply, BaseAction, PreApplyRestarts, PodInput, Input
    <3>5. act = "Delete" /\ r.kind = "ConfigMap" => Want(r) = 0
      BY DEF PreApply, BaseAction, Doomed, IInv, CopyInv, Consistent
    <3> HIDE DEF act, restart
    <3>6. QED
      BY <3>1, <3>2, <3>3, <3>4, <3>5
  <2>2. CASE ~Changed(r, o)
    <3>1. /\ Visitation(r, o) \in {"Recycle", "FailOver", "none"}
          /\ Visitation(r, o) = "Recycle" => r.kind = "PersistentVolumeClaim"
      BY DEF Visitation
    <3>2. QED
      BY <2>2, <3>1, ChoiceType
  <2>3. QED
    BY <2>1, <2>2
<1>2. /\ my'.spec = my.spec
      /\ \A p \in PodInput : Pending(my.status[p]) => Pending(my'.status[p])
      /\ restart /\ r \in PodInput => Pending(my'.status[r])
      /\ skip \subseteq skip'
  <2>1. my \in Copy /\ PodInput \subseteq Resource
    BY ResourceFacts DEF IInv, TypeOK
  <2>2. my' = IF restart THEN [my EXCEPT !.status[r] = "WaitRestart"] ELSE my
    BY <1>1 DEF Ask, AskRestart
  <2>3. skip \subseteq skip'
    BY <1>1 DEF Ask, AskAction
  <2>4. QED
    BY <2>1, <2>2, <2>3 DEF Copy, Pending
<1>3. \A c \in Component : \A p \in owner'[c] : p.of = c
  <2>1. /\ owner \in [Component -> SUBSET Resource]
        /\ \A c \in Component : \A p \in owner[c] : p.of = c
    BY DEF IInv, TypeOK, ListInv
  <2>2. owner' \in {owner, [owner EXCEPT ![r.of] = {r}]}
    BY <1>1 DEF Ask, AskRestart
  <2>3. QED
    BY <2>1, <2>2
<1>4. \A i \in 1..Len(cmds) : cmds[i].act # "Restart" /\ CommandInv(cmds[i])
  BY DEF IInv, ListInv
<1>5. cmds \in Seq(Command) /\ pc' = "plan"
  BY DEF IInv, TypeOK
<1>6. ASSUME NEW command, CommandInv(command), command.act # "Restart"
      PROVE  CommandInv(command)'
  BY <1>2, <1>6 DEF CommandInv, Want
<1>7. CASE act = "none"
  <2>1. cmds' = cmds
    BY <1>1, <1>7 DEF Ask, AskAction
  <2>2. \A i \in 1..Len(cmds') : cmds'[i].act # "Restart" /\ CommandInv(cmds[i])'
    BY <1>4, <1>6, <2>1
  <2>3. QED
    BY <1>3, <1>5, <2>1, <2>2 DEF ListInv
<1>8. CASE act # "none"
  <2>1. PICK new \in Command :
          new = [act |-> act, res |-> r, ver |-> Want(r), base |-> base]
    BY <1>8 DEF IInv, TypeOK, Copy, Want, Command
  <2>2. cmds' = MoveIfAbsent(cmds, new)
    BY <1>1, <1>8, <2>1 DEF Ask, AskAction
  <2>3. \A i \in 1..Len(cmds') :
          cmds'[i] = new \/ \E j \in 1..Len(cmds) : cmds'[i] = cmds[j]
    <3>1. \A i \in 1..Len(MoveIfAbsent(cmds, new)) :
            \/ MoveIfAbsent(cmds, new)[i] = new
            \/ \E j \in 1..Len(cmds) : MoveIfAbsent(cmds, new)[i] = cmds[j]
      BY <1>5, MoveIfAbsentElements
    <3>2. QED
      BY <2>2, <3>1
  <2>4. new.act = act /\ new.res = r
    BY <2>1
  <2>5. new.act # "Restart" /\ CommandInv(new)'
    <3>1. act \in {"Create", "Delete"} /\ r.kind = "StatefulSet" => r.of \in skip'
      BY <1>1 DEF Ask, AskAction
    <3>2. act = "Delete" /\ r.kind = "ConfigMap" => my'.spec[r] = 0
      BY <1>1, <1>2 DEF Want
    <3>3. QED
      BY <1>1, <1>2, <2>4, <3>1, <3>2 DEF CommandInv, Want
  <2>6. ASSUME NEW i \in 1..Len(cmds')
        PROVE  cmds'[i].act # "Restart" /\ CommandInv(cmds[i])'
    <3>1. CASE cmds'[i] = new
      BY <2>5, <3>1 DEF CommandInv, Want
    <3>2. ASSUME NEW j \in 1..Len(cmds), cmds'[i] = cmds[j]
          PROVE  cmds'[i].act # "Restart" /\ CommandInv(cmds[i])'
      <4>1. PICK command : command = cmds[j]
        OBVIOUS
      <4>2. CommandInv(command)' /\ command.act # "Restart"
        BY <1>4, <1>6, <4>1
      <4>3. QED
        BY <3>2, <4>1, <4>2 DEF CommandInv, Want
    <3>3. QED
      BY <2>3, <3>1, <3>2
  <2>7. QED
    BY <1>3, <1>5, <2>6 DEF ListInv
<1>9. QED
  BY <1>7, <1>8

\* Executing the head of the list leaves its tail, or nothing.
LEMMA FinishList ==
  ASSUME IInv, pc = "exec", cmds # <<>>, NEW ok, Finish(ok)
  PROVE  ListInv'
<1>1. cmds \in Seq(Command) /\ Len(cmds) \in Nat \ {0}
  BY EmptySeq DEF IInv, TypeOK
<1>2. /\ Len(Tail(cmds)) = Len(cmds) - 1
      /\ \A i \in 1..Len(Tail(cmds)) : Tail(cmds)[i] = cmds[i + 1]
  BY <1>1, HeadTailProperties
<1>3. Head(cmds) = cmds[1]
  BY <1>1
<1>4. \A i \in 1..Len(cmds') : i + 1 \in 1..Len(cmds) /\ cmds'[i] = cmds[i + 1]
  <2>1. CASE cmds' = Tail(cmds)
    BY <1>1, <1>2, <2>1
  <2>2. CASE cmds' = <<>>
    <3>1. Len(cmds') = 0
      BY <2>2
    <3>2. QED
      BY <3>1
  <2>3. QED
    BY <2>1, <2>2 DEF Finish
<1>5. pc' = "exec" /\ owner' = owner /\ skip' = skip
  BY DEF Finish
<1>6. ASSUME NEW i \in 1..Len(cmds')
      PROVE  CommandInv(cmds[i])'
  <2>1. PICK command : command = cmds[i + 1]
    OBVIOUS
  <2>2. CommandInv(command) /\ cmds'[i] = command
    BY <1>4, <2>1 DEF IInv, ListInv
  <2>3. CommandInv(command)'
    <3>1. CASE Head(cmds).act = "Restart"
      <4>1. command.act = "Restart"
        BY <1>1, <1>3, <1>4, <2>1, <3>1 DEF IInv, ListInv
      <4>2. QED
        BY <1>5, <2>2, <4>1 DEF CommandInv
    <3>2. CASE Head(cmds).act # "Restart"
      <4>1. my' = my
        BY <3>2 DEF Finish
      <4>2. QED
        BY <1>5, <2>2, <4>1 DEF CommandInv, Want
    <3>3. QED
      BY <3>1, <3>2
  <2>4. QED
    BY <2>2, <2>3 DEF CommandInv, Want
<1>7. ASSUME NEW i \in 1..Len(cmds'), cmds'[i].act = "Restart",
             NEW j \in i..Len(cmds')
      PROVE  cmds'[j].act = "Restart"
  <2>1. Len(cmds') \in Nat
    BY <1>1, HeadTailProperties, EmptySeq DEF Finish
  <2>2. j \in 1..Len(cmds') /\ j + 1 \in (i + 1)..Len(cmds)
    BY <1>1, <1>4, <2>1
  <2>3. QED
    BY <1>4, <1>7, <2>2 DEF IInv, ListInv
<1>8. QED
  BY <1>5, <1>6, <1>7 DEF IInv, ListInv

\* The restarts are appended when all lines have been planned.
LEMMA QueueRestartList ==
  ASSUME IInv, NEW c \in Component, QueueRestart(c)
  PROVE  ListInv'
<1>1. /\ pc = "plan" /\ pc' = "plan" /\ idx > Len(Line) /\ idx' = idx
      /\ my' = my /\ skip' = skip
      /\ cmds \in Seq(Command) /\ Len(cmds) \in Nat
  BY LenProperties DEF QueueRestart, IInv, TypeOK
<1>2. \A d \in Component : \A p \in owner'[d] : p.of = d
  <2>1. owner' = [owner EXCEPT ![c] = {}]
    BY DEF QueueRestart
  <2>2. QED
    BY <2>1 DEF IInv, TypeOK, ListInv
<1>3. ASSUME NEW command, CommandInv(command)
      PROVE  CommandInv(command)'
  BY <1>1, <1>3 DEF CommandInv, Want
<1>4. CASE cmds' = cmds
  BY <1>1, <1>2, <1>3, <1>4, ResourceFacts DEF IInv, TypeOK, ListInv, CommandInv, Want
<1>5. CASE cmds' # cmds
  <2>1. PICK r, new :
          /\ r \in owner[c]
          /\ new = [act |-> "Restart", res |-> r, ver |-> Want(r), base |-> 0]
          /\ cmds' = Append(cmds, new)
          /\ c \notin skip
    BY <1>5 DEF QueueRestart, Skipped
  <2>2. new \in Command /\ r.of = c
    BY <2>1 DEF IInv, TypeOK, ListInv, Command, Action, Want, Copy
  <2>3. /\ Len(cmds') = Len(cmds) + 1 /\ cmds'[Len(cmds) + 1] = new
        /\ \A i \in 1..Len(cmds) : cmds'[i] = cmds[i]
    BY <1>1, <2>1, <2>2, AppendProperties
  <2>4. new.act = "Restart" /\ CommandInv(new)'
    BY <1>1, <2>1, <2>2 DEF CommandInv
  <2>5. ASSUME NEW i \in 1..Len(cmds')
        PROVE  CommandInv(cmds[i])'
    <3>1. CASE i = Len(cmds) + 1
      BY <2>3, <2>4, <3>1 DEF CommandInv, Want
    <3>2. CASE i # Len(cmds) + 1
      <4>1. i \in 1..Len(cmds)
        BY <1>1, <2>3, <3>2
      <4>2. PICK command : command = cmds[i]
        OBVIOUS
      <4>3. CommandInv(command)'
        BY <1>3, <4>1, <4>2 DEF IInv, ListInv
      <4>4. QED
        BY <2>3, <4>1, <4>2, <4>3 DEF CommandInv, Want
    <3>3. QED
      BY <3>1, <3>2
  <2>6. ASSUME NEW i \in 1..Len(cmds'), cmds'[i].act = "Restart",
               NEW j \in i..Len(cmds')
        PROVE  cmds'[j].act = "Restart"
    <3>1. CASE j = Len(cmds) + 1
      BY <2>3, <2>4, <3>1
    <3>2. CASE j # Len(cmds) + 1
      <4>1. i \in 1..Len(cmds) /\ j \in i..Len(cmds) /\ j \in 1..Len(cmds)
        BY <1>1, <2>3, <3>2
      <4>2. QED
        BY <2>3, <2>6, <4>1 DEF IInv, ListInv
    <3>3. QED
      BY <3>1, <3>2
  <2>7. ~(idx' <= Len(Line))
    BY <1>1, ResourceFacts DEF IInv, TypeOK
  <2>8. QED
    BY <1>1, <1>2, <2>5, <2>6, <2>7 DEF ListInv
<1>6. QED
  BY <1>4, <1>5

\* What a step does not touch does not disturb the list.
LEMMA SameList ==
  ASSUME IInv, UNCHANGED <<cmds, owner, skip, idx>>,
         my'.spec = my.spec /\ my'.status = my.status,
         \/ pc' = pc
         \/ pc = "plan" /\ pc' = "exec"
         \/ pc = "exec" /\ pc' = "retry" /\ cmds = <<>>
         \/ pc = "idle" /\ pc' = "plan"
  PROVE  ListInv'
<1>1. ASSUME NEW i \in 1..Len(cmds)
      PROVE  CommandInv(cmds[i])'
  BY DEF IInv, ListInv, CommandInv, Want
<1>2. pc' = "plan" /\ idx' <= Len(Line) =>
        \A i \in 1..Len(cmds) : cmds[i].act # "Restart"
  <2>1. CASE pc = "idle"
    <3>1. Len(cmds) = 0
      BY <2>1 DEF IInv, ListInv
    <3>2. QED
      BY <3>1
  <2>2. CASE pc # "idle"
    BY <2>2 DEF IInv, ListInv
  <2>3. QED
    BY <2>1, <2>2
<1>3. QED
  BY <1>1, <1>2 DEF IInv, ListInv

\* A reconcile starts with an empty list.
LEMMA StartList == IInv /\ Start => ListInv'
<1> SUFFICES ASSUME IInv, Start PROVE ListInv'
  OBVIOUS
<1>1. cmds' = <<>> /\ owner' = owner /\ idx' = 1 /\ pc' \in {"idle", "plan"}
  BY DEF Start, IInv, ListInv
<1>2. Len(cmds') = 0
  BY <1>1
<1>3. QED
  BY <1>1, <1>2 DEF IInv, ListInv

\* The list under every step.
LEMMA NextList == IInv /\ [Next]_vars => ListInv'
<1> SUFFICES ASSUME IInv, [Next]_vars PROVE ListInv'
  OBVIOUS
<1>1. CASE User
  BY <1>1, SameList DEF User, EditResource, Toggle, Control, Scale, Pause,
                        Resume, Terminate, Erase, Edit
<1>2. CASE Sync \/ TimerFires \/ (\E c \in Component : Boot(c)) \/ Collect
  BY <1>2, SameList DEF Sync, TimerFires, Boot, Collect, local
<1>3. CASE Crash \/ PlanPanics \/ NothingToDo \/ ReduceFails \/ Retry
           \/ ReduceWrites \/ ReduceWritesNothing
  BY <1>3, GoIdleList DEF Crash, PlanPanics, NothingToDo, ReduceFails, Retry,
                          ReduceWrites, ReduceWritesNothing, Reduced
<1>4. CASE Start
  BY <1>4, StartList
<1>5. CASE PlanLine
  <2>1. PICK o \in {seen[Line[idx]], objs[Line[idx]]},
             t \in {seen[Line[idx]], objs[Line[idx]]} :
          /\ ~Panics(Line[idx], o, t)
          /\ IF Changed(Line[idx], o)
             THEN Ask(Line[idx], PreApply(Line[idx], o),
                      PreApplyRestarts(Line[idx], o), IF o = 0 THEN t ELSE o)
             ELSE Ask(Line[idx], Visitation(Line[idx], o),
                      VisitationRestarts(Line[idx]), o)
    BY <1>5 DEF PlanLine
  <2>2. Line[idx] \in Resource
    BY <1>5, ResourceFacts DEF PlanLine, IInv, TypeOK
  <2>3. o \in Nat /\ t \in Nat
    BY <2>2 DEF IInv, TypeOK
  <2>4. pc = "plan" /\ idx <= Len(Line) /\ UNCHANGED <<pc, myFresh, failed>>
    BY <1>5 DEF PlanLine
  <2>5. QED
    BY <2>1, <2>2, <2>3, <2>4, AskList
<1>6. ASSUME NEW c \in Component, QueueRestart(c) PROVE ListInv'
  BY <1>6, QueueRestartList
<1>7. CASE BeginExec
  BY <1>7, SameList DEF BeginExec, Planned
<1>8. CASE Exec
  <2>1. pc = "exec" /\ cmds # <<>> /\ \E ok : Finish(ok)
    BY <1>8, ExecFinishes
  <2>2. QED
    BY <2>1, FinishList
<1>9. CASE ReduceConflicts
  BY <1>9, SameList DEF ReduceConflicts, Executed
<1>10. CASE UNCHANGED vars
  BY <1>10, SameList DEF vars, local
<1>11. QED
  BY <1>1, <1>2, <1>3, <1>4, <1>5, <1>6, <1>7, <1>8, <1>9, <1>10
     DEF Next, Operator, Plan, EndPlan, Reduce
-----------------------------------------------------------------------------
(* The copies of the custom resource.                                      *)

\* The copy an idle operator holds is consistent.
LEMMA NoCopyConsistent == Consistent(NoCopy)
<1>1. \A r \in Resource : Claim(r.of) \in Resource
  BY ResourceFacts
<1>2. QED
  BY <1>1 DEF Consistent, NoCopy

\* Ending a reconcile preserves CopyInv if the custom resource and the
\* cached copy of it are still consistent.
LEMMA GoIdleCopy ==
  ASSUME GoIdle, Consistent(crd)', Consistent(cache)', cacheFresh' => cache' = crd'
  PROVE  CopyInv'
<1>1. my' = NoCopy /\ pc' = "idle"
  BY DEF GoIdle
<1>2. Consistent(my)'
  BY <1>1, NoCopyConsistent DEF Consistent, NoCopy
<1>3. QED
  BY <1>1, <1>2 DEF CopyInv

\* The user's actions keep the custom resource consistent.
LEMMA EditCopy ==
  ASSUME IInv, NEW new, Consistent(new), Edit(new)
  PROVE  CopyInv'
<1>1. /\ crd' = new /\ cacheFresh' = FALSE
      /\ cache' = cache /\ my' = my /\ pc' = pc /\ idx' = idx
  BY DEF Edit, Write
<1>2. Consistent(crd)' /\ Consistent(cache)' /\ Consistent(my)'
  BY <1>1 DEF IInv, CopyInv, Consistent
<1>3. QED
  BY <1>1, <1>2 DEF IInv, CopyInv, Want

\* What users do to the custom resource preserves CopyInv.
LEMMA UserCopy == IInv /\ User => CopyInv'
<1> SUFFICES ASSUME IInv, User PROVE CopyInv'
  OBVIOUS
<1>1. /\ Consistent(crd) /\ crd \in Crd /\ NewVersion \in Nat \ {0}
      /\ PodInput \subseteq Resource
  BY ResourceFacts DEF IInv, CopyInv, TypeOK, NewVersion
<1>2. \A r \in Resource : Claim(r.of) \in Resource /\ r.of \in Component
  BY ResourceFacts
<1>3. \A c : Claim(c).kind = "PersistentVolumeClaim" /\ Claim(c).of = c
  BY DEF Claim
<1>4. ASSUME NEW r \in Resource, EditResource(r) PROVE CopyInv'
  <2>1. PICK v \in {1, NewVersion} : Edit([crd EXCEPT !.spec[r] = v])
    BY <1>4 DEF EditResource
  <2>2. Consistent([crd EXCEPT !.spec[r] = v])
    BY <1>1, <1>2, <1>3, <1>4 DEF EditResource, Consistent, Crd
  <2>3. QED
    BY <2>1, <2>2, EditCopy
<1>5. ASSUME NEW r \in Resource, Toggle(r) PROVE CopyInv'
  <2>1. PICK v : Edit([crd EXCEPT !.spec[r] = v])
    BY <1>5 DEF Toggle
  <2>2. r.kind # "ConfigMap" /\ r.kind # "PersistentVolumeClaim"
    BY <1>5 DEF Toggle
  <2>3. Consistent([crd EXCEPT !.spec[r] = v])
    BY <1>1, <1>2, <1>3, <2>2 DEF Consistent, Crd
  <2>4. QED
    BY <2>1, <2>3, EditCopy
<1>6. ASSUME NEW r \in Resource, Control(r) PROVE CopyInv'
  <2>1. PICK control :
          /\ Edit([crd EXCEPT !.spec[r] = NewVersion, !.control = control])
          /\ control \in {crd.control \ {r}, crd.control \union {r}}
    BY <1>6 DEF Control
  <2>2. r.kind \in {"Service", "StatefulSet"}
    BY <1>6 DEF Control
  <2>3. Consistent([crd EXCEPT !.spec[r] = NewVersion, !.control = control])
    BY <1>1, <1>2, <1>3, <2>1, <2>2 DEF Consistent, Crd
  <2>4. QED
    BY <2>1, <2>3, EditCopy
<1>7. ASSUME NEW c \in Component, Scale(c) PROVE CopyInv'
  <2> DEFINE scaled(r) == r.of = c /\ r.kind \in {"ConfigMap", "StatefulSet",
                                                  "PersistentVolumeClaim"}
             version(r) == IF crd.spec[r] # 0 THEN 0
                           ELSE IF r.kind = "PersistentVolumeClaim" THEN 1
                           ELSE NewVersion
             spec == [r \in Resource |->
                        IF scaled(r) THEN version(r) ELSE crd.spec[r]]
  <2>1. Edit([crd EXCEPT !.spec = spec])
    BY <1>7 DEF Scale
  <2>2. ASSUME NEW r \in Resource, r.kind = "ConfigMap"
        PROVE  spec[r] = 0 <=> spec[Claim(r.of)] = 0
    <3>1. crd.spec[r] = 0 <=> crd.spec[Claim(r.of)] = 0
      BY <1>1, <2>2 DEF Consistent
    <3>2. CASE r.of = c
      BY <1>1, <1>2, <1>3, <2>2, <3>1, <3>2
    <3>3. CASE r.of # c
      BY <1>1, <1>2, <1>3, <2>2, <3>1, <3>3
    <3>4. QED
      BY <3>2, <3>3
  <2> HIDE DEF spec
  <2>3. Consistent([crd EXCEPT !.spec = spec])
    BY <1>1, <2>2 DEF Consistent, Crd
  <2>4. QED
    BY <2>1, <2>3, EditCopy
<1>8. ASSUME NEW life, Edit([crd EXCEPT !.life = life]) PROVE CopyInv'
  <2>1. Consistent([crd EXCEPT !.life = life])
    BY <1>1 DEF Consistent, Crd
  <2>2. QED
    BY <1>8, <2>1, EditCopy
<1>9. QED
  BY <1>4, <1>5, <1>6, <1>7, <1>8 DEF User, Pause, Resume, Terminate, Erase

\* What a step does not touch keeps the copies as they are.
LEMMA SameCopy ==
  ASSUME IInv, UNCHANGED <<crd, cache, cacheFresh, idx>>,
         my'.spec = my.spec, my'.control = my.control,
         pc' = pc \/ pc' = "retry"
  PROVE  CopyInv'
BY DEF IInv, CopyInv, Consistent, Want

\* A line that does not panic is a claim line only with a desired object.
LEMMA PlanLineCopy == IInv /\ PlanLine => CopyInv'
<1> SUFFICES ASSUME IInv, PlanLine PROVE CopyInv'
  OBVIOUS
<1> DEFINE r == Line[idx]
<1>1. PICK o, t, act, restart, base :
        /\ o \in {seen[r], objs[r]} /\ t \in {seen[r], objs[r]}
        /\ ~Panics(r, o, t)
        /\ Ask(r, act, restart, base)
  BY DEF PlanLine
<1>2. r.kind = "PersistentVolumeClaim" => Want(r) # 0
  BY <1>1 DEF Panics
<1>3. my'.spec = my.spec /\ my'.control = my.control /\ idx' = idx + 1
  <2>1. my' \in {my, [my EXCEPT !.status[r] = "WaitRestart"]}
    BY <1>1 DEF Ask, AskRestart
  <2>2. idx' = idx + 1
    BY <1>1 DEF Ask, NextLine
  <2>3. QED
    BY <2>1, <2>2 DEF IInv, TypeOK, Copy
<1>4. UNCHANGED <<crd, cache, cacheFresh, pc>> /\ pc = "plan"
  BY DEF PlanLine
<1>5. Consistent(crd)' /\ Consistent(cache)' /\ Consistent(my)'
  BY <1>3, <1>4 DEF IInv, CopyInv, Consistent
<1>6. \A k \in 1..(idx' - 1) : Line[k].kind = "PersistentVolumeClaim" =>
                                my'.spec[Line[k]] # 0
  <2>1. \A k \in 1..(idx' - 1) : k = idx \/ k \in 1..(idx - 1)
    BY <1>3, ResourceFacts DEF IInv, TypeOK
  <2>2. QED
    BY <1>2, <1>3, <1>4, <2>1 DEF IInv, CopyInv, Want
<1>7. QED
  BY <1>4, <1>5, <1>6 DEF IInv, CopyInv, Want

\* When all lines are planned, all claims have a desired object.
LEMMA BeginExecCopy == IInv /\ BeginExec => CopyInv'
<1> SUFFICES ASSUME IInv, BeginExec PROVE CopyInv'
  OBVIOUS
<1>1. /\ UNCHANGED <<crd, cache, cacheFresh, my>> /\ pc' = "exec"
      /\ pc = "plan" /\ idx > Len(Line)
  BY DEF BeginExec, Planned
<1>2. ASSUME NEW c \in Component PROVE Want(Claim(c)) # 0
  <2>1. Claim(c) \in Resource
    BY ResourceFacts
  <2>2. PICK k \in 1..Len(Line) : Line[k] = Claim(c)
    BY <2>1, LineAssumption, LenProperties DEF Resource, Range
  <2>3. k \in 1..(idx - 1)
    BY <1>1, ResourceFacts DEF IInv, TypeOK
  <2>4. Claim(c).kind = "PersistentVolumeClaim"
    BY DEF Claim
  <2>5. QED
    BY <1>1, <2>2, <2>3, <2>4 DEF IInv, CopyInv
<1>3. QED
  BY <1>1, <1>2 DEF IInv, CopyInv, Consistent, Want

\* Every step preserves CopyInv.
LEMMA NextCopy == IInv /\ [Next]_vars => CopyInv'
<1> SUFFICES ASSUME IInv, [Next]_vars PROVE CopyInv'
  OBVIOUS
<1>1. CASE User
  BY <1>1, UserCopy
<1>2. CASE Sync
  <2>1. cache' = crd /\ UNCHANGED <<crd, idx, my, pc>>
    BY <1>2 DEF Sync, local
  <2>2. QED
    BY <2>1 DEF IInv, CopyInv, Consistent, Want
<1>3. CASE TimerFires \/ (\E c \in Component : Boot(c)) \/ Collect
  BY <1>3, SameCopy DEF TimerFires, Boot, Collect, local
<1>4. CASE Crash
  <2>1. GoIdle /\ crd' = crd /\ cache' = crd
    BY <1>4 DEF Crash
  <2>2. Consistent(crd)' /\ Consistent(cache)'
    BY <2>1 DEF IInv, CopyInv, Consistent
  <2>3. QED
    BY <2>1, <2>2, GoIdleCopy
<1>5. CASE PlanPanics \/ NothingToDo \/ ReduceFails \/ Retry
           \/ ReduceWritesNothing
  <2>1. GoIdle /\ UNCHANGED <<crd, cache, cacheFresh>>
    BY <1>5 DEF PlanPanics, NothingToDo, ReduceFails, Retry,
                ReduceWritesNothing, Reduced
  <2>2. Consistent(crd)' /\ Consistent(cache)' /\ (cacheFresh' => cache' = crd')
    BY <2>1 DEF IInv, CopyInv, Consistent
  <2>3. QED
    BY <2>1, <2>2, GoIdleCopy
<1>6. CASE ReduceWrites
  <2>1. /\ GoIdle /\ cache' = cache /\ cacheFresh' = FALSE
        /\ crd' = [crd EXCEPT !.status = my.status, !.calm = calm]
    BY <1>6 DEF ReduceWrites, Reduced, Write
  <2>2. crd'.spec = crd.spec /\ crd'.control = crd.control
    BY <2>1 DEF IInv, TypeOK, Crd
  <2>3. Consistent(crd)' /\ Consistent(cache)'
    BY <2>1, <2>2 DEF IInv, CopyInv, Consistent
  <2>4. QED
    BY <2>1, <2>3, GoIdleCopy
<1>7. CASE Start
  <2>1. /\ UNCHANGED <<crd, cache, cacheFresh, idx>>
        /\ idx = 1 /\ pc' \in {"idle", "plan"}
        /\ \/ my' = my
           \/ my'.spec = cache.spec /\ my'.control = cache.control
    BY <1>7 DEF Start, IInv, ListInv
  <2>2. Consistent(crd)' /\ Consistent(cache)' /\ Consistent(my)'
    BY <2>1 DEF IInv, CopyInv, Consistent
  <2>3. QED
    BY <2>1, <2>2 DEF IInv, CopyInv
<1>8. CASE PlanLine
  BY <1>8, PlanLineCopy
<1>9. CASE (\E c \in Component : QueueRestart(c)) \/ ReduceConflicts
  BY <1>9, SameCopy DEF QueueRestart, ReduceConflicts
<1>10. CASE BeginExec
  BY <1>10, BeginExecCopy
<1>11. CASE Exec
  <2>1. PICK ok : Finish(ok)
    BY <1>11, ExecFinishes
  <2>2. my'.spec = my.spec /\ my'.control = my.control
    BY <2>1 DEF Finish, IInv, TypeOK, Copy
  <2>3. UNCHANGED <<crd, cache, cacheFresh, idx, pc>>
    BY <2>1 DEF Finish
  <2>4. QED
    BY <2>2, <2>3, SameCopy
<1>12. CASE UNCHANGED vars
  BY <1>12, SameCopy DEF vars, local
<1>13. QED
  BY <1>1, <1>2, <1>3, <1>4, <1>5, <1>6, <1>7, <1>8, <1>9, <1>10, <1>11, <1>12
     DEF Next, Operator, Plan, EndPlan, Reduce
-----------------------------------------------------------------------------
(* The pods.                                                               *)

PodInv == FreshInv /\ RestartNotForgotten

\* Inputs of pods are not claims, and each belongs to its own component.
LEMMA PodInputFacts ==
  /\ \A r \in PodInput : r \in Resource /\ r \in Input(r.of) /\ r.of \in Component
  /\ \A r \in PodInput, c \in Component : r # Claim(c)
  /\ \A r, c : r \in Input(c) => r.of = c
BY ResourceFacts DEF PodInput, Input, Claim

\* Whoever goes idle without a write of the status records what is lost.
LEMMA LostPods ==
  ASSUME IInv, GoIdle, lost' = lost \union Forgotten(crd.status),
         UNCHANGED <<crd, objs, booted>>
  PROVE  PodInv'
<1>1. pc' = "idle"
  BY DEF GoIdle
<1>2. QED
  BY <1>1 DEF PodInv, FreshInv, RestartNotForgotten, Forgotten, Outdated

\* Pods boot with what the API server holds.
LEMMA BootPods ==
  ASSUME IInv, NEW c \in Component, NEW r \in PodInput,
         objs' = [objs EXCEPT ![Claim(c)] = 1], booted' = BootedNow(c)
  PROVE  /\ r \in Input(c) => ~Outdated(r)'
         /\ r \notin Input(c) => (Outdated(r)' <=> Outdated(r))
<1>1. r # Claim(c) /\ r \in Input(r.of) /\ (r \in Input(c) => r.of = c)
  BY PodInputFacts
<1>2. objs'[r] = objs[r]
  BY <1>1, PodInputFacts DEF IInv, TypeOK
<1>3. booted'[r] = IF r.of = c THEN objs[r] ELSE booted[r]
  BY DEF BootedNow
<1>4. QED
  BY <1>1, <1>2, <1>3 DEF Outdated

\* What is left when the pods of a component are gone.
LEMMA NoPodsPods ==
  ASSUME IInv, NEW c \in Component, NEW r \in PodInput, booted' = NoPods(c),
         r.of # c => objs'[r] = objs[r]
  PROVE  Outdated(r)' => r.of # c /\ Outdated(r)
BY DEF NoPods, Outdated

\* Each command but Restart leaves outdated only inputs that were outdated
\* before or whose restart is pending in the reconcile's copy.
LEMMA ChangePods ==
  ASSUME IInv, Exec, ~ExecRestart, NEW r \in PodInput
  PROVE  /\ my' = my /\ lost' = lost
         /\ Outdated(r)' => Outdated(r) \/ Pending(my.status[r])
<1>1. pc = "exec" /\ cmds # <<>> /\ \E ok : Finish(ok)
  BY ExecFinishes
<1>2. /\ Res \in Resource /\ Res.of \in Component /\ Head(cmds) \in Command
      /\ r \in Resource
  BY <1>1, HeadIsCommand, PodInputFacts DEF IInv
<1>3. CommandInv(Head(cmds)) /\ Want(Claim(Res.of)) # 0
  <2>1. Head(cmds) = cmds[1] /\ 1 \in 1..Len(cmds)
    BY <1>1, EmptySeq DEF IInv, TypeOK
  <2>2. QED
    BY <1>1, <1>2, <2>1 DEF IInv, ListInv, CopyInv, CommandInv
<1>4. Head(cmds).act # "Restart" => my' = my
  BY <1>1 DEF Finish
<1>5. /\ objs \in [Resource -> Nat] /\ my \in Copy
      /\ \A v : Put(v) = [objs EXCEPT ![Res] = v]
  BY DEF IInv, TypeOK, Put
<1>6. CASE ExecCreate
  <2>1. /\ booted' = booted /\ lost' = lost /\ my' = my
        /\ objs' = objs \/ (objs[Res] = 0 /\ objs' = Put(Version))
    BY <1>4, <1>6 DEF ExecCreate, Executes
  <2>2. QED
    BY <1>2, <1>5, <2>1 DEF Outdated
<1>7. CASE ExecUpdate
  <2>1. /\ booted' = booted /\ lost' = lost /\ my' = my
        /\ objs' \in {objs, Put(Version)} /\ Head(cmds).act = "Update"
    BY <1>4, <1>7 DEF ExecUpdate, Executes
  <2>2. CASE r = Res
    BY <1>3, <2>1, <2>2 DEF CommandInv, Res
  <2>3. CASE r # Res
    BY <1>2, <1>5, <2>1, <2>3 DEF Outdated
  <2>4. QED
    BY <2>2, <2>3
<1>8. CASE ExecDelete
  <2>1. PICK done \in BOOLEAN :
          /\ objs' = IF done /\ Base # 0 THEN Put(0) ELSE objs
          /\ booted' = IF done /\ Base # 0 /\ Res.kind = "StatefulSet"
                       THEN NoPods(Res.of) ELSE booted
    BY <1>8 DEF ExecDelete
  <2>2. lost' = lost /\ my' = my /\ Head(cmds).act = "Delete"
    BY <1>4, <1>8 DEF ExecDelete, Executes
  <2>3. CASE r = Res
    <3>1. r.kind = "StatefulSet"
      <4>1. r.kind \in {"ConfigMap", "StatefulSet"}
        BY PodInputFacts DEF Input
      <4>2. r.kind # "ConfigMap"
        BY <1>2, <1>3, <2>2, <2>3 DEF CommandInv, Res, IInv, CopyInv, Consistent,
                                      Want
      <4>3. QED
        BY <4>1, <4>2
    <3>2. CASE done /\ Base # 0
      BY <1>2, <2>1, <2>2, <2>3, <3>1, <3>2, NoPodsPods
    <3>3. CASE ~(done /\ Base # 0)
      BY <2>1, <2>2, <3>3 DEF Outdated
    <3>4. QED
      BY <3>2, <3>3
  <2>4. CASE r # Res
    <3>1. objs'[r] = objs[r]
      BY <1>2, <1>5, <2>1, <2>4
    <3>2. booted' = booted \/ booted' = NoPods(Res.of)
      BY <2>1
    <3>3. QED
      BY <1>2, <2>2, <3>1, <3>2, NoPodsPods DEF Outdated
  <2>5. QED
    BY <2>3, <2>4
<1>9. CASE ExecReCreate
  <2>1. /\ booted' = booted /\ lost' = lost /\ my' = my
        /\ objs' \in {objs, Put(0), Put(Version)} /\ Head(cmds).act = "ReCreate"
    BY <1>4, <1>9 DEF ExecReCreate, Executes
  <2>2. CASE r = Res
    BY <1>3, <2>1, <2>2 DEF CommandInv, Res
  <2>3. CASE r # Res
    BY <1>2, <1>5, <2>1, <2>3 DEF Outdated
  <2>4. QED
    BY <2>2, <2>3
<1>10. CASE ExecFailOver
  <2>1. UNCHANGED <<objs, booted, lost, my>>
    BY <1>4, <1>10 DEF ExecFailOver, Executes
  <2>2. QED
    BY <2>1 DEF Outdated
<1>11. CASE ExecRecycle
  <2>1. /\ UNCHANGED <<booted, lost, my>> /\ objs' \in {objs, Put(0)}
        /\ Head(cmds).act = "Recycle"
    <3>1. \E v : objs' = IF v = 0 THEN Put(0) ELSE objs
      BY <1>11 DEF ExecRecycle
    <3>2. QED
      BY <1>4, <1>11, <3>1 DEF ExecRecycle, Executes
  <2>2. r # Res
    BY <1>3, <2>1, PodInputFacts DEF CommandInv, Res, Input
  <2>3. QED
    BY <1>2, <1>5, <2>1, <2>2 DEF Outdated
<1>12. QED
  BY <1>6, <1>7, <1>8, <1>9, <1>10, <1>11 DEF Exec

\* A Restart leaves outdated only pods it did not restart.
LEMMA RestartPods ==
  ASSUME IInv, ExecRestart, NEW r \in PodInput, Outdated(r)'
  PROVE  /\ Outdated(r) /\ (r \in lost => r \in lost')
         /\ Pending(my'.status[r]) \/ my'.status[r] = my.status[r]
<1>1. Exec /\ pc = "exec" /\ cmds # <<>> /\ \E ok : Finish(ok)
  BY ExecFinishes DEF Exec
<1>2. /\ Res \in Resource /\ Res.of \in Component /\ Head(cmds) \in Command
      /\ r \in Resource
  BY <1>1, HeadIsCommand, PodInputFacts DEF IInv
<1>3. /\ objs \in [Resource -> Nat] /\ my \in Copy
  BY DEF IInv, TypeOK
<1> DEFINE c == Res.of
<1>4. c \in Component /\ Head(cmds).act = "Restart"
  BY <1>2 DEF ExecRestart, Executes
<1>5. PICK ok : Finish(ok)
  BY <1>1
<1>6. my' = [my EXCEPT !.status[Res] = IF ok THEN "Success" ELSE "Failed"]
  BY <1>4, <1>5 DEF Finish
<1>7. r # Res => my'.status[r] = my.status[r]
  BY <1>2, <1>3, <1>6 DEF Copy
<1>8. r.of = c => r \in Input(c)
  BY PodInputFacts
<1>9. CASE r.of # c
  <2>1. r # Res /\ r \notin Input(c) /\ r # Claim(c)
    BY <1>4, <1>9, PodInputFacts
  <2>2. objs'[r] = objs[r]
    <3>1. objs' \in {objs, [objs EXCEPT ![Claim(c)] = 1]}
      BY DEF ExecRestart
    <3>2. QED
      BY <1>2, <1>3, <2>1, <3>1
  <2>3. booted'[r] = booted[r]
    <3>1. booted' \in {booted, BootedNow(c), NoPods(c)}
      BY DEF ExecRestart
    <3>2. QED
      BY <1>9, <3>1 DEF BootedNow, NoPods
  <2>4. lost' \in {lost, lost \ Input(c)}
    BY DEF ExecRestart
  <2>5. QED
    BY <1>7, <2>1, <2>2, <2>3, <2>4 DEF Outdated
<1>10. CASE r.of = c
  <2>1. ~(booted' = NoPods(c))
    BY <1>10 DEF NoPods, Outdated
  <2>2. booted' = BootedNow(c) => objs'[r] # objs[r]
    BY <1>10 DEF BootedNow, Outdated
  <2>3. objs'[r] = objs[r]
    <3>1. objs' \in {objs, [objs EXCEPT ![Claim(c)] = 1]}
      BY DEF ExecRestart
    <3>2. QED
      BY <1>2, <1>3, <1>4, <3>1, PodInputFacts
  <2>4. booted' = booted /\ lost' = lost /\ Finish(FALSE)
    <3>1. ~(booted' = BootedNow(c))
      BY <2>2, <2>3
    <3>2. booted' = booted => PodsUp(c)
      BY <1>8, <1>10 DEF Outdated, PodsUp
    <3>3. QED
      BY <2>1, <3>1, <3>2 DEF ExecRestart
  <2>5. Pending(my'.status[r]) \/ my'.status[r] = my.status[r]
    <3>1. my' = [my EXCEPT !.status[Res] = "Failed"]
      BY <1>4, <2>4 DEF Finish
    <3>2. QED
      BY <1>2, <1>3, <3>1 DEF Copy, Pending
  <2>6. Outdated(r)
    BY <2>3, <2>4 DEF Outdated
  <2>7. QED
    BY <2>4, <2>5, <2>6
<1>11. QED
  BY <1>9, <1>10

\* Each command leaves outdated only inputs that were outdated before or whose
\* restart is pending in the reconcile's copy.
LEMMA ExecPods ==
  ASSUME IInv, Exec, NEW r \in PodInput \ lost', Outdated(r)'
  PROVE  \/ Pending(my'.status[r])
         \/ r \notin lost /\ Outdated(r) /\ my'.status[r] = my.status[r]
<1>1. CASE ExecRestart
  BY <1>1, RestartPods
<1>2. CASE ~ExecRestart
  BY <1>2, ChangePods
<1> QED
  BY <1>1, <1>2

\* The user touches neither the status nor the pods.
LEMMA UserPods ==
  ASSUME IInv, User
  PROVE  /\ crd.life # "gone" /\ myFresh' = FALSE
         /\ UNCHANGED <<objs, booted, lost, pc, my>>
         /\ crd'.status = crd.status
<1> DEFINE Untouched == /\ crd.life # "gone" /\ myFresh' = FALSE
                        /\ UNCHANGED <<objs, booted, lost, pc, my>>
                        /\ crd'.status = crd.status
<1>1. crd \in Crd
  BY DEF IInv, TypeOK
<1>2. ASSUME NEW r \in Resource, NEW v, Edit([crd EXCEPT !.spec[r] = v])
      PROVE  Untouched
  BY <1>1, <1>2 DEF Edit, Write, Crd
<1>3. ASSUME NEW r \in Resource, NEW v, NEW control,
             Edit([crd EXCEPT !.spec[r] = v, !.control = control])
      PROVE  Untouched
  BY <1>1, <1>3 DEF Edit, Write, Crd
<1>4. ASSUME NEW spec, Edit([crd EXCEPT !.spec = spec]) PROVE Untouched
  BY <1>1, <1>4 DEF Edit, Write, Crd
<1>5. ASSUME NEW life, Edit([crd EXCEPT !.life = life]) PROVE Untouched
  BY <1>1, <1>5 DEF Edit, Write, Crd
<1> HIDE DEF Untouched
<1>6. ASSUME NEW r \in Resource, EditResource(r) PROVE Untouched
  BY <1>2, <1>6 DEF EditResource
<1>7. ASSUME NEW r \in Resource, Toggle(r) PROVE Untouched
  BY <1>2, <1>7 DEF Toggle
<1>8. ASSUME NEW r \in Resource, Control(r) PROVE Untouched
  BY <1>3, <1>8 DEF Control
<1>9. ASSUME NEW c \in Component, Scale(c) PROVE Untouched
  BY <1>4, <1>9 DEF Scale
<1>10. ASSUME Pause \/ Resume \/ Terminate \/ Erase PROVE Untouched
  BY <1>5, <1>10 DEF Pause, Resume, Terminate, Erase
<1>11. Untouched
  BY <1>6, <1>7, <1>8, <1>9, <1>10 DEF User
<1>12. QED
  BY <1>11 DEF Untouched

\* Every step preserves what is known of the pods, PodInv.
LEMMA NextPods == IInv /\ [Next]_vars => PodInv'
<1> SUFFICES ASSUME IInv, [Next]_vars PROVE PodInv'
  OBVIOUS
<1>1. CASE User
  BY <1>1, UserPods DEF IInv, PodInv, FreshInv, RestartNotForgotten, Outdated
<1>2. CASE Sync \/ TimerFires
  BY <1>2 DEF Sync, TimerFires, local, IInv, PodInv, FreshInv,
              RestartNotForgotten, Outdated
<1>3. ASSUME NEW c \in Component, Boot(c) PROVE PodInv'
  <2>1. /\ objs' = [objs EXCEPT ![Claim(c)] = 1] /\ booted' = BootedNow(c)
        /\ lost' = lost \ Input(c)
        /\ UNCHANGED <<crd, pc, my, myFresh>>
    BY <1>3 DEF Boot, local
  <2>2. \A r \in PodInput \ lost' : Outdated(r)' => r \notin lost /\ Outdated(r)
    BY <2>1, BootPods
  <2>3. QED
    BY <2>1, <2>2 DEF IInv, PodInv, FreshInv, RestartNotForgotten
<1>4. CASE Collect
  BY <1>4 DEF Collect, PodInv, FreshInv, RestartNotForgotten
<1>5. CASE Crash \/ ReduceFails \/ Retry
  BY <1>5, LostPods DEF Crash, ReduceFails, Retry
<1>6. CASE Start
  <2>1. /\ UNCHANGED <<crd, objs, booted, lost>> /\ pc = "idle"
        /\ \/ pc' = "idle"
           \/ pc' = "plan" /\ my'.status = cache.status /\ myFresh' = cacheFresh
    BY <1>6 DEF Start
  <2>2. QED
    BY <2>1 DEF IInv, CopyInv, PodInv, FreshInv, RestartNotForgotten, Outdated
<1>7. CASE PlanLine
  <2>1. PICK r, act, restart, base : Ask(r, act, restart, base)
    BY <1>7 DEF PlanLine
  <2>2. my' \in {my, [my EXCEPT !.status[r] = "WaitRestart"]}
    BY <2>1 DEF Ask, AskRestart
  <2>3. \A p \in PodInput : Pending(my.status[p]) => Pending(my'.status[p])
    BY <2>2, PodInputFacts DEF IInv, TypeOK, Copy, Pending
  <2>4. UNCHANGED <<crd, objs, booted, lost, pc, myFresh>> /\ pc = "plan"
    BY <1>7 DEF PlanLine
  <2>5. QED
    BY <2>3, <2>4 DEF IInv, PodInv, FreshInv, RestartNotForgotten, Outdated
<1>8. CASE PlanPanics \/ NothingToDo
  <2>1. /\ UNCHANGED <<crd, objs, booted, lost>> /\ pc = "plan" /\ pc' = "idle"
    BY <1>8 DEF PlanPanics, NothingToDo, Planned, GoIdle
  <2>2. QED
    BY <2>1 DEF IInv, PodInv, FreshInv, RestartNotForgotten, Outdated
<1>9. CASE (\E c \in Component : QueueRestart(c)) \/ BeginExec \/ ReduceConflicts
  <2>1. /\ UNCHANGED <<crd, objs, booted, lost, my, myFresh>>
        /\ \/ pc = "plan" /\ pc' \in {"plan", "exec"}
           \/ pc = "exec" /\ pc' = "retry"
    BY <1>9 DEF QueueRestart, BeginExec, ReduceConflicts, Planned, Executed
  <2>2. QED
    BY <2>1 DEF IInv, PodInv, FreshInv, RestartNotForgotten, Outdated
<1>10. CASE Exec
  <2>1. PICK ok : Finish(ok) /\ pc = "exec"
    BY <1>10, ExecFinishes
  <2>2. UNCHANGED <<crd, pc, myFresh>>
    BY <2>1 DEF Finish
  <2>3. ASSUME NEW r \in PodInput \ lost', Outdated(r)'
        PROVE  \/ Pending(my'.status[r])
               \/ r \notin lost /\ Outdated(r) /\ my'.status[r] = my.status[r]
    BY <1>10, <2>3, ExecPods
  <2>4. QED
    BY <2>1, <2>2, <2>3 DEF IInv, PodInv, FreshInv, RestartNotForgotten
<1>11. CASE ReduceWrites \/ ReduceWritesNothing
  <2>1. /\ UNCHANGED <<objs, booted, lost>> /\ pc = "exec" /\ myFresh
        /\ crd.life # "gone" /\ pc' = "idle"
        /\ crd'.status = my.status
    BY <1>11 DEF ReduceWrites, ReduceWritesNothing, Reduced, GoIdle, Executed,
                 Write, SameStatus, IInv, TypeOK, Crd
  <2>2. QED
    BY <2>1 DEF IInv, PodInv, FreshInv, RestartNotForgotten, Outdated
<1>12. CASE UNCHANGED vars
  BY <1>12 DEF vars, local, IInv, PodInv, FreshInv, RestartNotForgotten, Outdated
<1>13. QED
  BY <1>1, <1>2, <1>3, <1>4, <1>5, <1>6, <1>7, <1>8, <1>9, <1>10, <1>11, <1>12
     DEF Next, Operator, Plan, EndPlan, Reduce
-----------------------------------------------------------------------------
\* The inductive invariant holds initially: no pod has booted yet.
LEMMA InitIInv == Init => IInv
<1> SUFFICES ASSUME Init PROVE IInv
  OBVIOUS
<1>1. ListInv
  <2>1. pc = "idle" /\ idx = 1 /\ cmds = <<>> /\ owner = [c \in Component |-> {}]
    BY DEF Init
  <2>2. Len(cmds) = 0
    BY <2>1
  <2>3. QED
    BY <2>1, <2>2 DEF ListInv
<1>2. CopyInv
  <2>1. /\ cache = crd /\ my = NoCopy /\ pc = "idle" /\ crd.control = {}
        /\ crd.spec = [r \in Resource |-> 1]
    BY DEF Init
  <2>2. Consistent(crd)
    BY <2>1, ResourceFacts DEF Consistent
  <2>3. QED
    BY <2>1, <2>2, NoCopyConsistent DEF CopyInv
<1>3. FreshInv /\ RestartNotForgotten
  <2>1. pc = "idle" /\ booted = [r \in PodInput |-> 0]
    BY DEF Init
  <2>2. QED
    BY <2>1 DEF FreshInv, RestartNotForgotten, Outdated
<1>4. QED
  BY <1>1, <1>2, <1>3, InitType DEF IInv

\* Every step preserves the inductive invariant.
LEMMA NextIInv == IInv /\ [Next]_vars => IInv'
<1> SUFFICES ASSUME IInv, [Next]_vars PROVE IInv'
  OBVIOUS
<1>1. TypeOK'
  BY NextType DEF IInv
<1>2. QED
  BY <1>1, NextList, NextCopy, NextPods DEF IInv, PodInv

\* The inductive invariant holds of every behaviour of the operator.
THEOREM Inductive == Spec => []IInv
BY InitIInv, NextIInv, PTL DEF Spec

\* Pods that run with an outdated configuration or template are never
\* forgotten, for every set of components, every plan, and any number of edits,
\* faults, crashes and stale reads: either their restart is pending, or it was
\* lost with a write of the status.
THEOREM RestartsAreRemembered == Spec => []RestartNotForgotten
<1>1. IInv => RestartNotForgotten
  BY DEF IInv
<1>2. QED
  BY <1>1, Inductive, PTL

\* No reconcile restarts the pods of a component whose set it creates or
\* deletes: skipRestartMap is complete before the first restart is queued.
THEOREM NewbornAreSkipped == Spec => []RestartSkipsNewborn
<1>1. IInv => RestartSkipsNewborn
  <2> SUFFICES ASSUME IInv, NEW i \in 1..Len(cmds), NEW j \in 1..Len(cmds),
                      cmds[i].act = "Restart",
                      cmds[j].act \in {"Create", "Delete"}
               PROVE  cmds[j].res # Workload(cmds[i].res.of)
    BY DEF RestartSkipsNewborn
  <2>1. cmds[i].res.of \notin skip
    BY DEF IInv, ListInv, CommandInv
  <2>2. cmds[j].res.kind = "StatefulSet" => cmds[j].res.of \in skip
    BY DEF IInv, ListInv, CommandInv
  <2>3. QED
    BY <2>1, <2>2 DEF Workload
<1>2. QED
  BY <1>1, Inductive, PTL
-----------------------------------------------------------------------------
(* Falling asleep.  The property is about reads that show the present: a    *)
(* reconcile that misses a change because its cache is old does fall asleep *)
(* before the change is applied.  So does one that panics over an Ingress.  *)
(* What a step does is shown of steps with stale' = 0.                      *)

NoIngress == \A r \in Resource : r.kind # "Ingress"

\* The copy a reconcile works on is the custom resource as long as nobody has
\* written that; from then on another reconcile is going to come.
CopyIsCurrent ==
  /\ pc = "retry" => ~myFresh
  /\ pc # "idle" =>
       IF myFresh THEN /\ crd.life = "active"
                       /\ my.spec = crd.spec /\ my.control = crd.control
       ELSE queued \/ ~cacheFresh

\* A component without replicas has neither a set nor a claim.
SetsConsistent ==
  \A r \in Resource : r.kind = "StatefulSet" =>
    (crd.spec[r] = 0 <=> crd.spec[Claim(r.of)] = 0)

\* The line asks for nothing but a look at the pods or claims.
InOrder(r) ==
  r.kind # "PersistentVolumeClaim" =>
    /\ objs[r] = Want(r) /\ (Doomed(r) => Want(r) = 0)
    /\ Want(r) # 0 => ~Pending(my.status[r])

NoRestartDue == \A c \in Component : owner[c] = {}

\* A calm reconcile whose copy is current has found every line so far in order
\* and is not going to change that; one that leaves no commands is calm.
CalmInv ==
  /\ pc = "idle" => skip = {} /\ calm /\ NoRestartDue
  /\ pc = "exec" => idx > Len(Line)
  /\ pc \in {"plan", "exec"} /\ calm =>
       /\ NoRestartDue
       /\ \A i \in 1..Len(cmds) : cmds[i].act \in {"FailOver", "Recycle"}
       /\ myFresh => \A k \in 1..(idx - 1) : InOrder(Line[k])
  /\ pc = "plan" /\ cmds = <<>> => skip = {} /\ (NoRestartDue => calm)

SleepInv == CopyIsCurrent /\ SetsConsistent /\ CalmInv /\ SleepsWhenApplied

\* A read that returned the past is never forgotten.
LEMMA StaleStays ==
  ASSUME IInv, [Next]_vars, stale' = 0
  PROVE  stale = 0
<1>1. stale \in Nat
  BY BoundAssumption DEF IInv, TypeOK
<1>2. ASSUME NEW r, NEW v, Read(r, v) PROVE stale = 0
  BY <1>1, <1>2 DEF Read
<1>3. CASE User
  BY <1>3 DEF User, EditResource, Toggle, Control, Scale, Pause, Resume,
              Terminate, Erase, Edit
<1>4. CASE Sync \/ TimerFires \/ (\E c \in Component : Boot(c)) \/ Collect \/ Crash
  BY <1>4 DEF Sync, TimerFires, Boot, Collect, Crash
<1>5. CASE Start \/ (\E c \in Component : QueueRestart(c)) \/ EndPlan
  BY <1>5 DEF Start, QueueRestart, EndPlan, NothingToDo, BeginExec
<1>6. CASE PlanLine \/ PlanPanics
  BY <1>2, <1>6 DEF PlanLine, PlanPanics
<1>7. CASE Exec
  <2>1. CASE ExecCreate \/ ExecUpdate
    BY <2>1 DEF ExecCreate, ExecUpdate
  <2>2. CASE ExecDelete \/ ExecReCreate
    BY <2>2 DEF ExecDelete, ExecReCreate
  <2>3. CASE ExecFailOver \/ ExecRestart
    BY <2>3 DEF ExecFailOver, ExecRestart
  <2>4. CASE ExecRecycle
    BY <1>2, <2>4 DEF ExecRecycle
  <2>5. QED
    BY <1>7, <2>1, <2>2, <2>3, <2>4 DEF Exec
<1>8. CASE Reduce
  BY <1>8 DEF Reduce, ReduceWrites, ReduceWritesNothing, ReduceConflicts,
              ReduceFails, Retry
<1>9. CASE UNCHANGED vars
  BY <1>9 DEF vars
<1>10. QED
  BY <1>3, <1>4, <1>5, <1>6, <1>7, <1>8, <1>9 DEF Next, Operator, Plan

\* What a line of the plan asks for, when its reads show the present.
LEMMA PlanLineNow ==
  ASSUME IInv, stale' = 0, PlanLine
  PROVE  \E act \in Action \union {"none"}, restart \in BOOLEAN, base \in Nat :
           /\ Ask(Line[idx], act, restart, base)
           /\ act # "Restart"
           /\ act \in {"none", "FailOver", "Recycle"} /\ ~restart =>
                InOrder(Line[idx])
           /\ act \in {"Update", "ReCreate", "Delete"}
              \/ Line[idx].kind = "PersistentVolumeClaim"
              \/ objs[Line[idx]] \in {0, Want(Line[idx])}
           /\ act = "Delete" => Line[idx].kind # "PersistentVolumeClaim"
           /\ act = "Delete" /\ base = 0 => objs[Line[idx]] = 0
<1> DEFINE r == Line[idx]
           o == objs[r]
<1>1. r \in Resource /\ o \in Nat
  <2>1. idx \in 1..Len(Line)
    BY ResourceFacts DEF PlanLine, IInv, TypeOK
  <2>2. r \in Resource
    BY <2>1, ResourceFacts
  <2>3. QED
    BY <2>2 DEF IInv, TypeOK
<1>2. PICK v \in {seen[r], objs[r]}, t \in {seen[r], objs[r]} :
        /\ v = objs[r] => t = objs[r]
        /\ Read(r, v)
        /\ IF Changed(r, v)
           THEN Ask(r, PreApply(r, v), PreApplyRestarts(r, v),
                    IF v = 0 THEN t ELSE v)
           ELSE Ask(r, Visitation(r, v), VisitationRestarts(r), v)
  BY DEF PlanLine
<1>3. v = o /\ t = o
  <2>1. stale \in Nat
    BY BoundAssumption DEF IInv, TypeOK
  <2>2. QED
    BY <1>2, <2>1 DEF Read
<1> HIDE DEF r, o
<1>4. CASE Changed(r, o)
  <2> DEFINE act == PreApply(r, o)
             restart == PreApplyRestarts(r, o)
  <2>1. Ask(r, act, restart, o)
    BY <1>2, <1>3, <1>4
  <2>2. act \in Action \union {"none"} /\ restart \in BOOLEAN
    BY <1>1, ChoiceType
  <2>3. /\ act \in {"none", "Create", "Update", "Delete", "ReCreate"}
        /\ act = "none" <=> r.kind = "PersistentVolumeClaim"
        /\ act = "Create" => o = 0
    BY DEF PreApply, BaseAction
  <2>4. act = "none" => InOrder(r)
    BY <2>3 DEF InOrder
  <2> HIDE DEF act, restart
  <2>5. QED
    BY <1>1, <2>1, <2>2, <2>3, <2>4 DEF r, o
<1>5. CASE ~Changed(r, o)
  <2> DEFINE act == Visitation(r, o)
             restart == VisitationRestarts(r)
  <2>1. Ask(r, act, restart, o)
    BY <1>2, <1>3, <1>5
  <2>2. act \in Action \union {"none"} /\ restart \in BOOLEAN
    BY <1>1, ChoiceType
  <2>3. act \in {"none", "FailOver", "Recycle"}
    BY DEF Visitation
  <2>4. /\ o = Want(r) /\ (Doomed(r) => Want(r) = 0)
    BY <1>5 DEF Changed
  <2>5. ~restart => InOrder(r)
    BY <2>4 DEF InOrder, VisitationRestarts, o
  <2> HIDE DEF act, restart
  <2>6. QED
    BY <1>1, <2>1, <2>2, <2>3, <2>4, <2>5 DEF r, o
<1>6. QED
  BY <1>4, <1>5

\* A calm reconcile that ends with a current copy has applied everything.
LEMMA CalmIsApplied ==
  ASSUME IInv, CopyIsCurrent, SetsConsistent, pc # "idle", myFresh, On,
         \A k \in 1..Len(Line) : InOrder(Line[k])
  PROVE  Applied
<1>1. /\ crd.life = "active" /\ my.spec = crd.spec /\ my.control = crd.control
  BY DEF CopyIsCurrent
<1>2. ASSUME NEW r \in Resource PROVE InOrder(r)
  BY <1>2, LineAssumption, LenProperties DEF Resource, Range
<1>3. \A r \in Resource : r.kind # "PersistentVolumeClaim" =>
        objs[r] = IF r \in crd.control THEN 0 ELSE crd.spec[r]
  BY <1>1, <1>2 DEF InOrder, Doomed, Want
<1>4. ASSUME NEW r \in PodInput \ lost, Outdated(r) PROVE FALSE
  <2>1. r \in Resource /\ r.kind \in {"ConfigMap", "StatefulSet"} /\ r.of \in Component
    BY PodInputFacts DEF Input
  <2>2. crd.spec[Claim(r.of)] # 0
    BY <2>1, ResourceFacts DEF On, Claim
  <2>3. Want(r) # 0
    BY <1>1, <2>1, <2>2 DEF SetsConsistent, IInv, CopyInv, Consistent, Want
  <2>4. ~Pending(my.status[r])
    BY <1>2, <2>1, <2>3 DEF InOrder
  <2>5. QED
    BY <1>1, <1>4, <2>4 DEF IInv, FreshInv
<1>5. QED
  BY <1>3, <1>4 DEF Applied

\* The copy a reconcile works on, under every step.
LEMMA NextCurrent ==
  ASSUME IInv, CopyIsCurrent, [Next]_vars
  PROVE  CopyIsCurrent'
<1>1. CASE User
  <2>1. myFresh' = FALSE /\ pc' = pc
    BY <1>1, UserPods
  <2>2. cacheFresh' = FALSE
    BY <1>1 DEF User, EditResource, Toggle, Control, Scale, Pause, Resume,
                Terminate, Erase, Edit, Write
  <2>3. QED
    BY <2>1, <2>2 DEF CopyIsCurrent
<1>2. CASE Sync \/ TimerFires \/ (\E c \in Component : Boot(c)) \/ Collect
  BY <1>2 DEF Sync, TimerFires, Boot, Collect, local, CopyIsCurrent
<1>3. CASE Crash \/ PlanPanics \/ NothingToDo \/ ReduceFails \/ Retry
           \/ ReduceWrites \/ ReduceWritesNothing
  <2>1. GoIdle
    BY <1>3 DEF Crash, PlanPanics, NothingToDo, ReduceFails, Retry,
                ReduceWrites, ReduceWritesNothing, Reduced
  <2>2. QED
    BY <2>1 DEF GoIdle, CopyIsCurrent
<1>4. CASE Start
  BY <1>4 DEF Start, Reconcilable, IInv, CopyInv, CopyIsCurrent
<1>5. CASE PlanLine
  <2>1. PICK r, act, restart, base : Ask(r, act, restart, base)
    BY <1>5 DEF PlanLine
  <2>2. my'.spec = my.spec /\ my'.control = my.control
    BY <2>1 DEF Ask, AskRestart, IInv, TypeOK, Copy
  <2>3. UNCHANGED <<crd, cacheFresh, queued, pc, myFresh>> /\ pc = "plan"
    BY <1>5 DEF PlanLine
  <2>4. QED
    BY <2>2, <2>3 DEF CopyIsCurrent
<1>6. CASE (\E c \in Component : QueueRestart(c)) \/ BeginExec \/ ReduceConflicts
  BY <1>6 DEF QueueRestart, BeginExec, Planned, ReduceConflicts, Executed,
              CopyIsCurrent
<1>7. CASE Exec
  <2>1. PICK ok : Finish(ok)
    BY <1>7, ExecFinishes
  <2>2. my'.spec = my.spec /\ my'.control = my.control
    BY <2>1 DEF Finish, IInv, TypeOK, Copy
  <2>3. QED
    BY <2>1, <2>2 DEF Finish, CopyIsCurrent
<1>8. CASE UNCHANGED vars
  BY <1>8 DEF vars, local, CopyIsCurrent
<1>9. QED
  BY <1>1, <1>2, <1>3, <1>4, <1>5, <1>6, <1>7, <1>8
     DEF Next, Operator, Plan, EndPlan, Reduce

\* Replicas 0 concern a set and its claims alike, whatever the user does.
LEMMA NextSets ==
  ASSUME IInv, SetsConsistent, [Next]_vars
  PROVE  SetsConsistent'
<1>1. crd \in Crd /\ NewVersion \in Nat \ {0}
  BY DEF IInv, TypeOK, NewVersion
<1>2. \A r \in Resource : Claim(r.of) \in Resource /\ r.of \in Component
  BY ResourceFacts
<1>3. \A c : Claim(c).kind = "PersistentVolumeClaim" /\ Claim(c).of = c
  BY DEF Claim
<1>4. ASSUME NEW r \in Resource, EditResource(r) PROVE SetsConsistent'
  <2>1. PICK v \in {1, NewVersion} : crd' = [crd EXCEPT !.spec[r] = v]
    BY <1>4 DEF EditResource, Edit, Write
  <2>2. QED
    BY <1>1, <1>2, <1>3, <1>4, <2>1 DEF EditResource, SetsConsistent, Crd
<1>5. ASSUME NEW r \in Resource, Toggle(r) PROVE SetsConsistent'
  <2>1. PICK v : crd' = [crd EXCEPT !.spec[r] = v]
    BY <1>5 DEF Toggle, Edit, Write
  <2>2. r.kind # "StatefulSet" /\ r.kind # "PersistentVolumeClaim"
    BY <1>5 DEF Toggle
  <2>3. QED
    BY <1>1, <1>2, <1>3, <2>1, <2>2 DEF SetsConsistent, Crd
<1>6. ASSUME NEW r \in Resource, Control(r) PROVE SetsConsistent'
  <2>1. PICK control :
          crd' = [crd EXCEPT !.spec[r] = NewVersion, !.control = control]
    BY <1>6 DEF Control, Edit, Write
  <2>2. r.kind \in {"Service", "StatefulSet"} /\ crd.spec[r] # 0
    BY <1>6 DEF Control
  <2>3. QED
    BY <1>1, <1>2, <1>3, <2>1, <2>2 DEF SetsConsistent, Crd
<1>7. ASSUME NEW c \in Component, Scale(c) PROVE SetsConsistent'
  <2> DEFINE scaled(r) == r.of = c /\ r.kind \in {"ConfigMap", "StatefulSet",
                                                  "PersistentVolumeClaim"}
             version(r) == IF crd.spec[r] # 0 THEN 0
                           ELSE IF r.kind = "PersistentVolumeClaim" THEN 1
                           ELSE NewVersion
             spec == [r \in Resource |->
                        IF scaled(r) THEN version(r) ELSE crd.spec[r]]
  <2>1. crd' = [crd EXCEPT !.spec = spec]
    BY <1>7 DEF Scale, Edit, Write
  <2>2. ASSUME NEW r \in Resource, r.kind = "StatefulSet"
        PROVE  spec[r] = 0 <=> spec[Claim(r.of)] = 0
    <3>1. crd.spec[r] = 0 <=> crd.spec[Claim(r.of)] = 0
      BY <2>2 DEF SetsConsistent
    <3>2. CASE r.of = c
      BY <1>1, <1>2, <1>3, <2>2, <3>1, <3>2
    <3>3. CASE r.of # c
      BY <1>1, <1>2, <1>3, <2>2, <3>1, <3>3
    <3>4. QED
      BY <3>2, <3>3
  <2> HIDE DEF spec
  <2>3. QED
    BY <1>1, <2>1, <2>2 DEF SetsConsistent, Crd
<1>8. ASSUME NEW life, Edit([crd EXCEPT !.life = life]) PROVE SetsConsistent'
  BY <1>1, <1>8 DEF Edit, Write, SetsConsistent, Crd
<1>9. CASE User
  BY <1>4, <1>5, <1>6, <1>7, <1>8, <1>9 DEF User, Pause, Resume, Terminate, Erase
<1>10. CASE ReduceWrites
  <2>1. crd'.spec = crd.spec
    BY <1>1, <1>10 DEF ReduceWrites, Write, Crd
  <2>2. QED
    BY <2>1 DEF SetsConsistent
<1>11. CASE Exec
  <2>1. PICK ok : Finish(ok)
    BY <1>11, ExecFinishes
  <2>2. QED
    BY <2>1 DEF Finish, SetsConsistent
<1>12. CASE crd' = crd
  BY <1>12 DEF SetsConsistent
<1>13. QED
  BY <1>9, <1>10, <1>11, <1>12
     DEF Next, Operator, Plan, EndPlan, Reduce, Sync, TimerFires, Boot, Collect,
         Crash, Start, PlanLine, PlanPanics, QueueRestart, NothingToDo, BeginExec,
         ReduceWritesNothing, ReduceConflicts, ReduceFails, Retry, vars

\* A line that keeps a reconcile calm is in order; one that makes it ask for
\* something leaves a command.
LEMMA PlanLineCalm ==
  ASSUME IInv, CalmInv, stale' = 0, PlanLine
  PROVE  CalmInv'
<1> DEFINE r == Line[idx]
<1>1. PICK act \in Action \union {"none"}, restart \in BOOLEAN, base \in Nat :
        /\ Ask(r, act, restart, base)
        /\ act \in {"none", "FailOver", "Recycle"} /\ ~restart => InOrder(r)
  BY PlanLineNow
<1>2. /\ pc = "plan" /\ pc' = "plan" /\ idx <= Len(Line) /\ idx' = idx + 1
      /\ myFresh' = myFresh /\ objs' = objs
  BY <1>1 DEF PlanLine, Ask, NextLine
<1>3. r \in Resource /\ r.of \in Component /\ cmds \in Seq(Command) /\ idx \in Nat
  <2>1. idx \in 1..Len(Line) /\ idx \in Nat /\ cmds \in Seq(Command)
    BY <1>2, ResourceFacts DEF IInv, TypeOK
  <2>2. r \in Resource
    BY <2>1, ResourceFacts
  <2> HIDE DEF r
  <2>3. QED
    BY <2>1, <2>2, ResourceFacts
<1>4. calm' => /\ calm /\ act \in {"none", "FailOver", "Recycle"} /\ ~restart
               /\ my' = my /\ owner' = owner
  BY <1>1 DEF Ask
<1> HIDE DEF r
<1>5. CASE act = "none"
  <2>1. cmds' = cmds /\ skip' = skip
    BY <1>1, <1>5 DEF Ask, AskAction
  <2>2. restart => owner'[r.of] # {}
    <3>1. restart => owner' = [owner EXCEPT ![r.of] = {r}]
      BY <1>1 DEF Ask, AskRestart
    <3>2. owner \in [Component -> SUBSET Resource]
      BY DEF IInv, TypeOK
    <3>3. QED
      BY <1>3, <3>1, <3>2
  <2>3. cmds' = <<>> => skip' = {} /\ (NoRestartDue' => calm')
    <3>1. CASE restart
      BY <1>2, <1>3, <2>1, <2>2, <3>1 DEF NoRestartDue, CalmInv
    <3>2. CASE ~restart
      BY <1>1, <1>2, <1>5, <2>1, <3>2 DEF NoRestartDue, CalmInv, Ask
    <3>3. QED
      BY <3>1, <3>2
  <2>4. calm' => /\ NoRestartDue'
                 /\ \A i \in 1..Len(cmds') : cmds'[i].act \in {"FailOver", "Recycle"}
    BY <1>2, <1>4, <2>1 DEF CalmInv, NoRestartDue
  <2>5. calm' /\ myFresh' => \A k \in 1..(idx' - 1) : InOrder(Line[k])'
    <3>1. \A k \in 1..(idx' - 1) : k = idx \/ k \in 1..(idx - 1)
      BY <1>2, <1>3
    <3>2. calm' /\ myFresh' => \A k \in 1..(idx' - 1) : InOrder(Line[k])
      BY <1>1, <1>2, <1>4, <3>1 DEF CalmInv, r
    <3>3. QED
      BY <1>2, <1>4, <3>2 DEF InOrder, Want, Doomed
  <2>6. QED
    BY <1>2, <2>3, <2>4, <2>5 DEF CalmInv
<1>6. CASE act # "none"
  <2> DEFINE new == [act |-> act, res |-> r, ver |-> Want(r), base |-> base]
  <2>1. cmds' = MoveIfAbsent(cmds, new) /\ new.act = act /\ new \in Command
    BY <1>1, <1>3, <1>6 DEF Ask, AskAction, Command, Want, IInv, TypeOK, Copy
  <2> HIDE DEF new
  <2>2. \A i \in 1..Len(cmds') :
          cmds'[i] = new \/ \E j \in 1..Len(cmds) : cmds'[i] = cmds[j]
    <3>1. cmds \in Seq(Command) /\ new \in Command
      BY <1>3, <2>1
    <3>2. \A i \in 1..Len(MoveIfAbsent(cmds, new)) :
            \/ MoveIfAbsent(cmds, new)[i] = new
            \/ \E j \in 1..Len(cmds) : MoveIfAbsent(cmds, new)[i] = cmds[j]
      BY <3>1, MoveIfAbsentElements
    <3>3. QED
      BY <2>1, <3>2
  <2>3. cmds' # <<>>
    <3>1. PICK kept \in Seq(Command) : cmds' = Append(kept, new)
      BY <1>3, <2>1, MoveIfAbsentShape
    <3>2. QED
      BY <2>1, <3>1, AppendProperties
  <2>4. calm' => /\ NoRestartDue'
                 /\ \A i \in 1..Len(cmds') : cmds'[i].act \in {"FailOver", "Recycle"}
    BY <1>2, <1>4, <1>6, <2>1, <2>2 DEF CalmInv, NoRestartDue
  <2>5. calm' /\ myFresh' => \A k \in 1..(idx' - 1) : InOrder(Line[k])'
    <3>1. \A k \in 1..(idx' - 1) : k = idx \/ k \in 1..(idx - 1)
      BY <1>2, <1>3
    <3>2. calm' /\ myFresh' => \A k \in 1..(idx' - 1) : InOrder(Line[k])
      BY <1>1, <1>2, <1>4, <3>1 DEF CalmInv, r
    <3>3. QED
      BY <1>2, <1>4, <3>2 DEF InOrder, Want, Doomed
  <2>6. QED
    BY <1>2, <2>3, <2>4, <2>5 DEF CalmInv
<1>7. QED
  BY <1>5, <1>6

\* The lines a plan has looked at are about resources.
LEMMA VisitedLines ==
  ASSUME IInv
  PROVE  \A k \in 1..(idx - 1) : k \in 1..Len(Line) /\ Line[k] \in Resource
BY ResourceFacts DEF IInv, TypeOK

\* The commands of a calm reconcile change nothing but claims.
LEMMA ExecCalm ==
  ASSUME IInv, CalmInv, Exec
  PROVE  CalmInv'
<1>1. PICK ok : Finish(ok)
  BY ExecFinishes
<1>2. /\ pc = "exec" /\ cmds # <<>> /\ cmds \in Seq(Command)
      /\ UNCHANGED <<pc, idx, owner, skip, calm, myFresh>>
  BY <1>1, ExecFinishes DEF Finish, IInv, TypeOK
<1>3. Head(cmds) = cmds[1] /\ 1 \in 1..Len(cmds) /\ Len(cmds) \in Nat
  BY <1>2, EmptySeq
<1>4. CASE ~calm
  BY <1>2, <1>4 DEF CalmInv
<1>5. CASE calm
  <2>1. Head(cmds).act \in {"FailOver", "Recycle"}
    BY <1>2, <1>3, <1>5 DEF CalmInv
  <2>2. my' = my
    BY <1>1, <2>1 DEF Finish
  <2>3. \A i \in 1..Len(cmds') : \E j \in 1..Len(cmds) : cmds'[i] = cmds[j]
    <3>1. CASE cmds' = <<>>
      <4>1. Len(cmds') = 0
        BY <3>1
      <4>2. QED
        BY <4>1
    <3>2. CASE cmds' = Tail(cmds)
      <4>1. /\ Len(Tail(cmds)) = Len(cmds) - 1
            /\ \A i \in 1..Len(Tail(cmds)) : Tail(cmds)[i] = cmds[i + 1]
        BY <1>2, HeadTailProperties
      <4>2. \A i \in 1..Len(cmds') : i + 1 \in 1..Len(cmds)
        BY <1>3, <3>2, <4>1
      <4>3. QED
        BY <3>2, <4>1, <4>2
    <3>3. QED
      BY <1>1, <3>1, <3>2 DEF Finish
  <2>4. \A r \in Resource : r.kind # "PersistentVolumeClaim" => objs'[r] = objs[r]
    <3>1. CASE Head(cmds).act = "FailOver"
      BY <3>1 DEF Exec, ExecCreate, ExecUpdate, ExecDelete, ExecReCreate,
                  ExecFailOver, ExecRecycle, ExecRestart, Executes
    <3>2. CASE Head(cmds).act = "Recycle"
      <4>1. objs' = objs \/ objs' = Put(0)
        <5>1. ExecRecycle
          BY <3>2 DEF Exec, ExecCreate, ExecUpdate, ExecDelete, ExecReCreate,
                      ExecFailOver, ExecRecycle, ExecRestart, Executes
        <5>2. PICK v : objs' = IF v = 0 THEN Put(0) ELSE objs
          BY <5>1 DEF ExecRecycle
        <5>3. QED
          BY <5>2
      <4>2. Res.kind = "PersistentVolumeClaim"
        BY <1>3, <3>2 DEF Res, IInv, ListInv, CommandInv
      <4>3. objs \in [Resource -> Nat] /\ Put(0) = [objs EXCEPT ![Res] = 0]
        BY DEF Put, IInv, TypeOK
      <4>4. QED
        BY <4>1, <4>2, <4>3
    <3>3. QED
      BY <2>1, <3>1, <3>2
  <2>5. \A r \in Resource : InOrder(r) => InOrder(r)'
    BY <2>2, <2>4 DEF InOrder, Want, Doomed
  <2>6. myFresh' => \A k \in 1..(idx' - 1) : InOrder(Line[k])'
    <3>1. myFresh' => \A k \in 1..(idx' - 1) : InOrder(Line[k]) /\ Line[k] \in Resource
      BY <1>2, <1>5, VisitedLines DEF CalmInv
    <3>2. QED
      BY <2>5, <3>1 DEF InOrder, Want, Doomed
  <2>7. \A i \in 1..Len(cmds') : cmds'[i].act \in {"FailOver", "Recycle"}
    BY <1>2, <1>5, <2>3 DEF CalmInv
  <2>8. NoRestartDue'
    BY <1>2, <1>5 DEF CalmInv, NoRestartDue
  <2>9. QED
    BY <1>2, <2>6, <2>7, <2>8 DEF CalmInv
<1>6. QED
  BY <1>4, <1>5

\* What leaves the objects other than claims and the reconcile alone, or makes
\* its copy old, does not disturb a calm reconcile.
LEMMA SameCalm ==
  ASSUME IInv, CalmInv, UNCHANGED <<pc, idx, my, cmds, owner, skip, calm>>,
         \/ ~myFresh'
         \/ /\ myFresh' = myFresh
            /\ \A r \in Resource : r.kind # "PersistentVolumeClaim" =>
                 objs'[r] = objs[r]
  PROVE  CalmInv'
<1>1. ASSUME myFresh', NEW k \in 1..(idx' - 1), InOrder(Line[k])
      PROVE  InOrder(Line[k])'
  BY <1>1, VisitedLines DEF InOrder, Want, Doomed
<1>2. QED
  BY <1>1 DEF CalmInv, NoRestartDue

\* A reconcile that ends is calm and has nothing left to do.
LEMMA GoIdleCalm == GoIdle => CalmInv'
BY DEF GoIdle, CalmInv, NoRestartDue

\* The calm of a reconcile under every step.
LEMMA NextCalm ==
  ASSUME IInv, CopyIsCurrent, CalmInv, stale' = 0, [Next]_vars
  PROVE  CalmInv'
<1>1. CASE User
  <2>1. ~myFresh' /\ UNCHANGED <<pc, idx, my, cmds, owner, skip, calm>>
    BY <1>1 DEF User, EditResource, Toggle, Control, Scale, Pause, Resume,
                Terminate, Erase, Edit
  <2>2. QED
    BY <2>1, SameCalm
<1>2. CASE Sync \/ TimerFires \/ UNCHANGED vars
  BY <1>2, SameCalm DEF Sync, TimerFires, vars, local
<1>3. ASSUME NEW c \in Component, Boot(c) PROVE CalmInv'
  <2>1. /\ UNCHANGED <<pc, idx, my, myFresh, cmds, owner, skip, calm>>
        /\ objs' = [objs EXCEPT ![Claim(c)] = 1]
    BY <1>3 DEF Boot, local
  <2>2. \A r \in Resource : r.kind # "PersistentVolumeClaim" => objs'[r] = objs[r]
    BY <2>1 DEF Claim, IInv, TypeOK
  <2>3. QED
    BY <2>1, <2>2, SameCalm
<1>4. CASE Collect
  <2>1. /\ UNCHANGED <<pc, idx, my, myFresh, cmds, owner, skip, calm>>
        /\ crd.life = "gone"
    BY <1>4 DEF Collect, local
  <2>2. CASE pc = "idle"
    BY <2>1, <2>2 DEF CalmInv, NoRestartDue
  <2>3. CASE pc # "idle"
    <3>1. ~myFresh'
      BY <2>1, <2>3 DEF CopyIsCurrent
    <3>2. QED
      BY <2>1, <3>1, SameCalm
  <2>4. QED
    BY <2>2, <2>3
<1>5. CASE Crash \/ PlanPanics \/ NothingToDo \/ ReduceFails \/ Retry
           \/ ReduceWrites \/ ReduceWritesNothing
  BY <1>5, GoIdleCalm DEF Crash, PlanPanics, NothingToDo, ReduceFails, Retry,
                          ReduceWrites, ReduceWritesNothing, Reduced
<1>6. CASE Start
  <2>1. /\ UNCHANGED <<idx, cmds, owner, skip, calm>>
        /\ pc = "idle" /\ pc' \in {"idle", "plan"}
        /\ idx = 1 /\ cmds = <<>>
    BY <1>6 DEF Start, IInv, ListInv
  <2>2. Len(cmds) = 0
    BY <2>1
  <2>3. QED
    BY <2>1, <2>2 DEF CalmInv, NoRestartDue
<1>7. CASE PlanLine
  BY <1>7, PlanLineCalm
<1>8. ASSUME NEW c \in Component, QueueRestart(c) PROVE CalmInv'
  <2>1. /\ pc = "plan" /\ owner[c] # {}
        /\ UNCHANGED <<pc, idx, my, myFresh, skip, calm, objs>>
    BY <1>8 DEF QueueRestart
  <2>2. ~calm
    BY <2>1 DEF CalmInv, NoRestartDue
  <2>3. cmds' # <<>>
    <3>1. CASE Skipped(c)
      <4>1. cmds # <<>> /\ cmds' = cmds
        BY <1>8, <2>1, <3>1 DEF Skipped, CalmInv, QueueRestart
      <4>2. QED
        BY <4>1
    <3>2. CASE ~Skipped(c)
      <4>1. PICK r \in owner[c] :
              cmds' = Append(cmds, [act |-> "Restart", res |-> r,
                                    ver |-> Want(r), base |-> 0])
        BY <1>8, <3>2 DEF QueueRestart
      <4>2. [act |-> "Restart", res |-> r, ver |-> Want(r), base |-> 0] \in Command
        BY DEF IInv, TypeOK, Command, Action, Want, Copy
      <4>3. QED
        BY <4>1, <4>2, AppendProperties DEF IInv, TypeOK
    <3>3. QED
      BY <3>1, <3>2
  <2>4. QED
    BY <2>1, <2>2, <2>3 DEF CalmInv
<1>9. CASE BeginExec \/ ReduceConflicts
  <2>1. /\ UNCHANGED <<objs, idx, my, myFresh, cmds, owner, skip, calm>>
        /\ \/ pc = "plan" /\ pc' = "exec" /\ idx > Len(Line)
           \/ pc' = "retry"
    BY <1>9 DEF BeginExec, Planned, ReduceConflicts
  <2>2. \A r : InOrder(r) => InOrder(r)'
    BY <2>1 DEF InOrder, Want, Doomed
  <2>3. QED
    BY <2>1, <2>2 DEF CalmInv, NoRestartDue
<1>10. CASE Exec
  BY <1>10, ExecCalm
<1>11. QED
  BY <1>1, <1>2, <1>3, <1>4, <1>5, <1>6, <1>7, <1>8, <1>9, <1>10
     DEF Next, Operator, Plan, EndPlan, Reduce

\* Every step that leaves the operator asleep leaves everything applied.
LEMMA NextSleeps ==
  ASSUME IInv, SleepInv, NoIngress, stale = 0, [Next]_vars
  PROVE  SleepsWhenApplied'
<1> USE DEF SleepInv
<1>1. CASE User
  BY <1>1 DEF User, EditResource, Toggle, Control, Scale, Pause, Resume,
              Terminate, Erase, Edit, Write, SleepsWhenApplied, Asleep
<1>2. CASE Sync \/ TimerFires \/ Crash \/ ReduceFails
  BY <1>2 DEF Sync, TimerFires, Crash, ReduceFails, Requeue, SleepsWhenApplied,
              Asleep
<1>3. ASSUME NEW c \in Component, Boot(c) PROVE SleepsWhenApplied'
  <2>1. /\ objs' = [objs EXCEPT ![Claim(c)] = 1] /\ booted' = BootedNow(c)
        /\ lost' = lost \ Input(c)
        /\ UNCHANGED <<crd, pc, queued, timer, cacheFresh>>
    BY <1>3 DEF Boot, local
  <2>2. \A r \in Resource : r.kind # "PersistentVolumeClaim" => objs'[r] = objs[r]
    BY <2>1 DEF Claim, IInv, TypeOK
  <2>3. \A r \in PodInput \ lost' : Outdated(r)' => r \notin lost /\ Outdated(r)
    BY <2>1, BootPods
  <2>4. Applied => Applied'
    BY <2>1, <2>2, <2>3 DEF Applied
  <2>5. QED
    BY <2>1, <2>4 DEF SleepsWhenApplied, Asleep, On
<1>4. CASE Collect
  BY <1>4 DEF Collect, SleepsWhenApplied
<1>5. CASE Start
  BY <1>5 DEF Start, Reconcilable, IInv, CopyInv, SleepsWhenApplied, Asleep
<1>6. CASE PlanPanics
  <2>1. PICK o, t : Panics(Line[idx], o, t)
    BY <1>6 DEF PlanPanics
  <2>2. Line[idx] \in Resource
    <3>1. idx \in 1..Len(Line)
      BY <1>6, ResourceFacts DEF PlanPanics, IInv, TypeOK
    <3>2. QED
      BY <3>1, ResourceFacts
  <2>3. Line[idx].kind = "PersistentVolumeClaim" /\ Want(Line[idx]) = 0
    BY <2>1, <2>2 DEF Panics, NoIngress
  <2>4. UNCHANGED <<crd, queued, cacheFresh>> /\ pc = "plan"
    BY <1>6 DEF PlanPanics
  <2>5. ~queued /\ cacheFresh => ~On
    BY <2>2, <2>3, <2>4 DEF CopyIsCurrent, Want, On
  <2>6. QED
    BY <2>4, <2>5 DEF SleepsWhenApplied, Asleep, On
<1>7. CASE (NothingToDo /\ cmds = <<>>) \/ ReduceWritesNothing
  <2>1. /\ UNCHANGED <<crd, objs, booted, cacheFresh, lost>>
        /\ Asleep' => ~queued
        /\ pc \in {"plan", "exec"} /\ idx > Len(Line) /\ calm
    <3>1. CASE NothingToDo /\ cmds = <<>>
      BY <3>1 DEF NothingToDo, Planned, CalmInv, NoRestartDue, Asleep
    <3>2. CASE ReduceWritesNothing
      <4>1. UNCHANGED <<crd, objs, booted, cacheFresh, lost>> /\ calm /\ pc = "exec"
        BY <3>2 DEF ReduceWritesNothing, SameStatus, Executed
      <4>2. Asleep' => ~queued
        BY <3>2 DEF ReduceWritesNothing, Reduced, Requeue, Asleep, IInv, TypeOK
      <4>3. QED
        BY <4>1, <4>2 DEF CalmInv
    <3>3. QED
      BY <1>7, <3>1, <3>2
  <2>2. ASSUME Asleep', On' PROVE Applied'
    <3>1. myFresh
      BY <2>1, <2>2 DEF Asleep, CopyIsCurrent
    <3>2. \A k \in 1..Len(Line) : InOrder(Line[k])
      BY <2>1, <3>1, ResourceFacts DEF CalmInv, IInv, TypeOK
    <3>3. On
      BY <2>1, <2>2 DEF On
    <3>4. Applied
      BY <2>1, <3>1, <3>2, <3>3, CalmIsApplied
    <3>5. QED
      BY <2>1, <3>4 DEF Applied, Outdated
  <2>3. QED
    BY <2>2 DEF SleepsWhenApplied
<1>8. CASE ReduceWrites
  BY <1>8 DEF ReduceWrites, Write, SleepsWhenApplied, Asleep
<1>9. CASE Retry
  BY <1>9 DEF Retry, Requeue, CopyIsCurrent, SleepsWhenApplied, Asleep, IInv, TypeOK
<1>10. CASE PlanLine \/ (\E c \in Component : QueueRestart(c)) \/ BeginExec
            \/ ReduceConflicts
  BY <1>10 DEF PlanLine, QueueRestart, BeginExec, ReduceConflicts,
               SleepsWhenApplied, Asleep
<1>11. CASE Exec
  <2>1. PICK ok : Finish(ok) /\ pc = "exec"
    BY <1>11, ExecFinishes
  <2>2. QED
    BY <2>1 DEF Finish, SleepsWhenApplied, Asleep
<1>12. CASE UNCHANGED vars
  BY <1>12 DEF vars, local, SleepsWhenApplied, Asleep, On, Applied, Outdated
<1>13. QED
  BY <1>1, <1>2, <1>3, <1>4, <1>5, <1>6, <1>7, <1>8, <1>9, <1>10, <1>11, <1>12
     DEF Next, Operator, Plan, EndPlan, Reduce

\* At first the custom resource is queued, and nothing is known.
LEMMA InitSleep == Init => SleepInv
<1> SUFFICES ASSUME Init PROVE SleepInv
  OBVIOUS
<1>1. /\ pc = "idle" /\ queued /\ skip = {} /\ calm
      /\ owner = [c \in Component |-> {}]
      /\ crd.spec = [r \in Resource |-> 1]
  BY DEF Init
<1>2. CopyIsCurrent /\ CalmInv /\ SleepsWhenApplied
  BY <1>1 DEF CopyIsCurrent, CalmInv, NoRestartDue, SleepsWhenApplied, Asleep
<1>3. SetsConsistent
  BY <1>1, ResourceFacts DEF SetsConsistent
<1>4. QED
  BY <1>2, <1>3 DEF SleepInv

\* As long as its reads show the present, and no Ingress makes it panic, the
\* operator falls asleep only when everything the user asked for is applied
\* and every restart is done: whatever was edited while a reconcile ran, failed
\* or crashed, a copy that is not current has another reconcile behind it.
THEOREM SleepsOnlyWhenApplied ==
  ASSUME NoIngress
  PROVE  Spec => []SleepsWhenApplied
<1> DEFINE Inv == stale = 0 => SleepInv
<1>1. Init => Inv
  BY InitSleep
<1>2. IInv /\ Inv /\ [Next]_vars => Inv'
  BY StaleStays, NextCurrent, NextSets, NextCalm, NextSleeps DEF SleepInv
<1>3. Inv => SleepsWhenApplied
  BY DEF SleepInv, SleepsWhenApplied
<1> HIDE DEF Inv
<1>4. QED
  BY <1>1, <1>2, <1>3, Inductive, PTL DEF Spec
-----------------------------------------------------------------------------
(* The order of a restart and of what it is for.  The properties are about  *)
(* reads that show the present, again, and about what no other command      *)
(* displaces: ConfigMaps have the same category, and the Update of one is   *)
(* dropped from the list when that of the next one is added.                *)

OneConfigMap ==
  \A r, s \in Resource : r.kind = "ConfigMap" /\ s.kind = "ConfigMap" => r = s

\* What is kept in the list until it is executed.
Kept(r) == r.kind # "PersistentVolumeClaim" /\ ~Displaceable(r)

\* The object is what is wanted, or gone, or a command of the list changes it.
Settling(r) ==
  \/ objs[r] \in {0, Want(r)}
  \/ \E i \in 1..Len(cmds) :
       cmds[i].res = r /\ cmds[i].act \in {"Update", "ReCreate", "Delete"}

\* What a command puts in place is what is wanted, and a Delete that does not
\* know the labels of its object is not needed.
CommandApplies(command) ==
  /\ command.ver = Want(command.res)
  /\ command.act = "Delete" => command.res.kind # "PersistentVolumeClaim"
  /\ command.act = "Delete" /\ command.base = 0 =>
       objs[command.res] \in {0, Want(command.res)}

\* Every line looked at whose command is kept is settled by the time the list is empty, unless a
\* command fails.
OrderInv ==
  /\ pc = "exec" => idx > Len(Line)
  /\ \A i \in 1..Len(cmds) : CommandApplies(cmds[i])
  /\ pc = "plan" \/ (pc = "exec" /\ cmds # <<>>) =>
       \A k \in 1..(idx - 1) : Kept(Line[k]) => Settling(Line[k])

\* Each component is restarted at most once, for a line whose state waits for
\* the result.
WaitingInv ==
  /\ pc = "idle" => NoRestartDue
  /\ pc = "plan" => \A c \in Component : \A r \in owner[c] :
                      my.status[r] = "WaitRestart"
  /\ \A i \in 1..Len(cmds) : cmds[i].act = "Restart" =>
       /\ my.status[cmds[i].res] = "WaitRestart"
       /\ owner[cmds[i].res.of] = {}
       /\ \A j \in 1..Len(cmds) : cmds[j].act = "Restart" /\ j # i =>
            cmds[j].res.of # cmds[i].res.of

\* A reconcile that ends leaves no commands and no restarts.
LEMMA GoIdleOrder == GoIdle => OrderInv' /\ WaitingInv'
<1> SUFFICES ASSUME GoIdle PROVE OrderInv' /\ WaitingInv'
  OBVIOUS
<1>1. pc' = "idle" /\ cmds' = <<>>
  BY DEF GoIdle
<1>2. Len(cmds') = 0
  BY <1>1
<1>3. QED
  BY <1>1, <1>2 DEF GoIdle, OrderInv, WaitingInv, NoRestartDue

\* The list consists of commands about resources.
LEMMA ListedCommand ==
  ASSUME IInv, NEW i \in 1..Len(cmds)
  PROVE  cmds[i] \in Command /\ cmds[i].res \in Resource
<1>1. cmds \in Seq(Command)
  BY DEF IInv, TypeOK
<1>2. cmds[i] \in Command
  BY <1>1, ElementOfSeq
<1>3. QED
  BY <1>2 DEF Command

\* Nothing that leaves the reconcile and the objects other than claims alone,
\* or takes objects away, disturbs what the list is going to settle.
LEMMA SameOrder ==
  ASSUME IInv, OrderInv, UNCHANGED <<idx, cmds>>, my'.spec = my.spec,
         \A r \in Resource : r.kind # "PersistentVolumeClaim" =>
           objs'[r] \in {0, objs[r]},
         \/ pc' = pc
         \/ pc = "plan" /\ pc' = "exec" /\ idx > Len(Line)
         \/ pc' = "retry"
  PROVE  OrderInv'
<1>1. ASSUME NEW i \in 1..Len(cmds) PROVE CommandApplies(cmds[i])'
  <2>1. cmds[i].res \in Resource
    BY ListedCommand
  <2>2. CommandApplies(cmds[i])
    BY DEF OrderInv
  <2>3. QED
    BY <2>1, <2>2 DEF CommandApplies, Want
<1>2. ASSUME NEW k \in 1..(idx - 1), Kept(Line[k]), Settling(Line[k])
      PROVE  Settling(Line[k])'
  BY <1>2, VisitedLines DEF Settling, Want, Kept
<1>3. QED
  BY <1>1, <1>2 DEF OrderInv

\* A command that is added displaces none that settles another line, unless both
\* are about ConfigMaps.
LEMMA PlanLineOrder ==
  ASSUME IInv, OrderInv, stale' = 0, PlanLine
  PROVE  OrderInv'
<1> DEFINE r == Line[idx]
<1>1. PICK act \in Action \union {"none"}, restart \in BOOLEAN, base \in Nat :
        /\ Ask(r, act, restart, base)
        /\ \/ act \in {"Update", "ReCreate", "Delete"}
           \/ r.kind = "PersistentVolumeClaim"
           \/ objs[r] \in {0, Want(r)}
        /\ act = "Delete" => r.kind # "PersistentVolumeClaim"
        /\ act = "Delete" /\ base = 0 => objs[r] = 0
  BY PlanLineNow
<1>2. /\ pc = "plan" /\ pc' = "plan" /\ idx' = idx + 1 /\ objs' = objs
  BY <1>1 DEF PlanLine, Ask, NextLine
<1>3. idx \in 1..Len(Line) /\ idx \in Nat /\ cmds \in Seq(Command)
  BY <1>2, ResourceFacts DEF PlanLine, IInv, TypeOK
<1>4. r \in Resource
  BY <1>3, ResourceFacts
<1>5. my'.spec = my.spec
  BY <1>1 DEF Ask, AskRestart, IInv, TypeOK, Copy
<1>6. \A k \in 1..(idx' - 1) : k = idx \/ k \in 1..(idx - 1)
  BY <1>2, <1>3
<1>7. SUFFICES
        /\ \A i \in 1..Len(cmds') : CommandApplies(cmds'[i])
        /\ r.kind # "PersistentVolumeClaim" =>
             \/ objs[r] \in {0, Want(r)}
             \/ \E i \in 1..Len(cmds') :
                  /\ cmds'[i].res = r
                  /\ cmds'[i].act \in {"Update", "ReCreate", "Delete"}
        /\ \A k \in 1..(idx - 1), j \in 1..Len(cmds) :
             /\ Kept(Line[k]) /\ cmds[j].res = Line[k]
             /\ cmds[j].act \in {"Update", "ReCreate", "Delete"}
             => \E i \in 1..Len(cmds') :
                 /\ cmds'[i].res = Line[k]
                 /\ cmds'[i].act \in {"Update", "ReCreate", "Delete"}
  <2>1. \A i \in 1..Len(cmds') : CommandApplies(cmds[i])'
    BY <1>2, <1>5, <1>7 DEF CommandApplies, Want
  <2>2. ASSUME NEW s, s = Line[idx], s.kind # "PersistentVolumeClaim"
        PROVE  Settling(s)'
    BY <1>2, <1>5, <1>7, <2>2 DEF Settling, Want
  <2>3. ASSUME NEW k \in 1..(idx - 1), Kept(Line[k])
        PROVE  Settling(Line[k])'
    <3>1. Settling(Line[k]) /\ Line[k] \in Resource
      BY <1>2, <2>3, VisitedLines DEF OrderInv
    <3>2. CASE objs[Line[k]] \in {0, Want(Line[k])}
      BY <1>2, <1>5, <3>2 DEF Settling, Want
    <3>3. CASE objs[Line[k]] \notin {0, Want(Line[k])}
      <4>1. PICK j \in 1..Len(cmds) :
              /\ cmds[j].res = Line[k]
              /\ cmds[j].act \in {"Update", "ReCreate", "Delete"}
        BY <3>1, <3>3 DEF Settling
      <4>2. \E i \in 1..Len(cmds') :
              /\ cmds'[i].res = Line[k]
              /\ cmds'[i].act \in {"Update", "ReCreate", "Delete"}
        BY <1>7, <2>3, <4>1
      <4>3. QED
        BY <4>2 DEF Settling
    <3>4. QED
      BY <3>2, <3>3
  <2>4. \A k \in 1..(idx' - 1) :
          Kept(Line[k]) => Settling(Line[k])'
    <3>1. ASSUME NEW k, k = idx, Kept(Line[k])
          PROVE  Settling(Line[k])'
      BY <2>2, <3>1 DEF Kept
    <3>2. QED
      BY <1>6, <2>3, <3>1
  <2>5. QED
    BY <1>2, <2>1, <2>4 DEF OrderInv
<1> HIDE DEF r
<1>8. CASE act = "none"
  <2>1. cmds' = cmds
    BY <1>1, <1>8 DEF Ask, AskAction
  <2>2. QED
    BY <1>1, <1>8, <2>1 DEF OrderInv
<1>9. CASE act # "none"
  <2> DEFINE new == [act |-> act, res |-> r, ver |-> Want(r), base |-> base]
  <2>1. /\ cmds' = MoveIfAbsent(cmds, new)
        /\ new.act = act /\ new.res = r /\ new.ver = Want(r) /\ new.base = base
    BY <1>1, <1>9 DEF Ask, AskAction
  <2>2. new \in Command
    BY <1>4, <1>9 DEF Command, Want, IInv, TypeOK, Copy
  <2> HIDE DEF new
  <2>3. \A i \in 1..Len(cmds') :
          cmds'[i] = new \/ \E j \in 1..Len(cmds) : cmds'[i] = cmds[j]
    <3>1. \A i \in 1..Len(MoveIfAbsent(cmds, new)) :
            \/ MoveIfAbsent(cmds, new)[i] = new
            \/ \E j \in 1..Len(cmds) : MoveIfAbsent(cmds, new)[i] = cmds[j]
      BY <1>3, <2>2, AddedFromList
    <3>2. QED
      BY <2>1, <3>1
  <2>4. \E i \in 1..Len(cmds') : cmds'[i] = new
    BY <1>3, <2>1, <2>2, AddedIsThere
  <2>5. ASSUME NEW j \in 1..Len(cmds), ~SameAction(cmds[j], new)
        PROVE  \E i \in 1..Len(cmds') : cmds'[i] = cmds[j]
    BY <1>3, <2>1, <2>2, <2>5, AddedKeeps
  <2>6. ASSUME NEW k \in 1..(idx - 1), Kept(Line[k]),
               NEW j \in 1..Len(cmds), cmds[j].res = Line[k],
               SameAction(cmds[j], new)
        PROVE  cmds[j].act = act /\ Line[k] = r
    <3>1. cmds[j].act = act /\ Category(Line[k]) = Category(r)
      BY <2>1, <2>6 DEF SameAction
    <3>2. k \in 1..Len(Line) /\ k < idx /\ Line[k] \in Resource
      BY <1>2, <1>3, VisitedLines
    <3>3. Line[k].kind = "ConfigMap" /\ r.kind = "ConfigMap" => Line[k] = r
      BY <1>3, <2>6, <3>2 DEF Kept, Displaceable, r
    <3>4. \A p, q \in Resource : Category(p) = Category(q) =>
            p = q \/ (p.kind = "ConfigMap" /\ q.kind = "ConfigMap")
      <4> SUFFICES ASSUME NEW p \in Resource, NEW q \in Resource,
                          Category(p) = Category(q), p.kind # "ConfigMap"
                   PROVE  p = q
        BY DEF Category
      <4>1. q.kind # "ConfigMap"
        BY DEF Category
      <4>2. p.kind = q.kind /\ p.of = q.of
        BY <4>1 DEF Category
      <4>3. QED
        BY <4>2, ResourceFacts
    <3>5. QED
      BY <1>4, <3>1, <3>2, <3>3, <3>4
  <2>7. CommandApplies(new)
    BY <1>1, <2>1 DEF CommandApplies
  <2>8. \A i \in 1..Len(cmds') : CommandApplies(cmds'[i])
    BY <2>3, <2>7 DEF OrderInv
  <2>9. r.kind # "PersistentVolumeClaim" =>
          \/ objs[r] \in {0, Want(r)}
          \/ \E i \in 1..Len(cmds') :
               /\ cmds'[i].res = r
               /\ cmds'[i].act \in {"Update", "ReCreate", "Delete"}
    BY <1>1, <2>1, <2>4
  <2>10. ASSUME NEW k \in 1..(idx - 1), NEW j \in 1..Len(cmds),
                Kept(Line[k]), cmds[j].res = Line[k],
                cmds[j].act \in {"Update", "ReCreate", "Delete"}
         PROVE  \E i \in 1..Len(cmds') :
                  /\ cmds'[i].res = Line[k]
                  /\ cmds'[i].act \in {"Update", "ReCreate", "Delete"}
    <3>1. CASE SameAction(cmds[j], new)
      BY <2>1, <2>4, <2>6, <2>10, <3>1
    <3>2. CASE ~SameAction(cmds[j], new)
      BY <2>5, <2>10, <3>2
    <3>3. QED
      BY <3>1, <3>2
  <2>11. QED
    BY <2>8, <2>9, <2>10
<1>10. QED
  BY <1>8, <1>9

\* The commands that are left, when the head of the list has been executed.
LEMMA RestOfList ==
  ASSUME IInv, pc = "exec", cmds # <<>>, NEW ok, Finish(ok)
  PROVE  /\ Len(cmds) \in Nat /\ Head(cmds) = cmds[1] /\ 1 \in 1..Len(cmds)
         /\ \A i \in 1..Len(cmds') : i + 1 \in 1..Len(cmds) /\ cmds'[i] = cmds[i + 1]
         /\ cmds' # <<>> =>
              \A i \in 1..Len(cmds) : i # 1 => i - 1 \in 1..Len(cmds')
<1>1. cmds \in Seq(Command) /\ Len(cmds) \in Nat \ {0}
  BY EmptySeq DEF IInv, TypeOK
<1>2. /\ Len(Tail(cmds)) = Len(cmds) - 1
      /\ \A i \in 1..Len(Tail(cmds)) : Tail(cmds)[i] = cmds[i + 1]
  BY <1>1, HeadTailProperties
<1>3. Head(cmds) = cmds[1]
  BY <1>1
<1>4. CASE cmds' = Tail(cmds)
  BY <1>1, <1>2, <1>3, <1>4
<1>5. CASE cmds' = <<>>
  <2>1. Len(cmds') = 0
    BY <1>5
  <2>2. QED
    BY <1>1, <1>3, <1>5, <2>1
<1>6. QED
  BY <1>4, <1>5 DEF Finish

\* A command that does not end the execution leaves each object as it is, as it
\* is wanted, or gone; its own object is not left as it is if it has to change.
LEMMA ExecSettles ==
  ASSUME IInv, OrderInv, Exec, cmds' # <<>>
  PROVE  /\ \A r \in Resource : r.kind # "PersistentVolumeClaim" =>
              objs'[r] \in {0, objs[r], Want(r)}
         /\ Head(cmds).act \in {"Update", "ReCreate", "Delete"} =>
              objs'[Res] \in {0, Want(Res)}
<1>1. PICK ok : Finish(ok) /\ pc = "exec" /\ cmds # <<>>
  BY ExecFinishes
<1>2. /\ Res \in Resource /\ Res.of \in Component
      /\ objs \in [Resource -> Nat]
      /\ \A v : Put(v) = [objs EXCEPT ![Res] = v]
  BY <1>1, HeadIsCommand DEF IInv, TypeOK, Put
<1>3. CommandApplies(Head(cmds))
  BY <1>1, RestOfList DEF OrderInv
<1>4. Version = Want(Res) /\ ~Finish(FALSE)
  BY <1>3 DEF CommandApplies, Version, Res, Finish
<1>5. CASE ExecCreate
  <2>1. objs' \in {objs, Put(Version)} /\ Head(cmds).act = "Create"
    BY <1>5 DEF ExecCreate, Executes
  <2>2. QED
    BY <1>2, <1>4, <2>1
<1>6. CASE ExecUpdate
  <2>1. objs' = Put(Version)
    <3> DEFINE valid == objs[Res] # 0 /\ objs[Res] = Base
    <3>1. Finish(valid) /\ objs' = IF valid THEN Put(Version) ELSE objs
      BY <1>4, <1>6 DEF ExecUpdate
    <3>2. valid
      BY <1>4, <3>1
    <3>3. QED
      BY <3>1, <3>2
  <2>2. QED
    BY <1>2, <1>4, <2>1
<1>7. CASE ExecDelete
  <2>1. Head(cmds).act = "Delete" /\ objs' = IF Base # 0 THEN Put(0) ELSE objs
    BY <1>4, <1>7 DEF ExecDelete, Executes
  <2>2. CASE Base # 0
    BY <1>2, <2>1, <2>2
  <2>3. CASE Base = 0
    <3>1. objs[Res] \in {0, Want(Res)}
      BY <1>3, <2>1, <2>3 DEF CommandApplies, Base, Res
    <3>2. QED
      BY <2>1, <2>3, <3>1
  <2>4. QED
    BY <2>2, <2>3
<1>8. CASE ExecReCreate
  <2>1. objs' = Put(Version)
    <3> DEFINE valid == objs[Res] \in {0, Base}
    <3>1. Finish(valid) /\ objs' = IF valid THEN Put(Version) ELSE objs
      BY <1>4, <1>8 DEF ExecReCreate
    <3>2. valid
      BY <3>1 DEF Finish
    <3>3. QED
      BY <3>1, <3>2
  <2>2. QED
    BY <1>2, <1>4, <2>1
<1>9. CASE ExecFailOver
  BY <1>9 DEF ExecFailOver, Executes
<1>10. CASE ExecRecycle
  <2>1. Head(cmds).act = "Recycle" /\ \E v : objs' = IF v = 0 THEN Put(0) ELSE objs
    BY <1>10 DEF ExecRecycle, Executes
  <2>2. objs' \in {objs, Put(0)}
    BY <2>1
  <2>3. QED
    BY <1>2, <2>1, <2>2
<1>11. CASE ExecRestart
  <2>1. /\ Head(cmds).act = "Restart"
        /\ objs' \in {objs, [objs EXCEPT ![Claim(Res.of)] = 1]}
    BY <1>11 DEF ExecRestart, Executes
  <2>2. QED
    BY <1>2, <2>1 DEF Claim
<1>12. QED
  BY <1>5, <1>6, <1>7, <1>8, <1>9, <1>10, <1>11 DEF Exec

\* Executing the list settles the line of its head and leaves the others to
\* the rest of it.
LEMMA ExecOrder ==
  ASSUME IInv, OrderInv, Exec
  PROVE  OrderInv'
<1>1. PICK ok : Finish(ok) /\ pc = "exec" /\ cmds # <<>>
  BY ExecFinishes
<1>2. pc' = "exec" /\ idx' = idx /\ my'.spec = my.spec
  BY <1>1 DEF Finish, IInv, TypeOK, Copy
<1>3. CASE cmds' = <<>>
  <2>1. Len(cmds') = 0
    BY <1>3
  <2>2. QED
    BY <1>1, <1>2, <1>3, <2>1 DEF OrderInv
<1>4. CASE cmds' # <<>>
  <2>1. /\ \A i \in 1..Len(cmds') : i + 1 \in 1..Len(cmds) /\ cmds'[i] = cmds[i + 1]
        /\ \A i \in 1..Len(cmds) : i # 1 => i - 1 \in 1..Len(cmds')
        /\ Head(cmds) = cmds[1]
    BY <1>1, <1>4, RestOfList
  <2>2. /\ \A r \in Resource : r.kind # "PersistentVolumeClaim" =>
             objs'[r] \in {0, objs[r], Want(r)}
        /\ Head(cmds).act \in {"Update", "ReCreate", "Delete"} =>
             objs'[Res] \in {0, Want(Res)}
    BY <1>4, ExecSettles
  <2>3. ASSUME NEW i \in 1..Len(cmds') PROVE CommandApplies(cmds[i])'
    <3>1. PICK command : command = cmds[i + 1] /\ command = cmds'[i]
      BY <2>1
    <3>2. CommandApplies(command) /\ command.res \in Resource
      BY <2>1, <3>1, ListedCommand DEF OrderInv
    <3>3. CommandApplies(command)'
      BY <1>2, <2>2, <3>2 DEF CommandApplies, Want
    <3>4. QED
      BY <3>1, <3>3 DEF CommandApplies, Want
  <2>4. ASSUME NEW k \in 1..(idx - 1), Kept(Line[k])
        PROVE  Settling(Line[k])'
    <3>1. PICK r \in Resource : r = Line[k] /\ Settling(r)
      BY <1>1, <2>4, VisitedLines DEF OrderInv
    <3>2. CASE objs[r] \in {0, Want(r)}
      BY <1>2, <2>2, <2>4, <3>1, <3>2 DEF Settling, Want, Kept
    <3>3. ASSUME NEW i \in 1..Len(cmds), cmds[i].res = r,
                 cmds[i].act \in {"Update", "ReCreate", "Delete"}
          PROVE  Settling(r)'
      <4>1. CASE i = 1
        BY <1>2, <2>1, <2>2, <3>3, <4>1 DEF Settling, Want, Res
      <4>2. CASE i # 1
        <5>1. i - 1 \in 1..Len(cmds') /\ (i - 1) + 1 = i
          BY <2>1, <4>2
        <5>2. cmds'[i - 1] = cmds[i]
          BY <2>1, <5>1
        <5>3. QED
          BY <3>3, <5>1, <5>2 DEF Settling
      <4>3. QED
        BY <4>1, <4>2
    <3>4. Settling(r)'
      BY <3>1, <3>2, <3>3 DEF Settling
    <3>5. QED
      BY <3>1, <3>4
  <2>5. QED
    BY <1>1, <1>2, <2>3, <2>4 DEF OrderInv
<1>5. QED
  BY <1>3, <1>4

\* What the list is going to settle, under every step.
LEMMA NextOrder ==
  ASSUME IInv, OrderInv, stale' = 0, [Next]_vars
  PROVE  OrderInv'
<1>1. CASE User
  <2>1. UNCHANGED <<objs, idx, my, cmds, pc>>
    BY <1>1 DEF User, EditResource, Toggle, Control, Scale, Pause, Resume,
                Terminate, Erase, Edit
  <2>2. QED
    BY <2>1, SameOrder
<1>2. CASE Sync \/ TimerFires \/ UNCHANGED vars
  BY <1>2, SameOrder DEF Sync, TimerFires, vars, local
<1>3. ASSUME NEW c \in Component, Boot(c) PROVE OrderInv'
  <2>1. /\ UNCHANGED <<pc, idx, my, cmds>>
        /\ objs' = [objs EXCEPT ![Claim(c)] = 1]
    BY <1>3 DEF Boot, local
  <2>2. \A r \in Resource : r.kind # "PersistentVolumeClaim" => objs'[r] = objs[r]
    BY <2>1 DEF Claim, IInv, TypeOK
  <2>3. QED
    BY <2>1, <2>2, SameOrder
<1>4. CASE Collect
  <2>1. UNCHANGED <<pc, idx, my, cmds>> /\ objs' = [r \in Resource |-> 0]
    BY <1>4 DEF Collect, local
  <2>2. QED
    BY <2>1, SameOrder
<1>5. CASE Crash \/ PlanPanics \/ NothingToDo \/ ReduceFails \/ Retry
           \/ ReduceWrites \/ ReduceWritesNothing
  BY <1>5, GoIdleOrder DEF Crash, PlanPanics, NothingToDo, ReduceFails, Retry,
                           ReduceWrites, ReduceWritesNothing, Reduced
<1>6. CASE Start
  <2>1. cmds' = <<>> /\ idx' = 1 /\ pc' \in {"idle", "plan"}
    BY <1>6 DEF Start, IInv, ListInv
  <2>2. Len(cmds') = 0 /\ ~(\E k : k \in 1..(idx' - 1))
    BY <2>1
  <2>3. QED
    BY <2>1, <2>2 DEF OrderInv
<1>7. CASE PlanLine
  BY <1>7, PlanLineOrder
<1>8. ASSUME NEW c \in Component, QueueRestart(c) PROVE OrderInv'
  <2>1. /\ UNCHANGED <<pc, idx, my, objs>> /\ pc = "plan"
        /\ cmds \in Seq(Command) /\ Len(cmds) \in Nat
    BY <1>8, LenProperties DEF QueueRestart, IInv, TypeOK
  <2>2. CASE cmds' = cmds
    BY <2>1, <2>2, SameOrder
  <2>3. CASE cmds' # cmds
    <3>1. PICK new :
            /\ \E r \in owner[c] :
                 new = [act |-> "Restart", res |-> r, ver |-> Want(r), base |-> 0]
            /\ cmds' = Append(cmds, new)
      BY <1>8, <2>3 DEF QueueRestart
    <3>2. new \in Command /\ new.act = "Restart" /\ new.ver = Want(new.res)
      BY <3>1 DEF IInv, TypeOK, Command, Action, Want, Copy
    <3>3. /\ Len(cmds') = Len(cmds) + 1 /\ cmds'[Len(cmds) + 1] = new
          /\ \A i \in 1..Len(cmds) : cmds'[i] = cmds[i]
      BY <2>1, <3>1, <3>2, AppendProperties
    <3>4. ASSUME NEW i \in 1..Len(cmds') PROVE CommandApplies(cmds'[i])
      <4>1. CASE i = Len(cmds) + 1
        BY <3>2, <3>3, <4>1 DEF CommandApplies
      <4>2. CASE i # Len(cmds) + 1
        <5>1. i \in 1..Len(cmds)
          BY <2>1, <3>3, <4>2
        <5>2. QED
          BY <3>3, <5>1 DEF OrderInv
      <4>3. QED
        BY <4>1, <4>2
    <3>5. \A i \in 1..Len(cmds') : CommandApplies(cmds[i])'
      BY <2>1, <3>4 DEF CommandApplies, Want
    <3>6. \A r : Settling(r) => Settling(r)'
      <4>1. \A i \in 1..Len(cmds) : i \in 1..Len(cmds') /\ cmds'[i] = cmds[i]
        BY <2>1, <3>3
      <4>2. QED
        BY <2>1, <4>1 DEF Settling, Want
    <3>7. QED
      BY <2>1, <3>5, <3>6 DEF OrderInv
  <2>4. QED
    BY <2>2, <2>3
<1>9. CASE BeginExec \/ ReduceConflicts
  <2>1. /\ UNCHANGED <<objs, idx, my, cmds>>
        /\ \/ pc = "plan" /\ pc' = "exec" /\ idx > Len(Line)
           \/ pc' = "retry"
    BY <1>9 DEF BeginExec, Planned, ReduceConflicts
  <2>2. QED
    BY <2>1, SameOrder
<1>10. CASE Exec
  BY <1>10, ExecOrder
<1>11. QED
  BY <1>1, <1>2, <1>3, <1>4, <1>5, <1>6, <1>7, <1>8, <1>9, <1>10
     DEF Next, Operator, Plan, EndPlan, Reduce

\* Whatever its reads show, a line asks for something else than a Restart.
LEMMA PlanLineAsks ==
  ASSUME IInv, PlanLine
  PROVE  \E act \in Action \union {"none"}, restart \in BOOLEAN, base \in Nat :
           Ask(Line[idx], act, restart, base) /\ act # "Restart"
<1> DEFINE r == Line[idx]
<1>1. r \in Resource
  <2>1. idx \in 1..Len(Line)
    BY ResourceFacts DEF PlanLine, IInv, TypeOK
  <2>2. QED
    BY <2>1, ResourceFacts
<1>2. PICK o \in {seen[r], objs[r]}, t \in {seen[r], objs[r]} :
        IF Changed(r, o)
        THEN Ask(r, PreApply(r, o), PreApplyRestarts(r, o), IF o = 0 THEN t ELSE o)
        ELSE Ask(r, Visitation(r, o), VisitationRestarts(r), o)
  BY DEF PlanLine
<1>3. o \in Nat /\ t \in Nat
  BY <1>1, <1>2 DEF IInv, TypeOK
<1>4. PreApply(r, o) # "Restart" /\ Visitation(r, o) # "Restart"
  BY DEF PreApply, BaseAction, Visitation
<1> HIDE DEF r
<1>5. QED
  BY <1>1, <1>2, <1>3, <1>4, ChoiceType DEF r

\* A line puts its own entry into the restart map and no Restart into the list.
LEMMA PlanLineWaiting ==
  ASSUME IInv, WaitingInv, PlanLine
  PROVE  WaitingInv'
<1> DEFINE r == Line[idx]
<1>1. PICK act \in Action \union {"none"}, restart \in BOOLEAN, base \in Nat :
        Ask(r, act, restart, base) /\ act # "Restart"
  BY PlanLineAsks
<1>2. /\ pc = "plan" /\ pc' = "plan" /\ idx <= Len(Line)
      /\ idx \in 1..Len(Line) /\ cmds \in Seq(Command) /\ my \in Copy
      /\ owner \in [Component -> SUBSET Resource]
  BY ResourceFacts DEF PlanLine, IInv, TypeOK
<1>3. r \in Resource
  BY <1>2, ResourceFacts
<1> HIDE DEF r
<1>4. \A i \in 1..Len(cmds') : cmds'[i].act # "Restart"
  <2>1. \A i \in 1..Len(cmds) : cmds[i].act # "Restart"
    BY <1>2 DEF IInv, ListInv
  <2>2. CASE act = "none"
    BY <1>1, <2>1, <2>2 DEF Ask, AskAction
  <2>3. CASE act # "none"
    <3> DEFINE new == [act |-> act, res |-> r, ver |-> Want(r), base |-> base]
    <3>1. cmds' = MoveIfAbsent(cmds, new) /\ new.act = act
      BY <1>1, <2>3 DEF Ask, AskAction
    <3>2. new \in Command
      BY <1>2, <1>3, <2>3 DEF Command, Want, Copy
    <3> HIDE DEF new
    <3>3. \A i \in 1..Len(MoveIfAbsent(cmds, new)) :
            \/ MoveIfAbsent(cmds, new)[i] = new
            \/ \E j \in 1..Len(cmds) : MoveIfAbsent(cmds, new)[i] = cmds[j]
      BY <1>2, <3>2, AddedFromList
    <3>4. QED
      BY <1>1, <2>1, <3>1, <3>3
  <2>4. QED
    BY <2>2, <2>3
<1>5. ASSUME NEW c \in Component, NEW s \in owner'[c]
      PROVE  my'.status[s] = "WaitRestart"
  <2>1. CASE restart
    <3>1. /\ owner' = [owner EXCEPT ![r.of] = {r}]
          /\ my' = [my EXCEPT !.status[r] = "WaitRestart"]
      BY <1>1, <2>1 DEF Ask, AskRestart
    <3>2. s = r \/ s \in owner[c]
      BY <1>2, <3>1
    <3>3. CASE s = r
      BY <1>2, <1>3, <3>1, <3>3 DEF Copy
    <3>4. CASE s # r /\ s \in owner[c]
      <4>1. my.status[s] = "WaitRestart" /\ s \in Resource
        BY <1>2, <3>4 DEF WaitingInv
      <4>2. QED
        BY <1>2, <3>1, <4>1 DEF Copy
    <3>5. QED
      BY <3>2, <3>3, <3>4
  <2>2. CASE ~restart
    BY <1>1, <1>2, <2>2 DEF Ask, WaitingInv
  <2>3. QED
    BY <2>1, <2>2
<1>6. QED
  BY <1>2, <1>4, <1>5 DEF WaitingInv

\* The entry of a component leaves the restart map when its Restart is queued.
LEMMA QueueRestartWaiting ==
  ASSUME IInv, WaitingInv, NEW c \in Component, QueueRestart(c)
  PROVE  WaitingInv'
<1>1. /\ UNCHANGED <<pc, my>> /\ pc = "plan"
      /\ cmds \in Seq(Command) /\ Len(cmds) \in Nat
      /\ owner' = [owner EXCEPT ![c] = {}] /\ owner[c] # {}
      /\ owner \in [Component -> SUBSET Resource]
  BY LenProperties DEF QueueRestart, IInv, TypeOK
<1>2. \A d \in Component : \A s \in owner'[d] : my'.status[s] = "WaitRestart"
  BY <1>1 DEF WaitingInv
<1>3. ASSUME NEW i \in 1..Len(cmds), cmds[i].act = "Restart"
      PROVE  /\ my'.status[cmds[i].res] = "WaitRestart"
             /\ owner'[cmds[i].res.of] = {}
             /\ cmds[i].res.of # c
  <2>1. cmds[i].res.of \in Component
    BY ListedCommand, ResourceFacts
  <2>2. my.status[cmds[i].res] = "WaitRestart" /\ owner[cmds[i].res.of] = {}
    BY <1>3 DEF WaitingInv
  <2>3. QED
    BY <1>1, <2>1, <2>2
<1>4. CASE cmds' = cmds
  BY <1>1, <1>2, <1>3, <1>4 DEF WaitingInv
<1>5. CASE cmds' # cmds
  <2>1. PICK r \in owner[c] :
          cmds' = Append(cmds, [act |-> "Restart", res |-> r, ver |-> Want(r),
                                base |-> 0])
    BY <1>5 DEF QueueRestart
  <2> DEFINE new == [act |-> "Restart", res |-> r, ver |-> Want(r), base |-> 0]
  <2>2. /\ new \in Command /\ new.act = "Restart" /\ new.res.of = c
        /\ my'.status[new.res] = "WaitRestart" /\ owner'[c] = {}
    <3>1. r \in Resource /\ r.of = c /\ my.status[r] = "WaitRestart"
      BY <1>1 DEF IInv, ListInv, WaitingInv
    <3>2. QED
      BY <1>1, <2>1, <3>1 DEF IInv, TypeOK, Command, Action, Want, Copy
  <2>3. /\ Len(cmds') = Len(cmds) + 1 /\ cmds'[Len(cmds) + 1] = new
        /\ \A i \in 1..Len(cmds) : cmds'[i] = cmds[i]
    BY <1>1, <2>1, <2>2, AppendProperties
  <2>4. \A i \in 1..Len(cmds') : i = Len(cmds) + 1 \/ i \in 1..Len(cmds)
    BY <1>1, <2>3
  <2>5. \A i \in 1..Len(cmds') : cmds'[i].act = "Restart" =>
          /\ my'.status[cmds'[i].res] = "WaitRestart"
          /\ owner'[cmds'[i].res.of] = {}
          /\ i # Len(cmds) + 1 => cmds'[i].res.of # c
    BY <1>3, <2>2, <2>3, <2>4
  <2>6. ASSUME NEW i \in 1..Len(cmds'), cmds'[i].act = "Restart",
               NEW j \in 1..Len(cmds'), cmds'[j].act = "Restart", j # i
        PROVE  cmds'[j].res.of # cmds'[i].res.of
    <3>1. CASE i = Len(cmds) + 1
      BY <2>2, <2>3, <2>5, <2>6, <3>1
    <3>2. CASE j = Len(cmds) + 1
      BY <2>2, <2>3, <2>5, <2>6, <3>2
    <3>3. CASE i \in 1..Len(cmds) /\ j \in 1..Len(cmds)
      BY <2>3, <2>6, <3>3 DEF WaitingInv
    <3>4. QED
      BY <2>4, <3>1, <3>2, <3>3
  <2>7. QED
    BY <1>1, <1>2, <2>5, <2>6 DEF WaitingInv
<1>6. QED
  BY <1>4, <1>5

\* Executing a Restart records its result, and that of no other one.
LEMMA ExecWaiting ==
  ASSUME IInv, WaitingInv, Exec
  PROVE  WaitingInv'
<1>1. PICK ok : Finish(ok) /\ pc = "exec" /\ cmds # <<>>
  BY ExecFinishes
<1>2. pc' = "exec" /\ owner' = owner
  BY <1>1 DEF Finish
<1>3. /\ \A i \in 1..Len(cmds') : i + 1 \in 1..Len(cmds) /\ cmds'[i] = cmds[i + 1]
      /\ Head(cmds) = cmds[1] /\ 1 \in 1..Len(cmds) /\ Len(cmds) \in Nat
  BY <1>1, RestOfList
<1>4. ASSUME NEW i \in 1..Len(cmds'), cmds'[i].act = "Restart"
      PROVE  /\ my'.status[cmds'[i].res] = "WaitRestart"
             /\ owner'[cmds'[i].res.of] = {}
  <2>1. /\ my.status[cmds[i + 1].res] = "WaitRestart"
        /\ owner[cmds[i + 1].res.of] = {}
        /\ cmds[i + 1].act = "Restart" /\ cmds[i + 1].res \in Resource
    BY <1>3, <1>4, ListedCommand DEF WaitingInv
  <2>2. CASE Head(cmds).act = "Restart"
    <3>1. i + 1 # 1
      BY <1>3
    <3>2. cmds[i + 1].res # Res
      BY <1>3, <2>1, <2>2, <3>1 DEF WaitingInv, Res
    <3>3. \E v : my' = [my EXCEPT !.status[Res] = v]
      BY <1>1, <2>2 DEF Finish
    <3>4. my'.status[cmds[i + 1].res] = my.status[cmds[i + 1].res]
      BY <2>1, <3>2, <3>3 DEF IInv, TypeOK, Copy
    <3>5. QED
      BY <1>2, <1>3, <2>1, <3>4
  <2>3. CASE Head(cmds).act # "Restart"
    BY <1>1, <1>2, <1>3, <2>1, <2>3 DEF Finish
  <2>4. QED
    BY <2>2, <2>3
<1>5. ASSUME NEW i \in 1..Len(cmds'), cmds'[i].act = "Restart",
             NEW j \in 1..Len(cmds'), cmds'[j].act = "Restart", j # i
      PROVE  cmds'[j].res.of # cmds'[i].res.of
  <2>1. i + 1 # j + 1 /\ i + 1 \in 1..Len(cmds) /\ j + 1 \in 1..Len(cmds)
    BY <1>3, <1>5
  <2>2. QED
    BY <1>3, <1>5, <2>1 DEF WaitingInv
<1>6. QED
  BY <1>2, <1>4, <1>5 DEF WaitingInv

\* The restarts that wait, under every step.
LEMMA NextWaiting ==
  ASSUME IInv, WaitingInv, [Next]_vars
  PROVE  WaitingInv'
<1>1. ASSUME UNCHANGED <<my, cmds, owner>>,
             \/ pc' = pc
             \/ pc = "plan" /\ pc' = "exec"
             \/ pc' = "retry"
      PROVE  WaitingInv'
  BY <1>1 DEF WaitingInv, NoRestartDue
<1>2. CASE User
  <2>1. UNCHANGED <<my, cmds, owner, pc>>
    BY <1>2 DEF User, EditResource, Toggle, Control, Scale, Pause, Resume,
                Terminate, Erase, Edit
  <2>2. QED
    BY <1>1, <2>1
<1>3. CASE Sync \/ TimerFires \/ (\E c \in Component : Boot(c)) \/ Collect
           \/ UNCHANGED vars
  BY <1>1, <1>3 DEF Sync, TimerFires, Boot, Collect, vars, local
<1>4. CASE BeginExec \/ ReduceConflicts
  BY <1>1, <1>4 DEF BeginExec, Planned, ReduceConflicts
<1>5. CASE Crash \/ PlanPanics \/ NothingToDo \/ ReduceFails \/ Retry
           \/ ReduceWrites \/ ReduceWritesNothing
  BY <1>5, GoIdleOrder DEF Crash, PlanPanics, NothingToDo, ReduceFails, Retry,
                           ReduceWrites, ReduceWritesNothing, Reduced
<1>6. CASE Start
  <2>1. /\ cmds' = <<>> /\ owner' = owner /\ pc' \in {"idle", "plan"}
        /\ NoRestartDue
    BY <1>6 DEF Start, IInv, ListInv, WaitingInv
  <2>2. Len(cmds') = 0
    BY <2>1
  <2>3. QED
    BY <2>1, <2>2 DEF WaitingInv, NoRestartDue
<1>7. QED
  BY <1>2, <1>3, <1>4, <1>5, <1>6, PlanLineWaiting, QueueRestartWaiting, ExecWaiting
     DEF Next, Operator, Plan, EndPlan, Reduce

\* At first no restart is queued or due.
LEMMA InitWaiting == Init => WaitingInv
<1> SUFFICES ASSUME Init PROVE WaitingInv
  OBVIOUS
<1>1. cmds = <<>> /\ pc = "idle" /\ owner = [c \in Component |-> {}]
  BY DEF Init
<1>2. Len(cmds) = 0
  BY <1>1
<1>3. QED
  BY <1>1, <1>2 DEF WaitingInv, NoRestartDue

\* A Restart comes when all that is left to do is restarts, and what it boots
\* the pods with is settled by then.
LEMMA RestartAppliesInputs ==
  ASSUME IInv, OrderInv, WaitingInv, [Next]_vars, NEW r \in PodInput,
         Executes("Restart"), Res.of = r.of, my'.status[Res] = "Success",
         ~Displaceable(r)
  PROVE  booted'[r] \in {0, my.spec[r]}
<1>1. pc = "exec" /\ cmds # <<>> /\ Head(cmds).act = "Restart"
  BY DEF Executes
<1>2. /\ Res \in Resource /\ Res.of \in Component
      /\ r \in Resource /\ r \in Input(Res.of)
      /\ r.kind # "PersistentVolumeClaim"
  BY <1>1, HeadIsCommand, PodInputFacts DEF IInv, Input
<1>3. /\ cmds \in Seq(Command) /\ Head(cmds) = cmds[1]
      /\ Len(cmds) \in Nat /\ 1 \in 1..Len(cmds)
  BY <1>1, EmptySeq DEF IInv, TypeOK
<1>4. objs[r] \in {0, Want(r)}
  <2>1. \A j \in 1..Len(cmds) : cmds[j].act = "Restart"
    BY <1>1, <1>3 DEF IInv, ListInv
  <2>2. PICK k \in 1..Len(Line) : Line[k] = r
    BY <1>2, LineAssumption, LenProperties DEF Resource, Range
  <2>3. k \in 1..(idx - 1)
    BY <1>1, ResourceFacts DEF OrderInv, IInv, TypeOK
  <2>4. Settling(r)
    BY <1>1, <1>2, <2>2, <2>3 DEF OrderInv, Kept
  <2>5. QED
    BY <2>1, <2>4 DEF Settling
<1>5. my.status[Res] = "WaitRestart"
  BY <1>1, <1>3 DEF WaitingInv, Res
<1>6. my' # my
  BY <1>5
<1>7. ~GoIdle
  BY <1>2 DEF GoIdle, NoCopy
<1>8. ExecRestart
  <2>1. Exec
    <3>1. ~User
      BY <1>6, UserPods
    <3>2. QED
      BY <1>1, <1>6, <1>7, <3>1
         DEF Next, Operator, Plan, EndPlan, Reduce, Sync, TimerFires, Boot, Collect,
             Crash, Start, PlanLine, PlanPanics, QueueRestart, NothingToDo,
             BeginExec, Planned, ReduceWrites, ReduceWritesNothing,
             ReduceConflicts, ReduceFails, Retry, Executed, Reduced, local, vars
  <2>2. QED
    BY <1>1, <2>1 DEF Exec, ExecCreate, ExecUpdate, ExecDelete, ExecReCreate,
                      ExecFailOver, ExecRecycle, Executes
<1>9. ~Finish(FALSE)
  <2>1. Finish(FALSE) => my' = [my EXCEPT !.status[Res] = "Failed"]
    BY <1>1 DEF Finish
  <2>2. QED
    BY <1>2, <2>1 DEF IInv, TypeOK, Copy
<1>10. CASE ~PodsUp(Res.of) /\ booted' = booted
  BY <1>2, <1>10 DEF PodsUp
<1>11. CASE booted' = BootedNow(Res.of)
  BY <1>4, <1>11 DEF BootedNow, Want
<1>12. CASE booted' = NoPods(Res.of)
  BY <1>12 DEF NoPods
<1>13. QED
  BY <1>8, <1>9, <1>10, <1>11, <1>12 DEF ExecRestart

\* As long as its reads show the present, a Restart that is recorded as done
\* leaves the pods with the set and the last ConfigMap this reconcile was to
\* apply: the commands it depends on come before it, none of them is dropped
\* from the list, and the first that fails ends the execution.
THEOREM RestartFollowsTemplate == Spec => TemplateBeforeRestart
<1> DEFINE Good == \A r \in PodInput :
             Restarted(r) => booted'[r] \in {0, my.spec[r]} \/ Displaceable(r)
           Inv == (stale = 0 => OrderInv) /\ WaitingInv
<1>1. Init => Inv
  <2> SUFFICES ASSUME Init PROVE OrderInv
    BY InitWaiting
  <2>1. cmds = <<>> /\ pc = "idle"
    BY DEF Init
  <2>2. Len(cmds) = 0
    BY <2>1
  <2>3. QED
    BY <2>1, <2>2 DEF OrderInv
<1>2. IInv /\ Inv /\ [Next]_vars => Inv'
  BY StaleStays, NextOrder, NextWaiting
<1>3. IInv /\ Inv /\ [Next]_vars => [Good]_vars
  BY StaleStays, RestartAppliesInputs DEF Restarted
<1> HIDE DEF Inv
<1>4. QED
  BY <1>1, <1>2, <1>3, Inductive, PTL DEF Spec, TemplateBeforeRestart

\* With one ConfigMap nothing is displaced, and a Restart that is recorded as
\* done leaves the pods with all that this reconcile was to apply.
THEOREM RestartFollowsConfig ==
  ASSUME OneConfigMap
  PROVE  Spec => ConfigBeforeRestart
<1>1. ASSUME NEW r \in PodInput PROVE ~Displaceable(r)
  BY <1>1, ResourceFacts DEF Displaceable, OneConfigMap
<1>2. (\A r \in PodInput :
         Restarted(r) => booted'[r] \in {0, my.spec[r]} \/ Displaceable(r))
      => (\A r \in PodInput : Restarted(r) => booted'[r] \in {0, my.spec[r]})
  BY <1>1
<1>3. QED
  BY <1>2, RestartFollowsTemplate, PTL DEF TemplateBeforeRestart, ConfigBeforeRestart
-----------------------------------------------------------------------------
(* The status as a journal: Reconcile implements RestartJournal, for every  *)
(* plan and all bounds.  What has to be shown of each step is what the      *)
(* abstract actions ask for: that an execution changes only what it is      *)
(* about to note (ChangePods), that a Restart recorded as done is done      *)
(* (RestartPods), and that what is stored has all that is due (FreshInv).   *)

Due == {r \in PodInput : Outdated(r)}
Busy == pc \in {"exec", "retry"}
Draft == IF Busy THEN PendingIn(my.status) ELSE {}

\* What a step does to the journal.
Renews == /\ Due' \subseteq Due /\ Draft' \subseteq Draft /\ lost' \subseteq lost
          /\ Due' \intersect ((Draft \ Draft') \union (lost \ lost')) = {}
          /\ UNCHANGED crd.status /\ Busy' = Busy

\* The abstract step is a renewal, among them the one that renews nothing.
LEMMA RenewsIsRenew == Renews => Journal!Renew
BY DEF Renews, Due, Draft, Busy, Journal!Renew, PendingIn

\* Pods and status are left alone, and no execution begins or ends.
LEMMA LeavesJournal ==
  ASSUME UNCHANGED <<objs, booted, lost>>, crd'.status = crd.status,
         \/ ~Busy /\ ~Busy'
         \/ Busy /\ Busy' /\ my' = my
  PROVE  Renews
<1>1. Due' = Due /\ Draft' = Draft
  BY DEF Due, Draft, Outdated, PendingIn
<1>2. Busy' = Busy
  BY DEF Busy
<1>3. QED
  BY <1>1, <1>2 DEF Renews

\* What is planned is about to be executed.
LEMMA BeginsExecution == BeginExec => Journal!Begin
<1> SUFFICES ASSUME BeginExec PROVE Journal!Begin
  OBVIOUS
<1>1. UNCHANGED <<objs, booted, lost, crd>> /\ pc = "plan" /\ pc' = "exec"
  BY DEF BeginExec, Planned
<1>2. QED
  BY <1>1 DEF Journal!Begin, Outdated, PendingIn

\* A command leaves outdated what was, and what is about to be noted.
LEMMA ExecIsJournaled ==
  ASSUME IInv, WaitingInv, Exec
  PROVE  Journal!Change \/ Renews
<1>1. PICK ok : Finish(ok) /\ pc = "exec" /\ cmds # <<>>
  BY ExecFinishes
<1>2. crd' = crd /\ pc' = pc
  BY <1>1 DEF Finish
<1>3. CASE ~ExecRestart
  <2>1. Due' \subseteq Due \union PendingIn(my.status)
    BY <1>3, ChangePods DEF Due, PendingIn
  <2>2. my' = my /\ lost' = lost
    <3>1. \/ ExecCreate \/ ExecUpdate \/ ExecDelete \/ ExecReCreate
          \/ ExecFailOver \/ ExecRecycle
      BY <1>3 DEF Exec
    <3>2. Head(cmds).act # "Restart" /\ lost' = lost
      BY <3>1 DEF ExecCreate, ExecUpdate, ExecDelete, ExecReCreate,
                  ExecFailOver, ExecRecycle, Executes
    <3>3. QED
      BY <1>1, <3>2 DEF Finish
  <2>3. QED
    BY <1>1, <1>2, <2>1, <2>2 DEF Journal!Change, Due
<1>4. CASE ExecRestart
  <2>1. \A r \in PodInput : Outdated(r)' =>
          /\ Outdated(r) /\ (r \in lost => r \in lost')
          /\ Pending(my'.status[r]) \/ my'.status[r] = my.status[r]
    BY <1>4, RestartPods
  <2>2. lost' \subseteq lost
    BY <1>4 DEF ExecRestart
  <2>3. PendingIn(my.status)' \subseteq PendingIn(my.status)
    <3>1. /\ Head(cmds).act = "Restart" /\ Head(cmds) = cmds[1]
          /\ 1 \in 1..Len(cmds) /\ Res \in Resource
      BY <1>1, <1>4, RestOfList, HeadIsCommand DEF ExecRestart, Executes, IInv
    <3>2. my.status[Res] = "WaitRestart"
      BY <3>1 DEF WaitingInv, Res
    <3>3. PICK v : my' = [my EXCEPT !.status[Res] = v]
      BY <1>1, <3>1 DEF Finish
    <3>4. \A r \in PodInput : r # Res => my'.status[r] = my.status[r]
      BY <3>1, <3>3, PodInputFacts DEF IInv, TypeOK, Copy
    <3>5. QED
      BY <3>2, <3>4 DEF PendingIn, Pending
  <2>4. QED
    BY <1>1, <1>2, <2>1, <2>2, <2>3 DEF Renews, Due, Draft, Busy, PendingIn
<1>5. QED
  BY <1>3, <1>4

\* The status that is written has all that is due, or is the one there was.
LEMMA WritesJournal ==
  ASSUME IInv, ReduceWrites \/ ReduceWritesNothing
  PROVE  Journal!Store
<1>1. /\ UNCHANGED <<objs, booted, lost>> /\ pc = "exec" /\ pc' = "idle"
      /\ myFresh /\ crd.life # "gone" /\ crd'.status = my.status
  BY DEF ReduceWrites, ReduceWritesNothing, Reduced, GoIdle, Executed, Write,
         SameStatus, IInv, TypeOK, Crd
<1>2. Due \ lost \subseteq PendingIn(my.status)
  BY <1>1 DEF IInv, FreshInv, Due, PendingIn
<1>3. Due' = Due
  BY <1>1 DEF Due, Outdated
<1>4. QED
  BY <1>1, <1>2, <1>3 DEF Journal!Store, Due, PendingIn

\* Whoever goes idle without having written the status gives up.
LEMMA GivesUp ==
  ASSUME Crash \/ ReduceFails \/ Retry
  PROVE  Journal!GiveUp
<1>1. /\ UNCHANGED <<objs, booted, crd>> /\ pc' = "idle"
      /\ lost' = lost \union Forgotten(crd.status)
  BY DEF Crash, ReduceFails, Retry, GoIdle
<1>2. Due' = Due /\ Forgotten(crd.status) = Due \ PendingIn(crd.status)
  BY <1>1 DEF Due, Outdated, Forgotten, PendingIn
<1>3. QED
  BY <1>1, <1>2 DEF Journal!GiveUp, Due

\* Every step is one of the journal.
LEMMA NextJournal ==
  ASSUME IInv, WaitingInv, [Next]_vars
  PROVE  Journal!Next
<1>1. CASE User
  BY <1>1, UserPods, LeavesJournal, RenewsIsRenew DEF Busy, Journal!Next
<1>2. CASE Sync \/ TimerFires \/ UNCHANGED vars
  BY <1>2, LeavesJournal, RenewsIsRenew
  DEF Sync, TimerFires, vars, local, Busy, Journal!Next
<1>3. ASSUME NEW c \in Component, Boot(c) PROVE Journal!Next
  <2>1. /\ objs' = [objs EXCEPT ![Claim(c)] = 1] /\ booted' = BootedNow(c)
        /\ lost' = lost \ Input(c) /\ UNCHANGED <<crd, pc, my>>
    BY <1>3 DEF Boot, local
  <2>2. \A r \in PodInput : Outdated(r)' => Outdated(r) /\ r \notin Input(c)
    BY <2>1, BootPods
  <2>3. Renews
    BY <2>1, <2>2 DEF Renews, Due, Draft, Busy
  <2>4. QED
    BY <2>3, RenewsIsRenew DEF Journal!Next
<1>4. CASE Collect
  <2>1. UNCHANGED <<crd, pc, my, lost>> /\ \A r \in PodInput : booted'[r] = 0
    BY <1>4 DEF Collect, local
  <2>2. Renews
    BY <2>1 DEF Renews, Due, Draft, Busy, Outdated
  <2>3. QED
    BY <2>2, RenewsIsRenew DEF Journal!Next
<1>5. CASE Crash \/ ReduceFails \/ Retry
  BY <1>5, GivesUp DEF Journal!Next
<1>6. CASE Start \/ PlanLine \/ PlanPanics \/ NothingToDo
           \/ (\E c \in Component : QueueRestart(c))
  <2>1. UNCHANGED <<objs, booted, lost, crd>> /\ ~Busy /\ ~Busy'
    BY <1>6 DEF Start, PlanLine, PlanPanics, NothingToDo, QueueRestart, Planned,
                GoIdle, Busy
  <2>2. QED
    BY <2>1, LeavesJournal, RenewsIsRenew DEF Journal!Next
<1>7. CASE BeginExec
  BY <1>7, BeginsExecution DEF Journal!Next
<1>8. CASE Exec
  BY <1>8, ExecIsJournaled, RenewsIsRenew DEF Journal!Next
<1>9. CASE ReduceConflicts
  <2>1. UNCHANGED <<objs, booted, lost, crd, my>> /\ Busy /\ Busy'
    BY <1>9 DEF ReduceConflicts, Executed, Busy
  <2>2. QED
    BY <2>1, LeavesJournal, RenewsIsRenew DEF Journal!Next
<1>10. CASE ReduceWrites \/ ReduceWritesNothing
  BY <1>10, WritesJournal DEF Journal!Next
<1>11. QED
  BY <1>1, <1>2, <1>3, <1>4, <1>5, <1>6, <1>7, <1>8, <1>9, <1>10
  DEF Next, Operator, Plan, EndPlan, Reduce

\* The reconcile loop implements the journal: whatever fails, conflicts, crashes
\* or is stale, for every plan and all bounds, an execution changes only what it
\* is about to note, a status that is written forgets nothing, and what is lost
\* is what an execution without its status left behind.
THEOREM StatusIsJournal == Spec => KeepsJournal
<1>1. Init => Journal!Init
  <2> SUFFICES ASSUME Init PROVE Journal!Init
    OBVIOUS
  <2>1. /\ pc = "idle" /\ lost = {} /\ booted = [r \in PodInput |-> 0]
        /\ crd.status = [r \in Resource |-> "None"]
    BY DEF Init
  <2>2. QED
    BY <2>1, PodInputFacts DEF Journal!Init, Outdated, PendingIn, Pending
<1>2. IInv /\ WaitingInv /\ [Next]_vars => [Journal!Next]_(Journal!vars)
  BY NextJournal
<1>3. WaitingInv /\ IInv /\ [Next]_vars => WaitingInv'
  BY NextWaiting
<1>4. QED
  BY <1>1, <1>2, <1>3, Inductive, InitWaiting, PTL
  DEF Spec, KeepsJournal, Journal!Spec

\* What the journal is for follows from its steps: every restart that is
\* due and not lost is pending, in the status or in the one to be written, also
\* when the custom resource is gone.
THEOREM JournalRemembers == Spec => []Journal!Remembered
<1>1. Journal!Init => Journal!Remembered
  BY DEF Journal!Init, Journal!Remembered
<1>2. Journal!Remembered /\ [Journal!Next]_(Journal!vars) => Journal!Remembered'
  <2> SUFFICES ASSUME Journal!Remembered, [Journal!Next]_(Journal!vars)
               PROVE  Journal!Remembered'
    OBVIOUS
  <2> USE DEF Journal!Remembered
  <2>1. CASE Journal!Begin
    BY <2>1 DEF Journal!Begin
  <2>2. CASE Journal!Change
    BY <2>2 DEF Journal!Change
  <2>3. CASE Journal!Renew
    BY <2>3 DEF Journal!Renew
  <2>4. CASE Journal!Store
    BY <2>4 DEF Journal!Store
  <2>5. CASE Journal!GiveUp
    BY <2>5 DEF Journal!GiveUp
  <2>6. CASE UNCHANGED Journal!vars
    BY <2>6 DEF Journal!vars
  <2> QED
    BY <2>1, <2>2, <2>3, <2>4, <2>5, <2>6 DEF Journal!Next
<1> QED
  BY <1>1, <1>2, StatusIsJournal, PTL DEF KeepsJournal, Journal!Spec
=============================================================================
