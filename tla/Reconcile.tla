------------------------------ MODULE Reconcile ------------------------------
(***************************************************************************)
(* The reconcile pipeline of one MiddlewareCluster (kernel/): a cached     *)
(* copy of the custom resource is planned line by line into a list of      *)
(* commands, the commands are executed one by one, and the status is       *)
(* written once, at the end.                                               *)
(*                                                                         *)
(* Around it run the user (who edits, scales, labels, pauses and deletes   *)
(* the custom resource), the informers (whose copies lag), the StatefulSet *)
(* controller (which boots pods), the garbage collector, and crashes of    *)
(* the operator.                                                           *)
(*                                                                         *)
(* The content of an object is a version number: every edit makes a new    *)
(* one, 0 stands for "no object" and, in the desired state, for "a line    *)
(* for which the handler's Make returns no Desired".                       *)
(***************************************************************************)
EXTENDS ActionLine

CONSTANTS Component,  \* categories of CategoryClusterComponents
          Line,       \* the chain Compile builds: a sequence of resources
          Unstable,   \* kinds whose fingerprint differs on every read
          MaxEdits,   \* bound: user actions
          MaxFaults,  \* bound: failed requests and crashes
          MaxStale    \* bound: reads of the object cache that return the past

Resource == Range(Line)
Kind == {"Service", "ConfigMap", "StatefulSet", "PersistentVolumeClaim",
         "HorizontalPodAutoscaler", "PodDisruptionBudget", "Secret",
         "Ingress", "CronJob", "Job"}

Workload(c) == [kind |-> "StatefulSet", of |-> c]
Claim(c) == [kind |-> "PersistentVolumeClaim", of |-> c]

\* Every component has a StatefulSet line and, because Make dereferences
\* PersistentVolumeClaim unconditionally, a claim line.
ASSUME LineAssumption ==
  /\ Line \in Seq([kind : Kind, of : Component])
  /\ \A c \in Component : Workload(c) \in Resource /\ Claim(c) \in Resource
ASSUME UnstableAssumption == Unstable \subseteq {"Secret", "Service", "StatefulSet"}
ASSUME BoundAssumption ==
  MaxEdits \in Nat /\ MaxFaults \in Nat /\ MaxStale \in Nat

VARIABLES
  crd,        \* the custom resource in the API server
  cache,      \* the informer's copy of it
  cacheFresh, \* the informer has delivered the last write of it
  objs,       \* version of each object in the API server
  seen,       \* version of each object in the operator's object cache
  booted,     \* version of each pod input the oldest pod booted with, 0: no pod
  queued,     \* the work queue holds the cluster's key
  timer,      \* a RequeueAfter is pending
  pc,         \* "idle", "plan", "exec" or "retry"
  idx,        \* the line of the plan being looked at
  my,         \* the copy of the custom resource this reconcile works on
  myFresh,    \* its resourceVersion is still the current one
  cmds,       \* the commands not executed yet
  owner,      \* restartMap: the line whose Restart stands for the component
  skip,       \* skipRestartMap
  failed,     \* a command failed
  calm,       \* nothing but FailOver and Recycle was planned
  edits, faults, stale,  \* what is used up of the bounds
  lost        \* history: pod inputs whose pending Restart was never recorded

local == <<pc, idx, my, myFresh, cmds, owner, skip, failed, calm>>
vars == <<crd, cache, cacheFresh, objs, seen, booted, queued, timer, local,
          edits, faults, stale, lost>>
-----------------------------------------------------------------------------
(* Data.                                                                   *)

RestartState == {"None", "WaitRestart", "Failed", "Success"}
Life == {"active", "paused", "terminating", "gone"}
Action == {"Create", "Update", "Delete", "ReCreate", "FailOver", "Recycle",
           "Restart"}
Command == [act : Action, res : Resource, ver : Nat, base : Nat]

Crd == [life : Life, spec : [Resource -> Nat], control : SUBSET Resource,
        status : [Resource -> RestartState], calm : BOOLEAN]
Copy == [spec : [Resource -> Nat], control : SUBSET Resource,
         status : [Resource -> RestartState]]

NoCopy == [spec |-> [r \in Resource |-> 0], control |-> {},
           status |-> [r \in Resource |-> "None"]]

\* What pods read when they boot: their configuration and their template.
Input(c) == {r \in Resource : r.of = c /\ r.kind \in {"ConfigMap", "StatefulSet"}}
PodInput == UNION {Input(c) : c \in Component}

Pending(state) == state \in {"WaitRestart", "Failed"}

\* Pods run with something else than what the API server holds now.
Outdated(r) == booted[r] # 0 /\ booted[r] # objs[r]

PodsUp(c) == \E r \in Input(c) : booted[r] # 0
Bootable(c) == \A r \in Input(c) : objs[r] # 0

BootedNow(c) == [r \in PodInput |-> IF r.of = c THEN objs[r] ELSE booted[r]]
NoPods(c) == [r \in PodInput |-> IF r.of = c THEN 0 ELSE booted[r]]

\* Pod inputs whose pods are outdated while the status does not say so.
Forgotten(status) == {r \in PodInput : Outdated(r) /\ ~Pending(status[r])}
-----------------------------------------------------------------------------
(* Fingerprints and the choice of an action.                               *)

Want(r) == my.spec[r]
Doomed(r) == r \in my.control  \* carries the label ControlLabel = "Delete"

\* The comparison of StateFingerStage, o being the observed version.
Changed(r, o) ==
  \/ (o = 0) # (Want(r) = 0)
  \/ /\ o # 0 /\ Want(r) # 0
     /\ o # Want(r) \/ Doomed(r) \/ r.kind \in Unstable

\* Fingerprinting an Ingress that exists fails its type assertion, and so
\* does visiting a claim without a desired object: the reconcile panics.
Panics(r, o, t) ==
  \/ r.kind = "PersistentVolumeClaim" /\ Want(r) = 0
  \/ r.kind = "Ingress" /\ (o # 0 \/ (t # 0 /\ Want(r) # 0))

\* A mutant of BaseAction: the control label is not looked at.
BaseActionIgnoresControl(r, o) ==
  IF o # 0 /\ Want(r) = 0 THEN "Delete"
  ELSE IF o = 0 THEN "Create" ELSE "Update"

\* CategoryComponentHandler.PreApply.
BaseAction(r, o) ==
  IF (o # 0 /\ Want(r) = 0) \/ (Want(r) # 0 /\ Doomed(r)) THEN "Delete"
  ELSE IF o = 0 THEN "Create" ELSE "Update"

\* PreApply of the kinds.  RecreateCheck compares the claim templates of the
\* observed set with nothing, so every Update of a set becomes a ReCreate.
PreApply(r, o) ==
  CASE r.kind = "PersistentVolumeClaim" -> "none"
    [] r.kind = "StatefulSet" /\ BaseAction(r, o) = "Update" -> "ReCreate"
    [] OTHER -> BaseAction(r, o)

\* A mutant of PreApplyRestarts: a changed template restarts nothing.
ConfigMapRestarts(r, o) ==
  r.kind = "ConfigMap" /\ BaseAction(r, o) = "Update"

\* An Update of a pod input asks for a restart of the component's pods.  For a
\* set the code does so if the fingerprint of its pods differs, or its claims
\* grow: the version of a set stands for these.
PreApplyRestarts(r, o) ==
  r.kind \in {"ConfigMap", "StatefulSet"} /\ BaseAction(r, o) = "Update"

\* Visitation of the kinds.
Visitation(r, o) ==
  CASE r.kind = "PersistentVolumeClaim" -> "Recycle"
    [] r.kind = "StatefulSet" /\ o # 0 /\ Want(r) # 0 -> "FailOver"
    [] OTHER -> "none"

\* A mutant of VisitationRestarts: a failed Restart is not asked for again.
WaitingRestarts(r) == Want(r) # 0 /\ my.status[r] = "WaitRestart"

\* A Restart which the status does not show as done is asked for again.
VisitationRestarts(r) == Want(r) # 0 /\ Pending(my.status[r])
-----------------------------------------------------------------------------
Fault == faults < MaxFaults /\ faults' = faults + 1

\* Reading r from the cache returns v, the past or the present.
Read(r, v) == /\ v \in {seen[r], objs[r]}
              /\ v = objs[r] \/ stale < MaxStale
              /\ stale' = IF v = objs[r] THEN stale ELSE stale + 1

GoIdle == /\ pc' = "idle"
          /\ idx' = 1
          /\ my' = NoCopy
          /\ myFresh' = FALSE
          /\ cmds' = <<>>
          /\ owner' = [c \in Component |-> {}]
          /\ skip' = {}
          /\ failed' = FALSE
          /\ calm' = TRUE

\* Any write of the custom resource: copies of it are outdated from now on.
Write(new) == /\ crd' = new
              /\ cacheFresh' = FALSE

Init ==
  LET new == [life |-> "active", spec |-> [r \in Resource |-> 1],
              control |-> {}, status |-> [r \in Resource |-> "None"],
              calm |-> FALSE]
  IN  /\ crd = new /\ cache = new /\ cacheFresh = TRUE
      /\ objs = [r \in Resource |-> 0] /\ seen = [r \in Resource |-> 0]
      /\ booted = [r \in PodInput |-> 0]
      /\ queued = TRUE /\ timer = FALSE
      /\ pc = "idle" /\ idx = 1 /\ my = NoCopy /\ myFresh = FALSE
      /\ cmds = <<>> /\ owner = [c \in Component |-> {}] /\ skip = {}
      /\ failed = FALSE /\ calm = TRUE
      /\ edits = 0 /\ faults = 0 /\ stale = 0 /\ lost = {}
-----------------------------------------------------------------------------
(* The user.                                                               *)

Edit(new) == /\ edits < MaxEdits /\ edits' = edits + 1
             /\ \/ crd.life \in {"active", "paused"}
                \/ crd.life = "terminating" /\ new.life = "gone"
             /\ Write(new)
             /\ myFresh' = FALSE
             /\ UNCHANGED <<cache, objs, seen, booted, queued, timer, pc, idx,
                            my, cmds, owner, skip, failed, calm, faults,
                            stale, lost>>

NewVersion == edits + 2

\* A new content, or the first one again.
EditResource(r) ==
  /\ crd.spec[r] # 0 /\ r.kind # "PersistentVolumeClaim"
  /\ \E v \in {1, NewVersion} \ {crd.spec[r]} :
       Edit([crd EXCEPT !.spec[r] = v])

\* maxUnavailable, maxReplicas and auth are optional.
Toggle(r) ==
  /\ r.kind \in {"PodDisruptionBudget", "HorizontalPodAutoscaler", "Secret"}
  /\ Edit([crd EXCEPT !.spec[r] = IF @ = 0 THEN NewVersion ELSE 0])

\* Replicas 0, and back: the handlers of these kinds return no Desired then.
Scale(c) ==
  LET scaled(r) == r.of = c /\ r.kind \in {"ConfigMap", "StatefulSet",
                                           "PersistentVolumeClaim"}
      version(r) == IF crd.spec[r] # 0 THEN 0
                    ELSE IF r.kind = "PersistentVolumeClaim" THEN 1
                    ELSE NewVersion
  IN  Edit([crd EXCEPT !.spec = [r \in Resource |->
              IF scaled(r) THEN version(r) ELSE crd.spec[r]]])

\* ControlLabel = "Delete" on a service or on a component.  Labels are part of
\* the fingerprint of both.
Control(r) ==
  /\ r.kind \in {"Service", "StatefulSet"} /\ crd.spec[r] # 0
  /\ Edit([crd EXCEPT !.spec[r] = NewVersion,
                      !.control = IF r \in @ THEN @ \ {r} ELSE @ \union {r}])

Pause == crd.life = "active" /\ Edit([crd EXCEPT !.life = "paused"])
Resume == crd.life = "paused" /\ Edit([crd EXCEPT !.life = "active"])
Terminate == /\ crd.life \in {"active", "paused"}
             /\ Edit([crd EXCEPT !.life = "terminating"])
Erase == Edit([crd EXCEPT !.life = "gone"])
-----------------------------------------------------------------------------
(* The cluster around the operator.                                        *)

\* The informer delivers the last write and the event enqueues the key.
Sync == /\ ~cacheFresh
        /\ cache' = crd /\ cacheFresh' = TRUE /\ queued' = TRUE
        /\ UNCHANGED <<crd, objs, seen, booted, timer, local, edits, faults,
                       stale, lost>>

TimerFires == /\ timer
              /\ timer' = FALSE /\ queued' = TRUE
              /\ UNCHANGED <<crd, cache, cacheFresh, objs, seen, booted, local,
                             edits, faults, stale, lost>>

\* The StatefulSet controller: claims and pods of a component appear when the
\* set and everything its pods mount exist.
Boot(c) == /\ Bootable(c) /\ ~PodsUp(c)
           /\ booted' = BootedNow(c)
           /\ objs' = [objs EXCEPT ![Claim(c)] = 1]
           /\ lost' = lost \ Input(c)
           /\ UNCHANGED <<crd, cache, cacheFresh, seen, queued, timer, local,
                          edits, faults, stale>>

\* Everything is owned by the custom resource.
Collect == /\ crd.life = "gone"
           /\ \E r \in Resource : objs[r] # 0
           /\ objs' = [r \in Resource |-> 0]
           /\ booted' = [r \in PodInput |-> 0]
           /\ UNCHANGED <<crd, cache, cacheFresh, seen, queued, timer, local,
                          edits, faults, stale, lost>>

\* The operator dies and starts again with fresh copies of everything; what
\* the reconcile knew is gone.
Crash == /\ pc # "idle" /\ Fault
         /\ GoIdle
         /\ cache' = crd /\ cacheFresh' = TRUE /\ seen' = objs
         /\ queued' = (crd.life # "gone") /\ timer' = FALSE
         /\ lost' = lost \union Forgotten(crd.status)
         /\ UNCHANGED <<crd, objs, booted, edits, stale>>
-----------------------------------------------------------------------------
(* Planning.                                                               *)

\* What bootstrap lets pass, and a mutant: deleted custom resources as well.
NotPaused(copy) == copy.life # "paused"
Reconcilable(copy) == copy.life = "active"

\* Reconcile reads the custom resource from the cache; it does nothing for one
\* that is not found or is being deleted, and looks again later for a paused
\* one.
Start ==
  /\ pc = "idle" /\ queued
  /\ queued' = FALSE
  /\ timer' = (timer \/ cache.life = "paused")
  /\ IF Reconcilable(cache)
     THEN /\ pc' = "plan"
          /\ my' = [spec |-> cache.spec, control |-> cache.control,
                    status |-> cache.status]
          /\ myFresh' = cacheFresh
     ELSE UNCHANGED <<pc, my, myFresh>>
  /\ UNCHANGED <<crd, cache, cacheFresh, objs, seen, booted, idx, cmds, owner,
                 skip, failed, calm, edits, faults, stale, lost>>

\* An action goes to the list.
AskAction(r, act, base) ==
  /\ cmds' = IF act = "none" THEN cmds
             ELSE MoveIfAbsent(cmds, [act |-> act, res |-> r, ver |-> Want(r),
                                      base |-> base])
  /\ skip' = IF r.kind = "StatefulSet" /\ act \in {"Create", "Delete"}
             THEN skip \union {r.of} ELSE skip

\* A mutant of AskRestart: only the line that fills the entry of the restart
\* map has its state recorded.
AskRestartOnce(r) ==
  /\ my' = IF owner[r.of] = {} THEN [my EXCEPT !.status[r] = "WaitRestart"]
           ELSE my
  /\ owner' = [owner EXCEPT ![r.of] = {r}]

\* A Restart goes to the restart map, where a component has one entry.
AskRestart(r) ==
  /\ my' = [my EXCEPT !.status[r] = "WaitRestart"]
  /\ owner' = [owner EXCEPT ![r.of] = {r}]

\* The loop's next node, and a mutant: it steps over one.
LineAfterNext == idx + 2
NextLine == idx + 1

\* What line r asks for, and the end of the loop body.
Ask(r, act, restart, base) ==
  /\ AskAction(r, act, base)
  /\ IF restart THEN AskRestart(r) ELSE UNCHANGED <<my, owner>>
  /\ calm' = (calm /\ act \in {"none", "FailOver", "Recycle"} /\ ~restart)
  /\ idx' = NextLine

\* One line of the plan.  MergeStage reads the object twice: o is compared
\* with the desired state, and t is what the desired state is merged into.
PlanLine ==
  /\ pc = "plan" /\ idx <= Len(Line)
  /\ LET r == Line[idx] IN
     \E o \in {seen[r], objs[r]}, t \in {seen[r], objs[r]} :
       /\ o = objs[r] => t = objs[r]
       /\ Read(r, o)
       /\ ~Panics(r, o, t)
       /\ seen' = [seen EXCEPT ![r] = t]
       /\ IF Changed(r, o)
          THEN Ask(r, PreApply(r, o), PreApplyRestarts(r, o),
                   IF o = 0 THEN t ELSE o)
          ELSE Ask(r, Visitation(r, o), VisitationRestarts(r), o)
  /\ UNCHANGED <<crd, cache, cacheFresh, objs, booted, queued, timer, pc,
                 myFresh, failed, edits, faults, lost>>

\* The deferred recover of Reconcile: what was planned is dropped and the
\* result is empty, so nothing asks for another reconcile.
PlanPanics ==
  /\ pc = "plan" /\ idx <= Len(Line)
  /\ LET r == Line[idx] IN
     \E o \in {seen[r], objs[r]}, t \in {seen[r], objs[r]} :
       /\ o = objs[r] => t = objs[r]
       /\ Read(r, o)
       /\ Panics(r, o, t)
       /\ seen' = [seen EXCEPT ![r] = t]
  /\ GoIdle
  /\ UNCHANGED <<crd, cache, cacheFresh, objs, booted, queued, timer, edits,
                 faults, lost>>

\* skipRestartMap, and a mutant: it is not looked at.
NotSkipped(c) == FALSE
Skipped(c) == c \in skip

\* The entries of the restart map follow the other commands, in any order;
\* those of a component whose set is created or deleted are left out.
QueueRestart(c) ==
  /\ pc = "plan" /\ idx > Len(Line)
  /\ \E r \in owner[c] :
       cmds' = IF Skipped(c) THEN cmds
               ELSE Append(cmds, [act |-> "Restart", res |-> r,
                                  ver |-> Want(r), base |-> 0])
  /\ owner' = [owner EXCEPT ![c] = {}]
  /\ UNCHANGED <<crd, cache, cacheFresh, objs, seen, booted, queued, timer, pc,
                 idx, my, myFresh, skip, failed, calm, edits, faults, stale,
                 lost>>

Planned == /\ pc = "plan" /\ idx > Len(Line)
           /\ \A c \in Component : owner[c] = {}

NothingToDo ==
  /\ Planned
  /\ GoIdle
  /\ UNCHANGED <<crd, cache, cacheFresh, objs, seen, booted, queued, timer,
                 edits, faults, stale, lost>>

BeginExec ==
  /\ Planned
  /\ pc' = "exec"
  /\ UNCHANGED <<crd, cache, cacheFresh, objs, seen, booted, queued, timer,
                 idx, my, myFresh, cmds, owner, skip, failed, calm, edits,
                 faults, stale, lost>>

\* Without a command the reconcile would end here, with no status written; the
\* lines of a set and of its claims always leave one.
EndPlan == IF cmds = <<>> THEN NothingToDo ELSE BeginExec
-----------------------------------------------------------------------------
(* Executing.  Each action executes the head of the list; the first failure *)
(* ends the execution.                                                      *)

Executes(act) == pc = "exec" /\ cmds # <<>> /\ Head(cmds).act = act
Res == Head(cmds).res
Base == Head(cmds).base
Version == Head(cmds).ver

\* A mutant of Finish: the loop goes on after a failure.
FinishAndGoOn(ok) ==
  /\ cmds' = Tail(cmds)
  /\ failed' = (failed \/ ~ok)
  /\ my' = IF Head(cmds).act = "Restart"
           THEN [my EXCEPT !.status[Res] = IF ok THEN "Success" ELSE "Failed"]
           ELSE my
  /\ UNCHANGED <<crd, cache, cacheFresh, queued, timer, pc, idx, myFresh,
                 owner, skip, calm, edits>>

\* The state of the command's resource and the rest of the loop.  Validate and
\* Callback cannot stop it: their errors are dropped.
Finish(ok) ==
  /\ cmds' = IF ok THEN Tail(cmds) ELSE <<>>
  /\ failed' = ~ok
  /\ my' = IF Head(cmds).act = "Restart"
           THEN [my EXCEPT !.status[Res] = IF ok THEN "Success" ELSE "Failed"]
           ELSE my
  /\ UNCHANGED <<crd, cache, cacheFresh, queued, timer, pc, idx, myFresh,
                 owner, skip, calm, edits>>

Put(v) == [objs EXCEPT ![Res] = v]

\* AlreadyExists counts as created.  A desired object that was merged into an
\* existing one carries its resourceVersion and is refused.
ExecCreate ==
  /\ Executes("Create")
  /\ LET created == IF objs[Res] = 0 /\ Base = 0 THEN Put(Version) ELSE objs IN
     \/ objs' = created /\ Finish(Base = 0) /\ UNCHANGED faults
     \/ objs' \in {objs, created} /\ Finish(FALSE) /\ Fault
  /\ UNCHANGED <<seen, booted, stale, lost>>

\* The update carries the resourceVersion that was observed.
ExecUpdate ==
  /\ Executes("Update")
  /\ LET valid == objs[Res] # 0 /\ objs[Res] = Base
         updated == IF valid THEN Put(Version) ELSE objs IN
     \/ objs' = updated /\ Finish(valid) /\ UNCHANGED faults
     \/ objs' \in {objs, updated} /\ Finish(FALSE) /\ Fault
  /\ UNCHANGED <<seen, booted, stale, lost>>

\* DeleteAllOf by the labels of the observed object.  Without one, the labels
\* of the desired object match nothing, as they hold the control label.
\* Deleting a set takes its pods along.
ExecDelete ==
  /\ Executes("Delete")
  /\ \E done \in BOOLEAN :
       /\ objs' = IF done /\ Base # 0 THEN Put(0) ELSE objs
       /\ booted' = IF done /\ Base # 0 /\ Res.kind = "StatefulSet"
                    THEN NoPods(Res.of) ELSE booted
       /\ \/ done /\ Finish(TRUE) /\ UNCHANGED faults
          \/ Finish(FALSE) /\ Fault
  /\ UNCHANGED <<seen, stale, lost>>

\* Delete the set that was observed, leaving its pods, then create the new
\* one and wait until the cache shows it.
ExecReCreate ==
  /\ Executes("ReCreate")
  /\ LET valid == objs[Res] \in {0, Base} IN
     \/ /\ objs' = IF valid THEN Put(Version) ELSE objs
        /\ seen' = IF valid THEN [seen EXCEPT ![Res] = Version] ELSE seen
        /\ Finish(valid) /\ UNCHANGED faults
     \/ /\ objs' \in IF valid THEN {objs, Put(0), Put(Version)} ELSE {objs}
        /\ Finish(FALSE) /\ Fault
        /\ UNCHANGED seen
  /\ UNCHANGED <<booted, stale, lost>>

\* Pods do not crash in this module: there is nothing to fail over.
ExecFailOver ==
  /\ Executes("FailOver")
  /\ \/ Finish(TRUE) /\ UNCHANGED faults
     \/ Finish(FALSE) /\ Fault
  /\ UNCHANGED <<objs, seen, booted, stale, lost>>

\* The command does nothing, its callback deletes claims: those beyond the
\* replicas of the cached set, all of them if the cache shows no set.
ExecRecycle ==
  /\ Executes("Recycle")
  /\ LET set == Workload(Res.of) IN
     \E v \in {seen[set], objs[set]} :
       /\ Read(set, v)
       /\ seen' = [seen EXCEPT ![set] = v]
       /\ objs' = IF v = 0 THEN Put(0) ELSE objs
  /\ Finish(TRUE)
  /\ UNCHANGED <<booted, faults, lost>>

\* Deletes the pods one by one and waits for each to come back, with its claim
\* and what the API server holds by then.  Nothing is done for pods that are
\* not there, a pod that is the only one is not waited for (PodRestart), and
\* pods that cannot come back run into the timeout.
ExecRestart ==
  /\ Executes("Restart")
  /\ LET c == Res.of IN
     \/ /\ ~PodsUp(c)
        /\ Finish(TRUE)
        /\ UNCHANGED <<objs, booted, faults, lost>>
     \/ /\ PodsUp(c) /\ Bootable(c)
        /\ booted' = BootedNow(c)
        /\ objs' = [objs EXCEPT ![Claim(c)] = 1]
        /\ Finish(TRUE)
        /\ lost' = lost \ Input(c)
        /\ UNCHANGED faults
     \/ /\ PodsUp(c)
        /\ booted' = NoPods(c)
        /\ Finish(TRUE)
        /\ UNCHANGED <<objs, faults, lost>>
     \/ /\ PodsUp(c) /\ ~Bootable(c)
        /\ booted' \in {booted, NoPods(c)}
        /\ Finish(FALSE)
        /\ UNCHANGED <<objs, faults, lost>>
     \/ /\ \/ UNCHANGED booted
           \/ PodsUp(c) /\ Bootable(c) /\ booted' = BootedNow(c)
        /\ Finish(FALSE) /\ Fault
        /\ UNCHANGED <<objs, lost>>
  /\ UNCHANGED <<seen, stale>>
-----------------------------------------------------------------------------
(* ReduceStage: the only write of the custom resource.                     *)

Executed == pc = "exec" /\ cmds = <<>>

\* The timestamps of a status have a resolution of a second: after a round of
\* FailOver and Recycle, another one within the second writes the same status,
\* which the API server answers without a new resourceVersion.
SameStatus == calm /\ crd.calm /\ my.status = crd.status

\* The result of the reconcile: an error makes the controller enqueue the key
\* again.
Requeue(error) == queued' = (queued \/ error)

Reduced == Requeue(failed) /\ GoIdle

ReduceWrites ==
  /\ Executed /\ crd.life # "gone" /\ myFresh
  /\ Write([crd EXCEPT !.status = my.status, !.calm = calm])
  /\ Reduced
  /\ UNCHANGED <<cache, objs, seen, booted, timer, edits, faults, stale, lost>>

ReduceWritesNothing ==
  /\ Executed /\ crd.life # "gone" /\ myFresh /\ SameStatus
  /\ Reduced
  /\ UNCHANGED <<crd, cache, cacheFresh, objs, seen, booted, timer, edits,
                 faults, stale, lost>>

ReduceConflicts ==
  /\ Executed /\ crd.life # "gone" /\ ~myFresh
  /\ pc' = "retry"
  /\ UNCHANGED <<crd, cache, cacheFresh, objs, seen, booted, queued, timer,
                 idx, my, myFresh, cmds, owner, skip, failed, calm, edits,
                 faults, stale, lost>>

\* NotFound, or any other error: the key is enqueued again.
ReduceFails ==
  /\ Executed
  /\ \/ crd.life = "gone" /\ UNCHANGED faults
     \/ crd.life # "gone" /\ Fault
  /\ Requeue(TRUE)
  /\ GoIdle
  /\ lost' = lost \union Forgotten(crd.status)
  /\ UNCHANGED <<crd, cache, cacheFresh, objs, seen, booted, timer, edits, stale>>

\* A mutant of Retry, which the comment in the source would allow: the status is
\* written over the one that is there by then.
RetryOverwrites ==
  /\ pc = "retry" /\ crd.life # "gone"
  /\ Write([crd EXCEPT !.status = my.status, !.calm = calm])
  /\ Reduced
  /\ UNCHANGED <<cache, objs, seen, booted, timer, edits, faults, stale, lost>>

\* After a conflict the custom resource is read again, into the object whose
\* status was about to be written: the status written next is the one read.
Retry ==
  /\ pc = "retry"
  /\ Requeue(failed \/ ~cacheFresh \/ cache.life = "gone")
  /\ GoIdle
  /\ lost' = lost \union Forgotten(crd.status)
  /\ UNCHANGED <<crd, cache, cacheFresh, objs, seen, booted, timer, edits,
                 faults, stale>>
-----------------------------------------------------------------------------
User == \/ \E r \in Resource : EditResource(r) \/ Toggle(r) \/ Control(r)
        \/ \E c \in Component : Scale(c)
        \/ Pause \/ Resume \/ Terminate \/ Erase

Plan == PlanLine \/ PlanPanics \/ (\E c \in Component : QueueRestart(c))
        \/ EndPlan

Exec == \/ ExecCreate \/ ExecUpdate \/ ExecDelete \/ ExecReCreate
        \/ ExecFailOver \/ ExecRecycle \/ ExecRestart

Reduce == \/ ReduceWrites \/ ReduceWritesNothing \/ ReduceConflicts
          \/ ReduceFails \/ Retry

Operator == Start \/ Plan \/ Exec \/ Reduce

Next == User \/ Sync \/ TimerFires \/ (\E c \in Component : Boot(c))
        \/ Collect \/ Crash \/ Operator

Spec == Init /\ [][Next]_vars

\* The controller runs its worker, informers deliver what was written, timers
\* fire, and the controllers of the cluster do their work.
FairSpec ==
  /\ Spec
  /\ WF_vars(Operator) /\ WF_vars(Sync) /\ WF_vars(TimerFires)
  /\ \A c \in Component : WF_vars(Boot(c))
  /\ WF_vars(Collect)
-----------------------------------------------------------------------------
TypeOK ==
  /\ crd \in Crd /\ cache \in Crd /\ cacheFresh \in BOOLEAN
  /\ objs \in [Resource -> Nat] /\ seen \in [Resource -> Nat]
  /\ booted \in [PodInput -> Nat]
  /\ queued \in BOOLEAN /\ timer \in BOOLEAN
  /\ pc \in {"idle", "plan", "exec", "retry"}
  /\ idx \in 1..(Len(Line) + 1)
  /\ my \in Copy /\ myFresh \in BOOLEAN
  /\ cmds \in Seq(Command)
  /\ owner \in [Component -> SUBSET Resource] /\ skip \in SUBSET Component
  /\ failed \in BOOLEAN /\ calm \in BOOLEAN
  /\ edits \in 0..MaxEdits /\ faults \in 0..MaxFaults /\ stale \in 0..MaxStale
  /\ lost \in SUBSET PodInput

\* Pods that run with an outdated configuration or template are never
\* forgotten: until they are restarted, a Restart is pending in the status, or
\* in the copy a running reconcile is about to write.  Excepted are those whose
\* Restart was lost with the write of the status (see lost).
RestartNotForgotten ==
  crd.life # "gone" =>
    \A r \in PodInput \ lost :
      Outdated(r) => \/ Pending(crd.status[r])
                     \/ pc \in {"exec", "retry"} /\ Pending(my.status[r])

\* A reconcile that creates or deletes the set of a component does not restart
\* the component's pods as well, whatever it found pending (skipRestartMap).
RestartSkipsNewborn ==
  pc = "exec" =>
    \A i, j \in 1..Len(cmds) :
      cmds[i].act = "Restart" /\ cmds[j].act \in {"Create", "Delete"}
        => cmds[j].res # Workload(cmds[i].res.of)

On == \A r \in Resource : r.kind = "PersistentVolumeClaim" => crd.spec[r] # 0

\* What the custom resource asks for.  The pods of a component labelled Delete
\* are not part of it: those a ReCreate orphaned before are left behind.
Applied ==
  /\ \A r \in Resource : r.kind # "PersistentVolumeClaim" =>
       objs[r] = IF r \in crd.control THEN 0 ELSE crd.spec[r]
  /\ \A r \in PodInput \ lost : Workload(r.of) \in crd.control \/ ~Outdated(r)

Asleep == pc = "idle" /\ ~queued /\ ~timer /\ cacheFresh

\* As long as no read has returned the past, the operator only falls asleep, with
\* no event, timer or requeue left, when everything the user asked for is
\* applied: the loop is driven by the operator's own status writes and nothing
\* else would wake it up.
SleepsWhenApplied ==
  stale = 0 /\ Asleep /\ crd.life = "active" /\ On => Applied

\* The component of r is restarted and that is recorded as done, and no read has
\* returned the past.
Restarted(r) == /\ stale' = 0 /\ Executes("Restart") /\ Res.of = r.of
                /\ my'.status[Res] = "Success"

\* A Restart that is recorded as done leaves the pods with the content this
\* reconcile was to apply: it follows the commands it depends on, and is not
\* reached when one of them fails.
ConfigBeforeRestart ==
  [][\A r \in PodInput : Restarted(r) => booted'[r] \in {0, my.spec[r]}]_vars

\* The ConfigMaps share one category: the Update of one displaces that of another
\* whose line comes before.
Displaceable(r) ==
  r.kind = "ConfigMap" /\ \E j, k \in 1..Len(Line) :
    j < k /\ Line[j] = r /\ Line[k].kind = "ConfigMap" /\ Line[k] # r

\* With several components, the commands of one do not displace what the Restart
\* of another waits for: a Restart that is recorded as done leaves its pods with
\* the set and with the last ConfigMap that this reconcile was to apply.
TemplateBeforeRestart ==
  [][\A r \in PodInput :
       Restarted(r) => booted'[r] \in {0, my.spec[r]} \/ Displaceable(r)]_vars

\* Once the user and the faults stop, everything the user asked for gets
\* applied and every restart that was not lost gets done, whatever was
\* interrupted, failed or conflicted on the way, if no read returned the past.
Converges == <>[](stale = 0 /\ crd.life = "active" /\ On => Applied)

\* Once the custom resource is gone the operator stops working on it, and what
\* a reconcile still running created is collected.
GoneIsFinal ==
  crd.life = "gone" ~>
    [](pc = "idle" /\ ~queued /\ \A r \in Resource : objs[r] = 0)

\* What the loop promises about restarts, see RestartJournal: it implements it,
\* whatever fails, conflicts, crashes or is stale, and up to the end of the
\* custom resource.
PendingIn(status) == {r \in PodInput : Pending(status[r])}
Journal == INSTANCE RestartJournal WITH
  Inputs <- PodInput, due <- {r \in PodInput : Outdated(r)},
  noted <- PendingIn(crd.status), busy <- pc \in {"exec", "retry"},
  draft <- IF pc \in {"exec", "retry"} THEN PendingIn(my.status) ELSE {}
KeepsJournal == Journal!Spec
-----------------------------------------------------------------------------
(* What a comment of the source says and the code does not do: it is       *)
(* violated, see the README.                                               *)

\* reduce_stage.go:15, "update reversion and update again": the second
\* update, made with the current resourceVersion, writes the same status.
ConflictKeepsStatus ==
  [][Retry /\ cacheFresh /\ crd.life # "gone" => crd'.status = my.status]_vars
=============================================================================
