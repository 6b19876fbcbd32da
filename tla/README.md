# A formal model of Kuberator

Kuberator is a Kubernetes operator in Go that keeps the middleware clusters a
user describes in `MiddlewareCluster` custom resources running: for every
component of a cluster it maintains a StatefulSet with its Services, ConfigMaps,
claims, autoscaler, disruption budget and secret, restarts pods whose
configuration changed, and repairs pods that failed.

The modules in this directory are TLA+ models of its core, with TLC
configurations that model-check them on small instances and TLAPS proofs of
what matters most. Paths below are relative to the repository; `worker.go` is
short for `kernel/component_reconcile_worker.go` and `client.go` for
`kernel/util/buildin_resource_client.go`.

Contents: 1 the system, 2 the modules, 3 the runs, 4 bounds and fairness,
5 the proofs, 6 where the code departs from what it says, 7 what is not
modelled, 8 plan.

## 1. The system

### Components

| Component | State it keeps | Operations | What makes it correct |
|---|---|---|---|
| Controller and bootstrap (`controllers/`, `kernel/bootstrap_reconcile.go`) | the work queue; the informer's copy of the custom resource | enqueue on an event of the custom resource, on an error and after a delay; `Reconcile`: get, return for deleted ones, put off paused ones, compile, compute, recover from panics | it falls asleep only when all is applied; a deleted cluster is left alone |
| Planning pipeline (`worker.go`, `make_stage`, `merge_stage`, `finger_stage`, `pre_apply_stage`, `visitation_stage`) | the copy of the custom resource one reconcile works on; the list of commands; `restartMap`, `skipRestartMap` | per line: `Make`, `Merge` (two reads), compare fingerprints, `PreApply` or `Visitation`, add commands; at the end append the restarts | every change leads to a command; a changed pod input to a restart; a new or deleted component is not restarted |
| Command list (`api/core/framework_api.go`) | a linked list | `MoveIfAbsent`, `Append`; the algebra of `CommandResult` | the newest command of every key survives, in the order asked for |
| Execution and status (`exec` in `worker.go`, `apply_stage`, `post_apply_stage`, `reduce_stage`, `api/v1beta1`) | the state of every action in the status | run commands until the first failure; write the status once; retry on a conflict | what failed or was interrupted is asked for again |
| Kubernetes client (`client.go`, `pod_util.go`) | none of its own; reads go through the object cache | `Create`, `Update`, `DeleteAllOf`, `ReCreate`, `Restart`, `FailOver` | one pod at a time; no pod keeps running on the old content; calls return |
| StatefulSet handler (`kernel/handler/category_statefulset_handler.go`) | — | `Make`, `PreApply` with `RecreateCheck`, stepwise scaling, `Validate` | sets are created again without losing pods or claims |
| ConfigMap handler (`category_config_map_handler.go`, `config_map_util.go`) | — | `Make`, which merges the properties of cluster and component; `PreApply`, which asks for a restart | pods see the files the user asked for, and can start at any time |
| Claim handler (`category_pvc_handler.go`, `pvc_util.go`) | — | `Visitation`: delete claims beyond the replicas; growing claims before a set is created again | no claim in use is deleted; claims grow before the set asks for it |
| Service, HPA, PDB, Secret, Ingress and job handlers | — | `Make`; the base handler's `PreApply` | optional objects come and go with the custom resource |
| Handler registry (`kernel/extend`, `kernel/common`) | a process-wide map from category to handler | register, look up | a category always gets its own handler |
| Extension life cycle, types, manager, manifests | — | interfaces, declarations, wiring | — |

### How they interact

One worker takes the key of a custom resource from the queue and runs one
reconcile at a time. It reads the custom resource from one informer cache and
all other objects from others, each of which lags behind the API server on its
own. It plans line by line, executes what it planned, and writes the status of
the custom resource; that write is the only thing that tells the next reconcile
which restarts are still due, and, because the controller watches nothing but
the custom resource (`controllers/middlewarecluster_controller.go:99-104`), its
event is also what wakes the operator up again to look whether it is done.

### What is hard

* **Partial failure.** Execution ends at the first failing command. A ConfigMap
  may be updated and its restart not be executed; a set may be deleted and not
  be created again.
* **One write at the end.** A crash or a failed write after the ConfigMap was
  updated loses the fact that a restart is due: the next reconcile sees no
  difference any more.
* **Conflicts.** The user may edit the custom resource while it is executed.
* **Stale reads.** Each object is read twice per line, and again by the
  callbacks of Recycle and of the growth of claims, from a cache that may show
  the past.
* **Self-driven progress.** With no watch on the objects and no periodic resync,
  the operator's own status writes, errors and the delay of paused resources are
  all that keeps the loop alive.
* **Pods one by one.** A restart takes minutes, reads pods through a lagging
  cache, and decides from what it read at its start.
* **Deleting data.** Failing over deletes claims, scaling down does, and both
  decide from copies of pods and sets that may be old.
* **Sets cannot be updated.** A set with claims is deleted without its pods and
  created again, in steps of one replica, while an autoscaler writes replicas.
* **Comparing.** Whether anything happens at all is decided by fingerprints of
  the observed object and of the observed object merged with the desired one.

The list of hazards, each with its line and the properties that cover it, is
kept in `PROJECT.json`.

## 2. The modules

| Module | What it models |
|---|---|
| `ActionLine` | the command list: keys, and `MoveIfAbsent` by its result |
| `ActionWalk` | the pointer walk of `MoveIfAbsent`, each round of its loop a step, and what it leaves in the list |
| `Reconcile` | the reconcile pipeline of one cluster, from the work queue to the status, with the user, the informers, the StatefulSet controller, the garbage collector and crashes around it |
| `RestartJournal` | what the reconcile loop promises about restarts: the status as a journal of those that are due; `Reconcile` implements it |
| `PodRestart` | `Restart` (`client.go:219-356`) pod by pod, seen through a lagging cache |
| `RollingRestart` | what a restart promises; `PodRestart` implements it |
| `FailOver` | `FailOver` and the fail-over half of `Restart` (`client.go:158-322`, `pod_util.go`), with the pods, their claims and the reconcile that calls it |
| `SetScale` | one set and its claims: stepwise scaling, growing claims, `ReCreate` and Recycle step by step, with an autoscaler |
| `Contents` | the configuration files and variables pods see: merge of the properties, ConfigMap, volume and mount, `MergeStage`, fingerprints |
| `MC...` | the constants of the instances TLC checks |
| `ActionLineProofs`, `ActionWalkProofs`, `ReconcileProofs`, `RestartProofs`, `PodRestartProofs`, `FailOverProofs`, `SetScaleProofs`, `ContentsProofs` | theorems |

`Reconcile` extends `ActionLine`, so that it plans with the short form of
`MoveIfAbsent`; `ActionWalk` shows that the short form is what the pointer walk
computes on every list its own calls can build. The other modules are the
detail of single steps of `Reconcile`, each with as much of the reconcile around
it as its properties need: `PodRestart` of `ExecRestart`; `FailOver` of
`ExecFailOver`; `SetScale` of `ExecReCreate` and `ExecRecycle`; `Contents` of
the version numbers `Reconcile` has for the contents of ConfigMap and set, and
of its test `Changed`. `FailOver` has a restart of all pods as one step,
`PodRestart` shows what that step is.

Next to some operators stands a variant called *a mutant*. It is a plausible
mistake in the code that operator models, and is used nowhere in a
specification: put in the operator's place it breaks a property, which shows
that the property depends on that code. `PROJECT.json` lists the pairs.

### Reconcile: state

| Variable | In the code |
|---|---|
| `crd`, `cache`, `cacheFresh` | the custom resource in the API server; the informer's copy; whether that is up to date |
| `objs`, `seen` | the objects in the API server; what the object cache shows of each. Content is a version number, 0 is "no object" |
| `booted` | the version of each pod input (ConfigMap, set) the oldest pod of the component booted with |
| `queued`, `timer` | the work queue; a `RequeueAfter` |
| `pc`, `idx` | where the reconcile is; the line `actionPipeline` looks at |
| `my`, `myFresh` | the copy of the custom resource it works on; whether its resourceVersion is still current |
| `cmds`, `owner`, `skip` | the list of commands; `restartMap`; `skipRestartMap` |
| `failed`, `calm` | a command failed; only FailOver and Recycle were planned |
| `lost` | history: pod inputs whose restart was due when the status write that said so failed, conflicted or was never reached |

What the user wants of a line is `my.spec[r]`: the version of the content, or 0
where the handler's `Make` returns no desired object (replicas 0, an optional
field that is not set). The label `ControlLabel = Delete` is `control`.

`RestartJournal` is `Reconcile` as the status sees it: `due` are the pod inputs
(ConfigMaps and sets) whose pods run with something else than what is stored,
`noted` those whose restart is pending in the stored status, `draft` those in the
copy that is to be written, `busy` an execution. An execution may make due only
what is in its draft (`Change`); what it takes from the draft is not due any more
(`Renew`); a status is stored only if all that is due is in it, or lost (`Store`);
and `lost` grows only by what an execution without its status leaves behind
(`GiveUp`). The mapping is `Journal` in `Reconcile`.

### Reconcile: actions

| Action | Code |
|---|---|
| `Start` | `bootstrap_reconcile.go:28-97` |
| `PlanLine` | one round of the loop in `actionPipeline` (`worker.go:108-180`), with both reads of `MergeStage`, `StateFingerStage`, and `PreApply` or `Visitation` of the kind |
| `PlanPanics` | a panic of that round and the deferred `recover` |
| `QueueRestart`, `EndPlan` | `worker.go:181-197` and `247-263` |
| `ExecCreate` ... `ExecRestart` | one round of `exec` (`worker.go:202-245`) with the client's call and the handler's callback; `Finish` is what follows the call |
| `ReduceWrites`, `ReduceWritesNothing`, `ReduceConflicts`, `ReduceFails`, `Retry` | `reduce_stage.go` |
| `EditResource`, `Toggle`, `Scale`, `Control`, `Pause`, `Resume`, `Terminate`, `Erase` | the user |
| `Sync`, `TimerFires`, `Boot`, `Collect`, `Crash` | the surroundings |

Decisions that a reader may want to check against the code:

* Every update of a set is a `ReCreate`, because `RecreateCheck` compares the
  claim templates of the observed set with those of a desired set that has none.
* A claim line without a desired object panics (`category_pvc_handler.go:135`).
  So does an Ingress that exists.
* The claims of a component are one object: `Make` gives all of them the shared
  metadata and the handler deletes them by the component's labels.
* `Validate` and the callback cannot stop a command: their errors are dropped.
* `DeleteAllOf` for an object that was not observed uses the labels of the
  desired one, which hold the control label and so match nothing.
* After a round of FailOver and Recycle only, the status may equal the stored
  one (its timestamps have a resolution of a second), and then the API server
  makes no new version: this is how the loop comes to rest.

### PodRestart and RollingRestart

A pod is the incarnation (`uid`) of its name and a phase; `cached` is the
operator's copy, which catches up pod by pod (`Deliver`). `CheckPod` is one read
of `CheckIfExists`, `Begin` the decision on what it found, `DeletePod`,
`PodBack`, `PodNotBack` and `WaitOn` the loop with its wait and its deadline,
`Call` the reconcile that asks for the restart, again if it failed. Around it pods
are created again, get ready, break and are evicted. A pod that was deleted runs
on for a while (`terminating`), and `IsPodReady`, which does not look at the
deletion timestamp, calls it ready. The sleep between two looks is a step without
effect.

Two history variables say what `OneAtATime` excepts, both of the call that runs
and of no earlier one. `hurt` has the pods that broke or were evicted since it
began. `misjudged` has the pods it takes for ready though they may not be: the
copy it read at its start was not right any more or of a terminating pod, or the
wait ended because no pod at all was found. A pod that an earlier call took down
is in neither, unless this call misjudged it.

`RollingRestart` knows only which pods are up, which are outdated and which are
excused. `PodRestart` implements it with `up` the ready pods, `outdated` the pods
that still run since the restart was asked for first, and `excused` the union of
`hurt` and `misjudged`: deleting a pod is `TakeDown`, and success is only
possible when nothing is outdated. An incarnation the cache did not show yet when
the restart was asked for first counts as restarted (`old`): it has booted since
the pods the operator knew of.

### FailOver

`pod` and `claim` are the pods and claims in the API server, `cached` and
`behind` the operator's copies of the pods (phase, and whether the copy is of an
earlier incarnation), `set`, `seen` and `seenFresh` whether the set and the
operator's copy of it carry `RECOVERY_MODE`. A call goes through `Look` (which
pods are crashed, are they a minority), `SetMode`, `Begin`, and for each pod
`DeletePod`, `ReadPod`, `DeleteClaim`, `DeleteAgain`, `PodBack` or `PodNotBack`;
then `ReadSet` and `UnsetMode`. `Delete` of the client ignores what is not found
(`client.go:64-66`), so that a claim that is missing and a pod that is missing at
the second deletion are no errors: the call goes on. `Spin` is the wait for the
first deletion, whose condition is evaluated once (`client.go:250`): it ends at
the deadline. The same loop for the claim (`client.go:281`) never runs, as it
tests the error of the deletion. The error of `Restart` is overwritten by the
`Get` and `Update` that follow (`client.go:204-211`), so that a failed fail-over
is recorded as a success. `Plan`, `ReCreate` and `RestartAll` are the next
reconcile, which finds a set that kept the mark different from the desired one.
`old` and `wiped` are history: pods still on the claim the call began with, and
claims this call deleted.

Taken as given: the user does not set `RECOVERY_MODE` himself, and changing the
template restarts no pod (the operator restarts pods, the sets are `OnDelete`).

### SetScale

`want` is the custom resource, `queued` its key in the work queue, `set` the set
in the API server and `seen` the copy the operator has of it, `claims` the size
of each ordinal's claim and `cached` what the cache shows of it, `lag` the claims
whose copy is old. `Plan` decides between `PlanCreate`, `PlanReCreate` and
`PlanCalm`; `ListClaims`, `Grow`, `GrowFails`, `Grown` are the callback that lists
the claims in the cache and updates them (`pvc_util.go:116-129`); `DeleteSet`,
`Conflict`, `CreateSet`, `LookSet` are `ReCreate` (`client.go:91-156`); `MakeSet`
is Create; `Recycle`, `Drop` and `DropFails` delete claims
(`category_pvc_handler.go:86-128`), in the order of their names. `Edit`,
`Autoscale`, `CreateClaim`, `Orphan`, `Deliver` and `DeliverClaim` are the
surroundings and `Fail` any failure, deadline or crash.

* The error of `Validate` is dropped twice (`worker.go:216` and the value
  receiver of `Error`): `Grow` and what follows do not depend on it
  (section 6).
* `RecreateCheck` writes the desired claim templates into the fingerprint of the
  observed set (`category_statefulset_handler.go:279`), so that every change of a
  set with claims is a `ReCreate`. What `ValidatePersistentVolumeClaim` refuses, a
  smaller claim or one beyond the limit (`Refused`), stays a plain Update, which
  the API server does not take: `Plan` does not occur, and each new attempt ends
  with the same error.
* The API server takes an Update of a claim only of its current copy
  (`Accepts`). The first error ends the callback and is dropped, so that claims
  after it, claims the cache did not list, and those the controller creates before
  the set is deleted stay as they are; nothing grows them later. `left` has them.
* Nothing but the custom resource is watched, and there is no periodic resync
  (`main.go:72-79`, `controllers/middlewarecluster_controller.go:88-104`). `Plan`
  takes what is queued: by an edit, by an error, by the operator's start, or by
  the status a reconcile writes when it differs from the one before. A reconcile
  that planned Recycle only may write the same status (`PlanCalm`). `unnoticed`
  says that the autoscaler wrote the set, or a ReCreate failed on the way, and
  that no plan has been made from a current copy since.
* After a `ReCreate` that failed between its Delete and its Create the next
  reconcile finds no set and creates it with all replicas at once, without
  growing claims. This is why `OneStep`, `GrownFirst` and `ClaimsOfMembersStay`
  are about runs without failures.

### Contents

`base`, `own`, `env` and `rest` are the properties of the cluster and of the
component, a variable, and whether the component's containers leave values to the
API server; `cm` and `set` the ConfigMap and the pod template in the API server;
`pod` what the pods have read when they started. `Plan` makes, merges and compares
both objects, then `WriteConfigMap`, `WriteSet` and `RestartPods` (or `NoRestart`)
follow in the order of the commands, and `WriteStatus` ends the reconcile; `Boot`
is a pod that starts in between. `CommandFails` drops what follows it.
`StatusConflict` is the write of a status whose custom resource was edited
meanwhile, which writes back what is there, and `Crash` a status write that fails
or an operator that dies: in both a Restart that is due is not recorded (`lost`),
unless the status asked for it before. `Admit` is what the API server adds to a
template: the mode of a volume, and what the containers left out. One container
is assumed: with several, the volume is appended once per container and the API
server refuses it. One component is assumed, so that no Update of a ConfigMap is
displaced by another one (`Reconcile` has that).

* A ConfigMap never loses a key and a template never its volume; a removed file
  disappears from pods because `items` is replaced, or, with the last file,
  because the container loses its mount.
* The `MergeConf` of the StatefulSet handler prefers the cluster's properties and
  that of the ConfigMap handler the component's; the former uses no more than
  path and name, so that the difference has no effect.
* All files are mounted under the first path (`config_map_util.go:39` has a TODO
  about it); `Served` says so.
* An empty value of a variable counts as no value in the fingerprint: a change
  between the preset value and an empty one reaches no pod.
* The merge replaces the list of containers (`merge_stage.go:18`), and
  `ContainerFinger` prints their probes and ports: what the API server had
  completed is brief again in what is compared, as is the mode of the volume.

## 3. The runs

Runs that pass:

| Run | Instance | Properties | What it shows |
|---|---|---|---|
| `action_walk` | 2 ConfigMaps that share their category and a Service, 2 actions, 6 calls | `WalkIsMoveIfAbsent`, `NewestIsKept`, `OrderIsKept`, `OnlyHeadRepeats` | the walk keeps the newest command of every key, in order; only the key of the head repeats |
| `reconcile` | one component with ConfigMap, set and claim; 2 edits, 1 fault, 1 stale read | `TypeOK`, `RestartNotForgotten`, `RestartSkipsNewborn`, `SleepsWhenApplied`, `KeepsJournal`, `ConfigBeforeRestart`, `Converges`, `GoneIsFinal` | whatever fails, crashes or is stale, no restart is forgotten but with a lost status write; `Reconcile` implements `RestartJournal`; a deleted cluster stays deleted. If no read is stale the loop ends only when all is applied, a restart recorded as done runs on the content it was for, and once user and faults stop everything gets applied |
| `reconcile_pair` | two components whose ConfigMaps share a category, behind a Service that always differs, and one PDB; 2 edits | `RestartNotForgotten`, `Converges`, `TemplateBeforeRestart` | a displaced Update is made up for by a later reconcile; nothing else is displaced before the restart it is for |
| `pod_restart` | 2 replicas, 2 calls, 1 break, 1 eviction | `AllRenewed`, `OneAtATime`, `Implements` | one call takes one pod down at a time, but for pods that broke or were evicted meanwhile and those it misjudged; a restart that reports success left none of the pods running that the cache showed when it was first asked for; it implements `RollingRestart` |
| `fail_over` | 3 replicas, any of them down at first; 1 crash of a pod, 1 status write, 1 fault | `TypeOK`, `QuorumSurvives`, `OffTheOldClaim`, `ModeIsReset`, `Returns` | one call never deletes the claims of a majority; a pod it dealt with does not run on its old claim, though it is deleted with no wait and may be missing at the second deletion; the recovery mode is always taken back, by FailOver or by the next reconcile; the call returns |
| `set_scale` | 1 to 3 replicas, 1 size; 2 edits, 1 write of the autoscaler, 1 fault | `TypeOK`, `OneStep`, `ClaimsOfMembersStay`, `Reaches` | a set is replaced one replica at a time although the autoscaler interferes; Recycle deletes no claim of a replica; the set gets where the user wants it, unless the operator sleeps on a change nothing told it of |
| `claim_growth` | 1 to 2 replicas, 3 sizes, a limit of 2, a fingerprint that may differ by itself; 2 edits, 1 write of the autoscaler, 1 fault | `GrownFirst`, `Reaches` | claims grow before the set asks for it, but for those that were not listed, came later or whose Update was refused; the set gets the size that is asked for, unless it is refused |
| `contents` | 3 files, two with one name at different paths, 2 contents, a variable, containers with and without values left to the API server; 3 edits, 1 fault | `TypeOK`, `Startable`, `Served`, `ConfigMapSettles`, `QuietIfComplete` | after a reconcile that ended well pods have the user's files and no others, unless their Restart was lost; between any two writes a pod that starts finds what it mounts; nothing changes without an edit or an error, but for files with one name and for what the API server fills in |

The runs `conflict`, `two_down`, `claim_names` and `restart_unchanged` each
violate one property that a comment of the source states; section 6 has what they
show.

## 4. Bounds and fairness

Bounds. `MaxEdits` counts the user's actions, `MaxFaults` failed requests and
crashes, `MaxStale` reads that return the past, `MaxAdds` the commands of a
list, `MaxAttempts`, `MaxBreaks` and `MaxEvictions` the calls of a restart and
what happens to pods meanwhile. Two edits are what it takes for an edit during
the reconcile of another, for going back to an old content (`EditResource`
offers version 1 again), and for scaling to zero and back; one fault for every
single failure or crash at each step. One component suffices for everything but
the command keys, which only ConfigMaps share; two components show that. Six
additions reach all shapes of a list with three keys: the walk looks at one
match and its successor, and a list holds at most three commands of one key.
With two replicas each pod is once the one restarted and once the other one; the
proofs do not depend on their number. Three is the smallest number of replicas
with a minority, which `FailOver` asks for. `SetScale` needs three for a step
that is one of two, and ordinals 8 to 10 (`claim_names`, where `First` leaves
out the lower ones) for names whose order is not that of the numbers. Claim
sizes have a run of their own (`claim_growth`): two sizes to grow in two steps
and a third one beyond the limit, with two ordinals, one claim that is listed
and one that is not. In `Contents` two names, one of them at two paths, are the
smallest case of two files that collide; three edits put a file in, change it
and remove it.

`SleepsWhenApplied`, `ConfigBeforeRestart`, `TemplateBeforeRestart` and
`Converges` are about behaviours in which no read returned the past (`stale = 0`),
because with stale reads they do not hold: when the user goes back to an older
content and the object cache still shows that one, the line counts as unchanged,
no command is planned, and the operator goes to sleep, or runs a pending restart,
with the newer content still in the API server. No later event corrects it.
`RestartNotForgotten` and `KeepsJournal` need no such restriction.

`OneAtATime` excepts what broke or was evicted during the call (`hurt`) and what
the call misjudged (`misjudged`, section 2). Without the second exception it is
`OthersAreUp`, which the comment at `client.go:292` promises and which does not
hold (`two_down`): a pod replaced between the reads at the start and its turn, or
one that still terminates since an earlier call, is deleted and taken for
restarted at once.

`GrownFirst` is about requests that succeed and a storage class that allows
claims to grow; what the code leaves out even then is named in it. `Reaches`
excepts an operator that sleeps on a change nothing has told it of (`Unnoticed`):
with an autoscaler that writes last this happens, and the code has no remedy but
the next event of the custom resource. An operator that is awake, or that has
planned from a current copy since, has to get the set there.

`Served` excepts pods whose Restart was lost with the status, until they start
again (`conflict`, section 6).

`QuorumSurvives` is about one call: two calls, each of which finds a minority,
can delete the claims of a majority. That every crashed pod is repaired in the
end does not hold: a copy of the pods that lags behind the right way makes each
call run into its deadline. `ClaimsOfMembersStay` is about runs in which no
request failed and nobody but the operator wrote replicas: after a failed
`ReCreate` a Recycle that reads the set before the cache shows it takes it for
zero replicas and deletes all claims.

`CHECK_DEADLOCK FALSE`: all systems may stop. `ActionWalk` ends when the list is
full; an operator with nothing queued and no bound left has nothing to do; a
restart that is done is done. The exception is `Contents`, which is checked.

Fairness. `WF(Operator)`: one worker serves the key, and every stage of a
reconcile ends by itself. `WF(Sync)`: informers deliver, with a relist if a
watch breaks. `WF(TimerFires)`: the delaying queue. `WF(Boot)` and
`WF(Collect)`: the StatefulSet controller and the garbage collector are control
loops of their own; the code relies on them. Faults, edits, crashes and stale
reads have no fairness and are bounded, so that liveness is about what follows
the last of them. `Boot` is all pods of a component at once: the model does not
cover pods that never get ready, for which the code has no remedy but FailOver.
`FailOver`: `WF(Work)` and `WF(DeliverSet)`. Every wait of a call has a deadline.
What can leave the mark on the set is an error or a crash, and a reconcile follows
each: an error is queued again with a delay, all custom resources are queued when
the operator starts, and the status that goes from failed to successful is an
event. Nothing is expected of pods and claims. `SetScale`: `WF(Reconcile)`, which
is enabled only while the key is queued or a reconcile runs, `WF(Deliver)` and
`WF(Orphan)`; nothing wakes the operator but what `queued` has.

## 5. The proofs

TLAPS checks the following for all values of the constants, in particular for
any numbers of edits, faults and stale reads.

Of `Reconcile` and the command list, for any set of components, any plan that
has a set and a claim line for every component (`LineAssumption`) and any set of
unstable kinds:

* `TypeCorrect` (`ReconcileProofs`): `Spec => []TypeOK`. `TypeOK` is inductive.
  It needs `MoveIfAbsentElements` and that a line is only looked at while
  `idx <= Len(Line)`.
* `RestartsAreRemembered` (`RestartProofs`): `Spec => []RestartNotForgotten`.
* `NewbornAreSkipped` (`RestartProofs`): `Spec => []RestartSkipsNewborn`.
* `MoveIfAbsentKeepsOthers` (`ActionLineProofs`): adding a command to a list of
  any length keeps all commands of other keys and puts the new one last.
* `StatusIsJournal` (`RestartProofs`): `Spec => KeepsJournal`, the refinement of
  `RestartJournal`, and `JournalRemembers`, what follows from it alone: a restart
  that is due and not lost is pending, also when the custom resource is gone.
* `SleepsOnlyWhenApplied`, `RestartFollowsTemplate` and `RestartFollowsConfig`
  (`RestartProofs`): `SleepsWhenApplied`, `TemplateBeforeRestart` and
  `ConfigBeforeRestart`, with the hypotheses below.
* `WalkRefinesMoveIfAbsent`, `NewestStays`, `OrderStays`, `HeadRepeats`
  (`ActionWalkProofs`): the four invariants of `ActionWalk`, for any resources,
  actions and number of calls.

`RestartNotForgotten` is not inductive: it does not say why a status write
cannot lose a restart, nor why a command that changes what pods boot with goes
with a pending restart. `IInv` adds that, in three parts.

* `FreshInv`: a reconcile whose copy is still current has every restart that is
  due pending in its copy. It holds when the reconcile starts, as an up-to-date
  cache shows the stored status, and is what `ReduceWrites` needs.
* `ListInv`: an `Update` or `ReCreate` of a pod input in the list has its
  restart pending in the copy, and the restarts come last, so that no `Success`
  is recorded before such a command runs; restarts leave out the components of
  `skip`, which is complete when the first restart is queued.
* `CopyInv`: a ConfigMap is only ever deleted when its component has no
  replicas, and then the claim line panics before anything is executed. This is
  the reason why deleting a ConfigMap under running pods does not break the
  property. Were the panic repaired, the property would need another reason.

Each part is shown to be preserved by every action (`NextList`, `NextCopy`,
`NextPods`); `ExecPods` says of each command which inputs it can leave outdated.

The refinement takes its guards from these: what `Change` asks for is
`ChangePods`, what `Renew` asks for is `RestartPods` and that a queued restart
waits for its result (`WaitingInv`), what `Store` asks for is `FreshInv`.

`SleepsOnlyWhenApplied` assumes a plan without an Ingress (`NoIngress`): the
reconcile of one that exists panics and comes back empty, so that the operator
sleeps with the rest not applied. It and the next two are about behaviours
without a stale read; that there was none before a step after which there is
none is `StaleStays`. The invariant is `SleepInv`. `CopyIsCurrent`: once the
copy of a reconcile is out of date, an event or a queued key is on its way.
`CalmInv`: a reconcile that planned nothing but FailOver and Recycle on a
current copy found every line in order, and neither its commands nor anything
around it changes that before it ends. The write of any other status wakes the
operator up.

`RestartFollowsTemplate` leaves out what is `Displaceable`: of two ConfigMaps,
the Update of the first is displaced by that of the second (section 6), and then
its restart runs first. `OrderInv`: every line looked at whose command is kept
(`Kept`) is as wanted, or gone, or a command of the list settles it, and
restarts come last, so that nothing is left to settle when one runs. With one
ConfigMap (`OneConfigMap`) nothing is displaceable, which gives
`RestartFollowsConfig`.

`ActionWalkProofs` needs to know why a walk that stops at the first match and its
successor leaves no further one. `KeysInOrder`: behind the second place no key is
there twice. With it there is at most one match behind the head (`OneMatch`), and
`Walking` says of each round that the nodes passed are unchanged and do not
match, so that the list it leaves is that of `MoveIfAbsent`.

Of the other modules, with the number of replicas, ordinals, files, names and
contents as parameters:

* `PodRestartProofs`: `EveryPodRenewed`, `OnePodAtATime` and `RestartIsRolling`,
  the refinement `Spec => Promise!Spec`. The invariant has two ideas. `Copies`: a
  copy shows a pod as it was at some time since the restart was asked for, so
  that a pod shown as missing under the current `uid` is missing; this is why
  "no pod found" may count as done. `Order`, of the pods that are not excused: a
  copy of a pod still to come that shows it ready shows it as it is (`Steady`), a
  copy of the pod that is waited for that shows it back does, too (`Back`), and a
  pod that was dealt with is ready (`Passed`), so that what the operator read when
  it began is still true of the pods it has not come to. Each step of `Next` is
  then shown to be one of `RollingRestart` or none.
* `FailOverProofs`: `TypeCorrect`, `MajorityKeepsClaims`,
  `FailedOverIsOffItsClaim`. The invariant follows the pod from the deletion of
  its claim on: once the claim is terminating no pod is scheduled on it
  (`Deleted`), and after the second deletion a pod that uses it is ending
  (`Replaced`), whether one was there to be deleted or not.
* `SetScaleProofs`: `TypeCorrect`, `ClaimsGrowFirst`, `ReplacedStepByStep`,
  `MembersKeepClaims`. The invariant relates the copy to the set by `my` (what was
  compared is what is deleted; `CopyInv`, `StepInv`) and the claims of the API
  server, whatever the cache shows of them, to the target (`GrownInv`).
  `MembersKeepClaims` assumes `Last < 10`, that is, ordinals of one digit: it is
  the largest bound for which the property holds (`claim_names`). Two arguments
  meet in it: without a failure and another writer the copy of the set Recycle
  reads is current (`ScaleInv`), and of claims whose names are in the order of
  their ordinals those beyond the first n have an ordinal of n or more, whichever
  claims the list has (`BeyondMembers`).
* `ContentsProofs`: `TypeCorrect`, `PodsCanStart`, `PodsAreServed`,
  `ConfigMapIsStable`, `CompleteNoRestart`. The invariant says, of each
  point of the reconcile, which of the stored and the planned template mounts
  only keys of which of the stored and the planned ConfigMap; it rests on
  `MergeMap` losing no key. For `Served` it adds (`ServedInv`) what is wanted of
  the planned objects and, from the end of the execution on, of the stored ones
  (`Wanted`, which rests on merging keeping the wanted files, `MergedIsWanted`),
  that a template which is not written differs in nothing the fingerprint sees
  (`Written`), and that pods without a restart due or lost have read what they
  would read now (`Due`). `Quiet` and `Complete` are the part behind the two action
  properties.

`Invariance` in each module is the step from the lemmas to the specification.

Only model-checked: the liveness properties (`Converges`, `GoneIsFinal`,
`ModeIsReset`, `Returns`, `Reaches`), which are out of the provers' reach. All
invariants, action properties and refinements of the runs that pass are theorems,
of the specification without fairness and with the hypotheses named above.

## 6. Where the code departs from what it says

* `conflict`: `reduce_stage.go:15` says "update reversion and update again".
  `status` points into the custom resource that the `Get` at line 16 overwrites,
  so that the second update writes back what was just read. A restart that was
  recorded as waiting is lost (`lost` in the model), and pods go on with the old
  configuration until the next change.
* `two_down`: "check is exists pod is not ready, if exists, wait failOver to
  recovery it and continue." (`client.go:292`). `IsPodReady` does not look at the
  deletion timestamp. A Restart that runs into its deadline while the pod it
  deleted still terminates is asked for again by the next reconcile, and finds all
  pods ready. When the pod's name is taken by its next incarnation it deletes
  that one. It ends under another uid than the one read at the start and counts as
  ready while it does, so that the call takes it for restarted and deletes the next
  pod: two are down, though none broke or was evicted. The same
  follows from any pod that was replaced between the reads at the start and its
  turn.
* `claim_names`: "down scale" (`category_pvc_handler.go:116`) deletes the first
  claims of a list sorted by name, highest first (`:113`). Strings sort
  `...-9` above `...-10`: with eleven replicas going to ten, the claim of ordinal
  9, whose pod runs, is deleted and that of ordinal 10 is kept.
* `restart_unchanged`: "spec change need restart."
  (`category_statefulset_handler.go:393`). The API server fills in
  `DefaultMode` of a ConfigMap volume; the desired list of volumes has none and
  replaces the observed one in the merge (`merge_stage.go:18`); the fingerprint
  prints the whole volume. The same holds of the list of containers: probe periods
  and thresholds or the protocol of a port that the component left to the API
  server are in the observed set and not in the merged one, and `ContainerFinger`
  prints probes and ports (`component_util.go:96-99`). So each reconcile of a
  component with files, or with such containers, creates its set again and
  restarts its pods. `QuietIfComplete` says that all others are spared.

Visible in the code and not checked by a run of their own:

* A component scaled to zero is never deleted: the claim line has no desired
  object and panics (`category_pvc_handler.go:135`), and the recovered reconcile
  returns an empty result. `Reconcile` models this.
* All ConfigMaps have one category, so that the `Update` of one displaces that of
  another from the list (`framework_api.go:214`), whose restart stays: pods are
  restarted on the old configuration and the restart is recorded as done. The
  Update follows in a later reconcile and asks for a second restart
  (`reconcile_pair`).
* "StorageClass not support Expansion" (`pvc_util.go:112`): the error `Validate`
  returns goes into a copy of the result (`framework_api.go:120` has a value
  receiver), which `worker.go:219` overwrites anyway. The enlargement goes on, the
  API server refuses each claim, that error is dropped, too, and the set is created
  again asking for a size its claims never get.
* A claim the cache does not show yet when claims are grown, or one the controller
  creates before the set is deleted, keeps the old size for ever
  (`pvc_util.go:117`), and so do the claims behind one whose Update failed
  (`GrownFirst` names them).
* An autoscaler that writes the replicas of a set while the operator sleeps is
  not corrected: the set is not watched (`Unnoticed` in `SetScale`).
* A Restart that is due when the status write fails, conflicts or is never reached
  is forgotten, and the pods keep the old files and variables until they start
  for another reason (`lost` in `Contents` and in `Reconcile`).
* "avoid restart." (`client.go:201`): the Update that takes `RECOVERY_MODE` back
  uses the copy the cache had, conflicts if the first Update was not delivered
  yet, and the next reconcile creates the set again and restarts all pods.
* `MoveIfAbsent` is to "remove the same action" (`framework_api.go:213`) and
  leaves it in place at the head of the list and behind it (`OnlyHeadRepeats`
  says what remains true).
* A component in the category of a Service is never restarted, as `restart`
  looks up the Service and finds no replicas (`apply_stage.go:43-49`).

## 7. What is not modelled

* Most fields: of contents only files, their mount, variables, and whether the
  rest of the containers is complete are modelled (`Contents`), besides replicas
  and claim sizes (`SetScale`); resources, affinity, labels, annotations are
  not. In `Reconcile` an object is a version, and what depends on other fields
  (a fingerprint that prints a pointer and so always differs) is the constant
  `Unstable`, for Services, Secrets and StatefulSets; the proofs are about any
  of them, `reconcile_pair` has a Service. The version of a set stands for what
  the fingerprint of its pods and its claims have: every Update of a set asks
  for a Restart.
* Pods do not fail in `Reconcile` and pods are not part of `SetScale`; what
  restarts, fail-overs and scaling do to each other at the same time is not
  modelled, as one worker executes one command after the other.
* Several custom resources: labels and the handler registry are shared between
  them; one cluster is modelled.
* Transient errors of the first read of the custom resource, and the rate
  limiter: both are a delay of `Start`.
* The states of actions other than Restart in the status: they are written and
  never read.
* Extension handlers (the repository has none), logging, the manager's wiring,
  manifests and generated code.

Pods orphaned by a `ReCreate` that failed half way are left behind when the
component is then labelled `Delete`; `Applied` leaves the pods of such a
component out.

## 8. Plan

Done, in this order: `ActionLine` and `ActionWalk`; `Reconcile` and its proofs;
`PodRestart`; `FailOver`; `SetScale` (with `ReCreate` step by step);
`RollingRestart` and the refinement; `Contents`; the proofs about these;
`RestartJournal` and its refinement.

What could follow:

1. `Registry` with two clusters: handlers by category, and `DeleteAllOf` by the
   labels of one object, which ConfigMaps and PDBs of two clusters may share.
2. What the safety part of `ModeIsReset` and `Reaches` says as invariants: that the
   next reconcile finds the mark, and the step it takes, so that it can be proved.
3. The labels and annotations of templates in `Contents`.
