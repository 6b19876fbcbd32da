------------------------------- MODULE Contents -------------------------------
(***************************************************************************)
(* What the pods of one component get to see of its configuration files    *)
(* and variables: the properties of the cluster and of the component are   *)
(* merged into one ConfigMap (kernel/util/config_map_util.go) and into the *)
(* volume and the mount of the StatefulSet's pod template                  *)
(* (kernel/handler/category_statefulset_handler.go), both are merged into  *)
(* the objects there are (kernel/merge_stage.go), and fingerprints decide  *)
(* whether these are updated and the pods restarted                        *)
(* (kernel/util/component_util.go).                                        *)
(*                                                                         *)
(* Reconcile has the order of all commands and stale reads; here reads are  *)
(* fresh, the pods are all alike, and there is one component: with several  *)
(* the Update of a ConfigMap may be displaced by that of another one        *)
(* (api/core/framework_api.go:214), which Reconcile has.                    *)
(***************************************************************************)
EXTENDS Integers

CONSTANTS Property,  \* the <<path, name>> of the files there may be
          Name,      \* their names
          Data,      \* their contents
          None,      \* no file, no volume, no set, no pod
          MaxEdits,  \* bound: edits of the user
          MaxFaults  \* bound: commands and writes that fail, crashes

ASSUME PropertyAssumption == Property \subseteq Nat \X Name
ASSUME LimitAssumption == MaxEdits \in Nat /\ MaxFaults \in Nat

Path == {p[1] : p \in Property}

\* What the component's template says of a variable the operator presets: it
\* may not mention it, give it an empty value, or another one.
Variable == {"preset", "empty", "given"}

\* The rest of its containers: the component may leave values to the API server
\* (the period of a probe, the protocol of a port), which then completes them.
Rest == {"full", "brief", "completed"}

Conf == [Property -> Data \union {None}]
Content == [Name -> Data \union {None}]

VARIABLES
  base, own, env, rest, \* the custom resource: files of the cluster and of the
                        \* component, its variable, its containers' rest
  cm,      \* the content of the ConfigMap; there is none if it has no file
  set,     \* the pod template of the StatefulSet in the API server
  pod,     \* what the component's pods have read when they started
  pc,      \* where the reconcile is
  plan,    \* what it is about to write
  pending, \* the status in the API server asks for a Restart
  planned, \* the edits seen by the reconcile planned last
  failed,  \* history: that reconcile ended with an error
  lost,    \* history: pods have not started since a reconcile that had begun to
           \* write ended without a record of the Restart that was due
  edits, faults  \* what is used up of the bounds

resource == <<base, own, env, rest, edits>>
history == <<planned, failed, lost>>
vars == <<resource, cm, set, pod, pc, plan, pending, history, faults>>

Volume == [items : SUBSET Name, mode : {"unset", "default"}]
Template == [volume : Volume \union {None}, path : Path \union {None},
             env : Variable, rest : Rest]
Files == [files : Content, path : Path \union {None}, env : Variable]

ASSUME NoneAssumption ==
  /\ None \notin Data /\ None \notin Nat /\ None \notin Volume
  /\ None \notin Template /\ None \notin Files
-----------------------------------------------------------------------------
(* The desired objects.                                                    *)

\* MergeConf, for the ConfigMap: the component's file replaces the cluster's.
MergeConf == [p \in Property |-> IF own[p] # None THEN own[p] ELSE base[p]]

\* The files there are.  The MergeConf of the StatefulSet prefers the cluster's,
\* but uses no more than path and name.
Given == {p \in Property : base[p] # None \/ own[p] # None}

\* Two files with one name and different paths.
Collides == \E p, q \in Given : p # q /\ p[2] = q[2]

\* GetConfigMapData: a file is known by its name; of two with the same name the
\* last one in the list stays, which has the order of a Go map.  And a mutant:
\* the list has both the cluster's and the component's files.
AnyOf(n) == LET named == {p \in Property : p[2] = n} IN
            ({base[p] : p \in named} \union {own[p] : p \in named}) \ {None}
DataOf(n) == {MergeConf[p] : p \in {q \in Given : q[2] = n}}
ConfigMapData ==
  {d \in Content : \A n \in Name : IF DataOf(n) = {} THEN d[n] = None
                                   ELSE d[n] \in DataOf(n)}

\* BuildConfigMapMount: all files in one volume, mounted where the first one by
\* path belongs.  And a mutant: the items are the paths.
PathVolume == IF Given = {} THEN None
              ELSE [items |-> {p[1] : p \in Given}, mode |-> "unset"]
BuildVolume == IF Given = {} THEN None
               ELSE [items |-> {p[2] : p \in Given}, mode |-> "unset"]
BuildMount == IF Given = {} THEN None
              ELSE CHOOSE x \in {p[1] : p \in Given} :
                     \A p \in Given : x <= p[1]

Make == [volume |-> BuildVolume, path |-> BuildMount, env |-> env, rest |-> rest]
-----------------------------------------------------------------------------
(* The merge into the observed objects (mergo, with override).             *)

\* A map is merged key by key: no key is removed.  And a mutant: the desired
\* map replaces the observed one.
MergeReplaces(observed, desired) == desired
MergeMap(observed, desired) ==
  [n \in Name |-> IF desired[n] # None THEN desired[n] ELSE observed[n]]

\* A list is replaced, unless the desired one is empty: the volume stays when
\* the last file is removed, while the containers lose their mount, and all the
\* API server had filled in.
MergeTemplate(observed, desired) ==
  [desired EXCEPT !.volume = IF @ = None THEN observed.volume ELSE @]

\* The API server fills in the mode of the files and what containers leave out.
Admit(t) == [t EXCEPT !.volume = IF @ = None THEN @
                                 ELSE [@ EXCEPT !.mode = "default"],
                      !.rest = IF @ = "brief" THEN "completed" ELSE @]
-----------------------------------------------------------------------------
(* The fingerprints.                                                       *)

\* An empty value is no value: the preset one, before it in the list, remains.
EnvFinger(variable) == IF variable = "empty" THEN "preset" ELSE variable

\* A mutant of PodSpecFinger: the mounts are left out.
NoMounts(t) == <<t.volume, EnvFinger(t.env), t.rest>>
PodSpecFinger(t) == <<t.volume, t.path, EnvFinger(t.env), t.rest>>

TemplateChanged(observed, desired) ==
  PodSpecFinger(observed) # PodSpecFinger(desired)
-----------------------------------------------------------------------------
NoFiles == [n \in Name |-> None]
NoConf == [p \in Property |-> None]
Plans == [cm : Content, set : Template \union {None}, write : BOOLEAN,
          restart : BOOLEAN, edited : BOOLEAN, collides : BOOLEAN]
NoPlan == [cm |-> NoFiles, set |-> None, write |-> FALSE, restart |-> FALSE,
           edited |-> FALSE, collides |-> FALSE]

Init ==
  /\ base = NoConf /\ own = NoConf /\ env = "preset" /\ rest \in {"full", "brief"}
  /\ cm = NoFiles /\ set = None /\ pod = None
  /\ pc = "idle" /\ plan = NoPlan /\ pending = FALSE
  /\ planned = -1 /\ failed = FALSE /\ lost = FALSE
  /\ edits = 0 /\ faults = 0

\* The user adds, changes or removes a file or changes the variable.  It makes
\* the status write of a reconcile that is running conflict.
Edit ==
  /\ edits < MaxEdits /\ edits' = edits + 1
  /\ \/ \E p \in Property, d \in Data \union {None} :
          \/ base' = [base EXCEPT ![p] = d] /\ UNCHANGED <<own, env>>
          \/ own' = [own EXCEPT ![p] = d] /\ UNCHANGED <<base, env>>
     \/ env' \in Variable /\ UNCHANGED <<base, own>>
  /\ UNCHANGED <<rest, cm, set, pod, pc, plan, pending, history, faults>>

\* What a pod reads that starts now.
Run == [files |-> [n \in Name |-> IF set.path # None /\ n \in set.volume.items
                                  THEN cm[n] ELSE None],
        path |-> set.path, env |-> set.env]

\* The pods of a new set start; those that are evicted start again.
Boot ==
  /\ set # None
  /\ pod' = Run /\ lost' = FALSE
  /\ UNCHANGED <<resource, cm, set, pc, plan, pending, planned, failed, faults>>
-----------------------------------------------------------------------------
(* One reconcile.                                                          *)

\* The desired objects are made, merged and compared.  Files removed to the
\* last leave the ConfigMap without a line.  The pods are restarted for a
\* changed ConfigMap, for a changed template, and for a status that asks for it,
\* unless the set is created.
Plan ==
  /\ pc = "idle" /\ pc' = "config"
  /\ \E d \in ConfigMapData :
       LET config   == IF Given = {} THEN cm ELSE MergeMap(cm, d)
           template == IF set = None THEN Make ELSE MergeTemplate(set, Make)
           changed  == set # None /\ TemplateChanged(set, template)
       IN  plan' = [cm      |-> config,
                    set     |-> template,
                    write   |-> set = None \/ changed,
                    restart |-> /\ set # None
                                /\ \/ changed \/ pending
                                   \/ cm # NoFiles /\ config # cm,
                    edited  |-> planned # edits \/ failed,
                    collides |-> Collides]
  /\ planned' = edits /\ failed' = FALSE
  /\ UNCHANGED <<resource, cm, set, pod, pending, lost, faults>>

\* The ConfigMap comes before the component in the list of commands.
WriteConfigMap ==
  /\ pc = "config" /\ pc' = "set"
  /\ cm' = plan.cm
  /\ UNCHANGED <<resource, set, pod, plan, pending, history, faults>>

\* Create, Update or ReCreate of the set.
WriteSet ==
  /\ pc = "set" /\ pc' = "restart"
  /\ set' = IF plan.write THEN Admit(plan.set) ELSE set
  /\ UNCHANGED <<resource, cm, pod, plan, pending, history, faults>>

\* Restart renews the pods; if there are none yet it has nothing to do.  And a
\* mutant: its success is not recorded.
RestartUnrecorded ==
  /\ pc = "restart" /\ plan.restart /\ pc' = "status"
  /\ pod' = IF pod = None THEN None ELSE Run
  /\ lost' = FALSE
  /\ UNCHANGED <<resource, cm, set, plan, pending, planned, failed, faults>>
RestartPods ==
  /\ pc = "restart" /\ plan.restart /\ pc' = "status"
  /\ pod' = IF pod = None THEN None ELSE Run
  /\ plan' = [plan EXCEPT !.restart = FALSE]
  /\ lost' = FALSE
  /\ UNCHANGED <<resource, cm, set, pending, planned, failed, faults>>

NoRestart ==
  /\ pc = "restart" /\ ~plan.restart /\ pc' = "status"
  /\ UNCHANGED <<resource, cm, set, pod, plan, pending, history, faults>>

Fault == faults < MaxFaults /\ faults' = faults + 1

\* A command fails: what follows it in the list is dropped, and the status that
\* is written says so.
CommandFails ==
  /\ pc \in {"config", "set", "restart"} /\ Fault /\ pc' = "status"
  /\ failed' = TRUE
  /\ UNCHANGED <<resource, cm, set, pod, plan, pending, planned, lost>>

End == pc' = "idle" /\ plan' = NoPlan

\* A Restart that is due is not recorded, though there may have been the write
\* that it is for.  (One the status asked for before is still asked for.)
Lose == lost' = (lost \/ (pc # "config" /\ plan.restart /\ ~pending))

\* ReduceStage writes the status, once.
WriteStatus ==
  /\ pc = "status" /\ planned = edits
  /\ pending' = plan.restart
  /\ End
  /\ UNCHANGED <<resource, cm, set, pod, history, faults>>

\* The custom resource was edited meanwhile: what is written is the status that
\* is there, and that is no error.
StatusConflict ==
  /\ pc = "status" /\ planned # edits
  /\ Lose /\ End
  /\ UNCHANGED <<resource, cm, set, pod, pending, planned, failed, faults>>

\* The operator dies, or its status write fails.
Crash ==
  /\ pc # "idle" /\ Fault
  /\ Lose /\ End
  /\ failed' = TRUE
  /\ UNCHANGED <<resource, cm, set, pod, pending, planned>>
-----------------------------------------------------------------------------
Next == \/ Edit \/ Boot \/ Plan \/ WriteConfigMap \/ WriteSet \/ RestartPods
        \/ NoRestart \/ CommandFails \/ WriteStatus \/ StatusConflict \/ Crash

Spec == Init /\ [][Next]_vars
-----------------------------------------------------------------------------
TypeOK ==
  /\ base \in Conf /\ own \in Conf /\ env \in Variable /\ rest \in Rest
  /\ cm \in Content
  /\ set \in Template \union {None}
  /\ pod \in Files \union {None}
  /\ pc \in {"idle", "config", "set", "restart", "status"}
  /\ plan \in Plans
  /\ pending \in BOOLEAN /\ failed \in BOOLEAN /\ lost \in BOOLEAN
  /\ planned \in -1..MaxEdits /\ edits \in 0..MaxEdits /\ faults \in 0..MaxFaults

\* Whenever a pod starts, between two writes or after a failed one, too, the
\* ConfigMap has every file its template mounts.
Startable ==
  set # None /\ set.volume # None => \A n \in set.volume.items : cm[n] # None

Settled == pc = "idle" /\ planned = edits /\ ~failed

\* The user's files and no others, the component's before the cluster's, under
\* the first of their paths, and the user's variable unless its value is empty.
\* That is what pods run with after a reconcile that ended well, whatever was
\* edited, removed or evicted before and whichever commands failed.  Excepted
\* are pods whose Restart was lost: the status that was to record it conflicted
\* with an edit, failed to be written, or was in the memory of an operator that
\* died, and no reconcile since had a reason of its own to restart them.
Served ==
  Settled /\ pod # None /\ ~Collides /\ ~lost =>
    /\ pod.files = [n \in Name |->
                      IF \E p \in Given : p[2] = n
                      THEN MergeConf[CHOOSE p \in Given : p[2] = n] ELSE None]
    /\ pod.path = BuildMount
    /\ EnvFinger(pod.env) = EnvFinger(env)

\* A ConfigMap changes only for an edit or to make up for an error, unless two
\* files share a name: then it may change at every reconcile.
ConfigMapSettles ==
  [][WriteConfigMap /\ cm' # cm => plan.edited \/ plan.collides]_vars

\* Without an edit or an error to make up for, pods are restarted only if the
\* API server has filled something in: the mode of a volume, or what the
\* component's containers left out (PodSpecFinger prints both).
QuietIfComplete ==
  [][RestartPods /\ ~plan.edited
     => set.volume # None \/ set.rest = "completed"]_vars

\* handler/category_statefulset_handler.go:393, "spec change need restart.":
\* pods are restarted only when the custom resource was edited.
RestartOnlyForEdits == [][RestartPods => plan.edited]_vars
=============================================================================
