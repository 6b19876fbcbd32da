---------------------------- MODULE ContentsProofs ----------------------------
(***************************************************************************)
(* Proofs about Contents, for any files, names and contents: its types,    *)
(* that a pod that starts finds every file it mounts in the ConfigMap, what *)
(* pods run with after a reconcile, and that nothing changes by itself.    *)
(***************************************************************************)
EXTENDS Contents, WellFoundedInduction, TLAPS

\* The ConfigMap c has all that the template t mounts.
Filled(t, c) == t.volume # None => \A n \in t.volume.items : c[n] # None

Kept == \A n \in Name : cm[n] # None => plan.cm[n] # None

Order ==
  /\ pc # "idle" => plan.set # None /\ Filled(plan.set, plan.cm)
  /\ pc # "idle" /\ plan.restart => set # None
  /\ pc = "config" => Kept
  /\ pc \in {"set", "restart"} => cm = plan.cm
  /\ set # None => Filled(set, cm)

IInv == TypeOK /\ Order

\* For what pods run with: s is a template and c a ConfigMap the user wants.
WantedTemplate(s) ==
  /\ s.path = BuildMount /\ EnvFinger(s.env) = EnvFinger(env)
  /\ rest # "brief" => s.rest = rest
  /\ Given # {} => s.volume # None /\ s.volume.items = {p[2] : p \in Given}

WantedFiles(c) == \A p \in Given : c[p[2]] = MergeConf[p]

\* The Restart that is due is in the status or in the memory of the operator.
Asked == IF pc = "idle" THEN pending ELSE plan.restart

Executing == pc \in {"config", "set", "restart"}

Wanted ==
  planned = edits /\ ~failed =>
    IF Executing
    THEN /\ WantedTemplate(plan.set)
         /\ ~Collides => WantedFiles(plan.cm)
    ELSE /\ set # None /\ WantedTemplate(set) /\ ~Asked
         /\ ~Collides => WantedFiles(cm)

\* A template that is not written is no different, one that is written is there.
Written ==
  /\ Executing /\ ~plan.write =>
       set # None /\ PodSpecFinger(set) = PodSpecFinger(plan.set)
  /\ pc = "restart" /\ plan.write => set = Admit(plan.set)

\* Pods without a Restart due see what a pod that starts now would see, unless
\* it was lost, and what is still to be written does not change that.
View(f) == <<f.files, f.path, EnvFinger(f.env)>>

Due ==
  /\ set = None => pod = None
  /\ pod # None /\ ~lost /\ ~Asked => View(pod) = View(Run)
  /\ pod # None /\ ~lost /\ pc = "config" /\ ~pending => View(pod) = View(Run)
  /\ pc \in {"config", "set"} /\ set # None /\ ~plan.restart =>
       ~plan.write /\ plan.cm = cm

\* Without an edit or an error the ConfigMap stays, and pods restart for their
\* volume or for what the API server completes.
Quiet ==
  Executing /\ ~plan.edited =>
    /\ ~plan.collides => plan.cm = cm
    /\ plan.restart => plan.set.volume # None \/ plan.set.rest = "brief"

\* What the API server stores is complete.
Complete == set # None => set.rest # "brief"

ServedInv == /\ planned <= edits
             /\ rest \in {"full", "brief"} /\ Complete
             /\ Wanted /\ Written /\ Due /\ Quiet
-----------------------------------------------------------------------------
\* Files have a path and a name.
LEMMA PropertyType ==
  ASSUME NEW p \in Property
  PROVE  p[1] \in Nat /\ p[2] \in Name /\ p[1] \in Path
BY PropertyAssumption DEF Path

\* A set of paths has a first one.
LEMMA FirstPath ==
  ASSUME NEW S \in SUBSET Nat, S # {}
  PROVE  \E x \in S : \A y \in S : x <= y
<1> DEFINE Less == {ss \in Nat \X Nat : ss[1] < ss[2]}
<1>1. IsWellFoundedOn(Less, Nat)
  BY NatLessThanWellFounded DEF OpToRel
<1>2. PICK x \in S : \A y \in S : <<y, x>> \notin Less
  <2> HIDE DEF Less
  <2> QED
    BY <1>1, WFMin
<1>3. ASSUME NEW y \in S PROVE x <= y
  <2>1. <<y, x>> \in Nat \X Nat /\ x \in Nat /\ y \in Nat
    OBVIOUS
  <2>2. ~(<<y, x>>[1] < <<y, x>>[2])
    BY <1>2, <2>1
  <2> QED
    BY <2>1, <2>2
<1> QED
  BY <1>3

\* There is a first path if there is a file, so that BuildMount is one of them.
LEMMA MountType == BuildMount \in Path \union {None}
<1> DEFINE S == {p[1] : p \in Given}
<1>1. S \subseteq Path /\ S \subseteq Nat
  BY PropertyType DEF Given
<1>2. CASE Given # {}
  <2>1. S # {}
    BY <1>2
  <2>2. \E x \in S : \A y \in S : x <= y
    BY <1>1, <2>1, FirstPath
  <2>3. \E x \in S : \A p \in Given : x <= p[1]
    BY <2>2
  <2> QED
    BY <1>1, <1>2, <2>3 DEF BuildMount
<1> QED
  BY <1>2 DEF BuildMount

\* There is a mount if there is a file.
LEMMA MountNone == BuildMount # None <=> Given # {}
<1> DEFINE S == {p[1] : p \in Given}
<1>1. S \subseteq Nat /\ None \notin Nat
  BY PropertyType, NoneAssumption DEF Given
<1>2. CASE Given # {}
  <2>1. S # {}
    BY <1>2
  <2>2. \E x \in S : \A y \in S : x <= y
    BY <1>1, <2>1, FirstPath
  <2>3. \E x \in S : \A p \in Given : x <= p[1]
    BY <2>2
  <2>4. BuildMount \in S
    BY <1>2, <2>3 DEF BuildMount
  <2> QED
    BY <1>1, <1>2, <2>4
<1> QED
  BY <1>2 DEF BuildMount

\* No volume and no template is None.
LEMMA TemplateType ==
  /\ \A v : v \in Volume => v # None
  /\ BuildVolume \in Volume \union {None}
  /\ Given # {} => BuildVolume # None
BY NoneAssumption, PropertyType DEF Volume, BuildVolume, Given

\* What is made and merged is a template.
LEMMA MakeType ==
  ASSUME env \in Variable, rest \in Rest
  PROVE  Make \in Template
BY MountType, TemplateType DEF Make, Template

\* The merge gives a template.
LEMMA MergeType ==
  ASSUME NEW s \in Template, NEW t \in Template
  PROVE  MergeTemplate(s, t) \in Template
BY DEF MergeTemplate, Template

\* What the API server stores is a template.
LEMMA AdmitType ==
  ASSUME NEW t \in Template
  PROVE  Admit(t) \in Template
BY TemplateType DEF Admit, Template, Volume, Rest

\* A merged ConfigMap is one, and no key is lost.
LEMMA MapType ==
  ASSUME NEW c \in Content, NEW d \in Content
  PROVE  /\ MergeMap(c, d) \in Content
         /\ \A n \in Name : c[n] # None => MergeMap(c, d)[n] # None
         /\ \A n \in Name : d[n] # None => MergeMap(c, d)[n] # None
BY DEF MergeMap, Content

\* The desired ConfigMap has every file that is mounted.
LEMMA DesiredComplete ==
  ASSUME base \in Conf, own \in Conf, NEW d \in ConfigMapData,
         NEW p \in Given
  PROVE  d[p[2]] # None
<1>1. p \in Property /\ p[2] \in Name
  BY PropertyType DEF Given
<1>2. \A q \in Given : MergeConf[q] # None
  BY DEF Given, MergeConf
<1>3. DataOf(p[2]) # {} /\ None \notin DataOf(p[2])
  BY <1>2 DEF DataOf
<1>4. d[p[2]] \in DataOf(p[2])
  BY <1>1, <1>3 DEF ConfigMapData
<1> QED
  BY <1>3, <1>4

\* What is planned is complete: the template mounts what the ConfigMap will have.
LEMMA PlanComplete ==
  ASSUME TypeOK, set # None => Filled(set, cm), NEW d \in ConfigMapData
  PROVE  Filled(IF set = None THEN Make ELSE MergeTemplate(set, Make),
                IF Given = {} THEN cm ELSE MergeMap(cm, d))
<1> DEFINE template == IF set = None THEN Make ELSE MergeTemplate(set, Make)
           config   == IF Given = {} THEN cm ELSE MergeMap(cm, d)
<1>1. CASE Given = {}
  <2>1. template.volume # None => set # None /\ template.volume = set.volume
    BY <1>1 DEF Make, BuildVolume, MergeTemplate
  <2> QED
    BY <1>1, <2>1 DEF Filled
<1>2. CASE Given # {}
  <2>1. BuildVolume # None
    BY <1>2, TemplateType
  <2>2. template.volume = BuildVolume
    BY <2>1, TypeOK DEF Make, MergeTemplate
  <2>3. ASSUME NEW n \in template.volume.items PROVE config[n] # None
    <3>1. PICK p \in Given : n = p[2]
      BY <1>2, <2>2, <2>3 DEF BuildVolume
    <3>2. d[n] # None /\ n \in Name
      BY <3>1, DesiredComplete, PropertyType DEF TypeOK, Given
    <3> QED
      BY <1>2, <3>2 DEF MergeMap
  <2> QED
    BY <2>3 DEF Filled
<1> QED
  BY <1>1, <1>2

\* What an ended reconcile leaves as plan has the type of one.
LEMMA NoPlanType == NoPlan \in Plans
<1>1. NoFiles \in Content
  BY DEF NoFiles, Content
<1> QED
  BY <1>1 DEF NoPlan, Plans

\* The initial states have the types.
LEMMA InitInv == Init => IInv
<1> SUFFICES ASSUME Init PROVE IInv
  OBVIOUS
<1>1. NoFiles \in Content /\ NoConf \in Conf
  BY DEF NoFiles, NoConf, Content, Conf
<1>2. planned \in -1..MaxEdits /\ edits \in 0..MaxEdits /\ faults \in 0..MaxFaults
  BY LimitAssumption DEF Init
<1>3. plan \in Plans
  BY NoPlanType DEF Init
<1>4. TypeOK
  BY <1>1, <1>2, <1>3 DEF Init, TypeOK, Variable, Rest
<1>5. Order
  BY DEF Init, Order
<1> QED
  BY <1>4, <1>5 DEF IInv

\* Planning keeps the invariant.
LEMMA PlanInv ==
  ASSUME IInv, Plan
  PROVE  IInv'
<1> USE DEF IInv
<1>1. PICK d \in ConfigMapData :
        LET config   == IF Given = {} THEN cm ELSE MergeMap(cm, d)
            template == IF set = None THEN Make ELSE MergeTemplate(set, Make)
            changed  == set # None /\ TemplateChanged(set, template)
        IN  plan' = [cm      |-> config,
                     set     |-> template,
                     write   |-> set = None \/ changed,
                     restart |-> /\ set # None
                                 /\ \/ changed \/ pending
                                    \/ cm # NoFiles /\ config # cm,
                     edited  |-> planned # edits \/ failed,
                     collides |-> Collides]
  BY DEF Plan
<1> DEFINE template == IF set = None THEN Make ELSE MergeTemplate(set, Make)
           config   == IF Given = {} THEN cm ELSE MergeMap(cm, d)
           changed  == set # None /\ TemplateChanged(set, template)
<1>2. config \in Content /\ (\A n \in Name : cm[n] # None => config[n] # None)
  BY MapType DEF ConfigMapData, TypeOK
<1>3. template \in Template /\ template # None
  <2>1. Make \in Template
    BY MakeType DEF TypeOK
  <2>2. set # None => MergeTemplate(set, Make) \in Template
    BY <2>1, MergeType DEF TypeOK
  <2> QED
    BY <2>1, <2>2, NoneAssumption
<1>4. /\ plan'.cm = config /\ plan'.set = template
      /\ plan'.restart => set # None
      /\ plan' \in Plans
  <2>1. PICK w \in BOOLEAN, r \in BOOLEAN, e \in BOOLEAN, c \in BOOLEAN :
          /\ plan' = [cm |-> config, set |-> template, write |-> w,
                      restart |-> r, edited |-> e, collides |-> c]
          /\ r => set # None
    BY <1>1 DEF TemplateChanged, Collides, IInv, TypeOK
  <2> HIDE DEF config, template
  <2> QED
    BY <1>2, <1>3, <2>1 DEF Plans
<1>5. Filled(template, config)
  BY PlanComplete DEF Order
<1>6. TypeOK'
  <2>1. /\ UNCHANGED <<base, own, env, rest, edits, cm, set, pod, pending, lost, faults>>
        /\ pc' = "config" /\ planned' = edits /\ failed' = FALSE
    BY DEF Plan, resource
  <2>2. planned' \in -1..MaxEdits
    BY <2>1, LimitAssumption DEF TypeOK
  <2> QED
    BY <1>4, <2>1, <2>2 DEF TypeOK
<1>7. Order'
  BY <1>2, <1>3, <1>4, <1>5 DEF Order, Kept, Plan, Filled
<1> QED
  BY <1>6, <1>7

\* The user's edits change neither the objects nor the plan.
LEMMA EditInv ==
  ASSUME IInv, Edit
  PROVE  IInv'
<1>1. base' \in Conf /\ own' \in Conf /\ env' \in Variable
  BY DEF Edit, IInv, TypeOK, Conf
<1>2. edits' \in 0..MaxEdits
  BY LimitAssumption DEF Edit, IInv, TypeOK
<1>3. TypeOK'
  BY <1>1, <1>2 DEF Edit, IInv, TypeOK, history
<1>4. Order'
  BY DEF Edit, IInv, Order, Kept, Filled
<1> QED
  BY <1>3, <1>4 DEF IInv

\* What a pod reads has the type of it.
LEMMA RunType ==
  ASSUME TypeOK, set # None
  PROVE  Run \in Files
<1>1. set \in Template
  BY DEF TypeOK
<1>2. [n \in Name |-> IF set.path # None /\ n \in set.volume.items
                      THEN cm[n] ELSE None] \in Content
  BY DEF TypeOK, Content
<1> QED
  BY <1>1, <1>2 DEF Run, Files, Template

\* The pods and the end of a reconcile touch neither ConfigMap nor template.
LEMMA PodInv ==
  ASSUME IInv,
         \/ Boot \/ RestartPods \/ NoRestart \/ CommandFails
         \/ WriteStatus \/ StatusConflict \/ Crash
  PROVE  IInv'
<1>1. /\ UNCHANGED <<base, own, env, rest, edits, cm, set, planned>>
      /\ pc' \in {pc, "status", "idle"}
      /\ pc' = "idle" \/ plan' = plan \/ plan' = [plan EXCEPT !.restart = FALSE]
      /\ pc' # "idle" /\ plan'.restart => plan.restart
      /\ plan' \in Plans
  <2>1. [plan EXCEPT !.restart = FALSE] \in Plans
    <3>1. plan \in Plans
      BY DEF IInv, TypeOK
    <3> QED
      BY <3>1 DEF Plans
  <2>2. CASE Boot
    BY <2>2 DEF Boot, resource, IInv, TypeOK
  <2>3. CASE RestartPods
    BY <2>1, <2>3 DEF RestartPods, resource, IInv, TypeOK, Plans
  <2>4. CASE NoRestart
    BY <2>4 DEF NoRestart, resource, history, IInv, TypeOK
  <2>5. CASE CommandFails
    BY <2>5 DEF CommandFails, resource, IInv, TypeOK
  <2>6. CASE WriteStatus \/ StatusConflict \/ Crash
    BY <2>6, NoPlanType DEF WriteStatus, StatusConflict, Crash, End, resource, history
  <2> QED
    BY <2>2, <2>3, <2>4, <2>5, <2>6
<1>2. pc' # "idle" => pc # "idle" \/ pc' = pc
  BY DEF Boot, RestartPods, NoRestart, CommandFails, WriteStatus, StatusConflict,
         Crash, End
<1>3. pod' \in Files \union {None}
  <2>1. CASE Boot \/ RestartPods
    <3>1. set # None /\ pod' \in {None, Run}
      BY <2>1 DEF IInv, Order, Boot, RestartPods
    <3> QED
      BY <3>1, RunType DEF IInv
  <2>2. CASE NoRestart \/ CommandFails \/ WriteStatus \/ StatusConflict \/ Crash
    BY <2>2
    DEF IInv, TypeOK, NoRestart, CommandFails, WriteStatus, StatusConflict, Crash
  <2> QED
    BY <2>1, <2>2
<1>4. pending' \in BOOLEAN /\ failed' \in BOOLEAN /\ lost' \in BOOLEAN
  <2>1. plan.restart \in BOOLEAN
    BY DEF IInv, TypeOK, Plans
  <2> QED
    BY <2>1 DEF IInv, TypeOK, Boot, RestartPods, NoRestart, CommandFails, WriteStatus,
                StatusConflict, Crash, Lose, history
<1>5. faults' \in 0..MaxFaults
  <2>1. faults' = faults \/ Fault
    BY DEF Boot, RestartPods, NoRestart, CommandFails, WriteStatus, StatusConflict, Crash
  <2> QED
    BY <2>1, LimitAssumption DEF IInv, TypeOK, Fault
<1>6. TypeOK'
  BY <1>1, <1>3, <1>4, <1>5 DEF IInv, TypeOK
<1>7. Order'
  <2>1. pc' # "idle" => plan'.set = plan.set /\ plan'.cm = plan.cm
    BY <1>1 DEF IInv, TypeOK, Plans
  <2>2. pc' # "idle" => pc' = "status" \/ pc' = pc
    BY <1>1
  <2> QED
    BY <1>1, <1>2, <2>1, <2>2 DEF IInv, Order, Kept, Filled
<1> QED
  BY <1>6, <1>7 DEF IInv

\* The ConfigMap is written first: it has what the old template mounts, as no
\* key is lost, and what the new one will mount.
LEMMA ConfigMapInv ==
  ASSUME IInv, WriteConfigMap
  PROVE  IInv'
<1>1. cm' = plan.cm /\ plan.cm \in Content /\ pc' = "set" /\ pc = "config"
      /\ UNCHANGED <<resource, set, pod, plan, pending, history, faults>>
  BY DEF WriteConfigMap, IInv, TypeOK, Plans
<1>2. TypeOK'
  BY <1>1 DEF IInv, TypeOK, resource, history
<1>3. ASSUME set # None, set.volume # None, NEW n \in set.volume.items
      PROVE  plan.cm[n] # None
  <2>1. n \in Name
    BY <1>3 DEF IInv, TypeOK, Template, Volume
  <2> QED
    BY <1>1, <1>3, <2>1 DEF IInv, Order, Filled, Kept
<1>4. Order'
  BY <1>1, <1>3 DEF IInv, Order, Filled
<1> QED
  BY <1>2, <1>4 DEF IInv

\* The template is written when the ConfigMap has what it mounts.
LEMMA SetInv ==
  ASSUME IInv, WriteSet
  PROVE  IInv'
<1>1. plan.set \in Template /\ cm = plan.cm /\ Filled(plan.set, plan.cm)
      /\ pc = "set" /\ pc' = "restart" /\ plan.set # None
      /\ UNCHANGED <<resource, cm, pod, plan, pending, history, faults>>
  BY DEF WriteSet, IInv, TypeOK, Order, Plans
<1>2. set' = set \/ set' = Admit(plan.set)
  BY DEF WriteSet
<1>3. Admit(plan.set) \in Template
  BY <1>1, AdmitType
<1>4. Filled(Admit(plan.set), cm)
  <2>1. plan.set.volume # None =>
          Admit(plan.set).volume.items = plan.set.volume.items
    BY <1>1 DEF Admit, Template, Volume
  <2>2. plan.set.volume = None => Admit(plan.set).volume = None
    BY <1>1 DEF Admit, Template
  <2> QED
    BY <1>1, <2>1, <2>2 DEF Filled
<1>5. TypeOK'
  BY <1>1, <1>2, <1>3 DEF IInv, TypeOK, resource, history
<1>6. set # None => Filled(set, cm)
  BY DEF IInv, Order
<1>7. Order'
  <2>1. ASSUME set' # None PROVE Filled(set', cm)
    BY <1>2, <1>4, <1>6, <2>1
  <2>2. plan.restart => set' # None
    BY <1>1, <1>3, NoneAssumption DEF WriteSet, IInv, Order
  <2> QED
    BY <1>1, <2>1, <2>2 DEF IInv, Order, Filled
<1> QED
  BY <1>5, <1>7 DEF IInv

\* The invariant holds always.
THEOREM Invariance == Spec => []IInv
<1>1. IInv /\ [Next]_vars => IInv'
  <2> SUFFICES ASSUME IInv, [Next]_vars PROVE IInv'
    OBVIOUS
  <2>1. CASE UNCHANGED vars
    BY <2>1 DEF IInv, TypeOK, Order, Kept, Filled, vars, resource, history
  <2> QED
    BY <2>1, EditInv, PlanInv, PodInv, ConfigMapInv, SetInv DEF Next
<1> QED
  BY InitInv, <1>1, PTL DEF Spec

\* TypeOK holds for any files, names and contents.
THEOREM TypeCorrect == Spec => []TypeOK
BY Invariance, PTL DEF IInv

\* Startable holds for any files, names and contents and any number of edits and
\* faults: whenever a pod starts, the ConfigMap has every file it mounts.
THEOREM PodsCanStart == Spec => []Startable
<1>1. IInv => Startable
  BY DEF IInv, Order, Filled, Startable
<1> QED
  BY Invariance, <1>1, PTL
-----------------------------------------------------------------------------
(* What pods run with.                                                     *)

SInv == IInv /\ ServedInv

\* A step that leaves the custom resource alone leaves alone what is wanted.
LEMMA SameWanted ==
  ASSUME UNCHANGED <<base, own, env, rest>>
  PROVE  /\ Given' = Given /\ BuildMount' = BuildMount /\ MergeConf' = MergeConf
         /\ (Collides <=> Collides') /\ BuildVolume' = BuildVolume
<1>1. Given' = Given /\ MergeConf' = MergeConf
  BY DEF Given, MergeConf
<1>2. QED
  BY <1>1 DEF BuildMount, Collides, BuildVolume

\* The desired ConfigMap has the wanted files, and so has what it is merged to.
LEMMA MergedIsWanted ==
  ASSUME TypeOK, NEW d \in ConfigMapData, ~Collides
  PROVE  /\ WantedFiles(IF Given = {} THEN cm ELSE MergeMap(cm, d))
         /\ WantedFiles(cm) => (IF Given = {} THEN cm ELSE MergeMap(cm, d)) = cm
<1>1. ASSUME NEW p \in Given
      PROVE  /\ p[2] \in Name /\ d[p[2]] = MergeConf[p] /\ MergeConf[p] # None
             /\ MergeMap(cm, d)[p[2]] = MergeConf[p]
  <2>1. p \in Property /\ p[2] \in Name /\ MergeConf[p] # None
    BY PropertyType DEF Given, MergeConf
  <2>2. {q \in Given : q[2] = p[2]} = {p}
    BY DEF Collides
  <2>3. DataOf(p[2]) = {MergeConf[p]}
    BY <2>2 DEF DataOf
  <2>4. d[p[2]] = MergeConf[p]
    BY <2>1, <2>3 DEF ConfigMapData
  <2>5. QED
    BY <2>1, <2>4 DEF MergeMap
<1>2. WantedFiles(MergeMap(cm, d))
  BY <1>1 DEF WantedFiles
<1>3. Given = {} => WantedFiles(cm)
  BY DEF WantedFiles
<1>4. ASSUME WantedFiles(cm)
      PROVE  MergeMap(cm, d) = cm
  <2>1. ASSUME NEW n \in Name
        PROVE  (IF d[n] # None THEN d[n] ELSE cm[n]) = cm[n]
    <3>1. CASE \E p \in Given : p[2] = n
      BY <1>1, <1>4, <3>1 DEF WantedFiles
    <3>2. CASE ~\E p \in Given : p[2] = n
      <4>1. DataOf(n) = {}
        BY <3>2 DEF DataOf
      <4>2. d[n] = None
        BY <4>1 DEF ConfigMapData
      <4>3. QED
        BY <4>2
    <3>3. QED
      BY <3>1, <3>2
  <2>2. cm = [n \in Name |-> cm[n]]
    BY DEF TypeOK, Content
  <2>3. QED
    BY <2>1, <2>2 DEF MergeMap
<1>5. QED
  BY <1>2, <1>3, <1>4

\* What is made is wanted, and stays so when it is merged.
LEMMA MergedTemplateIsWanted ==
  ASSUME TypeOK
  PROVE  /\ WantedTemplate(Make)
         /\ set # None => WantedTemplate(MergeTemplate(set, Make))
<1>1. /\ Make = [volume |-> BuildVolume, path |-> BuildMount, env |-> env,
                rest |-> rest]
      /\ Given # {} => /\ BuildVolume # None
                       /\ BuildVolume.items = {p[2] : p \in Given}
  BY TemplateType DEF Make, BuildVolume
<1>2. LET s == MergeTemplate(set, Make)
      IN  /\ s.path = BuildMount /\ s.env = env /\ s.rest = rest
          /\ Given # {} => s.volume = BuildVolume
  BY <1>1 DEF MergeTemplate
<1>3. QED
  BY <1>1, <1>2 DEF WantedTemplate

\* Of the same fingerprint, one template is wanted if the other one is.
LEMMA SameFingerIsWanted ==
  ASSUME NEW s, NEW t, PodSpecFinger(s) = PodSpecFinger(t), WantedTemplate(t)
  PROVE  WantedTemplate(s)
BY DEF PodSpecFinger, WantedTemplate

\* The API server's additions leave a wanted template wanted.
LEMMA AdmitIsWanted ==
  ASSUME NEW t \in Template, WantedTemplate(t), rest \in {"full", "brief"}
  PROVE  WantedTemplate(Admit(t))
<1>1. /\ Admit(t).path = t.path /\ Admit(t).env = t.env
      /\ t.rest = "full" => Admit(t).rest = "full"
      /\ t.volume # None => /\ Admit(t).volume.items = t.volume.items
                            /\ Admit(t).volume # None
  BY TemplateType DEF Admit, Template, Volume
<1>2. QED
  BY <1>1 DEF WantedTemplate

LEMMA ServedInit == Init => ServedInv
<1>1. Init => planned = -1 /\ edits = 0 /\ planned # edits /\ planned <= edits
  BY DEF Init
<1>2. QED
  BY <1>1 DEF Init, ServedInv, Wanted, Written, Due, Quiet, Complete, Executing

LEMMA ServedEdit ==
  ASSUME SInv, Edit
  PROVE  ServedInv'
<1>1. /\ edits' = edits + 1
      /\ UNCHANGED <<rest, cm, set, pod, pc, plan, pending, planned, failed, lost>>
  BY DEF Edit, history
<1>2. planned' <= edits' /\ planned' # edits'
  BY <1>1 DEF SInv, IInv, TypeOK, ServedInv
<1>3. Run' = Run
  BY <1>1 DEF Run
<1>4. QED
  BY <1>1, <1>2, <1>3
  DEF SInv, ServedInv, Wanted, Written, Due, Quiet, View, Complete, Asked, Executing

\* The plan is what the user wants; a Restart is left out only when nothing
\* that is written changes what pods see.
LEMMA ServedPlan ==
  ASSUME SInv, Plan
  PROVE  ServedInv'
<1>1. PICK d \in ConfigMapData :
        LET config   == IF Given = {} THEN cm ELSE MergeMap(cm, d)
            template == IF set = None THEN Make ELSE MergeTemplate(set, Make)
            changed  == set # None /\ TemplateChanged(set, template)
        IN  plan' = [cm      |-> config,
                     set     |-> template,
                     write   |-> set = None \/ changed,
                     restart |-> /\ set # None
                                 /\ \/ changed \/ pending
                                    \/ cm # NoFiles /\ config # cm,
                     edited  |-> planned # edits \/ failed,
                     collides |-> Collides]
  BY DEF Plan
<1> DEFINE template == IF set = None THEN Make ELSE MergeTemplate(set, Make)
           config   == IF Given = {} THEN cm ELSE MergeMap(cm, d)
           changed  == set # None /\ TemplateChanged(set, template)
<1>2. /\ plan'.cm = config /\ plan'.set = template
      /\ plan'.write <=> set = None \/ changed
      /\ plan'.restart <=> /\ set # None
                           /\ changed \/ pending \/ (cm # NoFiles /\ config # cm)
      /\ plan'.edited <=> planned # edits \/ failed
      /\ plan'.collides <=> Collides
  BY <1>1
<1>3. /\ pc = "idle" /\ pc' = "config" /\ planned' = edits /\ ~failed'
      /\ UNCHANGED <<base, own, env, rest, edits, cm, set, pod, pending, lost, faults>>
  BY DEF Plan, resource
<1>4. changed <=> set # None /\ PodSpecFinger(set) # PodSpecFinger(template)
  BY DEF TemplateChanged
<1>5. WantedTemplate(template) /\ (~Collides => WantedFiles(config))
  BY MergedTemplateIsWanted, MergedIsWanted DEF SInv, IInv
<1>6. Wanted'
  BY <1>2, <1>3, <1>5, SameWanted
  DEF Wanted, WantedTemplate, WantedFiles, Executing
<1>7. Written'
  BY <1>2, <1>3, <1>4 DEF Written
<1>8. Given # {} /\ set # None /\ ~changed => cm # NoFiles
  <2>1. SUFFICES ASSUME Given # {}, set # None, ~changed PROVE cm # NoFiles
    OBVIOUS
  <2>2. set.volume = template.volume
    BY <1>4, <2>1 DEF PodSpecFinger
  <2>3. PICK p \in Given : TRUE
    BY <2>1
  <2>4. set.volume # None /\ p[2] \in set.volume.items
    BY <1>5, <2>2, <2>3 DEF WantedTemplate
  <2>5. p[2] \in Name /\ cm[p[2]] # None
    BY <2>1, <2>4, PropertyType DEF Given, SInv, IInv, Order, Filled
  <2>6. QED
    BY <2>5 DEF NoFiles
<1>9. set # None /\ ~plan'.restart => ~plan'.write /\ config = cm /\ ~pending
  BY <1>2, <1>8
<1>10. Due'
  <2>1. Run' = Run
    BY <1>3 DEF Run
  <2>2. set = None => pod = None
    BY DEF SInv, ServedInv, Due
  <2>3. pod # None /\ ~lost /\ ~pending => View(pod) = View(Run)
    BY <1>3 DEF SInv, ServedInv, Due, Asked
  <2>4. QED
    BY <1>2, <1>3, <1>9, <2>1, <2>2, <2>3 DEF Due, View, Asked
<1>11. Quiet'
  <2>1. SUFFICES ASSUME planned = edits, ~failed
                 PROVE  /\ ~Collides => config = cm
                        /\ plan'.restart
                             => template.volume # None \/ template.rest = "brief"
    BY <1>2, <1>3 DEF Quiet
  <2>2. /\ set # None /\ WantedTemplate(set) /\ ~pending
        /\ ~Collides => WantedFiles(cm)
    BY <1>3, <2>1 DEF SInv, ServedInv, Wanted, Asked, Executing
  <2>3. ~Collides => config = cm
    BY <2>2, MergedIsWanted DEF SInv, IInv
  <2>4. ASSUME template.volume = None, template.rest # "brief"
        PROVE  ~plan'.restart
    <3>1. Given = {}
      BY <1>5, <2>4 DEF WantedTemplate
    <3>2. config = cm
      BY <3>1
    <3>3. template.volume = set.volume /\ template.rest = rest
      BY <2>2, <2>4, <3>1 DEF MergeTemplate, Make, BuildVolume
    <3>4. PodSpecFinger(set) = PodSpecFinger(template)
      BY <1>5, <2>2, <2>4, <3>3 DEF PodSpecFinger, WantedTemplate
    <3>5. QED
      BY <1>2, <1>4, <2>2, <3>2, <3>4
  <2>5. QED
    BY <2>3, <2>4
<1>12. planned' <= edits' /\ rest' \in {"full", "brief"} /\ Complete'
  BY <1>3 DEF SInv, IInv, TypeOK, ServedInv, Complete
<1>13. QED
  BY <1>6, <1>7, <1>10, <1>11, <1>12 DEF ServedInv

LEMMA ServedConfigMap ==
  ASSUME SInv, WriteConfigMap
  PROVE  ServedInv'
<1>1. /\ cm' = plan.cm /\ pc = "config" /\ pc' = "set"
      /\ UNCHANGED <<base, own, env, rest, edits, set, pod, plan, pending, planned,
                     failed, lost, faults>>
  BY DEF WriteConfigMap, resource, history
<1>2. Wanted'
  BY <1>1, SameWanted
  DEF SInv, ServedInv, Wanted, WantedTemplate, WantedFiles, Executing
<1>3. Due'
  <2>1. pod # None /\ ~plan.restart => cm' = cm
    BY <1>1 DEF SInv, ServedInv, Due
  <2>2. cm' = cm => Run' = Run
    BY <1>1 DEF Run
  <2>3. QED
    BY <1>1, <2>1, <2>2 DEF SInv, ServedInv, Due, View, Asked
<1>4. Written' /\ Quiet' /\ planned' <= edits' /\ rest' \in {"full", "brief"} /\ Complete'
  BY <1>1 DEF SInv, ServedInv, Written, Quiet, Complete, Executing
<1>5. QED
  BY <1>2, <1>3, <1>4 DEF ServedInv

LEMMA ServedSet ==
  ASSUME SInv, WriteSet
  PROVE  ServedInv'
<1>1. /\ set' = IF plan.write THEN Admit(plan.set) ELSE set
      /\ pc = "set" /\ pc' = "restart"
      /\ UNCHANGED <<base, own, env, rest, edits, cm, pod, plan, pending, planned,
                     failed, lost, faults>>
  BY DEF WriteSet, resource, history
<1>2. Wanted'
  BY <1>1, SameWanted
  DEF SInv, ServedInv, Wanted, WantedTemplate, WantedFiles, Executing
<1>3. Due'
  <2>1. pod # None /\ ~plan.restart => set # None /\ set' = set
    BY <1>1 DEF SInv, ServedInv, Due
  <2>2. set' = set => Run' = Run
    BY <1>1 DEF Run
  <2>3. set # None => set' # None
    <3>1. plan.set \in Template
      BY <1>1 DEF SInv, IInv, TypeOK, Order, Plans
    <3>2. Admit(plan.set) # None
      BY <3>1, AdmitType, NoneAssumption
    <3>3. QED
      BY <1>1, <3>2
  <2>4. QED
    BY <1>1, <2>1, <2>2, <2>3 DEF SInv, ServedInv, Due, View, Asked
<1>4. Complete'
  <2>1. plan.set \in Template
    BY <1>1 DEF SInv, IInv, TypeOK, Order, Plans
  <2>2. Admit(plan.set).rest # "brief"
    BY <2>1 DEF Admit, Template
  <2>3. QED
    BY <1>1, <2>2 DEF SInv, ServedInv, Complete
<1>5. Written' /\ Quiet' /\ planned' <= edits' /\ rest' \in {"full", "brief"}
  BY <1>1 DEF SInv, ServedInv, Written, Quiet, Executing
<1>6. QED
  BY <1>2, <1>3, <1>4, <1>5 DEF ServedInv

\* When the execution has got to its end, the set is as it was planned.
LEMMA WrittenIsWanted ==
  ASSUME SInv, pc = "restart", planned = edits, ~failed
  PROVE  /\ set # None /\ WantedTemplate(set)
         /\ ~Collides => WantedFiles(cm)
<1>1. /\ WantedTemplate(plan.set) /\ (~Collides => WantedFiles(plan.cm))
      /\ plan.set \in Template /\ cm = plan.cm /\ rest \in {"full", "brief"}
  BY DEF SInv, ServedInv, Wanted, Executing, IInv, Order, TypeOK, Plans
<1>2. CASE plan.write
  BY <1>1, <1>2, AdmitIsWanted, AdmitType, NoneAssumption
     DEF SInv, ServedInv, Written
<1>3. CASE ~plan.write
  BY <1>1, <1>3, SameFingerIsWanted DEF SInv, ServedInv, Written, Executing
<1>4. QED
  BY <1>1, <1>2, <1>3

LEMMA ServedRestart ==
  ASSUME SInv, RestartPods \/ NoRestart
  PROVE  ServedInv'
<1>1. /\ pc = "restart" /\ pc' = "status"
      /\ UNCHANGED <<base, own, env, rest, edits, cm, set, pending, planned, failed,
                     faults>>
      /\ ~plan'.restart
  BY DEF RestartPods, NoRestart, resource, history, SInv, IInv, TypeOK, Plans
<1>2. Wanted'
  BY <1>1, WrittenIsWanted, SameWanted
  DEF Wanted, WantedTemplate, WantedFiles, Executing, Asked
<1>3. Due'
  <2>1. Run' = Run
    BY <1>1 DEF Run
  <2>2. set = None => pod' = None
    BY DEF RestartPods, NoRestart, SInv, ServedInv, Due
  <2>3. pod' # None /\ ~lost' => View(pod') = View(Run)
    BY DEF RestartPods, NoRestart, history, SInv, ServedInv, Due, Asked
  <2>4. QED
    BY <1>1, <2>1, <2>2, <2>3 DEF Due, View
<1>4. Written' /\ Quiet' /\ planned' <= edits' /\ rest' \in {"full", "brief"} /\ Complete'
  BY <1>1 DEF SInv, ServedInv, Written, Quiet, Complete, Executing
<1>5. QED
  BY <1>2, <1>3, <1>4 DEF ServedInv

LEMMA ServedBoot ==
  ASSUME SInv, Boot
  PROVE  ServedInv'
<1>1. /\ set # None /\ pod' = Run
      /\ UNCHANGED <<base, own, env, rest, edits, cm, set, pending, pc, plan, planned,
                     failed>>
  BY DEF Boot, resource
<1>2. Run' = Run
  BY <1>1 DEF Run
<1>3. Wanted'
  BY <1>1, SameWanted
  DEF SInv, ServedInv, Wanted, WantedTemplate, WantedFiles, Executing, Asked
<1>4. Due' /\ Written' /\ Quiet' /\ planned' <= edits'
      /\ rest' \in {"full", "brief"} /\ Complete'
  BY <1>1, <1>2
  DEF SInv, ServedInv, Due, Written, Quiet, View, Complete, Executing, Asked
<1>5. QED
  BY <1>3, <1>4 DEF ServedInv

LEMMA ServedFails ==
  ASSUME SInv, CommandFails
  PROVE  ServedInv'
<1>1. /\ pc \in {"config", "set", "restart"} /\ pc' = "status" /\ failed'
      /\ UNCHANGED <<base, own, env, rest, edits, cm, set, pod, pending, plan,
                     planned, lost>>
  BY DEF CommandFails, resource
<1>2. Run' = Run
  BY <1>1 DEF Run
<1>3. QED
  BY <1>1, <1>2
  DEF SInv, ServedInv, Wanted, Due, Written, Quiet, View, Complete, Executing, Asked

\* The end of a reconcile: the status records the Restart that is due, or had
\* it before, or nothing was written, or it is lost.
LEMMA ServedEnd ==
  ASSUME SInv, WriteStatus \/ StatusConflict \/ Crash
  PROVE  ServedInv'
<1>1. /\ pc # "idle" /\ pc' = "idle"
      /\ UNCHANGED <<base, own, env, rest, edits, cm, set, pod, planned>>
  BY DEF WriteStatus, StatusConflict, Crash, End, resource, history
<1>2. Run' = Run
  BY <1>1 DEF Run
<1>3. Written' /\ Quiet' /\ planned' <= edits' /\ rest' \in {"full", "brief"} /\ Complete'
  BY <1>1 DEF SInv, ServedInv, Written, Quiet, Complete, Executing
<1>4. pod # None /\ ~lost' /\ ~pending' => View(pod) = View(Run)
  <2>1. CASE WriteStatus
    BY <2>1 DEF WriteStatus, history, SInv, ServedInv, Due, Asked
  <2>2. CASE StatusConflict \/ Crash
    BY <1>1, <2>2 DEF StatusConflict, Crash, Lose, SInv, ServedInv, Due, Asked
  <2> QED
    BY <2>1, <2>2
<1>5. Due'
  BY <1>1, <1>2, <1>4 DEF Due, View, Asked, SInv, ServedInv
<1>6. Wanted'
  <2>1. CASE WriteStatus
    <3>1. pc = "status" /\ pending' = plan.restart /\ UNCHANGED failed
      BY <2>1 DEF WriteStatus, history
    <3> QED
      BY <1>1, <3>1, SameWanted
      DEF SInv, ServedInv, Wanted, WantedTemplate, WantedFiles, Executing, Asked
  <2>2. CASE StatusConflict
    BY <1>1, <2>2 DEF StatusConflict, Wanted
  <2>3. CASE Crash
    BY <2>3 DEF Crash, Wanted
  <2> QED
    BY <2>1, <2>2, <2>3
<1>7. QED
  BY <1>3, <1>5, <1>6 DEF ServedInv

\* The invariant holds always.
THEOREM ServedInvariance == Spec => []SInv
<1>1. ServedInv /\ IInv /\ [Next]_vars => ServedInv'
  <2> SUFFICES ASSUME SInv, [Next]_vars PROVE ServedInv'
    BY DEF SInv
  <2>1. CASE UNCHANGED vars
    <3>1. /\ UNCHANGED <<base, own, env, rest, edits, cm, set, pod, pc, plan, pending,
                         planned, failed, lost>>
      BY <2>1 DEF vars, resource, history
    <3>2. Run' = Run
      BY <3>1 DEF Run
    <3>3. Wanted'
      BY <3>1, SameWanted
      DEF SInv, ServedInv, Wanted, WantedTemplate, WantedFiles, Executing, Asked
    <3>4. QED
      BY <3>1, <3>2, <3>3
      DEF SInv, ServedInv, Due, Written, Quiet, View, Complete, Executing, Asked
  <2> QED
    BY <2>1, ServedEdit, ServedPlan, ServedConfigMap, ServedSet, ServedRestart,
       ServedBoot, ServedFails, ServedEnd DEF Next
<1> QED
  BY Invariance, ServedInit, <1>1, PTL DEF Spec, SInv
-----------------------------------------------------------------------------
\* Served holds for any files, names and contents: after a reconcile that ended
\* well pods run with what the user wants, but for those whose Restart was lost
\* with a status that was not written.
THEOREM PodsAreServed == Spec => []Served
<1>1. ASSUME SInv, Settled, pod # None, ~Collides, ~lost
      PROVE  /\ pod.files = [n \in Name |->
                   IF \E p \in Given : p[2] = n
                   THEN MergeConf[CHOOSE p \in Given : p[2] = n] ELSE None]
             /\ pod.path = BuildMount
             /\ EnvFinger(pod.env) = EnvFinger(env)
  <2>1. set # None /\ WantedTemplate(set) /\ WantedFiles(cm) /\ View(pod) = View(Run)
    BY <1>1 DEF Settled, SInv, ServedInv, Wanted, Due, Executing, Asked
  <2>2. /\ pod.files = [n \in Name |-> IF set.path # None /\ n \in set.volume.items
                                       THEN cm[n] ELSE None]
        /\ pod.path = set.path /\ EnvFinger(pod.env) = EnvFinger(set.env)
    BY <2>1 DEF View, Run
  <2>3. set.path # None <=> Given # {}
    BY <2>1, MountNone DEF WantedTemplate
  <2>4. ASSUME NEW n \in Name
        PROVE  (IF set.path # None /\ n \in set.volume.items THEN cm[n] ELSE None)
                 = IF \E p \in Given : p[2] = n
                   THEN MergeConf[CHOOSE p \in Given : p[2] = n] ELSE None
    <3>1. CASE \E p \in Given : p[2] = n
      <4>1. (CHOOSE p \in Given : p[2] = n) \in Given
            /\ (CHOOSE p \in Given : p[2] = n)[2] = n
        BY <3>1
      <4>2. n \in set.volume.items /\ set.path # None
        BY <2>1, <2>3, <3>1 DEF WantedTemplate
      <4>3. QED
        BY <2>1, <3>1, <4>1, <4>2 DEF WantedFiles
    <3>2. CASE ~\E p \in Given : p[2] = n
      BY <2>1, <2>3, <3>2 DEF WantedTemplate
    <3>3. QED
      BY <3>1, <3>2
  <2>5. QED
    BY <2>1, <2>2, <2>4 DEF WantedTemplate
<1>2. SInv => Served
  BY <1>1 DEF Served
<1> QED
  BY ServedInvariance, <1>2, PTL

\* ConfigMapSettles holds for any files, names and contents.
THEOREM ConfigMapIsStable == Spec => ConfigMapSettles
<1>1. SInv /\ WriteConfigMap /\ cm' # cm => plan.edited \/ plan.collides
  BY DEF SInv, ServedInv, Quiet, WriteConfigMap, Executing
<1>2. SInv /\ [Next]_vars => [WriteConfigMap /\ cm' # cm => plan.edited \/ plan.collides]_vars
  BY <1>1
<1> QED
  BY ServedInvariance, <1>2, PTL DEF Spec, ConfigMapSettles

\* QuietIfComplete holds for any files, names and contents.
THEOREM CompleteNoRestart == Spec => QuietIfComplete
<1> DEFINE Filling == set.volume # None \/ set.rest = "completed"
<1>1. SInv /\ RestartPods /\ ~plan.edited => Filling
  <2>1. SUFFICES ASSUME SInv, RestartPods, ~plan.edited PROVE Filling
    OBVIOUS
  <2>2. /\ pc = "restart" /\ plan.set \in Template /\ set # None
        /\ plan.set.volume # None \/ plan.set.rest = "brief"
    BY <2>1
    DEF RestartPods, SInv, ServedInv, Quiet, Executing, IInv, Order, TypeOK, Plans
  <2>3. CASE plan.write
    <3>1. set = Admit(plan.set)
      BY <2>1, <2>2, <2>3 DEF SInv, ServedInv, Written
    <3>2. plan.set.volume # None => Admit(plan.set).volume \in Volume
      BY <2>2 DEF Admit, Template, Volume
    <3>3. plan.set.rest = "brief" => Admit(plan.set).rest = "completed"
      BY <2>2 DEF Admit, Template
    <3>4. QED
      BY <2>2, <3>1, <3>2, <3>3, NoneAssumption
  <2>4. CASE ~plan.write
    BY <2>1, <2>2, <2>4
    DEF SInv, ServedInv, Written, PodSpecFinger, Complete, Executing
  <2>5. QED
    BY <2>3, <2>4
<1>2. SInv /\ [Next]_vars => [RestartPods /\ ~plan.edited => Filling]_vars
  BY <1>1
<1> QED
  BY ServedInvariance, <1>2, PTL DEF Spec, QuietIfComplete
=============================================================================
