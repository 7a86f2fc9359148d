--------------------------- MODULE ChiDrainProofs ---------------------------
(***************************************************************************)
(* Theorems about ChiReconcile: what a pass does to the hosts that serve.  *)
(* It takes them out of service one at a time, whatever fails and wherever *)
(* it is abandoned, and drains each before its StatefulSet is changed.     *)
(***************************************************************************)
EXTENDS ChiHostProofs, FiniteSetTheorems

\* The hosts of the CHI that served when the pass began and do not serve now.
Out == (new.hosts \cap base) \ Serving

\* The steps of a host up to its StatefulSet ...
BeforeStatefulSet == {"excludeFromService", "excludeFromCluster", "hostConfigMap",
                      "statefulSet"}

\* ... and those of the "delete" policy of a failed create.
UndoSteps == {"undoScaleDown", "undoDelete", "undoPVC", "undoConfigMap", "undoService"}

\* A host that served answers again once its StatefulSet is done. Until then its
\* version label never makes a StatefulSet that lost its Pod look up to date; the
\* one that was scaled down is about to be deleted.
ReturnInv ==
    pc \in HostSteps /\ H \in base /\ ~new.stop =>
        /\ pc # "delete" /\ (stage = "down" \/ pc \in BeforeStatefulSet) =>
               pod[H] = "ready" \/ StatusOf(H, DesiredOf(new, "desired")) # "same"
        /\ \/ pc = "statefulSetDone" /\ stage = "desired" /\ err = "none"
           \/ pc \in AfterStatefulSet \ {"migratePing"}
           => pod[H] = "ready"

\* At most one host is out, and while the walk is on its way it is the current one.
OneOutInv ==
    ~new.stop =>
        /\ \A g, h \in Out : g = h
        /\ pc \notin HostSteps \cup {"idle", "fail"} => Out = {}
        /\ pc \in HostSteps => Out \subseteq {H}

\* The current host is drained.
Drained == ~ready[H] /\ (new.wait => H \notin rs)

\* The current host is drained from the moment its StatefulSet may be changed, unless
\* that StatefulSet is missing or up to date. Waiting for an update it is a new Pod
\* that may carry the ready label.
DrainInv ==
    ~new.stop /\ Cardinality(ShardHosts(new, H)) > 1 =>
        /\ pc = "excludeFromCluster" => ~ready[H]
        /\ pc \in HostSteps \ {"excludeFromService", "excludeFromCluster"} /\ stage = "down" =>
               Drained
        /\ pc \in {"hostConfigMap", "statefulSet"} =>
               Drained \/ StatusOf(H, Target) \in {"new", "same"}
        /\ pc \in {"update", "scaleDown", "delete"} => Drained
        /\ pc = "updateWait" /\ new.wait => H \notin rs

\* No host is taken down by the "delete" policy of a failed create.
NoUndo == pc \notin UndoSteps

\* The failures under which hosts are drained: the ConfigMap and the label can be
\* written, and no timeout is answered by a policy that restarts Pods on its own.
DrainPremise ==
    /\ {"cm", "label"} \cap Faults = {}
    /\ "timeout" \in Faults => OnUpdateFailure # "rollback" /\ OnCreateFailure # "delete"
-----------------------------------------------------------------------------
(* The host under work.                                                    *)

\* What the StatefulSet of a running host asks for; the first stage of a rolling
\* update asks for something else.
LEMMA TargetFacts ==
    ~new.stop => /\ DesiredOf(new, "desired").up
                 /\ Target.up <=> stage = "desired"
                 /\ stage = "desired" => Target = DesiredOf(new, "desired")
                 /\ stage # "desired" => Target # DesiredOf(new, "desired")
  <1> SUFFICES ASSUME ~new.stop
               PROVE  /\ DesiredOf(new, "desired").up
                      /\ Target.up <=> stage = "desired"
                      /\ stage = "desired" => Target = DesiredOf(new, "desired")
                      /\ stage # "desired" => Target # DesiredOf(new, "desired")
    OBVIOUS
  <1>1. DesiredOf(new, "desired").up /\ (Target.up <=> stage = "desired")
    BY DEF DesiredOf, Target
  <1> QED
    BY <1>1 DEF Target

\* A Pod that starts in the first stage of a rolling update is not one the stage asks
\* for: nothing times out there.
LEMMA DownNeverWaits ==
    ASSUME TypeInv, PodInv, WorkInv, pc \in {"updateWait", "createWait"},
           pod[H] = "starting"
    PROVE  stage = "desired"
  <1>1. H \in Hosts
    BY WalkFacts DEF TypeInv, WalkInv, HostSteps, H
  <1>2. sts[H].spec.up /\ sts[H].spec = Target
    BY <1>1 DEF PodInv, WorkInv, Written
  <1>3. Target.up => stage = "desired"
    BY DEF Target, DesiredOf
  <1> QED
    BY <1>2, <1>3

\* Every step on a host that served brings it back, or leaves it looking changed.
LEMMA ReturnStep ==
    ASSUME TypeInv, PodInv, WorkInv, OneOutInv, ReturnInv, [Next]_vars,
           {"ping", "remove"} \cap Faults = {}
    PROVE  ReturnInv'
  <1> DEFINE Wanted == DesiredOf(new, "desired")
             Honest == pod[H] = "ready" \/ StatusOf(H, Wanted) # "same"
  <1> SUFFICES ASSUME pc' \in HostSteps, (H \in base)', ~new'.stop
               PROVE  /\ pc' # "delete" /\ (stage' = "down" \/ pc' \in BeforeStatefulSet) =>
                             Honest'
                      /\ \/ pc' = "statefulSetDone" /\ stage' = "desired" /\ err' = "none"
                         \/ pc' \in AfterStatefulSet \ {"migratePing"}
                         => pod'[H'] = "ready"
    BY DEF ReturnInv
  <1> USE DEF Step, BeforeStatefulSet, AfterStatefulSet, AfterPVC, AfterService,
              passVars, hostVars
  <1>a. KubeTypeOK /\ (pc \in HostSteps => H \in Hosts)
    BY WalkFacts DEF TypeInv, TypeOK, WalkInv, H
  <1>b. UNCHANGED n => H' = H
    BY DEF H
  <1>c. UNCHANGED <<n, new, objs, sts>> => StatusOf(H, Wanted)' = StatusOf(H, Wanted)
    BY <1>b DEF StatusOf
  <1>1. CASE Prepare
    <2>1. /\ pc = "prepare" /\ H \in new.hosts \cap base /\ ~new.stop
          /\ UNCHANGED <<n, pod>> /\ H' = H
          /\ pc' \in {"excludeFromService", "hostConfigMap"}
      BY <1>1, <1>b DEF Prepare, kubeVars
    <2>2. Out = {}
      BY <2>1 DEF OneOutInv, HostSteps
    <2>3. pod[H] = "ready"
      BY <2>1, <2>2 DEF Out, Serving
    <2> QED
      BY <2>1, <2>3
  <1>2. CASE \/ (\E s \in Specs : ApplySpec(s)) \/ (\E h \in Hosts : PodReady(h))
             \/ EnsureFinalizer \/ UNCHANGED vars
    <2>1. UNCHANGED <<pc, n, new, base, objs, sts, stage, err>> /\ H' = H
      BY <1>2, <1>b DEF ApplySpec, PodReady, EnsureFinalizer, vars, kubeVars
    <2>2. pod[H] = "ready" => pod'[H] = "ready"
      BY <1>2, <1>a, <2>1 DEF ApplySpec, PodReady, EnsureFinalizer, vars, kubeVars, KubeTypeOK
    <2> QED
      BY <1>c, <2>1, <2>2 DEF ReturnInv
  <1>3. CASE ExcludeFromService \/ ExcludeFromCluster
    <2>1. /\ pc \in BeforeStatefulSet /\ pc \in HostSteps
          /\ pc' \in {"excludeFromCluster", "hostConfigMap"}
          /\ UNCHANGED <<n, new, base, objs, sts, pod, stage, err>> /\ H' = H
      BY <1>3, <1>b DEF ExcludeFromService, ExcludeFromCluster, kubeVars, HostSteps
    <2> QED
      BY <1>c, <2>1 DEF ReturnInv
  <1>4. CASE HostConfigMap
    <2>1. /\ pc = "hostConfigMap" /\ pc \in HostSteps /\ pc' = "statefulSet"
          /\ UNCHANGED <<n, new, base, sts, pod, stage, err>> /\ H' = H
          /\ objs' = objs \cup {<<"ConfigMap", H>>}
      BY <1>4, <1>b DEF HostConfigMap, HostSteps
    <2>2. StatusOf(H, Wanted)' = StatusOf(H, Wanted)
      BY <2>1 DEF StatusOf
    <2> QED
      BY <2>1, <2>2 DEF ReturnInv
  <1>5. CASE ReconcileStatefulSet
    <2>1. /\ pc = "statefulSet" /\ pc \in HostSteps
          /\ UNCHANGED <<n, new, base, objs, sts, pod, stage>> /\ H' = H
          /\ stat' = StatusOf(H, Target)
      BY <1>5, <1>b DEF ReconcileStatefulSet, HostSteps, kubeVars
    <2>2. pc' \in {"statefulSetDone", "create", "update", "scaleDown"}
          /\ (pc' = "statefulSetDone" => stat' = "same")
      BY <1>5 DEF ReconcileStatefulSet, StatusOf
    <2>3. Honest
      BY <2>1 DEF ReturnInv
    <2> QED
      BY <1>c, <2>1, <2>2, <2>3, TargetFacts
  <1>6. CASE Update
    <2>1. /\ pc = "update" /\ H \in Hosts /\ <<"StatefulSet", H>> \in objs /\ CurReady(H)
          /\ UNCHANGED <<n, new, base, stage>> /\ H' = H
      BY <1>6, <1>a, <1>b DEF Update, WorkInv, HostSteps
    <2>2. CASE KubeApply(H, [label |-> Target, spec |-> Target]) /\ pc' = "updateWait"
      <3>1. sts'[H].label = Target
        BY <1>a, <2>1, <2>2 DEF KubeApply, KubeTypeOK
      <3>2. stage' = "down" => StatusOf(H, Wanted)' # "same"
        BY <2>1, <3>1, TargetFacts DEF StatusOf
      <3> QED
        BY <2>2, <3>2
    <2>3. CASE /\ sts[H].spec = Target /\ sts' = [sts EXCEPT ![H].label = Target]
               /\ pc' = "statefulSetDone" /\ UNCHANGED <<objs, pod>>
      <3>1. sts'[H].label = Target
        BY <1>a, <2>1, <2>3 DEF KubeTypeOK, StsType
      <3>2. stage' = "down" => StatusOf(H, Wanted)' # "same"
        BY <2>1, <3>1, TargetFacts DEF StatusOf
      <3>3. stage' = "desired" => pod'[H'] = "ready"
        BY <2>1, <2>3, TargetFacts DEF CurReady
      <3> QED
        BY <2>3, <3>2, <3>3
    <2>4. CASE pc' = "scaleDown" /\ UNCHANGED kubeVars
      BY <1>c, <2>1, <2>4 DEF ReturnInv, kubeVars, HostSteps
    <2> QED
      BY <1>6, <2>2, <2>3, <2>4 DEF Update
  <1>7. CASE WaitPoll
    <2>1. /\ pc \in {"updateWait", "createWait"} /\ pc \in HostSteps
          /\ UNCHANGED <<pc, n, new, base, objs, sts, pod, stage, err>> /\ H' = H
      BY <1>7, <1>b DEF WaitPoll, HostSteps
    <2> QED
      BY <1>c, <2>1 DEF ReturnInv
  <1>8. CASE WaitDone
    <2>1. /\ pc \in {"updateWait", "createWait"} /\ pc \in HostSteps
          /\ pc' = "statefulSetDone" /\ CurReady(H) /\ Written
          /\ UNCHANGED <<n, new, base, objs, sts, pod, stage, err>> /\ H' = H
      BY <1>8, <1>b DEF WaitDone, WorkInv, HostSteps, kubeVars
    <2>2. stage = "desired" => pod[H] = "ready"
      BY <2>1, TargetFacts DEF CurReady, Written
    <2> QED
      BY <1>c, <2>1, <2>2 DEF ReturnInv
  <1>9. CASE UpdateFailed
    <2>1. pc = "updateWait" /\ pod[H] = "starting" /\ pc' = "scaleDown" /\ UNCHANGED stage
      BY <1>9 DEF UpdateFailed
    <2> QED
      BY <2>1, DownNeverWaits
  <1>10. CASE ScaleDown("scaleDown", "delete", "recreatePVCs")
    <2>1. /\ pc = "scaleDown" /\ pc \in HostSteps /\ UNCHANGED <<n, new, base, stage>> /\ H' = H
          /\ \/ pc' = "delete"
             \/ pc' = "recreatePVCs" /\ UNCHANGED kubeVars
      BY <1>10, <1>b DEF ScaleDown, HostSteps
    <2> QED
      BY <1>c, <2>1 DEF ReturnInv, kubeVars
  <1>11. CASE DeleteStatefulSet("delete", "recreatePVCs")
    <2>1. pc' = "recreatePVCs" /\ objs' = objs \ {<<"StatefulSet", H>>} /\ H' = H
      BY <1>11, <1>b DEF DeleteStatefulSet, KubeDelete
    <2> QED
      BY <2>1 DEF StatusOf
  <1>12. CASE ReconcilePVCs("recreatePVCs", "create")
    <2>1. /\ pc = "recreatePVCs" /\ pc \in HostSteps /\ pc' = "create"
          /\ UNCHANGED <<n, new, base, objs, sts, pod, stage>> /\ H' = H
      BY <1>12, <1>b DEF ReconcilePVCs, HostSteps
    <2> QED
      BY <1>c, <2>1 DEF ReturnInv
  <1>13. CASE Create
    <2>1. /\ pc = "create" /\ H \in Hosts /\ UNCHANGED <<n, new, base, stage>> /\ H' = H
      BY <1>13, <1>a, <1>b DEF Create, HostSteps
    <2>2. CASE KubeApply(H, [label |-> Target, spec |-> Target]) /\ pc' = "createWait"
      <3>1. sts'[H].label = Target
        BY <1>a, <2>1, <2>2 DEF KubeApply, KubeTypeOK
      <3>2. stage' = "down" => StatusOf(H, Wanted)' # "same"
        BY <2>1, <3>1, TargetFacts DEF StatusOf
      <3> QED
        BY <2>2, <3>2
    <2>3. CASE err' = "api" /\ pc' = "statefulSetDone" /\ UNCHANGED kubeVars
      BY <1>c, <2>1, <2>3 DEF ReturnInv, kubeVars, HostSteps
    <2> QED
      BY <1>13, <2>2, <2>3 DEF Create
  <1>14. CASE CreateFailed
    <2>1. /\ pc = "createWait" /\ pod[H] = "starting" /\ UNCHANGED stage
          /\ pc' \in {"undoScaleDown", "statefulSetDone"} /\ err' # "none"
      BY <1>14, PolicyAssumption DEF CreateFailed
    <2> QED
      BY <2>1, DownNeverWaits
  <1>15. CASE \/ ScaleDown("undoScaleDown", "undoDelete", "undoPVC")
              \/ DeleteStatefulSet("undoDelete", "undoPVC")
              \/ DeleteObject("undoPVC", "PVC", "undoConfigMap")
              \/ DeleteObject("undoConfigMap", "ConfigMap", "undoService")
              \/ DeleteObject("undoService", "Service", "statefulSetDone")
    <2>1. /\ stage' = "desired" /\ err' = "stop"
          /\ pc' \in {"undoDelete", "undoPVC", "undoConfigMap", "undoService",
                      "statefulSetDone"}
      BY <1>15 DEF ScaleDown, DeleteStatefulSet, DeleteObject, WorkInv
    <2> QED
      BY <2>1
  <1>16. CASE StatefulSetDone
    <2>1. /\ pc = "statefulSetDone" /\ pc \in HostSteps
          /\ UNCHANGED <<n, new, base, objs, sts, pod>> /\ H' = H
          /\ \/ stage = "down" /\ pc' = "statefulSet"
             \/ stage = "desired" /\ stage' = "desired" /\ err = "none" /\ pc' = "pvcs"
             \/ pc' = "fail"
      BY <1>16, <1>b DEF StatefulSetDone, HostSteps, kubeVars
    <2> QED
      BY <1>c, <2>1 DEF ReturnInv, HostSteps
  <1>17. CASE ReconcilePVCs("pvcs", "service") \/ HostService \/ IncludeInCluster
    <2>1. /\ pc \in AfterStatefulSet \ {"migratePing"} /\ pc' \in AfterStatefulSet
          /\ UNCHANGED <<n, new, base, pod, stage>> /\ H' = H
      BY <1>17, <1>b DEF ReconcilePVCs, HostService, IncludeInCluster, kubeVars
    <2>2. pc \in HostSteps /\ stage = "desired"
      BY <2>1 DEF WorkInv, HostSteps
    <2> QED
      BY <2>1, <2>2 DEF ReturnInv
  <1>18. CASE MigrateTables
    <2>1. /\ pc = "migrate" /\ pc \in HostSteps /\ UNCHANGED <<n, new, base, stage>> /\ H' = H
          /\ \/ pc' = "includeInCluster" /\ UNCHANGED pod
             \/ pc' = "migratePing"
      BY <1>18, <1>b DEF MigrateTables, HostSteps
    <2>2. stage = "desired"
      BY <2>1 DEF WorkInv
    <2> QED
      BY <2>1, <2>2 DEF ReturnInv
  <1>19. CASE MigratePing
    <2>1. /\ pc = "migratePing" /\ pc' = "includeInCluster" /\ pod[H] = "ready"
          /\ UNCHANGED <<pod, stage>> /\ H' = H
      BY <1>19, <1>b DEF MigratePing, kubeVars
    <2>2. stage = "desired"
      BY <2>1 DEF WorkInv
    <2> QED
      BY <2>1, <2>2
  <1>20. CASE \/ Start \/ Preliminary \/ NextHost \/ IncludeInService \/ Final \/ Clear
              \/ (\E o \in trash : Purge(o)) \/ Complete \/ Judge \/ Fail \/ Cancelled
              \/ Crash
    <2>1. pc' \notin HostSteps
      BY <1>20
         DEF Start, Preliminary, NextHost, IncludeInService, Final, Clear, Purge,
             Complete, Judge, Fail, Cancelled, Crash, HostSteps
    <2> QED
      BY <2>1
  <1> QED
    BY <1>1, <1>2, <1>3, <1>4, <1>5, <1>6, <1>7, <1>8, <1>9, <1>10, <1>11, <1>12,
       <1>13, <1>14, <1>15, <1>16, <1>17, <1>18, <1>19, <1>20
       DEF Next, Worker, ReconcileHost
-----------------------------------------------------------------------------
(* One host out at a time.                                                 *)

\* A step on the current host leaves the Pods of the other hosts alone.
LEMMA OthersLeftAlone ==
    ASSUME TypeInv, ReconcileHost
    PROVE  /\ UNCHANGED <<new, base>>
           /\ \A h \in Hosts \ {H} : pod'[h] = pod[h] /\ ready'[h] = ready[h]
  <1> USE DEF passVars, kubeVars
  <1>1. KubeTypeOK
    BY DEF TypeInv, TypeOK
  <1>2. \/ UNCHANGED <<pod, ready>>
        \/ pod' = [pod EXCEPT ![H] = pod'[H]] /\ UNCHANGED ready
        \/ ready' = [ready EXCEPT ![H] = ready'[H]] /\ UNCHANGED pod
        \/ /\ pod' = [pod EXCEPT ![H] = pod'[H]]
           /\ ready' = [ready EXCEPT ![H] = ready'[H]]
    BY <1>1
       DEF ReconcileHost, NextHost, Prepare, ExcludeFromService, ExcludeFromCluster,
           HostConfigMap, ReconcileStatefulSet, Update, WaitPoll, WaitDone, UpdateFailed,
           ScaleDown, DeleteStatefulSet, ReconcilePVCs, Create, CreateFailed,
           DeleteObject, StatefulSetDone, HostService, MigrateTables, MigratePing,
           IncludeInCluster, IncludeInService, KubeApply, KubeDelete, KubeTypeOK
  <1>3. UNCHANGED <<new, base>>
    BY DEF ReconcileHost, NextHost, Prepare, ExcludeFromService, ExcludeFromCluster,
           HostConfigMap, ReconcileStatefulSet, Update, WaitPoll, WaitDone, UpdateFailed,
           ScaleDown, DeleteStatefulSet, ReconcilePVCs, Create, CreateFailed,
           DeleteObject, StatefulSetDone, HostService, MigrateTables, MigratePing,
           IncludeInCluster, IncludeInService
  <1> QED
    BY <1>1, <1>2, <1>3 DEF KubeTypeOK

\* No step takes a second host out.
LEMMA OneOutStep ==
    ASSUME TypeInv, DoneInv, ReturnInv, OneOutInv, [Next]_vars, "label" \notin Faults
    PROVE  OneOutInv'
  <1> USE DEF Step, passVars, kubeVars
  <1>a. KubeTypeOK /\ (pc \in HostSteps => H \in Hosts)
    BY WalkFacts DEF TypeInv, TypeOK, WalkInv, H
  <1>b. new.hosts \subseteq Hosts
    BY SpecFacts DEF TypeInv, TypeOK, PassTypeOK, SpecType
  <1>1. CASE OnHost /\ ReconcileHost
    <2>1. /\ pc \in HostSteps /\ pc' \in HostSteps \cup {"fail"} /\ H' = H
          /\ UNCHANGED <<new, base>>
      BY <1>1, OthersLeftAlone DEF OnHost, H
    <2>2. Out' \subseteq Out \cup {H}
      BY <1>1, <1>b, <2>1, OthersLeftAlone DEF Out, Serving
    <2>3. ~new.stop => Out \subseteq {H}
      BY <2>1 DEF OneOutInv
    <2> QED
      BY <2>1, <2>2, <2>3 DEF OneOutInv, HostSteps
  <1>2. CASE NextHost \/ Prepare \/ Preliminary \/ Final \/ Clear \/ Complete
    <2>1. /\ pc \in {"prepare", "preliminary", "final", "clear", "purge"}
          /\ UNCHANGED <<new, base, pod, ready>>
      BY <1>2 DEF NextHost, Prepare, Preliminary, Final, Clear, Complete
    <2>2. Out' = Out /\ (~new.stop => Out = {})
      BY <2>1 DEF Out, Serving, OneOutInv, HostSteps
    <2> QED
      BY <2>1, <2>2 DEF OneOutInv
  <1>3. CASE IncludeInService
    <2>1. /\ pc = "includeInService" /\ pc \in HostSteps /\ pc' = "prepare"
          /\ UNCHANGED <<new, base, pod>> /\ H \in Hosts
          /\ ready' = [ready EXCEPT ![H] = pod[H] # "none"]
      BY <1>3, <1>a DEF IncludeInService, HostSteps
    <2>2. Out' \subseteq Out
      BY <1>a, <2>1 DEF Out, Serving, KubeTypeOK
    <2>3. ~new.stop /\ H \in base => pod'[H] = "ready" /\ ready'[H]
      BY <1>a, <2>1
         DEF ReturnInv, AfterStatefulSet, AfterPVC, AfterService, KubeTypeOK
    <2>4. ~new.stop => H \notin Out'
      BY <2>1, <2>3 DEF Out, Serving
    <2>5. ~new.stop => Out' = {}
      BY <2>1, <2>2, <2>4 DEF OneOutInv
    <2> QED
      BY <2>1, <2>5 DEF OneOutInv, HostSteps
  <1>4. CASE Start
    <2>1. base' = Serving /\ UNCHANGED <<pod, ready>>
      BY <1>4 DEF Start
    <2>2. Out' = {}
      BY <2>1 DEF Out, Serving
    <2> QED
      BY <2>2 DEF OneOutInv
  <1>5. CASE Judge \/ Fail \/ Cancelled
    <2>1. UNCHANGED <<new, base, pod, ready>> /\ pc' \in {"idle", "fail"}
      BY <1>5 DEF Judge, Fail, Cancelled
    <2>2. Out' = Out
      BY <2>1 DEF Out, Serving
    <2> QED
      BY <2>1, <2>2 DEF OneOutInv, HostSteps
  <1>6. CASE Crash
    <2>1. Out' = {}
      BY <1>6 DEF Crash, Out
    <2> QED
      BY <2>1 DEF OneOutInv
  <1>7. CASE \/ (\E s \in Specs : ApplySpec(s)) \/ (\E h \in Hosts : PodReady(h))
             \/ EnsureFinalizer \/ UNCHANGED vars
    <2>1. UNCHANGED <<pc, n, new, base, ready>> /\ H' = H
      BY <1>7 DEF ApplySpec, PodReady, EnsureFinalizer, vars, H
    <2>2. \A h \in Hosts : pod[h] = "ready" => pod'[h] = "ready"
      BY <1>7, <1>a DEF ApplySpec, PodReady, EnsureFinalizer, vars, KubeTypeOK
    <2>3. Out' \subseteq Out
      BY <2>1, <2>2 DEF Out, Serving
    <2> QED
      BY <2>1, <2>3 DEF OneOutInv
  <1>8. ASSUME NEW o \in trash, Purge(o)
        PROVE  OneOutInv'
    <2>1. pc = "purge" /\ UNCHANGED <<pc, new, base>>
      BY <1>8 DEF Purge
    <2>2. o = <<o[1], o[2]>> /\ o[2] \in Hosts
      BY DEF TypeInv, TypeOK, RegTypeOK, Objects
    <2>3. o[1] = "StatefulSet" => o[2] \notin new.hosts
      BY <2>1, <2>2 DEF DoneInv
    <2>4. \A h \in new.hosts : pod'[h] = pod[h] /\ ready'[h] = ready[h]
      BY <1>8, <1>a, <1>b, <2>2, <2>3 DEF Purge, KubeDelete, KubeTypeOK
    <2>5. Out' = Out
      BY <1>b, <2>1, <2>4 DEF Out, Serving
    <2> QED
      BY <2>1, <2>5 DEF OneOutInv, HostSteps
  <1> QED
    BY <1>1, <1>2, <1>3, <1>4, <1>5, <1>6, <1>7, <1>8, OnHostStep DEF Next, Worker

\* What is invariant of the hosts a pass takes out of service.
ServeInv == ReturnInv /\ OneOutInv

\* Before the first pass no host served.
LEMMA ServeInit == Init => ServeInv
  BY DEF Init, ServeInv, ReturnInv, OneOutInv, Out, HostSteps

\* A shard has at most one host out when the whole CHI has.
LEMMA OneOutCounted == OneOutInv => KeepsOthersServing
  <1> SUFFICES ASSUME OneOutInv, ~new.stop, NEW h \in new.hosts
               PROVE  Cardinality((ShardHosts(new, h) \cap base) \ Serving) <= 1
    BY DEF KeepsOthersServing
  <1> DEFINE down == (ShardHosts(new, h) \cap base) \ Serving
  <1>1. down \subseteq Out
    BY DEF ShardHosts, Out
  <1>2. CASE down = {}
    BY <1>2, FS_EmptySet
  <1>3. CASE down # {}
    <2>1. PICK g : g \in down
      BY <1>3
    <2>2. down = {g}
      BY <1>1, <2>1 DEF OneOutInv
    <2>3. Cardinality({g}) = 1
      BY FS_Singleton
    <2>4. Cardinality(down) = 1
      BY <2>2, <2>3
    <2> QED
      BY <2>4
  <1> QED
    BY <1>2, <1>3

\* Of the hosts of a shard that served when a pass began at most one is out of
\* service, at any moment of the pass and after it, for all installations, policies
\* and failures but three, all errors that reconcileHost drops: the ready label that
\* cannot be written back, ClickHouse that does not answer after its restart, and a
\* StatefulSet scaled to zero that cannot be deleted, as its label is not changed.
THEOREM OthersKeepServing ==
    ASSUME {"label", "ping", "remove"} \cap Faults = {}
    PROVE  Spec => []KeepsOthersServing
  <1>1. TypeInv /\ DelistInv /\ BuildInv /\ ServeInv /\ [Next]_vars => ServeInv'
    BY ReturnStep, OneOutStep DEF ServeInv, BuildInv
  <1>2. ServeInv => KeepsOthersServing
    BY OneOutCounted DEF ServeInv
  <1> QED
    BY <1>1, <1>2, TypeInit, TypeStep, DelistInit, DelistStep, BuildInit, BuildStep,
       ServeInit, PTL
       DEF Spec
-----------------------------------------------------------------------------
(* The drain.                                                              *)

\* The steps of the "delete" policy are reached through the timeout of a create only.
LEMMA NoUndoStep ==
    ASSUME NoUndo, [Next]_vars, DrainPremise
    PROVE  NoUndo'
  <1> USE DEF NoUndo, UndoSteps, Step
  <1>1. CASE ReconcileStatefulSet
    BY <1>1 DEF ReconcileStatefulSet, StatusOf
  <1>2. CASE ReconcileHost /\ ~ReconcileStatefulSet
    BY <1>2
       DEF DrainPremise, ReconcileHost, NextHost, Prepare, ExcludeFromService,
           ExcludeFromCluster, HostConfigMap, Update, WaitPoll,
           WaitDone, UpdateFailed, ScaleDown, DeleteStatefulSet, ReconcilePVCs, Create,
           CreateFailed, DeleteObject, StatefulSetDone, HostService, MigrateTables,
           MigratePing, IncludeInCluster, IncludeInService
  <1>3. CASE [Next]_vars /\ ~ReconcileHost
    BY <1>3
       DEF Next, Worker, vars, EnsureFinalizer, Start, Preliminary, Final, Clear, Purge,
           Complete, Judge, Fail, Cancelled, Crash, ApplySpec, PodReady
  <1> QED
    BY <1>1, <1>2, <1>3

\* A host stays drained until it is let back in.
LEMMA DrainStep ==
    ASSUME TypeInv, PodInv, WorkInv, NoUndo, DrainInv, [Next]_vars, DrainPremise
    PROVE  DrainInv'
  <1> SUFFICES ASSUME pc' \in HostSteps, ~new'.stop,
                      (Cardinality(ShardHosts(new, H)) > 1)'
               PROVE  /\ pc' = "excludeFromCluster" => ~ready'[H']
                      /\ /\ pc' \in HostSteps \ {"excludeFromService", "excludeFromCluster"}
                         /\ stage' = "down"
                         => Drained'
                      /\ pc' \in {"hostConfigMap", "statefulSet"} =>
                             Drained' \/ StatusOf(H, Target)' \in {"new", "same"}
                      /\ pc' \in {"update", "scaleDown", "delete"} => Drained'
                      /\ pc' = "updateWait" /\ new'.wait => H' \notin rs'
    BY DEF DrainInv, HostSteps
  <1> USE DEF Step, passVars, hostVars, kubeVars, NoUndo, UndoSteps
  <1>a. KubeTypeOK /\ (pc \in HostSteps => H \in Hosts)
    BY WalkFacts DEF TypeInv, TypeOK, WalkInv, H
  <1>b. UNCHANGED n => H' = H
    BY DEF H
  <1>c. UNCHANGED <<new, stage>> => Target' = Target
    BY DEF Target
  <1>d. UNCHANGED <<n, new>> =>
            ~new.stop /\ H' = H /\ Cardinality(ShardHosts(new, H)) > 1
    BY <1>b DEF ShardHosts
  <1>e. UNCHANGED <<n, new, ready, rs>> => (Drained' <=> Drained)
    BY <1>b DEF Drained
  <1>1. CASE \/ (\E s \in Specs : ApplySpec(s)) \/ (\E h \in Hosts : PodReady(h))
             \/ EnsureFinalizer \/ UNCHANGED vars
    <2>1. UNCHANGED <<pc, n, new, objs, sts, ready, rs, stage>>
      BY <1>1 DEF ApplySpec, PodReady, EnsureFinalizer, vars
    <2>2. StatusOf(H, Target)' = StatusOf(H, Target)
      BY <2>1, <1>b, <1>c DEF StatusOf
    <2> QED
      BY <2>1, <2>2, <1>d, <1>e DEF DrainInv
  <1>2. CASE Prepare
    <2>1. UNCHANGED <<n, new, objs, sts>> /\ stat' = StatusOf(H, DesiredOf(new, "desired"))
      BY <1>2 DEF Prepare
    <2>2. \/ pc' = "excludeFromService"
          \/ pc' = "hostConfigMap" /\ ~ShouldExclude(H, stat')
      BY <1>2 DEF Prepare
    <2>3. stage' = IF new.rolling THEN "down" ELSE "desired"
      BY <1>2 DEF Prepare
    <2>4. ~ShouldExclude(H, stat') => stat' \in {"new", "same"} /\ ~new.rolling
      BY <2>1, <1>d DEF ShouldExclude
    <2>5. stage' = "desired" => StatusOf(H, Target)' = stat'
      BY <2>1, <1>b DEF StatusOf, Target
    <2> QED
      BY <2>2, <2>3, <2>4, <2>5
  <1>3. CASE ExcludeFromService
    <2>1. /\ pc = "excludeFromService" /\ UNCHANGED <<n, new, rs>> /\ H \in Hosts
          /\ ready' = [ready EXCEPT ![H] = ready[H] /\ new.stop]
          /\ pc' = IF new.wait THEN "excludeFromCluster" ELSE "hostConfigMap"
      BY <1>3, <1>a DEF ExcludeFromService, DrainPremise, HostSteps
    <2>2. ~ready'[H']
      BY <2>1, <1>a, <1>d DEF KubeTypeOK
    <2> QED
      BY <2>1, <2>2 DEF Drained
  <1>4. CASE ExcludeFromCluster
    <2>1. /\ pc = "excludeFromCluster" /\ UNCHANGED <<n, new, ready>>
          /\ rs' = RemoteServers(added \cup {H}) /\ pc' = "hostConfigMap"
      BY <1>4 DEF ExcludeFromCluster, DrainPremise
    <2>2. Drained'
      BY <2>1, <1>d DEF Drained, RemoteServers, DrainInv
    <2> QED
      BY <2>1, <2>2
  <1>5. CASE HostConfigMap
    <2>1. /\ pc = "hostConfigMap" /\ pc' = "statefulSet"
          /\ UNCHANGED <<n, new, sts, ready, rs, stage>>
          /\ objs' = objs \cup {<<"ConfigMap", H>>}
      BY <1>5 DEF HostConfigMap, HostSteps
    <2>2. StatusOf(H, Target)' = StatusOf(H, Target)
      BY <2>1, <1>b, <1>c DEF StatusOf
    <2> QED
      BY <2>1, <2>2, <1>d, <1>e DEF DrainInv, HostSteps
  <1>6. CASE ReconcileStatefulSet
    <2>1. pc = "statefulSet" /\ UNCHANGED <<n, new, ready, rs, stage>>
      BY <1>6 DEF ReconcileStatefulSet
    <2>2. \/ StatusOf(H, Target) = "same" /\ pc' = "statefulSetDone"
          \/ StatusOf(H, Target) = "new" /\ pc' = "create"
          \/ /\ StatusOf(H, Target) \notin {"new", "same"}
             /\ pc' \in {"update", "scaleDown"}
      BY <1>6 DEF ReconcileStatefulSet, StatusOf
    <2> QED
      BY <2>1, <2>2, <1>d, <1>e DEF DrainInv, HostSteps
  <1>7. CASE Update
    <2>1. pc = "update" /\ UNCHANGED <<n, new, rs, stage>> /\ H \in Hosts
      BY <1>7, <1>a DEF Update, HostSteps
    <2>2. Drained /\ H' = H /\ ~new.stop
      BY <2>1, <1>d DEF DrainInv
    <2>3. CASE KubeApply(H, [label |-> Target, spec |-> Target]) /\ pc' = "updateWait"
      <3>1. ready'[H] = Target.up
        BY <1>a, <2>1, <2>3 DEF KubeApply, KubeTypeOK
      <3> QED
        BY <2>1, <2>2, <2>3, <3>1, TargetFacts DEF Drained
    <2>4. CASE pc' \in {"statefulSetDone", "scaleDown"} /\ UNCHANGED ready
      BY <2>1, <2>2, <2>4, <1>e
    <2> QED
      BY <1>7, <2>3, <2>4 DEF Update
  <1>8. CASE WaitPoll
    <2>1. /\ pc \in {"updateWait", "createWait"} /\ UNCHANGED <<pc, n, new, rs, stage>>
          /\ H \in Hosts /\ ready' = [ready EXCEPT ![H] = FALSE]
      BY <1>8, <1>a DEF WaitPoll, HostSteps
    <2>2. ~ready'[H]
      BY <2>1, <1>a DEF KubeTypeOK
    <2> QED
      BY <2>1, <2>2, <1>d DEF DrainInv, Drained, HostSteps
  <1>9. CASE WaitDone \/ CreateFailed
    <2>1. /\ pc \in {"updateWait", "createWait"} /\ UNCHANGED <<n, new, rs, ready, stage>>
          /\ pc' \in {"statefulSetDone"}
      BY <1>9 DEF WaitDone, CreateFailed, DrainPremise
    <2> QED
      BY <2>1, <1>d, <1>e DEF DrainInv, HostSteps
  <1>10. CASE UpdateFailed
    <2>1. /\ pc = "updateWait" /\ UNCHANGED <<n, new, rs, ready>> /\ ~ready[H]
          /\ pc' = "scaleDown"
      BY <1>10 DEF UpdateFailed, DrainPremise
    <2>2. Drained
      BY <2>1, <1>d DEF DrainInv, Drained
    <2> QED
      BY <2>1, <2>2, <1>e
  <1>11. CASE ScaleDown("scaleDown", "delete", "recreatePVCs")
    <2>1. /\ pc = "scaleDown" /\ UNCHANGED <<n, new, rs, stage>> /\ H \in Hosts
          /\ pc' \in {"delete", "recreatePVCs"}
      BY <1>11, <1>a DEF ScaleDown, HostSteps
    <2>2. Drained /\ H' = H
      BY <2>1, <1>d DEF DrainInv
    <2>3. ~ready'[H]
      <3>1. sts[H].spec \in StsSpec
        BY <2>1, <1>a DEF KubeTypeOK, StsType
      <3>2. [sts[H].spec EXCEPT !.up = FALSE].up = FALSE
        BY <3>1 DEF StsSpec
      <3> QED
        BY <1>11, <1>a, <2>1, <2>2, <3>2 DEF ScaleDown, KubeApply, KubeTypeOK, Drained
    <2> QED
      BY <2>1, <2>2, <2>3 DEF Drained
  <1>12. CASE DeleteStatefulSet("delete", "recreatePVCs")
    <2>1. /\ pc = "delete" /\ UNCHANGED <<n, new, rs, stage>> /\ H \in Hosts
          /\ pc' = "recreatePVCs"
          /\ ready' = [ready EXCEPT ![H] = FALSE] \/ UNCHANGED ready
      BY <1>12, <1>a DEF DeleteStatefulSet, KubeDelete, HostSteps
    <2>2. Drained /\ H' = H /\ ~ready'[H]
      BY <2>1, <1>a, <1>d DEF DrainInv, Drained, KubeTypeOK
    <2> QED
      BY <2>1, <2>2 DEF Drained
  <1>13. CASE ReconcilePVCs("recreatePVCs", "create") \/ ReconcilePVCs("pvcs", "service")
              \/ HostService \/ MigrateTables \/ MigratePing \/ StatefulSetDone
    <2>1. /\ pc \in HostSteps \ {"excludeFromService", "excludeFromCluster"}
          /\ UNCHANGED <<n, new, rs, ready>>
          /\ pc' \in {"create", "service", "migrate", "migratePing", "includeInCluster",
                      "pvcs", "statefulSet"}
      BY <1>13 DEF ReconcilePVCs, HostService, MigrateTables, MigratePing,
                   StatefulSetDone, HostSteps
    <2>2. \/ UNCHANGED stage /\ pc' # "statefulSet"
          \/ stage = "down" /\ stage' = "desired"
      BY <1>13 DEF ReconcilePVCs, HostService, MigrateTables, MigratePing,
                   StatefulSetDone, HostSteps
    <2>3. stage = "down" => Drained'
      BY <2>1, <1>d, <1>e DEF DrainInv
    <2> QED
      BY <2>1, <2>2, <2>3
  <1>14. CASE Create
    <2>1. pc = "create" /\ pc \in HostSteps /\ UNCHANGED <<n, new, rs, stage>> /\ H \in Hosts
      BY <1>14, <1>a DEF Create, HostSteps
    <2>2. stage = "down" => Drained /\ H' = H
      BY <2>1, <1>d DEF DrainInv
    <2>3. CASE KubeApply(H, [label |-> Target, spec |-> Target]) /\ pc' = "createWait"
      <3>1. ready'[H] = Target.up
        BY <1>a, <2>1, <2>3 DEF KubeApply, KubeTypeOK
      <3> QED
        BY <2>1, <2>2, <2>3, <3>1, <1>d, TargetFacts DEF Drained
    <2>4. CASE pc' = "statefulSetDone" /\ UNCHANGED ready
      BY <2>1, <2>2, <2>4, <1>e
    <2> QED
      BY <1>14, <2>3, <2>4 DEF Create
  <1>15. CASE IncludeInCluster
    <2>1. pc = "includeInCluster" /\ pc' = "includeInService" /\ UNCHANGED stage
      BY <1>15 DEF IncludeInCluster
    <2>2. stage = "desired"
      BY <2>1 DEF WorkInv, AfterStatefulSet, AfterPVC, AfterService
    <2> QED
      BY <2>1, <2>2
  <1>16. CASE \/ Start \/ Preliminary \/ NextHost \/ IncludeInService \/ Final \/ Clear
              \/ (\E o \in trash : Purge(o)) \/ Complete \/ Judge \/ Fail \/ Cancelled
              \/ Crash
    <2>1. pc' \notin HostSteps
      BY <1>16
         DEF Start, Preliminary, NextHost, IncludeInService, Final, Clear, Purge,
             Complete, Judge, Fail, Cancelled, Crash, HostSteps
    <2> QED
      BY <2>1
  <1>17. CASE \/ ScaleDown("undoScaleDown", "undoDelete", "undoPVC")
              \/ DeleteStatefulSet("undoDelete", "undoPVC")
              \/ DeleteObject("undoPVC", "PVC", "undoConfigMap")
              \/ DeleteObject("undoConfigMap", "ConfigMap", "undoService")
              \/ DeleteObject("undoService", "Service", "statefulSetDone")
    BY <1>17 DEF ScaleDown, DeleteStatefulSet, DeleteObject
  <1> QED
    BY <1>1, <1>2, <1>3, <1>4, <1>5, <1>6, <1>7, <1>8, <1>9, <1>10, <1>11, <1>12,
       <1>13, <1>14, <1>15, <1>16, <1>17
       DEF Next, Worker, ReconcileHost

\* A Pod that answers loses its StatefulSet as it was only on a drained host.
LEMMA RestartStep ==
    ASSUME TypeInv, PodInv, DoneInv, NoUndo, DrainInv, [Next]_vars, DrainPremise,
           NEW h \in new.hosts, pod[h] = "ready", pod'[h] # "ready", sts'[h] # sts[h],
           ~new.stop, Cardinality(ShardHosts(new, h)) > 1
    PROVE  ~ready[h] /\ (new.wait => h \notin rs)
  <1> USE DEF Step, NoUndo, UndoSteps, kubeVars
  <1>a. KubeTypeOK /\ (pc \in HostSteps => H \in Hosts)
    BY WalkFacts DEF TypeInv, TypeOK, WalkInv, H
  <1>b. h \in Hosts
    BY SpecFacts DEF TypeInv, TypeOK, PassTypeOK, SpecType
  <1>1. ASSUME \/ Update \/ ScaleDown("scaleDown", "delete", "recreatePVCs")
               \/ DeleteStatefulSet("delete", "recreatePVCs")
        PROVE  h = H /\ pc \in {"update", "scaleDown", "delete"}
    <2>1. pc \in {"update", "scaleDown", "delete"} /\ H \in Hosts
      BY <1>1, <1>a DEF Update, ScaleDown, DeleteStatefulSet, HostSteps
    <2>2. \A g \in Hosts \ {H} : sts'[g] = sts[g]
      BY <1>1, <1>a, <2>1
         DEF Update, ScaleDown, DeleteStatefulSet, KubeApply, KubeDelete, KubeTypeOK
    <2> QED
      BY <1>b, <2>1, <2>2
  <1>2. CASE Create
    <2>1. CASE KubeApply(H, [label |-> Target, spec |-> Target])
      <3>1. h = H
        BY <1>2, <1>a, <1>b, <2>1 DEF Create, KubeApply, KubeTypeOK, HostSteps
      <3> QED
        BY <1>2, <1>b, <2>1, <3>1 DEF Create, PodInv
    <2> QED
      BY <1>2, <2>1 DEF Create
  <1>3. ASSUME NEW o \in trash, Purge(o)
        PROVE  FALSE
    <2>1. o = <<o[1], o[2]>> /\ o[2] \in Hosts
      BY DEF TypeInv, TypeOK, RegTypeOK, Objects
    <2>2. o[1] = "StatefulSet" => o[2] # h
      BY <1>3, <2>1 DEF DoneInv, Purge
    <2> QED
      BY <1>3, <1>a, <1>b, <2>1, <2>2 DEF Purge, KubeDelete, KubeTypeOK
  <1>4. sts' # sts
    OBVIOUS
  <1>5. \/ Update \/ ScaleDown("scaleDown", "delete", "recreatePVCs")
        \/ DeleteStatefulSet("delete", "recreatePVCs")
        \/ Create \/ \E o \in trash : Purge(o)
    BY <1>4
       DEF Next, Worker, ReconcileHost, vars, EnsureFinalizer, Start, Preliminary,
           NextHost, Prepare, ExcludeFromService, ExcludeFromCluster, HostConfigMap,
           ReconcileStatefulSet, WaitPoll, WaitDone, UpdateFailed, CreateFailed,
           ReconcilePVCs, StatefulSetDone, HostService, MigrateTables, MigratePing,
           IncludeInCluster, IncludeInService, DeleteObject, ScaleDown,
           DeleteStatefulSet, Final, Clear, Complete, Judge, Fail, Cancelled, Crash,
           ApplySpec, PodReady, DrainPremise
  <1> QED
    BY <1>1, <1>2, <1>3, <1>5 DEF DrainInv, Drained

\* Before the first pass there is nothing to drain.
LEMMA DrainInit == Init => DrainInv /\ NoUndo
  BY DEF Init, DrainInv, NoUndo, UndoSteps, HostSteps

\* A Pod in service in a replicated shard is drained before its StatefulSet is
\* changed, for all installations, whatever is cancelled or lost in a crash, and for
\* all failures but the ones named: a ConfigMap or a label that cannot be written,
\* errors excludeHost drops, and a timeout answered by a rollback or a delete, which
\* start from a new Pod or from a host that was never excluded.
THEOREM DrainedFirst ==
    ASSUME DrainPremise
    PROVE  Spec => DrainBeforeRestart
  <1>1. TypeInv /\ DelistInv /\ BuildInv /\ DrainInv /\ NoUndo /\ [Next]_vars =>
            DrainInv' /\ NoUndo'
    BY DrainStep, NoUndoStep DEF BuildInv
  <1>2. TypeInv /\ BuildInv /\ DrainInv /\ NoUndo /\ [Next]_vars =>
          [\A h \in new.hosts :
             /\ pod[h] = "ready" /\ pod'[h] # "ready" /\ sts'[h] # sts[h]
             /\ ~new.stop /\ Cardinality(ShardHosts(new, h)) > 1
             => ~ready[h] /\ (new.wait => h \notin rs)]_vars
    BY RestartStep DEF BuildInv
  <1> QED
    BY <1>1, <1>2, TypeInit, TypeStep, DelistInit, DelistStep, BuildInit, BuildStep,
       DrainInit, PTL
       DEF Spec, DrainBeforeRestart
=============================================================================
