-------------------------- MODULE ChiHostProofs --------------------------
(***************************************************************************)
(* Theorems about ChiReconcile: a host is admitted only when it is built,  *)
(* and the status Running is written only for hosts that are built, listed *)
(* and answer. Both come from an invariant that follows the StatefulSet of *)
(* the host under work through update, recreate and the failure policies.  *)
(***************************************************************************)
EXTENDS ChiReconcileProofs

\* Only a StatefulSet that asks for a Pod has one.
PodInv ==
    \A h \in Hosts : pod[h] # "none" => <<"StatefulSet", h>> \in objs /\ sts[h].spec.up

\* The StatefulSet of the current host was just written as the CHI asks for it.
Written == <<"StatefulSet", H>> \in objs /\ sts[H] = [label |-> Target, spec |-> Target]

\* What is known of the StatefulSet of the current host while it is worked on.
WorkInv ==
    /\ pc \in AfterConfigMap =>
           /\ <<"ConfigMap", H>> \in reconciled
           /\ <<"ConfigMap", H>> \in objs \/ ErrorUnderway
    /\ pc \in {"undoScaleDown", "undoDelete", "undoPVC", "undoConfigMap", "undoService"} =>
           stage = "desired" /\ err = "stop"
    /\ pc = "update" => <<"StatefulSet", H>> \in objs /\ CurReady(H)
    /\ pc \in {"updateWait", "createWait"} => Written
    /\ pc = "statefulSetDone" /\ stage = "desired" /\ err = "none" =>
           IF stat = "same" THEN StatusOf(H, Target) = "same" ELSE Written
    /\ pc \in AfterStatefulSet =>
           Built(new, H) /\ stage = "desired" /\ (stat = "same" \/ Written)

\* A host of the CHI is done: built, and its ConfigMap beyond the cleanup (for the
\* StatefulSet DelistInv says so).
Done(h) == Built(new, h) /\ <<"ConfigMap", h>> \in reconciled

\* Hosts behind the walk are done, and stay so through the cleanup.
DoneInv ==
    /\ pc \in HostSteps \cup {"prepare", "final", "clear"} =>
           \A i \in 1 .. n - 1 : Walk[i] \in new.hosts => Done(Walk[i])
    /\ pc \in {"purge", "ping"} =>
           /\ rs = new.hosts
           /\ \A h \in new.hosts : Built(new, h)
    /\ pc = "purge" =>
           \A h \in new.hosts : {<<"StatefulSet", h>>, <<"ConfigMap", h>>} \cap trash = {}

\* A host that the CHI added keeps the attribute until it is done.
AddedInv ==
    pc \in HostSteps \cup {"preliminary", "prepare"} =>
        \A h \in new.hosts \ old.hosts :
            \/ h \in added
            \/ \E i \in 1 .. n - 1 : Walk[i] = h
            \/ pc \in AfterService /\ h = H

BuildInv == PodInv /\ WorkInv /\ DoneInv /\ AddedInv

-----------------------------------------------------------------------------
(* The actions on the current host leave the other hosts alone.            *)

\* A step on the current host that stays on it, or fails: the objects of the other
\* hosts are as they were, and what is reconciled stays so.
OnHost ==
    /\ pc \in HostSteps /\ pc' \in HostSteps \cup {"fail"}
    /\ UNCHANGED <<old, new, n>> /\ reconciled \subseteq reconciled'
    /\ \A h \in Hosts \ {H} :
           /\ sts'[h] = sts[h]
           /\ \A kind \in Kinds : <<kind, h>> \in objs' <=> <<kind, h>> \in objs

\* The actions of reconcileHost between its first and its last step are such.
LEMMA OnHostStep ==
    ASSUME TypeInv, ReconcileHost
    PROVE  OnHost \/ NextHost \/ Prepare \/ IncludeInService
  <1> USE DEF OnHost, HostSteps, passVars, regVars, kubeVars, Step
  <1>a. sts \in [Hosts -> StsType]
    BY DEF TypeInv, TypeOK, KubeTypeOK
  <1>1. CASE ExcludeFromService
    BY <1>a, <1>1 DEF ExcludeFromService
  <1>2. CASE ExcludeFromCluster
    BY <1>a, <1>2 DEF ExcludeFromCluster
  <1>3. CASE HostConfigMap
    BY <1>a, <1>3 DEF HostConfigMap
  <1>4. CASE ReconcileStatefulSet
    BY <1>a, <1>4 DEF ReconcileStatefulSet, StatusOf
  <1>5. CASE Update
    BY <1>a, <1>5 DEF Update, KubeApply
  <1>6. CASE WaitPoll
    BY <1>a, <1>6 DEF WaitPoll
  <1>7. CASE WaitDone
    BY <1>a, <1>7 DEF WaitDone
  <1>8. CASE UpdateFailed
    BY <1>a, <1>8 DEF UpdateFailed, KubeApply
  <1>9. CASE ScaleDown("scaleDown", "delete", "recreatePVCs")
    BY <1>a, <1>9 DEF ScaleDown, KubeApply
  <1>10. CASE ScaleDown("undoScaleDown", "undoDelete", "undoPVC")
    BY <1>a, <1>10 DEF ScaleDown, KubeApply
  <1>11. CASE DeleteStatefulSet("delete", "recreatePVCs")
    BY <1>a, <1>11 DEF DeleteStatefulSet, KubeDelete
  <1>12. CASE DeleteStatefulSet("undoDelete", "undoPVC")
    BY <1>a, <1>12 DEF DeleteStatefulSet, KubeDelete
  <1>13. CASE ReconcilePVCs("recreatePVCs", "create")
    BY <1>a, <1>13 DEF ReconcilePVCs
  <1>14. CASE ReconcilePVCs("pvcs", "service")
    BY <1>a, <1>14 DEF ReconcilePVCs
  <1>15. CASE Create
    BY <1>a, <1>15 DEF Create, KubeApply
  <1>16. CASE CreateFailed
    BY <1>a, <1>16 DEF CreateFailed
  <1>17. CASE DeleteObject("undoPVC", "PVC", "undoConfigMap")
    BY <1>a, <1>17 DEF DeleteObject
  <1>18. CASE DeleteObject("undoConfigMap", "ConfigMap", "undoService")
    BY <1>a, <1>18 DEF DeleteObject
  <1>19. CASE DeleteObject("undoService", "Service", "statefulSetDone")
    BY <1>a, <1>19 DEF DeleteObject
  <1>20. CASE StatefulSetDone
    BY <1>a, <1>20 DEF StatefulSetDone
  <1>21. CASE HostService
    BY <1>a, <1>21 DEF HostService
  <1>22. CASE MigrateTables
    BY <1>a, <1>22 DEF MigrateTables
  <1>23. CASE MigratePing
    BY <1>a, <1>23 DEF MigratePing
  <1>24. CASE IncludeInCluster
    BY <1>a, <1>24 DEF IncludeInCluster
  <1> QED
    BY <1>1, <1>2, <1>3, <1>4, <1>5, <1>6, <1>7, <1>8, <1>9, <1>10, <1>11,
       <1>12, <1>13, <1>14, <1>15, <1>16, <1>17, <1>18, <1>19, <1>20, <1>21,
       <1>22, <1>23, <1>24
       DEF ReconcileHost

-----------------------------------------------------------------------------
(* Only a StatefulSet that asks for a Pod has one.                         *)

\* Kubernetes keeps it so when a StatefulSet is written ...
LEMMA PodApply ==
    ASSUME KubeTypeOK, PodInv, NEW h \in Hosts, NEW v, KubeApply(h, v)
    PROVE  PodInv'
  BY DEF PodInv, KubeApply, KubeTypeOK

\* ... and deleted ...
LEMMA PodDelete ==
    ASSUME KubeTypeOK, PodInv, NEW h \in Hosts, KubeDelete(h)
    PROVE  PodInv'
  BY DEF PodInv, KubeDelete, KubeTypeOK

\* ... and other objects do not matter.
LEMMA PodStay ==
    ASSUME PodInv, UNCHANGED <<pod, sts>>,
           \A h \in Hosts : <<"StatefulSet", h>> \in objs => <<"StatefulSet", h>> \in objs'
    PROVE  PodInv'
  BY DEF PodInv

\* No step makes a Pod that no StatefulSet asks for; the restart of ClickHouse in
\* migrateTables is one of a StatefulSet that was just written.
LEMMA PodStep == TypeInv /\ PodInv /\ WorkInv /\ [Next]_vars => PodInv'
  <1> SUFFICES ASSUME TypeInv, PodInv, WorkInv, [Next]_vars PROVE PodInv'
    OBVIOUS
  <1>a. KubeTypeOK /\ (pc \in HostSteps => H \in Hosts)
    BY WalkFacts DEF TypeInv, TypeOK, WalkInv, H
  <1>1. CASE Update
    <2>1. H \in Hosts
      BY <1>1, <1>a DEF Update, Step, HostSteps
    <2>2. CASE KubeApply(H, [label |-> Target, spec |-> Target])
      BY <1>a, <2>1, <2>2, PodApply
    <2>3. CASE sts' = [sts EXCEPT ![H].label = Target] /\ UNCHANGED <<objs, pod>>
      <3>1. \A h \in Hosts : sts'[h].spec = sts[h].spec
        BY <1>a, <2>1, <2>3 DEF KubeTypeOK, StsType
      <3> QED
        BY <2>3, <3>1 DEF PodInv
    <2>4. CASE UNCHANGED kubeVars
      BY <2>4, PodStay DEF kubeVars
    <2> QED
      BY <1>1, <2>2, <2>3, <2>4 DEF Update
  <1>2. CASE UpdateFailed
    <2>1. H \in Hosts
      BY <1>2, <1>a DEF UpdateFailed, Step, HostSteps
    <2>2. CASE KubeApply(H, [label |-> sts[H].label, spec |-> cur])
      BY <1>a, <2>1, <2>2, PodApply
    <2>3. CASE UNCHANGED kubeVars
      BY <2>3, PodStay DEF kubeVars
    <2> QED
      BY <1>2, <2>2, <2>3 DEF UpdateFailed
  <1>3. CASE Create
    <2>1. H \in Hosts
      BY <1>3, <1>a DEF Create, Step, HostSteps
    <2>2. CASE KubeApply(H, [label |-> Target, spec |-> Target])
      BY <1>a, <2>1, <2>2, PodApply
    <2>3. CASE UNCHANGED kubeVars
      BY <2>3, PodStay DEF kubeVars
    <2> QED
      BY <1>3, <2>2, <2>3 DEF Create
  <1>4. ASSUME NEW at \in HostSteps, NEW then, NEW skip, ScaleDown(at, then, skip)
        PROVE  PodInv'
    <2>1. H \in Hosts
      BY <1>4, <1>a DEF ScaleDown, Step
    <2> DEFINE zero == [label |-> sts[H].label, spec |-> [sts[H].spec EXCEPT !.up = FALSE]]
    <2>2. CASE KubeApply(H, zero)
      BY <1>a, <2>1, <2>2, PodApply
    <2>3. CASE UNCHANGED kubeVars
      BY <2>3, PodStay DEF kubeVars
    <2> QED
      BY <1>4, <2>2, <2>3 DEF ScaleDown
  <1>5. ASSUME NEW at \in HostSteps, NEW then, DeleteStatefulSet(at, then)
        PROVE  PodInv'
    <2>1. H \in Hosts
      BY <1>5, <1>a DEF DeleteStatefulSet, Step
    <2>2. CASE KubeDelete(H)
      BY <1>a, <2>1, <2>2, PodDelete
    <2>3. CASE UNCHANGED kubeVars
      BY <2>3, PodStay DEF kubeVars
    <2> QED
      BY <1>5, <2>2, <2>3 DEF DeleteStatefulSet
  <1>6. CASE MigrateTables
    <2>1. pc \in AfterStatefulSet /\ H \in Hosts
      BY <1>6, <1>a
         DEF MigrateTables, Step, AfterStatefulSet, AfterPVC, AfterService, HostSteps
    <2>2. CASE ~new.stop /\ stat # "same" /\ pod' = [pod EXCEPT ![H] = "starting"]
      <3>1. Written /\ stage = "desired"
        BY <2>1, <2>2 DEF WorkInv
      <3>2. Target.up
        BY <2>2, <3>1 DEF Target, DesiredOf
      <3>3. <<"StatefulSet", H>> \in objs /\ sts[H].spec.up
        BY <3>1, <3>2 DEF Written
      <3> QED
        BY <1>6, <2>2, <3>3 DEF MigrateTables, PodInv
    <2>3. CASE UNCHANGED pod
      BY <1>6, <2>3, PodStay DEF MigrateTables
    <2> QED
      BY <1>6, <2>2, <2>3 DEF MigrateTables
  <1>7. CASE \E h \in Hosts : PodReady(h)
    BY <1>7 DEF PodReady, PodInv
  <1>8. ASSUME NEW o \in trash, Purge(o)
        PROVE  PodInv'
    <2>1. o = <<o[1], o[2]>> /\ o[2] \in Hosts
      BY DEF TypeInv, TypeOK, RegTypeOK, Objects
    <2>2. CASE KubeDelete(o[2])
      BY <1>a, <2>1, <2>2, PodDelete
    <2>3. CASE o[1] # "StatefulSet" /\ objs' = objs \ {o} /\ UNCHANGED <<sts, pod>>
      BY <2>1, <2>3, PodStay
    <2>4. CASE UNCHANGED kubeVars
      BY <2>4, PodStay DEF kubeVars
    <2> QED
      BY <1>8, <2>2, <2>3, <2>4 DEF Purge
  <1>9. CASE \/ HostConfigMap \/ HostService
             \/ DeleteObject("undoPVC", "PVC", "undoConfigMap")
             \/ DeleteObject("undoConfigMap", "ConfigMap", "undoService")
             \/ DeleteObject("undoService", "Service", "statefulSetDone")
    <2>1. UNCHANGED <<pod, sts>>
      BY <1>9 DEF HostConfigMap, HostService, DeleteObject
    <2>2. \A h \in Hosts : <<"StatefulSet", h>> \in objs => <<"StatefulSet", h>> \in objs'
      BY <1>9 DEF HostConfigMap, HostService, DeleteObject
    <2> QED
      BY <2>1, <2>2, PodStay
  <1>10. CASE UNCHANGED <<objs, sts, pod>>
    BY <1>10, PodStay
  <1>11. \/ UNCHANGED <<objs, sts, pod>>
         \/ HostConfigMap \/ Update \/ UpdateFailed \/ Create \/ MigrateTables
         \/ HostService
         \/ ScaleDown("scaleDown", "delete", "recreatePVCs")
         \/ ScaleDown("undoScaleDown", "undoDelete", "undoPVC")
         \/ DeleteStatefulSet("delete", "recreatePVCs")
         \/ DeleteStatefulSet("undoDelete", "undoPVC")
         \/ DeleteObject("undoPVC", "PVC", "undoConfigMap")
         \/ DeleteObject("undoConfigMap", "ConfigMap", "undoService")
         \/ DeleteObject("undoService", "Service", "statefulSetDone")
         \/ (\E h \in Hosts : PodReady(h)) \/ (\E o \in trash : Purge(o))
    BY DEF Next, Worker, ReconcileHost, kubeVars, vars, EnsureFinalizer, Start,
           Preliminary, NextHost, Prepare, ExcludeFromService, ExcludeFromCluster,
           ReconcileStatefulSet, WaitPoll, WaitDone, CreateFailed, ReconcilePVCs,
           StatefulSetDone, MigratePing, IncludeInCluster, IncludeInService,
           Final, Clear, Complete, Judge, Fail, Cancelled, Crash, ApplySpec
  <1> QED
    BY <1>1, <1>2, <1>3, <1>4, <1>5, <1>6, <1>7, <1>8, <1>9, <1>10, <1>11
       DEF HostSteps

-----------------------------------------------------------------------------
(* The StatefulSet of the current host.                                    *)

\* Nothing is claimed of a host before its ConfigMap.
LEMMA WorkBefore == pc' \notin AfterConfigMap => WorkInv'
  BY DEF WorkInv, AfterConfigMap, AfterStatefulSet, AfterPVC, AfterService, HostSteps

\* Behind the StatefulSet the ConfigMap and the StatefulSet are left alone.
LEMMA WorkAfter ==
    ASSUME WorkInv, pc \in AfterStatefulSet, pc' \in AfterStatefulSet,
           UNCHANGED <<new, n, sts, stat, stage>>,
           {<<"StatefulSet", H>>, <<"ConfigMap", H>>} \cap objs \subseteq objs',
           reconciled \subseteq reconciled'
    PROVE  WorkInv'
  <1> USE DEF AfterStatefulSet, AfterPVC, AfterService
  <1>1. H' = H /\ Target' = Target
    BY DEF H, Target
  <1>2. Built(new, H) /\ stage = "desired" /\ (stat = "same" \/ Written)
    BY DEF WorkInv
  <1>3. Built(new, H)' /\ <<"ConfigMap", H>> \in objs'
    BY <1>1, <1>2 DEF Built
  <1>4. Written => Written'
    BY <1>1 DEF Written
  <1>5. <<"ConfigMap", H>>' \in reconciled'
    BY <1>1 DEF WorkInv, AfterConfigMap, HostSteps
  <1> QED
    BY <1>1, <1>2, <1>3, <1>4, <1>5 DEF WorkInv

\* What is known of the current host is kept as long as nothing it is about changes;
\* a Pod that gets ready is not one of a StatefulSet about to be updated.
LEMMA WorkStay ==
    ASSUME TypeInv, PodInv, WorkInv,
           UNCHANGED <<pc, n, new, objs, sts, stat, stage, err, reconciled>>,
           UNCHANGED pod \/ \E h \in Hosts : PodReady(h)
    PROVE  WorkInv'
  <1>1. H' = H /\ Target' = Target /\ (ErrorUnderway' <=> ErrorUnderway)
    BY DEF H, Target, ErrorUnderway
  <1>2. (Written' <=> Written) /\ StatusOf(H, Target)' = StatusOf(H, Target)
        /\ (Built(new, H)' <=> Built(new, H))
    BY <1>1 DEF Written, StatusOf, Built
  <1>3. ASSUME pc = "update", CurReady(H)
        PROVE  CurReady(H)'
    <2>1. H \in Hosts
      BY <1>3, WalkFacts DEF TypeInv, WalkInv, HostSteps, H
    <2>2. pod'[H] = pod[H] \/ (pod[H] = "starting" /\ pod'[H] = "ready")
      BY <2>1 DEF PodReady, TypeInv, TypeOK, KubeTypeOK
    <2>3. pod[H] = "starting" => sts[H].spec.up
      BY <2>1 DEF PodInv
    <2> QED
      BY <1>1, <1>3, <2>2, <2>3 DEF CurReady
  <1> QED
    BY <1>1, <1>2, <1>3 DEF WorkInv

\* Every step on the current host keeps what is known of it.
LEMMA WorkStep == TypeInv /\ PodInv /\ WorkInv /\ [Next]_vars => WorkInv'
  <1> SUFFICES ASSUME TypeInv, PodInv, WorkInv, [Next]_vars PROVE WorkInv'
    OBVIOUS
  <1> USE DEF Step, AfterConfigMap, AfterStatefulSet, AfterPVC, AfterService, HostSteps,
              passVars, hostVars, regVars, kubeVars, ErrorUnderway
  <1>a. KubeTypeOK /\ (pc \in HostSteps => H \in Hosts)
    BY WalkFacts DEF TypeInv, TypeOK, WalkInv, H
  <1>b. UNCHANGED n => H' = H
    BY DEF H
  <1>c. UNCHANGED <<new, stage>> => Target' = Target
    BY DEF Target
  <1>1. CASE HostConfigMap
    <2>1. pc' = "fail" \/ /\ pc' = "statefulSet" /\ UNCHANGED n
                          /\ <<"ConfigMap", H>> \in objs' \cap reconciled'
      BY <1>1 DEF HostConfigMap
    <2> QED
      BY <1>b, <2>1, WorkBefore DEF WorkInv
  <1>2. CASE ReconcileStatefulSet
    <2>1. /\ <<"ConfigMap", H>> \in objs /\ <<"ConfigMap", H>> \in reconciled
          /\ pc = "statefulSet" /\ UNCHANGED <<objs, sts, pod, reconciled, n, new, stage>>
      BY <1>2 DEF ReconcileStatefulSet, WorkInv
    <2>2. H' = H /\ Target' = Target
      BY <1>b, <1>c, <2>1
    <2>3. stat' = StatusOf(H, Target) /\ stat' \in {"new", "same", "modified"}
      BY <1>2 DEF ReconcileStatefulSet, StatusOf
    <2>4. \/ pc' = "statefulSetDone" /\ stat' = "same"
          \/ pc' \in {"create", "scaleDown"}
          \/ pc' = "update" /\ stat' = "modified" /\ CurReady(H)
      BY <1>2, <2>3 DEF ReconcileStatefulSet
    <2>5. StatusOf(H, Target)' = StatusOf(H, Target) /\ (CurReady(H)' <=> CurReady(H))
      BY <2>1, <2>2 DEF StatusOf, CurReady
    <2>6. stat' = "modified" => <<"StatefulSet", H>> \in objs
      BY <2>3 DEF StatusOf
    <2> QED
      BY <2>1, <2>2, <2>3, <2>4, <2>5, <2>6 DEF WorkInv
  <1>3. CASE Update
    <2>1. /\ H \in Hosts /\ H' = H /\ Target' = Target
          /\ <<"ConfigMap", H>> \in objs /\ <<"ConfigMap", H>> \in reconciled
          /\ <<"StatefulSet", H>> \in objs /\ UNCHANGED reconciled
      BY <1>a, <1>b, <1>c, <1>3 DEF Update, WorkInv
    <2>2. CASE KubeApply(H, [label |-> Target, spec |-> Target]) /\ pc' = "updateWait"
      <3>1. Written' /\ objs \subseteq objs'
        BY <1>a, <2>1, <2>2 DEF Written, KubeApply, KubeTypeOK
      <3> QED
        BY <2>1, <2>2, <3>1 DEF WorkInv
    <2>3. CASE /\ sts[H].spec = Target /\ sts' = [sts EXCEPT ![H].label = Target]
               /\ pc' = "statefulSetDone" /\ UNCHANGED objs
      <3>1. sts'[H] = [label |-> Target, spec |-> Target]
        BY <1>a, <2>1, <2>3 DEF KubeTypeOK, StsType
      <3>2. Written' /\ StatusOf(H, Target)' = "same"
        BY <2>1, <2>3, <3>1 DEF Written, StatusOf
      <3> QED
        BY <2>1, <2>3, <3>2 DEF WorkInv
    <2>4. CASE pc' = "scaleDown" /\ UNCHANGED objs
      BY <2>1, <2>4 DEF WorkInv
    <2> QED
      BY <1>3, <2>2, <2>3, <2>4 DEF Update
  <1>4. CASE WaitPoll
    BY <1>4, WorkStay DEF WaitPoll
  <1>5. CASE WaitDone
    <2>1. /\ <<"ConfigMap", H>> \in objs /\ <<"ConfigMap", H>> \in reconciled /\ Written
          /\ pc' = "statefulSetDone" /\ UNCHANGED <<objs, sts, reconciled, n, new, stage>>
      BY <1>5 DEF WaitDone, WorkInv
    <2>2. H' = H /\ Target' = Target
      BY <1>b, <1>c, <2>1
    <2>3. Written' /\ StatusOf(H, Target)' = "same"
      BY <2>1, <2>2 DEF Written, StatusOf
    <2> QED
      BY <2>1, <2>2, <2>3 DEF WorkInv
  <1>6. CASE UpdateFailed
    <2>1. /\ <<"ConfigMap", H>> \in objs' /\ <<"ConfigMap", H>> \in reconciled'
          /\ pc' = "scaleDown" /\ H' = H
      BY <1>b, <1>6 DEF UpdateFailed, WorkInv, KubeApply
    <2> QED
      BY <2>1 DEF WorkInv
  <1>7. CASE Create
    <2>1. /\ H \in Hosts /\ H' = H /\ Target' = Target
          /\ <<"ConfigMap", H>> \in objs /\ <<"ConfigMap", H>> \in reconciled
          /\ UNCHANGED reconciled
      BY <1>a, <1>b, <1>c, <1>7 DEF Create, WorkInv
    <2>2. CASE KubeApply(H, [label |-> Target, spec |-> Target]) /\ pc' = "createWait"
      <3>1. Written' /\ objs \subseteq objs'
        BY <1>a, <2>1, <2>2 DEF Written, KubeApply, KubeTypeOK
      <3> QED
        BY <2>1, <2>2, <3>1 DEF WorkInv
    <2>3. CASE err' = "api" /\ pc' = "statefulSetDone" /\ UNCHANGED objs
      BY <2>1, <2>3 DEF WorkInv
    <2> QED
      BY <1>7, <2>2, <2>3 DEF Create
  <1>8. CASE CreateFailed
    <2>1. /\ <<"ConfigMap", H>> \in objs /\ <<"ConfigMap", H>> \in reconciled /\ H' = H
          /\ UNCHANGED <<objs, reconciled, stage>> /\ Written /\ pod[H] = "starting"
      BY <1>b, <1>8 DEF CreateFailed, WorkInv
    <2>2. stage = "desired"
      <3>1. sts[H].spec.up /\ sts[H].spec = Target
        BY <1>8, <1>a, <2>1 DEF CreateFailed, PodInv, Written
      <3>2. Target.up = (~new.stop /\ stage = "desired")
        BY DEF Target, DesiredOf
      <3> QED
        BY <3>1, <3>2
    <2>3. \/ err' = "stop" /\ pc' = "undoScaleDown"
          \/ err' # "none" /\ pc' = "statefulSetDone"
      BY <1>8, PolicyAssumption DEF CreateFailed
    <2> QED
      BY <2>1, <2>2, <2>3 DEF WorkInv
  <1>9. CASE ScaleDown("scaleDown", "delete", "recreatePVCs")
    <2>1. /\ <<"ConfigMap", H>> \in objs' /\ <<"ConfigMap", H>> \in reconciled'
          /\ pc' \in {"delete", "recreatePVCs"} /\ H' = H
      BY <1>b, <1>9 DEF ScaleDown, WorkInv, KubeApply
    <2> QED
      BY <2>1 DEF WorkInv
  <1>10. CASE DeleteStatefulSet("delete", "recreatePVCs")
    <2>1. /\ <<"ConfigMap", H>> \in objs' /\ <<"ConfigMap", H>> \in reconciled'
          /\ pc' = "recreatePVCs" /\ H' = H
      BY <1>b, <1>10 DEF DeleteStatefulSet, WorkInv, KubeDelete
    <2> QED
      BY <2>1 DEF WorkInv
  <1>11. CASE ReconcilePVCs("recreatePVCs", "create")
    <2>1. /\ <<"ConfigMap", H>> \in objs' /\ <<"ConfigMap", H>> \in reconciled'
          /\ pc' = "create" /\ H' = H
      BY <1>b, <1>11 DEF ReconcilePVCs, WorkInv
    <2> QED
      BY <2>1 DEF WorkInv
  <1>12. CASE \/ ScaleDown("undoScaleDown", "undoDelete", "undoPVC")
              \/ DeleteStatefulSet("undoDelete", "undoPVC")
              \/ DeleteObject("undoPVC", "PVC", "undoConfigMap")
              \/ DeleteObject("undoConfigMap", "ConfigMap", "undoService")
              \/ DeleteObject("undoService", "Service", "statefulSetDone")
    <2>1. /\ stage' = "desired" /\ err' = "stop"
          /\ pc' \in {"undoDelete", "undoPVC", "undoConfigMap", "undoService",
                      "statefulSetDone"}
      BY <1>12 DEF ScaleDown, DeleteStatefulSet, DeleteObject, WorkInv
    <2>2. <<"ConfigMap", H>>' \in reconciled'
      BY <1>b, <1>12 DEF ScaleDown, DeleteStatefulSet, DeleteObject, WorkInv
    <2> QED
      BY <2>1, <2>2 DEF WorkInv
  <1>13. CASE StatefulSetDone
    <2>1. /\ <<"ConfigMap", H>> \in reconciled' /\ H' = H
          /\ UNCHANGED <<objs, sts, new, stat>>
      BY <1>b, <1>13 DEF StatefulSetDone, WorkInv
    <2>2. CASE stage = "down" /\ pc' = "statefulSet"
      BY <1>13, <2>1, <2>2 DEF StatefulSetDone, WorkInv
    <2>3. CASE stage = "desired" /\ err = "none" /\ pc' = "pvcs"
      <3>1. <<"ConfigMap", H>> \in objs /\ UNCHANGED stage /\ Target' = Target
        BY <1>13, <1>c, <2>1, <2>3 DEF StatefulSetDone, WorkInv
      <3>2. IF stat = "same" THEN StatusOf(H, Target) = "same" ELSE Written
        BY <1>13, <2>3 DEF StatefulSetDone, WorkInv
      <3>3. <<"StatefulSet", H>> \in objs /\ sts[H].label = Target
        BY <3>2 DEF StatusOf, Written
      <3>4. Built(new, H)'
        BY <2>1, <2>3, <3>1, <3>3 DEF Built, Target
      <3>5. stat' = "same" \/ Written'
        BY <2>1, <3>1, <3>2 DEF Written
      <3> QED
        BY <2>1, <2>3, <3>1, <3>4, <3>5 DEF WorkInv
    <2>4. CASE pc' = "fail"
      BY <2>4, WorkBefore
    <2> QED
      BY <1>13, <2>2, <2>3, <2>4 DEF StatefulSetDone
  <1>14. CASE \/ ReconcilePVCs("pvcs", "service") \/ HostService
              \/ MigrateTables \/ MigratePing \/ IncludeInCluster
    <2>1. /\ pc \in AfterStatefulSet /\ pc' \in AfterStatefulSet
          /\ UNCHANGED <<new, n, sts, stat, stage>> /\ reconciled \subseteq reconciled'
      BY <1>14 DEF ReconcilePVCs, HostService, MigrateTables, MigratePing, IncludeInCluster
    <2>2. {<<"StatefulSet", H>>, <<"ConfigMap", H>>} \cap objs \subseteq objs'
      BY <1>14 DEF ReconcilePVCs, HostService, MigrateTables, MigratePing, IncludeInCluster
    <2> QED
      BY <2>1, <2>2, WorkAfter
  <1>15. CASE \/ EnsureFinalizer \/ (\E s \in Specs : ApplySpec(s))
              \/ (\E h \in Hosts : PodReady(h)) \/ UNCHANGED vars
    <2>1. UNCHANGED <<pc, n, new, objs, sts, stat, stage, err, reconciled>>
      BY <1>15 DEF EnsureFinalizer, ApplySpec, PodReady, vars
    <2>2. UNCHANGED pod \/ \E h \in Hosts : PodReady(h)
      BY <1>15 DEF EnsureFinalizer, ApplySpec, vars
    <2> QED
      BY <2>1, <2>2, WorkStay
  <1>16. CASE \/ ExcludeFromService \/ ExcludeFromCluster \/ Prepare \/ NextHost
              \/ IncludeInService \/ Start \/ Preliminary \/ Final \/ Clear
              \/ (\E o \in trash : Purge(o))
              \/ Complete \/ Judge \/ Fail \/ Cancelled \/ Crash
    <2>1. pc' \notin AfterConfigMap
      BY <1>16
         DEF ExcludeFromService, ExcludeFromCluster, Prepare, NextHost,
             IncludeInService, Start, Preliminary, Final, Clear, Purge, Complete,
             Judge, Fail, Cancelled, Crash
    <2> QED
      BY <2>1, WorkBefore
  <1> QED
    BY <1>1, <1>2, <1>3, <1>4, <1>5, <1>6, <1>7, <1>8, <1>9, <1>10, <1>11,
       <1>12, <1>13, <1>14, <1>15, <1>16
       DEF Next, Worker, ReconcileHost

-----------------------------------------------------------------------------
(* The hosts behind the walk.                                              *)

\* What the worker does with the current host leaves the hosts behind it done.
LEMMA DoneOnHost == TypeInv /\ DoneInv /\ OnHost => DoneInv'
  <1> SUFFICES ASSUME TypeInv, DoneInv, OnHost PROVE DoneInv'
    OBVIOUS
  <1>1. n \in 1 .. Len(Walk) /\ Len(Walk) \in Nat /\ DOMAIN Walk = 1 .. Len(Walk)
    BY WalkFacts DEF TypeInv, WalkInv, OnHost
  <1>2. pc' \notin {"purge", "ping"}
    BY DEF OnHost, HostSteps
  <1>3. ASSUME NEW i \in 1 .. n - 1, Walk[i] \in new.hosts
        PROVE  Done(Walk[i])'
    <2>1. Done(Walk[i])
      BY <1>3 DEF DoneInv, OnHost
    <2>2. i \in DOMAIN Walk /\ n \in DOMAIN Walk /\ i # n
      BY <1>1
    <2>3. Walk[i] \in Hosts \ {H}
      BY <2>2, WalkAssumption DEF H, Hosts
    <2>4. /\ sts'[Walk[i]] = sts[Walk[i]]
          /\ \A kind \in Kinds : <<kind, Walk[i]>> \in objs => <<kind, Walk[i]>> \in objs'
      BY <2>3 DEF OnHost
    <2> QED
      BY <2>1, <2>4 DEF Done, Built, OnHost, Kinds
  <1> QED
    BY <1>2, <1>3 DEF DoneInv, OnHost

\* Hosts stay done when nothing that matters to it changes.
LEMMA DoneStay ==
    ASSUME DoneInv, UNCHANGED <<pc, n, new, rs, objs, sts, reconciled, trash>>
    PROVE  DoneInv'
  BY DEF DoneInv, Done, Built

\* Every step keeps the hosts behind the walk done, the cleanup included: their
\* StatefulSets and ConfigMaps are reconciled, so never in the trash.
LEMMA DoneStep ==
    TypeInv /\ DelistInv /\ WorkInv /\ DoneInv /\ [Next]_vars => DoneInv'
  <1> SUFFICES ASSUME TypeInv, DelistInv, WorkInv, DoneInv, [Next]_vars
               PROVE  DoneInv'
    OBVIOUS
  <1> USE DEF passVars, hostVars, regVars, kubeVars, Step
  <1>1. CASE OnHost
    BY <1>1, DoneOnHost
  <1>2. CASE \/ EnsureFinalizer \/ (\E s \in Specs : ApplySpec(s))
             \/ (\E h \in Hosts : PodReady(h)) \/ UNCHANGED vars
    <2>1. UNCHANGED <<pc, n, new, rs, objs, sts, reconciled, trash>>
      BY <1>2 DEF EnsureFinalizer, ApplySpec, PodReady, vars
    <2> QED
      BY <2>1, DoneStay
  <1>3. CASE Judge \/ Fail \/ Cancelled \/ Crash \/ Start
    <2>1. pc' \in {"idle", "fail", "preliminary"}
      BY <1>3 DEF Judge, Fail, Cancelled, Crash, Start
    <2> QED
      BY <2>1 DEF DoneInv, HostSteps
  <1>4. CASE Preliminary
    <2>1. pc' \in {"fail", "prepare"} /\ n' = 1
      BY <1>4 DEF Preliminary, DelistInv, PositionInv
    <2>2. 1 .. n' - 1 = {}
      BY <2>1
    <2> QED
      BY <2>1, <2>2 DEF DoneInv, HostSteps
  <1>5. CASE NextHost
    <2>1. /\ pc = "prepare" /\ UNCHANGED <<new, objs, sts, reconciled>>
          /\ \/ pc' \in {"final", "fail"} /\ n' = n
             \/ Walk[n] \notin new.hosts /\ pc' = "prepare" /\ n' = n + 1
      BY <1>5 DEF NextHost, H
    <2>2. n \in Nat
      BY WalkFacts DEF TypeInv, TypeOK, CountTypeOK
    <2>3. \A i \in 1 .. n' - 1 : i \in 1 .. n - 1 \/ Walk[i] \notin new.hosts
      BY <2>1, <2>2
    <2>4. \A h : Done(h)' <=> Done(h)
      BY <2>1 DEF Done, Built
    <2> QED
      BY <2>1, <2>3, <2>4 DEF DoneInv, HostSteps
  <1>6. CASE Prepare
    <2>1. /\ pc = "prepare" /\ pc' \in {"excludeFromService", "hostConfigMap"}
          /\ UNCHANGED <<n, new, objs, sts, reconciled>>
      BY <1>6 DEF Prepare
    <2> QED
      BY <2>1 DEF DoneInv, Done, Built, HostSteps
  <1>7. CASE IncludeInService
    <2>1. /\ pc = "includeInService" /\ pc' = "prepare" /\ n' = n + 1
          /\ UNCHANGED <<new, objs, sts, reconciled>>
      BY <1>7 DEF IncludeInService
    <2>2. n \in Nat
      BY <2>1, WalkFacts DEF TypeInv, WalkInv, HostSteps
    <2>3. \A i \in 1 .. n' - 1 : i \in 1 .. n - 1 \/ i = n
      BY <2>1, <2>2
    <2>4. Done(Walk[n])
      BY <2>1
         DEF WorkInv, Done, H, AfterConfigMap, AfterStatefulSet, AfterPVC,
             AfterService, HostSteps
    <2>5. \A h : Done(h)' <=> Done(h)
      BY <2>1 DEF Done, Built
    <2> QED
      BY <2>1, <2>3, <2>4, <2>5 DEF DoneInv, HostSteps
  <1>8. CASE Final
    <2>1. /\ pc = "final" /\ pc' \in {"clear", "fail"}
          /\ UNCHANGED <<n, new, objs, sts, reconciled>>
      BY <1>8 DEF Final
    <2> QED
      BY <2>1 DEF DoneInv, Done, Built, HostSteps
  <1>9. CASE Clear
    <2>1. /\ pc = "clear" /\ pc' = "purge" /\ trash' = objs \ reconciled
          /\ UNCHANGED <<new, rs, objs, sts>>
      BY <1>9 DEF Clear
    <2>2. ASSUME NEW h \in new.hosts
          PROVE  Done(h) /\ <<"StatefulSet", h>> \in reconciled
      <3>1. h \in Hosts
        BY SpecFacts DEF TypeInv, TypeOK, PassTypeOK, SpecType
      <3>2. PICK i \in DOMAIN Walk : Walk[i] = h
        BY <3>1 DEF Hosts
      <3>3. i \in 1 .. n - 1
        BY <2>1, <3>2, WalkFacts DEF DelistInv, PositionInv
      <3> QED
        BY <2>1, <3>2, <3>3 DEF DoneInv, DelistInv
    <2>3. rs' = new.hosts
      BY <2>1 DEF DelistInv
    <2> QED
      BY <2>1, <2>2, <2>3 DEF DoneInv, Done, Built, HostSteps
  <1>10. ASSUME NEW o \in trash, Purge(o)
         PROVE  DoneInv'
    <2>1. /\ o = <<o[1], o[2]>> /\ o[2] \in Hosts
          /\ sts \in [Hosts -> StsType]
      BY DEF TypeInv, TypeOK, RegTypeOK, KubeTypeOK, Objects
    <2>2. pc = "purge" /\ trash' \subseteq trash /\ UNCHANGED <<pc, new, rs>>
      BY <1>10 DEF Purge
    <2>3. ASSUME NEW h \in new.hosts
          PROVE  Built(new, h)'
      <3>1. o \notin {<<"StatefulSet", h>>, <<"ConfigMap", h>>} /\ Built(new, h)
        BY <2>2 DEF DoneInv
      <3>2. h \in Hosts
        BY SpecFacts DEF TypeInv, TypeOK, PassTypeOK, SpecType
      <3>3. CASE o[1] = "StatefulSet" /\ KubeDelete(o[2])
        BY <2>1, <2>2, <3>1, <3>2, <3>3 DEF KubeDelete, Built
      <3>4. CASE objs' = objs \ {o} /\ UNCHANGED sts
        BY <2>2, <3>1, <3>4 DEF Built
      <3>5. CASE UNCHANGED kubeVars
        BY <2>2, <3>1, <3>5 DEF Built
      <3> QED
        BY <1>10, <3>3, <3>4, <3>5 DEF Purge
    <2> QED
      BY <2>2, <2>3 DEF DoneInv, HostSteps
  <1>11. CASE Complete
    <2>1. pc = "purge" /\ pc' = "ping" /\ UNCHANGED <<new, rs, objs, sts>>
      BY <1>11 DEF Complete
    <2> QED
      BY <2>1 DEF DoneInv, Built, HostSteps
  <1> QED
    BY <1>1, <1>2, <1>3, <1>4, <1>5, <1>6, <1>7, <1>8, <1>9, <1>10, <1>11,
       OnHostStep
       DEF Next, Worker

-----------------------------------------------------------------------------
(* The hosts the CHI added.                                                *)

\* A host keeps the add attribute until the walk is past its Service.
LEMMA AddedStep == TypeInv /\ PositionInv /\ AddedInv /\ [Next]_vars => AddedInv'
  <1> SUFFICES ASSUME TypeInv, PositionInv, AddedInv, [Next]_vars PROVE AddedInv'
    OBVIOUS
  <1> USE DEF passVars, hostVars, regVars, kubeVars, Step, AfterService
  <1>1. CASE HostService
    <2>1. /\ pc = "service" /\ pc' = "migrate" /\ added' = added \ {H}
          /\ UNCHANGED <<old, new, n>> /\ H' = H
      BY <1>1 DEF HostService, H
    <2> QED
      BY <2>1 DEF AddedInv, HostSteps
  <1>2. CASE OnHost /\ ~HostService /\ ReconcileHost
    <2>1. UNCHANGED <<old, new, n, added>> /\ pc \in HostSteps /\ H' = H
      BY <1>2
         DEF OnHost, H, ReconcileHost, NextHost, Prepare, ExcludeFromService,
             ExcludeFromCluster, HostConfigMap, ReconcileStatefulSet, Update,
             WaitPoll, WaitDone, UpdateFailed, ScaleDown, DeleteStatefulSet,
             ReconcilePVCs, Create, CreateFailed, DeleteObject,
             StatefulSetDone, MigrateTables, MigratePing,
             IncludeInCluster, IncludeInService
    <2>2. pc' \in HostSteps /\ pc \in AfterService => pc' \in AfterService
      BY <1>2
         DEF OnHost, ReconcileHost, NextHost, Prepare, ExcludeFromService,
             ExcludeFromCluster, HostConfigMap, ReconcileStatefulSet, Update,
             WaitPoll, WaitDone, UpdateFailed, ScaleDown, DeleteStatefulSet,
             ReconcilePVCs, Create, CreateFailed, DeleteObject,
             StatefulSetDone, MigrateTables, MigratePing,
             IncludeInCluster, IncludeInService, HostSteps
    <2>3. pc' \in HostSteps \cup {"fail"}
      BY <1>2 DEF OnHost
    <2> QED
      BY <2>1, <2>2, <2>3 DEF AddedInv, HostSteps
  <1>3. CASE \/ EnsureFinalizer \/ (\E s \in Specs : ApplySpec(s))
             \/ (\E h \in Hosts : PodReady(h)) \/ UNCHANGED vars
    <2>1. UNCHANGED <<pc, n, old, new, added>>
      BY <1>3 DEF EnsureFinalizer, ApplySpec, PodReady, vars
    <2> QED
      BY <2>1 DEF AddedInv, H
  <1>4. CASE \/ Final \/ Clear \/ (\E o \in trash : Purge(o)) \/ Complete \/ Judge
             \/ Fail \/ Cancelled \/ Crash
    <2>1. pc' \in {"idle", "fail", "clear", "purge", "ping"}
      BY <1>4 DEF Final, Clear, Purge, Complete, Judge, Fail, Cancelled, Crash
    <2> QED
      BY <2>1 DEF AddedInv, HostSteps
  <1>5. CASE Start
    BY <1>5 DEF Start, Added, AddedInv
  <1>6. CASE Preliminary \/ Prepare
    <2>1. /\ pc' \in {"fail", "prepare", "excludeFromService", "hostConfigMap"}
          /\ pc \in {"preliminary", "prepare"} /\ UNCHANGED <<n, old, new, added>>
      BY <1>6 DEF Preliminary, Prepare
    <2> QED
      BY <2>1 DEF AddedInv, HostSteps
  <1>7. CASE NextHost \/ IncludeInService
    <2>1. /\ pc \in HostSteps \cup {"prepare"} /\ UNCHANGED <<old, new, added>>
          /\ pc' \in {"final", "fail"} \/ (pc' = "prepare" /\ n' = n + 1)
      BY <1>7 DEF NextHost, IncludeInService, HostSteps
    <2>2. n \in Nat /\ n >= 1
      BY WalkFacts DEF TypeInv, TypeOK, CountTypeOK
    <2>3. n' = n + 1 => n \in 1 .. n' - 1 /\ 1 .. n - 1 \subseteq 1 .. n' - 1
      BY <2>2
    <2> QED
      BY <2>1, <2>3 DEF AddedInv, HostSteps, H
  <1> QED
    BY <1>1, <1>2, <1>3, <1>4, <1>5, <1>6, <1>7, OnHostStep
       DEF Next, Worker, ReconcileHost

-----------------------------------------------------------------------------
(* Admission.                                                              *)

\* A Pod gets the ready label back only on the last step of its host, or as a new
\* Pod, or when a rollback replaces a Pod that is not ready yet: then the version
\* label is the one the CHI asks for.
LEMMA ReadmitStep ==
    ASSUME TypeInv, PodInv, WorkInv, [Next]_vars, NEW h \in Hosts,
           ~ready[h], ready'[h], pod'[h] = pod[h]
    PROVE  Built(new, h)
  <1> USE DEF Step, AfterConfigMap, AfterStatefulSet, AfterPVC, AfterService, HostSteps,
              kubeVars
  <1>a. KubeTypeOK /\ (pc \in HostSteps => H \in Hosts)
    BY WalkFacts DEF TypeInv, TypeOK, WalkInv, H
  <1>b. ASSUME NEW g \in Hosts, NEW v, KubeApply(g, v)
        PROVE  h = g /\ v.spec.up /\ pod[h] = "starting"
    BY <1>a, <1>b DEF KubeApply, KubeTypeOK
  <1>1. CASE IncludeInService
    <2>1. h = H
      BY <1>1, <1>a DEF IncludeInService, KubeTypeOK
    <2> QED
      BY <1>1, <2>1 DEF IncludeInService, WorkInv
  <1>2. CASE Update
    <2>1. KubeApply(H, [label |-> Target, spec |-> Target]) /\ H \in Hosts
      BY <1>2, <1>a DEF Update
    <2>2. pod[H] = "starting"
      BY <2>1, <1>b
    <2>3. sts[H].spec.up
      BY <2>1, <2>2 DEF PodInv
    <2> QED
      BY <1>2, <2>2, <2>3 DEF Update, WorkInv, CurReady
  <1>3. CASE UpdateFailed
    <2>1. KubeApply(H, [label |-> sts[H].label, spec |-> cur]) /\ H \in Hosts
      BY <1>3, <1>a DEF UpdateFailed
    <2>2. h = H /\ pod[H] = "starting"
      BY <2>1, <1>b
    <2>3. Written /\ <<"ConfigMap", H>> \in objs
      BY <1>3 DEF UpdateFailed, WorkInv, ErrorUnderway
    <2>4. Target.up
      BY <2>1, <2>2, <2>3 DEF PodInv, Written
    <2>5. stage = "desired"
      <3>1. Target.up = (~new.stop /\ stage = "desired")
        BY DEF Target, DesiredOf
      <3> QED
        BY <2>4, <3>1
    <2> QED
      BY <2>2, <2>3, <2>5 DEF Built, Written, Target
  <1>4. CASE Create
    <2>1. /\ KubeApply(H, [label |-> Target, spec |-> Target]) /\ H \in Hosts
          /\ <<"StatefulSet", H>> \notin objs
      BY <1>4, <1>a DEF Create
    <2> QED
      BY <2>1, <1>b DEF PodInv
  <1>5. ASSUME NEW at \in HostSteps, NEW then, NEW skip, ScaleDown(at, then, skip)
        PROVE  FALSE
    <2> DEFINE v == [label |-> sts[H].label, spec |-> [sts[H].spec EXCEPT !.up = FALSE]]
    <2>1. KubeApply(H, v) /\ H \in Hosts
      BY <1>5, <1>a DEF ScaleDown
    <2>2. sts[H].spec \in StsSpec
      BY <2>1, <1>a DEF KubeTypeOK, StsType
    <2>3. ~v.spec.up
      BY <2>2 DEF StsSpec
    <2> QED
      BY <2>1, <2>3, <1>b
  <1>6. ASSUME \/ \E at, then : DeleteStatefulSet(at, then) /\ at \in HostSteps
               \/ \E o \in trash : Purge(o)
        PROVE  FALSE
    <2>1. PICK g \in Hosts : KubeDelete(g)
      BY <1>6, <1>a
         DEF DeleteStatefulSet, Purge, TypeInv, TypeOK, RegTypeOK, Objects
    <2> QED
      BY <2>1, <1>a DEF KubeDelete, KubeTypeOK
  <1>7. CASE ExcludeFromService \/ WaitPoll
    BY <1>7, <1>a DEF ExcludeFromService, WaitPoll, KubeTypeOK
  <1>8. ready' # ready
    OBVIOUS
  <1>9. \/ IncludeInService \/ Update \/ UpdateFailed \/ Create
        \/ ExcludeFromService \/ WaitPoll
        \/ ScaleDown("scaleDown", "delete", "recreatePVCs")
        \/ ScaleDown("undoScaleDown", "undoDelete", "undoPVC")
        \/ DeleteStatefulSet("delete", "recreatePVCs")
        \/ DeleteStatefulSet("undoDelete", "undoPVC")
        \/ \E o \in trash : Purge(o)
    BY <1>8
       DEF Next, Worker, ReconcileHost, vars, EnsureFinalizer, Start,
           Preliminary, NextHost, Prepare, ExcludeFromCluster, HostConfigMap,
           ReconcileStatefulSet, WaitDone, CreateFailed, ReconcilePVCs, DeleteObject,
           StatefulSetDone, HostService, MigrateTables, MigratePing, IncludeInCluster,
           Final, Clear, Complete, Judge, Fail, Cancelled, Crash, ApplySpec, PodReady
  <1> QED
    BY <1>1, <1>2, <1>3, <1>4, <1>5, <1>6, <1>7, <1>9

\* A host the CHI added gets into remote_servers only once it is done.
LEMMA RelistStep ==
    ASSUME TypeInv, PositionInv, WorkInv, DoneInv, AddedInv, [Next]_vars,
           NEW h \in new.hosts \ old.hosts, h \in rs' \ rs
    PROVE  Built(new, h)
  <1> USE DEF Step, RemoteServers, HostSteps
  <1>1. CASE Preliminary
    <2>1. pc = "preliminary" /\ h \notin added /\ n = 1
      BY <1>1 DEF Preliminary, PositionInv
    <2>2. 1 .. n - 1 = {}
      BY <2>1
    <2> QED
      BY <2>1, <2>2 DEF AddedInv, AfterService
  <1>2. CASE ExcludeFromCluster \/ IncludeInCluster
    <2>1. pc \in HostSteps /\ h \notin added
      BY <1>2 DEF ExcludeFromCluster, IncludeInCluster
    <2>2. (\E i \in 1 .. n - 1 : Walk[i] = h) \/ (pc \in AfterService /\ h = H)
      BY <2>1 DEF AddedInv
    <2> QED
      BY <2>1, <2>2 DEF DoneInv, Done, WorkInv, AfterStatefulSet, AfterPVC
  <1>3. CASE Final
    <2>1. pc = "final" /\ n = Len(Walk) + 1
      BY <1>3 DEF Final, PositionInv
    <2>2. h \in Hosts
      BY SpecFacts DEF TypeInv, TypeOK, PassTypeOK, SpecType
    <2>3. PICK i \in DOMAIN Walk : Walk[i] = h
      BY <2>2 DEF Hosts
    <2>4. i \in 1 .. n - 1
      BY <2>1, <2>3, WalkFacts
    <2> QED
      BY <2>1, <2>3, <2>4 DEF DoneInv, Done
  <1>4. rs' # rs
    OBVIOUS
  <1>5. Preliminary \/ ExcludeFromCluster \/ IncludeInCluster \/ Final
    BY <1>4
       DEF Next, Worker, ReconcileHost, vars, EnsureFinalizer, Start, NextHost,
           Prepare, ExcludeFromService, HostConfigMap, ReconcileStatefulSet, Update,
           WaitPoll, WaitDone, UpdateFailed, ScaleDown, DeleteStatefulSet,
           ReconcilePVCs, Create, CreateFailed, DeleteObject, StatefulSetDone,
           HostService, MigrateTables, MigratePing, IncludeInService,
           Clear, Purge, Complete, Judge, Fail, Cancelled, Crash, ApplySpec, PodReady
  <1> QED
    BY <1>1, <1>2, <1>3, <1>5

\* The status Running is written by the worker that pinged all hosts, or by one
\* whose context is done.
LEMMA RunningStep ==
    ASSUME DoneInv, [Next]_vars, ~ctxDone, chiStatus # "Running", chiStatus' = "Running",
           NEW h \in new.hosts
    PROVE  Built(new, h) /\ pod[h] = "ready" /\ h \in rs
  <1>1. Judge
    BY DEF Next, Worker, ReconcileHost, vars, chiVars, EnsureFinalizer, Start,
           Preliminary, NextHost, Prepare, ExcludeFromService, ExcludeFromCluster,
           HostConfigMap, ReconcileStatefulSet, Update, WaitPoll, WaitDone,
           UpdateFailed, ScaleDown, DeleteStatefulSet, ReconcilePVCs, Create,
           CreateFailed, DeleteObject, StatefulSetDone, HostService, MigrateTables,
           MigratePing, IncludeInCluster, IncludeInService, Final, Clear, Purge,
           Complete, Fail, FailedStatus, Cancelled, Crash, ApplySpec, PodReady
  <1>2. pc = "ping" /\ \A g \in new.hosts : pod[g] = "ready"
    BY <1>1 DEF Judge, Step, FailedStatus
  <1> QED
    BY <1>2 DEF DoneInv

-----------------------------------------------------------------------------
(* The theorems.                                                           *)

\* The parts of the invariant hold each other up.
LEMMA BuildStep ==
    TypeInv /\ DelistInv /\ BuildInv /\ [Next]_vars => BuildInv'
  BY PodStep, WorkStep, DoneStep, AddedStep DEF BuildInv, DelistInv

\* Before the first pass there is no Pod and no host done.
LEMMA BuildInit == Init => BuildInv
  BY DEF Init, BuildInv, PodInv, WorkInv, DoneInv, AddedInv, HostSteps,
         AfterConfigMap, AfterStatefulSet, AfterPVC, AfterService

\* A host is let back into the Service, and a host the CHI added is listed in
\* remote_servers, only with the StatefulSet the CHI asks for, for all
\* installations, policies and failures (the walk of reconcileHost).
THEOREM OnlyBuiltAdmitted == Spec => AdmitsOnlyBuiltHosts
  <1>1. TypeInv /\ DelistInv /\ BuildInv /\ [Next]_vars =>
          [\A h \in new.hosts :
             \/ ~ready[h] /\ ready'[h] /\ pod'[h] = pod[h]
             \/ h \in rs' \ rs /\ h \in new.hosts \ old.hosts
             => Built(new, h)]_vars
    <2> SUFFICES ASSUME TypeInv, DelistInv, BuildInv, [Next]_vars, NEW h \in new.hosts,
                        \/ ~ready[h] /\ ready'[h] /\ pod'[h] = pod[h]
                        \/ h \in rs' \ rs /\ h \in new.hosts \ old.hosts
                 PROVE  Built(new, h)
      OBVIOUS
    <2>1. h \in Hosts
      BY SpecFacts DEF TypeInv, TypeOK, PassTypeOK, SpecType
    <2> QED
      BY <2>1, ReadmitStep, RelistStep DEF BuildInv, DelistInv
  <1> QED
    BY <1>1, TypeInit, TypeStep, DelistInit, DelistStep, BuildInit, BuildStep, PTL
       DEF Spec, AdmitsOnlyBuiltHosts

\* A pass that was not cancelled writes Running only when every host of the CHI has
\* the StatefulSet it asks for, answers and is listed in remote_servers, whatever
\* failed on the way (the error paths of reconcileHost up to markReconcileComplete).
THEOREM RunningHonest == Spec => RunningIsHonest
  <1>1. TypeInv /\ DelistInv /\ BuildInv /\ [Next]_vars =>
          [~ctxDone /\ chiStatus # "Running" /\ chiStatus' = "Running" =>
             \A h \in new.hosts : Built(new, h) /\ pod[h] = "ready" /\ h \in rs]_vars
    BY RunningStep DEF BuildInv
  <1> QED
    BY <1>1, TypeInit, TypeStep, DelistInit, DelistStep, BuildInit, BuildStep, PTL
       DEF Spec, RunningIsHonest
=============================================================================
