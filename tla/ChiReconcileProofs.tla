------------------------- MODULE ChiReconcileProofs -------------------------
(***************************************************************************)
(* Theorems about ChiReconcile: its type invariant, and that the cleanup    *)
(* at the end of a pass spares what belongs to the hosts of the CHI.        *)
(***************************************************************************)
EXTENDS ChiReconcile, TLAPS

\* The walk is at a host at every step that works on one.
WalkInv == pc \in HostSteps => n \in 1 .. Len(Walk)

\* The type invariant made inductive.
TypeInv == TypeOK /\ WalkInv

\* The walk is a sequence of hosts (WalkTillError).
LEMMA WalkFacts ==
    /\ Len(Walk) \in Nat
    /\ DOMAIN Walk = 1 .. Len(Walk)
    /\ \A i \in 1 .. Len(Walk) : Walk[i] \in Hosts
  BY WalkAssumption DEF Hosts

\* Every CHI the worker handles is one a user may apply, or the empty one, and
\* CreateStatefulSet makes a StatefulSet of it.
LEMMA SpecFacts ==
    ASSUME NEW s \in Chis
    PROVE  /\ s \in SpecType
           /\ \A st : DesiredOf(s, st) \in StsSpec
  <1>1. s \in SpecType
    BY SpecsAssumption DEF Chis
  <1>2. s.ver \in Versions
    BY DEF Versions
  <1>3. \A st : DesiredOf(s, st) \in StsSpec
    BY <1>2 DEF DesiredOf, StsSpec
  <1> QED
    BY <1>1, <1>3

\* The fields of an absent StatefulSet are of the type of the others.
LEMMA NoStsType == NoSts \in StsType /\ NoSts.spec \in StsSpec
  BY SpecFacts DEF NoSts, StsType, Chis

\* The steps on a host are apart from the steps around the walk.
LEMMA StepFacts ==
    /\ HostSteps \cap (AuxSteps \cup {"idle", "prepare"}) = {}
    /\ {"excludeFromService", "excludeFromCluster", "hostConfigMap",
              "statefulSet", "update", "updateWait", "scaleDown", "delete",
              "recreatePVCs", "create", "createWait", "undoScaleDown",
              "undoDelete", "undoPVC", "undoConfigMap", "undoService",
              "statefulSetDone", "pvcs", "service", "migrate", "migratePing",
              "includeInCluster", "includeInService"} \subseteq HostSteps
  BY DEF HostSteps, AuxSteps

-----------------------------------------------------------------------------
(* The type invariant.                                                     *)

\* A part of the type invariant holds on as long as its variables do.
LEMMA Kept ==
    /\ ChiTypeOK /\ UNCHANGED chiVars => ChiTypeOK'
    /\ KubeTypeOK /\ UNCHANGED kubeVars => KubeTypeOK'
    /\ HostTypeOK /\ UNCHANGED hostVars => HostTypeOK'
    /\ RegTypeOK /\ UNCHANGED regVars => RegTypeOK'
    /\ CountTypeOK /\ UNCHANGED <<n, boundVars>> => CountTypeOK'
  BY DEF ChiTypeOK, chiVars, KubeTypeOK, kubeVars, HostTypeOK, hostVars,
         RegTypeOK, regVars, CountTypeOK, boundVars

\* The effect of a new StatefulSet spec is within the types ...
LEMMA KubeApplyType ==
    ASSUME KubeTypeOK, NEW h \in Hosts, NEW v \in StsType, KubeApply(h, v)
    PROVE  KubeTypeOK'
  BY DEF KubeTypeOK, KubeApply, StsType, StsSpec, Objects, Kinds

\* ... and so is that of a deleted one ...
LEMMA KubeDeleteType ==
    ASSUME KubeTypeOK, NEW h \in Hosts, KubeDelete(h)
    PROVE  KubeTypeOK'
  BY NoStsType DEF KubeTypeOK, KubeDelete

\* ... and what is left of a pass when it ends.
LEMMA ForgetType ==
    ASSUME Forget
    PROVE  HostTypeOK' /\ RegTypeOK' /\ n' \in 1 .. Len(Walk) + 1 /\ added' = {}
  <1>1. n' = 1 
    BY DEF Forget
  <1>2. n' \in 1 .. Len(Walk) + 1
    BY <1>1, WalkFacts
  <1> QED
    BY <1>2, NoStsType DEF Forget, HostTypeOK, RegTypeOK

\* The operator starts in the types.
LEMMA TypeInit == Init => TypeInv
  <1> SUFFICES ASSUME Init PROVE TypeInv
    OBVIOUS
  <1>1. ChiTypeOK /\ KubeTypeOK
    BY NoStsType DEF Init, ChiTypeOK, KubeTypeOK
  <1>2. PassTypeOK /\ WalkInv
    BY DEF Init, PassTypeOK, WalkInv, Chis, AuxSteps, HostSteps
  <1>3. HostTypeOK /\ RegTypeOK
    BY NoStsType DEF Init, HostTypeOK, RegTypeOK
  <1>4. n = 1 /\ applies = 0 /\ crashes = 0
    BY DEF Init
  <1>5. CountTypeOK
    BY <1>4, WalkFacts, BoundAssumption DEF CountTypeOK
  <1> QED
    BY <1>1, <1>2, <1>3, <1>5 DEF TypeInv, TypeOK

\* No step of the worker, of Kubernetes or of the user leaves the types; the walk
\* is at a host at every step that works on one.
LEMMA TypeStep == TypeInv /\ [Next]_vars => TypeInv'
  <1> SUFFICES ASSUME TypeInv, [Next]_vars PROVE TypeInv'
    OBVIOUS
  <1> USE DEF TypeInv, TypeOK, Step, passVars
  <1>a. new \in SpecType /\ new.hosts \subseteq Hosts
    BY SpecFacts DEF PassTypeOK, SpecType
  <1>b. Target \in StsSpec
    BY SpecFacts DEF PassTypeOK, Target
  <1>c. pc \in HostSteps => H \in Hosts
    BY WalkFacts DEF WalkInv, H
  <1>1. CASE EnsureFinalizer
    <2>1. UNCHANGED <<kubeVars, hostVars, regVars, n, boundVars>>
      BY <1>1 DEF EnsureFinalizer
    <2>2. PassTypeOK' /\ WalkInv'
      BY <1>1
         DEF EnsureFinalizer, PassTypeOK, WalkInv, HostSteps, AuxSteps,
             ChiTypeOK, Chis
    <2>3. ChiTypeOK'
      BY <1>1 DEF EnsureFinalizer, ChiTypeOK
    <2> QED
      BY <2>1, <2>2, <2>3, Kept
  <1>2. CASE Start
    <2>1. UNCHANGED <<kubeVars, hostVars, regVars, n, boundVars>>
      BY <1>2 DEF Start
    <2>2. PassTypeOK' /\ WalkInv'
      BY <1>2, SpecFacts
         DEF Start, Added, PassTypeOK, WalkInv, HostSteps, AuxSteps, NoCmd, Chis,
             SpecType, Serving
    <2>3. ChiTypeOK'
      BY <1>2 DEF Start, Added, ChiTypeOK
    <2> QED
      BY <2>1, <2>2, <2>3, Kept
  <1>3. CASE Preliminary
    <2>1. UNCHANGED <<kubeVars, hostVars, regVars, n, boundVars>>
      BY <1>3 DEF Preliminary
    <2>2. PassTypeOK' /\ WalkInv'
      BY <1>3, <1>a DEF Preliminary, RemoteServers, PassTypeOK, WalkInv, HostSteps, AuxSteps
    <2>3. ChiTypeOK'
      BY <1>3, <1>a DEF Preliminary, RemoteServers, ChiTypeOK, SpecType
    <2> QED
      BY <2>1, <2>2, <2>3, Kept
  <1>4. CASE NextHost
    <2>1. UNCHANGED <<chiVars, kubeVars, hostVars, regVars>>
      BY <1>4 DEF NextHost
    <2>2. PassTypeOK' /\ WalkInv'
      BY <1>4 DEF NextHost, PassTypeOK, WalkInv, HostSteps, AuxSteps
    <2>3. CountTypeOK'
      BY <1>4, WalkFacts DEF NextHost, CountTypeOK, boundVars
    <2> QED
      BY <2>1, <2>2, <2>3, Kept
  <1>5. CASE Prepare
    <2>1. UNCHANGED <<chiVars, kubeVars, regVars, n, boundVars>>
      BY <1>5 DEF Prepare
    <2>2. PassTypeOK' /\ WalkInv'
      BY <1>5, WalkFacts
         DEF Prepare, PassTypeOK, WalkInv, HostSteps, AuxSteps, CountTypeOK
    <2>3. HostTypeOK'
      BY <1>5 DEF Prepare, HostTypeOK, StatusOf, hostVars
    <2> QED
      BY <2>1, <2>2, <2>3, Kept
  <1>6. CASE ExcludeFromService
    <2>1. UNCHANGED <<chiVars, hostVars, regVars, n, boundVars>>
      BY <1>6 DEF ExcludeFromService
    <2>2. PassTypeOK' /\ WalkInv'
      BY <1>6 DEF ExcludeFromService, PassTypeOK, WalkInv, HostSteps, AuxSteps
    <2>3. H \in Hosts
      BY <1>6, <1>c DEF ExcludeFromService, HostSteps
    <2>4. KubeTypeOK'
      BY <1>6, <2>3 DEF ExcludeFromService, KubeTypeOK
    <2> QED
      BY <2>1, <2>2, <2>4, Kept
  <1>7. CASE ExcludeFromCluster
    <2>1. UNCHANGED <<chiVars, kubeVars, hostVars, regVars, n, boundVars>>
      BY <1>7 DEF ExcludeFromCluster
    <2>2. PassTypeOK' /\ WalkInv'
      BY <1>7, <1>a
         DEF ExcludeFromCluster, RemoteServers, PassTypeOK, WalkInv, HostSteps, AuxSteps
    <2> QED
      BY <2>1, <2>2, Kept
  <1>8. CASE HostConfigMap
    <2>1. UNCHANGED <<chiVars, hostVars, n, boundVars>>
      BY <1>8 DEF HostConfigMap
    <2>2. PassTypeOK' /\ WalkInv'
      BY <1>8 DEF HostConfigMap, PassTypeOK, WalkInv, HostSteps, AuxSteps
    <2>3. H \in Hosts
      BY <1>8, <1>c DEF HostConfigMap, HostSteps
    <2>4. KubeTypeOK'
      BY <1>8, <2>3 DEF HostConfigMap, KubeTypeOK, Objects, Kinds
    <2>5. RegTypeOK'
      BY <1>8, <2>3 DEF HostConfigMap, RegTypeOK, Objects, Kinds
    <2> QED
      BY <2>1, <2>2, <2>4, <2>5, Kept
  <1>9. CASE ReconcileStatefulSet
    <2>1. UNCHANGED <<chiVars, kubeVars, regVars, n, boundVars>>
      BY <1>9 DEF ReconcileStatefulSet
    <2>2. H \in Hosts
      BY <1>9, <1>c DEF ReconcileStatefulSet, HostSteps
    <2>3. stat' \in {"new", "same", "modified"}
      BY <1>9 DEF ReconcileStatefulSet, StatusOf
    <2>4. HostTypeOK'
      BY <1>9, <2>2, <2>3
         DEF ReconcileStatefulSet, HostTypeOK, KubeTypeOK, StsType
    <2>5. pc' \in {"statefulSetDone", "create", "update", "scaleDown"}
      BY <1>9, <2>3 DEF ReconcileStatefulSet
    <2>6. PassTypeOK' /\ WalkInv'
      BY <1>9, <2>5 DEF ReconcileStatefulSet, PassTypeOK, WalkInv, HostSteps
    <2> QED
      BY <2>1, <2>4, <2>6, Kept
  <1>10. CASE Update
    <2>1. UNCHANGED <<chiVars, hostVars, regVars, n, boundVars>>
      BY <1>10 DEF Update
    <2>2. PassTypeOK' /\ WalkInv'
      BY <1>10 DEF Update, PassTypeOK, WalkInv, HostSteps, AuxSteps
    <2>3. H \in Hosts
      BY <1>10, <1>c DEF Update, HostSteps
    <2>4. KubeTypeOK'
      BY <1>10, <2>3, <1>b, KubeApplyType
         DEF Update, KubeTypeOK, StsType, kubeVars
    <2> QED
      BY <2>1, <2>2, <2>4, Kept
  <1>11. CASE WaitPoll
    <2>1. UNCHANGED <<chiVars, hostVars, regVars, n, boundVars>>
      BY <1>11 DEF WaitPoll
    <2>2. PassTypeOK' /\ WalkInv'
      BY <1>11 DEF WaitPoll, PassTypeOK, WalkInv, HostSteps, AuxSteps
    <2>3. H \in Hosts
      BY <1>11, <1>c DEF WaitPoll, HostSteps
    <2>4. KubeTypeOK'
      BY <1>11, <2>3 DEF WaitPoll, KubeTypeOK
    <2> QED
      BY <2>1, <2>2, <2>4, Kept
  <1>12. CASE WaitDone
    <2>1. UNCHANGED <<chiVars, kubeVars, hostVars, regVars, n, boundVars>>
      BY <1>12 DEF WaitDone
    <2>2. PassTypeOK' /\ WalkInv'
      BY <1>12 DEF WaitDone, PassTypeOK, WalkInv, HostSteps, AuxSteps
    <2> QED
      BY <2>1, <2>2, Kept
  <1>13. CASE UpdateFailed
    <2>1. UNCHANGED <<chiVars, regVars, n, boundVars>>
      BY <1>13 DEF UpdateFailed
    <2>2. PassTypeOK' /\ WalkInv'
      BY <1>13 DEF UpdateFailed, PassTypeOK, WalkInv, HostSteps, AuxSteps
    <2>3. H \in Hosts
      BY <1>13, <1>c DEF UpdateFailed, HostSteps
    <2>4. KubeTypeOK'
      BY <1>13, <2>3, KubeApplyType
         DEF UpdateFailed, KubeTypeOK, StsType, kubeVars, HostTypeOK
    <2>5. HostTypeOK'
      BY <1>13, PolicyAssumption DEF UpdateFailed, HostTypeOK
    <2> QED
      BY <2>1, <2>2, <2>4, <2>5, Kept
  <1>14. CASE Create
    <2>1. UNCHANGED <<chiVars, regVars, n, boundVars>>
      BY <1>14 DEF Create
    <2>2. PassTypeOK' /\ WalkInv'
      BY <1>14 DEF Create, PassTypeOK, WalkInv, HostSteps, AuxSteps
    <2>3. H \in Hosts
      BY <1>14, <1>c DEF Create, HostSteps
    <2>4. KubeTypeOK'
      BY <1>14, <2>3, <1>b, KubeApplyType
         DEF Create, KubeTypeOK, StsType, kubeVars
    <2>5. HostTypeOK'
      BY <1>14 DEF Create, HostTypeOK
    <2> QED
      BY <2>1, <2>2, <2>4, <2>5, Kept
  <1>15. CASE CreateFailed
    <2>1. UNCHANGED <<chiVars, kubeVars, regVars, n, boundVars>>
      BY <1>15 DEF CreateFailed
    <2>2. PassTypeOK' /\ WalkInv'
      BY <1>15 DEF CreateFailed, PassTypeOK, WalkInv, HostSteps, AuxSteps
    <2>3. HostTypeOK'
      BY <1>15, PolicyAssumption DEF CreateFailed, HostTypeOK
    <2> QED
      BY <2>1, <2>2, <2>3, Kept
  <1>16. CASE StatefulSetDone
    <2>1. UNCHANGED <<chiVars, kubeVars, n, boundVars>>
      BY <1>16 DEF StatefulSetDone
    <2>2. PassTypeOK' /\ WalkInv'
      BY <1>16 DEF StatefulSetDone, PassTypeOK, WalkInv, HostSteps, AuxSteps
    <2>3. H \in Hosts
      BY <1>16, <1>c DEF StatefulSetDone, HostSteps
    <2>4. RegTypeOK'
      BY <1>16, <2>3 DEF StatefulSetDone, RegTypeOK, Objects, Kinds
    <2>5. HostTypeOK'
      BY <1>16 DEF StatefulSetDone, HostTypeOK
    <2> QED
      BY <2>1, <2>2, <2>4, <2>5, Kept
  <1>17. CASE HostService
    <2>1. UNCHANGED <<chiVars, hostVars, n, boundVars>>
      BY <1>17 DEF HostService
    <2>2. PassTypeOK' /\ WalkInv'
      BY <1>17 DEF HostService, PassTypeOK, WalkInv, HostSteps, AuxSteps
    <2>3. H \in Hosts
      BY <1>17, <1>c DEF HostService, HostSteps
    <2>4. KubeTypeOK'
      BY <1>17, <2>3 DEF HostService, KubeTypeOK, Objects, Kinds
    <2>5. RegTypeOK'
      BY <1>17, <2>3 DEF HostService, RegTypeOK, Objects, Kinds
    <2> QED
      BY <2>1, <2>2, <2>4, <2>5, Kept
  <1>18. CASE MigrateTables
    <2>1. UNCHANGED <<chiVars, hostVars, regVars, n, boundVars>>
      BY <1>18 DEF MigrateTables
    <2>2. PassTypeOK' /\ WalkInv'
      BY <1>18 DEF MigrateTables, PassTypeOK, WalkInv, HostSteps, AuxSteps
    <2>3. H \in Hosts
      BY <1>18, <1>c DEF MigrateTables, HostSteps
    <2>4. KubeTypeOK'
      BY <1>18, <2>3 DEF MigrateTables, KubeTypeOK
    <2> QED
      BY <2>1, <2>2, <2>4, Kept
  <1>19. CASE MigratePing
    <2>1. UNCHANGED <<chiVars, kubeVars, hostVars, regVars, n, boundVars>>
      BY <1>19 DEF MigratePing
    <2>2. PassTypeOK' /\ WalkInv'
      BY <1>19 DEF MigratePing, PassTypeOK, WalkInv, HostSteps, AuxSteps
    <2> QED
      BY <2>1, <2>2, Kept
  <1>20. CASE IncludeInCluster
    <2>1. UNCHANGED <<chiVars, kubeVars, hostVars, regVars, n, boundVars>>
      BY <1>20 DEF IncludeInCluster
    <2>2. PassTypeOK' /\ WalkInv'
      BY <1>20, <1>a
         DEF IncludeInCluster, RemoteServers, PassTypeOK, WalkInv, HostSteps, AuxSteps
    <2> QED
      BY <2>1, <2>2, Kept
  <1>21. CASE IncludeInService
    <2>1. UNCHANGED <<chiVars, hostVars, regVars>>
      BY <1>21 DEF IncludeInService
    <2>2. PassTypeOK' /\ WalkInv'
      BY <1>21 DEF IncludeInService, PassTypeOK, WalkInv, HostSteps, AuxSteps
    <2>3. H \in Hosts
      BY <1>21, <1>c DEF IncludeInService, HostSteps
    <2>4. KubeTypeOK'
      BY <1>21, <2>3 DEF IncludeInService, KubeTypeOK
    <2>5. CountTypeOK'
      BY <1>21, WalkFacts
         DEF IncludeInService, CountTypeOK, WalkInv, HostSteps, boundVars
    <2> QED
      BY <2>1, <2>2, <2>4, <2>5, Kept
  <1>22. CASE Final
    <2>1. UNCHANGED <<chiVars, kubeVars, hostVars, regVars, n, boundVars>>
      BY <1>22 DEF Final
    <2>2. PassTypeOK' /\ WalkInv'
      BY <1>22, <1>a DEF Final, RemoteServers, PassTypeOK, WalkInv, HostSteps, AuxSteps
    <2> QED
      BY <2>1, <2>2, Kept
  <1>23. CASE Clear
    <2>1. UNCHANGED <<chiVars, kubeVars, hostVars, n, boundVars>>
      BY <1>23 DEF Clear
    <2>2. PassTypeOK' /\ WalkInv'
      BY <1>23 DEF Clear, PassTypeOK, WalkInv, HostSteps, AuxSteps
    <2>3. RegTypeOK'
      BY <1>23 DEF Clear, RegTypeOK, KubeTypeOK
    <2> QED
      BY <2>1, <2>2, <2>3, Kept
  <1>24. CASE Complete
    <2>1. UNCHANGED <<kubeVars, hostVars, regVars, n, boundVars>>
      BY <1>24 DEF Complete
    <2>2. PassTypeOK' /\ WalkInv'
      BY <1>24 DEF Complete, PassTypeOK, WalkInv, HostSteps, AuxSteps
    <2>3. ChiTypeOK'
      BY <1>24 DEF Complete, ChiTypeOK
    <2> QED
      BY <2>1, <2>2, <2>3, Kept
  <1>25. CASE Judge
    <2>1. UNCHANGED <<kubeVars>>
      BY <1>25 DEF Judge
    <2>2. PassTypeOK' /\ WalkInv'
      BY <1>25, ForgetType DEF Judge, PassTypeOK, WalkInv, HostSteps, AuxSteps
    <2>3. ChiTypeOK'
      BY <1>25 DEF Judge, ChiTypeOK, FailedStatus
    <2>4. HostTypeOK'
      BY <1>25, ForgetType DEF Judge, HostTypeOK
    <2>5. RegTypeOK'
      BY <1>25, ForgetType DEF Judge, RegTypeOK
    <2>6. CountTypeOK'
      BY <1>25, ForgetType DEF Judge, CountTypeOK, boundVars
    <2> QED
      BY <2>1, <2>2, <2>3, <2>4, <2>5, <2>6, Kept
  <1>26. CASE Fail
    <2>1. UNCHANGED <<kubeVars>>
      BY <1>26 DEF Fail
    <2>2. PassTypeOK' /\ WalkInv'
      BY <1>26, ForgetType DEF Fail, PassTypeOK, WalkInv, HostSteps, AuxSteps
    <2>3. ChiTypeOK'
      BY <1>26 DEF Fail, ChiTypeOK, FailedStatus
    <2>4. HostTypeOK'
      BY <1>26, ForgetType DEF Fail, HostTypeOK
    <2>5. RegTypeOK'
      BY <1>26, ForgetType DEF Fail, RegTypeOK
    <2>6. CountTypeOK'
      BY <1>26, ForgetType DEF Fail, CountTypeOK, boundVars
    <2> QED
      BY <2>1, <2>2, <2>3, <2>4, <2>5, <2>6, Kept
  <1>27. CASE Cancelled
    <2>1. UNCHANGED <<kubeVars>>
      BY <1>27 DEF Cancelled
    <2>2. PassTypeOK' /\ WalkInv'
      BY <1>27, ForgetType
         DEF Cancelled, PassTypeOK, WalkInv, HostSteps, AuxSteps
    <2>3. ChiTypeOK'
      BY <1>27 DEF Cancelled, ChiTypeOK
    <2>4. HostTypeOK'
      BY <1>27, ForgetType DEF Cancelled, HostTypeOK, hostVars
    <2>5. RegTypeOK'
      BY <1>27, ForgetType DEF Cancelled, RegTypeOK, regVars
    <2>6. CountTypeOK'
      BY <1>27, ForgetType DEF Cancelled, CountTypeOK, boundVars
    <2> QED
      BY <2>1, <2>2, <2>3, <2>4, <2>5, <2>6, Kept
  <1>28. CASE Crash
    <2>1. UNCHANGED <<chiVars, kubeVars>>
      BY <1>28 DEF Crash
    <2>2. PassTypeOK' /\ WalkInv'
      BY <1>28, ForgetType
         DEF Crash, PassTypeOK, WalkInv, HostSteps, AuxSteps, ChiTypeOK, Chis
    <2>3. HostTypeOK'
      BY <1>28, ForgetType DEF Crash, HostTypeOK
    <2>4. RegTypeOK'
      BY <1>28, ForgetType DEF Crash, RegTypeOK
    <2>5. CountTypeOK'
      BY <1>28, ForgetType, BoundAssumption DEF Crash, CountTypeOK
    <2> QED
      BY <2>1, <2>2, <2>3, <2>4, <2>5, Kept
  <1>29. CASE ScaleDown("scaleDown", "delete", "recreatePVCs")
    <2>d. H \in Hosts =>
            [sts[H].spec EXCEPT !.up = FALSE] \in StsSpec /\ sts[H] \in StsType
      BY DEF KubeTypeOK, StsType, StsSpec
    <2>1. UNCHANGED <<chiVars, hostVars, regVars, n, boundVars>>
      BY <1>29 DEF ScaleDown
    <2>2. PassTypeOK' /\ WalkInv'
      BY <1>29 DEF ScaleDown, PassTypeOK, WalkInv, HostSteps, AuxSteps
    <2>3. H \in Hosts
      BY <1>29, <1>c DEF ScaleDown, HostSteps
    <2>4. KubeTypeOK'
      BY <1>29, <2>3, <2>d, KubeApplyType
         DEF ScaleDown, KubeTypeOK, StsType, kubeVars
    <2> QED
      BY <2>1, <2>2, <2>4, Kept
  <1>30. CASE ScaleDown("undoScaleDown", "undoDelete", "undoPVC")
    <2>d. H \in Hosts =>
            [sts[H].spec EXCEPT !.up = FALSE] \in StsSpec /\ sts[H] \in StsType
      BY DEF KubeTypeOK, StsType, StsSpec
    <2>1. UNCHANGED <<chiVars, hostVars, regVars, n, boundVars>>
      BY <1>30 DEF ScaleDown
    <2>2. PassTypeOK' /\ WalkInv'
      BY <1>30 DEF ScaleDown, PassTypeOK, WalkInv, HostSteps, AuxSteps
    <2>3. H \in Hosts
      BY <1>30, <1>c DEF ScaleDown, HostSteps
    <2>4. KubeTypeOK'
      BY <1>30, <2>3, <2>d, KubeApplyType
         DEF ScaleDown, KubeTypeOK, StsType, kubeVars
    <2> QED
      BY <2>1, <2>2, <2>4, Kept
  <1>31. CASE DeleteStatefulSet("delete", "recreatePVCs")
    <2>1. UNCHANGED <<chiVars, hostVars, regVars, n, boundVars>>
      BY <1>31 DEF DeleteStatefulSet
    <2>2. PassTypeOK' /\ WalkInv'
      BY <1>31 DEF DeleteStatefulSet, PassTypeOK, WalkInv, HostSteps, AuxSteps
    <2>3. H \in Hosts
      BY <1>31, <1>c DEF DeleteStatefulSet, HostSteps
    <2>4. CASE KubeDelete(H)
      BY <2>1, <2>2, <2>3, <2>4, KubeDeleteType, Kept
    <2>5. CASE UNCHANGED kubeVars
      BY <2>1, <2>2, <2>5, Kept DEF KubeTypeOK, kubeVars
    <2> QED
      BY <1>31, <2>4, <2>5 DEF DeleteStatefulSet
  <1>32. CASE DeleteStatefulSet("undoDelete", "undoPVC")
    <2>1. UNCHANGED <<chiVars, hostVars, regVars, n, boundVars>>
      BY <1>32 DEF DeleteStatefulSet
    <2>2. PassTypeOK' /\ WalkInv'
      BY <1>32 DEF DeleteStatefulSet, PassTypeOK, WalkInv, HostSteps, AuxSteps
    <2>3. H \in Hosts
      BY <1>32, <1>c DEF DeleteStatefulSet, HostSteps
    <2>4. CASE KubeDelete(H)
      BY <2>1, <2>2, <2>3, <2>4, KubeDeleteType, Kept
    <2>5. CASE UNCHANGED kubeVars
      BY <2>1, <2>2, <2>5, Kept DEF KubeTypeOK, kubeVars
    <2> QED
      BY <1>32, <2>4, <2>5 DEF DeleteStatefulSet
  <1>33. CASE DeleteObject("undoPVC", "PVC", "undoConfigMap")
    <2>1. UNCHANGED <<chiVars, hostVars, regVars, n, boundVars>>
      BY <1>33 DEF DeleteObject
    <2>2. PassTypeOK' /\ WalkInv'
      BY <1>33 DEF DeleteObject, PassTypeOK, WalkInv, HostSteps, AuxSteps
    <2>3. KubeTypeOK'
      BY <1>33 DEF DeleteObject, KubeTypeOK
    <2> QED
      BY <2>1, <2>2, <2>3, Kept
  <1>34. CASE DeleteObject("undoConfigMap", "ConfigMap", "undoService")
    <2>1. UNCHANGED <<chiVars, hostVars, regVars, n, boundVars>>
      BY <1>34 DEF DeleteObject
    <2>2. PassTypeOK' /\ WalkInv'
      BY <1>34 DEF DeleteObject, PassTypeOK, WalkInv, HostSteps, AuxSteps
    <2>3. KubeTypeOK'
      BY <1>34 DEF DeleteObject, KubeTypeOK
    <2> QED
      BY <2>1, <2>2, <2>3, Kept
  <1>35. CASE DeleteObject("undoService", "Service", "statefulSetDone")
    <2>1. UNCHANGED <<chiVars, hostVars, regVars, n, boundVars>>
      BY <1>35 DEF DeleteObject
    <2>2. PassTypeOK' /\ WalkInv'
      BY <1>35 DEF DeleteObject, PassTypeOK, WalkInv, HostSteps, AuxSteps
    <2>3. KubeTypeOK'
      BY <1>35 DEF DeleteObject, KubeTypeOK
    <2> QED
      BY <2>1, <2>2, <2>3, Kept
  <1>36. CASE ReconcilePVCs("recreatePVCs", "create")
    <2>1. UNCHANGED <<chiVars, hostVars, n, boundVars>>
      BY <1>36 DEF ReconcilePVCs
    <2>2. PassTypeOK' /\ WalkInv'
      BY <1>36 DEF ReconcilePVCs, PassTypeOK, WalkInv, HostSteps, AuxSteps
    <2>3. H \in Hosts
      BY <1>36, <1>c DEF ReconcilePVCs, HostSteps
    <2>4. KubeTypeOK'
      BY <1>36, <2>3, <1>a DEF ReconcilePVCs, KubeTypeOK, SpecType
    <2>5. RegTypeOK'
      BY <1>36, <2>3 DEF ReconcilePVCs, RegTypeOK, Objects, Kinds
    <2> QED
      BY <2>1, <2>2, <2>4, <2>5, Kept
  <1>37. CASE ReconcilePVCs("pvcs", "service")
    <2>1. UNCHANGED <<chiVars, hostVars, n, boundVars>>
      BY <1>37 DEF ReconcilePVCs
    <2>2. PassTypeOK' /\ WalkInv'
      BY <1>37 DEF ReconcilePVCs, PassTypeOK, WalkInv, HostSteps, AuxSteps
    <2>3. H \in Hosts
      BY <1>37, <1>c DEF ReconcilePVCs, HostSteps
    <2>4. KubeTypeOK'
      BY <1>37, <2>3, <1>a DEF ReconcilePVCs, KubeTypeOK, SpecType
    <2>5. RegTypeOK'
      BY <1>37, <2>3 DEF ReconcilePVCs, RegTypeOK, Objects, Kinds
    <2> QED
      BY <2>1, <2>2, <2>4, <2>5, Kept
  <1>38. CASE \E o \in trash : Purge(o)
    <2>1. UNCHANGED <<chiVars, hostVars, n, boundVars>>
      BY <1>38 DEF Purge
    <2>2. PassTypeOK' /\ WalkInv'
      BY <1>38 DEF Purge, PassTypeOK, WalkInv, HostSteps, AuxSteps
    <2>3. KubeTypeOK'
      BY <1>38, KubeDeleteType
         DEF Purge, KubeTypeOK, kubeVars, RegTypeOK, Objects
    <2>4. RegTypeOK'
      BY <1>38 DEF Purge, RegTypeOK
    <2> QED
      BY <2>1, <2>2, <2>3, <2>4, Kept
  <1>39. CASE \E s \in Specs : ApplySpec(s)
    <2>1. PICK s \in Specs : ApplySpec(s)
      BY <1>39
    <2>2. UNCHANGED <<kubeVars, hostVars, regVars>>
      BY <2>1 DEF ApplySpec
    <2>3. ChiTypeOK'
      BY <2>1 DEF ApplySpec, ChiTypeOK
    <2>4. ctxDone' \in BOOLEAN
      BY <2>1 DEF ApplySpec
    <2>5. cmd' \in [cmd : {"none", "add", "update"}, old : Chis, new : Chis]
      BY <2>1 DEF ApplySpec, ChiTypeOK, Chis
    <2>6. PassTypeOK' /\ WalkInv'
      BY <2>1, <2>4, <2>5 DEF ApplySpec, PassTypeOK, WalkInv
    <2>7. CountTypeOK'
      BY <2>1, BoundAssumption DEF ApplySpec, CountTypeOK
    <2> QED
      BY <2>2, <2>3, <2>6, <2>7, Kept
  <1>40. CASE \E h \in Hosts : PodReady(h)
    <2>1. UNCHANGED <<chiVars, hostVars, regVars, n, boundVars>>
      BY <1>40 DEF PodReady
    <2>2. PassTypeOK' /\ WalkInv'
      BY <1>40 DEF PodReady, PassTypeOK, WalkInv, HostSteps, AuxSteps
    <2>3. KubeTypeOK'
      BY <1>40 DEF PodReady, KubeTypeOK
    <2> QED
      BY <2>1, <2>2, <2>3, Kept
  <1>41. CASE UNCHANGED vars
    BY <1>41, Kept DEF vars, PassTypeOK, WalkInv
  <1> QED
    BY <1>1, <1>2, <1>3, <1>4, <1>5, <1>6, <1>7, <1>8, <1>9, <1>10, <1>11,
       <1>12, <1>13, <1>14, <1>15, <1>16, <1>17, <1>18, <1>19, <1>20, <1>21,
       <1>22, <1>23, <1>24, <1>25, <1>26, <1>27, <1>28, <1>29, <1>30, <1>31,
       <1>32, <1>33, <1>34, <1>35, <1>36, <1>37, <1>38, <1>39, <1>40, <1>41
       DEF Next, Worker, ReconcileHost

\* Every variable keeps to the values the code can give it, for any number of
\* hosts, specs, failures and restarts.
THEOREM TypeCorrect == Spec => []TypeOK
  <1>1. TypeInv => TypeOK
    BY DEF TypeInv
  <1> QED
    BY <1>1, TypeInit, TypeStep, PTL DEF Spec

-----------------------------------------------------------------------------
(* The registries and the cleanup.                                         *)

\* What purge relies on: an object that exists is in one of the registries.
Registered(kind, h) == <<kind, h>> \in objs => <<kind, h>> \in reconciled \cup failed

\* The steps on a host after its ConfigMap, StatefulSet, PVC and Service were
\* registered.
AfterService == {"migrate", "migratePing", "includeInCluster", "includeInService"}
AfterPVC == AfterService \cup {"service"}
AfterStatefulSet == AfterPVC \cup {"pvcs"}
AfterConfigMap == HostSteps \ {"excludeFromService", "excludeFromCluster", "hostConfigMap"}

\* Where the walk stands at the steps around it.
PositionInv ==
    /\ pc \in {"idle", "preliminary"} => n = 1
    /\ pc \in {"final", "clear"} => n = Len(Walk) + 1

\* Behind the walk every object of a host of the CHI is registered ...
WalkedInv ==
    pc \in HostSteps \cup {"prepare", "final", "clear"} =>
        \A i \in 1 .. n - 1 : Walk[i] \in new.hosts =>
            \A kind \in Kinds : Registered(kind, Walk[i])

\* ... as are those of the current host that were reconciled so far ...
CurrentInv ==
    /\ pc \in AfterConfigMap => Registered("ConfigMap", H)
    /\ pc \in AfterStatefulSet => Registered("StatefulSet", H)
    /\ pc \in AfterPVC => Registered("PVC", H)
    /\ pc \in AfterService => Registered("Service", H)

\* ... so that of the hosts of the CHI only failed objects are left to purge.
TrashInv == pc = "purge" => \A o \in trash : o[2] \in new.hosts => o \in failed

RegistryInv == PositionInv /\ WalkedInv /\ CurrentInv /\ TrashInv

\* An object stays registered while the registries grow and it is not made anew.
LEMMA RegisteredKept ==
    ASSUME NEW kind, NEW h, Registered(kind, h),
           <<kind, h>> \in objs' => <<kind, h>> \in objs,
           reconciled \subseteq reconciled', failed \subseteq failed'
    PROVE  Registered(kind, h)'
  BY DEF Registered

\* A step on the current host leaves the hosts behind the walk alone.
LEMMA WalkedKept ==
    ASSUME TypeInv, WalkedInv, pc \in HostSteps,
           objs' \subseteq objs \cup (Kinds \X {H}),
           reconciled \subseteq reconciled', failed \subseteq failed',
           UNCHANGED <<new, n>>
    PROVE  WalkedInv'
  <1>1. n \in 1 .. Len(Walk) /\ Len(Walk) \in Nat /\ DOMAIN Walk = 1 .. Len(Walk)
    BY WalkFacts DEF TypeInv, WalkInv
  <1> SUFFICES ASSUME NEW i \in 1 .. n - 1, Walk[i] \in new.hosts,
                      NEW kind \in Kinds
               PROVE  Registered(kind, Walk[i])'
    BY DEF WalkedInv
  <1>2. Registered(kind, Walk[i])
    BY DEF WalkedInv
  <1>3. i \in DOMAIN Walk /\ n \in DOMAIN Walk /\ i # n
    BY <1>1
  <1>4. Walk[i] # H
    BY <1>3, WalkAssumption DEF H
  <1> QED
    BY <1>2, <1>4, RegisteredKept

\* The registries depend on nothing but the pass and the objects.
LEMMA RegistryStay ==
    ASSUME RegistryInv, UNCHANGED <<pc, n, new, objs, reconciled, failed, trash>>
    PROVE  RegistryInv'
  BY DEF RegistryInv, PositionInv, WalkedInv, CurrentInv, TrashInv,
         Registered, H

\* Every step keeps the registries complete, unless the read of a PVC fails: then
\* reconcilePVCs registers the PVC nowhere.
LEMMA RegistryStep ==
    ASSUME "pvcGet" \notin Faults
    PROVE  TypeInv /\ RegistryInv /\ [Next]_vars => RegistryInv'
  <1> SUFFICES ASSUME TypeInv, RegistryInv, [Next]_vars PROVE RegistryInv'
    OBVIOUS
  <1> USE DEF RegistryInv, chiVars, kubeVars, passVars, hostVars, regVars, boundVars,
             AfterConfigMap, AfterStatefulSet, AfterPVC, AfterService
  <1>1. CASE ExcludeFromService
    <2>1. /\ pc \in HostSteps /\ UNCHANGED <<new, n>>
          /\ objs' \subseteq objs \cup (Kinds \X {H})
          /\ reconciled \subseteq reconciled' /\ failed \subseteq failed'
      BY <1>1 DEF ExcludeFromService, Step, HostSteps, Kinds
    <2>2. CurrentInv'
      BY <1>1 DEF ExcludeFromService, Step, HostSteps, CurrentInv, Registered, H
    <2>3. PositionInv' /\ TrashInv'
      BY <1>1 DEF ExcludeFromService, PositionInv, TrashInv, HostSteps
    <2> QED
      BY <2>1, <2>2, <2>3, WalkedKept
  <1>2. CASE ExcludeFromCluster
    <2>1. /\ pc \in HostSteps /\ UNCHANGED <<new, n>>
          /\ objs' \subseteq objs \cup (Kinds \X {H})
          /\ reconciled \subseteq reconciled' /\ failed \subseteq failed'
      BY <1>2 DEF ExcludeFromCluster, RemoteServers, Step, HostSteps, Kinds
    <2>2. CurrentInv'
      BY <1>2 DEF ExcludeFromCluster, RemoteServers, Step, HostSteps, CurrentInv, Registered, H
    <2>3. PositionInv' /\ TrashInv'
      BY <1>2 DEF ExcludeFromCluster, RemoteServers, PositionInv, TrashInv, HostSteps
    <2> QED
      BY <2>1, <2>2, <2>3, WalkedKept
  <1>3. CASE HostConfigMap
    <2>1. /\ pc \in HostSteps /\ UNCHANGED <<new, n>>
          /\ objs' \subseteq objs \cup (Kinds \X {H})
          /\ reconciled \subseteq reconciled' /\ failed \subseteq failed'
      BY <1>3 DEF HostConfigMap, Step, HostSteps, Kinds
    <2>2. CurrentInv'
      BY <1>3 DEF HostConfigMap, Step, HostSteps, CurrentInv, Registered, H
    <2>3. PositionInv' /\ TrashInv'
      BY <1>3 DEF HostConfigMap, PositionInv, TrashInv, HostSteps
    <2> QED
      BY <2>1, <2>2, <2>3, WalkedKept
  <1>4. CASE Update
    <2>1. /\ pc \in HostSteps /\ UNCHANGED <<new, n>>
          /\ objs' \subseteq objs \cup (Kinds \X {H})
          /\ reconciled \subseteq reconciled' /\ failed \subseteq failed'
      BY <1>4 DEF Update, Step, HostSteps, Kinds, KubeApply
    <2>2. CurrentInv'
      BY <1>4 DEF Update, Step, HostSteps, CurrentInv, Registered, H, KubeApply
    <2>3. PositionInv' /\ TrashInv'
      BY <1>4 DEF Update, PositionInv, TrashInv, HostSteps
    <2> QED
      BY <2>1, <2>2, <2>3, WalkedKept
  <1>5. CASE WaitPoll
    <2>1. /\ pc \in HostSteps /\ UNCHANGED <<new, n>>
          /\ objs' \subseteq objs \cup (Kinds \X {H})
          /\ reconciled \subseteq reconciled' /\ failed \subseteq failed'
      BY <1>5 DEF WaitPoll, Step, HostSteps, Kinds
    <2>2. CurrentInv'
      BY <1>5 DEF WaitPoll, Step, HostSteps, CurrentInv, Registered, H
    <2>3. PositionInv' /\ TrashInv'
      BY <1>5 DEF WaitPoll, PositionInv, TrashInv, HostSteps
    <2> QED
      BY <2>1, <2>2, <2>3, WalkedKept
  <1>6. CASE WaitDone
    <2>1. /\ pc \in HostSteps /\ UNCHANGED <<new, n>>
          /\ objs' \subseteq objs \cup (Kinds \X {H})
          /\ reconciled \subseteq reconciled' /\ failed \subseteq failed'
      BY <1>6 DEF WaitDone, Step, HostSteps, Kinds
    <2>2. CurrentInv'
      BY <1>6 DEF WaitDone, Step, HostSteps, CurrentInv, Registered, H
    <2>3. PositionInv' /\ TrashInv'
      BY <1>6 DEF WaitDone, PositionInv, TrashInv, HostSteps
    <2> QED
      BY <2>1, <2>2, <2>3, WalkedKept
  <1>7. CASE UpdateFailed
    <2>1. /\ pc \in HostSteps /\ UNCHANGED <<new, n>>
          /\ objs' \subseteq objs \cup (Kinds \X {H})
          /\ reconciled \subseteq reconciled' /\ failed \subseteq failed'
      BY <1>7 DEF UpdateFailed, Step, HostSteps, Kinds, KubeApply
    <2>2. CurrentInv'
      BY <1>7
         DEF UpdateFailed, Step, HostSteps, CurrentInv, Registered, H,
             KubeApply
    <2>3. PositionInv' /\ TrashInv'
      BY <1>7 DEF UpdateFailed, PositionInv, TrashInv, HostSteps
    <2> QED
      BY <2>1, <2>2, <2>3, WalkedKept
  <1>8. CASE Create
    <2>1. /\ pc \in HostSteps /\ UNCHANGED <<new, n>>
          /\ objs' \subseteq objs \cup (Kinds \X {H})
          /\ reconciled \subseteq reconciled' /\ failed \subseteq failed'
      BY <1>8 DEF Create, Step, HostSteps, Kinds, KubeApply
    <2>2. CurrentInv'
      BY <1>8 DEF Create, Step, HostSteps, CurrentInv, Registered, H, KubeApply
    <2>3. PositionInv' /\ TrashInv'
      BY <1>8 DEF Create, PositionInv, TrashInv, HostSteps
    <2> QED
      BY <2>1, <2>2, <2>3, WalkedKept
  <1>9. CASE CreateFailed
    <2>1. /\ pc \in HostSteps /\ UNCHANGED <<new, n>>
          /\ objs' \subseteq objs \cup (Kinds \X {H})
          /\ reconciled \subseteq reconciled' /\ failed \subseteq failed'
      BY <1>9 DEF CreateFailed, Step, HostSteps, Kinds
    <2>2. CurrentInv'
      BY <1>9 DEF CreateFailed, Step, HostSteps, CurrentInv, Registered, H
    <2>3. PositionInv' /\ TrashInv'
      BY <1>9 DEF CreateFailed, PositionInv, TrashInv, HostSteps
    <2> QED
      BY <2>1, <2>2, <2>3, WalkedKept
  <1>10. CASE StatefulSetDone
    <2>1. /\ pc \in HostSteps /\ UNCHANGED <<new, n>>
          /\ objs' \subseteq objs \cup (Kinds \X {H})
          /\ reconciled \subseteq reconciled' /\ failed \subseteq failed'
      BY <1>10 DEF StatefulSetDone, Step, HostSteps, Kinds
    <2>2. CurrentInv'
      BY <1>10 DEF StatefulSetDone, Step, HostSteps, CurrentInv, Registered, H
    <2>3. PositionInv' /\ TrashInv'
      BY <1>10 DEF StatefulSetDone, PositionInv, TrashInv, HostSteps
    <2> QED
      BY <2>1, <2>2, <2>3, WalkedKept
  <1>11. CASE HostService
    <2>1. /\ pc \in HostSteps /\ UNCHANGED <<new, n>>
          /\ objs' \subseteq objs \cup (Kinds \X {H})
          /\ reconciled \subseteq reconciled' /\ failed \subseteq failed'
      BY <1>11 DEF HostService, Step, HostSteps, Kinds
    <2>2. CurrentInv'
      BY <1>11 DEF HostService, Step, HostSteps, CurrentInv, Registered, H
    <2>3. PositionInv' /\ TrashInv'
      BY <1>11 DEF HostService, PositionInv, TrashInv, HostSteps
    <2> QED
      BY <2>1, <2>2, <2>3, WalkedKept
  <1>12. CASE MigrateTables
    <2>1. /\ pc \in HostSteps /\ UNCHANGED <<new, n>>
          /\ objs' \subseteq objs \cup (Kinds \X {H})
          /\ reconciled \subseteq reconciled' /\ failed \subseteq failed'
      BY <1>12 DEF MigrateTables, Step, HostSteps, Kinds
    <2>2. CurrentInv'
      BY <1>12 DEF MigrateTables, Step, HostSteps, CurrentInv, Registered, H
    <2>3. PositionInv' /\ TrashInv'
      BY <1>12 DEF MigrateTables, PositionInv, TrashInv, HostSteps
    <2> QED
      BY <2>1, <2>2, <2>3, WalkedKept
  <1>13. CASE MigratePing
    <2>1. /\ pc \in HostSteps /\ UNCHANGED <<new, n>>
          /\ objs' \subseteq objs \cup (Kinds \X {H})
          /\ reconciled \subseteq reconciled' /\ failed \subseteq failed'
      BY <1>13 DEF MigratePing, Step, HostSteps, Kinds
    <2>2. CurrentInv'
      BY <1>13 DEF MigratePing, Step, HostSteps, CurrentInv, Registered, H
    <2>3. PositionInv' /\ TrashInv'
      BY <1>13 DEF MigratePing, PositionInv, TrashInv, HostSteps
    <2> QED
      BY <2>1, <2>2, <2>3, WalkedKept
  <1>14. CASE IncludeInCluster
    <2>1. /\ pc \in HostSteps /\ UNCHANGED <<new, n>>
          /\ objs' \subseteq objs \cup (Kinds \X {H})
          /\ reconciled \subseteq reconciled' /\ failed \subseteq failed'
      BY <1>14 DEF IncludeInCluster, RemoteServers, Step, HostSteps, Kinds
    <2>2. CurrentInv'
      BY <1>14 DEF IncludeInCluster, RemoteServers, Step, HostSteps, CurrentInv, Registered, H
    <2>3. PositionInv' /\ TrashInv'
      BY <1>14 DEF IncludeInCluster, RemoteServers, PositionInv, TrashInv, HostSteps
    <2> QED
      BY <2>1, <2>2, <2>3, WalkedKept
  <1>15. CASE ScaleDown("scaleDown", "delete", "recreatePVCs")
    <2>1. /\ pc \in HostSteps /\ UNCHANGED <<new, n>>
          /\ objs' \subseteq objs \cup (Kinds \X {H})
          /\ reconciled \subseteq reconciled' /\ failed \subseteq failed'
      BY <1>15 DEF ScaleDown, Step, HostSteps, Kinds, KubeApply
    <2>2. CurrentInv'
      BY <1>15
         DEF ScaleDown, Step, HostSteps, CurrentInv, Registered, H, KubeApply
    <2>3. PositionInv' /\ TrashInv'
      BY <1>15 DEF ScaleDown, PositionInv, TrashInv, HostSteps
    <2> QED
      BY <2>1, <2>2, <2>3, WalkedKept
  <1>16. CASE ScaleDown("undoScaleDown", "undoDelete", "undoPVC")
    <2>1. /\ pc \in HostSteps /\ UNCHANGED <<new, n>>
          /\ objs' \subseteq objs \cup (Kinds \X {H})
          /\ reconciled \subseteq reconciled' /\ failed \subseteq failed'
      BY <1>16 DEF ScaleDown, Step, HostSteps, Kinds, KubeApply
    <2>2. CurrentInv'
      BY <1>16
         DEF ScaleDown, Step, HostSteps, CurrentInv, Registered, H, KubeApply
    <2>3. PositionInv' /\ TrashInv'
      BY <1>16 DEF ScaleDown, PositionInv, TrashInv, HostSteps
    <2> QED
      BY <2>1, <2>2, <2>3, WalkedKept
  <1>17. CASE DeleteStatefulSet("delete", "recreatePVCs")
    <2>1. /\ pc \in HostSteps /\ UNCHANGED <<new, n>>
          /\ objs' \subseteq objs \cup (Kinds \X {H})
          /\ reconciled \subseteq reconciled' /\ failed \subseteq failed'
      BY <1>17 DEF DeleteStatefulSet, Step, HostSteps, Kinds, KubeDelete
    <2>2. CurrentInv'
      BY <1>17
         DEF DeleteStatefulSet, Step, HostSteps, CurrentInv, Registered, H,
             KubeDelete
    <2>3. PositionInv' /\ TrashInv'
      BY <1>17 DEF DeleteStatefulSet, PositionInv, TrashInv, HostSteps
    <2> QED
      BY <2>1, <2>2, <2>3, WalkedKept
  <1>18. CASE DeleteStatefulSet("undoDelete", "undoPVC")
    <2>1. /\ pc \in HostSteps /\ UNCHANGED <<new, n>>
          /\ objs' \subseteq objs \cup (Kinds \X {H})
          /\ reconciled \subseteq reconciled' /\ failed \subseteq failed'
      BY <1>18 DEF DeleteStatefulSet, Step, HostSteps, Kinds, KubeDelete
    <2>2. CurrentInv'
      BY <1>18
         DEF DeleteStatefulSet, Step, HostSteps, CurrentInv, Registered, H,
             KubeDelete
    <2>3. PositionInv' /\ TrashInv'
      BY <1>18 DEF DeleteStatefulSet, PositionInv, TrashInv, HostSteps
    <2> QED
      BY <2>1, <2>2, <2>3, WalkedKept
  <1>19. CASE DeleteObject("undoPVC", "PVC", "undoConfigMap")
    <2>1. /\ pc \in HostSteps /\ UNCHANGED <<new, n>>
          /\ objs' \subseteq objs \cup (Kinds \X {H})
          /\ reconciled \subseteq reconciled' /\ failed \subseteq failed'
      BY <1>19 DEF DeleteObject, Step, HostSteps, Kinds
    <2>2. CurrentInv'
      BY <1>19 DEF DeleteObject, Step, HostSteps, CurrentInv, Registered, H
    <2>3. PositionInv' /\ TrashInv'
      BY <1>19 DEF DeleteObject, PositionInv, TrashInv, HostSteps
    <2> QED
      BY <2>1, <2>2, <2>3, WalkedKept
  <1>20. CASE DeleteObject("undoConfigMap", "ConfigMap", "undoService")
    <2>1. /\ pc \in HostSteps /\ UNCHANGED <<new, n>>
          /\ objs' \subseteq objs \cup (Kinds \X {H})
          /\ reconciled \subseteq reconciled' /\ failed \subseteq failed'
      BY <1>20 DEF DeleteObject, Step, HostSteps, Kinds
    <2>2. CurrentInv'
      BY <1>20 DEF DeleteObject, Step, HostSteps, CurrentInv, Registered, H
    <2>3. PositionInv' /\ TrashInv'
      BY <1>20 DEF DeleteObject, PositionInv, TrashInv, HostSteps
    <2> QED
      BY <2>1, <2>2, <2>3, WalkedKept
  <1>21. CASE DeleteObject("undoService", "Service", "statefulSetDone")
    <2>1. /\ pc \in HostSteps /\ UNCHANGED <<new, n>>
          /\ objs' \subseteq objs \cup (Kinds \X {H})
          /\ reconciled \subseteq reconciled' /\ failed \subseteq failed'
      BY <1>21 DEF DeleteObject, Step, HostSteps, Kinds
    <2>2. CurrentInv'
      BY <1>21 DEF DeleteObject, Step, HostSteps, CurrentInv, Registered, H
    <2>3. PositionInv' /\ TrashInv'
      BY <1>21 DEF DeleteObject, PositionInv, TrashInv, HostSteps
    <2> QED
      BY <2>1, <2>2, <2>3, WalkedKept
  <1>22. CASE ReconcilePVCs("recreatePVCs", "create")
    <2>1. /\ pc \in HostSteps /\ UNCHANGED <<new, n>>
          /\ objs' \subseteq objs \cup (Kinds \X {H})
          /\ reconciled \subseteq reconciled' /\ failed \subseteq failed'
      BY <1>22 DEF ReconcilePVCs, Step, HostSteps, Kinds
    <2>2. CurrentInv'
      BY <1>22 DEF ReconcilePVCs, Step, HostSteps, CurrentInv, Registered, H
    <2>3. PositionInv' /\ TrashInv'
      BY <1>22 DEF ReconcilePVCs, PositionInv, TrashInv, HostSteps
    <2> QED
      BY <2>1, <2>2, <2>3, WalkedKept
  <1>23. CASE ReconcilePVCs("pvcs", "service")
    <2>1. /\ pc \in HostSteps /\ UNCHANGED <<new, n>>
          /\ objs' \subseteq objs \cup (Kinds \X {H})
          /\ reconciled \subseteq reconciled' /\ failed \subseteq failed'
      BY <1>23 DEF ReconcilePVCs, Step, HostSteps, Kinds
    <2>2. CurrentInv'
      BY <1>23 DEF ReconcilePVCs, Step, HostSteps, CurrentInv, Registered, H
    <2>3. PositionInv' /\ TrashInv'
      BY <1>23 DEF ReconcilePVCs, PositionInv, TrashInv, HostSteps
    <2> QED
      BY <2>1, <2>2, <2>3, WalkedKept
  <1>24. CASE ReconcileStatefulSet
    <2>1. /\ pc = "statefulSet" /\ UNCHANGED <<new, n, objs, reconciled, failed>>
          /\ pc' \in {"statefulSetDone", "create", "update", "scaleDown"}
      BY <1>24 DEF ReconcileStatefulSet, StatusOf, Step
    <2>2. CurrentInv'
      BY <2>1 DEF CurrentInv, Registered, H, HostSteps
    <2>3. PositionInv' /\ TrashInv'
      BY <2>1 DEF PositionInv, TrashInv
    <2> QED
      BY <2>1, <2>2, <2>3, WalkedKept DEF HostSteps
  <1>25. CASE EnsureFinalizer
    <2>1. UNCHANGED <<pc, n, new, objs, reconciled, failed, trash>>
      BY <1>25 DEF EnsureFinalizer
    <2> QED
      BY <2>1, RegistryStay
  <1>26. CASE \E s \in Specs : ApplySpec(s)
    <2>1. UNCHANGED <<pc, n, new, objs, reconciled, failed, trash>>
      BY <1>26 DEF ApplySpec
    <2> QED
      BY <2>1, RegistryStay
  <1>27. CASE \E h \in Hosts : PodReady(h)
    <2>1. UNCHANGED <<pc, n, new, objs, reconciled, failed, trash>>
      BY <1>27 DEF PodReady
    <2> QED
      BY <2>1, RegistryStay
  <1>28. CASE UNCHANGED vars
    <2>1. UNCHANGED <<pc, n, new, objs, reconciled, failed, trash>>
      BY <1>28 DEF vars
    <2> QED
      BY <2>1, RegistryStay
  <1>29. CASE Complete
    <2>1. pc' \in {"idle", "fail", "ping"} /\ (pc' = "idle" => n' = 1)
      BY <1>29 DEF Complete, Forget
    <2> QED
      BY <2>1 DEF PositionInv, WalkedInv, CurrentInv, TrashInv, HostSteps
  <1>30. CASE Judge
    <2>1. pc' \in {"idle", "fail"} /\ (pc' = "idle" => n' = 1)
      BY <1>30 DEF Judge, Forget
    <2> QED
      BY <2>1 DEF PositionInv, WalkedInv, CurrentInv, TrashInv, HostSteps
  <1>31. CASE Fail
    <2>1. pc' \in {"idle", "fail"} /\ (pc' = "idle" => n' = 1)
      BY <1>31 DEF Fail, Forget
    <2> QED
      BY <2>1 DEF PositionInv, WalkedInv, CurrentInv, TrashInv, HostSteps
  <1>32. CASE Cancelled
    <2>1. pc' \in {"idle", "fail"} /\ (pc' = "idle" => n' = 1)
      BY <1>32 DEF Cancelled, Forget
    <2> QED
      BY <2>1 DEF PositionInv, WalkedInv, CurrentInv, TrashInv, HostSteps
  <1>33. CASE Crash
    <2>1. pc' \in {"idle", "fail"} /\ (pc' = "idle" => n' = 1)
      BY <1>33 DEF Crash, Forget
    <2> QED
      BY <2>1 DEF PositionInv, WalkedInv, CurrentInv, TrashInv, HostSteps
  <1>34. CASE Start
    <2>1. pc' = "preliminary" /\ n' = 1
      BY <1>34 DEF Start, Added, PositionInv
    <2> QED
      BY <2>1 DEF PositionInv, WalkedInv, CurrentInv, TrashInv, HostSteps
  <1>35. CASE Preliminary
    <2>1. pc' \in {"fail", "prepare"} /\ n' = 1
      BY <1>35 DEF Preliminary, RemoteServers, Step, PositionInv
    <2>2. 1 .. n' - 1 = {}
      BY <2>1
    <2> QED
      BY <2>1, <2>2 DEF PositionInv, WalkedInv, CurrentInv, TrashInv, HostSteps
  <1>36. CASE NextHost
    <2>1. /\ pc = "prepare" /\ UNCHANGED <<new, objs, reconciled, failed>>
          /\ \/ n > Len(Walk) /\ pc' = "final" /\ n' = n
             \/ pc' = "fail" /\ n' = n
             \/ Walk[n] \notin new.hosts /\ pc' = "prepare" /\ n' = n + 1
      BY <1>36 DEF NextHost, Step, H
    <2>2. n \in 1 .. Len(Walk) + 1 /\ Len(Walk) \in Nat
      BY WalkFacts DEF TypeInv, TypeOK, CountTypeOK
    <2>3. PositionInv' /\ CurrentInv' /\ TrashInv'
      BY <2>1, <2>2 DEF PositionInv, CurrentInv, TrashInv, HostSteps
    <2>4. \A i \in 1 .. n' - 1 : i \in 1 .. n - 1 \/ Walk[i] \notin new.hosts
      BY <2>1, <2>2
    <2>5. WalkedInv'
      BY <2>1, <2>4 DEF WalkedInv, Registered
    <2> QED
      BY <2>3, <2>5
  <1>37. CASE Prepare
    <2>1. /\ pc = "prepare" /\ pc' \in {"excludeFromService", "hostConfigMap"}
          /\ UNCHANGED <<n, new, objs, reconciled, failed>>
      BY <1>37 DEF Prepare, Step
    <2> QED
      BY <2>1
         DEF PositionInv, WalkedInv, CurrentInv, TrashInv, Registered,
             HostSteps
  <1>38. CASE IncludeInService
    <2>1. /\ pc = "includeInService" /\ pc' = "prepare" /\ n' = n + 1
          /\ UNCHANGED <<new, objs, reconciled, failed>>
      BY <1>38 DEF IncludeInService, Step
    <2>2. n \in Nat
      BY <2>1, WalkFacts DEF TypeInv, WalkInv, HostSteps
    <2>3. \A kind \in Kinds : Registered(kind, Walk[n])
      BY <2>1 DEF CurrentInv, H, Kinds, HostSteps
    <2>4. \A i \in 1 .. n' - 1 : i \in 1 .. n - 1 \/ i = n
      BY <2>1, <2>2
    <2>5. \A i \in 1 .. n' - 1 : Walk[i] \in new.hosts =>
            \A kind \in Kinds : Registered(kind, Walk[i])
      BY <2>1, <2>3, <2>4 DEF WalkedInv, HostSteps
    <2>6. WalkedInv'
      BY <2>1, <2>5 DEF WalkedInv, Registered
    <2> QED
      BY <2>1, <2>6 DEF PositionInv, CurrentInv, TrashInv, HostSteps
  <1>39. CASE Final
    <2>1. /\ pc = "final" /\ pc' \in {"clear", "fail"}
          /\ UNCHANGED <<n, new, objs, reconciled, failed>>
      BY <1>39 DEF Final, RemoteServers, Step
    <2> QED
      BY <2>1
         DEF PositionInv, WalkedInv, CurrentInv, TrashInv, Registered,
             HostSteps
  <1>40. CASE Clear
    <2>1. /\ pc = "clear" /\ pc' = "purge" /\ trash' = objs \ reconciled
          /\ UNCHANGED <<new, failed>>
      BY <1>40 DEF Clear, Step
    <2>2. ASSUME NEW o \in objs, o[2] \in new.hosts
          PROVE  o \in reconciled \cup failed
      <3>1. o[1] \in Kinds /\ o = <<o[1], o[2]>> /\ o[2] \in Hosts
        BY DEF TypeInv, TypeOK, KubeTypeOK, Objects
      <3>2. PICK i \in DOMAIN Walk : Walk[i] = o[2]
        BY <3>1 DEF Hosts
      <3>3. i \in 1 .. n - 1
        BY <2>1, <3>2, WalkFacts DEF PositionInv
      <3> QED
        BY <2>1, <2>2, <3>1, <3>2, <3>3 DEF WalkedInv, Registered
    <2>3. TrashInv'
      BY <2>1, <2>2 DEF TrashInv
    <2> QED
      BY <2>1, <2>3 DEF PositionInv, WalkedInv, CurrentInv, HostSteps
  <1>41. CASE \E o \in trash : Purge(o)
    <2>1. pc = "purge" /\ trash' \subseteq trash /\ UNCHANGED <<pc, n, new, failed>>
      BY <1>41 DEF Purge, Step
    <2> QED
      BY <2>1 DEF PositionInv, WalkedInv, CurrentInv, TrashInv, HostSteps
  <1> QED
    BY <1>1, <1>2, <1>3, <1>4, <1>5, <1>6, <1>7, <1>8, <1>9, <1>10, <1>11,
       <1>12, <1>13, <1>14, <1>15, <1>16, <1>17, <1>18, <1>19, <1>20, <1>21,
       <1>22, <1>23, <1>24, <1>25, <1>26, <1>27, <1>28, <1>29, <1>30, <1>31,
       <1>32, <1>33, <1>34, <1>35, <1>36, <1>37, <1>38, <1>39, <1>40, <1>41
       DEF Next, Worker, ReconcileHost

\* Before the first pass nothing needs to be registered.
LEMMA RegistryInit == Init => RegistryInv
  BY DEF Init, RegistryInv, PositionInv, WalkedInv, CurrentInv, TrashInv,
         HostSteps, AfterConfigMap, AfterStatefulSet, AfterPVC, AfterService

\* What a step deletes while the cleanup runs is one of the trash that may be purged.
LEMMA PurgeDeletesTrash ==
    ASSUME TypeInv, [Next]_vars, pc = "purge", NEW o \in objs \ objs'
    PROVE  o \in trash /\ Purgeable(o)
  <1>1. CASE \E p \in trash : Purge(p)
    <2>1. PICK p \in trash : Purge(p)
      BY <1>1
    <2>2. p = <<p[1], p[2]>>
      BY DEF TypeInv, TypeOK, RegTypeOK, Objects
    <2> QED
      BY <2>1, <2>2 DEF Purge, KubeDelete, kubeVars
  <1>2. CASE ~ \E p \in trash : Purge(p)
    <2>1. CASE ReconcileHost
      BY <2>1
         DEF ReconcileHost, NextHost, Prepare, ExcludeFromService,
             ExcludeFromCluster, HostConfigMap, ReconcileStatefulSet, Update,
             WaitPoll, WaitDone, UpdateFailed, ScaleDown, DeleteStatefulSet,
             ReconcilePVCs, Create, CreateFailed, DeleteObject,
             StatefulSetDone, HostService, MigrateTables, MigratePing,
             IncludeInCluster, IncludeInService, Step
    <2>2. CASE EnsureFinalizer \/ Start \/ Preliminary \/ Final \/ Clear
      BY <2>2 DEF EnsureFinalizer, Start, Preliminary, Final, Clear, Step
    <2>3. CASE Complete \/ Judge \/ Fail \/ Cancelled \/ Crash
      BY <2>3 DEF Complete, Judge, Fail, Cancelled, Crash, kubeVars
    <2>4. CASE \/ \E s \in Specs : ApplySpec(s)
               \/ (\E h \in Hosts : PodReady(h))
               \/ UNCHANGED vars
      BY <2>4 DEF ApplySpec, PodReady, vars, kubeVars
    <2> QED
      BY <1>2, <2>1, <2>2, <2>3, <2>4 DEF Next, Worker
  <1> QED
    BY <1>1, <1>2

\* A step of purge deletes nothing of a host of the CHI.
LEMMA PurgeStep ==
    ASSUME FailedCleanup = "Retain", TypeInv, RegistryInv, [Next]_vars,
           pc = "purge", NEW o \in objs \ objs'
    PROVE  o[2] \notin new.hosts
  <1>1. o \in trash /\ Purgeable(o)
    BY PurgeDeletesTrash
  <1>2. o \notin failed
    BY <1>1 DEF Purgeable
  <1> QED
    BY <1>1, <1>2 DEF RegistryInv, TrashInv

\* When the cleanup retains failed objects (the default) and PVCs can be read, the
\* cleanup at the end of a pass deletes no object of a host of the CHI, for any
\* installation, failure policy and other failures on the way (clear and purge
\* against registryReconciled and registryFailed).
THEOREM PurgeSparesHosts ==
    ASSUME FailedCleanup = "Retain", "pvcGet" \notin Faults
    PROVE  Spec => PurgeSparesSpec
  <1>1. TypeInv /\ RegistryInv /\ [Next]_vars =>
          [pc = "purge" => \A o \in objs \ objs' : o[2] \notin new.hosts]_vars
    BY PurgeStep
  <1>2. TypeInv /\ RegistryInv /\ [Next]_vars => RegistryInv'
    BY RegistryStep
  <1> QED
    BY <1>1, <1>2, TypeInit, TypeStep, RegistryInit, PTL
       DEF Spec, PurgeSparesSpec

-----------------------------------------------------------------------------
(* remote_servers and the cleanup.                                         *)

\* Behind the walk the StatefulSet of every host of the CHI was reconciled, as was
\* that of the current host once the walk is past it: a StatefulSet that failed
\* ends the pass. At the cleanup remote_servers lists the hosts of the CHI, and
\* none of their StatefulSets is in the trash.
DelistInv ==
    /\ PositionInv
    /\ pc \in HostSteps \cup {"prepare", "final", "clear"} =>
           \A i \in 1 .. n - 1 : Walk[i] \in new.hosts =>
               <<"StatefulSet", Walk[i]>> \in reconciled
    /\ pc \in AfterStatefulSet => <<"StatefulSet", H>> \in reconciled
    /\ pc \in {"clear", "purge"} => rs = new.hosts
    /\ pc = "purge" => \A h \in new.hosts : <<"StatefulSet", h>> \notin trash

\* A step on the current host that stays on it, or fails: the registry grows, and
\* the walk gets past the StatefulSet only with it reconciled.
HostWork ==
    /\ pc \in HostSteps /\ pc' \in HostSteps \cup {"fail"}
    /\ UNCHANGED <<new, n>> /\ reconciled \subseteq reconciled'
    /\ pc' \in AfterStatefulSet =>
           pc \in AfterStatefulSet \/ <<"StatefulSet", H>> \in reconciled'

\* The actions of reconcileHost between its first and its last step are such.
LEMMA HostWorkStep ==
    ASSUME ReconcileHost
    PROVE  HostWork \/ NextHost \/ Prepare \/ IncludeInService
  <1> USE DEF HostWork, HostSteps, AfterStatefulSet, AfterPVC, AfterService,
              passVars, regVars, Step
  <1>1. CASE ExcludeFromService
    BY <1>1 DEF ExcludeFromService
  <1>2. CASE ExcludeFromCluster
    BY <1>2 DEF ExcludeFromCluster
  <1>3. CASE HostConfigMap
    BY <1>3 DEF HostConfigMap
  <1>4. CASE ReconcileStatefulSet
    BY <1>4 DEF ReconcileStatefulSet, StatusOf
  <1>5. CASE Update
    BY <1>5 DEF Update
  <1>6. CASE WaitPoll
    BY <1>6 DEF WaitPoll
  <1>7. CASE WaitDone
    BY <1>7 DEF WaitDone
  <1>8. CASE UpdateFailed
    BY <1>8 DEF UpdateFailed
  <1>9. CASE ScaleDown("scaleDown", "delete", "recreatePVCs")
    BY <1>9 DEF ScaleDown
  <1>10. CASE ScaleDown("undoScaleDown", "undoDelete", "undoPVC")
    BY <1>10 DEF ScaleDown
  <1>11. CASE DeleteStatefulSet("delete", "recreatePVCs")
    BY <1>11 DEF DeleteStatefulSet
  <1>12. CASE DeleteStatefulSet("undoDelete", "undoPVC")
    BY <1>12 DEF DeleteStatefulSet
  <1>13. CASE ReconcilePVCs("recreatePVCs", "create")
    BY <1>13 DEF ReconcilePVCs
  <1>14. CASE ReconcilePVCs("pvcs", "service")
    BY <1>14 DEF ReconcilePVCs
  <1>15. CASE Create
    BY <1>15 DEF Create
  <1>16. CASE CreateFailed
    BY <1>16 DEF CreateFailed
  <1>17. CASE DeleteObject("undoPVC", "PVC", "undoConfigMap")
    BY <1>17 DEF DeleteObject
  <1>18. CASE DeleteObject("undoConfigMap", "ConfigMap", "undoService")
    BY <1>18 DEF DeleteObject
  <1>19. CASE DeleteObject("undoService", "Service", "statefulSetDone")
    BY <1>19 DEF DeleteObject
  <1>20. CASE StatefulSetDone
    BY <1>20 DEF StatefulSetDone
  <1>21. CASE HostService
    BY <1>21 DEF HostService
  <1>22. CASE MigrateTables
    BY <1>22 DEF MigrateTables
  <1>23. CASE MigratePing
    BY <1>23 DEF MigratePing
  <1>24. CASE IncludeInCluster
    BY <1>24 DEF IncludeInCluster
  <1> QED
    BY <1>1, <1>2, <1>3, <1>4, <1>5, <1>6, <1>7, <1>8, <1>9, <1>10, <1>11, <1>12, <1>13, <1>14, <1>15, <1>16, <1>17, <1>18, <1>19, <1>20, <1>21, <1>22, <1>23, <1>24
       DEF ReconcileHost

\* A step on the current host keeps the invariant ...
LEMMA DelistHostWork == DelistInv /\ HostWork => DelistInv'
  <1> SUFFICES ASSUME DelistInv, HostWork PROVE DelistInv'
    OBVIOUS
  <1>1. pc' \notin AuxSteps \ {"fail"} /\ pc' \notin {"idle", "prepare"}
    BY DEF HostWork, HostSteps, AuxSteps
  <1>2. PositionInv'
    BY <1>1 DEF PositionInv, AuxSteps
  <1>3. pc' \in AfterStatefulSet => <<"StatefulSet", H>>' \in reconciled'
    BY DEF DelistInv, HostWork, H
  <1> QED
    BY <1>1, <1>2, <1>3 DEF DelistInv, HostWork, AuxSteps

\* ... and so does every other one.
LEMMA DelistStep == TypeInv /\ DelistInv /\ [Next]_vars => DelistInv'
  <1> SUFFICES ASSUME TypeInv, DelistInv, [Next]_vars PROVE DelistInv'
    OBVIOUS
  <1> USE DEF passVars, hostVars, regVars, AfterStatefulSet, AfterPVC, AfterService
  <1>1. CASE HostWork
    BY <1>1, DelistHostWork
  <1>2. CASE \/ EnsureFinalizer \/ \E s \in Specs : ApplySpec(s)
             \/ (\E h \in Hosts : PodReady(h)) \/ UNCHANGED vars
    <2>1. UNCHANGED <<pc, n, new, rs, reconciled, trash>>
      BY <1>2 DEF EnsureFinalizer, ApplySpec, PodReady, vars
    <2> QED
      BY <2>1 DEF DelistInv, PositionInv, H
  <1>3. CASE Complete \/ Judge \/ Fail \/ Cancelled \/ Crash
    <2>1. pc' \in {"idle", "fail", "ping"} /\ (pc' = "idle" => n' = 1)
      BY <1>3 DEF Complete, Judge, Fail, Cancelled, Crash, Forget
    <2> QED
      BY <2>1 DEF DelistInv, PositionInv, HostSteps
  <1>4. CASE Start
    <2>1. pc' = "preliminary" /\ n' = 1
      BY <1>4 DEF Start, DelistInv, PositionInv
    <2> QED
      BY <2>1 DEF DelistInv, PositionInv, HostSteps
  <1>5. CASE Preliminary
    <2>1. pc' \in {"fail", "prepare"} /\ n' = 1
      BY <1>5 DEF Preliminary, Step, DelistInv, PositionInv
    <2>2. 1 .. n' - 1 = {}
      BY <2>1
    <2> QED
      BY <2>1, <2>2 DEF DelistInv, PositionInv, HostSteps
  <1>6. CASE NextHost
    <2>1. /\ pc = "prepare" /\ UNCHANGED <<new, reconciled>>
          /\ \/ n > Len(Walk) /\ pc' = "final" /\ n' = n
             \/ pc' = "fail" /\ n' = n
             \/ Walk[n] \notin new.hosts /\ pc' = "prepare" /\ n' = n + 1
      BY <1>6 DEF NextHost, Step, H
    <2>2. n \in 1 .. Len(Walk) + 1 /\ Len(Walk) \in Nat
      BY WalkFacts DEF TypeInv, TypeOK, CountTypeOK
    <2>3. PositionInv'
      BY <2>1, <2>2 DEF PositionInv
    <2>4. \A i \in 1 .. n' - 1 : i \in 1 .. n - 1 \/ Walk[i] \notin new.hosts
      BY <2>1, <2>2
    <2> QED
      BY <2>1, <2>3, <2>4 DEF DelistInv, HostSteps
  <1>7. CASE Prepare
    <2>1. /\ pc = "prepare" /\ pc' \in {"excludeFromService", "hostConfigMap"}
          /\ UNCHANGED <<n, new, reconciled>>
      BY <1>7 DEF Prepare, Step
    <2> QED
      BY <2>1 DEF DelistInv, PositionInv, HostSteps
  <1>8. CASE IncludeInService
    <2>1. /\ pc = "includeInService" /\ pc' = "prepare" /\ n' = n + 1
          /\ UNCHANGED <<new, reconciled>>
      BY <1>8 DEF IncludeInService, Step
    <2>2. n \in Nat
      BY <2>1, WalkFacts DEF TypeInv, WalkInv, HostSteps
    <2>3. \A i \in 1 .. n' - 1 : i \in 1 .. n - 1 \/ i = n
      BY <2>1, <2>2
    <2>4. <<"StatefulSet", Walk[n]>> \in reconciled
      BY <2>1 DEF DelistInv, H
    <2> QED
      BY <2>1, <2>3, <2>4 DEF DelistInv, PositionInv, HostSteps
  <1>9. CASE Final
    <2>1. /\ pc = "final" /\ pc' \in {"clear", "fail"}
          /\ pc' = "clear" => rs' = new.hosts
          /\ UNCHANGED <<n, new, reconciled>>
      BY <1>9 DEF Final, RemoteServers, Step
    <2> QED
      BY <2>1 DEF DelistInv, PositionInv, HostSteps
  <1>10. CASE Clear
    <2>1. /\ pc = "clear" /\ pc' = "purge" /\ trash' = objs \ reconciled
          /\ UNCHANGED <<new, rs>>
      BY <1>10 DEF Clear, Step
    <2>2. ASSUME NEW h \in new.hosts
          PROVE  <<"StatefulSet", h>> \in reconciled
      <3>1. h \in Hosts
        BY SpecFacts DEF TypeInv, TypeOK, PassTypeOK, SpecType
      <3>2. PICK i \in DOMAIN Walk : Walk[i] = h
        BY <3>1 DEF Hosts
      <3>3. i \in 1 .. n - 1
        BY <2>1, <3>2, WalkFacts DEF DelistInv, PositionInv
      <3> QED
        BY <2>1, <3>2, <3>3 DEF DelistInv
    <2> QED
      BY <2>1, <2>2 DEF DelistInv, PositionInv, HostSteps
  <1>11. CASE \E o \in trash : Purge(o)
    <2>1. pc = "purge" /\ trash' \subseteq trash /\ UNCHANGED <<pc, n, new, rs>>
      BY <1>11 DEF Purge, Step
    <2> QED
      BY <2>1 DEF DelistInv, PositionInv, HostSteps
  <1> QED
    BY <1>1, <1>2, <1>3, <1>4, <1>5, <1>6, <1>7, <1>8, <1>9, <1>10, <1>11,
       HostWorkStep
       DEF Next, Worker

\* Before the first pass there is nothing to say.
LEMMA DelistInit == Init => DelistInv
  BY DEF Init, DelistInv, PositionInv, HostSteps, AfterStatefulSet, AfterPVC,
         AfterService

\* A StatefulSet is purged only once remote_servers no longer lists its host, for
\* any installation, policies and failures on the way (reconcileCHIAuxObjectsFinal
\* before clear and purge, and the errors that end the walk).
THEOREM DelistedFirst == Spec => DelistedBeforePurge
  <1>1. TypeInv /\ DelistInv /\ [Next]_vars =>
          [pc = "purge" =>
             \A h \in Hosts : <<"StatefulSet", h>> \in objs \ objs' => h \notin rs]_vars
    BY PurgeDeletesTrash DEF DelistInv
  <1> QED
    BY <1>1, TypeInit, TypeStep, DelistInit, DelistStep, PTL
       DEF Spec, DelistedBeforePurge
=============================================================================
