---------------------------- MODULE ChiReconcile ----------------------------
(***************************************************************************)
(* The reconcile pass of one ClickHouseInstallation (CHI): worker.updateCHI *)
(* with the host walk, the StatefulSet create / update / recreate          *)
(* protocol, the failure policies, the drain of a host out of its Service  *)
(* and out of remote_servers, and the final purge of unknown objects       *)
(* (pkg/controller/chi/worker.go, creator.go, deleter.go, poller.go).      *)
(*                                                                         *)
(* The user edits the CHI at any time; the queue keeps only the latest     *)
(* command and may cancel the context of the running pass; the operator    *)
(* may crash; API calls and waits may fail as far as Faults allows.        *)
(* Kubernetes starts pods on its own.                                      *)
(***************************************************************************)
EXTENDS Integers, Sequences, FiniteSets

CONSTANTS
    Walk,             \* the hosts in the order WalkTillError visits them
    ShardOf,          \* [Hosts -> shard]
    Specs,            \* the CHI specs a user may apply
    EmptyChi,         \* what normalize(nil) returns: a CHI with no hosts
    OnCreateFailure,  \* onStatefulSetCreateFailureAction of the operator
    OnUpdateFailure,  \* onStatefulSetUpdateFailureAction of the operator
    UnknownCleanup,   \* cleanup.unknownObjects of the CHI
    FailedCleanup,    \* cleanup.reconcileFailedObjects of the CHI
    Faults,           \* which calls may fail
    MaxApply,         \* bound: how many times the user edits the CHI
    MaxCrash          \* bound: how many times the operator restarts

Hosts == {Walk[i] : i \in DOMAIN Walk}
Chis == Specs \cup {EmptyChi}
Versions == {s.ver : s \in Chis}
Policies == {"Delete", "Retain"}
Kinds == {"StatefulSet", "PVC", "ConfigMap", "Service"}
Objects == Kinds \X Hosts
StsSpec == [ver : Versions, up : BOOLEAN]
StsType == [label : StsSpec, spec : StsSpec]

\* The calls that may fail: "cm" ConfigMap and "service" Service writes,
\* "update" and "create" of a StatefulSet, "delete" its scale-down, "remove"
\* the deletion of any object, "timeout" a StatefulSet that does not become
\* ready in time, "label" the ready label of a Pod, "pvcGet" and "pvcUpdate" a
\* PVC, "tables" the schema migration, "ping" ClickHouse not answering after
\* its restart, or the one that is still on its way down answering.
FaultNames == {"cm", "service", "update", "create", "delete", "remove", "timeout",
               "label", "pvcGet", "pvcUpdate", "tables", "ping"}

SpecType == [hosts : SUBSET Hosts, ver : Int, stop : BOOLEAN, rolling : BOOLEAN,
             wait : BOOLEAN, reclaim : Policies]

ASSUME WalkAssumption ==
    /\ Walk \in Seq(Hosts)
    /\ \A i, j \in DOMAIN Walk : Walk[i] = Walk[j] => i = j
ASSUME SpecsAssumption ==
    /\ Specs \subseteq SpecType
    /\ EmptyChi \in SpecType \ Specs
    /\ EmptyChi.hosts = {}
ASSUME PolicyAssumption ==
    /\ OnCreateFailure \in {"abort", "delete", "ignore"}
    /\ OnUpdateFailure \in {"abort", "rollback", "ignore"}
    /\ UnknownCleanup \in Policies
    /\ FailedCleanup \in Policies
    /\ Faults \subseteq FaultNames
ASSUME BoundAssumption == MaxApply \in Nat /\ MaxCrash \in Nat

VARIABLES
    \* the CHI object in the API
    want,        \* its .spec
    finalizer,   \* whether the operator's finalizer is installed
    chiStatus,   \* its .status.state
    \* the Kubernetes objects of the CHI
    entry,       \* the CHI Service, the entry point, exists
    objs,        \* which per-host objects exist
    sts,         \* [label, spec] of a StatefulSet: version label, actual spec
    pod,         \* "none", "starting" or "ready"
    ready,       \* the Pod carries the ready label the Services select
    reclaim,     \* the reclaim policy label of a PVC, "none" when absent
    rs,          \* hosts listed in remote_servers of the common ConfigMap
    \* the queue of the CHI
    cmd,         \* the pending ReconcileCHI command
    \* the worker
    pc, ctxDone,
    old, new,    \* the CHIs of the running command, normalized
    n,           \* position of the host walk
    added,       \* hosts with ReconcileAttributes.add
    stat,        \* ReconcileAttributes.status of the current host
    stage,       \* "down": first stage of a rolling update; or "desired"
    cur,         \* spec of CurStatefulSet, for a rollback
    err,         \* the error the StatefulSet functions are returning
    reconciled, failed,   \* registryReconciled, registryFailed
    trash,       \* objects discovered by clear, minus the reconciled ones
    \* history and bounds
    base,        \* hosts that served when the pass started
    applies, crashes

chiVars    == <<want, finalizer, chiStatus, entry>>
kubeVars   == <<objs, sts, pod, ready, reclaim>>
passVars   == <<old, new, base>>
hostVars   == <<stat, stage, cur, err>>
regVars    == <<reconciled, failed, trash>>
boundVars  == <<applies, crashes>>
vars == <<chiVars, kubeVars, rs, cmd, pc, ctxDone, passVars, n, added,
          hostVars, regVars, boundVars>>

NoCmd == [cmd |-> "none", old |-> EmptyChi, new |-> EmptyChi]

-----------------------------------------------------------------------------
(* What the code computes from the CHI and from the objects it reads.      *)

ShardHosts(s, h) == {g \in s.hosts : ShardOf[g] = ShardOf[h]}
Serving == {h \in Hosts : pod[h] = "ready" /\ ready[h]}

\* CreateStatefulSet: zero replicas for a stopped CHI and for the first
\* stage of a rolling update. The version label is its fingerprint.
DesiredOf(s, st) == [ver |-> s.ver, up |-> ~s.stop /\ st = "desired"]

\* NewActionPlan and walkHosts: the hosts that get the add attribute.
Added(o, s) == s.hosts \ o.hosts

\* GetRemoteServers of the CHI, without the hosts its options skip.
RemoteServers(skipped) == new.hosts \ skipped

\* The fields of a StatefulSet that does not exist.
NoSts == LET absent == DesiredOf(EmptyChi, "down") IN [label |-> absent, spec |-> absent]

\* getStatefulSetStatus compares version labels, never the specs. It is never
\* "unknown": the operator labels every StatefulSet it writes, and its cache
\* either has one or not.
StatusOf(h, d) ==
    IF <<"StatefulSet", h>> \notin objs THEN "new"
    ELSE IF sts[h].label = d THEN "same" ELSE "modified"

\* IsStatefulSetReady: ReadyReplicas equals the requested replicas.
CurReady(h) == sts[h].spec.up <=> pod[h] = "ready"

\* Mutant: only a rolling reconcile drains.
ShouldExcludeRollingOnly(h, status) == new.rolling

ShouldExclude(h, status) ==
    \/ new.rolling
    \/ status \notin {"new", "same"} /\ Cardinality(ShardHosts(new, h)) # 1

\* What Kubernetes does when the spec of the StatefulSet of h becomes v.spec.
\* A new Pod is born with the ready label: the Pod template carries it. A PVC
\* it makes carries no reclaim policy label: the claim templates have none.
KubeApply(h, v) ==
    /\ sts' = [sts EXCEPT ![h] = v]
    /\ pod' = [pod EXCEPT ![h] = IF v.spec.up THEN "starting" ELSE "none"]
    /\ ready' = [ready EXCEPT ![h] = v.spec.up]
    /\ objs' = objs \cup {<<"StatefulSet", h>>}
                    \cup (IF v.spec.up THEN {<<"PVC", h>>} ELSE {})
    /\ reclaim' = IF v.spec.up /\ <<"PVC", h>> \notin objs
                  THEN [reclaim EXCEPT ![h] = "none"] ELSE reclaim

\* Deleting a StatefulSet takes its Pod along.
KubeDelete(h) ==
    /\ objs' = objs \ {<<"StatefulSet", h>>}
    /\ pod' = [pod EXCEPT ![h] = "none"]
    /\ ready' = [ready EXCEPT ![h] = FALSE]
    /\ sts' = [sts EXCEPT ![h] = NoSts]
    /\ UNCHANGED reclaim

\* What the pass keeps for itself is gone when it ends; the objects, base and
\* the CHIs it worked on stay to be looked at.
\* (Mutant first: the walk starts at zero.)
ForgetFromZero ==
    /\ n' = 0 /\ added' = {} /\ stat' = "new" /\ stage' = "desired"
    /\ cur' = NoSts.spec /\ err' = "none"
    /\ reconciled' = {} /\ failed' = {} /\ trash' = {}

Forget ==
    /\ n' = 1 /\ added' = {} /\ stat' = "new" /\ stage' = "desired"
    /\ cur' = NoSts.spec /\ err' = "none"
    /\ reconciled' = {} /\ failed' = {} /\ trash' = {}

-----------------------------------------------------------------------------
Init ==
    /\ want \in Specs
    /\ finalizer = FALSE /\ chiStatus = "" /\ entry = FALSE
    /\ objs = {}
    /\ sts = [h \in Hosts |-> NoSts]
    /\ pod = [h \in Hosts |-> "none"]
    /\ ready = [h \in Hosts |-> FALSE]
    /\ reclaim = [h \in Hosts |-> "none"]
    /\ rs = {}
    /\ cmd = [cmd |-> "add", old |-> EmptyChi, new |-> want]
    /\ pc = "idle" /\ ctxDone = FALSE
    /\ old = EmptyChi /\ new = EmptyChi /\ n = 1 /\ added = {}
    /\ stat = "new" /\ stage = "desired" /\ cur = NoSts.spec
    /\ err = "none"
    /\ reconciled = {} /\ failed = {} /\ trash = {} /\ base = {}
    /\ applies = 0 /\ crashes = 0

\* The user edits the CHI. The informer hands the two versions to
\* enqueueObject, which queues them because the specs differ. The queue keeps
\* one command per CHI, the latest, and may cancel the running one.
ApplySpec(s) ==
    /\ applies < MaxApply /\ applies' = applies + 1
    /\ s # want
    /\ want' = s
    /\ cmd' = [cmd |-> "update", old |-> want, new |-> s]
    /\ \E cancel \in BOOLEAN : ctxDone' = (ctxDone \/ (cancel /\ pc # "idle"))
    /\ UNCHANGED <<finalizer, chiStatus, entry, kubeVars, rs, pc, passVars, n,
                   added, hostVars, regVars, crashes>>

PodReady(h) ==
    /\ pod[h] = "starting"
    /\ pod' = [pod EXCEPT ![h] = "ready"]
    /\ UNCHANGED <<chiVars, objs, sts, ready, reclaim, rs, cmd, pc, ctxDone,
                   passVars, n, added, hostVars, regVars, boundVars>>

\* The operator dies at any point. On its restart the informer lists the CHI
\* and reports it as added, whatever state it is in.
Crash ==
    /\ crashes < MaxCrash /\ crashes' = crashes + 1
    /\ cmd' = [cmd |-> "add", old |-> EmptyChi, new |-> want]
    /\ pc' = "idle" /\ ctxDone' = FALSE /\ base' = {}
    /\ old' = EmptyChi /\ new' = EmptyChi
    /\ Forget
    /\ UNCHANGED <<chiVars, kubeVars, rs, applies>>

-----------------------------------------------------------------------------
(* The worker. Every function of the pass returns at once when its context *)
(* is done, so a step is taken with a live context, or skipped (Cancelled).*)

\* The steps of updateCHI around the walk, and those on one host.
AuxSteps == {"preliminary", "final", "clear", "purge", "ping", "fail"}
HostSteps == {"excludeFromService", "excludeFromCluster", "hostConfigMap",
              "statefulSet", "update", "updateWait", "scaleDown", "delete",
              "recreatePVCs", "create", "createWait", "undoScaleDown",
              "undoDelete", "undoPVC", "undoConfigMap", "undoService",
              "statefulSetDone", "pvcs", "service", "migrate", "migratePing",
              "includeInCluster", "includeInService"}

Step(p) == pc = p /\ ~ctxDone
H == Walk[n]
Target == DesiredOf(new, stage)

\* updateCHI on a CHI without the operator's finalizer: install it and leave;
\* the update event of the installation starts the real pass.
EnsureFinalizer ==
    /\ pc = "idle" /\ cmd.cmd # "none" /\ ~finalizer
    /\ finalizer' = TRUE
    /\ cmd' = [cmd |-> "update", old |-> want, new |-> want]
    /\ UNCHANGED <<want, chiStatus, entry, kubeVars, rs, pc, ctxDone, passVars,
                   n, added, hostVars, regVars, boundVars>>

\* updateCHI up to the walk: fresh registries, markReconcileStart, walkHosts
\* giving the add attribute to the hosts the old CHI does not have.
Start ==
    /\ pc = "idle" /\ cmd.cmd # "none" /\ finalizer
    /\ cmd' = NoCmd
    /\ pc' = "preliminary" /\ ctxDone' = FALSE
    /\ old' = cmd.old /\ new' = cmd.new
    /\ added' = Added(cmd.old, cmd.new)
    /\ chiStatus' = IF cmd.cmd = "add" THEN "Creating" ELSE "InProgress"
    /\ base' = Serving
    /\ UNCHANGED <<want, finalizer, entry, kubeVars, rs, n, hostVars, regVars,
                   boundVars>>

\* reconcileCHIAuxObjectsPreliminary: the CHI Service, which is deleted and
\* created again when it cannot be updated, and whose failure aborts the pass;
\* of a stopped CHI it is deleted, and that it stays is only logged. Then the
\* common ConfigMap without the added hosts, whose failure is only logged.
Preliminary ==
    /\ Step("preliminary")
    /\ \/ "service" \in Faults /\ ~new.stop
          /\ pc' = "fail" /\ entry' \in {entry, FALSE} /\ UNCHANGED rs
       \/ /\ pc' = "prepare"
          /\ \/ entry' = ~new.stop
             \/ new.stop /\ "remove" \in Faults /\ UNCHANGED entry
          /\ \/ rs' = RemoteServers(added)
             \/ "cm" \in Faults /\ UNCHANGED rs
    /\ UNCHANGED <<want, finalizer, chiStatus, kubeVars, cmd, ctxDone, passVars,
                   n, added, hostVars, regVars, boundVars>>

\* The Services of a cluster and of a shard come before their first host.
FirstOfShard ==
    /\ n <= Len(Walk) /\ H \in new.hosts
    /\ \A i \in 1 .. n - 1 : Walk[i] \in new.hosts => ShardOf[Walk[i]] # ShardOf[H]

\* The walk moves to the next host of the CHI, or past the last one. The
\* Services on the way matter to nothing here but that their errors abort it.
NextHost ==
    /\ Step("prepare")
    /\ \/ n > Len(Walk) /\ pc' = "final" /\ UNCHANGED n
       \/ "service" \in Faults /\ FirstOfShard /\ pc' = "fail" /\ UNCHANGED n
       \/ n <= Len(Walk) /\ H \notin new.hosts /\ n' = n + 1 /\ UNCHANGED pc
    /\ UNCHANGED <<chiVars, kubeVars, rs, cmd, ctxDone, passVars, added,
                   hostVars, regVars, boundVars>>

\* reconcileHost: prepareHostStatefulSetWithStatus and shouldExcludeHost.
Prepare ==
    /\ Step("prepare") /\ n <= Len(Walk) /\ H \in new.hosts
    /\ stat' = StatusOf(H, DesiredOf(new, "desired"))
    /\ pc' = IF ShouldExclude(H, stat') THEN "excludeFromService" ELSE "hostConfigMap"
    /\ stage' = IF new.rolling THEN "down" ELSE "desired"
    /\ err' = "none"
    /\ UNCHANGED <<chiVars, kubeVars, rs, cmd, ctxDone, passVars, n, added, cur,
                   regVars, boundVars>>

\* excludeHostFromService: deleteLabelReady leaves a host alone whose desired
\* StatefulSet has no replicas; its error is dropped.
ExcludeFromService ==
    /\ Step("excludeFromService")
    /\ \/ ready' = [ready EXCEPT ![H] = ready[H] /\ new.stop]
       \/ "label" \in Faults /\ UNCHANGED ready
    /\ pc' = IF new.wait THEN "excludeFromCluster" ELSE "hostConfigMap"
    /\ UNCHANGED <<chiVars, objs, sts, pod, reclaim, rs, cmd, ctxDone, passVars,
                   n, added, hostVars, regVars, boundVars>>

\* Mutant: the rewritten remote_servers still lists the host.
ExcludeFromClusterKeepingHost ==
    /\ Step("excludeFromCluster")
    /\ rs' = RemoteServers(added)
    /\ pc' = "hostConfigMap"
    /\ UNCHANGED <<chiVars, kubeVars, cmd, ctxDone, passVars, n, added,
                   hostVars, regVars, boundVars>>

\* excludeHostFromClickHouseCluster: rewrite remote_servers without the host.
\* The wait for ClickHouse to notice ends in any case; errors are dropped.
ExcludeFromCluster ==
    /\ Step("excludeFromCluster")
    /\ \/ rs' = RemoteServers(added \cup {H})
       \/ "cm" \in Faults /\ UNCHANGED rs
    /\ pc' = "hostConfigMap"
    /\ UNCHANGED <<chiVars, kubeVars, cmd, ctxDone, passVars, n, added,
                   hostVars, regVars, boundVars>>

\* reconcileHostConfigMap: its error aborts the walk.
HostConfigMap ==
    /\ Step("hostConfigMap")
    /\ \/ /\ objs' = objs \cup {<<"ConfigMap", H>>}
          /\ reconciled' = reconciled \cup {<<"ConfigMap", H>>}
          /\ pc' = "statefulSet"
          /\ UNCHANGED failed
       \/ /\ "cm" \in Faults
          /\ failed' = failed \cup {<<"ConfigMap", H>>}
          /\ pc' = "fail"
          /\ UNCHANGED <<objs, reconciled>>
    /\ UNCHANGED <<chiVars, sts, pod, ready, reclaim, rs, cmd, ctxDone, passVars,
                   n, added, hostVars, trash, boundVars>>

\* reconcileStatefulSet: nothing for the same version label; update a
\* StatefulSet that is ready, recreate one that is not, create a missing one.
ReconcileStatefulSet ==
    /\ Step("statefulSet")
    /\ stat' = StatusOf(H, Target)
    /\ cur' = sts[H].spec
    /\ err' = "none"
    /\ pc' = CASE stat' = "same"                        -> "statefulSetDone"
               [] stat' = "new"                         -> "create"
               [] stat' = "modified" /\ CurReady(H)     -> "update"
               [] stat' = "modified" /\ ~CurReady(H)    -> "scaleDown"
    /\ UNCHANGED <<chiVars, kubeVars, rs, cmd, ctxDone, passVars, n, added,
                   stage, regVars, boundVars>>

\* updateStatefulSet: the API call. Without a change of the spec there is no
\* new generation and nothing to wait for; an error leads to the recreate.
Update ==
    /\ Step("update")
    /\ \/ /\ sts[H].spec # Target
          /\ KubeApply(H, [label |-> Target, spec |-> Target])
          /\ pc' = "updateWait"
       \/ /\ sts[H].spec = Target
          /\ sts' = [sts EXCEPT ![H].label = Target]
          /\ pc' = "statefulSetDone"
          /\ UNCHANGED <<objs, pod, ready, reclaim>>
       \/ /\ "update" \in Faults
          /\ pc' = "scaleDown"
          /\ UNCHANGED kubeVars
    /\ UNCHANGED <<chiVars, rs, cmd, ctxDone, passVars, n, added, hostVars,
                   regVars, boundVars>>

\* waitHostReady: each poll takes the ready label off the Pod again.
WaitPoll ==
    /\ pc \in {"updateWait", "createWait"} /\ ~ctxDone
    /\ ready[H] /\ Target.up
    /\ ready' = [ready EXCEPT ![H] = FALSE]
    /\ UNCHANGED <<chiVars, objs, sts, pod, reclaim, rs, cmd, pc, ctxDone,
                   passVars, n, added, hostVars, regVars, boundVars>>

WaitDone ==
    /\ pc \in {"updateWait", "createWait"} /\ ~ctxDone
    /\ CurReady(H) /\ ~ready[H]
    /\ pc' = "statefulSetDone"
    /\ UNCHANGED <<chiVars, kubeVars, rs, cmd, ctxDone, passVars, n, added,
                   hostVars, regVars, boundVars>>

\* The wait times out and the failure policy of the operator is applied.
\* onStatefulSetUpdateFailed: a rollback restores the spec, not the labels,
\* and deletes the Pod. Whatever it returns, updateStatefulSet recreates.
UpdateFailed ==
    /\ Step("updateWait") /\ "timeout" \in Faults
    /\ pod[H] = "starting" /\ ~ready[H]
    /\ pc' = "scaleDown"
    /\ \/ /\ OnUpdateFailure = "rollback"
          /\ KubeApply(H, [label |-> sts[H].label, spec |-> cur])
          /\ err' = "stop"
       \/ /\ OnUpdateFailure # "rollback"
          /\ err' = OnUpdateFailure
          /\ UNCHANGED kubeVars
    /\ UNCHANGED <<chiVars, rs, cmd, ctxDone, passVars, n, added, stat, stage,
                   cur, regVars, boundVars>>

\* onStatefulSetCreateFailed: "delete" takes the whole host down.
CreateFailed ==
    /\ Step("createWait") /\ "timeout" \in Faults
    /\ pod[H] = "starting" /\ ~ready[H]
    /\ \/ OnCreateFailure = "delete" /\ err' = "stop" /\ pc' = "undoScaleDown"
       \/ OnCreateFailure # "delete" /\ err' = OnCreateFailure
          /\ pc' = "statefulSetDone"
    /\ UNCHANGED <<chiVars, kubeVars, rs, cmd, ctxDone, passVars, n, added, stat,
                   stage, cur, regVars, boundVars>>

\* deleteStatefulSet: scale to zero, keeping the labels, and then delete. When
\* the scaling fails the rest is skipped; both errors are dropped.
ScaleDown(at, then, skip) ==
    /\ Step(at)
    /\ \/ /\ KubeApply(H, [label |-> sts[H].label, spec |-> [sts[H].spec EXCEPT !.up = FALSE]])
          /\ pc' = then
       \/ "delete" \in Faults /\ pc' = skip /\ UNCHANGED kubeVars
    /\ UNCHANGED <<chiVars, rs, cmd, ctxDone, passVars, n, added, hostVars,
                   regVars, boundVars>>

DeleteStatefulSet(at, then) ==
    /\ Step(at)
    /\ KubeDelete(H) \/ ("remove" \in Faults /\ UNCHANGED kubeVars)
    /\ pc' = then
    /\ UNCHANGED <<chiVars, rs, cmd, ctxDone, passVars, n, added, hostVars,
                   regVars, boundVars>>

\* deleteHost goes on with the PVC, unless its template retains it, the
\* ConfigMap and the Service of the host, and logs what it cannot delete.
DeleteObject(at, kind, then) ==
    /\ Step(at)
    /\ \/ /\ kind # "PVC" \/ new.reclaim # "Retain"
          /\ objs' = objs \ {<<kind, H>>}
       \/ /\ (kind = "PVC" /\ new.reclaim = "Retain") \/ "remove" \in Faults
          /\ UNCHANGED objs
    /\ pc' = then
    /\ UNCHANGED <<chiVars, sts, pod, ready, reclaim, rs, cmd, ctxDone, passVars,
                   n, added, hostVars, regVars, boundVars>>

\* reconcilePVCs: label the PVC and register it. A PVC that cannot be read is
\* registered nowhere.
ReconcilePVCs(at, then) ==
    /\ Step(at)
    /\ LET pvc == <<"PVC", H>> IN
       \/ /\ pvc \in objs
          /\ reclaim' = [reclaim EXCEPT ![H] = new.reclaim]
          /\ reconciled' = reconciled \cup {pvc}
          /\ UNCHANGED failed
       \/ /\ pvc \in objs /\ "pvcUpdate" \in Faults
          /\ failed' = failed \cup {pvc}
          /\ UNCHANGED <<reclaim, reconciled>>
       \/ /\ pvc \notin objs \/ "pvcGet" \in Faults
          /\ UNCHANGED <<reclaim, reconciled, failed>>
    /\ pc' = then
    /\ UNCHANGED <<chiVars, objs, sts, pod, ready, rs, cmd, ctxDone, passVars, n,
                   added, hostVars, trash, boundVars>>

\* createStatefulSet: the API refuses a StatefulSet that exists.
Create ==
    /\ Step("create")
    /\ \/ /\ <<"StatefulSet", H>> \notin objs
          /\ KubeApply(H, [label |-> Target, spec |-> Target])
          /\ err' = "none" /\ pc' = "createWait"
       \/ /\ <<"StatefulSet", H>> \in objs \/ "create" \in Faults
          /\ err' = "api" /\ pc' = "statefulSetDone"
          /\ UNCHANGED kubeVars
    /\ UNCHANGED <<chiVars, rs, cmd, ctxDone, passVars, n, added, stat, stage,
                   cur, regVars, boundVars>>

\* Mutant: an error of the StatefulSet does not stop the walk.
StatefulSetDoneMovesOn ==
    /\ Step("statefulSetDone")
    /\ \/ stage = "down" /\ stage' = "desired" /\ pc' = "statefulSet"
       \/ stage = "desired" /\ pc' = "pvcs" /\ UNCHANGED stage
    /\ reconciled' = IF stage = "desired" /\ err = "none"
                     THEN reconciled \cup {<<"StatefulSet", H>>} ELSE reconciled
    /\ UNCHANGED <<chiVars, kubeVars, rs, cmd, ctxDone, passVars, n, added, stat,
                   cur, err, failed, trash, boundVars>>

\* reconcileHostStatefulSet: the first stage of a rolling update drops its
\* error; the error of the second, whatever it says, aborts the walk.
StatefulSetDone ==
    /\ Step("statefulSetDone")
    /\ \/ /\ stage = "down" /\ stage' = "desired" /\ pc' = "statefulSet"
          /\ UNCHANGED <<reconciled, failed>>
       \/ /\ stage = "desired" /\ err = "none" /\ pc' = "pvcs"
          /\ reconciled' = reconciled \cup {<<"StatefulSet", H>>}
          /\ UNCHANGED <<stage, failed>>
       \/ /\ stage = "desired" /\ err # "none" /\ pc' = "fail"
          /\ failed' = failed \cup {<<"StatefulSet", H>>}
          /\ UNCHANGED <<stage, reconciled>>
    /\ UNCHANGED <<chiVars, kubeVars, rs, cmd, ctxDone, passVars, n, added, stat,
                   cur, err, trash, boundVars>>

\* Mutant: a Service that could not be written is not registered as failed.
HostServiceUnregistered ==
    /\ Step("service")
    /\ \/ /\ objs' = objs \cup {<<"Service", H>>}
          /\ reconciled' = reconciled \cup {<<"Service", H>>}
       \/ "service" \in Faults /\ UNCHANGED <<objs, reconciled>>
    /\ added' = added \ {H}
    /\ pc' = "migrate"
    /\ UNCHANGED <<chiVars, sts, pod, ready, reclaim, rs, cmd, ctxDone, passVars,
                   n, hostVars, failed, trash, boundVars>>

\* reconcileHostService, whose error is dropped, and UnsetAdd. A Service that
\* cannot be updated is deleted before it is created again.
HostService ==
    /\ Step("service")
    /\ \/ /\ objs' = objs \cup {<<"Service", H>>}
          /\ reconciled' = reconciled \cup {<<"Service", H>>}
          /\ UNCHANGED failed
       \/ /\ "service" \in Faults
          /\ objs' \in {objs, objs \ {<<"Service", H>>}}
          /\ failed' = failed \cup {<<"Service", H>>}
          /\ UNCHANGED reconciled
    /\ added' = added \ {H}
    /\ pc' = "migrate"
    /\ UNCHANGED <<chiVars, sts, pod, ready, reclaim, rs, cmd, ctxDone, passVars,
                   n, hostVars, trash, boundVars>>

\* migrateTables: the schema, then a shutdown of ClickHouse, whose container
\* restarts in the same Pod, and a ping; all errors are dropped.
MigrateTables ==
    /\ Step("migrate")
    /\ \/ /\ new.stop \/ stat = "same" \/ "tables" \in Faults
          /\ pc' = "includeInCluster" /\ UNCHANGED pod
       \/ /\ ~new.stop /\ stat # "same"
          /\ pod' = [pod EXCEPT ![H] = "starting"]
          /\ pc' = "migratePing"
    /\ UNCHANGED <<chiVars, objs, sts, ready, reclaim, rs, cmd, ctxDone, passVars,
                   n, added, hostVars, regVars, boundVars>>

\* Mutant: the restart of ClickHouse is not awaited.
MigratePingAtOnce ==
    /\ Step("migratePing")
    /\ pc' = "includeInCluster"
    /\ UNCHANGED <<chiVars, kubeVars, rs, cmd, ctxDone, passVars, n, added,
                   hostVars, regVars, boundVars>>

MigratePing ==
    /\ Step("migratePing")
    /\ pod[H] = "ready" \/ "ping" \in Faults
    /\ pc' = "includeInCluster"
    /\ UNCHANGED <<chiVars, kubeVars, rs, cmd, ctxDone, passVars, n, added,
                   hostVars, regVars, boundVars>>

IncludeInCluster ==
    /\ Step("includeInCluster")
    /\ \/ rs' = RemoteServers(added)
       \/ "cm" \in Faults /\ UNCHANGED rs
    /\ pc' = "includeInService"
    /\ UNCHANGED <<chiVars, kubeVars, cmd, ctxDone, passVars, n, added,
                   hostVars, regVars, boundVars>>

\* Mutant: a host whose StatefulSet is the same is taken to be in service.
IncludeInServiceIfChanged ==
    /\ Step("includeInService")
    /\ ready' = [ready EXCEPT ![H] = IF stat = "same" THEN @ ELSE pod[H] # "none"]
    /\ n' = n + 1 /\ pc' = "prepare"
    /\ UNCHANGED <<chiVars, objs, sts, pod, reclaim, rs, cmd, ctxDone, passVars,
                   added, hostVars, regVars, boundVars>>

\* includeHostIntoService, the end of reconcileHost.
IncludeInService ==
    /\ Step("includeInService")
    /\ \/ ready' = [ready EXCEPT ![H] = pod[H] # "none"]
       \/ "label" \in Faults /\ UNCHANGED ready
    /\ n' = n + 1 /\ pc' = "prepare"
    /\ UNCHANGED <<chiVars, objs, sts, pod, reclaim, rs, cmd, ctxDone, passVars,
                   added, hostVars, regVars, boundVars>>

\* Mutant: the error of the common ConfigMap is dropped here too.
FinalDropsError ==
    /\ Step("final")
    /\ \/ rs' = RemoteServers({})
       \/ "cm" \in Faults /\ UNCHANGED rs
    /\ pc' = "clear"
    /\ UNCHANGED <<chiVars, kubeVars, cmd, ctxDone, passVars, n, added, hostVars,
                   regVars, boundVars>>

\* reconcileCHIAuxObjectsFinal.
Final ==
    /\ Step("final")
    /\ \/ rs' = RemoteServers({}) /\ pc' = "clear"
       \/ "cm" \in Faults /\ pc' = "fail" /\ UNCHANGED rs
    /\ UNCHANGED <<chiVars, kubeVars, cmd, ctxDone, passVars, n, added, hostVars,
                   regVars, boundVars>>

\* clear: what discovery finds and this pass did not reconcile ...
Clear ==
    /\ Step("clear")
    /\ trash' = objs \ reconciled
    /\ pc' = "purge"
    /\ UNCHANGED <<chiVars, kubeVars, rs, cmd, ctxDone, passVars, n, added,
                   hostVars, reconciled, failed, boundVars>>

\* ... is purged when the cleanup policy of the CHI says so, a PVC only when
\* its label does not retain it; errors are dropped.
Purgeable(o) ==
    /\ (IF o \in failed THEN FailedCleanup ELSE UnknownCleanup) = "Delete"
    /\ o[1] = "PVC" => reclaim[o[2]] # "Retain"

Purge(o) ==
    /\ Step("purge") /\ o \in trash
    /\ trash' = trash \ {o}
    /\ \/ Purgeable(o) /\ o[1] = "StatefulSet" /\ KubeDelete(o[2])
       \/ /\ Purgeable(o) /\ o[1] # "StatefulSet"
          /\ objs' = objs \ {o}
          /\ UNCHANGED <<sts, pod, ready, reclaim>>
       \/ (~Purgeable(o) \/ "remove" \in Faults) /\ UNCHANGED kubeVars
    /\ UNCHANGED <<chiVars, rs, cmd, pc, ctxDone, passVars, n, added, hostVars,
                   reconciled, failed, boundVars>>

\* markReconcileComplete: the status, and then the ping of every host.
Complete ==
    /\ Step("purge") /\ trash = {}
    /\ chiStatus' = "Completed" /\ pc' = "ping"
    /\ UNCHANGED <<want, finalizer, entry, kubeVars, rs, cmd, ctxDone, passVars,
                   n, added, hostVars, regVars, boundVars>>

FailedStatus == IF old = EmptyChi THEN "CreateFailed" ELSE "UpdateFailed"

\* Mutant: one answer is enough.
JudgeAnyHost ==
    /\ Step("ping")
    /\ chiStatus' = IF \E h \in new.hosts : pod[h] = "ready" THEN "Running"
                    ELSE FailedStatus
    /\ pc' = "idle"
    /\ Forget
    /\ UNCHANGED <<want, finalizer, entry, kubeVars, rs, cmd, ctxDone, passVars,
                   boundVars>>

\* ... "Running" only if all of them answer.
Judge ==
    /\ Step("ping")
    /\ chiStatus' = IF \A h \in new.hosts : pod[h] = "ready" THEN "Running"
                    ELSE FailedStatus
    /\ pc' = "idle"
    /\ Forget
    /\ UNCHANGED <<want, finalizer, entry, kubeVars, rs, cmd, ctxDone, passVars,
                   boundVars>>

\* updateCHI after an error: the status, which a done context keeps from
\* being written, and no retry.
Fail ==
    /\ pc = "fail"
    /\ chiStatus' = IF ctxDone THEN chiStatus ELSE FailedStatus
    /\ pc' = "idle"
    /\ Forget
    /\ UNCHANGED <<want, finalizer, entry, kubeVars, rs, cmd, ctxDone, passVars,
                   boundVars>>

\* With its context done the rest of the pass does nothing, succeeds, and the
\* announcer writes the final status with a context of its own. An error
\* already on its way, or that of the call in flight, still aborts the walk.
ErrorUnderway ==
    /\ stage = "desired" /\ err # "none"
    /\ pc \in {"undoScaleDown", "undoDelete", "undoPVC", "undoConfigMap",
               "undoService", "statefulSetDone"}

Cancelled ==
    /\ ctxDone /\ pc \notin {"idle", "fail"}
    /\ \/ ~ErrorUnderway /\ pc' = "idle" /\ chiStatus' = "Running"
          /\ Forget
       \/ /\ \/ ErrorUnderway
             \/ pc \in {"preliminary", "hostConfigMap", "create", "createWait", "final"}
             \/ pc = "prepare" /\ FirstOfShard
          /\ pc' = "fail"
          /\ UNCHANGED <<chiStatus, n, added, hostVars, regVars>>
    /\ UNCHANGED <<want, finalizer, entry, kubeVars, rs, cmd, ctxDone, passVars,
                   boundVars>>

ReconcileHost ==
    \/ NextHost \/ Prepare \/ ExcludeFromService \/ ExcludeFromCluster
    \/ HostConfigMap \/ ReconcileStatefulSet \/ Update \/ WaitPoll \/ WaitDone
    \/ UpdateFailed
    \/ ScaleDown("scaleDown", "delete", "recreatePVCs")
    \/ DeleteStatefulSet("delete", "recreatePVCs")
    \/ ReconcilePVCs("recreatePVCs", "create")
    \/ Create \/ CreateFailed
    \/ ScaleDown("undoScaleDown", "undoDelete", "undoPVC")
    \/ DeleteStatefulSet("undoDelete", "undoPVC")
    \/ DeleteObject("undoPVC", "PVC", "undoConfigMap")
    \/ DeleteObject("undoConfigMap", "ConfigMap", "undoService")
    \/ DeleteObject("undoService", "Service", "statefulSetDone")
    \/ StatefulSetDone \/ ReconcilePVCs("pvcs", "service")
    \/ HostService \/ MigrateTables \/ MigratePing
    \/ IncludeInCluster \/ IncludeInService

Worker ==
    \/ EnsureFinalizer \/ Start \/ Preliminary \/ ReconcileHost \/ Final
    \/ Clear \/ (\E o \in trash : Purge(o)) \/ Complete \/ Judge
    \/ Fail \/ Cancelled

Next ==
    \/ Worker
    \/ \E s \in Specs : ApplySpec(s)
    \/ \E h \in Hosts : PodReady(h)
    \/ Crash

Spec == Init /\ [][Next]_vars

\* The worker is a goroutine that always gets to run; Kubernetes keeps
\* restarting a Pod until it is ready. Users and crashes owe nothing.
FairSpec == Spec /\ WF_vars(Worker) /\ \A h \in Hosts : WF_vars(PodReady(h))

-----------------------------------------------------------------------------
(* Properties.                                                             *)

ChiTypeOK ==
    /\ want \in Specs /\ finalizer \in BOOLEAN /\ entry \in BOOLEAN
    /\ chiStatus \in {"", "Creating", "InProgress", "Completed", "Running",
                      "CreateFailed", "UpdateFailed"}

KubeTypeOK ==
    /\ objs \in SUBSET Objects
    /\ sts \in [Hosts -> StsType]
    /\ pod \in [Hosts -> {"none", "starting", "ready"}]
    /\ ready \in [Hosts -> BOOLEAN]
    /\ reclaim \in [Hosts -> Policies \cup {"none"}]

PassTypeOK ==
    /\ cmd \in [cmd : {"none", "add", "update"}, old : Chis, new : Chis]
    /\ pc \in AuxSteps \cup HostSteps \cup {"idle", "prepare"} /\ ctxDone \in BOOLEAN
    /\ old \in Chis /\ new \in Chis
    /\ rs \in SUBSET Hosts /\ added \in SUBSET Hosts /\ base \in SUBSET Hosts

HostTypeOK ==
    /\ stat \in {"new", "same", "modified"} /\ stage \in {"down", "desired"}
    /\ cur \in StsSpec
    /\ err \in {"none", "abort", "stop", "ignore", "api"}

RegTypeOK ==
    /\ reconciled \in SUBSET Objects /\ failed \in SUBSET Objects
    /\ trash \in SUBSET Objects

CountTypeOK ==
    /\ n \in 1 .. Len(Walk) + 1
    /\ applies \in 0 .. MaxApply /\ crashes \in 0 .. MaxCrash

\* The type invariant: every variable keeps to the values the code can give it.
TypeOK == ChiTypeOK /\ KubeTypeOK /\ PassTypeOK /\ HostTypeOK /\ RegTypeOK /\ CountTypeOK

\* A rolling reconcile takes replicas down one at a time: of the hosts of a
\* replicated shard that served when the pass began, at most one is out of
\* service at any moment, whatever fails and wherever the pass is abandoned
\* (reconcileHost, the aborts of WalkTillError). A stopped CHI is exempt.
KeepsOthersServing ==
    ~new.stop =>
        \A h \in new.hosts :
            LET S == ShardHosts(new, h) IN
            Cardinality(S) > 1 => Cardinality((S \cap base) \ Serving) <= 1

\* A Pod in service in a replicated shard is drained before its StatefulSet
\* is changed: the ready label is off, and with the wait policy the host is
\* out of remote_servers (excludeHost before reconcileHostStatefulSet).
DrainBeforeRestart ==
    [][\A h \in new.hosts :
         /\ pod[h] = "ready" /\ pod'[h] # "ready" /\ sts'[h] # sts[h]
         /\ ~new.stop /\ Cardinality(ShardHosts(new, h)) > 1
         => ~ready[h] /\ (new.wait => h \notin rs)]_vars

\* The cleanup deletes nothing that belongs to a host of the CHI it reconciles,
\* however the walk went (clear and purge against the two registries).
PurgeSparesSpec ==
    [][pc = "purge" => \A o \in objs \ objs' : o[2] \notin new.hosts]_vars

\* A StatefulSet is purged only once remote_servers no longer lists its host,
\* so no ClickHouse is left with a replica that is gone for good.
DelistedBeforePurge ==
    [][pc = "purge" =>
         \A h \in Hosts : <<"StatefulSet", h>> \in objs \ objs' => h \notin rs]_vars

\* The StatefulSet of h carries the version label of what the CHI s asks for.
Built(s, h) ==
    /\ {<<"StatefulSet", h>>, <<"ConfigMap", h>>} \subseteq objs
    /\ sts[h].label = DesiredOf(s, "desired")

\* A host is let back into the Service, and a host the CHI added is listed in
\* remote_servers, only once its StatefulSet is that of the CHI (the walk of
\* reconcileHost up to includeHost, with its error paths and two stages).
AdmitsOnlyBuiltHosts ==
    [][\A h \in new.hosts :
         \/ ~ready[h] /\ ready'[h] /\ pod'[h] = pod[h]
         \/ h \in rs' \ rs /\ h \in new.hosts \ old.hosts
         => Built(new, h)]_vars

\* A pass that was not cancelled writes "Running" only when every host of the
\* CHI has the StatefulSet it asks for, answers and is listed in
\* remote_servers: no failure on the way goes unreported.
RunningIsHonest ==
    [][~ctxDone /\ chiStatus # "Running" /\ chiStatus' = "Running" =>
         \A h \in new.hosts : Built(new, h) /\ pod[h] = "ready" /\ h \in rs]_vars

\* "Running" is written only after all hosts were judged to run
\* (markReconcileComplete), so never while one has no ready Pod.
RunningMeansAllHostsRun ==
    [][chiStatus # "Running" /\ chiStatus' = "Running" =>
         \A h \in new.hosts : pod[h] = "ready"]_vars

\* Two StatefulSets with one version label are one: no reconcile is needed
\* for the "same" StatefulSet (getStatefulSetStatus).
SameIsEqual ==
    pc = "statefulSetDone" /\ stat = "same" /\ err = "none" =>
        sts[H].spec = sts[H].label

\* A failed update under the abort policy leaves the StatefulSet alone for the
\* administrator.
AbortLeavesStatefulSet ==
    [][err = "abort" => UNCHANGED <<objs, sts>>]_vars

\* The data of a host whose volumes the CHI retained is kept when the CHI drops
\* the host: purge must not delete its PVC.
RetainKeepsData ==
    [][pc = "purge" /\ old.reclaim = "Retain" =>
         \A h \in old.hosts : <<"PVC", h>> \in objs => <<"PVC", h>> \in objs']_vars

\* What the latest CHI asks for is what runs.
Settled ==
    /\ pc = "idle" /\ cmd.cmd = "none" /\ rs = want.hosts /\ entry = ~want.stop
    /\ \A h \in want.hosts :
         Built(want, h) /\ <<"Service", h>> \in objs /\ (h \in Serving) = ~want.stop
    /\ \A o \in objs : o[2] \in want.hosts \/ (o[1] = "PVC" /\ reclaim[o[2]] = "Retain")

\* A StatefulSet whose version label lies about its spec (see SameIsEqual).
Mislabelled == \E h \in want.hosts : sts[h].label # sts[h].spec

\* When the calls succeed and Pods start, the pass for the last edit brings
\* everything to what the CHI asks for, whatever was cancelled or lost in a
\* crash before, unless it trusts a version label that lies.
Converges == <>[](Settled \/ Mislabelled)
=============================================================================
