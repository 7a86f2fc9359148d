------------------------------ MODULE Placement ------------------------------
(***************************************************************************)
(* Where the Pods of ClickHouseInstallations run.  A pod template has a    *)
(* podDistribution and a zone; the normalizer turns them into affinity     *)
(* terms (pkg/model/affinity.go), whose macros become values of one host   *)
(* when its StatefulSet is made, and the scheduler of Kubernetes obeys     *)
(* them against the labels of the Pods (pkg/model/labeler.go).  The        *)
(* operator makes Pods in the order of its walk and waits for each;        *)
(* evictions are limited by the PodDisruptionBudget of the CHI.            *)
(*                                                                         *)
(* Preferred terms all have weight 1 and only rank nodes: any node that    *)
(* the required terms allow may be taken.                                  *)
(***************************************************************************)
EXTENDS Integers, Sequences, FiniteSets, SequencesExt

CONSTANTS
  None,          \* a Pod on no node
  CHIs,          \* installations that use the same pod template
  Namespace,     \* the namespace of each
  Clusters,      \* number of clusters of a CHI
  ShardsCount,   \* and their shape
  ReplicasCount,
  Nodes,
  ZoneOf,        \* the zone of each node
  PodZones,      \* .zone.values of the template
  UserZones,     \* zones of the node affinity of .spec, a set for each term
  Distribution,  \* .podDistribution as written
  AppendScopeLabels, \* of the operator's configuration
  EvictDuringPass, \* nodes are drained while a pass makes Pods, too
  MaxEvictions   \* bound on evictions

Assumptions ==
  /\ {Clusters, ShardsCount, ReplicasCount} \subseteq Nat \ {0}
  /\ {AppendScopeLabels, EvictDuringPass} \subseteq BOOLEAN

VARIABLES
  pod,     \* of each host: "none", "pending", "placed"
  node,    \* the node of a placed Pod, else None
  evicted  \* number of evictions

vars == <<pod, node, evicted>>

Hosts == [chi : CHIs, cluster : 1 .. Clusters,
          shard : 0 .. ShardsCount - 1, replica : 0 .. ReplicasCount - 1]

HostnameKey == "kubernetes.io/hostname"
Item(type, scope, number, key) == [type |-> type, scope |-> scope, number |-> number, key |-> key]

-----------------------------------------------------------------------------
(* Normalization of the pod template.                                      *)

\* The replicas of a shard, the shards of a replica, and all ClickHouse Pods.
ScopedTypes == {"Unspecified", "ClickHouseAntiAffinity", "ShardAntiAffinity", "ReplicaAntiAffinity"}

NormalizePodDistribution(d) ==
  [d EXCEPT !.key = IF @ = "" THEN HostnameKey ELSE @,
            !.scope = IF @ = "" /\ d.type \in ScopedTypes \cup {"CircularReplication"}
                      THEN "Cluster" ELSE @,
            !.number = IF @ < 0 THEN 0 ELSE @]

\* The shortcut stays, without an effect, and its expansion is appended.
Expand(d) ==
  IF d.type # "CircularReplication" THEN <<>>
  ELSE LET scope == NormalizePodDistribution(d).scope
       IN << Item("ShardAntiAffinity", scope, 0, ""), Item("ReplicaAntiAffinity", scope, 0, ""),
             Item("MaxNumberPerNode", scope, ReplicasCount, ""),
             Item("PreviousTailAffinity", "", 0, ""), Item("NamespaceAffinity", "", 0, ""),
             Item("ClickHouseInstallationAffinity", "", 0, ""), Item("ClusterAffinity", "", 0, "") >>

\* The loop normalizes what it was given; what it appends is left as it is.
PodDistribution ==
  [k \in DOMAIN Distribution |-> NormalizePodDistribution(Distribution[k])]
    \o FlattenSeq([k \in DOMAIN Distribution |-> Expand(Distribution[k])])
Items == ToSet(PodDistribution)

\* The last MaxNumberPerNode of a template counts.
MaxNumberOfPodsPerNode ==
  LET at == {k \in DOMAIN PodDistribution : PodDistribution[k].type = "MaxNumberPerNode"}
  IN IF at = {} THEN 0 ELSE PodDistribution[Max(at)].number

-----------------------------------------------------------------------------
(* The address of a host.                                                  *)

HostsCount == Clusters * ShardsCount * ReplicasCount

ClusterScopeIndex(h) == h.shard * ReplicasCount + h.replica

\* The place of a host in the walk over the CHI.
ChiScopeIndex(h) == (h.cluster - 1) * ShardsCount * ReplicasCount + ClusterScopeIndex(h)

\* Size 0 stands for one cycle without an end.
CycleSize ==
  IF MaxNumberOfPodsPerNode <= 1 THEN 0
  ELSE (HostsCount + MaxNumberOfPodsPerNode - 1) \div MaxNumberOfPodsPerNode

ClusterScopeCycleIndex(h) == IF CycleSize = 0 THEN 0 ELSE ClusterScopeIndex(h) \div CycleSize
ClusterScopeCycleOffset(h) ==
  IF CycleSize = 0 THEN ClusterScopeIndex(h) ELSE ClusterScopeIndex(h) % CycleSize

\* Mutant: every host points to the one before.
PreviousCycleTailAny(h) ==
  IF ClusterScopeIndex(h) = 0 THEN 0 ELSE ClusterScopeIndex(h) - 1

\* The head of a cycle points to the tail of the one before, others to themselves.
PreviousCycleTail(h) ==
  IF ClusterScopeCycleOffset(h) = 0 /\ ClusterScopeIndex(h) # 0
  THEN ClusterScopeIndex(h) - 1 ELSE ClusterScopeIndex(h)

\* Labels of a Pod, as pairs; the address is on it only if configured.
LabelsHostScope(h) ==
  {<<"app", "chop">>, <<"namespace", Namespace[h.chi]>>, <<"chi", h.chi>>,
   <<"cluster", h.cluster>>, <<"shard", h.shard>>, <<"replica", h.replica>>}
  \cup (IF AppendScopeLabels
        THEN {<<"index", ClusterScopeIndex(h)>>, <<"cycle", ClusterScopeCycleIndex(h)>>}
        ELSE {})

-----------------------------------------------------------------------------
(* Affinity, with its macros replaced for a host.                          *)

\* The labels of a host that a scope adds to a term.
ScopeKeys(scope) ==
  CASE scope = "Shard" -> {"namespace", "chi", "cluster", "shard"}
    [] scope = "Replica" -> {"namespace", "chi", "cluster", "replica"}
    [] scope = "Cluster" -> {"namespace", "chi", "cluster"}
    [] scope = "ClickHouseInstallation" -> {"namespace", "chi"}
    [] scope = "Namespace" -> {"namespace"}
    [] OTHER -> {}
Own(h, keys) == {l \in LabelsHostScope(h) : l[1] \in keys}

NewMatchLabels(h, d, labels) == labels \cup Own(h, ScopeKeys(d.scope))

\* A term selects Pods that have all of match and not the label of except.
Term(match, except, key) == [match |-> match, except |-> except, key |-> key]

\* Required anti-affinity by type of distribution.
AntiAffinityTerm(h, d) ==
  CASE d.type = "ClickHouseAntiAffinity" ->
         {Term(NewMatchLabels(h, d, {<<"app", "chop">>}), {}, d.key)}
    [] d.type = "MaxNumberPerNode" ->
         {Term(NewMatchLabels(h, d, {<<"cycle", ClusterScopeCycleIndex(h)>>}), {}, d.key)}
    [] d.type = "ShardAntiAffinity" ->
         {Term(NewMatchLabels(h, d, Own(h, {"shard"})), {}, d.key)}
    [] d.type = "ReplicaAntiAffinity" ->
         {Term(NewMatchLabels(h, d, Own(h, {"replica"})), {}, d.key)}
    [] d.type = "AnotherNamespaceAntiAffinity" -> {Term({}, Own(h, {"namespace"}), d.key)}
    [] d.type = "AnotherClickHouseInstallationAntiAffinity" -> {Term({}, Own(h, {"chi"}), d.key)}
    [] d.type = "AnotherClusterAntiAffinity" -> {Term({}, Own(h, {"cluster"}), d.key)}
    [] OTHER -> {}
NewPodAntiAffinity(h) == UNION {AntiAffinityTerm(h, d) : d \in Items}

\* The other affinities are preferred ones.
NewPodAffinity(h) ==
  {Term({<<"index", PreviousCycleTail(h)>>}, {}, d.key) :
     d \in {i \in Items : i.type = "PreviousTailAffinity"}}

\* Terms of a node selector are alternatives; the zone is one more of them.
NodeSelectorTerms == UserZones \cup (IF PodZones = {} THEN {} ELSE {PodZones})

\* A term without a topology key makes the API refuse the Pod, though it
\* takes the StatefulSet.
PodAccepted ==
  \A d \in Items : d.key # "" \/ d.type \in {"Unspecified", "CircularReplication"}

-----------------------------------------------------------------------------
(* The scheduler of Kubernetes.                                            *)

Domain(key, n) == IF key = HostnameKey THEN n ELSE ZoneOf[n]

\* The Pods a term of h selects.  It reaches no other namespace.
Selects(h, t, o) ==
  /\ Namespace[o.chi] = Namespace[h.chi]
  /\ t.match \subseteq LabelsHostScope(o)
  /\ t.except \cap LabelsHostScope(o) = {}

Placed == {h \in Hosts : pod[h] = "placed"}
Beside(key, n) == {o \in Placed : Domain(key, node[o]) = Domain(key, n)}

Fits(h, n) ==
  /\ \A t \in NewPodAntiAffinity(h) : \A o \in Beside(t.key, n) : ~Selects(h, t, o)
  /\ \A o \in Placed : \A t \in NewPodAntiAffinity(o) : o \in Beside(t.key, n) => ~Selects(o, t, h)
  /\ \A t \in NewPodAffinity(h) :
       \/ \E o \in Beside(t.key, n) : Selects(h, t, o)
       \/ Selects(h, t, h) /\ ~\E o \in Placed : Selects(h, t, o)
  /\ NodeSelectorTerms # {} => \E zones \in NodeSelectorTerms : ZoneOf[n] \in zones

Schedule(h, n) ==
  /\ pod[h] = "pending"
  /\ Fits(h, n)
  /\ pod' = [pod EXCEPT ![h] = "placed"]
  /\ node' = [node EXCEPT ![h] = n]
  /\ UNCHANGED evicted

\* A drained node gives a Pod up if the budget of its CHI allows one more to
\* be out; its StatefulSet makes it again.
Evict(h) ==
  /\ pod[h] = "placed"
  /\ evicted < MaxEvictions
  /\ \A o \in Hosts : o.chi = h.chi =>
       pod[o] # "pending" /\ (pod[o] = "none" => EvictDuringPass)
  /\ pod' = [pod EXCEPT ![h] = "pending"]
  /\ node' = [node EXCEPT ![h] = None]
  /\ evicted' = evicted + 1

-----------------------------------------------------------------------------
(* The operator.                                                           *)

Init ==
  /\ pod = [h \in Hosts |-> "none"]
  /\ node = [h \in Hosts |-> None]
  /\ evicted = 0

\* The pass makes the next StatefulSet when the last one is ready.
CreateStatefulSet(h) ==
  /\ pod[h] = "none"
  /\ \A o \in Hosts : o.chi = h.chi /\ ChiScopeIndex(o) < ChiScopeIndex(h) => pod[o] # "none"
  /\ \A o \in Hosts : o.chi = h.chi /\ ChiScopeIndex(o) = ChiScopeIndex(h) - 1 => pod[o] = "placed"
  /\ PodAccepted
  /\ pod' = [pod EXCEPT ![h] = "pending"]
  /\ UNCHANGED <<node, evicted>>

Next == \E h \in Hosts :
  \/ CreateStatefulSet(h)
  \/ Evict(h)
  \/ \E n \in Nodes : Schedule(h, n)

\* Every pending Pod that fits somewhere is scheduled, every pass goes on.
Fairness == \A h \in Hosts :
  /\ WF_vars(CreateStatefulSet(h))
  /\ WF_vars(\E n \in Nodes : Schedule(h, n))

Spec == Init /\ [][Next]_vars /\ Fairness

-----------------------------------------------------------------------------
(* Properties.                                                             *)

On(n) == {h \in Hosts : node[h] = n}

\* MaxNumberPerNode is what it says: no node has more Pods of a cluster,
\* though no term of the affinity counts Pods.
\* The code breaks it: README.md, Disagreements.
MaxPerNode ==
  \A n \in Nodes, c \in CHIs, k \in 1 .. Clusters :
    Cardinality({h \in On(n) : h.chi = c /\ h.cluster = k}) <= MaxNumberOfPodsPerNode

\* A Pod runs in the zone of its template.
\* The code breaks it: README.md, Disagreements.
ZoneKept == PodZones # {} => \A h \in Placed : ZoneOf[node[h]] \in PodZones

\* AnotherNamespaceAntiAffinity keeps Pods of two namespaces on nodes of their own.
\* The code breaks it: README.md, Disagreements.
NamespacesApart ==
  \A n \in Nodes : \A h, o \in On(n) : Namespace[h.chi] = Namespace[o.chi]

\* Whatever nodes the scheduler picked on the way, a Pod that waits fits on one.
NoneStuck == \A h \in Hosts : pod[h] = "pending" => \E n \in Nodes : Fits(h, n)

\* No Pod waits for good: whatever nodes the scheduler picks on the way, the
\* terms leave one for each next Pod, and one for each evicted Pod.
\* The code breaks it: README.md, Disagreements.
AllPlaced == []<>(Placed = Hosts)
=============================================================================
