------------------------------ MODULE MCObjects ------------------------------
(***************************************************************************)
(* One model-checking instance for the modules about the objects of a CHI: *)
(* its ZooKeeper ensemble, and beside it its layout, the names of its      *)
(* objects, the Pod of a host and the nodes of Pods.  They share no state: *)
(* each behaviour explores one part, the variables of the others stay as   *)
(* they are.  Values for the constants of Naming are below, and the        *)
(* constants of Placement.                                                 *)
(***************************************************************************)
EXTENDS MCZooKeeper

CONSTANTS
  MaxCount, MaxLine, Names, Edits,                \* Layout
  Unnamed, Installations, Clusterings, Template, Numerals, ChiLen, PartLen, LabelLen, NameEdits, \* Naming
  Templates, Claims, Data, Logs, Volumes, PodEdits, \* HostPod
  Nodes, Evictions                                \* Placement

VARIABLES
  part,                                           \* what is explored
  fields, edited, layout, live, dropped, deleting, crashed, \* Layout
  store, reconciled,                              \* Naming
  made, madeFrom,                                 \* HostPod
  pod, node, evicted                              \* Placement

zooKeeper == <<due, pc, zk, objects, pods, conf, done, panicked, faults, crashes>>
field == <<fields, edited, layout, live, dropped, deleting, crashed>>
registry == <<store, reconciled>>
hostPod == <<made, madeFrom>>
places == <<pod, node, evicted>>
allVars == <<part, spec, edits, zooKeeper, field, registry, hostPod, places>>

-----------------------------------------------------------------------------
(* Layout: counts alone; lists of shards and replicas without counts of    *)
(* the cluster; counts and lists that contradict each other, and names.    *)

Field == INSTANCE Layout

CountsOnly == {"counts"}

\* A name of one word that is no index.
Words == { <<100>> }

-----------------------------------------------------------------------------
(* Naming: two CHIs.  Shards and hosts with and without names move, come   *)
(* and go, and a cluster of the same shards is next to them.               *)

AandB == {<<"a">>, <<"b">>}
TenNumerals == <<"0", "1", "2", "3", "4", "5", "6", "7", "8", "9">>
Scopes == {"chi", "cluster", "shard", "host", "pod"}
Bare == [s \in Scopes |-> IF s \in {"cluster", "shard"} THEN << >> ELSE None]
Shard(name, hosts) == [name |-> name, hosts |-> hosts]
Cluster(name, shards) == [name |-> name, shards |-> shards]
One == <<Unnamed>>
Two == <<Unnamed, Unnamed>>
Moves == {
  << Cluster(<<"x">>, <<Shard(Unnamed, Two), Shard(Unnamed, One)>>) >>,
  << Cluster(<<"x">>, <<Shard(<<"s">>, Two), Shard(Unnamed, One)>>) >>,
  << Cluster(<<"x">>, <<Shard(Unnamed, One), Shard(<<"s">>, Two)>>) >>,
  << Cluster(<<"x">>, <<Shard(<<"t">>, << <<"h">>, Unnamed>>), Shard(<<"s">>, One)>>) >>,
  << Cluster(<<"x">>, <<Shard(<<"s">>, One), Shard(<<"t">>, <<Unnamed, <<"h">> >>)>>) >>,
  << Cluster(<<"y">>, <<Shard(<<"s">>, One)>>), Cluster(<<"x">>, <<Shard(<<"s">>, One), Shard(Unnamed, One)>>) >> }

Named == INSTANCE Naming WITH
  Auto <- Unnamed,
  CHIs <- Installations, Layouts <- Clusterings, MaxEdits <- NameEdits, built <- reconciled

-----------------------------------------------------------------------------
(* HostPod: the template of docs/chi-examples/                             *)
(* 03-persistent-volume-02-pod-template.yaml, a sidecar before ClickHouse, *)
(* a container of another name, a directory of the node, no container.     *)

DataDir == "/var/lib/clickhouse"
LogDir == "/var/log/clickhouse-server"
With(name, mounts) == [name |-> name, probed |-> FALSE, mounts |-> mounts]
FiveTemplates == {
  << With("clickhouse", << <<"d1", DataDir>> >>) >>,
  << With("sidecar", << >>), With("clickhouse", << >>) >>,
  << With("clickhouse-pod", << >>), With("sidecar", << <<"node", LogDir>> >>) >>,
  << With("clickhouse", << <<"node", DataDir>> >>) >>,
  << >> }

Pods == INSTANCE HostPod WITH MaxEdits <- PodEdits, sts <- made, built <- madeFrom

-----------------------------------------------------------------------------
(* Placement: docs/chi-examples/                                           *)
(* 13-distribution-03-3x3-distribution-detailed.yaml on three nodes.       *)

Of(type) == [type |-> type, scope |-> "", number |-> 0, key |-> ""]
Detailed ==
  << Of("ShardAntiAffinity"), Of("ReplicaAntiAffinity"),
     [Of("MaxNumberPerNode") EXCEPT !.number = 3],
     Of("NamespaceAffinity"), Of("ClickHouseInstallationAffinity"), Of("ClusterAffinity"),
     Of("PreviousTailAffinity") >>

Circle == INSTANCE Placement WITH
  CHIs <- {"a"}, Namespace <- [c \in {"a"} |-> "ns1"], Clusters <- 1,
  ShardsCount <- 3, ReplicasCount <- 3, Nodes <- Nodes, ZoneOf <- [n \in Nodes |-> "z1"],
  PodZones <- {}, UserZones <- {}, Distribution <- Detailed, AppendScopeLabels <- TRUE,
  EvictDuringPass <- FALSE, MaxEvictions <- Evictions

ASSUME InstancesAssumption ==
  /\ Field!Assumptions /\ Named!Assumptions /\ Pods!Assumptions /\ Circle!Assumptions

-----------------------------------------------------------------------------
(* The parts.                                                              *)

NoZooKeeper ==
  /\ due = FALSE /\ pc = "idle" /\ zk = None
  /\ server = FALSE /\ client = None /\ pdb = None /\ sts = None
  /\ ready = {} /\ claims = {} /\ conf = None /\ done = FALSE /\ panicked = FALSE
  /\ faults = 0 /\ crashes = 0
NoField ==
  /\ fields = {} /\ edited = FALSE /\ layout = None /\ live = {} /\ dropped = {} /\ deleting = 0 /\ crashed = ""
NoRegistry == store = {} /\ reconciled = None
NoHostPod == made = None /\ madeFrom = None
NoPlaces == pod = None /\ node = None /\ evicted = 0

InitAll ==
  \/ /\ part = "ensemble"
     /\ Init
     /\ NoField /\ NoRegistry /\ NoHostPod /\ NoPlaces
  \/ /\ part = "field"
     /\ Field!Init
     /\ edits = 0 /\ NoZooKeeper /\ NoRegistry /\ NoHostPod /\ NoPlaces
  \/ /\ part = "names"
     /\ Named!Init
     /\ NoZooKeeper /\ NoField /\ NoHostPod /\ NoPlaces
  \/ /\ part = "pod"
     /\ Pods!Init
     /\ NoZooKeeper /\ NoField /\ NoRegistry /\ NoPlaces
  \/ /\ part = "nodes"
     /\ Circle!Init
     /\ spec = None /\ edits = 0 /\ NoZooKeeper /\ NoField /\ NoRegistry /\ NoHostPod

\* A step of one part.
ZooKeeperStep ==
  /\ part = "ensemble" /\ Next
  /\ UNCHANGED <<part, field, registry, hostPod, places>>
LayoutStep ==
  /\ part = "field" /\ Field!Next
  /\ UNCHANGED <<part, edits, zooKeeper, registry, hostPod, places>>
NamesStep == part = "names" /\ Named!Next /\ UNCHANGED <<part, zooKeeper, field, hostPod, places>>
PodStep == part = "pod" /\ Pods!Next /\ UNCHANGED <<part, zooKeeper, field, registry, places>>
NodesStep ==
  /\ part = "nodes" /\ Circle!Next
  /\ UNCHANGED <<part, spec, edits, zooKeeper, field, registry, hostPod>>

NextAll == ZooKeeperStep \/ LayoutStep \/ NamesStep \/ PodStep \/ NodesStep

SpecAll == InitAll /\ [][NextAll]_allVars

-----------------------------------------------------------------------------
(* The properties of the parts; BackedEnsemble, Reachable and QuorumKept   *)
(* are those of ZooKeeper.                                                 *)

\* Layout: the hosts of a cluster have names of their own.
NamesApart == part = "field" => Field!HostsApart

\* Layout: a pass drops the replicas of the hosts that leave and of no other.
ReplicasFollowHosts == [][part = "field" /\ fields = CountsOnly => Field!ReplicasFollow]_allVars

\* Layout: an edit that only adds leaves every StatefulSet where it was.
GrowthKeepsHosts == [][part = "field" /\ fields = CountsOnly => Field!GrowthKeeps]_allVars

\* Naming: every host has a StatefulSet, a Service and a ConfigMap of its own.
HostsApart == part = "names" => Named!HostsApart

\* Naming: a Service leads to the Pods it is for, and to no others.
ServicesExact == part = "names" => Named!ServicesExact

\* Naming: a host that the user has named keeps its StatefulSet.
NamedStays == [][part = "names" => Named!NamedStay]_allVars

\* HostPod: a server keeps its data where it is.
DataStays == [][part = "pod" => Pods!DataStay]_allVars

\* Placement: whatever nodes were chosen before, the next Pod fits somewhere.
NoneStuck == part = "nodes" => Circle!NoneStuck
=============================================================================
