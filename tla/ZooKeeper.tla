------------------------------ MODULE ZooKeeper ------------------------------
(***************************************************************************)
(* The ZooKeeper ensemble of a CHI: what the user asks for is normalized   *)
(* and inherited by clusters, a pass creates Services, a budget and a      *)
(* StatefulSet, waits for its Pods and writes the configuration of the     *)
(* hosts; a failed creation is rolled back as the policy says, and the     *)
(* deletion of the CHI takes the ensemble with it.                         *)
(***************************************************************************)
EXTENDS Integers, FiniteSets

CONSTANTS
  None,            \* nothing: no section, no object, no CHI
  Requests,        \* what a user may ask for: sections of the CHI and of its cluster
  Policy,          \* onStatefulSetCreateFailureAction
  Verbosity,       \* log level of the operator
  Faulty,          \* calls to Kubernetes that may fail
  MaxFaults, MaxEdits, MaxCrashes,  \* bounds
  EditDuringPass   \* may an edit cancel a running pass?

\* A section: ChiZookeeperConfig with what matters here.
Node == [host : {"own"} \X Nat, port : Nat]
Config == [install : BOOLEAN, replica : Int, port : Nat, nodes : SUBSET Node, root : STRING]

ASSUME RequestsAssumption == Requests \subseteq [chi : Config \cup {None}, cluster : Config \cup {None}]
ASSUME NoneAssumption ==
  None \notin Config /\ None \notin Int /\ None \notin [replicas : Int, port : Int, peers : SUBSET Int]
ASSUME PolicyAssumption == Policy \in {"abort", "delete", "ignore"}
ASSUME BoundsAssumption == {MaxFaults, MaxEdits, MaxCrashes, Verbosity} \subseteq Nat
ASSUME EditAssumption == EditDuringPass \in BOOLEAN

VARIABLES
  spec,      \* the sections of the CHI, None without a CHI
  due,       \* is a pass due?
  pc,        \* where the pass is
  zk,        \* the normalized sections the pass works with
  server,    \* is there the Service of the Pods?
  client, pdb, sts,  \* port of the client Service, Pods that may miss, StatefulSet
  ready,     \* ordinals of the Pods that are ready
  claims,    \* PersistentVolumeClaims of Pods
  conf,      \* zookeeper.xml of the hosts
  done,      \* did the last pass complete, and is it the last word of the user?
  panicked,  \* did the operator dereference a nil pointer?
  edits, faults, crashes

objects == <<server, client, pdb, sts>>
pods == <<ready, claims>>
bounds == <<edits, faults, crashes>>
vars == <<spec, due, pc, zk, objects, pods, conf, done, panicked, bounds>>

-----------------------------------------------------------------------------
(* Normalization                                                           *)

DefaultPort == 2181

\* A section with nothing in it.
NewConfig == [install |-> FALSE, replica |-> 0, port |-> 0, nodes |-> {}, root |-> ""]

OrDefaultPort(port) == IF port = 0 THEN DefaultPort ELSE port

\* An ensemble has an odd number of nodes, at least one.
OddReplica(n) == IF n <= 0 THEN 1 ELSE IF n % 2 = 0 THEN n - 1 ELSE n

NormalizeZookeeper(c) ==
  IF c = None THEN None
  ELSE [c EXCEPT !.replica = IF c.install THEN OddReplica(@) ELSE @,
                 !.port = OrDefaultPort(@),
                 !.nodes = {[n EXCEPT !.port = OrDefaultPort(@)] : n \in @}]

\* What `from' says goes over what is there.
MergeFrom(c, from) ==
  IF from = None THEN c
  ELSE LET to == IF c = None THEN NewConfig ELSE c
       IN [install |-> from.install,
           replica |-> IF from.replica > 0 THEN from.replica ELSE to.replica,
           port |-> IF from.port > 0 THEN from.port ELSE to.port,
           nodes |-> to.nodes \cup from.nodes,
           root |-> IF from.root # "" THEN from.root ELSE to.root]

\* A cluster with nodes of its own inherits nothing.
InheritZookeeperFrom(c, chi) ==
  IF c # None /\ c.nodes # {} THEN c ELSE MergeFrom(c, chi)

\* The sections of the CHI and of its cluster, normalized in this order.
Normalize(s) ==
  LET chi == NormalizeZookeeper(s.chi)
  IN [chi |-> chi, cluster |-> NormalizeZookeeper(InheritZookeeperFrom(s.cluster, chi))]

-----------------------------------------------------------------------------
(* What is built from the normalized sections                              *)

\* A member of the ensemble, as hosts address it.
Member(i, port) == [host |-> <<"zk", i>>, port |-> port]

\* Mutant: the majority may miss instead of the rest.
PodDisruptionBudgetOfMajority(c) == (c.replica + 1) \div 2

\* Pods may be evicted while a majority stays.
PodDisruptionBudget(c) == (c.replica - 1) \div 2

\* The peers a server writes into its zoo.cfg when it starts.
Peers(c) == 0 .. c.replica - 1

\* The StatefulSet: its Pods are numbered from 0, each listens on the port.
StatefulSet(c) == [replicas |-> c.replica, port |-> c.port, peers |-> Peers(c)]

\* The client Service forwards to the port of the servers.
ClientPort(c) == c.port

\* The volume of a Pod.
Claim(i) == <<"data", i>>

\* Mutant: Pods are numbered from 1.
GetHostZookeeperFromOne(c) ==
  IF c.nodes # {} THEN [nodes |-> c.nodes, root |-> c.root]
  ELSE IF c.install
  THEN [nodes |-> {Member(i, c.port) : i \in 1 .. c.replica}, root |-> c.root]
  ELSE None

\* zookeeper.xml of the hosts of a cluster, None if there is none.
GetHostZookeeper(c) ==
  IF c.nodes # {} THEN [nodes |-> c.nodes, root |-> c.root]
  ELSE IF c.install
  THEN [nodes |-> {Member(i, c.port) : i \in 0 .. c.replica - 1}, root |-> c.root]
  ELSE None

\* Has the pass an ensemble to look after?
ToInstall(c) == c # None /\ c.install /\ c.nodes = {}

-----------------------------------------------------------------------------
(* The pass                                                                *)

\* The Pods the StatefulSet should have.
Ordinals == IF sts = None THEN {} ELSE 0 .. sts.replicas - 1

\* The creation is over when all Pods are ready.
AllReady == ready = Ordinals

\* A call fails, within the bound.
Fails(call) == call \in Faulty /\ faults < MaxFaults /\ faults' = faults + 1

\* The call of this stage is made, then the pass is at `next'.
Call(stage, next) == pc = stage /\ pc' = next /\ UNCHANGED <<faults, panicked, due>>

\* The pass ends with an error.
Abort == pc' = "idle" /\ UNCHANGED panicked

\* A pass starts with the CHI as it is, or with the deletion of the CHI.
Start ==
  /\ pc = "idle" /\ due
  /\ due' = FALSE
  /\ IF spec = None
     THEN pc' = "delete sts" /\ UNCHANGED zk
     ELSE /\ zk' = Normalize(spec)
          /\ pc' = IF ToInstall(zk'.chi) /\ sts = None THEN "server" ELSE "hosts"
  /\ UNCHANGED <<spec, objects, pods, conf, done, panicked, bounds>>

\* An error of a creation ends the pass.
CreateFails ==
  /\ pc \in {"server", "client", "pdb", "sts"}
  /\ Fails(pc)
  /\ Abort
  /\ UNCHANGED <<spec, due, zk, objects, pods, conf, done, edits, crashes>>

ReconcileServer ==
  /\ Call("server", "client")
  /\ server' = TRUE
  /\ UNCHANGED <<spec, zk, client, pdb, sts, pods, conf, done, edits, crashes>>

ReconcileClient ==
  /\ Call("client", "pdb")
  /\ client' = ClientPort(zk.chi)
  /\ UNCHANGED <<spec, zk, server, pdb, sts, pods, conf, done, edits, crashes>>

\* A budget is created, never updated.
ReconcilePdb ==
  /\ Call("pdb", "sts")
  /\ pdb' = IF pdb = None THEN PodDisruptionBudget(zk.chi) ELSE pdb
  /\ UNCHANGED <<spec, zk, server, client, sts, pods, conf, done, edits, crashes>>

CreateStatefulSet ==
  /\ Call("sts", "wait")
  /\ sts' = StatefulSet(zk.chi)
  /\ UNCHANGED <<spec, zk, server, client, pdb, pods, conf, done, edits, crashes>>

\* All Pods are ready. The nodes go into the normalized CHI of the status,
\* which there is only at a log level of at least 1.
WaitReady ==
  /\ pc = "wait"
  /\ AllReady
  /\ IF Verbosity >= 1
     THEN pc' = "hosts" /\ UNCHANGED <<panicked, due>>
     ELSE pc' = "idle" /\ panicked' = TRUE /\ due' = TRUE
  /\ UNCHANGED <<spec, zk, objects, pods, conf, done, bounds>>

\* Mutant: the rollback starts behind the StatefulSet.
WaitTimeoutKeepsStatefulSet ==
  /\ pc = "wait"
  /\ ~AllReady
  /\ pc' = IF Policy = "delete" THEN "delete pdb" ELSE "idle"
  /\ UNCHANGED <<spec, due, zk, objects, pods, conf, done, panicked, bounds>>

\* The time is over: the policy says what to do. Every error ends the pass.
WaitTimeout ==
  /\ pc = "wait"
  /\ ~AllReady
  /\ pc' = IF Policy = "delete" THEN "delete sts" ELSE "idle"
  /\ UNCHANGED <<spec, due, zk, objects, pods, conf, done, panicked, bounds>>

\* The hosts get their configuration and the pass completes.
ReconcileHosts ==
  /\ pc = "hosts"
  /\ pc' = "idle"
  /\ IF zk.cluster = None
     THEN panicked' = TRUE /\ due' = TRUE /\ UNCHANGED <<conf, done>>
     ELSE /\ conf' = GetHostZookeeper(zk.cluster)
          /\ done' = TRUE
          /\ UNCHANGED <<panicked, due>>
  /\ UNCHANGED <<spec, zk, objects, pods, bounds>>

-----------------------------------------------------------------------------
(* Deletion of the ensemble: errors are logged and the next object is due  *)

DeleteFails ==
  /\ \/ pc = "delete sts" /\ pc' = "delete pdb"
     \/ pc = "delete pdb" /\ pc' = "delete client"
     \/ pc = "delete client" /\ pc' = "delete server"
     \/ pc = "delete server" /\ pc' = "idle"
  /\ Fails(pc)
  /\ UNCHANGED <<spec, due, zk, objects, pods, conf, done, panicked, edits, crashes>>

\* Kubernetes removes the Pods, and keeps the claims.
DeleteStatefulSet ==
  /\ Call("delete sts", "delete pdb")
  /\ sts' = None
  /\ ready' = {}
  /\ UNCHANGED <<spec, zk, server, client, pdb, claims, conf, done, edits, crashes>>

DeletePdb ==
  /\ Call("delete pdb", "delete client")
  /\ pdb' = None
  /\ UNCHANGED <<spec, zk, server, client, sts, pods, conf, done, edits, crashes>>

DeleteClient ==
  /\ Call("delete client", "delete server")
  /\ client' = None
  /\ UNCHANGED <<spec, zk, server, pdb, sts, pods, conf, done, edits, crashes>>

DeleteServer ==
  /\ Call("delete server", "idle")
  /\ server' = FALSE
  /\ UNCHANGED <<spec, zk, client, pdb, sts, pods, conf, done, edits, crashes>>

-----------------------------------------------------------------------------
(* The environment                                                         *)

\* The user creates or edits the CHI, or deletes it (None). An edit cancels a
\* running pass: each of its remaining steps returns without doing anything.
Edit ==
  /\ edits < MaxEdits
  /\ pc = "idle" \/ (EditDuringPass /\ spec # None)
  /\ \E s \in (Requests \cup {None}) \ {spec} :
       /\ spec' = s
       /\ conf' = IF s = None THEN None ELSE conf
  /\ spec = None => ~due
  /\ due' = TRUE
  /\ done' = FALSE
  /\ pc' = "idle"
  /\ edits' = edits + 1
  /\ UNCHANGED <<zk, objects, pods, panicked, faults, crashes>>

\* The operator is killed; the next one starts with a pass over the CHI.
Crash ==
  /\ pc # "idle"
  /\ crashes < MaxCrashes
  /\ crashes' = crashes + 1
  /\ pc' = "idle"
  /\ due' = TRUE
  /\ UNCHANGED <<spec, zk, objects, pods, conf, done, panicked, edits, faults>>

\* Kubernetes runs the Pods of the StatefulSet.
PodUp(i) ==
  /\ i \in Ordinals \ ready
  /\ ready' = ready \cup {i}
  /\ claims' = claims \cup {Claim(i)}
  /\ UNCHANGED <<spec, due, pc, zk, objects, conf, done, panicked, bounds>>

\* A Pod fails.
PodDown(i) ==
  /\ i \in ready
  /\ ready' = ready \ {i}
  /\ UNCHANGED <<spec, due, pc, zk, objects, claims, conf, done, panicked, bounds>>

\* A node is drained: a Pod may be evicted as long as its budget allows it.
Evict(i) ==
  /\ i \in ready
  /\ pdb # None => Cardinality(ready) - 1 >= sts.replicas - pdb
  /\ ready' = ready \ {i}
  /\ UNCHANGED <<spec, due, pc, zk, objects, claims, conf, done, panicked, bounds>>

Init ==
  /\ spec = None /\ due = FALSE /\ pc = "idle" /\ zk = None
  /\ server = FALSE /\ client = None /\ pdb = None /\ sts = None
  /\ ready = {} /\ claims = {}
  /\ conf = None /\ done = FALSE /\ panicked = FALSE
  /\ edits = 0 /\ faults = 0 /\ crashes = 0

Next ==
  \/ Start \/ CreateFails \/ ReconcileServer \/ ReconcileClient \/ ReconcilePdb
  \/ CreateStatefulSet \/ WaitReady \/ WaitTimeout \/ ReconcileHosts
  \/ DeleteFails \/ DeleteStatefulSet \/ DeletePdb \/ DeleteClient \/ DeleteServer
  \/ Edit \/ Crash
  \/ \E i \in Ordinals : PodUp(i) \/ PodDown(i) \/ Evict(i)

Spec == Init /\ [][Next]_vars

-----------------------------------------------------------------------------
(* Properties                                                              *)

\* An ensemble that runs has its Services and its budget: "the successful
\* operation of ZooKeeper depends on successful communication with other nodes"
\* (reconcileZooKeeper), and a pass that finds the StatefulSet looks no further.
BackedEnsemble == sts # None => server /\ client # None /\ pdb # None

\* When a pass has completed, every node in the configuration of the hosts that
\* is not the user's own is a Pod of the ensemble, at the port it listens on.
Reachable ==
  done /\ conf # None =>
    \A n \in conf.nodes :
      n.host[1] = "zk" =>
        /\ sts # None /\ server
        /\ n.port = sts.port
        /\ n.host[2] \in Ordinals /\ sts.peers = Ordinals

\* Draining nodes never costs the ensemble its majority, whatever replica counts
\* the user went through and however often creation was rolled back.
QuorumKept ==
  [][\A i \in Ordinals : Evict(i) => 2 * Cardinality(ready') > sts.replicas]_vars

\* The sections of a CHI are optional: no CHI makes the operator panic.
\* The code breaks it: README.md, Disagreements.
NoPanic == ~panicked

\* What a cluster says goes over what the CHI says.
\* The code breaks it: README.md, Disagreements.
ClusterOverrides ==
  done /\ spec # None /\ spec.cluster # None /\ spec.cluster.root # "" /\ conf # None =>
    conf.root = spec.cluster.root

\* The policy to ignore a failed creation lets the pass go on.
\* The code breaks it: README.md, Disagreements.
IgnoredGoesOn == [][Policy = "ignore" /\ WaitTimeout => pc' = "hosts"]_vars

\* When the CHI is deleted, nothing of its ensemble is left (deleteZooKeeper:
\* StatefulSet, PersistentVolumeClaim and Service).
\* The code breaks it: README.md, Disagreements.
DeletedWhole ==
  spec = None /\ pc = "idle" /\ ~due =>
    sts = None /\ pdb = None /\ ~server /\ client = None /\ claims = {}
=============================================================================
