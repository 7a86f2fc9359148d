--------------------------- MODULE ObjectsProofs -----------------------------
(***************************************************************************)
(* Theorems about the objects of a CHI.                                    *)
(*                                                                         *)
(* ZooKeeper: an ensemble that runs has its Services and its budget, and   *)
(* draining nodes never costs it the majority.                             *)
(* Layout: a pass drops the replicas of the hosts that leave, growth moves *)
(* no host, and no two hosts have one name.                                *)
(* HostPod: a server keeps its data where it is.                           *)
(* Placement: a Pod that waits fits on one of three nodes.                 *)
(*                                                                         *)
(* The premises stand in the theorems, and README.md says what they are    *)
(* about.                                                                  *)
(***************************************************************************)
EXTENDS MCObjects, Sequences, FiniteSetTheorems, WellFoundedInduction, TLAPS

-----------------------------------------------------------------------------
(* The ZooKeeper ensemble                                                  *)

\* The sections a pass creates the ensemble from.
Asked(c) == c \in Config /\ c.install

\* Behind each stage of the creation its object is there, behind the first stage
\* of the deletion the StatefulSet is not.
Stages ==
  /\ pc \in {"client", "pdb", "sts"} => server
  /\ pc \in {"pdb", "sts"} => client # None
  /\ pc = "sts" => pdb # None
  /\ pc \in {"delete pdb", "delete client", "delete server"} => sts = None

\* The pass creates what a section asks for.
Works ==
  /\ spec \in Requests \cup {None}
  /\ pc \in {"server", "client", "pdb", "sts"} =>
       zk.chi.replica \in Int /\ zk.chi.port \in Int

Ensemble == BackedEnsemble /\ Stages /\ Works

\* Normalization gives numbers.
LEMMA Normalized ==
    ASSUME NEW s \in Requests, ToInstall(Normalize(s).chi)
    PROVE  /\ s.chi \in Config /\ s.chi.install
           /\ Normalize(s).chi.replica = OddReplica(s.chi.replica)
           /\ Normalize(s).chi.replica \in Int
           /\ Normalize(s).chi.port \in Int
  <1>1. Normalize(s).chi = NormalizeZookeeper(s.chi)
    BY DEF Normalize
  <1>2. s.chi \in Config
    BY <1>1, RequestsAssumption DEF ToInstall, NormalizeZookeeper
  <1>3. /\ s.chi.install \in BOOLEAN /\ s.chi.replica \in Int /\ s.chi.port \in Nat
        /\ s.chi = [install |-> s.chi.install, replica |-> s.chi.replica, port |-> s.chi.port,
                    nodes |-> s.chi.nodes, root |-> s.chi.root]
    BY <1>2 DEF Config
  <1>4. s.chi # None
    BY <1>2, NoneAssumption
  <1>5. /\ NormalizeZookeeper(s.chi).install = s.chi.install
        /\ NormalizeZookeeper(s.chi).replica =
             IF s.chi.install THEN OddReplica(s.chi.replica) ELSE s.chi.replica
        /\ NormalizeZookeeper(s.chi).port = OrDefaultPort(s.chi.port)
    BY <1>3, <1>4 DEF NormalizeZookeeper
  <1>6. s.chi.install
    BY <1>1, <1>5 DEF ToInstall
  <1>7. OddReplica(s.chi.replica) \in Int /\ OrDefaultPort(s.chi.port) \in Int
    BY <1>3 DEF OddReplica, OrDefaultPort, DefaultPort
  <1> QED
    BY <1>1, <1>2, <1>5, <1>6, <1>7

\* There is no ensemble at first.
LEMMA EnsembleInit == Init => Ensemble
  BY DEF Init, Ensemble, BackedEnsemble, Stages, Works

\* A pass starts.
LEMMA EnsembleStart ==
    ASSUME Ensemble, Start
    PROVE  Ensemble'
  <1>1. BackedEnsemble'
    BY DEF Ensemble, BackedEnsemble, Start, objects
  <1>2. Stages'
    BY DEF Stages, Start
  <1>3. Works'
    <2>1. CASE spec = None
      BY <2>1 DEF Ensemble, Works, Start
    <2>2. CASE spec # None /\ ToInstall(Normalize(spec).chi)
      BY <2>2, Normalized DEF Ensemble, Works, Start
    <2>3. CASE spec # None /\ ~ToInstall(Normalize(spec).chi)
      BY <2>3 DEF Ensemble, Works, Start
    <2> QED
      BY <2>1, <2>2, <2>3
  <1> QED
    BY <1>1, <1>2, <1>3 DEF Ensemble
\* The creation of the ensemble: every object is there before the next one.
LEMMA EnsembleCreate ==
    ASSUME Ensemble,
           \/ CreateFails \/ ReconcileServer \/ ReconcileClient \/ ReconcilePdb \/ CreateStatefulSet
    PROVE  Ensemble'
  <1>1. BackedEnsemble /\ Stages /\ Works
    BY DEF Ensemble
  <1>2. CASE CreateFails
    BY <1>1, <1>2 DEF CreateFails, Abort, Ensemble, BackedEnsemble, Stages, Works, objects
  <1>3. CASE ReconcileServer
    BY <1>1, <1>3 DEF ReconcileServer, Call, Ensemble, BackedEnsemble, Stages, Works
  <1>4. CASE ReconcileClient
    <2>1. client' # None
      BY <1>1, <1>4, NoneAssumption DEF ReconcileClient, Call, ClientPort, Works
    <2> QED
      BY <1>1, <1>4, <2>1 DEF ReconcileClient, Call, Ensemble, BackedEnsemble, Stages, Works
  <1>5. CASE ReconcilePdb
    <2>1. PodDisruptionBudget(zk.chi) \in Int
      BY <1>1, <1>5 DEF ReconcilePdb, Call, PodDisruptionBudget, Works
    <2>2. pdb' # None
      BY <1>5, <2>1, NoneAssumption DEF ReconcilePdb
    <2> QED
      BY <1>1, <1>5, <2>2 DEF ReconcilePdb, Call, Ensemble, BackedEnsemble, Stages, Works
  <1>6. CASE CreateStatefulSet
    BY <1>1, <1>6 DEF CreateStatefulSet, Call, Ensemble, BackedEnsemble, Stages, Works
  <1> QED
    BY <1>2, <1>3, <1>4, <1>5, <1>6

\* The rollback and the deletion: the StatefulSet is the first to go.
LEMMA EnsembleDelete ==
    ASSUME Ensemble, "delete sts" \notin Faulty,
           DeleteFails \/ DeleteStatefulSet \/ DeletePdb \/ DeleteClient \/ DeleteServer
    PROVE  Ensemble'
  <1>1. BackedEnsemble /\ Stages /\ Works
    BY DEF Ensemble
  <1>2. CASE DeleteFails
    <2>1. /\ pc \in {"delete pdb", "delete client", "delete server"}
          /\ pc' \in {"delete client", "delete server", "idle"}
      BY <1>2 DEF DeleteFails, Fails
    <2> QED
      BY <1>1, <1>2, <2>1
      DEF DeleteFails, Ensemble, BackedEnsemble, Stages, Works, objects
  <1>3. CASE DeleteStatefulSet
    BY <1>1, <1>3 DEF DeleteStatefulSet, Call, Ensemble, BackedEnsemble, Stages, Works
  <1>4. CASE DeletePdb
    BY <1>1, <1>4 DEF DeletePdb, Call, Ensemble, BackedEnsemble, Stages, Works
  <1>5. CASE DeleteClient
    BY <1>1, <1>5 DEF DeleteClient, Call, Ensemble, BackedEnsemble, Stages, Works
  <1>6. CASE DeleteServer
    BY <1>1, <1>6 DEF DeleteServer, Call, Ensemble, BackedEnsemble, Stages, Works
  <1> QED
    BY <1>2, <1>3, <1>4, <1>5, <1>6

\* Waiting, the hosts, the user, crashes and Pods leave the objects alone.
LEMMA EnsembleOther ==
    ASSUME Ensemble,
           \/ WaitReady \/ WaitTimeout \/ ReconcileHosts \/ Edit \/ Crash \/ UNCHANGED vars
           \/ \E i \in Ordinals : PodUp(i) \/ PodDown(i) \/ Evict(i)
    PROVE  Ensemble'
  <1>1. BackedEnsemble /\ Stages /\ Works
    BY DEF Ensemble
  <1>2. UNCHANGED objects
    BY DEF WaitReady, WaitTimeout, ReconcileHosts, Edit, Crash, PodUp, PodDown, Evict, vars
  <1>3. spec' \in Requests \cup {None}
    BY <1>1 DEF Works, WaitReady, WaitTimeout, ReconcileHosts, Edit, Crash, PodUp, PodDown, Evict, vars
  <1>4. pc' \in {"idle", "hosts", "delete sts"} \/ UNCHANGED <<pc, zk>>
    BY DEF WaitReady, WaitTimeout, ReconcileHosts, Edit, Crash, PodUp, PodDown, Evict, vars
  <1> QED
    BY <1>1, <1>2, <1>3, <1>4 DEF Ensemble, BackedEnsemble, Stages, Works, objects

\* Every step keeps a Pod backed by the StatefulSet of its name.
LEMMA EnsembleNext ==
    ASSUME Ensemble, [Next]_vars, "delete sts" \notin Faulty
    PROVE  Ensemble'
  BY EnsembleStart, EnsembleCreate, EnsembleDelete, EnsembleOther DEF Next

\* If the StatefulSet of a rollback can be deleted, an ensemble that runs has the
\* Service of its Pods, that of its clients and its budget, whatever users ask
\* for and whatever else fails.
THEOREM Backed ==
    ASSUME "delete sts" \notin Faulty
    PROVE  Spec => []BackedEnsemble
  <1>1. Ensemble /\ [Next]_vars => Ensemble'
    BY EnsembleNext
  <1>2. Ensemble => BackedEnsemble
    BY DEF Ensemble
  <1> QED
    BY EnsembleInit, <1>1, <1>2, PTL DEF Spec

-----------------------------------------------------------------------------
(* The majority                                                            *)

\* Users ask for n nodes, up to normalization.
AskFor(n) == \A s \in Requests : s.chi \in Config /\ s.chi.install => OddReplica(s.chi.replica) = n

\* The pass and what it has created keep to n nodes.
Counted(n) ==
  /\ pc \in {"server", "client", "pdb", "sts"} => zk.chi.replica = n
  /\ pdb # None => pdb = (n - 1) \div 2
  /\ sts # None => sts.replicas = n
  /\ ready \subseteq Ordinals

\* Every step keeps the number of Pods that asked for.
LEMMA CountedStep ==
    ASSUME NEW n \in Nat, AskFor(n), Ensemble, Counted(n), [Next]_vars
    PROVE  Counted(n)'
  <1>1. CASE Start
    <2>1. UNCHANGED <<objects, pods>>
      BY <1>1 DEF Start
    <2>2. pc' = "server" => zk'.chi.replica = n
      <3>1. ASSUME pc' = "server" PROVE spec \in Requests /\ ToInstall(Normalize(spec).chi)
        BY <1>1, <3>1 DEF Start, Ensemble, Works
      <3> QED
        BY <1>1, <3>1, Normalized DEF Start, AskFor
    <2>3. pc' \in {"delete sts", "server", "hosts"}
      BY <1>1 DEF Start
    <2> QED
      BY <2>1, <2>2, <2>3 DEF Counted, objects, pods, Ordinals
  <1>2. CASE ReconcileServer \/ ReconcileClient
    BY <1>2 DEF ReconcileServer, ReconcileClient, Call, Counted, pods, Ordinals
  <1>3. CASE ReconcilePdb
    BY <1>3 DEF ReconcilePdb, Call, Counted, pods, Ordinals, PodDisruptionBudget
  <1>4. CASE CreateStatefulSet
    <2>1. sts'.replicas = n
      BY <1>4 DEF CreateStatefulSet, Call, Counted, StatefulSet
    <2>2. Ordinals \subseteq 0 .. n - 1
      BY DEF Counted, Ordinals
    <2>3. sts' # None => Ordinals' = 0 .. n - 1
      BY <2>1 DEF Ordinals
    <2>4. sts' # None
      BY <1>4, NoneAssumption DEF CreateStatefulSet, Call, Ensemble, Works, StatefulSet, Peers
    <2> QED
      BY <1>4, <2>1, <2>2, <2>3, <2>4 DEF CreateStatefulSet, Call, Counted, pods
  <1>5. CASE DeleteStatefulSet \/ DeletePdb \/ DeleteClient \/ DeleteServer
    BY <1>5 DEF DeleteStatefulSet, DeletePdb, DeleteClient, DeleteServer, Call, Counted, pods, Ordinals
  <1>6. CASE CreateFails \/ DeleteFails \/ WaitReady \/ WaitTimeout \/ ReconcileHosts \/ Edit \/ Crash
    <2>1. UNCHANGED <<objects, pods>>
      BY <1>6 DEF CreateFails, DeleteFails, WaitReady, WaitTimeout, ReconcileHosts, Edit, Crash
    <2>2. pc' \notin {"server", "client", "pdb", "sts"}
      BY <1>6, Zenon DEF CreateFails, Abort, DeleteFails, WaitReady, WaitTimeout, ReconcileHosts, Edit, Crash
    <2> QED
      BY <2>1, <2>2 DEF Counted, objects, pods, Ordinals
  <1>7. CASE \E i \in Ordinals : PodUp(i) \/ PodDown(i) \/ Evict(i)
    BY <1>7 DEF PodUp, PodDown, Evict, Counted, objects, Ordinals
  <1>8. CASE UNCHANGED vars
    BY <1>8 DEF vars, Counted, objects, pods, Ordinals
  <1> QED
    BY <1>1, <1>2, <1>3, <1>4, <1>5, <1>6, <1>7, <1>8 DEF Next

\* Half of an odd number less one is what may miss.
LEMMA HalfOf ==
    ASSUME NEW n \in Nat, NEW m \in Nat, n % 2 = 1, m >= n - (n - 1) \div 2
    PROVE  2 * m > n
  OBVIOUS

\* An eviction that a budget allows leaves more than half of the Pods.
LEMMA EvictKeeps ==
    ASSUME NEW n \in Nat, n % 2 = 1, Ensemble, Counted(n), NEW i \in Ordinals, Evict(i)
    PROVE  2 * Cardinality(ready') > sts.replicas
  <1>1. sts # None /\ sts.replicas = n /\ pdb = (n - 1) \div 2
    BY DEF Ordinals, Counted, Ensemble, BackedEnsemble
  <1>2. pdb # None
    BY <1>1 DEF Ensemble, BackedEnsemble
  <1>3. IsFiniteSet(ready)
    <2>1. Ordinals = 0 .. n - 1 /\ ready \subseteq Ordinals
      BY <1>1 DEF Counted, Ordinals
    <2>2. IsFiniteSet(0 .. n - 1)
      BY FS_Interval
    <2> QED
      BY <2>1, <2>2, FS_Subset
  <1>4. Cardinality(ready) - 1 >= n - (n - 1) \div 2 /\ i \in ready /\ ready' = ready \ {i}
    BY <1>1, <1>2 DEF Evict
  <1>5. Cardinality(ready') = Cardinality(ready) - 1 /\ Cardinality(ready') \in Nat
    BY <1>3, <1>4, FS_RemoveElement, FS_CardinalityType
  <1> QED
    BY <1>1, <1>4, <1>5, HalfOf

\* If all ensembles that users ask for have the same number of nodes, draining
\* nodes never costs an ensemble its majority.
THEOREM MajorityStays ==
    ASSUME NEW n \in Nat, n % 2 = 1, AskFor(n), "delete sts" \notin Faulty
    PROVE  Spec => QuorumKept
  <1>1. Init => Ensemble /\ Counted(n)
    BY EnsembleInit DEF Init, Counted
  <1>2. Ensemble /\ Counted(n) /\ [Next]_vars => (Ensemble /\ Counted(n))'
    BY EnsembleNext, CountedStep
  <1>3. Ensemble /\ Counted(n) =>
          [\A i \in Ordinals : Evict(i) => 2 * Cardinality(ready') > sts.replicas]_vars
    BY EvictKeeps
  <1> QED
    BY <1>1, <1>2, <1>3, PTL DEF Spec, QuorumKept

-----------------------------------------------------------------------------
(* The configuration of the hosts                                          *)

\* All ensembles that users ask for have n nodes at port p.
AskOne(n, p) ==
  \A s \in Requests : ToInstall(Normalize(s).chi) =>
     Normalize(s).chi.replica = n /\ Normalize(s).chi.port = p

\* It is the CHI that asks for an ensemble, no cluster does it alone.
ChiAsks ==
  \A s \in Requests : s.chi = None /\ s.cluster # None =>
     ~s.cluster.install \/ s.cluster.nodes # {}

\* A number of replicas is made odd and positive, once.
LEMMA OddTwice ==
    ASSUME NEW r \in Int
    PROVE  /\ OddReplica(r) \in Int /\ OddReplica(r) > 0
           /\ OddReplica(OddReplica(r)) = OddReplica(r)
  BY DEF OddReplica

\* What normalization makes of a section.
LEMMA NormalizedSection ==
    ASSUME NEW c \in Config
    PROVE  /\ NormalizeZookeeper(c).install = c.install
           /\ NormalizeZookeeper(c).replica = IF c.install THEN OddReplica(c.replica) ELSE c.replica
           /\ NormalizeZookeeper(c).port = OrDefaultPort(c.port)
           /\ NormalizeZookeeper(c).nodes = {[m EXCEPT !.port = OrDefaultPort(@)] : m \in c.nodes}
           /\ NormalizeZookeeper(c) \in Config
  <1>1. /\ c.install \in BOOLEAN /\ c.replica \in Int /\ c.port \in Nat /\ c.root \in STRING
        /\ c.nodes \in SUBSET Node
        /\ c = [install |-> c.install, replica |-> c.replica, port |-> c.port,
                nodes |-> c.nodes, root |-> c.root]
    BY DEF Config
  <1>2. c # None
    BY NoneAssumption
  <1>3. /\ NormalizeZookeeper(c).install = c.install
        /\ NormalizeZookeeper(c).replica = IF c.install THEN OddReplica(c.replica) ELSE c.replica
        /\ NormalizeZookeeper(c).port = OrDefaultPort(c.port)
        /\ NormalizeZookeeper(c).nodes = {[m EXCEPT !.port = OrDefaultPort(@)] : m \in c.nodes}
        /\ NormalizeZookeeper(c).root = c.root
        /\ NormalizeZookeeper(c) =
             [install |-> NormalizeZookeeper(c).install, replica |-> NormalizeZookeeper(c).replica,
              port |-> NormalizeZookeeper(c).port, nodes |-> NormalizeZookeeper(c).nodes,
              root |-> NormalizeZookeeper(c).root]
    BY <1>1, <1>2 DEF NormalizeZookeeper
  <1>4. \A m \in c.nodes : [m EXCEPT !.port = OrDefaultPort(@)] \in Node
    BY <1>1 DEF Node, OrDefaultPort, DefaultPort
  <1>5. {[m EXCEPT !.port = OrDefaultPort(@)] : m \in c.nodes} \in SUBSET Node
    BY <1>4
  <1>6. OddReplica(c.replica) \in Int /\ OrDefaultPort(c.port) \in Nat
    BY <1>1, OddTwice DEF OrDefaultPort, DefaultPort
  <1> QED
    BY <1>1, <1>3, <1>5, <1>6 DEF Config

\* A node that is no Pod is the user's own.
LEMMA OwnNodes ==
    ASSUME NEW c \in Config, NEW m \in c.nodes
    PROVE  m.host[1] = "own"
  BY DEF Config, Node

\* A cluster that inherits from the section of a CHI installs what the CHI does.
LEMMA Inherited ==
    ASSUME NEW c \in Config \cup {None}, NEW chi \in Config, chi.port > 0,
           c = None \/ c.nodes = {}
    PROVE  /\ InheritZookeeperFrom(c, chi) \in Config
           /\ InheritZookeeperFrom(c, chi).install = chi.install
           /\ InheritZookeeperFrom(c, chi).port = chi.port
           /\ InheritZookeeperFrom(c, chi).nodes = chi.nodes
           /\ chi.replica > 0 => InheritZookeeperFrom(c, chi).replica = chi.replica
  <1> DEFINE to == IF c = None THEN NewConfig ELSE c
  <1>1. to.nodes = {} /\ to.replica \in Int /\ (to.root \in STRING \/ to.root = "")
    <2>1. CASE c = None
      BY <2>1 DEF NewConfig
    <2>2. CASE c # None
      BY <2>2 DEF Config
    <2> QED
      BY <2>1, <2>2
  <1>2. InheritZookeeperFrom(c, chi) = MergeFrom(c, chi) /\ chi # None
    BY NoneAssumption DEF InheritZookeeperFrom
  <1>3. MergeFrom(c, chi) =
          [install |-> chi.install,
           replica |-> IF chi.replica > 0 THEN chi.replica ELSE to.replica,
           port |-> chi.port,
           nodes |-> chi.nodes,
           root |-> IF chi.root # "" THEN chi.root ELSE to.root]
    BY <1>1, <1>2 DEF MergeFrom
  <1> HIDE DEF to
  <1>4. /\ chi.install \in BOOLEAN /\ chi.replica \in Int /\ chi.port \in Nat
        /\ chi.nodes \in SUBSET Node /\ chi.root \in STRING
    BY DEF Config
  <1>5. PICK r \in Int, t \in STRING :
          /\ MergeFrom(c, chi) = [install |-> chi.install, replica |-> r, port |-> chi.port,
                                  nodes |-> chi.nodes, root |-> t]
          /\ chi.replica > 0 => r = chi.replica
    <2>1. (IF chi.root # "" THEN chi.root ELSE to.root) \in STRING
      BY <1>1, <1>4
    <2> QED
      BY <1>1, <1>3, <1>4, <2>1
  <1>6. MergeFrom(c, chi) \in Config
    BY <1>4, <1>5 DEF Config
  <1> QED
    BY <1>2, <1>5, <1>6

\* The Pods that hosts address are those of the ensemble the CHI asks for.
LEMMA Addressed ==
    ASSUME NEW n \in Int, NEW p \in Int, AskOne(n, p), ChiAsks, NEW s \in Requests,
           Normalize(s).cluster # None, GetHostZookeeper(Normalize(s).cluster) # None,
           NEW m \in GetHostZookeeper(Normalize(s).cluster).nodes, m.host[1] = "zk"
    PROVE  /\ ToInstall(Normalize(s).chi)
           /\ m.port = p /\ m.host[2] \in 0 .. n - 1
  <1> DEFINE chi == NormalizeZookeeper(s.chi)
             c == InheritZookeeperFrom(s.cluster, chi)
             z == NormalizeZookeeper(c)
  <1>1. Normalize(s).chi = chi /\ Normalize(s).cluster = z
    BY DEF Normalize
  <1>2. s.chi \in Config \cup {None} /\ s.cluster \in Config \cup {None}
    BY RequestsAssumption
  <1>3. s.chi = None => chi = None /\ c = s.cluster
    BY DEF NormalizeZookeeper, InheritZookeeperFrom, MergeFrom
  <1>4. s.chi # None => chi \in Config /\ chi.port > 0
    BY <1>2, NormalizedSection DEF Config, OrDefaultPort, DefaultPort
  <1>5. s.cluster # None /\ s.cluster.nodes # {} => c = s.cluster
    BY DEF InheritZookeeperFrom
  <1>6. c \in Config
    <2>1. z # None => c # None
      BY DEF NormalizeZookeeper
    <2>2. c \in Config \cup {None}
      <3>1. CASE s.chi = None \/ (s.cluster # None /\ s.cluster.nodes # {})
        BY <1>2, <1>3, <1>5, <3>1
      <3>2. CASE s.chi # None /\ (s.cluster = None \/ s.cluster.nodes = {})
        BY <1>2, <1>4, <3>2, Inherited
      <3> QED
        BY <3>1, <3>2
    <2> QED
      BY <1>1, <2>1, <2>2
  <1> HIDE DEF c
  <1>7. /\ z \in Config /\ z.install = c.install /\ z.port = OrDefaultPort(c.port)
        /\ z.install => z.replica = OddReplica(c.replica)
        /\ z.nodes = {} => c.nodes = {}
    <2>1. z.nodes = {[m1 EXCEPT !.port = OrDefaultPort(@)] : m1 \in c.nodes}
      BY <1>6, NormalizedSection
    <2>2. z.nodes = {} => c.nodes = {}
      BY <2>1
    <2> QED
      BY <1>6, <2>2, NormalizedSection
  <1> HIDE DEF z
  <1>8. z.nodes = {}
    <2> SUFFICES ASSUME z.nodes # {} PROVE FALSE
      OBVIOUS
    <2>1. m \in z.nodes
      BY <1>1 DEF GetHostZookeeper
    <2> QED
      BY <1>7, <2>1, OwnNodes
  <1>9. z.install
    BY <1>1, <1>8 DEF GetHostZookeeper
  <1>10. s.chi # None /\ (s.cluster = None \/ s.cluster.nodes = {})
    <2>1. ~(s.cluster # None /\ s.cluster.nodes # {})
      BY <1>5, <1>7, <1>8
    <2>2. s.chi # None
      BY <1>3, <1>6, <1>7, <1>9, <2>1, NoneAssumption DEF ChiAsks
    <2> QED
      BY <2>1, <2>2
  <1>11. /\ c.install = chi.install /\ c.port = chi.port /\ c.nodes = chi.nodes
         /\ chi.replica > 0 => c.replica = chi.replica
    BY <1>2, <1>4, <1>10, Inherited DEF c
  <1>12. /\ chi.install /\ chi.nodes = {} /\ chi # None
         /\ s.chi \in Config /\ s.chi.install /\ chi.replica = OddReplica(s.chi.replica)
    <2>1. chi.install /\ chi.nodes = {} /\ chi # None /\ s.chi \in Config
      BY <1>2, <1>4, <1>7, <1>8, <1>9, <1>10, <1>11, NoneAssumption
    <2> QED
      BY <2>1, NormalizedSection
  <1> HIDE DEF chi
  <1>13. ToInstall(chi)
    BY <1>12 DEF ToInstall
  <1>14. chi.replica = n /\ chi.port = p
    BY <1>1, <1>13 DEF AskOne
  <1>15. z.replica = n /\ z.port = p
    <2>1. s.chi.replica \in Int
      BY <1>12 DEF Config
    <2>2. chi.replica > 0 /\ OddReplica(chi.replica) = chi.replica
      BY <1>12, <2>1, OddTwice
    <2>3. OrDefaultPort(c.port) = p
      BY <1>4, <1>10, <1>11, <1>14 DEF OrDefaultPort
    <2> QED
      BY <1>7, <1>9, <1>11, <1>14, <2>2, <2>3
  <1>16. PICK i \in 0 .. n - 1 : m = Member(i, p)
    BY <1>1, <1>8, <1>9, <1>15 DEF GetHostZookeeper
  <1> QED
    BY <1>1, <1>13, <1>16 DEF Member

\* The pass has the CHI as it is, and writes the configuration of the hosts when
\* the ensemble they need is there.
Addresses(n, p) ==
  /\ done => pc = "idle" /\ ~due
  /\ pc # "idle" => ~due
  /\ pc \in {"server", "client", "pdb", "sts", "wait", "hosts"} =>
       spec \in Requests /\ zk = Normalize(spec)
  /\ pc \in {"server", "client", "pdb", "sts"} => zk.chi.replica = n /\ zk.chi.port = p
  /\ pc = "wait" => sts # None
  /\ pc = "hosts" /\ ToInstall(zk.chi) => sts # None
  /\ sts # None => sts.replicas = n /\ sts.port = p /\ sts.peers = 0 .. n - 1
  /\ Reachable

\* Every step keeps the addresses hosts are given those of Pods asked for.
LEMMA AddressesStep ==
    ASSUME NEW n \in Int, NEW p \in Int, AskOne(n, p), ChiAsks, Ensemble,
           Addresses(n, p), [Next]_vars
    PROVE  Addresses(n, p)'
  <1>1. CASE Start
    <2>1. UNCHANGED <<sts, server, conf, done>> /\ ~done /\ ~due'
      BY <1>1 DEF Start, objects, Addresses
    <2>2. CASE spec = None
      <3>1. pc' = "delete sts"
        BY <1>1, <2>2 DEF Start
      <3> QED
        BY <2>1, <3>1 DEF Addresses, Reachable
    <2>3. CASE spec # None
      <3>1. /\ spec' = spec /\ spec \in Requests /\ zk' = Normalize(spec)
            /\ pc' = IF ToInstall(zk'.chi) /\ sts = None THEN "server" ELSE "hosts"
        BY <1>1, <2>3 DEF Start, Ensemble, Works
      <3>2. pc' = "server" => zk'.chi.replica = n /\ zk'.chi.port = p
        BY <3>1 DEF AskOne
      <3> QED
        BY <2>1, <3>1, <3>2 DEF Addresses, Reachable
    <2> QED
      BY <2>2, <2>3
  <1>2. CASE CreateStatefulSet
    <2>1. sts' = StatefulSet(zk.chi) /\ pc = "sts" /\ pc' = "wait" /\ UNCHANGED <<spec, zk, due, done>>
      BY <1>2 DEF CreateStatefulSet, Call
    <2>2. sts'.replicas = n /\ sts'.port = p /\ sts'.peers = 0 .. n - 1
      BY <2>1 DEF Addresses, StatefulSet, Peers
    <2>3. sts' # None
      BY <2>1, NoneAssumption DEF Ensemble, Works, StatefulSet, Peers
    <2> QED
      BY <2>1, <2>2, <2>3 DEF Addresses, Reachable
  <1>3. CASE ReconcileServer \/ ReconcileClient \/ ReconcilePdb
    BY <1>3 DEF ReconcileServer, ReconcileClient, ReconcilePdb, Call, Addresses, Reachable
  <1>4. CASE DeleteStatefulSet \/ DeletePdb \/ DeleteClient \/ DeleteServer
    <2>1. /\ pc' \in {"delete pdb", "delete client", "delete server", "idle"}
          /\ sts' = sts \/ sts' = None
          /\ pc \in {"delete sts", "delete pdb", "delete client", "delete server"}
          /\ UNCHANGED <<due, done>>
      BY <1>4 DEF DeleteStatefulSet, DeletePdb, DeleteClient, DeleteServer, Call
    <2> QED
      BY <2>1 DEF Addresses, Reachable
  <1>5. CASE CreateFails \/ DeleteFails \/ WaitTimeout \/ Crash
    <2>1. pc # "idle" /\ ~done /\ ~due /\ sts' = sts /\ done' = done
      BY <1>5 DEF CreateFails, Fails, DeleteFails, WaitTimeout, Crash, objects, Addresses
    <2>2. /\ pc' \in {"idle", "delete sts", "delete pdb", "delete client", "delete server"}
          /\ pc' # "idle" => due' = due
      BY <1>5 DEF CreateFails, Abort, DeleteFails, WaitTimeout, Crash
    <2>3. ~done'
      BY <2>1
    <2>4. pc' # "idle" => ~due'
      BY <2>1, <2>2
    <2> QED
      BY <2>1, <2>2, <2>3, <2>4 DEF Addresses, Reachable
  <1>6. CASE WaitReady
    <2>1. /\ pc = "wait" /\ pc' \in {"hosts", "idle"} /\ UNCHANGED <<sts, done, zk, spec>>
          /\ pc' # "idle" => UNCHANGED due
      BY <1>6 DEF WaitReady, objects
    <2> QED
      BY <2>1 DEF Addresses, Reachable
  <1>7. CASE ReconcileHosts
    <2>1. pc = "hosts" /\ pc' = "idle" /\ ~done /\ UNCHANGED <<server, sts>>
      BY <1>7 DEF ReconcileHosts, Addresses, objects
    <2>2. CASE zk.cluster = None
      BY <1>7, <2>1, <2>2 DEF ReconcileHosts, Addresses, Reachable
    <2>3. CASE zk.cluster # None
      <3>1. /\ conf' = GetHostZookeeper(Normalize(spec).cluster) /\ spec \in Requests
            /\ Normalize(spec).cluster # None /\ zk = Normalize(spec)
        BY <1>7, <2>1, <2>3 DEF ReconcileHosts, Addresses
      <3>2. ASSUME conf' # None, NEW m \in conf'.nodes, m.host[1] = "zk"
            PROVE  /\ sts' # None /\ server' /\ m.port = sts'.port
                   /\ m.host[2] \in Ordinals' /\ sts'.peers = Ordinals'
        <4>1. ToInstall(zk.chi) /\ m.port = p /\ m.host[2] \in 0 .. n - 1
          BY <3>1, <3>2, Addressed
        <4>2. sts # None
          BY <2>1, <4>1 DEF Addresses
        <4>3. server /\ sts.replicas = n /\ sts.port = p /\ sts.peers = 0 .. n - 1
          BY <4>2 DEF Addresses, Ensemble, BackedEnsemble
        <4> QED
          BY <2>1, <4>1, <4>2, <4>3 DEF Ordinals
      <3>3. Reachable'
        BY <3>2 DEF Reachable
      <3>4. ~due'
        BY <1>7, <2>1, <2>3 DEF ReconcileHosts, Addresses
      <3> QED
        BY <2>1, <3>3, <3>4 DEF Addresses
    <2> QED
      BY <2>2, <2>3
  <1>8. CASE Edit
    BY <1>8 DEF Edit, objects, Addresses, Reachable
  <1>9. CASE \/ UNCHANGED vars
             \/ \E i \in Ordinals : PodUp(i) \/ PodDown(i) \/ Evict(i)
    <2>1. UNCHANGED <<spec, due, pc, zk, objects, conf, done>>
      BY <1>9 DEF vars, PodUp, PodDown, Evict
    <2> QED
      BY <2>1 DEF objects, Addresses, Reachable, Ordinals
  <1> QED
    BY <1>1, <1>2, <1>3, <1>4, <1>5, <1>6, <1>7, <1>8, <1>9 DEF Next

\* When a pass has completed, the nodes its hosts look for are there and listen
\* where they look, if users ask for one number of nodes at one port, and not
\* for a cluster alone, and if the StatefulSet of a rollback can be deleted.
THEOREM HostsFindNodes ==
    ASSUME NEW n \in Int, NEW p \in Int, AskOne(n, p), ChiAsks, "delete sts" \notin Faulty
    PROVE  Spec => []Reachable
  <1>1. Init => Ensemble /\ Addresses(n, p)
    BY EnsembleInit DEF Init, Addresses, Reachable
  <1>2. Ensemble /\ Addresses(n, p) /\ [Next]_vars => (Ensemble /\ Addresses(n, p))'
    BY EnsembleNext, AddressesStep
  <1>3. Addresses(n, p) => Reachable
    BY DEF Addresses
  <1> QED
    BY <1>1, <1>2, <1>3, PTL DEF Spec

-----------------------------------------------------------------------------
(* Numbers and sequences                                                   *)

\* A set of positions has a first one.
LEMMA FirstOf ==
  ASSUME NEW S \in SUBSET Nat, S # {}
  PROVE  \E i \in S : \A j \in S : i <= j
<1>1. PICK i \in S : \A j \in S : ~(<<j, i>> \in OpToRel(<, Nat))
  BY NatLessThanWellFounded, WFMin, Zenon
<1>2. \A j \in S : ~(j < i)
  BY <1>1, Zenon DEF OpToRel
<1>3. \A j \in S : i <= j
  BY <1>2
<1> QED
  BY <1>3

\* A set of numbers with a bound has a greatest.
LEMMA GreatestOf ==
  ASSUME NEW S \in SUBSET Nat, S # {}, NEW b \in Nat, \A x \in S : x <= b
  PROVE  Field!Max(S) \in S /\ \A x \in S : x <= Field!Max(S)
<1> DEFINE gaps == {b - x : x \in S}
<1>1. gaps \in SUBSET Nat /\ gaps # {}
  <2>1. ASSUME NEW x \in S PROVE b - x \in Nat
    <3>1. x \in Nat /\ x <= b
      OBVIOUS
    <3> QED
      BY <3>1, SMT
  <2>2. PICK x \in S : TRUE
    OBVIOUS
  <2>3. b - x \in gaps
    BY <2>2, Zenon
  <2> QED
    BY <2>1, <2>3, Zenon
<1>2. PICK i \in gaps : \A j \in gaps : i <= j
  BY <1>1, FirstOf
<1>3. PICK m \in S : i = b - m
  OBVIOUS
<1>4. \A x \in S : b - x \in gaps
  OBVIOUS
<1>5. \A x \in S : m >= x
  BY <1>2, <1>3, <1>4
<1> HIDE DEF gaps
<1>6. Field!Max(S) = CHOOSE x \in S : \A y \in S : x >= y
  BY DEF Field!Max
<1>7. Field!Max(S) \in S /\ \A y \in S : Field!Max(S) >= y
  BY <1>5, <1>6
<1> QED
  BY <1>7

\* One sequence after another.
LEMMA Concatenated ==
  ASSUME NEW M, NEW f \in Seq(M), NEW g \in Seq(M)
  PROVE  /\ f \o g \in Seq(M) /\ Len(f \o g) = Len(f) + Len(g)
         /\ DOMAIN (f \o g) = 1 .. Len(f) + Len(g)
         /\ \A i \in 1 .. Len(f) : (f \o g)[i] = f[i]
         /\ \A i \in 1 .. Len(g) : (f \o g)[Len(f) + i] = g[i]
OBVIOUS

-----------------------------------------------------------------------------
(* The layout of a cluster                                                 *)

\* A layout of counts alone.
CountsOf(a, b) == [shardsCount |-> a, replicasCount |-> b, shards |-> << >>, replicas |-> << >>]

\* A count that is not given is one.
AtLeastOne(n) == IF n = 0 THEN 1 ELSE n
Grid(a, b) == (1 .. AtLeastOne(a)) \X (1 .. AtLeastOne(b))

\* A host with its labels, by its indexes.
HostAt(c) == [name |-> <<c[1] - 1, c[2] - 1>>, shard |-> <<c[1] - 1>>, replica |-> <<c[2] - 1>>]

\* A layout without lists has the counts it gives, or one.
LEMMA CountsAlone ==
  ASSUME NEW n \in Nat
  PROVE  Field!LayoutCount(n, << >>, << >>) = AtLeastOne(n)
<1>1. CASE n # 0
  BY <1>1 DEF Field!LayoutCount, AtLeastOne
<1>2. CASE n = 0
  <2> DEFINE S == {1, Len(<< >>)} \cup {<< >>[k].count : k \in DOMAIN << >>}
                  \cup {Len(<< >>[k].hosts) : k \in DOMAIN << >>}
  <2>1. S = {0, 1}
    OBVIOUS
  <2>2. Field!LayoutCount(n, << >>, << >>) = Field!Max(S)
    BY <1>2 DEF Field!LayoutCount
  <2> HIDE DEF S
  <2>3. Field!Max(S) \in S /\ \A x \in S : x <= Field!Max(S)
    <3>1. S \in SUBSET Nat /\ S # {} /\ \A x \in S : x <= 1
      BY <2>1
    <3> QED
      BY <3>1, GreatestOf
  <2>4. Field!Max(S) = 1
    BY <2>1, <2>3
  <2> QED
    BY <1>2, <2>2, <2>4 DEF AtLeastOne
<1> QED
  BY <1>1, <1>2

\* It has plain lines only.
LEMMA PlainLines ==
  ASSUME NEW n \in Nat
  PROVE  /\ DOMAIN Field!EnsureLines(<< >>, n) = 1 .. n
         /\ \A k \in 1 .. n : Field!EnsureLines(<< >>, n)[k] = Field!Plain(<< >>, 0)
<1>1. Field!Max({Len(<< >>), n}) = n
  <2> DEFINE S == {Len(<< >>), n}
  <2>1. S = {0, n}
    OBVIOUS
  <2> HIDE DEF S
  <2>2. Field!Max(S) \in S /\ \A x \in S : x <= Field!Max(S)
    <3>1. S \in SUBSET Nat /\ S # {} /\ \A x \in S : x <= n
      BY <2>1
    <3> QED
      BY <3>1, GreatestOf
  <2>3. Field!Max(S) = n
    BY <2>1, <2>2
  <2> QED
    BY <2>3 DEF S
<1> DEFINE plain == Field!Plain(<< >>, 0)
<1>2. Field!EnsureLines(<< >>, n) = [k \in 1 .. n |-> IF k <= Len(<< >>) THEN << >>[k] ELSE plain]
  BY <1>1 DEF Field!EnsureLines
<1> HIDE DEF plain
<1>3. \A k \in 1 .. n : ~(k <= Len(<< >>))
  OBVIOUS
<1>4. \A k \in 1 .. n : Field!EnsureLines(<< >>, n)[k] = plain
  BY <1>2, <1>3, Zenon
<1> QED
  BY <1>2, <1>4 DEF plain

\* The cells of lines.
LEMMA CellsOf ==
  ASSUME NEW widths, NEW c
  PROVE  c \in Field!Cells(widths) <=> \E k \in DOMAIN widths : \E j \in 1 .. widths[k] : c = <<k, j>>
<1>1. Field!Cells(widths) = UNION {{<<k, j>> : j \in 1 .. widths[k]} : k \in DOMAIN widths}
  BY DEF Field!Cells
<1>2. c \in Field!Cells(widths) <=> \E k \in DOMAIN widths : c \in {<<k, j>> : j \in 1 .. widths[k]}
  BY <1>1
<1>3. ASSUME NEW k \in DOMAIN widths
      PROVE  c \in {<<k, j>> : j \in 1 .. widths[k]} <=> \E j \in 1 .. widths[k] : c = <<k, j>>
  OBVIOUS
<1> QED
  BY <1>2, <1>3

\* Those of plain lines are a grid.
LEMMA GridCells ==
  ASSUME NEW m \in Nat, NEW n \in Nat, NEW widths, DOMAIN widths = 1 .. m, \A k \in 1 .. m : widths[k] = n
  PROVE  Field!Cells(widths) = (1 .. m) \X (1 .. n)
<1>1. \A c : c \in Field!Cells(widths) <=> \E k \in DOMAIN widths : \E j \in 1 .. widths[k] : c = <<k, j>>
  BY CellsOf
<1>2. \A c : c \in Field!Cells(widths) <=> \E k \in 1 .. m : \E j \in 1 .. n : c = <<k, j>>
  BY <1>1
<1>3. \A c : c \in (1 .. m) \X (1 .. n) <=> \E k \in 1 .. m : \E j \in 1 .. n : c = <<k, j>>
  OBVIOUS
<1> QED
  BY <1>2, <1>3

\* Shards by replicas, or replicas by shards.
LEMMA GridTransposed ==
  ASSUME NEW m \in Nat, NEW n \in Nat
  PROVE  Field!Transposed((1 .. m) \X (1 .. n)) = (1 .. n) \X (1 .. m)
<1>1. \A c \in (1 .. n) \X (1 .. m) : <<c[2], c[1]>> \in (1 .. m) \X (1 .. n)
                                     /\ <<<<c[2], c[1]>>[2], <<c[2], c[1]>>[1]>> = c
  OBVIOUS
<1>2. \A c \in (1 .. m) \X (1 .. n) : <<c[2], c[1]>> \in (1 .. n) \X (1 .. m)
  OBVIOUS
<1>3. Field!Transposed((1 .. m) \X (1 .. n)) = {<<c[2], c[1]>> : c \in (1 .. m) \X (1 .. n)}
  BY DEF Field!Transposed
<1>4. (1 .. n) \X (1 .. m) \subseteq {<<c[2], c[1]>> : c \in (1 .. m) \X (1 .. n)}
  BY <1>1
<1>5. {<<c[2], c[1]>> : c \in (1 .. m) \X (1 .. n)} \subseteq (1 .. n) \X (1 .. m)
  BY <1>2, Zenon
<1> QED
  BY <1>3, <1>4, <1>5, Zenon

\* A name of two parts.
LEMMA TwoParts ==
  ASSUME NEW x \in Int, NEW y \in Int
  PROVE  <<x>> \o <<y>> = <<x, y>>
<1>1. <<x>> \in Seq(Int) /\ <<y>> \in Seq(Int) /\ Len(<<x>>) = 1 /\ Len(<<y>>) = 1
  OBVIOUS
<1> DEFINE both == <<x>> \o <<y>>
           pair == <<x, y>>
<1>2. both \in Seq(Int) /\ Len(both) = 2 /\ both[1] = x /\ both[2] = y
  BY <1>1
<1>3. pair \in Seq(Int) /\ Len(pair) = 2 /\ pair[1] = x /\ pair[2] = y
  OBVIOUS
<1> HIDE DEF both, pair
<1>4. both = [i \in 1 .. 2 |-> both[i]] /\ pair = [i \in 1 .. 2 |-> pair[i]]
  BY <1>2, <1>3
<1>5. \A i \in 1 .. 2 : both[i] = pair[i]
  BY <1>2, <1>3
<1>6. [i \in 1 .. 2 |-> both[i]] = [i \in 1 .. 2 |-> pair[i]]
  BY <1>5
<1> QED
  BY <1>4, <1>6 DEF both, pair

\* A layout without lists is a grid of hosts named by their indexes.
LEMMA GridOf ==
  ASSUME NEW a \in Nat, NEW b \in Nat
  PROVE  LET new == Field!NormalizeCluster(CountsOf(a, b))
         IN /\ ~Field!OutOfRange(CountsOf(a, b))
            /\ new.shards = AtLeastOne(a) /\ new.replicas = AtLeastOne(b)
            /\ new.byShards = Grid(a, b) /\ new.byReplicas = Grid(a, b)
            /\ new.host = [c \in Grid(a, b) |-> HostAt(c)]
<1> DEFINE s == CountsOf(a, b)
           A == AtLeastOne(a)
           B == AtLeastOne(b)
           G == (1 .. A) \X (1 .. B)
           P == Field!Plain(<< >>, 0)
<1>1. s.shardsCount = a /\ s.replicasCount = b /\ s.shards = << >> /\ s.replicas = << >>
  BY DEF CountsOf
<1> HIDE DEF s
<1>2. Field!ShardsCount(s) = A /\ Field!ReplicasCount(s) = B
  BY <1>1, CountsAlone DEF Field!ShardsCount, Field!ReplicasCount
<1>3. A \in Nat /\ B \in Nat
  BY DEF AtLeastOne
<1> HIDE DEF A, B
<1>4. /\ DOMAIN Field!Shards(s) = 1 .. A /\ \A k \in 1 .. A : Field!Shards(s)[k] = P
      /\ DOMAIN Field!Replicas(s) = 1 .. B /\ \A k \in 1 .. B : Field!Replicas(s)[k] = P
  BY <1>1, <1>2, <1>3, PlainLines DEF Field!Shards, Field!Replicas
<1>5. P.count = 0 /\ P.hosts = << >> /\ P.name = << >>
  BY DEF Field!Plain
<1> HIDE DEF P
<1>6. \A n \in Nat : Field!LineCount(P, n) = n
  BY <1>5 DEF Field!LineCount
<1>7. Field!ShardCells(s) = G
  <2> DEFINE widths == [k \in DOMAIN Field!Shards(s) |-> Field!LineCount(Field!Shards(s)[k], Field!ReplicasCount(s))]
  <2>1. DOMAIN widths = 1 .. A /\ \A k \in 1 .. A : widths[k] = B
    BY <1>2, <1>3, <1>4, <1>6
  <2>2. Field!ShardCells(s) = Field!Cells(widths)
    BY DEF Field!ShardCells
  <2> HIDE DEF widths
  <2> QED
    BY <1>3, <2>1, <2>2, GridCells
<1>8. Field!ReplicaCells(s) = G
  <2> DEFINE widths == [k \in DOMAIN Field!Replicas(s) |-> Field!LineCount(Field!Replicas(s)[k], Field!ShardsCount(s))]
  <2>1. DOMAIN widths = 1 .. B /\ \A k \in 1 .. B : widths[k] = A
    BY <1>2, <1>3, <1>4, <1>6
  <2>2. Field!ReplicaCells(s) = Field!Transposed(Field!Cells(widths))
    BY DEF Field!ReplicaCells
  <2> HIDE DEF widths
  <2>3. Field!Cells(widths) = (1 .. B) \X (1 .. A)
    BY <1>3, <2>1, GridCells
  <2> QED
    BY <1>3, <2>2, <2>3, GridTransposed
<1>9. Field!ListedCells(s) = {}
  <2> DEFINE left == [k \in DOMAIN s.shards |-> Len(s.shards[k].hosts)]
             right == [k \in DOMAIN s.replicas |-> Len(s.replicas[k].hosts)]
  <2>1. DOMAIN left = {} /\ DOMAIN right = {}
    BY <1>1
  <2>2. Field!ListedCells(s) = Field!Cells(left) \cup Field!Transposed(Field!Cells(right))
    BY DEF Field!ListedCells
  <2> HIDE DEF left, right
  <2>3. Field!Cells(left) = {} /\ Field!Cells(right) = {}
    BY <2>1, CellsOf
  <2>4. Field!Transposed({}) = {}
    BY DEF Field!Transposed
  <2> QED
    BY <2>2, <2>3, <2>4
<1>10. Field!HostsField(s) = G
  BY <1>7, <1>8, <1>9 DEF Field!HostsField
<1>11. ~Field!OutOfRange(s)
  <2>1. \A c \in G : Field!InField(s, c)
    BY <1>2, <1>3 DEF Field!InField
  <2>2. Len(s.shards) = 0 /\ Len(s.replicas) = 0
    BY <1>1
  <2> QED
    BY <1>2, <1>3, <1>10, <2>1, <2>2 DEF Field!OutOfRange
<1>12. ASSUME NEW c \in G
       PROVE  Field!Host(s, c) = HostAt(c)
  <2>1. c[1] \in 1 .. A /\ c[2] \in 1 .. B
    OBVIOUS
  <2>2. Field!LineName(Field!Shards(s), c[1]) = <<c[1] - 1>>
    BY <1>4, <1>5, <2>1 DEF Field!LineName
  <2>3. Field!LineName(Field!Replicas(s), c[2]) = <<c[2] - 1>>
    BY <1>4, <1>5, <2>1 DEF Field!LineName
  <2>4. Field!ListedName(s, c) = << >>
    BY <1>1 DEF Field!ListedName
  <2>5. Field!CreateHostName(s, c) = <<c[1] - 1>> \o <<c[2] - 1>>
    BY <2>2, <2>3 DEF Field!CreateHostName
  <2>6. <<c[1] - 1>> \o <<c[2] - 1>> = <<c[1] - 1, c[2] - 1>>
    BY <2>1, TwoParts
  <2>7. Field!HostName(s, c) = <<c[1] - 1, c[2] - 1>>
    BY <2>4, <2>5, <2>6 DEF Field!HostName
  <2> QED
    BY <2>2, <2>3, <2>7 DEF Field!Host, HostAt
<1>13. [c \in Field!HostsField(s) |-> Field!Host(s, c)] = [c \in G |-> HostAt(c)]
  BY <1>10, <1>12
<1>14. G = Grid(a, b)
  BY DEF Grid, A, B
<1>15. Field!NormalizeCluster(s) =
         [shards |-> A, replicas |-> B, byShards |-> G, byReplicas |-> G,
          host |-> [c \in G |-> HostAt(c)]]
  BY <1>2, <1>7, <1>8, <1>13 DEF Field!NormalizeCluster
<1> QED
  BY <1>11, <1>14, <1>15 DEF s, A, B

\* The hosts of a grid.
HostsOf(a, b) == {HostAt(x) : x \in Grid(a, b)}

\* Cells of a grid are pairs of indexes.
LEMMA GridPairs ==
  ASSUME NEW a \in Nat, NEW b \in Nat, NEW x \in Grid(a, b)
  PROVE  x[1] \in 1 .. AtLeastOne(a) /\ x[2] \in 1 .. AtLeastOne(b) /\ x = <<x[1], x[2]>>
BY DEF Grid

\* No two cells of grids have hosts of one shard and one replica.
LEMMA HostsDiffer ==
  ASSUME NEW x, NEW y, x[1] \in Nat, x[2] \in Nat, y[1] \in Nat, y[2] \in Nat,
         x = <<x[1], x[2]>>, y = <<y[1], y[2]>>,
         HostAt(x).shard = HostAt(y).shard, HostAt(x).replica = HostAt(y).replica
  PROVE  x = y
<1>1. <<x[1] - 1>> = <<y[1] - 1>> /\ <<x[2] - 1>> = <<y[2] - 1>>
  BY DEF HostAt
<1>2. x[1] - 1 = y[1] - 1 /\ x[2] - 1 = y[2] - 1
  BY <1>1
<1>3. x[1] = y[1] /\ x[2] = y[2]
  BY <1>2
<1> QED
  BY <1>3

\* If one count stays, the walk over the difference finds the hosts that leave.
LEMMA GridRemoved ==
  ASSUME NEW a \in Nat, NEW b \in Nat, NEW c \in Nat, NEW d \in Nat, a = c \/ b = d,
         NEW old, old # None, old = Field!NormalizeCluster(CountsOf(c, d))
  PROVE  /\ Field!WalkRemoved(old, Field!NormalizeCluster(CountsOf(a, b))) = Grid(c, d) \ Grid(a, b)
         /\ \A x \in Grid(c, d) : Field!AddressFilled(old, x)
<1> DEFINE new == Field!NormalizeCluster(CountsOf(a, b))
<1>1. /\ new.shards = AtLeastOne(a) /\ new.replicas = AtLeastOne(b)
      /\ new.byShards = Grid(a, b) /\ new.byReplicas = Grid(a, b)
      /\ old.byShards = Grid(c, d) /\ old.byReplicas = Grid(c, d)
  BY GridOf
<1> HIDE DEF new
<1>2. Field!WalkRemoved(old, new) =
        {x \in Grid(c, d) \ Grid(a, b) : x[1] <= AtLeastOne(a)}
        \cup {x \in Grid(c, d) \ Grid(a, b) : x[2] <= AtLeastOne(b)}
  BY <1>1 DEF Field!WalkRemoved, Field!RemovedByShards, Field!RemovedByReplicas
<1>3. ASSUME NEW x \in Grid(c, d) \ Grid(a, b)
      PROVE  x[1] <= AtLeastOne(a) \/ x[2] <= AtLeastOne(b)
  BY <1>3, GridPairs
<1>4. \A x \in Grid(c, d) : Field!AddressFilled(old, x)
  BY <1>1 DEF Field!AddressFilled, Field!WalkHosts
<1> QED
  BY <1>2, <1>3, <1>4 DEF new

\* What a pass over counts does to hosts and replicas.
LEMMA GridPass ==
  ASSUME NEW a \in Nat, NEW b \in Nat, Field!Reconcile, spec = CountsOf(a, b)
  PROVE  /\ layout' = Field!NormalizeCluster(CountsOf(a, b))
         /\ live' = HostsOf(a, b)
         /\ ~edited' /\ UNCHANGED <<fields, spec>>
<1> DEFINE new == Field!NormalizeCluster(CountsOf(a, b))
<1>1. new.byShards = Grid(a, b) /\ new.host = [c \in Grid(a, b) |-> HostAt(c)]
  BY GridOf
<1>2. /\ layout' = new /\ live' = {new.host[c] : c \in Field!WalkHosts(new)}
      /\ ~edited' /\ UNCHANGED <<fields, spec>>
  BY DEF Field!Reconcile
<1> HIDE DEF new
<1>3. live' = {HostAt(c) : c \in Grid(a, b)}
  BY <1>1, <1>2 DEF Field!WalkHosts
<1> QED
  BY <1>2, <1>3 DEF HostsOf, new

\* The pass drops the replicas of the hosts that leave.
LEMMA GridDrops ==
  ASSUME NEW a \in Nat, NEW b \in Nat, NEW c \in Nat, NEW d \in Nat, a = c \/ b = d,
         Field!Reconcile, spec = CountsOf(a, b),
         layout # None, layout = Field!NormalizeCluster(CountsOf(c, d)), live = HostsOf(c, d)
  PROVE  dropped' = live \ live' /\ UNCHANGED crashed
<1> DEFINE new == Field!NormalizeCluster(CountsOf(a, b))
           gone == Grid(c, d) \ Grid(a, b)
<1>1. /\ Field!WalkRemoved(layout, new) = gone
      /\ \A x \in gone : Field!AddressFilled(layout, x)
  BY GridRemoved
<1>2. layout.host = [x \in Grid(c, d) |-> HostAt(x)]
  BY GridOf
<1>3. {new.host[x] : x \in Field!WalkHosts(new)} = HostsOf(a, b) /\ live' = HostsOf(a, b)
  <2>1. live' = {new.host[x] : x \in Field!WalkHosts(new)}
    BY DEF Field!Reconcile
  <2> QED
    BY <2>1, GridPass
<1> HIDE DEF new
<1>4. /\ dropped' = {h \in {layout.host[x] : x \in gone} : Field!CanDropReplica(h, HostsOf(a, b))}
      /\ UNCHANGED crashed
  BY <1>1, <1>3 DEF Field!Reconcile, new
<1>5. {layout.host[x] : x \in gone} = {HostAt(x) : x \in gone}
  BY <1>2
<1>6. ASSUME NEW x \in Grid(c, d), NEW y \in Grid(a, b),
             HostAt(x).shard = HostAt(y).shard, HostAt(x).replica = HostAt(y).replica
      PROVE  x = y
  <2>1. AtLeastOne(a) \in Nat /\ AtLeastOne(b) \in Nat /\ AtLeastOne(c) \in Nat /\ AtLeastOne(d) \in Nat
    BY DEF AtLeastOne
  <2>2. /\ x[1] \in Nat /\ x[2] \in Nat /\ x = <<x[1], x[2]>>
        /\ y[1] \in Nat /\ y[2] \in Nat /\ y = <<y[1], y[2]>>
    BY <2>1, GridPairs
  <2> QED
    BY <1>6, <2>2, HostsDiffer
<1>7. \A x \in gone : Field!CanDropReplica(HostAt(x), HostsOf(a, b))
  BY <1>6 DEF Field!CanDropReplica, HostsOf
<1>8. dropped' = {HostAt(x) : x \in gone}
  BY <1>4, <1>5, <1>7
<1>9. HostsOf(c, d) \ HostsOf(a, b) = {HostAt(x) : x \in gone}
  <2>1. \A x \in gone : HostAt(x) \in HostsOf(c, d) /\ HostAt(x) \notin HostsOf(a, b)
    BY <1>6 DEF HostsOf
  <2>2. \A h \in HostsOf(c, d) \ HostsOf(a, b) : \E x \in gone : h = HostAt(x)
    BY DEF HostsOf
  <2> QED
    BY <2>1, <2>2
<1> QED
  BY <1>3, <1>4, <1>8, <1>9

\* Inductive invariant: of a user who edits counts alone, one between two passes,
\* the layout of the last pass is one of counts, and one of them is still asked for.
Counting ==
  part = "field" /\ fields = CountsOnly =>
    /\ crashed = ""
    /\ \E a, b \in Nat :
         /\ spec = CountsOf(a, b)
         /\ layout # None =>
              \E c, d \in Nat :
                /\ layout = Field!NormalizeCluster(CountsOf(c, d)) /\ live = HostsOf(c, d)
                /\ IF edited THEN a = c \/ b = d ELSE a = c /\ b = d

\* At first no count is given.
LEMMA CountingInit == InitAll => Counting
<1> SUFFICES ASSUME InitAll, part = "field" PROVE Counting
  BY DEF Counting
<1>1. spec = Field!NewChiClusterLayout /\ layout = None /\ crashed = ""
  BY DEF InitAll, Field!Init
<1>2. spec = CountsOf(0, 0)
  BY <1>1 DEF Field!NewChiClusterLayout, CountsOf
<1> QED
  BY <1>1, <1>2 DEF Counting

\* Such a user edits one count.
LEMMA CountEdited ==
  ASSUME NEW a \in Nat, NEW b \in Nat, spec = CountsOf(a, b), fields = CountsOnly,
         Field!Assumptions,
         \/ Field!EditCounts \/ Field!AddShard \/ Field!RemoveShard \/ Field!WidenShard
         \/ Field!AddReplica \/ Field!RemoveReplica \/ Field!ListHost \/ Field!UnlistHost
  PROVE  /\ \E c, d \in Nat : spec' = CountsOf(c, d) /\ (a = c \/ b = d)
         /\ ~edited /\ edited' /\ UNCHANGED <<layout, live, crashed>>
<1>1. \A f, s : Field!Edit(f, s) => f = "counts"
  BY DEF Field!Edit, CountsOnly
<1>2. Field!EditCounts
  BY <1>1 DEF Field!EditCounts, Field!AddShard, Field!RemoveShard, Field!WidenShard,
     Field!AddReplica, Field!RemoveReplica, Field!ListHost, Field!UnlistHost
<1>3. PICK n \in 0 .. MaxCount :
        \/ Field!Edit("counts", [spec EXCEPT !.shardsCount = n])
        \/ Field!Edit("counts", [spec EXCEPT !.replicasCount = n])
  BY <1>2 DEF Field!EditCounts
<1>4. n \in Nat
  BY DEF Field!Assumptions
<1>5. /\ [spec EXCEPT !.shardsCount = n] = CountsOf(n, b)
      /\ [spec EXCEPT !.replicasCount = n] = CountsOf(a, n)
  BY DEF CountsOf
<1>6. /\ spec' = CountsOf(n, b) \/ spec' = CountsOf(a, n)
      /\ ~edited /\ edited' /\ UNCHANGED <<layout, live, crashed>>
  BY <1>3, <1>5 DEF Field!Edit
<1> QED
  BY <1>4, <1>6

\* Every step of such a user and of the operator keeps to counts.
LEMMA CountingNext ==
  ASSUME Counting, [NextAll]_allVars
  PROVE  Counting'
<1>1. CASE UNCHANGED allVars
  BY <1>1 DEF Counting, allVars, field
<1>2. CASE part = "field" /\ Field!Next /\ UNCHANGED part
  <2> SUFFICES ASSUME fields = CountsOnly, UNCHANGED fields PROVE Counting'
    <3>1. UNCHANGED fields
      BY <1>2 DEF Field!Next, Field!EditCounts, Field!AddShard, Field!RemoveShard, Field!WidenShard,
         Field!AddReplica, Field!RemoveReplica, Field!ListHost, Field!UnlistHost, Field!Edit,
         Field!Reconcile, Field!Panic, Field!Restart
    <3> QED
      BY <3>1 DEF Counting
  <2>1. crashed = ""
    BY <1>2 DEF Counting
  <2>2. PICK a \in Nat, b \in Nat :
          /\ spec = CountsOf(a, b)
          /\ layout # None =>
               \E c, d \in Nat :
                 /\ layout = Field!NormalizeCluster(CountsOf(c, d)) /\ live = HostsOf(c, d)
                 /\ IF edited THEN a = c \/ b = d ELSE a = c /\ b = d
    BY <1>2 DEF Counting
  <2>3. CASE Field!Reconcile
    <3>1. /\ layout' = Field!NormalizeCluster(CountsOf(a, b)) /\ live' = HostsOf(a, b)
          /\ ~edited' /\ spec' = CountsOf(a, b)
      BY <2>2, <2>3, GridPass
    <3>2. crashed' = ""
      <4>1. CASE layout = None
        <5>1. Field!WalkRemoved(layout, Field!NormalizeCluster(spec)) = {}
          BY <4>1 DEF Field!WalkRemoved
        <5> QED
          BY <2>1, <2>3, <5>1 DEF Field!Reconcile
      <4>2. CASE layout # None
        BY <2>1, <2>2, <2>3, <4>2, GridDrops
      <4> QED
        BY <4>1, <4>2
    <3> QED
      BY <3>1, <3>2 DEF Counting
  <2>4. CASE Field!Panic \/ Field!Restart
    <3>1. ~Field!OutOfRange(spec)
      BY <2>2, GridOf
    <3> QED
      BY <2>1, <2>4, <3>1 DEF Field!Panic, Field!Restart
  <2>5. CASE \/ Field!EditCounts \/ Field!AddShard \/ Field!RemoveShard \/ Field!WidenShard
             \/ Field!AddReplica \/ Field!RemoveReplica \/ Field!ListHost \/ Field!UnlistHost
    <3>1. PICK c \in Nat, d \in Nat : spec' = CountsOf(c, d) /\ (a = c \/ b = d)
      BY <2>2, <2>5, InstancesAssumption, CountEdited
    <3>2. ~edited /\ edited' /\ UNCHANGED <<layout, live, crashed>>
      BY <2>2, <2>5, InstancesAssumption, CountEdited
    <3>3. layout' # None =>
            layout' = Field!NormalizeCluster(CountsOf(a, b)) /\ live' = HostsOf(a, b)
      BY <2>2, <3>2
    <3> QED
      BY <2>1, <3>1, <3>2, <3>3 DEF Counting
  <2> QED
    BY <1>2, <2>3, <2>4, <2>5 DEF Field!Next
<1>3. CASE part # "field" /\ UNCHANGED part
  BY <1>3 DEF Counting
<1> QED
  BY <1>1, <1>2, <1>3 DEF NextAll, ZooKeeperStep, LayoutStep, NamesStep, PodStep, NodesStep

\* Whichever count of shards or replicas a user changes, one between two passes,
\* a pass drops the replicas of the hosts that leave and of no others.
THEOREM ReplicasGo == SpecAll => ReplicasFollowHosts
<1>1. ASSUME Counting, part = "field", fields = CountsOnly PROVE Field!ReplicasFollow
  BY <1>1, GridDrops, Zenon DEF Counting, Field!ReplicasFollow
<1>2. Counting => [part = "field" /\ fields = CountsOnly => Field!ReplicasFollow]_allVars
  BY <1>1
<1> QED
  BY CountingInit, CountingNext, <1>2, PTL DEF SpecAll, ReplicasFollowHosts

\* However a user counts shards and replicas, more of them move no host.
THEOREM GrowthKeepsAll == SpecAll => GrowthKeepsHosts
<1>1. ASSUME Counting, part = "field", fields = CountsOnly PROVE Field!GrowthKeeps
  <2> SUFFICES ASSUME Field!Reconcile, layout # None, layout.byShards \subseteq layout'.byShards
               PROVE  live \subseteq live'
    BY DEF Field!GrowthKeeps
  <2>1. PICK a \in Nat, b \in Nat, c \in Nat, d \in Nat :
          /\ spec = CountsOf(a, b)
          /\ layout = Field!NormalizeCluster(CountsOf(c, d)) /\ live = HostsOf(c, d)
    BY <1>1 DEF Counting
  <2>2. layout' = Field!NormalizeCluster(CountsOf(a, b)) /\ live' = HostsOf(a, b)
    BY <2>1, GridPass
  <2>3. layout.byShards = Grid(c, d) /\ layout'.byShards = Grid(a, b)
    BY <2>1, <2>2, GridOf
  <2> QED
    BY <2>1, <2>2, <2>3 DEF HostsOf
<1>2. Counting => [part = "field" /\ fields = CountsOnly => Field!GrowthKeeps]_allVars
  BY <1>1
<1> QED
  BY CountingInit, CountingNext, <1>2, PTL DEF SpecAll, GrowthKeepsHosts

-----------------------------------------------------------------------------
(* The names of hosts                                                      *)

\* Names are words, no word is the index of a shard or a replica.
WordsOnly == \A n \in Names : n \in Seq(Nat) /\ Len(n) = 1 /\ n[1] > MaxCount /\ n[1] > MaxLine

\* What users write in a list.
Lines ==
  {l \in [name : Names \cup {<< >>}, count : 0 .. MaxLine, hosts : Seq(Names \cup {<< >>})] :
     Len(l.hosts) <= MaxLine}

\* Lines have names of their own, or none; so have the hosts they list.
Distinct(lines) ==
  \A k, l \in DOMAIN lines : lines[k].name = lines[l].name => lines[k].name = << >> \/ k = l
ListedOnce(lines) ==
  \A k, l \in DOMAIN lines : \A i \in DOMAIN lines[k].hosts, j \in DOMAIN lines[l].hosts :
    lines[k].hosts[i] = lines[l].hosts[j] => lines[k].hosts[i] = << >> \/ (k = l /\ i = j)
Told(lines) == lines \in Seq(Lines) /\ Len(lines) <= MaxLine /\ Distinct(lines) /\ ListedOnce(lines)

\* The layouts users write.
Layouts ==
  {s \in [shardsCount : 0 .. MaxCount, replicasCount : 0 .. MaxCount,
          shards : Seq(Lines), replicas : Seq(Lines)] :
     /\ Told(s.shards) /\ Told(s.replicas)
     /\ \A k \in DOMAIN s.replicas : s.replicas[k].hosts = << >>}

\* A number past every index.
Past(n) == n \in Nat /\ n > MaxCount /\ n > MaxLine

\* Counts keep below it.
LEMMA CountBounded ==
  ASSUME NEW n, Past(n), Field!Assumptions, NEW explicit \in 0 .. MaxCount,
         NEW lines \in Seq(Lines), NEW others \in Seq(Lines), Len(lines) <= MaxLine
  PROVE  Field!LayoutCount(explicit, lines, others) \in 0 .. n
<1>1. MaxCount \in Nat /\ MaxLine \in Nat /\ n \in Nat /\ n >= 1 /\ MaxCount <= n /\ MaxLine <= n
  BY DEF Past, Field!Assumptions
<1>2. CASE explicit # 0
  BY <1>1, <1>2 DEF Field!LayoutCount
<1>3. CASE explicit = 0
  <2> DEFINE S == {1, Len(lines)} \cup {others[k].count : k \in DOMAIN others}
                  \cup {Len(others[k].hosts) : k \in DOMAIN others}
  <2>1. Field!LayoutCount(explicit, lines, others) = Field!Max(S)
    BY <1>3 DEF Field!LayoutCount
  <2>2. \A k \in DOMAIN others : others[k].count \in 0 .. MaxLine /\ Len(others[k].hosts) \in 0 .. MaxLine
    <3> TAKE k \in DOMAIN others
    <3>1. others[k] \in Lines
      OBVIOUS
    <3> QED
      BY <3>1 DEF Lines
  <2>3. Len(lines) \in 0 .. MaxLine
    OBVIOUS
  <2>4. 1 \in S /\ \A x \in S : x \in 0 .. n
    BY <1>1, <2>2, <2>3
  <2> HIDE DEF S
  <2>5. Field!Max(S) \in S
    <3>1. S \in SUBSET Nat /\ S # {} /\ n \in Nat /\ \A x \in S : x <= n
      BY <1>1, <2>4
    <3> QED
      BY <3>1, GreatestOf
  <2> QED
    BY <2>1, <2>4, <2>5
<1> QED
  BY <1>2, <1>3

\* Padded lists have the lines of the list, and plain ones up to the count.
LEMMA LinesEnsured ==
  ASSUME NEW lines \in Seq(Lines), NEW count \in Nat
  PROVE  \E m \in Nat :
           /\ m >= count /\ m >= Len(lines) /\ (m = count \/ m = Len(lines))
           /\ DOMAIN Field!EnsureLines(lines, count) = 1 .. m
           /\ \A k \in 1 .. m : Field!EnsureLines(lines, count)[k] =
                IF k <= Len(lines) THEN lines[k] ELSE Field!Plain(<< >>, 0)
<1> DEFINE S == {Len(lines), count}
           m == Field!Max(S)
<1>1. Len(lines) \in Nat
  OBVIOUS
<1>2. m \in S /\ \A x \in S : x <= m
  <2>1. S \in SUBSET Nat /\ S # {} /\ \A x \in S : x <= Len(lines) + count
    BY <1>1
  <2>2. Len(lines) + count \in Nat
    BY <1>1
  <2> HIDE DEF S
  <2> QED
    BY <2>1, <2>2, GreatestOf
<1>3. Field!EnsureLines(lines, count) =
        [k \in 1 .. m |-> IF k <= Len(lines) THEN lines[k] ELSE Field!Plain(<< >>, 0)]
  BY DEF Field!EnsureLines
<1> HIDE DEF m
<1>4. m \in Nat /\ m >= count /\ m >= Len(lines) /\ (m = count \/ m = Len(lines))
  BY <1>1, <1>2
<1>5. \A k \in 1 .. m : Field!EnsureLines(lines, count)[k] =
         IF k <= Len(lines) THEN lines[k] ELSE Field!Plain(<< >>, 0)
  BY <1>3, Zenon
<1> QED
  BY <1>3, <1>4, <1>5

\* Lines are told apart by their names, of one part.
LEMMA LinesNamed ==
  ASSUME WordsOnly, Field!Assumptions, NEW lines, Told(lines), NEW count \in Nat,
         \A n : Past(n) => count <= n
  PROVE  LET all == Field!EnsureLines(lines, count)
         IN \A k, l \in DOMAIN all :
              /\ Field!LineName(all, k) \in Seq(Nat) /\ Len(Field!LineName(all, k)) = 1
              /\ Field!LineName(all, k)[1] = Field!LineName(all, l)[1] => k = l
<1> DEFINE all == Field!EnsureLines(lines, count)
<1>1. lines \in Seq(Lines) /\ Len(lines) <= MaxLine /\ Len(lines) \in Nat /\ DOMAIN lines = 1 .. Len(lines)
  BY DEF Told
<1>2. PICK m \in Nat :
        /\ (m = count \/ m = Len(lines)) /\ DOMAIN all = 1 .. m
        /\ \A k \in 1 .. m : all[k] = IF k <= Len(lines) THEN lines[k] ELSE Field!Plain(<< >>, 0)
  BY <1>1, LinesEnsured
<1> HIDE DEF all
<1>3. ASSUME NEW k \in 1 .. m
      PROVE  \/ all[k].name = << >>
             \/ k \in DOMAIN lines /\ all[k] = lines[k] /\ lines[k].name \in Names
  <2>1. CASE k <= Len(lines)
    <3>1. k \in DOMAIN lines /\ all[k] = lines[k]
      <4>1. k \in 1 .. Len(lines)
        BY <1>1, <2>1
      <4>2. all[k] = lines[k]
        BY <1>2, <2>1
      <4> QED
        BY <1>1, <4>1, <4>2
    <3>2. lines[k] \in Lines
      BY <1>1, <3>1
    <3> QED
      BY <3>1, <3>2 DEF Lines
  <2>2. CASE ~(k <= Len(lines))
    BY <1>2, <2>2 DEF Field!Plain
  <2> QED
    BY <2>1, <2>2
<1>4. ASSUME NEW n \in Names
      PROVE  n \in Seq(Nat) /\ Len(n) = 1 /\ n[1] \in Nat /\ n # << >> /\ n = <<n[1]>> /\ n[1] >= m
  <2>1. n \in Seq(Nat) /\ Len(n) = 1
    BY DEF WordsOnly
  <2>2. n[1] \in Nat
    BY <2>1
  <2>3. Past(n[1])
    BY <2>2 DEF WordsOnly, Past
  <2>4. n[1] >= m
    <3>1. count <= n[1]
      BY <2>3
    <3>2. Len(lines) <= n[1]
      BY <1>1, <2>2, <2>3 DEF Past, Field!Assumptions
    <3> QED
      BY <1>2, <3>1, <3>2
  <2>5. n = <<n[1]>>
    BY <2>1
  <2>6. n # << >>
    BY <2>1
  <2> QED
    BY <2>1, <2>2, <2>4, <2>5, <2>6
<1>5. ASSUME NEW k \in 1 .. m
      PROVE  /\ all[k].name = << >> => Field!LineName(all, k) = <<k - 1>>
             /\ all[k].name # << >> => Field!LineName(all, k) = lines[k].name /\ k \in DOMAIN lines
                                       /\ lines[k].name \in Names
  BY <1>3 DEF Field!LineName
<1>6. \A i \in Nat : <<i>> \in Seq(Nat) /\ Len(<<i>>) = 1 /\ <<i>>[1] = i
  OBVIOUS
<1>7. ASSUME NEW k \in 1 .. m
      PROVE  /\ Field!LineName(all, k) \in Seq(Nat) /\ Len(Field!LineName(all, k)) = 1
             /\ all[k].name = << >> => Field!LineName(all, k)[1] = k - 1
             /\ all[k].name # << >> => Field!LineName(all, k)[1] >= m
  <2>1. k - 1 \in Nat
    OBVIOUS
  <2> QED
    BY <1>4, <1>5, <1>6, <2>1
<1>8. ASSUME NEW k \in 1 .. m, NEW l \in 1 .. m,
             Field!LineName(all, k)[1] = Field!LineName(all, l)[1]
      PROVE  k = l
  <2>1. CASE all[k].name = << >> /\ all[l].name = << >>
    <3>1. k - 1 = l - 1
      BY <1>7, <1>8, <2>1
    <3> QED
      BY <3>1
  <2>2. CASE all[k].name = << >> /\ all[l].name # << >>
    <3>1. k - 1 >= m
      BY <1>7, <1>8, <2>2
    <3> QED
      BY <3>1
  <2>3. CASE all[k].name # << >> /\ all[l].name = << >>
    <3>1. l - 1 >= m
      BY <1>7, <1>8, <2>3
    <3> QED
      BY <3>1
  <2>4. CASE all[k].name # << >> /\ all[l].name # << >>
    <3>1. /\ lines[k].name \in Names /\ lines[l].name \in Names
          /\ lines[k].name[1] = lines[l].name[1]
          /\ k \in DOMAIN lines /\ l \in DOMAIN lines
      BY <1>5, <1>8, <2>4
    <3>2. lines[k].name = lines[l].name /\ lines[k].name # << >>
      BY <1>4, <3>1
    <3> QED
      BY <3>1, <3>2 DEF Told, Distinct
  <2> QED
    BY <2>1, <2>2, <2>3, <2>4
<1> QED
  BY <1>2, <1>7, <1>8 DEF all

\* The name a cell is listed with, if any.
Listed(s, c) == c[1] \in DOMAIN s.shards /\ c[2] \in DOMAIN s.shards[c[1]].hosts

\* A name put together from two names of one part has two.
LEMMA PartsOf ==
  ASSUME NEW p \in Seq(Nat), NEW q \in Seq(Nat), Len(p) = 1, Len(q) = 1
  PROVE  Len(p \o q) = 2 /\ (p \o q)[1] = p[1] /\ (p \o q)[2] = q[1]
<1>1. /\ Len(p \o q) = Len(p) + Len(q)
      /\ \A i \in 1 .. Len(p) : (p \o q)[i] = p[i]
      /\ \A i \in 1 .. Len(q) : (p \o q)[Len(p) + i] = q[i]
  BY Concatenated
<1> QED
  BY <1>1

\* The counts of a layout are numbers, and keep below what is past them.
LEMMA CountsBounded ==
  ASSUME Field!Assumptions, NEW s \in Layouts
  PROVE  /\ Field!ShardsCount(s) \in Nat /\ Field!ReplicasCount(s) \in Nat
         /\ \A n : Past(n) => Field!ShardsCount(s) <= n /\ Field!ReplicasCount(s) <= n
<1>1. /\ s.shardsCount \in 0 .. MaxCount /\ s.replicasCount \in 0 .. MaxCount
      /\ s.shards \in Seq(Lines) /\ s.replicas \in Seq(Lines)
      /\ Len(s.shards) <= MaxLine /\ Len(s.replicas) <= MaxLine
  BY DEF Layouts, Told
<1>2. ASSUME NEW n, Past(n)
      PROVE  Field!ShardsCount(s) \in 0 .. n /\ Field!ReplicasCount(s) \in 0 .. n
  BY <1>1, <1>2, CountBounded DEF Field!ShardsCount, Field!ReplicasCount
<1>3. Past(MaxCount + MaxLine + 1)
  BY DEF Field!Assumptions, Past
<1>4. \A n : Past(n) => n \in Nat
  BY DEF Past
<1> QED
  BY <1>2, <1>3, <1>4

\* A host of the field has a name it is listed with, of one part, or is named by
\* its shard and its replica.
LEMMA NamedEither ==
  ASSUME WordsOnly, Field!Assumptions, NEW s \in Layouts, ~Field!OutOfRange(s),
         NEW c \in Field!ShardCells(s)
  PROVE  /\ c = <<c[1], c[2]>>
         /\ c[1] \in DOMAIN Field!Shards(s) /\ c[2] \in DOMAIN Field!Replicas(s)
         /\ \/ /\ Field!HostName(s, c) = Field!LineName(Field!Shards(s), c[1])
                                         \o Field!LineName(Field!Replicas(s), c[2])
               /\ Len(Field!HostName(s, c)) = 2
            \/ /\ Listed(s, c)
               /\ Field!HostName(s, c) = s.shards[c[1]].hosts[c[2]]
               /\ Len(Field!HostName(s, c)) = 1 /\ Field!HostName(s, c) # << >>
<1> DEFINE A == Field!ShardsCount(s)
           B == Field!ReplicasCount(s)
           p == Field!LineName(Field!Shards(s), c[1])
           q == Field!LineName(Field!Replicas(s), c[2])
<1>1. A \in Nat /\ B \in Nat /\ \A n : Past(n) => A <= n /\ B <= n
  BY CountsBounded
<1>2. /\ s.shards \in Seq(Lines) /\ s.replicas \in Seq(Lines)
      /\ Told(s.shards) /\ Told(s.replicas)
      /\ \A k \in DOMAIN s.replicas : s.replicas[k].hosts = << >>
  BY DEF Layouts
<1>3. PICK k \in DOMAIN Field!Shards(s) : \E j \in Nat \ {0} : c = <<k, j>>
  <2> DEFINE widths == [k \in DOMAIN Field!Shards(s) |-> Field!LineCount(Field!Shards(s)[k], Field!ReplicasCount(s))]
  <2>1. Field!ShardCells(s) = Field!Cells(widths) /\ DOMAIN widths = DOMAIN Field!Shards(s)
    BY DEF Field!ShardCells
  <2> HIDE DEF widths
  <2>2. PICK k \in DOMAIN widths : \E j \in 1 .. widths[k] : c = <<k, j>>
    BY <2>1, CellsOf
  <2>3. PICK j \in 1 .. widths[k] : c = <<k, j>>
    BY <2>2
  <2>4. j \in Nat \ {0}
    OBVIOUS
  <2> QED
    BY <2>1, <2>3, <2>4
<1>4. c[1] = k /\ c[2] \in Nat \ {0} /\ c = <<c[1], c[2]>>
  BY <1>3
<1>5. k <= A /\ c[2] <= B
  <2>1. Field!InField(s, c)
    BY DEF Field!OutOfRange, Field!HostsField
  <2> QED
    BY <1>4, <2>1 DEF Field!InField
<1>6. c[2] \in DOMAIN Field!Replicas(s)
  <2>1. PICK m \in Nat : m >= B /\ DOMAIN Field!Replicas(s) = 1 .. m
    BY <1>1, <1>2, LinesEnsured DEF Field!Replicas
  <2> QED
    BY <1>1, <1>4, <1>5, <2>1
<1>7. k \in Nat \ {0}
  <2>1. PICK m \in Nat : DOMAIN Field!Shards(s) = 1 .. m
    BY <1>1, <1>2, LinesEnsured DEF Field!Shards
  <2> QED
    BY <2>1
<1>8. p \in Seq(Nat) /\ q \in Seq(Nat) /\ Len(p) = 1 /\ Len(q) = 1
  <2>1. p \in Seq(Nat) /\ Len(p) = 1
    BY <1>1, <1>2, <1>3, <1>4, LinesNamed DEF Field!Shards
  <2>2. q \in Seq(Nat) /\ Len(q) = 1
    BY <1>1, <1>2, <1>6, LinesNamed DEF Field!Replicas
  <2> QED
    BY <2>1, <2>2
<1>9. Field!CreateHostName(s, c) = p \o q /\ Len(p \o q) = 2
  BY <1>8, PartsOf DEF Field!CreateHostName
<1> HIDE DEF p, q, A, B
<1>10. Field!ListedName(s, c) = IF Listed(s, c) THEN s.shards[c[1]].hosts[c[2]] ELSE << >>
  <2>1. c[2] \in DOMAIN s.replicas => c[1] \notin DOMAIN s.replicas[c[2]].hosts
    BY <1>2
  <2> QED
    BY <2>1 DEF Field!ListedName, Listed
<1>11. CASE Field!ListedName(s, c) = << >>
  <2>1. Field!HostName(s, c) = p \o q
    BY <1>9, <1>11 DEF Field!HostName
  <2> QED
    BY <1>3, <1>4, <1>6, <1>9, <2>1 DEF p, q
<1>12. CASE Field!ListedName(s, c) # << >>
  <2> DEFINE n == s.shards[c[1]].hosts[c[2]]
  <2>1. Listed(s, c) /\ Field!ListedName(s, c) = n
    BY <1>10, <1>12
  <2>2. n \in Names
    <3>1. s.shards[c[1]] \in Lines
      BY <1>2, <2>1 DEF Listed
    <3>2. s.shards[c[1]].hosts \in Seq(Names \cup {<< >>})
      BY <3>1 DEF Lines
    <3>3. n \in Names \cup {<< >>}
      BY <2>1, <3>2 DEF Listed
    <3> QED
      BY <1>12, <2>1, <3>3
  <2> HIDE DEF n
  <2>3. n \in Seq(Nat) /\ Len(n) = 1 /\ n[1] \in Nat /\ n[1] > MaxCount /\ n[1] > MaxLine
    BY <2>2 DEF WordsOnly
  <2>4. A <= n[1] /\ B <= n[1]
    <3>1. Past(n[1])
      BY <2>3 DEF Past
    <3> QED
      BY <1>1, <3>1
  <2>5. n # Field!CreateHostName(s, c)
    BY <1>9, <2>3
  <2>6. Len(<<c[1] - 1, c[2] - 1>>) = 2
    OBVIOUS
  <2>7. <<c[1] - 1>>[1] = c[1] - 1 /\ <<c[2] - 1>>[1] = c[2] - 1
    OBVIOUS
  <2>8. c[1] - 1 < n[1] /\ c[2] - 1 < n[1]
    BY <1>1, <1>4, <1>5, <1>7, <2>3, <2>4
  <2>9. n # <<c[1] - 1, c[2] - 1>> /\ n # <<c[1] - 1>> /\ n # <<c[2] - 1>>
    BY <1>4, <1>7, <2>3, <2>6, <2>7, <2>8
  <2>10. Field!HostName(s, c) = n
    BY <1>12, <2>1, <2>5, <2>9 DEF Field!HostName, Field!IsAutoGeneratedHostName
  <2>11. n # << >>
    BY <1>12, <2>1
  <2> QED
    BY <1>3, <1>4, <1>6, <2>1, <2>3, <2>10, <2>11 DEF n
<1> QED
  BY <1>11, <1>12

\* No two hosts of a layout have one name.
LEMMA NamesDiffer ==
  ASSUME WordsOnly, Field!Assumptions, NEW s \in Layouts, ~Field!OutOfRange(s),
         NEW c \in Field!ShardCells(s), NEW d \in Field!ShardCells(s),
         Field!HostName(s, c) = Field!HostName(s, d)
  PROVE  c = d
<1> DEFINE p(x) == Field!LineName(Field!Shards(s), x[1])
           q(x) == Field!LineName(Field!Replicas(s), x[2])
<1>1. \A x \in {c, d} :
        /\ x = <<x[1], x[2]>>
        /\ x[1] \in DOMAIN Field!Shards(s) /\ x[2] \in DOMAIN Field!Replicas(s)
        /\ \/ Field!HostName(s, x) = p(x) \o q(x) /\ Len(Field!HostName(s, x)) = 2
           \/ /\ Listed(s, x) /\ Field!HostName(s, x) = s.shards[x[1]].hosts[x[2]]
              /\ Len(Field!HostName(s, x)) = 1 /\ Field!HostName(s, x) # << >>
  BY NamedEither
<1>2. CASE Len(Field!HostName(s, c)) = 2
  <2>1. Field!HostName(s, c) = p(c) \o q(c) /\ Field!HostName(s, d) = p(d) \o q(d)
    <3> HIDE DEF p, q
    <3>1. \A x \in {c, d} : Len(Field!HostName(s, x)) = 2
      BY <1>2
    <3>2. ASSUME NEW x \in {c, d} PROVE Field!HostName(s, x) = p(x) \o q(x)
      <4>1. Len(Field!HostName(s, x)) # 1
        BY <3>1
      <4> QED
        BY <1>1, <4>1, Zenon
    <3> QED
      BY <3>2
  <2>2. /\ Field!ShardsCount(s) \in Nat /\ Field!ReplicasCount(s) \in Nat
        /\ \A n : Past(n) => Field!ShardsCount(s) <= n
        /\ \A n : Past(n) => Field!ReplicasCount(s) <= n
        /\ Told(s.shards) /\ Told(s.replicas)
    BY CountsBounded DEF Layouts
  <2>3. /\ p(c) \in Seq(Nat) /\ Len(p(c)) = 1 /\ p(d) \in Seq(Nat) /\ Len(p(d)) = 1
        /\ p(c)[1] = p(d)[1] => c[1] = d[1]
    BY <1>1, <2>2, LinesNamed DEF Field!Shards
  <2>4. /\ q(c) \in Seq(Nat) /\ Len(q(c)) = 1 /\ q(d) \in Seq(Nat) /\ Len(q(d)) = 1
        /\ q(c)[1] = q(d)[1] => c[2] = d[2]
    BY <1>1, <2>2, LinesNamed DEF Field!Replicas
  <2> HIDE DEF p, q
  <2>5. p(c)[1] = p(d)[1] /\ q(c)[1] = q(d)[1]
    <3>1. (p(c) \o q(c))[1] = p(c)[1] /\ (p(c) \o q(c))[2] = q(c)[1]
      BY <2>3, <2>4, PartsOf
    <3>2. (p(d) \o q(d))[1] = p(d)[1] /\ (p(d) \o q(d))[2] = q(d)[1]
      BY <2>3, <2>4, PartsOf
    <3>3. p(c) \o q(c) = p(d) \o q(d)
      BY <2>1
    <3> QED
      BY <3>1, <3>2, <3>3
  <2> QED
    BY <1>1, <2>3, <2>4, <2>5
<1>3. CASE Len(Field!HostName(s, c)) # 2
  <2>1. /\ Listed(s, c) /\ Listed(s, d)
        /\ s.shards[c[1]].hosts[c[2]] = s.shards[d[1]].hosts[d[2]]
        /\ s.shards[c[1]].hosts[c[2]] # << >>
    BY <1>1, <1>3
  <2>2. c[1] = d[1] /\ c[2] = d[2]
    <3>1. ListedOnce(s.shards)
      BY DEF Layouts, Told
    <3> QED
      BY <2>1, <3>1 DEF ListedOnce, Listed
  <2> QED
    BY <1>1, <2>2
<1> QED
  BY <1>2, <1>3

\* What is left of a list, or has other counts, is told as well.
LEMMA ToldStill ==
  ASSUME NEW lines, Told(lines), NEW new \in Seq(Lines), Len(new) <= MaxLine, NEW from,
         \A k \in DOMAIN new : /\ from[k] \in DOMAIN lines
                               /\ new[k].name = lines[from[k]].name
                               /\ new[k].hosts = lines[from[k]].hosts,
         \A k, l \in DOMAIN new : from[k] = from[l] => k = l
  PROVE  Told(new)
<1>1. Distinct(new)
  BY DEF Told, Distinct
<1>2. ListedOnce(new)
  BY DEF Told, ListedOnce
<1> QED
  BY <1>1, <1>2 DEF Told

\* A line is left out.
LEMMA ToldWithout ==
  ASSUME NEW lines, Told(lines), NEW k \in DOMAIN lines
  PROVE  /\ Told(Field!RemoveAt(lines, k))
         /\ \A i \in DOMAIN Field!RemoveAt(lines, k) : \E j \in DOMAIN lines :
              Field!RemoveAt(lines, k)[i] = lines[j]
<1> DEFINE n == Len(lines)
           f == SubSeq(lines, 1, k - 1)
           g == SubSeq(lines, k + 1, n)
           new == f \o g
           from == [i \in 1 .. n - 1 |-> IF i < k THEN i ELSE i + 1]
<1>1. lines \in Seq(Lines) /\ n \in Nat /\ DOMAIN lines = 1 .. n /\ n <= MaxLine
  BY DEF Told
<1>2. k \in 1 .. n
  BY <1>1
<1>3. /\ f \in Seq(Lines) /\ Len(f) = k - 1 /\ \A i \in 1 .. k - 1 : f[i] = lines[i]
      /\ g \in Seq(Lines) /\ Len(g) = n - k /\ \A i \in 1 .. n - k : g[i] = lines[k + i]
  <2>1. \A i \in 1 .. n : lines[i] \in Lines
    BY <1>1
  <2> HIDE DEF n
  <2>2. f \in Seq(Lines) /\ Len(f) = k - 1 /\ \A i \in 1 .. k - 1 : f[i] = lines[i]
    BY <1>1, <1>2, <2>1
  <2>3. g \in Seq(Lines) /\ Len(g) = n - k /\ \A i \in 1 .. n - k : g[i] = lines[k + i]
    BY <1>1, <1>2, <2>1
  <2> QED
    BY <2>2, <2>3
<1> HIDE DEF f, g, n
<1>4. /\ new \in Seq(Lines) /\ Len(new) = n - 1 /\ DOMAIN new = 1 .. n - 1
      /\ \A i \in 1 .. k - 1 : new[i] = lines[i]
      /\ \A i \in 1 .. n - k : new[k - 1 + i] = lines[k + i]
  <2>1. /\ f \o g \in Seq(Lines) /\ Len(f \o g) = Len(f) + Len(g)
        /\ DOMAIN (f \o g) = 1 .. Len(f) + Len(g)
        /\ \A i \in 1 .. Len(f) : (f \o g)[i] = f[i]
        /\ \A i \in 1 .. Len(g) : (f \o g)[Len(f) + i] = g[i]
    <3>1. f \in Seq(Lines) /\ g \in Seq(Lines)
      BY <1>3
    <3> QED
      BY <3>1, Concatenated
  <2>2. (k - 1) + (n - k) = n - 1
    BY <1>1, <1>2
  <2> QED
    BY <1>3, <2>1, <2>2
<1> HIDE DEF new
<1>5. \A i \in 1 .. n - 1 : new[i] = lines[from[i]] /\ from[i] \in DOMAIN lines
  <2> TAKE i \in 1 .. n - 1
  <2>1. CASE i < k
    BY <1>1, <1>2, <1>4, <2>1
  <2>2. CASE ~(i < k)
    <3>1. i - k + 1 \in 1 .. n - k /\ k - 1 + (i - k + 1) = i /\ k + (i - k + 1) = i + 1
      BY <1>1, <1>2, <2>2
    <3>2. new[i] = lines[i + 1]
      BY <1>4, <3>1
    <3> QED
      BY <1>1, <1>2, <2>2, <3>2
  <2> QED
    BY <2>1, <2>2
<1>6. \A i, j \in 1 .. n - 1 : from[i] = from[j] => i = j
  BY <1>1, <1>2
<1> HIDE DEF from
<1>7. Len(new) <= MaxLine
  BY <1>1, <1>4, InstancesAssumption DEF Field!Assumptions
<1>8. Told(new)
  <2>1. /\ \A i \in DOMAIN new : /\ from[i] \in DOMAIN lines
                                 /\ new[i].name = lines[from[i]].name
                                 /\ new[i].hosts = lines[from[i]].hosts
        /\ \A i, j \in DOMAIN new : from[i] = from[j] => i = j
    BY <1>4, <1>5, <1>6
  <2>2. new \in Seq(Lines)
    BY <1>4
  <2> QED
    BY <1>7, <2>1, <2>2, ToldStill
<1>9. Field!RemoveAt(lines, k) = new
  BY DEF Field!RemoveAt, new, f, g, n
<1> QED
  BY <1>4, <1>5, <1>8, <1>9

\* The last line is left out.
LEMMA FrontRemoves ==
  ASSUME NEW M, NEW f \in Seq(M), f # << >>
  PROVE  /\ Len(f) \in DOMAIN f
         /\ Field!Front(f) \in Seq(M) /\ Len(Field!Front(f)) = Len(f) - 1
         /\ \A i \in 1 .. Len(f) - 1 : Field!Front(f)[i] = f[i]
<1>1. Len(f) \in Nat /\ Len(f) # 0 /\ DOMAIN f = 1 .. Len(f) /\ \A i \in 1 .. Len(f) : f[i] \in M
  OBVIOUS
<1> DEFINE n == Len(f)
<1> HIDE DEF n
<1>2. n \in Nat /\ n # 0 /\ DOMAIN f = 1 .. n /\ \A i \in 1 .. n : f[i] \in M
  BY <1>1 DEF n
<1>3. /\ SubSeq(f, 1, n - 1) \in Seq(M) /\ Len(SubSeq(f, 1, n - 1)) = n - 1
      /\ \A i \in 1 .. n - 1 : SubSeq(f, 1, n - 1)[i] = f[i]
  BY <1>2
<1> QED
  BY <1>2, <1>3 DEF Field!Front, n

\* A line with a name of its own, or none, and no hosts is added.
LEMMA ToldMore ==
  ASSUME NEW lines, Told(lines), Len(lines) < MaxLine, NEW n \in 0 .. MaxLine,
         NEW name \in Names \cup {<< >>},
         name = << >> \/ \A k \in DOMAIN lines : lines[k].name # name
  PROVE  /\ Told(Append(lines, Field!Plain(name, n)))
         /\ \A i \in DOMAIN Append(lines, Field!Plain(name, n)) :
              \/ (i \in DOMAIN lines /\ Append(lines, Field!Plain(name, n))[i] = lines[i])
              \/ Append(lines, Field!Plain(name, n))[i].hosts = << >>
<1> DEFINE line == Field!Plain(name, n)
           new == Append(lines, line)
           m == Len(lines)
<1>1. line.name = name /\ line.count = n /\ line.hosts = << >>
  BY DEF Field!Plain
<1>2. line \in Lines
  <2>1. MaxLine \in Nat
    BY InstancesAssumption DEF Field!Assumptions
  <2>2. << >> \in Seq(Names \cup {<< >>}) /\ Len(<< >>) = 0
    OBVIOUS
  <2> QED
    BY <2>1, <2>2 DEF Lines, Field!Plain
<1>3. lines \in Seq(Lines) /\ m \in Nat /\ DOMAIN lines = 1 .. m
  BY DEF Told
<1> HIDE DEF line
<1>4. /\ new \in Seq(Lines) /\ Len(new) = m + 1 /\ DOMAIN new = 1 .. m + 1
      /\ \A i \in 1 .. m : new[i] = lines[i]
      /\ new[m + 1] = line
  BY <1>2, <1>3
<1> HIDE DEF new
<1>5. \A i \in 1 .. m + 1 : i \in 1 .. m \/ i = m + 1
  BY <1>3
<1>6. ASSUME NEW i \in DOMAIN new
      PROVE  (i \in DOMAIN lines /\ new[i] = lines[i]) \/ (i = m + 1 /\ new[i] = line)
  BY <1>3, <1>4, <1>5
<1> HIDE DEF m
<1>7. Distinct(new)
  <2> SUFFICES ASSUME NEW k \in DOMAIN new, NEW l \in DOMAIN new, new[k].name = new[l].name,
                      new[k].name # << >>
               PROVE  k = l
    BY DEF Distinct
  <2>1. CASE k \in DOMAIN lines /\ l \in DOMAIN lines /\ new[k] = lines[k] /\ new[l] = lines[l]
    BY <2>1 DEF Told, Distinct
  <2>2. CASE ~(k \in DOMAIN lines /\ l \in DOMAIN lines /\ new[k] = lines[k] /\ new[l] = lines[l])
    BY <1>1, <1>6, <2>2
  <2> QED
    BY <2>1, <2>2
<1>8. ListedOnce(new)
  <2>1. \A k \in DOMAIN new : \A i \in DOMAIN new[k].hosts :
          k \in DOMAIN lines /\ new[k] = lines[k]
    <3>1. DOMAIN line.hosts = {}
      BY <1>1
    <3> QED
      BY <1>6, <3>1
  <2>2. ListedOnce(lines)
    BY DEF Told
  <2> QED
    BY <2>1, <2>2 DEF ListedOnce
<1>9. Len(new) <= MaxLine
  BY <1>3, <1>4, InstancesAssumption DEF Field!Assumptions, m
<1>10. Told(new) /\ \A i \in DOMAIN new :
          (i \in DOMAIN lines /\ new[i] = lines[i]) \/ new[i].hosts = << >>
  BY <1>1, <1>4, <1>6, <1>7, <1>8, <1>9 DEF Told
<1> QED
  BY <1>10 DEF new, line

\* A list without its last line is told as well.
LEMMA ToldFront ==
  ASSUME NEW lines, Told(lines), lines # << >>
  PROVE  /\ Told(Field!Front(lines))
         /\ \A i \in DOMAIN Field!Front(lines) : \E j \in DOMAIN lines : Field!Front(lines)[i] = lines[j]
<1> DEFINE new == Field!Front(lines)
           from == [i \in DOMAIN lines |-> i]
<1>1. lines \in Seq(Lines) /\ Len(lines) \in Nat /\ DOMAIN lines = 1 .. Len(lines) /\ Len(lines) <= MaxLine
  BY DEF Told
<1>2. /\ Len(lines) \in DOMAIN lines
      /\ new \in Seq(Lines) /\ Len(new) = Len(lines) - 1
      /\ \A i \in 1 .. Len(lines) - 1 : new[i] = lines[i]
  BY <1>1, FrontRemoves
<1> HIDE DEF new
<1>3. DOMAIN new = 1 .. Len(lines) - 1
  BY <1>2
<1>4. \A i \in DOMAIN new : i \in DOMAIN lines /\ new[i] = lines[i]
  BY <1>1, <1>2, <1>3
<1>5. Len(new) <= MaxLine
  BY <1>1, <1>2, InstancesAssumption DEF Field!Assumptions
<1>6. Told(new)
  <2>1. /\ \A i \in DOMAIN new : /\ from[i] \in DOMAIN lines
                                 /\ new[i].name = lines[from[i]].name
                                 /\ new[i].hosts = lines[from[i]].hosts
        /\ \A i, j \in DOMAIN new : from[i] = from[j] => i = j
    BY <1>4
  <2> HIDE DEF from
  <2>2. new \in Seq(Lines)
    BY <1>2
  <2> QED
    BY <1>5, <2>1, <2>2, ToldStill
<1> QED
  BY <1>4, <1>6 DEF new

\* A line in the place of another.
LEMMA LineReplaced ==
  ASSUME NEW M, NEW f \in Seq(M), NEW k \in DOMAIN f, NEW x \in M
  PROVE  /\ [f EXCEPT ![k] = x] \in Seq(M) /\ Len([f EXCEPT ![k] = x]) = Len(f)
         /\ DOMAIN [f EXCEPT ![k] = x] = DOMAIN f
         /\ [f EXCEPT ![k] = x][k] = x
         /\ \A i \in DOMAIN f : i # k => [f EXCEPT ![k] = x][i] = f[i]
OBVIOUS

\* A line of a list has another count.
LEMMA ToldRecounted ==
  ASSUME NEW lines, Told(lines), NEW k \in DOMAIN lines, NEW n \in 0 .. MaxLine
  PROVE  Told([lines EXCEPT ![k].count = n])
<1> DEFINE x == [lines[k] EXCEPT !.count = n]
           new == [lines EXCEPT ![k] = x]
           from == [i \in DOMAIN lines |-> i]
<1>1. lines \in Seq(Lines) /\ Len(lines) <= MaxLine /\ lines[k] \in Lines
  BY DEF Told
<1>2. x \in Lines /\ x.name = lines[k].name /\ x.hosts = lines[k].hosts
  BY <1>1 DEF Lines
<1>3. [lines EXCEPT ![k].count = n] = new
  OBVIOUS
<1> HIDE DEF x
<1>4. /\ new \in Seq(Lines) /\ Len(new) = Len(lines) /\ DOMAIN new = DOMAIN lines
      /\ new[k] = x /\ \A i \in DOMAIN lines : i # k => new[i] = lines[i]
  BY <1>1, <1>2, LineReplaced
<1> HIDE DEF new
<1>5. /\ \A i \in DOMAIN new : /\ from[i] \in DOMAIN lines
                               /\ new[i].name = lines[from[i]].name
                               /\ new[i].hosts = lines[from[i]].hosts
      /\ \A i, j \in DOMAIN new : from[i] = from[j] => i = j
  BY <1>2, <1>4
<1> HIDE DEF from
<1>6. Told(new)
  <2>1. new \in Seq(Lines) /\ Len(new) <= MaxLine
    BY <1>1, <1>4
  <2> QED
    BY <1>5, <2>1, ToldStill
<1> QED
  BY <1>3, <1>6

\* A line of a list has other hosts, with names no other line lists.
LEMMA ToldRelisted ==
  ASSUME NEW lines, Told(lines), NEW k \in DOMAIN lines,
         NEW hosts \in Seq(Names \cup {<< >>}), Len(hosts) <= MaxLine,
         \A i, j \in DOMAIN hosts : hosts[i] = hosts[j] => hosts[i] = << >> \/ i = j,
         \A l \in DOMAIN lines : l # k =>
           \A i \in DOMAIN hosts, j \in DOMAIN lines[l].hosts :
             hosts[i] = lines[l].hosts[j] => hosts[i] = << >>
  PROVE  Told([lines EXCEPT ![k].hosts = hosts])
<1> DEFINE x == [lines[k] EXCEPT !.hosts = hosts]
           new == [lines EXCEPT ![k] = x]
<1>1. lines \in Seq(Lines) /\ Len(lines) <= MaxLine /\ lines[k] \in Lines
      /\ Distinct(lines) /\ ListedOnce(lines)
  BY DEF Told
<1>2. x \in Lines /\ x.name = lines[k].name /\ x.hosts = hosts
  BY <1>1 DEF Lines
<1>3. [lines EXCEPT ![k].hosts = hosts] = new
  OBVIOUS
<1> HIDE DEF x
<1>4. /\ new \in Seq(Lines) /\ Len(new) = Len(lines) /\ DOMAIN new = DOMAIN lines
      /\ new[k] = x /\ \A i \in DOMAIN lines : i # k => new[i] = lines[i]
  BY <1>1, <1>2, LineReplaced
<1> HIDE DEF new
<1>5. Distinct(new)
  <2>1. \A i \in DOMAIN lines : new[i].name = lines[i].name
    BY <1>2, <1>4
  <2> QED
    BY <1>1, <1>4, <2>1 DEF Distinct
<1>6. ListedOnce(new)
  <2>1. \A i \in DOMAIN lines : i # k => new[i].hosts = lines[i].hosts
    BY <1>4
  <2>2. new[k].hosts = hosts
    BY <1>2, <1>4
  <2> SUFFICES ASSUME NEW p \in DOMAIN new, NEW q \in DOMAIN new,
                      NEW i \in DOMAIN new[p].hosts, NEW j \in DOMAIN new[q].hosts,
                      new[p].hosts[i] = new[q].hosts[j], new[p].hosts[i] # << >>
               PROVE  p = q /\ i = j
    BY DEF ListedOnce
  <2>3. CASE p # k /\ q # k
    BY <1>1, <1>4, <2>1, <2>3 DEF ListedOnce
  <2>4. CASE p = k /\ q = k
    BY <2>2, <2>4
  <2>5. CASE p = k /\ q # k
    BY <1>4, <2>1, <2>2, <2>5
  <2>6. CASE p # k /\ q = k
    BY <1>4, <2>1, <2>2, <2>6
  <2> QED
    BY <2>3, <2>4, <2>5, <2>6
<1> QED
  BY <1>1, <1>3, <1>4, <1>5, <1>6 DEF Told

\* Lists of a layout are told, and replicas list no hosts: so is the layout with
\* other counts or other lists.
LEMMA LayoutTold ==
  ASSUME NEW s \in Layouts
  PROVE  /\ Told(s.shards) /\ Told(s.replicas)
         /\ \A n \in 0 .. MaxCount : /\ [s EXCEPT !.shardsCount = n] \in Layouts
                                     /\ [s EXCEPT !.replicasCount = n] \in Layouts
         /\ \A new : Told(new) => [s EXCEPT !.shards = new] \in Layouts
         /\ \A new : Told(new) /\ (\A k \in DOMAIN new : new[k].hosts = << >>)
              => [s EXCEPT !.replicas = new] \in Layouts
<1>1. /\ s \in [shardsCount : 0 .. MaxCount, replicasCount : 0 .. MaxCount,
               shards : Seq(Lines), replicas : Seq(Lines)]
      /\ Told(s.shards) /\ Told(s.replicas) /\ \A k \in DOMAIN s.replicas : s.replicas[k].hosts = << >>
  BY DEF Layouts
<1>2. \A new : Told(new) => new \in Seq(Lines)
  BY DEF Told
<1> QED
  BY <1>1, <1>2 DEF Layouts

\* A host is listed in the last place of a shard.
LEMMA ToldListed ==
  ASSUME NEW lines, Told(lines), NEW k \in DOMAIN lines, NEW name \in Names \cup {<< >>},
         Len(lines[k].hosts) < MaxLine,
         name # << >> => \A j \in DOMAIN lines : \A i \in DOMAIN lines[j].hosts : lines[j].hosts[i] # name
  PROVE  Told([lines EXCEPT ![k].hosts = Append(@, name)])
<1> DEFINE old == lines[k].hosts
           hosts == Append(old, name)
           m == Len(old)
<1>1. /\ lines[k] \in Lines /\ lines \in Seq(Lines)
      /\ \A p, q \in DOMAIN lines : \A i \in DOMAIN lines[p].hosts, j \in DOMAIN lines[q].hosts :
           lines[p].hosts[i] = lines[q].hosts[j] => lines[p].hosts[i] = << >> \/ (p = q /\ i = j)
  BY DEF Told, ListedOnce
<1>2. old \in Seq(Names \cup {<< >>}) /\ m \in Nat /\ DOMAIN old = 1 .. m
  BY <1>1 DEF Lines
<1>3. [lines EXCEPT ![k].hosts = Append(@, name)] = [lines EXCEPT ![k].hosts = hosts]
  OBVIOUS
<1>4. /\ hosts \in Seq(Names \cup {<< >>}) /\ Len(hosts) = m + 1 /\ DOMAIN hosts = 1 .. m + 1
      /\ \A i \in 1 .. m : hosts[i] = old[i]
      /\ hosts[m + 1] = name
  <2> HIDE DEF old
  <2> QED
    BY <1>2
<1> HIDE DEF hosts
<1>5. \A i \in DOMAIN hosts : (i \in DOMAIN old /\ hosts[i] = old[i]) \/ (i = m + 1 /\ hosts[i] = name)
  <2>1. \A i \in 1 .. m + 1 : i \in 1 .. m \/ i = m + 1
    BY <1>2
  <2> QED
    BY <1>2, <1>4, <2>1
<1>6. Len(hosts) <= MaxLine
  BY <1>2, <1>4, InstancesAssumption DEF Field!Assumptions
<1>7. ASSUME NEW i \in DOMAIN hosts, NEW j \in DOMAIN hosts, hosts[i] = hosts[j]
      PROVE  hosts[i] = << >> \/ i = j
  BY <1>1, <1>5, <1>7
<1>8. ASSUME NEW l \in DOMAIN lines, l # k,
             NEW i \in DOMAIN hosts, NEW j \in DOMAIN lines[l].hosts, hosts[i] = lines[l].hosts[j]
      PROVE  hosts[i] = << >>
  BY <1>1, <1>5, <1>8
<1> QED
  BY <1>3, <1>4, <1>6, <1>7, <1>8, ToldRelisted

\* The last host of a shard is taken from its list.
LEMMA ToldUnlisted ==
  ASSUME NEW lines, Told(lines), NEW k \in DOMAIN lines, lines[k].hosts # << >>
  PROVE  Told([lines EXCEPT ![k].hosts = Field!Front(@)])
<1> DEFINE old == lines[k].hosts
           hosts == Field!Front(old)
<1>1. /\ lines[k] \in Lines /\ lines \in Seq(Lines)
      /\ \A p, q \in DOMAIN lines : \A i \in DOMAIN lines[p].hosts, j \in DOMAIN lines[q].hosts :
           lines[p].hosts[i] = lines[q].hosts[j] => lines[p].hosts[i] = << >> \/ (p = q /\ i = j)
  BY DEF Told, ListedOnce
<1>2. old \in Seq(Names \cup {<< >>}) /\ Len(old) <= MaxLine
      /\ Len(old) \in Nat /\ DOMAIN old = 1 .. Len(old)
  BY <1>1 DEF Lines
<1>3. [lines EXCEPT ![k].hosts = Field!Front(@)] = [lines EXCEPT ![k].hosts = hosts]
  BY Zenon
<1>4. /\ hosts \in Seq(Names \cup {<< >>}) /\ Len(hosts) = Len(old) - 1
      /\ \A i \in 1 .. Len(old) - 1 : hosts[i] = old[i]
  <2> HIDE DEF old
  <2>1. old # << >>
    BY DEF old
  <2> QED
    BY <1>2, <2>1, FrontRemoves
<1> HIDE DEF hosts
<1>5. \A i \in DOMAIN hosts : i \in DOMAIN old /\ hosts[i] = old[i]
  <2>1. DOMAIN hosts = 1 .. Len(old) - 1
    BY <1>4
  <2> HIDE DEF old
  <2> QED
    BY <1>2, <1>4, <2>1
<1>6. Len(hosts) <= MaxLine
  <2> HIDE DEF old
  <2> QED
    BY <1>2, <1>4, InstancesAssumption DEF Field!Assumptions
<1>7. ASSUME NEW i \in DOMAIN hosts, NEW j \in DOMAIN hosts, hosts[i] = hosts[j]
      PROVE  hosts[i] = << >> \/ i = j
  BY <1>1, <1>5, <1>7
<1>8. ASSUME NEW l \in DOMAIN lines, l # k,
             NEW i \in DOMAIN hosts, NEW j \in DOMAIN lines[l].hosts, hosts[i] = lines[l].hosts[j]
      PROVE  hosts[i] = << >>
  BY <1>1, <1>5, <1>8
<1> QED
  BY <1>3, <1>4, <1>6, <1>7, <1>8, ToldRelisted

\* Whatever a user edits, the layout is one users write.
LEMMA EditTold ==
  ASSUME spec \in Layouts,
         \/ Field!EditCounts \/ Field!AddShard \/ Field!RemoveShard \/ Field!WidenShard
         \/ Field!AddReplica \/ Field!RemoveReplica \/ Field!ListHost \/ Field!UnlistHost
  PROVE  spec' \in Layouts /\ UNCHANGED layout
<1>1. /\ Told(spec.shards) /\ Told(spec.replicas)
      /\ \A n \in 0 .. MaxCount : /\ [spec EXCEPT !.shardsCount = n] \in Layouts
                                  /\ [spec EXCEPT !.replicasCount = n] \in Layouts
      /\ \A new : Told(new) => [spec EXCEPT !.shards = new] \in Layouts
      /\ \A new : Told(new) /\ (\A k \in DOMAIN new : new[k].hosts = << >>)
           => [spec EXCEPT !.replicas = new] \in Layouts
  BY LayoutTold
<1>2. \A k \in DOMAIN spec.replicas : spec.replicas[k].hosts = << >>
  BY DEF Layouts
<1>3. \A f, new : Field!Edit(f, new) => spec' = new /\ UNCHANGED layout
  BY DEF Field!Edit
<1>4. Field!GivenNames \subseteq Names
  BY DEF Field!GivenNames
<1>5. CASE Field!EditCounts
  BY <1>1, <1>3, <1>5 DEF Field!EditCounts
<1>6. CASE Field!AddShard
  <2>1. PICK name \in Field!FreshNames(spec.shards) \cup {<< >>}, n \in 0 .. MaxLine :
          /\ Len(spec.shards) < MaxLine
          /\ Field!Edit("shards", [spec EXCEPT !.shards = Append(@, Field!Plain(name, n))])
    BY <1>6 DEF Field!AddShard
  <2>2. /\ name \in Names \cup {<< >>}
        /\ name = << >> \/ \A k \in DOMAIN spec.shards : spec.shards[k].name # name
    BY <1>4 DEF Field!FreshNames
  <2> DEFINE new == Append(spec.shards, Field!Plain(name, n))
  <2>3. Told(new)
    BY <1>1, <2>1, <2>2, ToldMore
  <2>4. Field!Edit("shards", [spec EXCEPT !.shards = new])
    BY <2>1
  <2> HIDE DEF new
  <2> QED
    BY <1>1, <1>3, <2>3, <2>4
<1>7. CASE Field!RemoveShard
  <2>1. PICK k \in DOMAIN spec.shards, f \in {"shards", "anyShard"} :
          Field!Edit(f, [spec EXCEPT !.shards = Field!RemoveAt(@, k)])
    BY <1>7 DEF Field!RemoveShard
  <2>2. Told(Field!RemoveAt(spec.shards, k))
    BY <1>1, ToldWithout
  <2> QED
    BY <1>1, <1>3, <2>1, <2>2
<1>8. CASE Field!WidenShard
  <2>1. PICK k \in DOMAIN spec.shards, n \in 0 .. MaxLine :
          Field!Edit("width", [spec EXCEPT !.shards[k].count = n])
    BY <1>8 DEF Field!WidenShard
  <2>2. Told([spec.shards EXCEPT ![k].count = n])
    BY <1>1, ToldRecounted
  <2>3. [spec EXCEPT !.shards[k].count = n] = [spec EXCEPT !.shards = [spec.shards EXCEPT ![k].count = n]]
    OBVIOUS
  <2> QED
    BY <1>1, <1>3, <2>1, <2>2, <2>3
<1>9. CASE Field!AddReplica
  <2>1. PICK name \in Field!FreshNames(spec.replicas) \cup {<< >>}, n \in 0 .. MaxLine :
          /\ Len(spec.replicas) < MaxLine
          /\ Field!Edit("replicas", [spec EXCEPT !.replicas = Append(@, Field!Plain(name, n))])
    BY <1>9 DEF Field!AddReplica
  <2>2. /\ name \in Names \cup {<< >>}
        /\ name = << >> \/ \A k \in DOMAIN spec.replicas : spec.replicas[k].name # name
    BY <1>4 DEF Field!FreshNames
  <2> DEFINE new == Append(spec.replicas, Field!Plain(name, n))
  <2>3. /\ Told(new)
        /\ \A i \in DOMAIN new : (i \in DOMAIN spec.replicas /\ new[i] = spec.replicas[i]) \/ new[i].hosts = << >>
    BY <1>1, <2>1, <2>2, ToldMore
  <2>4. Field!Edit("replicas", [spec EXCEPT !.replicas = new])
    BY <2>1
  <2> HIDE DEF new
  <2>5. \A i \in DOMAIN new : new[i].hosts = << >>
    BY <1>2, <2>3
  <2> QED
    BY <1>1, <1>3, <2>3, <2>4, <2>5
<1>10. CASE Field!RemoveReplica
  <2> DEFINE new == Field!Front(spec.replicas)
  <2>1. spec.replicas # << >> /\ Field!Edit("replicas", [spec EXCEPT !.replicas = new])
    BY <1>10 DEF Field!RemoveReplica
  <2>2. /\ Told(new)
        /\ \A i \in DOMAIN new : \E j \in DOMAIN spec.replicas : new[i] = spec.replicas[j]
    BY <1>1, <2>1, ToldFront
  <2> HIDE DEF new
  <2>3. \A i \in DOMAIN new : new[i].hosts = << >>
    BY <1>2, <2>2
  <2> QED
    BY <1>1, <1>3, <2>1, <2>2, <2>3
<1>11. CASE Field!ListHost
  <2>1. PICK k \in DOMAIN spec.shards, name \in Field!GivenNames \cup {<< >>} :
          /\ Len(spec.shards[k].hosts) < MaxLine
          /\ name # << >> => \A j \in DOMAIN spec.shards : name \notin Field!ToSet(spec.shards[j].hosts)
          /\ Field!Edit("hosts", [spec EXCEPT !.shards[k].hosts = Append(@, name)])
    BY <1>11 DEF Field!ListHost
  <2>2. name \in Names \cup {<< >>}
    BY <1>4
  <2>3. name # << >> => \A j \in DOMAIN spec.shards : \A i \in DOMAIN spec.shards[j].hosts :
                         spec.shards[j].hosts[i] # name
    BY <2>1 DEF Field!ToSet
  <2>4. Told([spec.shards EXCEPT ![k].hosts = Append(@, name)])
    BY <1>1, <2>1, <2>2, <2>3, ToldListed
  <2>5. [spec EXCEPT !.shards[k].hosts = Append(@, name)]
        = [spec EXCEPT !.shards = [spec.shards EXCEPT ![k].hosts = Append(@, name)]]
    OBVIOUS
  <2> QED
    BY <1>1, <1>3, <2>1, <2>4, <2>5
<1>12. CASE Field!UnlistHost
  <2>1. PICK k \in DOMAIN spec.shards :
          /\ spec.shards[k].hosts # << >>
          /\ Field!Edit("hosts", [spec EXCEPT !.shards[k].hosts = Field!Front(@)])
    BY <1>12 DEF Field!UnlistHost
  <2>2. Told([spec.shards EXCEPT ![k].hosts = Field!Front(@)])
    BY <1>1, <2>1, ToldUnlisted
  <2>3. [spec EXCEPT !.shards[k].hosts = Field!Front(@)]
        = [spec EXCEPT !.shards = [spec.shards EXCEPT ![k].hosts = Field!Front(@)]]
    OBVIOUS
  <2> QED
    BY <1>1, <1>3, <2>1, <2>2, <2>3
<1> QED
  BY <1>5, <1>6, <1>7, <1>8, <1>9, <1>10, <1>11, <1>12

\* Inductive invariant: the spec is a layout users write, and the layout of the
\* last pass has the hosts apart.
Apart == part = "field" => spec \in Layouts /\ Field!HostsApart

\* A layout left empty, and nothing reconciled.
LEMMA ApartInit == InitAll => Apart
<1> SUFFICES ASSUME InitAll, part = "field" PROVE spec \in Layouts /\ Field!HostsApart
  BY DEF Apart
<1>1. Field!Init
  BY DEF InitAll
<1>2. Told(<< >>)
  BY InstancesAssumption DEF Told, Distinct, ListedOnce, Field!Assumptions
<1>3. spec = Field!NewChiClusterLayout /\ layout = None
  BY <1>1 DEF Field!Init
<1>4. spec \in Layouts
  <2>1. << >> \in Seq(Lines) /\ MaxCount \in Nat
    BY InstancesAssumption DEF Field!Assumptions
  <2>2. DOMAIN << >> = {}
    OBVIOUS
  <2> QED
    BY <1>2, <1>3, <2>1, <2>2 DEF Layouts, Field!NewChiClusterLayout
<1> QED
  BY <1>3, <1>4 DEF Field!HostsApart

\* A pass normalizes the spec; nothing else makes a layout.
LEMMA ApartNext == ASSUME WordsOnly PROVE Apart /\ [NextAll]_allVars => Apart'
<1> SUFFICES ASSUME Apart, [NextAll]_allVars, part' = "field" PROVE (spec \in Layouts /\ Field!HostsApart)'
  BY DEF Apart
<1>1. CASE LayoutStep
  <2>1. spec \in Layouts /\ Field!HostsApart /\ Field!Next
    BY <1>1 DEF LayoutStep, Apart
  <2>2. CASE UNCHANGED layout
    <3>1. spec' \in Layouts
      <4>1. CASE \/ Field!EditCounts \/ Field!AddShard \/ Field!RemoveShard \/ Field!WidenShard
                 \/ Field!AddReplica \/ Field!RemoveReplica \/ Field!ListHost \/ Field!UnlistHost
        BY <2>1, <4>1, EditTold
      <4>2. CASE Field!Reconcile \/ Field!Panic \/ Field!Restart
        BY <2>1, <4>2 DEF Field!Reconcile, Field!Panic, Field!Restart
      <4> QED
        BY <2>1, <4>1, <4>2 DEF Field!Next
    <3>2. Field!HostsApart'
      BY <2>1, <2>2 DEF Field!HostsApart, Field!WalkHosts
    <3> QED
      BY <3>1, <3>2
  <2>3. CASE Field!Restart
    BY <2>1, <2>3 DEF Field!Restart, Field!HostsApart
  <2>4. CASE Field!Reconcile
    <3>1. spec' = spec /\ layout' = Field!NormalizeCluster(spec) /\ ~Field!OutOfRange(spec)
      BY <2>4 DEF Field!Reconcile
    <3>2. ASSUME NEW c \in Field!ShardCells(spec)
          PROVE  layout'.host[c].name = Field!HostName(spec, c)
      <4>1. c \in Field!HostsField(spec)
        BY DEF Field!HostsField
      <4> QED
        BY <3>1, <4>1 DEF Field!NormalizeCluster, Field!Host
    <3>3. Field!WalkHosts(layout') = Field!ShardCells(spec)
      BY <3>1 DEF Field!WalkHosts, Field!NormalizeCluster
    <3>4. \A c, d \in Field!ShardCells(spec) :
            Field!HostName(spec, c) = Field!HostName(spec, d) => c = d
      BY <2>1, <3>1, NamesDiffer, InstancesAssumption
    <3>5. \A c, d \in Field!WalkHosts(layout') : layout'.host[c].name = layout'.host[d].name => c = d
      BY <3>2, <3>3, <3>4
    <3> QED
      BY <2>1, <3>1, <3>5 DEF Field!HostsApart
  <2>5. Field!Panic => UNCHANGED layout
    BY DEF Field!Panic
  <2> QED
    BY <2>1, <2>2, <2>3, <2>4, <2>5, EditTold DEF Field!Next
<1>2. CASE ZooKeeperStep \/ NamesStep \/ PodStep \/ NodesStep
  BY <1>2 DEF ZooKeeperStep, NamesStep, PodStep, NodesStep
<1>3. CASE UNCHANGED allVars
  <2>1. spec' = spec /\ layout' = layout /\ part' = part
    BY <1>3 DEF allVars, field
  <2> QED
    BY <2>1 DEF Apart, Field!HostsApart, Field!WalkHosts
<1> QED
  BY <1>1, <1>2, <1>3 DEF NextAll

\* No two hosts of a cluster are given one name, and so one StatefulSet.
THEOREM NamesOfTheirOwn == ASSUME WordsOnly PROVE SpecAll => []NamesApart
<1>1. Apart => NamesApart
  BY DEF Apart, NamesApart
<1> QED
  BY <1>1, ApartInit, ApartNext, PTL DEF SpecAll

-----------------------------------------------------------------------------
(* The StatefulSet of a host                                               *)

\* Containers with names of N and mounts of M.
ContainersOf(N, M) == [name : N, probed : BOOLEAN, mounts : Seq(M)]

\* Pod templates are sequences of containers.
TemplatesOf(N, M) == \A t \in Templates : t \in Seq(ContainersOf(N, M))

\* A container of a pod template mounts one volume at a path.
MountedOnce ==
  \A t \in Templates : \A i \in DOMAIN t : \A m, n \in Pods!Range(t[i].mounts) :
    m[2] = n[2] => m[1] = n[1]

\* The containers a StatefulSet starts from, and the server among them.
Own(s) == Pods!EnsureClickHouseContainer(Pods!GetPodTemplate(s))
ServerOf(p) == p[Pods!ClickHouseContainer(p)]

\* What a server mounts before the claims of its host.
Given(s) == Pods!Range(ServerOf(Own(s)).mounts) \cup Pods!Range(Pods!ConfigMaps)

\* The container of the server is one of those there are.
LEMMA ServerThere ==
  ASSUME NEW N, NEW M, NEW p \in Seq(ContainersOf(N, M)), p # << >>
  PROVE  Pods!ClickHouseContainer(p) \in DOMAIN p
<1> DEFINE named == {i \in DOMAIN p : p[i].name = Pods!ClickHouse}
<1>1. CASE named = {}
  <2>1. Len(p) \in Nat /\ Len(p) # 0 /\ DOMAIN p = 1 .. Len(p)
    OBVIOUS
  <2>2. Pods!ClickHouseContainer(p) = 1
    BY <1>1 DEF Pods!ClickHouseContainer
  <2> QED
    BY <2>1, <2>2
<1>2. CASE named # {}
  <2>1. named \in SUBSET Nat
    OBVIOUS
  <2>2. \E i \in named : \A j \in named : i <= j
    BY <1>2, <2>1, FirstOf
  <2>3. Pods!ClickHouseContainer(p) = CHOOSE i \in named : \A j \in named : i <= j
    BY <1>2 DEF Pods!ClickHouseContainer
  <2>4. Pods!ClickHouseContainer(p) \in named
    BY <2>2, <2>3
  <2> QED
    BY <2>4
<1> QED
  BY <1>1, <1>2

\* A step that changes no name and appends no server leaves the container of
\* the server where it is.
LEMMA SameServer ==
  ASSUME NEW p, NEW q, DOMAIN p \subseteq DOMAIN q, \A i \in DOMAIN p : q[i].name = p[i].name,
         \A i \in DOMAIN q : i \in DOMAIN p \/ q[i].name # Pods!ClickHouse
  PROVE  Pods!ClickHouseContainer(q) = Pods!ClickHouseContainer(p)
<1> DEFINE P == {i \in DOMAIN p : p[i].name = Pods!ClickHouse}
           Q == {i \in DOMAIN q : q[i].name = Pods!ClickHouse}
<1>1. Q = P
  OBVIOUS
<1>2. Pods!ClickHouseContainer(p) = IF P = {} THEN 1 ELSE CHOOSE i \in P : \A j \in P : i <= j
  BY DEF Pods!ClickHouseContainer
<1>3. Pods!ClickHouseContainer(q) = IF Q = {} THEN 1 ELSE CHOOSE i \in Q : \A j \in Q : i <= j
  BY DEF Pods!ClickHouseContainer
<1> HIDE DEF P, Q
<1> QED
  BY <1>1, <1>2, <1>3

\* What is appended to a sequence is one more of its values.
LEMMA RangeAppend ==
  ASSUME NEW M, NEW f \in Seq(M), NEW m \in M
  PROVE  Append(f, m) \in Seq(M) /\ Pods!Range(Append(f, m)) = Pods!Range(f) \cup {m}
<1>1. /\ DOMAIN f = 1 .. Len(f) /\ Len(f) \in Nat
      /\ DOMAIN Append(f, m) = 1 .. Len(f) + 1
      /\ Append(f, m)[Len(f) + 1] = m
      /\ \A i \in 1 .. Len(f) : Append(f, m)[i] = f[i]
      /\ Append(f, m) \in Seq(M)
  OBVIOUS
<1>2. 1 .. Len(f) + 1 = (1 .. Len(f)) \cup {Len(f) + 1}
  BY <1>1
<1>3. Pods!Range(Append(f, m)) = {Append(f, m)[i] : i \in (1 .. Len(f)) \cup {Len(f) + 1}}
  BY <1>1, <1>2 DEF Pods!Range
<1>4. Pods!Range(f) = {f[i] : i \in 1 .. Len(f)}
  BY <1>1 DEF Pods!Range
<1> QED
  BY <1>1, <1>3, <1>4

\* The values of two sequences one after the other are those of both.
LEMMA RangeConcat ==
  ASSUME NEW M, NEW f \in Seq(M), NEW g \in Seq(M)
  PROVE  f \o g \in Seq(M) /\ Pods!Range(f \o g) = Pods!Range(f) \cup Pods!Range(g)
<1>1. /\ DOMAIN f = 1 .. Len(f) /\ Len(f) \in Nat /\ DOMAIN g = 1 .. Len(g) /\ Len(g) \in Nat
      /\ DOMAIN (f \o g) = 1 .. Len(f) + Len(g)
      /\ \A i \in 1 .. Len(f) : (f \o g)[i] = f[i]
      /\ \A i \in 1 .. Len(g) : (f \o g)[Len(f) + i] = g[i]
      /\ f \o g \in Seq(M)
  OBVIOUS
<1>2. \A i \in 1 .. Len(f) + Len(g) :
         i \in 1 .. Len(f) \/ \E j \in 1 .. Len(g) : i = Len(f) + j
  <2> SUFFICES ASSUME NEW a \in Nat, NEW b \in Nat, NEW i \in 1 .. a + b, i \notin 1 .. a
               PROVE  \E j \in 1 .. b : i = a + j
    BY <1>1
  <2>1. i - a \in 1 .. b /\ i = a + (i - a)
    OBVIOUS
  <2> QED
    BY <2>1
<1>3. \A i \in 1 .. Len(f) : i \in 1 .. Len(f) + Len(g)
  BY <1>1
<1>4. \A i \in 1 .. Len(g) : Len(f) + i \in 1 .. Len(f) + Len(g)
  BY <1>1
<1>5. Pods!Range(f \o g) = {(f \o g)[i] : i \in 1 .. Len(f) + Len(g)}
  BY <1>1 DEF Pods!Range
<1>6. Pods!Range(f) = {f[i] : i \in 1 .. Len(f)} /\ Pods!Range(g) = {g[i] : i \in 1 .. Len(g)}
  BY <1>1 DEF Pods!Range
<1>7. Pods!Range(f \o g) \subseteq Pods!Range(f) \cup Pods!Range(g)
  BY <1>1, <1>2, <1>5, <1>6
<1>8. Pods!Range(f) \subseteq Pods!Range(f \o g)
  BY <1>1, <1>3, <1>5, <1>6
<1>9. Pods!Range(g) \subseteq Pods!Range(f \o g)
  BY <1>1, <1>4, <1>5, <1>6
<1> QED
  BY <1>1, <1>7, <1>8, <1>9

\* These mounts, and that of the claim if nothing is in its way.
Taken(claim, path, mounts, claimed) ==
  mounts \cup IF claim \in claimed /\ \A m \in mounts : m[1] # claim /\ m[2] # path
              THEN {<<claim, path>>} ELSE {}

\* These mounts with the claims of the host.
Claimed(mounts, s) ==
  Taken(s.log, Pods!LogDir, Taken(s.data, Pods!DataDir, mounts, s.claims), s.claims)

\* ApplyVolumeMount mounts a claim beside what is there.
LEMMA MountApplied ==
  ASSUME NEW N, NEW M, NEW c \in ContainersOf(N, M), NEW s, NEW claim, NEW path, <<claim, path>> \in M
  PROVE  /\ Pods!ApplyVolumeMount(c, claim, path, s) \in ContainersOf(N, M)
         /\ Pods!ApplyVolumeMount(c, claim, path, s).name = c.name
         /\ Pods!Range(Pods!ApplyVolumeMount(c, claim, path, s).mounts)
              = Taken(claim, path, Pods!Range(c.mounts), s.claims)
<1> DEFINE may == claim \in s.claims /\ \A m \in Pods!Range(c.mounts) : m[1] # claim /\ m[2] # path
<1>1. c.mounts \in Seq(M) /\ c.name \in N /\ c.probed \in BOOLEAN
  BY DEF ContainersOf
<1>2. CASE may
  <2>1. Pods!ApplyVolumeMount(c, claim, path, s) = [c EXCEPT !.mounts = Append(@, <<claim, path>>)]
    BY <1>2 DEF Pods!ApplyVolumeMount
  <2>2. /\ Append(c.mounts, <<claim, path>>) \in Seq(M)
        /\ Pods!Range(Append(c.mounts, <<claim, path>>)) = Pods!Range(c.mounts) \cup {<<claim, path>>}
    BY <1>1, RangeAppend
  <2>3. Taken(claim, path, Pods!Range(c.mounts), s.claims) = Pods!Range(c.mounts) \cup {<<claim, path>>}
    BY <1>2 DEF Taken
  <2>4. [c EXCEPT !.mounts = Append(@, <<claim, path>>)].mounts = Append(c.mounts, <<claim, path>>)
    BY DEF ContainersOf
  <2>5. /\ [c EXCEPT !.mounts = Append(@, <<claim, path>>)] \in ContainersOf(N, M)
        /\ [c EXCEPT !.mounts = Append(@, <<claim, path>>)].name = c.name
    BY <2>2 DEF ContainersOf
  <2> QED
    BY <2>1, <2>2, <2>3, <2>4, <2>5
<1>3. CASE ~may
  <2>1. Pods!ApplyVolumeMount(c, claim, path, s) = c
    BY <1>3 DEF Pods!ApplyVolumeMount
  <2>2. Taken(claim, path, Pods!Range(c.mounts), s.claims) = Pods!Range(c.mounts)
    BY <1>3 DEF Taken
  <2> QED
    BY <2>1, <2>2
<1> QED
  BY <1>2, <1>3

\* The claims for data and log are mounted one after the other.
LEMMA ClaimsApplied ==
  ASSUME NEW N, NEW M, NEW c \in ContainersOf(N, M), NEW s,
         <<s.data, Pods!DataDir>> \in M, <<s.log, Pods!LogDir>> \in M
  PROVE  LET d == Pods!ApplyVolumeMount(
                    Pods!ApplyVolumeMount(c, s.data, Pods!DataDir, s), s.log, Pods!LogDir, s)
         IN d.name = c.name /\ Pods!Range(d.mounts) = Claimed(Pods!Range(c.mounts), s)
<1> DEFINE e == Pods!ApplyVolumeMount(c, s.data, Pods!DataDir, s)
<1>1. /\ e \in ContainersOf(N, M) /\ e.name = c.name
      /\ Pods!Range(e.mounts) = Taken(s.data, Pods!DataDir, Pods!Range(c.mounts), s.claims)
  BY MountApplied
<1> HIDE DEF e
<1> DEFINE d == Pods!ApplyVolumeMount(e, s.log, Pods!LogDir, s)
<1>2. /\ d.name = e.name
      /\ Pods!Range(d.mounts) = Taken(s.log, Pods!LogDir, Pods!Range(e.mounts), s.claims)
  BY <1>1, MountApplied
<1> HIDE DEF d
<1>3. Pods!Range(d.mounts) = Claimed(Pods!Range(c.mounts), s)
  BY <1>1, <1>2 DEF Claimed
<1>4. d.name = c.name /\ Pods!Range(d.mounts) = Claimed(Pods!Range(c.mounts), s)
  BY <1>1, <1>2, <1>3
<1> QED
  BY <1>4 DEF d, e

\* Probes are set and taken away without another change.
LEMMA ProbeSet ==
  ASSUME NEW N, NEW M, NEW p \in Seq(ContainersOf(N, M)), p # << >>, NEW v \in BOOLEAN
  PROVE  LET q == [p EXCEPT ![Pods!ClickHouseContainer(p)].probed = v]
         IN /\ q \in Seq(ContainersOf(N, M)) /\ q # << >> /\ DOMAIN q = DOMAIN p
            /\ \A i \in DOMAIN p : q[i].name = p[i].name /\ q[i].mounts = p[i].mounts
            /\ Pods!ClickHouseContainer(q) = Pods!ClickHouseContainer(p)
<1> DEFINE k == Pods!ClickHouseContainer(p)
           q == [p EXCEPT ![k].probed = v]
<1>1. k \in DOMAIN p
  BY ServerThere
<1> HIDE DEF k
<1>2. DOMAIN p = 1 .. Len(p) /\ Len(p) \in Nat /\ \A i \in 1 .. Len(p) : p[i] \in ContainersOf(N, M)
  OBVIOUS
<1>3. [p[k] EXCEPT !.probed = v] \in ContainersOf(N, M)
  BY <1>1, <1>2 DEF ContainersOf
<1>4. DOMAIN q = DOMAIN p /\ \A i \in DOMAIN p : q[i] = IF i = k THEN [p[k] EXCEPT !.probed = v] ELSE p[i]
  BY <1>1
<1>5. [p[k] EXCEPT !.probed = v].name = p[k].name /\ [p[k] EXCEPT !.probed = v].mounts = p[k].mounts
  BY <1>1, <1>2 DEF ContainersOf
<1>6. q \in Seq(ContainersOf(N, M)) /\ Len(q) = Len(p)
  BY <1>1, <1>2, <1>3
<1>7. \A i \in DOMAIN p : q[i].name = p[i].name /\ q[i].mounts = p[i].mounts
  BY <1>4, <1>5
<1>8. Pods!ClickHouseContainer(q) = Pods!ClickHouseContainer(p)
  <2> HIDE DEF q
  <2> QED
    BY <1>4, <1>7, SameServer
<1>9. q # << >>
  BY <1>6
<1> HIDE DEF q
<1>10. /\ q \in Seq(ContainersOf(N, M)) /\ q # << >> /\ DOMAIN q = DOMAIN p
       /\ \A i \in DOMAIN p : q[i].name = p[i].name /\ q[i].mounts = p[i].mounts
       /\ Pods!ClickHouseContainer(q) = Pods!ClickHouseContainer(p)
  BY <1>4, <1>6, <1>7, <1>8, <1>9
<1> QED
  BY <1>10 DEF q, k

\* Names and mounts that containers may have.
Enough(N, M) ==
  /\ TemplatesOf(N, M)
  /\ Pods!ClickHouse \in N /\ Pods!Log \in N
  /\ Pods!ConfigMaps \in Seq(M)
  /\ (Data \cup Logs \cup {None}) \X {Pods!DataDir, Pods!LogDir} \subseteq M

\* A StatefulSet starts from containers.
LEMMA OwnContainers ==
  ASSUME NEW N, NEW M, Enough(N, M), NEW s \in Pods!Specs
  PROVE  Own(s) \in Seq(ContainersOf(N, M)) /\ Own(s) # << >>
<1>1. \A v \in BOOLEAN : Pods!Container(Pods!ClickHouse, v) \in ContainersOf(N, M)
  BY DEF Enough, ContainersOf, Pods!Container
<1>2. s.template \in Templates \cup {None}
  BY DEF Pods!Specs
<1> DEFINE c == Pods!Container(Pods!ClickHouse, TRUE)
           one == <<c>>
           t == Pods!GetPodTemplate(s)
<1>3. one \in Seq(ContainersOf(N, M)) /\ one # << >>
  <2>1. c \in ContainersOf(N, M)
    BY <1>1
  <2> HIDE DEF c
  <2> QED
    BY <2>1
<1>4. t = IF s.template = None THEN one ELSE s.template
  BY DEF Pods!GetPodTemplate
<1>5. Own(s) = IF t = << >> THEN one ELSE t
  BY DEF Own, Pods!EnsureClickHouseContainer
<1> HIDE DEF one, t
<1>6. t \in Seq(ContainersOf(N, M))
  BY <1>2, <1>3, <1>4 DEF Enough, TemplatesOf
<1> QED
  BY <1>3, <1>5, <1>6

\* ConfigMaps are mounted in all containers.
LEMMA ConfigMapsMounted ==
  ASSUME NEW N, NEW M, Pods!ConfigMaps \in Seq(M), NEW p \in Seq(ContainersOf(N, M)), p # << >>
  PROVE  LET q == Pods!SetupConfigMapVolumes(p)
         IN /\ q \in Seq(ContainersOf(N, M)) /\ q # << >> /\ DOMAIN q = DOMAIN p
            /\ \A i \in DOMAIN p :
                 Pods!Range(q[i].mounts) = Pods!Range(p[i].mounts) \cup Pods!Range(Pods!ConfigMaps)
            /\ Pods!ClickHouseContainer(q) = Pods!ClickHouseContainer(p)
<1> DEFINE q == Pods!SetupConfigMapVolumes(p)
<1>1. DOMAIN p = 1 .. Len(p) /\ Len(p) \in Nat /\ \A i \in 1 .. Len(p) : p[i] \in ContainersOf(N, M)
  OBVIOUS
<1>2. DOMAIN q = DOMAIN p /\ \A i \in DOMAIN p : q[i] = [p[i] EXCEPT !.mounts = @ \o Pods!ConfigMaps]
  BY DEF Pods!SetupConfigMapVolumes
<1>3. ASSUME NEW i \in DOMAIN p
      PROVE  /\ q[i] \in ContainersOf(N, M) /\ q[i].name = p[i].name
             /\ Pods!Range(q[i].mounts) = Pods!Range(p[i].mounts) \cup Pods!Range(Pods!ConfigMaps)
  <2>1. p[i] \in ContainersOf(N, M) /\ p[i].mounts \in Seq(M)
    BY <1>1 DEF ContainersOf
  <2>2. q[i].mounts = p[i].mounts \o Pods!ConfigMaps /\ q[i].name = p[i].name
    BY <1>2, <2>1 DEF ContainersOf
  <2>3. p[i].mounts \o Pods!ConfigMaps \in Seq(M)
    BY <2>1, RangeConcat
  <2>4. q[i] \in ContainersOf(N, M)
    BY <1>2, <2>1, <2>3 DEF ContainersOf
  <2> QED
    BY <2>1, <2>2, <2>4, RangeConcat
<1>4. q = [i \in 1 .. Len(p) |-> q[i]]
  BY <1>1 DEF Pods!SetupConfigMapVolumes
<1> HIDE DEF q
<1>5. q \in Seq(ContainersOf(N, M)) /\ Len(q) = Len(p)
  BY <1>1, <1>3, <1>4
<1>6. q # << >>
  BY <1>1, <1>2, <1>5
<1>7. Pods!ClickHouseContainer(q) = Pods!ClickHouseContainer(p)
  BY <1>2, <1>3, SameServer
<1>8. /\ q \in Seq(ContainersOf(N, M)) /\ q # << >> /\ DOMAIN q = DOMAIN p
      /\ \A i \in DOMAIN p :
           Pods!Range(q[i].mounts) = Pods!Range(p[i].mounts) \cup Pods!Range(Pods!ConfigMaps)
      /\ Pods!ClickHouseContainer(q) = Pods!ClickHouseContainer(p)
  BY <1>2, <1>3, <1>5, <1>6, <1>7
<1> QED
  BY <1>8 DEF q

\* The log container comes after the server.
LEMMA LogAppended ==
  ASSUME NEW N, NEW M, Enough(N, M), NEW p \in Seq(ContainersOf(N, M)), p # << >>, NEW s
  PROVE  LET q == Pods!SetupLogContainer(p, s)
         IN /\ q \in Seq(ContainersOf(N, M)) /\ q # << >> /\ DOMAIN p \subseteq DOMAIN q
            /\ \A i \in DOMAIN p : q[i] = p[i]
            /\ Pods!ClickHouseContainer(q) = Pods!ClickHouseContainer(p)
<1> DEFINE q == Pods!SetupLogContainer(p, s)
           c == Pods!Container(Pods!Log, FALSE)
<1>1. c \in ContainersOf(N, M) /\ c.name = Pods!Log
  BY DEF Enough, ContainersOf, Pods!Container
<1> HIDE DEF c
<1>2. CASE s.log = None
  <2>1. q = p
    BY <1>2 DEF Pods!SetupLogContainer
  <2> QED
    BY <2>1
<1>3. CASE s.log # None
  <2>1. q = Append(p, c)
    BY <1>3 DEF Pods!SetupLogContainer, c
  <2> HIDE DEF q
  <2>2. /\ q \in Seq(ContainersOf(N, M)) /\ q # << >>
        /\ DOMAIN p = 1 .. Len(p) /\ Len(p) \in Nat /\ DOMAIN q = 1 .. Len(p) + 1
        /\ \A i \in 1 .. Len(p) : q[i] = p[i]
        /\ q[Len(p) + 1] = c
    BY <1>1, <2>1
  <2>3. Pods!Log # Pods!ClickHouse
    BY DEF Pods!Log, Pods!ClickHouse
  <2>4. \A i \in DOMAIN q : i \in DOMAIN p \/ i = Len(p) + 1
    BY <2>2
  <2>5. \A i \in DOMAIN q : i \in DOMAIN p \/ q[i].name # Pods!ClickHouse
    BY <1>1, <2>2, <2>3, <2>4
  <2>6. DOMAIN p \subseteq DOMAIN q /\ \A i \in DOMAIN p : q[i] = p[i]
    BY <2>2
  <2>7. Pods!ClickHouseContainer(q) = Pods!ClickHouseContainer(p)
    BY <2>5, <2>6, SameServer
  <2>8. /\ q \in Seq(ContainersOf(N, M)) /\ q # << >> /\ DOMAIN p \subseteq DOMAIN q
        /\ \A i \in DOMAIN p : q[i] = p[i]
        /\ Pods!ClickHouseContainer(q) = Pods!ClickHouseContainer(p)
    BY <2>2, <2>6, <2>7
  <2> QED
    BY <2>8 DEF q
<1> QED
  BY <1>2, <1>3

\* The mounts of a server: its own, the ConfigMaps, the claims of its host.
LEMMA ServerMounts ==
  ASSUME NEW N, NEW M, Enough(N, M), NEW s \in Pods!Specs
  PROVE  Pods!Range(ServerOf(Pods!Pod(s)).mounts) = Claimed(Given(s), s)
<1> DEFINE C == ContainersOf(N, M)
           p0 == Own(s)
           p1 == Pods!EnsureProbes(p0)
           p2 == Pods!SetupConfigMapVolumes(p1)
           p3 == Pods!SetupTroubleshoot(p2, s)
           p4 == Pods!SetupLogContainer(p3, s)
           p5 == Pods!ApplyVolumeClaimTemplates(p4, s)
           k == Pods!ClickHouseContainer(p0)
<1>1. Pods!Pod(s) = p5
  BY DEF Pods!Pod, Own
<1>2. p0 \in Seq(C) /\ p0 # << >> /\ k \in DOMAIN p0
  BY OwnContainers, ServerThere
<1>3. Given(s) = Pods!Range(p0[k].mounts) \cup Pods!Range(Pods!ConfigMaps)
  BY DEF Given, ServerOf
<1> HIDE DEF p0
<1>4. /\ p1 \in Seq(C) /\ p1 # << >> /\ DOMAIN p1 = DOMAIN p0
      /\ p1[k].mounts = p0[k].mounts
      /\ Pods!ClickHouseContainer(p1) = k
  BY <1>2, ProbeSet DEF Pods!EnsureProbes
<1> HIDE DEF p1, k
<1>5. /\ p2 \in Seq(C) /\ p2 # << >> /\ DOMAIN p2 = DOMAIN p1
      /\ Pods!Range(p2[k].mounts) = Pods!Range(p1[k].mounts) \cup Pods!Range(Pods!ConfigMaps)
      /\ Pods!ClickHouseContainer(p2) = k
  <2>1. Pods!ConfigMaps \in Seq(M)
    BY DEF Enough
  <2> QED
    BY <1>2, <1>4, <2>1, ConfigMapsMounted
<1> HIDE DEF p2
<1>6. /\ p3 \in Seq(C) /\ p3 # << >> /\ DOMAIN p3 = DOMAIN p2
      /\ p3[k].mounts = p2[k].mounts
      /\ Pods!ClickHouseContainer(p3) = k
  BY <1>2, <1>4, <1>5, ProbeSet DEF Pods!SetupTroubleshoot
<1> HIDE DEF p3
<1>7. /\ p4 \in Seq(C) /\ k \in DOMAIN p4 /\ p4[k] = p3[k]
      /\ Pods!ClickHouseContainer(p4) = k
  BY <1>2, <1>4, <1>5, <1>6, LogAppended
<1> HIDE DEF p4
<1> DEFINE b(i) == Pods!ApplyVolumeMount(
                     Pods!ApplyVolumeMount(p4[i], s.data, Pods!DataDir, s), s.log, Pods!LogDir, s)
<1>8. s.data \in Data \cup {None} /\ s.log \in Logs \cup {None}
  BY DEF Pods!Specs
<1>9. <<s.data, Pods!DataDir>> \in M /\ <<s.log, Pods!LogDir>> \in M
  BY <1>8 DEF Enough
<1>10. ASSUME NEW i \in DOMAIN p4
       PROVE  b(i).name = p4[i].name /\ Pods!Range(b(i).mounts) = Claimed(Pods!Range(p4[i].mounts), s)
  <2>1. p4[i] \in C
    BY <1>7, <1>10
  <2> QED
    BY <1>9, <2>1, ClaimsApplied
<1>11. DOMAIN p5 = DOMAIN p4 /\ \A i \in DOMAIN p4 : p5[i] = b(i)
  BY DEF Pods!ApplyVolumeClaimTemplates
<1> HIDE DEF p5, b
<1>12. Pods!ClickHouseContainer(p5) = k
  BY <1>7, <1>10, <1>11, SameServer
<1>13. ServerOf(p5) = b(k)
  BY <1>7, <1>11, <1>12 DEF ServerOf
<1>14. Pods!Range(p4[k].mounts) = Given(s)
  BY <1>3, <1>4, <1>5, <1>6, <1>7
<1>15. Pods!Range(b(k).mounts) = Claimed(Given(s), s)
  BY <1>7, <1>10, <1>14
<1> QED
  BY <1>1, <1>13, <1>15

\* The volumes at a path.
At(mounts, path) == {m[1] : m \in {n \in mounts : n[2] = path}}

\* The claim for data is where data is if nothing else is there and it is
\* nowhere else; the claim for logs is not there.
LEMMA DataClaimed ==
  ASSUME NEW mounts, NEW s
  PROVE  At(Claimed(mounts, s), Pods!DataDir) =
           IF /\ s.data \in s.claims /\ At(mounts, Pods!DataDir) = {}
              /\ \A m \in mounts : m[1] # s.data
           THEN {s.data} ELSE At(mounts, Pods!DataDir)
<1> DEFINE some == Taken(s.data, Pods!DataDir, mounts, s.claims)
<1>1. At(some, Pods!DataDir) =
        IF /\ s.data \in s.claims /\ At(mounts, Pods!DataDir) = {}
           /\ \A m \in mounts : m[1] # s.data
        THEN {s.data} ELSE At(mounts, Pods!DataDir)
  <2>1. At(mounts, Pods!DataDir) = {} <=> \A m \in mounts : m[2] # Pods!DataDir
    BY DEF At
  <2>2. CASE /\ s.data \in s.claims
             /\ \A m \in mounts : m[1] # s.data /\ m[2] # Pods!DataDir
    <3>1. some = mounts \cup {<<s.data, Pods!DataDir>>}
      BY <2>2 DEF Taken
    <3> HIDE DEF some
    <3>2. \A m \in some : m[2] = Pods!DataDir <=> m = <<s.data, Pods!DataDir>>
      BY <2>2, <3>1
    <3>3. {m \in some : m[2] = Pods!DataDir} = {<<s.data, Pods!DataDir>>}
      BY <3>1, <3>2
    <3>4. At(some, Pods!DataDir) = {s.data}
      <4> DEFINE mount == <<s.data, Pods!DataDir>>
      <4>1. mount[1] = s.data
        OBVIOUS
      <4>2. At(some, Pods!DataDir) = {m[1] : m \in {mount}}
        BY <3>3, Zenon DEF At
      <4> HIDE DEF mount
      <4> QED
        BY <4>1, <4>2
    <3> QED
      BY <2>1, <2>2, <3>4
  <2>3. CASE ~(/\ s.data \in s.claims
               /\ \A m \in mounts : m[1] # s.data /\ m[2] # Pods!DataDir)
    <3>1. some = mounts
      BY <2>3 DEF Taken
    <3> QED
      BY <2>1, <2>3, <3>1
  <2> QED
    BY <2>2, <2>3
<1> HIDE DEF some
<1>2. Pods!LogDir # Pods!DataDir
  BY DEF Pods!LogDir, Pods!DataDir
<1>3. Claimed(mounts, s) = some \/ Claimed(mounts, s) = some \cup {<<s.log, Pods!LogDir>>}
  BY DEF Claimed, Taken, some
<1>4. At(Claimed(mounts, s), Pods!DataDir) = At(some, Pods!DataDir)
  BY <1>2, <1>3 DEF At
<1> QED
  BY <1>1, <1>4

\* Before the claims, one volume at most is where data is.
LEMMA GivenOnce ==
  ASSUME NEW N, NEW M, Enough(N, M), MountedOnce, NEW s \in Pods!Specs,
         NEW c \in At(Given(s), Pods!DataDir)
  PROVE  At(Given(s), Pods!DataDir) = {c}
<1> DEFINE k == Pods!ClickHouseContainer(Own(s))
           own == Pods!Range(Own(s)[k].mounts)
<1>1. \A m \in Pods!Range(Pods!ConfigMaps) : m[2] # Pods!DataDir
  BY DEF Pods!Range, Pods!ConfigMaps, Pods!DataDir
<1>2. k \in DOMAIN Own(s)
  BY OwnContainers, ServerThere
<1>3. \A m, n \in own : m[2] = n[2] => m[1] = n[1]
  <2> DEFINE b == Pods!Container(Pods!ClickHouse, TRUE)
  <2>1. Own(s) = <<b>> \/ Own(s) \in Templates
    BY DEF Own, Pods!EnsureClickHouseContainer, Pods!GetPodTemplate, Pods!Specs
  <2>2. CASE Own(s) \in Templates
    BY <1>2, <2>2 DEF MountedOnce
  <2>3. CASE Own(s) = <<b>>
    <3>1. b.mounts = << >>
      BY DEF Pods!Container
    <3> HIDE DEF b, k
    <3>2. Own(s)[k] = b
      BY <1>2, <2>3
    <3>3. own = {}
      BY <3>1, <3>2 DEF Pods!Range
    <3> QED
      BY <3>3
  <2> QED
    BY <2>1, <2>2, <2>3
<1>4. Given(s) = own \cup Pods!Range(Pods!ConfigMaps)
  BY DEF Given, ServerOf
<1> HIDE DEF own
<1>5. \A m, n \in Given(s) : m[2] = Pods!DataDir /\ n[2] = Pods!DataDir => m[1] = n[1]
  BY <1>1, <1>3, <1>4
<1> QED
  BY <1>5 DEF At

\* Before the claims, the template alone decides.
LEMMA GivenByTemplate ==
  ASSUME NEW s, NEW t, s.template = t.template
  PROVE  Given(s) = Given(t)
BY DEF Given, Own, Pods!GetPodTemplate

\* The claims at a path of a server.
LEMMA ServerClaims ==
  ASSUME NEW N, NEW M, Enough(N, M), NEW s \in Pods!Specs
  PROVE  Pods!ClaimAt(ServerOf(Pods!CreateStatefulSet(s).pod), Pods!DataDir)
           = At(Claimed(Given(s), s), Pods!DataDir) \cap Claims
<1>1. Pods!CreateStatefulSet(s).pod = Pods!Pod(s)
  BY DEF Pods!CreateStatefulSet
<1>2. Pods!Range(ServerOf(Pods!Pod(s)).mounts) = Claimed(Given(s), s)
  BY ServerMounts
<1> QED
  BY <1>1, <1>2 DEF Pods!ClaimAt, At

\* A StatefulSet is that of what it was built from.
Built ==
  part = "pod" =>
    /\ spec \in Pods!Specs /\ madeFrom \in Pods!Specs
    /\ made # None => made = Pods!CreateStatefulSet(madeFrom)

\* There is none at first.
LEMMA BuiltInit == InitAll => Built
BY DEF InitAll, Built, Pods!Init

\* A pass builds it from what the user asks for.
LEMMA BuiltNext ==
  ASSUME Built, [NextAll]_allVars
  PROVE  Built'
<1>1. CASE UNCHANGED allVars
  BY <1>1 DEF Built, allVars, hostPod
<1>2. CASE part = "pod" /\ Pods!Next /\ UNCHANGED part
  BY <1>2 DEF Built, Pods!Next, Pods!Edit, Pods!Reconcile
<1> QED
  BY <1>1, <1>2 DEF NextAll, ZooKeeperStep, LayoutStep, NamesStep, PodStep, NodesStep, Built

\* A claim that holds data holds it still, alone, with the next StatefulSet.
LEMMA DataKept ==
  ASSUME NEW N, NEW M, Enough(N, M), MountedOnce,
         NEW old \in Pods!Specs, NEW new \in Pods!Specs, old.template = new.template,
         NEW c \in At(Claimed(Given(old), old), Pods!DataDir),
         c = new.data, c \in new.claims
  PROVE  At(Claimed(Given(new), new), Pods!DataDir) = {c}
<1> DEFINE g == Given(old)
<1>1. Given(new) = g
  BY GivenByTemplate
<1>2. c \in At(g, Pods!DataDir) => At(g, Pods!DataDir) = {c}
  BY GivenOnce
<1> HIDE DEF g
<1>3. CASE c \in At(g, Pods!DataDir)
  BY <1>1, <1>2, <1>3, DataClaimed
<1>4. CASE c \notin At(g, Pods!DataDir)
  <2>1. c = old.data /\ At(g, Pods!DataDir) = {} /\ \A m \in g : m[1] # c
    BY <1>4, DataClaimed DEF g
  <2>2. At(Claimed(g, new), Pods!DataDir) =
          IF /\ new.data \in new.claims /\ At(g, Pods!DataDir) = {}
             /\ \A m \in g : m[1] # new.data
          THEN {new.data} ELSE At(g, Pods!DataDir)
    BY DataClaimed
  <2> QED
    BY <1>1, <2>1, <2>2
<1> QED
  BY <1>3, <1>4

\* Three values are a sequence.
LEMMA SeqOfThree ==
  ASSUME NEW M, NEW a \in M, NEW b \in M, NEW c \in M
  PROVE  <<a, b, c>> \in Seq(M)
OBVIOUS

\* A server keeps its data where it is, whatever pod templates there are and
\* whatever is edited, if no container of a template mounts a path twice
\* (Kubernetes refuses one that does).
THEOREM DataNeverMoves ==
  ASSUME NEW N, NEW M, TemplatesOf(N, M), MountedOnce
  PROVE  SpecAll => DataStays
<1> DEFINE N1 == N \cup {Pods!ClickHouse, Pods!Log}
           M1 == M \cup Pods!Range(Pods!ConfigMaps)
                   \cup (Data \cup Logs \cup {None}) \X {Pods!DataDir, Pods!LogDir}
<1>1. Enough(N1, M1)
  <2>1. N \subseteq N1 /\ M \subseteq M1
    OBVIOUS
  <2>2. TemplatesOf(N1, M1)
    <3> SUFFICES ASSUME NEW t \in Templates PROVE t \in Seq(ContainersOf(N1, M1))
      BY DEF TemplatesOf
    <3>1. ContainersOf(N, M) \subseteq ContainersOf(N1, M1)
      <4> HIDE DEF N1, M1
      <4>1. Seq(M) \subseteq Seq(M1)
        BY <2>1
      <4> QED
        BY <2>1, <4>1 DEF ContainersOf
    <3>2. t \in Seq(ContainersOf(N, M))
      BY DEF TemplatesOf
    <3> HIDE DEF N1, M1
    <3> QED
      BY <3>1, <3>2
  <2>3. Pods!ConfigMaps \in Seq(M1)
    <3>1. Len(Pods!ConfigMaps) = 3 /\ \A i \in 1 .. 3 : Pods!ConfigMaps[i] \in Pods!Range(Pods!ConfigMaps)
      BY DEF Pods!ConfigMaps, Pods!Range
    <3>2. Pods!ConfigMaps = <<Pods!ConfigMaps[1], Pods!ConfigMaps[2], Pods!ConfigMaps[3]>>
      BY DEF Pods!ConfigMaps
    <3>3. Pods!ConfigMaps[1] \in M1 /\ Pods!ConfigMaps[2] \in M1 /\ Pods!ConfigMaps[3] \in M1
      BY <3>1
    <3> HIDE DEF M1
    <3> QED
      BY <3>2, <3>3, SeqOfThree
  <2> QED
    BY <2>2, <2>3 DEF Enough
<1> HIDE DEF N1, M1
<1>2. ASSUME Built, [NextAll]_allVars, part = "pod", ~ UNCHANGED allVars
      PROVE  Pods!DataStay
  <2> SUFFICES ASSUME made # None, made' # None, madeFrom.template = spec.template,
                      NEW c \in Pods!ClaimAt(ServerOf(made.pod), Pods!DataDir),
                      c = spec.data, c \in spec.claims
               PROVE  Pods!ClaimAt(ServerOf(made'.pod), Pods!DataDir) = {c}
    BY DEF Pods!DataStay, ServerOf
  <2>1. /\ spec \in Pods!Specs /\ madeFrom \in Pods!Specs
        /\ made = Pods!CreateStatefulSet(madeFrom)
    BY <1>2 DEF Built
  <2>2. made' = made \/ made' = Pods!CreateStatefulSet(spec)
    BY <1>2 DEF NextAll, ZooKeeperStep, LayoutStep, NamesStep, PodStep, NodesStep,
                Pods!Next, Pods!Edit, Pods!Reconcile
  <2>3. c \in At(Claimed(Given(madeFrom), madeFrom), Pods!DataDir) /\ c \in Claims
    BY <1>1, <2>1, ServerClaims
  <2>4. CASE made' = made
    <3>1. At(Claimed(Given(madeFrom), madeFrom), Pods!DataDir) = {c}
      <4>1. c \in At(Given(madeFrom), Pods!DataDir) => At(Given(madeFrom), Pods!DataDir) = {c}
        BY <1>1, <2>1, GivenOnce
      <4> QED
        BY <2>3, <4>1, DataClaimed
    <3> QED
      BY <1>1, <2>1, <2>3, <2>4, <3>1, ServerClaims
  <2>5. CASE made' = Pods!CreateStatefulSet(spec)
    <3>1. At(Claimed(Given(spec), spec), Pods!DataDir) = {c}
      BY <1>1, <2>1, <2>3, DataKept
    <3> QED
      BY <1>1, <2>1, <2>3, <2>5, <3>1, ServerClaims
  <2> QED
    BY <2>2, <2>4, <2>5
<1>3. Built /\ [NextAll]_allVars => [part = "pod" => Pods!DataStay]_allVars
  BY <1>2
<1>4. Built /\ [NextAll]_allVars => Built'
  BY BuiltNext
<1> QED
  BY BuiltInit, <1>3, <1>4, PTL DEF SpecAll, DataStays

-----------------------------------------------------------------------------
(* Pods on nodes                                                           *)

\* Three nodes, whatever they are.
ThreeNodes == \E x, y, z : x # y /\ y # z /\ x # z /\ Nodes = {x, y, z}

OnHost(type, scope, number) == Circle!Item(type, scope, number, Circle!HostnameKey)

\* Nothing after nothing is nothing.
LEMMA NothingFlattened ==
  ASSUME NEW s, s = [k \in 1 .. 7 |-> << >>]
  PROVE  Circle!FlattenSeq(s) = << >>
<1> DEFINE Flat(f) == f = [i \in 1 .. 7 |-> IF i = 1 THEN s[i] ELSE f[i - 1] \o s[i]]
           flat == CHOOSE f : Flat(f)
<1>1. Len(s) = 7 /\ \A k \in 1 .. 7 : s[k] = << >>
  OBVIOUS
<1>2. Flat([i \in 1 .. 7 |-> << >>])
  <2>1. \A i \in 1 .. 7 : (IF i = 1 THEN s[i] ELSE [j \in 1 .. 7 |-> << >>][i - 1] \o s[i]) = << >>
    <3>1. << >> \o << >> = << >>
      OBVIOUS
    <3>2. \A i \in 1 .. 7 : i # 1 => i - 1 \in 1 .. 7
      OBVIOUS
    <3> QED
      BY <1>1, <3>1, <3>2
  <2> QED
    BY <2>1
<1>3. Flat(flat)
  BY <1>2
<1>4. Circle!FlattenSeq(s) = flat[7]
  BY <1>1 DEF Circle!FlattenSeq
<1> HIDE DEF flat
<1>5. \A i \in 1 .. 7 : flat[i] = IF i = 1 THEN s[i] ELSE flat[i - 1] \o s[i]
  BY <1>3
<1> HIDE DEF Flat
<1>6. << >> \o << >> = << >>
  OBVIOUS
<1>7. flat[1] = << >>
  BY <1>1, <1>5
<1>8. \A i \in 2 .. 7 : flat[i - 1] = << >> => flat[i] = << >>
  BY <1>1, <1>5, <1>6
<1>9. flat[2] = << >> /\ flat[3] = << >> /\ flat[4] = << >>
  BY <1>7, <1>8
<1>10. flat[5] = << >> /\ flat[6] = << >> /\ flat[7] = << >>
  BY <1>8, <1>9
<1> QED
  BY <1>4, <1>10

\* A sequence and nothing after it.
LEMMA NothingAfter ==
  ASSUME NEW s, s = [k \in 1 .. 7 |-> s[k]]
  PROVE  s \o << >> = s
<1> DEFINE M == {s[k] : k \in 1 .. 7}
<1>1. \A k \in 1 .. 7 : s[k] \in M
  OBVIOUS
<1> HIDE DEF M
<1>2. s \in Seq(M)
  BY <1>1
<1> QED
  BY <1>2

\* What an item leaves out, and the items that are written so.
Unsaid == ""
Scoping == {Unsaid, "Cluster"}
Keys == {Unsaid, Circle!HostnameKey}
Types == {"ShardAntiAffinity", "ReplicaAntiAffinity", "MaxNumberPerNode", "NamespaceAffinity",
          "ClickHouseInstallationAffinity", "ClusterAffinity", "PreviousTailAffinity"}
Written == [type : Types, scope : Scoping, number : Nat, key : Keys]

Filled(d, s, n, k) == [d EXCEPT !.key = k, !.scope = s, !.number = n]

\* An item that says its type and number.
LEMMA ItemIs ==
  ASSUME NEW t \in Types, NEW n \in Nat, NEW d, d = Circle!Item(t, Unsaid, n, Unsaid)
  PROVE  d \in Written /\ d.type = t /\ d.scope = Unsaid /\ d.number = n /\ d.key = Unsaid
BY DEF Circle!Item, Written, Scoping, Keys

\* Fields of an item that are set.
LEMMA ItemSet ==
  ASSUME NEW d \in Written, NEW s \in Scoping, NEW n \in Nat, NEW k \in Keys
  PROVE  Filled(d, s, n, k) = Circle!Item(d.type, s, n, k)
<1> DEFINE a == [d EXCEPT !.key = k]
           b == [a EXCEPT !.scope = s]
           c == [b EXCEPT !.number = n]
<1>1. Filled(d, s, n, k) = c
  BY DEF Filled
<1>2. a \in Written /\ a.type = d.type /\ a.key = k
  BY DEF Written
<1> HIDE DEF a
<1>3. b \in Written /\ b.type = a.type /\ b.scope = s /\ b.key = a.key
  BY <1>2 DEF Written
<1> HIDE DEF b
<1>4. c = [type |-> b.type, scope |-> b.scope, number |-> n, key |-> b.key]
  BY <1>3 DEF Written
<1> HIDE DEF c
<1> QED
  BY <1>1, <1>2, <1>3, <1>4 DEF Circle!Item

\* An item that is written short is about hosts, of the cluster if its type is
\* a scoped one.
LEMMA NormalizedIs ==
  ASSUME NEW t \in Types, NEW n \in Nat,
         NEW d, d = Circle!Item(t, Unsaid, n, Unsaid)
  PROVE  /\ t \in Circle!ScopedTypes => Circle!NormalizePodDistribution(d) = OnHost(t, "Cluster", n)
         /\ t \notin Circle!ScopedTypes => Circle!NormalizePodDistribution(d) = OnHost(t, Unsaid, n)
<1> DEFINE s == IF t \in Circle!ScopedTypes THEN "Cluster" ELSE Unsaid
<1>1. d \in Written /\ d.type = t /\ d.scope = Unsaid /\ d.number = n /\ d.key = Unsaid
  BY ItemIs
<1>6. t # "CircularReplication"
  BY DEF Types
<1>2. s \in Scoping /\ Circle!HostnameKey \in Keys
  BY DEF Scoping, Keys
<1>3. /\ (IF d.key = Unsaid THEN Circle!HostnameKey ELSE d.key) = Circle!HostnameKey
      /\ (IF d.scope = Unsaid /\ d.type \in Circle!ScopedTypes \cup {"CircularReplication"}
          THEN "Cluster" ELSE d.scope) = s
      /\ (IF d.number < 0 THEN 0 ELSE d.number) = n
  BY <1>1, <1>6
<1> HIDE DEF s
<1>4. Circle!NormalizePodDistribution(d) = Filled(d, s, n, Circle!HostnameKey)
  BY <1>3, Zenon DEF Circle!NormalizePodDistribution, Unsaid, Filled
<1>5. Filled(d, s, n, Circle!HostnameKey) = Circle!Item(t, s, n, Circle!HostnameKey)
  BY <1>1, <1>2, ItemSet
<1> QED
  BY <1>4, <1>5, Zenon DEF s, OnHost

\* The normalized distribution of the example.
LEMMA DistributionIs ==
  /\ DOMAIN Circle!PodDistribution = 1 .. 7
  /\ Circle!PodDistribution[1] = OnHost("ShardAntiAffinity", "Cluster", 0)
  /\ Circle!PodDistribution[2] = OnHost("ReplicaAntiAffinity", "Cluster", 0)
  /\ Circle!PodDistribution[3] = OnHost("MaxNumberPerNode", Unsaid, 3)
  /\ Circle!PodDistribution[4] = OnHost("NamespaceAffinity", Unsaid, 0)
  /\ Circle!PodDistribution[5] = OnHost("ClickHouseInstallationAffinity", Unsaid, 0)
  /\ Circle!PodDistribution[6] = OnHost("ClusterAffinity", Unsaid, 0)
  /\ Circle!PodDistribution[7] = OnHost("PreviousTailAffinity", Unsaid, 0)
<1> DEFINE d == Detailed
           given == [k \in DOMAIN d |-> Circle!NormalizePodDistribution(d[k])]
           more == [k \in DOMAIN d |-> Circle!Expand(d[k])]
<1>1. /\ DOMAIN d = 1 .. 7
      /\ d[1] = Circle!Item("ShardAntiAffinity", Unsaid, 0, Unsaid)
      /\ d[2] = Circle!Item("ReplicaAntiAffinity", Unsaid, 0, Unsaid)
      /\ d[3] = Circle!Item("MaxNumberPerNode", Unsaid, 3, Unsaid)
      /\ d[4] = Circle!Item("NamespaceAffinity", Unsaid, 0, Unsaid)
      /\ d[5] = Circle!Item("ClickHouseInstallationAffinity", Unsaid, 0, Unsaid)
      /\ d[6] = Circle!Item("ClusterAffinity", Unsaid, 0, Unsaid)
      /\ d[7] = Circle!Item("PreviousTailAffinity", Unsaid, 0, Unsaid)
  <2> DEFINE r == Of("MaxNumberPerNode")
             third == [r EXCEPT !.number = 3]
  <2>1. d = << Of("ShardAntiAffinity"), Of("ReplicaAntiAffinity"), third, Of("NamespaceAffinity"),
               Of("ClickHouseInstallationAffinity"), Of("ClusterAffinity"), Of("PreviousTailAffinity") >>
    BY Zenon DEF Detailed
  <2>2. \A t : Of(t) = Circle!Item(t, Unsaid, 0, Unsaid)
    BY Zenon DEF Of, Circle!Item, Unsaid
  <2> HIDE DEF r, d
  <2>3. r = Circle!Item("MaxNumberPerNode", Unsaid, 0, Unsaid)
    BY <2>2, Zenon DEF r
  <2>4. r \in Written /\ r.type = "MaxNumberPerNode" /\ r.scope = Unsaid /\ r.key = Unsaid
    BY <2>3, ItemIs DEF Types
  <2>5. third = Circle!Item("MaxNumberPerNode", Unsaid, 3, Unsaid)
    BY <2>4 DEF Written, Circle!Item
  <2> HIDE DEF third
  <2> QED
    BY <2>1, <2>2, <2>5
<1> HIDE DEF d
<1>2. \A k \in 1 .. 7 : k = 1 \/ k = 2 \/ k = 3 \/ k = 4 \/ k = 5 \/ k = 6 \/ k = 7
  OBVIOUS
<1>3. \A k \in 1 .. 7 : d[k].type # "CircularReplication"
  BY <1>1, <1>2 DEF Circle!Item
<1>4. more = [k \in 1 .. 7 |-> << >>]
  BY <1>1, <1>3 DEF Circle!Expand
<1>5. Circle!FlattenSeq(more) = << >>
  BY <1>4, NothingFlattened
<1>6. Circle!PodDistribution = given \o << >>
  BY <1>5 DEF Circle!PodDistribution, d
<1>7. given = [k \in 1 .. 7 |-> given[k]] /\ \A k \in 1 .. 7 : given[k] = Circle!NormalizePodDistribution(d[k])
  BY <1>1
<1> HIDE DEF given
<1>8. /\ {"ShardAntiAffinity", "ReplicaAntiAffinity"} \subseteq Circle!ScopedTypes
      /\ "MaxNumberPerNode" \notin Circle!ScopedTypes /\ "NamespaceAffinity" \notin Circle!ScopedTypes
      /\ "ClickHouseInstallationAffinity" \notin Circle!ScopedTypes
      /\ "ClusterAffinity" \notin Circle!ScopedTypes /\ "PreviousTailAffinity" \notin Circle!ScopedTypes
  BY DEF Circle!ScopedTypes
<1>9. given[1] = OnHost("ShardAntiAffinity", "Cluster", 0)
  BY <1>1, <1>7, <1>8, NormalizedIs DEF Types
<1>10. given[2] = OnHost("ReplicaAntiAffinity", "Cluster", 0)
  BY <1>1, <1>7, <1>8, NormalizedIs DEF Types
<1>11. given[3] = OnHost("MaxNumberPerNode", Unsaid, 3)
  BY <1>1, <1>7, <1>8, NormalizedIs DEF Types
<1>12. given[4] = OnHost("NamespaceAffinity", Unsaid, 0)
  BY <1>1, <1>7, <1>8, NormalizedIs DEF Types
<1>13. given[5] = OnHost("ClickHouseInstallationAffinity", Unsaid, 0)
  BY <1>1, <1>7, <1>8, NormalizedIs DEF Types
<1>14. given[6] = OnHost("ClusterAffinity", Unsaid, 0)
  BY <1>1, <1>7, <1>8, NormalizedIs DEF Types
<1>15. given[7] = OnHost("PreviousTailAffinity", Unsaid, 0)
  BY <1>1, <1>7, <1>8, NormalizedIs DEF Types
<1>16. given \o << >> = given
  BY <1>7, NothingAfter
<1> QED
  BY <1>6, <1>7, <1>9, <1>10, <1>11, <1>12, <1>13, <1>14, <1>15, <1>16

\* A host by the places of its shard and its replica.
Three == 0 .. 2
Host(s, r) == [chi |-> "a", cluster |-> 1, shard |-> s, replica |-> r]

\* The hosts are those of three shards with three replicas.
LEMMA HostsAreNine ==
  /\ \A s, r \in Three : Host(s, r) \in Circle!Hosts
  /\ \A h \in Circle!Hosts : h.shard \in Three /\ h.replica \in Three /\ h = Host(h.shard, h.replica)
<1>1. \A s, r \in Three : Host(s, r) \in Circle!Hosts
  BY DEF Circle!Hosts, Host, Three
<1>2. ASSUME NEW h \in Circle!Hosts
      PROVE  h.shard \in Three /\ h.replica \in Three /\ h = Host(h.shard, h.replica)
  BY DEF Circle!Hosts, Host, Three
<1> QED
  BY <1>1, <1>2

\* Hosts in different places are different.
LEMMA AddressesDiffer ==
  \A s, r, t, q : Host(s, r) = Host(t, q) <=> s = t /\ r = q
BY DEF Host

\* Three Pods of the cluster may be on a node, so a cycle is a shard.
LEMMA CyclesAre ==
  ASSUME NEW s \in Three, NEW r \in Three
  PROVE  /\ Circle!ClusterScopeIndex(Host(s, r)) = 3 * s + r
         /\ Circle!ChiScopeIndex(Host(s, r)) = 3 * s + r
         /\ Circle!ClusterScopeCycleIndex(Host(s, r)) = s
         /\ Circle!PreviousCycleTail(Host(s, r)) = IF r = 0 /\ s # 0 THEN 3 * s - 1 ELSE 3 * s + r
<1> DEFINE p == Circle!PodDistribution
           at == {k \in DOMAIN p : p[k].type = "MaxNumberPerNode"}
<1>1. \A k \in 1 .. 7 : p[k].type = "MaxNumberPerNode" <=> k = 3
  <2>1. \A k \in 1 .. 7 : k = 1 \/ k = 2 \/ k = 3 \/ k = 4 \/ k = 5 \/ k = 6 \/ k = 7
    OBVIOUS
  <2>2. \A t, c, n : OnHost(t, c, n).type = t
    BY DEF OnHost, Circle!Item
  <2> QED
    BY <2>1, <2>2, DistributionIs
<1>2. at = {3}
  BY <1>1, DistributionIs
<1>3. Circle!Max(at) = 3
  BY <1>2 DEF Circle!Max
<1>4. p[3].number = 3
  BY DistributionIs DEF OnHost, Circle!Item
<1>5. Circle!MaxNumberOfPodsPerNode = IF at = {} THEN 0 ELSE p[Circle!Max(at)].number
  BY Zenon DEF Circle!MaxNumberOfPodsPerNode
<1>6. Circle!MaxNumberOfPodsPerNode = 3
  BY <1>2, <1>3, <1>4, <1>5
<1>7. Circle!CycleSize = 3
  BY <1>6 DEF Circle!CycleSize, Circle!HostsCount
<1>8. Host(s, r).shard = s /\ Host(s, r).replica = r /\ Host(s, r).cluster = 1
  BY DEF Host
<1>9. Circle!ClusterScopeIndex(Host(s, r)) = 3 * s + r
  BY <1>8 DEF Circle!ClusterScopeIndex, Three
<1>10. (3 * s + r) \div 3 = s /\ (3 * s + r) % 3 = r /\ (3 * s + r = 0 <=> s = 0 /\ r = 0)
  BY DEF Three
<1>11. Circle!ChiScopeIndex(Host(s, r)) = 3 * s + r
  BY <1>8, <1>9 DEF Circle!ChiScopeIndex, Three
<1>12. Circle!ClusterScopeCycleIndex(Host(s, r)) = s
  BY <1>7, <1>9, <1>10 DEF Circle!ClusterScopeCycleIndex
<1>13. Circle!ClusterScopeCycleOffset(Host(s, r)) = r
  BY <1>7, <1>9, <1>10 DEF Circle!ClusterScopeCycleOffset
<1> DEFINE h == Host(s, r)
<1>14. Circle!PreviousCycleTail(h) =
         IF Circle!ClusterScopeCycleOffset(h) = 0 /\ Circle!ClusterScopeIndex(h) # 0
         THEN Circle!ClusterScopeIndex(h) - 1 ELSE Circle!ClusterScopeIndex(h)
  BY DEF Circle!PreviousCycleTail
<1>15. /\ r = 0 => 3 * s + r - 1 = 3 * s - 1
       /\ 3 * s + r = 0 <=> s = 0 /\ r = 0
  BY DEF Three
<1>16. Circle!PreviousCycleTail(h) = IF r = 0 /\ s # 0 THEN 3 * s - 1 ELSE 3 * s + r
  <2> HIDE DEF h
  <2>1. Circle!ClusterScopeIndex(h) = 3 * s + r /\ Circle!ClusterScopeCycleOffset(h) = r
    BY <1>9, <1>13 DEF h
  <2>2. CASE r = 0 /\ s # 0
    BY <1>14, <1>15, <2>1, <2>2
  <2>3. CASE ~(r = 0 /\ s # 0)
    BY <1>14, <1>15, <2>1, <2>3
  <2> QED
    BY <2>2, <2>3
<1> QED
  BY <1>9, <1>11, <1>12, <1>16

\* The labels of a Pod.
ClusterLabels == {<<"namespace", "ns1">>, <<"chi", "a">>, <<"cluster", 1>>}
LabelsOf(s, r) ==
  {<<"app", "chop">>, <<"shard", s>>, <<"replica", r>>, <<"index", 3 * s + r>>, <<"cycle", s>>} \cup ClusterLabels

\* They are made of the address of the host.
LEMMA LabelsAre ==
  ASSUME NEW s \in Three, NEW r \in Three
  PROVE  Circle!LabelsHostScope(Host(s, r)) = LabelsOf(s, r)
<1> DEFINE h == Host(s, r)
<1>1. h.chi = "a" /\ h.cluster = 1 /\ h.shard = s /\ h.replica = r
  BY DEF Host
<1>2. [c \in {"a"} |-> "ns1"][h.chi] = "ns1"
  BY <1>1
<1>3. Circle!ClusterScopeIndex(h) = 3 * s + r /\ Circle!ClusterScopeCycleIndex(h) = s
  BY CyclesAre
<1> HIDE DEF h
<1>4. Circle!LabelsHostScope(h) =
        {<<"app", "chop">>, <<"namespace", "ns1">>, <<"chi", "a">>,
         <<"cluster", 1>>, <<"shard", s>>, <<"replica", r>>}
          \cup {<<"index", 3 * s + r>>, <<"cycle", s>>}
  BY <1>1, <1>2, <1>3, Zenon DEF Circle!LabelsHostScope
<1>5. Circle!LabelsHostScope(h) = LabelsOf(s, r)
  BY <1>4, Zenon DEF LabelsOf, ClusterLabels
<1> QED
  BY <1>5 DEF h

\* Labels that terms ask for.
LEMMA LabelsTell ==
  ASSUME NEW s \in Three, NEW r \in Three, NEW x
  PROVE  /\ <<"shard", x>> \in LabelsOf(s, r) <=> x = s
         /\ <<"replica", x>> \in LabelsOf(s, r) <=> x = r
         /\ <<"index", x>> \in LabelsOf(s, r) <=> x = 3 * s + r
         /\ <<"cycle", x>> \in LabelsOf(s, r) <=> x = s
         /\ ClusterLabels \subseteq LabelsOf(s, r)
<1>1. \A a, b, c, d : <<a, b>> = <<c, d>> <=> a = c /\ b = d
  OBVIOUS
<1> QED
  BY <1>1, Zenon DEF LabelsOf, ClusterLabels

\* The labels of a scope.
LEMMA OwnAre ==
  ASSUME NEW s \in Three, NEW r \in Three
  PROVE  /\ Circle!Own(Host(s, r), {"shard"}) = {<<"shard", s>>}
         /\ Circle!Own(Host(s, r), {"replica"}) = {<<"replica", r>>}
         /\ Circle!Own(Host(s, r), Circle!ScopeKeys("Cluster")) = ClusterLabels
         /\ Circle!Own(Host(s, r), Circle!ScopeKeys(Unsaid)) = {}
<1> DEFINE h == Host(s, r)
           l == LabelsOf(s, r)
<1>1. \A keys : Circle!Own(h, keys) = {x \in l : x[1] \in keys}
  BY LabelsAre, Zenon DEF Circle!Own
<1>2. Circle!ScopeKeys("Cluster") = {"namespace", "chi", "cluster"}
  BY DEF Circle!ScopeKeys
<1>3. Circle!ScopeKeys(Unsaid) = {}
  BY Zenon DEF Circle!ScopeKeys, Unsaid
<1> HIDE DEF h
<1>4. /\ {x \in l : x[1] \in {"shard"}} = {<<"shard", s>>}
      /\ {x \in l : x[1] \in {"replica"}} = {<<"replica", r>>}
  BY DEF LabelsOf, ClusterLabels
<1>5. {x \in l : x[1] \in {"namespace", "chi", "cluster"}} = ClusterLabels
  BY DEF LabelsOf, ClusterLabels
<1>6. {x \in l : x[1] \in {}} = {}
  OBVIOUS
<1> HIDE DEF l
<1> QED
  BY <1>1, <1>2, <1>3, <1>4, <1>5, <1>6 DEF h

ShardTerm(s) == Circle!Term({<<"shard", s>>} \cup ClusterLabels, {}, Circle!HostnameKey)
ReplicaTerm(r) == Circle!Term({<<"replica", r>>} \cup ClusterLabels, {}, Circle!HostnameKey)
CycleTerm(s) == Circle!Term({<<"cycle", s>>}, {}, Circle!HostnameKey)
IndexTerm(i) == Circle!Term({<<"index", i>>}, {}, Circle!HostnameKey)

\* A Pod keeps away from those of its shard, of its replica and of its cycle,
\* and goes where its tail is.
LEMMA TermsAre ==
  ASSUME NEW s \in Three, NEW r \in Three
  PROVE  /\ Circle!NewPodAntiAffinity(Host(s, r)) = {ShardTerm(s), ReplicaTerm(r), CycleTerm(s)}
         /\ Circle!NewPodAffinity(Host(s, r)) = {IndexTerm(Circle!PreviousCycleTail(Host(s, r)))}
<1> DEFINE h == Host(s, r)
           p == Circle!PodDistribution
           A(k) == Circle!AntiAffinityTerm(h, p[k])
<1>1. /\ \A t, c, n : OnHost(t, c, n).type = t /\ OnHost(t, c, n).scope = c
      /\ \A t, c, n : OnHost(t, c, n).key = Circle!HostnameKey
  BY DEF OnHost, Circle!Item
<1>2. Circle!ClusterScopeCycleIndex(h) = s
  BY CyclesAre
<1>3. /\ p[1].type = "ShardAntiAffinity" /\ p[2].type = "ReplicaAntiAffinity"
      /\ p[3].type = "MaxNumberPerNode" /\ p[4].type = "NamespaceAffinity"
      /\ p[5].type = "ClickHouseInstallationAffinity" /\ p[6].type = "ClusterAffinity"
      /\ p[7].type = "PreviousTailAffinity"
  BY <1>1, DistributionIs
<1>4. p[1].scope = "Cluster" /\ p[2].scope = "Cluster" /\ p[3].scope = Unsaid
  BY <1>1, DistributionIs
<1>5. /\ p[1].key = Circle!HostnameKey /\ p[2].key = Circle!HostnameKey
      /\ p[3].key = Circle!HostnameKey /\ p[7].key = Circle!HostnameKey
  BY <1>1, DistributionIs
<1>6. /\ Circle!Own(h, {"shard"}) = {<<"shard", s>>}
      /\ Circle!Own(h, {"replica"}) = {<<"replica", r>>}
      /\ Circle!Own(h, Circle!ScopeKeys("Cluster")) = ClusterLabels
      /\ Circle!Own(h, Circle!ScopeKeys(Unsaid)) = {}
  BY OwnAre
<1> HIDE DEF h, p
<1>7. A(1) = {ShardTerm(s)}
  BY <1>3, <1>4, <1>5, <1>6, Zenon DEF Circle!AntiAffinityTerm, Circle!NewMatchLabels, ShardTerm
<1>8. A(2) = {ReplicaTerm(r)}
  BY <1>3, <1>4, <1>5, <1>6, Zenon DEF Circle!AntiAffinityTerm, Circle!NewMatchLabels, ReplicaTerm
<1>9. A(3) = {CycleTerm(s)}
  <2>1. Circle!NewMatchLabels(h, p[3], {<<"cycle", s>>}) = {<<"cycle", s>>}
    BY <1>4, <1>6, Zenon DEF Circle!NewMatchLabels
  <2> QED
    BY <1>2, <1>3, <1>5, <2>1, Zenon DEF Circle!AntiAffinityTerm, CycleTerm
<1>10. A(4) = {} /\ A(5) = {} /\ A(6) = {} /\ A(7) = {}
  BY <1>3 DEF Circle!AntiAffinityTerm
<1>11. \A d : d \in Circle!Items <=> \E k \in 1 .. 7 : d = p[k]
  BY DistributionIs, Zenon DEF Circle!Items, Circle!ToSet, p
<1>12. \A k \in 1 .. 7 : k = 1 \/ k = 2 \/ k = 3 \/ k = 4 \/ k = 5 \/ k = 6 \/ k = 7
  OBVIOUS
<1>13. \A t : t \in Circle!NewPodAntiAffinity(h) <=> \E k \in 1 .. 7 : t \in A(k)
  BY <1>11, Zenon DEF Circle!NewPodAntiAffinity
<1>14. Circle!NewPodAntiAffinity(h) = {ShardTerm(s), ReplicaTerm(r), CycleTerm(s)}
  <2> HIDE DEF A
  <2> QED BY <1>7, <1>8, <1>9, <1>10, <1>12, <1>13
<1>15. {i \in Circle!Items : i.type = "PreviousTailAffinity"} = {p[7]}
  BY <1>3, <1>11, <1>12
<1>16. Circle!NewPodAffinity(h) = {IndexTerm(Circle!PreviousCycleTail(h))}
  BY <1>5, <1>15, Zenon DEF Circle!NewPodAffinity, IndexTerm
<1> QED
  BY <1>14, <1>16 DEF h

\* The Pods that a term selects.
LEMMA SelectsAre ==
  ASSUME NEW s \in Three, NEW r \in Three, NEW t \in Three, NEW q \in Three
  PROVE  /\ Circle!Selects(Host(s, r), ShardTerm(s), Host(t, q)) <=> t = s
         /\ Circle!Selects(Host(s, r), ReplicaTerm(r), Host(t, q)) <=> q = r
         /\ Circle!Selects(Host(s, r), CycleTerm(s), Host(t, q)) <=> t = s
         /\ \A i : Circle!Selects(Host(s, r), IndexTerm(i), Host(t, q)) <=> i = 3 * t + q
<1> DEFINE h == Host(s, r)
           o == Host(t, q)
           L == LabelsOf(t, q)
<1>1. h.chi = "a" /\ o.chi = "a" /\ Circle!LabelsHostScope(o) = L
  BY LabelsAre DEF Host
<1> HIDE DEF h, o
<1>2. ASSUME NEW m
      PROVE  Circle!Selects(h, Circle!Term(m, {}, Circle!HostnameKey), o) <=> m \subseteq L
  <2>1. /\ Circle!Term(m, {}, Circle!HostnameKey).match = m
        /\ Circle!Term(m, {}, Circle!HostnameKey).except = {}
    BY DEF Circle!Term
  <2> QED
    BY <1>1, <2>1, Zenon DEF Circle!Selects
<1>3. /\ \A x : <<"shard", x>> \in L <=> x = t
      /\ \A x : <<"replica", x>> \in L <=> x = q
      /\ \A x : <<"cycle", x>> \in L <=> x = t
      /\ ClusterLabels \subseteq L
  BY LabelsTell
<1>6. \A x : <<"index", x>> \in L <=> x = 3 * t + q
  BY LabelsTell
<1> HIDE DEF L
<1>7. /\ \A x, C : {x} \cup C \subseteq L <=> x \in L /\ C \subseteq L
      /\ \A x : {x} \subseteq L <=> x \in L
  OBVIOUS
<1>8. /\ {<<"shard", s>>} \cup ClusterLabels \subseteq L <=> <<"shard", s>> \in L
      /\ {<<"replica", r>>} \cup ClusterLabels \subseteq L <=> <<"replica", r>> \in L
      /\ {<<"cycle", s>>} \subseteq L <=> <<"cycle", s>> \in L
  BY <1>3, <1>7, Zenon
<1>9. \A i : {<<"index", i>>} \subseteq L <=> i = 3 * t + q
  BY <1>6, <1>7, Zenon
<1>4. \A i : Circle!Selects(h, IndexTerm(i), o) <=> i = 3 * t + q
  BY <1>2, <1>9, Zenon DEF IndexTerm
<1>5. /\ Circle!Selects(h, ShardTerm(s), o) <=> t = s
      /\ Circle!Selects(h, ReplicaTerm(r), o) <=> q = r
      /\ Circle!Selects(h, CycleTerm(s), o) <=> t = s
  BY <1>2, <1>3, <1>8, Zenon DEF ShardTerm, ReplicaTerm, CycleTerm
<1> QED
  BY <1>4, <1>5 DEF h, o

\* Who is placed, and where.
Sits(s, r) == pod[Host(s, r)] = "placed"
Seat(s, r) == node[Host(s, r)]

\* What a Pod may not be beside, and what the head of a cycle has to be beside.
Free(s, r, n) == \A t, q \in Three : Sits(t, q) /\ Seat(t, q) = n => t # s /\ q # r
TailAt(s, n) == \E t \in Three : s = t + 1 /\ Sits(t, 2) /\ Seat(t, 2) = n

\* A Pod that waits fits on a node without its shard and its replica, and the
\* head of a cycle where the tail of the one before is.
LEMMA FitsIs ==
  ASSUME NEW s \in Three, NEW r \in Three, ~Sits(s, r), NEW n
  PROVE  Circle!Fits(Host(s, r), n) <=> Free(s, r, n) /\ (r = 0 /\ s # 0 => TailAt(s, n))
<1> DEFINE h == Host(s, r)
           key == Circle!HostnameKey
           anti == Circle!NewPodAntiAffinity(h)
           i == Circle!PreviousCycleTail(h)
           Seated(t, q) == Sits(t, q) /\ Seat(t, q) = n
<1>1. /\ anti = {ShardTerm(s), ReplicaTerm(r), CycleTerm(s)}
      /\ Circle!NewPodAffinity(h) = {IndexTerm(i)}
  BY TermsAre
<1>2. i = IF r = 0 /\ s # 0 THEN 3 * s - 1 ELSE 3 * s + r
  BY CyclesAre
<1>3. \A x : ShardTerm(x).key = key /\ ReplicaTerm(x).key = key /\ CycleTerm(x).key = key /\ IndexTerm(x).key = key
  BY DEF ShardTerm, ReplicaTerm, CycleTerm, IndexTerm, Circle!Term
<1>4. \A o : o \in Circle!Placed <=> \E t, q \in Three : o = Host(t, q) /\ Sits(t, q)
  BY HostsAreNine DEF Circle!Placed, Sits
<1>5. \A o : o \in Circle!Beside(key, n) <=> \E t, q \in Three : o = Host(t, q) /\ Seated(t, q)
  <2>1. \A o : o \in Circle!Beside(key, n) <=> o \in Circle!Placed /\ node[o] = n
    BY Zenon DEF Circle!Beside, Circle!Domain
  <2>2. ASSUME NEW o, NEW t \in Three, NEW q \in Three, o = Host(t, q)
        PROVE  node[o] = Seat(t, q)
    BY <2>2 DEF Seat
  <2>3. ASSUME NEW o \in Circle!Beside(key, n) PROVE \E t, q \in Three : o = Host(t, q) /\ Seated(t, q)
    <3>1. PICK t \in Three, q \in Three : o = Host(t, q) /\ Sits(t, q)
      BY <1>4, <2>1, Zenon
    <3>2. node[o] = n /\ node[o] = Seat(t, q)
      BY <2>1, <2>2, <3>1
    <3>3. Seated(t, q)
      BY <3>1, <3>2
    <3> QED
      BY <3>1, <3>3, Zenon
  <2>4. ASSUME NEW o, NEW t \in Three, NEW q \in Three, o = Host(t, q), Seated(t, q)
        PROVE  o \in Circle!Beside(key, n)
    BY <1>4, <2>1, <2>2, <2>4, Zenon
  <2> QED
    BY <2>3, <2>4, Zenon
<1> HIDE DEF h, anti, i
<1>6. Circle!NodeSelectorTerms = {}
  BY DEF Circle!NodeSelectorTerms
<1>7. (\A t \in anti : \A o \in Circle!Beside(t.key, n) : ~Circle!Selects(h, t, o)) <=> Free(s, r, n)
  <2>1. (\A t \in anti : \A o \in Circle!Beside(t.key, n) : ~Circle!Selects(h, t, o)) <=>
          \A o \in Circle!Beside(key, n) :
             /\ ~Circle!Selects(h, ShardTerm(s), o) /\ ~Circle!Selects(h, ReplicaTerm(r), o)
             /\ ~Circle!Selects(h, CycleTerm(s), o)
    BY <1>1, <1>3, Zenon
  <2>2. \A t, q \in Three :
          /\ Circle!Selects(h, ShardTerm(s), Host(t, q)) <=> t = s
          /\ Circle!Selects(h, ReplicaTerm(r), Host(t, q)) <=> q = r
          /\ Circle!Selects(h, CycleTerm(s), Host(t, q)) <=> t = s
    BY SelectsAre DEF h
  <2> DEFINE Aside(o) == /\ ~Circle!Selects(h, ShardTerm(s), o) /\ ~Circle!Selects(h, ReplicaTerm(r), o)
                         /\ ~Circle!Selects(h, CycleTerm(s), o)
  <2>3. \A t, q \in Three : Aside(Host(t, q)) <=> t # s /\ q # r
    BY <2>2, Zenon
  <2> HIDE DEF Aside
  <2>4. ASSUME \A o \in Circle!Beside(key, n) : Aside(o) PROVE Free(s, r, n)
    <3>1. ASSUME NEW t \in Three, NEW q \in Three, Seated(t, q) PROVE t # s /\ q # r
      BY <1>5, <2>3, <2>4, <3>1, Zenon
    <3> QED
      BY <3>1, Zenon DEF Free
  <2>5. ASSUME Free(s, r, n), NEW o \in Circle!Beside(key, n) PROVE Aside(o)
    <3>1. PICK t \in Three, q \in Three : o = Host(t, q) /\ Seated(t, q)
      BY <1>5, Zenon
    <3>2. t # s /\ q # r
      BY <2>5, <3>1, Zenon DEF Free
    <3> QED
      BY <2>3, <3>1, <3>2, Zenon
  <2>6. (\A o \in Circle!Beside(key, n) : Aside(o)) <=> Free(s, r, n)
    BY <2>4, <2>5, Zenon
  <2> QED
    BY <2>1, <2>6, Zenon DEF Aside
<1>8. Free(s, r, n) =>
        \A o \in Circle!Placed : \A t \in Circle!NewPodAntiAffinity(o) :
           o \in Circle!Beside(t.key, n) => ~Circle!Selects(o, t, h)
  <2>1. ASSUME Free(s, r, n), NEW p \in Three, NEW q \in Three, Seated(p, q),
               NEW t \in Circle!NewPodAntiAffinity(Host(p, q))
        PROVE  ~Circle!Selects(Host(p, q), t, h)
    <3>1. p # s /\ q # r
      BY <2>1 DEF Free
    <3>2. t \in {ShardTerm(p), ReplicaTerm(q), CycleTerm(p)}
      BY <2>1, TermsAre, Zenon
    <3>3. /\ ~Circle!Selects(Host(p, q), ShardTerm(p), h) /\ ~Circle!Selects(Host(p, q), ReplicaTerm(q), h)
          /\ ~Circle!Selects(Host(p, q), CycleTerm(p), h)
      BY <3>1, SelectsAre DEF h
    <3> QED
      BY <3>2, <3>3
  <2>2. ASSUME NEW p \in Three, NEW q \in Three, NEW t \in Circle!NewPodAntiAffinity(Host(p, q))
        PROVE  t.key = key
    <3>1. t \in {ShardTerm(p), ReplicaTerm(q), CycleTerm(p)}
      BY <2>2, TermsAre, Zenon
    <3> QED
      BY <1>3, <3>1, Zenon
  <2>3. ASSUME NEW p \in Three, NEW q \in Three, Host(p, q) \in Circle!Beside(key, n) PROVE Seated(p, q)
    BY <1>5, <2>3, AddressesDiffer
  <2> SUFFICES ASSUME Free(s, r, n), NEW o \in Circle!Placed, NEW t \in Circle!NewPodAntiAffinity(o),
                      o \in Circle!Beside(t.key, n)
               PROVE  ~Circle!Selects(o, t, h)
    BY Zenon
  <2>4. PICK p \in Three, q \in Three : o = Host(p, q)
    BY <1>4, Zenon
  <2>5. t.key = key
    BY <2>2, <2>4, Zenon
  <2>6. Seated(p, q)
    BY <2>3, <2>4, <2>5, Zenon
  <2> QED
    BY <2>1, <2>4, <2>6, Zenon
<1>9. (\A t \in Circle!NewPodAffinity(h) :
         \/ \E o \in Circle!Beside(t.key, n) : Circle!Selects(h, t, o)
         \/ Circle!Selects(h, t, h) /\ ~\E o \in Circle!Placed : Circle!Selects(h, t, o))
      <=> (r = 0 /\ s # 0 => TailAt(s, n))
  <2> DEFINE S(o) == Circle!Selects(h, IndexTerm(i), o)
  <2>1. \A t, q \in Three : S(Host(t, q)) <=> i = 3 * t + q
    BY SelectsAre DEF h
  <2>2. (\A t \in Circle!NewPodAffinity(h) :
           \/ \E o \in Circle!Beside(t.key, n) : Circle!Selects(h, t, o)
           \/ Circle!Selects(h, t, h) /\ ~\E o \in Circle!Placed : Circle!Selects(h, t, o))
        <=> \/ \E o \in Circle!Beside(key, n) : S(o)
            \/ S(h) /\ ~\E o \in Circle!Placed : S(o)
    BY <1>1, <1>3, Zenon
  <2>3. (\E o \in Circle!Beside(key, n) : S(o)) <=> \E t, q \in Three : Seated(t, q) /\ i = 3 * t + q
    <3> HIDE DEF S
    <3>1. ASSUME NEW o \in Circle!Beside(key, n), S(o)
          PROVE  \E t, q \in Three : Seated(t, q) /\ i = 3 * t + q
      <4>1. PICK t \in Three, q \in Three : o = Host(t, q) /\ Seated(t, q)
        BY <1>5, <3>1, Zenon
      <4> QED
        BY <2>1, <3>1, <4>1, Zenon
    <3>2. ASSUME NEW t \in Three, NEW q \in Three, Seated(t, q), i = 3 * t + q
          PROVE  \E o \in Circle!Beside(key, n) : S(o)
      BY <1>5, <2>1, <3>2, Zenon
    <3> QED
      BY <3>1, <3>2, Zenon
  <2>4. (\E o \in Circle!Placed : S(o)) <=> \E t, q \in Three : Sits(t, q) /\ i = 3 * t + q
    <3> HIDE DEF S
    <3>1. ASSUME NEW o \in Circle!Placed, S(o)
          PROVE  \E t, q \in Three : Sits(t, q) /\ i = 3 * t + q
      <4>1. PICK t \in Three, q \in Three : o = Host(t, q) /\ Sits(t, q)
        BY <1>4, <3>1, Zenon
      <4> QED
        BY <2>1, <3>1, <4>1, Zenon
    <3>2. ASSUME NEW t \in Three, NEW q \in Three, Sits(t, q), i = 3 * t + q
          PROVE  \E o \in Circle!Placed : S(o)
      BY <1>4, <2>1, <3>2, Zenon
    <3> QED
      BY <3>1, <3>2, Zenon
  <2>5. S(h) <=> i = 3 * s + r
    BY <2>1 DEF h
  <2> HIDE DEF S
  <2>6. CASE r = 0 /\ s # 0
    <3>1. i = 3 * s - 1
      BY <1>2, <2>6
    <3>2. i # 3 * s + r
      BY <2>6, <3>1 DEF Three
    <3>3. \A t, q \in Three : i = 3 * t + q <=> s = t + 1 /\ q = 2
      BY <3>1 DEF Three
    <3>4. 2 \in Three
      BY DEF Three
    <3>5. (\E t, q \in Three : Seated(t, q) /\ i = 3 * t + q) <=> TailAt(s, n)
      BY <3>3, <3>4, Zenon DEF TailAt
    <3> QED
      BY <2>2, <2>3, <2>5, <2>6, <3>2, <3>5, Zenon
  <2>7. CASE ~(r = 0 /\ s # 0)
    <3>1. i = 3 * s + r
      BY <1>2, <2>7
    <3>2. \A t, q \in Three : i = 3 * t + q <=> t = s /\ q = r
      BY <3>1 DEF Three
    <3>3. ~\E t, q \in Three : Sits(t, q) /\ i = 3 * t + q
      BY <3>2, Zenon
    <3> QED
      BY <2>2, <2>4, <2>5, <2>7, <3>1, <3>3, Zenon
  <2> QED
    BY <2>6, <2>7
<1>10. Circle!Fits(h, n) <=>
         /\ \A t \in anti : \A o \in Circle!Beside(t.key, n) : ~Circle!Selects(h, t, o)
         /\ \A o \in Circle!Placed : \A t \in Circle!NewPodAntiAffinity(o) :
              o \in Circle!Beside(t.key, n) => ~Circle!Selects(o, t, h)
         /\ \A t \in Circle!NewPodAffinity(h) :
              \/ \E o \in Circle!Beside(t.key, n) : Circle!Selects(h, t, o)
              \/ Circle!Selects(h, t, h) /\ ~\E o \in Circle!Placed : Circle!Selects(h, t, o)
  BY <1>6, Zenon DEF Circle!Fits, anti
<1>11. Circle!Fits(h, n) <=> Free(s, r, n) /\ (r = 0 /\ s # 0 => TailAt(s, n))
  BY <1>7, <1>8, <1>9, <1>10, Zenon
<1> QED
  BY <1>11 DEF h

\* Three nodes leave one for a third Pod.
LEMMA Third ==
  ASSUME ThreeNodes, NEW a, NEW b
  PROVE  \E n \in Nodes : n # a /\ n # b
BY DEF ThreeNodes

\* The second shard sits like the first, one replica further, if its head sits
\* with the tail of the first.
LEMMA NextShard ==
  ASSUME ThreeNodes,
         NEW a \in Nodes, NEW b \in Nodes, NEW c \in Nodes, a # b, b # c, a # c,
         NEW d \in Nodes, d # b, d # c
  PROVE  d = a /\ \A e \in Nodes : e # c /\ e # d => e = b
BY DEF ThreeNodes

\* If nine Pods sit so that no two of a shard (a row) or a replica are on one
\* node, the second shard follows the first if the third follows the second.
LEMMA TailsAgree ==
  ASSUME ThreeNodes, NEW A, \A x, y \in Three : A[x][y] \in Nodes,
         \A x, y, z \in Three : y # z => A[x][y] # A[x][z] /\ A[y][x] # A[z][x]
  PROVE  A[1][0] = A[0][2] <=> A[2][0] = A[1][2]
<1>1. PICK x, y, z : x # y /\ y # z /\ x # z /\ Nodes = {x, y, z}
  BY DEF ThreeNodes
<1>2. 0 \in Three /\ 1 \in Three /\ 2 \in Three
  BY DEF Three
<1>3. /\ A[0][0] \in Nodes /\ A[0][1] \in Nodes /\ A[0][2] \in Nodes
      /\ A[1][0] \in Nodes /\ A[1][1] \in Nodes /\ A[1][2] \in Nodes
      /\ A[2][0] \in Nodes /\ A[2][1] \in Nodes /\ A[2][2] \in Nodes
  BY <1>2
<1>4. /\ A[0][0] # A[0][1] /\ A[0][0] # A[0][2] /\ A[0][1] # A[0][2]
      /\ A[1][0] # A[1][1] /\ A[1][0] # A[1][2] /\ A[1][1] # A[1][2]
      /\ A[2][0] # A[2][1] /\ A[2][0] # A[2][2] /\ A[2][1] # A[2][2]
  BY <1>2
<1>5. /\ A[0][0] # A[1][0] /\ A[0][0] # A[2][0] /\ A[1][0] # A[2][0]
      /\ A[0][1] # A[1][1] /\ A[0][1] # A[2][1] /\ A[1][1] # A[2][1]
      /\ A[0][2] # A[1][2] /\ A[0][2] # A[2][2] /\ A[1][2] # A[2][2]
  BY <1>2
<1>6. ASSUME A[1][0] = A[0][2] PROVE A[2][0] = A[1][2]
  <2>1. A[1][1] = A[0][0] /\ A[1][2] = A[0][1]
    BY <1>1, <1>3, <1>4, <1>5, <1>6
  <2> QED
    BY <1>1, <1>3, <1>4, <1>5, <1>6, <2>1
<1>7. ASSUME A[2][0] = A[1][2] PROVE A[1][0] = A[0][2]
  <2>1. A[2][1] = A[1][0] /\ A[2][2] = A[1][1]
    BY <1>1, <1>3, <1>4, <1>5, <1>7
  <2>2. A[1][0] # A[0][0] /\ A[1][0] # A[0][1]
    BY <1>5, <2>1
  <2> QED
    BY <1>1, <1>3, <1>4, <2>2
<1> QED
  BY <1>6, <1>7

-----------------------------------------------------------------------------
(* The nodes of Pods: no step takes the last place of another              *)

Sooner(s, p, t, q) == 3 * s + p < 3 * t + q

\* Pods are made in turn, each when those before it are placed.
InTurn ==
  \A s, p, t, q \in Three : Sooner(s, p, t, q) =>
    /\ pod[Host(t, q)] # "none" => pod[Host(s, p)] # "none"
    /\ pod[Host(t, q)] = "pending" => Sits(s, p)

\* A Pod that waits is the next one or the only one that is out.
Alone ==
  \A s, p \in Three : pod[Host(s, p)] = "pending" =>
    \/ \A t, q \in Three : Sooner(s, p, t, q) => pod[Host(t, q)] = "none"
    \/ \A t, q \in Three : ~(t = s /\ q = p) => Sits(t, q)

\* Pods of a shard, and Pods of a replica, are on nodes of their own.
Spread ==
  /\ \A s, p \in Three : Sits(s, p) => Seat(s, p) \in Nodes
  /\ \A s, p, q \in Three : p # q /\ Sits(s, p) /\ Sits(s, q) => Seat(s, p) # Seat(s, q)
  /\ \A s, t, p \in Three : s # t /\ Sits(s, p) /\ Sits(t, p) => Seat(s, p) # Seat(t, p)

\* The head of a shard is where the tail of the one before is.
Tailed == \A s, t \in Three : s = t + 1 /\ Sits(s, 0) /\ Sits(t, 2) => Seat(s, 0) = Seat(t, 2)

PodsShape ==
  /\ pod \in [Circle!Hosts -> {"none", "pending", "placed"}]
  /\ node \in [Circle!Hosts -> Nodes \cup {None}]

Circular == PodsShape /\ InTurn /\ Alone /\ Spread /\ Tailed

\* The only Pod that is out finds a node.
LEMMA RoomToReturn ==
  ASSUME ThreeNodes, Spread, Tailed, NEW s \in Three, NEW r \in Three, ~Sits(s, r),
         \A t, q \in Three : ~(t = s /\ q = r) => Sits(t, q)
  PROVE  \E n \in Nodes : Free(s, r, n) /\ (r = 0 /\ s # 0 => TailAt(s, n))
<1>1. PICK t \in Three, u \in Three : t # s /\ u # s /\ t # u /\ \A x \in Three : x = s \/ x = t \/ x = u
  <2>1. s = 0 \/ s = 1 \/ s = 2
    BY DEF Three
  <2>2. 0 \in Three /\ 1 \in Three /\ 2 \in Three /\ \A x \in Three : x = 0 \/ x = 1 \/ x = 2
    BY DEF Three
  <2> QED
    BY <2>1, <2>2
<1>2. PICK p \in Three, q \in Three : p # r /\ q # r /\ p # q /\ \A x \in Three : x = r \/ x = p \/ x = q
  <2>1. r = 0 \/ r = 1 \/ r = 2
    BY DEF Three
  <2>2. 0 \in Three /\ 1 \in Three /\ 2 \in Three /\ \A x \in Three : x = 0 \/ x = 1 \/ x = 2
    BY DEF Three
  <2> QED
    BY <2>1, <2>2
<1>3. /\ Sits(s, p) /\ Sits(s, q) /\ Sits(t, r) /\ Sits(t, p) /\ Sits(t, q)
      /\ Sits(u, r) /\ Sits(u, p) /\ Sits(u, q)
  BY <1>1, <1>2
<1>4. /\ Seat(s, p) \in Nodes /\ Seat(s, q) \in Nodes /\ Seat(t, r) \in Nodes /\ Seat(t, p) \in Nodes
      /\ Seat(t, q) \in Nodes /\ Seat(u, r) \in Nodes /\ Seat(u, p) \in Nodes /\ Seat(u, q) \in Nodes
  BY <1>3 DEF Spread
<1>5. /\ Seat(s, p) # Seat(s, q) /\ Seat(t, r) # Seat(t, p) /\ Seat(t, r) # Seat(t, q) /\ Seat(t, p) # Seat(t, q)
      /\ Seat(u, r) # Seat(u, p) /\ Seat(u, r) # Seat(u, q) /\ Seat(u, p) # Seat(u, q)
  BY <1>2, <1>3 DEF Spread
<1>6. /\ Seat(t, r) # Seat(u, r) /\ Seat(s, p) # Seat(t, p) /\ Seat(s, p) # Seat(u, p) /\ Seat(t, p) # Seat(u, p)
      /\ Seat(s, q) # Seat(t, q) /\ Seat(s, q) # Seat(u, q) /\ Seat(t, q) # Seat(u, q)
  BY <1>1, <1>3 DEF Spread
<1>7. PICK n \in Nodes : n # Seat(s, p) /\ n # Seat(s, q) /\ n # Seat(t, r) /\ n # Seat(u, r)
  <2>1. PICK x, y, z : x # y /\ y # z /\ x # z /\ Nodes = {x, y, z}
    BY DEF ThreeNodes
  <2>2. PICK n \in Nodes : n # Seat(s, p) /\ n # Seat(s, q)
    BY Third
  <2>3. n # Seat(t, r)
    <3>1. SUFFICES ASSUME n = Seat(t, r) PROVE FALSE
      OBVIOUS
    <3>2. Seat(u, p) = n /\ Seat(u, q) = n
      BY <1>4, <1>5, <1>6, <2>1, <2>2, <3>1
    <3> QED
      BY <1>5, <3>2
  <2>4. n # Seat(u, r)
    <3>1. SUFFICES ASSUME n = Seat(u, r) PROVE FALSE
      OBVIOUS
    <3>2. Seat(t, p) = n /\ Seat(t, q) = n
      BY <1>4, <1>5, <1>6, <2>1, <2>2, <3>1
    <3> QED
      BY <1>5, <3>2
  <2> QED
    BY <2>2, <2>3, <2>4
<1>8. Free(s, r, n)
  <2>1. ASSUME NEW x \in Three, NEW y \in Three, Sits(x, y), Seat(x, y) = n PROVE x # s /\ y # r
    BY <1>1, <1>2, <1>7, <2>1
  <2> QED
    BY <2>1, Zenon DEF Free
<1>9. ASSUME r = 0, s # 0 PROVE TailAt(s, n)
  <2> DEFINE A == [x \in Three |-> [y \in Three |-> IF x = s /\ y = r THEN n ELSE Seat(x, y)]]
  <2>9. \A x, y \in Three : A[x][y] = IF x = s /\ y = r THEN n ELSE Seat(x, y)
    OBVIOUS
  <2> HIDE DEF A
  <2>1. \A x, y \in Three : A[x][y] \in Nodes
    BY <1>1, <1>2, <1>4, <2>9
  <2>2. \A x, y, z \in Three : y # z => A[x][y] # A[x][z] /\ A[y][x] # A[z][x]
    <3>1. ASSUME NEW x \in Three, NEW y \in Three, NEW z \in Three, y # z PROVE A[x][y] # A[x][z]
      BY <1>1, <1>2, <1>3, <1>5, <1>7, <2>9, <3>1 DEF Spread
    <3>2. ASSUME NEW x \in Three, NEW y \in Three, NEW z \in Three, y # z PROVE A[y][x] # A[z][x]
      BY <1>1, <1>2, <1>3, <1>6, <1>7, <2>9, <3>2 DEF Spread
    <3> QED
      BY <3>1, <3>2
  <2>3. 0 \in Three /\ 1 \in Three /\ 2 \in Three /\ 0 # 1 /\ 1 # 2 /\ 0 # 2 /\ (s = 1 \/ s = 2)
    BY <1>9 DEF Three
  <2>4. (s = 1 => A[2][0] = A[1][2]) /\ (s = 2 => A[1][0] = A[0][2])
    <3>1. ASSUME s = 1 PROVE A[2][0] = A[1][2]
      BY <1>9, <2>3, <2>9, <3>1 DEF Tailed
    <3>2. ASSUME s = 2 PROVE A[1][0] = A[0][2]
      BY <1>9, <2>3, <2>9, <3>2 DEF Tailed
    <3> QED
      BY <3>1, <3>2
  <2>5. A[s][0] = n /\ (s = 1 => A[0][2] = Seat(0, 2)) /\ (s = 2 => A[1][2] = Seat(1, 2))
    BY <1>9, <2>3, <2>9
  <2>6. A[1][0] = A[0][2] <=> A[2][0] = A[1][2]
    BY <2>1, <2>2, TailsAgree
  <2>7. s = 1 => Seat(0, 2) = n /\ Sits(0, 2)
    BY <2>3, <2>4, <2>5, <2>6
  <2>8. s = 2 => Seat(1, 2) = n /\ Sits(1, 2)
    BY <2>3, <2>4, <2>5, <2>6
  <2> QED
    BY <2>3, <2>7, <2>8 DEF TailAt
<1> QED
  BY <1>8, <1>9

\* The next Pod finds a node.
LEMMA RoomForNext ==
  ASSUME ThreeNodes, Spread, Tailed, NEW s \in Three, NEW r \in Three, ~(s = 2 /\ r = 2),
         \A t, q \in Three : Sooner(t, q, s, r) <=> Sits(t, q)
  PROVE  \E n \in Nodes : Free(s, r, n) /\ (r = 0 /\ s # 0 => TailAt(s, n))
<1>1. 0 \in Three /\ 1 \in Three /\ 2 \in Three /\ \A x \in Three : x = 0 \/ x = 1 \/ x = 2
  BY DEF Three
<1>2. \A t, q \in Three : Sits(t, q) => t # s \/ q # r
  BY DEF Sooner, Three
<1>3. CASE s = 0
  <2>1. PICK n \in Nodes : n # Seat(0, 0) /\ n # Seat(0, 1)
    BY Third
  <2>2. \A t, q \in Three : Sits(t, q) => t = 0 /\ (q = 0 \/ q = 1) /\ q # r
    BY <1>3 DEF Sooner, Three
  <2>3. Free(s, r, n)
    BY <2>1, <2>2 DEF Free
  <2> QED
    BY <1>3, <2>3
<1>4. CASE s = 1
  <2>1. Sits(0, 0) /\ Sits(0, 1) /\ Sits(0, 2)
    BY <1>1, <1>4 DEF Sooner, Three
  <2>2. \A t, q \in Three : Sits(t, q) => t = 0 \/ (t = 1 /\ (q = 0 \/ q = 1) /\ (q = 0 => r # 0) /\ (q = 1 => r = 2))
    BY <1>4 DEF Sooner, Three
  <2>3. /\ Seat(0, 0) \in Nodes /\ Seat(0, 1) \in Nodes /\ Seat(0, 2) \in Nodes
        /\ Seat(0, 0) # Seat(0, 1) /\ Seat(0, 0) # Seat(0, 2) /\ Seat(0, 1) # Seat(0, 2)
    BY <1>1, <2>1 DEF Spread
  <2>4. Sits(1, 0) => Seat(1, 0) = Seat(0, 2)
    BY <1>1, <2>1 DEF Tailed
  <2>5. Sits(1, 1) => Seat(1, 1) = Seat(0, 0)
    <3>1. SUFFICES ASSUME Sits(1, 1) PROVE Seat(1, 1) = Seat(0, 0)
      OBVIOUS
    <3>2. Sits(1, 0)
      BY <1>1, <1>4, <3>1 DEF Sooner, Three
    <3>3. Seat(1, 1) \in Nodes /\ Seat(1, 1) # Seat(0, 1) /\ Seat(1, 1) # Seat(1, 0)
      BY <1>1, <2>1, <3>1, <3>2 DEF Spread
    <3> QED
      BY <2>3, <2>4, <3>2, <3>3, NextShard
  <2>6. CASE r = 0
    <3>1. \A t, q \in Three : Sits(t, q) => t = 0
      BY <2>2, <2>6
    <3>2. \A q \in Three : Seat(0, q) = Seat(0, 2) => q # 0
      BY <2>3
    <3>3. Free(s, r, Seat(0, 2))
      BY <1>4, <2>6, <3>1, <3>2 DEF Free
    <3>4. TailAt(s, Seat(0, 2))
      BY <1>1, <1>4, <2>1 DEF TailAt
    <3> QED
      BY <2>3, <3>3, <3>4
  <2>7. CASE r = 1
    <3>1. \A t, q \in Three : Sits(t, q) => t = 0 \/ (t = 1 /\ q = 0)
      BY <2>2, <2>7
    <3>2. \A t, q \in Three : Sits(t, q) /\ Seat(t, q) = Seat(0, 0) => t # 1 /\ q # 1
      BY <1>1, <2>3, <2>4, <3>1
    <3>3. Free(s, r, Seat(0, 0))
      BY <1>4, <2>7, <3>2 DEF Free
    <3> QED
      BY <2>3, <2>7, <3>3
  <2>8. CASE r = 2
    <3>1. \A t, q \in Three : Sits(t, q) => t = 0 \/ (t = 1 /\ (q = 0 \/ q = 1))
      BY <2>2, <2>8
    <3>2. \A t, q \in Three : Sits(t, q) /\ Seat(t, q) = Seat(0, 1) => t # 1 /\ q # 2
      BY <1>1, <2>3, <2>4, <2>5, <3>1
    <3>3. Free(s, r, Seat(0, 1))
      BY <1>4, <2>8, <3>2 DEF Free
    <3> QED
      BY <2>3, <2>8, <3>3
  <2> QED
    BY <1>1, <2>6, <2>7, <2>8
<1>5. CASE s = 2
  <2>1. /\ Sits(0, 0) /\ Sits(0, 1) /\ Sits(0, 2)
        /\ Sits(1, 0) /\ Sits(1, 1) /\ Sits(1, 2)
    BY <1>1, <1>5 DEF Sooner, Three
  <2>2. \A t, q \in Three : Sits(t, q) => t = 0 \/ t = 1 \/ (t = 2 /\ q = 0 /\ r = 1)
    BY <1>5 DEF Sooner, Three
  <2>3. /\ Seat(0, 0) \in Nodes /\ Seat(0, 1) \in Nodes /\ Seat(0, 2) \in Nodes
        /\ Seat(0, 0) # Seat(0, 1) /\ Seat(0, 0) # Seat(0, 2) /\ Seat(0, 1) # Seat(0, 2)
    BY <1>1, <2>1 DEF Spread
  <2>4. /\ Seat(1, 0) \in Nodes /\ Seat(1, 1) \in Nodes /\ Seat(1, 2) \in Nodes
        /\ Seat(1, 0) # Seat(1, 1) /\ Seat(1, 0) # Seat(1, 2) /\ Seat(1, 1) # Seat(1, 2)
        /\ Seat(1, 0) # Seat(0, 0) /\ Seat(1, 1) # Seat(0, 1) /\ Seat(1, 2) # Seat(0, 2)
    BY <1>1, <2>1 DEF Spread
  <2>5. Seat(1, 0) = Seat(0, 2)
    BY <1>1, <2>1 DEF Tailed
  <2>6. Seat(1, 1) = Seat(0, 0)
    BY <2>3, <2>4, <2>5, NextShard
  <2>7. Seat(1, 2) = Seat(0, 1)
    BY <2>3, <2>4, <2>5, <2>6 DEF ThreeNodes
  <2>8. Sits(2, 0) => Seat(2, 0) = Seat(1, 2)
    BY <1>1, <2>1 DEF Tailed
  <2>9. CASE r = 0
    <3>1. \A t, q \in Three : Sits(t, q) => t = 0 \/ t = 1
      BY <2>2, <2>9
    <3>2. \A t, q \in Three : Sits(t, q) /\ Seat(t, q) = Seat(1, 2) => t # 2 /\ q # 0
      BY <2>3, <2>4, <2>7, <3>1
    <3>3. Free(s, r, Seat(1, 2))
      BY <1>5, <2>9, <3>2 DEF Free
    <3>4. TailAt(s, Seat(1, 2))
      BY <1>1, <1>5, <2>1 DEF TailAt
    <3> QED
      BY <2>4, <3>3, <3>4
  <2>10. CASE r = 1
    <3>1. \A t, q \in Three : Sits(t, q) => t = 0 \/ t = 1 \/ (t = 2 /\ q = 0)
      BY <2>2, <2>10
    <3>2. \A t, q \in Three : Sits(t, q) /\ Seat(t, q) = Seat(1, 0) => t # 2 /\ q # 1
      BY <1>1, <2>3, <2>4, <2>5, <2>8, <3>1
    <3>3. Free(s, r, Seat(1, 0))
      BY <1>5, <2>10, <3>2 DEF Free
    <3> QED
      BY <2>4, <2>10, <3>3
  <2> QED
    BY <1>1, <1>5, <2>9, <2>10
<1> QED
  BY <1>1, <1>3, <1>4, <1>5

\* A Pod that waits finds a node.
LEMMA Room ==
  ASSUME ThreeNodes, Circular, NEW s \in Three, NEW r \in Three, pod[Host(s, r)] = "pending"
  PROVE  \E n \in Nodes : Free(s, r, n) /\ (r = 0 /\ s # 0 => TailAt(s, n))
<1>1. ~Sits(s, r) /\ \A t, q \in Three : Sooner(t, q, s, r) => Sits(t, q)
  BY DEF Circular, InTurn, Sits
<1>2. CASE \A t, q \in Three : ~(t = s /\ q = r) => Sits(t, q)
  BY <1>1, <1>2, RoomToReturn DEF Circular
<1>3. CASE \A t, q \in Three : Sooner(s, r, t, q) => pod[Host(t, q)] = "none"
  <2>1. CASE s = 2 /\ r = 2
    <3>1. \A t, q \in Three : ~(t = s /\ q = r) => Sooner(t, q, s, r)
      BY <2>1 DEF Sooner, Three
    <3> QED
      BY <1>1, <1>2, <3>1
  <2>2. CASE ~(s = 2 /\ r = 2)
    <3>1. \A t, q \in Three : (t = s /\ q = r) \/ Sooner(t, q, s, r) \/ Sooner(s, r, t, q)
      BY DEF Sooner, Three
    <3>2. \A t, q \in Three : ~(Sooner(t, q, s, r) /\ Sooner(s, r, t, q)) /\ ~Sooner(s, r, s, r)
      BY DEF Sooner, Three
    <3>3. \A t, q \in Three : Sooner(t, q, s, r) <=> Sits(t, q)
      BY <1>1, <1>3, <3>1, <3>2 DEF Sits
    <3> QED
      BY <2>2, <3>3, RoomForNext DEF Circular
  <2> QED
    BY <2>1, <2>2
<1> QED
  BY <1>2, <1>3 DEF Circular, Alone

\* A Pod that is given another state leaves the states of the others.
LEMMA PodSet ==
  ASSUME PodsShape, NEW s \in Three, NEW r \in Three,
         NEW v \in {"none", "pending", "placed"}, pod' = [pod EXCEPT ![Host(s, r)] = v]
  PROVE  /\ pod' \in [Circle!Hosts -> {"none", "pending", "placed"}]
         /\ pod'[Host(s, r)] = v
         /\ \A t, q \in Three : ~(t = s /\ q = r) => pod'[Host(t, q)] = pod[Host(t, q)]
<1>1. /\ Host(s, r) \in Circle!Hosts
      /\ \A t, q \in Three : Host(t, q) \in Circle!Hosts /\ (~(t = s /\ q = r) => Host(t, q) # Host(s, r))
  BY HostsAreNine, AddressesDiffer
<1>2. pod'[Host(s, r)] = v /\ \A o \in Circle!Hosts : o # Host(s, r) => pod'[o] = pod[o]
  BY <1>1 DEF PodsShape
<1>3. pod' \in [Circle!Hosts -> {"none", "pending", "placed"}]
  BY DEF PodsShape
<1> QED
  BY <1>1, <1>2, <1>3

\* So it is with nodes.
LEMMA NodeSet ==
  ASSUME PodsShape, NEW s \in Three, NEW r \in Three,
         NEW w \in Nodes \cup {None}, node' = [node EXCEPT ![Host(s, r)] = w]
  PROVE  /\ node' \in [Circle!Hosts -> Nodes \cup {None}]
         /\ node'[Host(s, r)] = w
         /\ \A t, q \in Three : ~(t = s /\ q = r) => node'[Host(t, q)] = node[Host(t, q)]
<1>1. /\ Host(s, r) \in Circle!Hosts
      /\ \A t, q \in Three : Host(t, q) \in Circle!Hosts /\ (~(t = s /\ q = r) => Host(t, q) # Host(s, r))
  BY HostsAreNine, AddressesDiffer
<1>2. node'[Host(s, r)] = w /\ \A o \in Circle!Hosts : o # Host(s, r) => node'[o] = node[o]
  BY <1>1 DEF PodsShape
<1>3. node' \in [Circle!Hosts -> Nodes \cup {None}]
  BY DEF PodsShape
<1> QED
  BY <1>1, <1>2, <1>3

\* The pass makes the next Pod.
LEMMA CircularCreate ==
  ASSUME Circular, NEW h \in Circle!Hosts, Circle!CreateStatefulSet(h)
  PROVE  Circular'
<1>1. PICK s \in Three, r \in Three : h = Host(s, r)
  BY HostsAreNine
<1>2. /\ pod[Host(s, r)] = "none"
      /\ pod' = [pod EXCEPT ![Host(s, r)] = "pending"] /\ node' = node
  BY <1>1 DEF Circle!CreateStatefulSet
<1>3. \A t, q \in Three : Sooner(t, q, s, r) => pod[Host(t, q)] # "none"
  <2>1. \A o \in Circle!Hosts : o.chi = h.chi /\ Circle!ChiScopeIndex(o) < Circle!ChiScopeIndex(h) => pod[o] # "none"
    BY DEF Circle!CreateStatefulSet
  <2>2. \A t, q \in Three : Host(t, q) \in Circle!Hosts /\ Host(t, q).chi = h.chi
                            /\ Circle!ChiScopeIndex(Host(t, q)) = 3 * t + q
    BY <1>1, HostsAreNine, CyclesAre DEF Host
  <2> QED
    BY <1>1, <2>1, <2>2 DEF Sooner
<1>4. \A t, q \in Three : 3 * t + q = 3 * s + r - 1 => Sits(t, q)
  <2>1. \A o \in Circle!Hosts : o.chi = h.chi /\ Circle!ChiScopeIndex(o) = Circle!ChiScopeIndex(h) - 1 => pod[o] = "placed"
    BY DEF Circle!CreateStatefulSet
  <2>2. \A t, q \in Three : Host(t, q) \in Circle!Hosts /\ Host(t, q).chi = h.chi
                            /\ Circle!ChiScopeIndex(Host(t, q)) = 3 * t + q
    BY <1>1, HostsAreNine, CyclesAre DEF Host
  <2>3. Circle!ChiScopeIndex(h) = 3 * s + r
    BY <1>1, <2>2
  <2>4. ASSUME NEW t \in Three, NEW q \in Three, 3 * t + q = 3 * s + r - 1 PROVE pod[Host(t, q)] = "placed"
    <3>1. Circle!ChiScopeIndex(Host(t, q)) = Circle!ChiScopeIndex(h) - 1
      <4>1. Circle!ChiScopeIndex(Host(t, q)) = 3 * t + q
        BY <2>2
      <4> QED
        BY <2>3, <2>4, <4>1 DEF Three
    <3> QED
      BY <2>1, <2>2, <3>1
  <2> QED
    BY <2>4 DEF Sits
<1>5. \A t, q \in Three : pod[Host(t, q)] \in {"none", "pending", "placed"}
  BY HostsAreNine DEF Circular, PodsShape
<1>6. \A t, q \in Three : Sooner(s, r, t, q) => pod[Host(t, q)] = "none"
  BY <1>2 DEF Circular, InTurn
<1>7. \A t, q \in Three : (t = s /\ q = r) \/ Sooner(t, q, s, r) \/ Sooner(s, r, t, q)
  BY DEF Sooner, Three
<1>8. \A t, q \in Three : ~(Sooner(t, q, s, r) /\ Sooner(s, r, t, q)) /\ ~Sooner(t, q, t, q)
  BY DEF Sooner, Three
<1>9. ASSUME NEW t \in Three, NEW q \in Three, Sooner(t, q, s, r) PROVE Sits(t, q)
  <2>1. SUFFICES ASSUME pod[Host(t, q)] = "pending" PROVE FALSE
    BY <1>3, <1>5, <1>9 DEF Sits
  <2>2. PICK u \in Three, x \in Three : 3 * u + x = 3 * s + r - 1
    <3>1. CASE r = 0
      <4>1. s - 1 \in Three /\ 2 \in Three /\ 3 * (s - 1) + 2 = 3 * s + r - 1
        BY <1>9, <3>1 DEF Sooner, Three
      <4> QED
        BY <4>1
    <3>2. CASE r # 0
      <4>1. r - 1 \in Three /\ 3 * s + (r - 1) = 3 * s + r - 1
        BY <3>2 DEF Three
      <4> QED
        BY <4>1
    <3> QED
      BY <3>1, <3>2
  <2>3. Sits(u, x)
    BY <1>4, <2>2
  <2>4. (t = u /\ q = x) \/ Sooner(t, q, u, x)
    BY <1>9, <2>2 DEF Sooner, Three
  <2>5. Sooner(t, q, u, x)
    BY <2>1, <2>3, <2>4 DEF Sits
  <2>6. \/ \A v, y \in Three : Sooner(t, q, v, y) => pod[Host(v, y)] = "none"
        \/ \A v, y \in Three : ~(v = t /\ y = q) => Sits(v, y)
    BY <2>1 DEF Circular, Alone
  <2>7. ~(s = t /\ r = q)
    BY <1>8, <1>9
  <2> QED
    BY <1>2, <2>3, <2>5, <2>6, <2>7 DEF Sits
<1>10. /\ PodsShape' /\ pod'[Host(s, r)] = "pending"
       /\ \A t, q \in Three : ~(t = s /\ q = r) => pod'[Host(t, q)] = pod[Host(t, q)]
  <2>1. PodsShape
    BY DEF Circular
  <2>2. /\ pod' \in [Circle!Hosts -> {"none", "pending", "placed"}] /\ pod'[Host(s, r)] = "pending"
        /\ \A t, q \in Three : ~(t = s /\ q = r) => pod'[Host(t, q)] = pod[Host(t, q)]
    BY <1>2, <2>1, PodSet
  <2> QED
    BY <1>2, <2>1, <2>2 DEF PodsShape
<1>11. \A t, q \in Three : Sits(t, q)' <=> Sits(t, q)
  BY <1>2, <1>10 DEF Sits
<1>12. \A t, q \in Three : Seat(t, q)' = Seat(t, q)
  BY <1>2 DEF Seat
<1>13. InTurn'
  <2>1. ASSUME NEW t \in Three, NEW q \in Three, NEW u \in Three, NEW x \in Three, Sooner(t, q, u, x)
        PROVE  /\ pod'[Host(u, x)] # "none" => pod'[Host(t, q)] # "none"
               /\ pod'[Host(u, x)] = "pending" => Sits(t, q)'
    <3>1. CASE u = s /\ x = r
      BY <1>8, <1>9, <1>10, <1>11, <2>1, <3>1 DEF Sits
    <3>2. CASE t = s /\ q = r
      BY <1>6, <1>8, <1>10, <2>1, <3>2
    <3>3. CASE ~(u = s /\ x = r) /\ ~(t = s /\ q = r)
      BY <1>10, <1>11, <2>1, <3>3 DEF Circular, InTurn
    <3> QED
      BY <3>1, <3>2, <3>3
  <2> QED
    BY <2>1 DEF InTurn, Sooner, Three
<1>14. Alone'
  <2>1. ASSUME NEW t \in Three, NEW q \in Three, pod'[Host(t, q)] = "pending"
        PROVE  t = s /\ q = r
    BY <1>6, <1>7, <1>9, <1>10, <2>1 DEF Sits
  <2>2. \A t, q \in Three : Sooner(s, r, t, q) => pod'[Host(t, q)] = "none"
    BY <1>6, <1>8, <1>10
  <2> QED
    BY <2>1, <2>2 DEF Alone, Sooner, Three
<1>15. Spread' /\ Tailed'
  BY <1>11, <1>12 DEF Circular, Spread, Tailed, Three
<1> QED
  BY <1>10, <1>13, <1>14, <1>15 DEF Circular

\* A node gives a Pod up when all Pods are placed.
LEMMA CircularEvict ==
  ASSUME Circular, NEW h \in Circle!Hosts, Circle!Evict(h)
  PROVE  Circular'
<1>1. PICK s \in Three, r \in Three : h = Host(s, r)
  BY HostsAreNine
<1>2. /\ pod' = [pod EXCEPT ![Host(s, r)] = "pending"]
      /\ node' = [node EXCEPT ![Host(s, r)] = None]
  BY <1>1 DEF Circle!Evict
<1>3. \A t, q \in Three : Sits(t, q)
  <2>1. \A o \in Circle!Hosts : o.chi = h.chi => pod[o] # "pending" /\ pod[o] # "none"
    BY DEF Circle!Evict
  <2>2. \A t, q \in Three : Host(t, q) \in Circle!Hosts /\ Host(t, q).chi = h.chi
    BY <1>1, HostsAreNine DEF Host
  <2> QED
    BY <2>1, <2>2 DEF Circular, PodsShape, Sits
<1>4. /\ PodsShape' /\ pod'[Host(s, r)] = "pending"
      /\ \A t, q \in Three : ~(t = s /\ q = r) =>
           pod'[Host(t, q)] = pod[Host(t, q)] /\ node'[Host(t, q)] = node[Host(t, q)]
  <2>1. PodsShape
    BY DEF Circular
  <2>2. /\ pod' \in [Circle!Hosts -> {"none", "pending", "placed"}] /\ pod'[Host(s, r)] = "pending"
        /\ \A t, q \in Three : ~(t = s /\ q = r) => pod'[Host(t, q)] = pod[Host(t, q)]
    BY <1>2, <2>1, PodSet
  <2>3. /\ node' \in [Circle!Hosts -> Nodes \cup {None}]
        /\ \A t, q \in Three : ~(t = s /\ q = r) => node'[Host(t, q)] = node[Host(t, q)]
    BY <1>2, <2>1, NodeSet
  <2> QED
    BY <2>2, <2>3 DEF PodsShape
<1>5. \A t, q \in Three : Sits(t, q)' <=> ~(t = s /\ q = r)
  BY <1>3, <1>4 DEF Sits
<1>6. \A t, q \in Three : Sits(t, q)' => Seat(t, q)' = Seat(t, q)
  BY <1>4, <1>5 DEF Seat
<1>7. \A t, q, u, x \in Three : Sooner(t, q, u, x) => ~(t = u /\ q = x)
  BY DEF Sooner, Three
<1>8. InTurn'
  <2>1. ASSUME NEW t \in Three, NEW q \in Three, NEW u \in Three, NEW x \in Three, Sooner(t, q, u, x)
        PROVE  /\ pod'[Host(t, q)] # "none"
               /\ pod'[Host(u, x)] = "pending" => Sits(t, q)'
    <3>1. pod'[Host(t, q)] # "none"
      BY <1>3, <1>4 DEF Sits
    <3>2. pod'[Host(u, x)] = "pending" => u = s /\ x = r
      BY <1>3, <1>4 DEF Sits
    <3> QED
      BY <1>5, <1>7, <2>1, <3>1, <3>2
  <2> QED
    BY <2>1 DEF InTurn, Sooner, Three
<1>9. Alone'
  <2>1. \A t, q \in Three : pod'[Host(t, q)] = "pending" => t = s /\ q = r
    BY <1>3, <1>4 DEF Sits
  <2> QED
    BY <1>5, <2>1 DEF Alone, Sooner, Three
<1>10. Spread' /\ Tailed'
  BY <1>3, <1>6 DEF Circular, Spread, Tailed, Three
<1> QED
  BY <1>4, <1>8, <1>9, <1>10 DEF Circular

\* The scheduler takes a node that fits.
LEMMA CircularSchedule ==
  ASSUME ThreeNodes, Circular, NEW h \in Circle!Hosts, NEW n \in Nodes, Circle!Schedule(h, n)
  PROVE  Circular'
<1>1. PICK s \in Three, r \in Three : h = Host(s, r)
  BY HostsAreNine
<1>2. /\ pod[Host(s, r)] = "pending" /\ Circle!Fits(Host(s, r), n)
      /\ pod' = [pod EXCEPT ![Host(s, r)] = "placed"]
      /\ node' = [node EXCEPT ![Host(s, r)] = n]
  BY <1>1 DEF Circle!Schedule
<1>3. ~Sits(s, r)
  BY <1>2 DEF Sits
<1>4. Free(s, r, n) /\ (r = 0 /\ s # 0 => TailAt(s, n))
  BY <1>2, <1>3, FitsIs
<1>5. /\ node' \in [Circle!Hosts -> Nodes \cup {None}] /\ node'[Host(s, r)] = n
      /\ \A t, q \in Three : ~(t = s /\ q = r) => node'[Host(t, q)] = node[Host(t, q)]
  <2>1. PodsShape /\ n \in Nodes \cup {None}
    BY DEF Circular
  <2>2. node' = [node EXCEPT ![Host(s, r)] = n]
    BY <1>2
  <2>3. /\ node' \in [Circle!Hosts -> Nodes \cup {None}]
        /\ \A t, q \in Three : ~(t = s /\ q = r) => node'[Host(t, q)] = node[Host(t, q)]
    BY <2>1, <2>2, NodeSet
  <2>4. node'[Host(s, r)] = n
    <3>1. Host(s, r) \in Circle!Hosts
      BY HostsAreNine
    <3> QED
      BY <2>1, <2>2, <3>1 DEF PodsShape
  <2> QED
    BY <2>3, <2>4
<1>6. /\ PodsShape' /\ pod'[Host(s, r)] = "placed"
      /\ \A t, q \in Three : ~(t = s /\ q = r) => pod'[Host(t, q)] = pod[Host(t, q)]
  <2>1. PodsShape
    BY DEF Circular
  <2>2. /\ pod' \in [Circle!Hosts -> {"none", "pending", "placed"}] /\ pod'[Host(s, r)] = "placed"
        /\ \A t, q \in Three : ~(t = s /\ q = r) => pod'[Host(t, q)] = pod[Host(t, q)]
    BY <1>2, <2>1, PodSet
  <2> QED
    BY <1>5, <2>2 DEF PodsShape
<1>7. \A t, q \in Three : Sits(t, q)' <=> Sits(t, q) \/ (t = s /\ q = r)
  BY <1>6 DEF Sits
<1>8. /\ Seat(s, r)' = n
      /\ \A t, q \in Three : Sits(t, q) => Seat(t, q)' = Seat(t, q)
  BY <1>3, <1>5 DEF Seat
<1>9. \/ \A t, q \in Three : Sooner(s, r, t, q) => pod[Host(t, q)] = "none"
      \/ \A t, q \in Three : ~(t = s /\ q = r) => Sits(t, q)
  BY <1>2 DEF Circular, Alone
<1>10. \A t, q \in Three : Sooner(t, q, s, r) => Sits(t, q)
  BY <1>2 DEF Circular, InTurn
<1>11. \A t, q \in Three : (t = s /\ q = r) \/ Sooner(t, q, s, r) \/ Sooner(s, r, t, q)
  BY DEF Sooner, Three
<1>12. \A t, q \in Three : pod'[Host(t, q)] # "pending"
  BY <1>6, <1>9, <1>10, <1>11 DEF Sits
<1>13. InTurn'
  <2>1. ASSUME NEW t \in Three, NEW q \in Three, NEW u \in Three, NEW x \in Three, Sooner(t, q, u, x)
        PROVE  pod'[Host(u, x)] # "none" => pod'[Host(t, q)] # "none"
    <3>1. pod[Host(u, x)] # "none" => pod[Host(t, q)] # "none"
      BY <2>1 DEF Circular, InTurn
    <3> QED
      BY <1>2, <1>6, <3>1
  <2> QED
    BY <1>12, <2>1 DEF InTurn, Sooner, Three
<1>14. Alone'
  BY <1>12 DEF Alone, Sooner, Three
<1>15. Spread'
  <2>1. \A t, q \in Three : Sits(t, q)' => Seat(t, q)' \in Nodes
    BY <1>7, <1>8 DEF Circular, Spread
  <2>2. \A t, p, q \in Three : p # q /\ Sits(t, p)' /\ Sits(t, q)' => Seat(t, p)' # Seat(t, q)'
    BY <1>4, <1>7, <1>8 DEF Circular, Spread, Free
  <2>3. \A t, u, p \in Three : t # u /\ Sits(t, p)' /\ Sits(u, p)' => Seat(t, p)' # Seat(u, p)'
    BY <1>4, <1>7, <1>8 DEF Circular, Spread, Free
  <2> QED
    BY <2>1, <2>2, <2>3 DEF Spread, Three
<1>16. Tailed'
  <2> SUFFICES ASSUME NEW u \in Three, NEW t \in Three, u = t + 1, Sits(u, 0)', Sits(t, 2)'
               PROVE  Seat(u, 0)' = Seat(t, 2)'
    BY DEF Tailed, Three
  <2>1. /\ 0 \in Three /\ 1 \in Three /\ 2 \in Three /\ u # 0
        /\ (u = 1 /\ t = 0) \/ (u = 2 /\ t = 1)
    <3>1. \A x, y \in Three : x = y + 1 => x # 0 /\ ((x = 1 /\ y = 0) \/ (x = 2 /\ y = 1))
      BY DEF Three
    <3>2. 0 \in Three /\ 1 \in Three /\ 2 \in Three
      BY DEF Three
    <3> QED
      BY <3>1, <3>2
  <2>2. CASE u = s /\ r = 0
    <3>1. PICK x \in Three : s = x + 1 /\ Sits(x, 2) /\ Seat(x, 2) = n
      BY <1>4, <2>1, <2>2 DEF TailAt
    <3>2. x = t
      BY <2>2, <3>1 DEF Three
    <3> QED
      BY <1>8, <2>1, <2>2, <3>1, <3>2
  <2>3. CASE t = s /\ r = 2
    <3>1. Sits(u, 0) /\ Sooner(s, r, u, 0)
      BY <1>7, <2>1, <2>3 DEF Sooner
    <3>2. \A x, q \in Three : ~(x = s /\ q = r) => Sits(x, q)
      BY <1>9, <2>1, <3>1 DEF Sits
    <3>3. \A x, q \in Three : Sits(x, q)'
      BY <1>7, <3>2
    <3>4. Seat(1, 0)' = Seat(0, 2)' <=> Seat(2, 0)' = Seat(1, 2)'
      <4> DEFINE A == [x \in Three |-> [y \in Three |-> Seat(x, y)']]
      <4>1. \A x, y \in Three : A[x][y] = Seat(x, y)'
        OBVIOUS
      <4> HIDE DEF A
      <4>2. \A x, y \in Three : A[x][y] \in Nodes
        BY <1>15, <3>3, <4>1 DEF Spread, Three
      <4>3. \A x, y, z \in Three : y # z => A[x][y] # A[x][z] /\ A[y][x] # A[z][x]
        BY <1>15, <3>3, <4>1 DEF Spread, Three
      <4>4. A[1][0] = A[0][2] <=> A[2][0] = A[1][2]
        BY <4>2, <4>3, TailsAgree
      <4> QED
        BY <2>1, <4>1, <4>4
    <3>5. CASE s = 0
      <4>1. Sits(2, 0) /\ Sits(1, 2)
        BY <2>1, <3>2, <3>5
      <4>2. Seat(2, 0) = Seat(1, 2)
        BY <2>1, <4>1 DEF Circular, Tailed
      <4> QED
        BY <1>8, <2>1, <2>3, <3>4, <3>5, <4>1, <4>2
    <3>6. CASE s = 1
      <4>1. Sits(1, 0) /\ Sits(0, 2)
        BY <2>1, <2>3, <3>2, <3>6
      <4>2. Seat(1, 0) = Seat(0, 2)
        BY <2>1, <4>1 DEF Circular, Tailed
      <4> QED
        BY <1>8, <2>1, <2>3, <3>4, <3>6, <4>1, <4>2
    <3> QED
      BY <2>1, <2>3, <3>5, <3>6
  <2>4. CASE ~(u = s /\ r = 0) /\ ~(t = s /\ r = 2)
    <3>1. Sits(u, 0) /\ Sits(t, 2)
      BY <1>7, <2>1, <2>4
    <3> QED
      BY <1>8, <2>1, <3>1 DEF Circular, Tailed
  <2> QED
    BY <2>2, <2>3, <2>4
<1> QED
  BY <1>6, <1>13, <1>14, <1>15, <1>16 DEF Circular

CircularInv == part = "nodes" => Circular

\* The invariant holds from the start.
LEMMA CircularInit ==
  ASSUME InitAll
  PROVE  CircularInv
<1> SUFFICES ASSUME part = "nodes" PROVE Circular
  BY DEF CircularInv
<1>1. pod = [h \in Circle!Hosts |-> "none"] /\ node = [h \in Circle!Hosts |-> None]
  BY DEF InitAll, Circle!Init
<1>2. \A s, r \in Three : pod[Host(s, r)] = "none"
  BY <1>1, HostsAreNine
<1>3. 0 \in Three /\ 2 \in Three
  BY DEF Three
<1>4. PodsShape
  BY <1>1 DEF PodsShape
<1>5. InTurn /\ Alone
  BY <1>2 DEF InTurn, Alone
<1>6. Spread /\ Tailed
  BY <1>2, <1>3 DEF Spread, Tailed, Sits
<1> QED
  BY <1>4, <1>5, <1>6 DEF Circular

\* Every step keeps it.
LEMMA CircularNext ==
  ASSUME ThreeNodes, CircularInv, [NextAll]_allVars
  PROVE  CircularInv'
<1> SUFFICES ASSUME part' = "nodes" PROVE Circular'
  BY DEF CircularInv
<1>1. CASE NodesStep
  <2>1. part = "nodes" /\ Circle!Next
    BY <1>1 DEF NodesStep
  <2>2. Circular
    BY <2>1 DEF CircularInv
  <2>3. PICK h \in Circle!Hosts : \/ Circle!CreateStatefulSet(h) \/ Circle!Evict(h)
                                  \/ \E n \in Nodes : Circle!Schedule(h, n)
    BY <2>1 DEF Circle!Next
  <2> QED
    BY <2>2, <2>3, CircularCreate, CircularEvict, CircularSchedule
<1>2. CASE UNCHANGED places /\ part' = part
  <2>1. Circular /\ pod' = pod /\ node' = node
    BY <1>2 DEF CircularInv, places
  <2> QED
    BY <2>1 DEF Circular, PodsShape, InTurn, Alone, Spread, Tailed, Sits, Seat, Three, Sooner, Host
<1>3. [NextAll]_allVars => NodesStep \/ (UNCHANGED places /\ part' = part)
  BY DEF NextAll, ZooKeeperStep, LayoutStep, NamesStep, PodStep, allVars, places
<1> QED
  BY <1>1, <1>2, <1>3

\* However Pods are scheduled and however often nodes give them up, a Pod that
\* waits fits on a node.
THEOREM NeverStuck ==
  ASSUME ThreeNodes
  PROVE  SpecAll => []NoneStuck
<1>1. InitAll => CircularInv
  BY CircularInit
<1>2. CircularInv /\ [NextAll]_allVars => CircularInv'
  BY CircularNext
<1>3. CircularInv => NoneStuck
  <2> SUFFICES ASSUME part = "nodes", Circular, NEW h \in Circle!Hosts, pod[h] = "pending"
               PROVE  \E n \in Nodes : Circle!Fits(h, n)
    BY DEF CircularInv, NoneStuck, Circle!NoneStuck
  <2>1. PICK s \in Three, r \in Three : h = Host(s, r)
    BY HostsAreNine
  <2>2. PICK n \in Nodes : Free(s, r, n) /\ (r = 0 /\ s # 0 => TailAt(s, n))
    BY <2>1, Room
  <2>3. ~Sits(s, r)
    BY <2>1 DEF Sits
  <2> QED
    BY <2>1, <2>2, <2>3, FitsIs
<1> QED
  BY <1>1, <1>2, <1>3, PTL DEF SpecAll
=============================================================================
