------------------------------- MODULE Naming --------------------------------
(***************************************************************************)
(* Names and labels (pkg/model/namer.go and labeler.go): what the objects  *)
(* of a CHI are called, what their Services select, and what a pass takes  *)
(* for its own when it purges. Shards and hosts are named by the user or   *)
(* by their place; a name goes into other names cut and joined with a      *)
(* dash. A name is a sequence of tokens: a few letters, a number, a dash.  *)
(***************************************************************************)
EXTENDS Integers, Sequences, FiniteSets, SequencesExt, FiniteSetsExt, TLC

CONSTANTS
  Auto,         \* in the place of a name: the operator chooses one
  CHIs,         \* names of the CHIs of a namespace
  Layouts,      \* sequences of clusters: a name and shards, each a name and hosts
  Template,     \* of Services by scope and of Pods: None, or the generateName,
                \* a sequence of words and macros, empty if there is none
  Numerals,     \* tokens of the numbers from zero
  ChiLen,       \* namePartChiMaxLenNamesCtx
  PartLen,      \* namePartClusterMaxLenNamesCtx and its like, all equal
  LabelLen,     \* namePartChiMaxLenLabelsCtx and its like
  None,         \* no CHI
  MaxEdits      \* bound on edits

Letters == STRING \ {"-"}

Assumptions ==
  /\ {ChiLen, PartLen, LabelLen} \subseteq Nat \ {0} /\ MaxEdits \in Nat
  /\ Numerals \in Seq(Letters) /\ IsInjective(Numerals)
  /\ None \notin Layouts

VARIABLES
  spec,    \* layout of each CHI, or None
  store,   \* objects in Kubernetes
  built,   \* layout of the last pass over each CHI, or None
  edits

vars == <<spec, store, built, edits>>

\* One function over another.
Over(f, g) == [x \in DOMAIN f \cup DOMAIN g |-> IF x \in DOMAIN f THEN f[x] ELSE g[x]]

Num(i) == <<Numerals[i + 1]>>
Dash == <<"-">>

-----------------------------------------------------------------------------
(* Normalized names                                                        *)

ShardName(l, i, j) == IF l[i].shards[j].name = Auto THEN Num(j - 1) ELSE l[i].shards[j].name

ReplicaName(k) == Num(k - 1)

\* Mutant: the name of older versions, from the place of the shard.
CreateHostNameOfIndex(l, i, j, k) == Num(j - 1) \o Dash \o ReplicaName(k)

CreateHostName(l, i, j, k) == ShardName(l, i, j) \o Dash \o ReplicaName(k)

\* Also the names that older versions gave are replaced.
IsAutoGeneratedHostName(name, l, i, j, k) ==
  name \in {Auto, CreateHostName(l, i, j, k), Num(j - 1) \o Dash \o Num(k - 1),
            Num(j - 1), Num(k - 1)}

HostName(l, i, j, k) ==
  LET name == l[i].shards[j].hosts[k]
  IN IF IsAutoGeneratedHostName(name, l, i, j, k) THEN CreateHostName(l, i, j, k) ELSE name

-----------------------------------------------------------------------------
(* Names of objects                                                        *)

Sanitize(name) ==
  LET letters == {n \in DOMAIN name : name[n] # "-"}
  IN IF letters = {} THEN << >> ELSE SubSeq(name, Min(letters), Max(letters))

NamePart(name, len) == Sanitize(SubSeq(name, 1, IF Len(name) < len THEN Len(name) ELSE len))

\* The ID of a name is its hash, which tells whole names apart.
CreateStringID(name) == <<"#">> \o name

\* Values of the macros in the scope of a CHI, a cluster, a shard and a host.
ChiMacros(c) ==
  [m \in {"{chi}", "{chiID}"} |-> IF m = "{chi}" THEN NamePart(c, ChiLen) ELSE CreateStringID(c)]
ClusterMacros(c, l, i) ==
  Over([m \in {"{cluster}", "{clusterID}", "{clusterIndex}"} |->
          CASE m = "{cluster}"   -> NamePart(l[i].name, PartLen)
            [] m = "{clusterID}" -> CreateStringID(l[i].name)
            [] OTHER             -> Num(i - 1)],
       ChiMacros(c))
ShardMacros(c, l, i, j) ==
  Over([m \in {"{shard}", "{shardID}", "{shardIndex}"} |->
          CASE m = "{shard}"   -> NamePart(ShardName(l, i, j), PartLen)
            [] m = "{shardID}" -> CreateStringID(ShardName(l, i, j))
            [] OTHER           -> Num(j - 1)],
       ClusterMacros(c, l, i))
HostMacros(c, l, i, j, k) ==
  Over([m \in {"{host}", "{hostID}", "{replica}", "{replicaIndex}"} |->
          CASE m = "{host}"    -> NamePart(HostName(l, i, j, k), PartLen)
            [] m = "{hostID}"  -> CreateStringID(HostName(l, i, j, k))
            [] m = "{replica}" -> NamePart(ReplicaName(k), PartLen)
            [] OTHER           -> Num(k - 1)],
       ShardMacros(c, l, i, j))

\* A word of a pattern that is no macro of the scope stays as it is.
Replace(pattern, macros) ==
  FlattenSeq([n \in DOMAIN pattern |->
    IF pattern[n] \in DOMAIN macros THEN macros[pattern[n]] ELSE <<pattern[n]>>])

\* Mutant: hosts of all clusters share names.
DefaultWithoutCluster == [
  chi     |-> <<"clickhouse", "-", "{chi}">>,
  cluster |-> <<"cluster", "-", "{chi}", "-", "{cluster}">>,
  shard   |-> <<"shard", "-", "{chi}", "-", "{cluster}", "-", "{shard}">>,
  host    |-> <<"chi", "-", "{chi}", "-", "{host}">>,
  pod     |-> <<"chi", "-", "{chi}", "-", "{host}">>]

\* Patterns by what is named.
Default == [
  chi     |-> <<"clickhouse", "-", "{chi}">>,
  cluster |-> <<"cluster", "-", "{chi}", "-", "{cluster}">>,
  shard   |-> <<"shard", "-", "{chi}", "-", "{cluster}", "-", "{shard}">>,
  host    |-> <<"chi", "-", "{chi}", "-", "{cluster}", "-", "{host}">>,
  pod     |-> <<"chi", "-", "{chi}", "-", "{cluster}", "-", "{host}">>]

Pattern(scope) == IF Template[scope] \in {None, << >>} THEN Default[scope] ELSE Template[scope]

ConfigMapHost == <<"chi", "-", "{chi}", "-", "deploy", "-", "confd", "-", "{cluster}", "-", "{host}">>
ConfigMapCommon == <<"chi", "-", "{chi}", "-", "common", "-", "configd">>
ConfigMapCommonUsers == <<"chi", "-", "{chi}", "-", "common", "-", "usersd">>

-----------------------------------------------------------------------------
(* Labels                                                                  *)

SelectorCHIScope(c) == [chi |-> NamePart(c, LabelLen)]
SelectorClusterScope(c, l, i) ==
  [chi |-> NamePart(c, LabelLen), cluster |-> NamePart(l[i].name, LabelLen)]
\* Mutant: the shards of all clusters.
SelectorShardScopeAnyCluster(c, l, i, j) ==
  [chi |-> NamePart(c, LabelLen), shard |-> NamePart(ShardName(l, i, j), LabelLen)]

SelectorShardScope(c, l, i, j) ==
  [chi |-> NamePart(c, LabelLen), cluster |-> NamePart(l[i].name, LabelLen),
   shard |-> NamePart(ShardName(l, i, j), LabelLen)]
SelectorHostScope(c, l, i, j, k) ==
  [chi |-> NamePart(c, LabelLen), cluster |-> NamePart(l[i].name, LabelLen),
   shard |-> NamePart(ShardName(l, i, j), LabelLen), replica |-> NamePart(ReplicaName(k), LabelLen)]

\* Labels are matched by equality.
Matches(selector, labels) ==
  \A m \in DOMAIN selector : m \in DOMAIN labels /\ labels[m] = selector[m]

\* What discovery lists: the objects of the CHI.
Discovered(c, objects) == {o \in objects : Matches(SelectorCHIScope(c), o.labels)}

-----------------------------------------------------------------------------
(* Objects of a CHI. "hosts" are those an object is for; a StatefulSet has *)
(* one Pod, with its labels.                                               *)

Hosts(l) ==
  UNION {UNION {{<<i, j, k>> : k \in DOMAIN l[i].shards[j].hosts} : j \in DOMAIN l[i].shards} :
           i \in DOMAIN l}

Object(c, kind, name, labels, selector, hosts) ==
  [owner |-> c, kind |-> kind, name |-> name, labels |-> labels,
   selector |-> selector, hosts |-> hosts]

Service(c, scope, macros, selector, hosts) ==
  Object(c, "Service", Replace(Pattern(scope), macros), selector, selector, hosts)

ConfigMap(c, pattern, macros, labels, hosts) ==
  Object(c, "ConfigMap", Replace(pattern, macros), labels, << >>, hosts)

\* A cluster or a shard has a Service only if it has a template.
ServiceIfTemplate(c, scope, macros, selector, hosts) ==
  IF Template[scope] = None THEN << >> ELSE <<Service(c, scope, macros, selector, hosts)>>

HostObjects(c, l, i, j, k) ==
  LET macros == HostMacros(c, l, i, j, k)
      labels == SelectorHostScope(c, l, i, j, k)
      self   == {<<i, j, k>>}
  IN << ConfigMap(c, ConfigMapHost, macros, labels, self),
        Object(c, "StatefulSet", Replace(Pattern("pod"), macros), labels, labels, self),
        Service(c, "host", macros, labels, self) >>

ShardObjects(c, l, i, j) ==
  LET hosts == {h \in Hosts(l) : h[1] = i /\ h[2] = j}
  IN ServiceIfTemplate(c, "shard", ShardMacros(c, l, i, j), SelectorShardScope(c, l, i, j), hosts)
     \o FlattenSeq([k \in DOMAIN l[i].shards[j].hosts |-> HostObjects(c, l, i, j, k)])

ClusterObjects(c, l, i) ==
  LET hosts == {h \in Hosts(l) : h[1] = i}
  IN ServiceIfTemplate(c, "cluster", ClusterMacros(c, l, i), SelectorClusterScope(c, l, i), hosts)
     \o FlattenSeq([j \in DOMAIN l[i].shards |-> ShardObjects(c, l, i, j)])

\* In the order of the walk.
Objects(c, l) ==
  << Service(c, "chi", ChiMacros(c), SelectorCHIScope(c), Hosts(l)),
     ConfigMap(c, ConfigMapCommon, ChiMacros(c), SelectorCHIScope(c), Hosts(l)),
     ConfigMap(c, ConfigMapCommonUsers, ChiMacros(c), SelectorCHIScope(c), Hosts(l)) >>
  \o FlattenSeq([i \in DOMAIN l |-> ClusterObjects(c, l, i)])

\* Every instance of them, which TLC computes once.
ObjectsOf == [c \in CHIs |-> [l \in Layouts |-> Objects(c, l)]]

SameObject(o, p) == o.kind = p.kind /\ o.name = p.name

\* What one registry has and the other has not.
Subtract(objects, sub) == {o \in objects : ~ \E p \in sub : SameObject(o, p)}

\* Objects are created, or updated whatever they were; of two that are one the
\* last stays.
Put(objects, wanted) ==
  LET stays == {n \in DOMAIN wanted : \A m \in DOMAIN wanted :
                  SameObject(wanted[m], wanted[n]) => m <= n}
  IN Subtract(objects, Range(wanted)) \cup {wanted[n] : n \in stays}

-----------------------------------------------------------------------------
(* Names that tell everything apart: of letters alone and short enough to  *)
(* stay whole, each once where it stands, none of them a number, in the    *)
(* patterns of the operator.                                               *)

Word(len) == {w \in Seq(Letters) : Len(w) \in 1 .. len}

Shorter(a, b) == IF a < b THEN a ELSE b

UserNames(len) == {Auto} \cup (Word(len) \ {<<Numerals[n]>> : n \in DOMAIN Numerals})

WellNamedShards == [name : UserNames(Shorter(PartLen - 2, LabelLen)), hosts : Seq(UserNames(PartLen))]
WellNamedClusters == [name : Word(Shorter(PartLen, LabelLen)), shards : Seq(WellNamedShards)]

WellNamedLayout(l) ==
  /\ l \in Seq(WellNamedClusters)
  /\ Len(l) <= Len(Numerals)
  /\ \A i, i2 \in DOMAIN l : l[i].name = l[i2].name => i = i2
  /\ \A i \in DOMAIN l :
       LET shards == l[i].shards
       IN /\ Len(shards) <= Len(Numerals)
          /\ \A j \in DOMAIN shards : Len(shards[j].hosts) <= Len(Numerals)
          /\ \A j, j2 \in DOMAIN shards :
               shards[j].name # Auto /\ shards[j].name = shards[j2].name => j = j2
          /\ \A j, j2 \in DOMAIN shards :
               \A k \in DOMAIN shards[j].hosts, k2 \in DOMAIN shards[j2].hosts :
                 shards[j].hosts[k] # Auto /\ shards[j].hosts[k] = shards[j2].hosts[k2] =>
                   j = j2 /\ k = k2

WellNamed ==
  /\ 3 <= PartLen
  /\ Auto \notin Seq(Letters)
  /\ \A scope \in DOMAIN Default : Template[scope] \in {None, << >>}
  /\ CHIs \subseteq Word(Shorter(ChiLen, LabelLen))
  /\ \A l \in Layouts : WellNamedLayout(l)

-----------------------------------------------------------------------------

Init ==
  /\ spec = [c \in CHIs |-> None]
  /\ store = {}
  /\ built = [c \in CHIs |-> None]
  /\ edits = 0

\* The user creates, edits or deletes a CHI.
Edit(c) ==
  /\ edits < MaxEdits
  /\ \E l \in (Layouts \cup {None}) \ {spec[c]} : spec' = [spec EXCEPT ![c] = l]
  /\ edits' = edits + 1
  /\ UNCHANGED <<store, built>>

\* A pass that succeeds: every object is reconciled, and what discovery finds
\* beyond them is purged. Deletion purges all.
Reconcile(c) ==
  /\ built[c] # spec[c]
  /\ LET wanted     == IF spec[c] = None THEN << >> ELSE ObjectsOf[c][spec[c]]
         reconciled == Put(store, wanted)
     IN store' = reconciled \ Subtract(Discovered(c, reconciled), Range(wanted))
  /\ built' = [built EXCEPT ![c] = spec[c]]
  /\ UNCHANGED <<spec, edits>>

Next == \E c \in CHIs : Edit(c) \/ Reconcile(c)

Spec == Init /\ [][Next]_vars

-----------------------------------------------------------------------------

\* Every host has a StatefulSet, a Service and a ConfigMap of its own.
HostsApart ==
  \A c \in CHIs : built[c] # None =>
    \A h \in Hosts(built[c]) : \A kind \in {"StatefulSet", "Service", "ConfigMap"} :
      \E o \in store : o.owner = c /\ o.kind = kind /\ o.hosts = {h}

\* A Service leads to the Pods it is for, and to no others.
ServicesExact ==
  \A o \in store : o.kind = "Service" =>
    LET pods == {p \in store : p.kind = "StatefulSet" /\ Matches(o.selector, p.labels)}
    IN /\ \A p \in pods : p.owner = o.owner
       /\ UNION {p.hosts : p \in pods} = o.hosts

\* A pass over one CHI leaves the objects of the others alone.
\* The code breaks it: README.md, Disagreements.
OwnOnly == [][\A o \in store \ store' : built'[o.owner] # built[o.owner]]_vars

\* How the user tells a host: by its own name, or by that of its shard.
Key(l, h) ==
  LET shard == l[h[1]].shards[h[2]]
  IN IF shard.hosts[h[3]] # Auto THEN {<<l[h[1]].name, shard.hosts[h[3]]>>}
     ELSE IF shard.name # Auto THEN {<<l[h[1]].name, shard.name, h[3]>>}
     ELSE {}

\* The StatefulSets of the host of that key.
StatefulSetsOf(c, l, key) ==
  {o.name : o \in {o \in Range(ObjectsOf[c][l]) :
                     o.kind = "StatefulSet" /\ \E h \in o.hosts : Key(l, h) = key}}

\* A host that the user has named keeps its StatefulSet, and so its volumes,
\* wherever edits move it in the lists.
NamedStay ==
  \A c \in CHIs : built[c] # None /\ built'[c] # None =>
    \A key \in {Key(built[c], h) : h \in Hosts(built[c])} \ {{}} :
      key \in {Key(built'[c], h) : h \in Hosts(built'[c])} =>
        StatefulSetsOf(c, built[c], key) = StatefulSetsOf(c, built'[c], key)
NamedStays == [][NamedStay]_vars
=============================================================================
