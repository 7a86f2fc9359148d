------------------------------- MODULE Layout -------------------------------
(***************************************************************************)
(* The layout of one cluster: how the counts and the lists of shards and   *)
(* replicas a user writes become a field of hosts with names               *)
(* (pkg/model/normalizer.go), which hosts the difference of two layouts    *)
(* calls removed (pkg/model/action_plan.go), and what a reconcile pass     *)
(* makes of that: StatefulSets for the hosts asked for, replicas of the    *)
(* removed ones dropped from ZooKeeper.  The steps of a pass are one       *)
(* action here; ChiReconcile has them one by one.                          *)
(*                                                                         *)
(* A name is the sequence of its parts: <<1>> is the automatic name "1",   *)
(* <<1, 0>> is "1-0", <<>> is no name.                                     *)
(***************************************************************************)
EXTENDS Integers, Sequences, FiniteSetsExt, SequencesExt

CONSTANTS
  None,      \* no layout reconciled yet
  MaxCount,  \* bound on the counts of the cluster
  MaxLine,   \* bound on the length of every list and on the counts in it
  Names,     \* names a user gives to shards, replicas and hosts
  Edits      \* sets of fields, a user edits those of one of them

Assumptions ==
  /\ MaxCount \in Nat /\ MaxLine \in Nat
  /\ Names \subseteq Seq(Nat) /\ <<>> \notin Names
  /\ \A fields \in Edits :
       fields \subseteq {"counts", "shards", "anyShard", "width", "replicas", "hosts", "names"}

VARIABLES
  fields,  \* those the user edits, one between two passes
  spec,    \* .layout of the cluster as the user wrote it
  edited,  \* the spec changed since the last pass
  layout,  \* the normalized layout of the last pass, or None
  live,    \* hosts that have a StatefulSet
  dropped, \* hosts the last pass dropped from ZooKeeper
  deleting, \* GetRemovedHostsNum of the last pass
  crashed  \* the operator panicked: "" or where

vars == <<fields, spec, edited, layout, live, dropped, deleting, crashed>>

\* The cells of lines of these widths; a line is a shard, or else a replica.
Cells(widths) == UNION {{<<k, j>> : j \in 1 .. widths[k]} : k \in DOMAIN widths}
Transposed(cells) == {<<c[2], c[1]>> : c \in cells}

\* A shard lists its replicas, a replica its shards: both are lines of hosts.
Plain(name, count) == [name |-> name, count |-> count, hosts |-> <<>>]

-----------------------------------------------------------------------------
(* Normalization.                                                          *)

\* Names and counts of a layout the user left empty.
NewChiClusterLayout == [shardsCount |-> 0, replicasCount |-> 0, shards |-> <<>>, replicas |-> <<>>]

\* An explicit count is taken as it is; else the lists are measured.
LayoutCount(explicit, lines, others) ==
  IF explicit # 0 THEN explicit
  ELSE Max({1, Len(lines)}
           \cup {others[k].count : k \in DOMAIN others}
           \cup {Len(others[k].hosts) : k \in DOMAIN others})
ShardsCount(s) == LayoutCount(s.shardsCount, s.shards, s.replicas)
ReplicasCount(s) == LayoutCount(s.replicasCount, s.replicas, s.shards)

\* The lists are padded with empty lines up to the count, never cut.
EnsureLines(lines, count) ==
  [k \in 1 .. Max({Len(lines), count}) |->
     IF k <= Len(lines) THEN lines[k] ELSE Plain(<<>>, 0)]
Shards(s) == EnsureLines(s.shards, ShardsCount(s))
Replicas(s) == EnsureLines(s.replicas, ReplicasCount(s))

\* How many hosts a line has: its own count, its hosts, the layout's count.
LineCount(line, layoutCount) ==
  IF line.count > 0 THEN line.count
  ELSE IF line.hosts # <<>> THEN Len(line.hosts) ELSE layoutCount

\* The cells of the field a line of shards fills, and those its list names.
ShardCells(s) ==
  Cells([k \in DOMAIN Shards(s) |-> LineCount(Shards(s)[k], ReplicasCount(s))])
ReplicaCells(s) ==
  Transposed(Cells([k \in DOMAIN Replicas(s) |-> LineCount(Replicas(s)[k], ShardsCount(s))]))
ListedCells(s) ==
  Cells([k \in DOMAIN s.shards |-> Len(s.shards[k].hosts)])
  \cup Transposed(Cells([k \in DOMAIN s.replicas |-> Len(s.replicas[k].hosts)]))

\* The field of hosts: Get, Set and GetOrCreate index it unchecked.
HostsField(s) == ListedCells(s) \cup ShardCells(s) \cup ReplicaCells(s)

InField(s, c) == c[1] <= ShardsCount(s) /\ c[2] <= ReplicasCount(s)

\* The name a host is listed with: a host of a shard is kept, a host of a
\* replica on the same place is merged into it without its name.
ListedName(s, c) ==
  IF c[1] \in DOMAIN s.shards /\ c[2] \in DOMAIN s.shards[c[1]].hosts
  THEN s.shards[c[1]].hosts[c[2]]
  ELSE IF c[2] \in DOMAIN s.replicas /\ c[1] \in DOMAIN s.replicas[c[2]].hosts
  THEN s.replicas[c[2]].hosts[c[1]] ELSE <<>>

\* Shards and replicas are named by their index, counted from zero.
LineName(lines, k) == IF lines[k].name = <<>> THEN <<k - 1>> ELSE lines[k].name

\* Mutant: the host is named by its shard.
CreateHostNameOfShard(s, c) == LineName(Shards(s), c[1])

\* Mutant: the host is named by its index in the cluster.
CreateHostNameOfIndex(s, c) == <<(c[1] - 1) * ReplicasCount(s) + c[2] - 1>>

CreateHostName(s, c) == LineName(Shards(s), c[1]) \o LineName(Replicas(s), c[2])

\* Names of older versions count as automatic too.
IsAutoGeneratedHostName(s, c, name) ==
  name \in {CreateHostName(s, c), <<c[1] - 1, c[2] - 1>>, <<c[1] - 1>>, <<c[2] - 1>>}
HostName(s, c) ==
  LET name == ListedName(s, c)
  IN IF name # <<>> /\ ~IsAutoGeneratedHostName(s, c, name) THEN name ELSE CreateHostName(s, c)

\* A host with its labels: the names of its shard and replica.
Host(s, c) == [name |-> HostName(s, c),
               shard |-> LineName(Shards(s), c[1]),
               replica |-> LineName(Replicas(s), c[2])]

\* The normalized cluster: hosts by shards, hosts by replicas, the field.
NormalizeCluster(s) ==
  [shards |-> ShardsCount(s), replicas |-> ReplicasCount(s),
   byShards |-> ShardCells(s), byReplicas |-> ReplicaCells(s),
   host |-> [c \in HostsField(s) |-> Host(s, c)]]

\* A host outside of the field stops the normalizer with an index out of range.
OutOfRange(s) ==
  \/ Len(s.shards) > ShardsCount(s)
  \/ Len(s.replicas) > ReplicasCount(s)
  \/ \E c \in HostsField(s) : ~InField(s, c)

\* WalkHosts goes by shards.
WalkHosts(l) == l.byShards

-----------------------------------------------------------------------------
(* The difference of two layouts.  It compares lists position by position: *)
(* what is past the end of the new list is removed.                        *)

RemovedShards(old, new) == {i \in 1 .. old.shards : i > new.shards}
RemovedByShards(old, new) ==
  {c \in old.byShards \ new.byShards : c[1] <= new.shards}
RemovedByReplicas(old, new) ==
  {c \in old.byReplicas \ new.byReplicas : c[2] <= new.replicas}

\* Mutant: hosts are looked for in the shards only.
WalkRemovedByShards(old, new) ==
  IF old = None THEN {} ELSE RemovedByShards(old, new)

\* The hosts WalkRemoved calls its hostFunc for: those of a removed shard
\* are reached through the replicas, which list them as well.
WalkRemoved(old, new) ==
  IF old = None THEN {} ELSE RemovedByShards(old, new) \cup RemovedByReplicas(old, new)

GetRemovedHostsNum(old, new) ==
  IF old = None THEN 0
  ELSE Cardinality({c \in old.byShards : c[1] \in RemovedShards(old, new)})
       + Cardinality(RemovedByShards(old, new)) + Cardinality(RemovedByReplicas(old, new))

\* A host has its address filled, and its CHI, when a walk by shards meets it.
AddressFilled(l, c) == c \in WalkHosts(l)

\* The volume of a host is found by the labels of the host.
CanDropReplica(h, there) == ~\E o \in there : o.shard = h.shard /\ o.replica = h.replica

-----------------------------------------------------------------------------
(* The user.                                                               *)

Init ==
  /\ fields \in Edits
  /\ spec = NewChiClusterLayout
  /\ edited = FALSE
  /\ layout = None
  /\ live = {}
  /\ dropped = {}
  /\ deleting = 0
  /\ crashed = ""

Edit(field, new) ==
  /\ field \in fields
  /\ ~edited
  /\ new # spec
  /\ spec' = new
  /\ edited' = TRUE
  /\ UNCHANGED <<fields, layout, live, dropped, deleting, crashed>>

EditCounts == \E n \in 0 .. MaxCount :
  \/ Edit("counts", [spec EXCEPT !.shardsCount = n])
  \/ Edit("counts", [spec EXCEPT !.replicasCount = n])

\* Names are given once in a list.
GivenNames == IF "names" \in fields THEN Names ELSE {}
FreshNames(lines) == GivenNames \ {lines[k].name : k \in DOMAIN lines}

AddShard == \E name \in FreshNames(spec.shards) \cup {<<>>}, n \in 0 .. MaxLine :
  /\ Len(spec.shards) < MaxLine
  /\ Edit("shards", [spec EXCEPT !.shards = Append(@, Plain(name, n))])

RemoveShard == \E k \in DOMAIN spec.shards :
  \/ k = Len(spec.shards) /\ Edit("shards", [spec EXCEPT !.shards = RemoveAt(@, k)])
  \/ Edit("anyShard", [spec EXCEPT !.shards = RemoveAt(@, k)])

WidenShard == \E k \in DOMAIN spec.shards, n \in 0 .. MaxLine :
  Edit("width", [spec EXCEPT !.shards[k].count = n])

AddReplica == \E name \in FreshNames(spec.replicas) \cup {<<>>}, n \in 0 .. MaxLine :
  /\ Len(spec.replicas) < MaxLine
  /\ Edit("replicas", [spec EXCEPT !.replicas = Append(@, Plain(name, n))])

RemoveReplica ==
  /\ spec.replicas # <<>>
  /\ Edit("replicas", [spec EXCEPT !.replicas = Front(@)])

\* A host is listed in the last place of a shard, or taken from it.
ListHost == \E k \in DOMAIN spec.shards, name \in GivenNames \cup {<<>>} :
  /\ Len(spec.shards[k].hosts) < MaxLine
  /\ name # <<>> => \A j \in DOMAIN spec.shards : name \notin ToSet(spec.shards[j].hosts)
  /\ Edit("hosts", [spec EXCEPT !.shards[k].hosts = Append(@, name)])

UnlistHost == \E k \in DOMAIN spec.shards :
  /\ spec.shards[k].hosts # <<>>
  /\ Edit("hosts", [spec EXCEPT !.shards[k].hosts = Front(@)])

-----------------------------------------------------------------------------
(* The operator.                                                           *)

\* The pass reconciles every host, purges what is not asked for, volumes
\* included, and drops the replicas of removed hosts that left no volume.
Reconcile ==
  LET new == NormalizeCluster(spec)
      hosts == {new.host[c] : c \in WalkHosts(new)}
      removed == WalkRemoved(layout, new)
  IN /\ crashed = ""
     /\ layout = None \/ edited
     /\ ~OutOfRange(spec)
     /\ edited' = FALSE
     /\ layout' = new
     /\ live' = hosts
     /\ deleting' = GetRemovedHostsNum(layout, new)
     /\ IF \E c \in removed : ~AddressFilled(layout, c)
        THEN crashed' = "dropReplicas" /\ dropped' = {}
        ELSE /\ dropped' = {h \in {layout.host[c] : c \in removed} : CanDropReplica(h, hosts)}
             /\ UNCHANGED crashed
     /\ UNCHANGED <<fields, spec>>

\* The normalizer runs before anything is reconciled.
Panic ==
  /\ crashed = ""
  /\ OutOfRange(spec)
  /\ crashed' = "normalizeCluster"
  /\ UNCHANGED <<fields, spec, edited, layout, live, dropped, deleting>>

\* Kubernetes starts the operator again; it knows no old CHI then.
Restart ==
  /\ crashed # ""
  /\ crashed' = ""
  /\ layout' = None
  /\ UNCHANGED <<fields, spec, edited, live, dropped, deleting>>

Next ==
  \/ EditCounts \/ AddShard \/ RemoveShard \/ WidenShard
  \/ AddReplica \/ RemoveReplica \/ ListHost \/ UnlistHost
  \/ Reconcile \/ Panic \/ Restart

Spec == Init /\ [][Next]_vars

-----------------------------------------------------------------------------
(* Properties.                                                             *)

\* Hosts of a cluster have names of their own: no two of them are given one
\* StatefulSet, whatever was listed, counted or left to the normalizer.
HostsApart ==
  layout # None => \A c, d \in WalkHosts(layout) :
                     layout.host[c].name = layout.host[d].name => c = d

\* A pass drops the replicas of the hosts that leave and of no other: every
\* host that is gone from the layout was found by the walk over the
\* difference (dropReplicas), and no host that stays was.
ReplicasFollow == Reconcile /\ layout # None => dropped' = live \ live'
ReplicasFollowHosts == [][ReplicasFollow]_vars

\* The normalizer takes every layout a user can write; comment: "ShardsCount
\* and ReplicasCount must represent max number of shards and replicas".
\* The code breaks it: README.md, Disagreements.
FieldHoldsLayout == crashed # "normalizeCluster"

\* Every host the walk over the difference meets has its address filled, as
\* GetCluster says it has to.
\* The code breaks it: README.md, Disagreements.
RemovedHostsKnown == crashed # "dropReplicas"

\* The number of hosts to delete, as the status tells it, is the number of
\* hosts that lose their StatefulSet.
\* The code breaks it: README.md, Disagreements.
DeletesCounted ==
  [][Reconcile => deleting' = Cardinality({h \in live : \A o \in live' : o.name # h.name})]_vars

\* A longer layout moves no host: an edit that only adds shards, replicas or
\* counts leaves every StatefulSet where it was, in its shard and replica.
GrowthKeeps ==
  /\ Reconcile
  /\ layout # None
  /\ layout.byShards \subseteq layout'.byShards
  => live \subseteq live'
GrowthKeepsHosts == [][GrowthKeeps]_vars
=============================================================================
