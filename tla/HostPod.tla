------------------------------- MODULE HostPod -------------------------------
(***************************************************************************)
(* The StatefulSet a pass builds for a host (pkg/model/creator.go): the    *)
(* user's pod template, completed with what ClickHouse and the operator    *)
(* need: a container, probes, ConfigMaps, a log container and volumes.     *)
(* A StatefulSet whose claims change cannot be updated: the pass deletes   *)
(* it and creates it again.                                                *)
(***************************************************************************)
EXTENDS Integers, Sequences, FiniteSets, SequencesExt

CONSTANTS
  None,         \* no template
  Templates,    \* pod templates, sequences of containers
  Claims,       \* volume claim templates the CHI may define
  Data, Logs,   \* names a host may give for its data and log template
  Volumes,      \* volumes of pod templates, next to claims and ConfigMaps
  MaxEdits      \* bound on edits of the CHI

Assumptions == MaxEdits \in Nat

VARIABLES
  spec,      \* what the user asks for
  sts,       \* the StatefulSet, None before the first pass
  built,     \* the spec it was built from
  edits

vars == <<spec, sts, built, edits>>

\* A pod template mounts what there is.
Specs ==
  {s \in [template : Templates \cup {None}, claims : SUBSET Claims,
          data : Data \cup {None}, log : Logs \cup {None}, troubleshoot : BOOLEAN] :
     s.template # None =>
       \A i \in DOMAIN s.template : \A m \in Range(s.template[i].mounts) :
         m[1] \in s.claims \cup Volumes}

ClickHouse == "clickhouse"
Log == "clickhouse-log"
DataDir == "/var/lib/clickhouse"
LogDir == "/var/log/clickhouse-server"
ConfigMaps == << <<"common", "config.d">>, <<"users", "users.d">>, <<"host", "conf.d">> >>

\* A container: its name, whether it is probed, and its mounts, pairs of a
\* volume and a path.
Container(name, probed) == [name |-> name, probed |-> probed, mounts |-> << >>]

-----------------------------------------------------------------------------
(* Steps from the pod template to the StatefulSet                          *)

GetPodTemplate(s) == IF s.template = None THEN <<Container(ClickHouse, TRUE)>> ELSE s.template

EnsureClickHouseContainer(pod) == IF pod = << >> THEN <<Container(ClickHouse, TRUE)>> ELSE pod

\* The container of that name, or else the first one.
ClickHouseContainer(pod) ==
  LET named == {i \in DOMAIN pod : pod[i].name = ClickHouse}
  IN IF named = {} THEN 1 ELSE CHOOSE i \in named : \A j \in named : i <= j

EnsureProbes(pod) == [pod EXCEPT ![ClickHouseContainer(pod)].probed = TRUE]

SetupConfigMapVolumes(pod) == [i \in DOMAIN pod |-> [pod[i] EXCEPT !.mounts = @ \o ConfigMaps]]

\* A server that sleeps answers no probes.
SetupTroubleshoot(pod, s) ==
  IF s.troubleshoot THEN [pod EXCEPT ![ClickHouseContainer(pod)].probed = FALSE] ELSE pod

SetupLogContainer(pod, s) == IF s.log # None THEN Append(pod, Container(Log, FALSE)) ELSE pod

\* A claim is mounted unless it, or something at that path, already is.
ApplyVolumeMount(container, claim, path, s) ==
  IF /\ claim \in s.claims
     /\ \A m \in Range(container.mounts) : m[1] # claim /\ m[2] # path
  THEN [container EXCEPT !.mounts = Append(@, <<claim, path>>)]
  ELSE container

\* Mutant: log first.
ApplyVolumeClaimTemplatesLogFirst(pod, s) ==
  [i \in DOMAIN pod |->
     ApplyVolumeMount(ApplyVolumeMount(pod[i], s.log, LogDir, s), s.data, DataDir, s)]

\* Data and log, in this order, in all containers.
ApplyVolumeClaimTemplates(pod, s) ==
  [i \in DOMAIN pod |->
     ApplyVolumeMount(ApplyVolumeMount(pod[i], s.data, DataDir, s), s.log, LogDir, s)]

\* Claims of the StatefulSet: those that its containers mount.
AppendPVCTemplates(pod, s) ==
  {m[1] : m \in UNION {Range(pod[i].mounts) : i \in DOMAIN pod}} \cap s.claims

Pod(s) ==
  LET own      == EnsureProbes(EnsureClickHouseContainer(GetPodTemplate(s)))
      personal == SetupLogContainer(SetupTroubleshoot(SetupConfigMapVolumes(own), s), s)
  IN ApplyVolumeClaimTemplates(personal, s)

CreateStatefulSet(s) == [pod |-> Pod(s), claims |-> AppendPVCTemplates(Pod(s), s)]

-----------------------------------------------------------------------------

Init ==
  /\ spec \in Specs
  /\ sts = None
  /\ built = spec
  /\ edits = 0

\* The user changes one part of the CHI.
Edit ==
  /\ edits < MaxEdits
  /\ \E s \in Specs :
       /\ Cardinality({f \in DOMAIN s : s[f] # spec[f]}) = 1
       /\ spec' = s
  /\ edits' = edits + 1
  /\ UNCHANGED <<sts, built>>

\* A pass updates the StatefulSet or creates it again.
Reconcile ==
  /\ sts # CreateStatefulSet(spec)
  /\ sts' = CreateStatefulSet(spec)
  /\ built' = spec
  /\ UNCHANGED <<spec, edits>>

Next == Edit \/ Reconcile

Spec == Init /\ [][Next]_vars

-----------------------------------------------------------------------------

\* The claim a directory of a container is on, if any.
ClaimAt(container, path) ==
  {m[1] : m \in {m \in Range(container.mounts) : m[2] = path}} \cap Claims

Containers(name) == {c \in Range(sts.pod) : c.name = name}

\* What ClickHouse writes to its log is on the claim of the log template, and
\* that is where the log container looks.
\* The code breaks it: README.md, Disagreements.
LogShared ==
  sts # None /\ sts = CreateStatefulSet(spec) /\ spec.log \in spec.claims =>
    /\ \A c \in Containers(Log) : ClaimAt(c, LogDir) = {spec.log}
    /\ ClaimAt(sts.pod[ClickHouseContainer(sts.pod)], LogDir) = {spec.log}

\* A server keeps its data where it is as long as its data template, its pod
\* template and that claim are the same, whatever else is edited.
DataStay ==
  sts # None /\ sts' # None /\ built.template = spec.template =>
    LET old == sts.pod[ClickHouseContainer(sts.pod)]
        new == sts'.pod[ClickHouseContainer(sts'.pod)]
    IN \A c \in ClaimAt(old, DataDir) \cap {spec.data} \cap spec.claims :
         ClaimAt(new, DataDir) = {c}
DataStays == [][DataStay]_vars
=============================================================================
