-------------------------------- MODULE Ports --------------------------------
(***************************************************************************)
(* The ports of a CHI's hosts.  A pass takes each from the host, its host  *)
(* template, its settings, the settings of the CHI or a default            *)
(* (pkg/model/normalizer.go) and tells it to two sides: Services,          *)
(* containers and remote_servers, and, through configuration files, the    *)
(* ClickHouse server (pkg/model/ch_config_generator.go, creator.go).       *)
(***************************************************************************)
EXTENDS Integers, Sequences, FiniteSets

CONSTANTS
  Specs,       \* what the user may ask for
  MaxShards,
  MaxEdits     \* bound on edits of the CHI

Kinds == {"tcp", "http", "interserver"}

\* chPortNumberMustBeAssignedLater, and what ClickHouse uses if not told.
Later == 0
Default == [tcp |-> 9000, http |-> 8123, interserver |-> 9009]

VARIABLES
  spec,    \* .spec of the CHI, as far as ports go
  port,    \* ports of each host, as of the last pass
  file,    \* its two configuration files
  fresh,   \* the last pass has seen spec
  edits

vars == <<spec, port, file, fresh, edits>>

\* A host by its cluster, shard and replica.
HostsOf(s) == (1..s.clusters) \X (1..s.shards) \X (1..s.replicas)

-----------------------------------------------------------------------------
(* A port of a host                                                        *)

\* Out of range counts as not given.
Normalize(number) == IF number \in 1..65534 THEN number ELSE Later

\* Position of the host in its cluster, shard by shard.
ClusterScopeIndex(h, s) == (h[2] - 1) * s.replicas + (h[3] - 1)

\* Mutant: the default template does not know of the host network.
GetHostTemplatePlain(s) ==
  IF s.template # {} THEN CHOOSE t \in s.template : TRUE
  ELSE [ports |-> [k \in Kinds |-> Later], distribution |-> "Unspecified"]

\* The host template, by default one that shifts ports on the host network.
GetHostTemplate(s) ==
  IF s.template # {} THEN CHOOSE t \in s.template : TRUE
  ELSE [ports |-> [k \in Kinds |-> Later],
        distribution |-> IF s.hostNetwork THEN "ClusterScopeIndex" ELSE "Unspecified"]

FromTemplate(h, k, s) ==
  LET template == GetHostTemplate(s)
      number   == Normalize(template.ports[k])
      base     == IF number = Later THEN Default[k] ELSE number
  IN IF template.distribution = "ClusterScopeIndex" THEN base + ClusterScopeIndex(h, s)
     ELSE number

\* The first of these that is given.
HostPort(h, k, s) ==
  LET sources == << Normalize(s.explicit[h[2], h[3]][k]), FromTemplate(h, k, s),
                    s.own[h[2], h[3]][k], s.settings[k], Default[k] >>
      given   == {i \in DOMAIN sources : sources[i] # Later}
  IN sources[CHOOSE i \in given : \A j \in given : i <= j]

-----------------------------------------------------------------------------
(* What the server is told                                                 *)

\* chop-generated-ports.xml holds what is not ClickHouse's default.
GetHostPorts(ports) == [k \in Kinds |-> IF ports[k] = Default[k] THEN Later ELSE ports[k]]

\* chop-generated-settings.xml of the host and of all hosts, as written.
GetSettings(h, s) == [host |-> s.own[h[2], h[3]], common |-> s.settings]

\* A directory of files is read in order of names and the last one counts:
\* settings after ports.  The settings of all hosts are in another directory
\* (config.d), and either may be read last.
Merged(order, k) ==
  LET given == {i \in DOMAIN order : order[i][k] # Later}
  IN IF given = {} THEN Default[k] ELSE order[CHOOSE i \in given : \A j \in given : i >= j][k]

Listens(h, k) ==
  { Merged(<<file[h].common, file[h].ports, file[h].host>>, k),
    Merged(<<file[h].ports, file[h].host, file[h].common>>, k) }

-----------------------------------------------------------------------------
(* What all others are told                                                *)

\* Mutant: a port of that name is left as it is.
EnsureNamedPortsAsWritten(h) ==
  [k \in Kinds |-> IF spec.container[k] = Later THEN port[h][k] ELSE spec.container[k]]

\* Ports of the container, by their names.  A port of that name in the pod
\* template gets another number.
EnsureNamedPorts(h) == [k \in Kinds |-> port[h][k]]

\* The Service of the CHI leads to named ports of containers, the Service of
\* a host to numbers, and so does remote_servers, which other hosts use.
ServiceCHI(h) == [k \in {"tcp", "http"} |-> EnsureNamedPorts(h)[k]]
ServiceHost(h) == port[h]
RemoteServers(h) == [k \in {"tcp"} |-> port[h].tcp]

-----------------------------------------------------------------------------

Init ==
  /\ spec \in Specs
  /\ port = << >>
  /\ file = << >>
  /\ fresh = FALSE
  /\ edits = 0

\* The user gives other ports.
Edit ==
  /\ edits < MaxEdits
  /\ \E s \in Specs : spec' = [s EXCEPT !.shards = spec.shards]
  /\ spec' # spec
  /\ fresh' = FALSE
  /\ edits' = edits + 1
  /\ UNCHANGED <<port, file>>

\* The user adds a shard.
AddShard ==
  /\ edits < MaxEdits
  /\ spec.shards < MaxShards
  /\ spec' = [spec EXCEPT !.shards = @ + 1]
  /\ fresh' = FALSE
  /\ edits' = edits + 1
  /\ UNCHANGED <<port, file>>

\* A pass.
Pass ==
  /\ ~fresh
  /\ port' = [h \in HostsOf(spec) |-> [k \in Kinds |-> HostPort(h, k, spec)]]
  /\ file' = [h \in HostsOf(spec) |->
                [host   |-> GetSettings(h, spec).host,
                 common |-> GetSettings(h, spec).common,
                 ports  |-> GetHostPorts(port'[h])]]
  /\ fresh' = TRUE
  /\ UNCHANGED <<spec, edits>>

Next == Edit \/ AddShard \/ Pass

Spec == Init /\ [][Next]_vars

-----------------------------------------------------------------------------

\* Wherever a port came from, the server listens where Services, containers
\* and the other servers expect it.
PortsAgree ==
  fresh =>
    \A h \in DOMAIN port : \A way \in {ServiceCHI(h), ServiceHost(h), RemoteServers(h)} :
      \A k \in DOMAIN way : Listens(h, k) = {way[k]}

\* On the host network any hosts of a CHI may run on one node: no two of
\* their ports are the same.
NoClash ==
  fresh /\ spec.hostNetwork =>
    \A h, g \in DOMAIN port, k, l \in Kinds :
      port[h][k] = port[g][l] => <<h, k>> = <<g, l>>

=============================================================================
