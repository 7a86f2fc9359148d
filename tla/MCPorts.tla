------------------------------- MODULE MCPorts -------------------------------
(* What users ask for in Ports.                                            *)
EXTENDS Ports

None3 == [k \in Kinds |-> Later]
Tcp(number) == [None3 EXCEPT !.tcp = number]
Everywhere(ports) == [p \in (1..MaxShards) \X (1..2) |-> ports]
OnlyFirst(ports) == [p \in (1..MaxShards) \X (1..2) |-> IF p = <<1, 1>> THEN ports ELSE None3]

Base == [clusters |-> 1, shards |-> 1, replicas |-> 2, hostNetwork |-> FALSE, template |-> {},
         explicit |-> Everywhere(None3), own |-> Everywhere(None3), settings |-> None3, container |-> None3]
Template(ports, distribution) == {[ports |-> ports, distribution |-> distribution]}

Numbers3 == {[tcp |-> 10000, http |-> 11000, interserver |-> 12000], Tcp(7000), Tcp(70000),
             [tcp |-> 9000, http |-> 8124, interserver |-> 0]}

\* One source per port: the host, the template or settings.
ByHost == {[Base EXCEPT !.explicit = OnlyFirst(n)] : n \in Numbers3}
ByTemplate == {[Base EXCEPT !.template = Template(n, d)] :
                 n \in Numbers3, d \in {"Unspecified", "ClusterScopeIndex", "other"}}
BySettings == {[Base EXCEPT !.settings = n] : n \in {Tcp(9001), [tcp |-> 9001, http |-> 8124, interserver |-> 9010]}}
ByOwn == {[Base EXCEPT !.own = OnlyFirst(Tcp(9002))]}
PerKind == {[Base EXCEPT !.template = Template(Tcp(7000), "Unspecified"),
                         !.settings = [None3 EXCEPT !.http = 8124]]}
\* A pod template that names a port of the container itself.
Named == {[Base EXCEPT !.container = Tcp(9100), !.settings = Tcp(9001)]}
OneSource == {Base} \cup PerKind \cup Named \cup ByHost \cup ByTemplate \cup BySettings \cup ByOwn

\* Settings of the CHI, and a host that asks for a port of its own.
TwoSources == {[Base EXCEPT !.settings = Tcp(9001), !.explicit = OnlyFirst(Tcp(9000))]}

\* The host network: the examples 15-hostNetwork-*.yaml.
Network == [Base EXCEPT !.hostNetwork = TRUE]
OnHosts == {Network} \cup {[Network EXCEPT !.template = Template(n, "ClusterScopeIndex")] :
              n \in {[tcp |-> 10000, http |-> 11000, interserver |-> 12000], Tcp(10000)}}
=============================================================================
