----------------------------- MODULE MCPlacement -----------------------------
(* Pod templates and clusters for Placement.                               *)
EXTENDS Placement

Of(type) == Item(type, "", 0, "")

\* Each CHI on nodes of its own, two Pods on each.
OwnNodes ==
  << Of("AnotherClickHouseInstallationAntiAffinity"), Item("MaxNumberPerNode", "Cluster", 2, ""),
     Of("PreviousTailAffinity") >>

OneNamespace == [c \in CHIs |-> "ns1"]
OneZone == [n \in Nodes |-> "z1"]
=============================================================================
