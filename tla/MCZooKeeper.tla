----------------------------- MODULE MCZooKeeper -----------------------------
(* What users ask for, for ZooKeeper.                                      *)
EXTENDS ZooKeeper

Install(n) == [NewConfig EXCEPT !.install = TRUE, !.replica = n]
Root(r) == [NewConfig EXCEPT !.root = r]
External == [NewConfig EXCEPT !.nodes = {[host |-> <<"own", 0>>, port |-> 0]}]
Asks(chi, cluster) == [chi |-> chi, cluster |-> cluster]

\* An ensemble for all, nodes of the user's own for all or for the cluster, a
\* root of the cluster, and no ZooKeeper in a section that is there.
OneSize == {
  Asks(Install(3), None), Asks(External, None), Asks(Install(3), External),
  Asks(Install(3), Root("/a")), Asks(Root("/b"), Install(3)) }

\* Ensembles of different sizes, an even one among them.
Sizes == {Asks(Install(n), None) : n \in {0, 2, 3}}
=============================================================================
