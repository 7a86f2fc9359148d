--------------------------- MODULE MCChiReconcile ---------------------------
(* Small installations for ChiReconcile: the shard s1 has the replicas a and *)
(* b, the shard s2 has the single host c.                                    *)
EXTENDS ChiReconcile

MCWalk == <<"a", "b", "c">>
MCShardOf == [h \in {"a", "b", "c"} |-> IF h = "c" THEN "s2" ELSE "s1"]
MCEmptyChi == [hosts |-> {}, ver |-> 0, stop |-> FALSE, rolling |-> FALSE,
               wait |-> FALSE, reclaim |-> "Delete"]

Chi(hosts, ver) == [MCEmptyChi EXCEPT !.hosts = hosts, !.ver = ver, !.wait = TRUE]

AllFaults == FaultNames

\* Two versions of the two replicas, and the second shard added.
UpgradeSpecs == {Chi({"a", "b"}, 1), Chi({"a", "b"}, 2), Chi({"a", "b", "c"}, 2)}

\* Scale in and out, rolling updates, a stop, without the wait policy.
ScaleSpecs == {Chi({"a", "b"}, 1), Chi({"a", "b", "c"}, 1), Chi({"a"}, 1),
               [Chi({"a", "b"}, 2) EXCEPT !.rolling = TRUE, !.wait = FALSE],
               [Chi({"a", "b"}, 1) EXCEPT !.stop = TRUE],
               [Chi({"a"}, 2) EXCEPT !.reclaim = "Retain"]}

\* A rolling update that also drops a replica, for the run where all fails.
FaultySpecs == {Chi({"a", "b"}, 1), [Chi({"a"}, 2) EXCEPT !.rolling = TRUE]}

TwoVersions == {Chi({"a", "b"}, 1), Chi({"a", "b"}, 2)}

\* Two hosts, retained from the second edit on, and one of them dropped.
RetainSpecs == {Chi({"a", "b"}, 1), [Chi({"a", "b"}, 1) EXCEPT !.reclaim = "Retain"],
                [Chi({"a"}, 1) EXCEPT !.reclaim = "Retain"]}
=============================================================================
