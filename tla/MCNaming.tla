------------------------------ MODULE MCNaming -------------------------------
(* Names of clusters, shards and hosts for Naming.                         *)
EXTENDS Naming

TenNumerals == <<"0", "1", "2", "3", "4", "5", "6", "7", "8", "9">>
OneCHI == {<<"a">>}
Scopes == {"chi", "cluster", "shard", "host", "pod"}
Bare == [s \in Scopes |-> IF s \in {"cluster", "shard"} THEN << >> ELSE None]
Shard(name, hosts) == [name |-> name, hosts |-> hosts]
Cluster(name, shards) == [name |-> name, shards |-> shards]
One == <<Auto>>
Two == <<Auto, Auto>>

\* The name of a shard is as long as it may be.
Long == { << Cluster(<<"x">>, <<Shard(<<"s", "h", "a", "r", "d">>, Two)>>) >> }
=============================================================================
