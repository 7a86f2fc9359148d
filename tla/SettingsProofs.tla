--------------------------- MODULE SettingsProofs ---------------------------
(***************************************************************************)
(* Proofs about the modules MCSettings puts side by side: the templates,   *)
(* the login of an operator, the ports of hosts and their files, for any   *)
(* users, objects, hosts, keys and bounds.  A part that is not explored    *)
(* does not move, so each invariant speaks of its part only.               *)
(***************************************************************************)
EXTENDS MCSettings, SequenceTheorems, FiniteSetTheorems, TLAPS

-----------------------------------------------------------------------------
(* OperatorConfig                                                          *)

\* Objects that set a user name set a password as well, and no other do.
LoginsWhole ==
  \A k \in Watch!Positions : \A content \in Given[k] :
    content # None => (content.username # {} <=> content.password # {})

\* Objects hold what users may write, and every operator that runs has its
\* user name and its password from one place.
Written ==
  /\ DOMAIN objects = Watch!Positions
  /\ \A k \in Watch!Positions : objects[k] = None \/ objects[k] \in Given[k]
PairInv ==
  part = "watch" => Written /\ DOMAIN conf = Operators /\ Watch!OnePair

\* The last object that sets a user name is the last that sets a password, so
\* a new configuration takes both from it, from the file or from the Secret.
LEMMA OnePlace ==
  ASSUME LoginsWhole, Written, NEW o
  PROVE  Watch!Config(o).login["username"] = Watch!Config(o).login["password"]
<1>1. {k \in Watch!GetCRBasedConfigs(o) : objects[k]["username"] # {}}
        = {k \in Watch!GetCRBasedConfigs(o) : objects[k]["password"] # {}}
  BY DEF LoginsWhole, Written, Watch!GetCRBasedConfigs
<1>2. Watch!Setter(o, "username") = Watch!Setter(o, "password")
  BY <1>1 DEF Watch!Setter
<1>3. "username" \in Watch!Credentials /\ "password" \in Watch!Credentials
  BY DEF Watch!Credentials
<1> QED
  BY <1>2, <1>3 DEF Watch!Config, Watch!Postprocess, Watch!FetchSecretCredentials,
     Watch!BuildUnifiedConfig

\* No operator runs at first.
LEMMA PairInit == InitAll => PairInv
BY DEF InitAll, PairInv, Written, Watch!Init, Watch!OnePair

\* Users change objects and the Secret behind the backs of operators that
\* run; an operator makes its configuration anew only when it starts.
LEMMA PairNext ==
  ASSUME LoginsWhole, PairInv, [NextAll]_allVars
  PROVE  PairInv'
<1> SUFFICES ASSUME part' = "watch"
             PROVE  Written' /\ (DOMAIN conf = Operators)' /\ Watch!OnePair'
  BY DEF PairInv
<1>1. CASE UNCHANGED <<part, operators>>
  BY <1>1 DEF PairInv, Written, operators, Watch!OnePair, Watch!Positions
<1>2. CASE part = "watch" /\ Watch!Next /\ UNCHANGED part
  <2> Written /\ DOMAIN conf = Operators /\ Watch!OnePair
    BY <1>2 DEF PairInv
  <2>1. ASSUME NEW o \in Operators, Watch!Start(o)
        PROVE  Written' /\ (DOMAIN conf = Operators)' /\ Watch!OnePair'
    <3>1. Written' /\ (DOMAIN conf = Operators)'
      BY <2>1 DEF Watch!Start, Written, Watch!Positions
    <3>2. ASSUME NEW p \in Operators, conf'[p] # None
          PROVE  conf'[p].login["username"] = conf'[p].login["password"]
      BY <2>1, <3>2, OnePlace DEF Watch!Start, Watch!OnePair
    <3> QED
      BY <3>1, <3>2 DEF Watch!OnePair
  <2>2. ASSUME NEW o \in Operators, Watch!Stop(o)
        PROVE  Written' /\ (DOMAIN conf = Operators)' /\ Watch!OnePair'
    BY <2>2 DEF Watch!Stop, Written, Watch!Positions, Watch!OnePair
  <2>3. ASSUME NEW o \in Operators, NEW n \in Namespaces, Watch!HandleCHI(o, n)
        PROVE  Written' /\ (DOMAIN conf = Operators)' /\ Watch!OnePair'
    BY <2>3 DEF Watch!HandleCHI, Written, Watch!Positions, Watch!OnePair
  <2>4. ASSUME NEW k \in Watch!Positions, Watch!PutConfig(k) \/ Watch!DeleteConfig(k)
        PROVE  Written' /\ (DOMAIN conf = Operators)' /\ Watch!OnePair'
    BY <2>4 DEF Watch!PutConfig, Watch!DeleteConfig, Written, Watch!Positions, Watch!OnePair
  <2>5. ASSUME Watch!WriteSecret
        PROVE  Written' /\ (DOMAIN conf = Operators)' /\ Watch!OnePair'
    BY <2>5 DEF Watch!WriteSecret, Written, Watch!Positions, Watch!OnePair
  <2> QED
    BY <1>2, <2>1, <2>2, <2>3, <2>4, <2>5 DEF Watch!Next
<1> QED
  BY <1>1, <1>2 DEF NextAll, TemplatesStep, OperatorsStep, PortsStep, FilesStep, allVars

\* Whatever configurations come and go and however the Secret is filled, no
\* operator logs in with a user name and a password of two places, if no
\* object gives one without the other.
THEOREM PairKept ==
  ASSUME LoginsWhole
  PROVE  SpecAll => []OnePair
<1>1. PairInv => OnePair
  BY DEF PairInv, OnePair
<1> QED
  BY <1>1, PairInit, PairNext, PTL DEF SpecAll

-----------------------------------------------------------------------------
(* Ports                                                                   *)

\* Where a port of a host may come from, but for the default.
PortSources(h, k, s) ==
  << Network!Normalize(s.explicit[h[2], h[3]][k]), Network!FromTemplate(h, k, s),
     s.own[h[2], h[3]][k], s.settings[k] >>

\* The hosts of a CHI once it has grown to its last shard.
Grown(s) == (1 .. s.clusters) \X (1 .. MaxShards) \X (1 .. s.replicas)

\* Each port of a host comes from at most one source.
OneSourced(s) ==
  \A h \in Grown(s), k \in Network!Kinds : \A i, j \in 1 .. 4 :
    PortSources(h, k, s)[i] # 0 /\ PortSources(h, k, s)[j] # 0 => i = j

\* What the ports of hosts on the host network are counted from.
Base(s, k) ==
  LET number == Network!Normalize(Network!GetHostTemplate(s).ports[k])
  IN IF number = 0 THEN Network!Default[k] ELSE number

\* One cluster whose hosts count their ports from bases that are further
\* apart than there will be hosts, with no port given to a host by itself.
Roomy(s) ==
  s.hostNetwork =>
    /\ s.clusters = 1 /\ s.replicas \in Nat
    /\ Network!GetHostTemplate(s).distribution = "ClusterScopeIndex"
    /\ \A h \in Grown(s), k \in Network!Kinds :
         Network!Normalize(s.explicit[h[2], h[3]][k]) = 0
    /\ \A k, l \in Network!Kinds : k # l =>
         \/ Base(s, k) + MaxShards * s.replicas <= Base(s, l)
         \/ Base(s, l) + MaxShards * s.replicas <= Base(s, k)

Fields == {"clusters", "shards", "replicas", "hostNetwork", "template", "explicit", "own",
           "settings", "container"}

\* What users may ask for.
SpecsShape ==
  /\ MaxShards \in Nat
  /\ \A s \in Specs : DOMAIN s = Fields /\ s.shards \in 1 .. MaxShards

\* The first given of five, and the last given of three files.
LEMMA FirstOfFive ==
  ASSUME NEW a, NEW b, NEW c, NEW d, NEW e, e # 0,
         NEW q, q = <<a, b, c, d, e>>,
         NEW given, given = {i \in DOMAIN q : q[i] # 0}
  PROVE  q[CHOOSE i \in given : \A j \in given : i <= j]
           = IF a # 0 THEN a ELSE IF b # 0 THEN b ELSE IF c # 0 THEN c ELSE IF d # 0 THEN d ELSE e
<1> DEFINE r == IF a # 0 THEN 1 ELSE IF b # 0 THEN 2 ELSE IF c # 0 THEN 3 ELSE IF d # 0 THEN 4 ELSE 5
<1>1. DOMAIN q = 1 .. 5 /\ q[1] = a /\ q[2] = b /\ q[3] = c /\ q[4] = d /\ q[5] = e
  OBVIOUS
<1>2. given = {i \in 1 .. 5 : q[i] # 0}
  BY <1>1
<1>3. r \in given /\ \A j \in given : r <= j
  BY <1>1, <1>2
<1>4. \A i \in given : (\A j \in given : i <= j) => i = r
  BY <1>2, <1>3
<1>5. (CHOOSE i \in given : \A j \in given : i <= j) = r
  BY <1>3, <1>4
<1> QED
  BY <1>1, <1>5

\* Of three files the last that sets a port counts.
LEMMA LastOfThree ==
  ASSUME NEW a, NEW b, NEW c, NEW k, NEW order, order = <<a, b, c>>
  PROVE  Network!Merged(order, k)
           = IF c[k] # 0 THEN c[k] ELSE IF b[k] # 0 THEN b[k] ELSE IF a[k] # 0 THEN a[k]
             ELSE Network!Default[k]
<1> DEFINE given == {i \in DOMAIN order : order[i][k] # 0}
           r == IF c[k] # 0 THEN 3 ELSE IF b[k] # 0 THEN 2 ELSE 1
<1>1. DOMAIN order = 1 .. 3 /\ order[1] = a /\ order[2] = b /\ order[3] = c
  OBVIOUS
<1>2. given = {i \in 1 .. 3 : order[i][k] # 0}
  BY <1>1
<1>3. given = {} <=> a[k] = 0 /\ b[k] = 0 /\ c[k] = 0
  BY <1>1, <1>2
<1>4. Network!Merged(order, k)
        = IF given = {} THEN Network!Default[k]
          ELSE order[CHOOSE i \in given : \A j \in given : i >= j][k]
  BY DEF Network!Merged, Network!Later
<1>5. CASE given # {}
  <2>1. r \in given /\ \A j \in given : r >= j
    BY <1>1, <1>2, <1>3, <1>5
  <2>2. \A i \in given : (\A j \in given : i >= j) => i = r
    BY <1>2, <2>1
  <2>3. (CHOOSE i \in given : \A j \in given : i >= j) = r
    BY <2>1, <2>2
  <2> QED
    BY <1>1, <1>3, <1>4, <1>5, <2>3
<1> QED
  BY <1>3, <1>4, <1>5

\* The port of a host comes from the first of its sources that sets it.
LEMMA HostPortIs ==
  ASSUME NEW h, NEW k \in Network!Kinds, NEW s
  PROVE  LET q == PortSources(h, k, s)
         IN Network!HostPort(h, k, s)
              = IF q[1] # 0 THEN q[1] ELSE IF q[2] # 0 THEN q[2] ELSE IF q[3] # 0 THEN q[3]
                ELSE IF q[4] # 0 THEN q[4] ELSE Network!Default[k]
<1> DEFINE sources == << Network!Normalize(s.explicit[h[2], h[3]][k]), Network!FromTemplate(h, k, s),
                         s.own[h[2], h[3]][k], s.settings[k], Network!Default[k] >>
           given == {i \in DOMAIN sources : sources[i] # 0}
<1>1. Network!HostPort(h, k, s) = sources[CHOOSE i \in given : \A j \in given : i <= j]
  BY DEF Network!HostPort, Network!Later
<1>2. Network!Default[k] # 0
  BY DEF Network!Default, Network!Kinds
<1> DEFINE a == Network!Normalize(s.explicit[h[2], h[3]][k])
           b == Network!FromTemplate(h, k, s)
           c == s.own[h[2], h[3]][k]
           d == s.settings[k]
           e == Network!Default[k]
<1>4. sources = <<a, b, c, d, e>> /\ given = {i \in DOMAIN sources : sources[i] # 0}
  OBVIOUS
<1>5. PortSources(h, k, s) = <<a, b, c, d>>
  BY DEF PortSources
<1> HIDE DEF given, sources, a, b, c, d, e
<1>3. sources[CHOOSE i \in given : \A j \in given : i <= j]
        = IF a # 0 THEN a ELSE IF b # 0 THEN b ELSE IF c # 0 THEN c ELSE IF d # 0 THEN d ELSE e
  BY <1>2, <1>4, FirstOfFive DEF e
<1> QED
  BY <1>1, <1>3, <1>5 DEF e

\* What a server listens on, read from its files in either order, is the port
\* the others are told, if that port has one source: a port that is not
\* ClickHouse's default is in the file of ports, and one that settings give
\* is in their file.
LEMMA ListensThere ==
  ASSUME NEW h, NEW k \in Network!Kinds, NEW s,
         NEW q, q = PortSources(h, k, s), \A i, j \in 1 .. 4 : q[i] # 0 /\ q[j] # 0 => i = j,
         NEW number, number = Network!HostPort(h, k, s),
         file[h].common[k] = q[4], file[h].host[k] = q[3],
         file[h].ports[k] = IF number = Network!Default[k] THEN 0 ELSE number
  PROVE  Network!Listens(h, k) = {number}
<1> DEFINE common == file[h].common[k]
           own == file[h].host[k]
           ports == file[h].ports[k]
<1>1. q[3] = own /\ q[4] = common
  OBVIOUS
<1>8. number = IF q[1] # 0 THEN q[1] ELSE IF q[2] # 0 THEN q[2] ELSE IF q[3] # 0 THEN q[3]
               ELSE IF q[4] # 0 THEN q[4] ELSE Network!Default[k]
  BY HostPortIs
<1>6. /\ Network!Merged(<<file[h].common, file[h].ports, file[h].host>>, k)
           = IF own # 0 THEN own ELSE IF ports # 0 THEN ports ELSE IF common # 0 THEN common
             ELSE Network!Default[k]
      /\ Network!Merged(<<file[h].ports, file[h].host, file[h].common>>, k)
           = IF common # 0 THEN common ELSE IF own # 0 THEN own ELSE IF ports # 0 THEN ports
             ELSE Network!Default[k]
  BY LastOfThree
<1>7. ports = IF number = Network!Default[k] THEN 0 ELSE number
  OBVIOUS
<1> HIDE DEF common, own, ports
<1>2. number = IF q[1] # 0 THEN q[1] ELSE IF q[2] # 0 THEN q[2] ELSE IF own # 0 THEN own
               ELSE IF common # 0 THEN common ELSE Network!Default[k]
  BY <1>1, <1>8
<1>4. /\ q[1] # 0 => own = 0 /\ common = 0
      /\ q[2] # 0 => own = 0 /\ common = 0
      /\ own # 0 => common = 0
  BY <1>1
<1>5. Network!Default[k] # 0
  BY DEF Network!Default, Network!Kinds
<1> QED
  BY <1>2, <1>4, <1>5, <1>6, <1>7 DEF Network!Listens

\* Products, for the index of a host in its cluster.
LEMMA Products == \A n, m \in Nat : n * m \in Nat
OBVIOUS

\* A place in a table of n rows and m columns.
LEMMA Positions ==
  ASSUME NEW n \in Nat, NEW m \in Nat, NEW a \in 1 .. n, NEW b \in 1 .. m
  PROVE  (a - 1) * m + (b - 1) \in 0 .. n * m - 1
<1>1. n * m = (a - 1) * m + m + (n - a) * m
  OBVIOUS
<1>2. (n - a) * m >= 0 /\ (a - 1) * m >= 0 /\ (n - a) * m \in Int /\ (a - 1) * m \in Int
  OBVIOUS
<1> QED
  BY <1>1, <1>2

\* Places in different rows are different.
LEMMA PositionsApart ==
  ASSUME NEW m \in Nat, NEW a \in Nat, NEW b \in Nat, a < b,
         NEW c \in 1 .. m, NEW d \in 1 .. m
  PROVE  (a - 1) * m + (c - 1) # (b - 1) * m + (d - 1)
<1>1. (b - 1) * m = (a - 1) * m + m + (b - a - 1) * m
  OBVIOUS
<1>2. (b - a - 1) * m >= 0 /\ (b - a - 1) * m \in Int /\ (a - 1) * m \in Int
  OBVIOUS
<1> QED
  BY <1>1, <1>2

\* The same requests but for the number of shards.
Alike(s, t) ==
  /\ s.clusters = t.clusters /\ s.replicas = t.replicas /\ s.hostNetwork = t.hostNetwork
  /\ s.template = t.template /\ s.explicit = t.explicit /\ s.own = t.own
  /\ s.settings = t.settings /\ s.container = t.container

\* The user asks for one of Specs, grown by some shards, and what the last
\* pass left is what it made of the request, unless that is edited since.
Asked ==
  /\ DOMAIN spec = Fields /\ spec.shards \in 1 .. MaxShards
  /\ \E s \in Specs : Alike(spec, s)
Made ==
  /\ port = [h \in Network!HostsOf(spec) |->
               [k \in Network!Kinds |-> Network!HostPort(h, k, spec)]]
  /\ file = [h \in Network!HostsOf(spec) |->
               [host   |-> Network!GetSettings(h, spec).host,
                common |-> Network!GetSettings(h, spec).common,
                ports  |-> Network!GetHostPorts(port[h])]]
PortsInv == part = "network" => Asked /\ (fresh => Made) /\ fresh \in BOOLEAN

\* Where ports come from and how far they are apart does not depend on the
\* number of shards.
LEMMA SourcesAlike ==
  ASSUME NEW s, NEW t, Alike(s, t)
  PROVE  (OneSourced(t) => OneSourced(s)) /\ (Roomy(t) => Roomy(s))
<1>1. Network!GetHostTemplate(s) = Network!GetHostTemplate(t)
  BY DEF Alike, Network!GetHostTemplate
<1>2. Grown(s) = Grown(t)
  BY DEF Alike, Grown
<1>3. \A h, k : Network!FromTemplate(h, k, s) = Network!FromTemplate(h, k, t)
  BY <1>1, Zenon DEF Network!FromTemplate, Network!ClusterScopeIndex, Alike
<1>4. \A h, k : PortSources(h, k, s) = PortSources(h, k, t)
  BY <1>3, Zenon DEF PortSources, Alike
<1>5. ASSUME NEW k
      PROVE  Base(s, k) = Base(t, k)
  <2>1. Network!Normalize(Network!GetHostTemplate(s).ports[k])
          = Network!Normalize(Network!GetHostTemplate(t).ports[k])
    BY <1>1
  <2> QED
    BY <2>1 DEF Base
<1>6. ASSUME OneSourced(t)
      PROVE  OneSourced(s)
  <2>1. ASSUME NEW h \in Grown(s), NEW k \in Network!Kinds, NEW i \in 1 .. 4, NEW j \in 1 .. 4,
               PortSources(h, k, s)[i] # 0, PortSources(h, k, s)[j] # 0
        PROVE  i = j
    BY <1>2, <1>4, <1>6, <2>1 DEF OneSourced
  <2> QED
    BY <2>1 DEF OneSourced
<1>7. Roomy(t) => Roomy(s)
  BY <1>1, <1>2, <1>5, Zenon DEF Roomy, Alike
<1> QED
  BY <1>6, <1>7

\* Every host is one of those the request may grow to.
LEMMA HostsGrown ==
  ASSUME SpecsShape, Asked
  PROVE  Network!HostsOf(spec) \subseteq Grown(spec)
<1>1. 1 .. spec.shards \subseteq 1 .. MaxShards
  BY DEF SpecsShape, Asked
<1> QED
  BY <1>1, Zenon DEF Network!HostsOf, Grown

\* No pass has given ports yet.
LEMMA PortsInit ==
  ASSUME SpecsShape
  PROVE  InitAll => PortsInv
<1> SUFFICES ASSUME InitAll, part = "network"
             PROVE  Asked /\ (fresh => Made) /\ fresh \in BOOLEAN
  BY DEF PortsInv
<1>1. spec \in Specs /\ fresh = FALSE
  BY DEF InitAll, Network!Init
<1>2. Asked
  BY <1>1 DEF Asked, Alike, SpecsShape
<1> QED
  BY <1>1, <1>2

\* An edit takes the shards there are, a new shard takes the rest.
LEMMA PortsNext ==
  ASSUME SpecsShape, PortsInv, [NextAll]_allVars
  PROVE  PortsInv'
<1> SUFFICES ASSUME part' = "network"
             PROVE  Asked' /\ (fresh => Made)' /\ (fresh \in BOOLEAN)'
  BY DEF PortsInv
<1>1. CASE UNCHANGED <<part, network>>
  BY <1>1 DEF PortsInv, Asked, Made, network
<1>2. CASE part = "network" /\ Network!Next /\ UNCHANGED part
  <2> Asked /\ (fresh => Made) /\ fresh \in BOOLEAN
    BY <1>2 DEF PortsInv
  <2>1. CASE Network!Edit
    <3>1. PICK s \in Specs : spec' = [s EXCEPT !.shards = spec.shards]
      BY <2>1 DEF Network!Edit
    <3>2. DOMAIN s = Fields
      BY DEF SpecsShape
    <3>3. DOMAIN spec' = Fields /\ spec'.shards = spec.shards /\ Alike(spec', s)
      BY <3>1, <3>2 DEF Alike, Fields
    <3> QED
      BY <2>1, <3>3 DEF Network!Edit, Asked
  <2>2. CASE Network!AddShard
    <3>1. spec' = [spec EXCEPT !.shards = spec.shards + 1] /\ spec.shards < MaxShards /\ fresh' = FALSE
      BY <2>2 DEF Network!AddShard
    <3>2. DOMAIN spec' = Fields /\ spec'.shards = spec.shards + 1 /\ Alike(spec', spec)
      BY <3>1 DEF Asked, Alike, Fields
    <3>3. \E s \in Specs : Alike(spec', s)
      BY <3>2 DEF Asked, Alike
    <3>4. spec'.shards \in 1 .. MaxShards
      BY <3>1, <3>2 DEF Asked, SpecsShape
    <3> QED
      BY <3>1, <3>2, <3>3, <3>4 DEF Asked
  <2>3. CASE Network!Pass
    BY <2>3 DEF Network!Pass, Asked, Made
  <2> QED
    BY <1>2, <2>1, <2>2, <2>3 DEF Network!Next
<1> QED
  BY <1>1, <1>2 DEF NextAll, TemplatesStep, OperatorsStep, PortsStep, FilesStep, allVars

\* Wherever a port comes from, if it comes from one place the server listens
\* where Services, containers and the other servers expect it.
THEOREM ServersAgree ==
  ASSUME SpecsShape, \A s \in Specs : OneSourced(s)
  PROVE  SpecAll => []PortsAgree
<1>1. ASSUME PortsInv
      PROVE  PortsAgree
  <2> SUFFICES ASSUME part = "network", fresh
               PROVE  Network!PortsAgree
    BY DEF PortsAgree, Network!PortsAgree
  <2>1. Made /\ Asked /\ OneSourced(spec)
    BY <1>1, SourcesAlike DEF PortsInv, Asked
  <2>2. ASSUME NEW h \in DOMAIN port, NEW k \in Network!Kinds
        PROVE  Network!Listens(h, k) = {port[h][k]}
    <3>1. h \in Network!HostsOf(spec)
      BY <2>1, <2>2 DEF Made
    <3>2. port[h] = [l \in Network!Kinds |-> Network!HostPort(h, l, spec)]
      BY <2>1, <3>1 DEF Made
    <3>3. /\ file[h].host = Network!GetSettings(h, spec).host
          /\ file[h].common = Network!GetSettings(h, spec).common
          /\ file[h].ports = Network!GetHostPorts(port[h])
      BY <2>1, <3>1 DEF Made
    <3>4. file[h].host[k] = PortSources(h, k, spec)[3] /\ file[h].common[k] = PortSources(h, k, spec)[4]
      BY <3>3, Zenon DEF Network!GetSettings, PortSources
    <3>5. file[h].ports[k] = IF port[h][k] = Network!Default[k] THEN 0 ELSE port[h][k]
      BY <2>2, <3>3 DEF Network!GetHostPorts, Network!Later
    <3>6. \A i, j \in 1 .. 4 :
            PortSources(h, k, spec)[i] # 0 /\ PortSources(h, k, spec)[j] # 0 => i = j
      BY <2>1, <2>2, <3>1, HostsGrown DEF OneSourced
    <3> QED
      BY <2>2, <3>2, <3>4, <3>5, <3>6, ListensThere
  <2>3. ASSUME NEW h \in DOMAIN port
        PROVE  \A way \in {Network!ServiceCHI(h), Network!ServiceHost(h), Network!RemoteServers(h)} :
                 \A k \in DOMAIN way : k \in Network!Kinds /\ way[k] = port[h][k]
    <3>1. DOMAIN port[h] = Network!Kinds
      BY <2>1, <2>3 DEF Made
    <3> QED
      BY <3>1 DEF Network!ServiceCHI, Network!ServiceHost, Network!RemoteServers,
         Network!EnsureNamedPorts, Network!Kinds
  <2> QED
    BY <2>2, <2>3 DEF Network!PortsAgree
<1> QED
  BY <1>1, PortsInit, PortsNext, PTL DEF SpecAll

\* The place of a host in its cluster, the n of "the n-th host".
Place(h) == Network!ClusterScopeIndex(h, spec)

\* Hosts of one cluster have places of their own in it.
LEMMA PlacesApart ==
  ASSUME SpecsShape, Asked, spec.replicas \in Nat, spec.clusters = 1,
         NEW h \in Network!HostsOf(spec)
  PROVE  /\ Place(h) \in 0 .. MaxShards * spec.replicas - 1
         /\ \A g \in Network!HostsOf(spec) : Place(g) = Place(h) => g = h
<1>1. \A g \in Network!HostsOf(spec) :
        /\ g[1] = 1 /\ g[2] \in 1 .. MaxShards /\ g[3] \in 1 .. spec.replicas
        /\ g = <<g[1], g[2], g[3]>>
  BY HostsGrown DEF Grown
<1>2. \A g \in Network!HostsOf(spec) : Place(g) = (g[2] - 1) * spec.replicas + (g[3] - 1)
  BY DEF Place, Network!ClusterScopeIndex
<1>3. Place(h) \in 0 .. MaxShards * spec.replicas - 1
  BY <1>1, <1>2, Positions DEF SpecsShape
<1>4. ASSUME NEW g \in Network!HostsOf(spec), Place(g) = Place(h)
      PROVE  g = h
  <2>1. ~(g[2] < h[2]) /\ ~(h[2] < g[2])
    BY <1>1, <1>2, <1>4, PositionsApart DEF SpecsShape
  <2>2. g[2] = h[2]
    BY <1>1, <2>1 DEF SpecsShape
  <2> DEFINE before == (h[2] - 1) * spec.replicas
  <2>3. before \in Int /\ Place(h) = before + (h[3] - 1) /\ Place(g) = before + (g[3] - 1)
    BY <1>1, <1>2, <2>2 DEF SpecsShape
  <2> HIDE DEF before
  <2>4. g[3] = h[3]
    BY <1>1, <1>4, <2>3
  <2> QED
    BY <1>1, <2>2, <2>4
<1> QED
  BY <1>3, <1>4

\* A normalized port is a natural number, out of range or not.
LEMMA Normalized ==
  ASSUME NEW n
  PROVE  Network!Normalize(n) \in Nat
<1> DEFINE highest == 65534
           valid == 1 .. highest
<1>1. highest \in Nat
  BY SMT
<1>2. Network!Normalize(n) = IF n \in valid THEN n ELSE Network!Later
  BY SMT DEF Network!Normalize
<1>3. Network!Later \in Nat
  BY SMT DEF Network!Later
<1> HIDE DEF highest
<1>4. valid \subseteq Nat
  BY <1>1, SMT
<1> HIDE DEF valid
<1> QED
  BY <1>2, <1>3, <1>4, Zenon

\* On the host network a host counts from the base of each kind of port.
LEMMA Counted ==
  ASSUME SpecsShape, Asked, Made, Roomy(spec), spec.hostNetwork,
         NEW h \in DOMAIN port, NEW k \in Network!Kinds
  PROVE  port[h][k] = Base(spec, k) + Place(h) /\ Base(spec, k) \in Nat \ {0}
<1>1. h \in Network!HostsOf(spec) /\ h \in Grown(spec)
  BY HostsGrown DEF Made
<1>2. port[h][k] = Network!HostPort(h, k, spec)
  BY <1>1 DEF Made
<1> DEFINE q == PortSources(h, k, spec)
<1>3. q[1] = 0
  BY <1>1 DEF Roomy, PortSources
<1>8. Network!Default[k] \in Nat \ {0}
  BY DEF Network!Default, Network!Kinds
<1>4. Base(spec, k) \in Nat \ {0}
  BY <1>8, Normalized DEF Base
<1>5. q[2] = Base(spec, k) + Place(h)
  BY DEF Roomy, PortSources, Network!FromTemplate, Base, Place, Network!Later
<1>9. MaxShards * spec.replicas \in Nat
  BY Products DEF Roomy, SpecsShape
<1>6. Place(h) \in Nat
  <2>1. Place(h) \in 0 .. MaxShards * spec.replicas - 1
    BY <1>1, PlacesApart DEF Roomy
  <2> QED
    BY <1>9, <2>1
<1>10. Network!HostPort(h, k, spec)
          = IF q[1] # 0 THEN q[1] ELSE IF q[2] # 0 THEN q[2] ELSE IF q[3] # 0 THEN q[3]
            ELSE IF q[4] # 0 THEN q[4] ELSE Network!Default[k]
  BY HostPortIs
<1> HIDE DEF q
<1> QED
  BY <1>2, <1>3, <1>4, <1>5, <1>6, <1>10

\* On the host network no two ports of a CHI are the same, as long as hosts
\* count from bases further apart than the CHI has hosts: the ports of the
\* default template, of which two are nine apart, have room for nine hosts.
THEOREM PortsApart ==
  ASSUME SpecsShape, \A s \in Specs : Roomy(s)
  PROVE  SpecAll => []NoClash
<1>1. ASSUME PortsInv
      PROVE  NoClash
  <2> SUFFICES ASSUME part = "network", fresh, spec.hostNetwork,
                      NEW h \in DOMAIN port, NEW g \in DOMAIN port,
                      NEW k \in Network!Kinds, NEW l \in Network!Kinds,
                      port[h][k] = port[g][l]
               PROVE  <<h, k>> = <<g, l>>
    BY DEF NoClash, Network!NoClash
  <2>1. Made /\ Asked /\ Roomy(spec)
    BY <1>1, SourcesAlike DEF PortsInv, Asked
  <2>2. h \in Network!HostsOf(spec) /\ g \in Network!HostsOf(spec)
    BY <2>1 DEF Made
  <2> DEFINE room == MaxShards * spec.replicas
  <2>3. /\ Place(h) \in 0 .. room - 1 /\ Place(g) \in 0 .. room - 1
        /\ Place(g) = Place(h) => g = h
    BY <2>1, <2>2, PlacesApart DEF Roomy
  <2>4. /\ Base(spec, k) + Place(h) = Base(spec, l) + Place(g)
        /\ Base(spec, k) \in Nat /\ Base(spec, l) \in Nat
    BY <2>1, Counted
  <2>5. k # l => Base(spec, k) + room <= Base(spec, l) \/ Base(spec, l) + room <= Base(spec, k)
    BY <2>1 DEF Roomy
  <2>6. room \in Nat
    BY <2>1, Products DEF Roomy, SpecsShape
  <2> HIDE DEF room
  <2>7. k = l
    BY <2>3, <2>4, <2>5, <2>6
  <2> QED
    BY <2>3, <2>4, <2>7
<1> QED
  BY <1>1, PortsInit, PortsNext, PTL DEF SpecAll

-----------------------------------------------------------------------------
(* ConfigFiles                                                             *)

\* No two keys of a section of files end in one name.
KeysApart ==
  \A section \in {"common", "host"}, k, l \in Keys :
    /\ Mounts!InSection(k, section, TRUE) /\ Mounts!InSection(l, section, TRUE)
    /\ k.name = l.name
    => k = l

\* The keys of a section that are given a content, and the files they make.
GivenKeys(given, section) ==
  {k \in Keys : given[k] # None /\ Mounts!InSection(k, section, TRUE)}
FilesOf(given, section) ==
  [n \in Mounts!Names |->
     IF \E k \in GivenKeys(given, section) : k.name = n
     THEN given[CHOOSE k \in GivenKeys(given, section) : k.name = n] ELSE None]

\* Where names are apart there is one way to make the files of a section.
LEMMA OneSection ==
  ASSUME KeysApart, NEW section \in {"common", "host"}, NEW given,
         NEW m \in Mounts!GetSection(given, section, TRUE)
  PROVE  m = FilesOf(given, section)
<1> DEFINE there == {k \in Keys : given[k] # None /\ Mounts!InSection(k, section, TRUE)}
           Sole(keys) == \A k \in there : \E l \in keys : {i \in keys : i.name = k.name} = {l}
           Result(keys) == [n \in Mounts!Names |->
                              IF \E k \in keys : k.name = n
                              THEN given[CHOOSE k \in keys : k.name = n] ELSE None]
<1>1. Mounts!GetSection(given, section, TRUE)
        = {Result(keys) : keys \in {ks \in SUBSET there : Sole(ks)}}
  BY DEF Mounts!GetSection
<1> HIDE DEF there, Sole, Result
<1>2. PICK keys \in SUBSET there : Sole(keys) /\ m = Result(keys)
  BY <1>1
<1>3. ASSUME NEW k \in there
      PROVE  k \in keys
  <2>2. PICK l \in keys : l.name = k.name
    BY <1>2, <1>3 DEF Sole
  <2>3. l = k
    BY <1>2, <1>3, <2>2 DEF there, KeysApart
  <2> QED
    BY <2>2, <2>3
<1>4. keys = there
  BY <1>2, <1>3
<1>5. there = GivenKeys(given, section)
  BY DEF there, GivenKeys
<1> QED
  BY <1>2, <1>4, <1>5 DEF FilesOf, Result

\* The fingerprint leaves out no key that makes a file of these sections.
LEMMA SectionFiltered ==
  ASSUME NEW section \in {"common", "host"}, NEW given
  PROVE  FilesOf(Mounts!Filter(given), section) = FilesOf(given, section)
<1> DEFINE kept == Mounts!Filter(given)
<1>1. \A k \in Keys : Mounts!InSection(k, section, TRUE) => kept[k] = given[k]
  BY DEF Mounts!InSection, Mounts!Filter
<1> HIDE DEF kept
<1>2. GivenKeys(kept, section) = GivenKeys(given, section)
  BY <1>1 DEF GivenKeys
<1>3. ASSUME NEW n, \E k \in GivenKeys(given, section) : k.name = n
      PROVE  kept[CHOOSE k \in GivenKeys(given, section) : k.name = n]
               = given[CHOOSE k \in GivenKeys(given, section) : k.name = n]
  <2>1. (CHOOSE k \in GivenKeys(given, section) : k.name = n) \in GivenKeys(given, section)
    BY <1>3
  <2> QED
    BY <1>1, <2>1 DEF GivenKeys
<1>4. FilesOf(kept, section) = FilesOf(given, section)
  BY <1>2, <1>3 DEF FilesOf
<1> QED
  BY <1>4 DEF kept

\* What a server reads that starts with the files of a fingerprint.
CommonRead(l) == Mounts!Group("common", l[1], FilesOf(l[3], "common"))
HostRead(l) == Mounts!Group("host", l[2], FilesOf(l[4], "host"))

\* A pass mounts what the fingerprint of the day says.
LEMMA PassMounts ==
  ASSUME KeysApart
  PROVE  /\ \A c \in Mounts!CommonGroups : \A h : c = CommonRead(Mounts!Fingerprint(h))
         /\ \A h : \A m \in Mounts!HostGroups(h) : m = HostRead(Mounts!Fingerprint(h))
<1>1. ASSUME NEW c \in Mounts!CommonGroups, NEW h
      PROVE  c = CommonRead(Mounts!Fingerprint(h))
  <2>1. PICK m \in Mounts!GetSection(files[CHI], "common", TRUE) :
          c = Mounts!Group("common", settings[CHI], m)
    BY <1>1 DEF Mounts!CommonGroups
  <2>2. m = FilesOf(Mounts!Filter(files[CHI]), "common")
    BY <2>1, OneSection, SectionFiltered
  <2> QED
    BY <2>1, <2>2 DEF CommonRead, Mounts!Fingerprint
<1>2. ASSUME NEW h, NEW g \in Mounts!HostGroups(h)
      PROVE  g = HostRead(Mounts!Fingerprint(h))
  <2>1. PICK m \in Mounts!GetSection(Mounts!HostFiles(h), "host", TRUE) :
          g = Mounts!Group("host", Mounts!HostSettings(h), m)
    BY <1>2 DEF Mounts!HostGroups
  <2>2. m = FilesOf(Mounts!Filter(Mounts!HostFiles(h)), "host")
    BY <2>1, OneSection, SectionFiltered
  <2> QED
    BY <2>1, <2>2 DEF HostRead, Mounts!Fingerprint
<1> QED
  BY <1>1, <1>2

\* The fingerprint and the files of a pass are those of the CHI.
LEMMA SameFiles ==
  ASSUME UNCHANGED <<files, settings>>
  PROVE  /\ \A h : Mounts!Fingerprint(h)' = Mounts!Fingerprint(h)
         /\ \A h : Mounts!HostGroups(h)' = Mounts!HostGroups(h)
BY DEF Mounts!Fingerprint, Mounts!HostGroups, Mounts!HostSettings, Mounts!HostFiles,
   Mounts!ClusterFiles, Mounts!Path

\* A pass has hosts to do, "common" first; maps have their domains.
FilesShape ==
  /\ due \subseteq Hosts \cup {"common"} /\ restarts \in Nat /\ cancelled \in BOOLEAN
  /\ mounted = [common |-> mounted.common, users |-> mounted.users, host |-> mounted.host]
  /\ DOMAIN mounted.host = Hosts /\ DOMAIN loaded = Hosts /\ DOMAIN label = Hosts

\* The ConfigMap of the CHI is that of its fingerprint as soon as the pass is
\* past it; before, and with no pass cancelled, it is still that of the labels.
CommonInv ==
  \A h \in Hosts :
    /\ "common" \notin due => mounted.common = CommonRead(Mounts!Fingerprint(h))
    /\ ~cancelled => mounted.common \in {CommonRead(label[h]), CommonRead(Mounts!Fingerprint(h))}

\* The ConfigMap of a host and its label change together, and the label is
\* that of the day once the pass has done the host.
LabelInv ==
  \A h \in Hosts :
    /\ h \notin due => label[h] = Mounts!Fingerprint(h)
    /\ mounted.host[h] = HostRead(label[h])

\* A server runs with the files its label stands for; only one that crashed
\* in the middle of a pass may not, and then the pass is to restart it.
ServerInv ==
  \A h \in Hosts :
    \/ loaded[h] = <<CommonRead(label[h]), HostRead(label[h])>>
    \/ h \in due /\ restarts > 0 /\ label[h] # Mounts!Fingerprint(h)

FilesInv ==
  part = "files" =>
    FilesShape /\ CommonInv /\ LabelInv /\ ServerInv /\ ~(cancelled /\ restarts > 0)

\* Before anybody asks for files the ConfigMaps hold the operator's own.
LEMMA FilesInit == InitAll => FilesInv
<1> SUFFICES ASSUME Mounts!Init, part = "files"
             PROVE  FilesShape /\ CommonInv /\ LabelInv /\ ServerInv /\ ~(cancelled /\ restarts > 0)
  BY DEF InitAll, FilesInv
<1>1. FilesShape /\ ~(cancelled /\ restarts > 0)
  BY DEF Mounts!Init, FilesShape
<1>2. ASSUME NEW h \in Hosts
      PROVE  /\ CommonRead(Mounts!Fingerprint(h)) = mounted.common
             /\ HostRead(Mounts!Fingerprint(h)) = mounted.host[h]
  <2>1. {CHI, Cluster, Row[h], h} \subseteq Mounts!Scopes
    BY DEF Mounts!Scopes
  <2>2. \A s \in Mounts!Scopes : settings[s] = None /\ files[s] = [k \in Keys |-> None]
    BY DEF Mounts!Init
  <2>3. Mounts!HostSettings(h) = None
    BY <2>1, <2>2 DEF Mounts!HostSettings, Mounts!Path
  <2>4. \A k \in Keys : Mounts!HostFiles(h)[k] = None /\ files[CHI][k] = None
    BY <2>1, <2>2 DEF Mounts!HostFiles, Mounts!MergeFrom, Mounts!ClusterFiles
  <2>5. ASSUME NEW section, NEW given, \A k \in Keys : given[k] = None
        PROVE  FilesOf(given, section) = Mounts!NoFiles
    BY <2>5 DEF FilesOf, GivenKeys, Mounts!NoFiles
  <2>6. /\ FilesOf(Mounts!Filter(files[CHI]), "common") = Mounts!NoFiles
        /\ FilesOf(Mounts!Filter(Mounts!HostFiles(h)), "host") = Mounts!NoFiles
    BY <2>4, <2>5, SectionFiltered
  <2>7. settings[CHI] = None
    BY <2>1, <2>2
  <2> QED
    BY <2>3, <2>6, <2>7 DEF CommonRead, HostRead, Mounts!Fingerprint, Mounts!Init
<1>3. \A h \in Hosts :
        label[h] = Mounts!Fingerprint(h) /\ loaded[h] = <<mounted.common, mounted.host[h]>>
  BY DEF Mounts!Init
<1> QED
  BY <1>1, <1>2, <1>3 DEF CommonInv, LabelInv, ServerInv

\* An edit begins a pass over everything.  It cancels a running one only if no
\* server ever crashed, and else finds every server with its files.
LEMMA ChangedFiles ==
  ASSUME Both = FALSE, "common" \notin Hosts,
         FilesShape, CommonInv, LabelInv, ServerInv, ~(cancelled /\ restarts > 0),
         Mounts!Changed
  PROVE  (FilesShape /\ CommonInv /\ LabelInv /\ ServerInv /\ ~(cancelled /\ restarts > 0))'
<1>1. /\ due' = Hosts \cup {"common"} /\ cancelled' = (cancelled \/ due # {})
      /\ due = {} \/ restarts = 0
      /\ UNCHANGED <<mounted, loaded, label, restarts>>
  BY DEF Mounts!Changed
<1>2. FilesShape' /\ LabelInv'
  BY <1>1 DEF FilesShape, LabelInv
<1>3. cancelled' => restarts = 0
  BY <1>1 DEF FilesShape
<1>4. CommonInv'
  BY <1>1 DEF CommonInv, LabelInv
<1>5. \A h \in Hosts : loaded[h] = <<CommonRead(label[h]), HostRead(label[h])>>
  BY <1>1 DEF ServerInv
<1>6. ServerInv'
  BY <1>1, <1>5 DEF ServerInv
<1> QED
  BY <1>1, <1>2, <1>3, <1>4, <1>6

\* Every step of users, passes and servers keeps the labels honest.
LEMMA FilesNext ==
  ASSUME Both = FALSE, "common" \notin Hosts, KeysApart, FilesInv, [NextAll]_allVars
  PROVE  FilesInv'
<1> DEFINE Inv == FilesShape /\ CommonInv /\ LabelInv /\ ServerInv /\ ~(cancelled /\ restarts > 0)
<1> SUFFICES ASSUME part' = "files"
             PROVE  Inv'
  BY DEF FilesInv
<1>1. CASE UNCHANGED <<part, configuration>>
  <2>1. UNCHANGED <<files, settings, mounted, loaded, label, due, cancelled, restarts>> /\ part = "files"
    BY <1>1 DEF configuration
  <2>2. Inv
    BY <2>1 DEF FilesInv
  <2> QED
    BY <2>1, <2>2, SameFiles DEF FilesShape, CommonInv, LabelInv, ServerInv
<1>2. CASE part = "files" /\ Mounts!Next
  <2>a. Inv
    BY <1>2 DEF FilesInv
  <2>1. CASE Mounts!EditFile \/ Mounts!EditSettings
    <3>1. Mounts!Changed
      BY <2>1 DEF Mounts!EditFile, Mounts!EditSettings
    <3> QED
      BY <2>a, <3>1, ChangedFiles
  <2>2. CASE Mounts!RestartOperator
    <3>1. due' = Hosts \cup {"common"} /\ UNCHANGED <<files, settings, mounted, loaded, label, cancelled, restarts>>
      BY <2>2 DEF Mounts!RestartOperator
    <3> QED
      BY <2>a, <3>1, SameFiles DEF FilesShape, CommonInv, LabelInv, ServerInv
  <2>3. CASE Mounts!ReconcileCommon
    <3>1. PICK c \in Mounts!CommonGroups, u \in Mounts!UsersGroups :
            mounted' = [mounted EXCEPT !.common = c, !.users = u]
      BY <2>3 DEF Mounts!ReconcileCommon
    <3>2. due' = due \ {"common"} /\ UNCHANGED <<files, settings, loaded, label, cancelled, restarts>>
      BY <2>3 DEF Mounts!ReconcileCommon
    <3>3. mounted' = [common |-> c, users |-> u, host |-> mounted.host]
      BY <2>a, <3>1 DEF FilesShape
    <3>4. \A h \in Hosts : c = CommonRead(Mounts!Fingerprint(h))
      BY PassMounts
    <3> QED
      BY <2>a, <3>2, <3>3, <3>4, SameFiles DEF FilesShape, CommonInv, LabelInv, ServerInv
  <2>4. ASSUME NEW g \in Hosts, Mounts!ReconcileHost(g)
        PROVE  Inv'
    <3>1. PICK m \in Mounts!HostGroups(g) :
            /\ mounted' = [mounted EXCEPT !.host[g] = m]
            /\ loaded' = IF label[g] = Mounts!Fingerprint(g) THEN loaded
                         ELSE [loaded EXCEPT ![g] = <<mounted.common, m>>]
      BY <2>4 DEF Mounts!ReconcileHost
    <3>2. /\ label' = [label EXCEPT ![g] = Mounts!Fingerprint(g)]
          /\ due' = due \ {g} /\ g \in due /\ "common" \notin due
          /\ UNCHANGED <<files, settings, cancelled, restarts>>
      BY <2>4 DEF Mounts!ReconcileHost
    <3>3. mounted' = [common |-> mounted.common, users |-> mounted.users,
                      host |-> [mounted.host EXCEPT ![g] = m]]
      BY <2>a, <3>1 DEF FilesShape
    <3>4. m = HostRead(Mounts!Fingerprint(g)) /\ mounted.common = CommonRead(Mounts!Fingerprint(g))
      BY <2>a, <3>2, PassMounts DEF CommonInv
    <3>5. \A h \in Hosts : Mounts!Fingerprint(h)' = Mounts!Fingerprint(h)
      BY <3>2, SameFiles
    <3>6. FilesShape' /\ ~(cancelled /\ restarts > 0)'
      BY <2>a, <3>1, <3>2, <3>3 DEF FilesShape
    <3>7. CommonInv'
      BY <2>a, <3>2, <3>3, <3>5 DEF CommonInv, FilesShape
    <3>8. LabelInv'
      BY <2>a, <3>2, <3>3, <3>4, <3>5 DEF LabelInv, FilesShape
    <3>9. ServerInv'
      <4> SUFFICES ASSUME NEW h \in Hosts
                   PROVE  (\/ loaded[h] = <<CommonRead(label[h]), HostRead(label[h])>>
                           \/ h \in due /\ restarts > 0 /\ label[h] # Mounts!Fingerprint(h))'
        BY DEF ServerInv
      <4>1. CASE h # g
        BY <2>a, <3>1, <3>2, <3>5, <4>1 DEF ServerInv, FilesShape
      <4>2. CASE h = g
        BY <2>a, <3>1, <3>2, <3>4, <3>5, <4>2 DEF ServerInv, FilesShape
      <4> QED
        BY <4>1, <4>2
    <3> QED
      BY <3>6, <3>7, <3>8, <3>9
  <2>5. ASSUME NEW g \in Hosts, Mounts!Crash(g)
        PROVE  Inv'
    <3>1. /\ loaded' = [loaded EXCEPT ![g] = <<mounted.common, mounted.host[g]>>]
          /\ restarts' = restarts + 1 /\ ~cancelled
          /\ UNCHANGED <<files, settings, mounted, label, due, cancelled>>
      BY <2>5 DEF Mounts!Crash
    <3>2. \A h \in Hosts : Mounts!Fingerprint(h)' = Mounts!Fingerprint(h)
      BY <3>1, SameFiles
    <3>3. FilesShape' /\ CommonInv' /\ LabelInv' /\ ~(cancelled /\ restarts > 0)'
      BY <2>a, <3>1, <3>2 DEF FilesShape, CommonInv, LabelInv
    <3>4. ServerInv'
      <4> SUFFICES ASSUME NEW h \in Hosts
                   PROVE  (\/ loaded[h] = <<CommonRead(label[h]), HostRead(label[h])>>
                           \/ h \in due /\ restarts > 0 /\ label[h] # Mounts!Fingerprint(h))'
        BY DEF ServerInv
      <4>1. CASE h # g
        BY <2>a, <3>1, <3>2, <4>1 DEF ServerInv, FilesShape
      <4>2. CASE h = g
        BY <2>a, <3>1, <3>2, <4>2 DEF CommonInv, LabelInv, FilesShape
      <4> QED
        BY <4>1, <4>2
    <3> QED
      BY <3>3, <3>4
  <2> QED
    BY <1>2, <2>1, <2>2, <2>3, <2>4, <2>5 DEF Mounts!Next
<1> QED
  BY <1>1, <1>2 DEF NextAll, TemplatesStep, OperatorsStep, PortsStep, FilesStep, allVars

\* Between passes every server runs with the files that are mounted: the label
\* tells of every change of a file that needs a restart.  It holds where names
\* of files are apart, if passes are cancelled or servers crash by themselves,
\* but not both.
THEOREM NothingUnnoticed ==
  ASSUME Both = FALSE, KeysApart
  PROVE  SpecAll => []LoadedIsMounted
<1>1. "common" \notin Hosts
  BY InstancesAssumption DEF Mounts!Assumptions
<1>2. FilesInv => LoadedIsMounted
  BY DEF FilesInv, FilesShape, CommonInv, LabelInv, ServerInv, LoadedIsMounted, Mounts!LoadedIsMounted
<1> QED
  BY <1>1, <1>2, FilesInit, FilesNext, PTL DEF SpecAll

\* No file for hosts is given both for the CHI and for its cluster.
OneOfBoth ==
  \A k \in Keys : k.section = "host" => ~(<<CHI, k>> \in Edited /\ <<Cluster, k>> \in Edited)

\* The operator has no file for hosts of the name of one of the user's.
NotOwn == \A k \in Keys : k.section = "host" => <<"host", k.name>> \notin DOMAIN OperatorFiles

\* Files are given where the user edits them, and a host the pass is through
\* with has those of the day.
NarrowShape ==
  /\ mounted = [common |-> mounted.common, users |-> mounted.users, host |-> mounted.host]
  /\ DOMAIN mounted.host = Hosts
  /\ DOMAIN files = Mounts!Scopes
  /\ \A s \in Mounts!Scopes : DOMAIN files[s] = Keys
GivenEdited ==
  \A s \in Mounts!Scopes, k \in Keys : files[s][k] # None => <<s, k>> \in Edited
HostsRead == \A h \in Hosts : h \notin due => mounted.host[h] = HostRead(Mounts!Fingerprint(h))

NarrowInv == part = "files" => NarrowShape /\ GivenEdited /\ HostsRead

\* A given file for hosts is mounted as the host inherits it: nothing that is
\* put over it has its name.
LEMMA FileMounted ==
  ASSUME KeysApart, NotOwn, NEW h, NEW k \in Keys, k.section = "host",
         Mounts!HostFiles(h)[k] # None
  PROVE  HostRead(Mounts!Fingerprint(h))[k.name] = Mounts!HostFiles(h)[k]
<1> DEFINE given == Mounts!HostFiles(h)
           users == FilesOf(given, "host")
<1>1. k.name \in Mounts!Names
  BY DEF Mounts!Names
<1>2. users[k.name] = given[k]
  <2>1. k \in GivenKeys(given, "host")
    BY DEF GivenKeys, Mounts!InSection
  <2>2. \A l \in GivenKeys(given, "host") : l.name = k.name => l = k
    BY <2>1 DEF GivenKeys, KeysApart
  <2>3. (CHOOSE l \in GivenKeys(given, "host") : l.name = k.name) = k
    BY <2>1, <2>2
  <2> QED
    BY <1>1, <2>1, <2>3 DEF FilesOf
<1>3. Mounts!OperatorOf("host")[k.name] = None
  BY <1>1, Zenon DEF Mounts!OperatorOf, NotOwn
<1>4. HostRead(Mounts!Fingerprint(h)) = Mounts!Group("host", Mounts!HostSettings(h), users)
  BY SectionFiltered DEF HostRead, Mounts!Fingerprint
<1> HIDE DEF given, users
<1>5. Mounts!Group("host", Mounts!HostSettings(h), users)[k.name] = users[k.name]
  <2> DEFINE first == [Mounts!NoFiles EXCEPT ![Mounts!SettingsFile] = Mounts!HostSettings(h)]
             both == Mounts!Overwrite(first, users)
  <2>1. Mounts!Group("host", Mounts!HostSettings(h), users)
          = Mounts!Overwrite(both, Mounts!OperatorOf("host"))
    BY DEF Mounts!Group
  <2> HIDE DEF first
  <2>2. both[k.name] = users[k.name]
    BY <1>1, <1>2 DEF Mounts!Overwrite, given
  <2> HIDE DEF both
  <2> QED
    BY <1>1, <1>3, <2>1, <2>2 DEF Mounts!Overwrite
<1> QED
  BY <1>2, <1>4, <1>5 DEF given

\* What a host inherits is the file of the narrowest scope that has one.
LEMMA InheritsNarrowest ==
  ASSUME OneOfBoth, NarrowShape, GivenEdited,
         NEW h \in Hosts, NEW k \in Keys, k.section = "host",
         \E i \in 1..4 : files[Mounts!Path(h)[i]][k] # None
  PROVE  LET having == {i \in 1..4 : files[Mounts!Path(h)[i]][k] # None}
         IN files[Mounts!Path(h)[Mounts!Max(having)]][k] = Mounts!HostFiles(h)[k]
            /\ Mounts!HostFiles(h)[k] # None
<1> DEFINE at(i) == files[Mounts!Path(h)[i]][k]
           having == {i \in 1..4 : at(i) # None}
<1>1. {CHI, Cluster, Row[h], h} \subseteq Mounts!Scopes
  BY DEF Mounts!Scopes
<1>2. /\ at(1) = files[CHI][k] /\ at(2) = files[Cluster][k]
      /\ at(3) = files[Row[h]][k] /\ at(4) = files[h][k]
  BY DEF Mounts!Path
<1>3. at(1) = None \/ at(2) = None
  BY <1>1, <1>2 DEF OneOfBoth, GivenEdited
<1>4. Mounts!HostFiles(h)[k] = IF at(4) # None THEN at(4)
                               ELSE IF at(3) # None THEN at(3)
                               ELSE IF at(1) # None THEN at(1) ELSE at(2)
  BY <1>1, <1>2 DEF Mounts!HostFiles, Mounts!MergeFrom, Mounts!ClusterFiles, NarrowShape
<1> HIDE DEF at
<1>5. \E i \in 1..4 : at(i) # None
  BY DEF at
<1>6. PICK m \in having : \A i \in having : i <= m
  BY <1>5
<1>7. Mounts!Max(having) = m
  <2>1. \A x \in having : (\A y \in having : x >= y) => x = m
    BY <1>6
  <2> HIDE DEF having
  <2>2. \A y \in having : m >= y
    BY <1>6 DEF having
  <2> QED
    BY <1>6, <2>1, <2>2 DEF Mounts!Max
<1>8. m \in 1..4 /\ at(m) # None /\ \A i \in 1..4 : i > m => at(i) = None
  BY <1>6
<1>9. at(m) = Mounts!HostFiles(h)[k]
  BY <1>3, <1>4, <1>8
<1> QED
  BY <1>7, <1>8, <1>9 DEF at

\* Nothing is given at first, and the pass is through with every host.
LEMMA NarrowInit == ASSUME KeysApart PROVE InitAll => NarrowInv
<1> SUFFICES ASSUME InitAll, part = "files"
             PROVE  NarrowShape /\ GivenEdited /\ HostsRead
  BY DEF NarrowInv
<1>1. Mounts!Init
  BY DEF InitAll
<1>2. HostsRead
  BY FilesInit DEF FilesInv, LabelInv, HostsRead
<1> QED
  BY <1>1, <1>2 DEF Mounts!Init, NarrowShape, GivenEdited

\* An edit begins a pass over every host, which gives each its files of the
\* day; nothing else writes to the ConfigMap of a host.
LEMMA NarrowNext ==
  ASSUME KeysApart, "common" \notin Hosts, NarrowInv, [NextAll]_allVars
  PROVE  NarrowInv'
<1> DEFINE Inv == NarrowShape /\ GivenEdited /\ HostsRead
<1> SUFFICES ASSUME part' = "files"
             PROVE  Inv'
  BY DEF NarrowInv
<1>1. CASE UNCHANGED <<part, configuration>>
  <2>1. UNCHANGED <<files, settings, mounted, due>> /\ part = "files"
    BY <1>1 DEF configuration
  <2> QED
    BY <2>1, SameFiles DEF NarrowInv, NarrowShape, GivenEdited, HostsRead, Mounts!Scopes
<1>2. CASE part = "files" /\ Mounts!Next
  <2>a. Inv
    BY <1>2 DEF NarrowInv
  <2>1. CASE Mounts!EditFile
    <3>1. PICK e \in Edited, c \in Contents \cup {None} :
            files' = [files EXCEPT ![e[1]][e[2]] = c]
      BY <2>1 DEF Mounts!EditFile
    <3>2. due' = Hosts \cup {"common"} /\ UNCHANGED mounted
      BY <2>1 DEF Mounts!EditFile, Mounts!Changed
    <3>3. e \in Mounts!Scopes \X Keys
      BY InstancesAssumption DEF Mounts!Assumptions
    <3> QED
      BY <2>a, <3>1, <3>2, <3>3 DEF NarrowShape, GivenEdited, HostsRead
  <2>2. CASE Mounts!EditSettings
    <3>1. due' = Hosts \cup {"common"} /\ UNCHANGED <<mounted, files>>
      BY <2>2 DEF Mounts!EditSettings, Mounts!Changed
    <3> QED
      BY <2>a, <3>1 DEF NarrowShape, GivenEdited, HostsRead
  <2>3. CASE Mounts!RestartOperator
    <3>1. due' = Hosts \cup {"common"} /\ UNCHANGED <<mounted, files>>
      BY <2>3 DEF Mounts!RestartOperator
    <3> QED
      BY <2>a, <3>1 DEF NarrowShape, GivenEdited, HostsRead
  <2>4. CASE Mounts!ReconcileCommon
    <3>1. PICK c \in Mounts!CommonGroups, u \in Mounts!UsersGroups :
            mounted' = [mounted EXCEPT !.common = c, !.users = u]
      BY <2>4 DEF Mounts!ReconcileCommon
    <3>2. due' = due \ {"common"} /\ UNCHANGED <<files, settings>>
      BY <2>4 DEF Mounts!ReconcileCommon
    <3>3. mounted' = [common |-> c, users |-> u, host |-> mounted.host]
      BY <2>a, <3>1 DEF NarrowShape
    <3> QED
      BY <2>a, <3>2, <3>3, SameFiles DEF NarrowShape, GivenEdited, HostsRead
  <2>5. ASSUME NEW g \in Hosts, Mounts!ReconcileHost(g)
        PROVE  Inv'
    <3>1. PICK m \in Mounts!HostGroups(g) : mounted' = [mounted EXCEPT !.host[g] = m]
      BY <2>5 DEF Mounts!ReconcileHost
    <3>2. due' = due \ {g} /\ UNCHANGED <<files, settings>>
      BY <2>5 DEF Mounts!ReconcileHost
    <3>3. mounted' = [common |-> mounted.common, users |-> mounted.users,
                      host |-> [mounted.host EXCEPT ![g] = m]]
      BY <2>a, <3>1 DEF NarrowShape
    <3>4. m = HostRead(Mounts!Fingerprint(g))
      BY <3>1, PassMounts
    <3>5. \A h \in Hosts : Mounts!Fingerprint(h)' = Mounts!Fingerprint(h)
      BY <3>2, SameFiles
    <3>6. HostsRead'
      BY <2>a, <3>2, <3>3, <3>4, <3>5 DEF HostsRead, NarrowShape
    <3> QED
      BY <2>a, <3>2, <3>3, <3>6 DEF NarrowShape, GivenEdited
  <2>6. ASSUME NEW g \in Hosts, Mounts!Crash(g)
        PROVE  Inv'
    <3>1. UNCHANGED <<files, settings, mounted, due>>
      BY <2>6 DEF Mounts!Crash
    <3> QED
      BY <2>a, <3>1, SameFiles DEF NarrowShape, GivenEdited, HostsRead
  <2> QED
    BY <1>2, <2>1, <2>2, <2>3, <2>4, <2>5, <2>6 DEF Mounts!Next
<1> QED
  BY <1>1, <1>2 DEF NextAll, TemplatesStep, OperatorsStep, PortsStep, FilesStep, allVars

\* Between passes each host has, of a file for hosts that several scopes give,
\* that of the narrowest.  It holds where names of files are apart from each
\* other and from the operator's, and none is given both for the CHI and for
\* the cluster, which takes the CHI's.
THEOREM NarrowestWins ==
  ASSUME KeysApart, OneOfBoth, NotOwn
  PROVE  SpecAll => []NarrowWins
<1>1. "common" \notin Hosts
  BY InstancesAssumption DEF Mounts!Assumptions
<1>2. NarrowInv => NarrowWins
  <2> SUFFICES ASSUME NarrowInv, part = "files", due = {},
                      NEW h \in Hosts, NEW k \in {k \in Keys : k.section = "host"},
                      {i \in 1..4 : files[Mounts!Path(h)[i]][k] # None} # {}
               PROVE  mounted.host[h][k.name]
                        = files[Mounts!Path(h)[Mounts!Max({i \in 1..4 : files[Mounts!Path(h)[i]][k] # None})]][k]
    BY DEF NarrowWins, Mounts!NarrowWins
  <2>1. NarrowShape /\ GivenEdited /\ HostsRead
    BY DEF NarrowInv
  <2>2. mounted.host[h] = HostRead(Mounts!Fingerprint(h))
    BY <2>1 DEF HostsRead
  <2>3. \E i \in 1..4 : files[Mounts!Path(h)[i]][k] # None
    OBVIOUS
  <2>4. /\ files[Mounts!Path(h)[Mounts!Max({i \in 1..4 : files[Mounts!Path(h)[i]][k] # None})]][k]
             = Mounts!HostFiles(h)[k]
        /\ Mounts!HostFiles(h)[k] # None
    BY <2>1, <2>3, InheritsNarrowest
  <2> QED
    BY <2>2, <2>4, FileMounted
<1> QED
  BY <1>1, <1>2, NarrowInit, NarrowNext, PTL DEF SpecAll

-----------------------------------------------------------------------------
(* Templates: a template that is deleted drops out of the catalog, one that *)
(* is not stays in it until the informer hands out all templates again.     *)

\* What the catalog may hold.
Entries == [name : Names \cup {None}, of : Names, version : Nat, owner : CHIs \cup {None}]

\* The API and the queue.
ApiTypeOK ==
  /\ api \in [Templates -> 0 .. MaxVersion]
  /\ last \in [Templates -> 0 .. MaxVersion]
  /\ \A t \in Templates : api[t] <= last[t]
  /\ mail \in [Templates -> Commands \cup {None}]
  /\ resyncs \in Nat

CatalogTypeOK == catalog \in Seq(Entries)

\* A command that waits.
Waits(t, cmd) == mail[t] # None /\ mail[t].cmd = cmd

\* The next time the queue is empty the template will be off the catalog.
Dropping == \A t \in Templates : api[t] = 0 => Waits(t, "delete") \/ (mail[t] = None /\ ~Listed(t))

\* Without a resync: it will be in the catalog, or is.
Listing ==
  resyncs = 0 => \A t \in Templates : api[t] # 0 =>
    Waits(t, "add") \/ (Waits(t, "update") /\ mail[t].old # mail[t].new)
    \/ (Listed(t) /\ mail[t] = None)

CatalogInv == ApiTypeOK /\ CatalogTypeOK /\ Dropping /\ Listing

-----------------------------------------------------------------------------
(* Operators of the catalog.                                               *)

\* A sequence is changed in place.
LEMMA Remade ==
    ASSUME NEW f, NEW n \in Nat, f \in [1 .. n -> Entries]
    PROVE  f \in Seq(Entries)
  BY SeqDef

\* A catalog is a finite list of entries.
LEMMA CatalogDomain ==
    ASSUME CatalogTypeOK
    PROVE  /\ Len(catalog) \in Nat /\ DOMAIN catalog = 1 .. Len(catalog)
           /\ \A k \in DOMAIN catalog : catalog[k] \in Entries
  BY DEF CatalogTypeOK

\* An entry is appended: all names stay, that of the new one is added.
LEMMA Enlisted ==
    ASSUME CatalogTypeOK, NEW t \in Templates, NEW version \in Nat, EnlistCHITemplate(t, version)
    PROVE  /\ CatalogTypeOK'
           /\ \A u \in Templates : Listed(u)' <=> Listed(u) \/ u = t
  <1>1. Entry(t, version) \in Entries /\ Entry(t, version).name = t
    BY DEF Entry, Entries, Names
  <1>2. CatalogTypeOK'
    BY <1>1 DEF CatalogTypeOK, EnlistCHITemplate
  <1>3. /\ DOMAIN catalog' = 1 .. Len(catalog) + 1
        /\ \A k \in DOMAIN catalog : catalog'[k] = catalog[k]
        /\ catalog'[Len(catalog) + 1] = Entry(t, version)
    BY <1>1 DEF CatalogTypeOK, EnlistCHITemplate
  <1>4. DOMAIN catalog = 1 .. Len(catalog) /\ Len(catalog) \in Nat
    BY CatalogDomain
  <1>5. ASSUME NEW u \in Templates PROVE Listed(u)' <=> Listed(u) \/ u = t
    <2>1. ASSUME Listed(u)' PROVE Listed(u) \/ u = t
      BY <1>1, <1>3, <1>4, <2>1 DEF Listed
    <2>2. ASSUME Listed(u) PROVE Listed(u)'
      BY <1>3, <1>4, <2>2 DEF Listed
    <2>3. Listed(t)'
      <3>1. Len(catalog) + 1 \in DOMAIN catalog'
        BY <1>3, <1>4
      <3> QED
        BY <1>1, <1>3, <3>1 DEF Listed
    <2> QED
      BY <2>1, <2>2, <2>3
  <1> QED
    BY <1>2, <1>5

\* The name is taken off, the others stay.
LEMMA Unlisted ==
    ASSUME CatalogTypeOK, NEW t \in Templates, UnlistCHITemplate(t)
    PROVE  /\ CatalogTypeOK'
           /\ \A u \in Templates : Listed(u)' <=> Listed(u) /\ u # t
  <1>1. /\ Len(catalog) \in Nat /\ DOMAIN catalog = 1 .. Len(catalog)
        /\ \A k \in DOMAIN catalog : catalog[k] \in Entries
    BY CatalogDomain
  <1>2. ASSUME NEW e \in Entries
        PROVE  [e EXCEPT !.name = None] \in Entries /\ [e EXCEPT !.name = None].name = None
    BY DEF Entries
  <1>3. /\ DOMAIN catalog' = DOMAIN catalog
        /\ \A k \in DOMAIN catalog :
             catalog'[k] = IF catalog[k].name = t THEN [catalog[k] EXCEPT !.name = None]
                           ELSE catalog[k]
    BY Zenon DEF UnlistCHITemplate
  <1>4. catalog' \in [1 .. Len(catalog) -> Entries]
    <2>1. \A k \in DOMAIN catalog : catalog'[k] \in Entries
      BY <1>1, <1>2, <1>3, Zenon
    <2>2. catalog' = [k \in DOMAIN catalog |-> catalog'[k]]
      BY Zenon DEF UnlistCHITemplate
    <2> QED
      BY <1>1, <2>1, <2>2
  <1>5. CatalogTypeOK'
    BY <1>1, <1>4, Remade DEF CatalogTypeOK
  <1>6. \A k \in DOMAIN catalog :
          catalog'[k].name = IF catalog[k].name = t THEN None ELSE catalog[k].name
    <2>1. ASSUME NEW k \in DOMAIN catalog, catalog[k].name = t PROVE catalog'[k].name = None
      <3>1. catalog'[k] = [catalog[k] EXCEPT !.name = None]
        BY <1>3, <2>1, Zenon
      <3>2. [catalog[k] EXCEPT !.name = None].name = None
        BY <1>1, <1>2
      <3> QED
        BY <3>1, <3>2, Zenon
    <2>2. ASSUME NEW k \in DOMAIN catalog, catalog[k].name # t PROVE catalog'[k] = catalog[k]
      BY <1>3, <2>2, Zenon
    <2> QED
      BY <2>1, <2>2, Zenon
  <1>7. ASSUME NEW u \in Templates PROVE Listed(u)' <=> Listed(u) /\ u # t
    BY <1>3, <1>6, NamesAssumption DEF Listed
  <1> QED
    BY <1>5, <1>7

\* Addresses that are filled in leave the names alone.
LEMMA Filled ==
    ASSUME CatalogTypeOK, NEW b, NEW c \in CHIs, catalog' = [catalog EXCEPT ![b].owner = c]
    PROVE  CatalogTypeOK' /\ \A u \in Templates : Listed(u)' <=> Listed(u)
  <1>1. /\ Len(catalog) \in Nat /\ DOMAIN catalog = 1 .. Len(catalog)
        /\ \A k \in DOMAIN catalog : catalog[k] \in Entries
    BY CatalogDomain
  <1>2. ASSUME NEW e \in Entries
        PROVE  [e EXCEPT !.owner = c] \in Entries /\ [e EXCEPT !.owner = c].name = e.name
    BY DEF Entries
  <1>3. /\ DOMAIN catalog' = DOMAIN catalog
        /\ \A k \in DOMAIN catalog :
             catalog'[k] = IF k = b THEN [catalog[k] EXCEPT !.owner = c] ELSE catalog[k]
    BY <1>1
  <1>4. \A k \in DOMAIN catalog : catalog'[k] \in Entries /\ catalog'[k].name = catalog[k].name
    BY <1>1, <1>2, <1>3
  <1>5. catalog' \in [1 .. Len(catalog) -> Entries]
    <2>1. catalog' = [k \in DOMAIN catalog' |-> catalog'[k]]
      BY DEF CatalogTypeOK
    <2> QED
      BY <1>1, <1>3, <1>4, <2>1
  <1>6. CatalogTypeOK'
    BY <1>1, <1>5, Remade DEF CatalogTypeOK
  <1> QED
    BY <1>3, <1>4, <1>6 DEF Listed

\* Files hold no template of the API.
LEMMA FromFiles ==
    ASSUME NEW order \in SetToSeqs(ToSet(Files))
    PROVE  /\ ReadCHITemplates(order) \in Seq(Entries)
           /\ \A k \in DOMAIN ReadCHITemplates(order) :
                ReadCHITemplates(order)[k].name \notin Templates
  <1> DEFINE n == Cardinality(ToSet(Files))
  <1>1. n \in Nat
    BY FilesAssumption, FS_CardinalityType
  <1>2. order \in [1 .. n -> ToSet(Files)]
    BY DEF SetToSeqs
  <1>3. /\ ReadCHITemplates(order) = [k \in 1 .. n |-> Entry(order[k], 1)]
        /\ \A k \in 1 .. n : order[k] \in ToSet(Files)
    BY <1>2 DEF ReadCHITemplates
  <1>4. \A f \in ToSet(Files) : Entry(f, 1) \in Entries /\ Entry(f, 1).name \notin Templates
    BY FilesAssumption DEF Entry, Entries, Names
  <1>5. ReadCHITemplates(order) \in [1 .. n -> Entries]
    BY <1>3, <1>4
  <1> QED
    BY <1>1, <1>3, <1>4, <1>5, Remade

-----------------------------------------------------------------------------
(* The steps.                                                              *)

\* The catalog is empty at first.
LEMMA CatalogInit == Init => CatalogInv
  <1> SUFFICES ASSUME Init PROVE CatalogInv
    OBVIOUS
  <1>1. ApiTypeOK
    BY BoundsAssumption DEF Init, ApiTypeOK
  <1>2. CatalogTypeOK /\ \A t \in Templates : ~Listed(t)
    BY FromFiles DEF Init, CatalogTypeOK, Listed
  <1>3. Dropping /\ Listing
    BY <1>2 DEF Init, Dropping, Listing
  <1> QED
    BY <1>1, <1>2, <1>3 DEF CatalogInv

\* A command is told from none.
LEMMA CommandType ==
    ASSUME NEW cmd \in {"add", "update", "delete"},
           NEW old \in 0 .. MaxVersion, NEW new \in 0 .. MaxVersion
    PROVE  /\ Command(cmd, old, new) \in Commands
           /\ Command(cmd, old, new) # None
           /\ Command(cmd, old, new).cmd = cmd
           /\ Command(cmd, old, new).old = old
           /\ Command(cmd, old, new).new = new
  BY NamesAssumption DEF Command, Commands

\* A user's step on one template leaves the commands of the others in place.
LEMMA UserStep ==
    ASSUME CatalogInv, NEW t \in Templates,
           CreateTemplate(t) \/ UpdateTemplate(t) \/ DeleteTemplate(t)
    PROVE  CatalogInv'
  <1>1. ApiTypeOK /\ CatalogTypeOK /\ Dropping /\ Listing
    BY DEF CatalogInv
  <1>2. UNCHANGED <<catalog, resyncs>>
    BY DEF CreateTemplate, UpdateTemplate, DeleteTemplate
  <1>3. CatalogTypeOK' /\ \A u \in Templates : Listed(u)' <=> Listed(u)
    BY <1>1, <1>2 DEF CatalogTypeOK, Listed
  <1>4. \A u \in Templates \ {t} : api'[u] = api[u] /\ mail'[u] = mail[u]
    BY <1>1 DEF ApiTypeOK, CreateTemplate, UpdateTemplate, DeleteTemplate, Enqueue
  <1>5. /\ ApiTypeOK'
        /\ \/ api'[t] # 0 /\ Waits(t, "add")'
           \/ api'[t] # 0 /\ Waits(t, "update")' /\ mail'[t].old # mail'[t].new
           \/ api'[t] = 0 /\ Waits(t, "delete")'
    <2>1. CASE CreateTemplate(t)
      <3>1. last[t] + 1 \in 1 .. MaxVersion /\ 0 \in 0 .. MaxVersion
        BY <1>1, <2>1, BoundsAssumption DEF ApiTypeOK, CreateTemplate
      <3>2. /\ last' = [last EXCEPT ![t] = last[t] + 1]
            /\ api' = [api EXCEPT ![t] = last[t] + 1]
            /\ mail' = [mail EXCEPT ![t] = Command("add", 0, last[t] + 1)]
        BY <1>1, <2>1 DEF ApiTypeOK, CreateTemplate, Enqueue
      <3>3. Command("add", 0, last[t] + 1) \in Commands
        BY <3>1, CommandType
      <3>4. ApiTypeOK'
        BY <1>1, <1>2, <3>1, <3>2, <3>3 DEF ApiTypeOK
      <3>5. api'[t] # 0 /\ mail'[t] = Command("add", 0, last[t] + 1)
        BY <1>1, <3>1, <3>2 DEF ApiTypeOK
      <3> QED
        BY <3>1, <3>4, <3>5, CommandType DEF Waits
    <2>2. CASE UpdateTemplate(t)
      <3>1. last[t] + 1 \in 1 .. MaxVersion /\ api[t] \in 0 .. MaxVersion /\ api[t] # last[t] + 1
        BY <1>1, <2>2, BoundsAssumption DEF ApiTypeOK, UpdateTemplate
      <3>2. /\ last' = [last EXCEPT ![t] = last[t] + 1]
            /\ api' = [api EXCEPT ![t] = last[t] + 1]
            /\ mail' = [mail EXCEPT ![t] = Command("update", api[t], last[t] + 1)]
        BY <1>1, <2>2 DEF ApiTypeOK, UpdateTemplate, Enqueue
      <3>3. Command("update", api[t], last[t] + 1) \in Commands
        BY <3>1, CommandType
      <3>4. ApiTypeOK'
        BY <1>1, <1>2, <3>1, <3>2, <3>3 DEF ApiTypeOK
      <3>5. api'[t] # 0 /\ mail'[t] = Command("update", api[t], last[t] + 1)
        BY <1>1, <3>1, <3>2 DEF ApiTypeOK
      <3> QED
        BY <3>1, <3>4, <3>5, CommandType DEF Waits
    <2>3. CASE DeleteTemplate(t)
      <3>1. api[t] \in 0 .. MaxVersion /\ 0 \in 0 .. MaxVersion
        BY <1>1, BoundsAssumption DEF ApiTypeOK
      <3>2. /\ UNCHANGED last
            /\ api' = [api EXCEPT ![t] = 0]
            /\ mail' = [mail EXCEPT ![t] = Command("delete", api[t], 0)]
        BY <2>3 DEF DeleteTemplate, Enqueue
      <3>3. Command("delete", api[t], 0) \in Commands
        BY <3>1, CommandType
      <3>4. ApiTypeOK'
        BY <1>1, <1>2, <3>1, <3>2, <3>3 DEF ApiTypeOK
      <3>5. api'[t] = 0 /\ mail'[t] = Command("delete", api[t], 0)
        BY <1>1, <3>2 DEF ApiTypeOK
      <3> QED
        BY <3>1, <3>4, <3>5, CommandType DEF Waits
    <2> QED
      BY <2>1, <2>2, <2>3
  <1>6. Dropping'
    BY <1>1, <1>3, <1>4, <1>5 DEF Dropping, Waits
  <1>7. Listing'
    BY <1>1, <1>2, <1>3, <1>4, <1>5 DEF Listing, Waits
  <1> QED
    BY <1>3, <1>5, <1>6, <1>7 DEF CatalogInv

\* The worker serves a command.
LEMMA ServeStep ==
    ASSUME CatalogInv, NEW t \in Templates, ProcessReconcileCHIT(t)
    PROVE  CatalogInv'
  <1>1. ApiTypeOK /\ CatalogTypeOK /\ Dropping /\ Listing
    BY DEF CatalogInv
  <1>2. /\ UNCHANGED <<api, last, resyncs>>
        /\ mail[t] # None /\ mail' = [mail EXCEPT ![t] = None]
    BY DEF ProcessReconcileCHIT
  <1>3. mail[t] \in Commands /\ mail[t].new \in Nat
    BY <1>1, <1>2, BoundsAssumption DEF ApiTypeOK, Commands
  <1>4. ApiTypeOK'
    BY <1>1, <1>2 DEF ApiTypeOK
  <1>5. mail'[t] = None /\ \A u \in Templates \ {t} : mail'[u] = mail[u]
    BY <1>1, <1>2 DEF ApiTypeOK
  <1>6. \/ /\ mail[t].cmd \in {"add", "update"} /\ EnlistCHITemplate(t, mail[t].new)
        \/ /\ mail[t].cmd = "update" /\ mail[t].old = mail[t].new /\ UNCHANGED catalog
        \/ /\ mail[t].cmd = "delete" /\ UnlistCHITemplate(t)
    BY DEF ProcessReconcileCHIT, AddChit, UpdateChit, DeleteChit
  <1>7. /\ CatalogTypeOK'
        /\ \A u \in Templates \ {t} : Listed(u)' <=> Listed(u)
        /\ api[t] = 0 => ~Listed(t)'
        /\ resyncs = 0 /\ api[t] # 0 => Listed(t)'
    <2>1. CASE mail[t].cmd \in {"add", "update"} /\ EnlistCHITemplate(t, mail[t].new)
      BY <1>1, <1>2, <1>3, <2>1, Enlisted DEF Dropping, Waits
    <2>2. CASE mail[t].cmd = "update" /\ mail[t].old = mail[t].new /\ UNCHANGED catalog
      BY <1>1, <1>2, <2>2 DEF Dropping, Listing, Waits, Listed, CatalogTypeOK
    <2>3. CASE mail[t].cmd = "delete" /\ UnlistCHITemplate(t)
      BY <1>1, <1>2, <2>3, Unlisted DEF Listing, Waits
    <2> QED
      BY <1>6, <2>1, <2>2, <2>3
  <1>8. Dropping'
    BY <1>1, <1>2, <1>5, <1>7 DEF Dropping, Waits
  <1>9. Listing'
    BY <1>1, <1>2, <1>5, <1>7 DEF Listing, Waits
  <1> QED
    BY <1>4, <1>7, <1>8, <1>9 DEF CatalogInv

\* The informer hands out all templates: each that is there is updated.
LEMMA ResyncStep == ASSUME CatalogInv, Resync PROVE CatalogInv'
  <1>1. ApiTypeOK /\ CatalogTypeOK /\ Dropping
    BY DEF CatalogInv
  <1>2. UNCHANGED <<api, last, catalog>> /\ resyncs' = resyncs + 1
    BY DEF Resync
  <1>3. \A t \in Templates : api[t] # 0 => Command("update", api[t], api[t]) \in Commands
    BY <1>1, CommandType DEF ApiTypeOK
  <1>4. mail' = [t \in Templates |-> IF api[t] # 0 THEN Command("update", api[t], api[t]) ELSE mail[t]]
    BY DEF Resync
  <1>5. \A t \in Templates : mail[t] \in Commands \cup {None}
    BY <1>1 DEF ApiTypeOK
  <1>6. mail' \in [Templates -> Commands \cup {None}]
    BY <1>3, <1>4, <1>5
  <1>7. ApiTypeOK'
    BY <1>1, <1>2, <1>6 DEF ApiTypeOK
  <1>8. CatalogTypeOK' /\ \A t \in Templates : Listed(t)' <=> Listed(t)
    BY <1>1, <1>2 DEF CatalogTypeOK, Listed
  <1>9. Dropping'
    BY <1>1, <1>2, <1>4, <1>8 DEF Dropping, Waits
  <1>10. Listing'
    BY <1>1, <1>2 DEF Listing, ApiTypeOK
  <1> QED
    BY <1>7, <1>8, <1>9, <1>10 DEF CatalogInv

\* The operator starts again: what is in the API is added.
LEMMA RestartStep == ASSUME CatalogInv, Restart PROVE CatalogInv'
  <1>1. ApiTypeOK
    BY DEF CatalogInv
  <1>2. UNCHANGED <<api, last, resyncs>>
    BY DEF Restart
  <1>3. mail' = [t \in Templates |-> IF api[t] = 0 THEN None ELSE Command("add", 0, api[t])]
    BY DEF Restart
  <1>4. \A t \in Templates : api[t] # 0 =>
          /\ Command("add", 0, api[t]) \in Commands
          /\ Command("add", 0, api[t]) # None
          /\ Command("add", 0, api[t]).cmd = "add"
    BY <1>1, CommandType, BoundsAssumption DEF ApiTypeOK
  <1>5. mail' \in [Templates -> Commands \cup {None}]
    BY <1>3, <1>4
  <1>6. ApiTypeOK'
    BY <1>1, <1>2, <1>5 DEF ApiTypeOK
  <1>7. CatalogTypeOK' /\ \A t \in Templates : ~Listed(t)'
    BY FromFiles DEF Restart, CatalogTypeOK, Listed
  <1>8. Dropping' /\ Listing'
    BY <1>2, <1>3, <1>4, <1>7 DEF Dropping, Listing, Waits
  <1> QED
    BY <1>6, <1>7, <1>8 DEF CatalogInv

\* Normalization and passes of CHIs leave API, queue and names in place.
LEMMA ChiStep ==
    ASSUME CatalogInv, NEW c \in CHIs,
           \/ CollectAutoTemplates(c) \/ CollectUseTemplates(c) \/ MergeTemplate(c)
           \/ FinalizeCHI(c) \/ MakeObject(c) \/ EndPass(c)
    PROVE  CatalogInv'
  <1>1. ApiTypeOK /\ CatalogTypeOK /\ Dropping /\ Listing
    BY DEF CatalogInv
  <1>2. UNCHANGED <<api, last, mail, resyncs>>
    BY DEF CollectAutoTemplates, CollectUseTemplates, MergeTemplate, FinalizeCHI, MakeObject, EndPass
  <1>3. UNCHANGED catalog \/ catalog' = [catalog EXCEPT ![Borrowed(c)].owner = c]
    BY DEF CollectAutoTemplates, CollectUseTemplates, MergeTemplate, FinalizeCHI, MakeObject, EndPass
  <1>4. CatalogTypeOK' /\ \A t \in Templates : Listed(t)' <=> Listed(t)
    <2>1. CASE UNCHANGED catalog
      BY <1>1, <2>1 DEF CatalogTypeOK, Listed
    <2>2. CASE catalog' = [catalog EXCEPT ![Borrowed(c)].owner = c]
      BY <1>1, <2>2, Filled
    <2> QED
      BY <1>3, <2>1, <2>2
  <1> QED
    BY <1>1, <1>2, <1>4 DEF CatalogInv, ApiTypeOK, Dropping, Listing, Waits

\* Every step keeps the catalog in line with what was heard.
LEMMA CatalogNext == ASSUME CatalogInv, [Next]_vars PROVE CatalogInv'
  <1>1. CASE UNCHANGED vars
    BY <1>1 DEF vars, CatalogInv, ApiTypeOK, CatalogTypeOK, Dropping, Listing, Waits, Listed
  <1> QED
    BY <1>1, UserStep, ServeStep, ResyncStep, RestartStep, ChiStep DEF Next

-----------------------------------------------------------------------------
(* The theorems.                                                           *)

\* A template that is deleted, and whose commands are served, is in no entry of
\* the catalog, for all templates, files and CHIs, and over restarts and resyncs.
THEOREM DeletedDrops == Spec => []DeletedIsDropped
  <1>1. CatalogInv => DeletedIsDropped
    BY DEF CatalogInv, Dropping, Waits, DeletedIsDropped
  <1> QED
    BY CatalogInit, CatalogNext, <1>1, PTL DEF Spec

\* Until the first resync a template in the API whose commands are served is in
\* the catalog, for all templates, files and CHIs, and over restarts.
THEOREM ServedIsListed == Spec => []ListedWhenServed
  <1>1. CatalogInv => ListedWhenServed
    BY DEF CatalogInv, Listing, Waits, ListedWhenServed
  <1> QED
    BY CatalogInit, CatalogNext, <1>1, PTL DEF Spec
=============================================================================
