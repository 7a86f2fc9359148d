------------------------------ MODULE MCSettings ------------------------------
(***************************************************************************)
(* One model-checking instance for the modules about what configures a     *)
(* CHI: templates, the operator's own configuration, ports and files.      *)
(* They share no state: each behaviour explores one part, the variables of *)
(* the others stay as they are.  The values of their constants are below.  *)
(***************************************************************************)
EXTENDS MCTemplates, TLC

CONSTANTS
  Operators, Namespaces, Home, FileWatch, EnvWatch, Matching, Plain, Slots, \* OperatorConfig
  Given, MaxChanges,
  Specs, MaxShards, PortEdits,                                      \* Ports
  CHI, Cluster, Row, Hosts, Keys, Contents, Edited, OperatorFiles,  \* ConfigFiles
  Both, FileEdits, FileCrashes

VARIABLES
  part,                                          \* what is explored
  objects, secret, conf, handled, changes,       \* OperatorConfig
  edits,                                         \* Ports and ConfigFiles
  spec, port, file, fresh,                       \* Ports
  files, settings, mounted, loaded, label, due, cancelled, restarts \* ConfigFiles

operators == <<objects, secret, conf, handled, changes>>
network == <<spec, port, file, fresh>>
configuration == <<files, settings, mounted, loaded, label, due, cancelled, restarts>>
allVars == <<part, vars, edits, operators, network, configuration>>

-----------------------------------------------------------------------------
(* The modules, with the constants declared above.                         *)

Watch == INSTANCE OperatorConfig WITH Contents <- Given
Network == INSTANCE Ports WITH MaxEdits <- PortEdits
Mounts == INSTANCE ConfigFiles WITH
  MaxEdits <- FileEdits, MaxCrashes <- FileCrashes, todo <- due, crashes <- restarts

ASSUME InstancesAssumption == Watch!Assumptions /\ Mounts!Assumptions

-----------------------------------------------------------------------------
(* Values for OperatorConfig: two operators told apart by the namespace in *)
(* their files, with objects that set a login or what to watch.            *)

InKubeSystem == [o \in Operators |-> "kube-system"]
DevAndTest == "p" :> {"dev"} @@ "q" :> {"test"}
NoNamespaces == [o \in Operators |-> {}]
Login == [watch |-> {}, username |-> {1}, password |-> {1}]
WatchDev == [watch |-> {"dev"}, username |-> {}, password |-> {}]
ThreeSlots == << <<"dev", "x">>, <<"test", "x">>, <<"dev", "y">> >>
LoginOrWatch == << {Login, WatchDev}, {Login}, {Login, WatchDev} >>

-----------------------------------------------------------------------------
(* Values for Ports: each kind of port from one source, and the host       *)
(* network as in docs/chi-examples/15-hostNetwork-*.yaml.                  *)

Inputs == INSTANCE MCPorts WITH Specs <- {}, MaxEdits <- 0
OneSourceOrNetwork == Inputs!OneSource \cup Inputs!OnHosts

-----------------------------------------------------------------------------
(* Values for ConfigFiles: two hosts in rows of their own, keys of every   *)
(* kind and one named as a generated file, and a file of the operator.     *)

Rows == "h1" :> "r1" @@ "h2" :> "r2"
Key(section, name) == [section |-> section, name |-> name, spelling |-> section]
WideKeys == {Key("common", "a"), Key("users", "b"), Key("unspecified", "c"), Key("wrong", "d")}
HostKeys == {Key("host", "a"), Key("host", "settings")}
AllKeys == WideKeys \cup HostKeys
OwnFiles == <<"common", "logger">> :> "own"

\* Files for hosts are edited in every scope below the CHI, the others in it.
WideAndNarrow == ({"chi"} \X WideKeys) \cup ({"cluster", "r1", "r2", "h1", "h2"} \X HostKeys)

-----------------------------------------------------------------------------
(* The parts.                                                              *)

NoTemplates ==
  /\ api = [t \in Templates |-> 0] /\ last = api
  /\ mail = [t \in Templates |-> None] /\ catalog = <<>>
  /\ stage = None /\ auto = None /\ todo = None /\ merged = None /\ made = {}
  /\ resyncs = 0 /\ crashes = 0
NoOperators == objects = None /\ secret = {} /\ conf = None /\ handled = {} /\ changes = 0
NoNetwork == spec = None /\ port = None /\ file = None /\ fresh = FALSE
NoConfiguration ==
  /\ files = None /\ settings = None /\ mounted = None /\ loaded = None /\ label = None
  /\ due = {} /\ cancelled = FALSE /\ restarts = 0

InitAll ==
  \/ /\ part = "catalog" /\ Init
     /\ edits = 0 /\ NoOperators /\ NoNetwork /\ NoConfiguration
  \/ /\ part = "watch" /\ Watch!Init
     /\ edits = 0 /\ NoTemplates /\ NoNetwork /\ NoConfiguration
  \/ /\ part = "network" /\ Network!Init
     /\ NoTemplates /\ NoOperators /\ NoConfiguration
  \/ /\ part = "files" /\ Mounts!Init
     /\ NoTemplates /\ NoOperators /\ NoNetwork

\* A step of one part.
TemplatesStep ==
  part = "catalog" /\ Next /\ UNCHANGED <<part, edits, operators, network, configuration>>
OperatorsStep ==
  part = "watch" /\ Watch!Next /\ UNCHANGED <<part, vars, edits, network, configuration>>
PortsStep ==
  part = "network" /\ Network!Next /\ UNCHANGED <<part, vars, operators, configuration>>
FilesStep ==
  part = "files" /\ Mounts!Next /\ UNCHANGED <<part, vars, operators, network>>

NextAll == TemplatesStep \/ OperatorsStep \/ PortsStep \/ FilesStep

SpecAll == InitAll /\ [][NextAll]_allVars

-----------------------------------------------------------------------------
(* The properties of the parts; DeletedIsDropped and ListedWhenServed are  *)
(* those of Templates.                                                     *)

\* OperatorConfig: user name and password come from one place.
OnePair == part = "watch" => Watch!OnePair

\* Ports: the server listens where all others expect it.
PortsAgree == part = "network" => Network!PortsAgree

\* Ports: on the host network no two ports of a CHI are the same.
NoClash == part = "network" => Network!NoClash

\* ConfigFiles: between passes every server runs with the files mounted.
LoadedIsMounted == part = "files" => Mounts!LoadedIsMounted

\* ConfigFiles: a host gets the file of the narrowest scope.
NarrowWins == part = "files" => Mounts!NarrowWins
=============================================================================
