--------------------------- MODULE OperatorConfig ---------------------------
(***************************************************************************)
(* The configuration of operators: how one is put together at start from a *)
(* file, ClickHouseOperatorConfiguration objects, a Secret and environment *)
(* variables (pkg/chop/config_manager.go, pkg/apis/.../type_config_chop.go)*)
(* and what it decides: which namespaces the operator serves, through      *)
(* which informer, and as whom it logs in to ClickHouse.  Several          *)
(* operators run in one Kubernetes cluster.                                *)
(***************************************************************************)
EXTENDS Integers, Sequences, FiniteSets, FiniteSetsExt

CONSTANTS
  None,         \* no configuration; no login
  Operators,
  Namespaces,
  Home,         \* the namespace each operator runs in
  FileWatch,    \* .watchNamespaces of its file, a set
  EnvWatch,     \* WATCH_NAMESPACE or WATCH_NAMESPACES, a set
  Matching,     \* pairs of an item and a namespace it matches as a regexp
  Plain,        \* items that are the name of a namespace
  Slots,        \* keys of ClickHouseOperatorConfigurations, a sequence of
                \* <<namespace, name>>, sorted by name
  Contents,     \* what each may hold
  MaxChanges    \* bound on edits of objects

Assumptions == MaxChanges \in Nat

VARIABLES
  objects,  \* the ClickHouseOperatorConfigurations: contents or None
  secret,   \* keys the Secret has
  conf,     \* the configuration of each operator that runs, else None
  handled,  \* <<operator, namespace>>: a CHI was reconciled
  changes

vars == <<objects, secret, conf, handled, changes>>

Positions == DOMAIN Slots
Credentials == {"username", "password"}

\* Where a login is from: an object by its position, the file, or the Secret.
FromFile == 0
FromSecret == -1

-----------------------------------------------------------------------------
(* ConfigManager.Init                                                      *)

\* An informer serves one namespace or all of them.
InformerNamespaces(watch) ==
  IF Cardinality(watch) = 1 /\ watch \subseteq Plain THEN watch ELSE Namespaces

\* Objects are listed where the file says, before the environment counts.
GetCRBasedConfigs(o) ==
  {k \in Positions : objects[k] # None /\ Slots[k][1] \in InformerNamespaces(FileWatch[o])}

\* Of the objects that set a field, the last one in order overrides.
Setter(o, field) ==
  LET set == {k \in GetCRBasedConfigs(o) : objects[k][field] # {}}
  IN IF set = {} THEN FromFile ELSE Max(set)

BuildUnifiedConfig(o) ==
  [watch |-> IF Setter(o, "watch") = FromFile THEN FileWatch[o] ELSE objects[Setter(o, "watch")].watch,
   login |-> [key \in Credentials |-> Setter(o, key)]]

\* Mutant: each key of the Secret counts for itself.
FetchSecretCredentialsEach(login) ==
  [key \in Credentials |-> IF key \in secret THEN FromSecret ELSE login[key]]

\* What the Secret gives counts if it gives both.
FetchSecretCredentials(login) == IF secret = Credentials THEN [key \in Credentials |-> FromSecret] ELSE login

\* The environment overrides all, the own namespace is the default, and in
\* kube-system the default is all namespaces.
WatchNamespaces(o, watch) ==
  IF EnvWatch[o] # {} THEN EnvWatch[o]
  ELSE IF watch # {} \/ Home[o] = "kube-system" THEN watch
  ELSE {Home[o]}

Postprocess(o, config) ==
  [watch |-> WatchNamespaces(o, config.watch), login |-> FetchSecretCredentials(config.login)]

Config(o) == Postprocess(o, BuildUnifiedConfig(o))

-----------------------------------------------------------------------------
(* What is done with it.                                                   *)

\* Items are regular expressions that may match anywhere in a name.
IsWatchedNamespace(watch, n) ==
  watch = {} \/ \E item \in watch : item = n \/ <<item, n>> \in Matching

Start(o) ==
  /\ conf[o] = None
  /\ conf' = [conf EXCEPT ![o] = Config(o)]
  /\ UNCHANGED <<objects, secret, handled, changes>>

Stop(o) ==
  /\ conf[o] # None
  /\ conf' = [conf EXCEPT ![o] = None]
  /\ UNCHANGED <<objects, secret, handled, changes>>

\* A CHI of a namespace is told of by the informer, and passes the filter.
HandleCHI(o, n) ==
  /\ conf[o] # None
  /\ n \in InformerNamespaces(conf[o].watch)
  /\ IsWatchedNamespace(conf[o].watch, n)
  /\ handled' = handled \cup {<<o, n>>}
  /\ UNCHANGED <<objects, secret, conf, changes>>

-----------------------------------------------------------------------------
(* Users.  The operator takes note of new and edited configurations, and   *)
(* leaves it at that.                                                      *)

PutConfig(k) ==
  /\ changes < MaxChanges
  /\ changes' = changes + 1
  /\ \E content \in Contents[k] : objects' = [objects EXCEPT ![k] = content]
  /\ UNCHANGED <<secret, conf, handled>>

DeleteConfig(k) ==
  /\ objects[k] # None
  /\ objects' = [objects EXCEPT ![k] = None]
  /\ UNCHANGED <<secret, conf, handled, changes>>

WriteSecret ==
  /\ changes < MaxChanges
  /\ changes' = changes + 1
  /\ secret' \in SUBSET Credentials
  /\ UNCHANGED <<objects, conf, handled>>

Init ==
  /\ objects = [k \in Positions |-> None]
  /\ secret = {}
  /\ conf = [o \in Operators |-> None]
  /\ handled = {}
  /\ changes = 0

Next ==
  \/ \E o \in Operators : \/ Start(o) \/ Stop(o)
                          \/ \E n \in Namespaces : HandleCHI(o, n)
  \/ \E k \in Positions : PutConfig(k) \/ DeleteConfig(k)
  \/ WriteSecret

\* Kubernetes starts an operator that does not run.
Spec == Init /\ [][Next]_vars /\ \A o \in Operators : WF_vars(Start(o))

-----------------------------------------------------------------------------
(* Properties.                                                             *)

\* Operators that are told to watch different namespaces serve no CHI
\* together, whatever configurations appear in the namespaces of the others.
\* The code breaks it: README.md, Disagreements.
OneOperator ==
  \A p, q \in handled : p[2] = q[2] => p[1] = q[1]

\* The user name and the password of a login come from one place.
OnePair ==
  \A o \in Operators : conf[o] # None =>
    conf[o].login["username"] = conf[o].login["password"]

\* An operator that stays up comes to use the configurations there are.
\* The code breaks it: README.md, Disagreements.
Applied ==
  \A o \in Operators : <>[](conf[o] # None) => []<>(conf[o] = Config(o))
=============================================================================
