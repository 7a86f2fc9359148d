# TLA+ models of the RadonDB ClickHouse operator

The operator turns `ClickHouseInstallation` (CHI) resources into StatefulSets,
Services, ConfigMaps and volumes, and changes them host by host when the user
edits a CHI. This directory holds TLA+ modules of that work, TLC configurations
that check them on small installations, and TLAPS proofs.

    tlasany ChiReconcile.tla
    tlc -workers 2 -config Upgrade.cfg MCChiReconcile
    tlc -workers 2 -config Startup.cfg MCMetricsExporter
    tlc -workers 2 -config Deletion.cfg MCController
    tlc -workers 2 -config Objects.cfg MCObjects
    tlc -workers 2 -config Settings.cfg MCSettings
    tlapm ControllerProofs.tla

## 1. Inventory

Paths are below `src/pkg` unless they start with `src/`.

| Component | State it keeps | Operations | Interacts with |
|---|---|---|---|
| Reconcile pass (`controller/chi/worker.go`, `creator.go`, `deleter.go`, `poller.go`, `pods.go`) | two registries, reconcile attributes of the hosts, the time of the last ConfigMap write | `updateCHI`, `reconcile`, `reconcileHost` and what they call, `clear`, `purge` | Kubernetes API, ClickHouse, status |
| Command queue and workers (`controller/chi/controller.go`, `type_cmd_queue.go`) | one queue per thread, one pending item per handle, the context of the item being worked on | informer handlers, `enqueueObject`, `run` | informers, all passes |
| Finalizer and deletion (`worker.go`, `deleter.go`, `controller.go`) | finalizers of the CHI | `ensureFinalizer`, `deleteCHI`, `deleteCHIProtocol`, `discoveryAndDeleteCHI` | the pass, exporter |
| Action plan and layout (`model/action_plan.go`, `apis/.../type_chi.go`, `type_host.go`, `type_shard.go`) | none | `NewActionPlan`, `WalkAdded`, `WalkRemoved`, `WalkTillError` | the pass |
| Registry and cleanup (`model/registry.go`, `controller/chi/discoverer.go`, `model/deleter.go`) | lists of object names by kind | `Register*`, `Has*`, `Subtract`, `Walk` | the pass |
| Status and announcer (`apis/.../type_status.go`, `controller/chi/announcer.go`) | `.status`: state, counters, bounded histories | the `Reconcile*` methods, `PushAction`, `SetAndPushError`, `writeCHIStatus` | Kubernetes API |
| Normalizer (`model/normalizer.go`, `apis/.../type_hosts_field.go`, `type_settings.go`) | the CHI being built | `CreateTemplatedCHI`, counts of shards and replicas, the hosts field, ports, files, inheritance | the pass |
| Object generation (`model/creator.go`, `ch_config_generator.go`, `ch_config_files_generator.go`, `labeler.go`, `namer.go`) | none | `CreateStatefulSet`, `GetRemoteServers`, Services, ConfigMaps, names and labels | the pass |
| Pod distribution (`model/affinity.go`, `normalizer.go`) | none | `newAffinity`, `mergeAffinity`, `processAffinity` | scheduler of Kubernetes |
| ZooKeeper of a CHI (`worker.go`, `creator.go`, `deleter.go`) | one StatefulSet, two Services, a budget | `reconcileZooKeeper`, `deleteZooKeeper` | the pass |
| Template catalog (`apis/.../type_config_chop.go`, `chop/config_manager.go`) | a global list of templates | `enlistCHITemplate`, `unlistCHITemplate`, `FindTemplate` | normalizer, system worker |
| Operator configuration (`chop/config_manager.go`, `type_config_chop.go`) | the configuration of the process | `Init`, `buildUnifiedConfig`, `fetchSecretCredentials`, `IsWatchedNamespace` | Kubernetes API, informers |
| Metrics exporter (`apis/metrics/`) | the watched CHIs, the removals to do | `Collect`, `updateWatched`, `enqueueToRemoveFromWatched` | the operator, by HTTP |
| Schema migration (`model/schemer.go`) | none | `HostCreateTables`, `HostShutdown`, `HostPing`, `HostDropReplica` | connection pool |
| Connection pool (`model/clickhouse/`) | a process-wide map, one lazy handle per connection | `GetPooledDBConnection`, `ensureConnected`, `ExecContext` with retries | ClickHouse |

What is hard in this system:

- *Cancellation.* A newer command cancels the context of the running pass. Every
  function then returns at once and mostly with success, at any line.
- *Crashes.* What a pass knows is in memory. After a restart each CHI is reported
  as added, whatever state its objects are in.
- *Dropped errors.* Some errors stop the walk, most are dropped; the cleanup at the
  end deletes whatever was not registered.
- *Order.* A replica is drained before it is changed, admitted after it is built,
  one at a time; removed hosts leave `remote_servers` before their objects go, and
  a CHI keeps its finalizer until its hosts are gone.
- *Labels that stand for contents.* The version label decides whether a StatefulSet
  needs work; the reclaim label decides whether data is deleted. Both are written
  apart from what they describe.
- *Read, then write.* Finalizer and status are read and written in two calls, with
  a conflict in between that is logged and not retried.
- *Shared state.* The template catalog is one global list without a lock, and CHIs
  may use parts of a template in place.
- *Several sources of one value.* Ports, files, settings and the ZooKeeper section
  are given at several levels, merged by rules of their own, and told to two
  sides that have to agree.
- *Names that identify.* Hosts of lists that grow, shrink and move keep their data
  only as long as their names, cut and joined, stay the same and differ.

What makes each component correct: the pass keeps all replicas of a shard but one
in service, drains before it restarts, cleans up only what nobody wants, tells the
truth in its status, and ends where the last edit asks. The queue loses no last
edit and never has two workers on one CHI; deletion leaves nothing behind and always
lets go of the finalizer; no replica is dropped from ZooKeeper while it has its data. The
exporter watches the CHIs that exist and not others; the catalog answers with the
templates that exist. A layout gives each host a name of its own, which it keeps when
others come and go; a server listens where its Services point, reads the files its
ConfigMaps have, and keeps its data directory on its claim. `PROJECT.json` lists
the hazards line by line with the property that covers each, or why none does.

## 2. Modules

| Module | Contents |
|---|---|
| `ChiReconcile` | the pass of one CHI with its queue slot, the user, crashes and Kubernetes |
| `Controller` | informers, queues and workers for several CHIs; finalizer, deletion, dropped replicas, volumes |
| `Mailbox` | abstract specification: what queues and workers promise each CHI |
| `MetricsExporter` | the watched list of the exporter, its scrapes and start, and the operator that notifies it |
| `Templates` | the template catalog and the normalization of CHIs that use it |
| `OperatorConfig` | how several operators come to their configuration, and what they serve |
| `Layout` | counts, lists, the field of hosts, differences of layouts |
| `Naming` | names, labels, selectors, what a purge takes for its own |
| `Ports` | ports of a host, from five sources to two sides |
| `ConfigFiles` | files and settings of four scopes, ConfigMaps, fingerprints, restarts |
| `HostPod` | the StatefulSet of a host: containers, mounts, claims |
| `Placement` | pod distribution, affinity terms, a scheduler |
| `ZooKeeper` | the ensemble of a CHI and the section of its hosts |
| `MCChiReconcile`, `MCController`, `MCMetricsExporter`, `MCTemplates`, `MCPlacement`, `MCPorts`, `MCConfigFiles`, `MCNaming`, `MCZooKeeper` | small instances for TLC |
| `MCObjects`, `MCSettings` | several of these in one run, see there |
| `ChiReconcileProofs`, `ChiHostProofs`, `ChiDrainProofs` | theorems about `ChiReconcile` |
| `ControllerProofs`, `MetricsExporterProofs` | theorems about these modules |
| `ObjectsProofs` | theorems about `ZooKeeper`, and about `Layout`, `HostPod` and `Placement` as `MCObjects` puts them together |
| `NamingProofs` | theorems about `Naming`, as `MCObjects` has it |
| `SettingsProofs` | theorems about `Templates`, `OperatorConfig`, `Ports` and `ConfigFiles` as `MCSettings` puts them together |

`ChiReconcile`, `Controller` and `MetricsExporter` look at one system from three
sides, and each names what it leaves to the others: `Controller` has several
CHIs and a pass that is one step per host, `ChiReconcile` one CHI and a pass of
every call, `MetricsExporter` the ends of passes only. The other modules are what a
pass computes: they take it as one step or as one step per host and follow the data.

### ChiReconcile

State and where it lives in the code:

- `want`, `finalizer`, `chiStatus`: `.spec`, `.metadata.finalizers` and `.status.state` of
  the CHI in the API. `entry`: the CHI Service.
- `objs`, `sts`, `pod`, `ready`, `reclaim`: the per-host objects. A StatefulSet is its
  version label and its spec, kept apart because the code compares labels and changes
  specs. `ready` is the label on the Pod that the Services select, `reclaim` the reclaim
  policy label of the PVC. `rs` is the host list of `remote_servers` in the common ConfigMap.
- `cmd`: the one pending `ReconcileCHI` command of the CHI. `ctxDone`: the context of the
  running pass is cancelled.
- `pc`, `n`: the position in `updateCHI` and in the walk. `old`, `new`: the normalized CHIs.
  `added`, `stat`, `stage`, `cur`, `err`: the add attribute of hosts, the StatefulSet status
  of the current host, the two stages of a rolling update, `CurStatefulSet`, the error being
  returned. `reconciled`, `failed`: the registries. `trash`: what `clear` is left with.
- `base`: the hosts that served when the pass started, only for properties. `applies`,
  `crashes`: bounds.

The actions follow one host through `reconcileHost`, one action per API call or wait:
`Prepare`, `ExcludeFromService`, `ExcludeFromCluster`, `HostConfigMap`,
`ReconcileStatefulSet` with `Update`, `WaitPoll`, `WaitDone`, `UpdateFailed`, the recreate
(`ScaleDown`, `DeleteStatefulSet`, `ReconcilePVCs`, `Create`, `CreateFailed`) and the
deletion of a failed host (`DeleteObject`), `StatefulSetDone`, `ReconcilePVCs`,
`HostService`, `MigrateTables`, `MigratePing`, `IncludeInCluster`, `IncludeInService`.
Around it are `EnsureFinalizer`, `Start`, `Preliminary`, `NextHost`, `Final`, `Clear`, `Purge`,
`Complete`, `Judge` and `Fail`; the Services of clusters and shards show in `NextHost` as an error before the
first host of a shard (`FirstOfShard`), and in nothing else. `Cancelled` is what becomes of a pass whose context is done.
`ApplySpec`, `PodReady` and `Crash` are the user, Kubernetes and the end of the process.

Each call that may fail does so only when its name is in the constant `Faults`, so a
run can ask what holds as long as some calls succeed. `remove` is the deletion of any object, whose errors
the code logs: of a StatefulSet after its scale-down, of a host's objects, of the trash, of a stopped CHI's Service.
`ping` is a ClickHouse that does not answer after the shutdown of `migrateTables`, and also one that still
answers because its shutdown has not begun: without it the shutdown is over when the ping starts. The failure policies and the two
cleanup policies are constants too.

Abstractions: a CHI is its set of hosts, a version that stands for everything in the Pod
template, and the switches the pass branches on. Volumes are one PVC per host. API reads see the
API, not a lagging informer cache, so a StatefulSet is found or not found, with the version label the operator puts
on each, and `getStatefulSetStatus` is never "unknown". The Pod of a StatefulSet that is deleted or scaled down
is gone at once: on its way out it is out of the Services already. Waits that only delay (propagation of a ConfigMap, the
minute after a purge) are left out. A ClickHouse answers a ping when its Pod is ready.
Modelled from their use and marked external: `KubeApply`, `KubeDelete`, `PodReady`, `NoSts`.

### MetricsExporter

The exporter is a process of its own in the operator's Pod. State:

- `there`, `stop`, `finalizer`, `leaving`, `hosts`, `fqdns`: the CHIs in the API, `.spec.stop`, the finalizer, the deletion
  timestamp, the hosts of the spec and `.status.fqdns`, which the discovery reads.
- `todo`, `job`: the command and the pass of each CHI. Only the beginning and the end of a pass matter here, where
  `excludeStopped`, `includeStopped` and `deleteCHIProtocol` speak to the exporter; `ChiReconcile` is what happens between.
- `net`: HTTP requests of the goroutines that `updateWatch` and `deleteWatch` start, handled in any order.
- `phase`, `serves`, `found`: process, server and discovery. `watched`: `chInstallations`. `doomed`: `toRemoveFromWatched`, whose keys are
  pointers, so each DELETE has its own. `holder`: the mutex. `scrape`, `left`, `key`: each
  `Collect`, what the `Range` of its cleanup has left, and the key at hand.
- `excluded` is a history for properties; `edits`, `starts`, `restarts` are bounds.

`Post`, `Delete` and `Lose` are a request served or not; `Launch`, `Listen`, `Discover` and `Adopt` the start; `BeginCollect`, `EndCollect`,
`Load`, `Forget`, `RemoveFromWatched` and `EndScrape` one `Collect`, split where another goroutine can get in: between the release of the
mutex and the cleanup, between the deletion of a key and the mutex of `removeFromWatched`. `Die` ends the exporter at any point, `Restart`
the operator. `Faults` names what may fail: the walk of a pass, a write of the status, the list of the discovery, and the server's
goroutine being late. Every edit stands for one that gives its pass something to do; a finalizer is always installed; a newer command that
cancels `updateCHI` before it looks at the deletion timestamp is left out. Vanishing and the deletion timestamp are
the API's and external.

### Controller and Mailbox

`api`, `born`, `retained`, `events` are the CHIs in the API, those that were created, those whose volumes are to be retained, and what the
watch has not delivered. `sts`, `pvc`, `paths`: StatefulSet, claim and replica path in ZooKeeper of each host. `pending`: the command that
waits for each CHI in each queue; `job`: what a worker does, with the position in its code, the hosts still to do, whether its context is
done and whether the version of the CHI it has read is the current one.

Users `Create`, `Edit`, `Annotate` and `Delete`; `Deliver` is an informer handler with the filter of `enqueueObject`, `Cancel` and `Take` the
queue. A worker goes through `Dispatch`, `InstallFinalizer` and `InstallFinalizerPut` (read, then write), `Begin`, `ReconcileHost`, `Clear`,
`DropReplicas`; or `DeleteChi`, `DeleteStart` and `DeleteStartPut`, `DeleteHost`, `DeleteStatefulSet`, `WaitHostDeleted`, `DeletePVC`,
`HostsDeleted`, `UninstallFinalizer` and `UninstallFinalizerPut`; or `DiscoveryAndDelete`. `StatefulSetGone`, `PvcGone`, `Collect`
(owner references) and `ForeignGone` are Kubernetes, `Crash` the end of the process. A refused write is either `Faults` or, without any
fault, a conflict with a user. The priorities of the queue, of which CHIs have one, are left out; so is the `DropDns` command, which flushes ClickHouse's DNS cache.

`Mailbox` says what a CHI may rely on: one command waits, the newest; one is served, not two; what waits is served. `OneMailbox` is that
specification with `waiting` and `serving` read off `pending` and `job`, fairness included. Reordering in the queue, hashing by name
and the number of workers are the implementation.

### Templates

`api`, `last`: versions of the templates in the API. `mail`: the command that waits for each in the system queue. `catalog`: the global list.
`stage`, `auto`, `todo`, `merged`, `made`: how far the normalization and the pass of each CHI are, and what they found and made. Additions,
updates and deletions of templates are three handlers; a CHI is normalized by a worker of its own, in the steps between which the worker of the system queue may change the list:
collecting auto templates, collecting those asked for, merging each, filling in addresses. The informer's resync (each minute, as an
update of every template) takes the place of a waiting command. What is merged is versions, settings and clusters. The CHI in the informer's cache is
normalized in place too, which changes nothing the code looks at and is left out.

### OperatorConfig

Several operators, each with a file, an environment and a home namespace; configuration objects and one Secret change; `Start` reads them as
`ConfigManager.Init` does, `HandleCHI` serves a CHI when the informer of the operator sees its namespace and `IsWatchedNamespace` agrees.
Objects are listed in the namespaces of the file, before the environment is applied. Handlers of configuration changes log only: what
restarted the operator is commented out.

### Layout

The layout of a cluster as a user writes it (counts, lists of shards or replicas, counts and hosts in them) goes through the normalizer to a field of
hosts with names; `Reconcile` takes the difference to the layout of the last pass, with the walks of `action_plan.go` as they are, and drops
the replicas it calls removed. `Panic` is an index out of range or a nil pointer; the operator starts again and finds the CHI still there.

### Naming

Names are sequences of tokens, cut to scaled lengths (5 for 15) and joined with dashes; a number is one token, and `Numerals` are those of 0, 1, and so on. A pass makes a StatefulSet, a Service and a ConfigMap for each host
and Services of the three wider scopes, in the order of the code, each under its name, so that two of one name are one; its purge deletes what carries
the labels of the CHI and was not made. `WellNamed` says when names tell everything apart; it is a premise of theorems, not of the model. Labels the user gives and the switch for scope labels are left out.

### Ports, ConfigFiles

`Ports` follows `tcp`, `http` and `interserver` from the host, its template, its settings, those of the CHI and the defaults to two sides: container, Services and
`remote_servers`; and the files the server reads. Two settings files may both set a port; which one ClickHouse takes is
left open. `ConfigFiles` follows files given at four scopes (CHI, cluster, shard or replica, host) through inheritance and `filter` to ConfigMaps, to a
fingerprint in the label of each StatefulSet, and to the server, which reads them when it starts: when its label changes or when it crashes. Paths
are taken as `type_settings.go` normalizes them.

### HostPod

A StatefulSet is built from the user's pod template, the claim templates for data and log and the operator's own mounts, in the order of
`creator.go`; a change of claims makes the pass delete and create it. Probes and resources are data. A template that mounts at the
path of a ConfigMap, or has a `clickhouse-log` container of its own, is refused by Kubernetes and left out.

### Placement

Normalization of `podDistribution` and zones, the affinity terms they become, the macros replaced by the values of one host, the labels of Pods; then an external scheduler
that may choose any node the required terms allow. Preferred terms have one weight and rank nodes only. `Evict` is a voluntary eviction, which
the budget of the CHI limits to one Pod.

### ZooKeeper

The section of a CHI and of its cluster, normalized and inherited; a pass with one action per object that may fail
(`ReconcileServer`, `ReconcileClient`, `ReconcilePdb`, `CreateStatefulSet`), the wait for the Pods, the rollback by policy and the configuration of the hosts;
deletion; edits that cancel a pass and crashes; Pods that come, go and are evicted. The waits are one step, and Services are
idempotent, so updates of them are left out.

### MCObjects and MCSettings

`Layout`, `Naming`, `HostPod`, `Placement` and `ZooKeeper` share no state, nor do `Templates`, `OperatorConfig`, `Ports` and `ConfigFiles`. `MCObjects` and
`MCSettings` are their sums: an initial state chooses a `part`, the variables of that part move, those of the others stay as they are, and each
property is that of its module for that part. In `MCSettings` all constants come from the .cfg, with their values defined in the module, so that the theorems hold for any;
in `MCObjects` those of `Layout`, `Naming`, `HostPod` and `ZooKeeper` do, and those of `Placement` are fixed.

## 3. Runs

| Run | Checks | Shows |
|---|---|---|
| `upgrade` | `KeepsOthersServing`, `Converges` | two edits and one crash at any point, without faults: replicas go down one at a time, and the last edit is reached |
| `failures` | `TypeOK`, `KeepsOthersServing`, `DrainBeforeRestart`, `PurgeSparesSpec` | scaling, rolling update and stop with seven kinds of failing calls, under ignore / abort |
| `all_faults` | `DelistedBeforePurge`, `AdmitsOnlyBuiltHosts`, `RunningIsHonest` | a rolling update that drops a replica with every call failing at will, deletions included, under delete / rollback |
| `scrapes` | `TypeOK`, `ScrapeSeesOneList`, `RemovalsApplied` | one CHI, two scrapes side by side, three edits, all faults: a scrape walks one list, noted removals are applied |
| `startup` | `NoneOverlooked`, `DroppedOnRequest` | two CHIs, three edits, two starts of the exporter and a restart of the operator: nobody is overlooked or dropped without request |
| `deletion` | `OneMailbox`, `ReleasedWhenGone`, `DeletedNotRebuilt`, `DeletedIsLetGo`, `Settles` | a CHI of two hosts edited twice, annotated and deleted with a restart, or two CHIs that share a worker: one mailbox each, let go in the end but not before the hosts are gone |
| `volumes` | `TypeOK`, `DropSparesData`, `NothingLeft` | scale-in and deletion with retained volumes or not, a foreign finalizer, refused and failing calls, slow deletions: no replica that has its data is dropped, nothing is left |
| `objects` | `BackedEnsemble`, `Reachable`, `QuorumKept`, `NamesApart`, `ReplicasFollowHosts`, `GrowthKeepsHosts`, `HostsApart`, `ServicesExact`, `NamedStays`, `DataStays`, `NoneStuck` | what is generated for a CHI, part by part |
| `settings` | `DeletedIsDropped`, `ListedWhenServed`, `OnePair`, `PortsAgree`, `NoClash`, `LoadedIsMounted`, `NarrowWins` | what configuration becomes, part by part |
| `stale_label` | `SameIsEqual` | violated, see below |
| `dropped_replica` | `DropSparesData` | violated |
| `long_name` | `HostsApart` | violated |

Deadlock is not checked: the operator is idle after the last edit.

**ChiReconcile** (`upgrade`, `failures`, `all_faults`). Shard `s1` with the replicas `a` and `b`, shard `s2` with the
single host `c`. Two replicas are the fewest for which draining and one-at-a-time mean
something, and the third host, which has no sibling, takes the other branch of
`shouldExcludeHost`. `MaxApply` bounds the edits after the first apply, `MaxCrash` the restarts. One edit is enough for a
pass to be cancelled, replaced and followed by another; the second, in `upgrade`, is the one
that finds what a cancelled pass left and reverts or extends it. Faults together with a crash
exceed the time of a run (more than twelve million states), so `upgrade` takes the crash and the other two take the
faults: a crash and an edit with cancellation leave the same kinds of half-done work. `all_faults` cannot be one with `failures`:
the faults the latter leaves out break its properties, as follows.

`KeepsOthersServing` fails when label updates or the ping after migration fail (both errors are dropped), or when the update of a StatefulSet and then its deletion fail (item 1 below); `DrainBeforeRestart`
fails when the ConfigMap write of the drain or the removal of the label fails, after a rollback, whose new Pod is born with
the ready label, and when the timeout of a create is answered by `delete`, which takes down a host that was never excluded; `PurgeSparesSpec` fails when a PVC cannot be read. The list of hazards names each.

Fairness (`FairSpec`, used by `Converges`): weak fairness of the worker, a goroutine that
nothing blocks but the waits of the model, and of `PodReady`, because Kubernetes restarts a
Pod until it is ready. Users and crashes owe nothing. `Converges` exempts states with a
StatefulSet whose version label lies about its spec (`Mislabelled`): that is
`stale_label`, from which the operator does not recover by itself.

**MetricsExporter** (`scrapes`, `startup`). Two scrapes are the fewest that can remove beside each other, and two CHIs the fewest of which
one can be dropped for the other; three edits create, stop and resume a CHI, or create, delete and touch it. A second start of the exporter
finds CHIs that were announced to the first. CHIs are interchangeable, so `startup`, which checks no liveness, uses symmetry.
`RemovalsApplied` assumes strong fairness of each scrape: Prometheus keeps scraping, and Go's mutex hands itself to a
goroutine that has waited for long, so a scrape is not kept from it by the others. Nothing is assumed of requests or of the start.
`NoneOverlooked` speaks of states where no command, request or scrape is pending.

**Controller** (`deletion`, `volumes`). `deletion` begins in one of two ways (`Start` in `MCController`): one CHI still to be created, of two hosts and with two edits; or two
CHIs of one host each that nobody edits. Two hosts are the fewest of which one is gone while the other is not; two CHIs on one worker are the fewest of which one waits for
the other's deletion. Two queues, so that a wrong hash would show. One annotation, after which a write of the operator is refused, and one restart in either. `volumes` has one
edit and all faults but `list` (see `dropped_replica`), with users who touch a CHI that is being deleted, and the cleanup policies spelled out: without that the volumes stay (number 11 below).
Fairness: weak fairness of `Deliver` (the watch), `Take` and `Work` (workers), `ForeignGone`, `StatefulSetGone`, `PvcGone` and `Collect`
(Kubernetes does what it was told to). Nothing of users, cancellations and restarts. `DeletedIsLetGo` and `Settles` hold without faults, as an
error of the API ends a pass that nobody repeats; a restart repeats all of them.

**objects**. *Ensemble*: one size of ensemble asked for in several ways, three edits that may cancel the pass, one crash and one failing call, under the
policy delete. One size, as the ensemble is never resized (numbers 42 and 49); all calls may fail but the deletion of the StatefulSet
(`HalfDeleted.cfg`). *Field*: three kinds of users, each of which edits a set of fields (`Edits`): counts alone, up to three shards of three replicas; lists of up to two shards and
replicas with counts and hosts of their own; counts, lists and names in a mixture that contradicts itself and makes the normalizer panic.
*Names*: two CHIs and six layouts in which shards and hosts, with names and without, move, come and go, beside a second cluster of like shards. *Pod*: pod templates of five shapes, claims for data and log, two edits. *Nodes*: the detailed
distribution of `docs/chi-examples/13-distribution-03-3x3-distribution-detailed.yaml`, nine hosts on three nodes (`Nodes`) and two `Evictions`. `NoneStuck` has no evictions while a pass makes Pods:
one that races the walk, or more nodes than the cycles need, can leave a node with room for no Pod that is to come.

**settings**. *Catalog*: two templates of two versions, of which one is automatic and one has clusters, a CHI that uses one, one resync and one restart.
*Watch*: two operators that are told different namespaces, objects that set a login or what to watch, a Secret filled key by key. *Network*: ports from at most one source each, two sources are `TwoSources.cfg`; or up to eight hosts on the host network,
as in `docs/chi-examples/15-*`, of which the tenth clashes (number 33); four edits between these requests. *Files*: files of every kind given for the CHI, those for hosts at every scope below it
(from the CHI itself it is `Inherited.cfg`), and settings at every scope; three edits and one crash of a server. `Both` is FALSE: edits cancel passes or servers crash, in one behaviour not both.
A server that crashes between the common ConfigMap and its own step reads files that an edit then takes back, and no label tells; with `Both = TRUE` TLC finds that against `LoadedIsMounted`.

The properties in the parts of `objects` and `settings` are safety properties, so these runs have no fairness.

### Disagreements found

Where the code does something else than its comments, documentation or tests say. Three are runs. Those with a .cfg of their own end in the
violation of the property named, on the module given. The others name a property and the constants or inputs under which TLC finds it violated, to be put in the .cfg of that module: `LostHost.cfg` for `Controller`,
`NarrowShard.cfg` for `Layout`, `ForeignTail.cfg` for `Placement`, `OldVersion.cfg` for `Templates`, `TwoSources.cfg` for `Ports`, `Inherited.cfg` for
`ConfigFiles`, `LongName.cfg` for `Naming`, `HalfDeleted.cfg` for `ZooKeeper`; `OperatorConfig` has its constants in `Settings.cfg`, `HostPod` in `Objects.cfg`.

ChiReconcile (on `MCChiReconcile`)

1. `stale_label`, a run (`SameIsEqual`): `deleteStatefulSet` scales to zero and keeps the version label. If the pass
   is cancelled there and the edit is reverted, the next pass finds the StatefulSet "the same" and the host
   stays at zero replicas (`worker.go:2058`, `deleter.go:174-225`). The same without a cancellation: in the first stage of a rolling
   reconcile the update of the StatefulSet fails, and so does the deletion after the scale-down (`deleter.go:221` logs it); when the
   desired version is the old one, the second stage finds it "the same", and the walk takes the next replica down
   (`KeepsOthersServing` with `Faults = {"update", "remove"}` and a rolling spec of the version that runs).
2. `CancelledRunning.cfg` (`RunningMeansAllHostsRun`): a pass cancelled by a newer edit writes the status `Running` without
   having looked at a host, since pings with a done context succeed and the
   announcer writes with a context of its own (`worker.go:432-463`, `announcer.go:305`).
3. `AbortPolicy.cfg` (`AbortLeavesStatefulSet`): `abort` is documented as "do nothing, just break the process and wait for
   admin" (`src/config/config.yaml:56`); the worker continues with a recreate (`worker.go:2260`). The
   other two policies are followed by the same recreate.
4. `RetainedData.cfg` (`RetainKeepsData`): `reclaimPolicy: Retain` reaches a PVC late in the walk (`worker.go:1123`); a host dropped
   before loses the volume it was to keep.
5. `UnreadPVC.cfg` (`PurgeSparesSpec`): a PVC whose Get failed counts as unknown, not as failed, and is deleted under its running host (`worker.go:2322`).

MetricsExporter (on `MCMetricsExporter`)

6. `DeletedChi.cfg` (`GoneIsForgotten`): the discovery adds a CHI that is being deleted (`exporter.go:309` asks only for `stop`). If the exporter starts between the
   DELETE notification and the removal of the finalizer, the deleted CHI is scraped for good; `tests/test_metrics_exporter.py:81` expects an
   empty list after a restart and a delete.
7. `ResumedChi.cfg` (`RunningIsWatched`): a removal is applied by name after the next scrape (`exporter.go:91`), also when the CHI was
   resumed and added again before; the running CHI is then not monitored.

Controller (on `MCController`)

8. `dropped_replica`, a run (`DropSparesData`): `canDropReplica` says yes unless it sees a PVC, and sees none when the List fails (`worker.go:1576`, `volumes.go:55`).
   `tests/test_operator.py:1141` expects that a replica whose volume is retained is not dropped.
9. `LostTeardown.cfg` (`ReleasedWhenGone`): a refused status write ends `deleteCHIProtocol` with nil before anything is deleted, and the
   finalizer is taken off all the same (`worker.go:1528`).
10. `LostHost.cfg` (`Settles`): a StatefulSet that is being deleted still has the label a host wants, so a host removed and soon added
    again is taken for the same; nothing brings it back after its StatefulSet is gone (`getter.go:194`).
11. `NothingLeft` with `CleanupSpecified = FALSE`: the purge at the delete event reads policies from a CHI that was never normalized, where the default is
    missing, and purges nothing: a CHI deleted before its finalizer was installed leaves its volumes (`worker.go:1496`).
12. `DeletedIsLetGo` with `Meddling = TRUE` and one annotation: a conflict on the removal of the finalizer is logged, and a change of annotations
    starts no new pass (`worker.go:1475`).
13. `DeletedNotRebuilt` with `Foreign = {"a"}`: the update that takes the operator's finalizer off is enqueued; its command has a deletion timestamp and
    no finalizer, which `deleteCHI` calls unexpected and answers with a reconcile: the hosts are built again (`worker.go:1466`). Users who annotate a CHI
    that is being deleted (`Meddling`) and a failing read of it (`api`) lead there as well.
14. `LeaversForgotten` with `Hosts = {1, 2, 3}`, `Specs <- Shrinking` and two edits: `dropReplicas` compares the two CHIs of one command, and the queue keeps the newest only: of two scale-downs in
    a row the first leaves its hosts in ZooKeeper (`worker.go:389`), against `docs/schema_migration.md:23`.

Layout (`tlc -config NarrowShard.cfg Layout`)

15. `NarrowShard.cfg` (`RemovedHostsKnown`): in a layout with a narrower shard the corner of the field is a host whose CHI is nil; if the difference
    calls it removed, `GetCluster` goes through that pointer (`worker.go:398`).
16. `FieldHoldsLayout` with `Edits = {{"counts", "shards"}}`: a `shardsCount` below the number of shards listed is taken as it is, and the field is indexed
    out of range (`type_hosts_field.go:46`); the operator ends again at each start. `normalizer.go:1094` says the counts are the maximum.
17. `ReplicasFollowHosts` with `Edits = {{"shards"}}`: a shard and a replica removed in one edit: the host that belonged to both is not visited (`action_plan.go:247`).
18. `DeletesCounted` with `Edits = {{"counts"}}`: `GetRemovedHostsNum` counts the hosts of a removed shard twice (`action_plan.go:227`).

Placement (on `MCPlacement`)

19. `ForeignTail.cfg` (`AllPlaced`): the term of PreviousTailAffinity has no scope labels and is required, so a Pod has to join the Pod of
    that index of any CHI in the namespace (`affinity.go:219`).
20. `AllPlaced` with a distribution that is CircularReplication alone: what CircularReplication expands to is appended to the list a range loop walks and is never normalized; its
    empty topology key is refused (`normalizer.go:567`).
21. `MaxPerNode` with MaxNumberPerNode 2 and `AppendScopeLabels = FALSE`: its label is on Pods only with `appendScopeLabels`, which `config.yaml:155` sets to no (`labeler.go:278`).
22. `ZoneKept` with a zone in `PodZones` and another one in `UserZones`: a zone is appended to the user's node selector terms, which are alternatives (`affinity.go:115`).
23. `NamespacesApart` with AnotherNamespaceAntiAffinity and two CHIs in two namespaces: a term that names no namespaces selects in its own only (`affinity.go:405`).

Templates (on `MCTemplates`)

24. `OldVersion.cfg` (`Current`): `UpdateCHITemplate` appends, and `FindTemplate` takes the first (`type_config_chop.go:337`).
25. a resync takes the place of an addition that waits (`controller.go:166`). `ListedWhenServed` without its premise `resyncs = 0` shows it.
26. `OnlyAsked` with `Automatic = {"u"}`: an entry deleted between the collection of auto templates and the lookup has no name, and the
    first one ever deleted matches (`type_config_chop.go:240`).
27. `OwnNames` with `Clustered = {"t"}`, two CHIs and `Configured = {}`: CHIs without a configuration share the template's cluster objects, and one is built in the name of
    the other (`type_config_chi.go:67`).
28. `ChiOnTop`: settings are merged only if the key is not there, so a template's setting wins over the CHI's (`type_settings.go:408`).
29. `FilesInOrder` with two automatic templates in `Files`: template files are listed in the order of a walk over a map (`type_config_chop.go:206`), not in the one
    `docs/operator_configuration.md:56` promises.

OperatorConfig

30. `OneOperator` with an `EnvWatch` of two namespaces for one operator: watched namespaces are regular expressions that may match anywhere in a name, so `dev` includes `dev-2` (`util/array.go:36`).
31. `Applied`: configuration changes are logged and not applied (`controller.go:609`), against `docs/operator_configuration.md:21`.

Ports, ConfigFiles, HostPod

32. `TwoSources.cfg` (`PortsAgree`, on `MCPorts`): a host's `tcpPort` that is ClickHouse's default is left out of its file, so a settings port of the CHI wins in the server and not in
    the Services (`ch_config_generator.go:554`).
33. `NoClash` with default ports on the host network and five shards of two: on the host network all ports are shifted by the index of the host: the tenth has the TCP port that is the first one's
    interserver port (`normalizer.go:246`).
34. `Inherited.cfg` (`NarrowWins`, on `MCConfigFiles`): a file of the CHI for hosts overrides that of the cluster (`type_cluster.go:115`).
35. `EveryFileMounted` with keys of one name in two spellings: keys that differ in spelling end in one name, and a map decides which wins (`type_settings.go:464`).
36. `ClusterUsersMounted` with a key of the section users: files of users given for a cluster are mounted nowhere (`ch_config_files_generator.go:104`).
37. `LogShared`, one template for data and log: the log directory is on no claim, and the log container sees the data (`creator.go:1051`).

Naming (on `MCNaming`)

38. `long_name`, a run (`HostsApart`): a shard name of the 15 letters the schema allows leaves no room for the replica: two hosts are one StatefulSet (`namer.go:293`).
39. `HostsApart` with shards that the user names 0 and 1, the first of which is removed while the count stays: a generated name is the index, whatever names are taken (`normalizer.go:1260`).
40. `OwnOnly` with dashes in names: names are joined with dashes and may contain them: CHI `a` with cluster `b-c`, CHI `a-b` with cluster `c` (`namer.go:114`).

ZooKeeper (on `MCZooKeeper`)

41. `HalfDeleted.cfg` (`BackedEnsemble`): a rollback whose deletion of the StatefulSet fails deletes budget and Services, and the next pass finds the StatefulSet and restores nothing (`deleter.go:75`).
42. `Reachable` with `Requests <- Sizes` and two edits: the StatefulSet is only created, never resized, while the hosts list the new count (`worker.go:656`). A port that is edited is another case.
43. `Reachable` with a section in the cluster only: `install` of a cluster is not looked at (`worker.go:641`).
44. `ClusterOverrides` with a root in both sections: a cluster without nodes of its own takes the CHI's settings over its own (`type_cluster.go:103`).
45. `IgnoredGoesOn` with `Policy = "ignore"`: the error that stands for an ignored failure ends the pass (`worker.go:685`).
46. `NoPanic` with `Verbosity = 0`: the normalized CHI in the status is nil at that log level and is written to (`worker.go:809`).
47. `NoPanic` with no section at all: without a section in CHI and cluster a nil pointer is read (`ch_config_generator.go:97`).
48. `DeletedWhole`: the claims of the ensemble stay (`deleter.go:91`).
49. `QuorumKept` with `Requests <- Sizes` and a crash: a budget made for another count is taken as it is (`worker.go:1398`).

Further things seen while modelling and not stated as properties: circular replication whose number of shards is not the number of replicas gets cycles that do not close, and cycles
are computed over all clusters of a CHI; two clusters on the host network are given the same ports; ports from settings are not checked
for their range; the anti-affinity of ZooKeeper's Pods selects a label they carry in another spelling (`creator.go:1213`); the common file of
a cluster is mounted nowhere yet restarts its hosts; a `generateName` without enough macros makes Services collide.

## 4. Proofs

All proofs are for any value of the constants that satisfies the named assumptions of the module, which TLC evaluates in every run.

`ChiReconcileProofs`, for every walk, set of specs, shard layout, policy, fault set and bound:

- `TypeCorrect == Spec => []TypeOK`. `TypeOK` is not inductive: `H` is `Walk[n]`, and `n` may be
  `Len(Walk) + 1` between hosts. `TypeInv` adds `WalkInv`, that a step on a host is taken only while `n` is a
  position of the walk. `TypeInit` and `TypeStep` have one step per action, and under it one per part of
  `TypeOK` the action disturbs; `Kept` covers the parts it leaves alone.
- `PurgeSparesHosts`: if `FailedCleanup = "Retain"` (the default) and PVCs can be read, then
  `Spec => PurgeSparesSpec`. The inductive invariant `RegistryInv` says that when the pass gets to the cleanup each existing object of a
  host of the CHI is in one of the registries: `WalkedInv` for the hosts before position `n`, `CurrentInv` for
  what is already registered of the host at `n`, `PositionInv` that the walk passed every host before `clear`, and
  `TrashInv` that the trash holds no registered object unless it is registered as failed. `RegistryStep`
  goes through the actions; `PurgeStep` derives the action property. Both premises are needed:
  `UnreadPVC.cfg` violates the conclusion without the second, and `failed` objects are deleted without the first.

- `DelistedFirst == Spec => DelistedBeforePurge`, without premises. `DelistInv` says that behind the walk the StatefulSet
  of every host of the CHI was reconciled (one that failed ends the pass) and that from `clear` on `remote_servers`
  lists exactly those hosts; so a StatefulSet in the trash is of a host that is not listed.

`ChiHostProofs` builds on these invariants and proves

- `OnlyBuiltAdmitted == Spec => AdmitsOnlyBuiltHosts` and `RunningHonest == Spec => RunningIsHonest`, without premises.
  Both need to know what the StatefulSet of a host looks like when the walk leaves it, whichever way it took there. `BuildInv`
  has four parts. `WorkInv` follows the current host: what update and create wrote is there while they wait for it,
  the ConfigMap exists unless an error is underway that ends the pass, and past `statefulSetDone` the host is built.
  `PodInv`, that only a StatefulSet that asks for a Pod has one, rules out that the first stage of a rolling update times out and
  that a create replaces a running Pod. `DoneInv` carries "built" from the current host to the hosts behind the walk and
  through the cleanup. `AddedInv` ties the add attribute to the position of the walk, so that rewriting
  `remote_servers` in the middle of the walk lists an added host only when it is done. `OnHostStep` says once that the
  actions on a host leave the other hosts alone.

`ChiDrainProofs` adds, on top of these,

- `OthersKeepServing`: without the faults `label`, `ping` and `remove`, `Spec => []KeepsOthersServing`. Of the hosts that served when the pass began, `OneOutInv` says that at most
  one does not serve, that it is the current one while the walk is on its way, and that there is none between hosts. It is not inductive alone: that the current host
  serves again when the walk leaves it is `ReturnInv`, which rests on `BuildInv` and on labels: a StatefulSet whose Pod is gone never has a label that calls it up to date.
- `DrainedFirst`: `Spec => DrainBeforeRestart` under `DrainPremise`: ConfigMap and label can be written, and no timeout is answered by the update policy `rollback` or the create policy `delete`.
  `DrainInv` keeps the current host drained from its exclusion to the change of its StatefulSet; `NoUndo` that the steps of the policy `delete` are not reached.

TLC violates the conclusion when any one of these premises is dropped, `remove` with the specs of item 1 of the disagreements.

`MetricsExporterProofs` proves, for any CHIs, host lists, scrapes and bounds:

- `ExporterTypeCorrect`: `TypeOK` is inductive; besides types it says that the mutex is free or with a scrape that collects.
- `OneListPerScrape == Spec => ScrapeSeesOneList`, from `MutexInv`: a scrape that collects holds the mutex. `OutsideScrape` says once
  that what is not a scrape touches the list only when the mutex is free.
- `OnlyExcludedDropped == Spec => DroppedOnRequest`, from `RemovalInv`: each removal sent, noted or under way is of an excluded CHI.
- `NobodyOverlooked`: without the faults `walk`, `list` and `serve`, `Spec => []NoneOverlooked`. `CoverInv` says that from the discovery on each CHI
  that was not excluded has a command, a job, a POST on its way, a place among the discovered, or an entry; and that before, a CHI
  to be stopped still has the command that will exclude it, since the discovery skips it. Writes of the status may fail.

`ControllerProofs`, for any CHIs, hosts, queues, hashing, faults and bounds. The invariant `Served` is the conjunction of what the API, the objects, the events, the waiting
commands and the jobs can be: a command that says "add" or "update" has a new CHI, one that says "delete" an old one; a CHI in the API is one that was created; whoever serves a CHI or
holds a command for it is the queue of its index; a job at a step of the deletion has a command with the timestamp and the hosts
left are hosts of its spec; a job whose read is fresh has read the CHI that is there.

- `ControllerTypeCorrect == Spec => []TypeOK`: also that no worker reads the new version of a deleted CHI or writes one that is gone.
- `MailboxKept == Spec => Box!Spec`: every step of `Controller` is a step of `Mailbox` or a stutter. It rests on the part of `Served` that ties a CHI to one queue.
- `DataSpared`: if volumes can be listed, `Spec => DropSparesData`.
- `GoneBeforeRelease`: `Spec => ReleasedWhenGone`, if nobody touches a CHI that is being deleted, no CHI has another finalizer, and calls of the API and on StatefulSets succeed. The invariant `Torn`
  says that the StatefulSets of the hosts the deletion has walked through are gone; that they stay gone (`StaysGone`) needs that only the CHI's own
  worker builds StatefulSets, which is `Served` again. All the premises are needed: `LostTeardown.cfg` is one violation without them.
- `DeletedStaysDown`: `Spec => DeletedNotRebuilt`, if nobody touches a CHI that is being deleted, no CHI has another finalizer and calls of the API succeed (`Untouched`). Calls to
  Kubernetes may fail. The invariant `AllHeard` follows the command that tells of the deletion through the watch, the queue and the worker: it is the last of its CHI, it lists the finalizer, and
  as long as it is there the CHI is. Each premise is needed, see number 13.

`ObjectsProofs`, for all requests, faults, policies and bounds of `ZooKeeper`:

- `Backed`: if deletions of StatefulSets do not fail, `Spec => []BackedEnsemble`. The invariant `Ensemble` says for each position of the pass which objects are there already, or no longer.
- `MajorityStays`: for every odd number of replicas, an ensemble that keeps its size has a budget that leaves a majority.
- `HostsFindNodes`: if all ensembles asked for have one number of nodes at one port (`AskOne`), no cluster asks for one alone (`ChiAsks`) and deletions of StatefulSets do not fail, `Spec => []Reachable`.
  The invariant `Addresses` says what a pass knows at each position. The premises are numbers 42, 43 and 41.

and about `SpecAll` of `MCObjects`, for any bounds, names, fields, templates and claims:

- `ReplicasGo` and `GrowthKeepsAll`: `SpecAll => ReplicasFollowHosts` and `SpecAll => GrowthKeepsHosts`, without premises. Both properties are about users who edit counts alone, one between two passes (both counts at once, or lists: number 17). `GridOf` computes
  the normalized layout of two counts; `Counting` says that the layout of the last pass is one and differs from the spec in one count at most. Of two layouts that are smaller in both, the walk over the difference
  misses the corner, so this is what the proof of `GridRemoved` turns on.
- `NamesOfTheirOwn`: `SpecAll => []NamesApart`, for any mixture of counts, lists, listed hosts and names, if names have one part and none is an index (`WordsOnly`; the code does not look at that, numbers 39 and 40 are of this kind). `Apart`
  carries what users keep to: names are given once in a list, hosts once in all shards, and replicas list no hosts (`Layouts`, which `EditTold` shows of each edit). `NamedEither`: a host of a layout that is not out of range has either the two parts of its
  shard and its replica, or one listed name; `NamesDiffer` tells two hosts of either kind apart.
- `DataNeverMoves`: `SpecAll => DataStays`, for pod templates of which no container mounts two things at one path (`MountedOnce`; Kubernetes refuses others). `ServerMounts` computes what the container of the server mounts from the steps of
  `creator.go`; `DataClaimed` that the claim for logs, the ConfigMaps and the log container leave the data directory alone.
- `NeverStuck`: `SpecAll => []NoneStuck`, for any three nodes (`ThreeNodes`) and any number of evictions, where the run has two. With a fourth node the property is false, see what is said of `objects` in section 3. `DistributionIs` and `TermsAre` compute what the normalizer
  and the affinity code make of the distribution, and `FitsIs` what the scheduler makes of that: no other Pod of one's shard or replica on the node, and the head of a later shard beside the tail of the one before. The inductive invariant is
  `Circular`: Pods are made in turn, at most one that was made is out, no two of a shard or replica share a node, and heads sit with tails. A Pod that is out can always come back (`RoomToReturn`) and the next one always starts (`RoomForNext`): the Pods
  of a full shard take all three nodes, which leaves the others little choice, and `TailsAgree` shows that what is left for the head of a shard is the node of the tail before it.

`NamingProofs`, about `SpecAll` of `MCObjects` for any CHIs, layouts, lengths, numerals and edits, under one premise, `WellNamed`: names of CHIs, clusters, shards and hosts are letters without dashes, short enough
to stay whole in names and labels; they are given once where they stand (clusters in a CHI, shards in a cluster, hosts in a cluster), and none is a number; templates have no `generateName` of their own.
The code demands none of this. Without it the conclusions are false: names that are cut (38), numbers (39) and dashes (40) each break one of them. The constants of the run `objects` satisfy it.

- `HostsKeepApart`: `SpecAll => []HostsApart`; `ServicesStayExact`: `SpecAll => []ServicesExact`. The inductive invariant is `Registered`: in Kubernetes are the objects that each CHI's last pass wanted, and no others.
  That a pass keeps it (`PassKeeps`) is about what the code decides by name alone: what it creates, updates and purges. It rests on
  `SameObjectsAreOne`: two objects of one kind and name are of one CHI, and if they are of one layout they are one object; and on `DiscoversOwn`: the selector of a CHI finds the objects of that CHI.
- `PurgesOwn`: `SpecAll => [][RemovesOwn]_allVars`: a pass over one CHI removes nothing of another, which is `OwnOnly` of `Naming` for names that number 40 is not about.
- `NamesKeepSets`: `SpecAll => NamedStays`. `OneKeyOneName`: the name of a host is made of what the user tells it by, in whatever place of whatever layout (`KeysKeepSets`).

The way to `SameObjectsAreOne`: `DashedApart`, that parts joined by dashes come apart at the first dash if the first has none; the names of clusters, shards and hosts stay whole and apart (`ClusterNameIs`, `ShardNamesApart`, `HostNamesApart`, where a host
with a generated name is told from one with a name of its own by a dash); each pattern of the operator, its macros replaced, is its parts joined by dashes (`ChiPattern` to `ConfigPattern`); so objects of one class have different names (`ClusterNamesApart` and its like), and the first words of the patterns tell the classes apart
(`BegunOnce`). `FlattenIs` takes the fold of `FlattenSeq` apart, which the patterns and the walks over clusters, shards and hosts are made with.

`SettingsProofs` is about `SpecAll` of `MCSettings`, for any values of its constants. A part that is not explored does not move, so each invariant speaks of its own part:

- `DeletedDrops == Spec => []DeletedIsDropped` and `ServedIsListed == Spec => []ListedWhenServed`, about `Templates` by itself, from `CatalogInv`: what is listed is a file, is in the API, or has a deletion that waits; and before the first resync, a template in the API is listed or has an addition that waits.
- `PairKept`: `OnePair`, if objects that set a user name set a password and the other way round (`LoginsWhole`). `OnePlace` shows that the last object that sets the one is the last that sets the other; what `Start` takes is kept by `PairInv`.
- `ServersAgree`: `PortsAgree`, if no port has two sources (`OneSourced`; `TwoSources.cfg` otherwise). `PortsInv` says that the request is one of `Specs`, grown by shards, and that a completed pass left what it makes of that request.
- `PortsApart`: `NoClash`, for requests on the host network of one cluster whose ports start further apart than there will be hosts (`Roomy`; number 33 otherwise). From the same invariant, and that hosts have places of their own in their cluster (`PlacesApart`).
- `NothingUnnoticed`: `LoadedIsMounted`, if names of files are apart (`KeysApart`) and `Both` is FALSE. `FilesInv` ties the ConfigMaps to labels: that of a host is always the one its label stands for (`LabelInv`), that of the CHI the one of the labels
  or of the day (`CommonInv`), and a server runs with what its label stands for or is still to be restarted (`ServerInv`). `SectionFiltered` is the heart of it: what the fingerprint leaves out makes no file of these sections.
- `NarrowestWins`: `NarrowWins`, if names of files are apart from each other and from the operator's (`KeysApart`, `NotOwn`) and no file is given both for the CHI and for the cluster (`OneOfBoth`; number 34 otherwise). `NarrowInv`: a host the pass is through with has the
  files of the day; `InheritsNarrowest` and `FileMounted` follow a file through inheritance and what is put over it.

Only model-checked is what is out of the prover's reach: liveness under fairness (`Converges`, `RemovalsApplied`, `DeletedIsLetGo`, `Settles`, `NothingLeft`, the fairness in `OneMailbox`).

## 5. Not modelled

- *Connection pool*: a map with a lock per entry. Its users are calls the modules take as one step; a connection opened twice costs a handle and
  changes no state of the system. The SQL of the schema migration and its retries: the pass sees success or an error that it mostly drops.
- *Status histories* (actions, errors): bounded lists of texts nobody reads back. Conflicts of the writes are in `Controller`.
- *Texts*: XML, probes, resources, users, profiles and quotas. They go from the CHI to a ConfigMap or container as they are.
- *Objects of the pass that nothing depends on*: the budget of clusters, the users ConfigMap, whose writes are like those modelled. DNS waits delay only.
- *Template names at lower levels*: a deprecated `volumeClaimTemplate` loses to an outer `dataVolumeClaimTemplate`, and a replica's templates are ignored when shards are listed, as
  the resource's schema says.
- *Priorities of queues* and the lists inside the registry, which are sets here.
- *Generated clients and deep copies* (`client/`, `zz_generated*`): no decisions of their own. `dev/`, `deploy/`, `grafana`, `tests/` and `docs/` are read as
  references, not modelled.

What is left to do: a refinement from `ChiReconcile`, which has each call of a pass, to the
pass of `Controller`.
