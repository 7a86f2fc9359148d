----------------------------- MODULE Controller -----------------------------
(***************************************************************************)
(* Informers, command queues and workers, and the life of a CHI from its   *)
(* finalizer to its deletion (pkg/controller/chi/controller.go,            *)
(* type_cmd_queue.go, worker.go, deleter.go, volumes.go, discoverer.go).   *)
(*                                                                         *)
(* Several workers serve several CHIs. Events reach the queues late and in *)
(* order; a queue keeps the newest command of a CHI and may cancel the     *)
(* context of the one being served. Users edit, annotate and delete CHIs   *)
(* meanwhile; an update built on a version of the CHI that is no longer    *)
(* the current one is refused. The operator may restart.                   *)
(*                                                                         *)
(* The host walk of a pass is one step per host here; ChiReconcile is its  *)
(* detail. A CHI is its set of hosts; a host is a StatefulSet, one PVC and *)
(* a replica path in ZooKeeper. Status writes matter only where their      *)
(* failure changes what is done next. A deleted CHI is not created again.  *)
(***************************************************************************)
EXTENDS Integers, Sequences, FiniteSetsExt

CONSTANTS
    Chis, Hosts,       \* hosts are numbers, in the order they are walked
    Queues,            \* the queues of ReconcileCHI commands, one worker each
    Index,             \* [Chis -> Queues]: the hash of a CHI's name
    None,
    Specs,             \* the sets of hosts a user may ask for
    Keeping,           \* whether the volumes of a CHI may be retained, or deleted
    Foreign,           \* the CHIs that carry a finalizer of someone else
    CleanupSpecified,  \* the CHIs spell out their cleanup policies: Delete
    Meddling,          \* users touch a CHI that is being deleted
    Faults,            \* which calls may fail
    MaxEdits, MaxNotes, MaxCrashes  \* bounds

ASSUME HostsAssumption == Hosts \subseteq Nat /\ IsFiniteSet(Hosts)
ASSUME QueuesAssumption == Index \in [Chis -> Queues]
ASSUME SpecsAssumption == Specs \subseteq SUBSET Hosts
ASSUME SetsAssumption == Keeping \subseteq BOOLEAN /\ Foreign \subseteq Chis
\* "api" reads and writes of a CHI, "kube" of a StatefulSet, "list" a List of
\* objects, "sql" statements on ClickHouse; "slow": deletions are under way
\* still when the operator looks again.
ASSUME FaultsAssumption == Faults \subseteq {"api", "kube", "list", "sql", "slow"}

ChiType == [spec : SUBSET Hosts, fin : BOOLEAN, foreign : BOOLEAN, ts : BOOLEAN]
ASSUME NoneAssumption == None \notin ChiType

VARIABLES
    api,      \* [Chis -> the CHI in the API, or None]
    born,     \* the CHIs that were created
    retained, \* those whose volumes are to be retained
    events,   \* [Chis -> what the watch has not delivered yet]
    sts,      \* [Chis -> [Hosts -> state of the StatefulSet]]
    pvc,      \* [Chis -> [Hosts -> state of the PVC]]
    paths,    \* [Chis -> the hosts with replica paths in ZooKeeper]
    pending,  \* [Queues -> [Chis -> the command that waits, or None]]
    job,      \* [Queues -> what the worker does, or None]
    spent     \* edits, annotations and restarts so far

created == <<born, retained>>
objects == <<sts, pvc, paths>>
vars == <<api, born, retained, events, sts, pvc, paths, pending, job, spent>>

StsStates == {"none", "up", "down", "leaving"}
PvcStates == {"none", "bound", "leaving"}
Commands == [cmd : {"add", "update", "delete"}, old : ChiType \cup {None},
             new : ChiType \cup {None}]
Steps == {"dispatch", "install", "installPut", "confirm", "terminating",
          "terminatingPut", "host", "scaled", "gone", "volume", "release", "releasePut",
          "begin", "build", "clear", "drop", "discover"}
Jobs == [chi : Chis, item : Commands, pc : Steps, left : SUBSET Hosts,
         done : BOOLEAN, fresh : BOOLEAN]
ASSUME NothingAssumption == None \notin Commands /\ None \notin Jobs

TypeOK ==
    /\ api \in [Chis -> ChiType \cup {None}]
    /\ born \subseteq Chis /\ retained \subseteq Chis
    /\ events \in [Chis -> Seq(Commands)]
    /\ sts \in [Chis -> [Hosts -> StsStates]]
    /\ pvc \in [Chis -> [Hosts -> PvcStates]]
    /\ paths \in [Chis -> SUBSET Hosts]
    /\ pending \in [Queues -> [Chis -> Commands \cup {None}]]
    /\ job \in [Queues -> Jobs \cup {None}]
    /\ spent \in [{"edits", "notes", "crashes"} -> Nat]

Init ==
    /\ api = [c \in Chis |-> None]
    /\ born = {} /\ retained = {}
    /\ events = [c \in Chis |-> <<>>]
    /\ sts = [c \in Chis |-> [h \in Hosts |-> "none"]]
    /\ pvc = [c \in Chis |-> [h \in Hosts |-> "none"]]
    /\ paths = [c \in Chis |-> {}]
    /\ pending = [q \in Queues |-> [c \in Chis |-> None]]
    /\ job = [q \in Queues |-> None]
    /\ spent = [k \in {"edits", "notes", "crashes"} |-> 0]

-----------------------------------------------------------------------------
(* The API server: every change is an event, and makes the version of the  *)
(* CHI that a worker has read an old one.                                  *)

Command(cmd, old, new) == [cmd |-> cmd, old |-> old, new |-> new]

Stale(jobs, c) ==
    [q \in Queues |-> IF jobs[q] # None /\ jobs[q].chi = c
                      THEN [jobs[q] EXCEPT !.fresh = FALSE] ELSE jobs[q]]

\* The CHI becomes new, unless nothing holds it back from being deleted.
Write(c, new) ==
    LET gone == new.ts /\ ~new.fin /\ ~new.foreign
    IN  /\ api' = [api EXCEPT ![c] = IF gone THEN None ELSE new]
        /\ events' = [events EXCEPT ![c] = Append(@,
               IF gone THEN Command("delete", api[c], None)
                       ELSE Command("update", api[c], new))]

Exists(c) == api[c] # None
MayTouch(c) == Exists(c) /\ (Meddling \/ ~api[c].ts)

Create(c) == \E s \in Specs, keep \in Keeping :
    LET new == [spec |-> s, fin |-> FALSE, foreign |-> c \in Foreign, ts |-> FALSE]
    IN  /\ c \notin born
        /\ born' = born \cup {c}
        /\ retained' = IF keep THEN retained \cup {c} ELSE retained
        /\ api' = [api EXCEPT ![c] = new]
        /\ events' = [events EXCEPT ![c] = Append(@, Command("add", None, new))]
        /\ UNCHANGED <<objects, pending, job, spent>>

Edit(c) == \E s \in Specs :
    /\ MayTouch(c)
    /\ s # api[c].spec
    /\ spent["edits"] < MaxEdits
    /\ spent' = [spent EXCEPT !["edits"] = @ + 1]
    /\ Write(c, [api[c] EXCEPT !.spec = s])
    /\ job' = Stale(job, c)
    /\ UNCHANGED <<created, objects, pending>>

\* An annotation, or the status written by someone else.
Annotate(c) ==
    /\ MayTouch(c)
    /\ spent["notes"] < MaxNotes
    /\ spent' = [spent EXCEPT !["notes"] = @ + 1]
    /\ Write(c, api[c])
    /\ job' = Stale(job, c)
    /\ UNCHANGED <<created, objects, pending>>

Delete(c) ==
    /\ Exists(c)
    /\ ~api[c].ts
    /\ Write(c, [api[c] EXCEPT !.ts = TRUE])
    /\ job' = Stale(job, c)
    /\ UNCHANGED <<created, objects, pending, spent>>

\* The other finalizer is taken off once the CHI is being deleted.
ForeignGone(c) ==
    /\ Exists(c)
    /\ api[c].ts
    /\ api[c].foreign
    /\ Write(c, [api[c] EXCEPT !.foreign = FALSE])
    /\ job' = Stale(job, c)
    /\ UNCHANGED <<created, objects, pending, spent>>

-----------------------------------------------------------------------------
(* Informers, queues, workers.                                             *)

\* Mutant: the command is hashed too, so one CHI is served by two workers.
QueueOfByCommand(c, item) ==
    IF item.cmd = "delete" THEN CHOOSE q \in Queues : q # Index[c] ELSE Index[c]

\* The queue depends on the handle alone, and that on the name of the CHI.
QueueOf(c, item) == Index[c]

\* Mutant: only the spec counts.
HasActionsToDoBySpec(old, new) == old = None \/ new = None \/ old.spec # new.spec

\* Only the spec, the deletion timestamp and the finalizers count.
HasActionsToDo(old, new) == old = None \/ new = None \/ old # new

\* Mutant: an event that comes while the CHI is being worked on is dropped.
DeliverWhenIdle(c) ==
    LET item == Head(events[c])
        q == QueueOf(c, item)
    IN  /\ events[c] # <<>>
        /\ events' = [events EXCEPT ![c] = Tail(@)]
        /\ pending' = IF \/ item.cmd = "update" /\ ~HasActionsToDo(item.old, item.new)
                         \/ job[q] # None /\ job[q].chi = c
                      THEN pending
                      ELSE [pending EXCEPT ![q][c] = item]
        /\ UNCHANGED <<api, created, objects, job, spent>>

\* The informer hands on the oldest event, and the newest command takes the
\* place of the one that waits.
Deliver(c) ==
    LET item == Head(events[c])
    IN  /\ events[c] # <<>>
        /\ events' = [events EXCEPT ![c] = Tail(@)]
        /\ pending' = IF item.cmd = "update" /\ ~HasActionsToDo(item.old, item.new)
                      THEN pending
                      ELSE [pending EXCEPT ![QueueOf(c, item)][c] = item]
        /\ UNCHANGED <<api, created, objects, job, spent>>

\* The queue library cancels the context of an item when a newer one of the
\* same handle waits.
Cancel(q) ==
    /\ job[q] # None
    /\ ~job[q].done
    /\ pending[q][job[q].chi] # None
    /\ job' = [job EXCEPT ![q].done = TRUE]
    /\ UNCHANGED <<api, created, events, objects, pending, spent>>

Take(q) == \E c \in Chis :
    /\ job[q] = None
    /\ pending[q][c] # None
    /\ job' = [job EXCEPT ![q] = [chi |-> c, item |-> pending[q][c], pc |-> "dispatch",
                                  left |-> {}, done |-> FALSE, fresh |-> TRUE]]
    /\ pending' = [pending EXCEPT ![q][c] = None]
    /\ UNCHANGED <<api, created, events, objects, spent>>

\* A step of worker q at pc, on the CHI c, with the context alive.
At(q, pc) == job[q] # None /\ job[q].pc = pc /\ ~job[q].done
Goto(q, pc) == job' = [job EXCEPT ![q].pc = pc]
Finish(q) == job' = [job EXCEPT ![q] = None]
Chi(q) == job[q].chi
Old(q) == job[q].item.old
New(q) == job[q].item.new
MayFail(f) == f \in Faults

\* The claim template, or the label it leaves on the PVC, says Retain or not.
CanDeletePVC(c) == c \notin retained

\* Every function returns at once when the context is done, and mostly with
\* success; only waitHostDeleted does not look.
Cancelled(q) ==
    /\ job[q] # None
    /\ job[q].done
    /\ job[q].pc # "gone"
    /\ Finish(q)
    /\ UNCHANGED <<api, created, events, objects, pending, spent>>

\* updateCHI and processReconcileCHI: what kind of work is it?
Dispatch(q) ==
    /\ At(q, "dispatch")
    /\ Goto(q, IF job[q].item.cmd = "delete" THEN "discover"
               ELSE IF New(q).ts THEN "confirm"
               ELSE IF ~New(q).fin THEN "install"
               ELSE "begin")
    /\ UNCHANGED <<api, created, events, objects, pending, spent>>

\* installFinalizer reads the CHI: without an answer the pass goes on, with
\* the finalizer there already it ends.
InstallFinalizer(q) ==
    /\ At(q, "install")
    /\ \/ /\ ~Exists(Chi(q)) \/ MayFail("api")
          /\ Goto(q, "begin")
       \/ /\ Exists(Chi(q)) /\ api[Chi(q)].fin
          /\ Finish(q)
       \/ /\ Exists(Chi(q)) /\ ~api[Chi(q)].fin
          /\ job' = [job EXCEPT ![q].pc = "installPut", ![q].fresh = TRUE]
    /\ UNCHANGED <<api, created, events, objects, pending, spent>>

\* It writes what it read plus the finalizer. Written, the pass ends and waits
\* for its own event; refused, it goes on without.
InstallFinalizerPut(q) ==
    LET c == Chi(q) IN
    /\ At(q, "installPut")
    /\ \/ /\ job[q].fresh
          /\ Write(c, [api[c] EXCEPT !.fin = TRUE])
          /\ Finish(q)
       \/ /\ ~job[q].fresh \/ MayFail("api")
          /\ Goto(q, "begin")
          /\ UNCHANGED <<api, events>>
    /\ UNCHANGED <<created, objects, pending, spent>>

-----------------------------------------------------------------------------
(* deleteCHI: a CHI with a deletion timestamp.                             *)

\* A CHI that is not there, or whose command does not list the finalizer, is
\* not deleted but reconciled.
DeleteChi(q) ==
    /\ At(q, "confirm")
    /\ \/ /\ ~Exists(Chi(q)) \/ MayFail("api") \/ ~New(q).fin
          /\ Goto(q, "begin")
       \/ /\ Exists(Chi(q)) /\ New(q).fin
          /\ Goto(q, "terminating")
    /\ UNCHANGED <<api, created, events, objects, pending, spent>>

Teardown(q) == job' = [job EXCEPT ![q].pc = "host", ![q].left = New(q).spec]

\* deleteCHIProtocol reads the CHI to write the status Terminating; a CHI it
\* cannot read is tolerated.
DeleteStart(q) ==
    /\ At(q, "terminating")
    /\ \/ /\ ~Exists(Chi(q)) \/ MayFail("api")
          /\ Teardown(q)
       \/ /\ Exists(Chi(q))
          /\ job' = [job EXCEPT ![q].pc = "terminatingPut", ![q].fresh = TRUE]
    /\ UNCHANGED <<api, created, events, objects, pending, spent>>

\* A refused write ends the protocol before anything is deleted.
DeleteStartPut(q) ==
    /\ At(q, "terminatingPut")
    /\ \/ job[q].fresh /\ Teardown(q)
       \/ (~job[q].fresh \/ MayFail("api")) /\ Goto(q, "release")
    /\ UNCHANGED <<api, created, events, objects, pending, spent>>

Host(q) == Min(job[q].left)
NextHost(q) == job' = [job EXCEPT ![q].pc = "host", ![q].left = @ \ {Host(q)}]

\* A host whose StatefulSet cannot be read counts as deleted, whatever else it
\* has. Otherwise its tables are dropped, unless a volume is retained, and the
\* StatefulSet is scaled down; a scale-down refused leaves the rest to do.
DeleteHost(q) ==
    LET c == Chi(q)  h == Host(q) IN
    /\ At(q, "host")
    /\ job[q].left # {}
    /\ \/ /\ sts[c][h] = "none" \/ MayFail("kube")
          /\ NextHost(q)
          /\ UNCHANGED <<sts, paths>>
       \/ /\ sts[c][h] # "none"
          /\ \/ /\ CanDeletePVC(c)
                /\ paths' = [paths EXCEPT ![c] = @ \ {h}]
             \/ /\ ~CanDeletePVC(c) \/ MayFail("sql")
                /\ UNCHANGED paths
          /\ \/ /\ sts' = [sts EXCEPT ![c][h] = IF @ = "up" THEN "down" ELSE @]
                /\ Goto(q, "scaled")
             \/ /\ MayFail("kube")
                /\ Goto(q, "volume")
                /\ UNCHANGED sts
    /\ UNCHANGED <<api, created, events, pvc, pending, spent>>

DeleteStatefulSet(q) ==
    LET c == Chi(q)  h == Host(q) IN
    /\ At(q, "scaled")
    /\ \/ /\ sts' = [sts EXCEPT ![c][h] = IF @ = "none" THEN @ ELSE "leaving"]
          /\ Goto(q, "gone")
       \/ /\ MayFail("kube")
          /\ Goto(q, "volume")
          /\ UNCHANGED sts
    /\ UNCHANGED <<api, created, events, pvc, paths, pending, spent>>

\* Mutant: nobody waits for the StatefulSet.
WaitHostDeletedNot(q) ==
    /\ job[q] # None
    /\ job[q].pc = "gone"
    /\ Goto(q, "volume")
    /\ UNCHANGED <<api, created, events, objects, pending, spent>>

\* waitHostDeleted asks until the StatefulSet cannot be read, for ever and
\* whatever the context says.
WaitHostDeleted(q) ==
    /\ job[q] # None
    /\ job[q].pc = "gone"
    /\ sts[Chi(q)][Host(q)] = "none" \/ MayFail("kube")
    /\ Goto(q, "volume")
    /\ UNCHANGED <<api, created, events, objects, pending, spent>>

\* deletePVC: the PVCs of the host that its template does not retain.
DeletePVC(q) ==
    LET c == Chi(q)  h == Host(q) IN
    /\ At(q, "volume")
    /\ \/ /\ CanDeletePVC(c)
          /\ pvc' = [pvc EXCEPT ![c][h] = IF @ = "bound" THEN "leaving" ELSE @]
       \/ /\ ~CanDeletePVC(c) \/ MayFail("list")
          /\ UNCHANGED pvc
    /\ NextHost(q)
    /\ UNCHANGED <<api, created, events, sts, paths, pending, spent>>

HostsDeleted(q) ==
    /\ At(q, "host")
    /\ job[q].left = {}
    /\ Goto(q, "release")
    /\ UNCHANGED <<api, created, events, objects, pending, spent>>

\* uninstallFinalizer reads the CHI and writes it back without the finalizer.
\* The pass is over either way.
UninstallFinalizer(q) ==
    /\ At(q, "release")
    /\ \/ /\ ~Exists(Chi(q)) \/ MayFail("api")
          /\ Finish(q)
       \/ /\ Exists(Chi(q))
          /\ job' = [job EXCEPT ![q].pc = "releasePut", ![q].fresh = TRUE]
    /\ UNCHANGED <<api, created, events, objects, pending, spent>>

\* Mutant: the CHI does not count as deleted after its finalizer is off.
UninstallFinalizerPutGoesOn(q) ==
    LET c == Chi(q) IN
    /\ At(q, "releasePut")
    /\ \/ /\ job[q].fresh
          /\ Write(c, [api[c] EXCEPT !.fin = FALSE])
       \/ /\ ~job[q].fresh \/ MayFail("api")
          /\ UNCHANGED <<api, events>>
    /\ Goto(q, "begin")
    /\ UNCHANGED <<created, objects, pending, spent>>

UninstallFinalizerPut(q) ==
    LET c == Chi(q) IN
    /\ At(q, "releasePut")
    /\ \/ /\ job[q].fresh
          /\ Write(c, [api[c] EXCEPT !.fin = FALSE])
       \/ /\ ~job[q].fresh \/ MayFail("api")
          /\ UNCHANGED <<api, events>>
    /\ Finish(q)
    /\ UNCHANGED <<created, objects, pending, spent>>

-----------------------------------------------------------------------------
(* updateCHI: a CHI to reconcile.                                          *)

Begin(q) ==
    /\ At(q, "begin")
    /\ IF HasActionsToDo(Old(q), New(q))
       THEN job' = [job EXCEPT ![q].pc = "build", ![q].left = New(q).spec]
       ELSE Finish(q)
    /\ UNCHANGED <<api, created, events, objects, pending, spent>>

\* reconcileHost: a StatefulSet that is missing is created, with its volume and
\* its tables; one that is there has the version label of the spec and is
\* left alone, be it scaled down or on its way out. An error ends the pass
\* without cleanup.
ReconcileHost(q) ==
    LET c == Chi(q)  h == Host(q) IN
    /\ At(q, "build")
    /\ job[q].left # {}
    /\ \/ /\ sts[c][h] # "leaving" \/ MayFail("slow")
          /\ pvc[c][h] # "leaving" \/ sts[c][h] # "none"
          /\ sts' = [sts EXCEPT ![c][h] = IF @ = "none" THEN "up" ELSE @]
          /\ pvc' = [pvc EXCEPT ![c][h] = IF sts[c][h] = "none" THEN "bound" ELSE @]
          /\ paths' = [paths EXCEPT ![c] = IF sts[c][h] = "none" THEN @ \cup {h} ELSE @]
          /\ job' = [job EXCEPT ![q].left = @ \ {h}]
       \/ /\ MayFail("kube")
          /\ Finish(q)
          /\ UNCHANGED objects
    /\ UNCHANGED <<api, created, events, pending, spent>>

\* Mutant: what is to be deleted is scaled down.
DoomedScaledDown(states, hosts, from) ==
    [h \in Hosts |-> IF h \in hosts /\ states[h] \in from THEN "down" ELSE states[h]]

\* Objects that are deleted: StatefulSets first, the volumes unless retained.
Doomed(states, hosts, from) ==
    [h \in Hosts |-> IF h \in hosts /\ states[h] \in from THEN "leaving" ELSE states[h]]

\* discovery and purge of what is labelled with the CHI and belongs to hosts
\* of the set; a List that fails leaves its kind out.
PurgeObjects(c, hosts) ==
    /\ \/ sts' = [sts EXCEPT ![c] = Doomed(@, hosts, {"up", "down"})]
       \/ MayFail("list") /\ UNCHANGED sts
    /\ \/ /\ CanDeletePVC(c)
          /\ pvc' = [pvc EXCEPT ![c] = Doomed(@, hosts, {"bound"})]
       \/ (~CanDeletePVC(c) \/ MayFail("list")) /\ UNCHANGED pvc

Clear(q) ==
    /\ At(q, "build")
    /\ job[q].left = {}
    /\ PurgeObjects(Chi(q), Hosts \ New(q).spec)
    /\ Goto(q, "drop")
    /\ UNCHANGED <<api, created, events, paths, pending, spent>>

RemovedHosts(q) == IF Old(q) = None THEN {} ELSE Old(q).spec \ New(q).spec

\* Mutant: nobody looks for volumes.
CanDropReplicaAlways(c, h, listed) == TRUE

\* No PVC of the host is found, be it that there was no list of them.
CanDropReplica(c, h, listed) == listed => pvc[c][h] = "none"

\* dropReplicas, after the minute: the hosts this very command removes, on the
\* first host that stays.
DropReplicas(q) == \E listed \in {TRUE, ~MayFail("list")} :
    LET c == Chi(q)
        away == {h \in RemovedHosts(q) : CanDropReplica(c, h, listed)}
    IN  /\ At(q, "drop")
        /\ MayFail("slow") \/ \A h \in Hosts \ New(q).spec :
                                  sts[c][h] # "leaving" /\ pvc[c][h] # "leaving"
        /\ \/ /\ New(q).spec # {}
              /\ paths' = [paths EXCEPT ![c] = @ \ away]
           \/ /\ New(q).spec = {} \/ MayFail("sql")
              /\ UNCHANGED paths
        /\ Finish(q)
        /\ UNCHANGED <<api, created, events, sts, pvc, pending, spent>>

\* Mutant: it deletes the hosts of the spec instead of what it discovers.
DiscoveryAndDeleteBySpec(q) ==
    /\ At(q, "discover")
    /\ IF CleanupSpecified THEN PurgeObjects(Chi(q), Old(q).spec) ELSE UNCHANGED <<sts, pvc>>
    /\ Finish(q)
    /\ UNCHANGED <<api, created, events, paths, pending, spent>>

\* discoveryAndDeleteCHI, for a CHI that is gone. The policies are read from
\* the CHI as the user wrote it; one that was not spelled out is no "Delete".
DiscoveryAndDelete(q) ==
    /\ At(q, "discover")
    /\ IF CleanupSpecified THEN PurgeObjects(Chi(q), Hosts) ELSE UNCHANGED <<sts, pvc>>
    /\ Finish(q)
    /\ UNCHANGED <<api, created, events, paths, pending, spent>>

-----------------------------------------------------------------------------
(* Kubernetes and the process.                                             *)

StatefulSetGone(c, h) ==
    /\ sts[c][h] = "leaving"
    /\ sts' = [sts EXCEPT ![c][h] = "none"]
    /\ UNCHANGED <<api, created, events, pvc, paths, pending, job, spent>>

\* A claim goes when no Pod uses it.
PvcGone(c, h) ==
    /\ pvc[c][h] = "leaving"
    /\ sts[c][h] # "up"
    /\ pvc' = [pvc EXCEPT ![c][h] = "none"]
    /\ UNCHANGED <<api, created, events, sts, paths, pending, job, spent>>

\* A StatefulSet is owned by its CHI and goes with it; a claim made from a
\* template is not.
Collect(c, h) ==
    /\ c \in born /\ ~Exists(c)
    /\ sts[c][h] \in {"up", "down"}
    /\ sts' = [sts EXCEPT ![c][h] = "leaving"]
    /\ UNCHANGED <<api, created, events, pvc, paths, pending, job, spent>>

\* After a restart the informer lists each CHI as added; of those that went
\* meanwhile nobody hears.
Crash ==
    /\ spent["crashes"] < MaxCrashes
    /\ spent' = [spent EXCEPT !["crashes"] = @ + 1]
    /\ events' = [c \in Chis |-> IF Exists(c) THEN <<Command("add", None, api[c])>> ELSE <<>>]
    /\ pending' = [q \in Queues |-> [c \in Chis |-> None]]
    /\ job' = [q \in Queues |-> None]
    /\ UNCHANGED <<api, created, objects>>

-----------------------------------------------------------------------------
User(c) == Create(c) \/ Edit(c) \/ Annotate(c) \/ Delete(c)

Work(q) ==
    \/ Cancelled(q) \/ Dispatch(q) \/ InstallFinalizer(q) \/ InstallFinalizerPut(q)
    \/ DeleteChi(q) \/ DeleteStart(q) \/ DeleteStartPut(q) \/ DeleteHost(q)
    \/ DeleteStatefulSet(q) \/ WaitHostDeleted(q) \/ DeletePVC(q) \/ HostsDeleted(q)
    \/ UninstallFinalizer(q) \/ UninstallFinalizerPut(q) \/ Begin(q) \/ ReconcileHost(q)
    \/ Clear(q) \/ DropReplicas(q) \/ DiscoveryAndDelete(q)

Kubernetes(c) ==
    ForeignGone(c) \/ \E h \in Hosts : StatefulSetGone(c, h) \/ PvcGone(c, h) \/ Collect(c, h)

Next ==
    \/ Crash
    \/ \E c \in Chis : User(c) \/ Deliver(c) \/ Kubernetes(c)
    \/ \E q \in Queues : Cancel(q) \/ Take(q) \/ Work(q)

Spec == Init /\ [][Next]_vars

\* Events arrive, workers work, Kubernetes deletes what it was told to. Nothing
\* is assumed of users, cancellations and restarts.
Fairness ==
    /\ \A c \in Chis : WF_vars(Deliver(c)) /\ WF_vars(ForeignGone(c))
    /\ \A c \in Chis, h \in Hosts :
          WF_vars(StatefulSetGone(c, h)) /\ WF_vars(PvcGone(c, h)) /\ WF_vars(Collect(c, h))
    /\ \A q \in Queues : WF_vars(Take(q)) /\ WF_vars(Work(q))
FairSpec == Spec /\ Fairness

-----------------------------------------------------------------------------
(* Properties.                                                             *)

Box == INSTANCE Mailbox WITH
    waiting <- [c \in Chis |-> {pending[q][c] : q \in Queues} \ {None}],
    serving <- [c \in Chis |-> {j.item : j \in {job[q] : q \in {p \in Queues :
                                    job[p] # None /\ job[p].chi = c}}}]

\* Queues, hashing and workers together are one mailbox per CHI: the newest
\* command alone waits, and no two workers serve the same CHI
\* (enqueueObject, Handle).
OneMailbox == Box!FairSpec

\* The finalizer is taken off only when the StatefulSets of the CHI are gone:
\* their graceful deletion is what it is there for (deleteCHI).
ReleasedWhenGone == [][\A q \in Queues :
    At(q, "releasePut") /\ Exists(Chi(q)) /\ (api'[Chi(q)] = None \/ ~api'[Chi(q)].fin)
      => \A h \in New(q).spec : sts[Chi(q)][h] = "none"]_vars

\* No pass builds hosts for a CHI that its own command says is being deleted.
DeletedNotRebuilt == [][\A q \in Queues :
    At(q, "build") /\ New(q).ts => sts' = sts]_vars

\* A CHI that is being deleted is let go: no lost event, refused update,
\* cancellation or restart leaves the finalizer on it for good.
DeletedIsLetGo == \A c \in Chis : (Exists(c) /\ api[c].ts) ~> ~Exists(c)

\* A CHI left alone ends with the hosts it asks for and no others, whatever
\* commands were dropped, replaced or cancelled on the way.
Settles == \A c \in Chis : <>[](Exists(c) /\ ~api[c].ts =>
    \A h \in Hosts : sts[c][h] = IF h \in api[c].spec THEN "up" ELSE "none")

\* A deleted CHI leaves no StatefulSet behind, and no volume it did not retain.
NothingLeft == \A c \in Chis : <>[](c \in born /\ ~Exists(c) =>
    \A h \in Hosts : sts[c][h] = "none" /\ (c \notin retained => pvc[c][h] = "none"))

\* While the CHI lives, the replica paths of a host are dropped only when its
\* data goes too: a replica that comes back to a retained volume finds its
\* place (canDropReplica, dropReplicas).
DropSparesData == [][\A c \in Chis : \A h \in paths[c] \ paths'[c] :
    pvc[c][h] = "bound" => ~Exists(c) \/ api[c].ts]_vars

\* In the end ZooKeeper knows the replicas of the CHI and no others.
\* The code breaks it: README.md, Disagreements.
LeaversForgotten == \A c \in Chis : <>[](Exists(c) /\ ~api[c].ts => paths[c] \subseteq api[c].spec)
=============================================================================
