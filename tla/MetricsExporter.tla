-------------------------- MODULE MetricsExporter --------------------------
(***************************************************************************)
(* The metrics exporter and what the operator tells it: the list of watched *)
(* CHIs, the removals put off to the end of the next scrape, the discovery  *)
(* at start, and the notifications the worker sends from goroutines of     *)
(* their own (pkg/apis/metrics, worker.go, controller.go).                 *)
(*                                                                         *)
(* Both run in one Pod and talk over HTTP. Notifications are delivered in   *)
(* any order, and lost while the exporter does not listen. The exporter may *)
(* die at any point; one reason is its own: GET /chi reads the map of       *)
(* watched CHIs without the mutex, and the Go runtime ends a process that  *)
(* it catches reading a map while it is written. A pass of the worker is    *)
(* two steps here: what it does first and last about the monitoring.       *)
(***************************************************************************)
EXTENDS Integers, FiniteSets

CONSTANTS
    Chis,        \* names of CHIs
    HostLists,   \* host lists a CHI may have
    NoHosts,     \* the empty host list, of a CHI without a status
    NotWatched,  \* for a CHI that has no entry in the list
    Scrapers,    \* requests for /metrics that may run side by side
    Faults,      \* what may fail, a subset of FaultNames
    MaxEdits,    \* bound: how many times users create, change or delete a CHI
    MaxStarts,   \* bound: how many times the exporter starts
    MaxRestarts  \* bound: how many times the operator restarts

\* The walk over the hosts, a write of the status, the exporter's list of CHIs fail;
\* the goroutine of the exporter's server starts later than the discovery.
FaultNames == {"walk", "status", "list", "serve"}

ASSUME ExporterAssumption ==
    /\ NoHosts \notin HostLists
    /\ NotWatched \notin HostLists \cup {NoHosts}
    /\ "none" \notin Scrapers
    /\ Faults \subseteq FaultNames
    /\ MaxEdits \in Nat /\ MaxStarts \in Nat /\ MaxRestarts \in Nat

VARIABLES
    \* the CHIs in the API
    there,     \* those that exist
    stop,      \* those with .spec.stop
    finalizer, \* those with the operator's finalizer
    leaving,   \* those with a deletion timestamp
    hosts,     \* the hosts that .spec asks for
    fqdns,     \* .status.fqdns
    \* the operator
    todo,      \* CHIs with a command in the queue
    job,       \* what the worker does with a CHI: NoJob, or the CHI it works on
    net,       \* notifications on their way
    sent,      \* number of notifications sent, the name of the next
    \* the exporter
    phase,     \* "down", "started" (before the discovery) or "up"
    serves,    \* it answers requests
    found,     \* discovered CHIs that are still to be added
    watched,   \* chInstallations: the host list of each watched CHI
    doomed,    \* toRemoveFromWatched: one key per DELETE request
    holder,    \* the scrape that holds the mutex, or "none"
    scrape,    \* "idle", "collect" or "clean"
    left,      \* keys the Range of a cleaning scrape has still to load
    key,       \* the key it is at, as a set of at most one
    \* a history for properties: CHIs of which a removal was sent
    excluded,
    \* bounds
    edits, starts, restarts

apiVars     == <<there, stop, finalizer, leaving, hosts, fqdns>>
workVars    == <<todo, job>>
netVars     == <<net, sent, excluded>>
scrapeVars  == <<holder, scrape, left, key>>
memVars     == <<phase, serves, found, watched, doomed>>
bounds      == <<edits, starts, restarts>>
exporterVars == <<memVars, scrapeVars>>
vars == <<apiVars, workVars, netVars, exporterVars, bounds>>

Lists == HostLists \cup {NoHosts}
NoJob == [what |-> "none", stop |-> FALSE, hosts |-> NoHosts]
Jobs == [what : {"none", "reconcile", "delete"}, stop : BOOLEAN, hosts : Lists]
Keys == Chis \X Nat
Notifications == [op : {"POST", "DELETE"}, chi : Chis, hosts : Lists, id : Nat]

\* The worker starts a goroutine that makes one HTTP request and only logs
\* its failure (updateWatch, deleteWatch).
Send(op, k, list) ==
    /\ net' = net \cup {[op |-> op, chi |-> k, hosts |-> list, id |-> sent]}
    /\ sent' = sent + 1
    /\ excluded' = IF op = "DELETE" THEN excluded \cup {k} ELSE excluded

Init ==
    /\ there = {} /\ stop = {} /\ finalizer = {} /\ leaving = {} /\ todo = {}
    /\ hosts = [k \in Chis |-> NoHosts] /\ fqdns = [k \in Chis |-> NoHosts]
    /\ job = [k \in Chis |-> NoJob]
    /\ net = {} /\ sent = 0 /\ excluded = {}
    /\ phase = "down" /\ serves = FALSE /\ found = {} /\ doomed = {}
    /\ watched = [k \in Chis |-> NotWatched]
    /\ holder = "none"
    /\ scrape = [s \in Scrapers |-> "idle"]
    /\ left = [s \in Scrapers |-> {}] /\ key = [s \in Scrapers |-> {}]
    /\ edits = 0 /\ starts = 0 /\ restarts = 0

-----------------------------------------------------------------------------
(* Users and the operator.                                                 *)

\* A CHI is created or changed; the informer queues a command, which cancels
\* what the worker does with the CHI.
Edit(k, list, stopped) ==
    /\ edits < MaxEdits /\ edits' = edits + 1
    /\ there' = there \cup {k}
    /\ hosts' = [hosts EXCEPT ![k] = list]
    /\ stop' = IF stopped THEN stop \cup {k} ELSE stop \ {k}
    /\ todo' = todo \cup {k}
    /\ UNCHANGED <<finalizer, leaving, fqdns, job, netVars, exporterVars, starts,
                   restarts>>

\* The CHI goes; the delete event finds nothing to tell the exporter.
Vanish(k) ==
    /\ there' = there \ {k} /\ stop' = stop \ {k}
    /\ finalizer' = finalizer \ {k} /\ leaving' = leaving \ {k}
    /\ hosts' = [hosts EXCEPT ![k] = NoHosts]
    /\ fqdns' = [fqdns EXCEPT ![k] = NoHosts]

\* A CHI is deleted: its finalizer keeps it, with a deletion timestamp.
Leave(k) ==
    /\ edits < MaxEdits /\ edits' = edits + 1
    /\ k \in there \ leaving
    /\ IF k \in finalizer
         THEN /\ leaving' = leaving \cup {k} /\ todo' = todo \cup {k}
              /\ UNCHANGED <<there, stop, finalizer, hosts, fqdns>>
         ELSE Vanish(k) /\ todo' = todo \ {k}
    /\ UNCHANGED <<job, netVars, exporterVars, starts, restarts>>

\* The worker takes the command of a CHI.
Take(k) == k \in todo /\ job[k] = NoJob

\* The first pass of a CHI ends with its finalizer, whose update queues the next.
InstallFinalizer(k) ==
    /\ Take(k) /\ k \notin finalizer
    /\ finalizer' = finalizer \cup {k}
    /\ UNCHANGED <<there, stop, leaving, hosts, fqdns, workVars, netVars,
                   exporterVars, bounds>>

\* The status lists the hosts of the normalized CHI; errors are dropped.
WriteStatus(k, list) ==
    \/ fqdns' = [fqdns EXCEPT ![k] = list]
    \/ "status" \in Faults /\ UNCHANGED fqdns

\* updateCHI writes the status (markReconcileStart) and takes a stopped CHI out
\* of the monitoring (excludeStopped).
BeginReconcile(k) ==
    /\ Take(k) /\ k \in finalizer \ leaving
    /\ todo' = todo \ {k}
    /\ job' = [job EXCEPT ![k] = [what |-> "reconcile", stop |-> k \in stop,
                                  hosts |-> hosts[k]]]
    /\ WriteStatus(k, hosts[k])
    /\ IF k \in stop THEN Send("DELETE", k, NoHosts) ELSE UNCHANGED netVars
    /\ UNCHANGED <<there, stop, finalizer, leaving, hosts, exporterVars, bounds>>

\* The end of the pass adds a CHI that is not stopped to the monitoring
\* (includeStopped), also when the pass was cancelled, unless the walk failed.
EndReconcile(k) ==
    /\ job[k].what = "reconcile"
    /\ job' = [job EXCEPT ![k] = NoJob]
    /\ IF k \in todo THEN UNCHANGED fqdns ELSE WriteStatus(k, job[k].hosts)
    /\ IF job[k].stop THEN UNCHANGED netVars
         ELSE \/ Send("POST", k, job[k].hosts)
              \/ "walk" \in Faults /\ UNCHANGED netVars
    /\ UNCHANGED <<there, stop, finalizer, leaving, hosts, todo, exporterVars, bounds>>

\* deleteCHIProtocol takes the CHI out of the monitoring before its objects,
\* unless the status cannot be written ...
BeginDelete(k) ==
    /\ Take(k) /\ k \in leaving
    /\ todo' = todo \ {k}
    /\ job' = [job EXCEPT ![k] = [what |-> "delete", stop |-> FALSE, hosts |-> NoHosts]]
    /\ \/ Send("DELETE", k, NoHosts)
       \/ "status" \in Faults /\ UNCHANGED netVars
    /\ UNCHANGED <<apiVars, exporterVars, bounds>>

\* ... and in the end deleteCHI removes the finalizer, and the CHI goes; not if
\* a newer command cancelled it.
EndDelete(k) ==
    /\ job[k].what = "delete"
    /\ job' = [job EXCEPT ![k] = NoJob]
    /\ \/ Vanish(k) /\ todo' = todo \ {k}
       \/ k \in todo /\ UNCHANGED <<apiVars, todo>>
    /\ UNCHANGED <<netVars, exporterVars, bounds>>

\* The operator ends, with some of its requests, and finds all CHIs as added.
Restart ==
    /\ restarts < MaxRestarts /\ restarts' = restarts + 1
    /\ job' = [k \in Chis |-> NoJob] /\ todo' = there
    /\ \E kept \in SUBSET net : net' = kept
    /\ UNCHANGED <<apiVars, sent, excluded, exporterVars, edits, starts>>

-----------------------------------------------------------------------------
(* The exporter.                                                           *)

\* The mutex of the list is free.
Free == holder = "none"

\* Mutant: the discovery comes before the exporter listens.
ListeningLast == serves /\ phase = "up" /\ found = {}

\* The exporter answers requests.
Listening == serves

\* Mutant: the update does not take the mutex.
UpdateWatchedUnlocked(k, list) == watched' = [watched EXCEPT ![k] = list]

\* updateWatched: one critical section.
UpdateWatched(k, list) ==
    /\ Free
    /\ watched' = [watched EXCEPT ![k] = list]

\* POST /chi: updateWatchedCHI.
Post(m) ==
    /\ Listening /\ m.op = "POST"
    /\ UpdateWatched(m.chi, m.hosts)
    /\ net' = net \ {m}
    /\ UNCHANGED <<apiVars, workVars, sent, excluded, phase, serves, found, doomed,
                   scrapeVars, bounds>>

\* DELETE /chi: deleteWatchedCHI notes the removal under a key of its own.
Delete(m) ==
    /\ Listening /\ m.op = "DELETE"
    /\ doomed' = doomed \cup {<<m.chi, m.id>>}
    /\ net' = net \ {m}
    /\ UNCHANGED <<apiVars, workVars, sent, excluded, phase, serves, found, watched,
                   scrapeVars, bounds>>

\* A request that nobody answers.
Lose(m) ==
    /\ ~Listening
    /\ net' = net \ {m}
    /\ UNCHANGED <<apiVars, workVars, sent, excluded, exporterVars, bounds>>

\* StartMetricsREST leaves the server to a goroutine ...
Launch ==
    /\ phase = "down" /\ starts < MaxStarts
    /\ phase' = "started" /\ starts' = starts + 1
    /\ UNCHANGED <<apiVars, workVars, netVars, serves, found, watched, doomed,
                   scrapeVars, edits, restarts>>

\* ... which starts to listen, as a rule before any CHI is known.
Listen ==
    /\ phase # "down" /\ ~serves
    /\ serves' = TRUE
    /\ UNCHANGED <<apiVars, workVars, netVars, phase, found, watched, doomed,
                   scrapeVars, bounds>>

\* DiscoveryWatchedCHIs reads the CHIs that are not stopped, those being deleted
\* included, with the hosts of their status; an error leaves it with none ...
Discover ==
    /\ phase = "started" /\ (serves \/ "serve" \in Faults)
    /\ phase' = "up"
    /\ \/ found' = {<<k, fqdns[k]>> : k \in there \ stop}
       \/ "list" \in Faults /\ found' = {}
    /\ UNCHANGED <<apiVars, workVars, netVars, serves, watched, doomed, scrapeVars,
                   bounds>>

\* ... and adds one after the other.
Adopt(f) ==
    /\ f \in found
    /\ UpdateWatched(f[1], f[2])
    /\ found' = found \ {f}
    /\ UNCHANGED <<apiVars, workVars, netVars, phase, serves, doomed, scrapeVars, bounds>>

\* The process ends; all it knew was in memory.
Die ==
    /\ phase # "down"
    /\ phase' = "down" /\ serves' = FALSE /\ found' = {} /\ doomed' = {}
    /\ watched' = [k \in Chis |-> NotWatched]
    /\ holder' = "none"
    /\ scrape' = [s \in Scrapers |-> "idle"]
    /\ left' = [s \in Scrapers |-> {}] /\ key' = [s \in Scrapers |-> {}]
    /\ UNCHANGED <<apiVars, workVars, netVars, bounds>>

\* Collect holds the mutex while it asks all hosts of the list ...
BeginCollect(s) ==
    /\ Listening /\ scrape[s] = "idle" /\ Free
    /\ holder' = s
    /\ scrape' = [scrape EXCEPT ![s] = "collect"]
    /\ UNCHANGED <<apiVars, workVars, netVars, memVars, left, key, bounds>>

\* Mutant: the mutex is kept until the removals are done.
EndCollectLocked(s) ==
    /\ scrape[s] = "collect"
    /\ scrape' = [scrape EXCEPT ![s] = "clean"]
    /\ left' = [left EXCEPT ![s] = doomed]
    /\ UNCHANGED <<apiVars, workVars, netVars, memVars, holder, key, bounds>>

\* ... lets go of it, and ranges over the removals noted by then.
EndCollect(s) ==
    /\ scrape[s] = "collect"
    /\ holder' = "none"
    /\ scrape' = [scrape EXCEPT ![s] = "clean"]
    /\ left' = [left EXCEPT ![s] = doomed]
    /\ UNCHANGED <<apiVars, workVars, netVars, memVars, key, bounds>>

\* sync.Map.Range loads the next key, unless another scrape deleted it.
Load(s) ==
    /\ scrape[s] = "clean" /\ key[s] = {}
    /\ \E d \in left[s] :
          /\ left' = [left EXCEPT ![s] = @ \ {d}]
          /\ key' = [key EXCEPT ![s] = {d} \cap doomed]
    /\ UNCHANGED <<apiVars, workVars, netVars, memVars, holder, scrape, bounds>>

\* The key is deleted first ...
Forget(s) ==
    /\ scrape[s] = "clean" /\ key[s] # {}
    /\ scrape' = [scrape EXCEPT ![s] = "remove"]
    /\ doomed' = doomed \ key[s]
    /\ UNCHANGED <<apiVars, workVars, netVars, phase, serves, found, watched, holder,
                   left, key, bounds>>

\* Mutant: the list is cleared as a whole.
WithoutAll(k) == [j \in Chis |-> NotWatched]

\* The list without one CHI, whatever hosts it has by now.
Without(k) == [watched EXCEPT ![k] = NotWatched]

\* ... and removeFromWatched waits for the mutex to apply it.
RemoveFromWatched(s) ==
    /\ Free /\ scrape[s] = "remove"
    /\ \E d \in key[s] : watched' = Without(d[1])
    /\ scrape' = [scrape EXCEPT ![s] = "clean"]
    /\ key' = [key EXCEPT ![s] = {}]
    /\ UNCHANGED <<apiVars, workVars, netVars, phase, serves, found, doomed, holder, left,
                   bounds>>

EndScrape(s) ==
    /\ scrape[s] = "clean" /\ left[s] = {} /\ key[s] = {}
    /\ scrape' = [scrape EXCEPT ![s] = "idle"]
    /\ UNCHANGED <<apiVars, workVars, netVars, memVars, holder, left, key, bounds>>

\* The worker, a CHI at a time.
Work(k) ==
    InstallFinalizer(k) \/ BeginReconcile(k) \/ EndReconcile(k) \/ BeginDelete(k)
        \/ EndDelete(k)

User(k) ==
    \/ \E list \in HostLists, stopped \in BOOLEAN : Edit(k, list, stopped)
    \/ Leave(k)

Handler == \E m \in net : Post(m) \/ Delete(m) \/ Lose(m)

Startup == Launch \/ Listen \/ Discover \/ \E f \in found : Adopt(f)

Scrape(s) ==
    BeginCollect(s) \/ EndCollect(s) \/ Load(s) \/ Forget(s) \/ RemoveFromWatched(s)
        \/ EndScrape(s)

Next ==
    \/ \E k \in Chis : User(k) \/ Work(k)
    \/ Restart \/ Handler \/ Startup \/ Die
    \/ \E s \in Scrapers : Scrape(s)

Spec == Init /\ [][Next]_vars

\* Prometheus keeps scraping, and the mutex of Go is handed on to a goroutine
\* that has waited long enough, whatever the others do.
FairSpec == Spec /\ \A s \in Scrapers : SF_vars(Scrape(s))

-----------------------------------------------------------------------------
(* Properties.                                                             *)

\* The type invariant in parts: the API, the worker, the notifications, the memory
\* of the exporter, its scrapes.
ApiTypeOK ==
    /\ there \subseteq Chis /\ stop \subseteq Chis /\ finalizer \subseteq Chis
    /\ leaving \subseteq Chis
    /\ hosts \in [Chis -> Lists] /\ fqdns \in [Chis -> Lists]

WorkTypeOK == todo \subseteq Chis /\ job \in [Chis -> Jobs]

NetTypeOK ==
    net \subseteq Notifications /\ sent \in Nat /\ excluded \subseteq Chis

MemTypeOK ==
    /\ phase \in {"down", "started", "up"} /\ serves \in BOOLEAN /\ found \subseteq Chis \X Lists
    /\ watched \in [Chis -> Lists \cup {NotWatched}]
    /\ doomed \subseteq Keys

\* The mutex is held by a scrape that collects: Collect lets go of it before it
\* applies removals, which take it again.
ScrapeTypeOK ==
    /\ scrape \in [Scrapers -> {"idle", "collect", "clean", "remove"}]
    /\ holder \in {"none"} \cup {s \in Scrapers : scrape[s] = "collect"}
    /\ left \in [Scrapers -> SUBSET Keys] /\ key \in [Scrapers -> SUBSET Keys]

BoundTypeOK ==
    /\ edits \in 0 .. MaxEdits /\ starts \in 0 .. MaxStarts
    /\ restarts \in 0 .. MaxRestarts

\* The type invariant.
TypeOK ==
    ApiTypeOK /\ WorkTypeOK /\ NetTypeOK /\ MemTypeOK /\ ScrapeTypeOK /\ BoundTypeOK

\* The list that a scrape walks does not change under it, whatever requests
\* arrive and whatever other scrapes remove (the mutex of Collect).
ScrapeSeesOneList ==
    [][\A s \in Scrapers : scrape[s] = "collect" /\ scrape'[s] = "collect"
         => watched' = watched]_vars

\* Some removal of k is noted or under way.
IsDoomed(k) ==
    \/ \E d \in doomed : d[1] = k
    \/ \E s \in Scrapers : \E d \in key[s] : d[1] = k

\* While the exporter lives a CHI drops out of its list only if the operator
\* excluded it: a removal of that CHI is under way, and one was sent for it
\* (removeFromWatched and the two callers of deleteWatch).
DroppedOnRequest ==
    [][\A k \in Chis : watched[k] # NotWatched /\ watched'[k] = NotWatched
         => (IsDoomed(k) /\ k \in excluded) \/ phase' = "down"]_vars

\* A noted removal is applied by a later scrape: the cleanup of Collect does not
\* wait for a mutex its own scrape holds, and no two scrapes block each other.
RemovalsApplied == \A k \in Chis : IsDoomed(k) ~> ~IsDoomed(k)

\* Nothing is on its way any more.
Quiet ==
    /\ todo = {} /\ net = {} /\ found = {} /\ doomed = {} /\ phase = "up" /\ serves
    /\ \A k \in Chis : job[k] = NoJob
    /\ \A s \in Scrapers : scrape[s] = "idle"

\* Between the discovery and the notifications no CHI is overlooked, whenever
\* exporter and operator start, end and start again: a CHI that was never stopped
\* or deleted is in the list when all is quiet (StartMetricsREST before
\* DiscoveryWatchedCHIs, includeStopped).
NoneOverlooked == Quiet => \A k \in there \ excluded : watched[k] # NotWatched

\* A CHI that was deleted, and that the operator excluded before it went, is not
\* in the list when all is quiet: deleteCHIProtocol is to "exclude this CHI from
\* monitoring".
GoneIsForgotten == Quiet => \A k \in excluded \ there : watched[k] = NotWatched

\* A CHI that exists and is not stopped is in the list when all is quiet:
\* includeStopped is to "add CHI to monitoring".
RunningIsWatched == Quiet => \A k \in there \ stop : watched[k] # NotWatched
=============================================================================
