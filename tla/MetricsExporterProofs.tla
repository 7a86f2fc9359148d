----------------------- MODULE MetricsExporterProofs -----------------------
(***************************************************************************)
(* Theorems about MetricsExporter: its type invariant, the mutex of the     *)
(* scrape, who may drop a CHI from the list, and that none is overlooked.   *)
(***************************************************************************)
EXTENDS MetricsExporter, TLAPS

\* A part of the type invariant holds on as long as its variables do.
LEMMA Kept ==
    /\ ApiTypeOK /\ UNCHANGED apiVars => ApiTypeOK'
    /\ WorkTypeOK /\ UNCHANGED workVars => WorkTypeOK'
    /\ NetTypeOK /\ UNCHANGED netVars => NetTypeOK'
    /\ MemTypeOK /\ UNCHANGED memVars => MemTypeOK'
    /\ ScrapeTypeOK /\ UNCHANGED scrapeVars => ScrapeTypeOK'
    /\ BoundTypeOK /\ UNCHANGED bounds => BoundTypeOK'
  BY DEF ApiTypeOK, WorkTypeOK, NetTypeOK, MemTypeOK, ScrapeTypeOK, BoundTypeOK,
         apiVars, workVars, netVars, memVars, scrapeVars, bounds

\* A notification sent is one of the two that the exporter serves.
LEMMA SendType ==
    ASSUME NetTypeOK, NEW op \in {"POST", "DELETE"}, NEW k \in Chis,
           NEW list \in Lists, Send(op, k, list)
    PROVE  NetTypeOK'
  <1>1. [op |-> op, chi |-> k, hosts |-> list, id |-> sent] \in Notifications
    BY DEF NetTypeOK, Notifications
  <1> QED
    BY <1>1 DEF NetTypeOK, Send

\* When a CHI goes the API keeps its type.
LEMMA VanishType ==
    ASSUME ApiTypeOK, NEW k \in Chis, Vanish(k)
    PROVE  ApiTypeOK'
  BY DEF ApiTypeOK, Vanish, Lists

\* The exporter and the operator start without lists and jobs.
LEMMA TypeInit == Init => TypeOK
  <1> SUFFICES ASSUME Init PROVE TypeOK
    OBVIOUS
  <1>1. NoHosts \in Lists /\ NoJob \in Jobs
    BY DEF Lists, NoJob, Jobs
  <1>2. ApiTypeOK /\ WorkTypeOK
    BY <1>1 DEF Init, ApiTypeOK, WorkTypeOK
  <1>3. NetTypeOK /\ ScrapeTypeOK
    BY DEF Init, NetTypeOK, ScrapeTypeOK
  <1>4. MemTypeOK
    BY DEF Init, MemTypeOK
  <1>5. BoundTypeOK
    BY ExporterAssumption DEF Init, BoundTypeOK
  <1> QED
    BY <1>2, <1>3, <1>4, <1>5 DEF TypeOK

\* Users and the worker keep the types.
LEMMA UserTypeStep ==
    ASSUME TypeOK, NEW k \in Chis, User(k)
    PROVE  TypeOK'
  <1>1. /\ ApiTypeOK /\ WorkTypeOK /\ NetTypeOK /\ MemTypeOK
        /\ ScrapeTypeOK /\ BoundTypeOK
    BY DEF TypeOK
  <1>2. CASE \E list \in HostLists, stopped \in BOOLEAN : Edit(k, list, stopped)
    <2>1. ApiTypeOK'
      BY <1>1, <1>2 DEF Edit, ApiTypeOK, Lists
    <2>2. WorkTypeOK'
      BY <1>1, <1>2 DEF Edit, WorkTypeOK
    <2>3. BoundTypeOK'
      BY <1>1, <1>2, ExporterAssumption DEF Edit, BoundTypeOK
    <2>4. UNCHANGED <<netVars, memVars, scrapeVars>>
      BY <1>2 DEF Edit, exporterVars
    <2> QED
      BY <1>1, <2>1, <2>2, <2>3, <2>4, Kept DEF TypeOK
  <1>3. CASE Leave(k)
    <2>1. ApiTypeOK'
      <3>1. CASE k \in finalizer
        BY <1>1, <1>3, <3>1 DEF Leave, ApiTypeOK
      <3>2. CASE k \notin finalizer
        BY <1>1, <1>3, <3>2, VanishType DEF Leave
      <3> QED
        BY <3>1, <3>2
    <2>2. WorkTypeOK'
      BY <1>1, <1>3 DEF Leave, WorkTypeOK
    <2>3. BoundTypeOK'
      BY <1>1, <1>3, ExporterAssumption DEF Leave, BoundTypeOK
    <2>4. UNCHANGED <<netVars, memVars, scrapeVars>>
      BY <1>3 DEF Leave, exporterVars
    <2> QED
      BY <1>1, <2>1, <2>2, <2>3, <2>4, Kept DEF TypeOK
  <1> QED
    BY <1>2, <1>3 DEF User

\* The status keeps its type.
LEMMA StatusType ==
    ASSUME NEW k \in Chis, NEW list \in Lists, fqdns \in [Chis -> Lists],
           WriteStatus(k, list)
    PROVE  fqdns' \in [Chis -> Lists]
  BY DEF WriteStatus

\* A step of the worker of a CHI.
LEMMA WorkTypeStep ==
    ASSUME TypeOK, NEW k \in Chis, Work(k)
    PROVE  TypeOK'
  <1>1. /\ ApiTypeOK /\ WorkTypeOK /\ NetTypeOK /\ MemTypeOK
        /\ ScrapeTypeOK /\ BoundTypeOK
    BY DEF TypeOK
  <1>2. /\ hosts[k] \in Lists /\ job[k] \in Jobs /\ job[k].hosts \in Lists
        /\ NoHosts \in Lists /\ NoJob \in Jobs
    BY <1>1 DEF ApiTypeOK, WorkTypeOK, Jobs, NoJob, Lists
  <1>3. CASE InstallFinalizer(k)
    <2>1. ApiTypeOK'
      BY <1>1, <1>3 DEF InstallFinalizer, ApiTypeOK
    <2>2. UNCHANGED <<workVars, netVars, memVars, scrapeVars, bounds>>
      BY <1>3 DEF InstallFinalizer, exporterVars
    <2> QED
      BY <1>1, <2>1, <2>2, Kept DEF TypeOK
  <1>4. CASE BeginReconcile(k)
    <2>1. ApiTypeOK'
      BY <1>1, <1>2, <1>4, StatusType DEF BeginReconcile, ApiTypeOK
    <2>2. WorkTypeOK'
      <3>1. [what |-> "reconcile", stop |-> k \in stop, hosts |-> hosts[k]] \in Jobs
        BY <1>2 DEF Jobs
      <3> QED
        BY <1>1, <1>4, <3>1 DEF BeginReconcile, WorkTypeOK
    <2>3. NetTypeOK'
      BY <1>1, <1>2, <1>4, SendType, Kept DEF BeginReconcile
    <2>4. UNCHANGED <<memVars, scrapeVars, bounds>>
      BY <1>4 DEF BeginReconcile, exporterVars
    <2> QED
      BY <1>1, <2>1, <2>2, <2>3, <2>4, Kept DEF TypeOK
  <1>5. CASE EndReconcile(k)
    <2>1. ApiTypeOK'
      BY <1>1, <1>2, <1>5, StatusType DEF EndReconcile, ApiTypeOK
    <2>2. WorkTypeOK'
      BY <1>1, <1>2, <1>5 DEF EndReconcile, WorkTypeOK
    <2>3. NetTypeOK'
      BY <1>1, <1>2, <1>5, SendType, Kept DEF EndReconcile
    <2>4. UNCHANGED <<memVars, scrapeVars, bounds>>
      BY <1>5 DEF EndReconcile, exporterVars
    <2> QED
      BY <1>1, <2>1, <2>2, <2>3, <2>4, Kept DEF TypeOK
  <1>6. CASE BeginDelete(k)
    <2>1. WorkTypeOK'
      <3>1. [what |-> "delete", stop |-> FALSE, hosts |-> NoHosts] \in Jobs
        BY <1>2 DEF Jobs
      <3> QED
        BY <1>1, <1>6, <3>1 DEF BeginDelete, WorkTypeOK
    <2>2. NetTypeOK'
      BY <1>1, <1>2, <1>6, SendType, Kept DEF BeginDelete
    <2>3. UNCHANGED <<apiVars, memVars, scrapeVars, bounds>>
      BY <1>6 DEF BeginDelete, exporterVars
    <2> QED
      BY <1>1, <2>1, <2>2, <2>3, Kept DEF TypeOK
  <1>7. CASE EndDelete(k)
    <2>1. ApiTypeOK'
      BY <1>1, <1>7, VanishType, Kept DEF EndDelete
    <2>2. WorkTypeOK'
      BY <1>1, <1>2, <1>7 DEF EndDelete, WorkTypeOK
    <2>3. UNCHANGED <<netVars, memVars, scrapeVars, bounds>>
      BY <1>7 DEF EndDelete, exporterVars
    <2> QED
      BY <1>1, <2>1, <2>2, <2>3, Kept DEF TypeOK
  <1> QED
    BY <1>3, <1>4, <1>5, <1>6, <1>7 DEF Work

\* A restart of the operator keeps the types.
LEMMA RestartTypeStep ==
    ASSUME TypeOK, Restart
    PROVE  TypeOK'
  <1>1. /\ ApiTypeOK /\ WorkTypeOK /\ NetTypeOK /\ MemTypeOK
        /\ ScrapeTypeOK /\ BoundTypeOK
    BY DEF TypeOK
  <1>2. WorkTypeOK'
    <2>1. NoJob \in Jobs
      BY DEF NoJob, Jobs, Lists
    <2> QED
      BY <1>1, <2>1 DEF Restart, WorkTypeOK, ApiTypeOK
  <1>3. NetTypeOK'
    BY <1>1 DEF Restart, NetTypeOK
  <1>4. BoundTypeOK'
    BY <1>1, ExporterAssumption DEF Restart, BoundTypeOK
  <1>5. UNCHANGED <<apiVars, memVars, scrapeVars>>
    BY DEF Restart, exporterVars
  <1> QED
    BY <1>1, <1>2, <1>3, <1>4, <1>5, Kept DEF TypeOK

\* Requests keep the types.
LEMMA HandlerTypeStep ==
    ASSUME TypeOK, NEW m \in net, Post(m) \/ Delete(m) \/ Lose(m)
    PROVE  TypeOK'
  <1>1. /\ ApiTypeOK /\ WorkTypeOK /\ NetTypeOK /\ MemTypeOK
        /\ ScrapeTypeOK /\ BoundTypeOK
    BY DEF TypeOK
  <1>2. m.chi \in Chis /\ m.hosts \in Lists /\ m.id \in Nat
    BY <1>1 DEF NetTypeOK, Notifications
  <1>3. NetTypeOK'
    BY <1>1 DEF NetTypeOK, Post, Delete, Lose
  <1>4. CASE Post(m)
    <2>1. MemTypeOK'
      BY <1>1, <1>2, <1>4 DEF Post, UpdateWatched, MemTypeOK
    <2>2. UNCHANGED <<apiVars, workVars, scrapeVars, bounds>>
      BY <1>4 DEF Post
    <2> QED
      BY <1>1, <1>3, <2>1, <2>2, Kept DEF TypeOK
  <1>5. CASE Delete(m)
    <2>1. MemTypeOK'
      BY <1>1, <1>2, <1>5 DEF Delete, MemTypeOK, Keys
    <2>2. UNCHANGED <<apiVars, workVars, scrapeVars, bounds>>
      BY <1>5 DEF Delete
    <2> QED
      BY <1>1, <1>3, <2>1, <2>2, Kept DEF TypeOK
  <1>6. CASE Lose(m)
    <2>1. UNCHANGED <<apiVars, workVars, memVars, scrapeVars, bounds>>
      BY <1>6 DEF Lose, exporterVars
    <2> QED
      BY <1>1, <1>3, <2>1, Kept DEF TypeOK
  <1> QED
    BY <1>4, <1>5, <1>6

\* The start and the end of the exporter keep the types.
LEMMA LifeTypeStep ==
    ASSUME TypeOK, Startup \/ Die
    PROVE  TypeOK'
  <1>1. /\ ApiTypeOK /\ WorkTypeOK /\ NetTypeOK /\ MemTypeOK
        /\ ScrapeTypeOK /\ BoundTypeOK
    BY DEF TypeOK
  <1>2. CASE Launch
    <2>1. MemTypeOK'
      BY <1>1, <1>2 DEF Launch, MemTypeOK
    <2>2. BoundTypeOK'
      BY <1>1, <1>2, ExporterAssumption DEF Launch, BoundTypeOK
    <2>3. UNCHANGED <<apiVars, workVars, netVars, scrapeVars>>
      BY <1>2 DEF Launch
    <2> QED
      BY <1>1, <2>1, <2>2, <2>3, Kept DEF TypeOK
  <1>6. CASE Listen
    <2>1. MemTypeOK'
      BY <1>1, <1>6 DEF Listen, MemTypeOK
    <2>2. UNCHANGED <<apiVars, workVars, netVars, scrapeVars, bounds>>
      BY <1>6 DEF Listen
    <2> QED
      BY <1>1, <2>1, <2>2, Kept DEF TypeOK
  <1>3. CASE Discover
    <2>1. MemTypeOK'
      BY <1>1, <1>3 DEF Discover, MemTypeOK, ApiTypeOK
    <2>2. UNCHANGED <<apiVars, workVars, netVars, scrapeVars, bounds>>
      BY <1>3 DEF Discover
    <2> QED
      BY <1>1, <2>1, <2>2, Kept DEF TypeOK
  <1>4. CASE \E f \in found : Adopt(f)
    <2>1. PICK f \in found : Adopt(f)
      BY <1>4
    <2>2. f[1] \in Chis /\ f[2] \in Lists
      BY <1>1 DEF MemTypeOK
    <2>3. MemTypeOK'
      BY <1>1, <2>1, <2>2 DEF Adopt, UpdateWatched, MemTypeOK
    <2>4. UNCHANGED <<apiVars, workVars, netVars, scrapeVars, bounds>>
      BY <2>1 DEF Adopt
    <2> QED
      BY <1>1, <2>3, <2>4, Kept DEF TypeOK
  <1>5. CASE Die
    <2>1. MemTypeOK' /\ ScrapeTypeOK'
      BY <1>5 DEF Die, MemTypeOK, ScrapeTypeOK
    <2>2. UNCHANGED <<apiVars, workVars, netVars, bounds>>
      BY <1>5 DEF Die
    <2> QED
      BY <1>1, <2>1, <2>2, Kept DEF TypeOK
  <1> QED
    BY <1>2, <1>3, <1>4, <1>5, <1>6 DEF Startup

\* A scrape keeps the types, and hands the mutex back before it removes.
LEMMA ScrapeTypeStep ==
    ASSUME TypeOK, NEW s \in Scrapers, Scrape(s)
    PROVE  TypeOK'
  <1>1. /\ ApiTypeOK /\ WorkTypeOK /\ NetTypeOK /\ MemTypeOK
        /\ ScrapeTypeOK /\ BoundTypeOK
    BY DEF TypeOK
  <1>2. UNCHANGED <<apiVars, workVars, netVars, bounds>>
    BY DEF Scrape, BeginCollect, EndCollect, Load, Forget, RemoveFromWatched, EndScrape
  <1>3. MemTypeOK'
    <2>1. CASE Forget(s)
      BY <1>1, <2>1 DEF Forget, MemTypeOK
    <2>2. CASE RemoveFromWatched(s)
      <3>1. PICK d \in key[s] : watched' = Without(d[1])
        BY <2>2 DEF RemoveFromWatched
      <3>2. d[1] \in Chis
        BY <1>1 DEF ScrapeTypeOK, Keys
      <3> QED
        BY <1>1, <2>2, <3>1, <3>2 DEF RemoveFromWatched, MemTypeOK, Without
    <2>3. CASE BeginCollect(s) \/ EndCollect(s) \/ Load(s) \/ EndScrape(s)
      BY <1>1, <2>3, Kept DEF BeginCollect, EndCollect, Load, EndScrape
    <2> QED
      BY <2>1, <2>2, <2>3 DEF Scrape
  <1>4. ScrapeTypeOK'
    <2>1. CASE BeginCollect(s)
      BY <1>1, <2>1 DEF BeginCollect, ScrapeTypeOK
    <2>2. CASE EndCollect(s)
      BY <1>1, <2>2 DEF EndCollect, ScrapeTypeOK, MemTypeOK
    <2>3. CASE Load(s)
      BY <1>1, <2>3 DEF Load, ScrapeTypeOK, MemTypeOK
    <2>4. CASE Forget(s)
      BY <1>1, <2>4 DEF Forget, ScrapeTypeOK
    <2>5. CASE RemoveFromWatched(s)
      BY <1>1, <2>5 DEF RemoveFromWatched, ScrapeTypeOK
    <2>6. CASE EndScrape(s)
      BY <1>1, <2>6 DEF EndScrape, ScrapeTypeOK
    <2> QED
      BY <2>1, <2>2, <2>3, <2>4, <2>5, <2>6 DEF Scrape
  <1> QED
    BY <1>1, <1>2, <1>3, <1>4, Kept DEF TypeOK

\* Every step keeps the types.
LEMMA TypeStep == TypeOK /\ [Next]_vars => TypeOK'
  <1> SUFFICES ASSUME TypeOK, [Next]_vars PROVE TypeOK'
    OBVIOUS
  <1>1. CASE UNCHANGED vars
    BY <1>1, Kept DEF TypeOK, vars, exporterVars
  <1>2. CASE Next
    BY <1>2, UserTypeStep, WorkTypeStep, RestartTypeStep, HandlerTypeStep,
       LifeTypeStep, ScrapeTypeStep DEF Next, Handler
  <1> QED
    BY <1>1, <1>2

\* Every variable keeps to its type, and the mutex is with a scrape that collects
\* or free (Collect).
THEOREM ExporterTypeCorrect == Spec => []TypeOK
  BY TypeInit, TypeStep, PTL DEF Spec

-----------------------------------------------------------------------------
(* The mutex of the scrape.                                                *)

\* A scrape that collects holds the mutex.
MutexInv == \A s \in Scrapers : scrape[s] = "collect" => holder = s

\* All that happens outside a scrape, but for the end of the exporter, leaves the
\* scrapes alone, and reaches the list only when the mutex is free.
LEMMA OutsideScrape ==
    ASSUME [Next]_vars, ~Die, ~ \E s \in Scrapers : Scrape(s)
    PROVE  UNCHANGED scrapeVars /\ (Free \/ watched' = watched)
  <1>1. CASE UNCHANGED vars
    BY <1>1 DEF vars, exporterVars, memVars, scrapeVars
  <1>2. ASSUME NEW k \in Chis, User(k) PROVE UNCHANGED exporterVars
    BY <1>2 DEF User, Edit, Leave
  <1>3. ASSUME NEW k \in Chis, Work(k) PROVE UNCHANGED exporterVars
    BY <1>3 DEF Work, InstallFinalizer, BeginReconcile, EndReconcile, BeginDelete,
                EndDelete
  <1>4. CASE Restart
    BY <1>4 DEF Restart, exporterVars, memVars, scrapeVars
  <1>5. CASE Handler
    BY <1>5 DEF Handler, Post, Delete, Lose, UpdateWatched, exporterVars, memVars,
                scrapeVars
  <1>6. CASE Startup
    BY <1>6 DEF Startup, Launch, Listen, Discover, Adopt, UpdateWatched, scrapeVars
  <1> QED
    BY <1>1, <1>2, <1>3, <1>4, <1>5, <1>6 DEF Next, exporterVars, memVars, scrapeVars

\* Every step leaves the mutex with the one who holds it.
LEMMA MutexStep == TypeOK /\ MutexInv /\ [Next]_vars => MutexInv'
  <1> SUFFICES ASSUME TypeOK, MutexInv, [Next]_vars PROVE MutexInv'
    OBVIOUS
  <1>1. CASE Die
    BY <1>1 DEF Die, MutexInv
  <1>2. ASSUME NEW s \in Scrapers, Scrape(s) PROVE MutexInv'
    <2>1. scrape \in [Scrapers -> {"idle", "collect", "clean", "remove"}]
      BY DEF TypeOK, ScrapeTypeOK
    <2>2. CASE BeginCollect(s)
      BY <2>1, <2>2, ExporterAssumption DEF BeginCollect, Free, MutexInv
    <2>3. CASE EndCollect(s)
      BY <2>1, <2>3 DEF EndCollect, MutexInv
    <2>4. CASE Forget(s) \/ RemoveFromWatched(s) \/ EndScrape(s)
      BY <2>1, <2>4 DEF Forget, RemoveFromWatched, EndScrape, MutexInv
    <2>5. CASE Load(s)
      BY <2>5 DEF Load, MutexInv
    <2> QED
      BY <1>2, <2>2, <2>3, <2>4, <2>5 DEF Scrape
  <1>3. CASE ~Die /\ ~ \E s \in Scrapers : Scrape(s)
    BY <1>3, OutsideScrape DEF MutexInv, scrapeVars
  <1> QED
    BY <1>1, <1>2, <1>3

\* The mutex is free at first.
LEMMA MutexInit == Init => MutexInv
  BY DEF Init, MutexInv

\* While a scrape goes on collecting nobody else gets at the list, for any
\* number of CHIs, scrapes and requests (Collect, updateWatched and
\* removeFromWatched take one mutex).
THEOREM OneListPerScrape == Spec => ScrapeSeesOneList
  <1>1. ASSUME MutexInv, [Next]_vars, NEW s \in Scrapers,
               scrape[s] = "collect", scrape'[s] = "collect"
        PROVE  watched' = watched
    <2>1. ~Free
      BY <1>1, ExporterAssumption DEF MutexInv, Free
    <2>2. CASE Die
      BY <1>1, <2>2 DEF Die
    <2>3. ASSUME NEW t \in Scrapers, Scrape(t) PROVE watched' = watched
      BY <2>1, <2>3 DEF Scrape, BeginCollect, EndCollect, Load, Forget,
                        RemoveFromWatched, EndScrape, memVars
    <2> QED
      BY <1>1, <2>1, <2>2, <2>3, OutsideScrape
  <1>2. MutexInv /\ [Next]_vars =>
          [\A s \in Scrapers : scrape[s] = "collect" /\ scrape'[s] = "collect"
             => watched' = watched]_vars
    BY <1>1
  <1> QED
    BY <1>2, TypeInit, TypeStep, MutexInit, MutexStep, PTL DEF Spec, ScrapeSeesOneList

-----------------------------------------------------------------------------
(* Who drops out of the list.                                              *)

\* Every removal on its way, noted or under way is of a CHI the operator excluded.
RemovalInv ==
    /\ \A m \in net : m.op = "DELETE" => m.chi \in excluded
    /\ \A d \in doomed : d[1] \in excluded
    /\ \A s \in Scrapers : \A d \in key[s] : d[1] \in excluded

\* Nothing is excluded and nothing is sent at first.
LEMMA RemovalInit == Init => RemovalInv
  BY DEF Init, RemovalInv

\* Sending a removal excludes its CHI.
LEMMA SendRemoval ==
    ASSUME RemovalInv, NEW op, NEW k, NEW list, Send(op, k, list),
           UNCHANGED <<doomed, key>>
    PROVE  RemovalInv'
  BY DEF RemovalInv, Send

\* Every step keeps removals apart from CHIs that are served.
LEMMA RemovalStep == TypeOK /\ RemovalInv /\ [Next]_vars => RemovalInv'
  <1> SUFFICES ASSUME TypeOK, RemovalInv, [Next]_vars PROVE RemovalInv'
    OBVIOUS
  <1>1. CASE UNCHANGED vars
    BY <1>1 DEF vars, netVars, exporterVars, memVars, scrapeVars, RemovalInv
  <1>2. ASSUME NEW k \in Chis, User(k) PROVE RemovalInv'
    BY <1>2 DEF User, Edit, Leave, netVars, exporterVars, memVars, scrapeVars,
                RemovalInv
  <1>3. ASSUME NEW k \in Chis, Work(k) PROVE RemovalInv'
    <2>1. UNCHANGED <<doomed, key>>
      BY <1>3 DEF Work, InstallFinalizer, BeginReconcile, EndReconcile, BeginDelete,
                  EndDelete, exporterVars, memVars, scrapeVars
    <2>2. \/ UNCHANGED netVars
          \/ Send("DELETE", k, NoHosts) \/ Send("POST", k, job[k].hosts)
      BY <1>3 DEF Work, InstallFinalizer, BeginReconcile, EndReconcile, BeginDelete,
                  EndDelete
    <2>3. CASE UNCHANGED netVars
      BY <2>1, <2>3 DEF netVars, RemovalInv
    <2> QED
      BY <2>1, <2>2, <2>3, SendRemoval
  <1>4. CASE Restart
    BY <1>4 DEF Restart, exporterVars, memVars, scrapeVars, RemovalInv
  <1>5. CASE Handler
    BY <1>5 DEF Handler, Post, Delete, Lose, exporterVars, memVars, scrapeVars,
                RemovalInv
  <1>6. CASE Startup
    BY <1>6 DEF Startup, Launch, Listen, Discover, Adopt, netVars, scrapeVars, RemovalInv
  <1>7. CASE Die
    BY <1>7 DEF Die, netVars, RemovalInv
  <1>8. ASSUME NEW s \in Scrapers, Scrape(s) PROVE RemovalInv'
    <2>1. key \in [Scrapers -> SUBSET Keys] /\ UNCHANGED netVars /\ doomed' \subseteq doomed
      BY <1>8 DEF Scrape, BeginCollect, EndCollect, Load, Forget, RemoveFromWatched,
                  EndScrape, memVars, TypeOK, ScrapeTypeOK
    <2>2. CASE Load(s)
      <3>1. key' = [key EXCEPT ![s] = key'[s]] /\ key'[s] \subseteq doomed
        BY <2>1, <2>2 DEF Load
      <3> QED
        BY <2>1, <3>1 DEF netVars, RemovalInv
    <2>3. CASE RemoveFromWatched(s)
      BY <2>1, <2>3 DEF RemoveFromWatched, netVars, RemovalInv
    <2>4. CASE BeginCollect(s) \/ EndCollect(s) \/ Forget(s) \/ EndScrape(s)
      BY <2>1, <2>4 DEF BeginCollect, EndCollect, Forget, EndScrape, netVars,
                        RemovalInv
    <2> QED
      BY <1>8, <2>2, <2>3, <2>4 DEF Scrape
  <1> QED
    BY <1>1, <1>2, <1>3, <1>4, <1>5, <1>6, <1>7, <1>8 DEF Next

\* While the exporter lives a CHI drops out of its list only by a removal of that
\* very CHI which the operator sent (removeFromWatched, deleteWatch).
THEOREM OnlyExcludedDropped == Spec => DroppedOnRequest
  <1>1. ASSUME TypeOK, RemovalInv, [Next]_vars, NEW k \in Chis,
               watched[k] # NotWatched, watched'[k] = NotWatched
        PROVE  (IsDoomed(k) /\ k \in excluded) \/ phase' = "down"
    <2>1. watched \in [Chis -> Lists \cup {NotWatched}] /\ NotWatched \notin Lists
      BY <1>1, ExporterAssumption DEF TypeOK, MemTypeOK, Lists
    <2>2. watched' # watched
      BY <1>1
    <2>3. ASSUME NEW j \in Chis, NEW list \in Lists, UpdateWatched(j, list)
          PROVE  FALSE
      BY <1>1, <2>1, <2>3 DEF UpdateWatched
    <2>4. CASE Handler
      <3>1. PICK m \in net : Post(m)
        BY <2>2, <2>4 DEF Handler, Delete, Lose, exporterVars, memVars
      <3>2. m.chi \in Chis /\ m.hosts \in Lists
        BY <1>1 DEF TypeOK, NetTypeOK, Notifications
      <3> QED
        BY <2>3, <3>1, <3>2 DEF Post
    <2>5. CASE Startup
      <3>1. PICK f \in found : Adopt(f)
        BY <2>2, <2>5 DEF Startup, Launch, Listen, Discover
      <3>2. f[1] \in Chis /\ f[2] \in Lists
        BY <1>1 DEF TypeOK, MemTypeOK
      <3> QED
        BY <2>3, <3>1, <3>2 DEF Adopt
    <2>6. CASE Die
      BY <2>6 DEF Die
    <2>7. ASSUME NEW s \in Scrapers, Scrape(s)
          PROVE  IsDoomed(k) /\ k \in excluded
      <3>1. RemoveFromWatched(s)
        BY <2>2, <2>7 DEF Scrape, BeginCollect, EndCollect, Load, Forget, EndScrape,
                          memVars
      <3>2. PICK d \in key[s] : watched' = Without(d[1])
        BY <3>1 DEF RemoveFromWatched
      <3>3. d[1] = k
        BY <1>1, <2>1, <3>2 DEF Without
      <3> QED
        BY <1>1, <3>2, <3>3 DEF IsDoomed, RemovalInv
    <2>8. ASSUME NEW j \in Chis, User(j) \/ Work(j) PROVE FALSE
      BY <2>2, <2>8 DEF User, Edit, Leave, Work, InstallFinalizer, BeginReconcile,
                        EndReconcile, BeginDelete, EndDelete, exporterVars, memVars
    <2>9. CASE Restart \/ UNCHANGED vars
      BY <2>2, <2>9 DEF Restart, vars, exporterVars, memVars
    <2> QED
      BY <1>1, <2>4, <2>5, <2>6, <2>7, <2>8, <2>9 DEF Next
  <1>2. TypeOK /\ RemovalInv /\ [Next]_vars =>
          [\A k \in Chis : watched[k] # NotWatched /\ watched'[k] = NotWatched
             => (IsDoomed(k) /\ k \in excluded) \/ phase' = "down"]_vars
    BY <1>1
  <1> QED
    BY <1>2, TypeInit, TypeStep, RemovalInit, RemovalStep, PTL
       DEF Spec, DroppedOnRequest

-----------------------------------------------------------------------------
(* No CHI is overlooked.                                                   *)

\* Someone still has to do with k, or it is in the list.
Tracked(k) ==
    \/ k \in todo
    \/ job[k] # NoJob
    \/ \E m \in net : m.op = "POST" /\ m.chi = k
    \/ \E f \in found : f[1] = k
    \/ watched[k] # NotWatched

\* The exporter serves once it is up. A pass of a stopped CHI has excluded it. Of a CHI that was never excluded: if
\* it is to be stopped the worker has yet to take note of it, and from the
\* discovery on it is tracked.
Covered(k) ==
    /\ phase = "up" => serves
    /\ job[k].what = "reconcile" /\ job[k].stop => k \in excluded
    /\ k \in there \ excluded =>
          /\ k \in stop => k \in todo \/ job[k].what = "delete"
          /\ phase = "up" => Tracked(k)

CoverInv == \A k \in Chis : Covered(k)

\* There is no CHI to overlook at first.
LEMMA CoverInit == Init => CoverInv
  BY DEF Init, CoverInv, Covered, NoJob

\* What users do ends in a command.
LEMMA UserCovers ==
    ASSUME TypeOK, NEW k \in Chis, Covered(k), NEW j \in Chis, User(j)
    PROVE  Covered(k)'
  <1>1. UNCHANGED <<job, net, excluded, phase, serves, found, watched>>
    BY DEF User, Edit, Leave, netVars, exporterVars, memVars
  <1>2. CASE j = k
    <2>1. k \in there' => k \in todo'
      BY <1>2 DEF User, Edit, Leave, Vanish
    <2> QED
      BY <1>1, <2>1 DEF Covered, Tracked
  <1>3. CASE j # k
    <2>1. /\ k \in there' <=> k \in there
          /\ k \in stop' <=> k \in stop
          /\ k \in todo' <=> k \in todo
      BY <1>3 DEF User, Edit, Leave, Vanish
    <2> QED
      BY <1>1, <2>1 DEF Covered, Tracked
  <1> QED
    BY <1>2, <1>3

\* The worker lets go of a command only for a job, and of a pass that did not
\* fail only with a notification.
LEMMA WorkCovers ==
    ASSUME "walk" \notin Faults, TypeOK, NEW k \in Chis, Covered(k),
           NEW j \in Chis, Work(j)
    PROVE  Covered(k)'
  <1>1. UNCHANGED <<phase, serves, found, watched>>
    BY DEF Work, InstallFinalizer, BeginReconcile, EndReconcile, BeginDelete,
           EndDelete, exporterVars, memVars
  <1>2. net \subseteq net' /\ excluded \subseteq excluded'
    BY DEF Work, InstallFinalizer, BeginReconcile, EndReconcile, BeginDelete,
           EndDelete, Send, netVars
  <1>3. job \in [Chis -> Jobs]
    BY DEF TypeOK, WorkTypeOK
  <1>4. CASE j # k
    <2>1. /\ k \in there' <=> k \in there
          /\ k \in stop' <=> k \in stop
          /\ k \in todo' <=> k \in todo
          /\ job'[k] = job[k]
      BY <1>3, <1>4 DEF Work, InstallFinalizer, BeginReconcile, EndReconcile,
                        BeginDelete, EndDelete, Vanish, workVars, apiVars
    <2> QED
      BY <1>1, <1>2, <2>1 DEF Covered, Tracked
  <1>5. CASE j = k /\ InstallFinalizer(k)
    BY <1>5 DEF InstallFinalizer, workVars, netVars, exporterVars, memVars, Covered,
                Tracked
  <1>6. CASE j = k /\ BeginReconcile(k)
    <2>1. /\ job'[k] = [what |-> "reconcile", stop |-> k \in stop, hosts |-> hosts[k]]
          /\ UNCHANGED <<there, stop>>
          /\ k \in stop => k \in excluded'
      BY <1>3, <1>6 DEF BeginReconcile, Send
    <2>2. job'[k].what = "reconcile" /\ job'[k] # NoJob
      BY <2>1 DEF NoJob
    <2>3. job'[k].stop => k \in stop
      <3> SUFFICES ASSUME k \notin stop PROVE ~job'[k].stop
        OBVIOUS
      <3>1. (k \in stop) = FALSE
        OBVIOUS
      <3>2. job'[k] = [what |-> "reconcile", stop |-> FALSE, hosts |-> hosts[k]]
        BY <2>1, <3>1, Zenon
      <3> QED
        BY <3>2
    <2> QED
      BY <1>1, <1>2, <2>1, <2>2, <2>3 DEF Covered, Tracked
  <1>7. CASE j = k /\ EndReconcile(k)
    <2>1. /\ job[k].what = "reconcile" /\ job'[k] = NoJob
          /\ UNCHANGED <<there, stop, todo>>
      BY <1>3, <1>7 DEF EndReconcile
    <2>2. NoJob.what = "none"
      BY DEF NoJob
    <2>3. ~job[k].stop => \E m \in net' : m.op = "POST" /\ m.chi = k
      <3> DEFINE m == [op |-> "POST", chi |-> k, hosts |-> job[k].hosts, id |-> sent]
      <3>1. ~job[k].stop => m \in net'
        BY <1>7 DEF EndReconcile, Send
      <3>2. m.op = "POST" /\ m.chi = k
        OBVIOUS
      <3> QED
        BY <3>1, <3>2
    <2> QED
      BY <1>1, <1>2, <2>1, <2>2, <2>3 DEF Covered, Tracked
  <1>8. CASE j = k /\ BeginDelete(k)
    <2>1. /\ job'[k] = [what |-> "delete", stop |-> FALSE, hosts |-> NoHosts]
          /\ UNCHANGED <<there, stop>>
      BY <1>3, <1>8 DEF BeginDelete, apiVars
    <2>2. job'[k].what = "delete" /\ job'[k] # NoJob
      BY <2>1 DEF NoJob
    <2> QED
      BY <1>1, <1>2, <2>1, <2>2 DEF Covered, Tracked
  <1>9. CASE j = k /\ EndDelete(k)
    <2>1. job'[k] = NoJob /\ (k \in there' => k \in todo')
      BY <1>3, <1>9 DEF EndDelete, Vanish
    <2>2. NoJob.what = "none"
      BY DEF NoJob
    <2> QED
      BY <1>1, <2>1, <2>2 DEF Covered, Tracked
  <1> QED
    BY <1>4, <1>5, <1>6, <1>7, <1>8, <1>9 DEF Work

\* A request is answered by an entry, or lost before the discovery.
LEMMA HandlerCovers ==
    ASSUME TypeOK, NEW k \in Chis, Covered(k), Handler
    PROVE  Covered(k)'
  <1>1. PICK m \in net : Post(m) \/ Delete(m) \/ Lose(m)
    BY DEF Handler
  <1>2. /\ UNCHANGED <<there, stop, todo, job, excluded, phase, serves, found>>
        /\ net' = net \ {m}
    BY <1>1 DEF Post, Delete, Lose, apiVars, workVars, exporterVars, memVars
  <1>3. CASE Post(m)
    <2>1. /\ m.hosts # NotWatched
          /\ watched \in [Chis -> Lists \cup {NotWatched}]
      BY ExporterAssumption DEF TypeOK, NetTypeOK, MemTypeOK, Notifications, Lists
    <2>2. watched' = [watched EXCEPT ![m.chi] = m.hosts]
      BY <1>3 DEF Post, UpdateWatched
    <2>3. /\ watched[k] # NotWatched => watched'[k] # NotWatched
          /\ m.chi = k => watched'[k] # NotWatched
      BY <2>1, <2>2
    <2> QED
      BY <1>2, <2>3 DEF Covered, Tracked
  <1>4. CASE Delete(m)
    <2>1. m.op # "POST" /\ watched' = watched
      BY <1>4 DEF Delete
    <2> QED
      BY <1>2, <2>1 DEF Covered, Tracked
  <1>5. CASE Lose(m)
    BY <1>2, <1>5 DEF Lose, Listening, Covered
  <1> QED
    BY <1>1, <1>3, <1>4, <1>5

\* The exporter listens when it discovers the CHIs: one that is not found then has
\* a command or a job, whose notification is heard.
LEMMA StartupCovers ==
    ASSUME {"list", "serve"} \cap Faults = {}, TypeOK, NEW k \in Chis, Covered(k), Startup
    PROVE  Covered(k)'
  <1>1. UNCHANGED <<there, stop, todo, job, net, excluded>>
    BY DEF Startup, Launch, Listen, Discover, Adopt, apiVars, workVars, netVars
  <1>2. CASE Launch \/ Listen
    BY <1>1, <1>2 DEF Launch, Listen, Covered, Tracked
  <1>3. CASE Discover
    <2>1. k \in there \ stop => \E f \in found' : f[1] = k
      <3>1. k \in there \ stop => <<k, fqdns[k]>> \in found'
        BY <1>3 DEF Discover
      <3>2. <<k, fqdns[k]>>[1] = k
        OBVIOUS
      <3> QED
        BY <3>1, <3>2
    <2>2. NoJob.what = "none" /\ serves'
      BY <1>3 DEF NoJob, Discover
    <2> QED
      BY <1>1, <2>1, <2>2 DEF Covered, Tracked
  <1>4. CASE \E f \in found : Adopt(f)
    <2>1. PICK f \in found : Adopt(f)
      BY <1>4
    <2>2. /\ f[2] # NotWatched
          /\ watched \in [Chis -> Lists \cup {NotWatched}]
      BY ExporterAssumption DEF TypeOK, MemTypeOK, Lists
    <2>3. /\ watched' = [watched EXCEPT ![f[1]] = f[2]]
          /\ found' = found \ {f} /\ UNCHANGED <<phase, serves>>
      BY <2>1 DEF Adopt, UpdateWatched
    <2>4. /\ watched[k] # NotWatched => watched'[k] # NotWatched
          /\ f[1] = k => watched'[k] # NotWatched
      BY <2>2, <2>3
    <2> QED
      BY <1>1, <2>3, <2>4 DEF Covered, Tracked
  <1> QED
    BY <1>2, <1>3, <1>4 DEF Startup

\* A scrape removes only what was excluded.
LEMMA ScrapeCovers ==
    ASSUME TypeOK, RemovalInv, NEW k \in Chis, Covered(k),
           NEW s \in Scrapers, Scrape(s)
    PROVE  Covered(k)'
  <1>1. UNCHANGED <<there, stop, todo, job, net, excluded, phase, serves, found>>
    BY DEF Scrape, BeginCollect, EndCollect, Load, Forget, RemoveFromWatched,
           EndScrape, apiVars, workVars, netVars, memVars
  <1>2. k \notin excluded => watched'[k] = watched[k]
    <2>1. CASE RemoveFromWatched(s)
      <3>1. PICK d \in key[s] : watched' = Without(d[1])
        BY <2>1 DEF RemoveFromWatched
      <3>2. d[1] \in excluded /\ watched \in [Chis -> Lists \cup {NotWatched}]
        BY DEF RemovalInv, TypeOK, MemTypeOK
      <3> QED
        BY <3>1, <3>2 DEF Without
    <2>2. CASE ~RemoveFromWatched(s)
      BY <2>2 DEF Scrape, BeginCollect, EndCollect, Load, Forget, EndScrape, memVars
    <2> QED
      BY <2>1, <2>2
  <1> QED
    BY <1>1, <1>2 DEF Covered, Tracked

\* Every step keeps every CHI covered: listed, on the way to it or waiting
\* for a worker.
LEMMA CoverStep ==
    ASSUME {"walk", "list", "serve"} \cap Faults = {}
    PROVE  TypeOK /\ RemovalInv /\ CoverInv /\ [Next]_vars => CoverInv'
  <1> SUFFICES ASSUME TypeOK, RemovalInv, CoverInv, [Next]_vars, NEW k \in Chis
               PROVE  Covered(k)'
    BY DEF CoverInv
  <1>1. Covered(k)
    BY DEF CoverInv
  <1>2. CASE UNCHANGED vars
    BY <1>1, <1>2 DEF vars, apiVars, workVars, netVars, exporterVars, memVars,
                      Covered, Tracked
  <1>3. CASE Restart
    <2>1. /\ todo' = there /\ \A i \in Chis : job'[i] = NoJob
          /\ UNCHANGED <<phase, serves>>
      BY <1>3 DEF Restart, exporterVars, memVars
    <2>2. UNCHANGED <<there, stop>> /\ NoJob.what = "none"
      BY <1>3 DEF Restart, apiVars, NoJob
    <2> QED
      BY <1>1, <2>1, <2>2 DEF Covered, Tracked
  <1>4. CASE Die
    BY <1>1, <1>4 DEF Die, apiVars, workVars, netVars, Covered
  <1> QED
    BY <1>1, <1>2, <1>3, <1>4, UserCovers, WorkCovers, HandlerCovers, StartupCovers,
       ScrapeCovers DEF Next

\* As long as walks and the list of CHIs succeed, and the exporter listens before it
\* discovers, a CHI that was never stopped or
\* deleted is watched when all is quiet, for any number of CHIs, restarts and lost
\* notifications (StartMetricsREST, DiscoveryWatchedCHIs, includeStopped).
THEOREM NobodyOverlooked ==
    {"walk", "list", "serve"} \cap Faults = {} => (Spec => []NoneOverlooked)
  <1> SUFFICES ASSUME {"walk", "list", "serve"} \cap Faults = {}
               PROVE  Spec => []NoneOverlooked
    OBVIOUS
  <1>1. TypeOK /\ CoverInv => NoneOverlooked
    BY DEF NoneOverlooked, Quiet, CoverInv, Covered, Tracked, TypeOK, ApiTypeOK
  <1>2. TypeOK /\ RemovalInv /\ CoverInv /\ [Next]_vars => CoverInv'
    BY CoverStep
  <1> QED
    BY <1>1, <1>2, TypeInit, TypeStep, RemovalInit, RemovalStep, CoverInit, PTL
       DEF Spec
=============================================================================
