-------------------------- MODULE ControllerProofs --------------------------
(***************************************************************************)
(* Theorems about Controller: its types, that queues and workers are one   *)
(* mailbox per CHI, and that replicas with data are dropped from ZooKeeper *)
(* only with their CHI. They rest on one invariant: a CHI is served by the *)
(* worker its name hashes to and by no other, so what a worker has read is *)
(* still there when its write is accepted; and nobody acts as if a CHI was *)
(* being deleted unless it is, since no CHI comes back from that.          *)
(***************************************************************************)
EXTENDS Controller, SequenceTheorems, WellFoundedInduction, TLAPS

\* The CHI is being deleted, or was.
Dying(c) == c \in born /\ (api[c] = None \/ api[c].ts)

\* What may be said about a CHI.
Items(c) == {i \in Commands : /\ i.cmd = "delete" <=> i.new = None
                              /\ i.new # None /\ i.new.ts => Dying(c)}

\* The API.
ApiOK ==
  /\ api \in [Chis -> ChiType \cup {None}]
  /\ born \subseteq Chis /\ retained \subseteq Chis
  /\ spent \in [{"edits", "notes", "crashes"} -> Nat]
  /\ \A c \in Chis : Exists(c) => c \in born

ObjectsOK ==
  /\ sts \in [Chis -> [Hosts -> StsStates]]
  /\ pvc \in [Chis -> [Hosts -> PvcStates]]
  /\ paths \in [Chis -> SUBSET Hosts]

EventsOK ==
  /\ events \in [Chis -> Seq(Commands)]
  /\ \A c \in Chis : events[c] \in Seq(Items(c))

\* A command waits in the queue of its CHI.
PendingOK ==
  /\ pending \in [Queues -> [Chis -> Commands \cup {None}]]
  /\ \A q \in Queues, c \in Chis :
        pending[q][c] # None => pending[q][c] \in Items(c) /\ q = Index[c]

Deletions == {"confirm", "terminating", "terminatingPut", "host", "scaled", "gone", "volume",
              "release", "releasePut"}

\* A worker serves its own CHIs, tears one down only if it is dying, and
\* writes, with nothing in between, what exists.
JobOK(q, j) ==
  /\ j \in Jobs
  /\ q = Index[j.chi]
  /\ j.item \in Items(j.chi)
  /\ j.pc \notin {"dispatch", "discover"} => j.item.new # None
  /\ j.pc \in Deletions => j.item.new.ts
  /\ j.pc \in {"installPut", "releasePut"} /\ j.fresh => Exists(j.chi)

JobsOK ==
  /\ job \in [Queues -> Jobs \cup {None}]
  /\ \A q \in Queues : job[q] # None => JobOK(q, job[q])

Served == ApiOK /\ ObjectsOK /\ EventsOK /\ PendingOK /\ JobsOK

\* What the workers serve has the types of the model.
LEMMA ServedTyped == Served => TypeOK
  BY DEF Served, ApiOK, ObjectsOK, EventsOK, PendingOK, JobsOK, TypeOK

-----------------------------------------------------------------------------
(* What a change of the API leaves valid.                                  *)

\* No CHI comes back from being deleted.
Onward == \A c \in Chis : Dying(c) => Dying(c)'

\* Commands that were possible stay possible as the API moves on.
LEMMA MoreItems ==
    ASSUME Onward, NEW c \in Chis
    PROVE  Items(c) \subseteq Items(c)'
  BY DEF Onward, Items

\* A sequence over a set is one over a larger set.
LEMMA SeqMore ==
    ASSUME NEW S, NEW T, S \subseteq T, NEW s \in Seq(S)
    PROVE  s \in Seq(T)
  BY SeqDef

\* What waits for a worker stays valid as the API moves on.
LEMMA WaitsStill ==
    ASSUME PendingOK, Onward, UNCHANGED pending
    PROVE  PendingOK'
  BY MoreItems DEF PendingOK

\* A CHI takes a new version.
LEMMA Written ==
    ASSUME ApiOK, EventsOK, NEW c \in Chis, NEW new \in ChiType, Exists(c), api[c].ts => new.ts,
           Write(c, new), UNCHANGED created, spent' \in [{"edits", "notes", "crashes"} -> Nat]
    PROVE  ApiOK' /\ EventsOK' /\ Onward /\ \A d \in Chis \ {c} : api'[d] = api[d]
  <1> DEFINE gone == new.ts /\ ~new.fin /\ ~new.foreign
             word == IF gone THEN Command("delete", api[c], None)
                             ELSE Command("update", api[c], new)
  <1>1. /\ api' = [api EXCEPT ![c] = IF gone THEN None ELSE new]
        /\ events' = [events EXCEPT ![c] = Append(@, word)]
    BY DEF Write
  <1>2. ApiOK' /\ \A d \in Chis \ {c} : api'[d] = api[d]
    BY <1>1 DEF ApiOK, created, Exists
  <1>3. Onward
    BY <1>1 DEF ApiOK, created, Exists, Onward, Dying
  <1>4. word \in Items(c)'
    <2>1. word \in Commands
      BY DEF ApiOK, Command, Commands, Exists
    <2>2. new.ts => Dying(c)'
      BY <1>1 DEF ApiOK, created, Exists, Dying
    <2> QED
      BY <2>1, <2>2, NoneAssumption DEF Items, Command
  <1>5. ASSUME NEW d \in Chis PROVE events'[d] \in Seq(Items(d)')
    <2>1. events[d] \in Seq(Items(d)')
      BY <1>3, MoreItems, SeqMore DEF EventsOK
    <2>2. events'[d] = IF d = c THEN Append(events[d], word) ELSE events[d]
      BY <1>1 DEF EventsOK
    <2> HIDE DEF word
    <2> QED
      BY <1>4, <2>1, <2>2
  <1>6. word \in Commands
    BY <1>4 DEF Items
  <1>7. events' \in [Chis -> Seq(Commands)]
    <2> HIDE DEF word
    <2> QED
      BY <1>1, <1>6 DEF EventsOK
  <1> QED
    BY <1>2, <1>3, <1>5, <1>7 DEF EventsOK

\* A job outlives a write: to another CHI, or if it takes what it read for old.
LEMMA Outlives ==
    ASSUME Onward, NEW q, NEW j, JobOK(q, j), NEW c, \A d \in Chis \ {c} : api'[d] = api[d]
    PROVE  /\ j.chi # c => JobOK(q, j)'
           /\ JobOK(q, [j EXCEPT !.fresh = FALSE])'
  <1>1. j \in Jobs /\ j.chi \in Chis
    BY DEF JobOK, Jobs
  <1>2. j.item \in Items(j.chi)'
    BY <1>1, MoreItems DEF JobOK
  <1>3. j.chi # c => JobOK(q, j)'
    BY <1>1, <1>2 DEF JobOK, Exists
  <1> DEFINE k == [j EXCEPT !.fresh = FALSE]
  <1>4. /\ k \in Jobs /\ k.fresh = FALSE /\ k.chi = j.chi /\ k.item = j.item /\ k.pc = j.pc
    BY <1>1 DEF Jobs
  <1>5. JobOK(q, k)'
    <2> HIDE DEF k
    <2> QED
      BY <1>2, <1>4 DEF JobOK
  <1> QED
    BY <1>3, <1>5

\* What a worker has read is old when somebody else writes.
LEMMA Staled ==
    ASSUME JobsOK, Onward, NEW c \in Chis, job' = Stale(job, c),
           \A d \in Chis \ {c} : api'[d] = api[d]
    PROVE  JobsOK'
  <1>1. ASSUME NEW q \in Queues PROVE job'[q] # None => JobOK(q, job[q])'
    <2>1. job'[q] = IF job[q] # None /\ job[q].chi = c
                    THEN [job[q] EXCEPT !.fresh = FALSE] ELSE job[q]
      BY DEF Stale
    <2>2. CASE job[q] = None
      BY <2>1, <2>2
    <2>3. CASE job[q] # None
      <3> DEFINE j == job[q]
      <3>1. JobOK(q, j)
        BY <2>3 DEF JobsOK
      <3>2. PICK k : k = j
        OBVIOUS
      <3>3. (k.chi # c => JobOK(q, k)') /\ JobOK(q, [k EXCEPT !.fresh = FALSE])'
        BY <3>1, <3>2, Outlives
      <3>4. job'[q] = IF k.chi = c THEN [k EXCEPT !.fresh = FALSE] ELSE k
        BY <2>1, <2>3, <3>2
      <3> QED
        BY <3>3, <3>4
    <2> QED
      BY <2>2, <2>3
  <1>2. job' = [q \in Queues |-> job'[q]]
    BY DEF Stale
  <1>3. \A q \in Queues : job'[q] \in Jobs \cup {None}
    BY <1>1 DEF JobOK
  <1> QED
    BY <1>1, <1>2, <1>3 DEF JobsOK

\* One worker goes on with another job or none.
LEMMA OtherJob ==
    ASSUME JobsOK, UNCHANGED <<api, born>>, NEW q \in Queues, NEW j,
           j = None \/ JobOK(q, j), job' = [job EXCEPT ![q] = j]
    PROVE  JobsOK'
  <1>1. \A p \in Queues : job'[p] = IF p = q THEN j ELSE job[p]
    BY DEF JobsOK
  <1>2. \A p \in Queues : \A k : JobOK(p, k)' <=> JobOK(p, k)
    BY DEF JobOK, Items, Dying, Exists
  <1>3. job' \in [Queues -> Jobs \cup {None}]
    BY DEF JobsOK, JobOK
  <1> QED
    BY <1>1, <1>2, <1>3 DEF JobsOK

-----------------------------------------------------------------------------
(* The steps of a worker.                                                  *)

\* What a worker knows.
LEMMA Known ==
    ASSUME JobsOK, NEW q \in Queues, job[q] # None
    PROVE  /\ job[q] \in Jobs /\ job[q].pc \in Steps /\ job[q].left \subseteq Hosts
           /\ Chi(q) \in Chis
           /\ New(q) \in ChiType \cup {None} /\ Old(q) \in ChiType \cup {None}
           /\ job[q].item.cmd = "delete" <=> New(q) = None
           /\ job[q].pc \notin {"dispatch", "discover"} => New(q) \in ChiType
           /\ job[q].pc \in Deletions => New(q).ts /\ Dying(Chi(q))
           /\ job[q].pc \in {"installPut", "releasePut"} /\ job[q].fresh => Exists(Chi(q))
  <1>1. JobOK(q, job[q])
    BY DEF JobsOK
  <1>2. job[q] \in Jobs /\ job[q].item \in Commands
    BY <1>1 DEF JobOK, Jobs
  <1> QED
    BY <1>1, <1>2 DEF JobOK, Jobs, Commands, Items, Chi, New, Old, Deletions

\* A job with another step.
LEMMA SameItem ==
    ASSUME JobsOK, NEW q \in Queues, job[q] # None,
           NEW j \in Jobs, j.chi = job[q].chi, j.item = job[q].item,
           j.pc \notin {"dispatch", "discover"} => New(q) # None,
           j.pc \in Deletions => New(q).ts,
           j.pc \in {"installPut", "releasePut"} /\ j.fresh => Exists(Chi(q))
    PROVE  JobOK(q, j)
  <1>1. JobOK(q, job[q])
    BY DEF JobsOK
  <1> QED
    BY <1>1 DEF JobOK, New, Chi

\* A worker goes on with the item it has, or is done with it.
Moves(q) == \E j : /\ job' = [job EXCEPT ![q] = j]
                   /\ \/ j = None
                      \/ JobOK(q, j) /\ j.chi = job[q].chi /\ j.item = job[q].item

\* A worker that finishes its item goes back to its queue.
LEMMA Ends == \A q : Finish(q) => Moves(q)
  BY DEF Finish, Moves

\* A worker at another step of the same command keeps a valid job.
LEMMA Goes ==
    ASSUME JobsOK, NEW q \in Queues, job[q] # None, NEW pc \in Steps, Goto(q, pc),
           pc \notin {"dispatch", "discover"} => New(q) # None,
           pc \in Deletions => New(q).ts,
           pc \notin {"installPut", "releasePut"}
    PROVE  Moves(q)
  <1> DEFINE j == [job[q] EXCEPT !.pc = pc]
  <1>1. job[q] \in Jobs
    BY Known
  <1>2. /\ j \in Jobs /\ j.chi = job[q].chi /\ j.item = job[q].item
        /\ j.pc = pc
    BY <1>1 DEF Jobs
  <1>3. job' = [job EXCEPT ![q] = j]
    BY <1>1 DEF JobsOK, Jobs, Goto
  <1> HIDE DEF j
  <1>4. JobOK(q, j)
    BY <1>2, SameItem
  <1> QED
    BY <1>2, <1>3, <1>4 DEF Moves

\* It sets out to write what it has just read.
LEMMA Reads ==
    ASSUME JobsOK, NEW q \in Queues, job[q] # None, NEW pc \in Steps,
           job' = [job EXCEPT ![q].pc = pc, ![q].fresh = TRUE],
           New(q) # None, pc \in Deletions => New(q).ts, Exists(Chi(q)),
           pc \notin {"dispatch", "discover"}
    PROVE  Moves(q)
  <1> DEFINE j == [job[q] EXCEPT !.pc = pc, !.fresh = TRUE]
  <1>1. job[q] \in Jobs
    BY Known
  <1>2. /\ j \in Jobs /\ j.chi = job[q].chi /\ j.item = job[q].item
        /\ j.pc = pc /\ j.fresh = TRUE
    BY <1>1 DEF Jobs
  <1>3. job' = [job EXCEPT ![q] = j]
    BY <1>1 DEF JobsOK, Jobs
  <1> HIDE DEF j
  <1>4. JobOK(q, j)
    BY <1>2, SameItem
  <1> QED
    BY <1>2, <1>3, <1>4 DEF Moves

\* It walks other hosts.
LEMMA Walks ==
    ASSUME JobsOK, NEW q \in Queues, job[q] # None, NEW pc \in Steps, NEW left \in SUBSET Hosts,
           job' = [job EXCEPT ![q].pc = pc, ![q].left = left],
           New(q) # None, pc \in Deletions => New(q).ts,
           pc \notin {"dispatch", "discover", "installPut", "releasePut"}
    PROVE  Moves(q)
  <1> DEFINE j == [job[q] EXCEPT !.pc = pc, !.left = left]
  <1>1. job[q] \in Jobs
    BY Known
  <1>2. /\ j \in Jobs /\ j.chi = job[q].chi /\ j.item = job[q].item
        /\ j.pc = pc
    BY <1>1 DEF Jobs
  <1>3. job' = [job EXCEPT ![q] = j]
    BY <1>1 DEF JobsOK, Jobs
  <1> HIDE DEF j
  <1>4. JobOK(q, j)
    BY <1>2, SameItem
  <1> QED
    BY <1>2, <1>3, <1>4 DEF Moves

\* A step of a worker that writes nothing to the API and leaves objects valid.
LEMMA Quietly ==
    ASSUME Served, NEW q \in Queues, Moves(q), ObjectsOK',
           UNCHANGED <<api, created, events, pending, spent>>
    PROVE  Served'
  <1>1. ApiOK' /\ EventsOK' /\ PendingOK'
    BY DEF Served, created, ApiOK, EventsOK, PendingOK, Items, Dying, Exists
  <1>2. JobsOK'
    BY OtherJob DEF Served, Moves, created
  <1> QED
    BY <1>1, <1>2 DEF Served

\* The next host of a walk is one of those left.
LEMMA MinIn ==
    ASSUME NEW S \in SUBSET Hosts, S # {}
    PROVE  Min(S) \in S
  <1>1. PICK x \in S : \A y \in S : <<y, x>> \notin OpToRel(<, Nat)
    BY HostsAssumption, WFMin, NatLessThanWellFounded, Zenon
  <1>2. \A y \in S : ~(y < x)
    BY <1>1, HostsAssumption, Zenon DEF OpToRel
  <1>3. \A y \in S : x =< y
    BY <1>2, HostsAssumption
  <1> QED
    BY <1>3, Zenon DEF Min

\* One object takes another state.
LEMMA OneObject ==
    ASSUME ObjectsOK, NEW c \in Chis, NEW h
    PROVE  /\ \A s \in StsStates : [sts EXCEPT ![c][h] = s] \in [Chis -> [Hosts -> StsStates]]
           /\ \A s \in PvcStates : [pvc EXCEPT ![c][h] = s] \in [Chis -> [Hosts -> PvcStates]]
  BY DEF ObjectsOK

\* updateCHI decides on a command and the worker goes to its first step.
LEMMA DispatchStep ==
    ASSUME Served, NEW q \in Queues, Dispatch(q)
    PROVE  Moves(q) /\ Served'
  <1>1. job[q] # None /\ JobsOK
    BY DEF Dispatch, At, Served
  <1> DEFINE pc == IF job[q].item.cmd = "delete" THEN "discover"
                   ELSE IF New(q).ts THEN "confirm"
                   ELSE IF ~New(q).fin THEN "install"
                   ELSE "begin"
  <1>2. /\ pc \in Steps /\ pc \notin {"installPut", "releasePut"}
        /\ pc \notin {"dispatch", "discover"} => New(q) # None
        /\ pc \in Deletions => New(q).ts
    BY <1>1, Known DEF Steps, Deletions
  <1>3. Goto(q, pc)
    BY DEF Dispatch
  <1> HIDE DEF pc
  <1>4. Moves(q)
    BY <1>1, <1>2, <1>3, Goes
  <1> QED
    BY <1>4, Quietly DEF Dispatch, Served, ObjectsOK, objects

\* A CHI without the finalizer gets it, one with it goes on.
LEMMA InstallStep ==
    ASSUME Served, NEW q \in Queues, InstallFinalizer(q)
    PROVE  Moves(q) /\ Served'
  <1>1. job[q] # None /\ JobsOK /\ New(q) # None
    BY Known, NoneAssumption DEF InstallFinalizer, At, Served
  <1>2. Moves(q)
    <2>1. CASE Goto(q, "begin")
      BY <1>1, <2>1, Goes DEF Steps, Deletions
    <2>2. CASE Finish(q)
      BY <2>2, Ends
    <2>3. CASE Exists(Chi(q)) /\ job' = [job EXCEPT ![q].pc = "installPut", ![q].fresh = TRUE]
      BY <1>1, <2>3, Reads DEF Steps, Deletions
    <2> QED
      BY <2>1, <2>2, <2>3 DEF InstallFinalizer
  <1> QED
    BY <1>2, Quietly DEF InstallFinalizer, Served, ObjectsOK, objects

\* A worker writes the CHI it serves.
LEMMA WorkerWrites ==
    ASSUME Served, NEW q \in Queues, job[q] # None, Finish(q), NEW new \in ChiType,
           Exists(Chi(q)), api[Chi(q)].ts => new.ts, Write(Chi(q), new),
           UNCHANGED <<created, objects, pending, spent>>
    PROVE  Served'
  <1> DEFINE c == Chi(q)
  <1>1. c \in Chis
    BY Known DEF Served
  <1>2. ApiOK' /\ EventsOK' /\ Onward /\ \A d \in Chis \ {c} : api'[d] = api[d]
    BY <1>1, Written DEF Served, ApiOK
  <1>3. PendingOK'
    BY <1>2, WaitsStill DEF Served
  <1>4. ASSUME NEW p \in Queues PROVE job'[p] # None => JobOK(p, job[p])'
    <2>1. CASE p = q
      BY <2>1 DEF Finish, Served, JobsOK
    <2>2. CASE p # q /\ job[p] # None
      <3>1. PICK k : k = job[p]
        OBVIOUS
      <3>2. JobOK(p, k) /\ k.chi # c
        BY <1>1, <2>2, <3>1 DEF Served, JobsOK, JobOK, Chi
      <3>3. JobOK(p, k)'
        BY <1>2, <3>2, Outlives
      <3>4. job'[p] = k
        BY <2>2, <3>1 DEF Finish, Served, JobsOK
      <3> QED
        BY <3>3, <3>4
    <2>3. CASE p # q /\ job[p] = None
      BY <2>3 DEF Finish, Served, JobsOK
    <2> QED
      BY <2>1, <2>2, <2>3
  <1>5. job' \in [Queues -> Jobs \cup {None}]
    BY DEF Finish, Served, JobsOK
  <1>6. JobsOK'
    BY <1>4, <1>5 DEF JobsOK
  <1> QED
    BY <1>2, <1>3, <1>6 DEF Served, ObjectsOK, objects

\* The update that adds the finalizer, or its failure.
LEMMA InstallPutStep ==
    ASSUME Served, NEW q \in Queues, InstallFinalizerPut(q)
    PROVE  Moves(q) /\ Served'
  <1>1. /\ job[q] # None /\ JobsOK /\ New(q) # None
        /\ job[q].fresh => Exists(Chi(q))
    BY Known, NoneAssumption DEF InstallFinalizerPut, At, Served
  <1>2. CASE job[q].fresh /\ Write(Chi(q), [api[Chi(q)] EXCEPT !.fin = TRUE]) /\ Finish(q)
    <2> DEFINE new == [api[Chi(q)] EXCEPT !.fin = TRUE]
    <2>1. new \in ChiType /\ new.ts = api[Chi(q)].ts
      BY <1>1, <1>2, Known DEF Served, ApiOK, Exists, ChiType
    <2> HIDE DEF new
    <2>2. Served'
      <3>1. Write(Chi(q), new)
        BY <1>2 DEF new
      <3> QED
        BY <1>1, <1>2, <2>1, <3>1, WorkerWrites DEF InstallFinalizerPut
    <2> QED
      BY <1>2, <2>2, Ends
  <1>3. CASE Goto(q, "begin") /\ UNCHANGED <<api, events>>
    <2>1. Moves(q)
      BY <1>1, <1>3, Goes DEF Steps, Deletions
    <2> QED
      BY <1>3, <2>1, Quietly DEF InstallFinalizerPut, Served, ObjectsOK, objects
  <1> QED
    BY <1>2, <1>3 DEF InstallFinalizerPut

\* The update that takes the finalizer away, or its failure.
LEMMA UninstallPutStep ==
    ASSUME Served, NEW q \in Queues, UninstallFinalizerPut(q)
    PROVE  Moves(q) /\ Served'
  <1>1. job[q] # None /\ JobsOK /\ (job[q].fresh => Exists(Chi(q)))
    BY Known DEF UninstallFinalizerPut, At, Served
  <1>2. Moves(q)
    BY Ends DEF UninstallFinalizerPut
  <1>3. CASE job[q].fresh /\ Write(Chi(q), [api[Chi(q)] EXCEPT !.fin = FALSE])
    <2> DEFINE new == [api[Chi(q)] EXCEPT !.fin = FALSE]
    <2>1. new \in ChiType /\ new.ts = api[Chi(q)].ts
      BY <1>1, <1>3, Known DEF Served, ApiOK, Exists, ChiType
    <2>2. Write(Chi(q), new)
      BY <1>3
    <2> HIDE DEF new
    <2> QED
      BY <1>1, <1>2, <1>3, <2>1, <2>2, WorkerWrites DEF UninstallFinalizerPut
  <1>4. CASE UNCHANGED <<api, events>>
    BY <1>2, <1>4, Quietly DEF UninstallFinalizerPut, Served, ObjectsOK, objects
  <1> QED
    BY <1>2, <1>3, <1>4 DEF UninstallFinalizerPut

\* A CHI with a deletion timestamp is deleted or, without the finalizer,
\* reconciled.
LEMMA DeleteChiStep ==
    ASSUME Served, NEW q \in Queues, DeleteChi(q)
    PROVE  Moves(q) /\ Served'
  <1>1. /\ job[q] # None /\ JobsOK /\ ObjectsOK /\ Chi(q) \in Chis
        /\ New(q) \in ChiType /\ New(q) # None /\ New(q).spec \subseteq Hosts /\ New(q).ts
        /\ job[q].left \subseteq Hosts
    BY Known, NoneAssumption DEF DeleteChi, At, Served, ChiType, Deletions
  <1>2. Moves(q)
    BY <1>1, Goes DEF DeleteChi, Steps, Deletions
  <1> QED
    BY <1>2, Quietly DEF DeleteChi, Served, ObjectsOK, objects

\* The CHI is read for its status Terminating.
LEMMA DeleteStartStep ==
    ASSUME Served, NEW q \in Queues, DeleteStart(q)
    PROVE  Moves(q) /\ Served'
  <1>1. /\ job[q] # None /\ JobsOK /\ ObjectsOK /\ Chi(q) \in Chis
        /\ New(q) \in ChiType /\ New(q) # None /\ New(q).spec \subseteq Hosts /\ New(q).ts
        /\ job[q].left \subseteq Hosts
    BY Known, NoneAssumption DEF DeleteStart, At, Served, ChiType, Deletions
  <1>2. Moves(q)
    BY <1>1, Walks, Reads DEF DeleteStart, Teardown, Steps, Deletions
  <1> QED
    BY <1>2, Quietly DEF DeleteStart, Served, ObjectsOK, objects

\* The update of that status, or its failure.
LEMMA DeleteStartPutStep ==
    ASSUME Served, NEW q \in Queues, DeleteStartPut(q)
    PROVE  Moves(q) /\ Served'
  <1>1. /\ job[q] # None /\ JobsOK /\ ObjectsOK /\ Chi(q) \in Chis
        /\ New(q) \in ChiType /\ New(q) # None /\ New(q).spec \subseteq Hosts /\ New(q).ts
        /\ job[q].left \subseteq Hosts
    BY Known, NoneAssumption DEF DeleteStartPut, At, Served, ChiType, Deletions
  <1>2. Moves(q)
    BY <1>1, Walks, Goes DEF DeleteStartPut, Teardown, Steps, Deletions
  <1> QED
    BY <1>2, Quietly DEF DeleteStartPut, Served, ObjectsOK, objects

\* A walk over the hosts goes to the next of them or ends.
LEMMA NextHostMoves ==
    ASSUME JobsOK, NEW q \in Queues, job[q] # None, New(q) # None, New(q).ts, NextHost(q)
    PROVE  Moves(q)
  <1> DEFINE left == job[q].left \ {Host(q)}
  <1>1. left \in SUBSET Hosts
    BY Known
  <1>2. job' = [job EXCEPT ![q].pc = "host", ![q].left = left]
    BY Known DEF NextHost, Jobs, JobsOK
  <1> HIDE DEF left
  <1> QED
    BY <1>1, <1>2, Walks DEF Steps, Deletions

\* A host leaves ZooKeeper and its StatefulSet is scaled down, or is not there.
LEMMA DeleteHostStep ==
    ASSUME Served, NEW q \in Queues, DeleteHost(q)
    PROVE  Moves(q) /\ Served'
  <1>1. /\ job[q] # None /\ JobsOK /\ ObjectsOK /\ Chi(q) \in Chis
        /\ New(q) \in ChiType /\ New(q) # None /\ New(q).spec \subseteq Hosts /\ New(q).ts
        /\ job[q].left \subseteq Hosts
    BY Known, NoneAssumption DEF DeleteHost, At, Served, ChiType, Deletions
  <1> DEFINE c == Chi(q)
             h == Host(q)
  <1>2. Moves(q)
    <2>1. NextHost(q) \/ Goto(q, "scaled") \/ Goto(q, "volume")
      BY DEF DeleteHost
    <2> QED
      BY <1>1, <2>1, NextHostMoves, Goes DEF Steps, Deletions
  <1>3. ObjectsOK'
    <2>1. sts' \in [Chis -> [Hosts -> StsStates]]
      <3>1. CASE UNCHANGED sts
        BY <1>1, <3>1 DEF ObjectsOK
      <3>2. CASE sts' = [sts EXCEPT ![c][h] = IF @ = "up" THEN "down" ELSE @]
        BY <1>1, <3>2 DEF ObjectsOK, StsStates
      <3> QED
        BY <3>1, <3>2 DEF DeleteHost
    <2>2. paths' \in [Chis -> SUBSET Hosts]
      BY <1>1 DEF DeleteHost, ObjectsOK
    <2> QED
      BY <1>1, <2>1, <2>2 DEF DeleteHost, ObjectsOK
  <1> QED
    BY <1>2, <1>3, Quietly DEF DeleteHost

\* The StatefulSet of the host is deleted, or that fails.
LEMMA DeleteStatefulSetStep ==
    ASSUME Served, NEW q \in Queues, DeleteStatefulSet(q)
    PROVE  Moves(q) /\ Served'
  <1>1. /\ job[q] # None /\ JobsOK /\ ObjectsOK /\ Chi(q) \in Chis
        /\ New(q) \in ChiType /\ New(q) # None /\ New(q).spec \subseteq Hosts /\ New(q).ts
        /\ job[q].left \subseteq Hosts
    BY Known, NoneAssumption DEF DeleteStatefulSet, At, Served, ChiType, Deletions
  <1> DEFINE c == Chi(q)
             h == Host(q)
  <1>2. Moves(q)
    BY <1>1, Goes DEF DeleteStatefulSet, Steps, Deletions
  <1>3. ObjectsOK'
    <2>1. CASE UNCHANGED sts
      BY <1>1, <2>1 DEF DeleteStatefulSet, ObjectsOK
    <2>2. CASE sts' = [sts EXCEPT ![c][h] = IF @ = "none" THEN @ ELSE "leaving"]
      BY <1>1, <2>2 DEF DeleteStatefulSet, ObjectsOK, StsStates
    <2> QED
      BY <2>1, <2>2 DEF DeleteStatefulSet
  <1> QED
    BY <1>2, <1>3, Quietly DEF DeleteStatefulSet

\* The wait for the StatefulSet ends, with it gone or with an error.
LEMMA WaitHostDeletedStep ==
    ASSUME Served, NEW q \in Queues, WaitHostDeleted(q)
    PROVE  Moves(q) /\ Served'
  <1>1. /\ job[q] # None /\ JobsOK /\ ObjectsOK /\ Chi(q) \in Chis
        /\ New(q) \in ChiType /\ New(q) # None /\ New(q).spec \subseteq Hosts /\ New(q).ts
        /\ job[q].left \subseteq Hosts
    BY Known, NoneAssumption DEF WaitHostDeleted, At, Served, ChiType, Deletions
  <1>2. Moves(q)
    BY <1>1, Goes DEF WaitHostDeleted, Steps, Deletions
  <1> QED
    BY <1>2, Quietly DEF WaitHostDeleted, Served, ObjectsOK, objects

\* The PVCs of the host are deleted unless its template retains them.
LEMMA DeletePVCStep ==
    ASSUME Served, NEW q \in Queues, DeletePVC(q)
    PROVE  Moves(q) /\ Served'
  <1>1. /\ job[q] # None /\ JobsOK /\ ObjectsOK /\ Chi(q) \in Chis
        /\ New(q) \in ChiType /\ New(q) # None /\ New(q).spec \subseteq Hosts /\ New(q).ts
        /\ job[q].left \subseteq Hosts
    BY Known, NoneAssumption DEF DeletePVC, At, Served, ChiType, Deletions
  <1> DEFINE c == Chi(q)
             h == Host(q)
  <1>2. Moves(q)
    BY <1>1, NextHostMoves DEF DeletePVC
  <1>3. ObjectsOK'
    <2>1. CASE UNCHANGED pvc
      BY <1>1, <2>1 DEF DeletePVC, ObjectsOK
    <2>2. CASE pvc' = [pvc EXCEPT ![c][h] = IF @ = "bound" THEN "leaving" ELSE @]
      BY <1>1, <2>2 DEF DeletePVC, ObjectsOK, PvcStates
    <2> QED
      BY <2>1, <2>2 DEF DeletePVC
  <1> QED
    BY <1>2, <1>3, Quietly DEF DeletePVC

\* After the last host the worker goes on to the finalizer.
LEMMA HostsDeletedStep ==
    ASSUME Served, NEW q \in Queues, HostsDeleted(q)
    PROVE  Moves(q) /\ Served'
  <1>1. /\ job[q] # None /\ JobsOK /\ ObjectsOK /\ Chi(q) \in Chis
        /\ New(q) \in ChiType /\ New(q) # None /\ New(q).spec \subseteq Hosts /\ New(q).ts
        /\ job[q].left \subseteq Hosts
    BY Known, NoneAssumption DEF HostsDeleted, At, Served, ChiType, Deletions
  <1>2. Moves(q)
    BY <1>1, Goes DEF HostsDeleted, Steps, Deletions
  <1> QED
    BY <1>2, Quietly DEF HostsDeleted, Served, ObjectsOK, objects

\* The CHI is read to release it from the finalizer.
LEMMA UninstallStep ==
    ASSUME Served, NEW q \in Queues, UninstallFinalizer(q)
    PROVE  Moves(q) /\ Served'
  <1>1. /\ job[q] # None /\ JobsOK /\ ObjectsOK /\ Chi(q) \in Chis
        /\ New(q) \in ChiType /\ New(q) # None /\ New(q).spec \subseteq Hosts /\ New(q).ts
        /\ job[q].left \subseteq Hosts
    BY Known, NoneAssumption DEF UninstallFinalizer, At, Served, ChiType, Deletions
  <1>2. Moves(q)
    BY <1>1, Ends, Reads DEF UninstallFinalizer, Steps, Deletions
  <1> QED
    BY <1>2, Quietly DEF UninstallFinalizer, Served, ObjectsOK, objects

\* A pass begins over the hosts of the spec, or has nothing to do.
LEMMA BeginStep ==
    ASSUME Served, NEW q \in Queues, Begin(q)
    PROVE  Moves(q) /\ Served'
  <1>1. /\ job[q] # None /\ JobsOK /\ ObjectsOK /\ Chi(q) \in Chis
        /\ New(q) \in ChiType /\ New(q) # None /\ New(q).spec \subseteq Hosts
        /\ job[q].pc \in Deletions => New(q).ts
    BY Known, NoneAssumption DEF Begin, At, Served, ChiType
  <1>2. Moves(q)
    BY <1>1, Ends, Walks DEF Begin, Steps, Deletions
  <1> QED
    BY <1>2, Quietly DEF Begin, Served, ObjectsOK, objects

\* A pass whose context is cancelled ends without an error.
LEMMA CancelledStep ==
    ASSUME Served, NEW q \in Queues, Cancelled(q)
    PROVE  Moves(q) /\ Served'
  <1>1. Moves(q)
    BY Ends DEF Cancelled
  <1> QED
    BY <1>1, Quietly DEF Cancelled, Served, ObjectsOK, objects

\* A pass creates or updates the next host.
LEMMA ReconcileHostStep ==
    ASSUME Served, NEW q \in Queues, ReconcileHost(q)
    PROVE  Moves(q) /\ Served'
  <1>1. /\ job[q] # None /\ JobsOK /\ ObjectsOK /\ Chi(q) \in Chis
        /\ New(q) \in ChiType /\ New(q) # None /\ New(q).spec \subseteq Hosts
        /\ job[q].left \subseteq Hosts
    BY Known, NoneAssumption DEF ReconcileHost, At, Served, ChiType
  <1> DEFINE c == Chi(q)
             h == Host(q)
  <1>2. h \in Hosts
    BY <1>1, MinIn DEF ReconcileHost, Host
  <1>3. CASE Finish(q) /\ UNCHANGED objects
    BY <1>1, <1>3, Ends, Quietly DEF ReconcileHost, ObjectsOK, objects
  <1>4. CASE /\ sts' = [sts EXCEPT ![c][h] = IF @ = "none" THEN "up" ELSE @]
             /\ pvc' = [pvc EXCEPT ![c][h] = IF sts[c][h] = "none" THEN "bound" ELSE @]
             /\ paths' = [paths EXCEPT ![c] = IF sts[c][h] = "none" THEN @ \cup {h} ELSE @]
             /\ job' = [job EXCEPT ![q].left = @ \ {h}]
    <2>1. sts' \in [Chis -> [Hosts -> StsStates]]
      BY <1>1, <1>2, <1>4 DEF ObjectsOK, StsStates
    <2>2. pvc' \in [Chis -> [Hosts -> PvcStates]]
      BY <1>1, <1>2, <1>4 DEF ObjectsOK, PvcStates
    <2>3. paths' \in [Chis -> SUBSET Hosts]
      BY <1>1, <1>2, <1>4 DEF ObjectsOK
    <2>4. Moves(q)
      <3> DEFINE left == job[q].left \ {h}
      <3>1. left \in SUBSET Hosts
        BY <1>1
      <3>2. job' = [job EXCEPT ![q].pc = "build", ![q].left = left]
        BY <1>1, <1>4, Known DEF ReconcileHost, At, JobsOK, Jobs
      <3> HIDE DEF left
      <3> QED
        BY <1>1, <3>1, <3>2, Walks DEF Steps, Deletions
    <2> QED
      BY <2>1, <2>2, <2>3, <2>4, Quietly DEF ReconcileHost, ObjectsOK
  <1> QED
    BY <1>3, <1>4 DEF ReconcileHost

\* A purge leaves the objects of the CHI valid.
LEMMA Purged ==
    ASSUME ObjectsOK, NEW c \in Chis, NEW hosts, PurgeObjects(c, hosts), UNCHANGED paths
    PROVE  ObjectsOK'
  <1>1. Doomed(sts[c], hosts, {"up", "down"}) \in [Hosts -> StsStates]
    BY DEF ObjectsOK, Doomed, StsStates
  <1>2. Doomed(pvc[c], hosts, {"bound"}) \in [Hosts -> PvcStates]
    BY DEF ObjectsOK, Doomed, PvcStates
  <1>3. sts' \in [Chis -> [Hosts -> StsStates]]
    BY <1>1 DEF ObjectsOK, PurgeObjects
  <1>4. pvc' \in [Chis -> [Hosts -> PvcStates]]
    BY <1>2 DEF ObjectsOK, PurgeObjects
  <1> QED
    BY <1>3, <1>4 DEF ObjectsOK

\* After the last host, objects of hosts no longer asked for are purged.
LEMMA ClearStep ==
    ASSUME Served, NEW q \in Queues, Clear(q)
    PROVE  Moves(q) /\ Served'
  <1>1. /\ job[q] # None /\ JobsOK /\ ObjectsOK /\ Chi(q) \in Chis
        /\ New(q) \in ChiType /\ New(q) # None /\ New(q).spec \subseteq Hosts
        /\ job[q].left \subseteq Hosts
    BY Known, NoneAssumption DEF Clear, At, Served, ChiType
  <1>2. Moves(q)
    BY <1>1, Goes DEF Clear, Steps, Deletions
  <1> QED
    BY <1>1, <1>2, Purged, Quietly DEF Clear

\* ZooKeeper forgets the hosts that are gone.
LEMMA DropReplicasStep ==
    ASSUME Served, NEW q \in Queues, DropReplicas(q)
    PROVE  Moves(q) /\ Served'
  <1>1. /\ job[q] # None /\ JobsOK /\ ObjectsOK /\ Chi(q) \in Chis
        /\ New(q) \in ChiType /\ New(q) # None /\ New(q).spec \subseteq Hosts
        /\ job[q].left \subseteq Hosts
    BY Known, NoneAssumption DEF DropReplicas, At, Served, ChiType
  <1>2. Moves(q)
    BY Ends DEF DropReplicas
  <1>3. ObjectsOK'
    BY <1>1 DEF DropReplicas, ObjectsOK
  <1> QED
    BY <1>2, <1>3, Quietly DEF DropReplicas

\* A CHI that is not in the API has its objects discovered and deleted.
LEMMA DiscoveryStep ==
    ASSUME Served, NEW q \in Queues, DiscoveryAndDelete(q)
    PROVE  Moves(q) /\ Served'
  <1>1. ObjectsOK /\ Chi(q) \in Chis
    BY Known DEF DiscoveryAndDelete, At, Served
  <1>2. Moves(q)
    BY Ends DEF DiscoveryAndDelete
  <1>3. ObjectsOK'
    <2>1. CASE CleanupSpecified
      BY <1>1, <2>1, Purged DEF DiscoveryAndDelete
    <2>2. CASE ~CleanupSpecified
      BY <1>1, <2>2 DEF DiscoveryAndDelete, ObjectsOK
    <2> QED
      BY <2>1, <2>2
  <1> QED
    BY <1>2, <1>3, Quietly DEF DiscoveryAndDelete

\* Whatever a worker does, it does for the command it has, until it is done.
LEMMA WorkStep ==
    ASSUME Served, NEW q \in Queues, Work(q)
    PROVE  Moves(q) /\ Served' /\ job[q] # None /\ UNCHANGED pending
  <1>1. Moves(q) /\ Served'
    BY CancelledStep, DispatchStep, InstallStep, InstallPutStep, DeleteChiStep, DeleteStartStep,
       DeleteStartPutStep, DeleteHostStep, DeleteStatefulSetStep, WaitHostDeletedStep,
       DeletePVCStep, HostsDeletedStep, UninstallStep, UninstallPutStep, BeginStep,
       ReconcileHostStep, ClearStep, DropReplicasStep, DiscoveryStep, Zenon DEF Work
  <1>2. job[q] # None /\ UNCHANGED pending
    BY DEF Work, Cancelled, Dispatch, InstallFinalizer, InstallFinalizerPut, DeleteChi, DeleteStart,
       DeleteStartPut, DeleteHost, DeleteStatefulSet, WaitHostDeleted, DeletePVC, HostsDeleted,
       UninstallFinalizer, UninstallFinalizerPut, Begin, ReconcileHost, Clear, DropReplicas,
       DiscoveryAndDelete, At
  <1> QED
    BY <1>1, <1>2

-----------------------------------------------------------------------------
(* Users, queues, Kubernetes.                                              *)

\* Somebody who is no worker writes a CHI.
LEMMA OthersWrite ==
    ASSUME Served, NEW c \in Chis, NEW new \in ChiType, Exists(c), api[c].ts => new.ts,
           Write(c, new), job' = Stale(job, c), UNCHANGED <<created, objects, pending>>,
           spent' \in [{"edits", "notes", "crashes"} -> Nat]
    PROVE  Served'
  <1>1. ApiOK' /\ EventsOK' /\ Onward /\ \A d \in Chis \ {c} : api'[d] = api[d]
    BY Written DEF Served
  <1>2. PendingOK' /\ JobsOK'
    BY <1>1, WaitsStill, Staled DEF Served
  <1> QED
    BY <1>1, <1>2 DEF Served, ObjectsOK, objects

\* A user creates a CHI.
LEMMA CreateStep ==
    ASSUME Served, NEW c \in Chis, Create(c)
    PROVE  Served'
  <1>1. PICK s \in Specs, keep \in Keeping :
          LET new == [spec |-> s, fin |-> FALSE, foreign |-> c \in Foreign, ts |-> FALSE]
          IN  /\ c \notin born
              /\ born' = born \cup {c}
              /\ retained' = IF keep THEN retained \cup {c} ELSE retained
              /\ api' = [api EXCEPT ![c] = new]
              /\ events' = [events EXCEPT ![c] = Append(@, Command("add", None, new))]
              /\ UNCHANGED <<objects, pending, job, spent>>
    BY Zenon DEF Create
  <1> DEFINE new == [spec |-> s, fin |-> FALSE, foreign |-> c \in Foreign, ts |-> FALSE]
             word == Command("add", None, new)
  <1>2. new \in ChiType /\ new # None /\ ~new.ts
    <2>1. s \in SUBSET Hosts
      BY SpecsAssumption
    <2>2. PICK b \in BOOLEAN : b = (c \in Foreign)
      <3>1. ((c \in Foreign) = TRUE) \/ ((c \in Foreign) = FALSE)
        OBVIOUS
      <3> QED
        BY <3>1
    <2>3. [spec |-> s, fin |-> FALSE, foreign |-> b, ts |-> FALSE] \in ChiType
      BY <2>1 DEF ChiType
    <2> QED
      BY <2>2, <2>3, NoneAssumption
  <1>3. word \in Items(c)' /\ word \in Commands
    BY <1>2 DEF Items, Command, Commands
  <1>4. ApiOK'
    BY <1>1, <1>2 DEF Served, ApiOK, Exists
  <1>5. Onward
    BY <1>1, <1>2 DEF Served, ApiOK, Exists, Onward, Dying
  <1>6. events' = [events EXCEPT ![c] = Append(@, word)]
    BY <1>1
  <1>7. EventsOK'
    <2> HIDE DEF word
    <2>1. ASSUME NEW d \in Chis PROVE events'[d] \in Seq(Items(d)')
      <3>1. events[d] \in Seq(Items(d)')
        BY <1>5, MoreItems, SeqMore DEF Served, EventsOK
      <3>2. events'[d] = IF d = c THEN Append(events[d], word) ELSE events[d]
        BY <1>6 DEF Served, EventsOK
      <3> QED
        BY <1>3, <3>1, <3>2
    <2>2. events' \in [Chis -> Seq(Commands)]
      BY <1>3, <1>6 DEF Served, EventsOK
    <2> QED
      BY <2>1, <2>2 DEF EventsOK
  <1>8. PendingOK'
    BY <1>1, <1>5, WaitsStill DEF Served
  <1>9. JobsOK'
    <2>1. ASSUME NEW q \in Queues PROVE job'[q] # None => JobOK(q, job[q])'
      <3>1. PICK k : k = job[q]
        OBVIOUS
      <3>2. CASE k # None
        <4>1. JobOK(q, k) /\ k.chi \in Chis
          BY <3>1, <3>2 DEF Served, JobsOK, JobOK, Jobs
        <4>2. k.item \in Items(k.chi)'
          BY <1>5, <4>1, MoreItems DEF JobOK
        <4>3. Exists(k.chi) => Exists(k.chi)'
          BY <1>1, <1>2, <4>1 DEF Served, ApiOK, Exists
        <4>4. JobOK(q, k)'
          BY <4>1, <4>2, <4>3 DEF JobOK
        <4> QED
          BY <1>1, <3>1, <4>4
      <3> QED
        BY <1>1, <3>1, <3>2
    <2> QED
      BY <1>1, <2>1 DEF Served, JobsOK
  <1> QED
    BY <1>1, <1>4, <1>7, <1>8, <1>9 DEF Served, ObjectsOK, objects

\* What users and other controllers write to a CHI.
LEMMA WritersStep ==
    ASSUME Served, NEW c \in Chis, Edit(c) \/ Annotate(c) \/ Delete(c) \/ ForeignGone(c)
    PROVE  Served'
  <1>1. Exists(c) /\ api[c] \in ChiType
    BY DEF Edit, Annotate, Delete, ForeignGone, MayTouch, Exists, Served, ApiOK
  <1>2. CASE Edit(c)
    <2>1. PICK s \in Specs : /\ Write(c, [api[c] EXCEPT !.spec = s])
                             /\ spent' = [spent EXCEPT !["edits"] = @ + 1]
      BY <1>2 DEF Edit
    <2> DEFINE new == [api[c] EXCEPT !.spec = s]
    <2>2. new \in ChiType /\ new.ts = api[c].ts
      BY <1>1, SpecsAssumption DEF ChiType
    <2>3. spent' \in [{"edits", "notes", "crashes"} -> Nat]
      BY <2>1 DEF Served, ApiOK
    <2>4. Write(c, new)
      BY <2>1
    <2> HIDE DEF new
    <2> QED
      BY <1>1, <1>2, <2>2, <2>3, <2>4, OthersWrite DEF Edit
  <1>3. CASE Annotate(c)
    <2>1. spent' \in [{"edits", "notes", "crashes"} -> Nat]
      BY <1>3 DEF Annotate, Served, ApiOK
    <2> QED
      BY <1>1, <1>3, <2>1, OthersWrite DEF Annotate
  <1>4. CASE Delete(c)
    <2> DEFINE new == [api[c] EXCEPT !.ts = TRUE]
    <2>1. new \in ChiType /\ new.ts
      BY <1>1 DEF ChiType
    <2>2. Write(c, new) /\ spent' \in [{"edits", "notes", "crashes"} -> Nat]
      BY <1>4 DEF Delete, Served, ApiOK
    <2> HIDE DEF new
    <2> QED
      BY <1>1, <1>4, <2>1, <2>2, OthersWrite DEF Delete
  <1>5. CASE ForeignGone(c)
    <2> DEFINE new == [api[c] EXCEPT !.foreign = FALSE]
    <2>1. new \in ChiType /\ new.ts = api[c].ts
      BY <1>1 DEF ChiType
    <2>2. Write(c, new) /\ spent' \in [{"edits", "notes", "crashes"} -> Nat]
      BY <1>5 DEF ForeignGone, Served, ApiOK
    <2> HIDE DEF new
    <2> QED
      BY <1>1, <1>5, <2>1, <2>2, OthersWrite DEF ForeignGone
  <1> QED
    BY <1>2, <1>3, <1>4, <1>5

\* The API and what is said about it stay.
LEMMA SameItems ==
    ASSUME UNCHANGED <<api, created>>
    PROVE  \A c : Items(c)' = Items(c)
  BY DEF Items, Dying, created

\* An informer hands an event to the queue of its CHI.
LEMMA DeliverStep ==
    ASSUME Served, NEW c \in Chis, Deliver(c)
    PROVE  Served'
  <1> DEFINE item == Head(events[c])
  <1>1. /\ events[c] \in Seq(Items(c)) /\ events[c] # <<>> /\ events[c] \in Seq(Commands)
        /\ events' = [events EXCEPT ![c] = Tail(@)] /\ UNCHANGED <<api, created, objects, job, spent>>
    BY DEF Deliver, Served, EventsOK
  <1>2. item \in Items(c) /\ item \in Commands
    BY <1>1
  <1>3. EventsOK'
    <2>1. events' \in [Chis -> Seq(Commands)] /\ \A d \in Chis : events'[d] \in Seq(Items(d))
      BY <1>1 DEF Served, EventsOK
    <2> QED
      BY <1>1, <2>1, SameItems DEF EventsOK
  <1>4. pending' = pending \/ pending' = [pending EXCEPT ![Index[c]][c] = item]
    BY DEF Deliver, QueueOf
  <1>5. PendingOK'
    <2> HIDE DEF item
    <2>1. pending' \in [Queues -> [Chis -> Commands \cup {None}]]
      BY <1>2, <1>4 DEF Served, PendingOK
    <2>2. ASSUME NEW q \in Queues, NEW d \in Chis, pending'[q][d] # None
          PROVE  pending'[q][d] \in Items(d) /\ q = Index[d]
      <3>1. CASE q = Index[c] /\ d = c /\ pending'[q][d] = item
        BY <1>2, <3>1
      <3>2. CASE pending'[q][d] = pending[q][d]
        BY <2>2, <3>2 DEF Served, PendingOK
      <3> QED
        BY <1>4, <3>1, <3>2 DEF Served, PendingOK
    <2> QED
      BY <1>1, <2>1, <2>2, SameItems DEF PendingOK
  <1>6. ApiOK' /\ ObjectsOK'
    BY <1>1 DEF Served, ApiOK, ObjectsOK, Exists, created, objects
  <1>7. JobsOK'
    BY <1>1 DEF Served, JobsOK, JobOK, Items, Dying, Exists, created
  <1> QED
    BY <1>3, <1>5, <1>6, <1>7 DEF Served

\* An edit cancels the pass of the worker that runs it.
LEMMA CancelStep ==
    ASSUME Served, NEW q \in Queues, Cancel(q)
    PROVE  Moves(q) /\ Served' /\ UNCHANGED pending
  <1> DEFINE j == [job[q] EXCEPT !.done = TRUE]
  <1>1. job[q] # None /\ JobsOK /\ job[q] \in Jobs
    BY Known DEF Cancel, Served
  <1>2. /\ j \in Jobs /\ j.chi = job[q].chi /\ j.item = job[q].item
        /\ j.pc = job[q].pc /\ j.fresh = job[q].fresh
    BY <1>1 DEF Jobs
  <1>3. job' = [job EXCEPT ![q] = j]
    BY DEF Cancel
  <1> HIDE DEF j
  <1>4. JobOK(q, j)
    BY <1>1, <1>2, SameItem, Known, NoneAssumption
  <1>5. Moves(q)
    BY <1>2, <1>3, <1>4 DEF Moves
  <1> QED
    BY <1>5, Quietly DEF Cancel, Served, ObjectsOK, objects

\* A worker takes what waits in its queue.
LEMMA TakeStep ==
    ASSUME Served, NEW q \in Queues, Take(q)
    PROVE  Served'
  <1>1. PICK c \in Chis :
          /\ pending[q][c] # None
          /\ job' = [job EXCEPT ![q] = [chi |-> c, item |-> pending[q][c], pc |-> "dispatch",
                                        left |-> {}, done |-> FALSE, fresh |-> TRUE]]
          /\ pending' = [pending EXCEPT ![q][c] = None]
          /\ UNCHANGED <<api, created, events, objects, spent>>
    BY DEF Take
  <1> DEFINE j == [chi |-> c, item |-> pending[q][c], pc |-> "dispatch",
                   left |-> {}, done |-> FALSE, fresh |-> TRUE]
  <1>2. pending[q][c] \in Items(c) /\ pending[q][c] \in Commands /\ q = Index[c]
    BY <1>1 DEF Served, PendingOK, Items
  <1>3. JobOK(q, j)
    <2>1. j \in Jobs
      BY <1>2 DEF Jobs, Steps
    <2> QED
      BY <1>2, <2>1 DEF JobOK, Deletions
  <1>4. job' = [job EXCEPT ![q] = j]
    BY <1>1
  <1> HIDE DEF j
  <1>5. JobsOK'
    BY <1>1, <1>3, <1>4, OtherJob DEF Served, created
  <1>6. PendingOK'
    <2>1. pending' \in [Queues -> [Chis -> Commands \cup {None}]]
      BY <1>1 DEF Served, PendingOK
    <2>2. \A p \in Queues, d \in Chis : pending'[p][d] = pending[p][d] \/ pending'[p][d] = None
      BY <1>1 DEF Served, PendingOK
    <2> QED
      BY <1>1, <2>1, <2>2, SameItems DEF Served, PendingOK
  <1>7. ApiOK' /\ ObjectsOK' /\ EventsOK'
    BY <1>1, SameItems DEF Served, ApiOK, ObjectsOK, EventsOK, Exists, created, objects
  <1> QED
    BY <1>5, <1>6, <1>7 DEF Served

\* Kubernetes finishes deletions and collects what has no owner.
LEMMA ObjectsStep ==
    ASSUME Served, NEW c \in Chis, NEW h \in Hosts,
           StatefulSetGone(c, h) \/ PvcGone(c, h) \/ Collect(c, h)
    PROVE  Served'
  <1>1. ObjectsOK'
    <2>1. CASE StatefulSetGone(c, h)
      BY <2>1 DEF Served, ObjectsOK, StatefulSetGone, StsStates
    <2>2. CASE PvcGone(c, h)
      BY <2>2 DEF Served, ObjectsOK, PvcGone, PvcStates
    <2>3. CASE Collect(c, h)
      BY <2>3 DEF Served, ObjectsOK, Collect, StsStates
    <2> QED
      BY <2>1, <2>2, <2>3
  <1>2. UNCHANGED <<api, created, events, pending, job, spent>>
    BY DEF StatefulSetGone, PvcGone, Collect
  <1> QED
    BY <1>1, <1>2 DEF Served, ApiOK, EventsOK, PendingOK, JobsOK, JobOK, Items, Dying, Exists, created

\* The operator starts again: queues are empty and all CHIs are added.
LEMMA CrashStep ==
    ASSUME Served, Crash
    PROVE  Served'
  <1>1. /\ spent' = [spent EXCEPT !["crashes"] = @ + 1]
        /\ events' = [c \in Chis |-> IF Exists(c) THEN <<Command("add", None, api[c])>> ELSE <<>>]
        /\ pending' = [q \in Queues |-> [c \in Chis |-> None]]
        /\ job' = [q \in Queues |-> None]
        /\ UNCHANGED <<api, created, objects>>
    BY DEF Crash
  <1>2. ApiOK' /\ ObjectsOK' /\ PendingOK' /\ JobsOK'
    BY <1>1 DEF Served, ApiOK, ObjectsOK, PendingOK, JobsOK, Exists, created, objects
  <1>3. ASSUME NEW c \in Chis, Exists(c)
        PROVE  Command("add", None, api[c]) \in Items(c)
    BY <1>3 DEF Served, ApiOK, Exists, Items, Dying, Command, Commands
  <1>4. ASSUME NEW c \in Chis
        PROVE  events'[c] \in Seq(Items(c)) /\ events'[c] \in Seq(Commands)
    <2>1. CASE Exists(c)
      <3>1. PICK i : i = Command("add", None, api[c])
        OBVIOUS
      <3>2. i \in Items(c) /\ i \in Commands
        BY <1>3, <2>1, <3>1 DEF Items
      <3>3. <<i>> \in Seq(Items(c)) /\ <<i>> \in Seq(Commands)
        BY <3>2
      <3> QED
        BY <1>1, <2>1, <3>1, <3>3
    <2>2. CASE ~Exists(c)
      BY <1>1, <2>2
    <2> QED
      BY <2>1, <2>2
  <1>5. EventsOK'
    BY <1>1, <1>4, SameItems DEF EventsOK
  <1> QED
    BY <1>2, <1>5 DEF Served

\* Nothing exists and nobody works at first.
LEMMA ServedInit == Init => Served
  <1> SUFFICES ASSUME Init PROVE Served
    OBVIOUS
  <1>1. ApiOK /\ ObjectsOK /\ PendingOK /\ JobsOK
    BY DEF Init, ApiOK, ObjectsOK, PendingOK, JobsOK, StsStates, PvcStates, Exists
  <1>2. EventsOK
    BY DEF Init, EventsOK
  <1> QED
    BY <1>1, <1>2 DEF Served

\* Every step keeps what workers serve valid.
LEMMA ServedNext == Served /\ [Next]_vars => Served'
  <1> SUFFICES ASSUME Served, [Next]_vars PROVE Served'
    OBVIOUS
  <1>1. CASE Crash
    BY <1>1, CrashStep
  <1>2. ASSUME NEW c \in Chis, User(c) \/ Deliver(c) \/ Kubernetes(c) PROVE Served'
    BY <1>2, CreateStep, WritersStep, DeliverStep, ObjectsStep DEF User, Kubernetes
  <1>3. ASSUME NEW q \in Queues, Cancel(q) \/ Take(q) \/ Work(q) PROVE Served'
    BY <1>3, CancelStep, TakeStep, WorkStep
  <1>4. CASE UNCHANGED vars
    <2>1. ApiOK' /\ ObjectsOK' /\ EventsOK' /\ PendingOK'
      BY <1>4, SameItems DEF vars, created, Served, ApiOK, ObjectsOK, EventsOK, PendingOK, Exists
    <2>2. \A q, j : JobOK(q, j)' <=> JobOK(q, j)
      BY <1>4 DEF vars, JobOK, Items, Dying, Exists
    <2> QED
      BY <1>4, <2>1, <2>2 DEF vars, Served, JobsOK
  <1> QED
    BY <1>1, <1>2, <1>3, <1>4 DEF Next

\* Every variable keeps to its type: no worker reads the new version of a
\* deleted CHI, or writes a CHI that is not there.
THEOREM ControllerTypeCorrect == Spec => []TypeOK
  BY ServedInit, ServedNext, ServedTyped, PTL DEF Spec

-----------------------------------------------------------------------------
(* Replicas are dropped.                                                   *)

\* Only a worker that found its CHI gone or deleted drops the path of a
\* host whose PVC is bound.
LEMMA DropStep ==
    ASSUME "list" \notin Faults, Served, [Next]_vars, NEW c \in Chis, NEW h \in paths[c] \ paths'[c],
           pvc[c][h] = "bound"
    PROVE  ~Exists(c) \/ api[c].ts
  <1>1. paths' # paths
    OBVIOUS
  <1>2. PICK q \in Queues : DeleteHost(q) \/ ReconcileHost(q) \/ DropReplicas(q)
    <2>1. CASE Crash
      BY <1>1, <2>1 DEF Crash, objects
    <2>2. ASSUME NEW d \in Chis, User(d) \/ Deliver(d) \/ Kubernetes(d) PROVE FALSE
      BY <1>1, <2>2 DEF User, Create, Edit, Annotate, Delete, Deliver, Kubernetes, ForeignGone,
         StatefulSetGone, PvcGone, Collect, objects
    <2>3. ASSUME NEW q \in Queues, Cancel(q) \/ Take(q) PROVE FALSE
      BY <1>1, <2>3 DEF Cancel, Take, objects
    <2>4. ASSUME NEW q \in Queues, Work(q)
          PROVE  DeleteHost(q) \/ ReconcileHost(q) \/ DropReplicas(q)
      BY <1>1, <2>4 DEF Work, Cancelled, Dispatch, InstallFinalizer, InstallFinalizerPut, DeleteChi,
         DeleteStart, DeleteStartPut, DeleteStatefulSet, WaitHostDeleted, DeletePVC, HostsDeleted,
         UninstallFinalizer, UninstallFinalizerPut, Begin, Clear, DiscoveryAndDelete, objects
    <2>5. CASE UNCHANGED vars
      BY <1>1, <2>5 DEF vars
    <2> QED
      BY <2>1, <2>2, <2>3, <2>4, <2>5 DEF Next
  <1>3. JobsOK /\ job[q] # None /\ Chi(q) \in Chis /\ paths \in [Chis -> SUBSET Hosts]
    BY <1>2, Known DEF DeleteHost, ReconcileHost, DropReplicas, At, Served, ObjectsOK
  <1>4. CASE DeleteHost(q)
    <2>1. Dying(Chi(q))
      BY <1>3, <1>4, Known DEF DeleteHost, At, Deletions
    <2>2. c = Chi(q)
      BY <1>3, <1>4 DEF DeleteHost
    <2> QED
      BY <2>1, <2>2 DEF Dying, Exists
  <1>5. CASE ReconcileHost(q)
    BY <1>3, <1>5 DEF ReconcileHost, objects
  <1>6. CASE DropReplicas(q)
    BY <1>3, <1>6 DEF DropReplicas, CanDropReplica, MayFail
  <1> QED
    BY <1>2, <1>4, <1>5, <1>6

\* While a CHI lives no replica whose volume is there is dropped from
\* ZooKeeper, as long as the volumes can be listed.
THEOREM DataSpared ==
    ASSUME "list" \notin Faults
    PROVE  Spec => DropSparesData
  <1>1. Served /\ [Next]_vars =>
          [\A c \in Chis : \A h \in paths[c] \ paths'[c] :
               pvc[c][h] = "bound" => ~Exists(c) \/ api[c].ts]_vars
    BY DropStep
  <1> QED
    BY ServedInit, ServedNext, <1>1, PTL DEF Spec, DropSparesData

-----------------------------------------------------------------------------
(* Queues and workers are mailboxes.                                       *)

\* What waits in the queues p, and what is served by the jobs j.
Waiting(p) == [c \in Chis |-> {p[q][c] : q \in Queues} \ {None}]
Serving(j) == [c \in Chis |-> {k.item : k \in {j[q] : q \in {p \in Queues :
                                    j[p] # None /\ j[p].chi = c}}}]

\* What waits for a CHI is in the queue its name is hashed to.
LEMMA WaitingAt ==
    ASSUME NEW p, NEW c \in Chis, \A q \in Queues : p[q][c] # None => q = Index[c]
    PROVE  Waiting(p)[c] = IF p[Index[c]][c] = None THEN {} ELSE {p[Index[c]][c]}
  BY QueuesAssumption DEF Waiting

\* What is served of a CHI is with the worker of that queue.
LEMMA ServingAt ==
    ASSUME NEW j, NEW c \in Chis, \A q \in Queues : j[q] # None => q = Index[j[q].chi]
    PROVE  Serving(j)[c] = IF j[Index[c]] # None /\ j[Index[c]].chi = c
                           THEN {j[Index[c]].item} ELSE {}
  <1>1. Index[c] \in Queues
    BY QueuesAssumption
  <1>2. {p \in Queues : j[p] # None /\ j[p].chi = c}
          = IF j[Index[c]] # None /\ j[Index[c]].chi = c THEN {Index[c]} ELSE {}
    BY <1>1
  <1> QED
    BY <1>2 DEF Serving

\* A worker that does not change what it works on changes no mailbox.
LEMMA SameServing ==
    ASSUME NEW j, NEW k,
           \A q \in Queues : /\ j[q] # None <=> k[q] # None
                             /\ j[q] # None => k[q].chi = j[q].chi /\ k[q].item = j[q].item
    PROVE  Serving(j) = Serving(k)
  <1>1. ASSUME NEW c \in Chis PROVE Serving(j)[c] = Serving(k)[c]
    BY DEF Serving
  <1> QED
    BY <1>1 DEF Serving

\* Neither waits nor is served anywhere else.
LEMMA Hashed ==
    ASSUME Served
    PROVE  /\ \A c \in Chis, q \in Queues : pending[q][c] # None => q = Index[c]
           /\ \A q \in Queues : job[q] # None => q = Index[job[q].chi]
  BY DEF Served, PendingOK, JobsOK, JobOK

\* A command that comes is put into the box of its CHI.
LEMMA PutStep ==
    ASSUME Served, Served', NEW c \in Chis, Deliver(c)
    PROVE  Box!Put(c) \/ UNCHANGED <<Waiting(pending), Serving(job)>>
  <1>1. UNCHANGED Serving(job)
    BY DEF Deliver
  <1>2. CASE pending' = pending
    BY <1>1, <1>2
  <1>3. CASE pending' = [pending EXCEPT ![Index[c]][c] = Head(events[c])]
    <2> DEFINE item == Head(events[c])
    <2>1. item \in Commands /\ item # None
      BY NothingAssumption DEF Deliver, Served, EventsOK
    <2> HIDE DEF item
    <2>2. pending' = [pending EXCEPT ![Index[c]][c] = item]
      BY <1>3 DEF item
    <2>3. ASSUME NEW d \in Chis
          PROVE  Waiting(pending')[d] = IF d = c THEN {item} ELSE Waiting(pending)[d]
      <3>1. Index[c] \in Queues /\ Index[d] \in Queues
        BY QueuesAssumption
      <3>2. Waiting(pending)[d] = IF pending[Index[d]][d] = None THEN {} ELSE {pending[Index[d]][d]}
        BY Hashed, WaitingAt
      <3>3. Waiting(pending')[d]
              = IF pending'[Index[d]][d] = None THEN {} ELSE {pending'[Index[d]][d]}
        <4>1. \A q \in Queues : pending'[q][d] # None => q = Index[d]
          BY DEF Served, PendingOK
        <4> QED
          BY <4>1, WaitingAt
      <3> QED
        BY <2>1, <2>2, <3>1, <3>2, <3>3 DEF Served, PendingOK
    <2>4. Waiting(pending') = [Waiting(pending) EXCEPT ![c] = {item}]
      BY <2>3 DEF Waiting
    <2>5. \E m \in Waiting(pending')[c] :
             m \in Commands /\ Waiting(pending') = [Waiting(pending) EXCEPT ![c] = {m}]
      BY <2>1, <2>3, <2>4
    <2> QED
      BY <1>1, <2>5 DEF Box!Put, Waiting, Serving
  <1> QED
    BY <1>2, <1>3 DEF Deliver, QueueOf

\* A worker takes a command out of the box when it has none of that CHI.
LEMMA TakesStep ==
    ASSUME Served, Served', NEW q \in Queues, Take(q)
    PROVE  \E c \in Chis : Box!Take(c)
  <1>1. PICK c \in Chis :
          /\ job[q] = None
          /\ pending[q][c] # None
          /\ job' = [job EXCEPT ![q] = [chi |-> c, item |-> pending[q][c], pc |-> "dispatch",
                                        left |-> {}, done |-> FALSE, fresh |-> TRUE]]
          /\ pending' = [pending EXCEPT ![q][c] = None]
    BY DEF Take
  <1>2. q = Index[c] /\ pending[q][c] \in Commands
    BY <1>1 DEF Served, PendingOK, Items
  <1>3. job'[q] # None /\ job'[q].chi = c /\ job'[q].item = pending[q][c]
    <2> DEFINE j == [chi |-> c, item |-> pending[q][c], pc |-> "dispatch",
                     left |-> {}, done |-> FALSE, fresh |-> TRUE]
    <2>1. j \in Jobs /\ j.chi = c /\ j.item = pending[q][c]
      BY <1>2 DEF Jobs, Steps
    <2>2. job'[q] = j
      BY <1>1 DEF Served, JobsOK
    <2> HIDE DEF j
    <2> QED
      BY <2>1, <2>2, NothingAssumption
  <1>4. ASSUME NEW d \in Chis
        PROVE  /\ Waiting(pending')[d] = IF d = c THEN {} ELSE Waiting(pending)[d]
               /\ Serving(job')[d] = IF d = c THEN {pending[q][c]} ELSE Serving(job)[d]
    <2>1. Index[d] \in Queues
      BY QueuesAssumption
    <2>2. Waiting(pending)[d] = IF pending[Index[d]][d] = None THEN {} ELSE {pending[Index[d]][d]}
      BY Hashed, WaitingAt
    <2>3. Serving(job)[d] = IF job[Index[d]] # None /\ job[Index[d]].chi = d
                            THEN {job[Index[d]].item} ELSE {}
      BY Hashed, ServingAt
    <2>4. Waiting(pending')[d]
            = IF pending'[Index[d]][d] = None THEN {} ELSE {pending'[Index[d]][d]}
      <3>1. \A p \in Queues : pending'[p][d] # None => p = Index[d]
        BY DEF Served, PendingOK
      <3> QED
        BY <3>1, WaitingAt
    <2>5. Serving(job')[d] = IF job'[Index[d]] # None /\ job'[Index[d]].chi = d
                             THEN {job'[Index[d]].item} ELSE {}
      <3>1. \A p \in Queues : job'[p] # None => p = Index[job'[p].chi]
        BY DEF Served, JobsOK, JobOK
      <3> QED
        BY <3>1, ServingAt
    <2>6. pending'[Index[d]][d] = IF d = c THEN None ELSE pending[Index[d]][d]
      BY <1>1, <1>2, <2>1 DEF Served, PendingOK
    <2>7. Index[d] # q => job'[Index[d]] = job[Index[d]]
      BY <1>1, <2>1 DEF Served, JobsOK
    <2> QED
      BY <1>1, <1>2, <1>3, <2>2, <2>3, <2>4, <2>5, <2>6, <2>7
  <1>5. Waiting(pending)[c] = {pending[q][c]} /\ Serving(job)[c] = {}
    <2>1. Waiting(pending)[c] = IF pending[Index[c]][c] = None THEN {} ELSE {pending[Index[c]][c]}
      BY Hashed, WaitingAt
    <2>2. Serving(job)[c] = IF job[Index[c]] # None /\ job[Index[c]].chi = c
                            THEN {job[Index[c]].item} ELSE {}
      BY Hashed, ServingAt
    <2> QED
      BY <1>1, <1>2, <2>1, <2>2
  <1>6. /\ Waiting(pending') = [Waiting(pending) EXCEPT ![c] = {}]
        /\ Serving(job') = [Serving(job) EXCEPT ![c] = Waiting(pending)[c]]
    BY <1>4, <1>5 DEF Waiting, Serving
  <1>7. Waiting(pending)[c] # {}
    BY <1>5
  <1>8. Box!Take(c)
    BY <1>5, <1>6, <1>7 DEF Box!Take, Waiting, Serving
  <1> QED
    BY <1>8

\* The work on a command goes on or ends.
LEMMA MovesStep ==
    ASSUME Served, Served', NEW q \in Queues, Moves(q), job[q] # None, UNCHANGED pending
    PROVE  (\E c \in Chis : Box!Finish(c)) \/ UNCHANGED <<Waiting(pending), Serving(job)>>
  <1>1. PICK j : /\ job' = [job EXCEPT ![q] = j]
                 /\ \/ j = None
                    \/ JobOK(q, j) /\ j.chi = job[q].chi /\ j.item = job[q].item
    BY DEF Moves
  <1>2. \A p \in Queues : job'[p] = IF p = q THEN j ELSE job[p]
    BY <1>1 DEF Served, JobsOK
  <1>3. CASE j # None
    <2>1. \A p \in Queues : /\ job[p] # None <=> job'[p] # None
                            /\ job[p] # None => job'[p].chi = job[p].chi /\ job'[p].item = job[p].item
      BY <1>1, <1>2, <1>3
    <2>2. Serving(job) = Serving(job')
      BY <2>1, SameServing
    <2> QED
      BY <2>2
  <1>4. CASE j = None
    <2>1. PICK c \in Chis : c = Chi(q) /\ q = Index[c]
      BY Known, Hashed DEF Served, Chi
    <2>2. ASSUME NEW d \in Chis
          PROVE  Serving(job')[d] = IF d = c THEN {} ELSE Serving(job)[d]
      <3>1. Index[d] \in Queues
        BY QueuesAssumption
      <3>2. Serving(job)[d] = IF job[Index[d]] # None /\ job[Index[d]].chi = d
                              THEN {job[Index[d]].item} ELSE {}
        BY Hashed, ServingAt
      <3>3. \A p \in Queues : job'[p] # None => p = Index[job'[p].chi]
        BY DEF Served, JobsOK, JobOK
      <3>4. Serving(job')[d] = IF job'[Index[d]] # None /\ job'[Index[d]].chi = d
                               THEN {job'[Index[d]].item} ELSE {}
        BY <3>3, ServingAt
      <3> QED
        BY <1>2, <1>4, <2>1, <3>1, <3>2, <3>4 DEF Chi
    <2>3. Serving(job') = [Serving(job) EXCEPT ![c] = {}]
      BY <2>2 DEF Serving
    <2>4. Serving(job)[c] # {}
      <3>1. Serving(job)[c] = IF job[Index[c]] # None /\ job[Index[c]].chi = c
                              THEN {job[Index[c]].item} ELSE {}
        BY Hashed, ServingAt
      <3> QED
        BY <2>1, <3>1 DEF Chi
    <2>5. Box!Finish(c)
      BY <2>3, <2>4 DEF Box!Finish, Waiting, Serving
    <2> QED
      BY <2>1, <2>5
  <1> QED
    BY <1>3, <1>4

\* Empty queues and idle workers make empty mailboxes.
LEMMA EmptyBoxes ==
    ASSUME NEW p, p = [q \in Queues |-> [c \in Chis |-> None]],
           NEW j, j = [q \in Queues |-> None]
    PROVE  Waiting(p) = [c \in Chis |-> {}] /\ Serving(j) = [c \in Chis |-> {}]
  <1>1. Waiting(p) = [c \in Chis |-> {}]
    BY DEF Waiting
  <1>2. Serving(j) = [c \in Chis |-> {}]
    BY DEF Serving
  <1> QED
    BY <1>1, <1>2

\* Users and Kubernetes leave commands that wait or are served as they are.
LEMMA OutsideStep ==
    ASSUME Served, NEW c \in Chis, User(c) \/ Kubernetes(c)
    PROVE  UNCHANGED <<Waiting(pending), Serving(job)>>
  <1>1. pending' = pending /\ (job' = job \/ job' = Stale(job, c))
    BY DEF User, Create, Edit, Annotate, Delete, Kubernetes, ForeignGone, StatefulSetGone, PvcGone,
       Collect
  <1>2. CASE job' = Stale(job, c)
    <2>1. ASSUME NEW q \in Queues
          PROVE  /\ job[q] # None <=> job'[q] # None
                 /\ job[q] # None => job'[q].chi = job[q].chi /\ job'[q].item = job[q].item
      <3>1. job'[q] = IF job[q] # None /\ job[q].chi = c
                      THEN [job[q] EXCEPT !.fresh = FALSE] ELSE job[q]
        BY <1>2 DEF Stale
      <3>2. CASE job[q] # None
        <4> DEFINE k == [job[q] EXCEPT !.fresh = FALSE]
        <4>1. job[q] \in Jobs
          BY <3>2, Known DEF Served
        <4>2. k \in Jobs /\ k.chi = job[q].chi /\ k.item = job[q].item
          BY <4>1 DEF Jobs
        <4> HIDE DEF k
        <4>3. job'[q] = k \/ job'[q] = job[q]
          BY <3>1 DEF k
        <4> QED
          BY <3>2, <4>2, <4>3, NothingAssumption
      <3> QED
        BY <3>1, <3>2
    <2>2. Serving(job) = Serving(job')
      BY <2>1, SameServing
    <2> QED
      BY <1>1, <2>2
  <1> QED
    BY <1>1, <1>2

\* The queues are mailboxes at first,
LEMMA BoxInit == Init => Box!Init
  <1> SUFFICES ASSUME Init PROVE Box!Init
    OBVIOUS
  <1>1. Waiting(pending) = [c \in Chis |-> {}] /\ Serving(job) = [c \in Chis |-> {}]
    BY EmptyBoxes DEF Init
  <1> QED
    BY <1>1 DEF Box!Init, Waiting, Serving

\* and every step of the operator is one of a mailbox or none.
LEMMA BoxNext == Served /\ Served' /\ [Next]_vars => [Box!Next]_(Box!vars)
  <1> SUFFICES ASSUME Served, Served', [Next]_vars PROVE [Box!Next]_(Box!vars)
    OBVIOUS
  <1>1. UNCHANGED <<Waiting(pending), Serving(job)>> => UNCHANGED Box!vars
    BY DEF Box!vars, Waiting, Serving
  <1>2. CASE Crash
    <2>1. Waiting(pending') = [c \in Chis |-> {}] /\ Serving(job') = [c \in Chis |-> {}]
      BY <1>2, EmptyBoxes DEF Crash
    <2>2. Box!Reset
      BY <2>1 DEF Box!Reset, Waiting, Serving
    <2> QED
      BY <2>2 DEF Box!Next
  <1>3. ASSUME NEW c \in Chis, User(c) \/ Deliver(c) \/ Kubernetes(c)
        PROVE  [Box!Next]_(Box!vars)
    BY <1>1, <1>3, PutStep, OutsideStep DEF Box!Next
  <1>4. ASSUME NEW q \in Queues, Cancel(q) \/ Take(q) \/ Work(q)
        PROVE  [Box!Next]_(Box!vars)
    <2>1. CASE Take(q)
      BY <2>1, TakesStep DEF Box!Next
    <2>2. CASE Cancel(q) \/ Work(q)
      <3>1. Moves(q) /\ job[q] # None /\ UNCHANGED pending
        BY <2>2, CancelStep, WorkStep DEF Cancel
      <3> QED
        BY <1>1, <3>1, MovesStep DEF Box!Next
    <2> QED
      BY <1>4, <2>1, <2>2
  <1>5. CASE UNCHANGED vars
    BY <1>1, <1>5 DEF vars
  <1> QED
    BY <1>2, <1>3, <1>4, <1>5 DEF Next

\* Queues and workers of any number are one mailbox per CHI: the newest command
\* alone waits, and no two workers serve one CHI. That what waits is served is
\* left to the runs.
THEOREM MailboxKept == Spec => Box!Spec
  <1>1. Served /\ [Next]_vars => Served'
    BY ServedNext
  <1>2. Served /\ Served' /\ [Next]_vars => [Box!Next]_(Box!vars)
    BY BoxNext
  <1> QED
    BY ServedInit, BoxInit, <1>1, <1>2, PTL DEF Spec, Box!Spec

-----------------------------------------------------------------------------
(* The finalizer outlives the StatefulSets.                                *)

\* Nobody touches a CHI that is being deleted, and the calls to Kubernetes
\* succeed.
Undisturbed == {"api", "kube"} \cap Faults = {} /\ ~Meddling /\ Foreign = {}

Unforeign == \A c \in Chis : Exists(c) => ~api[c].foreign

Gone(q, h) == sts[Chi(q)][h] = "none"

\* The hosts a worker has been through are gone.
Torn(q) ==
  job[q] # None =>
    /\ job[q].pc = "terminatingPut" => job[q].fresh
    /\ job[q].pc \in {"host", "scaled", "gone", "volume"} =>
          \A h \in New(q).spec \ job[q].left : Gone(q, h)
    /\ job[q].pc \in {"scaled", "gone", "volume"} => job[q].left # {}
    /\ job[q].pc = "volume" => Gone(q, Host(q))
    /\ job[q].pc \in {"release", "releasePut"} => \A h \in New(q).spec : Gone(q, h)

Emptied == Unforeign /\ \A q \in Queues : Torn(q)

\* Only the worker of a CHI makes StatefulSets for it.
LEMMA StaysGone ==
    ASSUME Served, [Next]_vars, NEW q \in Queues, job[q] # None, job[q].pc # "build",
           NEW h \in Hosts, Gone(q, h)
    PROVE  sts'[Chi(q)][h] = "none"
  <1> DEFINE c == Chi(q)
  <1>1. c \in Chis /\ q = Index[c] /\ sts \in [Chis -> [Hosts -> StsStates]]
    BY Known, Hashed DEF Served, Chi, ObjectsOK
  <1>2. CASE sts' = sts
    BY <1>2 DEF Gone
  <1>3. ASSUME NEW d \in Chis, NEW k \in Hosts, StatefulSetGone(d, k) \/ Collect(d, k)
        PROVE  sts'[c][h] = "none"
    BY <1>1, <1>3 DEF StatefulSetGone, Collect, Gone
  <1>4. ASSUME NEW p \in Queues, Work(p), sts' # sts
        PROVE  sts'[c][h] = "none"
    <2>1. job[p] # None /\ Chi(p) \in Chis /\ (Chi(p) = c => p = q)
      BY <1>1, <1>4, WorkStep, Known, Hashed DEF Served, Chi
    <2>2. \/ DeleteHost(p) \/ DeleteStatefulSet(p) \/ ReconcileHost(p) \/ Clear(p)
          \/ DiscoveryAndDelete(p)
      BY <1>4 DEF Work, Cancelled, Dispatch, InstallFinalizer, InstallFinalizerPut, DeleteChi,
         DeleteStart, DeleteStartPut, WaitHostDeleted, DeletePVC, HostsDeleted,
         UninstallFinalizer, UninstallFinalizerPut, Begin, DropReplicas, objects
    <2>3. CASE DeleteHost(p)
      <3>1. sts' = [sts EXCEPT ![Chi(p)][Host(p)] = IF @ = "up" THEN "down" ELSE @]
        BY <1>4, <2>3 DEF DeleteHost
      <3> QED
        BY <1>1, <2>1, <3>1 DEF Gone
    <2>4. CASE DeleteStatefulSet(p)
      <3>1. sts' = [sts EXCEPT ![Chi(p)][Host(p)] = IF @ = "none" THEN @ ELSE "leaving"]
        BY <1>4, <2>4 DEF DeleteStatefulSet
      <3> QED
        BY <1>1, <2>1, <3>1 DEF Gone
    <2>5. CASE ReconcileHost(p)
      <3>1. Chi(p) # c
        BY <2>1, <2>5 DEF ReconcileHost, At
      <3>2. sts' = [sts EXCEPT ![Chi(p)][Host(p)] = IF @ = "none" THEN "up" ELSE @]
        BY <1>4, <2>5 DEF ReconcileHost, objects
      <3> QED
        BY <1>1, <2>1, <3>1, <3>2 DEF Gone
    <2>6. ASSUME NEW hosts, sts' = [sts EXCEPT ![Chi(p)] = Doomed(@, hosts, {"up", "down"})]
          PROVE  sts'[c][h] = "none"
      <3>1. CASE Chi(p) # c
        BY <1>1, <2>1, <2>6, <3>1 DEF Gone
      <3>2. CASE Chi(p) = c
        <4>1. sts'[c] = Doomed(sts[c], hosts, {"up", "down"})
          BY <1>1, <2>6, <3>2
        <4> QED
          BY <4>1 DEF Doomed, Gone
      <3> QED
        BY <3>1, <3>2
    <2>7. CASE Clear(p)
      BY <1>4, <2>6, <2>7 DEF Clear, PurgeObjects
    <2>8. CASE DiscoveryAndDelete(p)
      BY <1>4, <2>6, <2>8 DEF DiscoveryAndDelete, PurgeObjects
    <2> QED
      BY <2>2, <2>3, <2>4, <2>5, <2>7, <2>8
  <1>5. sts' = sts \/ (\E d \in Chis, k \in Hosts : StatefulSetGone(d, k) \/ Collect(d, k))
        \/ (\E p \in Queues : Work(p))
    BY DEF Next, vars, Crash, User, Create, Edit, Annotate, Delete, Deliver, Kubernetes, ForeignGone,
       PvcGone, Cancel, Take, objects
  <1> QED
    BY <1>2, <1>3, <1>4, <1>5

\* What a worker has walked through stays gone while it walks.
LEMMA StillGone ==
    ASSUME Served, [Next]_vars, NEW q \in Queues, job[q] # None, job[q].pc \in Deletions
    PROVE  \A h \in Hosts : Gone(q, h) => sts'[Chi(q)][h] = "none"
  BY StaysGone DEF Deletions

\* The job of a worker after a step.
LEMMA Lands ==
    ASSUME JobsOK, NEW q \in Queues, job[q] # None, NEW pc \in Steps, Goto(q, pc)
    PROVE  /\ job'[q] # None /\ job'[q].chi = job[q].chi /\ job'[q].item = job[q].item
           /\ job'[q].pc = pc /\ job'[q].left = job[q].left /\ job'[q].fresh = job[q].fresh
  <1> DEFINE j == [job[q] EXCEPT !.pc = pc]
  <1>1. job[q] \in Jobs
    BY Known
  <1>2. /\ j \in Jobs /\ j.chi = job[q].chi /\ j.item = job[q].item /\ j.pc = pc
        /\ j.left = job[q].left /\ j.fresh = job[q].fresh
    BY <1>1 DEF Jobs
  <1>3. job'[q] = j
    BY DEF Goto, JobsOK
  <1> HIDE DEF j
  <1> QED
    BY <1>2, <1>3, NothingAssumption

\* A worker that goes on to the hosts left keeps its command.
LEMMA LandsWalking ==
    ASSUME JobsOK, NEW q \in Queues, job[q] # None, NEW left \in SUBSET Hosts,
           job' = [job EXCEPT ![q].pc = "host", ![q].left = left]
    PROVE  /\ job'[q] # None /\ job'[q].chi = job[q].chi /\ job'[q].item = job[q].item
           /\ job'[q].pc = "host" /\ job'[q].left = left
  <1> DEFINE j == [job[q] EXCEPT !.pc = "host", !.left = left]
  <1>1. job[q] \in Jobs
    BY Known
  <1>2. /\ j \in Jobs /\ j.chi = job[q].chi /\ j.item = job[q].item /\ j.pc = "host"
        /\ j.left = left
    BY <1>1 DEF Jobs, Steps
  <1>3. job'[q] = j
    BY <1>1 DEF JobsOK, Jobs
  <1> HIDE DEF j
  <1> QED
    BY <1>2, <1>3, NothingAssumption

\* A worker that read its CHI anew keeps its command and its walk.
LEMMA LandsReading ==
    ASSUME JobsOK, NEW q \in Queues, job[q] # None, NEW pc \in Steps,
           job' = [job EXCEPT ![q].pc = pc, ![q].fresh = TRUE]
    PROVE  /\ job'[q] # None /\ job'[q].chi = job[q].chi /\ job'[q].item = job[q].item
           /\ job'[q].pc = pc /\ job'[q].left = job[q].left /\ job'[q].fresh = TRUE
  <1> DEFINE j == [job[q] EXCEPT !.pc = pc, !.fresh = TRUE]
  <1>1. job[q] \in Jobs
    BY Known
  <1>2. /\ j \in Jobs /\ j.chi = job[q].chi /\ j.item = job[q].item /\ j.pc = pc
        /\ j.left = job[q].left /\ j.fresh = TRUE
    BY <1>1 DEF Jobs
  <1>3. job'[q] = j
    BY <1>1 DEF JobsOK, Jobs
  <1> HIDE DEF j
  <1> QED
    BY <1>2, <1>3, NothingAssumption

\* A worker that goes on to the next host has left one that is gone.
LEMMA NextHostTorn ==
    ASSUME Served, [Next]_vars, NEW q \in Queues, job[q] # None, Torn(q), NextHost(q),
           job[q].pc \in {"host", "volume"}, job[q].left # {}, Gone(q, Host(q))
    PROVE  Torn(q)'
  <1> DEFINE left == job[q].left \ {Host(q)}
  <1>1. /\ JobsOK /\ job[q].left \subseteq Hosts /\ New(q) \in ChiType
        /\ job[q].pc \in Deletions
    BY Known DEF Served, Deletions
  <1>2. left \in SUBSET Hosts /\ New(q).spec \subseteq Hosts
    BY <1>1 DEF ChiType
  <1>3. job' = [job EXCEPT ![q].pc = "host", ![q].left = left]
    BY <1>1, Known DEF NextHost, JobsOK, Jobs
  <1>4. \A h \in New(q).spec \ left : Gone(q, h)
    BY <1>1 DEF Torn
  <1>5. \A h \in New(q).spec \ left : sts'[Chi(q)][h] = "none"
    BY <1>1, <1>2, <1>4, StillGone
  <1> HIDE DEF left
  <1>6. /\ job'[q].chi = job[q].chi /\ job'[q].item = job[q].item
        /\ job'[q].pc = "host" /\ job'[q].left = left
    BY <1>1, <1>2, <1>3, LandsWalking
  <1> QED
    BY <1>5, <1>6 DEF Torn, Gone, Chi, New

\* A worker that starts with all hosts.
LEMMA TeardownTorn ==
    ASSUME Served, NEW q \in Queues, job[q] # None, job[q].pc \in Deletions, Teardown(q)
    PROVE  Torn(q)'
  <1>1. JobsOK /\ New(q).spec \in SUBSET Hosts
    BY Known DEF Served, Deletions, ChiType
  <1>2. /\ job'[q].chi = job[q].chi /\ job'[q].item = job[q].item
        /\ job'[q].pc = "host" /\ job'[q].left = New(q).spec
    BY <1>1, LandsWalking DEF Teardown
  <1> QED
    BY <1>2 DEF Torn, Gone, Chi, New

\* What a step of the worker leaves of the CHI is gone.
LEMMA WorkTorn ==
    ASSUME Undisturbed, Served, [Next]_vars, NEW q \in Queues, Torn(q), Work(q)
    PROVE  Torn(q)'
  <1>1. job[q] # None /\ JobsOK
    BY WorkStep DEF Served
  <1>2. CASE job'[q] = None
    BY <1>2 DEF Torn
  <1>3. ASSUME NEW pc \in Steps, Goto(q, pc), pc \notin Deletions
        PROVE  Torn(q)'
    BY <1>1, <1>3, Lands DEF Torn, Deletions
  <1>4. CASE Dispatch(q)
    <2> DEFINE pc == IF job[q].item.cmd = "delete" THEN "discover"
                     ELSE IF New(q).ts THEN "confirm"
                     ELSE IF ~New(q).fin THEN "install"
                     ELSE "begin"
    <2>1. Goto(q, pc) /\ pc \in Steps
      BY <1>4 DEF Dispatch, Steps
    <2>2. pc \in {"discover", "confirm", "install", "begin"}
      OBVIOUS
    <2> HIDE DEF pc
    <2>3. job'[q].pc = pc
      BY <1>1, <2>1, Lands
    <2> QED
      BY <2>2, <2>3 DEF Torn
  <1>5. CASE InstallFinalizer(q) \/ InstallFinalizerPut(q)
    <2>1. \/ Goto(q, "begin") \/ Finish(q)
          \/ job' = [job EXCEPT ![q].pc = "installPut", ![q].fresh = TRUE]
      BY <1>5 DEF InstallFinalizer, InstallFinalizerPut
    <2>2. CASE Goto(q, "begin")
      BY <1>3, <2>2 DEF Steps, Deletions
    <2>3. CASE Finish(q)
      BY <1>1, <1>2, <2>3 DEF Finish, JobsOK
    <2>4. CASE job' = [job EXCEPT ![q].pc = "installPut", ![q].fresh = TRUE]
      <3>1. job'[q].pc = "installPut"
        BY <1>1, <2>4, LandsReading DEF Steps
      <3> QED
        BY <3>1 DEF Torn
    <2> QED
      BY <2>1, <2>2, <2>3, <2>4
  <1>6. CASE DeleteChi(q)
    <2>1. CASE Goto(q, "begin")
      BY <1>3, <2>1 DEF Steps, Deletions
    <2>2. CASE Goto(q, "terminating")
      <3>1. job'[q].pc = "terminating"
        BY <1>1, <2>2, Lands DEF Steps
      <3> QED
        BY <3>1 DEF Torn
    <2> QED
      BY <1>6, <2>1, <2>2 DEF DeleteChi
  <1>7. CASE DeleteStart(q)
    <2>1. CASE Teardown(q)
      BY <1>1, <1>7, <2>1, TeardownTorn DEF DeleteStart, At, Deletions
    <2>2. CASE job' = [job EXCEPT ![q].pc = "terminatingPut", ![q].fresh = TRUE]
      <3>1. job'[q].pc = "terminatingPut" /\ job'[q].fresh
        BY <1>1, <2>2, LandsReading DEF Steps
      <3> QED
        BY <3>1 DEF Torn
    <2> QED
      BY <1>7, <2>1, <2>2 DEF DeleteStart
  <1>8. CASE DeleteStartPut(q)
    <2>1. Teardown(q)
      BY <1>8 DEF DeleteStartPut, At, Torn, Undisturbed, MayFail
    <2> QED
      BY <1>1, <1>8, <2>1, TeardownTorn DEF DeleteStartPut, At, Deletions
  <1>9. ASSUME job[q].pc \in {"host", "scaled", "gone", "volume"}, NEW pc \in {"scaled", "gone", "volume"},
               Goto(q, pc), job[q].left # {}, pc = "volume" => Gone(q, Host(q))
        PROVE  Torn(q)'
    <2>1. /\ job'[q].chi = job[q].chi /\ job'[q].item = job[q].item
          /\ job'[q].pc = pc /\ job'[q].left = job[q].left
      BY <1>1, <1>9, Lands DEF Steps
    <2>2. /\ New(q).spec \subseteq Hosts /\ Host(q) \in Hosts
          /\ job[q].pc \in Deletions
      BY <1>1, <1>9, Known, MinIn DEF ChiType, Host, Deletions
    <2>3. \A h \in New(q).spec \ job[q].left : sts'[Chi(q)][h] = "none"
      BY <1>1, <1>9, <2>2, StillGone DEF Torn
    <2>4. pc = "volume" => sts'[Chi(q)][Host(q)] = "none"
      BY <1>1, <1>9, <2>2, StillGone
    <2> QED
      BY <1>9, <2>1, <2>3, <2>4 DEF Torn, Gone, Chi, New, Host
  <1>10. CASE DeleteHost(q)
    <2>1. CASE sts[Chi(q)][Host(q)] = "none" /\ NextHost(q)
      BY <1>1, <1>10, <2>1, NextHostTorn DEF DeleteHost, At, Gone
    <2>2. CASE Goto(q, "scaled")
      BY <1>9, <1>10, <2>2 DEF DeleteHost, At
    <2> QED
      BY <1>10, <2>1, <2>2 DEF DeleteHost, Undisturbed, MayFail
  <1>11. CASE DeleteStatefulSet(q)
    <2>1. Goto(q, "gone") /\ job[q].pc = "scaled" /\ job[q].left # {}
      BY <1>1, <1>11 DEF DeleteStatefulSet, At, Torn, Undisturbed, MayFail
    <2> QED
      BY <1>9, <2>1
  <1>12. CASE WaitHostDeleted(q)
    <2>1. Goto(q, "volume") /\ job[q].pc = "gone" /\ job[q].left # {} /\ Gone(q, Host(q))
      BY <1>1, <1>12 DEF WaitHostDeleted, Torn, Gone, Undisturbed, MayFail
    <2> QED
      BY <1>9, <2>1
  <1>13. CASE DeletePVC(q)
    <2>1. NextHost(q) /\ job[q].pc = "volume" /\ job[q].left # {} /\ Gone(q, Host(q))
      BY <1>1, <1>13 DEF DeletePVC, At, Torn
    <2> QED
      BY <1>1, <2>1, NextHostTorn
  <1>14. CASE HostsDeleted(q)
    <2>1. Goto(q, "release") /\ job[q].pc = "host" /\ job[q].left = {}
      BY <1>14 DEF HostsDeleted, At
    <2>2. job'[q].chi = job[q].chi /\ job'[q].item = job[q].item /\ job'[q].pc = "release"
      BY <1>1, <2>1, Lands DEF Steps
    <2>3. New(q).spec \subseteq Hosts /\ job[q].pc \in Deletions
      BY <1>1, <2>1, Known DEF ChiType, Deletions
    <2>4. \A h \in New(q).spec : sts'[Chi(q)][h] = "none"
      BY <1>1, <2>1, <2>3, StillGone DEF Torn
    <2> QED
      BY <2>2, <2>4 DEF Torn, Gone, Chi, New
  <1>15. CASE UninstallFinalizer(q)
    <2>1. CASE Finish(q)
      BY <1>1, <1>2, <2>1 DEF Finish, JobsOK
    <2>2. CASE job' = [job EXCEPT ![q].pc = "releasePut", ![q].fresh = TRUE]
      <3>1. job'[q].chi = job[q].chi /\ job'[q].item = job[q].item /\ job'[q].pc = "releasePut"
        BY <1>1, <2>2, LandsReading DEF Steps
      <3>2. New(q).spec \subseteq Hosts /\ job[q].pc = "release" /\ job[q].pc \in Deletions
        BY <1>1, <1>15, Known DEF UninstallFinalizer, At, ChiType, Deletions
      <3>3. \A h \in New(q).spec : sts'[Chi(q)][h] = "none"
        BY <1>1, <3>2, StillGone DEF Torn
      <3> QED
        BY <3>1, <3>3 DEF Torn, Gone, Chi, New
    <2> QED
      BY <1>15, <2>1, <2>2 DEF UninstallFinalizer
  <1>16. CASE \/ Cancelled(q) \/ UninstallFinalizerPut(q)
               \/ DropReplicas(q) \/ DiscoveryAndDelete(q)
    <2>1. Finish(q)
      BY <1>16 DEF Cancelled, UninstallFinalizerPut, DropReplicas, DiscoveryAndDelete
    <2> QED
      BY <1>1, <1>2, <2>1 DEF Finish, JobsOK
  <1>17. CASE Begin(q)
    <2>1. CASE Finish(q)
      BY <1>1, <1>2, <2>1 DEF Finish, JobsOK
    <2>2. CASE job' = [job EXCEPT ![q].pc = "build", ![q].left = New(q).spec]
      <3>1. job'[q].pc = "build"
        BY <1>1, <2>2, Known DEF JobsOK, Jobs
      <3> QED
        BY <3>1 DEF Torn
    <2> QED
      BY <1>17, <2>1, <2>2 DEF Begin
  <1>18. CASE ReconcileHost(q)
    <2>1. CASE Finish(q)
      BY <1>1, <1>2, <2>1 DEF Finish, JobsOK
    <2>2. CASE job' = [job EXCEPT ![q].left = @ \ {Host(q)}]
      <3>1. job'[q].pc = "build"
        BY <1>1, <1>18, <2>2, Known DEF ReconcileHost, At, JobsOK, Jobs
      <3> QED
        BY <3>1 DEF Torn
    <2> QED
      BY <1>18, <2>1, <2>2 DEF ReconcileHost
  <1>19. CASE Clear(q)
    BY <1>3, <1>19 DEF Clear, Steps, Deletions
  <1> QED
    BY <1>4, <1>5, <1>6, <1>7, <1>8, <1>10, <1>11, <1>12, <1>13, <1>14, <1>15, <1>16, <1>17, <1>18,
       <1>19 DEF Work

\* A worker that does nothing keeps what it knows, though others write.
LEMMA KeptJob ==
    ASSUME Undisturbed, Served, Unforeign, [Next]_vars, NEW q \in Queues, ~Work(q),
           job[q] # None, job'[q] # None
    PROVE  /\ job'[q].chi = job[q].chi /\ job'[q].item = job[q].item
           /\ job'[q].pc = job[q].pc /\ job'[q].left = job[q].left
           /\ job[q].pc \in Deletions => job'[q].fresh = job[q].fresh
  <1>1. job[q] \in Jobs /\ Chi(q) \in Chis /\ (job[q].pc \in Deletions => Dying(Chi(q)))
    BY Known DEF Served
  <1>2. CASE job'[q] = job[q]
    BY <1>2
  <1>3. ASSUME NEW c \in Chis, job' = Stale(job, c),
               Edit(c) \/ Annotate(c) \/ Delete(c) \/ ForeignGone(c)
        PROVE  /\ job'[q].chi = job[q].chi /\ job'[q].item = job[q].item
               /\ job'[q].pc = job[q].pc /\ job'[q].left = job[q].left
               /\ job[q].pc \in Deletions => job'[q].fresh = job[q].fresh
    <2>1. ~Dying(c)
      BY <1>3 DEF Undisturbed, Unforeign, Edit, Annotate, Delete, ForeignGone, MayTouch, Exists, Dying
    <2>2. job'[q] = IF job[q].chi = c THEN [job[q] EXCEPT !.fresh = FALSE] ELSE job[q]
      BY <1>3 DEF Stale
    <2>3. job[q].pc \in Deletions => job'[q] = job[q]
      BY <1>1, <2>1, <2>2 DEF Chi
    <2> QED
      BY <1>1, <2>2, <2>3 DEF Jobs
  <1>4. CASE Cancel(q)
    <2>1. job'[q] = [job[q] EXCEPT !.done = TRUE]
      BY <1>4 DEF Cancel, Served, JobsOK
    <2> QED
      BY <1>1, <2>1 DEF Jobs
  <1>5. ASSUME NEW p \in Queues, p # q, Cancel(p) \/ Take(p) \/ Work(p)
        PROVE  job'[q] = job[q]
    <2>1. CASE Work(p)
      <3>1. Moves(p)
        BY <2>1, WorkStep
      <3> QED
        BY <1>5, <3>1 DEF Moves, Served, JobsOK
    <2>2. CASE Cancel(p) \/ Take(p)
      BY <1>5, <2>2 DEF Cancel, Take, Served, JobsOK
    <2> QED
      BY <1>5, <2>1, <2>2
  <1>6. ~Crash /\ ~Take(q)
    BY DEF Crash, Take
  <1>7. ASSUME NEW c \in Chis, User(c) \/ Deliver(c) \/ Kubernetes(c)
        PROVE  \/ job' = job
               \/ job' = Stale(job, c) /\ (Edit(c) \/ Annotate(c) \/ Delete(c) \/ ForeignGone(c))
    BY <1>7 DEF User, Create, Edit, Annotate, Delete, Deliver, Kubernetes, ForeignGone,
       StatefulSetGone, PvcGone, Collect
  <1>8. CASE UNCHANGED vars
    BY <1>8 DEF vars
  <1> QED
    BY <1>2, <1>3, <1>4, <1>5, <1>6, <1>7, <1>8 DEF Next

\* Whoever acts, what a worker has walked through is gone.
LEMMA TornStep ==
    ASSUME Undisturbed, Served, Emptied, [Next]_vars, NEW q \in Queues
    PROVE  Torn(q)'
  <1>1. CASE Work(q)
    BY <1>1, WorkTorn DEF Emptied
  <1>2. CASE job[q] = None /\ job'[q] # None
    <2>1. ASSUME NEW p \in Queues, Cancel(p) \/ Work(p) PROVE job'[q] = None
      <3>1. Moves(p) /\ job[p] # None
        BY <2>1, WorkStep, CancelStep DEF Cancel
      <3> QED
        BY <1>2, <3>1 DEF Moves, Served, JobsOK
    <2>2. PICK p \in Queues : Take(p)
      <3>1. ASSUME NEW c \in Chis, User(c) \/ Deliver(c) \/ Kubernetes(c) PROVE job'[q] = None
        BY <1>2, <3>1 DEF User, Create, Edit, Annotate, Delete, Deliver, Kubernetes, ForeignGone,
           StatefulSetGone, PvcGone, Collect, Stale
      <3> QED
        BY <1>2, <2>1, <3>1 DEF Next, Crash, vars
    <2>3. job'[q].pc = "dispatch"
      BY <1>2, <2>2 DEF Take, Served, JobsOK
    <2> QED
      BY <2>3 DEF Torn
  <1>3. CASE ~Work(q) /\ job[q] # None /\ job'[q] # None
    <2>1. /\ job'[q].chi = job[q].chi /\ job'[q].item = job[q].item
          /\ job'[q].pc = job[q].pc /\ job'[q].left = job[q].left
          /\ job[q].pc \in Deletions => job'[q].fresh = job[q].fresh
      BY <1>3, KeptJob DEF Emptied
    <2>2. CASE job[q].pc \notin Deletions
      BY <2>1, <2>2 DEF Torn, Deletions
    <2>3. CASE job[q].pc \in Deletions
      <3>1. New(q).spec \subseteq Hosts /\ (job[q].left # {} => Host(q) \in Hosts)
        BY <1>3, <2>3, Known, MinIn DEF Served, ChiType, Host, Deletions
      <3>2. \A h \in Hosts : Gone(q, h) => sts'[Chi(q)][h] = "none"
        BY <1>3, <2>3, StillGone
      <3>3. Torn(q)
        BY DEF Emptied
      <3>4. \A h : h \in New(q).spec => h \in Hosts
        BY <3>1
      <3> QED
        BY <1>3, <2>1, <2>3, <3>1, <3>2, <3>3, <3>4 DEF Torn, Gone, Chi, New, Host
    <2> QED
      BY <2>2, <2>3
  <1>4. CASE job'[q] = None
    BY <1>4 DEF Torn
  <1> QED
    BY <1>1, <1>2, <1>3, <1>4

\* Nobody adds a finalizer of his own.
LEMMA UnforeignStep ==
    ASSUME Foreign = {}, Served, Unforeign, [Next]_vars
    PROVE  Unforeign'
  <1>1. api \in [Chis -> ChiType \cup {None}]
    BY DEF Served, ApiOK
  <1>2. CASE UNCHANGED api
    BY <1>2 DEF Unforeign, Exists
  <1>3. ASSUME NEW c \in Chis, NEW new, ~new.foreign, Write(c, new)
        PROVE  Unforeign'
    BY <1>1, <1>3 DEF Write, Unforeign, Exists
  <1>4. ASSUME NEW c \in Chis, Create(c)
        PROVE  Unforeign'
    <2>1. PICK s \in Specs :
            api' = [api EXCEPT ![c] = [spec |-> s, fin |-> FALSE, foreign |-> c \in Foreign, ts |-> FALSE]]
      BY <1>4 DEF Create
    <2> QED
      BY <1>1, <2>1 DEF Unforeign, Exists
  <1>5. ASSUME NEW c \in Chis, Edit(c) \/ Annotate(c) \/ Delete(c)
        PROVE  Unforeign'
    <2>1. api[c] \in ChiType /\ ~api[c].foreign
      BY <1>1, <1>5 DEF Edit, Annotate, Delete, MayTouch, Exists, Unforeign
    <2>2. CASE Edit(c)
      <3>1. PICK s \in Specs : Write(c, [api[c] EXCEPT !.spec = s])
        BY <2>2 DEF Edit
      <3>2. PICK new : new = [api[c] EXCEPT !.spec = s]
        OBVIOUS
      <3>3. ~new.foreign
        BY <2>1, <3>2 DEF ChiType
      <3> QED
        BY <1>3, <3>1, <3>2, <3>3
    <2>3. CASE Annotate(c)
      BY <1>3, <2>1, <2>3 DEF Annotate
    <2>4. CASE Delete(c)
      <3>1. PICK new : new = [api[c] EXCEPT !.ts = TRUE]
        OBVIOUS
      <3>2. ~new.foreign
        BY <2>1, <3>1 DEF ChiType
      <3> QED
        BY <1>3, <2>4, <3>1, <3>2 DEF Delete
    <2> QED
      BY <1>5, <2>2, <2>3, <2>4
  <1>6. ASSUME NEW c \in Chis PROVE ~ForeignGone(c)
    BY DEF ForeignGone, Unforeign
  <1>7. ASSUME NEW q \in Queues, Work(q)
        PROVE  Unforeign'
    <2>1. job[q] # None /\ JobsOK
      BY <1>7, WorkStep DEF Served
    <2>2. ASSUME NEW b \in BOOLEAN, At(q, "installPut") \/ At(q, "releasePut"), job[q].fresh,
                 Write(Chi(q), [api[Chi(q)] EXCEPT !.fin = b])
          PROVE  Unforeign'
      <3>1. Exists(Chi(q)) /\ Chi(q) \in Chis
        BY <2>1, <2>2, Known DEF At
      <3>2. api[Chi(q)] \in ChiType /\ ~api[Chi(q)].foreign
        BY <1>1, <3>1 DEF Exists, Unforeign
      <3>3. PICK new : new = [api[Chi(q)] EXCEPT !.fin = b]
        OBVIOUS
      <3>4. ~new.foreign
        BY <3>2, <3>3 DEF ChiType
      <3> QED
        BY <1>3, <2>2, <3>1, <3>3, <3>4
    <2>3. CASE InstallFinalizerPut(q)
      BY <1>2, <2>2, <2>3 DEF InstallFinalizerPut
    <2>4. CASE UninstallFinalizerPut(q)
      BY <1>2, <2>2, <2>4 DEF UninstallFinalizerPut
    <2>5. CASE ~InstallFinalizerPut(q) /\ ~UninstallFinalizerPut(q)
      <3>1. UNCHANGED api
        BY <1>7, <2>5 DEF Work, Cancelled, Dispatch, InstallFinalizer, DeleteChi, DeleteStart,
           DeleteStartPut, DeleteHost, DeleteStatefulSet, WaitHostDeleted, DeletePVC, HostsDeleted,
           UninstallFinalizer, Begin, ReconcileHost, Clear, DropReplicas, DiscoveryAndDelete
      <3> QED
        BY <1>2, <3>1
    <2> QED
      BY <2>3, <2>4, <2>5
  <1>8. ASSUME NEW q \in Queues, Cancel(q) \/ Take(q) PROVE UNCHANGED api
    BY <1>8 DEF Cancel, Take
  <1>9. Crash \/ UNCHANGED vars => UNCHANGED api
    BY DEF Crash, vars
  <1>10. ASSUME NEW c \in Chis, Deliver(c) \/ Kubernetes(c) PROVE UNCHANGED api
    BY <1>6, <1>10 DEF Deliver, Kubernetes, StatefulSetGone, PvcGone, Collect
  <1> QED
    BY <1>2, <1>4, <1>5, <1>7, <1>8, <1>9, <1>10 DEF Next, User

\* The finalizer is there until the StatefulSets of the CHI are gone, if nobody
\* touches the CHI meanwhile and no call fails.
THEOREM GoneBeforeRelease ==
    ASSUME Undisturbed
    PROVE  Spec => ReleasedWhenGone
  <1>1. Init => Emptied
    BY DEF Init, Emptied, Unforeign, Torn, Exists
  <1>2. Served /\ Emptied /\ [Next]_vars => (Served /\ Emptied)'
    <2>1. Served /\ Emptied /\ [Next]_vars => Emptied'
      BY TornStep, UnforeignStep DEF Emptied, Undisturbed
    <2> QED
      BY <2>1, ServedNext
  <1>3. Emptied =>
          [\A q \in Queues :
             At(q, "releasePut") /\ Exists(Chi(q)) /\ (api'[Chi(q)] = None \/ ~api'[Chi(q)].fin)
               => \A h \in New(q).spec : sts[Chi(q)][h] = "none"]_vars
    BY DEF Emptied, Torn, Gone, At
  <1> QED
    BY ServedInit, <1>1, <1>2, <1>3, PTL DEF Spec, ReleasedWhenGone

-----------------------------------------------------------------------------
(* A deleted CHI is torn down, not built.                                  *)

\* Nobody touches a CHI that is being deleted, and its reads and writes succeed.
Untouched == "api" \notin Faults /\ ~Meddling /\ Foreign = {}

\* The command says that the CHI is being deleted.
Telling(i) == i # None /\ i.new # None /\ i.new.ts

\* The finalizer keeps a CHI that is being deleted. The command that says so is
\* the last one there is of it, lists the finalizer, and is being dispatched or
\* torn down once it is served.
Heard(c) ==
  /\ Exists(c) => ~api[c].foreign /\ (api[c].ts => api[c].fin)
  /\ \A k \in 1 .. Len(events[c]) : Telling(events[c][k]) =>
        Exists(c) /\ events[c][k].new.fin /\ k = Len(events[c])
  /\ \A q \in Queues : Telling(pending[q][c]) =>
        Exists(c) /\ pending[q][c].new.fin /\ events[c] = <<>>
  /\ \A q \in Queues : job[q] # None /\ job[q].chi = c =>
        /\ Telling(job[q].item) =>
              /\ Exists(c) /\ job[q].item.new.fin /\ events[c] = <<>> /\ pending[q][c] = None
              /\ job[q].pc \in {"dispatch"} \cup Deletions
        /\ job[q].pc = "installPut" /\ job[q].fresh => ~api[c].ts

AllHeard == \A c \in Chis : Heard(c)

\* Nothing says that a CHI is being deleted before it is.
LEMMA NotTold ==
    ASSUME Served, NEW c \in Chis, ~Dying(c)
    PROVE  /\ \A k \in 1 .. Len(events[c]) : ~Telling(events[c][k])
           /\ \A q \in Queues : ~Telling(pending[q][c])
           /\ \A q \in Queues : job[q] # None /\ job[q].chi = c => ~Telling(job[q].item)
  <1>1. \A i \in Items(c) : ~Telling(i)
    BY DEF Items, Telling
  <1>2. \A k \in 1 .. Len(events[c]) : events[c][k] \in Items(c)
    BY DEF Served, EventsOK
  <1>3. \A q \in Queues : pending[q][c] # None => pending[q][c] \in Items(c)
    BY DEF Served, PendingOK
  <1>4. \A q \in Queues : job[q] # None => job[q].item \in Items(job[q].chi)
    BY DEF Served, JobsOK, JobOK
  <1>5. ~Telling(None)
    BY DEF Telling
  <1> QED
    BY <1>1, <1>2, <1>3, <1>4, <1>5

\* A worker that found its CHI deleted has a command that tells of it.
LEMMA Tells ==
    ASSUME JobsOK, NEW q \in Queues, job[q] # None, New(q) \in ChiType, New(q).ts
    PROVE  Telling(job[q].item)
  <1>1. job[q].item \in Commands
    BY DEF JobsOK, JobOK, Items
  <1> QED
    BY <1>1, NoneAssumption, NothingAssumption DEF Telling, New

\* The jobs on c are the ones there were, where they were.
JobsStay(c) == \A q \in Queues : job'[q] # None /\ job'[q].chi = c =>
    /\ job[q] # None /\ job[q].chi = c
    /\ job'[q].item = job[q].item /\ job'[q].pc = job[q].pc
    /\ job'[q].fresh => job[q].fresh

\* What happens to the others is nothing to a CHI.
LEMMA HeardStill ==
    ASSUME NEW c \in Chis, Heard(c), api'[c] = api[c], events'[c] = events[c],
           \A q \in Queues : pending'[q][c] = pending[q][c], JobsStay(c)
    PROVE  Heard(c)'
  BY DEF Heard, JobsStay, Exists

\* A CHI that is not being deleted takes a new version.
LEMMA HeardWritten ==
    ASSUME Served, NEW c \in Chis, Exists(c), ~Dying(c), NEW new \in ChiType, ~new.foreign,
           Write(c, new), UNCHANGED pending, JobsStay(c),
           \A q \in Queues : job'[q] # None /\ job'[q].chi = c => ~job'[q].fresh
    PROVE  Heard(c)'
  <1> DEFINE gone == new.ts /\ ~new.fin /\ ~new.foreign
             word == IF gone THEN Command("delete", api[c], None)
                             ELSE Command("update", api[c], new)
  <1>1. api'[c] = IF gone THEN None ELSE new
    BY DEF Write, Served, ApiOK
  <1>2. events[c] \in Seq(Commands) /\ events'[c] = Append(events[c], word)
    BY DEF Write, Served, EventsOK
  <1>3. Telling(word) => ~gone /\ word.new = new /\ new.ts
    BY DEF Telling, Command
  <1>4. new # None
    BY NoneAssumption
  <1>5. Exists(c)' => ~api'[c].foreign /\ (api'[c].ts => api'[c].fin)
    BY <1>1 DEF Exists
  <1>6. ASSUME NEW k \in 1 .. Len(events'[c]), Telling(events'[c][k])
        PROVE  Exists(c)' /\ events'[c][k].new.fin /\ k = Len(events'[c])
    <2> HIDE DEF word
    <2>1. Len(events'[c]) = Len(events[c]) + 1 /\ Len(events[c]) \in Nat
      BY <1>2
    <2>2. CASE k \in 1 .. Len(events[c])
      <3>1. events'[c][k] = events[c][k]
        BY <1>2, <2>2
      <3> QED
        BY <1>6, <2>2, <3>1, NotTold
    <2>3. CASE k = Len(events[c]) + 1
      <3>1. events'[c][k] = word
        BY <1>2, <2>3
      <3> QED
        BY <1>1, <1>3, <1>4, <1>6, <2>1, <2>3, <3>1 DEF Exists
    <2> QED
      BY <2>1, <2>2, <2>3
  <1> QED
    BY <1>5, <1>6, NotTold DEF Heard, JobsStay

\* Others write: what a worker has read of c is old then.
LEMMA StaleStays ==
    ASSUME JobsOK, NEW c \in Chis, job' = Stale(job, c)
    PROVE  /\ \A d \in Chis : JobsStay(d)
           /\ \A q \in Queues : job'[q] # None /\ job'[q].chi = c => ~job'[q].fresh
  <1>1. ASSUME NEW q \in Queues, job'[q] # None
        PROVE  /\ job[q] # None /\ job'[q].chi = job[q].chi
               /\ job'[q].item = job[q].item /\ job'[q].pc = job[q].pc
               /\ job'[q].fresh => job[q].fresh
               /\ job'[q].chi = c => ~job'[q].fresh
    <2>1. job'[q] = IF job[q] # None /\ job[q].chi = c
                    THEN [job[q] EXCEPT !.fresh = FALSE] ELSE job[q]
      BY DEF Stale
    <2>2. job[q] # None
      BY <1>1, <2>1
    <2>3. job[q] \in Jobs
      BY <2>2, Known
    <2> QED
      BY <2>1, <2>2, <2>3 DEF Jobs
  <1> QED
    BY <1>1 DEF JobsStay

\* Users write, but not a CHI that is being deleted.
LEMMA UserHeard ==
    ASSUME Untouched, Served, AllHeard, NEW c \in Chis, User(c)
    PROVE  AllHeard'
  <1>1. \A d \in Chis : Heard(d)
    BY DEF AllHeard
  <1>2. ASSUME Exists(c), ~api[c].ts, NEW new \in ChiType, ~new.foreign, Write(c, new),
               job' = Stale(job, c), UNCHANGED pending
        PROVE  AllHeard'
    <2>1. ~Dying(c)
      BY <1>2 DEF Dying, Exists
    <2>2. Heard(c)'
      BY <1>2, <2>1, HeardWritten, StaleStays DEF Served
    <2>3. ASSUME NEW d \in Chis, d # c PROVE Heard(d)'
      <3>1. api'[d] = api[d] /\ events'[d] = events[d]
        BY <1>2, <2>3 DEF Write, Served, ApiOK, EventsOK
      <3> QED
        BY <1>1, <1>2, <3>1, HeardStill, StaleStays DEF Served
    <2> QED
      BY <2>2, <2>3 DEF AllHeard
  <1>3. CASE Edit(c) \/ Annotate(c) \/ Delete(c)
    <2>1. /\ Exists(c) /\ ~api[c].ts /\ api[c] \in ChiType /\ ~api[c].foreign
          /\ job' = Stale(job, c) /\ UNCHANGED pending
      BY <1>1, <1>3 DEF Edit, Annotate, Delete, MayTouch, Untouched, Heard, Exists, Served, ApiOK
    <2>2. CASE Edit(c)
      <3>1. PICK s \in Specs : Write(c, [api[c] EXCEPT !.spec = s])
        BY <2>2 DEF Edit
      <3>2. PICK new : new = [api[c] EXCEPT !.spec = s]
        OBVIOUS
      <3>3. new \in ChiType /\ ~new.foreign
        BY <2>1, <3>2, SpecsAssumption DEF ChiType
      <3> QED
        BY <1>2, <2>1, <3>1, <3>2, <3>3
    <2>3. CASE Annotate(c)
      BY <1>2, <2>1, <2>3 DEF Annotate
    <2>4. CASE Delete(c)
      <3>1. PICK new : new = [api[c] EXCEPT !.ts = TRUE]
        OBVIOUS
      <3>2. new \in ChiType /\ ~new.foreign
        BY <2>1, <3>1 DEF ChiType
      <3> QED
        BY <1>2, <2>1, <2>4, <3>1, <3>2 DEF Delete
    <2> QED
      BY <1>3, <2>2, <2>3, <2>4
  <1>4. CASE Create(c)
    <2>1. PICK s \in Specs :
            LET new == [spec |-> s, fin |-> FALSE, foreign |-> c \in Foreign, ts |-> FALSE]
            IN  /\ c \notin born
                /\ api' = [api EXCEPT ![c] = new]
                /\ events' = [events EXCEPT ![c] = Append(@, Command("add", None, new))]
                /\ UNCHANGED <<pending, job>>
      BY <1>4 DEF Create
    <2> DEFINE new == [spec |-> s, fin |-> FALSE, foreign |-> c \in Foreign, ts |-> FALSE]
               word == Command("add", None, new)
    <2>2. ~new.ts /\ ~new.foreign /\ ~Telling(word)
      BY DEF Telling, Command, Untouched
    <2>3. /\ api'[c] = new /\ events'[c] = Append(events[c], word) /\ events[c] \in Seq(Commands)
          /\ \A d \in Chis \ {c} : api'[d] = api[d] /\ events'[d] = events[d]
      BY <2>1 DEF Served, ApiOK, EventsOK
    <2>4. ~Dying(c)
      BY <2>1 DEF Dying
    <2>5. Heard(c)'
      <3> HIDE DEF word, new
      <3>1. \A k \in 1 .. Len(events'[c]) : ~Telling(events'[c][k])
        BY <2>2, <2>3, <2>4, NotTold
      <3> QED
        BY <2>1, <2>2, <2>3, <2>4, <3>1, NotTold DEF Heard
    <2>6. \A d \in Chis \ {c} : Heard(d)'
      BY <1>1, <2>1, <2>3, HeardStill DEF JobsStay
    <2> QED
      BY <2>5, <2>6 DEF AllHeard
  <1> QED
    BY <1>3, <1>4 DEF User

\* The last event becomes the command that waits.
LEMMA DeliverHeard ==
    ASSUME Served, AllHeard, NEW c \in Chis, Deliver(c)
    PROVE  AllHeard'
  <1> DEFINE item == Head(events[c])
  <1>1. /\ events[c] \in Seq(Commands) /\ events[c] # <<>>
        /\ events'[c] = Tail(events[c])
        /\ \A d \in Chis \ {c} : events'[d] = events[d]
        /\ UNCHANGED <<api, job>>
    BY DEF Deliver, Served, EventsOK
  <1>2. pending' = pending \/ pending' = [pending EXCEPT ![Index[c]][c] = item]
    BY DEF Deliver, QueueOf
  <1>3. item = events[c][1] /\ Len(events[c]) \in Nat \ {0}
    BY <1>1
  <1>4. /\ Len(Tail(events[c])) = Len(events[c]) - 1
        /\ \A k \in 1 .. Len(Tail(events[c])) : Tail(events[c])[k] = events[c][k + 1]
    BY <1>1
  <1>5. Heard(c)
    BY DEF AllHeard
  <1> HIDE DEF item
  <1>6. \A q \in Queues : pending'[q][c] = pending[q][c] \/ pending'[q][c] = item
    BY <1>2 DEF Served, PendingOK
  <1>7. \A q \in Queues : ~Telling(pending[q][c])
    BY <1>1, <1>5 DEF Heard
  <1>8. \A q \in Queues : job[q] # None /\ job[q].chi = c => ~Telling(job[q].item)
    BY <1>1, <1>5 DEF Heard
  <1>9. Telling(item) => Exists(c) /\ item.new.fin /\ events'[c] = <<>>
    <2> SUFFICES ASSUME Telling(item)
                 PROVE  Exists(c) /\ item.new.fin /\ events'[c] = <<>>
      OBVIOUS
    <2>1. 1 \in 1 .. Len(events[c]) /\ Telling(events[c][1])
      BY <1>3
    <2>2. Exists(c) /\ item.new.fin /\ Len(events[c]) = 1
      BY <1>3, <1>5, <2>1 DEF Heard
    <2>3. Tail(events[c]) \in Seq(Commands) /\ Len(Tail(events[c])) = 0
      BY <1>1, <1>4, <2>2
    <2>4. Tail(events[c]) = <<>>
      BY <2>3, EmptySeq
    <2> QED
      BY <1>1, <2>2, <2>4
  <1>10. \A k \in 1 .. Len(events'[c]) : Telling(events'[c][k]) =>
            Exists(c) /\ events'[c][k].new.fin /\ k = Len(events'[c])
    BY <1>1, <1>3, <1>4, <1>5 DEF Heard
  <1>11. Heard(c)'
    BY <1>1, <1>5, <1>6, <1>7, <1>8, <1>9, <1>10 DEF Heard, Exists
  <1>12. ASSUME NEW d \in Chis, d # c PROVE Heard(d)'
    <2>1. \A q \in Queues : pending'[q][d] = pending[q][d]
      BY <1>2, <1>12 DEF Served, PendingOK
    <2> QED
      BY <1>1, <1>12, <2>1, HeardStill DEF AllHeard, JobsStay
  <1> QED
    BY <1>11, <1>12 DEF AllHeard

\* A worker takes the command.
LEMMA TakeHeard ==
    ASSUME Served, AllHeard, NEW q \in Queues, Take(q)
    PROVE  AllHeard'
  <1>1. PICK c \in Chis :
          /\ pending[q][c] # None
          /\ job' = [job EXCEPT ![q] = [chi |-> c, item |-> pending[q][c], pc |-> "dispatch",
                                        left |-> {}, done |-> FALSE, fresh |-> TRUE]]
          /\ pending' = [pending EXCEPT ![q][c] = None]
          /\ UNCHANGED <<api, events>>
    BY DEF Take
  <1>2. /\ job'[q].chi = c /\ job'[q].item = pending[q][c] /\ job'[q].pc = "dispatch"
        /\ \A p \in Queues \ {q} : job'[p] = job[p]
    BY <1>1 DEF Served, JobsOK
  <1>3. /\ pending'[q][c] = None
        /\ \A p \in Queues, d \in Chis : pending'[p][d] = pending[p][d] \/ pending'[p][d] = None
        /\ \A p \in Queues, d \in Chis \ {c} : pending'[p][d] = pending[p][d]
    BY <1>1 DEF Served, PendingOK
  <1>4. ~Telling(None)
    BY DEF Telling
  <1>5. Heard(c)
    BY DEF AllHeard
  <1>6. ASSUME NEW p \in Queues, job'[p] # None, job'[p].chi = c PROVE p = q
    BY <1>2, <1>6, <1>1, Hashed DEF Served, PendingOK
  <1>7. Heard(c)'
    BY <1>1, <1>2, <1>3, <1>4, <1>5, <1>6 DEF Heard, Exists
  <1>8. ASSUME NEW d \in Chis, d # c PROVE Heard(d)'
    <2>1. JobsStay(d)
      BY <1>2, <1>8 DEF JobsStay
    <2> QED
      BY <1>1, <1>3, <1>8, <2>1, HeardStill DEF AllHeard
  <1> QED
    BY <1>7, <1>8 DEF AllHeard

\* The informer starts again with what there is.
LEMMA CrashHeard ==
    ASSUME Served, AllHeard, Crash
    PROVE  AllHeard'
  <1> SUFFICES ASSUME NEW c \in Chis PROVE Heard(c)'
    BY DEF AllHeard
  <1>1. /\ events'[c] = IF Exists(c) THEN <<Command("add", None, api[c])>> ELSE <<>>
        /\ \A q \in Queues : job'[q] = None /\ pending'[q][c] = None
        /\ UNCHANGED api
    BY DEF Crash
  <1>2. Heard(c) /\ ~Telling(None)
    BY DEF AllHeard, Telling
  <1>3. ASSUME NEW k \in 1 .. Len(events'[c]), Telling(events'[c][k])
        PROVE  Exists(c) /\ events'[c][k].new.fin /\ k = Len(events'[c])
    <2> DEFINE word == Command("add", None, api[c])
    <2>1. Telling(word) => word.new = api[c] /\ api[c].ts
      BY DEF Telling, Command
    <2> HIDE DEF word
    <2>2. Exists(c) /\ Len(events'[c]) = 1 /\ events'[c][1] = word
      BY <1>1, <1>3 DEF word
    <2> QED
      BY <1>2, <1>3, <2>1, <2>2 DEF Heard
  <1> QED
    BY <1>1, <1>2, <1>3 DEF Heard, Exists

\* A worker goes on with the command it has, or is done with it, and writes nothing.
LEMMA QuietHeard ==
    ASSUME Served, AllHeard, NEW q \in Queues, Moves(q), job[q] # None,
           UNCHANGED <<api, events, pending>>,
           job'[q] # None =>
             /\ Telling(job[q].item) => job'[q].pc \in {"dispatch"} \cup Deletions
             /\ job'[q].pc = "installPut" /\ job'[q].fresh => ~api[Chi(q)].ts
    PROVE  AllHeard'
  <1> SUFFICES ASSUME NEW c \in Chis PROVE Heard(c)'
    BY DEF AllHeard
  <1>1. /\ \A p \in Queues \ {q} : job'[p] = job[p]
        /\ job'[q] # None => job'[q].chi = job[q].chi /\ job'[q].item = job[q].item
    BY DEF Moves, Served, JobsOK
  <1>2. Heard(c)
    BY DEF AllHeard
  <1> QED
    BY <1>1, <1>2 DEF Heard, Exists, Chi

\* A worker that walks on.
LEMMA GoesHeard ==
    ASSUME Served, AllHeard, NEW q \in Queues, Moves(q), job[q] # None, NEW pc \in Steps,
           UNCHANGED <<api, events, pending>>, job'[q] # None => job'[q].pc = pc,
           pc # "installPut", Telling(job[q].item) => pc \in Deletions
    PROVE  AllHeard'
  BY QuietHeard

\* The finalizer is added to a CHI that is not being deleted.
LEMMA InstallPutHeard ==
    ASSUME Served, AllHeard, NEW q \in Queues, InstallFinalizerPut(q)
    PROVE  AllHeard'
  <1>0. PICK c \in Chis : c = Chi(q)
    BY Known DEF InstallFinalizerPut, At, Served
  <1>1. job[q] # None /\ JobsOK /\ Moves(q) /\ UNCHANGED pending
    BY InstallPutStep DEF InstallFinalizerPut, At, Served
  <1>2. Heard(c)
    BY <1>1 DEF AllHeard
  <1>3. ~Telling(job[q].item)
    BY <1>0, <1>1, <1>2 DEF Heard, InstallFinalizerPut, At, Chi, Deletions
  <1>4. CASE Goto(q, "begin") /\ UNCHANGED <<api, events>>
    <2>1. job'[q].pc = "begin"
      BY <1>1, <1>4, Lands DEF Steps
    <2> QED
      BY <1>1, <1>3, <1>4, <2>1, GoesHeard DEF Steps
  <1>5. CASE job[q].fresh /\ Write(c, [api[c] EXCEPT !.fin = TRUE]) /\ Finish(q)
    <2>1. Exists(c) /\ ~api[c].ts /\ ~api[c].foreign /\ api[c] \in ChiType
      BY <1>0, <1>1, <1>2, <1>5, Known DEF Heard, InstallFinalizerPut, At, Chi, Served, ApiOK, Exists
    <2>2. PICK new : new = [api[c] EXCEPT !.fin = TRUE]
      OBVIOUS
    <2>3. new \in ChiType /\ ~new.foreign
      BY <2>1, <2>2 DEF ChiType
    <2>4. ~Dying(c)
      BY <2>1 DEF Dying, Exists
    <2>5. job'[q] = None /\ \A p \in Queues \ {q} : job'[p] = job[p]
      BY <1>5 DEF Finish, Served, JobsOK
    <2>6. \A p \in Queues : job'[p] # None => job'[p].chi # c
      BY <1>0, <1>1, <2>5, Hashed DEF Chi
    <2>7. \A d \in Chis : JobsStay(d)
      BY <2>5 DEF JobsStay
    <2>8. Write(c, new)
      BY <1>5, <2>2
    <2>9. Heard(c)'
      BY <1>1, <2>1, <2>3, <2>4, <2>6, <2>7, <2>8, HeardWritten
    <2>10. ASSUME NEW d \in Chis, d # c PROVE Heard(d)'
      <3>1. api'[d] = api[d] /\ events'[d] = events[d]
        BY <1>1, <2>8, <2>10 DEF Write, Served, ApiOK, EventsOK
      <3> QED
        BY <1>1, <2>7, <3>1, HeardStill DEF AllHeard
    <2> QED
      BY <2>9, <2>10 DEF AllHeard
  <1> QED
    BY <1>0, <1>4, <1>5 DEF InstallFinalizerPut

\* The finalizer is taken off: the CHI is gone, and its end is the last event.
LEMMA UninstallPutHeard ==
    ASSUME Served, AllHeard, NEW q \in Queues, UninstallFinalizerPut(q)
    PROVE  AllHeard'
  <1>0. PICK c \in Chis : c = Chi(q)
    BY Known DEF UninstallFinalizerPut, At, Served
  <1>1. /\ job[q] # None /\ JobsOK /\ Moves(q) /\ UNCHANGED pending
        /\ job[q].pc = "releasePut" /\ New(q) \in ChiType /\ New(q).ts /\ Dying(c)
    BY <1>0, UninstallPutStep, Known DEF UninstallFinalizerPut, At, Served, Deletions
  <1>2. Heard(c) /\ Telling(job[q].item)
    BY <1>1, Tells DEF AllHeard
  <1>3. job'[q] = None /\ \A p \in Queues \ {q} : job'[p] = job[p]
    BY DEF UninstallFinalizerPut, Finish, Served, JobsOK
  <1>4. CASE UNCHANGED <<api, events>>
    BY <1>1, <1>3, <1>4, QuietHeard
  <1>5. CASE Write(c, [api[c] EXCEPT !.fin = FALSE])
    <2>1. /\ Exists(c) /\ events[c] = <<>> /\ pending[q][c] = None
          /\ api[c] \in ChiType /\ api[c].ts /\ ~api[c].foreign
      BY <1>0, <1>1, <1>2 DEF Heard, Chi, Dying, Exists, Served, ApiOK
    <2>2. PICK new : new = [api[c] EXCEPT !.fin = FALSE]
      OBVIOUS
    <2>3. new.ts /\ ~new.fin /\ ~new.foreign
      BY <2>1, <2>2 DEF ChiType
    <2> DEFINE word == Command("delete", api[c], None)
    <2>4. api' = [api EXCEPT ![c] = None] /\ events' = [events EXCEPT ![c] = Append(@, word)]
      BY <1>5, <2>2, <2>3 DEF Write
    <2>5. word \in Commands /\ ~Telling(word)
      BY <2>1 DEF Command, Commands, Telling
    <2> HIDE DEF word
    <2>6. api'[c] = None /\ events'[c] = <<word>>
      BY <1>1, <2>1, <2>4, <2>5 DEF Served, ApiOK, EventsOK
    <2>7. \A p \in Queues : pending'[p][c] = None
      BY <1>0, <1>1, <2>1, Hashed DEF Chi
    <2>8. \A p \in Queues : job'[p] # None => job'[p].chi # c
      BY <1>0, <1>1, <1>3, Hashed DEF Chi
    <2>9. \A k \in 1 .. Len(events'[c]) : ~Telling(events'[c][k])
      BY <2>5, <2>6
    <2>10. Heard(c)'
      BY <2>6, <2>7, <2>8, <2>9 DEF Heard, Exists, Telling
    <2>11. ASSUME NEW d \in Chis, d # c PROVE Heard(d)'
      <3>1. api'[d] = api[d] /\ events'[d] = events[d]
        BY <2>4, <2>11 DEF Served, ApiOK, EventsOK
      <3>2. JobsStay(d)
        BY <1>3 DEF JobsStay
      <3> QED
        BY <1>1, <3>1, <3>2, HeardStill DEF AllHeard
    <2> QED
      BY <2>10, <2>11 DEF AllHeard
  <1> QED
    BY <1>0, <1>4, <1>5 DEF UninstallFinalizerPut

\* A worker that is told of a deletion tears down: the CHI is there to be read
\* and the command lists the finalizer.
LEMMA WorkHeard ==
    ASSUME Untouched, Served, AllHeard, NEW q \in Queues, Work(q)
    PROVE  AllHeard'
  <1>1. /\ job[q] # None /\ JobsOK /\ Moves(q) /\ UNCHANGED pending /\ Chi(q) \in Chis
        /\ job[q].pc \in Deletions => Telling(job[q].item)
    BY WorkStep, Known, Tells DEF Served, Deletions
  <1>2. Heard(Chi(q))
    BY <1>1 DEF AllHeard
  <1>3. Telling(job[q].item) =>
          Exists(Chi(q)) /\ New(q).fin /\ job[q].pc \in {"dispatch"} \cup Deletions
    BY <1>1, <1>2 DEF Heard, Chi, New
  <1>4. CASE InstallFinalizerPut(q) \/ UninstallFinalizerPut(q)
    BY <1>4, InstallPutHeard, UninstallPutHeard
  <1>5. CASE Finish(q) /\ UNCHANGED <<api, events>>
    <2>1. job'[q] = None
      BY <1>1, <1>5 DEF Finish, JobsOK
    <2> QED
      BY <1>1, <1>5, <2>1, QuietHeard
  <1>6. ASSUME UNCHANGED <<api, events>>, NEW pc \in Steps, job'[q].pc = pc, pc # "installPut",
               Telling(job[q].item) => pc \in Deletions
        PROVE  AllHeard'
    BY <1>1, <1>6, GoesHeard
  <1>7. CASE Dispatch(q)
    <2> DEFINE pc == IF job[q].item.cmd = "delete" THEN "discover"
                     ELSE IF New(q).ts THEN "confirm"
                     ELSE IF ~New(q).fin THEN "install"
                     ELSE "begin"
    <2>1. Goto(q, pc) /\ pc \in Steps /\ pc # "installPut" /\ UNCHANGED <<api, events>>
      BY <1>7 DEF Dispatch, Steps
    <2>2. Telling(job[q].item) => pc = "confirm"
      BY <1>1, Known DEF Telling, New
    <2> HIDE DEF pc
    <2>3. job'[q].pc = pc
      BY <1>1, <2>1, Lands
    <2> QED
      BY <1>6, <2>1, <2>2, <2>3 DEF Deletions
  <1>8. CASE InstallFinalizer(q)
    <2>1. ~Telling(job[q].item) /\ UNCHANGED <<api, events>>
      BY <1>3, <1>8 DEF InstallFinalizer, At, Deletions
    <2>2. CASE Goto(q, "begin")
      <3>1. job'[q].pc = "begin"
        BY <1>1, <2>2, Lands DEF Steps
      <3> QED
        BY <1>6, <2>1, <3>1 DEF Steps
    <2>3. CASE Finish(q)
      BY <1>5, <2>1, <2>3
    <2>4. CASE Exists(Chi(q)) /\ ~api[Chi(q)].fin
      <3>1. ~api[Chi(q)].ts
        BY <1>2, <2>4 DEF Heard
      <3> QED
        BY <1>1, <2>1, <3>1, QuietHeard
    <2> QED
      BY <1>8, <2>2, <2>3, <2>4 DEF InstallFinalizer
  <1>9. CASE DeleteChi(q)
    <2>1. Goto(q, "terminating") /\ UNCHANGED <<api, events>>
      BY <1>1, <1>3, <1>9 DEF DeleteChi, At, Deletions, Untouched, MayFail
    <2>2. job'[q].pc = "terminating"
      BY <1>1, <2>1, Lands DEF Steps
    <2> QED
      BY <1>6, <2>1, <2>2 DEF Steps, Deletions
  <1>10. CASE \/ DeleteStart(q) \/ DeleteStartPut(q) \/ DeleteHost(q) \/ DeleteStatefulSet(q)
              \/ WaitHostDeleted(q) \/ DeletePVC(q) \/ HostsDeleted(q)
    <2>1. UNCHANGED <<api, events>> /\ job[q].left \subseteq Hosts /\ New(q).spec \subseteq Hosts
      BY <1>1, <1>10, Known DEF DeleteStart, DeleteStartPut, DeleteHost, DeleteStatefulSet,
         WaitHostDeleted, DeletePVC, HostsDeleted, At, ChiType, Deletions
    <2>2. PICK pc \in Deletions \ {"releasePut"} : job'[q].pc = pc
      <3>1. ASSUME NEW pc \in {"scaled", "gone", "volume", "release"}, Goto(q, pc)
            PROVE  job'[q].pc = pc
        BY <1>1, <3>1, Lands DEF Steps
      <3>2. Teardown(q) \/ NextHost(q) => job'[q].pc = "host"
        BY <1>1, Known DEF Teardown, NextHost, JobsOK, Jobs
      <3>3. job' = [job EXCEPT ![q].pc = "terminatingPut", ![q].fresh = TRUE]
              => job'[q].pc = "terminatingPut"
        BY <1>1, LandsReading DEF Steps
      <3> QED
        BY <1>10, <3>1, <3>2, <3>3 DEF DeleteStart, DeleteStartPut, DeleteHost, DeleteStatefulSet,
           WaitHostDeleted, DeletePVC, HostsDeleted, Deletions
    <2> QED
      BY <1>6, <2>1, <2>2 DEF Steps, Deletions
  <1>11. CASE UninstallFinalizer(q)
    <2>1. CASE Finish(q)
      BY <1>5, <1>11, <2>1 DEF UninstallFinalizer
    <2>2. CASE job' = [job EXCEPT ![q].pc = "releasePut", ![q].fresh = TRUE]
      <3>1. job'[q].pc = "releasePut"
        BY <1>1, <2>2, LandsReading DEF Steps
      <3> QED
        BY <1>6, <1>11, <3>1 DEF UninstallFinalizer, Steps, Deletions
    <2> QED
      BY <1>11, <2>1, <2>2 DEF UninstallFinalizer
  <1>12. CASE Begin(q) \/ ReconcileHost(q) \/ Clear(q)
    <2>1. ~Telling(job[q].item) /\ UNCHANGED <<api, events>>
      BY <1>3, <1>12 DEF Begin, ReconcileHost, Clear, At, Deletions
    <2>2. CASE Finish(q)
      BY <1>5, <2>1, <2>2
    <2>3. CASE ~Finish(q)
      <3>1. job'[q].pc = "build" \/ job'[q].pc = "drop"
        <4>1. Goto(q, "drop") => job'[q].pc = "drop"
          BY <1>1, Lands DEF Steps
        <4>2. \/ job' = [job EXCEPT ![q].pc = "build", ![q].left = New(q).spec]
              \/ job' = [job EXCEPT ![q].left = @ \ {Host(q)}] /\ job[q].pc = "build"
                => job'[q].pc = "build"
          BY <1>1, Known DEF JobsOK, Jobs
        <4> QED
          BY <1>1, <1>12, <2>3, <4>1, <4>2, Known DEF Begin, ReconcileHost, Clear, At, JobsOK, Jobs
      <3> QED
        BY <1>6, <2>1, <3>1 DEF Steps
    <2> QED
      BY <2>2, <2>3
  <1>13. CASE Cancelled(q) \/ DropReplicas(q) \/ DiscoveryAndDelete(q)
    BY <1>5, <1>13 DEF Cancelled, DropReplicas, DiscoveryAndDelete
  <1> QED
    BY <1>4, <1>7, <1>8, <1>9, <1>10, <1>11, <1>12, <1>13 DEF Work

\* Every step keeps every deletion heard of.
LEMMA HeardNext == Untouched /\ Served /\ AllHeard /\ [Next]_vars => AllHeard'
  <1> SUFFICES ASSUME Untouched, Served, AllHeard, [Next]_vars PROVE AllHeard'
    OBVIOUS
  <1>1. CASE Crash
    BY <1>1, CrashHeard
  <1>2. ASSUME UNCHANGED <<api, events, pending, job>> PROVE AllHeard'
    BY <1>2, HeardStill DEF AllHeard, JobsStay
  <1>3. ASSUME NEW c \in Chis, User(c) PROVE AllHeard'
    BY <1>3, UserHeard
  <1>4. ASSUME NEW c \in Chis, Deliver(c) PROVE AllHeard'
    BY <1>4, DeliverHeard
  <1>5. ASSUME NEW c \in Chis, Kubernetes(c) PROVE AllHeard'
    <2>1. ~ForeignGone(c)
      BY DEF ForeignGone, AllHeard, Heard
    <2> QED
      BY <1>2, <1>5, <2>1 DEF Kubernetes, StatefulSetGone, PvcGone, Collect
  <1>6. ASSUME NEW q \in Queues, Cancel(q) PROVE AllHeard'
    <2>1. job'[q] = [job[q] EXCEPT !.done = TRUE] /\ \A p \in Queues \ {q} : job'[p] = job[p]
      BY <1>6 DEF Cancel, Served, JobsOK
    <2>2. job[q] # None /\ job[q] \in Jobs
      BY <1>6, Known DEF Cancel, Served
    <2>3. \A c \in Chis : JobsStay(c)
      BY <2>1, <2>2 DEF JobsStay, Jobs
    <2> QED
      BY <1>6, <2>3, HeardStill DEF Cancel, AllHeard
  <1>7. ASSUME NEW q \in Queues, Take(q) PROVE AllHeard'
    BY <1>7, TakeHeard
  <1>8. ASSUME NEW q \in Queues, Work(q) PROVE AllHeard'
    BY <1>8, WorkHeard
  <1>9. CASE UNCHANGED vars
    BY <1>2, <1>9 DEF vars
  <1> QED
    BY <1>1, <1>3, <1>4, <1>5, <1>6, <1>7, <1>8, <1>9 DEF Next

\* No pass builds hosts for a CHI that its own command says is being deleted, if
\* nobody else holds or touches it and its reads and writes succeed: whatever
\* the calls to Kubernetes answer, whoever cancels and however often the operator
\* restarts.
THEOREM DeletedStaysDown ==
    ASSUME Untouched
    PROVE  Spec => DeletedNotRebuilt
  <1>1. Init => AllHeard
    BY DEF Init, AllHeard, Heard, Exists, Telling
  <1>2. Served /\ AllHeard /\ [Next]_vars => (Served /\ AllHeard)'
    BY HeardNext, ServedNext
  <1>3. Served /\ AllHeard /\ [Next]_vars =>
          [\A q \in Queues : At(q, "build") /\ New(q).ts => sts' = sts]_vars
    <2> SUFFICES ASSUME Served, AllHeard, NEW q \in Queues, At(q, "build"), New(q).ts PROVE FALSE
      OBVIOUS
    <2>1. /\ job[q] # None /\ job[q].pc = "build" /\ Chi(q) \in Chis
          /\ New(q) \in ChiType
      BY Known DEF At, Served
    <2>2. Telling(job[q].item) /\ Heard(Chi(q))
      BY <2>1, Tells DEF Served, AllHeard
    <2> QED
      BY <2>1, <2>2 DEF Heard, Chi, Deletions
  <1> QED
    BY ServedInit, <1>1, <1>2, <1>3, PTL DEF Spec, DeletedNotRebuilt
=============================================================================
