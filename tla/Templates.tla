------------------------------ MODULE Templates ------------------------------
(***************************************************************************)
(* ClickHouseInstallationTemplates: the catalog the operator keeps of them *)
(* (pkg/apis/.../type_config_chop.go), fed by files at start and by an     *)
(* informer through the system queue (pkg/controller/chi/controller.go),   *)
(* and what a CHI gets from it when a worker normalizes it                 *)
(* (pkg/model/normalizer.go, the MergeFrom methods of the API types).  The *)
(* catalog is one global list, without a lock, of pointers to templates:   *)
(* the worker of the system queue changes it while workers of CHIs read    *)
(* it, and a CHI may go on using parts of a template in place.             *)
(***************************************************************************)
EXTENDS Integers, Sequences, SequencesExt

CONSTANTS
  None,        \* no command; the name of an entry that is taken off
  Templates,   \* template objects of the API
  Files,       \* templates in files, a sequence sorted by file name
  Automatic,   \* those with the templating policy auto
  Clustered,   \* those with .spec.configuration.clusters
  CHIs,
  Uses,        \* .spec.useTemplates of each CHI
  Configured,  \* CHIs with a .spec.configuration of their own
  MaxVersion,  \* bound on the versions of a template
  MaxResyncs,  \* bound on resyncs of the informer
  MaxCrashes   \* bound on restarts of the operator

ASSUME FilesAssumption == ToSet(Files) \cap Templates = {} /\ IsFiniteSet(ToSet(Files))
ASSUME BoundsAssumption == {MaxVersion, MaxResyncs, MaxCrashes} \subseteq Nat

VARIABLES
  api,      \* the version of each template in the API, 0 if there is none
  last,     \* the last version given to each
  mail,     \* the command that waits in the system queue for each
  catalog,  \* chop.Config().CHITemplates
  stage,    \* of the normalization and pass of each CHI
  auto,     \* positions FindAutoTemplates returned for it
  todo,     \* names still to be merged
  merged,   \* positions merged so far
  made,     \* <<CHI, the CHI in the name>> of objects made
  resyncs, crashes

vars == <<api, last, mail, catalog, stage, auto, todo, merged, made, resyncs, crashes>>
chiVars == <<stage, auto, todo, merged, made>>

Names == Templates \cup ToSet(Files)
Command(cmd, old, new) == [cmd |-> cmd, old |-> old, new |-> new]
Commands == [cmd : {"add", "update", "delete"}, old : 0 .. MaxVersion, new : 0 .. MaxVersion]
ASSUME NamesAssumption == None \notin Templates \cup CHIs /\ None \notin Commands

\* name is what the entry is found by, of what it is, owner the CHI whose
\* addresses its clusters hold.
Entry(t, version) == [name |-> t, of |-> t, version |-> version, owner |-> None]

-----------------------------------------------------------------------------
(* The catalog.                                                            *)

EnlistCHITemplate(t, version) == catalog' = Append(catalog, Entry(t, version))

\* Mutant: only the entry that was found first is taken off.
UnlistCHITemplateFirst(t) ==
  LET at == {k \in DOMAIN catalog : catalog[k].name = t}
  IN catalog' = IF at = {} THEN catalog ELSE [catalog EXCEPT ![Min(at)].name = None]

\* Every entry of the name loses its name and namespace, and stays.
UnlistCHITemplate(t) ==
  catalog' = [k \in DOMAIN catalog |->
                IF catalog[k].name = t THEN [catalog[k] EXCEPT !.name = None] ELSE catalog[k]]

\* The position of the first entry of a name, 0 if there is none.
FindTemplate(t) == SelectInSeq(catalog, LAMBDA e : e.name = t)

FindAutoTemplates ==
  SetToSortSeq({k \in DOMAIN catalog : catalog[k].name # None /\ catalog[k].of \in Automatic}, <)

-----------------------------------------------------------------------------
(* The API and the informer.  A command takes the place of the one of the  *)
(* same template that waits.                                               *)

Enqueue(t, command) == mail' = [mail EXCEPT ![t] = command]

CreateTemplate(t) ==
  /\ api[t] = 0
  /\ last[t] < MaxVersion
  /\ last' = [last EXCEPT ![t] = @ + 1]
  /\ api' = [api EXCEPT ![t] = last'[t]]
  /\ Enqueue(t, Command("add", 0, api'[t]))
  /\ UNCHANGED <<catalog, chiVars, resyncs, crashes>>

UpdateTemplate(t) ==
  /\ api[t] # 0
  /\ last[t] < MaxVersion
  /\ last' = [last EXCEPT ![t] = @ + 1]
  /\ api' = [api EXCEPT ![t] = last'[t]]
  /\ Enqueue(t, Command("update", api[t], api'[t]))
  /\ UNCHANGED <<catalog, chiVars, resyncs, crashes>>

DeleteTemplate(t) ==
  /\ api[t] # 0
  /\ api' = [api EXCEPT ![t] = 0]
  /\ Enqueue(t, Command("delete", api[t], 0))
  /\ UNCHANGED <<last, catalog, chiVars, resyncs, crashes>>

\* Once a minute the informer hands out all it has again, as updates.
Resync ==
  /\ resyncs < MaxResyncs
  /\ resyncs' = resyncs + 1
  /\ mail' = [t \in Templates |->
                IF api[t] # 0 THEN Command("update", api[t], api[t]) ELSE mail[t]]
  /\ UNCHANGED <<api, last, catalog, chiVars, crashes>>

\* Mutant: a template that is listed already is taken for known.
AddChitOnce(t) ==
  /\ mail[t].cmd = "add"
  /\ IF \E k \in DOMAIN catalog : catalog[k].of = t
     THEN UNCHANGED catalog ELSE EnlistCHITemplate(t, mail[t].new)

AddChit(t) ==
  /\ mail[t].cmd = "add"
  /\ EnlistCHITemplate(t, mail[t].new)

\* The new version is appended; the old one stays before it.
UpdateChit(t) ==
  /\ mail[t].cmd = "update"
  /\ IF mail[t].old = mail[t].new THEN UNCHANGED catalog ELSE EnlistCHITemplate(t, mail[t].new)

DeleteChit(t) ==
  /\ mail[t].cmd = "delete"
  /\ UnlistCHITemplate(t)

\* The worker of the system queue takes what waits.
ProcessReconcileCHIT(t) ==
  /\ mail[t] # None
  /\ AddChit(t) \/ UpdateChit(t) \/ DeleteChit(t)
  /\ mail' = [mail EXCEPT ![t] = None]
  /\ UNCHANGED <<api, last, chiVars, resyncs, crashes>>

-----------------------------------------------------------------------------
(* Start of the operator.                                                  *)

\* Files are read into a map and listed in the order a walk over it yields.
ReadCHITemplates(order) == [k \in DOMAIN order |-> Entry(order[k], 1)]

Init ==
  /\ api = [t \in Templates |-> 0]
  /\ last = api
  /\ mail = [t \in Templates |-> None]
  /\ \E order \in SetToSeqs(ToSet(Files)) : catalog = ReadCHITemplates(order)
  /\ stage = [c \in CHIs |-> "idle"]
  /\ auto = [c \in CHIs |-> <<>>]
  /\ todo = auto
  /\ merged = auto
  /\ made = {}
  /\ resyncs = 0
  /\ crashes = 0

\* What is in the API is told anew.
Restart ==
  /\ crashes < MaxCrashes
  /\ crashes' = crashes + 1
  /\ \E order \in SetToSeqs(ToSet(Files)) : catalog' = ReadCHITemplates(order)
  /\ mail' = [t \in Templates |-> IF api[t] = 0 THEN None ELSE Command("add", 0, api[t])]
  /\ stage' = [c \in CHIs |-> "idle"]
  /\ auto' = [c \in CHIs |-> <<>>]
  /\ todo' = auto'
  /\ merged' = auto'
  /\ UNCHANGED <<api, last, made, resyncs>>

-----------------------------------------------------------------------------
(* Normalization of a CHI and the pass that follows.                       *)

CollectAutoTemplates(c) ==
  /\ stage[c] = "idle"
  /\ stage' = [stage EXCEPT ![c] = "auto"]
  /\ auto' = [auto EXCEPT ![c] = FindAutoTemplates]
  /\ merged' = [merged EXCEPT ![c] = <<>>]
  /\ UNCHANGED <<api, last, mail, catalog, todo, made, resyncs, crashes>>

\* The name of each is copied from its entry, as it is by now.
CollectUseTemplates(c) ==
  /\ stage[c] = "auto"
  /\ stage' = [stage EXCEPT ![c] = "merge"]
  /\ todo' = [todo EXCEPT ![c] = [k \in DOMAIN auto[c] |-> catalog[auto[c][k]].name] \o Uses[c]]
  /\ UNCHANGED <<api, last, mail, catalog, auto, merged, made, resyncs, crashes>>

\* One that is not found is skipped.
MergeTemplate(c) ==
  /\ stage[c] = "merge"
  /\ todo[c] # <<>>
  /\ LET k == FindTemplate(Head(todo[c]))
     IN merged' = [merged EXCEPT ![c] = IF k = 0 THEN @ ELSE Append(@, k)]
  /\ todo' = [todo EXCEPT ![c] = Tail(@)]
  /\ UNCHANGED <<api, last, mail, catalog, stage, auto, made, resyncs, crashes>>

\* The template whose clusters a CHI uses, 0 if it uses its own.
Borrowed(c) ==
  IF c \in Configured THEN 0
  ELSE LET from == SelectSeq(merged[c], LAMBDA k : catalog[k].of \in Clustered)
       IN IF from = <<>> THEN 0 ELSE Last(from)

\* Addresses are filled in place, in the clusters of the template too.
FinalizeCHI(c) ==
  /\ stage[c] = "merge"
  /\ todo[c] = <<>>
  /\ stage' = [stage EXCEPT ![c] = "pass"]
  /\ catalog' = IF Borrowed(c) = 0 THEN catalog ELSE [catalog EXCEPT ![Borrowed(c)].owner = c]
  /\ UNCHANGED <<api, last, mail, auto, todo, merged, made, resyncs, crashes>>

\* An object of a host is named by the address of the host.
MakeObject(c) ==
  /\ stage[c] = "pass"
  /\ made' = made \cup {<<c, IF Borrowed(c) = 0 THEN c ELSE catalog[Borrowed(c)].owner>>}
  /\ UNCHANGED <<api, last, mail, catalog, stage, auto, todo, merged, resyncs, crashes>>

EndPass(c) ==
  /\ stage[c] = "pass"
  /\ stage' = [stage EXCEPT ![c] = "idle"]
  /\ UNCHANGED <<api, last, mail, catalog, auto, todo, merged, made, resyncs, crashes>>

\* A setting of the CHI or of a template: the first one met is kept.
Setting(c) == IF merged[c] = <<>> THEN c ELSE catalog[merged[c][1]].of

-----------------------------------------------------------------------------

Next ==
  \/ \E t \in Templates : \/ CreateTemplate(t) \/ UpdateTemplate(t) \/ DeleteTemplate(t)
                          \/ ProcessReconcileCHIT(t)
  \/ \E c \in CHIs : \/ CollectAutoTemplates(c) \/ CollectUseTemplates(c) \/ MergeTemplate(c)
                     \/ FinalizeCHI(c) \/ MakeObject(c) \/ EndPass(c)
  \/ Resync
  \/ Restart

Spec == Init /\ [][Next]_vars

-----------------------------------------------------------------------------
(* Properties.                                                             *)

\* FindTemplate finds the template.
Listed(t) == \E k \in DOMAIN catalog : catalog[k].name = t

\* A template that is deleted, and whose commands are served, is in no entry
\* any more, however often it was edited, deleted and made again before.
DeletedIsDropped ==
  \A t \in Templates : api[t] = 0 /\ mail[t] = None => ~Listed(t)

\* Objects a pass makes carry the name of its own CHI.
\* The code breaks it: README.md, Disagreements.
OwnNames == \A m \in made : m[1] = m[2]

\* A template whose commands are served is in the catalog as long as it is in
\* the API, over restarts, and when it was deleted and made again, as long as the
\* informer did not hand out all of them once more: then an update that changes
\* nothing may take the place of the command that waits.
ListedWhenServed ==
  resyncs = 0 => \A t \in Templates : api[t] # 0 /\ mail[t] = None => Listed(t)

\* When all commands are served, the catalog gives the version of the API.
\* The code breaks it: README.md, Disagreements.
Current ==
  \A t \in Templates : api[t] # 0 /\ mail[t] = None =>
    Listed(t) /\ catalog[FindTemplate(t)].version = api[t]

\* A CHI gets the templates it asks for and those that apply to all.
\* The code breaks it: README.md, Disagreements.
OnlyAsked ==
  \A c \in CHIs : \A k \in ToSet(merged[c]) : catalog[k].of \in Automatic \cup ToSet(Uses[c])

\* The CHI has the last word on what it specifies itself.
\* The code breaks it: README.md, Disagreements.
ChiOnTop == \A c \in CHIs : stage[c] = "pass" => Setting(c) = c

\* Templates in files are applied in the order of their names.
\* The code breaks it: README.md, Disagreements.
FilesInOrder ==
  \A c \in CHIs : stage[c] = "pass" =>
    LET applied == SelectSeq(merged[c], LAMBDA k : catalog[k].of \in ToSet(Files))
    IN [k \in DOMAIN applied |-> catalog[applied[k]].of] =
         SelectSeq(Files, LAMBDA f : f \in Automatic)
=============================================================================
