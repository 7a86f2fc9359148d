----------------------------- MODULE ConfigFiles -----------------------------
(***************************************************************************)
(* Configuration files of ClickHouse servers.  Files and settings are      *)
(* given for a CHI, a cluster, a row of it (a shard or a replica) or a     *)
(* host, inherited downwards (normalizer.go, type_settings.go), sorted     *)
(* into the ConfigMaps of a CHI and of each host (ch_config_files_         *)
(* generator.go), and hashed into a label of the StatefulSet that decides  *)
(* whether a server is restarted (calcFingerprints).  A path is normalized *)
(* when it is read: here it is a section, a name and a spelling.           *)
(***************************************************************************)
EXTENDS Integers, Sequences, FiniteSetsExt

CONSTANTS
  None,            \* no such file, no such setting
  CHI,             \* the scope of the whole CHI
  Cluster,         \* of a cluster,
  Row,             \* of the row of each host, a function,
  Hosts,           \* and of the hosts themselves
  Keys,            \* records of a section, a name and a spelling
  Contents,
  Edited,          \* what the user changes: pairs of a scope and a key
  OperatorFiles,   \* the operator's own: names of each section and contents
  Both,            \* passes are cancelled and servers crash in one behaviour
  MaxEdits,        \* bounds
  MaxCrashes

VARIABLES
  files,     \* .files of each scope
  settings,  \* .settings of each scope, as one value
  mounted,   \* data of the ConfigMaps
  loaded,    \* what each server read when it started
  label,     \* fingerprint in the label of each StatefulSet
  todo,      \* hosts the pass has still to reconcile; "common" before them
  cancelled, \* an edit has cancelled a pass
  edits, crashes

vars == <<files, settings, mounted, loaded, label, todo, cancelled, edits, crashes>>

Scopes == {CHI, Cluster} \cup {Row[h] : h \in Hosts} \cup Hosts

Assumptions ==
  /\ MaxEdits \in Nat /\ MaxCrashes \in Nat /\ Both \in BOOLEAN
  /\ "common" \notin Hosts /\ Edited \subseteq Scopes \X Keys
  /\ \A k \in Keys : k.section \in {"common", "users", "host", "unspecified", "wrong"}

\* Scopes a host is in, from the widest to its own.
Path(h) == <<CHI, Cluster, Row[h], h>>

\* chop-generated-settings.xml, in each of two sections.
SettingsFile == "settings"
Names == {k.name : k \in Keys} \cup {SettingsFile} \cup {f[2] : f \in DOMAIN OperatorFiles}
NoFiles == [n \in Names |-> None]

-----------------------------------------------------------------------------
(* Inheritance                                                             *)

\* Mutant: what is inherited comes first.
MergeFromWider(own, wider) == [k \in DOMAIN own |-> IF wider[k] # None THEN wider[k] ELSE own[k]]

\* What a scope has itself comes first.
MergeFrom(own, wider) == [k \in DOMAIN own |-> IF own[k] # None THEN own[k] ELSE wider[k]]

\* Of the CHI's files a cluster takes those for hosts, whatever it has itself.
ClusterFiles ==
  [k \in Keys |-> IF k.section = "host" /\ files[CHI][k] # None THEN files[CHI][k]
                  ELSE files[Cluster][k]]

HostFiles(h) == MergeFrom(files[h], MergeFrom(files[Row[h]], ClusterFiles))

\* Settings are not inherited from the CHI.
HostSettings(h) ==
  LET own == {i \in 2..4 : settings[Path(h)[i]] # None}
  IN IF own = {} THEN None ELSE settings[Path(h)[Max(own)]]

-----------------------------------------------------------------------------
(* Files                                                                   *)

\* The section is the first part of a path of several.
InSection(k, section, includeUnspecified) ==
  \/ k.section = section
  \/ k.section = "unspecified" /\ includeUnspecified

\* Keys of a section that make a file.  Keys of one name make one file: the
\* walk over the map ends with any of them.
GetSection(given, section, includeUnspecified) ==
  LET in == {k \in Keys : given[k] # None /\ InSection(k, section, includeUnspecified)}
      Last(keys) == \A k \in in : \E l \in keys : {i \in keys : i.name = k.name} = {l}
  IN {[n \in Names |-> IF \E k \in keys : k.name = n
                        THEN given[CHOOSE k \in keys : k.name = n] ELSE None] :
        keys \in {keys \in SUBSET in : Last(keys)}}

\* Later files replace earlier ones of the same name.
Overwrite(m, by) == [n \in Names |-> IF by[n] # None THEN by[n] ELSE m[n]]

OperatorOf(section) ==
  [n \in Names |-> IF <<section, n>> \in DOMAIN OperatorFiles THEN OperatorFiles[section, n] ELSE None]

Group(section, setting, users) ==
  Overwrite(Overwrite([NoFiles EXCEPT ![SettingsFile] = setting], users), OperatorOf(section))

\* ConfigMaps of the CHI and of a host, as a pass may build them.
CommonGroups == {Group("common", settings[CHI], m) : m \in GetSection(files[CHI], "common", TRUE)}
UsersGroups  == {Group("users", None, m) : m \in GetSection(files[CHI], "users", FALSE)}
HostGroups(h) == {Group("host", HostSettings(h), m) : m \in GetSection(HostFiles(h), "host", TRUE)}

\* Mutant: files without a section are left out.
FilterSpecified(given) == [k \in {k \in Keys : k.section \in {"common", "host"}} |-> given[k]]

\* Files that need a restart: all but those of the users section and those of
\* unknown sections.
Filter(given) ==
  [k \in {k \in Keys : k.section \in {"common", "host", "unspecified"}} |-> given[k]]

Fingerprint(h) == <<settings[CHI], HostSettings(h), Filter(files[CHI]), Filter(HostFiles(h))>>

-----------------------------------------------------------------------------

Init ==
  /\ files = [s \in Scopes |-> [k \in Keys |-> None]]
  /\ settings = [s \in Scopes |-> None]
  /\ mounted = [common |-> Group("common", None, NoFiles), users |-> Group("users", None, NoFiles),
                host |-> [h \in Hosts |-> Group("host", None, NoFiles)]]
  /\ loaded = [h \in Hosts |-> <<mounted.common, mounted.host[h]>>]
  /\ label = [h \in Hosts |-> Fingerprint(h)]
  /\ todo = {}
  /\ cancelled = FALSE
  /\ edits = 0
  /\ crashes = 0

\* A changed CHI: a pass that runs is cancelled and a new one begins.
Changed ==
  /\ edits < MaxEdits
  /\ todo = {} \/ crashes = 0 \/ Both
  /\ cancelled' = (cancelled \/ todo # {})
  /\ todo' = Hosts \cup {"common"}
  /\ edits' = edits + 1
  /\ UNCHANGED <<mounted, loaded, label, crashes>>

EditFile ==
  \E e \in Edited, c \in Contents \cup {None} :
    /\ files[e[1]][e[2]] # c
    /\ files' = [files EXCEPT ![e[1]][e[2]] = c]
    /\ Changed
    /\ UNCHANGED settings

EditSettings ==
  \E s \in Scopes, c \in Contents \cup {None} :
    /\ settings[s] # c
    /\ settings' = [settings EXCEPT ![s] = c]
    /\ Changed
    /\ UNCHANGED files

\* The operator starts again and goes over a CHI that did not change.
RestartOperator ==
  /\ edits < MaxEdits
  /\ todo' = Hosts \cup {"common"}
  /\ edits' = edits + 1
  /\ UNCHANGED <<files, settings, mounted, loaded, label, cancelled, crashes>>

\* The pass starts with the ConfigMaps of the CHI,
ReconcileCommon ==
  /\ "common" \in todo
  /\ \E c \in CommonGroups, u \in UsersGroups :
       mounted' = [mounted EXCEPT !.common = c, !.users = u]
  /\ todo' = todo \ {"common"}
  /\ UNCHANGED <<files, settings, loaded, label, cancelled, edits, crashes>>

\* and does for each host its ConfigMap and its StatefulSet: another label
\* gives it a new Pod.
ReconcileHost(h) ==
  /\ h \in todo /\ "common" \notin todo
  /\ \E m \in HostGroups(h) :
       /\ mounted' = [mounted EXCEPT !.host[h] = m]
       /\ loaded' = IF label[h] = Fingerprint(h) THEN loaded
                    ELSE [loaded EXCEPT ![h] = <<mounted.common, m>>]
  /\ label' = [label EXCEPT ![h] = Fingerprint(h)]
  /\ todo' = todo \ {h}
  /\ UNCHANGED <<files, settings, cancelled, edits, crashes>>

\* A server starts again by itself.
Crash(h) ==
  /\ crashes < MaxCrashes
  /\ ~cancelled \/ Both
  /\ loaded' = [loaded EXCEPT ![h] = <<mounted.common, mounted.host[h]>>]
  /\ crashes' = crashes + 1
  /\ UNCHANGED <<files, settings, mounted, label, todo, cancelled, edits>>

Next ==
  \/ EditFile \/ EditSettings \/ RestartOperator \/ ReconcileCommon
  \/ \E h \in Hosts : ReconcileHost(h) \/ Crash(h)

Spec == Init /\ [][Next]_vars

-----------------------------------------------------------------------------

\* Between passes every server runs with the files that are mounted: no
\* change of a file goes unnoticed by the label.
LoadedIsMounted ==
  todo = {} => \A h \in Hosts : loaded[h] = <<mounted.common, mounted.host[h]>>

\* Of a file for hosts that several scopes have, a host gets the one of the
\* narrowest.
NarrowWins ==
  todo = {} =>
    \A h \in Hosts : \A k \in {k \in Keys : k.section = "host"} :
      LET having == {i \in 1..4 : files[Path(h)[i]][k] # None}
      IN having # {} => mounted.host[h][k.name] = files[Path(h)[Max(having)]][k]

\* Each file of the CHI is mounted with its content.
\* The code breaks it: README.md, Disagreements.
EveryFileMounted ==
  todo = {} =>
    \A k \in Keys : files[CHI][k] # None =>
      CASE k.section \in {"common", "unspecified"} -> mounted.common[k.name] = files[CHI][k]
        [] k.section = "users" -> mounted.users[k.name] = files[CHI][k]
        [] k.section = "host" -> \A h \in Hosts : mounted.host[h][k.name] # None
        [] OTHER -> TRUE

\* A file of a cluster is mounted in its hosts, also one for users.
\* The code breaks it: README.md, Disagreements.
ClusterUsersMounted ==
  todo = {} =>
    \A k \in Keys : k.section = "users" /\ files[Cluster][k] # None =>
      mounted.users[k.name] = files[Cluster][k]
=============================================================================
