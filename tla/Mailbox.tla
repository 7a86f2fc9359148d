------------------------------- MODULE Mailbox -------------------------------
(***************************************************************************)
(* What the queues and workers of the operator promise each CHI            *)
(* (pkg/controller/chi/controller.go, type_cmd_queue.go, worker.go): at    *)
(* most one command waits, the newest; at most one is served; and what     *)
(* waits is served in the end, unless a newer command takes its place or   *)
(* the process dies.                                                       *)
(***************************************************************************)
EXTENDS FiniteSets

CONSTANTS Chis,     \* the CHIs
          Commands  \* what may be asked about one

VARIABLES waiting,  \* [Chis -> at most one command]
          serving   \* [Chis -> at most one command]
vars == <<waiting, serving>>

Init ==
    /\ waiting = [c \in Chis |-> {}]
    /\ serving = [c \in Chis |-> {}]

\* A command takes the place of the one that waits.
Put(c) ==
    /\ \E m \in waiting'[c] : m \in Commands /\ waiting' = [waiting EXCEPT ![c] = {m}]
    /\ UNCHANGED serving

\* A command is served only when none of the same CHI is.
Take(c) ==
    /\ waiting[c] # {}
    /\ serving[c] = {}
    /\ serving' = [serving EXCEPT ![c] = waiting[c]]
    /\ waiting' = [waiting EXCEPT ![c] = {}]

Finish(c) ==
    /\ serving[c] # {}
    /\ serving' = [serving EXCEPT ![c] = {}]
    /\ UNCHANGED waiting

\* The process ends and takes everything with it.
Reset ==
    /\ waiting' = [c \in Chis |-> {}]
    /\ serving' = [c \in Chis |-> {}]

Next == Reset \/ \E c \in Chis : Put(c) \/ Take(c) \/ Finish(c)

\* Nobody has to ask, but what is asked is taken up, and what is taken up ends.
Spec == Init /\ [][Next]_vars
FairSpec == Spec /\ \A c \in Chis : WF_vars(Take(c)) /\ WF_vars(Finish(c))
=============================================================================
