---------------------------- MODULE MCController ----------------------------
(* CHIs, hosts and queues for Controller.                                   *)
EXTENDS Controller

OneQueue == [c \in Chis |-> 1]

NonEmpty == SUBSET Hosts \ {{}}
\* Scaled in one by one.
Shrinking == {1 .. n : n \in Hosts}

\* Two CHIs of one host, just created, that nobody edits: they share a worker.
StartTwo ==
    LET new(c) == [spec |-> {1}, fin |-> FALSE, foreign |-> c \in Foreign, ts |-> FALSE]
    IN  /\ api = [c \in Chis |-> new(c)]
        /\ born = Chis /\ retained = {}
        /\ events = [c \in Chis |-> <<Command("add", None, new(c))>>]
        /\ spent = [edits |-> MaxEdits, notes |-> 0, crashes |-> 0]

\* One CHI still to be created; the other one came and went before.
StartOne ==
    /\ api = [c \in Chis |-> None]
    /\ born = {"b"} /\ retained = {}
    /\ events = [c \in Chis |-> <<>>]
    /\ spent = [edits |-> 0, notes |-> 0, crashes |-> 0]

\* What both begin with: no objects, nothing waits, nothing is served.
Start ==
    /\ StartOne \/ StartTwo
    /\ sts = [c \in Chis |-> [h \in Hosts |-> "none"]]
    /\ pvc = [c \in Chis |-> [h \in Hosts |-> "none"]]
    /\ paths = [c \in Chis |-> {}]
    /\ pending = [q \in Queues |-> [c \in Chis |-> None]]
    /\ job = [q \in Queues |-> None]

StartSpec == Start /\ [][Next]_vars /\ Fairness
=============================================================================
