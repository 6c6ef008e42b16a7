---------------------------- MODULE OrderedOutbox ----------------------------
(***************************************************************************)
(* What the User Actor outbox promises of the rows it keeps, with no       *)
(* drains, claims, followers or crashes: versions of an object go to an    *)
(* endpoint one at a time and in order; a version that has been sent is    *)
(* never sent again; the last version of a deleted object overtakes the    *)
(* older ones that wait, and finishes them.                                *)
(***************************************************************************)
EXTENDS Integers

CONSTANTS Keys, MaxVersion, Endpoints

Versions == 1..MaxVersion
Rows     == [key : Keys, ver : Versions, ep : Endpoints]

VARIABLES
    version,  \* last version of each object
    closed,   \* objects whose last version is final
    state     \* of each row

vars == <<version, closed, state>>

Older(r) == {s \in Rows : s.key = r.key /\ s.ep = r.ep /\ s.ver < r.ver}
Newer(r) == {s \in Rows : s.key = r.key /\ s.ep = r.ep /\ s.ver > r.ver}
Final(r) == r.key \in closed /\ r.ver = version[r.key]
Over     == {"absent", "sent", "dropped"}

Init ==
    /\ version = [k \in Keys |-> 0]
    /\ closed = {}
    /\ state = [r \in Rows |-> "absent"]

\* The next version of an object, for some of the endpoints; none after the
\* final one.
Enqueue(k, E, C) ==
    /\ k \notin closed
    /\ version[k] < MaxVersion
    /\ version' = [version EXCEPT ![k] = @ + 1]
    /\ closed' = closed \cup C
    /\ state' = [r \in Rows |->
                    IF r.key = k /\ r.ver = version'[k] /\ r.ep \in E
                    THEN "waiting" ELSE state[r]]

\* A row may start again after its sender was lost.
Start(r) ==
    /\ state[r] \in {"waiting", "sending"}
    /\ \A s \in Older(r) : state[s] \in IF Final(r) THEN Over \cup {"waiting"} ELSE Over
    /\ \A s \in Newer(r) : state[s] # "sending" /\ (Final(s) => state[s] \in Over \ {"sent"})
    /\ state' = [state EXCEPT ![r] = "sending"]
    /\ UNCHANGED <<version, closed>>

Finish(r) ==
    /\ state[r] = "sending"
    /\ state' = [s \in Rows |->
                    CASE s = r -> "sent"
                      [] s # r /\ Final(r) /\ s \in Older(r) /\ state[s] = "waiting" -> "dropped"
                      [] OTHER -> state[s]]
    /\ UNCHANGED <<version, closed>>

Requeue(r) ==
    /\ state[r] = "sending"
    /\ state' = [state EXCEPT ![r] = "waiting"]
    /\ UNCHANGED <<version, closed>>

Drop(r) ==
    /\ state[r] \in {"waiting", "sending"}
    /\ state' = [state EXCEPT ![r] = "dropped"]
    /\ UNCHANGED <<version, closed>>

Next ==
    \/ \E k \in Keys, E \in SUBSET Endpoints : \E C \in {{}, {k}} : Enqueue(k, E, C)
    \/ \E r \in Rows : Start(r) \/ Finish(r) \/ Requeue(r) \/ Drop(r)

Spec == Init /\ [][Next]_vars
=============================================================================
