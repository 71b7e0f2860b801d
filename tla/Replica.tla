------------------------------- MODULE Replica -------------------------------
(***************************************************************************)
(* What a subscription promises to its peer, whatever is queued, read,     *)
(* timed and sent again in between: a copy of the node's clusters and a    *)
(* record of its events that never go back and are never ahead of the      *)
(* node, and that nothing changes any more once the subscription is over.  *)
(***************************************************************************)
EXTENDS Integers

CONSTANTS
    Clusters,
    Nothing     \* what the copy of a cluster is before the first report

VARIABLES
    current,    \* current[c]: the number of changes of cluster c
    newest,     \* the number of the last event
    copy,       \* copy[c]: the change of c the peer knows of
    seen,       \* the events the peer has
    over        \* the subscription is over

vars == <<current, newest, copy, seen, over>>

\* The peer may hold the first value of a cluster from an earlier subscription.
Init ==
    /\ current = [c \in Clusters |-> 0]
    /\ newest = 0
    /\ copy \in [Clusters -> {Nothing, 0}]
    /\ seen = {}
    /\ over = FALSE

Change(c) ==
    /\ current' = [current EXCEPT ![c] = @ + 1]
    /\ UNCHANGED <<newest, copy, seen, over>>

Occur ==
    /\ newest' = newest + 1
    /\ UNCHANGED <<current, copy, seen, over>>

\* The peer learns what the node had at some time since it last heard of it.
Learn ==
    /\ copy' \in [Clusters -> Int]
    /\ \A c \in Clusters : copy[c] <= copy'[c] /\ copy'[c] <= current[c]
    /\ seen \subseteq seen' /\ seen' \subseteq 1 .. newest
    /\ UNCHANGED <<current, newest>>

Report == ~over /\ Learn /\ UNCHANGED over

\* The report whose failure ends the subscription may have arrived.
End == ~over /\ over' = TRUE /\ Learn

Next == (\E c \in Clusters : Change(c)) \/ Occur \/ Report \/ End

Spec == Init /\ [][Next]_vars
=============================================================================
