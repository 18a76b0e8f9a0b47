--------------------------- MODULE DownloadQueue ----------------------------
(* What a BulkLoader promises its client, whatever goes on inside a call:  *)
(* items enter a queue and leave it, and the loader opens connections for  *)
(* them one at a time, within two limits and only for items that are still *)
(* to be loaded; an item is loaded over its own connection; and COMPLETE   *)
(* is announced over a queue of loaded items, with no connection left.     *)
EXTENDS Naturals, FiniteSets

CONSTANTS Items, HostOf, MaxPerHost, InitialLimit

VARIABLES
    queue,      \* the items the loader is to load or has loaded
    loaded,     \* those of them that are loaded
    open,       \* those of them that have a connection
    limit,      \* the most connections there may be
    complete    \* has COMPLETE been announced for this queue?

vars == <<queue, loaded, open, limit, complete>>

Init ==
    /\ queue = {} /\ loaded = {} /\ open = {}
    /\ limit = InitialLimit /\ complete = FALSE

(* An item enters, or enters once more: there is work again.               *)
Enter(i) ==
    /\ i \notin loaded
    /\ queue' = queue \cup {i} /\ open' = open \ {i} /\ complete' = FALSE
    /\ UNCHANGED <<loaded, limit>>

(* Some items leave, and their connections with them.                      *)
Leave(gone) ==
    /\ queue' = queue \ gone /\ loaded' = loaded \ gone /\ open' = open \ gone
    /\ UNCHANGED <<limit, complete>>

(* A connection is opened; some others may be found dead and closed first. *)
Open(i, dead) ==
    LET others == open \ dead
    IN /\ ~complete
       /\ i \in queue \ (loaded \cup open)
       /\ Cardinality(others) < limit
       /\ Cardinality({j \in others : HostOf[j] = HostOf[i]}) < MaxPerHost
       /\ open' = others \cup {i}
       /\ UNCHANGED <<queue, loaded, limit, complete>>

(* Connections are closed: an item is done, has failed or is paused.       *)
Close(some) ==
    /\ open' = open \ some
    /\ UNCHANGED <<queue, loaded, limit, complete>>

(* An item is loaded over its connection, which is still open then.        *)
Load(i) ==
    /\ i \in open \ loaded
    /\ loaded' = loaded \cup {i}
    /\ UNCHANGED <<queue, open, limit, complete>>

(* The client sets another limit; the connections above it stay.           *)
SetLimit ==
    /\ limit' \in Nat \ {0}
    /\ UNCHANGED <<queue, loaded, open, complete>>

(* COMPLETE: every item of the queue is loaded.                            *)
Announce ==
    /\ ~complete /\ queue = loaded
    /\ complete' = TRUE /\ open' = {}
    /\ UNCHANGED <<queue, loaded, limit>>

Next ==
    \/ Announce \/ SetLimit
    \/ \E some \in SUBSET Items : Leave(some) \/ Close(some)
    \/ \E i \in Items : \/ Enter(i) \/ Load(i)
                        \/ \E dead \in SUBSET Items : Open(i, dead)

Spec == Init /\ [][Next]_vars
=============================================================================
