----------------------------- MODULE BulkLoader -----------------------------
(***************************************************************************)
(* The download queue of br.com.stimuli.loading.BulkLoader together with   *)
(* the LoadingItem objects it drives (LoadingItem.as, XMLItem.as and its   *)
(* sibling types).                                                         *)
(*                                                                         *)
(* ActionScript runs one thread: a network event or a call of the client   *)
(* runs to its end before the next one begins.  What makes the class hard  *)
(* is that a running call dispatches events, and that a listener of the    *)
(* client may call the loader again in the middle of it.  `todo` is the    *)
(* rest of the call in progress, as a stack of frames; network events need *)
(* an empty stack, calls of the client an empty stack or a frame           *)
(* <<"listeners">> (an event is being handed to the client) on top.        *)
(***************************************************************************)
EXTENDS Integers, Sequences, FiniteSets, SequencesExt

CONSTANTS
    Items,          \* the LoadingItem objects the client may add
    Hosts,          \* host names
    HostOf,         \* the host each item's url names (item.hostName)
    MaxTries,       \* item.maxTries, of every item
    MaxPerHost,     \* maxConnectionsPerHost
    InitialLimit,   \* numConnections as the constructor sets it
    Limits,         \* the arguments of start(); 0 or less sets nothing
    Priorities,     \* the priorities the client uses (one decimal digit)
    Denied,         \* items whose transport throws a SecurityError in load()
    Malformed,      \* items whose data does not parse (XML, JSON)
    Ops,            \* the operations of the API this client uses
    Rules,          \* what this client refrains from, see ClientRules
    MaxCalls        \* bound: calls of the client other than add()

(***************************************************************************)
(* "noStaleKeys": no operation is given an item that has been removed.     *)
(* "noForcedPending": no loadNow() for an item whose load() was called.    *)
(* "noReloadLoaded": no reload() of an item that was already loaded.       *)
(* "noReentry": no listener of the client calls the loader.                *)
(***************************************************************************)
ClientRules == {"noStaleKeys", "noForcedPending", "noReloadLoaded", "noReentry"}

ASSUME ItemsAssumption == IsFiniteSet(Items)
ASSUME HostAssumption == HostOf \in [Items -> Hosts]
ASSUME BoundsAssumption ==
    /\ MaxTries \in Nat \ {0}
    /\ MaxPerHost \in Nat \ {0}
    /\ InitialLimit \in Nat \ {0}
    /\ Limits \subseteq Int
    /\ Priorities \subseteq Int
    /\ MaxCalls \in Nat
ASSUME SubsetAssumption == Denied \subseteq Items /\ Malformed \subseteq Items
ASSUME RulesAssumption == Rules \subseteq ClientRules

VARIABLES
    items,          \* _items: the queue, in loading order
    item,           \* the fields of each LoadingItem
    connections,    \* _connections: the entries of all host arrays
    connected,      \* _connections is not null
    numConnections, \* _numConnections
    itemsLoaded,    \* _itemsLoaded
    additionIndex,  \* _additionIndex
    isRunning, isFinished, isPaused,
    cleared,        \* _name is null: clear() was called
    net,            \* external: the transfers each item has in the player
    todo,           \* the frames left of the call in progress
    calls,          \* calls the client has made (bounded by MaxCalls)
    announced       \* history: runs of _onAllLoaded() since the last add()/reload()

queueVars   == <<items, itemsLoaded, additionIndex>>
connVars    == <<connections, connected, numConnections>>
flagVars    == <<isRunning, isFinished, isPaused, cleared>>
vars == <<items, item, connections, connected, numConnections, itemsLoaded,
          additionIndex, isRunning, isFinished, isPaused, cleared, net, todo,
          calls, announced>>

Statuses == {"null", "started", "stopped", "finished", "error"}

ItemFields ==
    [status: Statuses, isLoading: BOOLEAN, isLoaded: BOOLEAN,
     numTries: Nat, priority: Int, additionIndex: Nat]

(***************************************************************************)
(* A transfer is "pending" until the player dispatches OPEN, then "open";  *)
(* it is "deaf" once the item has taken its listeners off it.  `loader` is *)
(* the transport the item refers to, `orphans` those it has replaced by a  *)
(* second load() while they were still transferring.                       *)
(***************************************************************************)
Heard == {"pending", "open"}
Transfers == Heard \cup {"deaf"}
NetFields == [loader: Transfers \cup {"none"}, orphans: Seq(Transfers)]

Frames ==
    {<<"loadNext">>, <<"listeners">>, <<"allDone">>, <<"started">>,
     <<"contentTaken">>, <<"complete">>}
    \cup ({"loadNow", "force", "itemComplete", "itemError", "finish", "remove"}
          \X Items)
    \cup ({"resumeAll"} \X Nat \X Nat)

TypeOK ==
    /\ items \in Seq(Items)
    /\ item \in [Items -> ItemFields]
    /\ connections \in SUBSET (Items \X Nat)
    /\ connected \in BOOLEAN
    /\ numConnections \in Nat \ {0}
    /\ itemsLoaded \in Int
    /\ additionIndex \in Nat
    /\ isRunning \in BOOLEAN
    /\ isFinished \in BOOLEAN
    /\ isPaused \in BOOLEAN
    /\ cleared \in BOOLEAN
    /\ net \in [Items -> NetFields]
    /\ todo \in Seq(Frames)
    /\ calls \in Nat
    /\ announced \in Nat

-----------------------------------------------------------------------------
(* Reading the queue and the connections.                                   *)

Queued == {items[k] : k \in 1..Len(items)}
Known(i) == item[i].additionIndex # 0

EntriesOf(C, i) == {c \in C : c[1] = i}
HostEntries(C, h) == {c \in C : HostOf[c[1]] = h}

(* mutants: one of the two tests is missing.                                *)
CanOpen_AnyHost(C, i) == Cardinality(C) < numConnections
CanOpen_AnyTotal(C, i) == Cardinality(HostEntries(C, HostOf[i])) < MaxPerHost
(* _canOpenConnectioForItem                                                 *)
CanOpen(C, i) ==
    /\ Cardinality(C) < numConnections
    /\ Cardinality(HostEntries(C, HostOf[i])) < MaxPerHost

(* mutant: the slot is not given back.                                      *)
RemoveEntry_Never(C, i) == C
(* _removeFromConnections splices one entry of the item out of its host's
   array; the order of the array is never observed.                         *)
RemoveEntry(C, i) ==
    LET mine == EntriesOf(C, i)
    IN  C \ {<<i, Cardinality(mine)>>}

PushEntry(C, i) == C \cup {<<i, Cardinality(EntriesOf(C, i)) + 1>>}

(* The "stale items" _getNextItemToLoad drops first.                        *)
Stale(i) == item[i].status = "error" /\ item[i].numTries = MaxTries
Purged(C) == {c \in C : ~Stale(c[1])}

(* _getNextItemToLoad for the connections C: the first item of the queue that
   is neither loading nor stopped and may open, as a set of at most one.    *)
Waiting(i) == ~item[i].isLoading /\ item[i].status # "stopped"
Candidates(C) ==
    {k \in 1..Len(items) : Waiting(items[k]) /\ CanOpen(C, items[k])}
NextItemToLoad(C) ==
    {items[k] : k \in {k \in Candidates(C) : \A j \in Candidates(C) : k <= j}}

(* mutant: an item that failed counts as done.                              *)
AllDone_OrFailed == \A i \in Queued : item[i].isLoaded \/ item[i].status = "error"
(* _isAllDoneP                                                              *)
AllDone == \A i \in Queued : item[i].isLoaded

(* mutant: only the addition index counts.                                  *)
Sorted_ByAge(S, f) ==
    {q \in [1..Cardinality(S) -> S] :
        \A j, k \in DOMAIN q :
            j < k => q[j] # q[k] /\ f[q[j]].additionIndex <= f[q[k]].additionIndex}
(* The orders _items.sortOn may leave the items S in: descending priority,
   then ascending addition index; equal keys come out in any order.         *)
Before(f, i, j) ==
    \/ f[i].priority > f[j].priority
    \/ f[i].priority = f[j].priority /\ f[i].additionIndex <= f[j].additionIndex
Sorted(S, f) ==
    {q \in [1..Cardinality(S) -> S] :
        /\ \A j, k \in DOMAIN q : j # k => q[j] # q[k]
        /\ \A j, k \in DOMAIN q : j < k => Before(f, q[j], q[k])}

(* highestPriority, as a set of one: int.MIN_VALUE when the queue is empty. *)
MinInt == -2147483647 - 1
HighestPriority ==
    IF Queued = {} THEN {MinInt}
    ELSE {p \in {item[i].priority : i \in Queued} :
             \A i \in Queued : item[i].priority <= p}

(* _getLeastUrgentOpenedItem: an open item of least priority.               *)
Victims(C) ==
    {i \in Items : /\ EntriesOf(C, i) # {}
                   /\ \A c \in C : item[i].priority <= item[c[1]].priority}

-----------------------------------------------------------------------------
(* The methods of one LoadingItem, as functions of its fields r and of its
   transfers n.                                                             *)

NewItem == [status |-> "null", isLoading |-> FALSE, isLoaded |-> FALSE,
            numTries |-> 0, priority |-> 0, additionIndex |-> 0]

SetStatus(r, st) == [r EXCEPT !.status = st]
SetPriority(r, p) == [r EXCEPT !.priority = p]
SetIndex(r, n) == [r EXCEPT !.additionIndex = n]
Finished(r) == [r EXCEPT !.status = "finished", !.isLoaded = TRUE]
Tried(r) == [r EXCEPT !.numTries = @ + 1]

(* stop(): a loaded item only closes its transport.                         *)
StopFields(r) ==
    IF r.isLoaded THEN r
    ELSE [r EXCEPT !.status = "stopped", !.isLoading = FALSE]
Closed(n) == [n EXCEPT !.loader = "none"]

(* pause(): a finished item is left alone.                                  *)
PausedFields(r) == IF r.status = "finished" THEN r ELSE StopFields(r)
PausedNet(i) == IF item[i].status = "finished" THEN net[i] ELSE Closed(net[i])

(* cleanListeners(): the transport goes on, unheard.                        *)
Unheard(n) == [n EXCEPT !.loader = IF @ = "none" THEN @ ELSE "deaf"]

(* load(): a new transport replaces the one the item had.  Flash throws the
   SecurityError inside load(), which onSecurityErrorHandler turns into an
   error of the item.                                                       *)
LoadFields(i, r) ==
    [r EXCEPT !.isLoading = TRUE,
              !.status = IF i \in Denied THEN "error" ELSE @]
NewTransport(i, n) ==
    [loader |-> IF i \in Denied THEN "none" ELSE "pending",
     orphans |-> IF n.loader = "none" THEN n.orphans
                 ELSE Append(n.orphans, n.loader)]

(* The frames an ERROR event of item i starts: BulkLoader listens to the
   items of its queue only.                                                 *)
ErrorFrames(i) == IF i \in Queued THEN <<<<"itemError", i>>>> ELSE <<>>
LoadFrames(i) == IF i \in Denied THEN ErrorFrames(i) ELSE <<>>

-----------------------------------------------------------------------------
Init ==
    /\ items = <<>>
    /\ item = [i \in Items |-> NewItem]
    /\ connections = {}
    /\ connected = FALSE
    /\ numConnections = InitialLimit
    /\ itemsLoaded = 0
    /\ additionIndex = 0
    /\ isRunning = FALSE /\ isFinished = FALSE /\ isPaused = TRUE
    /\ cleared = FALSE
    /\ net = [i \in Items |-> [loader |-> "none", orphans |-> <<>>]]
    /\ todo = <<>>
    /\ calls = 0
    /\ announced = 0

-----------------------------------------------------------------------------
(* The frames: what is left to do inside a call.                            *)

Top(f) == todo # <<>> /\ Head(todo) = f
Rest == Tail(todo)

(* mutant: _loadNext() does not return early from a finished loader.        *)
MayLoad_Always == TRUE
MayLoad == ~isFinished

(* Opening a connection: the item enters its host's array and loads.        *)
OpenConnection(C, i) ==
    /\ connections' = PushEntry(C, i)
    /\ item' = [item EXCEPT ![i] = LoadFields(i, @)]
    /\ net' = [net EXCEPT ![i] = NewTransport(i, @)]

(* _loadNext(), one round of it: it opens the next item and tries again.    *)
LoadNext ==
    /\ Top(<<"loadNext">>)
    /\ UNCHANGED <<queueVars, numConnections, isFinished, isPaused, cleared,
                   calls, announced>>
    /\ \/ /\ ~MayLoad
          /\ todo' = Rest
          /\ UNCHANGED <<item, connections, connected, isRunning, net>>
       \/ /\ MayLoad
          /\ Candidates(Purged(connections)) = {}
          /\ connected' = TRUE
          /\ connections' = Purged(connections)
          /\ todo' = Rest
          /\ UNCHANGED <<item, isRunning, net>>
       \/ /\ MayLoad
          /\ Candidates(Purged(connections)) # {}
          /\ connected' = TRUE
          /\ isRunning' = TRUE
          /\ \E i \in NextItemToLoad(Purged(connections)) :
               /\ OpenConnection(Purged(connections), i)
               /\ todo' = LoadFrames(i) \o todo

(* _loadNext(toLoad): the given item cuts the line, if it may open.         *)
ForceLoad(i) ==
    /\ Top(<<"force", i>>)
    /\ UNCHANGED <<queueVars, numConnections, isFinished, isPaused, cleared,
                   calls, announced>>
    /\ \/ /\ ~MayLoad
          /\ todo' = Rest
          /\ UNCHANGED <<item, connections, connected, isRunning, net>>
       \/ /\ MayLoad
          /\ connected' = TRUE
          /\ isRunning' = TRUE
          /\ \/ /\ CanOpen(connections, i)
                /\ OpenConnection(connections, i)
                /\ todo' = LoadFrames(i) \o <<<<"loadNext">>>> \o Rest
             \/ /\ ~CanOpen(connections, i)
                /\ todo' = <<<<"loadNext">>>> \o Rest
                /\ UNCHANGED <<item, connections, net>>

(* The victim is paused, but keeps its turn: its status is null, not stopped. *)
WithoutVictim(v) == [item EXCEPT ![v] = SetStatus(PausedFields(@), "null")]

(* loadNow(): close the least urgent connection when the limits ask for it,
   give the item the highest priority, load it.                             *)
LoadNow(i) ==
    /\ Top(<<"loadNow", i>>)
    /\ connected' = TRUE
    /\ UNCHANGED <<queueVars, numConnections, flagVars, calls, announced>>
    /\ \/ /\ item[i].status \in {"finished", "started"}
          /\ todo' = Rest
          /\ UNCHANGED <<item, connections, net>>
       \/ /\ item[i].status \notin {"finished", "started"}
          /\ todo' = <<<<"force", i>>>> \o Rest
          /\ \E p \in HighestPriority :
             \/ /\ CanOpen(connections, i)
                /\ item' = [item EXCEPT ![i] = SetPriority(@, p)]
                /\ UNCHANGED <<connections, net>>
             \/ /\ ~CanOpen(connections, i)
                /\ \E v \in Victims(connections) :
                     /\ item' = [WithoutVictim(v) EXCEPT ![i] = SetPriority(@, p)]
                     /\ connections' = RemoveEntry(RemoveEntry(connections, v), v)
                     /\ net' = [net EXCEPT ![v] = PausedNet(v)]

(* onCompleteHandler: the item is finished and tells so: _incrementItemsLoaded
   first (int.MAX_VALUE), then the client, then _onItemComplete (int.MIN_VALUE). *)
Finish(i) ==
    /\ Top(<<"finish", i>>)
    /\ item' = [item EXCEPT ![i] = Finished(@)]
    /\ IF i \in Queued
       THEN /\ itemsLoaded' = itemsLoaded + 1
            /\ todo' = <<<<"listeners">>, <<"itemComplete", i>>>> \o Rest
       ELSE /\ itemsLoaded' = itemsLoaded
            /\ todo' = Rest
    /\ UNCHANGED <<items, additionIndex, connVars, flagVars, net, calls, announced>>

(* What _onItemComplete, _onItemError and remove() do after they have freed
   the item's connection; the mutants forget one call.                      *)
AfterComplete_NoNext == <<<<"allDone">>>>
AfterComplete == <<<<"loadNext">>, <<"allDone">>>>
AfterError_NoNext == <<<<"listeners">>>>
AfterError == <<<<"loadNext">>, <<"listeners">>>>
AfterRemove_NoCheck == <<<<"listeners">>>>
AfterRemove == <<<<"listeners">>, <<"allDone">>>>

(* _onItemComplete: it runs even for an item a listener has just removed, as
   a listener taken off during a dispatch is still triggered by it.         *)
ItemComplete(i) ==
    /\ Top(<<"itemComplete", i>>)
    /\ connections' = RemoveEntry(connections, i)
    /\ net' = [net EXCEPT ![i] = Unheard(@)]
    /\ todo' = AfterComplete \o Rest
    /\ UNCHANGED <<queueVars, item, connected, numConnections, flagVars, calls,
                   announced>>

(* _onItemError: free the connection, load the next item, tell the client.  *)
ItemError(i) ==
    /\ Top(<<"itemError", i>>)
    /\ connections' = RemoveEntry(connections, i)
    /\ todo' = AfterError \o Rest
    /\ UNCHANGED <<queueVars, item, connected, numConnections, flagVars, net,
                   calls, announced>>

(* mutant: a finished loader announces COMPLETE again.                      *)
Unannounced_Always == TRUE
Unannounced == ~isFinished

(* _isAllDoneP() and _onAllLoaded(): the connections are dropped, a last
   PROGRESS is dispatched, then COMPLETE.                                   *)
AllLoaded ==
    /\ Top(<<"allDone">>)
    /\ UNCHANGED <<queueVars, item, numConnections, isPaused, cleared, net, calls>>
    /\ IF AllDone /\ Unannounced
       THEN /\ connections' = {} /\ connected' = TRUE
            /\ isRunning' = FALSE /\ isFinished' = TRUE
            /\ announced' = announced + 1
            /\ todo' = <<<<"listeners">>, <<"complete">>>> \o Rest
       ELSE /\ todo' = Rest
            /\ UNCHANGED <<connections, connected, isRunning, isFinished, announced>>
Complete ==
    /\ Top(<<"complete">>)
    /\ todo' = <<<<"listeners">>>> \o Rest
    /\ UNCHANGED <<queueVars, item, connVars, flagVars, net, calls, announced>>

(* _removeFromItems: what is left of the queue and of _itemsLoaded.         *)
RemoveFromQueue(q, i) ==
    IF \E k \in 1..Len(q) : q[k] = i
    THEN RemoveAt(q, CHOOSE k \in 1..Len(q) : q[k] = i)
    ELSE q
(* mutant: a removed item still counts as loaded.                           *)
LoadedWithout_Kept(i) == itemsLoaded
LoadedWithout(i) ==
    IF i \in Queued /\ item[i].isLoaded THEN itemsLoaded - 1 ELSE itemsLoaded

(* remove(): out of the queue, out of the connections, destroyed; then
   _onProgress() tells the client and the loader looks whether it is done.  *)
RemoveItem(i) ==
    /\ Top(<<"remove", i>>)
    /\ items' = RemoveFromQueue(items, i)
    /\ itemsLoaded' = LoadedWithout(i)
    /\ connections' = RemoveEntry(connections, i)
    /\ item' = [item EXCEPT ![i] = StopFields(@)]
    /\ net' = [net EXCEPT ![i] = Closed(@)]
    /\ todo' = AfterRemove \o Rest
    /\ UNCHANGED <<additionIndex, connected, numConnections, flagVars, calls,
                   announced>>

(* The last lines of start().                                               *)
Started ==
    /\ Top(<<"started">>)
    /\ isRunning' = TRUE /\ isPaused' = FALSE
    /\ todo' = Rest
    /\ UNCHANGED <<queueVars, item, connVars, isFinished, cleared, net, calls,
                   announced>>

(* The last lines of _getContentAsType(key, type, true).                    *)
ContentTaken ==
    /\ Top(<<"contentTaken">>)
    /\ todo' = (IF isPaused THEN <<>> ELSE <<<<"loadNext">>>>) \o Rest
    /\ UNCHANGED <<queueVars, item, connVars, flagVars, net, calls, announced>>

(* resumeAll(): forEach over the n items the queue had, the k-th of which, if
   stopped, resumes - and loads - before the next one is looked at; a last
   _loadNext() ends the call.  When a listener has shortened the queue there
   is no k-th item to look at: a TypeError ends the call on the spot.       *)
ResumeNext(k, n) ==
    /\ Top(<<"resumeAll", k, n>>)
    /\ UNCHANGED <<queueVars, connVars, isRunning, isFinished, cleared, net,
                   calls, announced>>
    /\ \/ /\ k > n
          /\ todo' = <<<<"loadNext">>>> \o Rest
          /\ UNCHANGED <<item, isPaused>>
       \/ /\ k <= n
          /\ k > Len(items)
          /\ todo' = Rest
          /\ UNCHANGED <<item, isPaused>>
       \/ /\ k <= n
          /\ k <= Len(items)
          /\ item[items[k]].status = "stopped"
          /\ isPaused' = FALSE
          /\ item' = [item EXCEPT ![items[k]] = SetStatus(@, "null")]
          /\ todo' = <<<<"loadNext">>, <<"resumeAll", k + 1, n>>>> \o Rest
       \/ /\ k <= n
          /\ k <= Len(items)
          /\ item[items[k]].status # "stopped"
          /\ todo' = <<<<"resumeAll", k + 1, n>>>> \o Rest
          /\ UNCHANGED <<item, isPaused>>

(* The client's listeners return.                                           *)
Return ==
    /\ Top(<<"listeners">>)
    /\ todo' = Rest
    /\ UNCHANGED <<queueVars, item, connVars, flagVars, net, calls, announced>>

Step ==
    \/ LoadNext \/ AllLoaded \/ Complete \/ Started \/ ContentTaken \/ Return
    \/ \E i \in Items : \/ ForceLoad(i) \/ LoadNow(i) \/ Finish(i)
                        \/ ItemComplete(i) \/ ItemError(i) \/ RemoveItem(i)
    \/ \E k \in 1..Cardinality(Items) + 1, n \in 0..Cardinality(Items) : ResumeNext(k, n)

-----------------------------------------------------------------------------
(* Calls of the client.                                                     *)

Listening == todo # <<>> /\ Head(todo) = <<"listeners">> /\ "noReentry" \notin Rules
ClientTurn == todo = <<>> \/ Listening

Call(op) ==
    /\ op \in Ops
    /\ ClientTurn
    /\ calls < MaxCalls
    /\ calls' = calls + 1

(* A key finds an item of the queue; a LoadingItem reference is taken as it
   is, whether the loader still holds it or not.                            *)
Keys == {i \in Items : Known(i) /\ ("noStaleKeys" \in Rules => i \in Queued)}

(* add(url, {priority: p})                                                  *)
Add(i, p) ==
    /\ ClientTurn
    /\ ~cleared
    /\ ~Known(i)
    /\ additionIndex' = additionIndex + 1
    /\ item' = [item EXCEPT ![i] = SetIndex(SetPriority(@, p), additionIndex + 1)]
    /\ items' \in Sorted(Queued \cup {i}, item')
    /\ isFinished' = FALSE
    /\ announced' = 0
    /\ todo' = (IF isPaused THEN <<>> ELSE <<<<"loadNext">>>>) \o todo
    /\ UNCHANGED <<itemsLoaded, connVars, isRunning, isPaused, cleared, net, calls>>

(* mutant: start() takes any argument for a limit.                           *)
StartLimit_Unchecked(n) == n
StartLimit(n) == IF n > 0 THEN n ELSE numConnections

(* start() of a loader that has connections ends after _loadNext().         *)
StartFrames ==
    IF connected THEN <<<<"loadNext">>>> ELSE <<<<"loadNext">>, <<"started">>>>

(* start(withConnections)                                                   *)
Start(n) ==
    /\ Call("start")
    /\ numConnections' = StartLimit(n)
    /\ connected' = TRUE
    /\ todo' = StartFrames \o todo
    /\ UNCHANGED <<queueVars, item, connections, flagVars, net, announced>>

(* changeItemPriority(key, newPriority)                                     *)
ChangePriority(i, p) ==
    /\ Call("changePriority")
    /\ i \in Queued
    /\ item' = [item EXCEPT ![i] = SetPriority(@, p)]
    /\ items' \in Sorted(Queued, item')
    /\ UNCHANGED <<itemsLoaded, additionIndex, connVars, flagVars, net, todo, announced>>

(* loadNow(key)                                                             *)
CallLoadNow(i) ==
    /\ Call("loadNow")
    /\ i \in Keys
    /\ "noForcedPending" \in Rules => ~item[i].isLoading
    /\ todo' = <<<<"loadNow", i>>>> \o todo
    /\ UNCHANGED <<queueVars, item, connVars, flagVars, net, announced>>

(* reload(key): the item leaves the queue and enters it again, then loadNow.
   It takes the counter's value before the increment: the index of the item
   added last.                                                              *)
Reload(i) ==
    /\ Call("reload")
    /\ i \in Keys
    /\ "noReloadLoaded" \in Rules => ~item[i].isLoaded
    /\ itemsLoaded' = LoadedWithout(i)
    /\ connections' = RemoveEntry(connections, i)
    /\ net' = [net EXCEPT ![i] = Closed(@)]
    /\ item' = [item EXCEPT ![i] =
                   SetIndex(SetStatus(StopFields(@), "null"), additionIndex)]
    /\ additionIndex' = additionIndex + 1
    /\ items' \in Sorted(Queued \cup {i}, item')
    /\ isFinished' = FALSE
    /\ announced' = 0
    /\ todo' = <<<<"loadNow", i>>>> \o todo
    /\ UNCHANGED <<connected, numConnections, isRunning, isPaused, cleared>>

(* pause(key, loadsNext)                                                    *)
Pause(i, loadsNext) ==
    /\ Call(IF loadsNext THEN "pauseNext" ELSE "pause")
    /\ i \in Keys
    /\ item' = [item EXCEPT ![i] = PausedFields(@)]
    /\ net' = [net EXCEPT ![i] = PausedNet(i)]
    /\ connections' = RemoveEntry(connections, i)
    /\ todo' = (IF loadsNext THEN <<<<"loadNext">>>> ELSE <<>>) \o todo
    /\ UNCHANGED <<queueVars, connected, numConnections, flagVars, announced>>

(* pauseAll(): pause(item) for every item of the queue.                     *)
WithoutQueued(C) ==
    {c \in C : c[1] \notin Queued \/ c[2] < Cardinality(EntriesOf(C, c[1]))}
PauseAll ==
    /\ Call("pauseAll")
    /\ item' = [i \in Items |-> IF i \in Queued THEN PausedFields(item[i]) ELSE item[i]]
    /\ net' = [i \in Items |-> IF i \in Queued THEN PausedNet(i) ELSE net[i]]
    /\ connections' = WithoutQueued(connections)
    /\ isRunning' = FALSE /\ isPaused' = TRUE
    /\ UNCHANGED <<queueVars, connected, numConnections, isFinished, cleared, todo,
                   announced>>

(* resume(key)                                                              *)
Resume(i) ==
    /\ Call("resume")
    /\ i \in Keys
    /\ isPaused' = FALSE
    /\ IF item[i].status = "stopped"
       THEN /\ item' = [item EXCEPT ![i] = SetStatus(@, "null")]
            /\ todo' = <<<<"loadNext">>>> \o todo
       ELSE UNCHANGED <<item, todo>>
    /\ UNCHANGED <<queueVars, connVars, isRunning, isFinished, cleared, net, announced>>

ResumeAll ==
    /\ Call("resumeAll")
    /\ todo' = <<<<"resumeAll", 1, Len(items)>>>> \o todo
    /\ UNCHANGED <<queueVars, item, connVars, flagVars, net, announced>>

(* remove(key)                                                              *)
CallRemove(i) ==
    /\ Call("remove")
    /\ i \in Keys
    /\ todo' = <<<<"remove", i>>>> \o todo
    /\ UNCHANGED <<queueVars, item, connVars, flagVars, net, announced>>

(* getContent(key, true): a loaded item is handed over and removed; content
   that did not parse, or that a removal has dropped, fails the cast.       *)
TakeContent(i) ==
    /\ Call("takeContent")
    /\ ~cleared
    /\ i \in Queued \ Malformed
    /\ item[i].isLoaded
    /\ todo' = <<<<"remove", i>>, <<"contentTaken">>>> \o todo
    /\ UNCHANGED <<queueVars, item, connVars, flagVars, net, announced>>

(* removePausedItems() and removeFailedItems(): the items to remove are
   chosen, in queue order, before the first one goes.                       *)
InQueueOrder(S) ==
    {q \in [1..Cardinality(S) -> S] :
        \A j, k \in DOMAIN q : j < k =>
            \E m, n \in 1..Len(items) : m < n /\ items[m] = q[j] /\ items[n] = q[k]}
RemoveAllWith(op, st) ==
    /\ Call(op)
    /\ \E q \in InQueueOrder({i \in Queued : item[i].status = st}) :
         todo' = [k \in DOMAIN q |-> <<"remove", q[k]>>] \o <<<<"loadNext">>>> \o todo
    /\ UNCHANGED <<queueVars, item, connVars, flagVars, net, announced>>
RemovePausedItems == RemoveAllWith("removePaused", "stopped")
RemoveFailedItems == RemoveAllWith("removeFailed", "error")

(* removeAll(): every item is removed and destroyed, silently.              *)
Emptied ==
    /\ items' = <<>>
    /\ itemsLoaded' = itemsLoaded - Cardinality({i \in Queued : item[i].isLoaded})
    /\ connections' = {} /\ connected' = TRUE
    /\ item' = [i \in Items |-> IF i \in Queued THEN StopFields(item[i]) ELSE item[i]]
    /\ net' = [i \in Items |-> IF i \in Queued THEN Closed(net[i]) ELSE net[i]]
RemoveAll ==
    /\ Call("removeAll")
    /\ Emptied
    /\ UNCHANGED <<additionIndex, numConnections, flagVars, todo, announced>>

(* clear(): removeAll(), then the instance loses its name for good.         *)
Clear ==
    /\ Call("clear")
    /\ Emptied
    /\ cleared' = TRUE
    /\ UNCHANGED <<additionIndex, numConnections, isRunning, isFinished, isPaused,
                   todo, announced>>

Client ==
    \/ PauseAll \/ ResumeAll \/ RemovePausedItems \/ RemoveFailedItems
    \/ RemoveAll \/ Clear
    \/ \E n \in Limits : Start(n)
    \/ \E i \in Items :
         \/ CallLoadNow(i) \/ Reload(i) \/ Resume(i) \/ CallRemove(i) \/ TakeContent(i)
         \/ \E p \in Priorities : Add(i, p) \/ ChangePriority(i, p)
         \/ \E b \in BOOLEAN : Pause(i, b)

-----------------------------------------------------------------------------
(* Events of the player's network transports.  Slot 0 of an item is the
   transport it refers to, slot k > 0 its k-th orphan.                      *)

Slots(i) == 0..Len(net[i].orphans)
Transfer(i, k) == IF k = 0 THEN net[i].loader ELSE net[i].orphans[k]
Ended(i, k) ==
    IF k = 0 THEN Closed(net[i])
    ELSE [net[i] EXCEPT !.orphans = RemoveAt(@, k)]

AtOpen(i, k) ==
    IF k = 0 THEN [net[i] EXCEPT !.loader = "open"]
    ELSE [net[i] EXCEPT !.orphans = ReplaceAt(@, k, "open")]

(* OPEN: onStartedHandler.                                                  *)
NetOpen(i, k) ==
    /\ Transfer(i, k) = "pending"
    /\ net' = [net EXCEPT ![i] = AtOpen(i, k)]
    /\ item' = [item EXCEPT ![i] = SetStatus(@, "started")]
    /\ UNCHANGED todo

(* COMPLETE: a document that does not parse first reports an error, and is
   then completed like any other item.                                      *)
NetComplete(i, k) ==
    /\ Transfer(i, k) = "open"
    /\ net' = [net EXCEPT ![i] = Ended(i, k)]
    /\ IF i \in Malformed
       THEN /\ item' = [item EXCEPT ![i] = SetStatus(@, "error")]
            /\ todo' = ErrorFrames(i) \o <<<<"finish", i>>>>
       ELSE /\ todo' = <<<<"finish", i>>>>
            /\ UNCHANGED item

(* IO_ERROR: onErrorHandler tries again up to maxTries.                     *)
NetError(i, k) ==
    /\ Transfer(i, k) \in Heard
    /\ \/ /\ item[i].numTries + 1 < MaxTries
          /\ item' = [item EXCEPT ![i] = LoadFields(i, SetStatus(Tried(@), "null"))]
          /\ net' = [net EXCEPT ![i] = NewTransport(i, Ended(i, k))]
          /\ todo' = LoadFrames(i)
       \/ /\ item[i].numTries + 1 >= MaxTries
          /\ item' = [item EXCEPT ![i] = SetStatus(Tried(@), "error")]
          /\ net' = [net EXCEPT ![i] = Ended(i, k)]
          /\ todo' = ErrorFrames(i)

(* SECURITY_ERROR: onSecurityErrorHandler, never a second try.              *)
NetSecurityError(i, k) ==
    /\ Transfer(i, k) \in Heard
    /\ net' = [net EXCEPT ![i] = Ended(i, k)]
    /\ item' = [item EXCEPT ![i] = SetStatus(@, "error")]
    /\ todo' = ErrorFrames(i)

(* A transfer nobody listens to ends.                                       *)
NetUnheard(i, k) ==
    /\ Transfer(i, k) = "deaf"
    /\ net' = [net EXCEPT ![i] = Ended(i, k)]
    /\ UNCHANGED <<item, todo>>

NetEvent(i) ==
    /\ todo = <<>>
    /\ \E k \in Slots(i) :
         \/ NetOpen(i, k) \/ NetComplete(i, k) \/ NetError(i, k)
         \/ NetSecurityError(i, k) \/ NetUnheard(i, k)
    /\ UNCHANGED <<queueVars, connVars, flagVars, calls, announced>>

-----------------------------------------------------------------------------
Next == Step \/ Client \/ \E i \in Items : NetEvent(i)

(* A call in progress runs on, and the player ends every transfer it has
   begun (a connection that dies is an IO_ERROR); the client owes nothing.  *)
Fairness == WF_vars(Step) /\ \A i \in Items : WF_vars(NetEvent(i))

Spec == Init /\ [][Next]_vars /\ Fairness

-----------------------------------------------------------------------------
(* Properties.                                                              *)

Quiet == todo = <<>>
InTransfer == {i \in Items : net[i].loader \in Heard}
Opened == {c[1] : c \in connections}

(* No host ever serves more than maxConnectionsPerHost connections of the
   loader, whatever the client calls and whenever: loadNow() and reload() go
   through the same test in _loadNext() as the queue does.                  *)
HostBound ==
    \A h \in Hosts : Cardinality(HostEntries(connections, h)) <= MaxPerHost

(* Once _onAllLoaded() has announced COMPLETE the loader holds no connection
   until add() or reload() gives it work again.                             *)
FinishedHoldsNoConnection == isFinished => connections = {}

(* Between two events the connections are exactly the transfers going on for
   items of the queue, one entry each: no slot is lost to an item that has
   ended or gone, and none is used without being counted.                   *)
ConnectionsAreTransfers ==
    Quiet => /\ Opened = InTransfer
             /\ Opened \subseteq Queued
             /\ Cardinality(connections) = Cardinality(Opened)

(* itemsLoaded, which the client reads as progress, counts the loaded items
   of the queue: _incrementItemsLoaded and _removeFromItems balance.        *)
ItemsLoadedCounts ==
    Quiet => itemsLoaded = Cardinality({i \in Queued : item[i].isLoaded})

(* COMPLETE stands for a queue of finished items, none of them still being
   transferred or failed.                                                   *)
FinishedMeansFinished ==
    isFinished => \A i \in Queued : /\ item[i].status = "finished"
                                    /\ net[i].loader \notin Heard

(* _onAllLoaded() dispatches COMPLETE once for the items added so far, though
   remove(), _onItemComplete() and the client's listeners all lead to it.   *)
AnnouncedOnce == announced <= 1

(* A loader that was started does not sit on an item it could load:
   completion, failure and addition, which free a connection or may use one,
   end in _loadNext().  remove(), resume() and pause() without loadsNext do
   not, and this is stated for clients that do without them.                *)
NoIdleSlot ==
    (Quiet /\ connected /\ ~isPaused) => Candidates(connections) = {}

(* A connection is only opened below numConnections, also right after
   start() has lowered it.                                                  *)
OpensWithinLimit ==
    [][Cardinality(connections') > Cardinality(connections)
         => Cardinality(connections') <= numConnections']_vars

(* The queue opens its items by priority, then by the order they were added,
   also after changeItemPriority(): nobody it could have opened goes first. *)
OpensByPriority ==
    [][\A i \in Queued :
         Top(<<"loadNext">>) /\ ~item[i].isLoading /\ item'[i].isLoading
           => \A k \in Candidates(Purged(connections)) : Before(item, i, items[k])]_vars

(* loadNow() loads its item "right away", closing a connection as needed.   *)
ForcedIsLoaded ==
    [][\A i \in Items : Top(<<"force", i>>) /\ ~isFinished => item'[i].isLoading]_vars

(* "this event only fires if there are no errors": COMPLETE never stands for
   an item whose ERROR the client was told, as it is for every Malformed one. *)
CompleteWithoutErrors == isFinished => Queued \cap Malformed = {}

(* COMPLETE is "dispatched when all items have been downloaded": when its turn
   comes in _onAllLoaded(), no item of the queue is still to be loaded.     *)
CompleteWhenAllDone == Top(<<"complete">>) => AllDone

(* loadNow() asks "is this item already loaded or loading?" before it opens a
   connection: no item holds two.                                           *)
OneConnectionPerItem ==
    \A i \in Items : Cardinality(EntriesOf(connections, i)) <= 1

(* The loader as its client sees it, between any two steps of a call.       *)
Downloads == INSTANCE DownloadQueue WITH
    queue <- Queued, loaded <- {i \in Queued : item[i].isLoaded},
    open <- Opened, limit <- numConnections, complete <- isFinished
(* Seen from outside, the loader is the queue of DownloadQueue: whatever the
   listeners call in the middle of a call, no step opens a connection beyond a
   limit or for an item that is loaded, loads an item without its connection,
   or announces COMPLETE over an item that is still to be loaded.           *)
ImplementsDownloadQueue == Downloads!Spec

(* Every item of a started, unpaused loader is eventually finished, given up
   or stopped by the client.                                                *)
Settled(i) == item[i].status \in {"finished", "error", "stopped"}
EverythingSettles ==
    <>[](connected /\ ~isPaused => \A i \in Queued : Settled(i))

(* When all items of the queue are loaded, COMPLETE follows.                *)
CompleteFollows ==
    (Queued # {} /\ AllDone) ~> (isFinished \/ ~AllDone \/ Queued = {})
=============================================================================
