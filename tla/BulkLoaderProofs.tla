-------------------------- MODULE BulkLoaderProofs --------------------------
(***************************************************************************)
(* What holds of BulkLoader for every set of items and hosts and every     *)
(* limit.  The first theorems hold for every client, whatever it calls and *)
(* from wherever it calls it; the later ones name, as hypotheses, what the *)
(* client has to keep from.                                                *)
(***************************************************************************)
EXTENDS BulkLoader, FiniteSetTheorems, SequenceTheorems, TLAPS

(* How one step changes the connections: it drops some of them, or it drops
   some and opens one more for an item that passes the test of
   _canOpenConnectioForItem in a loader that is not finished.               *)
Opens ==
    \E C \in SUBSET connections, i \in Items :
        /\ CanOpen(C, i)
        /\ connections' = PushEntry(C, i)
        /\ ~isFinished
        /\ isFinished' = isFinished
        /\ numConnections' = numConnections
Drops ==
    /\ connections' \subseteq connections
    /\ isFinished' => isFinished \/ connections' = {}

(* Every step of the loader, the client and the network drops or opens.     *)
LEMMA StepShape == TypeOK /\ [Next]_vars => Opens \/ Drops
<1> SUFFICES ASSUME TypeOK, [Next]_vars PROVE Opens \/ Drops
  OBVIOUS
<1>1. CASE LoadNext
  <2>1. CASE \E i \in NextItemToLoad(Purged(connections)) :
               /\ MayLoad
               /\ OpenConnection(Purged(connections), i)
    <3>1. PICK i \in NextItemToLoad(Purged(connections)) :
               MayLoad /\ OpenConnection(Purged(connections), i)
      BY <2>1
    <3>2. i \in Items /\ CanOpen(Purged(connections), i)
      BY DEF NextItemToLoad, Candidates, TypeOK
    <3> QED BY <1>1, <3>1, <3>2 DEF LoadNext, OpenConnection, Opens, Purged, MayLoad
  <2>2. CASE connections' \subseteq connections /\ isFinished' = isFinished
    BY <2>2 DEF Drops
  <2> QED BY <1>1, <2>1, <2>2 DEF LoadNext, Purged
<1>2. ASSUME NEW i \in Items, ForceLoad(i) PROVE Opens \/ Drops
  <2>1. CASE CanOpen(connections, i) /\ MayLoad /\ OpenConnection(connections, i)
    BY <1>2, <2>1 DEF ForceLoad, OpenConnection, Opens, MayLoad
  <2> QED BY <1>2, <2>1 DEF ForceLoad, Drops
<1>3. ASSUME NEW i \in Items, LoadNow(i) PROVE Drops
  BY <1>3 DEF LoadNow, Drops, RemoveEntry, flagVars
<1>4. ASSUME NEW i \in Items,
             Finish(i) \/ ItemComplete(i) \/ ItemError(i) \/ RemoveItem(i)
      PROVE  Drops
  BY <1>4 DEF Finish, ItemComplete, ItemError, RemoveItem, Drops, RemoveEntry,
              connVars, flagVars
<1>5. CASE AllLoaded
  BY <1>5 DEF AllLoaded, Drops
<1>6. CASE Complete \/ Started \/ ContentTaken \/ Return \/ \E k \in 1..Cardinality(Items) + 1, n \in 0..Cardinality(Items) :
                                           ResumeNext(k, n)
  BY <1>6 DEF Complete, Started, ContentTaken, Return, ResumeNext, Drops, connVars, flagVars
<1>7. CASE PauseAll \/ ResumeAll \/ RemovePausedItems \/ RemoveFailedItems
           \/ RemoveAll \/ Clear
  BY <1>7 DEF PauseAll, ResumeAll, RemovePausedItems, RemoveFailedItems, RemoveAllWith,
              RemoveAll, Clear, Emptied, WithoutQueued, Drops, connVars, flagVars
<1>8. CASE \E n \in Limits : Start(n)
  BY <1>8 DEF Start, Drops, flagVars
<1>9. ASSUME NEW i \in Items,
             \/ CallLoadNow(i) \/ Reload(i) \/ Resume(i) \/ CallRemove(i) \/ TakeContent(i)
             \/ \E p \in Priorities : Add(i, p) \/ ChangePriority(i, p)
             \/ \E b \in BOOLEAN : Pause(i, b)
      PROVE  Drops
  <2>1. CASE CallLoadNow(i) \/ Resume(i) \/ CallRemove(i) \/ TakeContent(i)
    BY <2>1 DEF CallLoadNow, Resume, CallRemove, TakeContent, Drops, connVars, flagVars
  <2>2. CASE Reload(i)
    BY <2>2 DEF Reload, Drops, RemoveEntry
  <2>3. CASE \E p \in Priorities : Add(i, p) \/ ChangePriority(i, p)
    BY <2>3 DEF Add, ChangePriority, Drops, connVars, flagVars
  <2>4. CASE \E b \in BOOLEAN : Pause(i, b)
    BY <2>4 DEF Pause, Drops, RemoveEntry, flagVars
  <2> QED BY <1>9, <2>1, <2>2, <2>3, <2>4
<1>10. CASE \E i \in Items : NetEvent(i)
  BY <1>10 DEF NetEvent, Drops, connVars, flagVars
<1>11. CASE UNCHANGED vars
  BY <1>11 DEF vars, Drops
<1> QED
  BY <1>1, <1>2, <1>3, <1>4, <1>5, <1>6, <1>7, <1>8, <1>9, <1>10, <1>11
     DEF Next, Step, Client

-----------------------------------------------------------------------------
(* How one step changes what was announced: not at all, one COMPLETE by a
   loader that was not finished, or a fresh start by add() and reload().    *)
Quietly == isFinished' = isFinished /\ announced' = announced
Announces == ~isFinished /\ isFinished' /\ announced' = announced + 1

(* Every step leaves the announcement alone, makes it or resets it.         *)
LEMMA AnnounceShape == [Next]_vars => Quietly \/ Announces \/ announced' = 0
<1> SUFFICES ASSUME [Next]_vars PROVE Quietly \/ Announces \/ announced' = 0
  OBVIOUS
<1>1. CASE AllLoaded
  BY <1>1 DEF AllLoaded, Unannounced, Quietly, Announces
<1>2. CASE LoadNext \/ Complete \/ Started \/ ContentTaken \/ Return
           \/ \E k \in 1..Cardinality(Items) + 1, n \in 0..Cardinality(Items) :
                                           ResumeNext(k, n)
  BY <1>2 DEF LoadNext, Complete, Started, ContentTaken, Return, ResumeNext, Quietly, flagVars
<1>3. ASSUME NEW i \in Items,
             \/ ForceLoad(i) \/ LoadNow(i) \/ Finish(i) \/ ItemComplete(i)
             \/ ItemError(i) \/ RemoveItem(i)
      PROVE  Quietly
  BY <1>3 DEF ForceLoad, LoadNow, Finish, ItemComplete, ItemError, RemoveItem,
              Quietly, flagVars
<1>4. CASE PauseAll \/ ResumeAll \/ RemovePausedItems \/ RemoveFailedItems
           \/ RemoveAll \/ Clear
  BY <1>4 DEF PauseAll, ResumeAll, RemovePausedItems, RemoveFailedItems, RemoveAllWith,
              RemoveAll, Clear, Quietly, flagVars
<1>5. CASE \E n \in Limits : Start(n)
  BY <1>5 DEF Start, Quietly, flagVars
<1>6. ASSUME NEW i \in Items,
             \/ CallLoadNow(i) \/ Resume(i) \/ CallRemove(i) \/ TakeContent(i)
             \/ \E p \in Priorities : ChangePriority(i, p)
             \/ \E b \in BOOLEAN : Pause(i, b)
      PROVE  Quietly
  BY <1>6 DEF CallLoadNow, Resume, CallRemove, TakeContent, ChangePriority, Pause,
              Quietly, flagVars
<1>7. ASSUME NEW i \in Items, Reload(i) \/ \E p \in Priorities : Add(i, p)
      PROVE  announced' = 0
  BY <1>7 DEF Reload, Add
<1>8. CASE \E i \in Items : NetEvent(i)
  BY <1>8 DEF NetEvent, Quietly, flagVars
<1>9. CASE UNCHANGED vars
  BY <1>9 DEF vars, Quietly
<1> QED
  BY <1>1, <1>2, <1>3, <1>4, <1>5, <1>6, <1>7, <1>8, <1>9 DEF Next, Step, Client

-----------------------------------------------------------------------------
(* Opening one connection adds at most one to any count of them.            *)
LEMMA PushCounts ==
    ASSUME NEW C, IsFiniteSet(C), NEW i \in Items, NEW h
    PROVE  /\ IsFiniteSet(PushEntry(C, i))
           /\ Cardinality(C) \in Nat
           /\ Cardinality(PushEntry(C, i)) \in Nat
           /\ Cardinality(PushEntry(C, i)) <= Cardinality(C) + 1
           /\ IsFiniteSet(HostEntries(C, h))
           /\ Cardinality(HostEntries(C, h)) \in Nat
           /\ Cardinality(HostEntries(PushEntry(C, i), h)) \in Nat
           /\ Cardinality(HostEntries(PushEntry(C, i), h)) <=
                Cardinality(HostEntries(C, h)) + IF HostOf[i] = h THEN 1 ELSE 0
<1> DEFINE e == <<i, Cardinality(EntriesOf(C, i)) + 1>>
<1>1. PushEntry(C, i) = C \cup {e}
  BY DEF PushEntry
<1>2. /\ IsFiniteSet(C \cup {e})
      /\ Cardinality(C \cup {e}) = IF e \in C THEN Cardinality(C) ELSE Cardinality(C) + 1
  BY FS_AddElement
<1>3. Cardinality(C) \in Nat /\ Cardinality(C \cup {e}) \in Nat
  BY <1>2, FS_CardinalityType
<1>4. HostEntries(C, h) \in SUBSET C
  BY DEF HostEntries
<1>5. IsFiniteSet(HostEntries(C, h)) /\ Cardinality(HostEntries(C, h)) \in Nat
  BY <1>4, FS_Subset, FS_CardinalityType
<1>6. HostEntries(PushEntry(C, i), h) =
        IF HostOf[i] = h THEN HostEntries(C, h) \cup {e} ELSE HostEntries(C, h)
  BY <1>1 DEF HostEntries
<1>7. /\ IsFiniteSet(HostEntries(C, h) \cup {e})
      /\ Cardinality(HostEntries(C, h) \cup {e}) =
           IF e \in HostEntries(C, h) THEN Cardinality(HostEntries(C, h))
                                     ELSE Cardinality(HostEntries(C, h)) + 1
  BY <1>5, FS_AddElement
<1> HIDE DEF e
<1> QED BY <1>1, <1>2, <1>3, <1>5, <1>6, <1>7

(* Dropping connections lowers every count of them.                         *)
LEMMA DropCounts ==
    ASSUME NEW C, IsFiniteSet(C), NEW D \in SUBSET C, NEW h
    PROVE  /\ IsFiniteSet(D)
           /\ Cardinality(D) <= Cardinality(C)
           /\ Cardinality(C) \in Nat
           /\ Cardinality(D) \in Nat
           /\ Cardinality(HostEntries(D, h)) <= Cardinality(HostEntries(C, h))
           /\ Cardinality(HostEntries(D, h)) \in Nat
           /\ Cardinality(HostEntries(C, h)) \in Nat
<1>1. HostEntries(C, h) \in SUBSET C /\ HostEntries(D, h) \in SUBSET HostEntries(C, h)
  BY DEF HostEntries
<1>2. IsFiniteSet(HostEntries(C, h))
  BY <1>1, FS_Subset
<1> QED BY <1>1, <1>2, FS_Subset, FS_CardinalityType

-----------------------------------------------------------------------------
(* The methods of LoadingItem yield fields and transfers of the right type. *)
LEMMA FieldTypes ==
    ASSUME NEW i \in Items, NEW r \in ItemFields
    PROVE  /\ StopFields(r) \in ItemFields
           /\ PausedFields(r) \in ItemFields
           /\ LoadFields(i, r) \in ItemFields
           /\ \A st \in Statuses : SetStatus(r, st) \in ItemFields
           /\ \A p \in Int : SetPriority(r, p) \in ItemFields
           /\ \A n \in Nat : SetIndex(r, n) \in ItemFields
           /\ Finished(r) \in ItemFields
           /\ Tried(r) \in ItemFields
<1>1. StopFields(r) \in ItemFields
  BY DEF StopFields, ItemFields, Statuses
<1>2. PausedFields(r) \in ItemFields
  BY <1>1 DEF PausedFields
<1>3. LoadFields(i, r) \in ItemFields
  BY DEF LoadFields, ItemFields, Statuses
<1>4. \A st \in Statuses : SetStatus(r, st) \in ItemFields
  BY DEF SetStatus, ItemFields
<1>5. \A p \in Int : SetPriority(r, p) \in ItemFields
  BY DEF SetPriority, ItemFields
<1>6. \A n \in Nat : SetIndex(r, n) \in ItemFields
  BY DEF SetIndex, ItemFields
<1>7. Finished(r) \in ItemFields
  BY DEF Finished, ItemFields, Statuses
<1>8. Tried(r) \in ItemFields
  BY DEF Tried, ItemFields
<1> QED BY <1>1, <1>2, <1>3, <1>4, <1>5, <1>6, <1>7, <1>8

(* Closing, silencing and replacing a transport keep the transfers' type.   *)
LEMMA NetTypes ==
    ASSUME NEW i \in Items, NEW n \in NetFields
    PROVE  /\ Closed(n) \in NetFields
           /\ Unheard(n) \in NetFields
           /\ NewTransport(i, n) \in NetFields
<1>1. Closed(n) \in NetFields /\ Unheard(n) \in NetFields
  BY DEF Closed, Unheard, NetFields, Transfers, Heard
<1>2. n.orphans \in Seq(Transfers) /\ (n.loader # "none" => n.loader \in Transfers)
  BY DEF NetFields, Transfers, Heard
<1>3. NewTransport(i, n) \in NetFields
  BY <1>2 DEF NewTransport, NetFields, Transfers, Heard
<1> QED BY <1>1, <1>3

(* A sequence loses one element and stays a sequence of the same things.    *)
LEMMA RemoveAtType ==
    ASSUME NEW S, NEW q \in Seq(S), NEW k \in 1..Len(q)
    PROVE  RemoveAt(q, k) \in Seq(S)
<1>1. SubSeq(q, 1, k - 1) \in Seq(S)
  BY SubSeqProperties
<1>2. SubSeq(q, k + 1, Len(q)) \in Seq(S)
  BY SubSeqProperties
<1> QED BY <1>1, <1>2, ConcatProperties DEF RemoveAt

(* The frames a step pushes are frames.                                     *)
LEMMA FrameTypes ==
    ASSUME NEW i \in Items
    PROVE  /\ ErrorFrames(i) \in Seq(Frames)
           /\ LoadFrames(i) \in Seq(Frames)
           /\ <<"loadNext">> \in Frames /\ <<"listeners">> \in Frames
           /\ <<"allDone">> \in Frames /\ <<"started">> \in Frames
           /\ <<"contentTaken">> \in Frames
           /\ \A f \in {"loadNow", "force", "itemComplete", "itemError", "finish", "remove"} :
                <<f, i>> \in Frames
           /\ \A k, n \in Nat : <<"resumeAll", k, n>> \in Frames
<1>1. <<"itemError", i>> \in Frames
  BY DEF Frames
<1>2. ErrorFrames(i) \in Seq(Frames)
  BY <1>1 DEF ErrorFrames
<1>3. LoadFrames(i) \in Seq(Frames)
  BY <1>2 DEF LoadFrames
<1> QED BY <1>2, <1>3 DEF Frames

(* Pushing one or two frames on a stack of frames gives a stack of frames.  *)
LEMMA PushFrames ==
    ASSUME NEW s \in Seq(Frames), NEW f \in Frames, NEW g \in Frames
    PROVE  /\ <<f>> \o s \in Seq(Frames)
           /\ <<f, g>> \o s \in Seq(Frames)
           /\ <<>> \o s \in Seq(Frames)
<1>1. <<f>> \in Seq(Frames) /\ <<f, g>> \in Seq(Frames) /\ <<>> \in Seq(Frames)
  OBVIOUS
<1> QED BY <1>1, ConcatProperties

(* The queue is a finite set of items in some order.                        *)
LEMMA QueueTypes ==
    ASSUME TypeOK
    PROVE  /\ Queued \in SUBSET Items
           /\ \A S \in SUBSET Items :
                /\ IsFiniteSet(S) /\ Cardinality(S) \in Nat
                /\ \A f : Sorted(S, f) \subseteq Seq(Items)
                /\ InQueueOrder(S) \subseteq Seq(Items)
<1>1. Queued \in SUBSET Items
  BY DEF Queued, TypeOK
<1>2. ASSUME NEW S \in SUBSET Items
      PROVE  /\ IsFiniteSet(S) /\ Cardinality(S) \in Nat
             /\ \A f : Sorted(S, f) \subseteq Seq(Items)
             /\ InQueueOrder(S) \subseteq Seq(Items)
  <2>1. IsFiniteSet(S) /\ Cardinality(S) \in Nat
    BY ItemsAssumption, FS_Subset, FS_CardinalityType
  <2>2. [1..Cardinality(S) -> S] \subseteq Seq(Items)
    BY <2>1
  <2> QED BY <2>1, <2>2 DEF Sorted, InQueueOrder
<1> QED BY <1>1, <1>2

-----------------------------------------------------------------------------
(* The connections stay a finite set of entries.                            *)
ConnTypeOK == connections \in SUBSET (Items \X Nat) /\ IsFiniteSet(connections)

(* Opening one connection or dropping some keeps the connections' type.     *)
LEMMA ConnTypeStep ==
    ASSUME ConnTypeOK, Opens \/ Drops
    PROVE  ConnTypeOK'
<1>1. CASE Drops
  BY <1>1, FS_Subset DEF Drops, ConnTypeOK
<1>2. CASE Opens
  <2>1. PICK C \in SUBSET connections, i \in Items : connections' = PushEntry(C, i)
    BY <1>2 DEF Opens
  <2>2. IsFiniteSet(C) /\ IsFiniteSet(EntriesOf(C, i))
    BY FS_Subset DEF ConnTypeOK, EntriesOf
  <2>3. Cardinality(EntriesOf(C, i)) \in Nat
    BY <2>2, FS_CardinalityType
  <2>4. IsFiniteSet(PushEntry(C, i))
    BY <2>2, FS_AddElement DEF PushEntry
  <2> QED BY <2>1, <2>3, <2>4 DEF ConnTypeOK, PushEntry
<1> QED BY <1>1, <1>2

(* The rest of the state keeps its type: the steps of a call in progress.   *)
LEMMA TypeOfSteps ==
    ASSUME TypeOK, Step, connections' \in SUBSET (Items \X Nat)
    PROVE  TypeOK'
<1>0. /\ \A i \in Items : item[i] \in ItemFields /\ net[i] \in NetFields
      /\ Queued \in SUBSET Items
  BY QueueTypes DEF TypeOK
<1>r. todo # <<>> => Rest \in Seq(Frames)
  BY DEF TypeOK, Rest
<1>a. ASSUME NEW C, NEW i \in Items, OpenConnection(C, i)
      PROVE  item' \in [Items -> ItemFields] /\ net' \in [Items -> NetFields]
  <2>1. LoadFields(i, item[i]) \in ItemFields /\ NewTransport(i, net[i]) \in NetFields
    BY <1>0, FieldTypes, NetTypes
  <2> QED BY <1>a, <2>1 DEF OpenConnection, TypeOK
<1>1. CASE LoadNext
  <2>1. ASSUME NEW i \in NextItemToLoad(Purged(connections))
        PROVE  i \in Items /\ LoadFrames(i) \in Seq(Frames)
    <3>1. i \in Items
      BY DEF NextItemToLoad, Candidates, TypeOK
    <3> QED BY <3>1, FrameTypes
  <2>2. Rest \in Seq(Frames)
    BY <1>1, <1>r DEF LoadNext, Top
  <2>3. CASE UNCHANGED <<item, net>> /\ todo' = Rest
    BY <1>1, <2>2, <2>3 DEF LoadNext, TypeOK, queueVars
  <2>4. CASE \E i \in NextItemToLoad(Purged(connections)) :
               OpenConnection(Purged(connections), i) /\ todo' = LoadFrames(i) \o todo
    <3>1. item' \in [Items -> ItemFields] /\ net' \in [Items -> NetFields]
      BY <1>a, <2>1, <2>4
    <3>2. todo' \in Seq(Frames)
      BY <2>1, <2>4 DEF TypeOK
    <3> QED BY <1>1, <3>1, <3>2 DEF LoadNext, TypeOK, queueVars
  <2> QED BY <1>1, <2>3, <2>4 DEF LoadNext
<1>2. ASSUME NEW i \in Items, ForceLoad(i) PROVE TypeOK'
  <2>1. Rest \in Seq(Frames) /\ LoadFrames(i) \in Seq(Frames) /\ <<"loadNext">> \in Frames
    BY <1>2, <1>r, FrameTypes DEF ForceLoad, Top
  <2>a. <<<<"loadNext">>>> \o Rest \in Seq(Frames)
    BY <2>1, PushFrames
  <2>b. LoadFrames(i) \o <<<<"loadNext">>>> \o Rest \in Seq(Frames)
    BY <2>1
  <2>2. todo' \in Seq(Frames)
    BY <1>2, <2>1, <2>a, <2>b DEF ForceLoad
  <2>3. CASE UNCHANGED <<item, net>>
    BY <1>2, <2>2, <2>3 DEF ForceLoad, TypeOK, queueVars
  <2>4. CASE OpenConnection(connections, i)
    BY <1>2, <1>a, <2>2, <2>4 DEF ForceLoad, TypeOK, queueVars
  <2> QED BY <1>2, <2>3, <2>4 DEF ForceLoad
<1>3. ASSUME NEW i \in Items, LoadNow(i) PROVE TypeOK'
  <2>1. Rest \in Seq(Frames) /\ <<"force", i>> \in Frames
    BY <1>3, <1>r, FrameTypes DEF LoadNow, Top
  <2>2. todo' \in Seq(Frames)
    BY <1>3, <2>1, PushFrames DEF LoadNow
  <2>3. HighestPriority \subseteq Int
    BY <1>0 DEF HighestPriority, MinInt, ItemFields
  <2>4. \A v \in Items : /\ SetStatus(PausedFields(item[v]), "null") \in ItemFields
                         /\ PausedNet(v) \in NetFields
    BY <1>0, FieldTypes, NetTypes DEF PausedNet, Statuses
  <2>5. \A r \in ItemFields, q \in Int : SetPriority(r, q) \in ItemFields
    BY FieldTypes
  <2>6. item' \in [Items -> ItemFields]
    <3>1. CASE UNCHANGED item
      BY <3>1 DEF TypeOK
    <3>2. ASSUME NEW q \in HighestPriority, item' = [item EXCEPT ![i] = SetPriority(@, q)]
          PROVE  item' \in [Items -> ItemFields]
      BY <1>0, <3>2, <2>3, <2>5 DEF TypeOK
    <3>3. ASSUME NEW q \in HighestPriority, NEW v \in Victims(connections),
                 item' = [WithoutVictim(v) EXCEPT ![i] = SetPriority(@, q)]
          PROVE  item' \in [Items -> ItemFields]
      <4>1. v \in Items /\ q \in Int
        BY <2>3 DEF Victims
      <4>2. WithoutVictim(v) \in [Items -> ItemFields]
        BY <2>4, <4>1 DEF TypeOK, WithoutVictim
      <4> QED BY <2>5, <3>3, <4>1, <4>2
    <3> QED BY <1>3, <3>1, <3>2, <3>3 DEF LoadNow
  <2>7. net' \in [Items -> NetFields]
    BY <1>3, <2>4 DEF LoadNow, Victims, TypeOK
  <2> QED BY <1>3, <2>2, <2>6, <2>7 DEF LoadNow, TypeOK, queueVars, flagVars
<1>4. ASSUME NEW i \in Items, Finish(i) PROVE TypeOK'
  <2>1. /\ Rest \in Seq(Frames)
        /\ <<"listeners">> \in Frames /\ <<"itemComplete", i>> \in Frames
    BY <1>4, <1>r, FrameTypes DEF Finish, Top
  <2>a. todo' \in Seq(Frames)
    BY <1>4, <2>1, PushFrames DEF Finish
  <2>2. todo' \in Seq(Frames) /\ itemsLoaded' \in Int
    BY <1>4, <2>a DEF Finish, TypeOK
  <2>3. Finished(item[i]) \in ItemFields
    BY <1>0, FieldTypes
  <2> QED BY <1>4, <2>2, <2>3 DEF Finish, TypeOK, connVars, flagVars
<1>5. ASSUME NEW i \in Items, ItemComplete(i) \/ ItemError(i) PROVE TypeOK'
  <2>1. /\ Rest \in Seq(Frames)
        /\ <<"listeners">> \in Frames /\ <<"loadNext">> \in Frames /\ <<"allDone">> \in Frames
    BY <1>5, <1>r, FrameTypes DEF ItemComplete, ItemError, Top
  <2>2. todo' \in Seq(Frames)
    BY <1>5, <2>1, PushFrames DEF ItemComplete, ItemError, AfterComplete, AfterError
  <2>3. Unheard(net[i]) \in NetFields
    BY <1>0, NetTypes
  <2> QED BY <1>5, <2>2, <2>3 DEF ItemComplete, ItemError, TypeOK, queueVars, flagVars
<1>6. ASSUME NEW i \in Items, RemoveItem(i) PROVE TypeOK'
  <2>1. Rest \in Seq(Frames) /\ <<"listeners">> \in Frames /\ <<"allDone">> \in Frames
    BY <1>6, <1>r, FrameTypes DEF RemoveItem, Top
  <2>2. todo' \in Seq(Frames)
    BY <1>6, <2>1, PushFrames DEF RemoveItem, AfterRemove
  <2>3. StopFields(item[i]) \in ItemFields /\ Closed(net[i]) \in NetFields
    BY <1>0, FieldTypes, NetTypes
  <2>4. items' \in Seq(Items)
    BY <1>6, RemoveAtType DEF RemoveItem, RemoveFromQueue, TypeOK
  <2>5. itemsLoaded' \in Int
    BY <1>6 DEF RemoveItem, LoadedWithout, TypeOK
  <2> QED BY <1>6, <2>2, <2>3, <2>4, <2>5 DEF RemoveItem, TypeOK, flagVars
<1>7. CASE AllLoaded \/ Complete \/ Started \/ ContentTaken \/ Return
  <2>1. Rest \in Seq(Frames)
    BY <1>7, <1>r DEF AllLoaded, Complete, Started, ContentTaken, Return, Top
  <2>2. /\ <<"loadNext">> \in Frames /\ <<"listeners">> \in Frames
        /\ <<"complete">> \in Frames
    BY DEF Frames
  <2>3. todo' \in Seq(Frames)
    BY <1>7, <2>1, <2>2, PushFrames DEF AllLoaded, Complete, Started, ContentTaken, Return
  <2>4. CASE AllLoaded
    <3>1. CASE AllDone /\ Unannounced
      <4>1. /\ connected' = TRUE /\ isRunning' = FALSE /\ isFinished' = TRUE
            /\ announced' = announced + 1
        BY <2>4, <3>1 DEF AllLoaded
      <4>2. connected' \in BOOLEAN /\ isRunning' \in BOOLEAN /\ isFinished' \in BOOLEAN
        BY <4>1
      <4>3. announced' \in Nat
        BY <4>1 DEF TypeOK
      <4> QED BY <2>4, <2>3, <4>2, <4>3 DEF AllLoaded, TypeOK, queueVars
    <3>2. CASE ~(AllDone /\ Unannounced)
      <4>1. UNCHANGED <<connections, connected, isRunning, isFinished, announced>>
        BY <2>4, <3>2 DEF AllLoaded
      <4> QED BY <2>4, <2>3, <4>1 DEF AllLoaded, TypeOK, queueVars
    <3> QED BY <3>1, <3>2
  <2>5. CASE Complete \/ Started \/ ContentTaken \/ Return
    BY <2>5, <2>3 DEF Complete, Started, ContentTaken, Return, TypeOK, queueVars, connVars, flagVars
  <2> QED BY <1>7, <2>4, <2>5
<1>8. ASSUME NEW k \in 1..Cardinality(Items) + 1, NEW n \in 0..Cardinality(Items),
             ResumeNext(k, n)
      PROVE  TypeOK'
  <2>0. Cardinality(Items) \in Nat
    BY ItemsAssumption, FS_CardinalityType
  <2>1. Rest \in Seq(Frames) /\ k \in Nat /\ n \in Nat
    BY <1>8, <1>r, <2>0 DEF ResumeNext, Top
  <2>2. <<"loadNext">> \in Frames /\ <<"resumeAll", k + 1, n>> \in Frames
    BY <2>1 DEF Frames
  <2>3. todo' \in Seq(Frames)
    <3>1. todo' \in {Rest, <<<<"loadNext">>>> \o Rest, <<<<"resumeAll", k + 1, n>>>> \o Rest,
                    <<<<"loadNext">>, <<"resumeAll", k + 1, n>>>> \o Rest}
      BY <1>8 DEF ResumeNext
    <3> QED BY <2>1, <2>2, <3>1, PushFrames
  <2>4. k <= Len(items) => items[k] \in Items
    BY <2>1 DEF TypeOK
  <2>5. k <= Len(items) => SetStatus(item[items[k]], "null") \in ItemFields
    BY <1>0, <2>4, FieldTypes DEF Statuses
  <2>6. item' \in [Items -> ItemFields]
    BY <1>8, <2>4, <2>5 DEF ResumeNext, TypeOK
  <2> QED BY <1>8, <2>3, <2>6 DEF ResumeNext, TypeOK, queueVars, connVars
<1> QED BY <1>1, <1>2, <1>3, <1>4, <1>5, <1>6, <1>7, <1>8 DEF Step

(* ... and the calls of the client.                                         *)
LEMMA TypeOfCalls ==
    ASSUME TypeOK, Client, connections' \in SUBSET (Items \X Nat)
    PROVE  TypeOK'
<1>0. /\ \A i \in Items : item[i] \in ItemFields /\ net[i] \in NetFields
      /\ Queued \in SUBSET Items
      /\ todo \in Seq(Frames)
      /\ calls + 1 \in Nat
  BY QueueTypes DEF TypeOK
<1>s. /\ \A i \in Items : /\ StopFields(item[i]) \in ItemFields
                          /\ PausedFields(item[i]) \in ItemFields
                          /\ Closed(net[i]) \in NetFields
                          /\ PausedNet(i) \in NetFields
  BY <1>0, FieldTypes, NetTypes DEF PausedNet
<1>f. /\ <<"loadNext">> \in Frames /\ <<"started">> \in Frames
      /\ <<"contentTaken">> \in Frames /\ <<"resumeAll", 1, Len(items)>> \in Frames
      /\ \A i \in Items : <<"remove", i>> \in Frames /\ <<"loadNow", i>> \in Frames
  BY DEF Frames, TypeOK
<1>1. CASE PauseAll
  <2>1. item' \in [Items -> ItemFields] /\ net' \in [Items -> NetFields]
    BY <1>1, <1>s, <1>0 DEF PauseAll
  <2> QED BY <1>1, <1>0, <2>1 DEF PauseAll, Call, TypeOK, queueVars
<1>2. CASE ResumeAll
  <2>1. todo' \in Seq(Frames)
    BY <1>2, <1>0, <1>f, PushFrames DEF ResumeAll
  <2> QED BY <1>2, <1>0, <2>1 DEF ResumeAll, Call, TypeOK, queueVars, connVars, flagVars
<1>3. ASSUME NEW op, NEW st, RemoveAllWith(op, st) PROVE TypeOK'
  <2>1. PICK q \in InQueueOrder({i \in Queued : item[i].status = st}) :
          todo' = [k \in DOMAIN q |-> <<"remove", q[k]>>] \o <<<<"loadNext">>>> \o todo
    BY <1>3 DEF RemoveAllWith
  <2>2. q \in Seq(Items)
    BY <1>0, QueueTypes
  <2>3. [k \in DOMAIN q |-> <<"remove", q[k]>>] \in Seq(Frames)
    <3>1. DOMAIN q = 1..Len(q) /\ Len(q) \in Nat
      BY <2>2
    <3>2. \A k \in 1..Len(q) : <<"remove", q[k]>> \in Frames
      <4>1. \A k \in 1..Len(q) : q[k] \in Items
        BY <2>2
      <4> QED BY <4>1, <1>f, Zenon
    <3>3. [k \in 1..Len(q) |-> <<"remove", q[k]>>] \in Seq(Frames)
      BY <3>1, <3>2
    <3> QED BY <3>1, <3>3
  <2>4. <<<<"loadNext">>>> \in Seq(Frames)
    BY <1>f
  <2>5. [k \in DOMAIN q |-> <<"remove", q[k]>>] \o <<<<"loadNext">>>> \in Seq(Frames)
    BY <2>3, <2>4, ConcatProperties
  <2>6. todo' \in Seq(Frames)
    BY <1>0, <2>1, <2>5, ConcatProperties
  <2> QED BY <1>3, <1>0, <2>6 DEF RemoveAllWith, Call, TypeOK, queueVars, connVars, flagVars
<1>4. CASE RemoveAll \/ Clear
  <2>1. item' \in [Items -> ItemFields] /\ net' \in [Items -> NetFields]
    BY <1>4, <1>s, <1>0 DEF RemoveAll, Clear, Emptied
  <2>2. items' \in Seq(Items)
    <3>1. items' = <<>>
      BY <1>4 DEF RemoveAll, Clear, Emptied
    <3> QED BY <3>1
  <2>3. {i \in Queued : item[i].isLoaded} \in SUBSET Items
    BY <1>0
  <2>4. itemsLoaded' \in Int
    BY <1>4, <2>3, QueueTypes DEF RemoveAll, Clear, Emptied, TypeOK
  <2>5. connected' \in BOOLEAN /\ cleared' \in BOOLEAN
    BY <1>4 DEF RemoveAll, Clear, Emptied, TypeOK, flagVars
  <2> QED BY <1>4, <1>0, <2>1, <2>2, <2>4, <2>5
          DEF RemoveAll, Clear, Call, TypeOK, flagVars
<1>5. ASSUME NEW n \in Limits, Start(n) PROVE TypeOK'
  <2>1. todo' \in Seq(Frames)
    BY <1>5, <1>0, <1>f, PushFrames DEF Start, StartFrames
  <2>2. numConnections' \in Nat \ {0}
    BY <1>5, BoundsAssumption DEF Start, StartLimit, TypeOK
  <2> QED BY <1>5, <1>0, <2>1, <2>2 DEF Start, Call, TypeOK, queueVars, flagVars
<1>6. ASSUME NEW i \in Items, CallLoadNow(i) \/ CallRemove(i) \/ TakeContent(i) PROVE TypeOK'
  <2>1. todo' \in Seq(Frames)
    BY <1>6, <1>0, <1>f, PushFrames DEF CallLoadNow, CallRemove, TakeContent
  <2> QED BY <1>6, <1>0, <2>1
          DEF CallLoadNow, CallRemove, TakeContent, Call, TypeOK, queueVars, connVars, flagVars
<1>7. ASSUME NEW i \in Items, Reload(i) PROVE TypeOK'
  <2>1. todo' \in Seq(Frames)
    BY <1>7, <1>0, <1>f, PushFrames DEF Reload
  <2>2. SetIndex(SetStatus(StopFields(item[i]), "null"), additionIndex) \in ItemFields
    BY <1>s, FieldTypes DEF Statuses, TypeOK
  <2>3. item' \in [Items -> ItemFields] /\ net' \in [Items -> NetFields]
    BY <1>7, <1>s, <2>2 DEF Reload, TypeOK
  <2>4. items' \in Seq(Items)
    <3>1. Queued \cup {i} \in SUBSET Items
      BY <1>0
    <3> QED BY <1>7, <3>1, QueueTypes DEF Reload
  <2>5. itemsLoaded' \in Int
    BY <1>7 DEF Reload, LoadedWithout, TypeOK
  <2>6. /\ additionIndex' \in Nat /\ announced' \in Nat /\ calls' \in Nat
        /\ UNCHANGED <<connected, numConnections, isRunning, isPaused, cleared>>
    BY <1>7, <1>0 DEF Reload, Call, TypeOK
  <2>7. isFinished' \in BOOLEAN
    BY <1>7 DEF Reload
  <2> QED BY <2>1, <2>3, <2>4, <2>5, <2>6, <2>7 DEF TypeOK
<1>8. ASSUME NEW i \in Items, Resume(i) PROVE TypeOK'
  <2>1. todo' \in Seq(Frames)
    BY <1>8, <1>0, <1>f, PushFrames DEF Resume
  <2>2. SetStatus(item[i], "null") \in ItemFields
    BY <1>0, FieldTypes DEF Statuses
  <2>3. item' \in [Items -> ItemFields]
    BY <1>8, <2>2 DEF Resume, TypeOK
  <2> QED BY <1>8, <1>0, <2>1, <2>3 DEF Resume, Call, TypeOK, queueVars, connVars
<1>9. ASSUME NEW i \in Items, NEW p \in Priorities, Add(i, p) PROVE TypeOK'
  <2>1. todo' \in Seq(Frames)
    BY <1>9, <1>0, <1>f, PushFrames DEF Add
  <2>2. SetIndex(SetPriority(item[i], p), additionIndex + 1) \in ItemFields
    <3>1. p \in Int /\ additionIndex + 1 \in Nat
      BY BoundsAssumption DEF TypeOK
    <3>2. SetPriority(item[i], p) \in ItemFields
      BY <1>0, <3>1, FieldTypes
    <3> QED BY <3>1, <3>2, FieldTypes
  <2>3. item' \in [Items -> ItemFields]
    BY <1>9, <2>2 DEF Add, TypeOK
  <2>4. items' \in Seq(Items)
    <3>1. Queued \cup {i} \in SUBSET Items
      BY <1>0
    <3> QED BY <1>9, <3>1, QueueTypes DEF Add
  <2>5. /\ additionIndex' \in Nat /\ announced' \in Nat
        /\ UNCHANGED <<connected, numConnections, itemsLoaded, isRunning, isPaused,
                       cleared, net, calls>>
    BY <1>9 DEF Add, TypeOK, connVars
  <2>6. isFinished' \in BOOLEAN
    BY <1>9 DEF Add
  <2> QED BY <2>1, <2>3, <2>4, <2>5, <2>6 DEF TypeOK
<1>10. ASSUME NEW i \in Items, NEW p \in Priorities, ChangePriority(i, p) PROVE TypeOK'
  <2>1. SetPriority(item[i], p) \in ItemFields
    BY <1>0, FieldTypes, BoundsAssumption
  <2>2. item' \in [Items -> ItemFields]
    BY <1>10, <2>1 DEF ChangePriority, TypeOK
  <2>3. items' \in Seq(Items)
    BY <1>10, <1>0, QueueTypes DEF ChangePriority
  <2> QED BY <1>10, <1>0, <2>2, <2>3 DEF ChangePriority, Call, TypeOK, connVars, flagVars
<1>11. ASSUME NEW i \in Items, NEW b \in BOOLEAN, Pause(i, b) PROVE TypeOK'
  <2>1. todo' \in Seq(Frames)
    BY <1>11, <1>0, <1>f, PushFrames DEF Pause
  <2>2. item' \in [Items -> ItemFields] /\ net' \in [Items -> NetFields]
    BY <1>11, <1>s DEF Pause, TypeOK
  <2>3. calls' \in Nat
    BY <1>11, <1>0 DEF Pause, Call
  <2> QED BY <1>11, <2>1, <2>2, <2>3 DEF Pause, TypeOK, queueVars, flagVars
<1> QED BY <1>1, <1>2, <1>3, <1>4, <1>5, <1>6, <1>7, <1>8, <1>9, <1>10, <1>11
        DEF Client, RemovePausedItems, RemoveFailedItems

(* ... and the events of the network.                                       *)
LEMMA TypeOfEvents ==
    ASSUME TypeOK, NEW i \in Items, NetEvent(i)
    PROVE  TypeOK'
<1>0. item[i] \in ItemFields /\ net[i] \in NetFields
  BY DEF TypeOK
<1>1. PICK k \in Slots(i) : \/ NetOpen(i, k) \/ NetComplete(i, k) \/ NetError(i, k)
                            \/ NetSecurityError(i, k) \/ NetUnheard(i, k)
  BY DEF NetEvent
<1>2. /\ net[i].orphans \in Seq(Transfers)
      /\ net[i].loader \in Transfers \cup {"none"}
      /\ k # 0 => k \in 1..Len(net[i].orphans)
  BY <1>0, <1>1 DEF NetFields, Slots
<1>3. Ended(i, k) \in NetFields
  <2>1. CASE k = 0
    BY <1>0, <2>1, NetTypes DEF Ended
  <2>2. CASE k # 0
    <3>1. RemoveAt(net[i].orphans, k) \in Seq(Transfers)
      BY <1>2, <2>2, RemoveAtType
    <3> QED BY <1>0, <2>2, <3>1 DEF Ended, NetFields
  <2> QED BY <2>1, <2>2
<1>4. AtOpen(i, k) \in NetFields
  <2>1. CASE k = 0
    BY <1>0, <2>1 DEF AtOpen, NetFields, Transfers, Heard
  <2>2. CASE k # 0
    <3>1. ReplaceAt(net[i].orphans, k, "open") \in Seq(Transfers)
      BY <1>2, <2>2, ExceptSeq DEF ReplaceAt, Transfers, Heard
    <3> QED BY <1>0, <2>2, <3>1 DEF AtOpen, NetFields
  <2> QED BY <2>1, <2>2
<1>5. /\ NewTransport(i, Ended(i, k)) \in NetFields
      /\ SetStatus(item[i], "started") \in ItemFields
      /\ SetStatus(item[i], "error") \in ItemFields
      /\ SetStatus(Tried(item[i]), "error") \in ItemFields
  BY <1>0, <1>3, NetTypes, FieldTypes DEF Statuses
<1>6. LoadFields(i, SetStatus(Tried(item[i]), "null")) \in ItemFields
  BY <1>0, FieldTypes DEF Statuses
<1>7. net' \in [Items -> NetFields]
  BY <1>1, <1>3, <1>4, <1>5
     DEF NetOpen, NetComplete, NetError, NetSecurityError, NetUnheard, TypeOK
<1>8. item' \in [Items -> ItemFields]
  BY <1>1, <1>5, <1>6
     DEF NetOpen, NetComplete, NetError, NetSecurityError, NetUnheard, TypeOK
<1>9. todo' \in Seq(Frames)
  <2>a. <<"finish", i>> \in Frames
    BY DEF Frames
  <2>b. ErrorFrames(i) \in Seq(Frames) /\ LoadFrames(i) \in Seq(Frames)
    BY FrameTypes
  <2>c. <<<<"finish", i>>>> \in Seq(Frames)
    BY <2>a
  <2>1. /\ ErrorFrames(i) \in Seq(Frames) /\ LoadFrames(i) \in Seq(Frames)
        /\ <<<<"finish", i>>>> \in Seq(Frames) /\ todo \in Seq(Frames)
    BY <2>b, <2>c DEF TypeOK
  <2>2. ErrorFrames(i) \o <<<<"finish", i>>>> \in Seq(Frames)
    BY <2>1, ConcatProperties
  <2> QED BY <1>1, <2>1, <2>2
          DEF NetOpen, NetComplete, NetError, NetSecurityError, NetUnheard
<1> QED BY <1>7, <1>8, <1>9 DEF NetEvent, TypeOK, queueVars, connVars, flagVars

-----------------------------------------------------------------------------
(* The inductive invariant: the counts of connections are those of finite
   sets, and COMPLETE has been announced only by a finished loader.         *)
IInv ==
    /\ TypeOK
    /\ IsFiniteSet(connections)
    /\ HostBound
    /\ FinishedHoldsNoConnection
    /\ AnnouncedOnce
    /\ ~isFinished => announced = 0

(* A loader as the constructor leaves it satisfies the invariant.           *)
LEMMA InitIInv == Init => IInv
<1> SUFFICES ASSUME Init PROVE IInv
  OBVIOUS
<1>1. item \in [Items -> ItemFields]
  <2>1. NewItem \in ItemFields
    BY DEF NewItem, ItemFields, Statuses
  <2> QED BY <2>1 DEF Init
<1>2. net \in [Items -> NetFields]
  BY DEF Init, NetFields, Transfers, Heard
<1>3. items \in Seq(Items) /\ todo \in Seq(Frames)
  BY DEF Init
<1>a. /\ connected \in BOOLEAN /\ isRunning \in BOOLEAN /\ isFinished \in BOOLEAN
      /\ isPaused \in BOOLEAN /\ cleared \in BOOLEAN
  BY DEF Init
<1>b. connections \in SUBSET (Items \X Nat)
  BY DEF Init
<1>c. /\ numConnections \in Nat \ {0} /\ itemsLoaded \in Int /\ additionIndex \in Nat
      /\ calls \in Nat /\ announced \in Nat
  BY BoundsAssumption DEF Init
<1>4. TypeOK
  BY <1>1, <1>2, <1>3, <1>a, <1>b, <1>c DEF TypeOK
<1>5. IsFiniteSet(connections) /\ \A h \in Hosts : HostEntries(connections, h) = {}
  BY FS_EmptySet DEF Init, HostEntries
<1>6. HostBound
  BY <1>5, FS_EmptySet, BoundsAssumption DEF HostBound
<1> QED BY <1>4, <1>5, <1>6 DEF Init, IInv, FinishedHoldsNoConnection, AnnouncedOnce

(* Every step of the loader, of the client and of the network keeps it.     *)
LEMMA StepIInv == IInv /\ [Next]_vars => IInv'
<1> SUFFICES ASSUME IInv, [Next]_vars PROVE IInv'
  OBVIOUS
<1>1. Opens \/ Drops
  BY StepShape DEF IInv
<1>2. connections' \in SUBSET (Items \X Nat) /\ IsFiniteSet(connections')
  BY <1>1, ConnTypeStep DEF IInv, TypeOK, ConnTypeOK
<1>3. TypeOK'
  <2>1. CASE UNCHANGED vars
    BY <2>1 DEF IInv, TypeOK, vars
  <2> QED BY <1>2, <2>1, TypeOfSteps, TypeOfCalls, TypeOfEvents DEF IInv, Next
<1>4. HostBound'
  <2> SUFFICES ASSUME NEW h \in Hosts
               PROVE  Cardinality(HostEntries(connections', h)) <= MaxPerHost
    BY DEF HostBound, HostEntries
  <2>1. CASE Drops
    BY <2>1, DropCounts, BoundsAssumption DEF Drops, IInv, HostBound
  <2>2. CASE Opens
    <3>1. PICK C \in SUBSET connections, i \in Items :
            CanOpen(C, i) /\ connections' = PushEntry(C, i)
      BY <2>2 DEF Opens
    <3>2. /\ IsFiniteSet(C)
          /\ Cardinality(HostEntries(C, h)) <= MaxPerHost
      BY DropCounts, BoundsAssumption DEF IInv, HostBound
    <3> QED BY <3>1, <3>2, PushCounts, BoundsAssumption DEF CanOpen
  <2> QED BY <1>1, <2>1, <2>2
<1>5. FinishedHoldsNoConnection'
  BY <1>1 DEF Opens, Drops, IInv, FinishedHoldsNoConnection
<1>6. AnnouncedOnce' /\ (~isFinished' => announced' = 0)
  <2>1. CASE Quietly
    BY <2>1 DEF Quietly, IInv, AnnouncedOnce
  <2>2. CASE Announces
    BY <2>2 DEF Announces, IInv, AnnouncedOnce
  <2>3. CASE announced' = 0
    BY <2>3 DEF AnnouncedOnce
  <2> QED BY <2>1, <2>2, <2>3, AnnounceShape
<1> QED BY <1>2, <1>3, <1>4, <1>5, <1>6 DEF IInv

-----------------------------------------------------------------------------
(* The state keeps its type: in particular start() never installs a limit of
   zero, and no call, whatever a listener does in the middle of it, leaves a
   frame, a status or a transfer the code does not know.                    *)
THEOREM TypeCorrect == Spec => []TypeOK
<1>1. IInv => TypeOK
  BY DEF IInv
<1> QED BY <1>1, InitIInv, StepIInv, PTL DEF Spec

(* No host ever serves more than maxConnectionsPerHost connections: loadNow(),
   reload(), pause() and remove(), called at any point of any other call,
   cannot get around _canOpenConnectioForItem().                            *)
THEOREM HostBoundHolds == Spec => []HostBound
<1>1. IInv => HostBound
  BY DEF IInv
<1> QED BY <1>1, InitIInv, StepIInv, PTL DEF Spec

(* A loader that has announced COMPLETE in _onAllLoaded() holds no connection
   until add() or reload() makes it work again.                             *)
THEOREM FinishedHolds == Spec => []FinishedHoldsNoConnection
<1>1. IInv => FinishedHoldsNoConnection
  BY DEF IInv
<1> QED BY <1>1, InitIInv, StepIInv, PTL DEF Spec

(* _onAllLoaded() announces COMPLETE at most once between two calls of add()
   or reload(), however often the check for it is run.                      *)
THEOREM AnnouncedOnceHolds == Spec => []AnnouncedOnce
<1>1. IInv => AnnouncedOnce
  BY DEF IInv
<1> QED BY <1>1, InitIInv, StepIInv, PTL DEF Spec

(* Whenever the number of connections grows, it stays within the limit in
   force, start() having raised or lowered it or not.                       *)
THEOREM OpensWithinLimitHolds == Spec => OpensWithinLimit
<1> DEFINE Grows == Cardinality(connections') > Cardinality(connections)
           Within == Cardinality(connections') <= numConnections'
<1>1. IInv /\ [Next]_vars => (Grows => Within)
  <2> SUFFICES ASSUME IInv, [Next]_vars, Grows PROVE Within
    OBVIOUS
  <2>1. Opens \/ Drops
    BY StepShape DEF IInv
  <2>2. CASE Drops
    BY <2>2, DropCounts DEF Drops, IInv
  <2>3. CASE Opens
    <3>1. PICK C \in SUBSET connections, i \in Items :
            /\ Cardinality(C) < numConnections
            /\ connections' = PushEntry(C, i)
            /\ numConnections' = numConnections
      BY <2>3 DEF Opens, CanOpen
    <3>2. IsFiniteSet(C)
      BY FS_Subset DEF IInv
    <3>3. /\ Cardinality(C) \in Nat /\ Cardinality(PushEntry(C, i)) \in Nat
          /\ Cardinality(PushEntry(C, i)) <= Cardinality(C) + 1
      BY <3>2, PushCounts
    <3> QED BY <3>1, <3>3 DEF IInv, TypeOK
  <2> QED BY <2>1, <2>2, <2>3
<1>2. IInv /\ [Next]_vars => [Grows => Within]_vars
  BY <1>1
<1> QED BY <1>2, InitIInv, StepIInv, PTL DEF Spec, OpensWithinLimit

-----------------------------------------------------------------------------
(* The frames of a call in progress, as a set. *)

(* The frames of a stack s. *)
FramesOf(s) == {s[k] : k \in 1..Len(s)}

(* The frames of a stack put on another are those of both. *)
LEMMA FramesOfConcat ==
    ASSUME NEW s \in Seq(Frames), NEW t \in Seq(Frames)
    PROVE  FramesOf(s \o t) = FramesOf(s) \cup FramesOf(t)
<1> DEFINE u == s \o t
<1>1. /\ u \in Seq(Frames) /\ Len(u) = Len(s) + Len(t)
      /\ Len(s) \in Nat /\ Len(t) \in Nat
      /\ \A k \in 1..Len(u) : u[k] = IF k <= Len(s) THEN s[k] ELSE t[k - Len(s)]
  BY ConcatProperties
<1>2. ASSUME NEW k \in 1..Len(s) PROVE s[k] \in FramesOf(u)
  BY <1>1 DEF FramesOf
<1>3. ASSUME NEW k \in 1..Len(t) PROVE t[k] \in FramesOf(u)
  <2>1. Len(s) + k \in 1..Len(u) /\ u[Len(s) + k] = t[k]
    BY <1>1
  <2> QED BY <2>1 DEF FramesOf
<1>4. ASSUME NEW k \in 1..Len(u) PROVE u[k] \in FramesOf(s) \cup FramesOf(t)
  BY <1>1 DEF FramesOf
<1> QED BY <1>2, <1>3, <1>4 DEF FramesOf

(* A frame put on a stack is its head, and the stack its tail. *)
LEMMA FramesOfFront ==
    ASSUME NEW f \in Frames, NEW t \in Seq(Frames)
    PROVE  /\ <<f>> \o t \in Seq(Frames) /\ <<f>> \o t # <<>>
           /\ Head(<<f>> \o t) = f /\ Tail(<<f>> \o t) = t
           /\ FramesOf(<<f>> \o t) = {f} \cup FramesOf(t)
<1>1. <<f>> \in Seq(Frames) /\ FramesOf(<<f>>) = {f}
  BY DEF FramesOf
<1>2. FramesOf(<<f>> \o t) = {f} \cup FramesOf(t)
  BY <1>1, FramesOfConcat
<1>3. <<f>> \o t \in Seq(Frames) /\ <<f>> \o t # <<>> /\ Head(<<f>> \o t) = f
  OBVIOUS
<1>4. Tail(<<f>> \o t) = t
  OBVIOUS
<1> QED BY <1>2, <1>3, <1>4

(* The frames of a stack are its head and those below it. *)
LEMMA FramesOfTop ==
    ASSUME NEW s \in Seq(Frames), s # <<>>
    PROVE  /\ Tail(s) \in Seq(Frames) /\ Head(s) \in Frames
           /\ FramesOf(s) = {Head(s)} \cup FramesOf(Tail(s))
<1>1. Tail(s) \in Seq(Frames) /\ Head(s) \in Frames
  OBVIOUS
<1>2. s = <<Head(s)>> \o Tail(s)
  OBVIOUS
<1> QED BY <1>1, <1>2, FramesOfFront

-----------------------------------------------------------------------------
(* Tame clients, and the invariant that holds while they use the loader: every
   connection belongs to an item of the queue that is being transferred or is
   about to be reported, and itemsLoaded counts the loaded items. Neither
   holds of the loader by itself at every moment: between the end of a
   transfer and _onItemComplete() or _onItemError() an item holds a connection
   without a transfer, and what makes up for it is the frame that is still to
   run. That is why the invariant speaks of the frames. *)

(* The client hands over no item that was removed, forces no item that is
   loading, reloads no item that is loaded, and its documents parse: what the
   loader's accounts need. Each of the four is needed, as the README tells of
   the clients that are not. *)
Tame ==
    /\ "noStaleKeys" \in Rules
    /\ "noForcedPending" \in Rules \/ "loadNow" \notin Ops
    /\ "noReloadLoaded" \in Rules \/ "reload" \notin Ops
    /\ Malformed = {}

(* The frames that run before anything else may come in between. *)
AtOnce == {"loadNow", "force", "finish", "itemError"}
(* The frames that will give the connection of an item back. *)
ItemFrames == {"finish", "itemError", "itemComplete"}
(* The frames that are neither. *)
Plain == {f \in Frames : f[1] \notin AtOnce \cup ItemFrames}
(* Nothing in the stack s has to run at once. *)
Unhurried(s) == \A f \in FramesOf(s) : f[1] \notin AtOnce

(* What runs at once is on top of the call. *)
TopOnly == todo # <<>> => Unhurried(Rest)

(* The item has a transfer that it listens to. *)
Audible(i) == net[i].loader \in Heard
(* A frame is left that reports the end of the item's transfer. *)
Owed(i) == \E f \in ItemFrames : <<f, i>> \in FramesOf(todo)

(* The queue holds no item twice, and none that was never added. *)
QueueOK ==
    /\ \A j, k \in 1..Len(items) : j # k => items[j] # items[k]
    /\ \A i \in Queued : Known(i)
    /\ \A i \in Items : item[i].additionIndex <= additionIndex

(* No item has two connections. *)
OneEach == connections \subseteq Items \X {1}

(* What an item's fields, its transfer, its connection and the frames say of
   it agree. *)
Accounted(i) ==
    /\ net[i].loader \in Heard \cup {"none"} /\ net[i].orphans = <<>>
    /\ i \in Opened => item[i].isLoading /\ i \in Queued /\ (Audible(i) \/ Owed(i))
    /\ Audible(i) => i \in Opened /\ ~item[i].isLoaded /\ item[i].status # "error"
    /\ ~item[i].isLoading => ~item[i].isLoaded /\ item[i].status \in {"null", "stopped"}
    /\ item[i].status = "finished" => item[i].isLoaded
    /\ item[i].isLoaded => Known(i)
    /\ <<"itemComplete", i>> \in FramesOf(todo) => item[i].isLoaded

(* What the item on top of the call is like when its frame runs. *)
TopOK ==
    \A i \in Items :
      /\ Top(<<"loadNow", i>>) \/ Top(<<"force", i>>) => ~item[i].isLoading /\ i \in Queued
      /\ Top(<<"finish", i>>) => /\ ~item[i].isLoaded /\ item[i].isLoading
                                 /\ i \in Queued /\ i \in Opened /\ ~Audible(i)
      /\ Top(<<"itemError", i>>) => ~Audible(i)

(* The loaded items of the queue, which _itemsLoaded counts. *)
LoadedItems == {i \in Queued : item[i].isLoaded}
(* _itemsLoaded is their number, also in the middle of a call. *)
CountOK == itemsLoaded = Cardinality(LoadedItems)

(* The inductive invariant for a tame client. *)
TameInv ==
    /\ TypeOK
    /\ TopOnly
    /\ QueueOK
    /\ OneEach
    /\ \A i \in Items : Accounted(i)
    /\ TopOK
    /\ CountOK

-----------------------------------------------------------------------------
(* Which frames are plain. *)
LEMMA PlainFrames ==
    /\ <<"loadNext">> \in Plain /\ <<"listeners">> \in Plain /\ <<"allDone">> \in Plain
    /\ <<"started">> \in Plain /\ <<"contentTaken">> \in Plain /\ <<"complete">> \in Plain
    /\ \A i \in Items : <<"remove", i>> \in Plain
    /\ \A k, n \in Nat : <<"resumeAll", k, n>> \in Plain
    /\ Plain \subseteq Frames
BY DEF Plain, Frames, AtOnce, ItemFrames

(* Stacks of one and of two plain frames. *)
LEMMA PlainSeqs ==
    ASSUME NEW f \in Plain, NEW g \in Plain
    PROVE  <<>> \in Seq(Plain) /\ <<f>> \in Seq(Plain) /\ <<f, g>> \in Seq(Plain)
OBVIOUS

(* Plain frames put on a stack neither hurry nor report on an item. *)
LEMMA PlainPush ==
    ASSUME NEW p \in Seq(Plain), NEW t \in Seq(Frames), Unhurried(t)
    PROVE  /\ p \o t \in Seq(Frames)
           /\ Unhurried(p \o t)
           /\ \A f \in ItemFrames, i \in Items :
                <<f, i>> \in FramesOf(p \o t) <=> <<f, i>> \in FramesOf(t)
<1>1. p \in Seq(Frames)
  BY PlainFrames
<1>2. FramesOf(p \o t) = FramesOf(p) \cup FramesOf(t) /\ p \o t \in Seq(Frames)
  BY <1>1, FramesOfConcat
<1>3. FramesOf(p) \subseteq Plain
  BY DEF FramesOf
<1>4. \A f \in ItemFrames, i \in Items : <<f, i>> \notin Plain
  BY DEF Plain
<1> QED BY <1>2, <1>3, <1>4 DEF Unhurried, Plain

(* A call in progress whose top frame waits for nothing is unhurried. *)
LEMMA Hurries ==
    ASSUME TypeOK, TopOnly
    PROVE  /\ todo = <<>> => Unhurried(todo)
           /\ todo # <<>> =>
                /\ Rest \in Seq(Frames) /\ Unhurried(Rest)
                /\ Head(todo)[1] \notin AtOnce => Unhurried(todo)
                /\ \A f \in ItemFrames, i \in Items : Head(todo) # <<f, i>> =>
                      (<<f, i>> \in FramesOf(Rest) <=> <<f, i>> \in FramesOf(todo))
                /\ FramesOf(todo) = {Head(todo)} \cup FramesOf(Rest)
<1>1. todo \in Seq(Frames)
  BY DEF TypeOK
<1>2. todo = <<>> => Unhurried(todo)
  BY DEF Unhurried, FramesOf
<1>3. ASSUME todo # <<>>
      PROVE  /\ Rest \in Seq(Frames) /\ Unhurried(Rest)
             /\ FramesOf(todo) = {Head(todo)} \cup FramesOf(Rest)
  BY <1>1, <1>3, FramesOfTop DEF TopOnly, Rest
<1> QED BY <1>2, <1>3 DEF Unhurried

(* In a stack where nothing hurries, nothing is asked of the item on top. *)
LEMMA UnhurriedTop ==
    ASSUME todo' \in Seq(Frames), Unhurried(todo')
    PROVE  TopOnly' /\ TopOK'
<1>1. todo' # <<>> => Head(todo')[1] \notin AtOnce /\ Unhurried(Tail(todo'))
  BY FramesOfTop DEF Unhurried
<1>2. TopOnly'
  BY <1>1 DEF TopOnly, Rest, Unhurried
<1>3. \A i \in Items, f \in AtOnce : ~Top(<<f, i>>)'
  BY <1>1 DEF Top
<1>4. TopOK'
  BY <1>3 DEF TopOK, AtOnce
<1> QED BY <1>2, <1>4

(* One frame put on a stack where nothing hurries. *)
LEMMA FrontTop ==
    ASSUME NEW f \in Frames, NEW t \in Seq(Frames), Unhurried(t), todo' = <<f>> \o t
    PROVE  /\ TopOnly' /\ \A g : Top(g)' <=> g = f
           /\ FramesOf(todo') = {f} \cup FramesOf(t)
<1>1. /\ todo' # <<>> /\ Head(todo') = f /\ Tail(todo') = t
      /\ FramesOf(todo') = {f} \cup FramesOf(t)
  BY FramesOfFront
<1>2. TopOnly'
  BY <1>1 DEF TopOnly, Rest, Unhurried
<1> QED BY <1>1, <1>2 DEF Top

-----------------------------------------------------------------------------
(* When items have one connection each, RemoveEntry drops it. *)
LEMMA RemoveOne ==
    ASSUME NEW C \in SUBSET (Items \X {1}), NEW i \in Items
    PROVE  RemoveEntry(C, i) = {c \in C : c[1] # i}
<1>1. CASE <<i, 1>> \in C
  <2>1. EntriesOf(C, i) = {<<i, 1>>}
    BY <1>1 DEF EntriesOf
  <2>2. Cardinality(EntriesOf(C, i)) = 1
    BY <2>1, FS_Singleton
  <2> QED BY <2>1, <2>2 DEF RemoveEntry
<1>2. CASE <<i, 1>> \notin C
  <2>1. EntriesOf(C, i) = {}
    BY <1>2 DEF EntriesOf
  <2>2. Cardinality(EntriesOf(C, i)) = 0
    BY <2>1, FS_EmptySet
  <2>3. <<i, 0>> \notin C
    OBVIOUS
  <2> QED BY <1>2, <2>2, <2>3 DEF RemoveEntry
<1> QED BY <1>1, <1>2

(* An item without a connection gets its first one. *)
LEMMA PushOne ==
    ASSUME NEW C \in SUBSET (Items \X {1}), NEW i \in Items, \A c \in C : c[1] # i
    PROVE  PushEntry(C, i) = C \cup {<<i, 1>>}
<1>1. EntriesOf(C, i) = {}
  BY DEF EntriesOf
<1>2. Cardinality(EntriesOf(C, i)) = 0
  BY <1>1, FS_EmptySet
<1> QED BY <1>2 DEF PushEntry

(* pauseAll() drops every connection of an item of the queue. *)
LEMMA DropQueued ==
    ASSUME NEW C \in SUBSET (Items \X {1})
    PROVE  WithoutQueued(C) = {c \in C : c[1] \notin Queued}
<1> SUFFICES ASSUME NEW c \in C PROVE ~(c[2] < Cardinality(EntriesOf(C, c[1])))
  BY DEF WithoutQueued
<1>1. EntriesOf(C, c[1]) = {c}
  BY DEF EntriesOf
<1>2. Cardinality(EntriesOf(C, c[1])) = 1
  BY <1>1, FS_Singleton
<1> QED BY <1>2

-----------------------------------------------------------------------------
(* What a step does to the items, seen from one item. *)

(* What a step may do to an item it is not about. *)
Untouched(i) ==
    /\ item'[i].isLoading = item[i].isLoading
    /\ item'[i].isLoaded = item[i].isLoaded
    /\ \/ item'[i].status \in {item[i].status, "null"}
       \/ item'[i].status = "started" /\ item[i].isLoading
    /\ net'[i].loader \in Heard \cup {"none"} /\ net'[i].orphans = <<>>
    /\ Audible(i)' <=> Audible(i)
    /\ i \in Opened' => i \in Opened
    /\ i \in Opened /\ Audible(i) => i \in Opened'
    /\ i \in Queued => i \in Queued'

(* The item is stopped: a loaded one only loses its connection. *)
Halted(i) ==
    /\ item'[i].isLoaded = item[i].isLoaded
    /\ item[i].isLoaded => /\ item'[i].isLoading = item[i].isLoading
                           /\ item'[i].status \in {item[i].status, "null"}
    /\ ~item[i].isLoaded => /\ ~item'[i].isLoading
                            /\ item'[i].status \in {"null", "stopped"}
    /\ net'[i].loader = "none" /\ net'[i].orphans = <<>>
    /\ i \notin Opened'

(* The frames that report on the item are the ones there were. *)
Carried(i) ==
    \A f \in ItemFrames : <<f, i>> \in FramesOf(todo') <=> <<f, i>> \in FramesOf(todo)

(* The account of an item survives a step that leaves it alone or stops it. *)
LEMMA ItemKept ==
    ASSUME TypeOK, TypeOK', NEW i \in Items, Accounted(i), Carried(i),
           Known(i) => Known(i)', Untouched(i) \/ Halted(i)
    PROVE  Accounted(i)'
<1>1. /\ item[i] \in ItemFields /\ item'[i] \in ItemFields
      /\ Owed(i)' <=> Owed(i)
      /\ <<"itemComplete", i>> \in FramesOf(todo') <=> <<"itemComplete", i>> \in FramesOf(todo)
  BY DEF TypeOK, Carried, Owed, ItemFrames
<1>2. CASE Untouched(i)
  BY <1>1, <1>2 DEF Untouched, Accounted, Audible, ItemFields, Statuses, Heard
<1>3. CASE Halted(i)
  BY <1>1, <1>3 DEF Halted, Accounted, Audible, ItemFields, Statuses, Heard
<1> QED BY <1>2, <1>3

(* What stays as it is when neither the queue nor an index changes. *)
LEMMA QueueKept ==
    ASSUME TypeOK, QueueOK, UNCHANGED <<items, additionIndex>>,
           \A i \in Items : item'[i].additionIndex = item[i].additionIndex
    PROVE  QueueOK' /\ Queued' = Queued /\ \A i \in Items : Known(i)' <=> Known(i)
<1>1. Queued' = Queued /\ Queued \subseteq Items
  BY DEF Queued, TypeOK
<1>2. \A i \in Items : Known(i)' <=> Known(i)
  BY DEF Known
<1> QED BY <1>1, <1>2 DEF QueueOK

(* ... and no item becomes loaded. *)
LEMMA CountKept ==
    ASSUME CountOK, Queued' = Queued, itemsLoaded' = itemsLoaded, Queued \subseteq Items,
           \A i \in Items : item'[i].isLoaded = item[i].isLoaded
    PROVE  CountOK'
<1>1. LoadedItems' = LoadedItems
  BY DEF LoadedItems
<1> QED BY <1>1 DEF CountOK

(* The step of a call that pushes plain frames on s, the frames left. *)
Leaves(s) ==
    /\ s \in Seq(Frames) /\ Unhurried(s)
    /\ \A i \in Items, f \in ItemFrames : <<f, i>> \in FramesOf(s) <=> <<f, i>> \in FramesOf(todo)

(* What is left below a frame that reports on nobody. *)
LEMMA LeavesRest ==
    ASSUME TypeOK, TopOnly, todo # <<>>, \A i \in Items, f \in ItemFrames : Head(todo) # <<f, i>>
    PROVE  Leaves(Rest)
BY Hurries DEF Leaves

(* The whole call, when its top frame does not hurry. *)
LEMMA LeavesAll ==
    ASSUME TypeOK, TopOnly, todo = <<>> \/ Head(todo)[1] \notin AtOnce
    PROVE  Leaves(todo)
BY Hurries DEF Leaves, TypeOK

(* A step that pushes plain frames keeps the invariant when the queue, the
   connections and the count are right after it and every item was left alone
   or stopped. *)
LEMMA PlainStep ==
    ASSUME TameInv, TypeOK', NEW p \in Seq(Plain), NEW s, Leaves(s), todo' = p \o s,
           QueueOK', OneEach', CountOK',
           \A i \in Items : (Known(i) => Known(i)') /\ (Untouched(i) \/ Halted(i))
    PROVE  TameInv'
<1>1. /\ todo' \in Seq(Frames) /\ Unhurried(todo')
      /\ \A i \in Items : Carried(i)
  BY PlainPush DEF Leaves, Carried
<1>2. TopOnly' /\ TopOK'
  BY <1>1, UnhurriedTop
<1>3. \A i \in Items : Accounted(i)'
  BY <1>1, ItemKept DEF TameInv
<1> QED BY <1>2, <1>3 DEF TameInv

(* The same when the queue is left alone. *)
LEMMA PlainStepInPlace ==
    ASSUME TameInv, TypeOK', NEW p \in Seq(Plain), NEW s, Leaves(s), todo' = p \o s,
           UNCHANGED <<items, additionIndex, itemsLoaded>>, OneEach',
           \A i \in Items : /\ item'[i].additionIndex = item[i].additionIndex
                            /\ Untouched(i) \/ Halted(i)
    PROVE  TameInv'
<1>1. QueueOK' /\ Queued' = Queued /\ \A i \in Items : Known(i)' <=> Known(i)
  BY QueueKept DEF TameInv
<1>2. Queued \subseteq Items
  BY QueueTypes DEF TameInv
<1>3. CountOK'
  <2>1. \A i \in Items : item'[i].isLoaded = item[i].isLoaded
    BY DEF Untouched, Halted
  <2> QED BY <1>1, <1>2, <2>1, CountKept DEF TameInv
<1> QED BY <1>1, <1>3, PlainStep

(* Items that a step leaves entirely alone. *)
LEMMA AloneIsUntouched ==
    ASSUME NEW i \in Items, Accounted(i), item'[i] = item[i], net'[i] = net[i],
           i \in Opened' => i \in Opened, i \in Opened /\ Audible(i) => i \in Opened',
           i \in Queued => i \in Queued'
    PROVE  Untouched(i)
BY DEF Untouched, Accounted, Audible

-----------------------------------------------------------------------------
(* The steps that open connections. *)

(* Opening a connection for a waiting item of the queue keeps the invariant,
   whatever connections without a transfer are dropped with it; a load that is
   refused leaves the frame that reports the error. *)
LEMMA Opening ==
    ASSUME TameInv, TypeOK', NEW i \in Queued, ~item[i].isLoading,
           NEW C \in SUBSET connections, OpenConnection(C, i),
           \A j \in Items : Audible(j) => \E c \in C : c[1] = j,
           NEW s, Leaves(s), todo' = LoadFrames(i) \o s,
           UNCHANGED <<items, additionIndex, itemsLoaded>>
    PROVE  TameInv'
<1>1. i \in Items /\ Accounted(i) /\ item[i] \in ItemFields /\ net[i] \in NetFields
  BY QueueTypes DEF TameInv, TypeOK
<1>2. /\ i \notin Opened /\ net[i].loader = "none" /\ net[i].orphans = <<>>
      /\ ~item[i].isLoaded /\ item[i].status \in {"null", "stopped"}
      /\ <<"itemComplete", i>> \notin FramesOf(todo)
  BY <1>1 DEF Accounted, Audible
<1>3. connections' = C \cup {<<i, 1>>}
  BY <1>1, <1>2, PushOne DEF OpenConnection, TameInv, OneEach, Opened
<1>4. OneEach' /\ i \in Opened' /\ \A j \in Items : j # i => (j \in Opened' => j \in Opened)
  <2>1. connections' \subseteq Items \X {1}
    BY <1>1, <1>3 DEF OneEach, TameInv
  <2>2. <<i, 1>> \in connections' /\ \A c \in connections' : c \in connections \/ c = <<i, 1>>
    BY <1>3
  <2>3. i \in Opened' /\ \A j \in Opened' : j = i \/ j \in Opened
    BY <2>2 DEF Opened
  <2> QED BY <2>1, <2>3 DEF OneEach
<1>5. /\ item' = [item EXCEPT ![i] = LoadFields(i, @)]
      /\ net' = [net EXCEPT ![i] = NewTransport(i, @)]
  BY DEF OpenConnection
<1>6. \A j \in Items : j # i => item'[j] = item[j] /\ net'[j] = net[j]
  BY <1>5 DEF TameInv, TypeOK
<1>7. /\ item'[i] = LoadFields(i, item[i]) /\ net'[i] = NewTransport(i, net[i])
  BY <1>1, <1>5 DEF TameInv, TypeOK
<1>8. /\ item'[i].isLoading = TRUE /\ item'[i].isLoaded = item[i].isLoaded
      /\ item'[i].additionIndex = item[i].additionIndex
      /\ item'[i].status = IF i \in Denied THEN "error" ELSE item[i].status
      /\ net'[i].loader = IF i \in Denied THEN "none" ELSE "pending"
      /\ net'[i].orphans = <<>>
  BY <1>1, <1>2, <1>7 DEF LoadFields, NewTransport, ItemFields
<1>9. QueueOK' /\ Queued' = Queued /\ \A j \in Items : Known(j)' <=> Known(j)
  BY <1>6, <1>8, QueueKept DEF TameInv
<1>10. CountOK'
  <2>1. \A j \in Items : item'[j].isLoaded = item[j].isLoaded
    BY <1>6, <1>8
  <2> QED BY <1>9, <2>1, CountKept, QueueTypes DEF TameInv
<1>11. \A j \in Items : j # i => Untouched(j)
  <2>1. ASSUME NEW j \in Items, j # i PROVE j \in Opened /\ Audible(j) => j \in Opened'
    BY <1>3, <2>1 DEF Opened
  <2> QED BY <1>4, <1>6, <1>9, <2>1, AloneIsUntouched DEF TameInv
<1>12. CASE i \in Denied
  <2>1. <<"itemError", i>> \in Frames /\ LoadFrames(i) = <<<<"itemError", i>>>>
    BY <1>1, <1>12, FrameTypes DEF LoadFrames, ErrorFrames
  <2>2. /\ TopOnly' /\ \A g : Top(g)' <=> g = <<"itemError", i>>
        /\ FramesOf(todo') = {<<"itemError", i>>} \cup FramesOf(s)
    BY <2>1, FrontTop DEF Leaves
  <2>3. /\ \A j \in Items : j # i => Carried(j)
        /\ Owed(i)' /\ <<"itemComplete", i>> \notin FramesOf(todo')
    BY <1>1, <1>2, <2>2 DEF Leaves, Carried, Owed, ItemFrames
  <2>4. \A j \in Items : j # i => Accounted(j)'
    BY <1>9, <1>11, <2>3, ItemKept DEF TameInv
  <2>5. Accounted(i)'
    BY <1>1, <1>2, <1>4, <1>8, <1>9, <1>12, <2>3 DEF Accounted, Audible, Heard
  <2>6. TopOK'
    BY <1>8, <1>12, <2>2 DEF TopOK, Audible, Heard
  <2> QED BY <1>4, <1>9, <1>10, <2>2, <2>4, <2>5, <2>6 DEF TameInv
<1>13. CASE i \notin Denied
  <2>1. todo' = s
    BY <1>13 DEF LoadFrames, Leaves
  <2>2. TopOnly' /\ TopOK'
    BY <2>1, UnhurriedTop DEF Leaves
  <2>3. \A j \in Items : Carried(j)
    BY <2>1 DEF Leaves, Carried
  <2>4. \A j \in Items : j # i => Accounted(j)'
    BY <1>9, <1>11, <2>3, ItemKept DEF TameInv
  <2>5. Accounted(i)'
    BY <1>1, <1>2, <1>4, <1>8, <1>9, <1>13, <2>3
       DEF Accounted, Audible, Heard, Carried, ItemFrames
  <2> QED BY <1>4, <1>9, <1>10, <2>2, <2>4, <2>5 DEF TameInv
<1> QED BY <1>12, <1>13

(* Steps that change neither an item nor a transfer, and drop only connections
   without a transfer. *)
LEMMA IdlePlainStep ==
    ASSUME TameInv, TypeOK', NEW p \in Seq(Plain), NEW s, Leaves(s), todo' = p \o s,
           UNCHANGED <<items, additionIndex, itemsLoaded, item, net>>,
           connections' \subseteq connections,
           \A i \in Items : i \in Opened /\ Audible(i) => i \in Opened'
    PROVE  TameInv'
<1>1. OneEach' /\ \A i \in Items : i \in Opened' => i \in Opened
  BY DEF OneEach, Opened, TameInv
<1>2. Queued' = Queued
  BY DEF Queued
<1>3. \A i \in Items : Untouched(i)
  BY <1>1, <1>2, AloneIsUntouched DEF TameInv
<1> QED BY <1>1, <1>3, PlainStepInPlace

(* A top frame that reports on no item. *)
LEMMA TopIsNot ==
    ASSUME NEW f, Top(f), f[1] \notin ItemFrames
    PROVE  todo # <<>> /\ \A i \in Items, g \in ItemFrames : Head(todo) # <<g, i>>
BY DEF Top, ItemFrames

(* _loadNext() keeps the invariant. *)
LEMMA LoadNextKeeps ==
    ASSUME TameInv, TypeOK', LoadNext PROVE TameInv'
<1>1. todo # <<>> /\ Head(todo) = <<"loadNext">> /\ Leaves(Rest) /\ Leaves(todo)
  <2>1. Top(<<"loadNext">>)
    BY DEF LoadNext
  <2>2. todo # <<>> /\ Head(todo)[1] \notin AtOnce
    BY <2>1 DEF Top, AtOnce
  <2> QED BY <2>1, <2>2, TopIsNot, LeavesRest, LeavesAll DEF TameInv, Top, ItemFrames
<1>2. Rest = <<>> \o Rest /\ <<>> \in Seq(Plain)
  BY <1>1 DEF Leaves
<1>3. UNCHANGED <<items, additionIndex, itemsLoaded>>
  BY DEF LoadNext, queueVars
<1>4. ASSUME NEW j \in Items, Audible(j) PROVE \E c \in Purged(connections) : c[1] = j
  <2>1. j \in Opened /\ ~Stale(j)
    BY <1>4 DEF TameInv, Accounted, Stale
  <2> QED BY <2>1 DEF Opened, Purged
<1>5. CASE /\ UNCHANGED <<item, net>> /\ todo' = Rest
           /\ connections' \in {connections, Purged(connections)}
  <2>1. connections' \subseteq connections
    BY <1>5 DEF Purged
  <2>2. \A j \in Items : j \in Opened /\ Audible(j) => j \in Opened'
    BY <1>4, <1>5 DEF Opened
  <2> QED BY <1>1, <1>2, <1>3, <1>5, <2>1, <2>2, IdlePlainStep
<1>6. CASE \E i \in NextItemToLoad(Purged(connections)) :
             /\ OpenConnection(Purged(connections), i)
             /\ todo' = LoadFrames(i) \o todo
  <2>1. PICK i \in NextItemToLoad(Purged(connections)) :
             /\ OpenConnection(Purged(connections), i)
             /\ todo' = LoadFrames(i) \o todo
    BY <1>6
  <2>2. i \in Queued /\ ~item[i].isLoading
    BY DEF NextItemToLoad, Candidates, Waiting, Queued
  <2>3. Purged(connections) \in SUBSET connections
    BY DEF Purged
  <2> QED BY <1>1, <1>3, <1>4, <2>1, <2>2, <2>3, Opening
<1> QED BY <1>5, <1>6 DEF LoadNext

(* _loadNext(toLoad) keeps the invariant. *)
LEMMA ForceLoadKeeps ==
    ASSUME TameInv, TypeOK', NEW i \in Items, ForceLoad(i) PROVE TameInv'
<1>1. Top(<<"force", i>>) /\ todo # <<>> /\ Leaves(Rest)
  BY TopIsNot, LeavesRest DEF ForceLoad, TameInv, ItemFrames
<1>2. /\ Rest = <<>> \o Rest /\ <<>> \in Seq(Plain) /\ <<<<"loadNext">>>> \in Seq(Plain)
      /\ Rest \in Seq(Frames)
  BY <1>1, PlainFrames DEF Leaves
<1>3. UNCHANGED <<items, additionIndex, itemsLoaded>>
  BY DEF ForceLoad, queueVars
<1>4. CASE UNCHANGED <<item, net, connections>> /\ todo' \in {Rest, <<<<"loadNext">>>> \o Rest}
  <2>1. connections' \subseteq connections /\ Opened' = Opened
    BY <1>4 DEF Opened
  <2> QED BY <1>1, <1>2, <1>3, <1>4, <2>1, IdlePlainStep
<1>5. CASE /\ OpenConnection(connections, i)
           /\ todo' = LoadFrames(i) \o <<<<"loadNext">>>> \o Rest
  <2>1. i \in Queued /\ ~item[i].isLoading
    BY <1>1 DEF TameInv, TopOK
  <2>2. Leaves(<<<<"loadNext">>>> \o Rest)
    BY <1>1, <1>2, PlainPush DEF Leaves
  <2>3. LoadFrames(i) \in Seq(Frames) /\ <<"loadNext">> \in Frames
    BY FrameTypes
  <2>4. todo' = LoadFrames(i) \o (<<<<"loadNext">>>> \o Rest)
    BY <1>2, <1>5, <2>3, ConcatAssociative
  <2>5. \A j \in Items : Audible(j) => \E c \in connections : c[1] = j
    BY DEF TameInv, Accounted, Opened
  <2> QED BY <1>3, <1>5, <2>1, <2>2, <2>4, <2>5, Opening
<1> QED BY <1>4, <1>5 DEF ForceLoad

-----------------------------------------------------------------------------
(* Stopping, pausing, and loadNow(). *)

(* What stopping and pausing an item comes to. *)
LEMMA StoppedIsHalted ==
    ASSUME TypeOK, NEW i \in Items, Accounted(i),
           item'[i].isLoaded = StopFields(item[i]).isLoaded,
           item'[i].isLoading = StopFields(item[i]).isLoading,
           item'[i].status \in {StopFields(item[i]).status, "null"},
           net'[i] = Closed(net[i]), i \notin Opened'
    PROVE  Halted(i)
<1>1. item[i] \in ItemFields /\ net[i] \in NetFields
  BY DEF TypeOK
<1>2. net'[i].loader = "none" /\ net'[i].orphans = <<>>
  BY <1>1 DEF Closed, NetFields, Accounted
<1>3. CASE item[i].isLoaded
  BY <1>1, <1>2, <1>3 DEF Halted, StopFields
<1>4. CASE ~item[i].isLoaded
  BY <1>1, <1>2, <1>4 DEF Halted, StopFields, ItemFields
<1> QED BY <1>3, <1>4

(* ... and pausing it. *)
LEMMA PausedIsHalted ==
    ASSUME TypeOK, NEW i \in Items, Accounted(i),
           item'[i].isLoaded = PausedFields(item[i]).isLoaded,
           item'[i].isLoading = PausedFields(item[i]).isLoading,
           item'[i].status \in {PausedFields(item[i]).status, "null"},
           net'[i] = PausedNet(i), i \notin Opened'
    PROVE  Halted(i)
<1>1. CASE item[i].status = "finished"
  <2>1. item[i].isLoaded /\ ~Audible(i) /\ net[i].loader = "none" /\ net[i].orphans = <<>>
    BY <1>1 DEF Accounted, Audible
  <2> QED BY <1>1, <2>1 DEF Halted, PausedFields, PausedNet
<1>2. CASE item[i].status # "finished"
  BY <1>2, StoppedIsHalted DEF PausedFields, PausedNet
<1> QED BY <1>1, <1>2

(* The fields that stop() and pause() leave alone. *)
LEMMA StopIndex ==
    ASSUME NEW r \in ItemFields
    PROVE  /\ StopFields(r).additionIndex = r.additionIndex
           /\ PausedFields(r).additionIndex = r.additionIndex
           /\ StopFields(r).isLoaded = r.isLoaded
           /\ PausedFields(r).isLoaded = r.isLoaded
           /\ StopFields(r).priority = r.priority
           /\ PausedFields(r).priority = r.priority
<1>1. StopFields(r).additionIndex = r.additionIndex /\ StopFields(r).isLoaded = r.isLoaded
      /\ StopFields(r).priority = r.priority
  BY DEF StopFields, ItemFields
<1> QED BY <1>1 DEF PausedFields

(* An item alone is removed from the connections. *)
LEMMA OnlyOneLeaves ==
    ASSUME OneEach, NEW i \in Items, connections' = RemoveEntry(connections, i)
    PROVE  /\ OneEach' /\ i \notin Opened'
           /\ connections' = {c \in connections : c[1] # i}
           /\ \A j \in Items : j # i => (j \in Opened' <=> j \in Opened)
<1>1. connections' = {c \in connections : c[1] # i}
  BY RemoveOne DEF OneEach
<1> QED BY <1>1 DEF OneEach, Opened

(* loadNow() keeps the invariant: the victim is stopped, the item is next. *)
LEMMA LoadNowKeeps ==
    ASSUME TameInv, TypeOK', NEW i \in Items, LoadNow(i) PROVE TameInv'
<1>1. Top(<<"loadNow", i>>) /\ todo # <<>> /\ Leaves(Rest)
  BY TopIsNot, LeavesRest DEF LoadNow, TameInv, ItemFrames
<1>2. Rest = <<>> \o Rest /\ <<>> \in Seq(Plain) /\ Rest \in Seq(Frames)
  BY <1>1 DEF Leaves
<1>3. UNCHANGED <<items, additionIndex, itemsLoaded>>
  BY DEF LoadNow, queueVars
<1>4. i \in Queued /\ ~item[i].isLoading
  BY <1>1 DEF TameInv, TopOK
<1>5. CASE UNCHANGED <<item, net, connections>> /\ todo' = Rest
  <2>1. connections' \subseteq connections /\ Opened' = Opened
    BY <1>5 DEF Opened
  <2> QED BY <1>1, <1>2, <1>3, <1>5, <2>1, IdlePlainStep
<1>6. ASSUME todo' = <<<<"force", i>>>> \o Rest, OneEach',
             item'[i].isLoading = item[i].isLoading,
             \A j \in Items : /\ item'[j].additionIndex = item[j].additionIndex
                              /\ Untouched(j) \/ Halted(j)
      PROVE  TameInv'
  <2>1. <<"force", i>> \in Frames
    BY FrameTypes
  <2>2. /\ TopOnly' /\ \A g : Top(g)' <=> g = <<"force", i>>
        /\ FramesOf(todo') = {<<"force", i>>} \cup FramesOf(Rest)
    BY <1>1, <1>6, <2>1, FrontTop DEF Leaves
  <2>3. \A j \in Items : Carried(j)
    BY <1>1, <2>2 DEF Leaves, Carried, ItemFrames
  <2>4. QueueOK' /\ Queued' = Queued /\ \A j \in Items : Known(j)' <=> Known(j)
    BY <1>3, <1>6, QueueKept DEF TameInv
  <2>5. \A j \in Items : Accounted(j)'
    BY <1>6, <2>3, <2>4, ItemKept DEF TameInv
  <2>6. \A j \in Items : item'[j].isLoaded = item[j].isLoaded
    BY <1>6 DEF Untouched, Halted
  <2>7. CountOK'
    BY <1>3, <2>4, <2>6, CountKept, QueueTypes DEF TameInv
  <2>8. TopOK'
    BY <1>4, <1>6, <2>2, <2>4 DEF TopOK
  <2> QED BY <1>6, <2>2, <2>4, <2>5, <2>7, <2>8 DEF TameInv
<1>7. ASSUME NEW q \in HighestPriority, item' = [item EXCEPT ![i] = SetPriority(@, q)],
             UNCHANGED <<connections, net>>, todo' = <<<<"force", i>>>> \o Rest
      PROVE  TameInv'
  <2>1. item[i] \in ItemFields /\ item \in [Items -> ItemFields]
    BY DEF TameInv, TypeOK
  <2>2. /\ item'[i] = SetPriority(item[i], q)
        /\ \A j \in Items : j # i => item'[j] = item[j]
    BY <1>7, <2>1
  <2>3. /\ item'[i].isLoading = item[i].isLoading
        /\ item'[i].isLoaded = item[i].isLoaded
        /\ item'[i].status = item[i].status
        /\ item'[i].additionIndex = item[i].additionIndex
    BY <2>1, <2>2 DEF SetPriority, ItemFields
  <2>4. Opened' = Opened /\ Queued' = Queued /\ OneEach'
    BY <1>3, <1>7 DEF Opened, Queued, OneEach, TameInv
  <2>5. \A j \in Items : Untouched(j)
    BY <1>7, <2>2, <2>3, <2>4 DEF Untouched, TameInv, Accounted, Audible
  <2> QED BY <1>6, <1>7, <2>2, <2>3, <2>4, <2>5
<1>8. ASSUME NEW q \in HighestPriority, NEW v \in Victims(connections),
             item' = [WithoutVictim(v) EXCEPT ![i] = SetPriority(@, q)],
             connections' = RemoveEntry(RemoveEntry(connections, v), v),
             net' = [net EXCEPT ![v] = PausedNet(v)], todo' = <<<<"force", i>>>> \o Rest
      PROVE  TameInv'
  <2>1. v \in Items /\ v \in Opened
    BY DEF Victims, EntriesOf, Opened
  <2>2. v # i /\ item[v].isLoading
    BY <1>4, <2>1 DEF TameInv, Accounted
  <2>3. /\ item \in [Items -> ItemFields] /\ net \in [Items -> NetFields]
        /\ item[i] \in ItemFields /\ item[v] \in ItemFields
    BY <2>1 DEF TameInv, TypeOK
  <2>4. /\ item'[v] = SetStatus(PausedFields(item[v]), "null")
        /\ item'[i] = SetPriority(item[i], q)
        /\ \A j \in Items : j # i /\ j # v => item'[j] = item[j]
        /\ net'[v] = PausedNet(v) /\ \A j \in Items : j # v => net'[j] = net[j]
    BY <1>8, <2>1, <2>2, <2>3 DEF WithoutVictim
  <2>5. PausedFields(item[v]) \in ItemFields
    BY <2>1, <2>3, FieldTypes
  <2>6. /\ item'[v].isLoading = PausedFields(item[v]).isLoading
        /\ item'[v].isLoaded = PausedFields(item[v]).isLoaded
        /\ item'[v].status = "null"
        /\ item'[v].additionIndex = item[v].additionIndex
    BY <2>3, <2>4, <2>5, StopIndex DEF SetStatus, ItemFields
  <2>7. /\ item'[i].isLoading = item[i].isLoading
        /\ item'[i].isLoaded = item[i].isLoaded
        /\ item'[i].status = item[i].status
        /\ item'[i].additionIndex = item[i].additionIndex
    BY <2>3, <2>4 DEF SetPriority, ItemFields
  <2>8. connections' = {c \in connections : c[1] # v}
    <3>1. RemoveEntry(connections, v) = {c \in connections : c[1] # v}
      BY <2>1, RemoveOne DEF TameInv, OneEach
    <3>2. {c \in connections : c[1] # v} \in SUBSET (Items \X {1})
      BY DEF TameInv, OneEach
    <3>3. RemoveEntry({c \in connections : c[1] # v}, v) = {c \in connections : c[1] # v}
      BY <2>1, <3>2, RemoveOne
    <3> QED BY <1>8, <3>1, <3>3
  <2>9. OneEach' /\ v \notin Opened' /\ \A j \in Items : j # v => (j \in Opened' <=> j \in Opened)
    BY <2>8 DEF TameInv, OneEach, Opened
  <2>10. Queued' = Queued
    BY <1>3 DEF Queued
  <2>11. Halted(v)
    BY <2>1, <2>4, <2>6, <2>9, PausedIsHalted DEF TameInv
  <2>12. \A j \in Items : j # v => Untouched(j)
    BY <2>4, <2>7, <2>9, <2>10 DEF Untouched, TameInv, Accounted, Audible
  <2>13. \A j \in Items : item'[j].additionIndex = item[j].additionIndex
    BY <2>4, <2>6, <2>7
  <2> QED BY <1>6, <1>8, <2>7, <2>9, <2>11, <2>12, <2>13
<1> QED BY <1>5, <1>7, <1>8 DEF LoadNow

-----------------------------------------------------------------------------
(* The queue as a sequence: what removal and sorting do to it. *)

(* A sequence without its k-th element. *)
LEMMA RemoveAtIndex ==
    ASSUME NEW S, NEW q \in Seq(S), NEW k \in 1..Len(q)
    PROVE  /\ RemoveAt(q, k) \in Seq(S)
           /\ Len(RemoveAt(q, k)) = Len(q) - 1
           /\ \A j \in 1..Len(q) - 1 : RemoveAt(q, k)[j] = IF j < k THEN q[j] ELSE q[j + 1]
<1> DEFINE s == SubSeq(q, 1, k - 1)
           t == SubSeq(q, k + 1, Len(q))
<1>1. Len(q) \in Nat /\ k \in Nat /\ k >= 1 /\ k <= Len(q)
  OBVIOUS
<1>2. /\ s \in Seq(S) /\ Len(s) = k - 1
      /\ \A j \in 1..k - 1 : s[j] = q[j]
  BY <1>1, SubSeqProperties
<1>3. /\ t \in Seq(S) /\ Len(t) = Len(q) - k
      /\ \A j \in 1..Len(q) - k : t[j] = q[k + j]
  BY <1>1, SubSeqProperties
<1> HIDE DEF s, t
<1>4. /\ s \o t \in Seq(S) /\ Len(s \o t) = Len(s) + Len(t)
      /\ \A j \in 1..Len(s) + Len(t) :
           (s \o t)[j] = IF j <= Len(s) THEN s[j] ELSE t[j - Len(s)]
  BY <1>2, <1>3, ConcatProperties
<1>5. ASSUME NEW j \in 1..Len(q) - 1
      PROVE  (s \o t)[j] = IF j < k THEN q[j] ELSE q[j + 1]
  <2>1. CASE j < k
    BY <1>1, <1>2, <1>3, <1>4, <2>1
  <2>2. CASE ~(j < k)
    <3>1. j - Len(s) \in 1..Len(q) - k /\ k + (j - Len(s)) = j + 1 /\ ~(j <= Len(s))
      BY <1>1, <1>2, <2>2
    <3>2. (s \o t)[j] = t[j - Len(s)]
      BY <1>1, <1>2, <1>3, <1>4, <3>1
    <3> QED BY <1>3, <2>2, <3>1, <3>2
  <2> QED BY <2>1, <2>2
<1>6. Len(s \o t) = Len(q) - 1
  BY <1>1, <1>2, <1>3, <1>4
<1> QED BY <1>4, <1>5, <1>6 DEF RemoveAt, s, t

(* _removeFromItems takes the item out of a queue without duplicates. *)
LEMMA RemovedFromQueue ==
    ASSUME TypeOK, \A j, k \in 1..Len(items) : j # k => items[j] # items[k],
           NEW i \in Items, items' = RemoveFromQueue(items, i)
    PROVE  /\ \A j, k \in 1..Len(items') : j # k => items'[j] # items'[k]
           /\ Queued' = Queued \ {i}
           /\ \A j, k \in 1..Len(items') : j < k =>
                \E m, n \in 1..Len(items) : m < n /\ items'[j] = items[m] /\ items'[k] = items[n]
<1>1. items \in Seq(Items) /\ Len(items) \in Nat
  BY DEF TypeOK
<1>2. CASE i \in Queued
  <2> DEFINE x == CHOOSE k \in 1..Len(items) : items[k] = i
  <2>1. x \in 1..Len(items) /\ items[x] = i
    BY <1>2 DEF Queued
  <2>2. items' = RemoveAt(items, x)
    BY <1>2 DEF RemoveFromQueue, Queued
  <2> HIDE DEF x
  <2>3. /\ Len(items') = Len(items) - 1
        /\ \A j \in 1..Len(items') : items'[j] = IF j < x THEN items[j] ELSE items[j + 1]
    <3>1. /\ Len(RemoveAt(items, x)) = Len(items) - 1
          /\ \A j \in 1..Len(items) - 1 :
               RemoveAt(items, x)[j] = IF j < x THEN items[j] ELSE items[j + 1]
      BY <1>1, <2>1, RemoveAtIndex
    <3> QED BY <2>2, <3>1
  <2>4. ASSUME NEW j \in 1..Len(items'), NEW k \in 1..Len(items'), j < k
        PROVE  \E m, n \in 1..Len(items) : m < n /\ items'[j] = items[m] /\ items'[k] = items[n]
    <3> DEFINE m == IF j < x THEN j ELSE j + 1
               n == IF k < x THEN k ELSE k + 1
    <3>1. m \in 1..Len(items) /\ n \in 1..Len(items) /\ m < n
      BY <1>1, <2>1, <2>3, <2>4
    <3>2. items'[j] = items[m] /\ items'[k] = items[n]
      BY <2>3
    <3> QED BY <3>1, <3>2
  <2>5. \A j, k \in 1..Len(items') : j # k => items'[j] # items'[k]
    <3>1. ASSUME NEW j \in 1..Len(items'), NEW k \in 1..Len(items'), j < k
          PROVE  items'[j] # items'[k]
      BY <2>4, <3>1
    <3>2. \A j, k \in 1..Len(items') : j # k => j < k \/ k < j
      BY <1>1, <2>3
    <3> QED BY <3>1, <3>2
  <2>6. ASSUME NEW j \in 1..Len(items') PROVE items'[j] \in Queued \ {i}
    <3> DEFINE m == IF j < x THEN j ELSE j + 1
    <3>1. m \in 1..Len(items) /\ m # x /\ items'[j] = items[m]
      BY <1>1, <2>1, <2>3
    <3> QED BY <2>1, <3>1 DEF Queued
  <2>7. ASSUME NEW k \in 1..Len(items), items[k] # i
        PROVE  \E j \in 1..Len(items') : items'[j] = items[k]
    <3> DEFINE j == IF k < x THEN k ELSE k - 1
    <3>1. k # x
      BY <2>1, <2>7
    <3>2. j \in 1..Len(items') /\ items'[j] = items[k]
      BY <1>1, <2>1, <2>3, <3>1
    <3> QED BY <3>2
  <2> QED BY <2>4, <2>5, <2>6, <2>7 DEF Queued
<1>3. CASE i \notin Queued
  <2>1. items' = items
    BY <1>3 DEF RemoveFromQueue, Queued
  <2> QED BY <1>1, <1>3, <2>1 DEF Queued
<1> QED BY <1>2, <1>3

(* _items.sortOn neither loses nor doubles an item. *)
LEMMA SortedQueued ==
    ASSUME NEW S \in SUBSET Items, NEW f, items' \in Sorted(S, f)
    PROVE  /\ Queued' = S
           /\ \A j, k \in 1..Len(items') : j # k => items'[j] # items'[k]
           /\ \A j, k \in 1..Len(items') : j < k => Before(f, items'[j], items'[k])
<1>1. IsFiniteSet(S) /\ Cardinality(S) \in Nat
  BY ItemsAssumption, FS_Subset, FS_CardinalityType
<1>2. /\ items' \in [1..Cardinality(S) -> S]
      /\ \A j, k \in DOMAIN items' : j # k => items'[j] # items'[k]
      /\ \A j, k \in DOMAIN items' : j < k => Before(f, items'[j], items'[k])
  BY DEF Sorted
<1>3. DOMAIN items' = 1..Cardinality(S) /\ Len(items') = Cardinality(S)
  BY <1>1, <1>2
<1>4. items' \in Injection(1..Cardinality(S), S)
  BY <1>2, <1>3 DEF Injection, IsInjective
<1>5. Cardinality(1..Cardinality(S)) = Cardinality(S)
  BY <1>1, FS_Interval
<1>6. items' \in Surjection(1..Cardinality(S), S)
  BY <1>1, <1>4, <1>5, FS_Injection
<1>7. \A i \in S : \E k \in 1..Cardinality(S) : items'[k] = i
  BY <1>6 DEF Surjection
<1>8. Queued' = S
  BY <1>2, <1>3, <1>7 DEF Queued
<1> QED BY <1>2, <1>3, <1>8

-----------------------------------------------------------------------------
(* The frames that report, announce, remove and resume. *)

(* Items of the queue can be counted. *)
LEMMA LoadedFinite ==
    ASSUME TypeOK, NEW S \in SUBSET Queued
    PROVE  IsFiniteSet(S) /\ Cardinality(S) \in Nat
BY QueueTypes, FS_Subset, FS_CardinalityType

(* onCompleteHandler keeps the invariant: the item is counted, and
   _onItemComplete() is left to give its connection back. *)
LEMMA FinishKeeps ==
    ASSUME TameInv, TypeOK', NEW i \in Items, Finish(i) PROVE TameInv'
<1>1. /\ Top(<<"finish", i>>) /\ todo # <<>> /\ Head(todo) = <<"finish", i>>
      /\ ~item[i].isLoaded /\ item[i].isLoading /\ i \in Queued /\ ~Audible(i)
  BY DEF Finish, TameInv, TopOK, Top
<1>2. /\ Rest \in Seq(Frames) /\ Unhurried(Rest)
      /\ FramesOf(todo) = {<<"finish", i>>} \cup FramesOf(Rest)
  BY <1>1, Hurries DEF TameInv
<1>3. /\ item' = [item EXCEPT ![i] = Finished(@)] /\ itemsLoaded' = itemsLoaded + 1
      /\ todo' = <<<<"listeners">>, <<"itemComplete", i>>>> \o Rest
      /\ UNCHANGED <<items, additionIndex, connections, net>>
  BY <1>1 DEF Finish, connVars
<1>4. item[i] \in ItemFields /\ item \in [Items -> ItemFields] /\ Accounted(i)
  BY DEF TameInv, TypeOK
<1>5. /\ item'[i].isLoaded = TRUE /\ item'[i].status = "finished"
      /\ item'[i].isLoading = item[i].isLoading
      /\ item'[i].additionIndex = item[i].additionIndex
      /\ \A j \in Items : j # i => item'[j] = item[j]
  BY <1>3, <1>4 DEF Finished, ItemFields
<1>6. QueueOK' /\ Queued' = Queued /\ \A j \in Items : Known(j)' <=> Known(j)
  BY <1>3, <1>5, QueueKept DEF TameInv
<1>7. FramesOf(todo') = {<<"listeners">>, <<"itemComplete", i>>} \cup FramesOf(Rest)
  <2>1. <<"listeners">> \in Frames /\ <<"itemComplete", i>> \in Frames
    BY FrameTypes
  <2>2. <<<<"listeners">>, <<"itemComplete", i>>>> \in Seq(Frames)
    BY <2>1
  <2>3. FramesOf(<<<<"listeners">>, <<"itemComplete", i>>>>)
          = {<<"listeners">>, <<"itemComplete", i>>}
    BY DEF FramesOf
  <2> QED BY <1>2, <1>3, <2>2, <2>3, FramesOfConcat
<1>8. TopOnly' /\ TopOK'
  <2>1. Unhurried(todo')
    BY <1>2, <1>7 DEF Unhurried, AtOnce
  <2> QED BY <2>1, UnhurriedTop DEF TypeOK
<1>9. /\ \A j \in Items : j # i => Carried(j)
      /\ Owed(i)' /\ <<"itemComplete", i>> \in FramesOf(todo')
  BY <1>2, <1>7 DEF Carried, Owed, ItemFrames
<1>10. Opened' = Opened /\ OneEach'
  BY <1>3 DEF Opened, OneEach, TameInv
<1>11. \A j \in Items : j # i => Accounted(j)'
  BY <1>3, <1>5, <1>6, <1>9, <1>10, AloneIsUntouched, ItemKept DEF TameInv
<1>12. Accounted(i)'
  BY <1>1, <1>3, <1>4, <1>5, <1>6, <1>9, <1>10
     DEF Accounted, Audible, TameInv, QueueOK
<1>13. CountOK'
  <2>1. LoadedItems' = LoadedItems \cup {i} /\ i \notin LoadedItems
    BY <1>1, <1>5, <1>6, QueueTypes DEF LoadedItems, TameInv
  <2>2. IsFiniteSet(LoadedItems)
    BY LoadedFinite DEF LoadedItems, TameInv
  <2> QED BY <1>3, <2>1, <2>2, FS_AddElement DEF CountOK, TameInv
<1> QED BY <1>6, <1>8, <1>10, <1>11, <1>12, <1>13 DEF TameInv

(* _onItemComplete and _onItemError free the connection of an item that has no
   transfer. *)
LEMMA ReportKeeps ==
    ASSUME TameInv, TypeOK', NEW i \in Items, NEW f \in {"itemComplete", "itemError"},
           Top(<<f, i>>), ~Audible(i), UNCHANGED <<items, additionIndex, itemsLoaded, item>>,
           \A j \in Items : net'[j] = net[j],
           connections' = RemoveEntry(connections, i),
           NEW p \in Seq(Plain), todo' = p \o Rest
    PROVE  TameInv'
<1>1. /\ todo # <<>> /\ Rest \in Seq(Frames) /\ Unhurried(Rest)
      /\ FramesOf(todo) = {<<f, i>>} \cup FramesOf(Rest)
  BY Hurries DEF TameInv, Top
<1>2. OneEach' /\ i \notin Opened' /\ \A j \in Items : j # i => (j \in Opened' <=> j \in Opened)
  BY OnlyOneLeaves DEF TameInv
<1>3. /\ todo' \in Seq(Frames) /\ Unhurried(todo')
      /\ \A g \in ItemFrames, j \in Items : <<g, j>> \in FramesOf(todo') <=> <<g, j>> \in FramesOf(Rest)
  BY <1>1, PlainPush
<1>4. TopOnly' /\ TopOK'
  BY <1>3, UnhurriedTop
<1>5. QueueOK' /\ Queued' = Queued /\ \A j \in Items : Known(j)' <=> Known(j)
  BY QueueKept DEF TameInv
<1>6. CountOK'
  BY <1>5, CountKept, QueueTypes DEF TameInv
<1>7. \A j \in Items : j # i => Carried(j)
  BY <1>1, <1>3 DEF Carried
<1>8. \A j \in Items : j # i => Accounted(j)'
  BY <1>2, <1>5, <1>7, AloneIsUntouched, ItemKept DEF TameInv
<1>9. Accounted(i)'
  <2>1. <<"itemComplete", i>> \in FramesOf(todo') => <<"itemComplete", i>> \in FramesOf(todo)
    BY <1>1, <1>3 DEF ItemFrames
  <2> QED BY <1>2, <1>5, <2>1 DEF Accounted, Audible, TameInv
<1> QED BY <1>2, <1>4, <1>5, <1>6, <1>8, <1>9 DEF TameInv

(* _onItemComplete() keeps the invariant. *)
LEMMA ItemCompleteKeeps ==
    ASSUME TameInv, TypeOK', NEW i \in Items, ItemComplete(i) PROVE TameInv'
<1>1. Top(<<"itemComplete", i>>) /\ <<"itemComplete", i>> \in FramesOf(todo)
  BY Hurries DEF ItemComplete, Top, TameInv
<1>2. ~Audible(i) /\ net[i].loader = "none" /\ net[i] \in NetFields
  BY <1>1 DEF TameInv, Accounted, Audible, TypeOK
<1>3. Unheard(net[i]) = net[i]
  BY <1>2 DEF Unheard, NetFields
<1>4. \A j \in Items : net'[j] = net[j]
  BY <1>3 DEF ItemComplete, TameInv, TypeOK
<1>5. AfterComplete \in Seq(Plain)
  BY PlainFrames DEF AfterComplete
<1> QED BY <1>1, <1>2, <1>4, <1>5, ReportKeeps DEF ItemComplete, queueVars

(* _onItemError() keeps the invariant. *)
LEMMA ItemErrorKeeps ==
    ASSUME TameInv, TypeOK', NEW i \in Items, ItemError(i) PROVE TameInv'
<1>1. Top(<<"itemError", i>>) /\ ~Audible(i)
  BY DEF ItemError, TameInv, TopOK
<1>2. AfterError \in Seq(Plain)
  BY PlainFrames DEF AfterError
<1> QED BY <1>1, <1>2, ReportKeeps DEF ItemError, queueVars

(* _onAllLoaded() keeps the invariant: when all items are loaded no transfer
   is left, so it may drop all connections. *)
LEMMA AllLoadedKeeps ==
    ASSUME TameInv, TypeOK', AllLoaded PROVE TameInv'
<1>1. Top(<<"allDone">>) /\ Leaves(Rest) /\ Rest \in Seq(Frames) /\ Rest = <<>> \o Rest
  BY TopIsNot, LeavesRest DEF AllLoaded, TameInv, ItemFrames, Leaves
<1>2. <<>> \in Seq(Plain) /\ <<<<"listeners">>, <<"complete">>>> \in Seq(Plain)
  BY PlainFrames
<1>3. UNCHANGED <<items, additionIndex, itemsLoaded, item, net>>
  BY DEF AllLoaded, queueVars
<1>4. connections' \subseteq connections
  BY DEF AllLoaded
<1>5. \A i \in Items : i \in Opened /\ Audible(i) => i \in Opened'
  <2>1. CASE AllDone
    BY <2>1 DEF AllDone, TameInv, Accounted
  <2>2. CASE ~AllDone
    BY <2>2 DEF AllLoaded, Opened
  <2> QED BY <2>1, <2>2
<1>6. todo' \in {<<>> \o Rest, <<<<"listeners">>, <<"complete">>>> \o Rest}
  BY <1>1 DEF AllLoaded
<1> QED BY <1>1, <1>2, <1>3, <1>4, <1>5, <1>6, IdlePlainStep

(* The frames that change neither items nor connections keep it. *)
LEMMA OtherFramesKeep ==
    ASSUME TameInv, TypeOK', Complete \/ Started \/ ContentTaken \/ Return
    PROVE  TameInv'
<1>1. Leaves(Rest) /\ Rest \in Seq(Frames) /\ Rest = <<>> \o Rest
  BY TopIsNot, LeavesRest
     DEF Complete, Started, ContentTaken, Return, TameInv, ItemFrames, Leaves
<1>2. /\ <<>> \in Seq(Plain) /\ <<<<"listeners">>>> \in Seq(Plain)
      /\ <<<<"loadNext">>>> \in Seq(Plain)
  BY PlainFrames
<1>3. UNCHANGED <<items, additionIndex, itemsLoaded, item, net, connections>>
  BY DEF Complete, Started, ContentTaken, Return, queueVars, connVars
<1>4. connections' \subseteq connections /\ Opened' = Opened
  BY <1>3 DEF Opened
<1>5. todo' \in {<<>> \o Rest, <<<<"listeners">>>> \o Rest, <<<<"loadNext">>>> \o Rest}
  BY <1>1 DEF Complete, Started, ContentTaken, Return
<1> QED BY <1>1, <1>2, <1>3, <1>4, <1>5, IdlePlainStep

(* A stopped item gets its turn back. *)
LEMMA ResumedUntouched ==
    ASSUME TameInv, NEW i \in Items, item[i].status = "stopped",
           item' = [item EXCEPT ![i] = SetStatus(@, "null")],
           UNCHANGED <<items, net, connections>>
    PROVE  \A j \in Items : Untouched(j) /\ item'[j].additionIndex = item[j].additionIndex
<1>1. item \in [Items -> ItemFields] /\ item[i] \in ItemFields
  BY DEF TameInv, TypeOK
<1>2. /\ item'[i].isLoading = item[i].isLoading /\ item'[i].isLoaded = item[i].isLoaded
      /\ item'[i].status = "null" /\ item'[i].additionIndex = item[i].additionIndex
      /\ \A j \in Items : j # i => item'[j] = item[j]
  BY <1>1 DEF SetStatus, ItemFields
<1>3. Opened' = Opened /\ Queued' = Queued
  BY DEF Opened, Queued
<1> QED BY <1>2, <1>3 DEF Untouched, TameInv, Accounted, Audible

(* resumeAll() keeps the invariant, item by item. *)
LEMMA ResumeNextKeeps ==
    ASSUME TameInv, TypeOK', NEW k \in 1..Cardinality(Items) + 1, NEW n \in 0..Cardinality(Items),
           ResumeNext(k, n)
    PROVE  TameInv'
<1>1. Leaves(Rest) /\ Rest \in Seq(Frames) /\ Rest = <<>> \o Rest
  BY TopIsNot, LeavesRest DEF ResumeNext, TameInv, ItemFrames, Leaves
<1>2. Cardinality(Items) \in Nat
  BY ItemsAssumption, FS_CardinalityType
<1>3. <<"resumeAll", k + 1, n>> \in Plain /\ <<"loadNext">> \in Plain
  BY <1>2, PlainFrames
<1>4. /\ <<>> \in Seq(Plain) /\ <<<<"loadNext">>>> \in Seq(Plain)
      /\ <<<<"resumeAll", k + 1, n>>>> \in Seq(Plain)
      /\ <<<<"loadNext">>, <<"resumeAll", k + 1, n>>>> \in Seq(Plain)
  BY <1>3
<1>5. UNCHANGED <<items, additionIndex, itemsLoaded, net, connections>>
  BY DEF ResumeNext, queueVars, connVars
<1>6. connections' \subseteq connections /\ Opened' = Opened
  BY <1>5 DEF Opened
<1>7. CASE UNCHANGED item /\ todo' \in {<<>> \o Rest, <<<<"loadNext">>>> \o Rest,
                                        <<<<"resumeAll", k + 1, n>>>> \o Rest}
  BY <1>1, <1>4, <1>5, <1>6, <1>7, IdlePlainStep
<1>8. CASE /\ k <= Len(items) /\ item[items[k]].status = "stopped"
           /\ item' = [item EXCEPT ![items[k]] = SetStatus(@, "null")]
           /\ todo' = <<<<"loadNext">>, <<"resumeAll", k + 1, n>>>> \o Rest
  <2>1. items[k] \in Items
    BY <1>2, <1>8 DEF TameInv, TypeOK
  <2>2. \A j \in Items : Untouched(j) /\ item'[j].additionIndex = item[j].additionIndex
    BY <1>5, <1>8, <2>1, ResumedUntouched
  <2>3. OneEach'
    BY <1>5 DEF TameInv, OneEach
  <2> QED BY <1>1, <1>4, <1>5, <1>8, <2>2, <2>3, PlainStepInPlace
<1> QED BY <1>1, <1>7, <1>8 DEF ResumeNext

(* remove() keeps the invariant: a loaded item is no longer counted. *)
LEMMA RemoveItemKeeps ==
    ASSUME TameInv, TypeOK', NEW i \in Items, RemoveItem(i) PROVE TameInv'
<1>1. Leaves(Rest)
  BY TopIsNot, LeavesRest DEF RemoveItem, TameInv, ItemFrames
<1>2. AfterRemove \in Seq(Plain)
  BY PlainFrames DEF AfterRemove
<1>3. OneEach' /\ i \notin Opened' /\ \A j \in Items : j # i => (j \in Opened' <=> j \in Opened)
  BY OnlyOneLeaves DEF TameInv, RemoveItem
<1>4. /\ \A j, k \in 1..Len(items') : j # k => items'[j] # items'[k]
      /\ Queued' = Queued \ {i}
  BY RemovedFromQueue DEF RemoveItem, TameInv, QueueOK
<1>5. item \in [Items -> ItemFields] /\ net \in [Items -> NetFields] /\ item[i] \in ItemFields
  BY DEF TameInv, TypeOK
<1>6. /\ item'[i] = StopFields(item[i]) /\ net'[i] = Closed(net[i])
      /\ \A j \in Items : j # i => item'[j] = item[j] /\ net'[j] = net[j]
  BY <1>5 DEF RemoveItem
<1>7. Halted(i)
  BY <1>3, <1>6, StoppedIsHalted DEF TameInv
<1>8. \A j \in Items : j # i => Untouched(j)
  BY <1>3, <1>4, <1>6, AloneIsUntouched DEF TameInv
<1>9. \A j \in Items : /\ item'[j].additionIndex = item[j].additionIndex
                       /\ item'[j].isLoaded = item[j].isLoaded
                       /\ Known(j)' <=> Known(j)
  BY <1>5, <1>6, StopIndex DEF Known
<1>10. QueueOK'
  <2>1. Queued \subseteq Items /\ additionIndex' = additionIndex
    BY QueueTypes DEF TameInv, RemoveItem
  <2> QED BY <1>4, <1>9, <2>1 DEF QueueOK, TameInv
<1>11. CountOK'
  <2>1. LoadedItems' = LoadedItems \ {i}
    BY <1>4, <1>9, QueueTypes DEF LoadedItems, TameInv
  <2>2. IsFiniteSet(LoadedItems)
    BY LoadedFinite DEF LoadedItems, TameInv
  <2>3. /\ i \in LoadedItems <=> i \in Queued /\ item[i].isLoaded
        /\ itemsLoaded' = LoadedWithout(i)
    BY DEF LoadedItems, RemoveItem
  <2> QED BY <2>1, <2>2, <2>3, FS_RemoveElement DEF CountOK, TameInv, LoadedWithout
<1> QED BY <1>1, <1>2, <1>3, <1>7, <1>8, <1>9, <1>10, <1>11, PlainStep DEF RemoveItem

-----------------------------------------------------------------------------
(* The calls of a tame client. *)

(* When the client may call, nothing in the call in progress hurries. *)
LEMMA TurnLeaves ==
    ASSUME TameInv, ClientTurn PROVE Leaves(todo) /\ todo = <<>> \o todo /\ todo \in Seq(Frames)
<1>1. todo = <<>> \/ Head(todo)[1] \notin AtOnce
  BY DEF ClientTurn, Listening, AtOnce
<1> QED BY <1>1, LeavesAll DEF TameInv, TypeOK

(* add() keeps the invariant: the new item has neither transfer nor
   connection. *)
LEMMA AddKeeps ==
    ASSUME TameInv, TypeOK', NEW i \in Items, NEW q \in Priorities, Add(i, q)
    PROVE  TameInv'
<1>1. Leaves(todo) /\ todo = <<>> \o todo
  BY TurnLeaves DEF Add
<1>2. <<>> \in Seq(Plain) /\ <<<<"loadNext">>>> \in Seq(Plain)
  BY PlainFrames
<1>3. item \in [Items -> ItemFields] /\ item[i] \in ItemFields /\ additionIndex \in Nat
  BY DEF TameInv, TypeOK
<1>4. /\ item'[i] = SetIndex(SetPriority(item[i], q), additionIndex + 1)
      /\ \A j \in Items : j # i => item'[j] = item[j]
      /\ additionIndex' = additionIndex + 1 /\ UNCHANGED <<net, connections, itemsLoaded>>
  BY <1>3 DEF Add, connVars
<1>5. /\ item'[i].isLoading = item[i].isLoading /\ item'[i].isLoaded = item[i].isLoaded
      /\ item'[i].status = item[i].status /\ item'[i].additionIndex = additionIndex + 1
  BY <1>3, <1>4 DEF SetIndex, SetPriority, ItemFields
<1>6. Queued \subseteq Items /\ Queued \cup {i} \in SUBSET Items
  BY QueueTypes DEF TameInv
<1>7. /\ Queued' = Queued \cup {i}
      /\ \A j, k \in 1..Len(items') : j # k => items'[j] # items'[k]
  BY <1>6, SortedQueued DEF Add
<1>8. /\ \A j \in Items : Known(j) => Known(j)'
      /\ \A j \in Items : j # i => item'[j].additionIndex = item[j].additionIndex
      /\ Known(i)' /\ ~Known(i) /\ i \notin Queued
  BY <1>3, <1>4, <1>5 DEF Known, Add, TameInv, QueueOK
<1>9. QueueOK'
  <2>1. \A j \in Items : item'[j].additionIndex <= additionIndex'
    <3>1. \A j \in Items : item[j].additionIndex \in Nat /\ item[j].additionIndex <= additionIndex
      BY DEF TameInv, QueueOK, TypeOK, ItemFields
    <3> QED BY <1>3, <1>4, <1>5, <1>8, <3>1
  <2>2. \A j \in Queued' : Known(j)'
    BY <1>6, <1>7, <1>8 DEF TameInv, QueueOK
  <2> QED BY <1>7, <2>1, <2>2 DEF QueueOK
<1>10. CountOK'
  <2>1. ~item[i].isLoaded
    BY <1>8 DEF TameInv, Accounted
  <2>2. LoadedItems' = LoadedItems
    BY <1>4, <1>5, <1>6, <1>7, <2>1 DEF LoadedItems
  <2> QED BY <1>4, <2>2 DEF CountOK, TameInv
<1>11. Opened' = Opened /\ OneEach'
  BY <1>4 DEF Opened, OneEach, TameInv
<1>12. \A j \in Items : Untouched(j)
  BY <1>4, <1>5, <1>7, <1>11 DEF Untouched, TameInv, Accounted, Audible
<1>13. todo' \in {<<>> \o todo, <<<<"loadNext">>>> \o todo}
  BY DEF Add
<1> QED BY <1>1, <1>2, <1>8, <1>9, <1>10, <1>11, <1>12, <1>13, PlainStep

(* A call that pushes plain frames and changes neither items nor connections. *)
LEMMA BareCall ==
    ASSUME TameInv, TypeOK', ClientTurn, NEW p \in Seq(Plain), todo' = p \o todo,
           UNCHANGED <<queueVars, item, connections, net>>
    PROVE  TameInv'
<1>1. Leaves(todo)
  BY TurnLeaves
<1>2. connections' \subseteq connections /\ Opened' = Opened
  BY DEF Opened
<1> QED BY <1>1, <1>2, IdlePlainStep DEF queueVars

(* The calls that only push frames keep the invariant. *)
LEMMA BareCallsKeep ==
    ASSUME TameInv, TypeOK',
           \/ \E n \in Limits : Start(n)
           \/ ResumeAll
           \/ \E i \in Items : CallRemove(i) \/ TakeContent(i)
    PROVE  TameInv'
<1>1. CASE \E n \in Limits : Start(n)
  <2>1. StartFrames \in Seq(Plain)
    BY PlainFrames DEF StartFrames
  <2> QED BY <1>1, <2>1, BareCall DEF Start, Call
<1>2. CASE ResumeAll
  <2>1. Len(items) \in Nat
    BY DEF TameInv, TypeOK
  <2>2. <<<<"resumeAll", 1, Len(items)>>>> \in Seq(Plain)
    BY <2>1, PlainFrames
  <2> QED BY <1>2, <2>2, BareCall DEF ResumeAll, Call, connVars
<1>3. ASSUME NEW i \in Items, CallRemove(i) PROVE TameInv'
  <2>1. <<<<"remove", i>>>> \in Seq(Plain)
    BY PlainFrames
  <2> QED BY <1>3, <2>1, BareCall DEF CallRemove, Call, connVars
<1>4. ASSUME NEW i \in Items, TakeContent(i) PROVE TameInv'
  <2>1. <<<<"remove", i>>, <<"contentTaken">>>> \in Seq(Plain)
    BY PlainFrames
  <2> QED BY <1>4, <2>1, BareCall DEF TakeContent, Call, connVars
<1> QED BY <1>1, <1>2, <1>3, <1>4

(* What removePausedItems() and removeFailedItems() push. *)
LEMMA RemovalFrames ==
    ASSUME TypeOK, RemovePausedItems \/ RemoveFailedItems
    PROVE  \E r \in Seq({"remove"} \X Items) : todo' = (r \o <<<<"loadNext">>>>) \o todo
<1>1. PICK st \in Statuses : \E q \in InQueueOrder({i \in Queued : item[i].status = st}) :
         todo' = [k \in DOMAIN q |-> <<"remove", q[k]>>] \o <<<<"loadNext">>>> \o todo
  BY DEF RemovePausedItems, RemoveFailedItems, RemoveAllWith, Statuses
<1>2. PICK q \in InQueueOrder({i \in Queued : item[i].status = st}) :
         todo' = [k \in DOMAIN q |-> <<"remove", q[k]>>] \o <<<<"loadNext">>>> \o todo
  BY <1>1
<1>3. q \in Seq(Items)
  <2>1. {i \in Queued : item[i].status = st} \in SUBSET Items
    BY QueueTypes
  <2> QED BY <2>1, QueueTypes
<1> DEFINE r == [k \in DOMAIN q |-> <<"remove", q[k]>>]
<1>4. r \in Seq({"remove"} \X Items)
  <2>1. DOMAIN q = 1..Len(q) /\ Len(q) \in Nat /\ \A k \in 1..Len(q) : q[k] \in Items
    BY <1>3
  <2>2. \A k \in 1..Len(q) : <<"remove", q[k]>> \in {"remove"} \X Items
    BY <2>1
  <2>3. r \in [1..Len(q) -> {"remove"} \X Items]
    BY <2>1, <2>2
  <2> QED BY <2>1, <2>3
<1>5. todo' = (r \o <<<<"loadNext">>>>) \o todo
  BY <1>2
<1> QED BY <1>4, <1>5

(* removePausedItems() and removeFailedItems() keep the invariant. *)
LEMMA RemoveAllWithKeeps ==
    ASSUME TameInv, TypeOK', RemovePausedItems \/ RemoveFailedItems
    PROVE  TameInv'
<1>1. ClientTurn /\ UNCHANGED <<queueVars, item, connections, net>>
  BY DEF RemovePausedItems, RemoveFailedItems, RemoveAllWith, Call, connVars
<1>2. PICK r \in Seq({"remove"} \X Items) : todo' = (r \o <<<<"loadNext">>>>) \o todo
  BY RemovalFrames DEF TameInv
<1>3. {"remove"} \X Items \subseteq Plain /\ <<"loadNext">> \in Plain
  BY PlainFrames
<1>4. r \in Seq(Plain) /\ <<<<"loadNext">>>> \in Seq(Plain)
  BY <1>3
<1>5. r \o <<<<"loadNext">>>> \in Seq(Plain)
  BY <1>4, ConcatProperties
<1> QED BY <1>1, <1>2, <1>5, BareCall

(* changeItemPriority() keeps the invariant: it only sorts the queue. *)
LEMMA ChangePriorityKeeps ==
    ASSUME TameInv, TypeOK', NEW i \in Items, NEW q \in Priorities, ChangePriority(i, q)
    PROVE  TameInv'
<1>1. Leaves(todo) /\ todo' = <<>> \o todo /\ <<>> \in Seq(Plain)
  BY TurnLeaves DEF ChangePriority, Call
<1>2. item \in [Items -> ItemFields] /\ item[i] \in ItemFields
  BY DEF TameInv, TypeOK
<1>3. /\ item'[i] = SetPriority(item[i], q)
      /\ \A j \in Items : j # i => item'[j] = item[j]
      /\ UNCHANGED <<net, connections, itemsLoaded, additionIndex>>
  BY <1>2 DEF ChangePriority, connVars
<1>4. /\ item'[i].isLoading = item[i].isLoading /\ item'[i].isLoaded = item[i].isLoaded
      /\ item'[i].status = item[i].status /\ item'[i].additionIndex = item[i].additionIndex
  BY <1>2, <1>3 DEF SetPriority, ItemFields
<1>5. Queued \in SUBSET Items
  BY QueueTypes DEF TameInv
<1>6. /\ Queued' = Queued
      /\ \A j, k \in 1..Len(items') : j # k => items'[j] # items'[k]
  BY <1>5, SortedQueued DEF ChangePriority
<1>7. \A j \in Items : /\ item'[j].additionIndex = item[j].additionIndex
                       /\ (Known(j)' <=> Known(j))
                       /\ item'[j].isLoaded = item[j].isLoaded
  BY <1>3, <1>4 DEF Known
<1>8. QueueOK'
  BY <1>3, <1>5, <1>6, <1>7 DEF QueueOK, TameInv
<1>9. CountOK'
  BY <1>3, <1>5, <1>6, <1>7, CountKept DEF TameInv
<1>10. Opened' = Opened /\ OneEach'
  BY <1>3 DEF Opened, OneEach, TameInv
<1>11. \A j \in Items : Untouched(j)
  BY <1>3, <1>4, <1>6, <1>10 DEF Untouched, TameInv, Accounted, Audible
<1> QED BY <1>1, <1>7, <1>8, <1>9, <1>10, <1>11, PlainStep

(* pause() keeps the invariant: the item is stopped and gives its connection
   back. *)
LEMMA PauseKeeps ==
    ASSUME TameInv, TypeOK', NEW i \in Items, NEW b \in BOOLEAN, Pause(i, b)
    PROVE  TameInv'
<1>1. Leaves(todo)
  BY TurnLeaves DEF Pause, Call
<1>2. <<>> \in Seq(Plain) /\ <<<<"loadNext">>>> \in Seq(Plain)
  BY PlainFrames
<1>3. item \in [Items -> ItemFields] /\ item[i] \in ItemFields /\ net \in [Items -> NetFields]
  BY DEF TameInv, TypeOK
<1>4. /\ item'[i] = PausedFields(item[i]) /\ net'[i] = PausedNet(i)
      /\ \A j \in Items : j # i => item'[j] = item[j] /\ net'[j] = net[j]
  BY <1>3 DEF Pause
<1>5. UNCHANGED <<items, additionIndex, itemsLoaded>> /\ Queued' = Queued
  BY DEF Pause, queueVars, Queued
<1>6. OneEach' /\ i \notin Opened' /\ \A j \in Items : j # i => (j \in Opened' <=> j \in Opened)
  BY OnlyOneLeaves DEF TameInv, Pause
<1>7. Halted(i)
  BY <1>4, <1>6, PausedIsHalted DEF TameInv
<1>8. \A j \in Items : j # i => Untouched(j)
  BY <1>4, <1>5, <1>6, AloneIsUntouched DEF TameInv
<1>9. \A j \in Items : item'[j].additionIndex = item[j].additionIndex
  BY <1>3, <1>4, StopIndex
<1>10. todo' \in {<<>> \o todo, <<<<"loadNext">>>> \o todo}
  BY DEF Pause
<1> QED BY <1>1, <1>2, <1>5, <1>6, <1>7, <1>8, <1>9, <1>10, PlainStepInPlace

(* pauseAll() keeps the invariant. *)
LEMMA PauseAllKeeps ==
    ASSUME TameInv, TypeOK', PauseAll PROVE TameInv'
<1>1. Leaves(todo) /\ todo' = <<>> \o todo /\ <<>> \in Seq(Plain)
  BY TurnLeaves DEF PauseAll, Call
<1>2. \A j \in Items : item[j] \in ItemFields
  BY DEF TameInv, TypeOK
<1>3. \A j \in Items : IF j \in Queued
                       THEN item'[j] = PausedFields(item[j]) /\ net'[j] = PausedNet(j)
                       ELSE item'[j] = item[j] /\ net'[j] = net[j]
  BY DEF PauseAll
<1>4. UNCHANGED <<items, additionIndex, itemsLoaded>> /\ Queued' = Queued
  BY DEF PauseAll, queueVars, Queued
<1>5. connections' = {c \in connections : c[1] \notin Queued}
  BY DropQueued DEF PauseAll, TameInv, OneEach
<1>6. OneEach' /\ \A j \in Items : j \in Opened' <=> j \in Opened /\ j \notin Queued
  BY <1>5 DEF OneEach, Opened, TameInv
<1>7. \A j \in Items : j \in Queued => Halted(j)
  BY <1>3, <1>6, PausedIsHalted DEF TameInv
<1>8. \A j \in Items : j \notin Queued => Untouched(j)
  BY <1>3, <1>4, <1>6, AloneIsUntouched DEF TameInv
<1>9. \A j \in Items : item'[j].additionIndex = item[j].additionIndex
  BY <1>2, <1>3, StopIndex
<1> QED BY <1>1, <1>4, <1>6, <1>7, <1>8, <1>9, PlainStepInPlace

(* resume() keeps the invariant. *)
LEMMA ResumeKeeps ==
    ASSUME TameInv, TypeOK', NEW i \in Items, Resume(i) PROVE TameInv'
<1>1. Leaves(todo) /\ todo = <<>> \o todo /\ ClientTurn
  BY TurnLeaves DEF Resume, Call
<1>2. <<>> \in Seq(Plain) /\ <<<<"loadNext">>>> \in Seq(Plain)
  BY PlainFrames
<1>3. UNCHANGED <<queueVars, items, additionIndex, itemsLoaded, net, connections>>
  BY DEF Resume, queueVars, connVars
<1>4. CASE item[i].status = "stopped"
  <2>1. \A j \in Items : Untouched(j) /\ item'[j].additionIndex = item[j].additionIndex
    BY <1>3, <1>4, ResumedUntouched DEF Resume
  <2>2. OneEach'
    BY <1>3 DEF TameInv, OneEach
  <2> QED BY <1>1, <1>2, <1>3, <1>4, <2>1, <2>2, PlainStepInPlace DEF Resume
<1>5. CASE item[i].status # "stopped"
  BY <1>1, <1>2, <1>3, <1>5, BareCall DEF Resume
<1> QED BY <1>4, <1>5

(* removeAll() and clear() keep the invariant. *)
LEMMA EmptiedKeeps ==
    ASSUME TameInv, TypeOK', RemoveAll \/ Clear PROVE TameInv'
<1>1. Leaves(todo) /\ todo' = <<>> \o todo /\ <<>> \in Seq(Plain) /\ Emptied
      /\ additionIndex' = additionIndex
  BY TurnLeaves DEF RemoveAll, Clear, Call
<1>2. \A j \in Items : item[j] \in ItemFields
  BY DEF TameInv, TypeOK
<1>3. \A j \in Items : IF j \in Queued
                       THEN item'[j] = StopFields(item[j]) /\ net'[j] = Closed(net[j])
                       ELSE item'[j] = item[j] /\ net'[j] = net[j]
  BY <1>1 DEF Emptied
<1>4. Queued' = {} /\ Len(items') = 0 /\ Opened' = {} /\ OneEach'
  BY <1>1 DEF Emptied, Queued, Opened, OneEach
<1>5. \A j \in Items : j \in Queued => Halted(j)
  BY <1>3, <1>4, StoppedIsHalted DEF TameInv
<1>6. \A j \in Items : j \notin Queued => Untouched(j)
  BY <1>3, <1>4, AloneIsUntouched DEF TameInv, Accounted
<1>7. \A j \in Items : item'[j].additionIndex = item[j].additionIndex /\ (Known(j)' <=> Known(j))
  BY <1>2, <1>3, StopIndex DEF Known
<1>8. QueueOK'
  BY <1>1, <1>4, <1>7 DEF QueueOK, TameInv
<1>9. CountOK'
  <2>1. itemsLoaded' = itemsLoaded - Cardinality(LoadedItems)
    BY <1>1 DEF Emptied, LoadedItems
  <2>2. Cardinality(LoadedItems) \in Nat
    BY LoadedFinite DEF LoadedItems, TameInv
  <2>3. LoadedItems' = {}
    BY <1>4 DEF LoadedItems
  <2> QED BY <2>1, <2>2, <2>3, FS_EmptySet DEF CountOK, TameInv
<1> QED BY <1>1, <1>4, <1>5, <1>6, <1>7, <1>8, <1>9, PlainStep

-----------------------------------------------------------------------------
(* loadNow(), reload() and the events of the transfers. *)

(* A step that puts a loadNow() for item i in front of what is left. *)
LEMMA FrontLoadNow ==
    ASSUME TameInv, TypeOK', ClientTurn, NEW i \in Items, todo' = <<<<"loadNow", i>>>> \o todo,
           QueueOK', OneEach', CountOK', i \in Queued', ~item'[i].isLoading,
           \A j \in Items : (Known(j) => Known(j)') /\ (Untouched(j) \/ Halted(j))
    PROVE  TameInv'
<1>1. Leaves(todo)
  BY TurnLeaves
<1>2. <<"loadNow", i>> \in Frames
  BY FrameTypes
<1>3. /\ TopOnly' /\ \A g : Top(g)' <=> g = <<"loadNow", i>>
      /\ FramesOf(todo') = {<<"loadNow", i>>} \cup FramesOf(todo)
  BY <1>1, <1>2, FrontTop DEF Leaves
<1>4. \A j \in Items : Carried(j)
  BY <1>3 DEF Carried, ItemFrames
<1>5. \A j \in Items : Accounted(j)'
  BY <1>4, ItemKept DEF TameInv
<1>6. TopOK'
  BY <1>3 DEF TopOK
<1> QED BY <1>3, <1>5, <1>6 DEF TameInv

(* A call of loadNow() for an item of the queue that is not loading. *)
LEMMA CallLoadNowKeeps ==
    ASSUME Tame, TameInv, TypeOK', NEW i \in Items, CallLoadNow(i) PROVE TameInv'
<1>1. i \in Queued /\ ~item[i].isLoading /\ ClientTurn
  BY DEF CallLoadNow, Call, Tame, Keys
<1>2. UNCHANGED <<items, additionIndex, itemsLoaded, item, net, connections>>
  BY DEF CallLoadNow, queueVars, connVars
<1>3. QueueOK' /\ Queued' = Queued /\ \A j \in Items : Known(j)' <=> Known(j)
  BY <1>2, QueueKept DEF TameInv
<1>4. CountOK'
  BY <1>2, <1>3, CountKept, QueueTypes DEF TameInv
<1>5. Opened' = Opened /\ OneEach'
  BY <1>2 DEF Opened, OneEach, TameInv
<1>6. \A j \in Items : Untouched(j)
  BY <1>2, <1>3, <1>5, AloneIsUntouched DEF TameInv
<1> QED BY <1>1, <1>2, <1>3, <1>4, <1>5, <1>6, FrontLoadNow DEF CallLoadNow

(* A call of reload() for an item that is not loaded. *)
LEMMA ReloadKeeps ==
    ASSUME Tame, TameInv, TypeOK', NEW i \in Items, Reload(i) PROVE TameInv'
<1>1. i \in Queued /\ ~item[i].isLoaded /\ ClientTurn
  BY DEF Reload, Call, Tame, Keys
<1>2. /\ item \in [Items -> ItemFields] /\ net \in [Items -> NetFields]
      /\ item[i] \in ItemFields /\ additionIndex \in Nat /\ Queued \in SUBSET Items
  BY QueueTypes DEF TameInv, TypeOK
<1>3. /\ item'[i] = SetIndex(SetStatus(StopFields(item[i]), "null"), additionIndex)
      /\ net'[i] = Closed(net[i])
      /\ \A j \in Items : j # i => item'[j] = item[j] /\ net'[j] = net[j]
      /\ itemsLoaded' = itemsLoaded /\ additionIndex' = additionIndex + 1
  BY <1>1, <1>2 DEF Reload, LoadedWithout
<1>4. StopFields(item[i]) \in ItemFields /\ ~StopFields(item[i]).isLoading
      /\ StopFields(item[i]).isLoaded = item[i].isLoaded
  BY <1>1, <1>2, FieldTypes, StopIndex DEF StopFields, ItemFields
<1>5. /\ ~item'[i].isLoading /\ item'[i].status = "null" /\ ~item'[i].isLoaded
      /\ item'[i].isLoading = StopFields(item[i]).isLoading
      /\ item'[i].isLoaded = StopFields(item[i]).isLoaded
      /\ item'[i].additionIndex = additionIndex
  BY <1>1, <1>2, <1>3, <1>4 DEF SetIndex, SetStatus, ItemFields
<1>6. /\ Queued' = Queued
      /\ \A j, k \in 1..Len(items') : j # k => items'[j] # items'[k]
  <2>1. Queued \cup {i} = Queued
    BY <1>1
  <2> QED BY <1>2, <2>1, SortedQueued DEF Reload
<1>7. /\ \A j \in Items : Known(j) => Known(j)'
      /\ \A j \in Items : item'[j].additionIndex <= additionIndex'
  <2>1. \A j \in Items : item[j].additionIndex \in Nat /\ item[j].additionIndex <= additionIndex
    BY DEF TameInv, QueueOK, TypeOK, ItemFields
  <2>2. additionIndex # 0
    BY <1>1, <1>2, <2>1 DEF TameInv, QueueOK, Known
  <2> QED BY <1>2, <1>3, <1>5, <2>1, <2>2 DEF Known
<1>8. QueueOK'
  BY <1>2, <1>6, <1>7 DEF QueueOK, TameInv
<1>9. CountOK'
  <2>1. \A j \in Items : item'[j].isLoaded = item[j].isLoaded
    BY <1>3, <1>4, <1>5
  <2> QED BY <1>2, <1>3, <1>6, <2>1, CountKept DEF TameInv
<1>10. OneEach' /\ i \notin Opened' /\ \A j \in Items : j # i => (j \in Opened' <=> j \in Opened)
  BY OnlyOneLeaves DEF TameInv, Reload
<1>11. Halted(i)
  BY <1>3, <1>5, <1>10, StoppedIsHalted DEF TameInv
<1>12. \A j \in Items : j # i => Untouched(j)
  BY <1>3, <1>6, <1>10, AloneIsUntouched DEF TameInv
<1> QED BY <1>1, <1>5, <1>6, <1>7, <1>8, <1>9, <1>10, <1>11, <1>12, FrontLoadNow DEF Reload

-----------------------------------------------------------------------------
(* The transfers of a tame loader are the ones the items refer to. *)
LEMMA OnlySlotZero ==
    ASSUME TameInv, NEW i \in Items, NEW k \in Slots(i)
    PROVE  /\ k = 0 /\ Transfer(i, k) = net[i].loader /\ Transfer(i, k) # "deaf"
           /\ Ended(i, k) = Closed(net[i])
           /\ AtOpen(i, k) = [net[i] EXCEPT !.loader = "open"]
<1>1. net[i].orphans = <<>> /\ net[i].loader \in Heard \cup {"none"}
  BY DEF TameInv, Accounted
<1>2. k = 0
  BY <1>1 DEF Slots
<1> QED BY <1>1, <1>2 DEF Transfer, Ended, AtOpen, Heard

(* An event of the transfer of item i, in a loader at rest, that leaves the frame
   for the item, or none. *)
LEMMA EventKeeps ==
    ASSUME TameInv, TypeOK', todo = <<>>, NEW i \in Items, Audible(i),
           UNCHANGED <<queueVars, connections>>,
           \A j \in Items : j # i => item'[j] = item[j] /\ net'[j] = net[j],
           item'[i].isLoaded = item[i].isLoaded, item'[i].isLoading,
           item'[i].additionIndex = item[i].additionIndex,
           item'[i].status # "finished", net'[i].orphans = <<>>,
           \/ /\ todo' = <<>> /\ net'[i].loader \in Heard /\ item'[i].status # "error"
           \/ /\ todo' = <<<<"finish", i>>>> \/ todo' = <<<<"itemError", i>>>>
              /\ net'[i].loader = "none"
    PROVE  TameInv'
<1>1. UNCHANGED <<items, additionIndex, itemsLoaded>> /\ Opened' = Opened /\ OneEach'
  BY DEF queueVars, Opened, OneEach, TameInv
<1>2. \A j \in Items : item'[j].additionIndex = item[j].additionIndex
  OBVIOUS
<1>3. QueueOK' /\ Queued' = Queued /\ \A j \in Items : Known(j)' <=> Known(j)
  BY <1>1, <1>2, QueueKept DEF TameInv
<1>4. CountOK'
  <2>1. \A j \in Items : item'[j].isLoaded = item[j].isLoaded
    OBVIOUS
  <2> QED BY <1>1, <1>3, <2>1, CountKept, QueueTypes DEF TameInv
<1>5. i \in Opened /\ i \in Queued /\ ~item[i].isLoaded
  BY DEF TameInv, Accounted
<1>6. \A j \in Items : j # i => Untouched(j)
  BY <1>1, <1>3, AloneIsUntouched DEF TameInv
<1>7. FramesOf(todo) = {}
  BY DEF FramesOf
<1>8. CASE todo' = <<>>
  <2>1. FramesOf(todo') = {}
    BY <1>8 DEF FramesOf
  <2>2. \A j \in Items : j # i => Accounted(j)'
    BY <1>3, <1>6, <1>7, <2>1, ItemKept DEF TameInv, Carried
  <2>3. Accounted(i)'
    BY <1>1, <1>3, <1>5, <1>8, <2>1 DEF Accounted, Audible, Heard
  <2>4. TopOnly' /\ TopOK'
    BY <1>8 DEF TopOnly, TopOK, Top
  <2> QED BY <1>1, <1>3, <1>4, <2>2, <2>3, <2>4 DEF TameInv
<1>9. ASSUME NEW f \in {"finish", "itemError"}, todo' = <<<<f, i>>>>, net'[i].loader = "none"
      PROVE  TameInv'
  <2>1. /\ <<f, i>> \in Frames /\ <<>> \in Seq(Frames) /\ Unhurried(<<>>)
        /\ todo' = <<<<f, i>>>> \o <<>> /\ FramesOf(<<>>) = {}
    <3>1. FramesOf(<<>>) = {}
      BY DEF FramesOf
    <3>2. <<f, i>> \in Frames
      BY FrameTypes
    <3>3. <<<<f, i>>>> = <<<<f, i>>>> \o <<>>
      OBVIOUS
    <3> QED BY <1>9, <3>1, <3>2, <3>3 DEF Unhurried
  <2>2. /\ TopOnly' /\ \A g : Top(g)' <=> g = <<f, i>>
        /\ FramesOf(todo') = {<<f, i>>}
    BY <2>1, FrontTop
  <2>3. /\ \A j \in Items : j # i => Carried(j)
        /\ Owed(i)' /\ <<"itemComplete", i>> \notin FramesOf(todo')
    BY <1>7, <2>2 DEF Carried, Owed, ItemFrames
  <2>4. \A j \in Items : j # i => Accounted(j)'
    BY <1>3, <1>6, <2>3, ItemKept DEF TameInv
  <2>5. ~Audible(i)' /\ Accounted(i)'
    BY <1>1, <1>3, <1>5, <1>9, <2>3 DEF Accounted, Audible, Heard
  <2>6. TopOK'
    BY <1>1, <1>3, <1>5, <2>2, <2>5 DEF TopOK
  <2> QED BY <1>1, <1>3, <1>4, <2>2, <2>4, <2>5, <2>6 DEF TameInv
<1> QED BY <1>8, <1>9

(* Every event of a transfer keeps the invariant. *)
LEMMA NetEventKeeps ==
    ASSUME Tame, TameInv, TypeOK', NEW i \in Items, NetEvent(i) PROVE TameInv'
<1>1. PICK k \in Slots(i) : \/ NetOpen(i, k) \/ NetComplete(i, k) \/ NetError(i, k)
                            \/ NetSecurityError(i, k) \/ NetUnheard(i, k)
  BY DEF NetEvent
<1>2. /\ Transfer(i, k) = net[i].loader /\ Transfer(i, k) # "deaf"
      /\ Ended(i, k) = Closed(net[i]) /\ AtOpen(i, k) = [net[i] EXCEPT !.loader = "open"]
  BY OnlySlotZero
<1>3. todo = <<>> /\ UNCHANGED <<queueVars, connections>>
  BY DEF NetEvent, connVars
<1>4. Audible(i)
  BY <1>1, <1>2 DEF NetOpen, NetComplete, NetError, NetSecurityError, NetUnheard, Audible, Heard
<1>5. /\ item \in [Items -> ItemFields] /\ net \in [Items -> NetFields]
      /\ item[i] \in ItemFields /\ net[i] \in NetFields /\ net[i].orphans = <<>>
      /\ i \in Queued /\ item[i].isLoading /\ ~item[i].isLoaded
      /\ item[i].status # "finished"
  BY <1>4 DEF TameInv, TypeOK, Accounted
<1>6. Closed(net[i]).loader = "none" /\ Closed(net[i]).orphans = <<>>
  BY <1>5 DEF Closed, NetFields
<1>7. i \notin Malformed /\ ErrorFrames(i) = <<<<"itemError", i>>>>
  BY <1>5 DEF Tame, ErrorFrames
<1>8. CASE NetOpen(i, k)
  <2>1. /\ item'[i] = SetStatus(item[i], "started") /\ net'[i] = AtOpen(i, k)
        /\ \A j \in Items : j # i => item'[j] = item[j] /\ net'[j] = net[j]
    BY <1>5, <1>8 DEF NetOpen
  <2>2. /\ item'[i].isLoaded = item[i].isLoaded /\ item'[i].isLoading
        /\ item'[i].additionIndex = item[i].additionIndex /\ item'[i].status = "started"
        /\ net'[i].loader = "open" /\ net'[i].orphans = <<>>
    BY <1>2, <1>5, <2>1 DEF SetStatus, ItemFields, NetFields
  <2>3. todo' = <<>>
    BY <1>3, <1>8 DEF NetOpen
  <2> QED BY <1>3, <1>4, <2>1, <2>2, <2>3, EventKeeps DEF Heard
<1>9. CASE NetComplete(i, k)
  <2>1. /\ item' = item /\ net'[i] = Closed(net[i]) /\ todo' = <<<<"finish", i>>>>
        /\ \A j \in Items : j # i => net'[j] = net[j]
    BY <1>2, <1>5, <1>7, <1>9 DEF NetComplete
  <2> QED BY <1>3, <1>4, <1>5, <1>6, <2>1, EventKeeps
<1>10. CASE NetError(i, k) /\ item[i].numTries + 1 < MaxTries
  <2>1. /\ item' = [item EXCEPT ![i] = LoadFields(i, SetStatus(Tried(@), "null"))]
        /\ net' = [net EXCEPT ![i] = NewTransport(i, Ended(i, k))]
        /\ todo' = LoadFrames(i)
    BY <1>5, <1>10, BoundsAssumption DEF NetError, ItemFields
  <2>2. /\ item'[i] = LoadFields(i, SetStatus(Tried(item[i]), "null"))
        /\ net'[i] = NewTransport(i, Closed(net[i]))
        /\ \A j \in Items : j # i => item'[j] = item[j] /\ net'[j] = net[j]
    BY <1>2, <1>5, <2>1
  <2>t. LET r == Tried(item[i])
        IN  /\ r \in ItemFields
            /\ r.isLoaded = item[i].isLoaded /\ r.additionIndex = item[i].additionIndex
    BY <1>5, FieldTypes DEF Tried, ItemFields
  <2>3. LET r == SetStatus(Tried(item[i]), "null")
        IN  /\ r \in ItemFields /\ r.status = "null"
            /\ r.isLoaded = item[i].isLoaded /\ r.additionIndex = item[i].additionIndex
    BY <2>t, FieldTypes DEF SetStatus, ItemFields, Statuses
  <2>4. /\ item'[i].isLoaded = item[i].isLoaded /\ item'[i].isLoading
        /\ item'[i].additionIndex = item[i].additionIndex
        /\ item'[i].status = IF i \in Denied THEN "error" ELSE "null"
    BY <1>5, <2>2, <2>3 DEF LoadFields, ItemFields
  <2>5. net'[i].orphans = <<>> /\ net'[i].loader = IF i \in Denied THEN "none" ELSE "pending"
    BY <1>6, <2>2 DEF NewTransport
  <2>6. todo' = IF i \in Denied THEN <<<<"itemError", i>>>> ELSE <<>>
    BY <1>7, <2>1 DEF LoadFrames
  <2> QED BY <1>3, <1>4, <2>2, <2>4, <2>5, <2>6, EventKeeps DEF Heard
<1>11. CASE \/ NetError(i, k) /\ ~(item[i].numTries + 1 < MaxTries)
            \/ NetSecurityError(i, k)
  <2>1. /\ \/ item' = [item EXCEPT ![i] = SetStatus(Tried(@), "error")]
           \/ item' = [item EXCEPT ![i] = SetStatus(@, "error")]
        /\ net' = [net EXCEPT ![i] = Closed(net[i])]
        /\ todo' = <<<<"itemError", i>>>>
    BY <1>2, <1>7, <1>11 DEF NetError, NetSecurityError
  <2>2. /\ item'[i] \in {SetStatus(Tried(item[i]), "error"), SetStatus(item[i], "error")}
        /\ net'[i] = Closed(net[i])
        /\ \A j \in Items : j # i => item'[j] = item[j] /\ net'[j] = net[j]
    BY <1>5, <2>1
  <2>3. /\ item'[i].isLoaded = item[i].isLoaded /\ item'[i].isLoading
        /\ item'[i].additionIndex = item[i].additionIndex /\ item'[i].status = "error"
    <3>1. CASE item'[i] = SetStatus(Tried(item[i]), "error")
      BY <1>5, <3>1 DEF SetStatus, Tried, ItemFields
    <3>2. CASE item'[i] = SetStatus(item[i], "error")
      BY <1>5, <3>2 DEF SetStatus, ItemFields
    <3> QED BY <2>2, <3>1, <3>2
  <2> QED BY <1>3, <1>4, <1>6, <2>1, <2>2, <2>3, EventKeeps
<1> QED BY <1>1, <1>2, <1>8, <1>9, <1>10, <1>11 DEF NetUnheard

-----------------------------------------------------------------------------
(* The connections are the transfers, and itemsLoaded counts: the two
   theorems. *)

(* The invariant holds of a new loader. *)
LEMMA TameInit == Init => TameInv
<1> SUFFICES ASSUME Init PROVE TameInv
  OBVIOUS
<1>1. TypeOK
  BY InitIInv DEF IInv
<1>2. Len(items) = 0 /\ Queued = {} /\ Opened = {} /\ FramesOf(todo) = {} /\ todo = <<>>
  BY DEF Init, Queued, Opened, FramesOf
<1>3. TopOnly /\ TopOK
  BY <1>2 DEF TopOnly, TopOK, Top
<1>4. QueueOK
  BY <1>2 DEF Init, QueueOK, NewItem
<1>5. OneEach
  BY DEF Init, OneEach
<1>6. \A i \in Items : Accounted(i)
  BY <1>2 DEF Init, Accounted, Audible, NewItem, Heard
<1>7. CountOK
  <2>1. LoadedItems = {}
    BY <1>2 DEF LoadedItems
  <2> QED BY <2>1, FS_EmptySet DEF CountOK, Init
<1> QED BY <1>1, <1>3, <1>4, <1>5, <1>6, <1>7 DEF TameInv

(* The frames of a call keep the invariant. *)
LEMMA TameFrames ==
    ASSUME TameInv, TypeOK', Step PROVE TameInv'
<1>1. CASE LoadNext
  BY <1>1, LoadNextKeeps
<1>2. CASE AllLoaded
  BY <1>2, AllLoadedKeeps
<1>3. CASE Complete \/ Started \/ ContentTaken \/ Return
  BY <1>3, OtherFramesKeep
<1>4. ASSUME NEW i \in Items, ForceLoad(i) PROVE TameInv'
  BY <1>4, ForceLoadKeeps
<1>5. ASSUME NEW i \in Items, LoadNow(i) PROVE TameInv'
  BY <1>5, LoadNowKeeps
<1>6. ASSUME NEW i \in Items, Finish(i) PROVE TameInv'
  BY <1>6, FinishKeeps
<1>7. ASSUME NEW i \in Items, ItemComplete(i) PROVE TameInv'
  BY <1>7, ItemCompleteKeeps
<1>8. ASSUME NEW i \in Items, ItemError(i) PROVE TameInv'
  BY <1>8, ItemErrorKeeps
<1>9. ASSUME NEW i \in Items, RemoveItem(i) PROVE TameInv'
  BY <1>9, RemoveItemKeeps
<1>10. ASSUME NEW k \in 1..Cardinality(Items) + 1, NEW n \in 0..Cardinality(Items),
              ResumeNext(k, n)
       PROVE  TameInv'
  BY <1>10, ResumeNextKeeps
<1> QED BY <1>1, <1>2, <1>3, <1>4, <1>5, <1>6, <1>7, <1>8, <1>9, <1>10 DEF Step

(* The calls of a tame client keep the invariant. *)
LEMMA TameCalls ==
    ASSUME Tame, TameInv, TypeOK', Client PROVE TameInv'
<1>1. CASE PauseAll
  BY <1>1, PauseAllKeeps
<1>2. CASE ResumeAll \/ \E n \in Limits : Start(n)
  BY <1>2, BareCallsKeep
<1>3. CASE RemovePausedItems \/ RemoveFailedItems
  BY <1>3, RemoveAllWithKeeps
<1>4. CASE RemoveAll \/ Clear
  BY <1>4, EmptiedKeeps
<1>5. ASSUME NEW i \in Items, CallLoadNow(i) PROVE TameInv'
  BY <1>5, CallLoadNowKeeps
<1>6. ASSUME NEW i \in Items, Reload(i) PROVE TameInv'
  BY <1>6, ReloadKeeps
<1>7. ASSUME NEW i \in Items, Resume(i) PROVE TameInv'
  BY <1>7, ResumeKeeps
<1>8. ASSUME NEW i \in Items, CallRemove(i) \/ TakeContent(i) PROVE TameInv'
  BY <1>8, BareCallsKeep
<1>9. ASSUME NEW i \in Items, NEW p \in Priorities, Add(i, p) PROVE TameInv'
  BY <1>9, AddKeeps
<1>10. ASSUME NEW i \in Items, NEW p \in Priorities, ChangePriority(i, p) PROVE TameInv'
  BY <1>10, ChangePriorityKeeps
<1>11. ASSUME NEW i \in Items, NEW b \in BOOLEAN, Pause(i, b) PROVE TameInv'
  BY <1>11, PauseKeeps
<1> QED BY <1>1, <1>2, <1>3, <1>4, <1>5, <1>6, <1>7, <1>8, <1>9, <1>10, <1>11 DEF Client

(* The invariant depends on the variables only. *)
LEMMA TameStill ==
    ASSUME TameInv, UNCHANGED vars PROVE TameInv'
<1>1. TypeOK'
  BY DEF TameInv, TypeOK, vars, ItemFields, NetFields
<1>2. todo' = todo /\ items' = items /\ item' = item /\ net' = net /\ connections' = connections
      /\ itemsLoaded' = itemsLoaded /\ additionIndex' = additionIndex
  BY DEF vars
<1>3. TopOnly'
  BY <1>2 DEF TameInv, TopOnly, Rest
<1>4. QueueOK' /\ OneEach' /\ CountOK'
  BY <1>2 DEF TameInv, QueueOK, OneEach, CountOK, LoadedItems, Queued, Known
<1>5. \A i \in Items : Accounted(i)'
  BY <1>2 DEF TameInv, Accounted, Opened, Queued, Known, Audible, Owed
<1>6. TopOK'
  BY <1>2 DEF TameInv, TopOK, Top, Queued, Opened, Audible
<1> QED BY <1>1, <1>3, <1>4, <1>5, <1>6 DEF TameInv

(* Every step of a tame client keeps the invariant. *)
LEMMA TameStep ==
    ASSUME Tame PROVE IInv /\ TameInv /\ [Next]_vars => IInv' /\ TameInv'
<1> SUFFICES ASSUME IInv, TameInv, [Next]_vars PROVE IInv' /\ TameInv'
  OBVIOUS
<1>1. IInv' /\ TypeOK'
  BY StepIInv DEF IInv
<1>2. CASE Step
  BY <1>1, <1>2, TameFrames
<1>3. CASE Client
  BY <1>1, <1>3, TameCalls
<1>4. ASSUME NEW i \in Items, NetEvent(i) PROVE TameInv'
  BY <1>1, <1>4, NetEventKeeps
<1>5. CASE UNCHANGED vars
  BY <1>1, <1>5, TameStill
<1> QED BY <1>1, <1>2, <1>3, <1>4, <1>5 DEF Next

(* With one connection each there are as many connections as items. *)
LEMMA EntriesCount ==
    ASSUME NEW C \in SUBSET (Items \X {1}), IsFiniteSet(C)
    PROVE  Cardinality(C) = Cardinality({c[1] : c \in C})
<1> DEFINE f == [c \in C |-> c[1]]
           S == {c[1] : c \in C}
<1>1. f \in Surjection(C, S)
  BY DEF Surjection
<1>2. f \in Injection(C, S)
  <2>1. f \in [C -> S]
    OBVIOUS
  <2>2. \A c, d \in C : f[c] = f[d] => c = d
    OBVIOUS
  <2> QED BY <2>1, <2>2 DEF Injection, IsInjective
<1>3. ExistsBijection(C, S)
  BY <1>1, <1>2 DEF ExistsBijection, Bijection
<1>4. IsFiniteSet(S)
  BY <1>1, FS_Surjection
<1> QED BY <1>3, <1>4, FS_Bijection

LEMMA OneEachCounts ==
    ASSUME IsFiniteSet(connections), OneEach
    PROVE  Cardinality(connections) = Cardinality(Opened)
BY EntriesCount DEF OneEach, Opened

(* Between two events no frame is left, so that what is open is transferred.
   *)
LEMMA TransfersFromTame ==
    ASSUME IInv, TameInv PROVE ConnectionsAreTransfers
<1> SUFFICES ASSUME Quiet PROVE /\ Opened = InTransfer
                                /\ Opened \subseteq Queued
                                /\ Cardinality(connections) = Cardinality(Opened)
  BY DEF ConnectionsAreTransfers
<1>1. \A i \in Items : ~Owed(i)
  BY DEF Quiet, Owed, FramesOf
<1>2. Opened \subseteq Items
  BY DEF Opened, IInv, TypeOK
<1>3. Opened = InTransfer /\ Opened \subseteq Queued
  BY <1>1, <1>2 DEF InTransfer, TameInv, Accounted, Audible
<1>4. Cardinality(connections) = Cardinality(Opened)
  BY OneEachCounts DEF IInv, TameInv
<1> QED BY <1>3, <1>4

(* For every tame client, and however its listeners call the loader: between
   two events the entries of _connections are the transfers going on for items
   of the queue, one each. *)
THEOREM ConnectionsAreTransfersHold ==
    ASSUME Tame PROVE Spec => []ConnectionsAreTransfers
<1>1. Init => IInv /\ TameInv
  BY InitIInv, TameInit
<1>2. IInv /\ TameInv /\ [Next]_vars => IInv' /\ TameInv'
  BY TameStep
<1>3. IInv /\ TameInv => ConnectionsAreTransfers
  BY TransfersFromTame
<1> QED BY <1>1, <1>2, <1>3, PTL DEF Spec

(* For every tame client _itemsLoaded, the progress the client reads, is the
   number of loaded items of the queue between two events. *)
THEOREM ItemsLoadedCountsHold ==
    ASSUME Tame PROVE Spec => []ItemsLoadedCounts
<1>1. Init => IInv /\ TameInv
  BY InitIInv, TameInit
<1>2. IInv /\ TameInv /\ [Next]_vars => IInv' /\ TameInv'
  BY TameStep
<1>3. TameInv => ItemsLoadedCounts
  BY DEF TameInv, CountOK, LoadedItems, ItemsLoadedCounts
<1> QED BY <1>1, <1>2, <1>3, PTL DEF Spec

-----------------------------------------------------------------------------
(* What one step does to the stack of frames: it pushes frames of the loader's
   own handlers, it starts a removal, or it is loadNow(), which alone forces a
   load. *)

(* The frames the handlers push, and those a call of the client may push. *)
Pushed == {f \in Frames : f[1] \notin {"loadNow", "force"}}
(* ... of these, the ones that neither remove an item nor end start(). *)
Modest == {f \in Pushed : f[1] \notin {"remove", "started"}}

(* A step goes on above what is left of the call, or above all of it. *)
GoesOn(p) ==
    \/ todo # <<>> /\ todo' = p \o Rest
    \/ /\ todo = <<>> \/ Head(todo) \in {<<"listeners">>, <<"loadNext">>}
       /\ todo' = p \o todo

(* A step of the handlers; a step that pushes whatever but a forced load. *)
Handles == \E p \in Seq(Modest) : GoesOn(p)
Proceeds == \E p \in Seq(Pushed) : GoesOn(p)
(* loadNow() goes on to force its load; the client calls loadNow() or
   reload(); the client calls remove(). *)
Forces == \E i \in Items : LoadNow(i) /\ todo # <<>> /\ todo' = <<<<"force", i>>>> \o Rest
Summons == \E i \in Items : /\ CallLoadNow(i) \/ Reload(i)
                            /\ todo' = <<<<"loadNow", i>>>> \o todo
Discards == \E i \in Items : CallRemove(i) /\ todo' = <<<<"remove", i>>>> \o todo

(* The frames of a removal that ends with a look at the queue. *)
Removal ==
    {p \in Seq(Pushed) : \E r \in Seq({"remove"} \X Items),
                             f \in {<<"loadNext">>, <<"contentTaken">>} : p = r \o <<f>>}

(* The stacks of frames the handlers push. *)
LEMMA ModestFrames ==
    /\ <<>> \in Seq(Modest) /\ <<<<"loadNext">>>> \in Seq(Modest)
    /\ <<<<"listeners">>>> \in Seq(Modest)
    /\ <<<<"listeners">>, <<"complete">>>> \in Seq(Modest)
    /\ AfterComplete \in Seq(Modest) /\ AfterError \in Seq(Modest) /\ AfterRemove \in Seq(Modest)
    /\ \A k, n \in Nat : /\ <<<<"resumeAll", k, n>>>> \in Seq(Modest)
                         /\ <<<<"loadNext">>, <<"resumeAll", k, n>>>> \in Seq(Modest)
    /\ Modest \subseteq Pushed /\ Seq(Modest) \subseteq Seq(Pushed)
<1>1. /\ <<"loadNext">> \in Modest /\ <<"listeners">> \in Modest /\ <<"allDone">> \in Modest
      /\ <<"complete">> \in Modest /\ \A k, n \in Nat : <<"resumeAll", k, n>> \in Modest
  BY DEF Modest, Pushed, Frames
<1>2. Modest \subseteq Pushed
  BY DEF Modest
<1> QED BY <1>1, <1>2 DEF AfterComplete, AfterError, AfterRemove

(* The stacks of frames the handlers push for an item. *)
LEMMA ModestItemFrames ==
    ASSUME NEW i \in Items
    PROVE  /\ ErrorFrames(i) \in Seq(Modest) /\ LoadFrames(i) \in Seq(Modest)
           /\ <<<<"finish", i>>>> \in Seq(Modest)
           /\ <<<<"listeners">>, <<"itemComplete", i>>>> \in Seq(Modest)
           /\ ErrorFrames(i) \o <<<<"finish", i>>>> \in Seq(Modest)
           /\ LoadFrames(i) \o <<<<"loadNext">>>> \in Seq(Modest)
<1>1. /\ \A f \in {"itemComplete", "itemError", "finish"} : <<f, i>> \in Modest
      /\ <<"loadNext">> \in Modest /\ <<"listeners">> \in Modest
  BY DEF Modest, Pushed, Frames
<1>2. /\ <<>> \in Seq(Modest) /\ <<<<"itemError", i>>>> \in Seq(Modest)
      /\ <<<<"finish", i>>>> \in Seq(Modest) /\ <<<<"loadNext">>>> \in Seq(Modest)
      /\ <<<<"listeners">>, <<"itemComplete", i>>>> \in Seq(Modest)
  BY <1>1
<1>3. ErrorFrames(i) \in Seq(Modest) /\ LoadFrames(i) \in Seq(Modest)
  BY <1>2 DEF ErrorFrames, LoadFrames
<1> QED BY <1>2, <1>3, ConcatProperties

(* Removals followed by a look at the queue. *)
LEMMA IsRemoval ==
    ASSUME NEW r \in Seq({"remove"} \X Items), NEW f \in {<<"loadNext">>, <<"contentTaken">>}
    PROVE  r \o <<f>> \in Removal
<1>1. {"remove"} \X Items \subseteq Pushed /\ f \in Pushed
  BY DEF Pushed, Frames
<1>2. r \in Seq(Pushed) /\ <<f>> \in Seq(Pushed)
  BY <1>1
<1> QED BY <1>2, ConcatProperties DEF Removal

(* A stack of two frames is one frame put on the other. *)
LEMMA PairIsConcat == \A x, y : <<x>> \o <<y>> = <<x, y>>
<1> SUFFICES ASSUME NEW x, NEW y PROVE <<x>> \o <<y>> = <<x, y>>
  OBVIOUS
<1> DEFINE S == {x, y}
           u == <<x>> \o <<y>>
           w == <<x, y>>
<1>1. <<x>> \in Seq(S) /\ <<y>> \in Seq(S) /\ w \in Seq(S)
  OBVIOUS
<1>2. u \in Seq(S) /\ Len(u) = 2 /\ u[1] = x /\ u[2] = y
  BY <1>1
<1>3. Len(w) = 2 /\ w[1] = x /\ w[2] = y
  OBVIOUS
<1> HIDE DEF u, w, S
<1>4. Len(u) = Len(w) /\ \A k \in 1..Len(u) : u[k] = w[k]
  BY <1>2, <1>3
<1>5. u = w
  BY <1>1, <1>2, <1>4, SeqEqual
<1> QED BY <1>5 DEF u, w

(* What there is when a frame is on top. *)
LEMMA TopRest ==
    ASSUME TypeOK, NEW f, Top(f)
    PROVE  todo # <<>> /\ Head(todo) = f /\ Rest \in Seq(Frames) /\ Rest = <<>> \o Rest
           /\ todo \in Seq(Frames)
BY DEF Top, Rest, TypeOK

(* A frame pushes what the handlers push, or is loadNow(). *)
LEMMA StepHandles ==
    ASSUME TypeOK, Step PROVE Handles \/ Forces
<1>0. <<>> \in Seq(Modest) /\ <<<<"loadNext">>>> \in Seq(Modest)
  BY ModestFrames
<1>1. CASE LoadNext
  <2>1. Top(<<"loadNext">>)
    BY <1>1 DEF LoadNext
  <2>2. \/ todo' = Rest
        \/ \E i \in Items : todo' = LoadFrames(i) \o todo
    <3>1. NextItemToLoad(Purged(connections)) \subseteq Items
      BY DEF NextItemToLoad, Candidates, TypeOK
    <3> QED BY <1>1, <3>1 DEF LoadNext
  <2> QED BY <1>0, <2>1, <2>2, TopRest, ModestItemFrames DEF Handles, GoesOn
<1>2. ASSUME NEW i \in Items, ForceLoad(i) PROVE Handles
  <2>1. Top(<<"force", i>>)
    BY <1>2 DEF ForceLoad
  <2>2. todo # <<>> /\ Rest \in Seq(Frames) /\ Rest = <<>> \o Rest
    BY <2>1, TopRest
  <2>3. todo' \in {<<>> \o Rest, <<<<"loadNext">>>> \o Rest, LoadFrames(i) \o <<<<"loadNext">>>> \o Rest}
    BY <1>2, <2>2 DEF ForceLoad
  <2>4. LoadFrames(i) \o <<<<"loadNext">>>> \in Seq(Modest)
    BY ModestItemFrames
  <2> QED BY <1>0, <2>2, <2>3, <2>4 DEF Handles, GoesOn
<1>3. ASSUME NEW i \in Items, LoadNow(i) PROVE Handles \/ Forces
  <2>1. Top(<<"loadNow", i>>)
    BY <1>3 DEF LoadNow
  <2>2. todo # <<>> /\ Rest = <<>> \o Rest
    BY <2>1, TopRest
  <2>3. todo' \in {<<>> \o Rest, <<<<"force", i>>>> \o Rest}
    BY <1>3, <2>2 DEF LoadNow
  <2> QED BY <1>0, <1>3, <2>2, <2>3 DEF Handles, GoesOn, Forces
<1>4. ASSUME NEW i \in Items, Finish(i) PROVE Handles
  <2>1. Top(<<"finish", i>>)
    BY <1>4 DEF Finish
  <2>2. todo # <<>> /\ Rest = <<>> \o Rest
    BY <2>1, TopRest
  <2>4. <<<<"listeners">>, <<"itemComplete", i>>>> \in Seq(Modest)
    BY ModestItemFrames
  <2>5. todo' \in {<<>> \o Rest, <<<<"listeners">>, <<"itemComplete", i>>>> \o Rest}
    BY <1>4, <2>2 DEF Finish
  <2> QED BY <1>0, <2>2, <2>4, <2>5 DEF Handles, GoesOn
<1>5. ASSUME NEW i \in Items, ItemComplete(i) \/ ItemError(i) \/ RemoveItem(i) PROVE Handles
  <2>1. \E f : Top(f)
    BY <1>5 DEF ItemComplete, ItemError, RemoveItem
  <2>2. todo # <<>>
    BY <2>1 DEF Top
  <2> QED BY <1>5, <2>2, ModestFrames DEF ItemComplete, ItemError, RemoveItem, Handles, GoesOn
<1>6. CASE AllLoaded \/ Complete \/ Started \/ ContentTaken \/ Return
  <2>1. \E f : Top(f)
    BY <1>6 DEF AllLoaded, Complete, Started, ContentTaken, Return
  <2>2. todo # <<>> /\ Rest = <<>> \o Rest
    BY <2>1, TopRest
  <2>3. todo' \in {<<>> \o Rest, <<<<"loadNext">>>> \o Rest, <<<<"listeners">>>> \o Rest,
                   <<<<"listeners">>, <<"complete">>>> \o Rest}
    BY <1>6, <2>2 DEF AllLoaded, Complete, Started, ContentTaken, Return
  <2> QED BY <2>2, <2>3, ModestFrames DEF Handles, GoesOn
<1>7. ASSUME NEW k \in 1..Cardinality(Items) + 1, NEW n \in 0..Cardinality(Items),
             ResumeNext(k, n)
      PROVE  Handles
  <2>1. Top(<<"resumeAll", k, n>>)
    BY <1>7 DEF ResumeNext
  <2>2. todo # <<>> /\ Rest = <<>> \o Rest
    BY <2>1, TopRest
  <2>3. Cardinality(Items) \in Nat
    BY ItemsAssumption, FS_CardinalityType
  <2>5. <<<<"resumeAll", k + 1, n>>>> \in Seq(Modest)
        /\ <<<<"loadNext">>, <<"resumeAll", k + 1, n>>>> \in Seq(Modest)
    BY <2>3, ModestFrames
  <2>6. todo' \in {<<>> \o Rest, <<<<"loadNext">>>> \o Rest, <<<<"resumeAll", k + 1, n>>>> \o Rest,
                   <<<<"loadNext">>, <<"resumeAll", k + 1, n>>>> \o Rest}
    BY <1>7, <2>2 DEF ResumeNext
  <2> QED BY <1>0, <2>2, <2>5, <2>6 DEF Handles, GoesOn
<1> QED BY <1>1, <1>2, <1>3, <1>4, <1>5, <1>6, <1>7 DEF Step

(* The client calls between two events, or while an event is handed to it. *)
LEMMA CallsTakeTurns ==
    ASSUME Client PROVE todo = <<>> \/ Head(todo) = <<"listeners">>
<1>1. ClientTurn
  BY DEF Client, Call, PauseAll, ResumeAll, RemovePausedItems, RemoveFailedItems,
         RemoveAllWith, RemoveAll, Clear, Start, CallLoadNow, Reload, Resume, CallRemove,
         TakeContent, Add, ChangePriority, Pause
<1> QED BY <1>1 DEF ClientTurn, Listening

(* In the middle of a call, outside its listeners, only the call goes on. *)
LEMMA CallGoesOn ==
    ASSUME Next, todo # <<>>, Head(todo) # <<"listeners">> PROVE Step
<1>1. ~Client
  BY CallsTakeTurns
<1>2. \A i \in Items : ~NetEvent(i)
  BY DEF NetEvent
<1> QED BY <1>1, <1>2 DEF Next

(* What a call of the client pushes on what is left of the call around it. *)
LEMMA CallShape ==
    ASSUME TypeOK, Client
    PROVE  /\ todo = <<>> \/ Head(todo) = <<"listeners">>
           /\ \/ \E p \in Seq(Modest) \cup Removal : todo' = p \o todo
              \/ todo' = <<<<"loadNext">>, <<"started">>>> \o todo
              \/ Discards
              \/ Summons
<1>0. todo \in Seq(Frames) /\ todo = <<>> \o todo
  BY DEF TypeOK
<1>2. todo = <<>> \/ Head(todo) = <<"listeners">>
  BY CallsTakeTurns
<1> DEFINE Simply == \E p \in Seq(Modest) \cup Removal : todo' = p \o todo
<1>3. CASE PauseAll \/ RemoveAll \/ Clear
  <2>1. todo' = <<>> \o todo
    BY <1>0, <1>3 DEF PauseAll, RemoveAll, Clear
  <2> QED BY <1>2, <2>1, ModestFrames
<1>4. CASE ResumeAll
  <2>1. <<<<"resumeAll", 1, Len(items)>>>> \in Seq(Modest)
    BY ModestFrames DEF TypeOK
  <2> QED BY <1>2, <1>4, <2>1 DEF ResumeAll
<1>5. CASE RemovePausedItems \/ RemoveFailedItems
  <2>1. PICK r \in Seq({"remove"} \X Items) : todo' = (r \o <<<<"loadNext">>>>) \o todo
    BY <1>5, RemovalFrames
  <2>2. r \o <<<<"loadNext">>>> \in Removal
    BY IsRemoval
  <2> QED BY <1>2, <2>1, <2>2
<1>6. CASE \E n \in Limits : Start(n)
  BY <1>2, <1>6, ModestFrames DEF Start, StartFrames
<1>7. ASSUME NEW i \in Items, CallLoadNow(i) \/ Reload(i) PROVE Summons
  BY <1>7 DEF Summons, CallLoadNow, Reload
<1>8. ASSUME NEW i \in Items, CallRemove(i) PROVE Discards
  BY <1>8 DEF Discards, CallRemove
<1>9. ASSUME NEW i \in Items, TakeContent(i) PROVE Simply
  <2>1. <<<<"remove", i>>>> \in Seq({"remove"} \X Items)
    OBVIOUS
  <2>2. <<<<"remove", i>>>> \o <<<<"contentTaken">>>> \in Removal
    BY <2>1, IsRemoval
  <2>3. <<<<"remove", i>>>> \o <<<<"contentTaken">>>> = <<<<"remove", i>>, <<"contentTaken">>>>
    BY PairIsConcat
  <2> QED BY <1>9, <2>2, <2>3 DEF TakeContent
<1>10. ASSUME NEW i \in Items,
              \/ Resume(i)
              \/ \E p \in Priorities : Add(i, p) \/ ChangePriority(i, p)
              \/ \E b \in BOOLEAN : Pause(i, b)
       PROVE  Simply
  <2>1. todo' \in {<<>> \o todo, <<<<"loadNext">>>> \o todo}
    BY <1>0, <1>10 DEF Resume, Add, ChangePriority, Pause
  <2> QED BY <2>1, ModestFrames
<1> QED BY <1>2, <1>3, <1>4, <1>5, <1>6, <1>7, <1>8, <1>9, <1>10 DEF Client

(* An event of a transfer pushes what the handlers push. *)
LEMMA EventHandles ==
    ASSUME TypeOK, NEW i \in Items, NetEvent(i) PROVE Handles
<1>1. PICK k \in Slots(i) : \/ NetOpen(i, k) \/ NetComplete(i, k) \/ NetError(i, k)
                            \/ NetSecurityError(i, k) \/ NetUnheard(i, k)
  BY DEF NetEvent
<1>2. todo = <<>>
  BY DEF NetEvent
<1>3. todo' \in {<<>>, ErrorFrames(i), LoadFrames(i), <<<<"finish", i>>>>,
                 ErrorFrames(i) \o <<<<"finish", i>>>>}
  BY <1>1, <1>2 DEF NetOpen, NetComplete, NetError, NetSecurityError, NetUnheard
<1>4. todo' \in Seq(Modest)
  BY <1>3, ModestFrames, ModestItemFrames
<1>5. todo' = todo' \o todo
  BY <1>2, <1>4
<1> QED BY <1>2, <1>4, <1>5 DEF Handles, GoesOn

(* What a step pushes. *)
LEMMA FrameShape ==
    ASSUME TypeOK, [Next]_vars PROVE Proceeds \/ Forces \/ Summons \/ UNCHANGED vars
<1>1. Handles => Proceeds
  BY ModestFrames DEF Handles, Proceeds
<1>2. CASE Client
  <2>1. CASE \E p \in Seq(Modest) \cup Removal : todo' = p \o todo
    BY <1>2, <2>1, CallShape, ModestFrames DEF Proceeds, GoesOn, Removal
  <2>2. <<<<"loadNext">>, <<"started">>>> \in Seq(Pushed)
    <3>1. <<"loadNext">> \in Pushed /\ <<"started">> \in Pushed
      BY DEF Pushed, Frames
    <3> QED BY <3>1
  <2>3. CASE Discards
    <3>1. PICK i \in Items : todo' = <<<<"remove", i>>>> \o todo
      BY <2>3 DEF Discards
    <3>2. <<"remove", i>> \in Pushed
      BY DEF Pushed, Frames
    <3>3. <<<<"remove", i>>>> \in Seq(Pushed)
      BY <3>2
    <3> QED BY <1>2, <3>1, <3>3, CallShape DEF Proceeds, GoesOn
  <2> QED BY <1>2, <2>1, <2>2, <2>3, CallShape DEF Proceeds, GoesOn
<1> QED BY <1>1, <1>2, StepHandles, EventHandles DEF Next

(* loadNow() and the load it forces come to run only where they are pushed: no
   other step brings them up. *)
LEMMA NotGoneOnTo ==
    ASSUME TameInv, TameInv', NEW f \in {"loadNow", "force"}, NEW i \in Items, Top(<<f, i>>)'
    PROVE  ~Proceeds
<1>1. /\ todo \in Seq(Frames) /\ (todo # <<>> => Rest \in Seq(Frames) /\ Unhurried(Rest))
      /\ todo' # <<>> /\ Head(todo') = <<f, i>> /\ todo' \in Seq(Frames)
  BY Hurries DEF TameInv, TypeOK, Top
<1>2. <<f, i>> \in FramesOf(todo')
  BY <1>1, FramesOfTop
<1>3. ASSUME NEW p \in Seq(Pushed), NEW s \in Seq(Frames), Unhurried(s), todo' = p \o s
      PROVE  FALSE
  <2>1. p \in Seq(Frames) /\ FramesOf(p) \subseteq Pushed
    BY DEF Pushed, FramesOf
  <2>2. <<f, i>> \in FramesOf(p) \cup FramesOf(s)
    BY <1>2, <1>3, <2>1, FramesOfConcat
  <2> QED BY <1>3, <2>1, <2>2 DEF Unhurried, Pushed, AtOnce
<1>4. ASSUME NEW p \in Seq(Pushed), GoesOn(p) PROVE FALSE
  <2>1. CASE todo # <<>> /\ todo' = p \o Rest
    BY <1>1, <1>3, <2>1
  <2>2. CASE /\ todo = <<>> \/ Head(todo) \in {<<"listeners">>, <<"loadNext">>}
             /\ todo' = p \o todo
    <3>1. Unhurried(todo)
      BY <2>2, Hurries DEF TameInv, AtOnce
    <3> QED BY <1>1, <1>3, <2>2, <3>1
  <2> QED BY <1>4, <2>1, <2>2 DEF GoesOn
<1> QED BY <1>4 DEF Proceeds

-----------------------------------------------------------------------------
(* The order of loading. The queue is sorted as long as nobody cuts the line:
   loadNow() and reload() raise a priority without sorting the queue again. *)

(* The client does not cut the line. *)
Unforced == Ops \cap {"loadNow", "reload"} = {}

(* The queue holds no item twice and is sorted by priority and age. *)
Ordered ==
    /\ \A j, k \in 1..Len(items) : j # k => items[j] # items[k]
    /\ \A j, k \in 1..Len(items) : j < k => Before(item, items[j], items[k])

(* The inductive invariant: the queue is sorted, and no load is being forced.
   *)
OrderInv == Ordered /\ todo \in Seq(Pushed)

(* Where the client forces no load, none is ever forced. *)
LEMMA NoLoadNow ==
    ASSUME Unforced, TypeOK, todo \in Seq(Pushed), [Next]_vars
    PROVE  todo' \in Seq(Pushed)
<1>1. CASE Proceeds
  <2>1. PICK p \in Seq(Pushed) : GoesOn(p)
    BY <1>1 DEF Proceeds
  <2>2. todo # <<>> => Rest \in Seq(Pushed)
    BY DEF Rest
  <2> QED BY <2>1, <2>2, ConcatProperties DEF GoesOn
<1>2. ~Forces
  <2>1. ASSUME NEW i \in Items, Top(<<"loadNow", i>>) PROVE FALSE
    BY <2>1 DEF Top, Pushed
  <2> QED BY <2>1 DEF Forces, LoadNow
<1>3. ~Summons
  BY DEF Summons, CallLoadNow, Reload, Call, Unforced
<1> QED BY <1>1, <1>2, <1>3, FrameShape DEF vars

(* A step that leaves the queue, the priorities and the indices alone. *)
SameKeys ==
    \A j \in Items : /\ item'[j].priority = item[j].priority
                     /\ item'[j].additionIndex = item[j].additionIndex

(* A sorted queue stays sorted when an item leaves and no key changes. *)
LEMMA OrderKept ==
    ASSUME TypeOK, Ordered, SameKeys,
           items' = items \/ (\E i \in Items : items' = RemoveFromQueue(items, i))
    PROVE  Ordered'
<1>1. \A j \in 1..Len(items) : items[j] \in Items
  BY DEF TypeOK
<1>2. CASE items' = items
  BY <1>1, <1>2 DEF Ordered, SameKeys, Before
<1>3. ASSUME NEW i \in Items, items' = RemoveFromQueue(items, i) PROVE Ordered'
  <2>1. /\ \A j, k \in 1..Len(items') : j # k => items'[j] # items'[k]
        /\ \A j, k \in 1..Len(items') : j < k =>
             \E m, n \in 1..Len(items) : m < n /\ items'[j] = items[m] /\ items'[k] = items[n]
    BY <1>3, RemovedFromQueue DEF Ordered
  <2>2. ASSUME NEW j \in 1..Len(items'), NEW k \in 1..Len(items'), j < k
        PROVE  Before(item', items'[j], items'[k])
    <3>1. PICK m \in 1..Len(items), n \in 1..Len(items) :
             m < n /\ items'[j] = items[m] /\ items'[k] = items[n]
      BY <2>1, <2>2
    <3>2. Before(item, items[m], items[n])
      BY <3>1 DEF Ordered
    <3> QED BY <1>1, <3>1, <3>2 DEF SameKeys, Before
  <2> QED BY <2>1, <2>2 DEF Ordered
<1> QED BY <1>2, <1>3

(* _items.sortOn sorts the queue. *)
LEMMA OrderMade ==
    ASSUME NEW S \in SUBSET Items, items' \in Sorted(S, item') PROVE Ordered'
BY SortedQueued DEF Ordered

(* The fields of an item that set its place in the queue. *)
LEMMA KeysKept ==
    ASSUME NEW i \in Items, NEW r \in ItemFields
    PROVE  /\ StopFields(r).priority = r.priority /\ PausedFields(r).priority = r.priority
           /\ LoadFields(i, r).priority = r.priority /\ Finished(r).priority = r.priority
           /\ Tried(r).priority = r.priority
           /\ \A st \in Statuses : SetStatus(r, st).priority = r.priority
           /\ StopFields(r).additionIndex = r.additionIndex
           /\ PausedFields(r).additionIndex = r.additionIndex
           /\ LoadFields(i, r).additionIndex = r.additionIndex
           /\ Finished(r).additionIndex = r.additionIndex
           /\ Tried(r).additionIndex = r.additionIndex
           /\ \A st \in Statuses : SetStatus(r, st).additionIndex = r.additionIndex
<1>1. /\ LoadFields(i, r).priority = r.priority /\ Finished(r).priority = r.priority
      /\ LoadFields(i, r).additionIndex = r.additionIndex
      /\ Finished(r).additionIndex = r.additionIndex
      /\ Tried(r).priority = r.priority /\ Tried(r).additionIndex = r.additionIndex
  BY DEF LoadFields, Finished, ItemFields, Tried
<1>2. \A st \in Statuses : /\ SetStatus(r, st).priority = r.priority
                           /\ SetStatus(r, st).additionIndex = r.additionIndex
  BY DEF SetStatus, ItemFields
<1> QED BY <1>1, <1>2, StopIndex

(* Changing one item with a method that keeps its keys. *)
LEMMA SameKeysOne ==
    ASSUME TypeOK, NEW i \in Items, NEW r, r.priority = item[i].priority,
           r.additionIndex = item[i].additionIndex, item' = [item EXCEPT ![i] = r]
    PROVE  SameKeys
BY DEF TypeOK, SameKeys

(* The frames of a call keep the order. *)
LEMMA OrderOfSteps ==
    ASSUME TypeOK, Ordered, todo \in Seq(Pushed), Step PROVE Ordered'
<1>0. item \in [Items -> ItemFields] /\ \A i \in Items : item[i] \in ItemFields
  BY DEF TypeOK
<1>1. CASE LoadNext
  <2>1. NextItemToLoad(Purged(connections)) \subseteq Items
    BY DEF NextItemToLoad, Candidates, TypeOK
  <2>2. UNCHANGED item \/ \E i \in Items : item' = [item EXCEPT ![i] = LoadFields(i, @)]
    BY <1>1, <2>1 DEF LoadNext, OpenConnection
  <2>3. SameKeys
    BY <1>0, <2>2, KeysKept, SameKeysOne DEF SameKeys
  <2> QED BY <1>1, <2>3, OrderKept DEF LoadNext, queueVars
<1>2. ASSUME NEW i \in Items, ForceLoad(i) \/ LoadNow(i) PROVE Ordered'
  BY <1>2 DEF ForceLoad, LoadNow, Top, Pushed
<1>4. ASSUME NEW i \in Items, Finish(i) \/ ItemComplete(i) \/ ItemError(i) \/ RemoveItem(i)
      PROVE  Ordered'
  <2>1. \/ UNCHANGED item
        \/ item' = [item EXCEPT ![i] = Finished(@)]
        \/ item' = [item EXCEPT ![i] = StopFields(@)]
    BY <1>4 DEF Finish, ItemComplete, ItemError, RemoveItem
  <2>2. SameKeys
    BY <1>0, <2>1, KeysKept, SameKeysOne DEF SameKeys
  <2>3. items' = items \/ items' = RemoveFromQueue(items, i)
    BY <1>4 DEF Finish, ItemComplete, ItemError, RemoveItem, queueVars
  <2> QED BY <2>2, <2>3, OrderKept
<1>5. CASE AllLoaded \/ Complete \/ Started \/ ContentTaken \/ Return
  <2>1. items' = items /\ SameKeys
    BY <1>5 DEF AllLoaded, Complete, Started, ContentTaken, Return, queueVars, SameKeys
  <2> QED BY <2>1, OrderKept
<1>6. ASSUME NEW k \in 1..Cardinality(Items) + 1, NEW n \in 0..Cardinality(Items),
             ResumeNext(k, n)
      PROVE  Ordered'
  <2>1. Cardinality(Items) \in Nat
    BY ItemsAssumption, FS_CardinalityType
  <2>2. CASE UNCHANGED item
    BY <1>6, <2>2, OrderKept DEF ResumeNext, queueVars, SameKeys
  <2>3. CASE k <= Len(items) /\ item' = [item EXCEPT ![items[k]] = SetStatus(@, "null")]
    <3>1. items[k] \in Items
      BY <2>1, <2>3 DEF TypeOK
    <3>2. SameKeys
      BY <1>0, <2>3, <3>1, KeysKept, SameKeysOne DEF Statuses
    <3> QED BY <1>6, <3>2, OrderKept DEF ResumeNext, queueVars
  <2> QED BY <1>6, <2>2, <2>3 DEF ResumeNext
<1> QED BY <1>1, <1>2, <1>4, <1>5, <1>6 DEF Step

(* The calls of the client keep the order, or make it anew. *)
LEMMA OrderOfCalls ==
    ASSUME Unforced, TypeOK, Ordered, Client PROVE Ordered'
<1>0. /\ item \in [Items -> ItemFields] /\ \A i \in Items : item[i] \in ItemFields
      /\ Queued \in SUBSET Items
  BY QueueTypes DEF TypeOK
<1>1. CASE PauseAll
  <2>1. SameKeys
    BY <1>0, <1>1, KeysKept DEF PauseAll, SameKeys
  <2> QED BY <1>1, <2>1, OrderKept DEF PauseAll, queueVars
<1>2. CASE ResumeAll \/ RemovePausedItems \/ RemoveFailedItems \/ \E n \in Limits : Start(n)
  <2>1. items' = items /\ SameKeys
    BY <1>2 DEF ResumeAll, RemovePausedItems, RemoveFailedItems, RemoveAllWith, Start,
                queueVars, SameKeys
  <2> QED BY <2>1, OrderKept
<1>3. CASE RemoveAll \/ Clear
  BY <1>3 DEF RemoveAll, Clear, Emptied, Ordered
<1>4. ASSUME NEW i \in Items, CallLoadNow(i) \/ Reload(i) PROVE Ordered'
  BY <1>4 DEF CallLoadNow, Reload, Call, Unforced
<1>5. ASSUME NEW i \in Items, Resume(i) \/ \E b \in BOOLEAN : Pause(i, b) PROVE Ordered'
  <2>1. \/ UNCHANGED item \/ item' = [item EXCEPT ![i] = SetStatus(@, "null")]
        \/ item' = [item EXCEPT ![i] = PausedFields(@)]
    BY <1>5 DEF Resume, Pause
  <2>2. UNCHANGED item \/ \E r : /\ item' = [item EXCEPT ![i] = r]
                                /\ r.priority = item[i].priority
                                /\ r.additionIndex = item[i].additionIndex
    BY <1>0, <2>1, KeysKept DEF Statuses
  <2>3. SameKeys
    BY <2>2, SameKeysOne DEF SameKeys
  <2> QED BY <1>5, <2>3, OrderKept DEF Resume, Pause, queueVars
<1>6. ASSUME NEW i \in Items, CallRemove(i) \/ TakeContent(i) PROVE Ordered'
  <2>1. items' = items /\ SameKeys
    BY <1>6 DEF CallRemove, TakeContent, SameKeys, queueVars
  <2> QED BY <2>1, OrderKept
<1>7. ASSUME NEW i \in Items, NEW p \in Priorities, Add(i, p) PROVE Ordered'
  <2>1. Queued \cup {i} \in SUBSET Items
    BY <1>0
  <2> QED BY <1>7, <2>1, OrderMade DEF Add
<1>8. ASSUME NEW i \in Items, NEW p \in Priorities, ChangePriority(i, p) PROVE Ordered'
  BY <1>0, <1>8, OrderMade DEF ChangePriority
<1> QED BY <1>1, <1>2, <1>3, <1>4, <1>5, <1>6, <1>7, <1>8 DEF Client

(* The events of the transfers keep the order. *)
LEMMA OrderOfEvents ==
    ASSUME TypeOK, Ordered, NEW i \in Items, NetEvent(i) PROVE Ordered'
<1>0. item \in [Items -> ItemFields] /\ item[i] \in ItemFields
  BY DEF TypeOK
<1>1. PICK k \in Slots(i) : \/ NetOpen(i, k) \/ NetComplete(i, k) \/ NetError(i, k)
                            \/ NetSecurityError(i, k) \/ NetUnheard(i, k)
  BY DEF NetEvent
<1>2. /\ items' = items
      /\ \/ UNCHANGED item
         \/ \E st \in Statuses : \/ item' = [item EXCEPT ![i] = SetStatus(@, st)]
                                 \/ item' = [item EXCEPT ![i] = SetStatus(Tried(@), st)]
                                 \/ item' = [item EXCEPT ![i] = LoadFields(i, SetStatus(Tried(@), st))]
  BY <1>1 DEF NetEvent, NetOpen, NetComplete, NetError, NetSecurityError, NetUnheard,
              queueVars, Statuses
<1>3. \A st \in Statuses : SetStatus(Tried(item[i]), st) \in ItemFields /\ Tried(item[i]) \in ItemFields
  BY <1>0, FieldTypes
<1>4. UNCHANGED item \/ \E r : /\ item' = [item EXCEPT ![i] = r]
                              /\ r.priority = item[i].priority
                              /\ r.additionIndex = item[i].additionIndex
  BY <1>0, <1>2, <1>3, KeysKept
<1>5. SameKeys
  BY <1>4, SameKeysOne DEF SameKeys
<1> QED BY <1>2, <1>5, OrderKept

(* Every step keeps the order. *)
LEMMA OrderStep ==
    ASSUME Unforced PROVE IInv /\ OrderInv /\ [Next]_vars => IInv' /\ OrderInv'
<1> SUFFICES ASSUME IInv, OrderInv, [Next]_vars PROVE IInv' /\ OrderInv'
  OBVIOUS
<1>1. IInv' /\ TypeOK /\ Ordered /\ todo \in Seq(Pushed)
  BY StepIInv DEF IInv, OrderInv
<1>2. todo' \in Seq(Pushed)
  BY <1>1, NoLoadNow
<1>3. UNCHANGED vars => Ordered'
  BY <1>1 DEF Ordered, vars
<1>4. Ordered'
  BY <1>1, <1>3, OrderOfSteps, OrderOfCalls, OrderOfEvents DEF Next
<1> QED BY <1>1, <1>2, <1>4 DEF OrderInv

(* The empty queue is sorted. *)
LEMMA OrderInit == Init => OrderInv
BY DEF Init, OrderInv, Ordered

(* A frame <<"loadNext">> on top of the call is a turn of _loadNext(). *)
LEMMA LoadNextOnTop ==
    ASSUME [Next]_vars, Top(<<"loadNext">>) PROVE LoadNext \/ UNCHANGED vars
<1>1. todo # <<>> /\ Head(todo) = <<"loadNext">>
  BY DEF Top
<1>4. ~AllLoaded /\ ~Complete /\ ~Started /\ ~ContentTaken /\ ~Return
  BY <1>1 DEF AllLoaded, Complete, Started, ContentTaken, Return, Top
<1>5. \A f, j : ~Top(<<f, j>>)
  BY <1>1 DEF Top
<1>6. \A f, j, n : ~Top(<<f, j, n>>)
  BY <1>1 DEF Top
<1>7. \A j \in Items : /\ ~ForceLoad(j) /\ ~LoadNow(j) /\ ~Finish(j)
                       /\ ~ItemComplete(j) /\ ~ItemError(j) /\ ~RemoveItem(j)
  BY <1>5 DEF ForceLoad, LoadNow, Finish, ItemComplete, ItemError, RemoveItem
<1>8. \A j, n : ~ResumeNext(j, n)
  BY <1>6 DEF ResumeNext
<1>9. Next => Step
  BY <1>1, CallGoesOn
<1> QED BY <1>4, <1>7, <1>8, <1>9 DEF Step

(* _loadNext() opens the first item of a sorted queue that may open, which
   none of the others that may open precedes. *)
LEMMA LoadNextInTurn ==
    ASSUME TypeOK, OrderInv, [Next]_vars, NEW i \in Queued, Top(<<"loadNext">>),
           ~item[i].isLoading, item'[i].isLoading,
           NEW k \in Candidates(Purged(connections))
    PROVE  Before(item, i, items[k])
<1>0. i \in Items /\ item \in [Items -> ItemFields]
  BY QueueTypes DEF TypeOK
<1>1. LoadNext
  BY LoadNextOnTop DEF vars
<1>2. PICK m \in 1..Len(items) : /\ m \in Candidates(Purged(connections))
                                 /\ \A j \in Candidates(Purged(connections)) : m <= j
                                 /\ item' = [item EXCEPT ![items[m]] = LoadFields(items[m], @)]
  <2>1. PICK j \in NextItemToLoad(Purged(connections)) :
          item' = [item EXCEPT ![j] = LoadFields(j, @)]
    BY <1>1 DEF LoadNext, OpenConnection
  <2> QED BY <2>1 DEF NextItemToLoad, Candidates
<1>3. items[m] = i
  BY <1>0, <1>2
<1>4. k \in 1..Len(items) /\ m <= k
  BY <1>2 DEF Candidates
<1>5. CASE m = k
  BY <1>0, <1>3, <1>5 DEF Before, ItemFields
<1>6. CASE m < k
  BY <1>3, <1>4, <1>6 DEF OrderInv, Ordered
<1> QED BY <1>4, <1>5, <1>6

(* The queue opens its items by priority, then by age, for every client that
   calls neither loadNow() nor reload(), changeItemPriority() included. *)
THEOREM OpensByPriorityHolds ==
    ASSUME Unforced PROVE Spec => OpensByPriority
<1> DEFINE InTurn ==
      \A i \in Queued :
         Top(<<"loadNext">>) /\ ~item[i].isLoading /\ item'[i].isLoading
           => \A k \in Candidates(Purged(connections)) : Before(item, i, items[k])
<1>1. Init => IInv /\ OrderInv
  BY InitIInv, OrderInit
<1>2. IInv /\ OrderInv /\ [Next]_vars => IInv' /\ OrderInv'
  BY OrderStep
<1>3. IInv /\ OrderInv /\ [Next]_vars => [InTurn]_vars
  BY LoadNextInTurn DEF IInv
<1> QED BY <1>1, <1>2, <1>3, PTL DEF Spec, OpensByPriority

-----------------------------------------------------------------------------
(* loadNow() loads its item. With one host, closing one connection makes room
   for the item; with several, the least urgent connection may be one of
   another host, and the item does not open. A lowered limit would leave more
   connections than it allows. *)

(* All items come from one host. *)
OneHostOnly == \A i, j \in Items : HostOf[i] = HostOf[j]
(* start() never sets another limit. *)
LimitUntouched == \A n \in Limits : n <= 0

(* The inductive invariant: the limit is kept, and a load that is forced finds
   room. *)
ForcedInv ==
    /\ Cardinality(connections) <= numConnections
    /\ \A i \in Items : Top(<<"force", i>>) => CanOpen(connections, i)

(* No step changes the limit. *)
LEMMA LimitStays ==
    ASSUME LimitUntouched, [Next]_vars PROVE numConnections' = numConnections
<1>1. CASE Step
  BY <1>1 DEF Step, LoadNext, AllLoaded, Complete, Started, ContentTaken, Return, ForceLoad,
       LoadNow, Finish, ItemComplete, ItemError, RemoveItem, ResumeNext, connVars
<1>2. CASE \E n \in Limits : Start(n)
  <2>1. PICK n \in Limits : Start(n)
    BY <1>2
  <2>2. ~(n > 0)
    BY BoundsAssumption DEF LimitUntouched
  <2> QED BY <2>1, <2>2 DEF Start, StartLimit
<1>3. CASE Client /\ ~ \E n \in Limits : Start(n)
  BY <1>3 DEF Client, PauseAll, ResumeAll, RemovePausedItems, RemoveFailedItems,
         RemoveAllWith, RemoveAll, Clear, CallLoadNow, Reload, Resume, CallRemove,
         TakeContent, Add, ChangePriority, Pause, connVars
<1>4. ASSUME NEW i \in Items, NetEvent(i) PROVE numConnections' = numConnections
  BY <1>4 DEF NetEvent, connVars
<1>5. UNCHANGED vars => numConnections' = numConnections
  BY DEF vars
<1> QED BY <1>1, <1>2, <1>3, <1>4, <1>5 DEF Next

(* The connections stay within a limit that stays. *)
LEMMA WithinLimit ==
    ASSUME LimitUntouched, IInv, [Next]_vars, Cardinality(connections) <= numConnections
    PROVE  Cardinality(connections') <= numConnections'
<1>1. Opens \/ Drops
  BY StepShape DEF IInv
<1>2. numConnections' = numConnections /\ numConnections \in Nat
  BY LimitStays DEF IInv, TypeOK
<1>3. CASE Drops
  BY <1>2, <1>3, DropCounts DEF Drops, IInv
<1>4. CASE Opens
  <2>1. PICK C \in SUBSET connections, i \in Items :
           Cardinality(C) < numConnections /\ connections' = PushEntry(C, i)
    BY <1>4 DEF Opens, CanOpen
  <2>2. IsFiniteSet(C)
    BY FS_Subset DEF IInv
  <2>3. /\ Cardinality(C) \in Nat /\ Cardinality(PushEntry(C, i)) \in Nat
        /\ Cardinality(PushEntry(C, i)) <= Cardinality(C) + 1
    BY <2>2, PushCounts
  <2> QED BY <1>2, <2>1, <2>3
<1> QED BY <1>1, <1>3, <1>4

(* With one host the test of _canOpenConnectioForItem is a test of numbers. *)
LEMMA OneHostCanOpen ==
    ASSUME OneHostOnly, TypeOK, NEW C \in SUBSET (Items \X Nat), NEW i \in Items
    PROVE  HostEntries(C, HostOf[i]) = C
BY DEF OneHostOnly, HostEntries

(* Closing the least urgent connection makes room for one more. *)
LEMMA RoomForOne ==
    ASSUME OneHostOnly, IInv, TameInv, ForcedInv, NEW i \in Items, LoadNow(i),
           todo' # Rest
    PROVE  CanOpen(connections, i)'
<1>1. numConnections' = numConnections /\ numConnections \in Nat /\ MaxPerHost \in Nat
  BY BoundsAssumption DEF LoadNow, IInv, TypeOK
<1>2. CASE CanOpen(connections, i) /\ UNCHANGED connections
  BY <1>1, <1>2 DEF CanOpen, HostEntries
<1>3. ASSUME NEW v \in Victims(connections),
             connections' = RemoveEntry(RemoveEntry(connections, v), v)
      PROVE  CanOpen(connections, i)'
  <2>1. v \in Items /\ v \in Opened
    BY DEF Victims, EntriesOf, Opened
  <2>2. RemoveEntry(connections, v) = {c \in connections : c[1] # v}
    BY <2>1, RemoveOne DEF TameInv, OneEach
  <2>3. {c \in connections : c[1] # v} \in SUBSET (Items \X {1})
    BY DEF TameInv, OneEach
  <2>4. connections' = {c \in connections : c[1] # v}
    BY <1>3, <2>1, <2>2, <2>3, RemoveOne
  <2>5. PICK c \in connections : c[1] = v
    BY <2>1 DEF Opened
  <2>6. IsFiniteSet(connections) /\ connections' \subseteq connections \ {c}
    BY <2>4, <2>5 DEF IInv
  <2>7. /\ Cardinality(connections \ {c}) = Cardinality(connections) - 1
        /\ IsFiniteSet(connections \ {c})
        /\ Cardinality(connections) \in Nat
    BY <2>5, <2>6, FS_RemoveElement, FS_CardinalityType
  <2>8. Cardinality(connections') <= Cardinality(connections) - 1
        /\ Cardinality(connections') \in Nat
    BY <2>6, <2>7, FS_Subset, FS_CardinalityType
  <2>9. connections \in SUBSET (Items \X Nat) /\ connections' \in SUBSET (Items \X Nat)
    BY <2>4 DEF IInv, TypeOK
  <2>10. HostEntries(connections, HostOf[i]) = connections
         /\ HostEntries(connections', HostOf[i]) = connections'
    BY <2>9, OneHostCanOpen DEF IInv
  <2>11. Cardinality(connections) <= MaxPerHost
    BY <2>10, HostAssumption DEF IInv, HostBound
  <2>12. Cardinality(connections') < numConnections'
         /\ Cardinality(HostEntries(connections', HostOf[i])) < MaxPerHost
    BY <1>1, <2>7, <2>8, <2>10, <2>11 DEF ForcedInv
  <2> QED BY <2>12 DEF CanOpen
<1> QED BY <1>2, <1>3 DEF LoadNow

(* Every step keeps room for the load that is forced. *)
LEMMA ForcedStep ==
    ASSUME Tame, OneHostOnly, LimitUntouched
    PROVE  IInv /\ TameInv /\ ForcedInv /\ [Next]_vars => IInv' /\ TameInv' /\ ForcedInv'
<1> SUFFICES ASSUME IInv, TameInv, ForcedInv, [Next]_vars PROVE IInv' /\ TameInv' /\ ForcedInv'
  OBVIOUS
<1>1. IInv' /\ TameInv'
  BY TameStep
<1>2. Cardinality(connections') <= numConnections'
  BY WithinLimit DEF ForcedInv
<1>3. ASSUME NEW i \in Items, Top(<<"force", i>>)' PROVE CanOpen(connections, i)'
  <2>1. /\ todo \in Seq(Frames) /\ (todo # <<>> => Rest \in Seq(Frames) /\ Unhurried(Rest))
        /\ todo' # <<>> /\ Head(todo') = <<"force", i>> /\ todo' \in Seq(Frames)
    BY <1>1, <1>3, Hurries DEF TameInv, TypeOK, Top
  <2>2. <<"force", i>> \in FramesOf(todo')
    BY <2>1, FramesOfTop
  <2>4. ~Proceeds
    BY <1>1, <1>3, NotGoneOnTo
  <2>5. ~Summons
    <3>1. ASSUME NEW j \in Items, todo' = <<<<"loadNow", j>>>> \o todo PROVE FALSE
      <4>1. Head(todo') = <<"loadNow", j>>
        BY <2>1, <3>1, FrameTypes, FramesOfFront
      <4> QED BY <2>1, <4>1
    <3> QED BY <3>1 DEF Summons
  <2>6. CASE Forces
    <3>1. PICK j \in Items : LoadNow(j) /\ todo # <<>> /\ todo' = <<<<"force", j>>>> \o Rest
      BY <2>6 DEF Forces
    <3>2. Head(todo') = <<"force", j>> /\ Tail(todo') = Rest
      BY <2>1, <3>1, FrameTypes, FramesOfFront
    <3>3. j = i
      BY <2>1, <3>2
    <3>4. todo' # Rest
      BY <2>1, <2>2, <3>1 DEF Unhurried, AtOnce
    <3> QED BY <3>1, <3>3, <3>4, RoomForOne
  <2>7. CASE UNCHANGED vars
    BY <1>3, <2>7 DEF vars, ForcedInv, Top, CanOpen, HostEntries
  <2> QED BY <2>4, <2>5, <2>6, <2>7, FrameShape DEF IInv
<1> QED BY <1>1, <1>2, <1>3 DEF ForcedInv

(* A new loader forces no load. *)
LEMMA ForcedInit == Init => ForcedInv
<1> SUFFICES ASSUME Init PROVE ForcedInv
  OBVIOUS
<1>1. Cardinality(connections) = 0 /\ numConnections \in Nat
  BY FS_EmptySet, BoundsAssumption DEF Init
<1> QED BY <1>1 DEF Init, ForcedInv, Top

(* In front of a forced load only the forced load itself can run. *)
LEMMA ForceIsNext ==
    ASSUME Next, NEW i \in Items, Top(<<"force", i>>) PROVE ForceLoad(i)
<1>1. todo # <<>> /\ Head(todo) = <<"force", i>>
  BY DEF Top
<1>4. Step
  BY <1>1, CallGoesOn
<1>5. \A f : ~Top(<<f>>)
  BY <1>1 DEF Top
<1>6. \A j, n : ~Top(<<"resumeAll", j, n>>)
  <2>1. ASSUME NEW j, NEW n, Top(<<"resumeAll", j, n>>) PROVE FALSE
    <3>1. <<"force", i>>[1] = <<"resumeAll", j, n>>[1]
      BY <1>1, <2>1 DEF Top
    <3> QED BY <3>1
  <2> QED BY <2>1
<1>7. \A f, j : Top(<<f, j>>) => f = "force" /\ j = i
  BY <1>1 DEF Top
<1>8. ~LoadNext /\ ~AllLoaded /\ ~Complete /\ ~Started /\ ~ContentTaken /\ ~Return
  BY <1>5 DEF LoadNext, AllLoaded, Complete, Started, ContentTaken, Return
<1>9. \A j \in Items : /\ ~LoadNow(j) /\ ~Finish(j) /\ ~ItemComplete(j)
                       /\ ~ItemError(j) /\ ~RemoveItem(j)
                       /\ ForceLoad(j) => j = i
  BY <1>7 DEF ForceLoad, LoadNow, Finish, ItemComplete, ItemError, RemoveItem
<1>10. \A j, n : ~ResumeNext(j, n)
  BY <1>6 DEF ResumeNext
<1> QED BY <1>4, <1>8, <1>9, <1>10 DEF Step

(* The forced load, when there is room, loads its item. *)
LEMMA ForceLoads ==
    ASSUME TypeOK, ForcedInv, NEW i \in Items, Top(<<"force", i>>), ~isFinished, ForceLoad(i)
    PROVE  item'[i].isLoading
<1>1. item' = [item EXCEPT ![i] = LoadFields(i, @)]
  BY DEF ForcedInv, ForceLoad, MayLoad, OpenConnection
<1>2. item \in [Items -> ItemFields] /\ item[i] \in ItemFields
  BY DEF TypeOK
<1> QED BY <1>1, <1>2 DEF LoadFields, ItemFields

(* loadNow() loads its item "right away" for every tame client with items of
   one host and a fixed number of connections, unless the loader is finished:
   the connection it closes makes room, under the limit of the host as under
   the total. *)
THEOREM ForcedIsLoadedHolds ==
    ASSUME Tame, OneHostOnly, LimitUntouched PROVE Spec => ForcedIsLoaded
<1> DEFINE Loads ==
      \A i \in Items : Top(<<"force", i>>) /\ ~isFinished => item'[i].isLoading
<1>1. Init => IInv /\ TameInv /\ ForcedInv
  BY InitIInv, TameInit, ForcedInit
<1>2. IInv /\ TameInv /\ ForcedInv /\ [Next]_vars => IInv' /\ TameInv' /\ ForcedInv'
  BY ForcedStep
<1>3. IInv /\ TameInv /\ ForcedInv /\ [Next]_vars => [Loads]_vars
  BY ForceIsNext, ForceLoads DEF IInv
<1> QED BY <1>1, <1>2, <1>3, PTL DEF Spec, ForcedIsLoaded

-----------------------------------------------------------------------------
(* COMPLETE means finished. A listener that calls loadNow() while a COMPLETE
   of an item is being handed out finds that item loaded and still connected:
   the item may be chosen as the least urgent one, and loses the status
   "finished". *)

(* The client does not call loadNow() or reload() from a listener. *)
Calm == "noReentry" \in Rules \/ Unforced

(* The inductive invariant: a finished loader holds loaded items only, a
   loaded item has the status "finished", and loadNow() interrupts no other
   call. *)
FinishedInv ==
    /\ isFinished => AllDone
    /\ \A i \in Items : item[i].isLoaded => item[i].status = "finished"
    /\ (\E i \in Items : Top(<<"loadNow", i>>)) => Rest = <<>>

(* What no step takes from an item: being loaded, and the status it then has. *)
LoadedStays(i) ==
    IF item[i].isLoaded THEN item'[i].isLoaded /\ item'[i].status = item[i].status
    ELSE item'[i].isLoaded => item'[i].status = "finished"

(* What the methods of an item do to isLoaded and to its status. *)
LEMMA MethodsKeepLoaded ==
    ASSUME NEW i \in Items, NEW r \in ItemFields
    PROVE  /\ r.isLoaded => StopFields(r) = r /\ PausedFields(r) = r
           /\ StopFields(r).isLoaded = r.isLoaded /\ PausedFields(r).isLoaded = r.isLoaded
           /\ LoadFields(i, r).isLoaded = r.isLoaded /\ Tried(r).isLoaded = r.isLoaded
           /\ Finished(r).isLoaded /\ Finished(r).status = "finished"
           /\ \A st \in Statuses : SetStatus(r, st).isLoaded = r.isLoaded
           /\ \A p \in Int : /\ SetPriority(r, p).isLoaded = r.isLoaded
                             /\ SetPriority(r, p).status = r.status
                             /\ \A n \in Nat : /\ SetIndex(SetPriority(r, p), n).isLoaded = r.isLoaded
                                               /\ SetIndex(SetPriority(r, p), n).status = r.status
<1>1. r.isLoaded => StopFields(r) = r /\ PausedFields(r) = r
  BY DEF StopFields, PausedFields
<1>2. /\ LoadFields(i, r).isLoaded = r.isLoaded /\ Tried(r).isLoaded = r.isLoaded
      /\ Finished(r).isLoaded /\ Finished(r).status = "finished"
      /\ \A st \in Statuses : SetStatus(r, st).isLoaded = r.isLoaded
  BY DEF LoadFields, Tried, Finished, SetStatus, ItemFields
<1>3. \A p \in Int : /\ SetPriority(r, p).isLoaded = r.isLoaded
                     /\ SetPriority(r, p).status = r.status
                     /\ \A n \in Nat : /\ SetIndex(SetPriority(r, p), n).isLoaded = r.isLoaded
                                       /\ SetIndex(SetPriority(r, p), n).status = r.status
  BY DEF SetPriority, SetIndex, ItemFields
<1> QED BY <1>1, <1>2, <1>3, StopIndex

(* A step that changes one item, which it does not find loaded or leaves as it is. *)
LEMMA OneLoadedStays ==
    ASSUME TypeOK, NEW i \in Items, NEW r, item' = [item EXCEPT ![i] = r],
           \/ item[i].isLoaded /\ r.isLoaded /\ r.status = item[i].status
           \/ ~item[i].isLoaded /\ (r.isLoaded => r.status = "finished")
    PROVE  \A j \in Items : LoadedStays(j)
<1>1. item'[i] = r /\ \A j \in Items : j # i => item'[j] = item[j]
  BY DEF TypeOK
<1>2. LoadedStays(i)
  BY <1>1 DEF LoadedStays
<1>3. \A j \in Items : j # i => LoadedStays(j)
  BY <1>1 DEF LoadedStays
<1> QED BY <1>2, <1>3

(* No loadNow() outside another call finds a loaded item among its victims. *)
LEMMA VictimsNotLoaded ==
    ASSUME TameInv, NEW i \in Items, Top(<<"loadNow", i>>), Rest = <<>>,
           NEW v \in Victims(connections)
    PROVE  ~item[v].isLoaded /\ v \in Items
<1>1. v \in Items /\ v \in Opened
  BY DEF Victims, EntriesOf, Opened
<1>2. FramesOf(todo) = {<<"loadNow", i>>}
  <2>1. todo # <<>> /\ Head(todo) = <<"loadNow", i>>
    BY DEF Top
  <2>2. FramesOf(todo) = {Head(todo)} \cup FramesOf(Rest)
    BY <2>1, Hurries DEF TameInv
  <2>3. FramesOf(Rest) = {}
    BY DEF FramesOf
  <2> QED BY <2>1, <2>2, <2>3
<1>3. ~Owed(v)
  BY <1>2 DEF Owed, ItemFrames
<1> QED BY <1>1, <1>3 DEF TameInv, Accounted

(* No frame of a call takes that from an item. *)
LEMMA LoadedStaysInSteps ==
    ASSUME TameInv, FinishedInv, Step PROVE \A j \in Items : LoadedStays(j)
<1>0. /\ TypeOK /\ item \in [Items -> ItemFields] /\ \A i \in Items : item[i] \in ItemFields
  BY DEF TameInv, TypeOK
<1>u. UNCHANGED item => \A j \in Items : LoadedStays(j)
  BY DEF LoadedStays, FinishedInv
<1>1. CASE LoadNext
  <2>1. ASSUME NEW i \in NextItemToLoad(Purged(connections)),
               item' = [item EXCEPT ![i] = LoadFields(i, @)]
        PROVE  \A j \in Items : LoadedStays(j)
    <3>1. i \in Items /\ ~item[i].isLoading
      BY <1>0 DEF NextItemToLoad, Candidates, Waiting, TypeOK
    <3>2. ~item[i].isLoaded
      BY <3>1 DEF TameInv, Accounted
    <3>3. ~LoadFields(i, item[i]).isLoaded
      BY <1>0, <3>1, <3>2, MethodsKeepLoaded
    <3> QED BY <1>0, <2>1, <3>1, <3>2, <3>3, OneLoadedStays
  <2> QED BY <1>1, <1>u, <2>1 DEF LoadNext, OpenConnection
<1>2. ASSUME NEW i \in Items, ForceLoad(i) PROVE \A j \in Items : LoadedStays(j)
  <2>1. ~item[i].isLoaded
    BY <1>2 DEF ForceLoad, TameInv, TopOK, Accounted
  <2>2. UNCHANGED item \/ item' = [item EXCEPT ![i] = LoadFields(i, @)]
    BY <1>2 DEF ForceLoad, OpenConnection
  <2> QED BY <1>0, <1>u, <2>1, <2>2, MethodsKeepLoaded, OneLoadedStays
<1>3. ASSUME NEW i \in Items, LoadNow(i) PROVE \A j \in Items : LoadedStays(j)
  <2>1. Top(<<"loadNow", i>>) /\ Rest = <<>> /\ ~item[i].isLoading /\ i \in Queued /\ ~item[i].isLoaded
    BY <1>3 DEF LoadNow, FinishedInv, TameInv, TopOK, Accounted
  <2>2. \A p \in HighestPriority : p \in Int
    <3>1. \A j \in Queued : item[j].priority \in Int
      BY <1>0, QueueTypes DEF ItemFields
    <3> QED BY <3>1 DEF HighestPriority, MinInt
  <2>3. ASSUME NEW p \in HighestPriority, item' = [item EXCEPT ![i] = SetPriority(@, p)]
        PROVE  \A j \in Items : LoadedStays(j)
    <3>1. ~SetPriority(item[i], p).isLoaded
      BY <1>0, <2>1, <2>2, MethodsKeepLoaded
    <3> QED BY <1>0, <2>1, <2>3, <3>1, OneLoadedStays
  <2>4. ASSUME NEW p \in HighestPriority, NEW v \in Victims(connections),
               item' = [WithoutVictim(v) EXCEPT ![i] = SetPriority(@, p)]
        PROVE  \A j \in Items : LoadedStays(j)
    <3>1. v \in Items /\ ~item[v].isLoaded
      BY <2>1, VictimsNotLoaded
    <3>2. v # i
      BY <2>1, <3>1 DEF Victims, EntriesOf, TameInv, Accounted, Opened
    <3>3. /\ item'[v] = SetStatus(PausedFields(item[v]), "null")
          /\ item'[i] = SetPriority(item[i], p)
          /\ \A j \in Items : j # i /\ j # v => item'[j] = item[j]
      BY <1>0, <2>4, <3>1, <3>2 DEF WithoutVictim
    <3>4. ~item'[v].isLoaded
      <4>1. PausedFields(item[v]) \in ItemFields /\ ~PausedFields(item[v]).isLoaded
        BY <1>0, <3>1, FieldTypes, MethodsKeepLoaded
      <4> QED BY <3>1, <3>3, <4>1, MethodsKeepLoaded DEF Statuses
    <3>5. ~item'[i].isLoaded
      BY <1>0, <2>1, <2>2, <3>3, MethodsKeepLoaded
    <3> QED BY <2>1, <3>1, <3>3, <3>4, <3>5 DEF LoadedStays
  <2> QED BY <1>3, <1>u, <2>3, <2>4 DEF LoadNow
<1>4. ASSUME NEW i \in Items, Finish(i) PROVE \A j \in Items : LoadedStays(j)
  <2>1. ~item[i].isLoaded
    BY <1>4 DEF Finish, TameInv, TopOK
  <2>2. item' = [item EXCEPT ![i] = Finished(@)] /\ Finished(item[i]).status = "finished"
    BY <1>0, <1>4, MethodsKeepLoaded DEF Finish
  <2> QED BY <1>0, <2>1, <2>2, OneLoadedStays
<1>5. ASSUME NEW i \in Items, ItemComplete(i) \/ ItemError(i) PROVE \A j \in Items : LoadedStays(j)
  BY <1>5, <1>u DEF ItemComplete, ItemError
<1>6. ASSUME NEW i \in Items, RemoveItem(i) PROVE \A j \in Items : LoadedStays(j)
  BY <1>0, <1>6, MethodsKeepLoaded, OneLoadedStays DEF RemoveItem
<1>7. CASE AllLoaded \/ Complete \/ Started \/ ContentTaken \/ Return
  BY <1>7, <1>u DEF AllLoaded, Complete, Started, ContentTaken, Return
<1>8. ASSUME NEW k \in 1..Cardinality(Items) + 1, NEW n \in 0..Cardinality(Items),
             ResumeNext(k, n)
      PROVE  \A j \in Items : LoadedStays(j)
  <2>1. Cardinality(Items) \in Nat
    BY ItemsAssumption, FS_CardinalityType
  <2>2. CASE /\ k <= Len(items) /\ item[items[k]].status = "stopped"
             /\ item' = [item EXCEPT ![items[k]] = SetStatus(@, "null")]
    <3>1. items[k] \in Items
      BY <1>0, <2>1, <2>2 DEF TypeOK
    <3>2. ~item[items[k]].isLoaded
      BY <2>2, <3>1 DEF FinishedInv
    <3>3. ~SetStatus(item[items[k]], "null").isLoaded
      BY <1>0, <3>1, <3>2, MethodsKeepLoaded DEF Statuses
    <3> QED BY <1>0, <2>2, <3>1, <3>2, <3>3, OneLoadedStays
  <2> QED BY <1>8, <1>u, <2>2 DEF ResumeNext
<1> QED BY <1>1, <1>2, <1>3, <1>4, <1>5, <1>6, <1>7, <1>8 DEF Step

(* No call of the client does. *)
LEMMA LoadedStaysInCalls ==
    ASSUME Tame, TameInv, FinishedInv, Client PROVE \A j \in Items : LoadedStays(j)
<1>0. /\ TypeOK /\ item \in [Items -> ItemFields] /\ \A i \in Items : item[i] \in ItemFields
  BY DEF TameInv, TypeOK
<1>u. UNCHANGED item => \A j \in Items : LoadedStays(j)
  BY DEF LoadedStays, FinishedInv
<1>1. CASE PauseAll
  BY <1>0, <1>1, MethodsKeepLoaded DEF PauseAll, LoadedStays
<1>2. CASE RemoveAll \/ Clear
  BY <1>0, <1>2, MethodsKeepLoaded DEF RemoveAll, Clear, Emptied, LoadedStays
<1>3. CASE \/ ResumeAll \/ RemovePausedItems \/ RemoveFailedItems
           \/ \E n \in Limits : Start(n)
           \/ \E i \in Items : CallLoadNow(i) \/ CallRemove(i) \/ TakeContent(i)
  BY <1>3, <1>u DEF ResumeAll, RemovePausedItems, RemoveFailedItems, RemoveAllWith, Start,
                    CallLoadNow, CallRemove, TakeContent
<1>4. ASSUME NEW i \in Items, Reload(i) PROVE \A j \in Items : LoadedStays(j)
  <2>1. ~item[i].isLoaded /\ additionIndex \in Nat
    BY <1>0, <1>4 DEF Reload, Call, Tame, TypeOK
  <2>2. StopFields(item[i]) \in ItemFields /\ ~StopFields(item[i]).isLoaded
    BY <1>0, <2>1, FieldTypes, MethodsKeepLoaded
  <2>3. ~SetIndex(SetStatus(StopFields(item[i]), "null"), additionIndex).isLoaded
    BY <2>1, <2>2 DEF SetIndex, SetStatus, ItemFields
  <2> QED BY <1>0, <1>4, <2>1, <2>3, OneLoadedStays DEF Reload
<1>5. ASSUME NEW i \in Items, Resume(i) PROVE \A j \in Items : LoadedStays(j)
  <2>1. CASE item[i].status = "stopped"
    <3>1. ~item[i].isLoaded
      BY <2>1 DEF FinishedInv
    <3> QED BY <1>0, <1>5, <2>1, <3>1, MethodsKeepLoaded, OneLoadedStays DEF Resume, Statuses
  <2> QED BY <1>5, <1>u, <2>1 DEF Resume
<1>6. ASSUME NEW i \in Items, NEW b \in BOOLEAN, Pause(i, b) PROVE \A j \in Items : LoadedStays(j)
  BY <1>0, <1>6, MethodsKeepLoaded, OneLoadedStays DEF Pause
<1>7. ASSUME NEW i \in Items, NEW p \in Priorities, Add(i, p) \/ ChangePriority(i, p)
      PROVE  \A j \in Items : LoadedStays(j)
  <2>1. p \in Int /\ additionIndex + 1 \in Nat
    BY <1>0, BoundsAssumption DEF TypeOK
  <2>2. PICK r : /\ item' = [item EXCEPT ![i] = r]
                 /\ r.isLoaded = item[i].isLoaded /\ r.status = item[i].status
    BY <1>0, <1>7, <2>1, MethodsKeepLoaded DEF Add, ChangePriority
  <2> QED BY <1>0, <2>2, OneLoadedStays DEF FinishedInv, ItemFields
<1> QED BY <1>1, <1>2, <1>3, <1>4, <1>5, <1>6, <1>7 DEF Client

(* No event of a transfer does: a loaded item has none. *)
LEMMA LoadedStaysInEvents ==
    ASSUME TameInv, NEW i \in Items, NetEvent(i) PROVE \A j \in Items : LoadedStays(j)
<1>0. TypeOK /\ item[i] \in ItemFields
  BY DEF TameInv, TypeOK
<1>1. PICK k \in Slots(i) : \/ NetOpen(i, k) \/ NetComplete(i, k) \/ NetError(i, k)
                            \/ NetSecurityError(i, k) \/ NetUnheard(i, k)
  BY DEF NetEvent
<1>2. Transfer(i, k) = net[i].loader /\ Transfer(i, k) # "deaf"
  BY OnlySlotZero
<1>3. ~item[i].isLoaded
  <2>1. Audible(i)
    BY <1>1, <1>2 DEF NetOpen, NetComplete, NetError, NetSecurityError, NetUnheard, Audible, Heard
  <2> QED BY <2>1 DEF TameInv, Accounted
<1>4. \/ UNCHANGED item
      \/ \E st \in Statuses : \/ item' = [item EXCEPT ![i] = SetStatus(@, st)]
                              \/ item' = [item EXCEPT ![i] = SetStatus(Tried(@), st)]
                              \/ item' = [item EXCEPT ![i] = LoadFields(i, SetStatus(Tried(@), st))]
  BY <1>1 DEF NetOpen, NetComplete, NetError, NetSecurityError, NetUnheard, Statuses
<1>5. Tried(item[i]) \in ItemFields /\ \A st \in Statuses : SetStatus(Tried(item[i]), st) \in ItemFields
  BY <1>0, FieldTypes
<1>6. CASE UNCHANGED item
  BY <1>6 DEF LoadedStays, TameInv, Accounted
<1> QED BY <1>0, <1>3, <1>4, <1>5, <1>6, MethodsKeepLoaded, OneLoadedStays

(* COMPLETE is announced of a queue that is all done, and nothing enters the queue
   of a finished loader but through add() and reload(). *)
LEMMA FinishShape ==
    ASSUME TameInv, [Next]_vars, isFinished'
    PROVE  (isFinished \/ AllDone) /\ Queued' \subseteq Queued
<1>s. items' = items => Queued' \subseteq Queued
  BY DEF Queued
<1>1. CASE LoadNext \/ Complete \/ Started \/ ContentTaken \/ Return \/ AllLoaded
  BY <1>1, <1>s DEF LoadNext, Complete, Started, ContentTaken, Return, AllLoaded, queueVars, flagVars
<1>2. ASSUME NEW i \in Items, \/ ForceLoad(i) \/ LoadNow(i) \/ Finish(i)
                              \/ ItemComplete(i) \/ ItemError(i)
      PROVE  isFinished /\ Queued' \subseteq Queued
  BY <1>2, <1>s DEF ForceLoad, LoadNow, Finish, ItemComplete, ItemError, queueVars, flagVars
<1>3. ASSUME NEW i \in Items, RemoveItem(i) PROVE isFinished /\ Queued' \subseteq Queued
  BY <1>3, RemovedFromQueue DEF RemoveItem, TameInv, QueueOK, flagVars
<1>4. ASSUME NEW k, NEW n, ResumeNext(k, n) PROVE isFinished /\ Queued' \subseteq Queued
  BY <1>4, <1>s DEF ResumeNext, queueVars
<1>5. Step => (isFinished \/ AllDone) /\ Queued' \subseteq Queued
  BY <1>1, <1>2, <1>3, <1>4 DEF Step
<1>6. CASE PauseAll \/ ResumeAll \/ RemovePausedItems \/ RemoveFailedItems \/ \E n \in Limits : Start(n)
  BY <1>6, <1>s DEF PauseAll, ResumeAll, RemovePausedItems, RemoveFailedItems, RemoveAllWith,
                    Start, queueVars, flagVars
<1>7. CASE RemoveAll \/ Clear
  <2>1. Queued' = {}
    <3>1. items' = <<>> /\ Len(items') = 0
      BY <1>7 DEF RemoveAll, Clear, Emptied
    <3> QED BY <3>1 DEF Queued
  <2> QED BY <1>7, <2>1 DEF RemoveAll, Clear, flagVars
<1>8. ASSUME NEW i \in Items, CallLoadNow(i) \/ Resume(i) \/ CallRemove(i) \/ TakeContent(i)
      PROVE  isFinished /\ Queued' \subseteq Queued
  BY <1>8, <1>s DEF CallLoadNow, Resume, CallRemove, TakeContent, queueVars, flagVars
<1>9. ASSUME NEW i \in Items, NEW b \in BOOLEAN, Pause(i, b)
      PROVE  isFinished /\ Queued' \subseteq Queued
  BY <1>9, <1>s DEF Pause, queueVars, flagVars
<1>10. ASSUME NEW i \in Items, NEW p \in Priorities, ChangePriority(i, p)
       PROVE  isFinished /\ Queued' \subseteq Queued
  <2>1. Queued \in SUBSET Items
    BY QueueTypes DEF TameInv
  <2> QED BY <1>10, <2>1, SortedQueued DEF ChangePriority, flagVars
<1>11. ASSUME NEW i \in Items, Reload(i) \/ \E p \in Priorities : Add(i, p) PROVE FALSE
  BY <1>11 DEF Reload, Add
<1>12. Client => (isFinished \/ AllDone) /\ Queued' \subseteq Queued
  BY <1>6, <1>7, <1>8, <1>9, <1>10, <1>11 DEF Client
<1>13. ASSUME NEW i \in Items, NetEvent(i) PROVE isFinished /\ Queued' \subseteq Queued
  BY <1>13, <1>s DEF NetEvent, queueVars, flagVars
<1>14. UNCHANGED vars => isFinished /\ Queued' \subseteq Queued
  BY <1>s DEF vars
<1> QED BY <1>5, <1>12, <1>13, <1>14 DEF Next

(* loadNow() comes to run only as the call the client has just made. *)
LEMMA LoadNowIsSummoned ==
    ASSUME TameInv, TameInv', [Next]_vars, NEW i \in Items, Top(<<"loadNow", i>>)'
    PROVE  Summons \/ UNCHANGED vars
<1>1. /\ todo \in Seq(Frames) /\ (todo # <<>> => Rest \in Seq(Frames))
      /\ Head(todo') = <<"loadNow", i>>
  BY Hurries DEF TameInv, TypeOK, Top
<1>2. ~Forces
  <2>1. ASSUME NEW j \in Items, todo # <<>>, todo' = <<<<"force", j>>>> \o Rest PROVE FALSE
    <3>1. Head(todo') = <<"force", j>>
      BY <1>1, <2>1, FrameTypes, FramesOfFront
    <3> QED BY <1>1, <3>1
  <2> QED BY <2>1 DEF Forces
<1> QED BY <1>2, FrameShape, NotGoneOnTo DEF TameInv

(* No step takes being loaded from an item, and only onCompleteHandler gives
   it. *)
LoadedKept(i) ==
    /\ item[i].isLoaded => item'[i].isLoaded
    /\ item'[i].isLoaded => item[i].isLoaded \/ Finish(i)

(* A step that changes one item and leaves it loaded if and only if it was. *)
LEMMA OneLoadedKept ==
    ASSUME TypeOK, NEW i \in Items, NEW r, item' = [item EXCEPT ![i] = r],
           item[i].isLoaded => r.isLoaded, r.isLoaded => item[i].isLoaded \/ Finish(i)
    PROVE  \A j \in Items : LoadedKept(j)
BY DEF TypeOK, LoadedKept

(* No frame of a call takes being loaded from an item. *)
LEMMA LoadedKeptInSteps ==
    ASSUME TypeOK, Step PROVE \A j \in Items : LoadedKept(j)
<1>0. item \in [Items -> ItemFields] /\ \A i \in Items : item[i] \in ItemFields
  BY DEF TypeOK
<1>u. UNCHANGED item => \A j \in Items : LoadedKept(j)
  BY DEF LoadedKept
<1>1. CASE LoadNext
  <2>1. ASSUME NEW i \in NextItemToLoad(Purged(connections)),
               item' = [item EXCEPT ![i] = LoadFields(i, @)]
        PROVE  \A j \in Items : LoadedKept(j)
    <3>1. i \in Items
      BY DEF NextItemToLoad, Candidates, TypeOK
    <3>2. LoadFields(i, item[i]).isLoaded = item[i].isLoaded
      BY <1>0, <3>1, MethodsKeepLoaded
    <3> QED BY <2>1, <3>1, <3>2, OneLoadedKept
  <2> QED BY <1>1, <1>u, <2>1 DEF LoadNext, OpenConnection
<1>2. ASSUME NEW i \in Items, ForceLoad(i) PROVE \A j \in Items : LoadedKept(j)
  <2>1. UNCHANGED item \/ item' = [item EXCEPT ![i] = LoadFields(i, @)]
    BY <1>2 DEF ForceLoad, OpenConnection
  <2> QED BY <1>0, <1>u, <2>1, MethodsKeepLoaded, OneLoadedKept
<1>3. ASSUME NEW i \in Items, LoadNow(i) PROVE \A j \in Items : LoadedKept(j)
  <2>2. \A p \in HighestPriority : p \in Int
    <3>1. \A j \in Queued : item[j].priority \in Int
      BY <1>0, QueueTypes DEF ItemFields
    <3> QED BY <3>1 DEF HighestPriority, MinInt
  <2>3. ASSUME NEW p \in HighestPriority, item' = [item EXCEPT ![i] = SetPriority(@, p)]
        PROVE  \A j \in Items : LoadedKept(j)
    <3>1. SetPriority(item[i], p).isLoaded = item[i].isLoaded
      BY <1>0, <2>2, MethodsKeepLoaded
    <3> QED BY <2>3, <3>1, OneLoadedKept
  <2>4. ASSUME NEW p \in HighestPriority, NEW v \in Victims(connections),
               item' = [WithoutVictim(v) EXCEPT ![i] = SetPriority(@, p)]
        PROVE  \A j \in Items : LoadedKept(j)
    <3> DEFINE w == SetStatus(PausedFields(item[v]), "null")
    <3>1. v \in Items
      BY DEF Victims
    <3>2. w \in ItemFields /\ w.isLoaded = item[v].isLoaded
      BY <1>0, <3>1, FieldTypes, MethodsKeepLoaded DEF Statuses
    <3>3. WithoutVictim(v) \in [Items -> ItemFields]
          /\ \A j \in Items : WithoutVictim(v)[j].isLoaded = item[j].isLoaded
      BY <1>0, <3>1, <3>2 DEF WithoutVictim
    <3>4. SetPriority(WithoutVictim(v)[i], p).isLoaded = WithoutVictim(v)[i].isLoaded
      BY <2>2, <3>3, MethodsKeepLoaded
    <3>5. \A j \in Items : item'[j].isLoaded = item[j].isLoaded
      BY <2>4, <3>3, <3>4
    <3> QED BY <3>5 DEF LoadedKept
  <2> QED BY <1>3, <1>u, <2>3, <2>4 DEF LoadNow
<1>4. ASSUME NEW i \in Items, Finish(i) PROVE \A j \in Items : LoadedKept(j)
  <2>1. item' = [item EXCEPT ![i] = Finished(@)]
    BY <1>4 DEF Finish
  <2>2. Finished(item[i]).isLoaded
    BY <1>0, MethodsKeepLoaded
  <2> QED BY <1>4, <2>1, <2>2, OneLoadedKept
<1>5. ASSUME NEW i \in Items, ItemComplete(i) \/ ItemError(i) PROVE \A j \in Items : LoadedKept(j)
  BY <1>5, <1>u DEF ItemComplete, ItemError
<1>6. ASSUME NEW i \in Items, RemoveItem(i) PROVE \A j \in Items : LoadedKept(j)
  <2>1. item' = [item EXCEPT ![i] = StopFields(@)]
    BY <1>6 DEF RemoveItem
  <2> QED BY <1>0, <2>1, MethodsKeepLoaded, OneLoadedKept
<1>7. CASE AllLoaded \/ Complete \/ Started \/ ContentTaken \/ Return
  BY <1>7, <1>u DEF AllLoaded, Complete, Started, ContentTaken, Return
<1>8. ASSUME NEW k \in 1..Cardinality(Items) + 1, NEW n \in 0..Cardinality(Items),
             ResumeNext(k, n)
      PROVE  \A j \in Items : LoadedKept(j)
  <2>1. Cardinality(Items) \in Nat
    BY ItemsAssumption, FS_CardinalityType
  <2>2. CASE k <= Len(items) /\ item' = [item EXCEPT ![items[k]] = SetStatus(@, "null")]
    <3>1. items[k] \in Items
      BY <2>1, <2>2 DEF TypeOK
    <3>2. SetStatus(item[items[k]], "null").isLoaded = item[items[k]].isLoaded
      BY <1>0, <3>1, MethodsKeepLoaded DEF Statuses
    <3> QED BY <2>2, <3>1, <3>2, OneLoadedKept
  <2> QED BY <1>8, <1>u, <2>2 DEF ResumeNext
<1> QED BY <1>1, <1>2, <1>3, <1>4, <1>5, <1>6, <1>7, <1>8 DEF Step

(* No call of the client does. *)
LEMMA LoadedKeptInCalls ==
    ASSUME TypeOK, Client PROVE \A j \in Items : LoadedKept(j)
<1>0. item \in [Items -> ItemFields] /\ \A i \in Items : item[i] \in ItemFields
  BY DEF TypeOK
<1>u. UNCHANGED item => \A j \in Items : LoadedKept(j)
  BY DEF LoadedKept
<1>1. CASE PauseAll
  BY <1>0, <1>1, MethodsKeepLoaded DEF PauseAll, LoadedKept
<1>2. CASE RemoveAll \/ Clear
  BY <1>0, <1>2, MethodsKeepLoaded DEF RemoveAll, Clear, Emptied, LoadedKept
<1>3. CASE \/ ResumeAll \/ RemovePausedItems \/ RemoveFailedItems
           \/ \E n \in Limits : Start(n)
           \/ \E i \in Items : CallLoadNow(i) \/ CallRemove(i) \/ TakeContent(i)
  BY <1>3, <1>u DEF ResumeAll, RemovePausedItems, RemoveFailedItems, RemoveAllWith, Start,
                    CallLoadNow, CallRemove, TakeContent
<1>4. ASSUME NEW i \in Items, Reload(i) PROVE \A j \in Items : LoadedKept(j)
  <2> DEFINE s == SetStatus(StopFields(item[i]), "null")
  <2>1. StopFields(item[i]) \in ItemFields /\ StopFields(item[i]).isLoaded = item[i].isLoaded
    BY <1>0, FieldTypes, MethodsKeepLoaded
  <2>2. s \in ItemFields /\ s.isLoaded = item[i].isLoaded
    BY <2>1, FieldTypes, MethodsKeepLoaded DEF Statuses
  <2>3. item' = [item EXCEPT ![i] = SetIndex(s, additionIndex)] /\ additionIndex \in Nat
    BY <1>4 DEF Reload, TypeOK
  <2> HIDE DEF s
  <2>4. SetIndex(s, additionIndex).isLoaded = s.isLoaded
    BY <2>2 DEF SetIndex, ItemFields
  <2> QED BY <2>2, <2>3, <2>4, OneLoadedKept
<1>5. ASSUME NEW i \in Items, Resume(i) PROVE \A j \in Items : LoadedKept(j)
  <2>1. UNCHANGED item \/ item' = [item EXCEPT ![i] = SetStatus(@, "null")]
    BY <1>5 DEF Resume
  <2> QED BY <1>0, <1>u, <2>1, MethodsKeepLoaded, OneLoadedKept DEF Statuses
<1>6. ASSUME NEW i \in Items, NEW b \in BOOLEAN, Pause(i, b) PROVE \A j \in Items : LoadedKept(j)
  <2>1. item' = [item EXCEPT ![i] = PausedFields(@)]
    BY <1>6 DEF Pause
  <2> QED BY <1>0, <2>1, MethodsKeepLoaded, OneLoadedKept
<1>7. ASSUME NEW i \in Items, NEW p \in Priorities, Add(i, p) \/ ChangePriority(i, p)
      PROVE  \A j \in Items : LoadedKept(j)
  <2>1. p \in Int /\ additionIndex + 1 \in Nat
    BY BoundsAssumption DEF TypeOK
  <2>2. PICK r : item' = [item EXCEPT ![i] = r] /\ r.isLoaded = item[i].isLoaded
    BY <1>0, <1>7, <2>1, MethodsKeepLoaded DEF Add, ChangePriority
  <2> QED BY <2>2, OneLoadedKept
<1> QED BY <1>1, <1>2, <1>3, <1>4, <1>5, <1>6, <1>7 DEF Client

(* No event of a transfer does: a loaded item has none. *)
LEMMA LoadedKeptInEvents ==
    ASSUME TameInv, NEW i \in Items, NetEvent(i) PROVE \A j \in Items : LoadedKept(j)
<1>0. TypeOK /\ item[i] \in ItemFields
  BY DEF TameInv, TypeOK
<1>1. PICK k \in Slots(i) : \/ NetOpen(i, k) \/ NetComplete(i, k) \/ NetError(i, k)
                            \/ NetSecurityError(i, k) \/ NetUnheard(i, k)
  BY DEF NetEvent
<1>2. Transfer(i, k) = net[i].loader /\ Transfer(i, k) # "deaf"
  BY OnlySlotZero
<1>3. ~item[i].isLoaded
  <2>1. Audible(i)
    BY <1>1, <1>2 DEF NetOpen, NetComplete, NetError, NetSecurityError, NetUnheard, Audible, Heard
  <2> QED BY <2>1 DEF TameInv, Accounted
<1>4. \/ UNCHANGED item
      \/ \E st \in Statuses : \/ item' = [item EXCEPT ![i] = SetStatus(@, st)]
                              \/ item' = [item EXCEPT ![i] = SetStatus(Tried(@), st)]
                              \/ item' = [item EXCEPT ![i] = LoadFields(i, SetStatus(Tried(@), st))]
  BY <1>1 DEF NetOpen, NetComplete, NetError, NetSecurityError, NetUnheard, Statuses
<1>5. Tried(item[i]) \in ItemFields /\ \A st \in Statuses : SetStatus(Tried(item[i]), st) \in ItemFields
  BY <1>0, FieldTypes
<1>6. CASE UNCHANGED item
  BY <1>6 DEF LoadedKept
<1> QED BY <1>0, <1>3, <1>4, <1>5, <1>6, MethodsKeepLoaded, OneLoadedKept

(* A finished loader stays all loaded, whoever calls what. *)
LEMMA DoneStep ==
    ASSUME TameInv, isFinished => AllDone, [Next]_vars PROVE isFinished' => AllDone'
<1> SUFFICES ASSUME isFinished' PROVE AllDone'
  OBVIOUS
<1>1. \A j \in Items : LoadedKept(j)
  <2>1. UNCHANGED vars => \A j \in Items : LoadedKept(j)
    BY DEF vars, LoadedKept
  <2> QED BY <2>1, LoadedKeptInSteps, LoadedKeptInCalls, LoadedKeptInEvents DEF Next, TameInv
<1>2. AllDone /\ Queued' \subseteq Queued /\ Queued \subseteq Items
  BY FinishShape, QueueTypes DEF TameInv
<1> QED BY <1>1, <1>2 DEF AllDone, LoadedKept

(* COMPLETE stands for loaded items, for every tame client, also one that calls
   from its listeners: while the loader is finished every item of its queue is
   loaded. What Calm adds below is that their status says so. *)
THEOREM FinishedMeansLoaded ==
    ASSUME Tame PROVE Spec => [](isFinished => AllDone)
<1> DEFINE Done == isFinished => AllDone
<1>1. Init => IInv /\ TameInv /\ Done
  BY InitIInv, TameInit DEF Init
<1>2. IInv /\ TameInv /\ Done /\ [Next]_vars => IInv' /\ TameInv' /\ Done'
  BY TameStep, DoneStep
<1> QED BY <1>1, <1>2, PTL DEF Spec

(* Every step keeps a finished loader all loaded. *)
LEMMA FinishedStep ==
    ASSUME Tame, Calm
    PROVE  IInv /\ TameInv /\ FinishedInv /\ [Next]_vars => IInv' /\ TameInv' /\ FinishedInv'
<1> SUFFICES ASSUME IInv, TameInv, FinishedInv, [Next]_vars
             PROVE  IInv' /\ TameInv' /\ FinishedInv'
  OBVIOUS
<1>1. IInv' /\ TameInv'
  BY TameStep
<1>2. \A j \in Items : LoadedStays(j)
  <2>1. UNCHANGED vars => \A j \in Items : LoadedStays(j)
    BY DEF vars, LoadedStays, FinishedInv
  <2> QED BY <2>1, LoadedStaysInSteps, LoadedStaysInCalls, LoadedStaysInEvents DEF Next
<1>3. \A i \in Items : item'[i].isLoaded => item'[i].status = "finished"
  BY <1>2 DEF LoadedStays, FinishedInv
<1>4. isFinished' => AllDone'
  BY DoneStep DEF FinishedInv
<1>5. ASSUME NEW i \in Items, Top(<<"loadNow", i>>)' PROVE Rest' = <<>>
  <2>1. CASE Summons
    <3>1. PICK j \in Items : /\ CallLoadNow(j) \/ Reload(j)
                             /\ todo' = <<<<"loadNow", j>>>> \o todo
      BY <2>1 DEF Summons
    <3>2. todo = <<>>
      BY <3>1 DEF CallLoadNow, Reload, Call, Calm, Unforced, ClientTurn, Listening
    <3> QED BY <3>1, <3>2 DEF Rest
  <2>2. CASE UNCHANGED vars
    BY <1>5, <2>2 DEF vars, Rest, Top, FinishedInv
  <2> QED BY <1>1, <1>5, <2>1, <2>2, LoadNowIsSummoned
<1> QED BY <1>1, <1>3, <1>4, <1>5 DEF FinishedInv

(* After COMPLETE every item of the queue is finished and none is transferred,
   until add() or reload(), for every tame client that does not call loadNow()
   or reload() from its listeners. *)
THEOREM FinishedMeansFinishedHolds ==
    ASSUME Tame, Calm PROVE Spec => []FinishedMeansFinished
<1>1. Init => IInv /\ TameInv /\ FinishedInv
  <2>1. Init => FinishedInv
    BY DEF Init, FinishedInv, NewItem, Top
  <2> QED BY <2>1, InitIInv, TameInit
<1>2. IInv /\ TameInv /\ FinishedInv /\ [Next]_vars => IInv' /\ TameInv' /\ FinishedInv'
  BY FinishedStep
<1>3. TameInv /\ FinishedInv => FinishedMeansFinished
  BY QueueTypes DEF TameInv, FinishedInv, AllDone, Accounted, Audible, FinishedMeansFinished
<1> QED BY <1>1, <1>2, <1>3, PTL DEF Spec

-----------------------------------------------------------------------------
(* No idle slot. Between two events nobody waits whom the loader could serve;
   in the middle of a call somebody may, but then a frame is left that will
   look at the queue. The invariant therefore follows the frames: which of
   them promise a look, that a removal stays above the look it ends with, and
   that the last lines of start(), which end the pause, come up right after a
   _loadNext(). *)

(* The client makes none of the three calls that let an item wait for a slot and
   do not look at the queue. *)
Diligent == Ops \cap {"remove", "pause", "resume"} = {}

(* The frames that look at the queue, or find the loader paused. *)
Looks == {"loadNext", "contentTaken"}
(* ... and those that lead to one that does. *)
Promising == Looks \cup {"finish", "itemError", "itemComplete", "loadNow", "force"}
(* A look at the queue is still to come. *)
Promised == \E f \in FramesOf(todo) : f[1] \in Promising

(* No item of the queue waits that could be opened. *)
NoneWaits == \A i \in Queued : ~(Waiting(i) /\ CanOpen(connections, i))

(* The loader is busy, or it will look at the queue. *)
Attends == connected /\ ~isPaused => NoneWaits \/ Promised

(* start() ends right below its _loadNext(), and every removal has a look at
   the queue below it. *)
StackOK(s) ==
    /\ \A k \in 2..Len(s) : s[k] = <<"started">> => s[k - 1] = <<"loadNext">>
    /\ \A k \in 1..Len(s) : s[k][1] = "remove" => \E j \in k + 1..Len(s) : s[j][1] \in Looks

(* The inductive invariant: the loader attends to the queue, also when start()
   is about to end the pause, and is finished only when nothing is left to
   load. *)
IdleInv ==
    /\ Attends
    /\ Top(<<"started">>) => NoneWaits
    /\ StackOK(todo)
    /\ isFinished => AllDone

(* The candidates of _getNextItemToLoad are the items that wait and may open.
   *)
LEMMA CandidatesWait ==
    ASSUME NEW C PROVE Candidates(C) = {} <=> \A i \in Queued : ~(Waiting(i) /\ CanOpen(C, i))
BY DEF Candidates, Queued

(* What is left of such a stack without its top frame. *)
LEMMA StackTail ==
    ASSUME NEW s \in Seq(Frames), s # <<>>, StackOK(s)
    PROVE  /\ StackOK(Tail(s))
           /\ Tail(s) # <<>> /\ Head(Tail(s)) = <<"started">> => Head(s) = <<"loadNext">>
           /\ Head(s)[1] = "remove" => \E f \in FramesOf(Tail(s)) : f[1] \in Looks
<1> DEFINE t == Tail(s)
<1>1. /\ t \in Seq(Frames) /\ Len(t) = Len(s) - 1 /\ Len(s) \in Nat /\ Len(s) >= 1
      /\ \A k \in 1..Len(t) : t[k] = s[k + 1]
      /\ Head(s) = s[1]
  OBVIOUS
<1> HIDE DEF t
<1>2. \A k \in 2..Len(t) : t[k] = <<"started">> => t[k - 1] = <<"loadNext">>
  <2> SUFFICES ASSUME NEW k \in 2..Len(t), t[k] = <<"started">> PROVE t[k - 1] = <<"loadNext">>
    OBVIOUS
  <2>1. k + 1 \in 2..Len(s) /\ s[k + 1] = <<"started">> /\ (k + 1) - 1 = k
    BY <1>1
  <2>2. s[k] = <<"loadNext">>
    BY <2>1 DEF StackOK
  <2>3. k - 1 \in 1..Len(t) /\ (k - 1) + 1 = k
    BY <1>1
  <2> QED BY <1>1, <2>2, <2>3
<1>3. \A k \in 1..Len(t) : t[k][1] = "remove" => \E j \in k + 1..Len(t) : t[j][1] \in Looks
  <2> SUFFICES ASSUME NEW k \in 1..Len(t), t[k][1] = "remove"
               PROVE  \E j \in k + 1..Len(t) : t[j][1] \in Looks
    OBVIOUS
  <2>1. k + 1 \in 1..Len(s) /\ s[k + 1][1] = "remove"
    BY <1>1
  <2>2. PICK j \in (k + 1) + 1..Len(s) : s[j][1] \in Looks
    BY <2>1 DEF StackOK
  <2>3. j - 1 \in k + 1..Len(t) /\ j - 1 \in 1..Len(t) /\ (j - 1) + 1 = j
    BY <1>1
  <2>4. t[j - 1] = s[j]
    BY <1>1, <2>3
  <2> QED BY <2>2, <2>3, <2>4
<1>4. ASSUME t # <<>>, Head(t) = <<"started">> PROVE Head(s) = <<"loadNext">>
  <2>1. Len(t) >= 1 /\ Head(t) = t[1]
    BY <1>1, <1>4
  <2>2. 2 \in 2..Len(s) /\ s[2] = <<"started">> /\ 2 - 1 = 1
    BY <1>1, <1>4, <2>1
  <2> QED BY <1>1, <2>2 DEF StackOK
<1>5. ASSUME Head(s)[1] = "remove" PROVE \E f \in FramesOf(t) : f[1] \in Looks
  <2>1. PICK j \in 1 + 1..Len(s) : s[j][1] \in Looks
    BY <1>1, <1>5 DEF StackOK
  <2>2. j - 1 \in 1..Len(t) /\ (j - 1) + 1 = j
    BY <1>1
  <2> QED BY <1>1, <2>1, <2>2 DEF FramesOf
<1> QED BY <1>2, <1>3, <1>4, <1>5 DEF StackOK, t

(* One such stack on another, which does not begin with the end of start(). *)
LEMMA StackPush ==
    ASSUME NEW p \in Seq(Frames), NEW s \in Seq(Frames), StackOK(p), StackOK(s),
           p = <<>> \/ s = <<>> \/ Head(s) # <<"started">>
    PROVE  StackOK(p \o s)
<1> DEFINE u == p \o s
<1>1. /\ u \in Seq(Frames) /\ Len(u) = Len(p) + Len(s) /\ Len(p) \in Nat /\ Len(s) \in Nat
      /\ \A k \in 1..Len(u) : u[k] = IF k <= Len(p) THEN p[k] ELSE s[k - Len(p)]
  BY ConcatProperties
<1>2. p # <<>> /\ s # <<>> => s[1] # <<"started">>
  OBVIOUS
<1> HIDE DEF u
<1>3. \A k \in 2..Len(u) : u[k] = <<"started">> => u[k - 1] = <<"loadNext">>
  <2> SUFFICES ASSUME NEW k \in 2..Len(u), u[k] = <<"started">> PROVE u[k - 1] = <<"loadNext">>
    OBVIOUS
  <2>1. k \in 1..Len(u) /\ k - 1 \in 1..Len(u)
    BY <1>1
  <2>2. CASE k <= Len(p)
    <3>0. k - 1 <= Len(p)
      BY <1>1, <2>1, <2>2
    <3>1. u[k] = p[k] /\ k \in 2..Len(p)
      BY <1>1, <2>1, <2>2
    <3>2. u[k - 1] = p[k - 1]
      BY <1>1, <2>1, <3>0
    <3> QED BY <3>1, <3>2 DEF StackOK
  <2>3. CASE k - 1 > Len(p)
    <3>1. k - Len(p) \in 2..Len(s) /\ (k - 1) - Len(p) = (k - Len(p)) - 1
      BY <1>1, <2>1, <2>3
    <3>2. u[k] = s[k - Len(p)]
      BY <1>1, <2>1, <2>3
    <3>3. u[k - 1] = s[(k - 1) - Len(p)]
      BY <1>1, <2>1, <2>3
    <3> QED BY <3>1, <3>2, <3>3 DEF StackOK
  <2>4. CASE k - 1 = Len(p)
    <3>1. u[k] = s[1] /\ Len(s) >= 1 /\ Len(p) >= 1
      BY <1>1, <2>1, <2>4
    <3>2. p # <<>> /\ s # <<>>
      BY <3>1
    <3> QED BY <1>2, <3>1, <3>2
  <2> QED BY <1>1, <2>2, <2>3, <2>4
<1>4. \A k \in 1..Len(u) : u[k][1] = "remove" => \E j \in k + 1..Len(u) : u[j][1] \in Looks
  <2> SUFFICES ASSUME NEW k \in 1..Len(u), u[k][1] = "remove"
               PROVE  \E j \in k + 1..Len(u) : u[j][1] \in Looks
    OBVIOUS
  <2>1. CASE k <= Len(p)
    <3>1. k \in 1..Len(p) /\ p[k][1] = "remove"
      BY <1>1, <2>1
    <3>2. PICK j \in k + 1..Len(p) : p[j][1] \in Looks
      BY <3>1 DEF StackOK
    <3>3. j \in k + 1..Len(u) /\ j \in 1..Len(u) /\ j <= Len(p)
      BY <1>1
    <3> QED BY <1>1, <3>2, <3>3
  <2>2. CASE k > Len(p)
    <3>1. k - Len(p) \in 1..Len(s) /\ s[k - Len(p)][1] = "remove"
      BY <1>1, <2>2
    <3>2. PICK j \in (k - Len(p)) + 1..Len(s) : s[j][1] \in Looks
      BY <3>1 DEF StackOK
    <3>3. j + Len(p) \in k + 1..Len(u) /\ j + Len(p) \in 1..Len(u) /\ j + Len(p) > Len(p)
          /\ (j + Len(p)) - Len(p) = j
      BY <1>1, <3>1
    <3>4. u[j + Len(p)] = s[j]
      BY <1>1, <3>3
    <3> QED BY <3>2, <3>3, <3>4
  <2> QED BY <1>1, <2>1, <2>2
<1> QED BY <1>3, <1>4 DEF StackOK, u

(* The stacks the handlers push. *)
LEMMA StackModest ==
    ASSUME NEW p \in Seq(Modest) 
    PROVE  StackOK(p) /\ p \in Seq(Frames) /\ \A k \in 1..Len(p) : p[k] # <<"started">>
<1>1. \A k \in 1..Len(p) : p[k] \in Modest
  OBVIOUS
<1>2. \A k \in 1..Len(p) : p[k][1] # "remove" /\ p[k] # <<"started">>
  BY <1>1 DEF Modest
<1>3. p \in Seq(Frames)
  BY DEF Modest, Pushed
<1> QED BY <1>2, <1>3 DEF StackOK

(* One frame that is neither of the two that StackOK speaks of. *)
LEMMA StackSingle ==
    ASSUME NEW f \in Frames, f[1] # "remove"
    PROVE  StackOK(<<f>>) /\ <<f>> \in Seq(Frames) /\ <<f>> # <<>>
<1>1. <<f>> \in Seq(Frames) /\ Len(<<f>>) = 1 /\ <<f>>[1] = f /\ <<f>> # <<>>
  OBVIOUS
<1>2. \A k \in 1..1 : k = 1
  OBVIOUS
<1>3. 2..1 = {}
  OBVIOUS
<1> QED BY <1>1, <1>2, <1>3 DEF StackOK

(* The stacks the removals push. *)
LEMMA StackRemoval ==
    ASSUME NEW p \in Removal PROVE StackOK(p) /\ p \in Seq(Frames) /\ p # <<>> /\ Head(p) # <<"started">>
<1>1. p \in Seq(Frames)
  BY DEF Removal, Pushed
<1>2. PICK r \in Seq({"remove"} \X Items), f \in {<<"loadNext">>, <<"contentTaken">>} : p = r \o <<f>>
  BY DEF Removal
<1>3. /\ Len(p) = Len(r) + 1 /\ Len(r) \in Nat /\ p[Len(p)] = f
      /\ \A k \in 1..Len(r) : p[k] = r[k] /\ r[k] \in {"remove"} \X Items
  BY <1>2
<1>4. f[1] \in Looks /\ f # <<"started">> /\ f[1] # "remove"
  BY DEF Looks
<1>5. \A k \in 1..Len(p) : p[k] # <<"started">>
  <2>1. \A k \in 1..Len(r) : p[k] # <<"started">>
    <3>1. \A x \in {"remove"} \X Items : x # <<"started">>
      OBVIOUS
    <3> QED BY <1>3, <3>1
  <2>2. \A k \in 1..Len(p) : k \in 1..Len(r) \/ k = Len(p)
    BY <1>3
  <2> QED BY <1>3, <1>4, <2>1, <2>2
<1>6. \A k \in 1..Len(p) : p[k][1] = "remove" => \E j \in k + 1..Len(p) : p[j][1] \in Looks
  <2> SUFFICES ASSUME NEW k \in 1..Len(p), p[k][1] = "remove"
               PROVE  \E j \in k + 1..Len(p) : p[j][1] \in Looks
    OBVIOUS
  <2>1. k # Len(p)
    BY <1>3, <1>4
  <2>2. Len(p) \in k + 1..Len(p)
    BY <1>3, <2>1
  <2> QED BY <1>3, <1>4, <2>2
<1>7. p # <<>> /\ Head(p) # <<"started">>
  BY <1>1, <1>3, <1>5
<1> QED BY <1>1, <1>5, <1>6, <1>7 DEF StackOK

(* The top of a stack put on another. *)
LEMMA HeadOfConcat ==
    ASSUME NEW p \in Seq(Frames), NEW s \in Seq(Frames)
    PROVE  /\ p = <<>> => p \o s = s
           /\ p # <<>> => Head(p \o s) = p[1] /\ p \o s # <<>> /\ 1 \in 1..Len(p)
OBVIOUS

(* What a step leaves on the stack: the parts of a removal stay above the look at
   the queue, and start()'s last lines come up only after its _loadNext(). *)
LEMMA StackStep ==
    ASSUME Diligent, TypeOK, IdleInv, [Next]_vars
    PROVE  StackOK(todo') /\ (Top(<<"started">>)' => LoadNext \/ UNCHANGED vars)
<1>0. todo \in Seq(Frames) /\ StackOK(todo)
  BY DEF TypeOK, IdleInv
<1>1. ASSUME NEW p \in Seq(Modest), NEW s \in Seq(Frames), StackOK(s), todo' = p \o s,
             s = <<>> \/ Head(s) # <<"started">>
      PROVE  StackOK(todo') /\ ~Top(<<"started">>)'
  <2>1. StackOK(p) /\ p \in Seq(Frames) /\ \A k \in 1..Len(p) : p[k] # <<"started">>
    BY StackModest
  <2>2. StackOK(todo')
    BY <1>1, <2>1, StackPush
  <2> QED BY <1>1, <2>1, <2>2, HeadOfConcat DEF Top
<1>f. ASSUME NEW f \in Frames, f[1] \notin {"remove", "started"}, NEW s \in Seq(Frames),
             StackOK(s), todo' = <<f>> \o s, s = <<>> \/ Head(s) # <<"started">>
      PROVE  StackOK(todo') /\ ~Top(<<"started">>)'
  <2>1. StackOK(<<f>>) /\ <<f>> \in Seq(Frames) /\ <<f>> # <<>>
    BY <1>f, StackSingle
  <2>2. StackOK(todo')
    BY <1>f, <2>1, StackPush
  <2>3. Head(todo') = f /\ f # <<"started">>
    BY <1>f, <2>1
  <2> QED BY <2>2, <2>3 DEF Top
<1>2. CASE UNCHANGED vars
  BY <1>0, <1>2 DEF vars
<1>3. CASE LoadNext
  <2>1. Top(<<"loadNext">>) /\ StackOK(Rest) /\ Head(todo) # <<"started">>
    BY <1>0, <1>3, StackTail DEF LoadNext, Top, Rest
  <2>2. todo' = Rest \/ \E i \in Items : todo' = LoadFrames(i) \o todo
    <3>1. NextItemToLoad(Purged(connections)) \subseteq Items
      BY DEF NextItemToLoad, Candidates, TypeOK
    <3> QED BY <1>3, <3>1 DEF LoadNext
  <2> QED BY <1>0, <1>1, <1>3, <2>1, <2>2, ModestItemFrames
<1>4. ASSUME Step \/ \E i \in Items : NetEvent(i), ~LoadNext, ~UNCHANGED vars
      PROVE  StackOK(todo') /\ ~Top(<<"started">>)'
  <2>1. ASSUME NEW p \in Seq(Modest), GoesOn(p) PROVE StackOK(todo') /\ ~Top(<<"started">>)'
    <3>1. CASE todo # <<>> /\ todo' = p \o Rest
      <4>1. ~Top(<<"loadNext">>)
        BY <1>4, LoadNextOnTop
      <4>2. Head(todo) # <<"loadNext">>
        BY <3>1, <4>1 DEF Top
      <4>3. Rest \in Seq(Frames)
        BY <1>0, <3>1, FramesOfTop DEF Rest
      <4>4. StackOK(Rest) /\ (Rest # <<>> => Head(Rest) # <<"started">>)
        BY <1>0, <3>1, <4>2, StackTail DEF Rest
      <4> QED BY <1>1, <3>1, <4>3, <4>4
    <3>2. CASE /\ todo = <<>> \/ Head(todo) \in {<<"listeners">>, <<"loadNext">>}
               /\ todo' = p \o todo
      <4>1. todo = <<>> \/ Head(todo) # <<"started">>
        BY <3>2
      <4> QED BY <1>0, <1>1, <3>2, <4>1
    <3> QED BY <2>1, <3>1, <3>2 DEF GoesOn
  <2>2. CASE Forces
    <3>1. PICK i \in Items : Top(<<"loadNow", i>>) /\ todo' = <<<<"force", i>>>> \o Rest
      BY <2>2 DEF Forces, LoadNow
    <3>2. todo # <<>> /\ Head(todo) = <<"loadNow", i>> /\ Rest \in Seq(Frames)
      BY <3>1, TopRest
    <3>3. StackOK(Rest) /\ (Rest # <<>> => Head(Rest) # <<"started">>)
      BY <1>0, <3>2, StackTail DEF Rest
    <3>4. <<"force", i>> \in Frames
      BY DEF Frames
    <3> QED BY <1>f, <3>1, <3>2, <3>3, <3>4
  <2> QED BY <1>4, <2>1, <2>2, StepHandles, EventHandles DEF Handles
<1>5. ASSUME Client PROVE StackOK(todo') /\ ~Top(<<"started">>)'
  <2>1. todo = <<>> \/ Head(todo) # <<"started">>
    BY <1>5, CallShape
  <2>2. ASSUME NEW p \in Seq(Modest), todo' = p \o todo PROVE StackOK(todo') /\ ~Top(<<"started">>)'
    BY <1>0, <1>1, <2>1, <2>2
  <2>3. ASSUME NEW p \in Removal, todo' = p \o todo PROVE StackOK(todo') /\ ~Top(<<"started">>)'
    <3>1. StackOK(p) /\ p \in Seq(Frames) /\ p # <<>> /\ p[1] # <<"started">>
      BY StackRemoval
    <3> QED BY <1>0, <2>1, <2>3, <3>1, StackPush, HeadOfConcat DEF Top
  <2>4. CASE todo' = <<<<"loadNext">>, <<"started">>>> \o todo
    <3> DEFINE p == <<<<"loadNext">>, <<"started">>>>
    <3>1. p \in Seq(Frames) /\ p # <<>> /\ Len(p) = 2 /\ p[1] = <<"loadNext">> /\ p[2] = <<"started">>
      <4>1. <<"loadNext">> \in Frames /\ <<"started">> \in Frames
        BY DEF Frames
      <4> QED BY <4>1
    <3> HIDE DEF p
    <3>2. \A k \in 2..2 : k = 2 /\ k - 1 = 1
      OBVIOUS
    <3>3. \A k \in 1..2 : k = 1 \/ k = 2
      OBVIOUS
    <3>4. \A k \in 2..Len(p) : p[k] = <<"started">> => p[k - 1] = <<"loadNext">>
      BY <3>1, <3>2
    <3>5. \A k \in 1..Len(p) : p[k][1] # "remove"
      BY <3>1, <3>3
    <3>6. StackOK(p)
      BY <3>4, <3>5 DEF StackOK
    <3>7. todo' = p \o todo
      BY <2>4 DEF p
    <3> QED BY <1>0, <2>1, <3>1, <3>6, <3>7, StackPush, HeadOfConcat DEF Top
  <2>5. ~Discards
    BY DEF Discards, CallRemove, Call, Diligent
  <2>6. CASE Summons
    <3>1. PICK i \in Items : todo' = <<<<"loadNow", i>>>> \o todo
      BY <2>6 DEF Summons
    <3>2. <<"loadNow", i>> \in Frames
      BY DEF Frames
    <3> QED BY <1>0, <1>f, <2>1, <3>1, <3>2
  <2> QED BY <1>5, <2>2, <2>3, <2>4, <2>5, <2>6, CallShape
<1> QED BY <1>2, <1>3, <1>4, <1>5 DEF Next

(* A frame that leads to a look at the queue, pushed or left where it is. *)
LEMMA PromiseMade ==
    ASSUME NEW p \in Seq(Frames), NEW s \in Seq(Frames), todo' = p \o s,
           \/ \E k \in 1..Len(p) : p[k][1] \in Promising
           \/ \E f \in FramesOf(s) : f[1] \in Promising
    PROVE  Promised'
<1>1. FramesOf(todo') = FramesOf(p) \cup FramesOf(s)
  BY FramesOfConcat
<1>2. \A k \in 1..Len(p) : p[k] \in FramesOf(p)
  BY DEF FramesOf
<1> QED BY <1>1, <1>2 DEF Promised

(* A promise outlives a step that takes no promising frame off. *)
LEMMA PromiseCarried ==
    ASSUME TypeOK, Promised, NEW p \in Seq(Frames),
           \/ todo' = p \o todo
           \/ todo # <<>> /\ Head(todo)[1] \notin Promising /\ todo' = p \o Rest
    PROVE  Promised'
<1>1. todo \in Seq(Frames)
  BY DEF TypeOK
<1>2. CASE todo' = p \o todo
  BY <1>1, <1>2, PromiseMade DEF Promised
<1>3. CASE todo # <<>> /\ Head(todo)[1] \notin Promising /\ todo' = p \o Rest
  <2>1. Rest \in Seq(Frames) /\ FramesOf(todo) = {Head(todo)} \cup FramesOf(Rest)
    BY <1>1, <1>3, FramesOfTop DEF Rest
  <2> QED BY <1>3, <2>1, PromiseMade DEF Promised
<1> QED BY <1>2, <1>3

(* Nobody begins to wait for a connection, and none is given back. *)
LEMMA WaitKept ==
    ASSUME TypeOK, NoneWaits, Queued' \subseteq Queued, UNCHANGED <<connections, numConnections>>,
           \A j \in Queued : Waiting(j)' => Waiting(j)
    PROVE  NoneWaits'
BY DEF NoneWaits, CanOpen

(* When all items are loaded none waits. *)
LEMMA DoneWaitsForNothing ==
    ASSUME TameInv, AllDone PROVE NoneWaits
<1>1. Queued \subseteq Items
  BY QueueTypes DEF TameInv
<1> QED BY <1>1 DEF TameInv, AllDone, Accounted, NoneWaits, Waiting

(* A step that changes neither items nor connections keeps the promise. *)
LEMMA AttendsSame ==
    ASSUME TypeOK, Attends, UNCHANGED <<items, item, connections, numConnections, connected, isPaused>>,
           NEW p \in Seq(Frames),
           \/ todo' = p \o todo
           \/ todo # <<>> /\ Head(todo)[1] \notin Promising /\ todo' = p \o Rest
    PROVE  Attends'
<1>1. NoneWaits => NoneWaits'
  BY WaitKept DEF Queued, Waiting
<1> QED BY <1>1, PromiseCarried DEF Attends

(* _loadNext() ends when nobody waits, and otherwise opens an item and looks
   again. *)
LEMMA LoadNextAttends ==
    ASSUME TameInv, isFinished => AllDone, LoadNext
    PROVE  \/ todo' = Rest /\ NoneWaits'
           \/ Promised' /\ \E i \in Items : todo' = LoadFrames(i) \o todo
<1>0. /\ TypeOK /\ todo \in Seq(Frames) /\ Top(<<"loadNext">>)
      /\ items' = items /\ numConnections' = numConnections
  BY DEF TameInv, TypeOK, LoadNext, queueVars
<1>1. CASE ~MayLoad
  <2>1. NoneWaits
    BY <1>1, DoneWaitsForNothing DEF MayLoad
  <2>2. todo' = Rest /\ UNCHANGED <<item, connections>>
    BY <1>1 DEF LoadNext
  <2> QED BY <1>0, <2>1, <2>2, WaitKept DEF Queued, Waiting
<1>2. CASE MayLoad /\ Candidates(Purged(connections)) = {}
  <2>1. todo' = Rest /\ UNCHANGED item /\ connections' = Purged(connections)
    BY <1>2 DEF LoadNext
  <2>2. \A i \in Queued : ~(Waiting(i) /\ CanOpen(connections', i))
    BY <1>2, <2>1, CandidatesWait
  <2> QED BY <1>0, <2>1, <2>2 DEF NoneWaits, Waiting, CanOpen, Queued
<1>3. CASE MayLoad /\ Candidates(Purged(connections)) # {}
  <2>1. NextItemToLoad(Purged(connections)) \subseteq Items
    BY <1>0 DEF NextItemToLoad, Candidates, TypeOK
  <2>2. PICK i \in Items : todo' = LoadFrames(i) \o todo
    BY <1>3, <2>1 DEF LoadNext
  <2>3. LoadFrames(i) \in Seq(Frames)
    BY ModestItemFrames, StackModest
  <2>4. \E f \in FramesOf(todo) : f[1] \in Promising
    <3>1. <<"loadNext">> \in FramesOf(todo)
      BY <1>0, FramesOfTop DEF Top
    <3> QED BY <3>1 DEF Promising, Looks
  <2> QED BY <1>0, <2>2, <2>3, <2>4, PromiseMade
<1> QED BY <1>1, <1>2, <1>3

(* The frames of a call attend to the queue. *)
LEMMA AttendsInSteps ==
    ASSUME TameInv, IdleInv, Step PROVE Attends'
<1>0. /\ TypeOK /\ todo \in Seq(Frames) /\ Attends /\ StackOK(todo)
      /\ (isFinished => AllDone)
  BY DEF TameInv, TypeOK, IdleInv
<1>r. ASSUME NEW f, Top(f) PROVE todo # <<>> /\ Head(todo) = f /\ Rest \in Seq(Frames)
  BY <1>0, <1>r, TopRest
<1>p. ASSUME NEW p \in Seq(Frames), NEW k \in 1..Len(p), p[k][1] \in Promising,
             NEW f, Top(f), todo' = p \o Rest
      PROVE  Attends'
  BY <1>p, <1>r, PromiseMade DEF Attends
<1>n. <<"loadNext">> \in Frames /\ <<"listeners">> \in Frames /\ <<"allDone">> \in Frames
  BY DEF Frames
<1>1. CASE LoadNext
  BY <1>0, <1>1, LoadNextAttends DEF Attends
<1>2. ASSUME NEW i \in Items, ForceLoad(i) PROVE Attends'
  <2>1. Top(<<"force", i>>) /\ UNCHANGED <<items, numConnections>>
    BY <1>2 DEF ForceLoad, queueVars
  <2>2. CASE ~MayLoad
    <3>1. NoneWaits /\ UNCHANGED <<item, connections>>
      BY <1>0, <1>2, <2>2, DoneWaitsForNothing DEF MayLoad, ForceLoad
    <3>2. NoneWaits'
      BY <1>0, <2>1, <3>1, WaitKept DEF Queued, Waiting
    <3> QED BY <3>2 DEF Attends
  <2>3. CASE MayLoad
    <3> DEFINE p == LoadFrames(i) \o <<<<"loadNext">>>>
               q == <<<<"loadNext">>>>
    <3>1. todo' = p \o Rest \/ todo' = q \o Rest
      <4>1. LoadFrames(i) \in Seq(Frames) /\ q \in Seq(Frames) /\ Rest \in Seq(Frames)
        <5>1. LoadFrames(i) \in Seq(Frames)
          BY ModestItemFrames, StackModest
        <5>2. q \in Seq(Frames)
          BY <1>n
        <5>3. Rest \in Seq(Frames)
          BY <1>r, <2>1
        <5> QED BY <5>1, <5>2, <5>3
      <4>2. LoadFrames(i) \o q \o Rest = p \o Rest
        BY <4>1, ConcatAssociative
      <4> QED BY <1>2, <2>3, <4>2 DEF ForceLoad
    <3>2. /\ q \in Seq(Frames) /\ 1 \in 1..Len(q) /\ q[1] = <<"loadNext">>
      BY <1>n
    <3>3. \E k \in 1..Len(p) : p[k] = <<"loadNext">>
      <4>1. LoadFrames(i) \in Seq(Frames)
        BY ModestItemFrames, StackModest
      <4>2. Len(p) \in 1..Len(p) /\ p[Len(p)] = <<"loadNext">>
        BY <1>n, <4>1
      <4> QED BY <4>2
    <3>4. p \in Seq(Frames)
      BY ModestItemFrames, StackModest
    <3>5. <<"loadNext">>[1] \in Promising
      BY DEF Promising, Looks
    <3> HIDE DEF p, q
    <3> QED BY <1>p, <2>1, <3>1, <3>2, <3>3, <3>4, <3>5
  <2> QED BY <2>2, <2>3
<1>l. ASSUME NEW i \in Items, LoadNow(i) PROVE Attends'
  <2>1. Top(<<"loadNow", i>>) /\ item[i].status \notin {"finished", "started"}
    BY <1>l DEF LoadNow, TameInv, TopOK, Accounted
  <2> DEFINE p == <<<<"force", i>>>>
  <2>2. todo' = p \o Rest
    BY <1>l, <2>1 DEF LoadNow
  <2>3. p \in Seq(Frames) /\ 1 \in 1..Len(p) /\ p[1][1] = "force"
    <3>1. <<"force", i>> \in Frames
      BY DEF Frames
    <3> QED BY <3>1
  <2>4. "force" \in Promising
    BY DEF Promising
  <2> HIDE DEF p
  <2> QED BY <1>p, <2>1, <2>2, <2>3, <2>4
<1>3. ASSUME NEW i \in Items, Finish(i) PROVE Attends'
  <2>1. Top(<<"finish", i>>) /\ i \in Queued
    BY <1>3 DEF Finish, TameInv, TopOK
  <2> DEFINE p == <<<<"listeners">>, <<"itemComplete", i>>>>
  <2>2. todo' = p \o Rest
    BY <1>3, <2>1 DEF Finish
  <2>3. p \in Seq(Frames) /\ 2 \in 1..Len(p) /\ p[2][1] = "itemComplete"
    <3>1. <<"itemComplete", i>> \in Frames
      BY DEF Frames
    <3> QED BY <1>n, <3>1
  <2>4. "itemComplete" \in Promising
    BY DEF Promising
  <2> HIDE DEF p
  <2> QED BY <1>p, <2>1, <2>2, <2>3, <2>4
<1>4. ASSUME NEW i \in Items, ItemComplete(i) \/ ItemError(i) PROVE Attends'
  <2>1. /\ AfterComplete \in Seq(Frames) /\ 1 \in 1..Len(AfterComplete)
        /\ AfterComplete[1][1] = "loadNext"
        /\ AfterError \in Seq(Frames) /\ 1 \in 1..Len(AfterError)
        /\ AfterError[1][1] = "loadNext"
    BY <1>n DEF AfterComplete, AfterError
  <2>2. "loadNext" \in Promising
    BY DEF Promising, Looks
  <2>3. \E f : Top(f) /\ (todo' = AfterComplete \o Rest \/ todo' = AfterError \o Rest)
    BY <1>4 DEF ItemComplete, ItemError
  <2> QED BY <1>p, <2>1, <2>2, <2>3
<1>5. ASSUME NEW i \in Items, RemoveItem(i) PROVE Attends'
  <2>1. Top(<<"remove", i>>) /\ todo' = AfterRemove \o Rest
    BY <1>5 DEF RemoveItem
  <2>2. todo # <<>> /\ Head(todo)[1] = "remove" /\ Rest \in Seq(Frames)
    BY <1>r, <2>1
  <2>3. \E f \in FramesOf(Rest) : f[1] \in Looks
    BY <1>0, <2>2, StackTail DEF Rest
  <2>4. AfterRemove \in Seq(Frames)
    BY <1>n DEF AfterRemove
  <2> QED BY <2>1, <2>2, <2>3, <2>4, PromiseMade DEF Promising, Attends
<1>6. CASE AllLoaded
  <2>1. Top(<<"allDone">>) /\ UNCHANGED <<items, item, numConnections, isPaused>>
    BY <1>6 DEF AllLoaded, queueVars
  <2>2. CASE AllDone /\ Unannounced
    <3>1. \A i \in Queued : ~Waiting(i)
      <4>1. Queued \subseteq Items
        BY <1>0, QueueTypes
      <4> QED BY <2>2, <4>1 DEF TameInv, AllDone, Accounted, Waiting
    <3>2. NoneWaits'
      BY <2>1, <3>1 DEF NoneWaits, Queued, Waiting
    <3> QED BY <3>2 DEF Attends
  <2>3. CASE ~(AllDone /\ Unannounced)
    <3>1. todo' = Rest /\ UNCHANGED <<connections, connected>>
      BY <1>6, <2>3 DEF AllLoaded
    <3>2. todo # <<>> /\ Head(todo)[1] = "allDone" /\ todo' = <<>> \o Rest
      BY <1>r, <2>1, <3>1
    <3>3. "allDone" \notin Promising /\ <<>> \in Seq(Frames)
      BY DEF Promising, Looks
    <3> QED BY <1>0, <2>1, <3>1, <3>2, <3>3, AttendsSame
  <2> QED BY <2>2, <2>3
<1>7. CASE Complete \/ Return
  <2>1. /\ Top(<<"complete">>) \/ Top(<<"listeners">>)
        /\ UNCHANGED <<items, item, connections, numConnections, connected, isPaused>>
        /\ todo' \in {<<<<"listeners">>>> \o Rest, Rest}
    BY <1>7 DEF Complete, Return, queueVars, connVars, flagVars
  <2>2. todo # <<>> /\ Head(todo)[1] \in {"complete", "listeners"} /\ Rest = <<>> \o Rest
    BY <1>r, <2>1
  <2>3. <<>> \in Seq(Frames) /\ <<<<"listeners">>>> \in Seq(Frames)
    BY <1>n
  <2>4. "complete" \notin Promising /\ "listeners" \notin Promising
    BY DEF Promising, Looks
  <2>5. \E p \in Seq(Frames) : todo' = p \o Rest
    BY <2>1, <2>2, <2>3
  <2> QED BY <1>0, <2>1, <2>2, <2>4, <2>5, AttendsSame
<1>8. CASE Started
  <2>1. NoneWaits /\ UNCHANGED <<items, item, connections, numConnections>>
    BY <1>8 DEF Started, IdleInv, queueVars, connVars
  <2>2. NoneWaits'
    BY <1>0, <2>1, WaitKept DEF Queued, Waiting
  <2> QED BY <2>2 DEF Attends
<1>9. CASE ContentTaken
  <2>1. CASE isPaused
    BY <1>9, <2>1 DEF ContentTaken, flagVars, Attends
  <2>2. CASE ~isPaused
    <3>1. Top(<<"contentTaken">>) /\ todo' = <<<<"loadNext">>>> \o Rest
      BY <1>9, <2>2 DEF ContentTaken
    <3>2. <<<<"loadNext">>>> \in Seq(Frames) /\ 1 \in 1..Len(<<<<"loadNext">>>>)
      BY <1>n
    <3>3. <<<<"loadNext">>>>[1][1] \in Promising
      BY DEF Promising, Looks
    <3> QED BY <1>p, <3>1, <3>2, <3>3
  <2> QED BY <2>1, <2>2
<1>10. ASSUME NEW k \in 1..Cardinality(Items) + 1, NEW n \in 0..Cardinality(Items),
             ResumeNext(k, n)
      PROVE  Attends'
  <2>1. Top(<<"resumeAll", k, n>>)
    BY <1>10 DEF ResumeNext
  <2>2. todo # <<>> /\ Head(todo)[1] = "resumeAll" /\ Rest = <<>> \o Rest
    BY <1>r, <2>1
  <2>3. <<"resumeAll", k + 1, n>> \in Frames
    <3>1. Cardinality(Items) \in Nat
      BY ItemsAssumption, FS_CardinalityType
    <3>2. k + 1 \in Nat /\ n \in Nat
      BY <3>1
    <3> QED BY <3>2 DEF Frames
  <2>4. "loadNext" \in Promising /\ "resumeAll" \notin Promising
    BY DEF Promising, Looks
  <2>5. CASE todo' = <<<<"loadNext">>>> \o Rest
    <3> DEFINE p == <<<<"loadNext">>>>
    <3>1. p \in Seq(Frames) /\ 1 \in 1..Len(p) /\ p[1][1] = "loadNext"
      BY <1>n
    <3> QED BY <1>p, <2>1, <2>4, <2>5, <3>1
  <2>6. CASE todo' = <<<<"loadNext">>, <<"resumeAll", k + 1, n>>>> \o Rest
    <3> DEFINE p == <<<<"loadNext">>, <<"resumeAll", k + 1, n>>>>
    <3>1. p \in Seq(Frames) /\ 1 \in 1..Len(p) /\ p[1][1] = "loadNext"
      BY <1>n, <2>3
    <3> HIDE DEF p
    <3>2. todo' = p \o Rest
      BY <2>6 DEF p
    <3> QED BY <1>p, <2>1, <2>4, <3>1, <3>2
  <2>7. CASE /\ UNCHANGED <<item, isPaused>>
             /\ todo' = Rest \/ todo' = <<<<"resumeAll", k + 1, n>>>> \o Rest
    <3>1. \E p \in Seq(Frames) : todo' = p \o Rest
      <4>1. <<>> \in Seq(Frames) /\ <<<<"resumeAll", k + 1, n>>>> \in Seq(Frames)
        BY <2>3
      <4> QED BY <2>2, <2>7, <4>1
    <3>2. UNCHANGED <<items, item, connections, numConnections, connected, isPaused>>
      BY <1>10, <2>7 DEF ResumeNext, queueVars, connVars
    <3> QED BY <1>0, <2>2, <2>4, <3>1, <3>2, AttendsSame
  <2> QED BY <1>10, <2>5, <2>6, <2>7 DEF ResumeNext
<1> QED BY <1>1, <1>2, <1>l, <1>3, <1>4, <1>5, <1>6, <1>7, <1>8, <1>9, <1>10 DEF Step

(* The calls of a diligent client do: what frees a connection or adds an item
   is followed by a look at the queue, or the loader is paused. *)
LEMMA AttendsInCalls ==
    ASSUME Diligent, TameInv, IdleInv, Client PROVE Attends'
<1>0. TypeOK /\ todo \in Seq(Frames) /\ Attends
  BY DEF TameInv, TypeOK, IdleInv
<1>n. <<>> \in Seq(Frames) /\ <<<<"loadNext">>>> \in Seq(Frames)
  BY DEF Frames
<1>l. ASSUME todo' = <<<<"loadNext">>>> \o todo PROVE Attends'
  <2>1. <<"loadNext">> \in FramesOf(todo')
    <3>1. <<"loadNext">> \in Frames
      BY DEF Frames
    <3> QED BY <1>0, <1>l, <3>1, FramesOfFront
  <2> QED BY <2>1 DEF Attends, Promised, Promising, Looks
<1>1. CASE PauseAll
  BY <1>1 DEF PauseAll, Attends
<1>2. CASE \/ ResumeAll \/ RemovePausedItems \/ RemoveFailedItems
           \/ \E i \in Items : TakeContent(i)
  <2>1. UNCHANGED <<items, item, connections, numConnections, connected, isPaused>>
    BY <1>2 DEF ResumeAll, RemovePausedItems, RemoveFailedItems, RemoveAllWith, TakeContent,
                queueVars, connVars, flagVars
  <2>2. \E p \in Seq(Frames) : todo' = p \o todo
    <3>1. CASE ResumeAll
      <4>1. <<"resumeAll", 1, Len(items)>> \in Frames
        BY <1>0 DEF TypeOK, Frames
      <4>2. <<<<"resumeAll", 1, Len(items)>>>> \in Seq(Frames)
        BY <4>1
      <4> QED BY <3>1, <4>2 DEF ResumeAll
    <3>2. CASE RemovePausedItems \/ RemoveFailedItems
      <4>1. PICK r \in Seq({"remove"} \X Items) : todo' = (r \o <<<<"loadNext">>>>) \o todo
        BY <1>0, <3>2, RemovalFrames
      <4>2. {"remove"} \X Items \subseteq Frames
        BY DEF Frames
      <4>3. r \in Seq(Frames)
        BY <4>2
      <4> QED BY <1>n, <4>1, <4>3, ConcatProperties
    <3>3. ASSUME NEW i \in Items, TakeContent(i) PROVE \E p \in Seq(Frames) : todo' = p \o todo
      <4>1. <<"remove", i>> \in Frames /\ <<"contentTaken">> \in Frames
        BY DEF Frames
      <4>2. <<<<"remove", i>>, <<"contentTaken">>>> \in Seq(Frames)
        BY <4>1
      <4> QED BY <3>3, <4>2 DEF TakeContent
    <3> QED BY <1>2, <3>1, <3>2, <3>3
  <2> QED BY <1>0, <2>1, <2>2, AttendsSame
<1>3. CASE RemoveAll \/ Clear
  <2>1. items' = <<>> /\ Len(items') = 0
    BY <1>3 DEF RemoveAll, Clear, Emptied
  <2>2. Queued' = {}
    BY <2>1 DEF Queued
  <2> QED BY <2>2 DEF Attends, NoneWaits
<1>4. ASSUME NEW n \in Limits, Start(n) PROVE Attends'
  <2>1. CASE connected
    BY <1>4, <1>l, <2>1 DEF Start, StartFrames
  <2>2. CASE ~connected
    <3> DEFINE p == <<<<"loadNext">>, <<"started">>>>
    <3>1. todo' = p \o todo
      BY <1>4, <2>2 DEF Start, StartFrames
    <3>2. p \in Seq(Frames) /\ 1 \in 1..Len(p) /\ p[1][1] = "loadNext"
      <4>1. <<"loadNext">> \in Frames /\ <<"started">> \in Frames
        BY DEF Frames
      <4> QED BY <4>1
    <3>3. "loadNext" \in Promising
      BY DEF Promising, Looks
    <3> HIDE DEF p
    <3> QED BY <1>0, <3>1, <3>2, <3>3, PromiseMade DEF Attends
  <2> QED BY <2>1, <2>2
<1>5. ASSUME NEW i \in Items, CallLoadNow(i) \/ Reload(i) PROVE Attends'
  <2> DEFINE p == <<<<"loadNow", i>>>>
  <2>1. todo' = p \o todo
    BY <1>5 DEF CallLoadNow, Reload
  <2>2. p \in Seq(Frames) /\ 1 \in 1..Len(p) /\ p[1][1] = "loadNow"
    <3>1. <<"loadNow", i>> \in Frames
      BY DEF Frames
    <3> QED BY <3>1
  <2>3. "loadNow" \in Promising
    BY DEF Promising
  <2> HIDE DEF p
  <2> QED BY <1>0, <2>1, <2>2, <2>3, PromiseMade DEF Attends
<1>9. ASSUME NEW i \in Items, Resume(i) \/ CallRemove(i) PROVE FALSE
  BY <1>9 DEF Resume, CallRemove, Call, Diligent
<1>6. ASSUME NEW i \in Items, NEW p \in Priorities, Add(i, p) PROVE Attends'
  <2>1. CASE isPaused
    BY <1>6, <2>1 DEF Add, Attends
  <2>2. CASE ~isPaused
    BY <1>6, <1>l, <2>2 DEF Add
  <2> QED BY <2>1, <2>2
<1>7. ASSUME NEW i \in Items, NEW p \in Priorities, ChangePriority(i, p) PROVE Attends'
  <2>1. Queued \in SUBSET Items /\ item \in [Items -> ItemFields]
    BY <1>0, QueueTypes DEF TypeOK
  <2>2. /\ items' \in Sorted(Queued, item') /\ item' = [item EXCEPT ![i] = SetPriority(@, p)]
        /\ UNCHANGED <<connections, numConnections, connected, isPaused, todo>>
    BY <1>7 DEF ChangePriority, connVars, flagVars
  <2>3. Queued' = Queued
    BY <2>1, <2>2, SortedQueued
  <2>4. \A j \in Queued : Waiting(j)' => Waiting(j)
    BY <2>1, <2>2 DEF Waiting, SetPriority, ItemFields
  <2>5. NoneWaits => NoneWaits'
    BY <1>0, <2>2, <2>3, <2>4, WaitKept
  <2> QED BY <1>0, <2>2, <2>5 DEF Attends, Promised
<1>8. ASSUME NEW i \in Items, NEW b \in BOOLEAN, Pause(i, b) PROVE Attends'
  <2>1. b
    BY <1>8 DEF Pause, Call, Diligent
  <2> QED BY <1>8, <1>l, <2>1 DEF Pause
<1> QED BY <1>1, <1>2, <1>3, <1>4, <1>5, <1>6, <1>7, <1>8, <1>9 DEF Client

(* The events of the transfers do: they free no connection, and the item goes
   on loading until its end is reported. *)
LEMMA AttendsInEvents ==
    ASSUME TameInv, IdleInv, NEW i \in Items, NetEvent(i) PROVE Attends'
<1>0. TypeOK /\ item \in [Items -> ItemFields] /\ item[i] \in ItemFields
  BY DEF TameInv, TypeOK
<1>1. PICK k \in Slots(i) : \/ NetOpen(i, k) \/ NetComplete(i, k) \/ NetError(i, k)
                            \/ NetSecurityError(i, k) \/ NetUnheard(i, k)
  BY DEF NetEvent
<1>2. Transfer(i, k) = net[i].loader /\ Transfer(i, k) # "deaf"
  BY OnlySlotZero
<1>3. item[i].isLoading
  <2>1. Audible(i)
    BY <1>1, <1>2 DEF NetOpen, NetComplete, NetError, NetSecurityError, NetUnheard, Audible, Heard
  <2> QED BY <2>1 DEF TameInv, Accounted
<1>4. /\ UNCHANGED <<items, connections, numConnections, connected, isPaused>>
      /\ todo = <<>>
  BY DEF NetEvent, queueVars, connVars, flagVars
<1>5. /\ item'[i].isLoading
      /\ \A j \in Items : j # i => item'[j] = item[j]
  <2>1. \/ UNCHANGED item
        \/ \E st \in Statuses : \/ item' = [item EXCEPT ![i] = SetStatus(@, st)]
                                \/ item' = [item EXCEPT ![i] = SetStatus(Tried(@), st)]
                                \/ item' = [item EXCEPT ![i] = LoadFields(i, SetStatus(Tried(@), st))]
    BY <1>1 DEF NetOpen, NetComplete, NetError, NetSecurityError, NetUnheard, Statuses
  <2>2. \A st \in Statuses : /\ SetStatus(item[i], st).isLoading
                             /\ SetStatus(Tried(item[i]), st).isLoading
                             /\ LoadFields(i, SetStatus(Tried(item[i]), st)).isLoading
    BY <1>0, <1>3 DEF SetStatus, Tried, LoadFields, ItemFields
  <2> QED BY <1>0, <1>3, <2>1, <2>2
<1>6. ~Promised
  BY <1>4 DEF Promised, FramesOf
<1>7. NoneWaits => NoneWaits'
  <2>1. Queued' = Queued /\ Queued \subseteq Items
    BY <1>0, <1>4, QueueTypes DEF Queued
  <2>2. \A j \in Queued : Waiting(j)' => Waiting(j)
    BY <1>3, <1>5, <2>1 DEF Waiting
  <2> QED BY <1>0, <1>4, <2>1, <2>2, WaitKept
<1> QED BY <1>4, <1>6, <1>7 DEF IdleInv, Attends

(* Every step of a diligent client attends to the queue. *)
LEMMA IdleStep ==
    ASSUME Tame, Diligent
    PROVE  IInv /\ TameInv /\ IdleInv /\ [Next]_vars => IInv' /\ TameInv' /\ IdleInv'
<1> SUFFICES ASSUME IInv, TameInv, IdleInv, [Next]_vars PROVE IInv' /\ TameInv' /\ IdleInv'
  OBVIOUS
<1>1. IInv' /\ TameInv'
  BY TameStep
<1>2. isFinished' => AllDone'
  BY DoneStep DEF IdleInv
<1>3. TypeOK /\ Attends /\ (isFinished => AllDone)
  BY DEF TameInv, IdleInv
<1>4. Attends'
  <2>1. UNCHANGED vars => Attends'
    BY <1>3 DEF vars, Attends, NoneWaits, Promised, Queued, Waiting, CanOpen
  <2> QED BY <2>1, AttendsInSteps, AttendsInCalls, AttendsInEvents DEF Next
<1>5. StackOK(todo') /\ (Top(<<"started">>)' => LoadNext \/ UNCHANGED vars)
  BY <1>3, StackStep
<1>6. ASSUME Top(<<"started">>)' PROVE NoneWaits'
  <2>1. CASE UNCHANGED vars
    <3>1. Top(<<"started">>) /\ UNCHANGED <<items, item, connections, numConnections>>
      BY <1>6, <2>1 DEF vars, Top
    <3> QED BY <1>3, <3>1, WaitKept DEF IdleInv, Queued, Waiting
  <2>2. CASE LoadNext
    <3>1. ASSUME NEW i \in Items, todo' = LoadFrames(i) \o todo PROVE FALSE
      <4>1. /\ LoadFrames(i) \in Seq(Frames) /\ todo \in Seq(Frames)
            /\ \A k \in 1..Len(LoadFrames(i)) : LoadFrames(i)[k] # <<"started">>
        BY <1>3, ModestItemFrames, StackModest DEF TypeOK
      <4>2. todo # <<>> /\ Head(todo) = <<"loadNext">>
        BY <2>2 DEF LoadNext, Top
      <4> QED BY <1>6, <3>1, <4>1, <4>2, HeadOfConcat DEF Top
    <3> QED BY <1>3, <2>2, <3>1, LoadNextAttends
  <2> QED BY <1>5, <1>6, <2>1, <2>2
<1> QED BY <1>1, <1>2, <1>4, <1>5, <1>6 DEF IdleInv

(* A started loader that is not paused leaves no item waiting that it could
   open, for every tame client that keeps from remove(), resume() and pause()
   without loadsNext: whatever else it calls, from its listeners too, every
   connection that comes free is offered to the queue. *)
THEOREM NoIdleSlotHolds ==
    ASSUME Tame, Diligent PROVE Spec => []NoIdleSlot
<1>1. Init => IInv /\ TameInv /\ IdleInv
  <2>1. Init => IdleInv
    BY DEF Init, IdleInv, Attends, StackOK, Top
  <2> QED BY <2>1, InitIInv, TameInit
<1>2. IInv /\ TameInv /\ IdleInv /\ [Next]_vars => IInv' /\ TameInv' /\ IdleInv'
  BY IdleStep
<1>3. IdleInv => NoIdleSlot
  <2>1. todo = <<>> => ~Promised
    BY DEF Promised, FramesOf
  <2> QED BY <2>1, CandidatesWait DEF IdleInv, Attends, NoIdleSlot, Quiet, NoneWaits
<1> QED BY <1>1, <1>2, <1>3, PTL DEF Spec

-----------------------------------------------------------------------------
(* The loader implements the queue its client sees. Most steps of a call leave
   that queue alone; the others are matched with one action of DownloadQueue
   each. *)

QueueStep == Downloads!Next \/ UNCHANGED Downloads!vars

(* No item of the queue becomes loaded, or ceases to be. *)
SameLoaded == \A j \in Queued' : item'[j].isLoaded <=> item[j].isLoaded

(* A step that closes connections, or none, and does nothing else. *)
LEMMA QueueCloses ==
    ASSUME NEW S \in SUBSET Items, Queued' = Queued, SameLoaded, Opened' = Opened \ S,
           numConnections' = numConnections, isFinished' = isFinished
    PROVE  QueueStep
<1>1. {i \in Queued : item[i].isLoaded}' = {i \in Queued : item[i].isLoaded}
  BY DEF SameLoaded
<1>2. Downloads!Close(S)
  BY <1>1 DEF Downloads!Close
<1> QED BY <1>2 DEF QueueStep, Downloads!Next

(* A step that closes nothing either. *)
LEMMA QueueRests ==
    ASSUME items' = items, SameLoaded, connections' = connections,
           numConnections' = numConnections, isFinished' = isFinished
    PROVE  QueueStep
<1>1. Queued' = Queued /\ Opened' = Opened \ {} /\ {} \in SUBSET Items
  BY DEF Queued, Opened
<1> QED BY <1>1, QueueCloses

(* A step after which some items are gone, with their connections. *)
LEMMA QueueLeaves ==
    ASSUME NEW S \in SUBSET Items, Queued' = Queued \ S, SameLoaded, Opened' = Opened \ S,
           numConnections' = numConnections, isFinished' = isFinished
    PROVE  QueueStep
<1>1. {i \in Queued : item[i].isLoaded}' = {i \in Queued : item[i].isLoaded} \ S
  BY DEF SameLoaded
<1>2. Downloads!Leave(S)
  BY <1>1 DEF Downloads!Leave
<1> QED BY <1>2 DEF QueueStep, Downloads!Next

(* An item that is not loaded enters the queue, or enters it again. *)
LEMMA QueueEnters ==
    ASSUME NEW i \in Items, Queued' = Queued \cup {i}, ~item[i].isLoaded, SameLoaded,
           Opened' = Opened \ {i}, numConnections' = numConnections, ~isFinished',
           isFinished' \in BOOLEAN
    PROVE  QueueStep
<1>1. {j \in Queued : item[j].isLoaded}' = {j \in Queued : item[j].isLoaded}
  BY DEF SameLoaded
<1>2. Downloads!Enter(i)
  BY <1>1 DEF Downloads!Enter
<1> QED BY <1>2 DEF QueueStep, Downloads!Next

(* The queue of DownloadQueue counts as the loader does. *)
LEMMA SameCount ==
    ASSUME NEW S PROVE Downloads!Cardinality(S) = Cardinality(S)
BY DEF Downloads!Cardinality, Cardinality

(* An item of the queue that is not loading gets a connection, among those C
   that are left. *)
LEMMA QueueOpens ==
    ASSUME IInv, TameInv, NEW C \in SUBSET connections, NEW i \in Queued,
           ~item[i].isLoading, ~isFinished, CanOpen(C, i), connections' = PushEntry(C, i),
           items' = items, SameLoaded, numConnections' = numConnections,
           isFinished' = isFinished
    PROVE  QueueStep
<1> DEFINE others == {c[1] : c \in C}
           dead == Opened \ others
<1>1. i \in Items /\ i \notin Opened /\ ~item[i].isLoaded /\ Opened \subseteq Items
  BY QueueTypes DEF TameInv, Accounted, TypeOK, Opened
<1>2. others \subseteq Opened /\ dead \in SUBSET Items /\ Opened \ dead = others
  BY <1>1 DEF Opened
<1>3. C \in SUBSET (Items \X {1}) /\ IsFiniteSet(C) /\ \A c \in C : c[1] # i
  BY <1>1, FS_Subset DEF IInv, TameInv, OneEach, Opened
<1>4. connections' = C \cup {<<i, 1>>}
  BY <1>1, <1>3, PushOne
<1>5. Opened' = others \cup {i}
  <2>1. Opened' = {c[1] : c \in C \cup {<<i, 1>>}}
    BY <1>4 DEF Opened
  <2>2. ASSUME NEW c \in C \cup {<<i, 1>>} PROVE c[1] \in others \cup {i}
    <3>1. CASE c \in C
      BY <3>1
    <3>2. CASE c = <<i, 1>>
      BY <3>2
    <3> QED BY <3>1, <3>2
  <2>3. ASSUME NEW x \in others \cup {i} PROVE \E c \in C \cup {<<i, 1>>} : x = c[1]
    <3>1. CASE x \in others
      BY <3>1
    <3>2. CASE x = i
      <4>1. <<i, 1>> \in C \cup {<<i, 1>>} /\ x = <<i, 1>>[1]
        BY <3>2
      <4> QED BY <4>1
    <3> QED BY <3>1, <3>2
  <2> HIDE DEF others
  <2> QED BY <2>1, <2>2, <2>3
<1>6. Cardinality(others) < numConnections
  BY <1>3, EntriesCount DEF CanOpen
<1>7. Cardinality({j \in others : HostOf[j] = HostOf[i]}) < MaxPerHost
  <2> DEFINE H == HostEntries(C, HostOf[i])
  <2>1. H \in SUBSET (Items \X {1}) /\ IsFiniteSet(H)
    BY <1>3, FS_Subset DEF HostEntries
  <2>2. {c[1] : c \in H} = {j \in others : HostOf[j] = HostOf[i]}
    BY DEF HostEntries
  <2> HIDE DEF H
  <2>3. Cardinality(H) = Cardinality({c[1] : c \in H})
    BY <2>1, EntriesCount
  <2> QED BY <2>2, <2>3 DEF CanOpen, H
<1>8. Queued' = Queued /\ {j \in Queued : item[j].isLoaded}' = {j \in Queued : item[j].isLoaded}
  BY DEF Queued, SameLoaded
<1> HIDE DEF others, dead
<1>9. Downloads!Open(i, dead)
  BY <1>1, <1>2, <1>5, <1>6, <1>7, <1>8, SameCount DEF Downloads!Open
<1> QED BY <1>1, <1>2, <1>9 DEF QueueStep, Downloads!Next

(* _loadNext() opens a connection, closes those of items given up, or does
   nothing. *)
LEMMA LoadNextMaps ==
    ASSUME IInv, TameInv, LoadNext, \A j \in Items : LoadedKept(j) PROVE QueueStep
<1>1. /\ items' = items /\ numConnections' = numConnections /\ isFinished' = isFinished
      /\ Queued' = Queued /\ Queued \subseteq Items
  BY QueueTypes DEF LoadNext, queueVars, Queued, IInv
<1>2. SameLoaded
  <2>1. \A j \in Items : ~Finish(j)
    BY DEF LoadNext, Finish, Top
  <2> QED BY <1>1, <2>1 DEF LoadedKept, SameLoaded
<1>3. CASE connections' = connections
  BY <1>1, <1>2, <1>3, QueueRests
<1>4. CASE connections' = Purged(connections)
  <2> DEFINE S == {j \in Items : Stale(j)}
  <2>1. Opened' = Opened \ S
    <3>1. Opened' = {c[1] : c \in Purged(connections)}
      BY <1>4 DEF Opened
    <3>2. Opened \subseteq Items
      BY DEF Opened, IInv, TypeOK
    <3>3. \A j : j \in {c[1] : c \in Purged(connections)} <=> j \in Opened \ S
      BY <3>2 DEF Opened, Purged
    <3> QED BY <3>1, <3>3
  <2> QED BY <1>1, <1>2, <2>1, QueueCloses
<1>5. ASSUME MayLoad, NEW i \in NextItemToLoad(Purged(connections)),
             OpenConnection(Purged(connections), i)
      PROVE  QueueStep
  <2>1. i \in Queued /\ ~item[i].isLoading /\ CanOpen(Purged(connections), i)
    BY DEF NextItemToLoad, Candidates, Waiting, Queued
  <2>2. Purged(connections) \in SUBSET connections
    BY DEF Purged
  <2> QED BY <1>1, <1>2, <1>5, <2>1, <2>2, QueueOpens DEF OpenConnection, MayLoad
<1> QED BY <1>3, <1>4, <1>5 DEF LoadNext

(* _loadNext(toLoad) opens the connection it is asked for, or does nothing. *)
LEMMA ForceLoadMaps ==
    ASSUME IInv, TameInv, NEW i \in Items, ForceLoad(i), \A j \in Items : LoadedKept(j)
    PROVE  QueueStep
<1>1. /\ items' = items /\ numConnections' = numConnections /\ isFinished' = isFinished
      /\ Queued' = Queued /\ Queued \subseteq Items
  BY QueueTypes DEF ForceLoad, queueVars, Queued, IInv
<1>2. SameLoaded
  <2>1. \A j \in Items : ~Finish(j)
    BY DEF ForceLoad, Finish, Top
  <2> QED BY <1>1, <2>1 DEF LoadedKept, SameLoaded
<1>3. CASE connections' = connections
  BY <1>1, <1>2, <1>3, QueueRests
<1>4. CASE MayLoad /\ CanOpen(connections, i) /\ OpenConnection(connections, i)
  <2>1. i \in Queued /\ ~item[i].isLoading
    BY DEF ForceLoad, TameInv, TopOK
  <2> QED BY <1>1, <1>2, <1>4, <2>1, QueueOpens DEF OpenConnection, MayLoad
<1> QED BY <1>3, <1>4 DEF ForceLoad

(* loadNow() closes the connection of its victim, or does nothing. *)
LEMMA LoadNowMaps ==
    ASSUME IInv, TameInv, NEW i \in Items, LoadNow(i), \A j \in Items : LoadedKept(j)
    PROVE  QueueStep
<1>1. /\ items' = items /\ numConnections' = numConnections /\ isFinished' = isFinished
      /\ Queued' = Queued /\ Queued \subseteq Items
  BY QueueTypes DEF LoadNow, queueVars, flagVars, Queued, IInv
<1>2. SameLoaded
  <2>1. \A j \in Items : ~Finish(j)
    BY DEF LoadNow, Finish, Top
  <2> QED BY <1>1, <2>1 DEF LoadedKept, SameLoaded
<1>3. CASE connections' = connections
  BY <1>1, <1>2, <1>3, QueueRests
<1>4. ASSUME NEW v \in Victims(connections),
             connections' = RemoveEntry(RemoveEntry(connections, v), v)
      PROVE  QueueStep
  <2>1. v \in Items /\ connections \in SUBSET (Items \X {1})
    BY DEF Victims, TameInv, OneEach
  <2>2. RemoveEntry(connections, v) = {c \in connections : c[1] # v}
    BY <2>1, RemoveOne
  <2>3. {c \in connections : c[1] # v} \in SUBSET (Items \X {1})
    BY <2>1
  <2>4. connections' = {c \in connections : c[1] # v}
    BY <1>4, <2>1, <2>2, <2>3, RemoveOne
  <2>5. Opened' = Opened \ {v}
    BY <2>4 DEF Opened
  <2> QED BY <1>1, <1>2, <2>1, <2>5, QueueCloses
<1> QED BY <1>3, <1>4 DEF LoadNow

(* onCompleteHandler loads its item over the connection it has. *)
LEMMA FinishMaps ==
    ASSUME IInv, TameInv, NEW i \in Items, Finish(i) PROVE QueueStep
<1>1. i \in Queued /\ i \in Opened /\ ~item[i].isLoaded
  BY DEF Finish, TameInv, TopOK
<1>2. /\ Queued' = Queued /\ Opened' = Opened /\ numConnections' = numConnections
      /\ isFinished' = isFinished /\ Queued \subseteq Items
  BY QueueTypes DEF Finish, connVars, flagVars, Queued, Opened, IInv
<1>3. item'[i].isLoaded /\ \A j \in Items : j # i => item'[j] = item[j]
  <2>1. item \in [Items -> ItemFields] /\ item[i] \in ItemFields
    BY DEF IInv, TypeOK
  <2> QED BY <2>1, MethodsKeepLoaded DEF Finish
<1>4. {j \in Queued : item[j].isLoaded}' = {j \in Queued : item[j].isLoaded} \cup {i}
  BY <1>1, <1>2, <1>3
<1>5. Downloads!Load(i)
  BY <1>1, <1>2, <1>4 DEF Downloads!Load
<1> QED BY <1>5 DEF QueueStep, Downloads!Next

(* _onAllLoaded() announces COMPLETE over a queue that is all loaded. *)
LEMMA AllLoadedMaps ==
    ASSUME IInv, AllLoaded PROVE QueueStep
<1>1. /\ items' = items /\ item' = item /\ numConnections' = numConnections
      /\ Queued' = Queued /\ SameLoaded
  BY DEF AllLoaded, queueVars, Queued, SameLoaded
<1>2. CASE isFinished' = isFinished /\ connections' = connections
  BY <1>1, <1>2, QueueRests
<1>3. CASE AllDone /\ Unannounced /\ connections' = {} /\ isFinished' = TRUE
  <2>1. Queued = {j \in Queued : item[j].isLoaded} /\ ~isFinished
    BY <1>3 DEF AllDone, Unannounced
  <2>2. Opened' = {}
    BY <1>3 DEF Opened
  <2>3. {j \in Queued : item[j].isLoaded}' = {j \in Queued : item[j].isLoaded}
    BY <1>1
  <2>4. Downloads!Announce
    BY <1>1, <1>3, <2>1, <2>2, <2>3 DEF Downloads!Announce
  <2> QED BY <2>4 DEF QueueStep, Downloads!Next
<1> QED BY <1>2, <1>3 DEF AllLoaded

(* The connection of an item is given back. *)
LEMMA ClosesOne ==
    ASSUME OneEach, NEW i \in Items, connections' = RemoveEntry(connections, i)
    PROVE  Opened' = Opened \ {i}
<1>1. connections' = {c \in connections : c[1] # i}
  BY RemoveOne DEF OneEach
<1> QED BY <1>1 DEF Opened

(* No step but onCompleteHandler loads an item. *)
LEMMA LoadsNothing ==
    ASSUME TypeOK, TypeOK', \A j \in Items : LoadedKept(j) /\ ~Finish(j) PROVE SameLoaded
<1>1. Queued' \subseteq Items
  BY DEF Queued, TypeOK
<1> QED BY <1>1 DEF LoadedKept, SameLoaded

(* Each frame of a call is a step of the queue. *)
LEMMA FramesMap ==
    ASSUME IInv, TameInv, TypeOK', Step PROVE QueueStep
<1>0. TypeOK /\ \A j \in Items : LoadedKept(j)
  BY LoadedKeptInSteps DEF IInv
<1>1. CASE LoadNext
  BY <1>0, <1>1, LoadNextMaps
<1>2. CASE AllLoaded
  BY <1>2, AllLoadedMaps
<1>3. CASE Complete \/ Started \/ ContentTaken \/ Return
  <2>1. /\ items' = items /\ item' = item /\ connections' = connections
        /\ numConnections' = numConnections /\ isFinished' = isFinished
    BY <1>3 DEF Complete, Started, ContentTaken, Return, queueVars, connVars, flagVars
  <2> QED BY <2>1, QueueRests DEF SameLoaded
<1>4. ASSUME NEW i \in Items, ForceLoad(i) PROVE QueueStep
  BY <1>0, <1>4, ForceLoadMaps
<1>5. ASSUME NEW i \in Items, LoadNow(i) PROVE QueueStep
  BY <1>0, <1>5, LoadNowMaps
<1>6. ASSUME NEW i \in Items, Finish(i) PROVE QueueStep
  BY <1>6, FinishMaps
<1>7. ASSUME NEW i \in Items, ItemComplete(i) \/ ItemError(i) PROVE QueueStep
  <2>1. /\ items' = items /\ item' = item /\ connections' = RemoveEntry(connections, i)
        /\ numConnections' = numConnections /\ isFinished' = isFinished
    BY <1>7 DEF ItemComplete, ItemError, queueVars, flagVars
  <2>2. Queued' = Queued /\ SameLoaded
    BY <2>1 DEF Queued, SameLoaded
  <2>3. Opened' = Opened \ {i}
    BY <2>1, ClosesOne DEF TameInv
  <2> QED BY <2>1, <2>2, <2>3, QueueCloses
<1>8. ASSUME NEW i \in Items, RemoveItem(i) PROVE QueueStep
  <2>1. Queued' = Queued \ {i}
    BY <1>8, RemovedFromQueue DEF RemoveItem, TameInv, QueueOK
  <2>2. Opened' = Opened \ {i}
    BY <1>8, ClosesOne DEF RemoveItem, TameInv
  <2>3. SameLoaded
    <3>1. \A j \in Items : ~Finish(j)
      BY <1>8 DEF RemoveItem, Finish, Top
    <3> QED BY <1>0, <3>1, LoadsNothing
  <2>4. numConnections' = numConnections /\ isFinished' = isFinished
    BY <1>8 DEF RemoveItem, flagVars
  <2> QED BY <2>1, <2>2, <2>3, <2>4, QueueLeaves
<1>9. ASSUME NEW k, NEW n, ResumeNext(k, n) PROVE QueueStep
  <2>1. /\ items' = items /\ connections' = connections
        /\ numConnections' = numConnections /\ isFinished' = isFinished
    BY <1>9 DEF ResumeNext, queueVars, connVars
  <2>2. SameLoaded
    <3>1. ASSUME NEW j \in Items, Finish(j) PROVE FALSE
      <4>1. <<"finish", j>>[1] = <<"resumeAll", k, n>>[1]
        BY <1>9, <3>1 DEF ResumeNext, Finish, Top
      <4> QED BY <4>1
    <3> QED BY <1>0, <3>1, LoadsNothing
  <2> QED BY <2>1, <2>2, QueueRests
<1> QED BY <1>1, <1>2, <1>3, <1>4, <1>5, <1>6, <1>7, <1>8, <1>9 DEF Step

(* Each call of a tame client is a step of the queue. *)
LEMMA CallsMap ==
    ASSUME Tame, IInv, TameInv, TypeOK', Client PROVE QueueStep
<1>0. TypeOK /\ Queued \subseteq Items /\ Opened \subseteq Queued
  BY QueueTypes DEF IInv, TypeOK, TameInv, Accounted, Opened
<1>u. SameLoaded
  <2>1. \A j \in Items : ~Finish(j)
    BY CallsTakeTurns DEF Finish, Top
  <2> QED BY <1>0, <2>1, LoadedKeptInCalls, LoadsNothing
<1>1. CASE PauseAll
  <2>1. /\ Queued' = Queued /\ numConnections' = numConnections /\ isFinished' = isFinished
        /\ connections' = WithoutQueued(connections)
    BY <1>1 DEF PauseAll, queueVars, Queued
  <2>2. Opened' = Opened \ Queued
    <3>1. connections' = {c \in connections : c[1] \notin Queued}
      BY <2>1, DropQueued DEF TameInv, OneEach
    <3> QED BY <3>1 DEF Opened
  <2> QED BY <1>0, <1>u, <2>1, <2>2, QueueCloses
<1>2. CASE RemoveAll \/ Clear
  <2>1. /\ items' = <<>> /\ connections' = {} /\ numConnections' = numConnections
        /\ isFinished' = isFinished
    BY <1>2 DEF RemoveAll, Clear, Emptied, flagVars
  <2>2. Queued' = Queued \ Queued /\ Opened' = Opened \ Queued
    <3>1. Queued' = {} /\ Opened' = {}
      BY <2>1 DEF Queued, Opened
    <3> QED BY <1>0, <3>1
  <2> QED BY <1>0, <1>u, <2>1, <2>2, QueueLeaves
<1>3. CASE \/ ResumeAll \/ RemovePausedItems \/ RemoveFailedItems
           \/ \E i \in Items : CallLoadNow(i) \/ CallRemove(i) \/ TakeContent(i) \/ Resume(i)
  <2>1. /\ items' = items /\ connections' = connections
        /\ numConnections' = numConnections /\ isFinished' = isFinished
    BY <1>3 DEF ResumeAll, RemovePausedItems, RemoveFailedItems, RemoveAllWith, CallLoadNow,
                CallRemove, TakeContent, Resume, queueVars, connVars, flagVars
  <2> QED BY <1>u, <2>1, QueueRests
<1>4. ASSUME NEW n \in Limits, Start(n) PROVE QueueStep
  <2>1. /\ Queued' = Queued /\ Opened' = Opened /\ isFinished' = isFinished
    BY <1>4 DEF Start, queueVars, flagVars, Queued, Opened
  <2>2. numConnections' \in Nat \ {0}
    BY DEF TypeOK
  <2>3. {j \in Queued : item[j].isLoaded}' = {j \in Queued : item[j].isLoaded}
    BY <1>u, <2>1 DEF SameLoaded
  <2>4. Downloads!SetLimit
    BY <2>1, <2>2, <2>3 DEF Downloads!SetLimit
  <2> QED BY <2>4 DEF QueueStep, Downloads!Next
<1>5. ASSUME NEW i \in Items, Reload(i) PROVE QueueStep
  <2>1. /\ ~item[i].isLoaded /\ numConnections' = numConnections /\ isFinished' = FALSE
        /\ items' \in Sorted(Queued \cup {i}, item')
    BY <1>5 DEF Reload, Call, Tame
  <2>2. Queued' = Queued \cup {i}
    <3>1. Queued \cup {i} \in SUBSET Items
      BY <1>0
    <3> QED BY <2>1, <3>1, SortedQueued
  <2>3. Opened' = Opened \ {i}
    BY <1>5, ClosesOne DEF Reload, TameInv
  <2> QED BY <1>u, <2>1, <2>2, <2>3, QueueEnters
<1>6. ASSUME NEW i \in Items, NEW b \in BOOLEAN, Pause(i, b) PROVE QueueStep
  <2>1. /\ Queued' = Queued /\ numConnections' = numConnections /\ isFinished' = isFinished
    BY <1>6 DEF Pause, queueVars, flagVars, Queued
  <2>2. Opened' = Opened \ {i}
    BY <1>6, ClosesOne DEF Pause, TameInv
  <2> QED BY <1>u, <2>1, <2>2, QueueCloses
<1>7. ASSUME NEW i \in Items, NEW p \in Priorities, Add(i, p) PROVE QueueStep
  <2>1. /\ ~Known(i) /\ numConnections' = numConnections /\ isFinished' = FALSE
        /\ items' \in Sorted(Queued \cup {i}, item') /\ connections' = connections
    BY <1>7 DEF Add, connVars
  <2>2. Queued' = Queued \cup {i}
    <3>1. Queued \cup {i} \in SUBSET Items
      BY <1>0
    <3> QED BY <2>1, <3>1, SortedQueued
  <2>3. ~item[i].isLoaded /\ i \notin Queued
    BY <2>1 DEF TameInv, Accounted, QueueOK
  <2>4. Opened' = Opened \ {i}
    <3>1. Opened' = Opened /\ i \notin Opened
      BY <1>0, <2>1, <2>3 DEF Opened
    <3> QED BY <3>1
  <2> QED BY <1>u, <2>1, <2>2, <2>3, <2>4, QueueEnters
<1>8. ASSUME NEW i \in Items, NEW p \in Priorities, ChangePriority(i, p) PROVE QueueStep
  <2>1. /\ items' \in Sorted(Queued, item') /\ connections' = connections
        /\ numConnections' = numConnections /\ isFinished' = isFinished
    BY <1>8 DEF ChangePriority, connVars, flagVars
  <2>2. Queued' = Queued
    BY <1>0, <2>1, SortedQueued
  <2>3. Opened' = Opened \ {} /\ {} \in SUBSET Items
    BY <2>1 DEF Opened
  <2> QED BY <1>u, <2>1, <2>2, <2>3, QueueCloses
<1> QED BY <1>1, <1>2, <1>3, <1>4, <1>5, <1>6, <1>7, <1>8 DEF Client

(* The network shows the client nothing but through the frames it leaves. *)
LEMMA EventsMap ==
    ASSUME IInv, TameInv, TypeOK', NEW i \in Items, NetEvent(i) PROVE QueueStep
<1>1. /\ items' = items /\ connections' = connections
      /\ numConnections' = numConnections /\ isFinished' = isFinished
  BY DEF NetEvent, queueVars, connVars, flagVars
<1>2. SameLoaded
  <2>1. \A j \in Items : ~Finish(j)
    BY DEF NetEvent, Finish, Top
  <2> QED BY <2>1, LoadedKeptInEvents, LoadsNothing DEF IInv
<1> QED BY <1>1, <1>2, QueueRests

(* For every tame client, whatever its listeners call in the middle of a call,
   the loader with its frames, its connections by host and its items' fields
   implements the plain queue: a connection is opened under both limits and for
   an item that is to be loaded, an item is loaded over its connection, and
   COMPLETE is announced over loaded items only. *)
THEOREM DownloadQueueImplemented ==
    ASSUME Tame PROVE Spec => ImplementsDownloadQueue
<1>1. Init => IInv /\ TameInv
  BY InitIInv, TameInit
<1>2. IInv /\ TameInv /\ [Next]_vars => IInv' /\ TameInv'
  BY TameStep
<1>3. Init => Downloads!Init
  <2> SUFFICES ASSUME Init PROVE Downloads!Init
    OBVIOUS
  <2>1. items = <<>> /\ connections = {} /\ numConnections = InitialLimit /\ isFinished = FALSE
    BY DEF Init
  <2>2. Queued = {} /\ Opened = {}
    BY <2>1 DEF Queued, Opened
  <2> QED BY <2>1, <2>2 DEF Downloads!Init
<1>4. IInv /\ TameInv /\ [Next]_vars => [Downloads!Next]_(Downloads!vars)
  <2> SUFFICES ASSUME IInv, TameInv, [Next]_vars PROVE QueueStep
    BY DEF QueueStep
  <2>1. TypeOK'
    BY StepIInv DEF IInv
  <2>2. CASE UNCHANGED vars
    <3>1. /\ items' = items /\ item' = item /\ connections' = connections
          /\ numConnections' = numConnections /\ isFinished' = isFinished
      BY <2>2 DEF vars
    <3> QED BY <3>1, QueueRests DEF SameLoaded
  <2> QED BY <2>1, <2>2, FramesMap, CallsMap, EventsMap DEF Next
<1> QED BY <1>1, <1>2, <1>3, <1>4, PTL DEF Spec, ImplementsDownloadQueue, Downloads!Spec
=============================================================================
