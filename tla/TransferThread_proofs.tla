----------------------- MODULE TransferThread_proofs ------------------------
(***************************************************************************)
(* Machine-checked facts about TransferThread, for every set of transfers, *)
(* every budget and every width of the counters.                           *)
(***************************************************************************)
EXTENDS TransferThread, FiniteSetTheorems, TLAPS

Caches == [Maps -> [Tags -> Data]]

-----------------------------------------------------------------------------
(* Counters *)

\* Increment and guarded decrement stay within the width of a counter.
LEMMA UintClosed ==
  /\ \A n \in Uint : Inc(n) \in Uint
  /\ \A n, k \in Uint : Minus(n, k) \in Uint
  BY BoundsAssumption DEF Uint, Inc, Minus

\* A set of tags is finite and small enough for a counter.
LEMMA TagSets ==
  ASSUME NEW S \in SUBSET Tags
  PROVE  IsFiniteSet(S) /\ Cardinality(S) \in Uint
  <1>1. IsFiniteSet(S) /\ Cardinality(S) <= Cardinality(Tags)
    BY FS_Subset, TagsAssumption
  <1>2. Cardinality(S) \in Nat /\ Cardinality(Tags) \in Nat
    BY <1>1, FS_CardinalityType, TagsAssumption
  <1> QED
    BY <1>1, <1>2, BoundsAssumption DEF Uint

\* The counter updates of the callbacks keep the counters' types.
LEMMA CountsClosed ==
  ASSUME NEW t \in Tags, NEW s
  PROVE  /\ \A c \in Counts : AddStarted(c, t) \in Counts /\ FinishCount(c, t, s) \in Counts
         /\ \A l \in LastCounts : AddStarted(l, t) \in LastCounts /\ FinishLast(l, t, s) \in LastCounts
  <1>1. Dir(t) \in Dirs /\ 1 \in Uint
    <2>1. Cardinality({t}) \in Uint /\ Cardinality({t}) = 1
      BY TagSets, FS_Singleton
    <2> QED BY <2>1 DEF Dir, Dirs
  <1>2. ASSUME NEW c \in Counts
        PROVE  AddStarted(c, t) \in Counts /\ RemovePending(c, t) \in Counts
               /\ RemoveTotal(c, t) \in Counts
               /\ [c EXCEPT !.failed[Dir(t)] = Inc(@)] \in Counts
    BY <1>1, UintClosed DEF Counts, AddStarted, RemovePending, RemoveTotal
  <1>3. ASSUME NEW l \in LastCounts
        PROVE  AddStarted(l, t) \in LastCounts /\ RemovePending(l, t) \in LastCounts
               /\ RemoveTotal(l, t) \in LastCounts
               /\ [l EXCEPT !.byTag = @ \cup {t}] \in LastCounts
    BY <1>1, UintClosed DEF LastCounts, AddStarted, RemovePending, RemoveTotal
  <1> QED
    BY <1>2, <1>3 DEF FinishCount, FinishLast
-----------------------------------------------------------------------------
(* The cache *)

\* Writing one entry keeps the type of the cache.
LEMMA PutType ==
  ASSUME NEW c \in Caches, NEW m \in Maps, NEW t \in Tags, NEW x \in Data
  PROVE  Put(c, m, t, x) \in Caches
  BY DEF Caches, Put

LEMMA EmptyIsData == Empty \in Data
  BY BoundsAssumption DEF Empty, Data, SdkStates

\* Substituting a cached datum yields a datum.
LEMMA SubstituteType ==
  ASSUME NEW old \in Data, NEW x \in Data
  PROVE  Substitute(old, x) \in Data
  BY DEF Substitute, Data

\* One callback keeps the type of the cache.
LEMMA CacheEventType ==
  ASSUME NEW c \in Caches, NEW t \in Tags, NEW x \in Data, NEW event
  PROVE  CacheEvent(c, event, t, x) \in Caches
  <1> DEFINE c1 == DropUnseenStart(c, t, x)
  <1>1. c1 \in Caches
    BY PutType, EmptyIsData DEF DropUnseenStart, Maps
  <1>2. onTransferEvent(c, t, x) \in Caches
    <2>1. CASE \E m \in FoldMaps : Has(c1, m, t)
      <3>1. \E m \in FoldMaps : Holder(c1, m, t)
        BY <2>1 DEF FoldMaps, FoldRank, Holder
      <3> DEFINE m == CHOOSE k \in FoldMaps : Holder(c1, k, t)
      <3>2. m \in FoldMaps
        BY <3>1
      <3>3. m \in Maps /\ c1[m][t] \in Data
        BY <3>2, <1>1 DEF FoldMaps, Maps, Caches
      <3>4. Put(c1, m, t, Substitute(c1[m][t], x)) \in Caches
        BY <3>3, <1>1, PutType, SubstituteType
      <3> QED
        BY <2>1, <3>4 DEF onTransferEvent
    <2>2. CASE ~\E m \in FoldMaps : Has(c1, m, t)
      <3>1. "update" \in Maps /\ c1["update"][t] \in Data
        BY <1>1 DEF Maps, Caches
      <3> QED
        BY <2>2, <3>1, <1>1, PutType, SubstituteType, EmptyIsData DEF onTransferEvent
    <2> QED BY <2>1, <2>2
  <1>3. Destination(event, t, x) \in Maps
    BY DEF Destination, Maps
  <1>4. Inserted(t, x) \in Data
    BY DEF Inserted, Data, SdkStates, EndStates
  <1> QED
    BY <1>2, <1>3, <1>4, PutType DEF CacheEvent

LEMMA SelectType ==
  ASSUME NEW c \in Caches, NEW S
  PROVE  Select(c, S) \in Caches
  BY EmptyIsData DEF Select, Caches

LEMMA NoTransfersType == NoTransfers \in Caches
  BY EmptyIsData DEF NoTransfers, Caches
-----------------------------------------------------------------------------
(* Types *)

\* The batch taken out at once: what each tag was last told, given that it was told data.
LEMMA DeliveredType ==
  ASSUME cache \in Caches, delivered \in [Tags -> Data], processTransfers
  PROVE  delivered' \in [Tags -> Data]
  <1> DEFINE S == Taken(cache)
  <1>1. \A t \in Tags : (\E m \in Maps : <<m, t>> \in S)
            => cache[CHOOSE m \in Maps : <<m, t>> \in S][t] \in Data
    BY DEF Caches
  <1> QED
    BY <1>1 DEF processTransfers

LEMMA InitType == Init => TypeOK
  <1> SUFFICES ASSUME Init PROVE TypeOK
    OBVIOUS
  <1>1. 0 \in Uint /\ 0 \in 0..MaxNotifications
    BY BoundsAssumption DEF Uint
  <1>2. count \in Counts /\ last \in LastCounts
    BY <1>1 DEF Init, Counts, LastCounts, NoCount, NoLastCount
  <1> QED
    BY <1>1, <1>2, EmptyIsData, NoTransfersType
    DEF Init, TypeOK, Callbacks, SdkStates, Caches

\* TypeOK is inductive as it stands.
LEMMA StepType == TypeOK /\ [Next]_vars => TypeOK'
  <1> SUFFICES ASSUME TypeOK, [Next]_vars PROVE TypeOK'
    OBVIOUS
  <1> USE BoundsAssumption
  <1>1. ASSUME NEW t \in Tags, onTransferStart(t) PROVE TypeOK'
    <2>1. count' \in Counts /\ last' \in LastCounts
      BY <1>1, CountsClosed DEF TypeOK, onTransferStart
    <2>2. sdk' \in [Tags -> SdkStates] /\ nn' \in [Tags -> 0..MaxNotifications]
      BY <1>1 DEF TypeOK, onTransferStart, Notify, SdkStates, LiveStates
    <2>3. handler' \in Callbacks
      BY <1>1 DEF TypeOK, onTransferStart, Callback, Callbacks, Data, SdkStates, LiveStates
    <2> QED BY <1>1, <2>1, <2>2, <2>3 DEF TypeOK, onTransferStart, Notify, guiVars
  <1>2. ASSUME NEW t \in Tags, onTransferUpdate(t) PROVE TypeOK'
    <2>1. sdk' \in [Tags -> SdkStates] /\ nn' \in [Tags -> 0..MaxNotifications]
      BY <1>2 DEF TypeOK, onTransferUpdate, Notify, SdkStates, LiveStates
    <2>2. handler' \in Callbacks
      BY <1>2 DEF TypeOK, onTransferUpdate, Callback, Callbacks, Data, SdkStates, LiveStates
    <2> QED BY <1>2, <2>1, <2>2 DEF TypeOK, onTransferUpdate, Notify, guiVars
  <1>3. ASSUME NEW t \in Tags, NEW s \in EndStates, NEW err \in FinishErrors(t, s),
               onTransferFinish(t, s, err)
        PROVE  TypeOK'
    <2>1. count' \in Counts /\ last' \in LastCounts
      <3>1. NoLastCount \in LastCounts
        BY DEF NoLastCount, LastCounts, Uint
      <3> QED BY <1>3, <3>1, CountsClosed DEF TypeOK, onTransferFinish
    <2>2. sdk' \in [Tags -> SdkStates] /\ nn' \in [Tags -> 0..MaxNotifications]
      BY <1>3 DEF TypeOK, onTransferFinish, Notify, SdkStates, EndStates
    <2>3. handler' \in Callbacks
      <3>1. s = "FAILED" \/ err \in BOOLEAN
        BY <1>3 DEF FinishErrors
      <3> QED
        BY <1>3, <3>1
        DEF TypeOK, onTransferFinish, Callback, Callbacks, Data, SdkStates, EndStates, FinishErrors
    <2> QED BY <1>3, <2>1, <2>2, <2>3 DEF TypeOK, onTransferFinish, Notify, guiVars
  <1>4. ASSUME NEW t \in Tags, onTransferFinishLoggedOut(t) PROVE TypeOK'
    BY <1>4 DEF TypeOK, onTransferFinishLoggedOut, SdkStates, threadVars, guiVars
  <1>5. CASE cacheSection
    <2>1. handler.tag \in Tags /\ handler.data \in Data
      BY <1>5 DEF TypeOK, cacheSection, Callbacks
    <2>2. cache' \in Caches
      BY <1>5, <2>1, CacheEventType DEF TypeOK, cacheSection, Caches
    <2> QED BY <1>5, <2>2 DEF TypeOK, cacheSection, Callbacks, Caches, sdkVars, guiVars
  <1>6. CASE Logout \/ Login
    BY <1>6 DEF TypeOK, Logout, Login, threadVars, guiVars
  <1>7. CASE processTransfers
    <2>1. cache' \in Caches /\ batch' \in Caches
      BY <1>7, SelectType DEF TypeOK, processTransfers, Caches
    <2>2. delivered' \in [Tags -> Data]
      BY <1>7, DeliveredType DEF TypeOK, Caches
    <2> QED BY <1>7, <2>1, <2>2 DEF TypeOK, processTransfers, Caches, sdkVars
  <1>8. ASSUME NEW M \in SUBSET Filled, Consume(M) PROVE TypeOK'
    BY <1>8, NoTransfersType DEF TypeOK, Consume, Caches, sdkVars, threadVars
  <1>9. ASSUME NEW S \in SUBSET Tags, resetCompleted(S) PROVE TypeOK'
    <2> DEFINE F == {t \in S : delivered[t].failed}
               keep == F \ SyncTransfers
    <2>1. \A T \in SUBSET Tags : Cardinality(T) \in Uint
      BY TagSets
    <2>2. count' \in Counts
      <3>1. PICK P \in SUBSET S :
             /\ \A d \in Dirs :
                  \/ OfDir(P, d) = OfDir(S, d) /\ Cardinality(OfDir(S, d)) <= count.total[d]
                  \/ /\ Cardinality(OfDir(S, d)) > count.total[d]
                     /\ Cardinality(OfDir(P, d)) = count.total[d]
             /\ count' = [count EXCEPT
                  !.total = [d \in Dirs |-> @[d] - Cardinality(OfDir(P, d))],
                  !.failed = [d \in Dirs |-> Minus(@[d], Cardinality(OfDir(P \cap keep, d)))]]
        BY <1>9 DEF resetCompleted, ResetCompleted
      <3>2. ASSUME NEW d \in Dirs
            PROVE  /\ count.total[d] - Cardinality(OfDir(P, d)) \in Uint
                   /\ Minus(count.failed[d], Cardinality(OfDir(P \cap keep, d))) \in Uint
        <4>1. OfDir(P, d) \in SUBSET Tags /\ OfDir(P \cap keep, d) \in SUBSET Tags
              /\ OfDir(S, d) \in SUBSET Tags
          BY DEF OfDir
        <4>2. /\ Cardinality(OfDir(P, d)) \in Uint /\ Cardinality(OfDir(S, d)) \in Uint
              /\ Cardinality(OfDir(P \cap keep, d)) \in Uint
          BY <2>1, <4>1
        <4>3. count.total[d] \in Uint /\ count.failed[d] \in Uint
          BY DEF TypeOK, Counts
        <4>4. Cardinality(OfDir(P, d)) <= count.total[d]
          BY <3>1, <4>2, <4>3 DEF Uint
        <4>5. count.total[d] - Cardinality(OfDir(P, d)) \in Uint
          BY <4>2, <4>3, <4>4, BoundsAssumption DEF Uint
        <4> QED BY <4>2, <4>3, <4>5, UintClosed
      <3> HIDE DEF keep
      <3> QED BY <3>1, <3>2 DEF TypeOK, Counts
    <2>3. last' \in LastCounts
      <3> DEFINE known == S \cap last.byTag
      <3>1. ASSUME NEW d \in Dirs
            PROVE  /\ Minus(last.total[d], Cardinality(OfDir(known, d))) \in Uint
                   /\ Minus(last.failed[d], Cardinality(OfDir(known \cap keep, d))) \in Uint
        <4>1. OfDir(known, d) \in SUBSET Tags /\ OfDir(known \cap keep, d) \in SUBSET Tags
          BY DEF OfDir
        <4>2. /\ Cardinality(OfDir(known, d)) \in Uint
              /\ Cardinality(OfDir(known \cap keep, d)) \in Uint
          BY <2>1, <4>1
        <4>3. last.total[d] \in Uint /\ last.failed[d] \in Uint
          BY DEF TypeOK, LastCounts
        <4> QED BY <4>2, <4>3, UintClosed
      <3>2. last' = [last EXCEPT
               !.byTag = @ \ known,
               !.total = [d \in Dirs |-> Minus(@[d], Cardinality(OfDir(known, d)))],
               !.failed = [d \in Dirs |-> Minus(@[d], Cardinality(OfDir(known \cap keep, d)))]]
        BY <1>9 DEF resetCompleted, ResetCompleted, Remembered
      <3> HIDE DEF known, keep
      <3> QED BY <3>1, <3>2 DEF TypeOK, LastCounts
    <2> QED BY <1>9, <2>2, <2>3 DEF TypeOK, resetCompleted, sdkVars
  <1>10. CASE clear
    <2>1. NoCount \in Counts
      BY DEF NoCount, Counts, Uint
    <2>2. sdk' \in [Tags -> SdkStates]
      BY <1>10 DEF clear, SdkStates
    <2> QED BY <1>10, <2>1, <2>2, NoTransfersType DEF TypeOK, clear, Caches
  <1>11. CASE UNCHANGED vars
    BY <1>11 DEF TypeOK, vars, sdkVars, threadVars, guiVars
  <1> QED
    BY <1>1, <1>2, <1>3, <1>4, <1>5, <1>6, <1>7, <1>8, <1>9, <1>10, <1>11
    DEF Next, SdkNext, GuiNext

\* Every step keeps the types of the listener's state: no counter leaves the range of a
\* uint, and each map holds at most one datum per tag.
THEOREM TypeInvariant == Spec => []TypeOK
  BY InitType, StepType, PTL DEF Spec
-----------------------------------------------------------------------------
(* The event cache: a transfer is in one map at most, the data handed out move *)
(* forward, the latest event is never lost and no update overtakes its start.   *)

\* What is cached about a transfer is newer than what was handed out and not newer than
\* its last notification; a callback under way carries that last notification.
CacheOrder ==
  /\ \A t \in Tags : delivered[t].nn <= nn[t]
  /\ \A m \in Maps, t \in Tags : cache[m][t].nn <= nn[t]
  /\ \A m \in Maps, t \in Tags : Has(cache, m, t) => delivered[t].nn < cache[m][t].nn
  /\ handler # Idle =>
       /\ handler.data.nn = nn[handler.tag]
       /\ delivered[handler.tag].nn < nn[handler.tag]
       /\ \A m \in Maps : cache[m][handler.tag].nn < nn[handler.tag]

CacheInv == TypeOK /\ OneHolder /\ CacheOrder
-----------------------------------------------------------------------------
(* What one event does to the cache *)

\* The column of a tag: y in map m0 and nothing in the other maps.
OnlyIn(c, t, m0, y) == \A m \in Maps : c[m][t] = IF m = m0 THEN y ELSE Empty
OthersKept(c, k, t) == \A m \in Maps, u \in Tags : u # t => k[m][u] = c[m][u]

LEMMA PutColumn ==
  ASSUME NEW c \in Caches, NEW t \in Tags, NEW m0 \in Maps, NEW y,
         \A m \in Maps : m # m0 => c[m][t] = Empty
  PROVE  OnlyIn(Put(c, m0, t, y), t, m0, y) /\ OthersKept(c, Put(c, m0, t, y), t)
  BY DEF Caches, Put, OnlyIn, OthersKept

\* How the event leaves the column: y stays in map m0, either where the transfer was
\* cached already or in the event's own destination, and then no start waits (unless the
\* transfer is cancelled).  Nothing stays when a folder transfer ends well.
Placed(c, event, t, x, m0, y) ==
  /\ y = Empty => Uncached(event, t, x)
  /\ \/ y = Empty
     \/ c[m0][t] # Empty /\ m0 # "update"
     \/ /\ m0 = Destination(event, t, x) /\ ~Uncached(event, t, x)
        /\ x.state # "CANCELLED" => c["start"][t] = Empty /\ c["startSync"][t] = Empty

\* An event newer than everything cached about its transfer replaces all of it, in one
\* map, and touches no other transfer.
LEMMA CacheEventColumn ==
  ASSUME NEW c \in Caches, NEW t \in Tags, NEW x \in Data, NEW event,
         \A m, k \in Maps : Has(c, m, t) /\ Has(c, k, t) => m = k,
         \A m \in Maps : c[m][t].nn < x.nn
  PROVE  /\ OthersKept(c, CacheEvent(c, event, t, x), t)
         /\ \E m0 \in Maps, y \in {x, Inserted(t, x), Empty} :
              /\ OnlyIn(CacheEvent(c, event, t, x), t, m0, y)
              /\ Placed(c, event, t, x, m0, y)
  <1> DEFINE c1 == DropUnseenStart(c, t, x)
             k == CacheEvent(c, event, t, x)
  <1>1. c1 \in Caches
    BY PutType, EmptyIsData DEF DropUnseenStart, Maps
  <1>2. /\ OthersKept(c, c1, t)
        /\ \A m \in Maps : c1[m][t] \in {c[m][t], Empty}
        /\ \A m \in Maps : m # "start" => c1[m][t] = c[m][t]
        /\ x.state # "CANCELLED" => c1 = c
    BY DEF DropUnseenStart, Put, Caches, OthersKept, Maps
  <1>3. \A m, h \in Maps : Has(c1, m, t) /\ Has(c1, h, t) => m = h
    BY <1>2 DEF Has
  <1>4. \A m \in Maps : c1[m][t].nn < x.nn
    <2>1. "start" \in Maps /\ Empty.nn < x.nn
      BY DEF Maps, Empty, Data, Caches
    <2> QED BY <1>2, <2>1
  <1> HIDE DEF c1, k
  <1>5. CASE \E m \in FoldMaps : Has(c1, m, t)
    <2>1. \E m \in FoldMaps : Holder(c1, m, t)
      BY <1>5 DEF FoldMaps, FoldRank, Holder
    <2> DEFINE m == CHOOSE h \in FoldMaps : Holder(c1, h, t)
    <2>2. m \in FoldMaps /\ Has(c1, m, t)
      BY <2>1 DEF Holder
    <2> HIDE DEF m
    <2>3. m \in Maps
      BY <2>2 DEF FoldMaps, Maps
    <2>4. Substitute(c1[m][t], x) = x
      BY <2>3, <1>4 DEF Substitute
    <2>5. k = Put(c1, m, t, x)
      BY <1>5, <2>4 DEF k, CacheEvent, Folded, onTransferEvent, c1, m
    <2>6. \A h \in Maps : h # m => c1[h][t] = Empty
      BY <1>3, <2>2, <2>3 DEF Has
    <2>7. OnlyIn(k, t, m, x) /\ OthersKept(c1, k, t)
      BY <1>1, <2>3, <2>5, <2>6, PutColumn
    <2>8. c[m][t] # Empty /\ m # "update"
      BY <1>2, <2>2, <2>3 DEF Has, FoldMaps
    <2>9. x # Empty
      BY <1>4, <2>3, <1>1 DEF Empty, Caches, Data
    <2>10. Placed(c, event, t, x, m, x)
      BY <2>8, <2>9 DEF Placed
    <2> QED
      BY <1>2, <2>3, <2>7, <2>10 DEF OthersKept, k
  <1>6. CASE ~\E m \in FoldMaps : Has(c1, m, t)
    <2> DEFINE e == onTransferEvent(c, t, x)
    <2>0. "update" \in Maps /\ Maps = FoldMaps \cup {"update"}
      BY DEF Maps, FoldMaps
    <2>1. \A m \in Maps : m # "update" => c1[m][t] = Empty
      BY <1>6, <2>0 DEF Has
    <2>2. ~Folded(c, t, x)
      <3>1. c["update"][t].nn < x.nn
        BY <2>0
      <3>2. c["update"][t].nn \in Nat /\ x.nn \in Nat
        BY <2>0 DEF Caches, Data
      <3> QED BY <1>6, <3>1, <3>2 DEF Folded, c1
    <2>3. e = IF Has(c1, "update", t) THEN Put(c1, "update", t, Empty) ELSE c1
      BY <1>4, <1>6, <2>0 DEF onTransferEvent, c1
    <2>4. /\ e \in Caches
          /\ \A m \in Maps : e[m][t] = Empty
          /\ OthersKept(c1, e, t)
      <3>1. CASE Has(c1, "update", t)
        <4>1. e = Put(c1, "update", t, Empty)
          BY <2>3, <3>1
        <4> HIDE DEF e
        <4>2. OnlyIn(e, t, "update", Empty) /\ OthersKept(c1, e, t)
          BY <1>1, <2>0, <2>1, <4>1, PutColumn
        <4> QED BY <1>1, <2>0, <4>1, <4>2, PutType, EmptyIsData DEF OnlyIn
      <3>2. CASE ~Has(c1, "update", t)
        <4>1. e = c1
          BY <2>3, <3>2
        <4> HIDE DEF e
        <4> QED BY <1>1, <2>0, <2>1, <3>2, <4>1 DEF Has, OthersKept
      <3> QED BY <3>1, <3>2
    <2>5. k = IF Uncached(event, t, x) THEN e
              ELSE Put(e, Destination(event, t, x), t, Inserted(t, x))
      BY <2>2 DEF k, CacheEvent
    <2>6. Destination(event, t, x) \in Maps
      BY DEF Destination, Maps
    <2> HIDE DEF e
    <2>7. OthersKept(c, e, t)
      BY <1>2, <2>4 DEF OthersKept
    <2>8. CASE Uncached(event, t, x)
      <3>1. OnlyIn(k, t, "start", Empty) /\ OthersKept(c, k, t)
        BY <2>4, <2>5, <2>7, <2>8 DEF OnlyIn
      <3>2. "start" \in Maps
        BY DEF Maps
      <3>3. Placed(c, event, t, x, "start", Empty)
        BY <2>8 DEF Placed
      <3> QED BY <3>1, <3>2, <3>3 DEF k
    <2>9. CASE ~Uncached(event, t, x)
      <3> DEFINE m0 == Destination(event, t, x)
      <3>1. k = Put(e, m0, t, Inserted(t, x))
        BY <2>5, <2>9
      <3> HIDE DEF m0
      <3>2. OnlyIn(k, t, m0, Inserted(t, x)) /\ OthersKept(e, k, t)
        BY <2>4, <2>6, <3>1, PutColumn DEF m0
      <3>3. OthersKept(c, k, t)
        BY <2>7, <3>2 DEF OthersKept
      <3>4. Inserted(t, x).nn = x.nn /\ Empty.nn = 0 /\ 0 < x.nn
        BY <1>4, <2>0, <1>1 DEF Inserted, Data, Empty, Caches
      <3>5. x.state # "CANCELLED" => c["start"][t] = Empty /\ c["startSync"][t] = Empty
        BY <1>2, <2>1 DEF Maps
      <3>6. Inserted(t, x) # Empty
        BY <3>4
      <3>7. m0 \in Maps
        BY <2>6 DEF m0
      <3>8. m0 = Destination(event, t, x)
        BY DEF m0
      <3> HIDE DEF k
      <3>9. \E h \in Maps, y \in {x, Inserted(t, x), Empty} :
              /\ OnlyIn(k, t, h, y)
              /\ Placed(c, event, t, x, h, y)
        BY <2>9, <3>2, <3>5, <3>6, <3>7, <3>8 DEF Placed
      <3> QED BY <3>3, <3>9 DEF k
    <2> QED BY <2>8, <2>9
  <1> QED BY <1>5, <1>6
-----------------------------------------------------------------------------
(* One map per transfer, and the order of what is handed out *)

\* An extraction moves what is cached about a transfer to the GUI, or leaves it alone.
LEMMA ExtractionMoves ==
  ASSUME cache \in Caches, delivered \in [Tags -> Data], OneHolder, processTransfers,
         NEW t \in Tags
  PROVE  \/ /\ delivered'[t] = delivered[t]
            /\ \A m \in Maps : cache'[m][t] = cache[m][t]
         \/ \E m \in Maps :
              /\ Has(cache, m, t)
              /\ delivered'[t] = cache[m][t]
              /\ \A k \in Maps : cache'[k][t] = Empty
  <1> DEFINE S == Taken(cache)
             E == Entries(cache)
  <1>1. \A m \in Maps : <<m, t>> \in E <=> Has(cache, m, t)
    BY DEF Entries
  <1>2. S \subseteq E
    BY DEF Taken
  <1>3. \A m \in Maps :
          cache'[m][t] = IF <<m, t>> \in E \ S THEN cache[m][t] ELSE Empty
    BY DEF processTransfers, Select
  <1>4. delivered'[t] = IF \E m \in Maps : <<m, t>> \in S
                        THEN cache[CHOOSE m \in Maps : <<m, t>> \in S][t]
                        ELSE delivered[t]
    BY DEF processTransfers
  <1> HIDE DEF S, E
  <1>5. CASE \E m \in Maps : <<m, t>> \in S
    <2> DEFINE m == CHOOSE k \in Maps : <<k, t>> \in S
    <2>1. m \in Maps /\ <<m, t>> \in S
      BY <1>5
    <2>2. delivered'[t] = cache[m][t]
      BY <1>4, <1>5
    <2> HIDE DEF m
    <2>3. Has(cache, m, t)
      BY <1>1, <1>2, <2>1
    <2>4. \A k \in Maps : <<k, t>> \in E => k = m
      BY <1>1, <2>1, <2>3 DEF OneHolder
    <2>5. \A k \in Maps : cache'[k][t] = Empty
      BY <1>3, <2>1, <2>4
    <2> QED BY <2>1, <2>2, <2>3, <2>5
  <1>6. CASE ~\E m \in Maps : <<m, t>> \in S
    BY <1>1, <1>3, <1>4, <1>6 DEF Has
  <1> QED BY <1>5, <1>6

LEMMA StartIsMap == "start" \in Maps
  BY DEF Maps

LEMMA CacheInvInit == Init => CacheInv
  <1> SUFFICES ASSUME Init PROVE CacheInv
    OBVIOUS
  <1>1. TypeOK
    BY InitType
  <1>2. \A m \in Maps, t \in Tags : cache[m][t] = Empty
    BY DEF Init, NoTransfers
  <1> QED
    BY <1>1, <1>2 DEF Init, CacheInv, OneHolder, CacheOrder, Has, Empty

\* A step that gives one transfer its next notification, with the callback about to carry
\* it, and does not touch the cache.
LEMMA NotifyOrder ==
  ASSUME CacheInv, TypeOK', NEW t \in Tags, NEW s, handler = Idle, Notify(t, s),
         handler' = Idle \/ (handler'.tag = t /\ handler'.data.nn = nn[t] + 1),
         UNCHANGED <<cache, delivered>>
  PROVE  CacheInv'
  <1>1. OneHolder'
    BY DEF CacheInv, OneHolder, Has
  <1>2. nn' = [nn EXCEPT ![t] = @ + 1] /\ nn \in [Tags -> Nat]
    BY DEF Notify, CacheInv, TypeOK
  <1>3. \A m \in Maps, u \in Tags : cache[m][u].nn \in Nat /\ delivered[u].nn \in Nat
    BY DEF CacheInv, TypeOK, Data
  <1>4. \A u \in Tags : nn[u] \in Nat /\ nn'[u] \in Nat /\ nn[u] <= nn'[u] /\ (u = t => nn'[u] = nn[u] + 1)
    BY <1>2
  <1>5. /\ \A u \in Tags : delivered'[u].nn <= nn'[u]
        /\ \A m \in Maps, u \in Tags : cache'[m][u].nn <= nn'[u]
    <2>1. \A u \in Tags : delivered[u].nn <= nn[u] /\ \A m \in Maps : cache[m][u].nn <= nn[u]
      BY DEF CacheInv, CacheOrder
    <2> QED BY <1>3, <1>4, <2>1, StartIsMap
  <1>6. /\ delivered'[t].nn < nn'[t]
        /\ \A m \in Maps : cache'[m][t].nn < nn'[t]
    <2>1. delivered[t].nn <= nn[t] /\ \A m \in Maps : cache[m][t].nn <= nn[t]
      BY DEF CacheInv, CacheOrder
    <2> QED BY <1>3, <1>4, <2>1, StartIsMap
  <1>7. CacheOrder'
    BY <1>4, <1>5, <1>6 DEF CacheInv, CacheOrder, Has
  <1> QED BY <1>1, <1>7 DEF CacheInv

\* CacheInv is inductive.
LEMMA CacheInvStep == CacheInv /\ [Next]_vars => CacheInv'
  <1> SUFFICES ASSUME CacheInv, [Next]_vars PROVE CacheInv'
    OBVIOUS
  <1>0. TypeOK /\ TypeOK'
    BY StepType DEF CacheInv
  <1> USE <1>0
  <1>n. /\ \A m \in Maps, u \in Tags : cache[m][u] \in Data /\ cache[m][u].nn \in Nat
        /\ \A u \in Tags : delivered[u].nn \in Nat /\ nn[u] \in Nat
    BY DEF TypeOK, Data
  <1>1. ASSUME NEW t \in Tags, onTransferStart(t) PROVE CacheInv'
    BY <1>1, NotifyOrder DEF onTransferStart, Callback, guiVars
  <1>2. ASSUME NEW t \in Tags, onTransferUpdate(t) PROVE CacheInv'
    BY <1>2, NotifyOrder DEF onTransferUpdate, Callback, guiVars
  <1>3. ASSUME NEW t \in Tags, NEW s \in EndStates, NEW err \in FinishErrors(t, s),
               onTransferFinish(t, s, err)
        PROVE  CacheInv'
    BY <1>3, NotifyOrder DEF onTransferFinish, Callback, guiVars
  <1>4. ASSUME UNCHANGED <<nn, handler, cache, delivered>> PROVE CacheInv'
    BY <1>4 DEF CacheInv, OneHolder, CacheOrder, Has
  <1>5. CASE cacheSection
    <2> DEFINE t == handler.tag
               x == handler.data
    <2>1. t \in Tags /\ x \in Data /\ handler # Idle /\ handler' = Idle
          /\ UNCHANGED <<nn, delivered>>
      BY <1>5 DEF cacheSection, TypeOK, Callbacks, sdkVars, guiVars
    <2>2. cache' = CacheEvent(cache, handler.event, t, x)
      BY <1>5 DEF cacheSection
    <2>3. x.nn = nn[t] /\ delivered[t].nn < x.nn /\ \A m \in Maps : cache[m][t].nn < x.nn
      BY <2>1 DEF CacheInv, CacheOrder
    <2> HIDE DEF t, x
    <2>4. PICK m0 \in Maps, y \in {x, Inserted(t, x), Empty} :
            OthersKept(cache, cache', t) /\ OnlyIn(cache', t, m0, y)
      BY <2>1, <2>2, <2>3, CacheEventColumn DEF CacheInv, OneHolder, TypeOK, Caches
    <2>5. y.nn \in {x.nn, 0} /\ (y # Empty => y.nn = x.nn) /\ x.nn \in Nat
      BY <2>1, <2>4 DEF Inserted, Data, Empty
    <2>6. \A m \in Maps : Has(cache', m, t) => m = m0 /\ cache'[m][t] = y /\ y # Empty
      BY <2>4 DEF OnlyIn, Has
    <2>7. \A m \in Maps, u \in Tags : u # t => cache'[m][u] = cache[m][u]
      BY <2>4 DEF OthersKept
    <2>8. OneHolder'
      BY <2>6, <2>7 DEF CacheInv, OneHolder, Has
    <2>9. \A m \in Maps : cache'[m][t].nn <= nn[t]
      <3>1. Empty.nn = 0
        BY DEF Empty
      <3> QED BY <1>n, <2>1, <2>3, <2>4, <2>5, <3>1 DEF OnlyIn
    <2>10. CacheOrder'
      BY <2>1, <2>3, <2>5, <2>6, <2>7, <2>9 DEF CacheInv, CacheOrder, Has
    <2> QED BY <2>8, <2>10 DEF CacheInv
  <1>6. CASE processTransfers
    <2>1. \A t \in Tags :
            \/ /\ delivered'[t] = delivered[t]
               /\ \A m \in Maps : cache'[m][t] = cache[m][t]
            \/ \E m \in Maps :
                 /\ Has(cache, m, t)
                 /\ delivered'[t] = cache[m][t]
                 /\ \A k \in Maps : cache'[k][t] = Empty
      BY <1>6, ExtractionMoves DEF CacheInv, TypeOK, Caches
    <2>2. UNCHANGED <<nn, handler>> /\ Empty.nn = 0
      BY <1>6 DEF processTransfers, sdkVars, Empty
    <2>3. OneHolder'
      BY <2>1 DEF CacheInv, OneHolder, Has
    <2>4. /\ \A t \in Tags : delivered'[t].nn <= nn[t]
          /\ \A m \in Maps, t \in Tags : cache'[m][t].nn <= nn[t]
      BY <1>n, <2>1, <2>2 DEF CacheInv, CacheOrder
    <2>5. \A m \in Maps, t \in Tags : Has(cache', m, t) => delivered'[t].nn < cache'[m][t].nn
      BY <2>1 DEF CacheInv, CacheOrder, Has
    <2>6. handler # Idle => /\ delivered'[handler.tag].nn < nn[handler.tag]
                            /\ \A m \in Maps : cache'[m][handler.tag].nn < nn[handler.tag]
      <3> SUFFICES ASSUME handler # Idle
                   PROVE  /\ delivered'[handler.tag].nn < nn[handler.tag]
                          /\ \A m \in Maps : cache'[m][handler.tag].nn < nn[handler.tag]
        OBVIOUS
      <3>1. handler.tag \in Tags
        BY DEF TypeOK, Callbacks
      <3>2. /\ delivered[handler.tag].nn < nn[handler.tag]
            /\ \A m \in Maps : cache[m][handler.tag].nn < nn[handler.tag]
        BY DEF CacheInv, CacheOrder
      <3> QED BY <1>n, <2>1, <2>2, <3>1, <3>2
    <2>7. CacheOrder'
      BY <2>2, <2>4, <2>5, <2>6 DEF CacheInv, CacheOrder, Has
    <2> QED BY <2>3, <2>7 DEF CacheInv
  <1>7. CASE clear
    <2>1. UNCHANGED <<nn, handler, delivered>> /\ handler = Idle
      BY <1>7 DEF clear
    <2>2. \A m \in Maps, t \in Tags : cache'[m][t] = Empty /\ Empty.nn = 0
      BY <1>7 DEF clear, NoTransfers, Empty
    <2> QED BY <1>n, <2>1, <2>2 DEF CacheInv, OneHolder, CacheOrder, Has
  <1> QED
    BY <1>1, <1>2, <1>3, <1>4, <1>5, <1>6, <1>7
    DEF Next, SdkNext, GuiNext, onTransferFinishLoggedOut, Logout, Login, Consume,
        resetCompleted, vars, sdkVars, threadVars, guiVars

LEMMA CacheInvariant == Spec => []CacheInv
  BY CacheInvInit, CacheInvStep, PTL DEF Spec

\* However events, extractions and resets interleave, a transfer is cached in at most one
\* of the six maps.
THEOREM OneHolderInvariant == Spec => []OneHolder
  <1>1. CacheInv => OneHolder
    BY DEF CacheInv
  <1> QED BY <1>1, CacheInvariant, PTL

\* What the GUI is told of a transfer only moves forward in the order of the SDK's
\* notifications.
THEOREM DeliveredOrder == Spec => DeliveredMovesForward
  <1> DEFINE Forward == \A t \in Tags : delivered'[t] # delivered[t] => delivered'[t].nn > delivered[t].nn
  <1>1. CacheInv /\ [Next]_vars => [Forward]_vars
    <2> SUFFICES ASSUME CacheInv, Next PROVE Forward
      BY DEF Forward
    <2>1. CASE processTransfers
      <3> SUFFICES ASSUME NEW t \in Tags, delivered'[t] # delivered[t]
                   PROVE  delivered'[t].nn > delivered[t].nn
        OBVIOUS
      <3>1. PICK m \in Maps : Has(cache, m, t) /\ delivered'[t] = cache[m][t]
        BY <2>1, ExtractionMoves DEF CacheInv, TypeOK, Caches
      <3>2. delivered[t].nn < cache[m][t].nn /\ delivered[t].nn \in Nat /\ cache[m][t].nn \in Nat
        BY <3>1 DEF CacheInv, CacheOrder, TypeOK, Data
      <3> QED BY <3>1, <3>2
    <2>2. ASSUME delivered' = delivered PROVE Forward
      BY <2>2
    <2> QED
      BY <2>1, <2>2
      DEF Next, SdkNext, GuiNext, onTransferStart, onTransferUpdate, onTransferFinish,
          onTransferFinishLoggedOut, cacheSection, Logout, Login, Consume, resetCompleted,
          clear, guiVars
  <1> QED BY <1>1, CacheInvariant, PTL DEF Spec, DeliveredMovesForward
-----------------------------------------------------------------------------
(* No update overtakes its start *)

\* The GUI was told of the transfer, or is going to be told of its start first.
Known(t) == delivered[t] # Empty \/ Has(cache, "start", t) \/ Has(cache, "startSync", t)

\* What a callback between its two sections says of its transfer.
HandlerKnows ==
  handler # Idle =>
    /\ sdk[handler.tag] = handler.data.state
    /\ handler.event = "start" =>
         handler.data.nn = 1 /\ handler.data.state = "QUEUED" /\ handler.tag \notin FolderTransfers
    /\ handler.event = "update" =>
         handler.data.state = "ACTIVE" /\ handler.tag \notin FolderTransfers
    /\ handler.event = "finish" => handler.data.state \in EndStates
    /\ handler.event # "start" /\ handler.tag \notin FolderTransfers => Known(handler.tag)

LiveIsKnown ==
  \A t \in Tags \ FolderTransfers :
    sdk[t] \in LiveStates => Known(t) \/ (handler # Idle /\ handler.tag = t /\ handler.event = "start")

UnseenHasNoNumber == \A t \in Tags : sdk[t] = "NONE" => nn[t] = 0

\* Strengthening of UpdateNeverOvertakesStart: alone it is not inductive, since it says
\* nothing of the callback that is about to write an update.
StartInv == CacheInv /\ UnseenHasNoNumber /\ HandlerKnows /\ LiveIsKnown /\ UpdateNeverOvertakesStart

LEMMA StartInvInit == Init => StartInv
  BY CacheInvInit
  DEF Init, StartInv, UnseenHasNoNumber, HandlerKnows, LiveIsKnown, UpdateNeverOvertakesStart,
      LiveStates, Has, NoTransfers, Maps

\* The section under mCacheMutex of a callback about t.
LEMMA SectionKeepsStart ==
  ASSUME StartInv, cacheSection
  PROVE  /\ LiveIsKnown'
         /\ UpdateNeverOvertakesStart'
  <1>0. CacheInv /\ TypeOK
    BY DEF StartInv, CacheInv
  <1>t. PICK t \in Tags : t = handler.tag
    BY <1>0 DEF cacheSection, TypeOK, Callbacks
  <1> DEFINE x == handler.data
             event == handler.event
  <1>1. /\ t \in Tags /\ x \in Data /\ event \in {"start", "update", "finish"}
        /\ handler # Idle /\ handler' = Idle /\ UNCHANGED <<sdk, nn, delivered>>
    BY <1>0, <1>t DEF cacheSection, TypeOK, Callbacks, sdkVars, guiVars
  <1>2. cache' = CacheEvent(cache, event, t, x)
    BY <1>t DEF cacheSection
  <1>3. x.nn = nn[t] /\ \A m \in Maps : cache[m][t].nn < x.nn
    BY <1>0, <1>1, <1>t DEF CacheInv, CacheOrder
  <1>4. /\ sdk[t] = x.state
        /\ event = "start" => x.nn = 1 /\ x.state = "QUEUED" /\ t \notin FolderTransfers
        /\ event = "update" => x.state = "ACTIVE" /\ t \notin FolderTransfers
        /\ event = "finish" => x.state \in EndStates
        /\ event # "start" /\ t \notin FolderTransfers => Known(t)
    BY <1>1, <1>t DEF StartInv, HandlerKnows
  <1> HIDE DEF x, event
  <1>5. PICK m0 \in Maps, y \in {x, Inserted(t, x), Empty} :
          /\ OthersKept(cache, cache', t) /\ OnlyIn(cache', t, m0, y)
          /\ Placed(cache, event, t, x, m0, y)
    BY <1>0, <1>1, <1>2, <1>3, CacheEventColumn DEF CacheInv, OneHolder, TypeOK, Caches
  <1>6. \A m \in Maps, u \in Tags : u # t => cache'[m][u] = cache[m][u]
    BY <1>5 DEF OthersKept
  <1>7. \A m \in Maps : Has(cache', m, t) => m = m0 /\ y # Empty
    BY <1>5 DEF OnlyIn, Has
  <1>8. \A u \in Tags : u # t => (Known(u) <=> Known(u)')
    BY <1>1, <1>6 DEF Known, Has, Maps
  <1>9. event = "start" => \A m \in Maps : cache[m][t] = Empty
    <2> SUFFICES ASSUME event = "start", NEW m \in Maps, cache[m][t] # Empty PROVE FALSE
      OBVIOUS
    <2>1. delivered[t].nn < cache[m][t].nn /\ cache[m][t].nn < 1
      BY <1>0, <1>1, <1>3, <1>4 DEF CacheInv, CacheOrder, Has
    <2>2. delivered[t].nn \in Nat /\ cache[m][t].nn \in Nat
      BY <1>0, <1>1 DEF TypeOK, Data
    <2> QED BY <2>1, <2>2
  <1>10. LiveIsKnown'
    <2> SUFFICES ASSUME t \notin FolderTransfers, sdk[t] \in LiveStates PROVE Known(t)'
      BY <1>1, <1>8, <1>t DEF StartInv, LiveIsKnown
    <2>1. event # "finish" /\ x.state # "CANCELLED"
      BY <1>4 DEF LiveStates, EndStates
    <2>2. y # Empty
      BY <1>5 DEF Placed, Uncached
    <2>3. cache'[m0][t] # Empty
      BY <1>5, <2>2 DEF OnlyIn
    <2>4. CASE event = "start"
      <3>1. m0 = Destination(event, t, x)
        BY <1>5, <1>9, <2>2, <2>4 DEF Placed
      <3>2. m0 \in {"start", "startSync"}
        BY <2>4, <3>1 DEF Destination
      <3> QED BY <2>3, <3>2 DEF Known, Has
    <2>5. CASE event = "update"
      <3>1. Known(t)
        BY <1>4, <2>5
      <3>2. CASE delivered[t] # Empty
        BY <1>1, <3>2 DEF Known
      <3>3. ASSUME NEW m \in {"start", "startSync"}, Has(cache, m, t) PROVE Known(t)'
        <4>1. cache[m0][t] # Empty
          BY <1>5, <2>1, <2>2, <3>3 DEF Placed, Has
        <4>2. m0 = m
          BY <1>0, <1>1, <3>3, <4>1 DEF CacheInv, OneHolder, Has, Maps
        <4> QED BY <2>3, <4>2 DEF Known, Has
      <3> QED BY <3>1, <3>2, <3>3 DEF Known
    <2> QED BY <1>1, <2>1, <2>4, <2>5
  <1>11. UpdateNeverOvertakesStart'
    <2>1. ASSUME NEW u \in Tags, u # t, Has(cache', "update", u) \/ Has(cache', "failed", u)
          PROVE  delivered'[u] # Empty
      BY <1>1, <1>6, <2>1 DEF StartInv, UpdateNeverOvertakesStart, Has, Maps
    <2>2. ASSUME Has(cache', "update", t) \/ Has(cache', "failed", t)
          PROVE  delivered'[t] # Empty
      <3>1. m0 \in {"update", "failed"} /\ y # Empty
        BY <1>7, <2>2 DEF Maps
      <3>2. CASE cache[m0][t] # Empty
        BY <1>1, <3>1, <3>2 DEF StartInv, UpdateNeverOvertakesStart, Has
      <3>3. CASE cache[m0][t] = Empty
        <4>1. /\ m0 = Destination(event, t, x) /\ ~Uncached(event, t, x)
              /\ x.state # "CANCELLED" =>
                    cache["start"][t] = Empty /\ cache["startSync"][t] = Empty
          BY <1>5, <3>1, <3>3 DEF Placed
        <4>2. event # "start"
          BY <3>1, <4>1 DEF Destination
        <4>3. t \notin FolderTransfers
          BY <1>1, <1>4, <3>1, <4>1, <4>2 DEF Destination, Uncached
        <4>4. x.state # "CANCELLED"
          BY <1>1, <1>4, <3>1, <4>1, <4>2, <4>3 DEF Destination
        <4> QED BY <1>1, <1>4, <4>1, <4>2, <4>3, <4>4 DEF Known, Has
      <3> QED BY <3>2, <3>3
    <2> QED BY <2>1, <2>2 DEF UpdateNeverOvertakesStart
  <1> QED BY <1>10, <1>11

LEMMA StartInvStep == StartInv /\ [Next]_vars => StartInv'
  <1> SUFFICES ASSUME StartInv, [Next]_vars PROVE StartInv'
    OBVIOUS
  <1>0. CacheInv /\ CacheInv' /\ TypeOK /\ TypeOK'
    BY CacheInvStep DEF StartInv, CacheInv
  <1>t. \A t \in Tags : nn[t] \in Nat /\ sdk \in [Tags -> SdkStates] /\ nn \in [Tags -> 0..MaxNotifications]
    BY <1>0 DEF TypeOK
  <1>1. ASSUME NEW t \in Tags, NEW s \in LiveStates \cup EndStates, Notify(t, s), handler = Idle,
               UNCHANGED <<cache, delivered>>,
               HandlerKnows',
               t \notin FolderTransfers /\ s \in LiveStates => Known(t) \/ (handler' # Idle /\ handler'.tag = t /\ handler'.event = "start")
        PROVE  StartInv'
    <2>1. sdk' = [sdk EXCEPT ![t] = s] /\ nn' = [nn EXCEPT ![t] = @ + 1]
      BY <1>1 DEF Notify
    <2>2. UnseenHasNoNumber'
      BY <1>t, <2>1 DEF StartInv, UnseenHasNoNumber, LiveStates, EndStates
    <2>3. \A u \in Tags : Known(u)' <=> Known(u)
      BY <1>1 DEF Known, Has
    <2>4. LiveIsKnown'
      BY <1>1, <1>t, <2>1, <2>3 DEF StartInv, LiveIsKnown
    <2>5. UpdateNeverOvertakesStart'
      BY <1>1 DEF StartInv, UpdateNeverOvertakesStart, Has
    <2> QED BY <1>0, <1>1, <2>2, <2>4, <2>5 DEF StartInv
  <1>2. ASSUME NEW t \in Tags, onTransferStart(t) PROVE StartInv'
    <2>1. nn[t] = 0 /\ nn'[t] = 1 /\ sdk'[t] = "QUEUED"
      BY <1>2, <1>t DEF StartInv, UnseenHasNoNumber, onTransferStart, Notify
    <2>2. handler' = IF t \in FolderTransfers THEN Idle ELSE Callback("start", t, "QUEUED", FALSE)
      BY <1>2 DEF onTransferStart
    <2>3. HandlerKnows'
      BY <2>1, <2>2 DEF HandlerKnows, Callback
    <2>4. "QUEUED" \in LiveStates
      BY DEF LiveStates
    <2>5. t \notin FolderTransfers => handler' # Idle /\ handler'.tag = t /\ handler'.event = "start"
      BY <2>2 DEF Callback, Idle
    <2> QED BY <1>1, <1>2, <2>3, <2>4, <2>5 DEF onTransferStart, guiVars
  <1>3. ASSUME NEW t \in Tags, onTransferUpdate(t) PROVE StartInv'
    <2>1. sdk'[t] = "ACTIVE" /\ "ACTIVE" \in LiveStates
      BY <1>3, <1>t DEF onTransferUpdate, Notify, LiveStates
    <2>2. t \notin FolderTransfers => Known(t) /\ Known(t)'
      BY <1>3 DEF StartInv, LiveIsKnown, onTransferUpdate, Known, Has, guiVars
    <2>3. HandlerKnows'
      BY <1>3, <2>1, <2>2 DEF HandlerKnows, onTransferUpdate, Callback, Counted
    <2> QED BY <1>1, <1>3, <2>1, <2>2, <2>3 DEF onTransferUpdate, guiVars
  <1>4. ASSUME NEW t \in Tags, NEW s \in EndStates, NEW err \in FinishErrors(t, s),
               onTransferFinish(t, s, err)
        PROVE  StartInv'
    <2>1. sdk'[t] = s
      BY <1>4, <1>t DEF onTransferFinish, Notify
    <2>2. t \notin FolderTransfers => Known(t) /\ Known(t)'
      BY <1>4 DEF StartInv, LiveIsKnown, onTransferFinish, Known, Has, guiVars
    <2>3. HandlerKnows'
      BY <1>4, <2>1, <2>2 DEF HandlerKnows, onTransferFinish, Callback
    <2>4. s \notin LiveStates
      BY DEF LiveStates, EndStates
    <2> QED BY <1>1, <1>4, <2>3, <2>4 DEF onTransferFinish, guiVars
  <1>5. ASSUME NEW t \in Tags, onTransferFinishLoggedOut(t) PROVE StartInv'
    <2>1. sdk' = [sdk EXCEPT ![t] = "ABORTED"] /\ handler = Idle /\ UNCHANGED <<nn, handler, cache, delivered>>
      BY <1>5 DEF onTransferFinishLoggedOut, threadVars, guiVars
    <2>2. "ABORTED" \notin LiveStates
      BY DEF LiveStates
    <2>3. \A u \in Tags : Known(u)' <=> Known(u)
      BY <2>1 DEF Known, Has
    <2> QED BY <1>0, <1>t, <2>1, <2>2, <2>3
            DEF StartInv, UnseenHasNoNumber, HandlerKnows, LiveIsKnown, UpdateNeverOvertakesStart, Has
  <1>6. CASE cacheSection
    <2>1. HandlerKnows' /\ UnseenHasNoNumber'
      BY <1>6 DEF cacheSection, sdkVars, HandlerKnows, StartInv, UnseenHasNoNumber
    <2> QED BY <1>0, <1>6, <2>1, SectionKeepsStart DEF StartInv
  <1>7. CASE processTransfers
    <2>1. \A t \in Tags :
            \/ /\ delivered'[t] = delivered[t]
               /\ \A m \in Maps : cache'[m][t] = cache[m][t]
            \/ \E m \in Maps :
                 /\ Has(cache, m, t)
                 /\ delivered'[t] = cache[m][t]
                 /\ \A k \in Maps : cache'[k][t] = Empty
      BY <1>0, <1>7, ExtractionMoves DEF CacheInv, TypeOK, Caches
    <2>2. UNCHANGED <<sdk, nn, handler>>
      BY <1>7 DEF processTransfers, sdkVars
    <2>3. \A t \in Tags : Known(t) => Known(t)'
      BY <2>1 DEF Known, Has, Maps
    <2>4. UpdateNeverOvertakesStart'
      BY <2>1 DEF StartInv, UpdateNeverOvertakesStart, Has, Maps
    <2>5. handler # Idle => handler.tag \in Tags
      BY <1>0 DEF TypeOK, Callbacks
    <2> QED BY <1>0, <2>2, <2>3, <2>4, <2>5
            DEF StartInv, UnseenHasNoNumber, HandlerKnows, LiveIsKnown
  <1>8. CASE clear
    <2>1. /\ handler = Idle /\ handler' = Idle /\ UNCHANGED nn
          /\ \A t \in Tags : sdk'[t] = IF sdk[t] = "NONE" THEN "NONE" ELSE "ABORTED"
          /\ \A m \in Maps, t \in Tags : cache'[m][t] = Empty
      BY <1>8 DEF clear, NoTransfers
    <2>2. \A t \in Tags : sdk'[t] \notin LiveStates
      BY <2>1 DEF LiveStates
    <2> QED BY <1>0, <2>1, <2>2
            DEF StartInv, UnseenHasNoNumber, HandlerKnows, LiveIsKnown, UpdateNeverOvertakesStart, Has, Maps
  <1>9. ASSUME UNCHANGED <<sdk, nn, handler, cache, delivered>> PROVE StartInv'
    BY <1>0, <1>9
    DEF StartInv, UnseenHasNoNumber, HandlerKnows, LiveIsKnown, Known, UpdateNeverOvertakesStart, Has
  <1> QED
    BY <1>2, <1>3, <1>4, <1>5, <1>6, <1>7, <1>8, <1>9
    DEF Next, SdkNext, GuiNext, Logout, Login, Consume, resetCompleted,
        vars, sdkVars, threadVars, guiVars

\* The GUI hears of a transfer's progress or failure only after it was handed the start.
THEOREM StartComesFirst == Spec => []UpdateNeverOvertakesStart
  <1>1. StartInv => UpdateNeverOvertakesStart
    BY DEF StartInv
  <1> QED BY <1>1, StartInvInit, StartInvStep, PTL DEF Spec
-----------------------------------------------------------------------------
(* Nothing is lost *)

\* Strengthening of LatestEventIsKept by the facts that make a fold a replacement.
KeptInv == CacheInv /\ LatestEventIsKept

\* A notification of t leaves every other transfer's latest event where it was.
LEMMA NotifyKeeps ==
  ASSUME KeptInv, CacheInv', NEW t \in Tags, NEW s, Notify(t, s), handler = Idle,
         Counted(t) => handler' # Idle /\ handler'.tag = t,
         UNCHANGED <<cache, delivered, cleared>>
  PROVE  KeptInv'
  <1>1. \A u \in Tags : u # t => sdk'[u] = sdk[u] /\ nn'[u] = nn[u]
    BY DEF Notify, KeptInv, CacheInv, TypeOK
  <1>2. LatestEventIsKept'
    <2> SUFFICES ASSUME NEW u \in Tags \ cleared, Counted(u), sdk'[u] \notin {"NONE", "ABORTED"},
                        handler' # Idle => handler'.tag # u
                 PROVE  \/ delivered[u].nn = nn'[u]
                        \/ \E m \in Maps : cache[m][u].nn = nn'[u]
      BY DEF LatestEventIsKept
    <2>1. u # t
      OBVIOUS
    <2> QED BY <1>1, <2>1 DEF KeptInv, LatestEventIsKept
  <1> QED BY <1>2 DEF KeptInv

LEMMA KeptInvStep == KeptInv /\ [Next]_vars => KeptInv'
  <1> SUFFICES ASSUME KeptInv, [Next]_vars PROVE KeptInv'
    OBVIOUS
  <1>0. CacheInv /\ CacheInv' /\ TypeOK
    BY CacheInvStep DEF KeptInv, CacheInv
  <1>1. ASSUME NEW t \in Tags, onTransferStart(t) PROVE KeptInv'
    BY <1>0, <1>1, NotifyKeeps DEF onTransferStart, Counted, Callback, Idle, guiVars
  <1>2. ASSUME NEW t \in Tags, onTransferUpdate(t) PROVE KeptInv'
    BY <1>0, <1>2, NotifyKeeps DEF onTransferUpdate, Callback, Idle, guiVars
  <1>3. ASSUME NEW t \in Tags, NEW s \in EndStates, NEW err \in FinishErrors(t, s),
               onTransferFinish(t, s, err)
        PROVE  KeptInv'
    BY <1>0, <1>3, NotifyKeeps DEF onTransferFinish, Callback, Idle, guiVars
  <1>4. ASSUME NEW t \in Tags, onTransferFinishLoggedOut(t) PROVE KeptInv'
    <2>1. \A u \in Tags : sdk'[u] = sdk[u] \/ sdk'[u] = "ABORTED"
      BY <1>0, <1>4 DEF onTransferFinishLoggedOut, TypeOK
    <2> QED
      BY <1>0, <1>4, <2>1
      DEF onTransferFinishLoggedOut, threadVars, guiVars, KeptInv, LatestEventIsKept
  <1>5. CASE cacheSection
    <2>t. PICK t \in Tags : t = handler.tag
      BY <1>0, <1>5 DEF cacheSection, TypeOK, Callbacks
    <2> DEFINE x == handler.data
               event == handler.event
    <2>1. x \in Data /\ handler # Idle /\ handler' = Idle /\ UNCHANGED <<sdk, nn, delivered, cleared>>
      BY <1>0, <1>5 DEF cacheSection, TypeOK, Callbacks, sdkVars, guiVars
    <2>2. cache' = CacheEvent(cache, event, t, x)
      BY <1>5, <2>t DEF cacheSection
    <2>3. x.nn = nn[t] /\ \A m \in Maps : cache[m][t].nn < x.nn
      BY <1>0, <2>1, <2>t DEF CacheInv, CacheOrder
    <2> HIDE DEF x, event
    <2>4. PICK m0 \in Maps, y \in {x, Inserted(t, x), Empty} :
            /\ OthersKept(cache, cache', t) /\ OnlyIn(cache', t, m0, y)
            /\ Placed(cache, event, t, x, m0, y)
      BY <1>0, <2>1, <2>2, <2>3, CacheEventColumn DEF CacheInv, OneHolder, TypeOK, Caches
    <2>5. Counted(t) => cache'[m0][t].nn = nn[t]
      BY <2>1, <2>3, <2>4 DEF Counted, Placed, Uncached, Inserted, OnlyIn
    <2>6. \A u \in Tags, m \in Maps : u # t => cache'[m][u] = cache[m][u]
      BY <2>4 DEF OthersKept
    <2>7. LatestEventIsKept'
      BY <2>1, <2>5, <2>6, <2>t DEF KeptInv, LatestEventIsKept
    <2> QED BY <1>0, <2>7 DEF KeptInv
  <1>6. CASE processTransfers
    <2>1. UNCHANGED <<sdk, nn, handler, cleared>>
      BY <1>6 DEF processTransfers, sdkVars
    <2> SUFFICES ASSUME NEW u \in Tags \ cleared, Counted(u), sdk[u] \notin {"NONE", "ABORTED"},
                        handler # Idle => handler.tag # u
                 PROVE  \/ delivered'[u].nn = nn[u]
                        \/ \E m \in Maps : cache'[m][u].nn = nn[u]
      BY <1>0, <2>1 DEF KeptInv, LatestEventIsKept
    <2>2. \/ delivered[u].nn = nn[u]
          \/ \E m \in Maps : cache[m][u].nn = nn[u]
      BY DEF KeptInv, LatestEventIsKept
    <2>3. \/ /\ delivered'[u] = delivered[u]
             /\ \A m \in Maps : cache'[m][u] = cache[m][u]
          \/ \E m \in Maps :
               /\ Has(cache, m, u)
               /\ delivered'[u] = cache[m][u]
               /\ \A k \in Maps : cache'[k][u] = Empty
      BY <1>0, <1>6, ExtractionMoves DEF CacheInv, TypeOK, Caches
    <2>4. CASE /\ delivered'[u] = delivered[u]
               /\ \A m \in Maps : cache'[m][u] = cache[m][u]
      BY <2>2, <2>4
    <2>5. ASSUME NEW m \in Maps, Has(cache, m, u), delivered'[u] = cache[m][u]
          PROVE  delivered'[u].nn = nn[u]
      <3>1. /\ delivered[u].nn < cache[m][u].nn /\ cache[m][u].nn <= nn[u]
            /\ delivered[u].nn \in Nat /\ cache[m][u].nn \in Nat /\ nn[u] \in Nat
        BY <1>0, <2>5 DEF CacheInv, CacheOrder, TypeOK, Data
      <3>2. PICK h \in Maps : cache[h][u].nn = nn[u]
        BY <2>2, <3>1
      <3>3. cache[h][u] # Empty
        BY <3>1, <3>2 DEF Empty
      <3>4. h = m
        BY <1>0, <2>5, <3>3 DEF CacheInv, OneHolder, Has
      <3> QED BY <2>5, <3>2, <3>4
    <2> QED BY <2>3, <2>4, <2>5
  <1>7. CASE clear
    <2>1. \A t \in Tags : sdk'[t] \in {"NONE", "ABORTED"}
      BY <1>7 DEF clear
    <2> QED BY <1>0, <2>1 DEF KeptInv, LatestEventIsKept
  <1>8. ASSUME UNCHANGED <<sdk, nn, handler, cache, delivered>>, cleared \subseteq cleared'
        PROVE  KeptInv'
    BY <1>0, <1>8 DEF KeptInv, LatestEventIsKept
  <1> QED
    BY <1>1, <1>2, <1>3, <1>4, <1>5, <1>6, <1>7, <1>8
    DEF Next, SdkNext, GuiNext, Logout, Login, Consume, resetCompleted,
        vars, sdkVars, threadVars, guiVars

\* Folding never loses the latest word on a transfer: once the callback has returned, the
\* last event is in the cache or was handed to the GUI.
THEOREM NothingIsLost == Spec => []LatestEventIsKept
  <1>1. Init => KeptInv
    BY CacheInvInit DEF Init, KeptInv, LatestEventIsKept
  <1>2. KeptInv => LatestEventIsKept
    BY DEF KeptInv
  <1> QED BY <1>1, <1>2, KeptInvStep, PTL DEF Spec

\* Both of them: the events of a transfer reach the GUI, the last one included, after its start.
THEOREM EventsTheorem == Spec => []EventsComeThrough
  <1>1. LatestEventIsKept /\ UpdateNeverOvertakesStart => EventsComeThrough
    BY DEF EventsComeThrough
  <1> QED BY <1>1, NothingIsLost, StartComesFirst, PTL
=============================================================================
