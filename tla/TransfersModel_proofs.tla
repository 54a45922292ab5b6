----------------------- MODULE TransfersModel_proofs ------------------------
(***************************************************************************)
(* The list of transfers: the GUI half implements the environment that     *)
(* TransferThread assumes, so that the theorems about the listener hold of *)
(* the two together, and its rows tell the truth.                          *)
(***************************************************************************)
EXTENDS TransfersModel, TransferThread_count_proofs

-----------------------------------------------------------------------------
(* More about the listener: ended transfers, and which map holds what *)

\* A datum that says that a transfer is over is the last one about it, and the last datum
\* about a file says what became of it, unless the session took it away.
Final(t, y) ==
  /\ y.state \in EndStates => y.nn = nn[t] /\ sdk[t] \notin {"NONE"} \cup LiveStates
  /\ y # Empty /\ y.nn = nn[t] /\ t \notin FolderTransfers => sdk[t] \in {y.state, "ABORTED"}

\* What each of the six maps may hold.
Places(c) ==
  \A t \in Tags :
    /\ Has(c, "start", t) => t \notin FolderTransfers \cup SyncTransfers
    /\ Has(c, "startSync", t) => t \in SyncTransfers
    /\ Has(c, "cancel", t) => t \notin FolderTransfers /\ c["cancel"][t].state = "CANCELLED"
    /\ Has(c, "failedFolder", t) => t \in FolderTransfers
    /\ Has(c, "failed", t) => t \notin FolderTransfers /\ c["failed"][t].state \in EndStates
    /\ Has(c, "update", t) => t \notin FolderTransfers
    /\ t \notin FolderTransfers =>
         \A m \in Maps \ {"cancel", "startSync"} : c[m][t].state # "CANCELLED"

\* The batch is what was delivered last, one datum for each of its transfers.
BatchInv ==
  \A t \in Tags, m \in Maps : Has(batch, m, t) =>
    /\ batch[m][t] = delivered[t] /\ delivered[t].nn > 0
    /\ \A k \in Maps : Has(batch, k, t) => k = m

\* Nothing is on its way about a transfer that was cleared.
ClearedInv ==
  \A t \in cleared :
    /\ \A m \in Maps : ~Has(cache, m, t)
    /\ handler # Idle => handler.tag # t

\* A start is the first thing the GUI is told of a transfer.
FirstStart ==
  \A t \in Tags :
    /\ Has(cache, "start", t) \/ Has(cache, "startSync", t) => delivered[t] = Empty
    /\ delivered[t] # Empty => delivered[t].nn > 0

\* The end of a transfer is not lost, temporary downloads included.
Arrived(t) ==
  \/ delivered[t] # Empty /\ delivered[t].nn = nn[t]
  \/ \E m \in Maps : Has(cache, m, t) /\ cache[m][t].nn = nn[t]
  \/ handler # Idle /\ handler.tag = t
EndKept == \A t \in Tags \ (FolderTransfers \cup cleared) : sdk[t] \in EndStates => Arrived(t)

LastInv ==
  /\ \A t \in Tags : Final(t, delivered[t]) /\ \A m \in Maps : Final(t, cache[m][t])
  /\ Places(cache) /\ Places(batch)
  /\ BatchInv
  /\ ClearedInv
  /\ FirstStart
  /\ EndKept

ThreadInv == StartInv /\ TruthInv /\ LastInv

\* The maps whose data go into rows.
RowMaps == {"start", "startSync", "failed", "update"}

LEMMA MapNames == /\ {"start", "startSync", "cancel", "failedFolder", "failed", "update"} = Maps
                  /\ RowMaps \subseteq Maps
  BY DEF Maps, RowMaps

LEMMA EmptyFacts ==
  /\ Empty.nn = 0 /\ Empty.state = "NONE" /\ Empty.state \notin EndStates
  /\ \A t : Final(t, Empty)
  BY DEF Empty, EndStates, Final

LEMMA NoTransfersPlaced == Places(NoTransfers) /\ \A m \in Maps, t \in Tags : ~Has(NoTransfers, m, t)
  <1>1. \A m \in Maps, t \in Tags : NoTransfers[m][t] = Empty
    BY DEF NoTransfers
  <1>2. {"start", "startSync", "cancel", "failedFolder", "failed", "update"} = Maps
    BY DEF Maps
  <1> QED BY <1>1, <1>2, EmptyFacts DEF Places, Has

\* Maps that lose some of their data hold what they may.
LEMMA PlacesShrink ==
  ASSUME NEW c \in Caches, NEW k \in Caches, Places(c),
         \A m \in Maps, t \in Tags : k[m][t] \in {c[m][t], Empty}
  PROVE  Places(k)
  <1>2. {"start", "startSync", "cancel", "failedFolder", "failed", "update"} = Maps
    BY DEF Maps
  <1> QED BY <1>2, EmptyFacts DEF Places, Has

LEMMA LastInit == Init => LastInv
  <1> SUFFICES ASSUME Init PROVE LastInv
    OBVIOUS
  <1>1. cache = NoTransfers /\ batch = NoTransfers /\ cleared = {}
        /\ (\A t \in Tags : delivered[t] = Empty)
    BY DEF Init
  <1>2. \A m \in Maps, t \in Tags : cache[m][t] = Empty
    BY <1>1 DEF NoTransfers
  <1> QED BY <1>1, <1>2, EmptyFacts, NoTransfersPlaced DEF Init, LastInv, BatchInv, ClearedInv, FirstStart, EndKept, Has, EndStates

\* A notification about a transfer that was not over.
LEMMA NotifyLast ==
  ASSUME ThreadInv, NEW t \in Tags, NEW s, Notify(t, s), sdk[t] \in {"NONE"} \cup LiveStates,
         handler = Idle,
         (handler' = Idle /\ s \notin EndStates) \/ (handler' # Idle /\ handler'.tag = t), UNCHANGED <<cache, batch, delivered, cleared>>
  PROVE  LastInv'
  <1>1. /\ sdk' = [sdk EXCEPT ![t] = s] /\ sdk \in [Tags -> SdkStates]
        /\ nn' = [nn EXCEPT ![t] = @ + 1] /\ nn \in [Tags -> 0..MaxNotifications]
    BY DEF Notify, ThreadInv, StartInv, CacheInv, TypeOK
  <1>2. \A u \in Tags, y \in Data : y.nn <= nn[u] /\ Final(u, y) => Final(u, y)'
    <2>1. \A u \in Tags : nn[u] \in Nat
      BY <1>1
    <2> QED BY <1>1, <2>1 DEF Final, Data
  <1>3. t \notin cleared
    BY DEF ThreadInv, TruthInv, LiveStates
  <1>4. \A u \in Tags : Final(u, delivered[u])' /\ \A m \in Maps : Final(u, cache[m][u])'
    <2>1. \A u \in Tags : /\ delivered[u] \in Data /\ delivered[u].nn <= nn[u]
                         /\ \A m \in Maps : cache[m][u] \in Data /\ cache[m][u].nn <= nn[u]
      BY DEF ThreadInv, StartInv, CacheInv, CacheOrder, TypeOK
    <2> QED BY <1>2, <2>1 DEF ThreadInv, LastInv, Final
  <1>5. BatchInv' /\ Places(cache)' /\ Places(batch)' /\ FirstStart'
    BY DEF ThreadInv, LastInv, BatchInv, FirstStart, Places, Has
  <1>6. ClearedInv'
    BY <1>3 DEF ThreadInv, LastInv, ClearedInv, Has
  <1>7. EndKept'
    BY <1>1 DEF ThreadInv, LastInv, EndKept, Arrived, Has
  <1> QED BY <1>4, <1>5, <1>6, <1>7 DEF LastInv

\* A cancellation leaves no start behind, unless it is a start itself.
LEMMA CancelledLeavesStart ==
  ASSUME NEW c \in Caches, NEW t \in Tags, NEW x \in Data, NEW event,
         x.state = "CANCELLED", event # "start"
  PROVE  CacheEvent(c, event, t, x)["start"][t] = Empty
  <1> DEFINE c1 == DropUnseenStart(c, t, x)
  <1>0. "start" \in Maps /\ "update" \in Maps /\ "update" # "start"
    BY DEF Maps
  <1>1. c1 \in Caches
    BY PutType, EmptyIsData, <1>0 DEF DropUnseenStart
  <1>2. c1["start"][t] = Empty
    BY <1>0 DEF DropUnseenStart, Put, Caches
  <1> HIDE DEF c1
  <1>3. \A k \in Caches, m \in Maps : \A y : k["start"][t] = Empty /\ m # "start" => Put(k, m, t, y)["start"][t] = Empty
    BY <1>0 DEF Put, Caches
  <1>4. onTransferEvent(c, t, x)["start"][t] = Empty /\ onTransferEvent(c, t, x) \in Caches
    <2>1. CASE \E m \in FoldMaps : Has(c1, m, t)
      <3>1. \E m \in FoldMaps : Holder(c1, m, t)
        BY <2>1 DEF FoldMaps, FoldRank, Holder
      <3> DEFINE m == CHOOSE k \in FoldMaps : Holder(c1, k, t)
      <3>2. m \in FoldMaps /\ Has(c1, m, t)
        BY <3>1 DEF Holder
      <3>3. m \in Maps /\ m # "start"
        BY <3>2, <1>2 DEF FoldMaps, Maps, Has
      <3>4. Substitute(c1[m][t], x) \in Data
        BY <1>1, <3>3, SubstituteType DEF Caches
      <3>5. onTransferEvent(c, t, x) = Put(c1, m, t, Substitute(c1[m][t], x))
        BY <2>1 DEF onTransferEvent, c1
      <3> HIDE DEF m
      <3> QED BY <1>1, <1>2, <1>3, <3>3, <3>4, <3>5, PutType
    <2>2. CASE ~\E m \in FoldMaps : Has(c1, m, t)
      <3>1. c1["update"][t] \in Data
        BY <1>0, <1>1 DEF Caches
      <3>2. \A y \in Data : Put(c1, "update", t, y) \in Caches /\ Put(c1, "update", t, y)["start"][t] = Empty
        BY <1>0, <1>1, <1>2, <1>3, PutType
      <3>3. Substitute(c1["update"][t], x) \in Data
        BY <3>1, SubstituteType
      <3> QED BY <1>1, <1>2, <2>2, <3>2, <3>3, EmptyIsData DEF onTransferEvent, c1
    <2> QED BY <2>1, <2>2
  <1>5. Destination(event, t, x) \in Maps \ {"start"}
    BY DEF Destination, Maps
  <1> QED BY <1>3, <1>4, <1>5 DEF CacheEvent

\* The section under mCacheMutex.
LEMMA SectionLast == ThreadInv /\ cacheSection => LastInv'
  <1> SUFFICES ASSUME ThreadInv, cacheSection PROVE LastInv'
    OBVIOUS
  <1>0. TypeOK /\ CacheInv /\ HandlerKnows
    BY DEF ThreadInv, StartInv, CacheInv
  <1>t. PICK t \in Tags : t = handler.tag
    BY <1>0 DEF cacheSection, TypeOK, Callbacks
  <1> DEFINE x == handler.data
             event == handler.event
  <1>1. /\ x \in Data /\ event \in {"start", "update", "finish"}
        /\ handler # Idle /\ handler' = Idle /\ UNCHANGED <<sdk, nn, batch, delivered, cleared>>
    BY <1>0 DEF cacheSection, TypeOK, Callbacks, sdkVars, guiVars
  <1>2. cache' = CacheEvent(cache, event, t, x) /\ cache' \in Caches
    BY <1>0, <1>1, <1>t, CacheEventType DEF cacheSection, TypeOK, Caches
  <1>3. x.nn = nn[t] /\ \A m \in Maps : cache[m][t].nn < x.nn
    BY <1>0, <1>1, <1>t DEF CacheInv, CacheOrder
  <1>4. /\ sdk[t] = x.state
        /\ event = "start" => x.state = "QUEUED" /\ x.nn = 1 /\ t \notin FolderTransfers
        /\ event = "update" => x.state = "ACTIVE" /\ t \notin FolderTransfers
        /\ event = "finish" => x.state \in EndStates
    BY <1>0, <1>1, <1>t DEF HandlerKnows
  <1>5. t \notin cleared
    BY <1>1, <1>t DEF ThreadInv, LastInv, ClearedInv
  <1> HIDE DEF x, event
  <1>6. PICK m0 \in Maps, y \in {x, Inserted(t, x), Empty} :
          /\ OthersKept(cache, cache', t) /\ OnlyIn(cache', t, m0, y)
          /\ Placed(cache, event, t, x, m0, y)
    BY <1>0, <1>1, <1>2, <1>3, CacheEventColumn DEF CacheInv, OneHolder, TypeOK, Caches
  <1>7. /\ y # Empty => y.nn = nn[t]
        /\ t \notin FolderTransfers => y \in {x, Empty}
        /\ y.state \in EndStates => x.state \in EndStates
    BY <1>1, <1>3, <1>4, <1>6, EmptyFacts DEF Inserted, Data, Placed, Uncached, EndStates
  <1>8. Final(t, y)
    <2>1. ASSUME y.state \in EndStates PROVE y.nn = nn[t] /\ sdk[t] \notin {"NONE"} \cup LiveStates
      <3>1. y # Empty /\ x.state \in EndStates
        BY <1>7, <2>1, EmptyFacts
      <3> QED BY <1>4, <1>7, <3>1 DEF EndStates, LiveStates
    <2>2. y # Empty /\ t \notin FolderTransfers => sdk[t] = y.state
      BY <1>4, <1>7
    <2> QED BY <2>1, <2>2 DEF Final
  <1>9. \A u \in Tags : Final(u, delivered[u])' /\ \A m \in Maps : Final(u, cache[m][u])'
    <2>1. \A u \in Tags : \A z : Final(u, z) => Final(u, z)'
      BY <1>1 DEF Final
    <2>2. \A u \in Tags, m \in Maps : cache'[m][u] \in {cache[m][u], y, Empty} /\ (u # t => cache'[m][u] = cache[m][u])
      BY <1>6 DEF OnlyIn, OthersKept
    <2>3. \A u \in Tags, m \in Maps : Final(u, cache'[m][u])
      BY <1>8, <2>2, EmptyFacts DEF ThreadInv, LastInv
    <2>4. \A u \in Tags : Final(u, delivered[u])
      BY DEF ThreadInv, LastInv
    <2> QED BY <1>1, <2>3, <2>4 DEF Final
  \* No event comes behind the end of a transfer.
  <1>10. \A m \in Maps : cache[m][t].state \notin EndStates
    BY <1>1, <1>3 DEF ThreadInv, LastInv, Final, Data
  <1>11. Places(cache)'
    <2>c. Places(cache) /\ "start" \in Maps
      BY DEF ThreadInv, LastInv, Maps
    <2>d. {"start", "startSync", "cancel", "failedFolder", "failed", "update"} = Maps
      BY DEF Maps
    <2>1. ~Has(cache, "cancel", t) /\ ~Has(cache, "failed", t)
      BY <1>10, <2>c, <2>d DEF Places, Has, EndStates
    <2>2. CASE y = Empty
      <3>1. \A m \in Maps, u \in Tags : cache'[m][u] \in {cache[m][u], Empty}
        BY <1>6, <2>2 DEF OnlyIn, OthersKept
      <3> QED BY <1>0, <1>2, <2>c, <3>1, PlacesShrink DEF TypeOK, Caches
    <2>3. CASE y # Empty
      <3>1. \/ Has(cache, m0, t) /\ m0 # "update"
            \/ m0 = Destination(event, t, x) /\ ~Uncached(event, t, x)
        BY <1>6, <2>3 DEF Placed, Has
      <3>2. x.state = "CANCELLED" => m0 # "start"
        <4>1. x.state = "CANCELLED" => event # "start"
          BY <1>4
        <4>2. m0 = "start" => cache'["start"][t] = y
          BY <1>6, <2>c DEF OnlyIn
        <4>3. x.state = "CANCELLED" => cache'["start"][t] = Empty
          BY <1>0, <1>1, <1>2, <4>1, CancelledLeavesStart DEF TypeOK, Caches
        <4> QED BY <2>3, <4>2, <4>3
      <3>3. /\ m0 = "start" => t \notin FolderTransfers \cup SyncTransfers
            /\ m0 = "startSync" => t \in SyncTransfers
        BY <1>1, <1>4, <2>c, <3>1 DEF Places, Destination
      <3>4. /\ m0 = "cancel" => t \notin FolderTransfers /\ x.state = "CANCELLED"
            /\ m0 = "failed" => t \notin FolderTransfers /\ x.state \in EndStates
            /\ m0 = "failedFolder" => t \in FolderTransfers
            /\ m0 = "update" => t \notin FolderTransfers
        BY <1>1, <1>4, <2>1, <2>c, <3>1 DEF Places, Destination, Uncached
      <3>5. t \notin FolderTransfers /\ m0 \notin {"cancel", "startSync"} => x.state # "CANCELLED"
        BY <1>1, <1>4, <2>1, <2>c, <2>d, <3>1, <3>2, <3>3 DEF Places, Destination
      <3>6. \A m \in Maps : cache'[m][t] = IF m = m0 THEN y ELSE Empty
        BY <1>6 DEF OnlyIn
      <3>7. \A m \in Maps, u \in Tags : u # t => cache'[m][u] = cache[m][u]
        BY <1>6 DEF OthersKept
      <3> QED BY <1>7, <2>3, <2>c, <2>d, <3>3, <3>4, <3>5, <3>6, <3>7, EmptyFacts DEF Places, Has
    <2> QED BY <2>2, <2>3
  <1>12. BatchInv' /\ Places(batch)'
    BY <1>1 DEF ThreadInv, LastInv, BatchInv, Places, Has
  <1>13. ClearedInv'
    <2>1. cleared \subseteq Tags
      BY <1>0 DEF TypeOK
    <2>2. \A m \in Maps, u \in Tags : u # t => cache'[m][u] = cache[m][u]
      BY <1>6 DEF OthersKept
    <2> QED BY <1>1, <1>5, <2>1, <2>2 DEF ThreadInv, LastInv, ClearedInv, Has
  <1>14. FirstStart'
    <2>1. delivered[t].nn < nn[t] /\ delivered[t].nn \in Nat
      BY <1>0, <1>1, <1>t DEF CacheInv, CacheOrder, TypeOK, Data
    <2>2. event = "start" => delivered[t] = Empty
      BY <1>3, <1>4, <2>1 DEF ThreadInv, LastInv, FirstStart
    <2>3. m0 \in {"start", "startSync"} /\ y # Empty => delivered[t] = Empty
      BY <1>1, <1>6, <2>2 DEF Placed, Destination, ThreadInv, LastInv, FirstStart, Has
    <2>4. "start" \in Maps /\ "startSync" \in Maps
      BY DEF Maps
    <2>5. \A m \in {"start", "startSync"} : Has(cache', m, t) => m = m0 /\ y # Empty
      BY <1>6, <2>4 DEF OnlyIn, Has
    <2>6. \A m \in Maps, u \in Tags : u # t => cache'[m][u] = cache[m][u]
      BY <1>6 DEF OthersKept
    <2> QED BY <1>1, <2>3, <2>4, <2>5, <2>6 DEF ThreadInv, LastInv, FirstStart, Has
  <1>15. EndKept'
    <2>1. t \notin FolderTransfers => Has(cache', m0, t) /\ cache'[m0][t].nn = nn[t]
      BY <1>6, <1>7 DEF OnlyIn, Placed, Uncached, Has
    <2>2. \A m \in Maps, u \in Tags : u # t => cache'[m][u] = cache[m][u]
      BY <1>6 DEF OthersKept
    <2> QED BY <1>1, <1>t, <2>1, <2>2 DEF ThreadInv, LastInv, EndKept, Arrived, Has
  <1> QED BY <1>9, <1>11, <1>12, <1>13, <1>14, <1>15 DEF LastInv

\* An extraction.
LEMMA ExtractLast == ThreadInv /\ processTransfers => LastInv'
  <1> SUFFICES ASSUME ThreadInv, processTransfers PROVE LastInv'
    OBVIOUS
  <1>0. TypeOK /\ CacheInv
    BY DEF ThreadInv, StartInv, CacheInv
  <1>1. /\ UNCHANGED <<sdk, nn, handler, cleared>>
        /\ batch' = Select(cache, Taken(cache))
        /\ cache' = Select(cache, Entries(cache) \ Taken(cache))
    BY DEF processTransfers, sdkVars
  <1>2. \A t \in Tags :
          \/ /\ delivered'[t] = delivered[t]
             /\ \A m \in Maps : cache'[m][t] = cache[m][t]
          \/ \E m \in Maps :
               /\ Has(cache, m, t)
               /\ delivered'[t] = cache[m][t]
               /\ \A k \in Maps : cache'[k][t] = Empty
    BY <1>0, ExtractionMoves DEF CacheInv, TypeOK, Caches
  <1>3. \A m \in Maps, t \in Tags :
          /\ cache'[m][t] \in {cache[m][t], Empty} /\ batch'[m][t] \in {cache[m][t], Empty}
          /\ batch'[m][t] # Empty => batch'[m][t] = cache[m][t] /\ cache'[m][t] = Empty
    BY <1>1 DEF Select
  <1>4. cache' \in Caches /\ batch' \in Caches /\ cache \in Caches
    BY <1>0, <1>1, SelectType DEF TypeOK, Caches
  <1>5. \A t \in Tags : Final(t, delivered[t])' /\ \A m \in Maps : Final(t, cache[m][t])'
    <2>1. \A t \in Tags : \A y : Final(t, y) => Final(t, y)'
      BY <1>1 DEF Final
    <2>2. \A t \in Tags : Final(t, delivered'[t]) /\ \A m \in Maps : Final(t, cache'[m][t])
      BY <1>2, <1>3, EmptyFacts DEF ThreadInv, LastInv
    <2> QED BY <1>1, <2>2 DEF Final
  <1>6. Places(cache') /\ Places(batch')
    BY <1>3, <1>4, PlacesShrink DEF ThreadInv, LastInv
  <1>7. BatchInv'
    <2> SUFFICES ASSUME NEW t \in Tags, NEW m \in Maps, batch'[m][t] # Empty
                 PROVE  /\ batch'[m][t] = delivered'[t] /\ delivered'[t].nn > 0
                        /\ \A k \in Maps : batch'[k][t] # Empty => k = m
      BY DEF BatchInv, Has
    <2>1. batch'[m][t] = cache[m][t] /\ cache'[m][t] = Empty /\ Has(cache, m, t)
      BY <1>3 DEF Has
    <2>2. \A k \in Maps : Has(cache, k, t) => k = m
      BY <1>0, <2>1 DEF CacheInv, OneHolder
    <2>3. delivered'[t] = cache[m][t]
      BY <1>2, <2>1, <2>2 DEF Has
    <2>4. delivered[t].nn < cache[m][t].nn /\ delivered[t].nn \in Nat /\ cache[m][t].nn \in Nat
      BY <1>0, <2>1 DEF CacheInv, CacheOrder, TypeOK, Data
    <2> QED BY <1>3, <2>1, <2>2, <2>3, <2>4 DEF Has
  <1>8. ClearedInv'
    <2>1. cleared \subseteq Tags
      BY <1>0 DEF TypeOK
    <2> QED BY <1>1, <1>3, <2>1 DEF ThreadInv, LastInv, ClearedInv, Has
  <1>9. FirstStart'
    <2>1. \A m \in Maps, u \in Tags : cache[m][u].nn \in Nat /\ delivered[u].nn \in Nat
      BY <1>0 DEF TypeOK, Data
    <2>2. \A m \in Maps, u \in Tags : Has(cache, m, u) => cache[m][u].nn > 0
      BY <1>0, <2>1 DEF CacheInv, CacheOrder
    <2>3. "start" \in Maps /\ "startSync" \in Maps
      BY DEF Maps
    <2> QED BY <1>2, <2>2, <2>3 DEF ThreadInv, LastInv, FirstStart, Has
  <1>10. EndKept'
    <2> SUFFICES ASSUME NEW t \in Tags \ (FolderTransfers \cup cleared), sdk[t] \in EndStates
                 PROVE  Arrived(t)'
      BY <1>1 DEF EndKept
    <2>1. Arrived(t)
      BY DEF ThreadInv, LastInv, EndKept
    <2>2. \A m, k \in Maps : Has(cache, m, t) /\ Has(cache, k, t) => m = k
      BY <1>0 DEF CacheInv, OneHolder
    <2>3. nn[t] \in Nat /\ delivered[t].nn \in Nat /\ \A m \in Maps : cache[m][t].nn \in Nat
      BY <1>0 DEF TypeOK, Data
    <2>4. \A m \in Maps : Has(cache, m, t) => delivered[t].nn < cache[m][t].nn /\ cache[m][t].nn <= nn[t]
      BY <1>0 DEF CacheInv, CacheOrder
    <2>5. CASE delivered'[t] = delivered[t] /\ \A m \in Maps : cache'[m][t] = cache[m][t]
      BY <1>1, <2>1, <2>5 DEF Arrived, Has
    <2>6. ASSUME NEW m \in Maps, Has(cache, m, t), delivered'[t] = cache[m][t] PROVE Arrived(t)'
      <3>1. delivered[t].nn # nn[t]
        BY <2>3, <2>4, <2>6
      <3>2. delivered'[t] # Empty
        BY <2>6 DEF Has
      <3> QED BY <1>1, <2>1, <2>2, <2>6, <3>1, <3>2 DEF Arrived
    <2> QED BY <1>2, <2>5, <2>6
  <1> QED BY <1>5, <1>6, <1>7, <1>8, <1>9, <1>10 DEF LastInv, Places, Has

LEMMA ClearLast == ThreadInv /\ clear => LastInv'
  <1> SUFFICES ASSUME ThreadInv, clear PROVE LastInv'
    OBVIOUS
  <1>1. /\ handler' = Idle /\ cache' = NoTransfers /\ batch' = NoTransfers
        /\ UNCHANGED <<nn, delivered>>
        /\ \A t \in Tags : sdk'[t] = IF sdk[t] = "NONE" THEN "NONE" ELSE "ABORTED"
    BY DEF clear
  <1>2. \A t \in Tags : Final(t, delivered[t])'
    BY <1>1 DEF ThreadInv, LastInv, Final, LiveStates
  <1>3. \A m \in Maps, t \in Tags : cache'[m][t] = Empty /\ batch'[m][t] = Empty
    BY <1>1 DEF NoTransfers
  <1>4. \A t \in Tags, m \in Maps : Final(t, cache[m][t])'
    BY <1>3 DEF Final, Empty, EndStates
  <1>5. cleared' \subseteq Tags
    BY DEF clear
  <1>6. FirstStart' /\ EndKept'
    BY <1>1, <1>3, MapNames DEF ThreadInv, LastInv, FirstStart, EndKept, EndStates, Has
  <1> QED
    BY <1>1, <1>2, <1>3, <1>4, <1>5, <1>6, NoTransfersPlaced
    DEF LastInv, BatchInv, ClearedInv, Places, Has

\* Clearing rows: what is cleared was delivered as over.
LEMMA ResetLast ==
  ASSUME ThreadInv, NEW S \in SUBSET Tags, resetCompleted(S)
  PROVE  LastInv'
  <1>0. TypeOK /\ CacheInv
    BY DEF ThreadInv, StartInv, CacheInv
  <1>1. /\ S \subseteq Clearable /\ cleared' = cleared \cup S
        /\ UNCHANGED <<sdk, nn, handler, cache, batch, delivered>>
    BY DEF resetCompleted, sdkVars
  <1>2. ASSUME NEW t \in S
        PROVE  (\A m \in Maps : ~Has(cache, m, t)) /\ (handler # Idle => handler.tag # t)
    <2>1. delivered[t].state \in EndStates
      BY <1>1 DEF Clearable, EndStates
    <2>2. delivered[t].nn = nn[t]
      BY <2>1 DEF ThreadInv, LastInv, Final
    <2>3. nn[t] \in Nat /\ \A m \in Maps : cache[m][t].nn \in Nat
      BY <1>0 DEF TypeOK, Data
    <2>4. \A m \in Maps : Has(cache, m, t) => delivered[t].nn < cache[m][t].nn /\ cache[m][t].nn <= nn[t]
      BY <1>0 DEF CacheInv, CacheOrder
    <2>5. handler # Idle => delivered[handler.tag].nn < nn[handler.tag]
      BY <1>0 DEF CacheInv, CacheOrder
    <2> QED BY <2>2, <2>3, <2>4, <2>5
  <1>3. ClearedInv'
    BY <1>1, <1>2 DEF ThreadInv, LastInv, ClearedInv, Has
  <1> QED BY <1>1, <1>3 DEF ThreadInv, LastInv, Final, Places, BatchInv, FirstStart, EndKept, Arrived, Has

LEMMA LastStep == ThreadInv /\ [Next]_vars => LastInv'
  <1> SUFFICES ASSUME ThreadInv, [Next]_vars PROVE LastInv'
    OBVIOUS
  <1>0. TypeOK
    BY DEF ThreadInv, StartInv, CacheInv
  <1>1. ASSUME NEW t \in Tags, onTransferStart(t) PROVE LastInv'
    BY <1>1, NotifyLast DEF onTransferStart, Callback, Idle, EndStates, guiVars
  <1>2. ASSUME NEW t \in Tags, onTransferUpdate(t) PROVE LastInv'
    BY <1>2, NotifyLast DEF onTransferUpdate, Callback, Idle, EndStates, guiVars
  <1>3. ASSUME NEW t \in Tags, NEW s, NEW err, onTransferFinish(t, s, err) PROVE LastInv'
    BY <1>3, NotifyLast DEF onTransferFinish, Callback, Idle, EndStates, guiVars
  <1>4. ASSUME NEW t \in Tags, onTransferFinishLoggedOut(t) PROVE LastInv'
    <2>1. /\ sdk' = [sdk EXCEPT ![t] = "ABORTED"] /\ sdk \in [Tags -> SdkStates]
          /\ UNCHANGED <<nn, handler, cache, batch, delivered, cleared>>
      BY <1>0, <1>4 DEF onTransferFinishLoggedOut, threadVars, guiVars, TypeOK
    <2>2. \A u \in Tags : Final(u, delivered[u])' /\ \A m \in Maps : Final(u, cache[m][u])'
      BY <2>1 DEF ThreadInv, LastInv, Final, LiveStates
    <2>3. EndKept'
      BY <2>1 DEF ThreadInv, LastInv, EndKept, Arrived, EndStates, Has
    <2> QED BY <2>1, <2>2, <2>3 DEF ThreadInv, LastInv, Places, BatchInv, ClearedInv, FirstStart, Has
  <1>5. ASSUME NEW M \in SUBSET Filled, Consume(M) PROVE LastInv'
    <2>1. /\ UNCHANGED <<sdk, nn, handler, cache, delivered, cleared>>
          /\ \A m \in Maps, t \in Tags : batch'[m][t] \in {batch[m][t], Empty}
      BY <1>5 DEF Consume, NoTransfers, sdkVars, threadVars
    <2>2. batch \in Caches /\ batch' \in Caches
      BY <1>0, <1>5, NoTransfersType DEF Consume, TypeOK, Caches
    <2>3. Places(batch')
      BY <2>1, <2>2, PlacesShrink DEF ThreadInv, LastInv
    <2>4. BatchInv'
      BY <2>1 DEF ThreadInv, LastInv, BatchInv, Has
    <2> QED BY <2>1, <2>3, <2>4 DEF ThreadInv, LastInv, Final, Places, ClearedInv, FirstStart, EndKept, Arrived, Has
  <1>6. ASSUME UNCHANGED <<sdk, nn, handler, cache, batch, delivered, cleared>> PROVE LastInv'
    BY <1>6 DEF ThreadInv, LastInv, Final, Places, BatchInv, ClearedInv, FirstStart, EndKept, Arrived, Has
  <1> QED
    BY <1>1, <1>2, <1>3, <1>4, <1>5, <1>6, SectionLast, ExtractLast, ClearLast, ResetLast
    DEF Next, SdkNext, GuiNext, Logout, Login, vars, sdkVars, threadVars, guiVars

LEMMA ThreadInit == Init => ThreadInv
  BY StartInvInit, TruthInit, LastInit DEF ThreadInv

LEMMA ThreadStep == ThreadInv /\ [Next]_vars => ThreadInv'
  BY StartInvStep, TruthStep, LastStep DEF ThreadInv
-----------------------------------------------------------------------------
(* The stages of a tick *)

Stages ==
  [batch : Caches, rows : [Tags -> Data], toCancel : SUBSET Tags, toClear : SUBSET Tags,
   folders : SUBSET Tags, blocked : 0..ResetAfterEmptyReceives, task : BOOLEAN]

\* The thresholds are never exceeded, so that the UI is never blocked.
NeverBlocked ==
  /\ Cardinality(Tags) <= CancelThreshold /\ Cardinality(Tags) <= StartThreshold
  /\ Cardinality(Tags) <= FailedThreshold

StaysOpen(s, r) == NeverBlocked /\ s.blocked = 0 => r.blocked = 0 /\ r.task = s.task

LEMMA EmptiedMaps ==
  ASSUME NEW s \in Stages, NEW M
  PROVE  /\ Emptied(s, M) \in Caches
         /\ \A m \in Maps : Emptied(s, M)[m] = IF m \in M THEN NoTransfers[m] ELSE s.batch[m]
         /\ \A m \in M \cap Maps, t \in Tags : Emptied(s, M)[m][t] = Empty
  BY EmptyIsData DEF Emptied, Stages, Caches, NoTransfers

LEMMA WithoutRows ==
  ASSUME NEW r \in [Tags -> Data], NEW S
  PROVE  /\ Without(r, S) \in [Tags -> Data]
         /\ \A t \in Tags : Without(r, S)[t] = IF t \in S THEN Empty ELSE r[t]
  BY EmptyIsData DEF Without

LEMMA InMapIsFew ==
  ASSUME NEW s \in Stages, NEW m \in Maps, NeverBlocked
  PROVE  /\ ~(Cardinality(InMap(s, m)) > CancelThreshold)
         /\ ~(Cardinality(InMap(s, m)) > StartThreshold)
         /\ ~(Cardinality(InMap(s, m)) > FailedThreshold)
  <1>1. InMap(s, m) \in SUBSET Tags
    BY DEF InMap
  <1>2. Cardinality(InMap(s, m)) <= Cardinality(Tags)
    BY <1>1, FS_Subset, TagsAssumption
  <1>3. Cardinality(InMap(s, m)) \in Nat /\ Cardinality(Tags) \in Nat
    BY <1>1, FS_Subset, FS_CardinalityType, TagsAssumption
  <1> QED BY <1>2, <1>3, ThresholdsAssumption DEF NeverBlocked

LEMMA BlockedStage ==
  ASSUME NEW s \in Stages
  PROVE  /\ setUiBlockedMode(s) \in Stages
         /\ setUiBlockedMode(s) = [s EXCEPT !.blocked = ResetAfterEmptyReceives]
  BY ThresholdsAssumption DEF setUiBlockedMode, Stages

\* The cancelled tags go from the batch to the list, and with the lock from there out of
\* the rows.
CancelEffect(s, c) ==
  /\ c \in Stages
  /\ \A m \in Maps \ {"cancel"} : c.batch[m] = s.batch[m]
  /\ c.batch["cancel"] \in {s.batch["cancel"], NoTransfers["cancel"]}
  /\ c.toClear = s.toClear
  /\ c.toCancel \subseteq s.toCancel \cup InMap(s, "cancel")
  /\ \A t \in s.toCancel \cup InMap(s, "cancel") : t \in c.toCancel \/ c.rows[t] = Empty
  /\ \A t \in Tags :
       \/ c.rows[t] = s.rows[t]
       \/ c.rows[t] = Empty /\ t \in s.toCancel \cup InMap(s, "cancel")
  /\ StaysOpen(s, c)

LEMMA CancelStageEffect ==
  ASSUME NEW s \in Stages, NEW free
  PROVE  CancelEffect(s, CancelStage(s, free))
  <1> DEFINE c == cacheCancelTransfersTags(s)
             S == InMap(s, "cancel")
  <1>0. "cancel" \in Maps /\ S \in SUBSET Tags
    BY DEF Maps, InMap
  <1>1. /\ c \in Stages /\ c.rows = s.rows /\ c.toClear = s.toClear /\ c.blocked = s.blocked
        /\ c.task = s.task
        /\ c.toCancel = s.toCancel \cup S
        /\ \A m \in Maps \ {"cancel"} : c.batch[m] = s.batch[m]
        /\ c.batch["cancel"] = NoTransfers["cancel"]
    <2> DEFINE B == Emptied(s, {"cancel"})
    <2>1. /\ B \in Caches /\ \A m \in Maps \ {"cancel"} : B[m] = s.batch[m]
          /\ B["cancel"] = NoTransfers["cancel"]
      BY <1>0, EmptiedMaps
    <2>2. c = [s EXCEPT !.toCancel = @ \cup S, !.batch = B]
      BY DEF cacheCancelTransfersTags
    <2> HIDE DEF c, B, S
    <2>3. /\ c.rows = s.rows /\ c.toClear = s.toClear /\ c.blocked = s.blocked
          /\ c.task = s.task /\ c.toCancel = s.toCancel \cup S /\ c.batch = B
      BY <2>2 DEF Stages
    <2>4. c \in Stages
      BY <1>0, <2>1, <2>2 DEF Stages
    <2> QED BY <2>1, <2>3, <2>4
  <1> HIDE DEF c, S
  <1>2. ASSUME NEW d \in {c, processCancelTransfers(c)} PROVE CancelEffect(s, d)
    <2>1. CASE d = c
      BY <1>1, <2>1 DEF CancelEffect, StaysOpen, S
    <2>2. CASE d = processCancelTransfers(c)
      <3>1. /\ d \in Stages /\ d.toClear = s.toClear /\ d.blocked = s.blocked /\ d.task = s.task
            /\ d.batch = c.batch /\ d.toCancel = {} /\ d.rows = Without(c.rows, c.toCancel)
        <4> DEFINE R == Without(c.rows, c.toCancel)
        <4>1. R \in [Tags -> Data]
          BY <1>1, WithoutRows DEF Stages
        <4>2. d = [c EXCEPT !.rows = R, !.toCancel = {}]
          BY <2>2 DEF processCancelTransfers
        <4> HIDE DEF R
        <4>3. d \in Stages /\ d.rows = R /\ d.toCancel = {} /\ d.toClear = c.toClear
              /\ d.blocked = c.blocked /\ d.task = c.task /\ d.batch = c.batch
          BY <1>1, <4>1, <4>2 DEF Stages
        <4> QED BY <1>1, <4>3 DEF R
      <3>2. \A t \in Tags : d.rows[t] = IF t \in c.toCancel THEN Empty ELSE c.rows[t]
        BY <1>1, <3>1, WithoutRows DEF Stages
      <3>3. c.toCancel \subseteq Tags
        BY <1>1 DEF Stages
      <3> QED BY <1>1, <3>1, <3>2, <3>3 DEF CancelEffect, StaysOpen, S
    <2> QED BY <1>2, <2>1, <2>2
  <1>3. S # {} /\ ~(s.blocked > 0 \/ Cardinality(S) > CancelThreshold) =>
          CancelStage(s, free) \in {c, processCancelTransfers(c)}
    BY DEF CancelStage, c, S
  <1>4. CASE S = {}
    <2>1. CancelStage(s, free) = s
      BY <1>4 DEF CancelStage, S
    <2> QED BY <1>4, <2>1 DEF CancelEffect, StaysOpen, S
  <1>5. CASE S # {} /\ (s.blocked > 0 \/ Cardinality(S) > CancelThreshold)
    <2>1. CancelStage(s, free) = setUiBlockedMode(c)
      BY <1>5 DEF CancelStage, c, S
    <2> DEFINE d == setUiBlockedMode(c)
    <2>2. /\ d \in Stages /\ d.rows = s.rows /\ d.toClear = s.toClear
          /\ d.batch = c.batch /\ d.toCancel = c.toCancel
      BY <1>1, BlockedStage DEF Stages
    <2>3. ~(NeverBlocked /\ s.blocked = 0)
      BY <1>0, <1>5, InMapIsFew DEF S
    <2> QED BY <1>1, <2>1, <2>2, <2>3 DEF CancelEffect, StaysOpen, S
  <1> QED BY <1>2, <1>3, <1>4, <1>5

\* What a row stage does to one row: the row stays, and what was taken out of the batch
\* was of no use to it; or it goes, being the row of a failed sync transfer; or it shows
\* what was in the batch.
Unused(s, r, t) ==
  \A m \in RowMaps : Has(s.batch, m, t) =>
    \/ r.batch[m] = s.batch[m]
    \/ m \in {"start", "startSync"} /\ s.rows[t] # Empty
    \/ m \in {"failed", "update"} /\ s.rows[t] = Empty
Dropped(s, r, t) == r.rows[t] = Empty /\ t \in s.toClear \cup (InMap(s, "failed") \cap SyncTransfers)
ShownFrom(s, r, t) ==
  \E m \in RowMaps :
    /\ Has(s.batch, m, t) /\ r.rows[t] = s.batch[m][t]
    /\ r.batch[m] = NoTransfers[m]
    /\ m \in {"failed", "update"} => s.rows[t] # Empty

RowEffect(s, r) ==
  /\ r \in Stages
  /\ r.toCancel = s.toCancel
  /\ r.toClear \subseteq s.toClear \cup (InMap(s, "failed") \cap SyncTransfers)
  /\ \A m \in Maps \ RowMaps : r.batch[m] = s.batch[m]
  /\ \A m \in RowMaps : r.batch[m] \in {s.batch[m], NoTransfers[m]}
  /\ \A t \in Tags :
       (r.rows[t] = s.rows[t] /\ Unused(s, r, t)) \/ Dropped(s, r, t) \/ ShownFrom(s, r, t)
  /\ StaysOpen(s, r)

LEMMA NoRowEffect ==
  ASSUME NEW s \in Stages
  PROVE  /\ RowEffect(s, s)
         /\ (NeverBlocked /\ s.blocked = 0) \/ RowEffect(s, setUiBlockedMode(s))
  <1>1. RowEffect(s, s)
    BY MapNames DEF RowEffect, Unused, StaysOpen
  <1> DEFINE r == setUiBlockedMode(s)
  <1>2. r \in Stages /\ r.rows = s.rows /\ r.toClear = s.toClear /\ r.toCancel = s.toCancel
        /\ r.batch = s.batch
    BY BlockedStage DEF Stages
  <1> HIDE DEF r
  <1>3. ~(NeverBlocked /\ s.blocked = 0) => RowEffect(s, r)
    BY <1>2 DEF RowEffect, Unused, StaysOpen
  <1> QED BY <1>1, <1>3 DEF r

LEMMA FailedRows ==
  ASSUME NEW s \in Stages
  PROVE  /\ RowEffect(s, processFailedTransfers(s))
         /\ processFailedTransfers(s).batch["failed"] = NoTransfers["failed"]
         /\ \A t \in SyncTransfers : Has(s.batch, "failed", t) /\ s.rows[t] # Empty
                => t \in processFailedTransfers(s).toClear
  <1> DEFINE r == processFailedTransfers(s)
             S == InMap(s, "failed") \cap Shown(s.rows)
  <1>0. "failed" \in Maps /\ S \in SUBSET Tags /\ SyncTransfers \subseteq Tags
    BY TagsAssumption DEF Maps, InMap
  <1>1. \A t \in Tags : s.batch["failed"][t] \in Data /\ s.rows[t] \in Data
    BY <1>0 DEF Stages, Caches
  <1>2. /\ r.rows = [t \in Tags |-> IF t \in S THEN s.batch["failed"][t] ELSE s.rows[t]]
        /\ r.toClear = s.toClear \cup (S \cap SyncTransfers)
        /\ r.batch = Emptied(s, {"failed"})
        /\ r.toCancel = s.toCancel /\ r.blocked = s.blocked /\ r.task = s.task
        /\ r.folders = s.folders
    BY DEF processFailedTransfers, Stages
  <1>3. r \in Stages
    BY <1>0, <1>1, EmptiedMaps DEF processFailedTransfers, Stages
  <1> HIDE DEF r
  <1>4. /\ \A m \in Maps \ {"failed"} : r.batch[m] = s.batch[m]
        /\ r.batch["failed"] = NoTransfers["failed"]
    BY <1>0, <1>2, EmptiedMaps
  <1>5. ASSUME NEW t \in Tags
        PROVE  (r.rows[t] = s.rows[t] /\ Unused(s, r, t)) \/ ShownFrom(s, r, t)
    <2>1. CASE t \in S
      BY <1>2, <1>4, <2>1 DEF ShownFrom, RowMaps, InMap, Shown
    <2>2. CASE t \notin S
      <3>1. r.rows[t] = s.rows[t]
        BY <1>2, <2>2
      <3>2. Has(s.batch, "failed", t) => s.rows[t] = Empty
        BY <2>2 DEF InMap, Shown
      <3> QED BY <1>4, <3>1, <3>2, MapNames DEF Unused
    <2> QED BY <2>1, <2>2
  <1>6. RowEffect(s, r)
    BY <1>2, <1>3, <1>4, <1>5, MapNames DEF RowEffect, StaysOpen, RowMaps, S
  <1>7. \A t \in SyncTransfers : Has(s.batch, "failed", t) /\ s.rows[t] # Empty => t \in r.toClear
    BY <1>0, <1>2 DEF InMap, Shown
  <1> QED BY <1>4, <1>6, <1>7 DEF r

LEMMA FailedStageEffect ==
  ASSUME NEW s \in Stages, NEW free
  PROVE  RowEffect(s, FailedStage(s, free))
  <1>f. "failed" \in Maps
    BY DEF Maps
  <1>1. ASSUME s.blocked > 0 \/ Cardinality(InMap(s, "failed")) > FailedThreshold
        PROVE  RowEffect(s, FailedStage(s, free))
    <2> DEFINE b == setUiBlockedMode(s)
               r == [b EXCEPT !.task = TRUE]
    <2>1. FailedStage(s, free) = r
      BY <1>1 DEF FailedStage
    <2>2. b \in Stages /\ b = [s EXCEPT !.blocked = ResetAfterEmptyReceives]
      BY BlockedStage
    <2> HIDE DEF b
    <2>3. /\ r \in Stages /\ r.rows = s.rows /\ r.toClear = s.toClear
          /\ r.toCancel = s.toCancel /\ r.batch = s.batch
      BY <2>2 DEF Stages
    <2> HIDE DEF r
    <2>4. ~(NeverBlocked /\ s.blocked = 0)
      BY <1>1, <1>f, InMapIsFew DEF Stages
    <2> QED BY <2>1, <2>3, <2>4 DEF RowEffect, Unused, StaysOpen
  <1>2. ASSUME NEW p \in {s, processFailedTransfers(s)}
        PROVE  RowEffect(s, processSyncFailedTransfers(p))
    <2> DEFINE r == processSyncFailedTransfers(p)
               R == Without(p.rows, p.toClear)
    <2>1. RowEffect(s, p) /\ p \in Stages
      BY <1>2, FailedRows, NoRowEffect DEF RowEffect
    <2>2. R \in [Tags -> Data] /\ \A t \in Tags : R[t] = IF t \in p.toClear THEN Empty ELSE p.rows[t]
      BY <2>1, WithoutRows DEF Stages
    <2>3. r = [p EXCEPT !.rows = R, !.toClear = {}]
      BY DEF processSyncFailedTransfers
    <2> HIDE DEF r, R
    <2>4. /\ r \in Stages /\ r.rows = R /\ r.toClear = {} /\ r.toCancel = p.toCancel
          /\ r.batch = p.batch /\ r.blocked = p.blocked /\ r.task = p.task
      BY <2>1, <2>2, <2>3 DEF Stages
    <2>5. ASSUME NEW t \in Tags
          PROVE  (r.rows[t] = s.rows[t] /\ Unused(s, r, t)) \/ Dropped(s, r, t) \/ ShownFrom(s, r, t)
      <3>1. CASE t \in p.toClear
        <4>1. r.rows[t] = Empty
          BY <2>2, <2>4, <3>1
        <4>2. t \in s.toClear \cup (InMap(s, "failed") \cap SyncTransfers)
          BY <2>1, <3>1 DEF RowEffect
        <4> QED BY <4>1, <4>2 DEF Dropped
      <3>2. CASE t \notin p.toClear
        <4>1. r.rows[t] = p.rows[t] /\ r.batch = p.batch
          BY <2>2, <2>4, <3>2
        <4> QED BY <2>1, <4>1 DEF RowEffect, Unused, Dropped, ShownFrom
      <3> QED BY <3>1, <3>2
    <2> QED BY <2>1, <2>4, <2>5 DEF RowEffect, StaysOpen, r
  <1> QED BY <1>1, <1>2 DEF FailedStage

LEMMA StartRows ==
  ASSUME NEW s \in Stages
  PROVE  RowEffect(s, processStartTransfers(s))
  <1> DEFINE r == processStartTransfers(s)
             S == (InMap(s, "start") \cup InMap(s, "startSync")) \ Shown(s.rows)
             R == [t \in Tags |-> IF t \in S THEN Started(s, t) ELSE s.rows[t]]
             B == Emptied(s, {"start", "startSync"})
  <1>0. "start" \in Maps /\ "startSync" \in Maps
    BY DEF Maps
  <1>1. R \in [Tags -> Data]
    BY <1>0 DEF Stages, Caches, Started
  <1>2. /\ B \in Caches
        /\ \A m \in Maps : B[m] = IF m \in {"start", "startSync"} THEN NoTransfers[m] ELSE s.batch[m]
    BY EmptiedMaps
  <1>3. r = [s EXCEPT !.rows = R, !.batch = B]
    BY DEF processStartTransfers, Stages
  <1> HIDE DEF r, R, B
  <1>4. /\ r \in Stages /\ r.rows = R /\ r.batch = B /\ r.toClear = s.toClear
        /\ r.toCancel = s.toCancel /\ r.blocked = s.blocked /\ r.task = s.task
    BY <1>1, <1>2, <1>3 DEF Stages
  <1>5. ASSUME NEW t \in Tags
        PROVE  (r.rows[t] = s.rows[t] /\ Unused(s, r, t)) \/ ShownFrom(s, r, t)
    <2>1. CASE t \in S
      <3>1. r.rows[t] = Started(s, t)
        BY <1>4, <2>1 DEF R
      <3>2. PICK m \in {"start", "startSync"} : Has(s.batch, m, t) /\ r.rows[t] = s.batch[m][t]
        BY <2>1, <3>1 DEF InMap, Started
      <3>3. m \in RowMaps /\ m \notin {"failed", "update"} /\ r.batch[m] = NoTransfers[m]
        BY <1>2, <1>4, <1>0 DEF RowMaps
      <3> QED BY <3>2, <3>3 DEF ShownFrom
    <2>2. CASE t \notin S
      <3>1. r.rows[t] = s.rows[t]
        BY <1>4, <2>2 DEF R
      <3>2. Has(s.batch, "start", t) \/ Has(s.batch, "startSync", t) => s.rows[t] # Empty
        BY <2>2 DEF InMap, Shown
      <3> QED BY <1>2, <1>4, <3>1, <3>2, MapNames DEF Unused
    <2> QED BY <2>1, <2>2
  <1>6. /\ \A m \in Maps \ RowMaps : r.batch[m] = s.batch[m]
        /\ \A m \in RowMaps : r.batch[m] \in {s.batch[m], NoTransfers[m]}
    BY <1>2, <1>4, MapNames DEF RowMaps
  <1> QED BY <1>4, <1>5, <1>6 DEF RowEffect, StaysOpen, r

LEMMA UpdateRows ==
  ASSUME NEW s \in Stages
  PROVE  RowEffect(s, processUpdateTransfers(s))
  <1> DEFINE r == processUpdateTransfers(s)
             S == InMap(s, "update") \cap Shown(s.rows)
             R == [t \in Tags |-> IF t \in S THEN s.batch["update"][t] ELSE s.rows[t]]
             B == Emptied(s, {"update"})
  <1>0. "update" \in Maps
    BY DEF Maps
  <1>1. R \in [Tags -> Data]
    BY <1>0 DEF Stages, Caches
  <1>2. B \in Caches /\ \A m \in Maps : B[m] = IF m = "update" THEN NoTransfers[m] ELSE s.batch[m]
    BY EmptiedMaps
  <1>3. r = [s EXCEPT !.rows = R, !.batch = B]
    BY DEF processUpdateTransfers, Stages
  <1> HIDE DEF r, R, B
  <1>4. /\ r \in Stages /\ r.rows = R /\ r.batch = B /\ r.toClear = s.toClear
        /\ r.toCancel = s.toCancel /\ r.blocked = s.blocked /\ r.task = s.task
    BY <1>1, <1>2, <1>3 DEF Stages
  <1>5. ASSUME NEW t \in Tags
        PROVE  (r.rows[t] = s.rows[t] /\ Unused(s, r, t)) \/ ShownFrom(s, r, t)
    <2>1. CASE t \in S
      <3>1. r.rows[t] = s.batch["update"][t] /\ Has(s.batch, "update", t) /\ s.rows[t] # Empty
        BY <1>4, <2>1 DEF R, InMap, Shown
      <3> QED BY <1>0, <1>2, <1>4, <3>1 DEF ShownFrom, RowMaps
    <2>2. CASE t \notin S
      <3>1. r.rows[t] = s.rows[t]
        BY <1>4, <2>2 DEF R
      <3>2. Has(s.batch, "update", t) => s.rows[t] = Empty
        BY <2>2 DEF InMap, Shown
      <3> QED BY <1>2, <1>4, <3>1, <3>2, MapNames DEF Unused
    <2> QED BY <2>1, <2>2
  <1>6. /\ \A m \in Maps \ RowMaps : r.batch[m] = s.batch[m]
        /\ \A m \in RowMaps : r.batch[m] \in {s.batch[m], NoTransfers[m]}
    BY <1>2, <1>4, MapNames DEF RowMaps
  <1> QED BY <1>4, <1>5, <1>6 DEF RowEffect, StaysOpen, r

LEMMA RowStageEffect ==
  ASSUME NEW s \in Stages, NEW free
  PROVE  RowEffect(s, RowStage(s, free))
  <1>1. RowEffect(s, StartStage(s, free))
    <2> DEFINE b == setUiBlockedMode(s)
    <2>1. "start" \in Maps
      BY DEF Maps
    <2>2. CASE s.blocked > 0 \/ Cardinality(InMap(s, "start")) > StartThreshold
      <3>1. StartStage(s, free) = IF "rows" \in free THEN processStartTransfers(b) ELSE b
        BY <2>2 DEF StartStage
      <3>2. ~(NeverBlocked /\ s.blocked = 0)
        BY <2>1, <2>2, InMapIsFew DEF Stages
      <3>3. /\ b \in Stages /\ b.rows = s.rows /\ b.toClear = s.toClear
            /\ b.toCancel = s.toCancel /\ b.batch = s.batch
        BY BlockedStage DEF Stages
      <3> HIDE DEF b
      <3>4. \A r : RowEffect(b, r) => RowEffect(s, r)
        BY <3>2, <3>3 DEF RowEffect, Unused, Dropped, ShownFrom, StaysOpen, InMap
      <3> QED BY <3>1, <3>3, <3>4, StartRows, NoRowEffect
    <2>3. CASE ~(s.blocked > 0 \/ Cardinality(InMap(s, "start")) > StartThreshold)
      BY <2>3, StartRows, NoRowEffect DEF StartStage
    <2> QED BY <2>2, <2>3
  <1> QED BY <1>1, FailedStageEffect, UpdateRows, NoRowEffect DEF RowStage
-----------------------------------------------------------------------------
(* What a tick, or the task of the failed transfers, does to the rows *)

InBatch(m) == {t \in Tags : Has(batch, m, t)}

\* The transfers whose rows may go.
Going == rowsToCancel \cup InBatch("cancel") \cup failedToClear \cup (InBatch("failed") \cap SyncTransfers)

KeptRow(t) ==
  /\ rows'[t] = rows[t]
  /\ \A m \in RowMaps : Has(batch, m, t) =>
       \/ batch'[m] = batch[m]
       \/ m \in {"start", "startSync"} /\ HasRow(t)
       \/ m \in {"failed", "update"} /\ ~HasRow(t)
GoneRow(t) == rows'[t] = Empty /\ t \in Going
NewRow(t) ==
  \E m \in RowMaps :
    /\ Has(batch, m, t) /\ rows'[t] = batch[m][t]
    /\ batch'[m] = NoTransfers[m]
    /\ m \in {"failed", "update"} => HasRow(t)

TickEffect ==
  /\ UNCHANGED <<sdkVars, threadVars, delivered, cleared, draining>>
  /\ batch' \in Caches /\ \A m \in Maps : batch'[m] \in {batch[m], NoTransfers[m]}
  /\ rows' \in [Tags -> Data]
  /\ rowsToCancel' \subseteq rowsToCancel \cup InBatch("cancel")
  /\ failedToClear' \subseteq failedToClear \cup (InBatch("failed") \cap SyncTransfers)
  /\ \A t \in Tags : KeptRow(t) \/ GoneRow(t) \/ NewRow(t)
  /\ \A t \in rowsToCancel \cup InBatch("cancel") :
       \/ t \in rowsToCancel' \/ rows'[t] = Empty \/ NewRow(t)
       \/ t \in InBatch("cancel") /\ batch'["cancel"] = batch["cancel"]

\* The UI was not blocked and is not blocked.
Open == uiBlocked = 0 /\ ~failedTask /\ unblockTask = "none" /\ draining = {}

LEMMA StageIsStage == ModelTypeOK => Stage \in Stages
  BY DEF ModelTypeOK, TypeOK, Stage, Stages, Caches

LEMMA TickHasEffect ==
  ASSUME ModelTypeOK, NEW free, onProcessTransfers(free)
  PROVE  TickEffect /\ ModelTypeOK' /\ (NeverBlocked /\ Open => Open')
  <1> DEFINE s == Stage
             c == CancelStage(s, free)
             f == FolderStage(c, free)
             r == RowStage(f, free)
  <1>0. s \in Stages /\ s.batch = batch /\ s.rows = rows /\ s.toCancel = rowsToCancel
        /\ s.toClear = failedToClear /\ s.blocked = uiBlocked /\ s.task = failedTask
    BY StageIsStage DEF Stage
  <1>1. /\ batch' = r.batch /\ rows' = r.rows /\ rowsToCancel' = r.toCancel
        /\ failedToClear' = r.toClear /\ failedFolders' = r.folders /\ failedTask' = r.task
        /\ uiBlocked' = CountDown(r.blocked)
        /\ unblockTask' = Unblocked(r.blocked, r.toCancel, r.toClear)
        /\ UNCHANGED <<sdkVars, threadVars, delivered, cleared, draining>>
    BY DEF onProcessTransfers
  <1> HIDE DEF s
  <1>2. CancelEffect(s, c)
    BY <1>0, CancelStageEffect
  <1> HIDE DEF c
  <1>3. /\ f \in Stages /\ f.rows = c.rows /\ f.toCancel = c.toCancel /\ f.toClear = c.toClear
        /\ f.blocked = c.blocked /\ f.task = c.task
        /\ \A m \in Maps : f.batch[m] \in {c.batch[m], NoTransfers[m]}
        /\ \A m \in Maps \ {"failedFolder"} : f.batch[m] = c.batch[m]
    <2>1. c \in Stages
      BY <1>2 DEF CancelEffect
    <2> DEFINE B == Emptied(c, {"failedFolder"})
               D == c.folders \cup InMap(c, "failedFolder")
    <2>2. B \in Caches /\ \A m \in Maps : B[m] = IF m = "failedFolder" THEN NoTransfers[m] ELSE c.batch[m]
      BY <2>1, EmptiedMaps
    <2>3. D \in SUBSET Tags
      BY <2>1 DEF InMap, Stages
    <2>4. f = IF "folder" \in free THEN [c EXCEPT !.folders = D, !.batch = B] ELSE c
      BY DEF FolderStage
    <2> HIDE DEF f, B, D
    <2> QED BY <2>1, <2>2, <2>3, <2>4 DEF Stages
  <1> HIDE DEF f
  <1>4. RowEffect(f, r)
    BY <1>3, RowStageEffect
  <1> HIDE DEF r
  <1>5. \A m \in RowMaps, t \in Tags : f.batch[m] = batch[m] /\ (Has(f.batch, m, t) <=> Has(batch, m, t))
    BY <1>0, <1>2, <1>3, MapNames DEF CancelEffect, Has, RowMaps
  <1>6. InMap(s, "cancel") = InBatch("cancel") /\ InMap(f, "failed") = InBatch("failed")
    BY <1>0, <1>5 DEF InMap, InBatch, RowMaps
  <1>7. /\ batch' \in Caches /\ rows' \in [Tags -> Data] /\ rowsToCancel' \in SUBSET Tags
        /\ failedToClear' \in SUBSET Tags /\ failedFolders' \in SUBSET Tags /\ failedTask' \in BOOLEAN
        /\ r.blocked \in 0..ResetAfterEmptyReceives
    BY <1>1, <1>4 DEF RowEffect, Stages
  <1>8. \A m \in Maps : batch'[m] \in {batch[m], NoTransfers[m]}
    BY <1>0, <1>1, <1>2, <1>3, <1>4, MapNames DEF CancelEffect, RowEffect, RowMaps
  <1>9. rowsToCancel' \subseteq rowsToCancel \cup InBatch("cancel") /\ rowsToCancel' = c.toCancel
    BY <1>0, <1>1, <1>2, <1>3, <1>4, <1>6 DEF CancelEffect, RowEffect
  <1>10. failedToClear' \subseteq failedToClear \cup (InBatch("failed") \cap SyncTransfers)
    BY <1>0, <1>1, <1>2, <1>3, <1>4, <1>6 DEF CancelEffect, RowEffect
  <1>11. ASSUME NEW t \in Tags PROVE KeptRow(t) \/ GoneRow(t) \/ NewRow(t)
    <2>1. c.rows[t] = rows[t] \/ (c.rows[t] = Empty /\ t \in rowsToCancel \cup InBatch("cancel"))
      BY <1>0, <1>2, <1>6 DEF CancelEffect
    <2>2. CASE r.rows[t] = f.rows[t] /\ Unused(f, r, t)
      BY <1>1, <1>3, <1>5, <2>1, <2>2 DEF KeptRow, GoneRow, Going, HasRow, Unused
    <2>3. CASE Dropped(f, r, t)
      BY <1>0, <1>1, <1>2, <1>3, <1>6, <2>3 DEF GoneRow, Going, Dropped, CancelEffect
    <2>4. CASE ShownFrom(f, r, t)
      BY <1>1, <1>3, <1>5, <2>1, <2>4 DEF NewRow, ShownFrom, HasRow
    <2> QED BY <1>4, <2>2, <2>3, <2>4 DEF RowEffect
  <1>12. ASSUME NEW t \in rowsToCancel \cup InBatch("cancel")
         PROVE  t \in rowsToCancel' \/ rows'[t] = Empty \/ NewRow(t)
    <2>0. t \in Tags
      BY DEF ModelTypeOK, InBatch
    <2>1. t \in rowsToCancel' \/ c.rows[t] = Empty
      BY <1>0, <1>2, <1>6, <1>9, <1>12 DEF CancelEffect
    <2>2. CASE c.rows[t] = Empty
      BY <1>1, <1>3, <1>4, <1>5, <2>0, <2>2 DEF RowEffect, Dropped, ShownFrom, NewRow
    <2> QED BY <2>1, <2>2
  <1>13. TickEffect
    BY <1>1, <1>7, <1>8, <1>9, <1>10, <1>11, <1>12 DEF TickEffect
  <1>14. ModelTypeOK'
    <2>1. uiBlocked' \in 0..ResetAfterEmptyReceives
      BY <1>1, <1>7, ThresholdsAssumption DEF CountDown
    <2>2. unblockTask' \in {"none", "queued", "draining"}
      BY <1>1 DEF Unblocked, ModelTypeOK
    <2>3. TypeOK'
      BY <1>1, <1>7 DEF ModelTypeOK, TypeOK, sdkVars, threadVars, Caches
    <2> QED BY <1>1, <1>7, <2>1, <2>2, <2>3 DEF ModelTypeOK
  <1>15. ASSUME NeverBlocked, Open PROVE Open'
    <2>1. r.blocked = 0 /\ r.task = FALSE
      BY <1>0, <1>2, <1>3, <1>4, <1>15 DEF CancelEffect, RowEffect, StaysOpen, Open, ModelTypeOK
    <2> QED BY <1>1, <1>15, <2>1 DEF Open, CountDown, Unblocked
  <1> QED BY <1>13, <1>14, <1>15

LEMMA FailedTaskHasEffect ==
  ASSUME ModelTypeOK, NEW free, runFailedTask(free)
  PROVE  TickEffect /\ ModelTypeOK'
  <1> DEFINE s == Stage
             r == IF free THEN processFailedTransfers(s) ELSE s
  <1>0. s \in Stages /\ s.batch = batch /\ s.rows = rows /\ s.toCancel = rowsToCancel
        /\ s.toClear = failedToClear
    BY StageIsStage DEF Stage
  <1>1. /\ batch' = r.batch /\ rows' = r.rows /\ failedToClear' = r.toClear /\ failedTask' = FALSE
        /\ UNCHANGED <<sdkVars, threadVars, delivered, cleared,
                       rowsToCancel, failedFolders, uiBlocked, unblockTask, draining>>
    BY DEF runFailedTask
  <1>2. RowEffect(s, r)
    BY <1>0, FailedRows, NoRowEffect
  <1> HIDE DEF r, s
  <1>3. InMap(s, "failed") = InBatch("failed")
    BY <1>0 DEF InMap, InBatch
  <1>4. batch' \in Caches /\ rows' \in [Tags -> Data] /\ failedToClear' \in SUBSET Tags
    BY <1>1, <1>2 DEF RowEffect, Stages
  <1>5. \A m \in Maps : batch'[m] \in {batch[m], NoTransfers[m]}
    BY <1>0, <1>1, <1>2, MapNames DEF RowEffect, RowMaps
  <1>6. ASSUME NEW t \in Tags PROVE KeptRow(t) \/ GoneRow(t) \/ NewRow(t)
    BY <1>0, <1>1, <1>2, <1>3
    DEF RowEffect, Unused, Dropped, ShownFrom, KeptRow, GoneRow, NewRow, Going, HasRow
  <1>7. batch'["cancel"] = batch["cancel"]
    BY <1>0, <1>1, <1>2, MapNames DEF RowEffect, RowMaps
  <1>8. failedToClear' \subseteq failedToClear \cup (InBatch("failed") \cap SyncTransfers)
    BY <1>0, <1>1, <1>2, <1>3 DEF RowEffect
  <1>9. TickEffect
    BY <1>1, <1>4, <1>5, <1>6, <1>7, <1>8 DEF TickEffect
  <1>10. ModelTypeOK'
    <2>1. TypeOK'
      BY <1>1, <1>4 DEF ModelTypeOK, TypeOK, sdkVars, threadVars, Caches
    <2> QED BY <1>1, <1>4, <2>1 DEF ModelTypeOK
  <1> QED BY <1>9, <1>10
-----------------------------------------------------------------------------
(* The invariant of the list *)

\* What the GUI was told is that the row has to go.
Over(t) == delivered[t].state = "CANCELLED" \/ (t \in SyncTransfers /\ delivered[t].state \in EndStates)

\* A row shows what was delivered, or something older while the newer waits in the batch.
RowInv ==
  /\ \A t \in Tags : HasRow(t) =>
       /\ t \notin FolderTransfers \cup cleared
       /\ rows[t].nn > 0 /\ rows[t].nn <= delivered[t].nn
       /\ rows[t].state \in EndStates => rows[t] = delivered[t]
       /\ \A m \in Maps : Has(batch, m, t) => rows[t].nn < delivered[t].nn
       /\ ~Has(batch, "start", t) /\ ~Has(batch, "startSync", t)
  /\ \A t \in cleared, m \in Maps : ~Has(batch, m, t)

\* Only rows that have to go are on the lists, those of an earlier session included.
ListInv ==
  /\ \A t \in rowsToCancel \cup draining : delivered[t].state = "CANCELLED"
  /\ \A t \in failedToClear : t \in SyncTransfers /\ delivered[t].state \in EndStates

\* What was delivered is shown or in the batch, and finds its row.
ShownInv ==
  \A t \in Tags \ (FolderTransfers \cup cleared) : ~Over(t) =>
    /\ delivered[t] # Empty => rows[t] = delivered[t] \/ \E m \in RowMaps : Has(batch, m, t)
    /\ \A m \in {"failed", "update"} : Has(batch, m, t) => HasRow(t)

ListsTrue == RowInv /\ ListInv /\ ShownInv
ModelInv == ModelTypeOK /\ ThreadInv /\ ListsTrue

LEMMA ModelFacts ==
  ASSUME ModelInv
  PROVE  /\ ThreadInv /\ TypeOK /\ CacheInv /\ LastInv /\ Places(batch) /\ BatchInv
         /\ RowInv /\ ListInv /\ ShownInv /\ ModelTypeOK
         /\ \A t \in Tags : rows[t].nn \in Nat /\ delivered[t].nn \in Nat /\ nn[t] \in Nat
  <1>1. ThreadInv /\ TypeOK /\ CacheInv /\ LastInv /\ ModelTypeOK /\ ListsTrue
    BY DEF ModelInv, ModelTypeOK, ThreadInv, StartInv
  <1> QED BY <1>1 DEF LastInv, ListsTrue, ModelTypeOK, TypeOK, Data

\* Only rows that have to go go.
LEMMA GoingIsOver ==
  ASSUME ModelInv, NEW t \in Going
  PROVE  t \in Tags /\ Over(t)
  <1>1. t \in Tags
    BY DEF Going, ModelInv, ModelTypeOK, InBatch
  <1>2. {"cancel", "failed"} \subseteq Maps
    BY DEF Maps
  <1> QED
    BY <1>1, <1>2, ModelFacts DEF Going, InBatch, ListInv, Over, Places, BatchInv

LEMMA TickRows == ModelInv /\ TickEffect => ListsTrue'
  <1> SUFFICES ASSUME ModelInv, TickEffect PROVE ListsTrue'
    OBVIOUS
  <1>0. /\ UNCHANGED <<delivered, cleared, draining>> /\ batch' \in Caches
        /\ \A m \in Maps, t \in Tags : batch'[m][t] \in {batch[m][t], Empty}
        /\ \A m \in Maps, t \in Tags : batch'[m] = NoTransfers[m] => batch'[m][t] = Empty
    BY DEF TickEffect, guiVars, NoTransfers
  <1>1. ASSUME NEW t \in Tags, NewRow(t)
        PROVE  /\ rows'[t] = delivered[t] /\ delivered[t].nn > 0
               /\ \A m \in Maps : batch'[m][t] = Empty
               /\ t \notin FolderTransfers \cup cleared
    <2>1. PICK m \in RowMaps : Has(batch, m, t) /\ rows'[t] = batch[m][t] /\ batch'[m] = NoTransfers[m]
      BY <1>1 DEF NewRow
    <2>2. m \in Maps /\ m \in {"start", "startSync", "failed", "update"}
      BY MapNames DEF RowMaps
    <2>3. /\ batch[m][t] = delivered[t] /\ delivered[t].nn > 0
          /\ \A k \in Maps : Has(batch, k, t) => k = m
      BY <2>1, <2>2, ModelFacts DEF BatchInv
    <2>4. t \notin FolderTransfers \cup cleared
      BY <2>1, <2>2, ModelFacts, TagsAssumption DEF RowInv, Places
    <2> QED BY <1>0, <2>1, <2>2, <2>3, <2>4 DEF Has
  <1>2. RowInv'
    <2>1. ASSUME NEW t \in Tags, rows'[t] # Empty
          PROVE  /\ t \notin FolderTransfers \cup cleared
                 /\ rows'[t].nn > 0 /\ rows'[t].nn <= delivered[t].nn
                 /\ rows'[t].state \in EndStates => rows'[t] = delivered[t]
                 /\ \A m \in Maps : batch'[m][t] # Empty => rows'[t].nn < delivered[t].nn
                 /\ batch'["start"][t] = Empty /\ batch'["startSync"][t] = Empty
      <3>1. CASE NewRow(t)
        BY <1>1, <3>1, MapNames, ModelFacts
      <3>2. CASE rows'[t] = rows[t]
        BY <1>0, <2>1, <3>2, MapNames, ModelFacts DEF RowInv, HasRow, Has
      <3> QED BY <2>1, <3>1, <3>2 DEF TickEffect, KeptRow, GoneRow
    <2>2. \A t \in cleared, m \in Maps : batch'[m][t] = Empty
      BY <1>0, ModelFacts DEF RowInv, Has, TypeOK
    <2> QED BY <1>0, <2>1, <2>2 DEF RowInv, HasRow, Has
  <1>3. ListInv'
    <2>1. \A t \in InBatch("cancel") : delivered[t].state = "CANCELLED"
      BY MapNames, ModelFacts DEF InBatch, Places, BatchInv
    <2>2. \A t \in InBatch("failed") : delivered[t].state \in EndStates
      BY MapNames, ModelFacts DEF InBatch, Places, BatchInv
    <2> QED BY <1>0, <2>1, <2>2, ModelFacts DEF ListInv, TickEffect
  <1>4. ShownInv'
    <2> SUFFICES ASSUME NEW t \in Tags \ (FolderTransfers \cup cleared), ~Over(t)
                 PROVE  /\ delivered[t] # Empty =>
                             rows'[t] = delivered[t] \/ \E m \in RowMaps : batch'[m][t] # Empty
                        /\ \A m \in {"failed", "update"} : batch'[m][t] # Empty => rows'[t] # Empty
      BY <1>0 DEF ShownInv, Over, HasRow, Has
    <2>0. /\ delivered[t] # Empty => rows[t] = delivered[t] \/ \E m \in RowMaps : Has(batch, m, t)
          /\ \A m \in {"failed", "update"} : Has(batch, m, t) => HasRow(t)
      BY ModelFacts DEF ShownInv
    <2>1. CASE NewRow(t)
      BY <1>1, <2>1, MapNames DEF RowMaps
    <2>2. CASE KeptRow(t)
      <3>1. \A m \in RowMaps : Has(batch, m, t) => batch'[m] = batch[m]
        BY <2>0, <2>2, ModelFacts DEF KeptRow, RowInv
      <3> QED BY <1>0, <2>0, <2>2, <3>1, MapNames DEF KeptRow, HasRow, Has
    <2>3. ~GoneRow(t)
      BY GoingIsOver DEF GoneRow
    <2> QED BY <2>1, <2>2, <2>3 DEF TickEffect
  <1> QED BY <1>2, <1>3, <1>4 DEF ListsTrue

LEMMA ExtractRows == ModelInv /\ onProcessExtract => ListsTrue'
  <1> SUFFICES ASSUME ModelInv, onProcessExtract PROVE ListsTrue'
    OBVIOUS
  <1>f. /\ ThreadInv /\ TypeOK /\ CacheInv /\ LastInv /\ RowInv /\ ListInv /\ ShownInv
        /\ \A t \in Tags : rows[t].nn \in Nat /\ delivered[t].nn \in Nat /\ nn[t] \in Nat
    BY ModelFacts
  <1>0. /\ processTransfers
        /\ UNCHANGED <<sdk, nn, cleared, rows, rowsToCancel, failedToClear, draining>>
        /\ batch = NoTransfers
        /\ batch' = Select(cache, Taken(cache))
    BY DEF onProcessExtract, processTransfers, modelVars, guiState, sdkVars
  <1>1. \A m \in Maps, t \in Tags : ~Has(batch, m, t)
    BY <1>0, NoTransfersPlaced
  <1>2. ThreadInv' /\ LastInv'
    <2>1. Next
      BY <1>0 DEF Next, GuiNext
    <2> QED BY <1>f, <2>1, ThreadStep DEF ThreadInv
  <1>3. \A t \in Tags :
          \/ delivered'[t] = delivered[t] /\ \A m \in Maps : ~Has(batch', m, t)
          \/ \E m \in Maps :
               /\ Has(cache, m, t) /\ delivered'[t] = cache[m][t]
               /\ \A k \in Maps : batch'[k][t] \in {Empty, IF k = m THEN cache[m][t] ELSE Empty}
               /\ Has(batch', m, t)
    <2> SUFFICES ASSUME NEW t \in Tags
                 PROVE  \/ delivered'[t] = delivered[t] /\ \A m \in Maps : ~Has(batch', m, t)
                        \/ \E m \in Maps :
                             /\ Has(cache, m, t) /\ delivered'[t] = cache[m][t]
                             /\ \A k \in Maps : batch'[k][t] \in {Empty, IF k = m THEN cache[m][t] ELSE Empty}
                             /\ Has(batch', m, t)
      OBVIOUS
    <2>1. \A m, k \in Maps : Has(cache, m, t) /\ Has(cache, k, t) => m = k
      BY <1>f DEF CacheInv, OneHolder
    <2>2. \A m \in Maps : batch'[m][t] = IF <<m, t>> \in Taken(cache) THEN cache[m][t] ELSE Empty
      BY <1>0 DEF Select
    <2>3. \A m \in Maps : <<m, t>> \in Taken(cache) => Has(cache, m, t)
      BY DEF Taken, Entries
    <2>4. delivered'[t] = IF \E m \in Maps : <<m, t>> \in Taken(cache)
                          THEN cache[CHOOSE m \in Maps : <<m, t>> \in Taken(cache)][t]
                          ELSE delivered[t]
      BY <1>0 DEF processTransfers
    <2>5. CASE \E m \in Maps : <<m, t>> \in Taken(cache)
      <3> DEFINE h == CHOOSE m \in Maps : <<m, t>> \in Taken(cache)
      <3>1. h \in Maps /\ <<h, t>> \in Taken(cache)
        BY <2>5
      <3>2. delivered'[t] = cache[h][t]
        BY <2>4, <2>5
      <3> HIDE DEF h
      <3>3. Has(cache, h, t) /\ Has(batch', h, t)
        BY <2>2, <2>3, <3>1 DEF Has
      <3>4. \A k \in Maps : batch'[k][t] \in {Empty, IF k = h THEN cache[h][t] ELSE Empty}
        <4> TAKE k \in Maps
        <4>1. k # h => <<k, t>> \notin Taken(cache)
          BY <2>1, <2>3, <3>1, <3>3
        <4> QED BY <2>2, <3>1, <4>1
      <3> QED BY <3>1, <3>2, <3>3, <3>4
    <2>6. CASE ~\E m \in Maps : <<m, t>> \in Taken(cache)
      BY <2>2, <2>4, <2>6 DEF Has
    <2> QED BY <2>5, <2>6
  \* What is cached is newer than what was delivered, which is not the end then.
  <1>4. \A m \in Maps, t \in Tags : Has(cache, m, t) =>
          /\ delivered[t].nn < cache[m][t].nn /\ cache[m][t].nn \in Nat
          /\ delivered[t].state \notin EndStates
          /\ t \notin cleared
    <2> SUFFICES ASSUME NEW m \in Maps, NEW t \in Tags, Has(cache, m, t)
                 PROVE  /\ delivered[t].nn < cache[m][t].nn /\ cache[m][t].nn \in Nat
                        /\ delivered[t].state \notin EndStates
                        /\ t \notin cleared
      OBVIOUS
    <2>1. /\ delivered[t].nn < cache[m][t].nn /\ cache[m][t].nn \in Nat /\ cache[m][t].nn <= nn[t]
      BY <1>f DEF CacheInv, CacheOrder, TypeOK, Data
    <2>2. delivered[t].nn # nn[t]
      BY <1>f, <2>1
    <2> QED BY <1>f, <2>1, <2>2 DEF LastInv, Final, ClearedInv
  <1>5. RowInv'
    <2>1. ASSUME NEW t \in Tags, rows[t] # Empty
          PROVE  /\ t \notin FolderTransfers \cup cleared
                 /\ rows[t].nn > 0 /\ rows[t].nn <= delivered'[t].nn
                 /\ rows[t].state \in EndStates => rows[t] = delivered'[t]
                 /\ \A m \in Maps : Has(batch', m, t) => rows[t].nn < delivered'[t].nn
                 /\ ~Has(batch', "start", t) /\ ~Has(batch', "startSync", t)
      <3>1. /\ t \notin FolderTransfers \cup cleared
            /\ rows[t].nn > 0 /\ rows[t].nn <= delivered[t].nn
            /\ rows[t].state \in EndStates => rows[t] = delivered[t]
        BY <1>f, <2>1 DEF RowInv, HasRow
      <3>2. delivered[t] # Empty
        BY <1>f, <3>1, EmptyFacts
      <3>3. ~Has(cache, "start", t) /\ ~Has(cache, "startSync", t)
        BY <1>f, <3>2 DEF LastInv, FirstStart
      <3>4. CASE delivered'[t] = delivered[t] /\ \A m \in Maps : ~Has(batch', m, t)
        BY <3>1, <3>4, MapNames
      <3>5. ASSUME NEW m \in Maps, Has(cache, m, t), delivered'[t] = cache[m][t],
                   \A k \in Maps : batch'[k][t] \in {Empty, IF k = m THEN cache[m][t] ELSE Empty}
            PROVE  /\ rows[t].nn <= delivered'[t].nn /\ rows[t].nn < delivered'[t].nn
                   /\ rows[t].state \notin EndStates
                   /\ ~Has(batch', "start", t) /\ ~Has(batch', "startSync", t)
        <4>1. delivered[t].nn < delivered'[t].nn /\ delivered'[t].nn \in Nat /\ rows[t].state \notin EndStates
          BY <1>4, <3>1, <3>5
        <4>2. m # "start" /\ m # "startSync"
          BY <3>3, <3>5
        <4> QED BY <1>f, <3>1, <3>5, <4>1, <4>2, MapNames DEF Has
      <3> QED BY <1>3, <3>1, <3>4, <3>5
    <2>2. \A t \in cleared, m \in Maps : ~Has(batch', m, t)
      BY <1>f, <1>3, <1>4 DEF TypeOK
    <2> QED BY <1>0, <2>1, <2>2 DEF RowInv, HasRow, Has
  <1>6. ListInv'
    <2>1. \A t \in Tags : delivered[t].state \in EndStates => delivered'[t] = delivered[t]
      BY <1>3, <1>4
    <2>2. rowsToCancel \cup draining \cup failedToClear \subseteq Tags
      BY ModelFacts DEF ModelTypeOK
    <2> QED BY <1>f, <1>0, <2>1, <2>2 DEF ListInv, EndStates
  <1>7. ShownInv'
    <2> SUFFICES ASSUME NEW t \in Tags \ (FolderTransfers \cup cleared), ~Over(t)'
                 PROVE  /\ delivered'[t] # Empty =>
                             rows[t] = delivered'[t] \/ \E m \in RowMaps : Has(batch', m, t)
                        /\ \A m \in {"failed", "update"} : Has(batch', m, t) => rows[t] # Empty
      BY <1>0 DEF ShownInv, HasRow, Has
    <2>1. CASE delivered'[t] = delivered[t] /\ \A m \in Maps : ~Has(batch', m, t)
      <3>1. ~Over(t)
        BY <2>1 DEF Over
      <3> QED BY <1>f, <1>1, <2>1, <3>1, MapNames DEF ShownInv
    <2>2. ASSUME NEW m \in Maps, Has(cache, m, t), delivered'[t] = cache[m][t], Has(batch', m, t),
                 \A k \in Maps : batch'[k][t] \in {Empty, IF k = m THEN cache[m][t] ELSE Empty}
          PROVE  m \in RowMaps /\ (m \in {"failed", "update"} => rows[t] # Empty)
      <3>1. delivered'[t].state # "CANCELLED"
        BY DEF Over
      <3>2. m # "cancel" /\ m # "failedFolder"
        BY <1>f, <2>2, <3>1 DEF LastInv, Places
      <3>3. m \in RowMaps
        BY <3>2, MapNames DEF RowMaps
      <3>4. ASSUME m \in {"failed", "update"} PROVE rows[t] # Empty
        <4>1. delivered[t] # Empty
          BY <1>f, <2>2, <3>4 DEF ThreadInv, StartInv, UpdateNeverOvertakesStart
        <4>2. ~Over(t)
          BY <1>4, <2>2 DEF Over, EndStates
        <4> QED BY <1>f, <1>1, <4>1, <4>2, MapNames DEF ShownInv
      <3> QED BY <3>3, <3>4
    <2> QED BY <1>3, <2>1, <2>2, MapNames DEF Has
  <1> QED BY <1>5, <1>6, <1>7 DEF ListsTrue

\* What an extraction delivers is in the batch.
LEMMA DeliveredInBatch ==
  ASSUME ModelInv, onProcessExtract, NEW t \in Tags, delivered'[t] # delivered[t]
  PROVE  \E m \in Maps : Has(batch', m, t)
  <1>1. /\ batch' = Select(cache, Taken(cache))
        /\ delivered'[t] = IF \E m \in Maps : <<m, t>> \in Taken(cache)
                           THEN cache[CHOOSE m \in Maps : <<m, t>> \in Taken(cache)][t]
                           ELSE delivered[t]
    BY DEF onProcessExtract, processTransfers
  <1>2. PICK m \in Maps : <<m, t>> \in Taken(cache)
    BY <1>1
  <1>3. Has(cache, m, t) /\ batch'[m][t] = cache[m][t]
    BY <1>1, <1>2 DEF Taken, Entries, Select
  <1> QED BY <1>3 DEF Has

\* What the user may clear is what TransferThread's environment may.
LEMMA ClearedIsClearable ==
  ASSUME ModelInv, NEW S \in SUBSET Tags, clearTransfers(S)
  PROVE  resetCompleted(S) /\ \A t \in S : HasRow(t) /\ rows[t] = delivered[t]
  <1>1. ASSUME NEW t \in S
        PROVE  HasRow(t) /\ rows[t] = delivered[t] /\ t \in Clearable
    <2>1. rows[t].state \in {"COMPLETED", "FAILED"}
      BY DEF clearTransfers, ClearableRow
    <2>2. HasRow(t) /\ rows[t].state \in EndStates
      BY <2>1, EmptyFacts DEF HasRow, EndStates
    <2>3. rows[t] = delivered[t] /\ t \notin FolderTransfers \cup cleared
      BY <2>2, ModelFacts DEF RowInv
    <2> QED BY <2>1, <2>2, <2>3 DEF Clearable
  <1>2. {t \in S : rows[t].failed} = {t \in S : delivered[t].failed}
    BY <1>1
  <1> QED BY <1>1, <1>2 DEF clearTransfers, resetCompleted

LEMMA ClearRows ==
  ASSUME ModelInv, NEW S \in SUBSET Tags, clearTransfers(S)
  PROVE  ListsTrue' /\ ModelTypeOK'
  <1>1. /\ UNCHANGED <<sdk, batch, delivered, rowsToCancel, failedToClear, draining>>
        /\ cleared' = cleared \cup S /\ rows' = Without(rows, S)
    BY DEF clearTransfers, sdkVars
  <1>2. rows' \in [Tags -> Data] /\ \A t \in Tags : rows'[t] = IF t \in S THEN Empty ELSE rows[t]
    BY <1>1, ModelFacts, WithoutRows DEF ModelTypeOK
  <1>3. \A t \in S, m \in Maps : ~Has(batch, m, t)
    BY ClearedIsClearable, ModelFacts DEF RowInv
  <1>4. RowInv'
    BY <1>1, <1>2, <1>3, ModelFacts DEF RowInv, HasRow, Has
  <1>5. ListInv'
    BY <1>1, ModelFacts DEF ListInv
  <1>6. ShownInv'
    BY <1>1, <1>2, ModelFacts DEF ShownInv, Over, HasRow, Has
  <1>7. TypeOK'
    <2>1. Next
      BY ClearedIsClearable DEF Next, GuiNext
    <2> QED BY <2>1, StepType, ModelFacts
  <1>8. ModelTypeOK'
    BY <1>2, <1>7, ModelFacts DEF ModelTypeOK, clearTransfers
  <1> QED BY <1>4, <1>5, <1>6, <1>8 DEF ListsTrue

LEMMA ResetRows == ModelInv /\ resetModel => ListsTrue' /\ ModelTypeOK'
  <1> SUFFICES ASSUME ModelInv, resetModel PROVE ListsTrue' /\ ModelTypeOK'
    OBVIOUS
  <1>1. /\ clear /\ UNCHANGED <<nn, delivered, rowsToCancel, failedToClear, draining>>
        /\ batch' = NoTransfers /\ cleared' = {t \in Tags : sdk[t] # "NONE"}
        /\ rows' = [t \in Tags |-> Empty]
    BY DEF resetModel, clear
  <1>2. \A m \in Maps, t \in Tags : ~Has(batch', m, t)
    BY <1>1, NoTransfersPlaced
  <1>3. \A t \in Tags : rows'[t] = Empty
    BY <1>1
  <1>4. RowInv'
    <2>1. cleared' \subseteq Tags
      BY <1>1
    <2> QED BY <1>2, <1>3, <2>1 DEF RowInv, HasRow, Has
  <1>5. ListInv'
    BY <1>1, ModelFacts DEF ListInv
  <1>6. ShownInv'
    <2>1. ASSUME NEW t \in Tags, t \notin cleared' PROVE delivered'[t] = Empty
      <3>1. nn[t] = 0
        BY <1>1, <2>1, ModelFacts DEF ThreadInv, StartInv, UnseenHasNoNumber
      <3>2. delivered[t].nn = 0
        BY <3>1, ModelFacts DEF CacheInv, CacheOrder
      <3> QED BY <1>1, <3>2, ModelFacts DEF LastInv, FirstStart
    <2> QED BY <1>2, <2>1, MapNames DEF ShownInv, Has
  <1>7. TypeOK'
    <2>1. Next
      BY <1>1 DEF Next, GuiNext
    <2> QED BY <2>1, StepType, ModelFacts
  <1>8. ModelTypeOK'
    BY <1>1, <1>7, ModelFacts, EmptyIsData, ThresholdsAssumption DEF ModelTypeOK, resetModel
  <1> QED BY <1>4, <1>5, <1>6, <1>8 DEF ListsTrue

LEMMA DrainRows == ModelInv /\ endUnblockTask => ListsTrue' /\ ModelTypeOK'
  <1> SUFFICES ASSUME ModelInv, endUnblockTask PROVE ListsTrue' /\ ModelTypeOK'
    OBVIOUS
  <1> DEFINE D == draining \cup failedToClear
  <1>1. /\ UNCHANGED <<batch, delivered, cleared>>
        /\ rowsToCancel' = {} /\ failedToClear' = {} /\ draining' = {}
        /\ rows' = Without(rows, D)
    BY DEF endUnblockTask, vars, guiVars
  <1>2. rows' \in [Tags -> Data] /\ \A t \in Tags : rows'[t] = IF t \in D THEN Empty ELSE rows[t]
    BY <1>1, ModelFacts, WithoutRows DEF ModelTypeOK
  <1>3. \A t \in D : Over(t)
    BY ModelFacts DEF ListInv, Over
  <1> HIDE DEF D
  <1>4. RowInv'
    BY <1>1, <1>2, ModelFacts DEF RowInv, HasRow, Has
  <1>5. ListInv'
    BY <1>1 DEF ListInv
  <1>6. ShownInv'
    BY <1>1, <1>2, <1>3, ModelFacts DEF ShownInv, Over, HasRow, Has
  <1>7. TypeOK'
    BY StepType, ModelFacts DEF endUnblockTask
  <1>8. ModelTypeOK'
    BY <1>1, <1>2, <1>7, ModelFacts DEF ModelTypeOK, endUnblockTask
  <1> QED BY <1>4, <1>5, <1>6, <1>8 DEF ListsTrue

LEMMA RowsAlone ==
  ASSUME ModelInv,
         UNCHANGED <<batch, delivered, cleared, rows, rowsToCancel, failedToClear>>,
         draining' \subseteq draining \cup rowsToCancel
  PROVE  ListsTrue'
  <1>1. RowInv' /\ ShownInv'
    BY ModelFacts DEF RowInv, ShownInv, Over, HasRow, Has
  <1>2. ListInv'
    BY ModelFacts DEF ListInv
  <1> QED BY <1>1, <1>2 DEF ListsTrue
-----------------------------------------------------------------------------
(* The refinement *)

\* Emptied maps of the batch are consumed ones.
LEMMA TickConsumes == TypeOK /\ TickEffect => [Next]_vars
  <1> SUFFICES ASSUME TypeOK, TickEffect PROVE [Next]_vars
    OBVIOUS
  <1> DEFINE M == {m \in Maps : batch'[m] # batch[m]}
  <1>0. /\ UNCHANGED <<sdkVars, threadVars, delivered, cleared>>
        /\ batch \in Caches /\ batch' \in Caches
        /\ \A m \in Maps : batch'[m] \in {batch[m], NoTransfers[m]}
    BY DEF TickEffect, TypeOK, Caches
  <1>1. batch' = [m \in Maps |-> IF m \in M THEN NoTransfers[m] ELSE batch[m]]
    BY <1>0 DEF Caches
  <1>2. CASE M = {}
    <2>1. batch' = batch
      BY <1>0, <1>2 DEF Caches
    <2> QED BY <1>0, <2>1 DEF vars, guiVars
  <1>3. CASE M # {}
    <2>1. ASSUME NEW m \in Maps, m \notin Filled PROVE batch[m] = NoTransfers[m]
      <3>1. \A t \in Tags : batch[m][t] = Empty
        BY <2>1 DEF Filled, Has
      <3>2. batch[m] \in [Tags -> Data]
        BY <1>0 DEF Caches
      <3> QED BY <3>1, <3>2 DEF NoTransfers
    <2>2. M \subseteq Filled
      BY <1>0, <2>1 DEF Filled
    <2> HIDE DEF M
    <2>3. Consume(M)
      BY <1>0, <1>1, <1>3, <2>2 DEF Consume
    <2> QED BY <2>2, <2>3 DEF Next, GuiNext
  <1> QED BY <1>2, <1>3

\* Each step of the list is a step of TransferThread or leaves its variables alone, and
\* keeps the invariant.
LEMMA ModelStep == ModelInv /\ [ModelNext]_allVars => [Next]_vars /\ ModelInv'
  <1> SUFFICES ASSUME ModelInv, [ModelNext]_allVars PROVE [Next]_vars /\ ModelInv'
    OBVIOUS
  <1>0. ThreadInv /\ TypeOK /\ ModelTypeOK
    BY ModelFacts
  <1>s. ASSUME [Next]_vars, ListsTrue', TypeOK' => ModelTypeOK'
        PROVE  [Next]_vars /\ ModelInv'
    BY <1>0, <1>s, ThreadStep, StepType DEF ModelInv
  <1>1. CASE SdkNext /\ UNCHANGED modelVars
    <2>1. UNCHANGED <<batch, delivered, cleared>>
      BY <1>1 DEF SdkNext, onTransferStart, onTransferUpdate, onTransferFinish,
                  onTransferFinishLoggedOut, cacheSection, Logout, Login, guiVars
    <2>2. ListsTrue'
      BY <1>1, <2>1, RowsAlone DEF modelVars, guiState
    <2>3. TypeOK' => ModelTypeOK'
      BY <1>0, <1>1 DEF ModelTypeOK, modelVars, guiState
    <2> QED BY <1>1, <1>s, <2>2, <2>3 DEF Next
  <1>2. CASE onProcessExtract
    <2>1. Next
      BY <1>2 DEF onProcessExtract, Next, GuiNext
    <2>2. TypeOK' => ModelTypeOK'
      BY <1>0, <1>2 DEF onProcessExtract, ModelTypeOK, modelVars, guiState
    <2> QED BY <1>2, <1>s, <2>1, <2>2, ExtractRows
  <1>3. ASSUME NEW free \in FreeLocks, onProcessTransfers(free) PROVE [Next]_vars /\ ModelInv'
    BY <1>0, <1>3, <1>s, TickHasEffect, TickRows, TickConsumes
  <1>4. CASE onProcessNothing
    <2>1. ListsTrue'
      BY <1>4, RowsAlone DEF onProcessNothing, vars, guiVars
    <2>2. TypeOK' => ModelTypeOK'
      BY <1>0, <1>4, ThresholdsAssumption DEF onProcessNothing, ModelTypeOK, CountDown, Unblocked
    <2> QED BY <1>4, <1>s, <2>1, <2>2 DEF onProcessNothing
  <1>5. ASSUME NEW S \in SUBSET Tags, clearTransfers(S) PROVE [Next]_vars /\ ModelInv'
    <2>1. Next
      BY <1>5, ClearedIsClearable DEF Next, GuiNext
    <2> QED BY <1>5, <1>s, <2>1, ClearRows
  <1>6. CASE resetModel
    <2>1. Next
      BY <1>6 DEF resetModel, Next, GuiNext
    <2> QED BY <1>6, <1>s, <2>1, ResetRows
  <1>7. ASSUME NEW free \in BOOLEAN, runFailedTask(free) PROVE [Next]_vars /\ ModelInv'
    BY <1>0, <1>7, <1>s, FailedTaskHasEffect, TickRows, TickConsumes
  <1>8. ASSUME NEW free \in BOOLEAN, beginUnblockTask(free) PROVE [Next]_vars /\ ModelInv'
    <2>1. ListsTrue'
      BY <1>8, RowsAlone DEF beginUnblockTask, vars, guiVars, guiState
    <2>2. TypeOK' => ModelTypeOK'
      BY <1>0, <1>8 DEF beginUnblockTask, ModelTypeOK, guiState
    <2> QED BY <1>8, <1>s, <2>1, <2>2 DEF beginUnblockTask
  <1>9. CASE endUnblockTask
    BY <1>9, <1>s, DrainRows DEF endUnblockTask
  <1>10. CASE UNCHANGED allVars
    <2>1. ListsTrue'
      BY <1>10, RowsAlone DEF allVars, vars, guiVars, modelVars, guiState
    <2>2. TypeOK' => ModelTypeOK'
      BY <1>0, <1>10 DEF allVars, ModelTypeOK, modelVars, guiState
    <2> QED BY <1>10, <1>s, <2>1, <2>2 DEF allVars
  <1> QED
    BY <1>1, <1>2, <1>3, <1>4, <1>5, <1>6, <1>7, <1>8, <1>9, <1>10
    DEF ModelNext, ModelGuiNext, TaskNext

LEMMA ModelInitially == ModelInit => ModelInv
  <1> SUFFICES ASSUME ModelInit PROVE ModelInv
    OBVIOUS
  <1>1. Init /\ ThreadInv /\ TypeOK
    BY ThreadInit, InitType DEF ModelInit
  <1>2. \A t \in Tags : rows[t] = Empty /\ delivered[t] = Empty
    BY <1>1 DEF ModelInit, Init
  <1>3. \A m \in Maps, t \in Tags : ~Has(batch, m, t)
    BY <1>1, NoTransfersPlaced DEF Init
  <1>4. ModelTypeOK
    <2>1. rows \in [Tags -> Data]
      BY EmptyIsData DEF ModelInit
    <2>2. uiBlocked \in 0..ResetAfterEmptyReceives
      BY ThresholdsAssumption DEF ModelInit
    <2> QED BY <1>1, <2>1, <2>2 DEF ModelInit, ModelTypeOK
  <1>5. RowInv /\ ListInv /\ ShownInv
    BY <1>1, <1>2, <1>3, MapNames DEF ModelInit, Init, RowInv, ListInv, ShownInv, HasRow
  <1> QED BY <1>1, <1>4, <1>5 DEF ModelInv, ListsTrue

\* The inductive invariant: what the rows, the batch and the two lists have to do with
\* what was delivered.
THEOREM ModelInvariant == ModelSpec => []ModelInv
  BY ModelInitially, ModelStep, PTL DEF ModelSpec

\* Types of the list, thresholds and locks being whatever they are; the countdown of the
\* blocked UI stays within its bound.
THEOREM ModelTypes == ModelSpec => []ModelTypeOK
  <1>1. ModelInv => ModelTypeOK
    BY DEF ModelInv
  <1> QED BY <1>1, ModelInvariant, PTL

\* The list is an environment that TransferThread allows: its ticks, tasks, clears and
\* resets are extractions, consumed maps, clears of rows that may be cleared, and resets.
THEOREM ModelImplementsThread == ModelSpec => Spec
  <1>1. ModelInit => Init
    BY DEF ModelInit
  <1>2. ModelInv /\ [ModelNext]_allVars => [Next]_vars
    BY ModelStep
  <1> QED BY <1>1, <1>2, ModelInvariant, PTL DEF ModelSpec, Spec

\* So what is proved of the listener holds of the listener and the list together: no event
\* is lost, no update overtakes its start, data move forward, and the completed count is true.
THEOREM ListenerInTheList ==
  ModelSpec => []EventsComeThrough /\ DeliveredMovesForward /\ []CompletedCountIsTrue
  BY ModelImplementsThread, EventsTheorem, DeliveredOrder, CompletedCount, PTL
-----------------------------------------------------------------------------
(* What the rows show *)

\* No row goes back to an older event, and none appears for a transfer that was cleared or
\* of whose cancellation the list was told: also when the UI is blocked, whichever lock is
\* taken and whatever is left on the lists of an earlier session.
THEOREM RowsForward == ModelSpec => RowsMoveForward
  <1> DEFINE Forward ==
        \A t \in Tags :
          /\ HasRow(t) /\ rows'[t] # Empty => rows'[t].nn >= rows[t].nn
          /\ ~HasRow(t) /\ rows'[t] # Empty
               => t \notin cleared /\ (t \in SyncTransfers \/ delivered[t].state # "CANCELLED")
  <1>1. ASSUME ModelInv, rows' = rows PROVE Forward
    BY <1>1, ModelFacts DEF HasRow
  <1>2. ASSUME ModelInv, \A t \in Tags : rows'[t] \in {rows[t], Empty} PROVE Forward
    BY <1>2, ModelFacts DEF HasRow
  <1>3. ASSUME ModelInv, TickEffect PROVE Forward
    <2> SUFFICES ASSUME NEW t \in Tags, rows'[t] # Empty
                 PROVE  /\ HasRow(t) => rows'[t].nn >= rows[t].nn
                        /\ ~HasRow(t) => /\ t \notin cleared
                                         /\ t \in SyncTransfers \/ delivered[t].state # "CANCELLED"
      OBVIOUS
    <2>1. CASE rows'[t] = rows[t]
      BY <1>3, <2>1, ModelFacts DEF HasRow
    <2>2. CASE NewRow(t)
      <3>1. PICK m \in RowMaps : Has(batch, m, t) /\ rows'[t] = batch[m][t]
        BY <2>2 DEF NewRow
      <3>2. m \in Maps /\ m \in {"start", "startSync", "failed", "update"}
        BY MapNames DEF RowMaps
      <3>3. rows'[t] = delivered[t]
        BY <3>1, <3>2, <1>3, ModelFacts DEF BatchInv
      <3>4. HasRow(t) => rows'[t].nn >= rows[t].nn
        BY <1>3, <3>3, ModelFacts DEF RowInv
      <3>5. t \notin cleared
        BY <1>3, <3>1, <3>2, ModelFacts DEF RowInv
      <3>6. t \in SyncTransfers \/ batch[m][t].state # "CANCELLED"
        BY <1>3, <3>1, <3>2, ModelFacts, TagsAssumption DEF Places
      <3> QED BY <3>1, <3>3, <3>4, <3>5, <3>6
    <2> QED BY <1>3, <2>1, <2>2 DEF TickEffect, KeptRow, GoneRow
  <1>4. ModelInv /\ [ModelNext]_allVars => [Forward]_allVars
    <2> SUFFICES ASSUME ModelInv, ModelNext PROVE Forward
      OBVIOUS
    <2> HIDE DEF Forward
    <2>0. ModelTypeOK /\ rows \in [Tags -> Data]
      BY ModelFacts DEF ModelTypeOK
    <2>1. ASSUME NEW free, onProcessTransfers(free) \/ runFailedTask(free) PROVE Forward
      BY <1>3, <2>0, <2>1, TickHasEffect, FailedTaskHasEffect
    <2>2. ASSUME NEW S \in SUBSET Tags, clearTransfers(S) PROVE Forward
      <3>1. \A t \in Tags : rows'[t] \in {rows[t], Empty}
        BY <2>0, <2>2, WithoutRows DEF clearTransfers
      <3> QED BY <1>2, <3>1
    <2>3. CASE resetModel
      <3>1. \A t \in Tags : rows'[t] = Empty
        BY <2>3 DEF resetModel
      <3> QED BY <1>2, <3>1
    <2>4. CASE endUnblockTask
      <3>1. \A t \in Tags : rows'[t] \in {rows[t], Empty}
        BY <2>0, <2>4, WithoutRows DEF endUnblockTask
      <3> QED BY <1>2, <3>1
    <2>5. ASSUME rows' = rows PROVE Forward
      BY <1>1, <2>5
    <2> QED
      BY <2>1, <2>2, <2>3, <2>4, <2>5
      DEF ModelNext, ModelGuiNext, TaskNext, onProcessExtract, onProcessNothing, beginUnblockTask,
          modelVars, guiState
  <1> QED BY <1>4, ModelInvariant, PTL DEF ModelSpec, RowsMoveForward

\* Half of QuietRowsMatchSdk, whether or not the UI is ever blocked.
LiveRowsAreShown ==
  Quiet => \A t \in Tags \ FolderTransfers :
    /\ sdk[t] \in LiveStates => HasRow(t) /\ (Counted(t) => rows[t].state = sdk[t])
    /\ t \notin SyncTransfers /\ sdk[t] \in {"COMPLETED", "FAILED"} /\ t \notin cleared
         => HasRow(t) /\ rows[t].state = sdk[t]

\* When nothing is under way, what was delivered of a file whose row need not go is its
\* row, and the end of a file was delivered.
LEMMA QuietFacts ==
  ASSUME ModelInv, Quiet, NEW t \in Tags \ FolderTransfers
  PROVE  /\ t \notin cleared /\ ~Over(t) /\ delivered[t] # Empty => rows[t] = delivered[t] /\ HasRow(t)
         /\ t \notin cleared /\ sdk[t] \in EndStates => delivered[t] # Empty /\ delivered[t].nn = nn[t]
         /\ delivered[t] # Empty /\ delivered[t].nn = nn[t] => sdk[t] \in {delivered[t].state, "ABORTED"}
         /\ \A m \in Maps : cache[m][t] = Empty
  <1>1. \A m \in Maps : cache[m][t] = Empty /\ batch[m][t] = Empty
    BY DEF Quiet, NoTransfers
  <1>2. t \notin cleared /\ ~Over(t) /\ delivered[t] # Empty => rows[t] = delivered[t] /\ HasRow(t)
    BY <1>1, ModelFacts, MapNames DEF ShownInv, HasRow, Has
  <1>3. t \notin cleared /\ sdk[t] \in EndStates => delivered[t] # Empty /\ delivered[t].nn = nn[t]
    BY <1>1, ModelFacts DEF LastInv, EndKept, Arrived, Has, Quiet
  <1>4. delivered[t] # Empty /\ delivered[t].nn = nn[t] => sdk[t] \in {delivered[t].state, "ABORTED"}
    BY ModelFacts DEF LastInv, Final
  <1> QED BY <1>1, <1>2, <1>3, <1>4

LEMMA QuietShows == ModelInv /\ LatestEventIsKept => LiveRowsAreShown
  <1> SUFFICES ASSUME ModelInv, LatestEventIsKept, Quiet, NEW t \in Tags \ FolderTransfers
               PROVE  /\ sdk[t] \in LiveStates => HasRow(t) /\ (Counted(t) => rows[t].state = sdk[t])
                      /\ t \notin SyncTransfers /\ sdk[t] \in {"COMPLETED", "FAILED"} /\ t \notin cleared
                           => HasRow(t) /\ rows[t].state = sdk[t]
    BY DEF LiveRowsAreShown
  <1>1. ASSUME sdk[t] \in LiveStates PROVE HasRow(t) /\ (Counted(t) => rows[t].state = sdk[t])
    <2>1. delivered[t] # Empty
      <3>1. Known(t)
        BY <1>1, ModelFacts DEF ThreadInv, StartInv, LiveIsKnown, Quiet
      <3> QED BY <3>1, QuietFacts, MapNames DEF Known, Has
    <2>2. t \notin cleared
      BY <1>1, ModelFacts DEF ThreadInv, TruthInv, LiveStates
    <2>3. delivered[t].state \notin EndStates
      BY <1>1, ModelFacts DEF LastInv, Final
    <2>4. rows[t] = delivered[t] /\ HasRow(t)
      BY <2>1, <2>2, <2>3, QuietFacts DEF Over, EndStates
    <2>5. ASSUME Counted(t) PROVE rows[t].state = sdk[t]
      <3>1. delivered[t].nn > 0 /\ delivered[t].nn <= nn[t]
        BY <2>1, ModelFacts DEF LastInv, FirstStart, CacheInv, CacheOrder
      <3>2. delivered[t].nn = nn[t] \/ \E m \in Maps : cache[m][t].nn = nn[t]
        BY <1>1, <2>2, <2>5 DEF LatestEventIsKept, Quiet, LiveStates
      <3>3. delivered[t].nn = nn[t]
        BY <3>1, <3>2, QuietFacts, EmptyFacts, ModelFacts
      <3> QED BY <1>1, <2>1, <2>4, <3>3, QuietFacts DEF LiveStates
    <2> QED BY <2>4, <2>5
  <1>2. ASSUME t \notin SyncTransfers, sdk[t] \in {"COMPLETED", "FAILED"}, t \notin cleared
        PROVE  HasRow(t) /\ rows[t].state = sdk[t]
    <2>1. delivered[t] # Empty /\ delivered[t].state = sdk[t]
      BY <1>2, QuietFacts DEF EndStates
    <2> QED BY <1>2, <2>1, QuietFacts DEF Over
  <1> QED BY <1>1, <1>2

\* When everything has been processed, each file under way has a row, with its state, and
\* so has each that ended well or failed and was not cleared: blocking does not lose rows.
THEOREM LiveRows == ModelSpec => []LiveRowsAreShown
  <1>1. EventsComeThrough => LatestEventIsKept
    BY DEF EventsComeThrough
  <1> QED BY <1>1, QuietShows, ModelInvariant, ListenerInTheList, PTL
-----------------------------------------------------------------------------
(* Where the UI is never blocked, cancelled rows are remembered *)

OpenInv == ModelInv /\ Open /\ CancelIsRemembered

LEMMA TickRemembers == OpenInv /\ TickEffect => CancelIsRemembered'
  <1> SUFFICES ASSUME OpenInv, TickEffect, NEW t \in Tags \ SyncTransfers, rows'[t] # Empty,
                      delivered[t].state = "CANCELLED"
               PROVE  Has(batch', "cancel", t) \/ t \in rowsToCancel'
    BY DEF TickEffect, CancelIsRemembered, HasRow, Has, guiVars
  <1>0. ModelInv /\ draining = {}
    BY DEF OpenInv, Open
  <1>1. ~NewRow(t)
    <2> SUFFICES ASSUME NEW m \in RowMaps, Has(batch, m, t) PROVE FALSE
      BY DEF NewRow
    <2>1. m \in Maps /\ m \in {"start", "startSync", "failed", "update"}
      BY MapNames DEF RowMaps
    <2>2. batch[m][t].state = "CANCELLED"
      BY <1>0, <2>1, ModelFacts DEF BatchInv
    <2> QED BY <1>0, <2>1, <2>2, ModelFacts, TagsAssumption DEF Places
  <1>2. HasRow(t)
    BY <1>1 DEF TickEffect, KeptRow, GoneRow, HasRow
  <1>3. Has(batch, "cancel", t) \/ t \in rowsToCancel
    BY <1>0, <1>2 DEF OpenInv, CancelIsRemembered
  <1>4. t \in rowsToCancel' \/ (t \in InBatch("cancel") /\ batch'["cancel"] = batch["cancel"])
    BY <1>1, <1>3 DEF TickEffect, InBatch
  <1> QED BY <1>4 DEF InBatch, Has

LEMMA OpenStep == NeverBlocked /\ OpenInv /\ [ModelNext]_allVars => OpenInv'
  <1> SUFFICES ASSUME NeverBlocked, OpenInv, [ModelNext]_allVars PROVE OpenInv'
    OBVIOUS
  <1>0. ModelInv /\ ModelInv' /\ ModelTypeOK /\ Open
    BY ModelStep, ModelFacts DEF OpenInv
  <1>s. ASSUME Open', CancelIsRemembered' PROVE OpenInv'
    BY <1>0, <1>s DEF OpenInv
  <1>r. ASSUME UNCHANGED <<batch, delivered, rowsToCancel, draining>>,
               \A t \in Tags : rows'[t] \in {rows[t], Empty}
        PROVE  CancelIsRemembered'
    BY <1>r DEF OpenInv, CancelIsRemembered, HasRow, Has
  <1>1. CASE SdkNext /\ UNCHANGED modelVars
    <2>1. UNCHANGED <<batch, delivered>>
      BY <1>1 DEF SdkNext, onTransferStart, onTransferUpdate, onTransferFinish,
                  onTransferFinishLoggedOut, cacheSection, Logout, Login, guiVars
    <2> QED BY <1>0, <1>1, <1>r, <1>s, <2>1 DEF modelVars, guiState, Open
  <1>2. CASE onProcessExtract
    <2>1. Open' /\ UNCHANGED <<rows, rowsToCancel, draining>> /\ batch = NoTransfers
      BY <1>0, <1>2 DEF onProcessExtract, processTransfers, modelVars, guiState, Open
    <2>2. ASSUME NEW t \in Tags \ SyncTransfers, rows[t] # Empty, delivered'[t].state = "CANCELLED"
          PROVE  Has(batch', "cancel", t) \/ t \in rowsToCancel
      <3>1. CASE delivered'[t] = delivered[t]
        BY <1>0, <2>1, <2>2, <3>1, NoTransfersPlaced, MapNames
        DEF OpenInv, Open, CancelIsRemembered, HasRow
      <3>2. CASE delivered'[t] # delivered[t]
        <4>1. \E m \in Maps : Has(batch', m, t)
          BY <1>0, <1>2, <3>2, DeliveredInBatch
        <4>2. PICK m \in Maps : Has(batch', m, t)
          BY <4>1
        <4>3. batch'[m][t].state = "CANCELLED" /\ t \notin FolderTransfers
          BY <1>0, <2>1, <2>2, <4>2, ModelFacts DEF ModelInv, ThreadInv, LastInv, BatchInv, Has, RowInv, HasRow
        <4>4. m = "cancel"
          BY <1>0, <4>2, <4>3 DEF ModelInv, ThreadInv, LastInv, Places, Has
        <4> QED BY <4>2, <4>4
      <3> QED BY <3>1, <3>2
    <2> QED BY <1>s, <2>1, <2>2 DEF CancelIsRemembered, HasRow, Has
  <1>3. ASSUME NEW free \in FreeLocks, onProcessTransfers(free) PROVE OpenInv'
    BY <1>0, <1>3, <1>s, TickHasEffect, TickRemembers
  <1>4. ASSUME NEW S \in SUBSET Tags, clearTransfers(S) PROVE OpenInv'
    <2>1. \A t \in Tags : rows'[t] \in {rows[t], Empty}
      BY <1>0, <1>4, WithoutRows DEF clearTransfers, ModelTypeOK
    <2> QED BY <1>0, <1>4, <1>r, <1>s, <2>1 DEF clearTransfers, Open
  <1>5. CASE resetModel
    <2>1. \A t \in Tags : rows'[t] = Empty
      BY <1>5 DEF resetModel
    <2>2. Open'
      BY <1>0, <1>5 DEF resetModel, Open
    <2> QED BY <1>s, <2>1, <2>2 DEF CancelIsRemembered, HasRow
  <1>6. ~onProcessNothing /\ ~endUnblockTask
        /\ (\A free \in BOOLEAN : ~runFailedTask(free) /\ ~beginUnblockTask(free))
    BY <1>0 DEF onProcessNothing, endUnblockTask, Draining, runFailedTask, beginUnblockTask, Open
  <1>7. CASE UNCHANGED allVars
    BY <1>0, <1>7, <1>r, <1>s DEF allVars, vars, guiVars, modelVars, guiState, Open
  <1> QED
    BY <1>1, <1>2, <1>3, <1>4, <1>5, <1>6, <1>7 DEF ModelNext, ModelGuiNext, TaskNext

LEMMA OpenAlways == NeverBlocked /\ ModelSpec => []OpenInv
  <1>1. ModelInit => OpenInv
    <2> SUFFICES ASSUME ModelInit PROVE OpenInv
      OBVIOUS
    <2>1. Open /\ CancelIsRemembered
      BY DEF ModelInit, Open, CancelIsRemembered, HasRow
    <2> QED BY <2>1, ModelInitially DEF OpenInv
  <1>2. NeverBlocked /\ OpenInv /\ [ModelNext]_allVars => OpenInv'
    BY OpenStep
  <1>3. CASE NeverBlocked
    <2>1. OpenInv /\ [ModelNext]_allVars => OpenInv'
      BY <1>2, <1>3
    <2> QED BY <1>1, <2>1, PTL DEF ModelSpec
  <1> QED BY <1>3

\* A cancellation that reached the list is on one of the lists that some later tick goes
\* through, whichever lock was taken, as long as the UI is never blocked.
THEOREM CancelRemembered == NeverBlocked /\ ModelSpec => []CancelIsRemembered
  <1>1. OpenInv => CancelIsRemembered
    BY DEF OpenInv
  <1> QED BY <1>1, OpenAlways, PTL

\* Then the list tells the whole truth when everything has been processed: a file has a
\* row exactly when it should, and the row shows its last event.
THEOREM QuietRows == NeverBlocked /\ ModelSpec => []QuietRowsMatchSdk
  <1>1. OpenInv /\ LiveRowsAreShown => QuietRowsMatchSdk
    <2> SUFFICES ASSUME OpenInv, LiveRowsAreShown, Quiet, NEW t \in Tags \ FolderTransfers,
                        t \notin SyncTransfers, sdk[t] \in {"NONE", "CANCELLED"} \/ t \in cleared
                 PROVE  ~HasRow(t)
      BY DEF QuietRowsMatchSdk, LiveRowsAreShown
    <2>0. ModelInv
      BY DEF OpenInv
    <2>1. CASE t \in cleared
      BY <2>0, <2>1, ModelFacts DEF RowInv
    <2>2. CASE sdk[t] = "NONE"
      <3>1. nn[t] = 0
        BY <2>0, <2>2, ModelFacts DEF ThreadInv, StartInv, UnseenHasNoNumber
      <3>2. delivered[t].nn <= 0
        BY <2>0, <3>1, ModelFacts DEF CacheInv, CacheOrder
      <3> QED BY <2>0, <3>2, ModelFacts DEF RowInv
    <2>3. CASE sdk[t] = "CANCELLED" /\ t \notin cleared
      <3>1. delivered[t].state = "CANCELLED"
        BY <2>0, <2>3, QuietFacts DEF EndStates
      <3>2. ~Has(batch, "cancel", t) /\ rowsToCancel = {} /\ draining = {}
        BY MapNames, NoTransfersPlaced DEF Quiet, OpenInv, Open
      <3> QED BY <3>1, <3>2 DEF OpenInv, CancelIsRemembered
    <2> QED BY <2>1, <2>2, <2>3
  <1> QED BY <1>1, OpenAlways, LiveRows, PTL
=============================================================================
