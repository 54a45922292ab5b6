--------------------------- MODULE TransferThread ---------------------------
(***************************************************************************)
(* The listener half of the transfers list (class TransferThread in        *)
(* transfers/model/TransfersModel.cpp).  The SDK thread calls the listener *)
(* for every transfer event; the listener updates two sets of counters     *)
(* under mCountersMutex and then folds the event into a cache of six maps  *)
(* under mCacheMutex.  Every 100 ms the GUI thread takes a bounded number  *)
(* of cached transfers out (processTransfers).  The two critical sections  *)
(* of a callback are two steps here, so that the GUI thread may run        *)
(* between them.                                                           *)
(*                                                                         *)
(* The SDK and the GUI that consumes the batches are the environment; the  *)
(* module TransfersModel replaces the latter by the real consumer.         *)
(***************************************************************************)
EXTENDS Integers, FiniteSets

CONSTANTS
  Tags,                   \* tags of the transfers of one run, in SDK order
  Uploads,                \* the uploads; every other transfer is a download
  SyncTransfers,          \* transfers started by the sync engine
  TempTransfers,          \* downloads into the temporary transfers folder
  FolderTransfers,        \* transfers that stand for a whole folder
  MaxTransfersToProcess,  \* mMaxTransfersToProcess (MAX_TRANSFERS)
  MaxNotifications,       \* bound: notifications per transfer
  UintMax                 \* largest value of a counter (uint)

ASSUME TagsAssumption ==
  /\ Tags \subseteq Nat
  /\ IsFiniteSet(Tags)
  /\ Uploads \subseteq Tags
  /\ SyncTransfers \subseteq Tags \ FolderTransfers
  /\ FolderTransfers \subseteq Tags
  /\ TempTransfers \subseteq Tags \ (Uploads \cup SyncTransfers \cup FolderTransfers)

ASSUME BoundsAssumption ==
  /\ MaxTransfersToProcess \in Nat
  /\ MaxNotifications \in Nat
  /\ UintMax \in Nat
  /\ Cardinality(Tags) <= UintMax

VARIABLES
  sdk,        \* state of every transfer in the SDK (external)
  nn,         \* notification number of its last event (external)
  session,    \* the account: "in", "leaving" (logged out), "out" (reset)
  handler,    \* callback between its two critical sections, or Idle
  count,      \* mTransfersCount
  last,       \* mLastTransfersCount
  cache,      \* TransferThread::mTransfersToProcess
  batch,      \* TransfersModel::mTransfersToProcess
  delivered,  \* history: the last datum handed to the GUI for every tag
  cleared     \* history: finished transfers taken out of the counters

sdkVars  == <<sdk, nn, session>>
threadVars == <<handler, count, last, cache>>
guiVars == <<batch, delivered, cleared>>
vars == <<sdkVars, threadVars, guiVars>>
-----------------------------------------------------------------------------
(* States, data and counters *)

\* ACTIVE stands for the live states the listener does not tell apart (active, paused,
\* retrying, completing).
LiveStates == {"QUEUED", "ACTIVE"}
EndStates  == {"COMPLETED", "CANCELLED", "FAILED"}

\* "NONE": not started yet; "ABORTED": gone with the session it belonged to.
SdkStates  == {"NONE", "ABORTED"} \cup LiveStates \cup EndStates

Dirs == {"up", "down"}
Dir(t) == IF t \in Uploads THEN "up" ELSE "down"

\* A TransferData: failed is "mFailedTransfer is set" (a temporary error sets it as well;
\* isFailed() reads it only together with the state FAILED, so that case is left out).
Data  == [state : SdkStates, nn : 0..MaxNotifications, failed : BOOLEAN]
Empty == [state |-> "NONE", nn |-> 0, failed |-> FALSE]

Maps == {"cancel", "failedFolder", "failed", "start", "startSync", "update"}
NoTransfers == [m \in Maps |-> [t \in Tags |-> Empty]]
Has(c, m, t) == c[m][t] # Empty

Idle == [event |-> "none"]
Callbacks == {Idle} \cup
  [event : {"start", "update", "finish"}, tag : Tags, data : Data]

Uint == 0..UintMax
Inc(n)      == IF n = UintMax THEN 0 ELSE n + 1
Minus(n, k) == IF k <= n THEN n - k ELSE n - k + UintMax + 1

Counts == [total : [Dirs -> Uint], pending : [Dirs -> Uint],
           pendingSync : Uint, failed : [Dirs -> Uint]]
LastCounts == [total : [Dirs -> Uint], pending : [Dirs -> Uint],
               pendingSync : Uint, failed : [Dirs -> Uint], byTag : SUBSET Tags]

NoCount == [total |-> [d \in Dirs |-> 0], pending |-> [d \in Dirs |-> 0],
            pendingSync |-> 0, failed |-> [d \in Dirs |-> 0]]
NoLastCount == [total |-> [d \in Dirs |-> 0], pending |-> [d \in Dirs |-> 0],
                pendingSync |-> 0, failed |-> [d \in Dirs |-> 0], byTag |-> {}]

\* Folder and temporary transfers are not added to the counters.
Counted(t) == t \notin FolderTransfers \cup TempTransfers

pendingTransfers(c) == c.pending["up"] + c.pending["down"]

\* addPendingUpload/addPendingDownload with the total, in both sets of counters.
AddStarted(c, t) ==
  [c EXCEPT !.total[Dir(t)] = Inc(@),
            !.pending[Dir(t)] = Inc(@),
            !.pendingSync = IF t \in SyncTransfers THEN Inc(@) ELSE @]

\* removePendingUpload/removePendingDownload.
RemovePending(c, t) ==
  [c EXCEPT !.pending[Dir(t)] = Minus(@, 1),
            !.pendingSync = IF t \in SyncTransfers THEN Minus(@, 1) ELSE @]

\* A cancelled transfer, and a failed sync transfer, leaves the totals as well.
Forgotten(t, s) == s = "CANCELLED" \/ (s = "FAILED" /\ t \in SyncTransfers)

RemoveTotal(c, t) == [c EXCEPT !.total[Dir(t)] = Minus(@, 1)]

\* Mutant of FinishCount: a cancelled transfer stays pending.
FinishCountKeepingPending(c, t, s) ==
  IF Forgotten(t, s) THEN RemoveTotal(c, t)
  ELSE IF s = "FAILED" THEN [RemovePending(c, t) EXCEPT !.failed[Dir(t)] = Inc(@)]
  ELSE RemovePending(c, t)

FinishCount(c, t, s) ==
  LET r == RemovePending(c, t) IN
  IF Forgotten(t, s) THEN RemoveTotal(r, t)
  ELSE IF s = "FAILED" THEN [r EXCEPT !.failed[Dir(t)] = Inc(@)]
  ELSE r

\* Mutant of FinishLast: a cancelled transfer is no longer pending twice over.
FinishLastTwice(l, t, s) ==
  IF Forgotten(t, s) THEN RemoveTotal(RemovePending(RemovePending(l, t), t), t)
  ELSE [RemovePending(l, t) EXCEPT !.byTag = @ \cup {t}]

FinishLast(l, t, s) ==
  LET r == RemovePending(l, t) IN
  IF Forgotten(t, s) THEN RemoveTotal(r, t)
  ELSE [r EXCEPT !.byTag = @ \cup {t}]
-----------------------------------------------------------------------------
(* Folding an event into the cache *)

Put(c, m, t, x) == [c EXCEPT ![m][t] = x]

\* The start and end maps are tried in this order; the first one that holds the
\* tag takes the event.
FoldRank == [start |-> 1, startSync |-> 2, cancel |-> 3, failedFolder |-> 4, failed |-> 5]
FoldMaps == {"start", "startSync", "cancel", "failedFolder", "failed"}
Holder(c, m, t) ==
  /\ m \in FoldMaps
  /\ Has(c, m, t)
  /\ \A k \in FoldMaps : FoldRank[k] < FoldRank[m] => ~Has(c, k, t)

\* Mutant of DropUnseenStart: the start stays.
DropUnseenStartNever(c, t, x) == c

\* A cancelled transfer that the GUI has not been told of leaves the start map.
DropUnseenStart(c, t, x) ==
  IF x.state = "CANCELLED" THEN Put(c, "start", t, Empty) ELSE c

\* Mutant of Substitute: the notification numbers are compared the wrong way round.
SubstituteOlder(old, x) == IF x.nn < old.nn THEN x ELSE old
Substitute(old, x) ==
  IF old.nn < x.nn THEN x ELSE [old EXCEPT !.failed = @ \/ x.failed]

\* Mutant of Folded: the start maps are not searched.
FoldedSkippingStarts(c, t, x) ==
  \/ \E m \in FoldMaps \ {"start", "startSync"} : Has(c, m, t)
  \/ Has(c, "update", t) /\ c["update"][t].nn >= x.nn

\* onTransferEvent returned a datum: the event was folded into what is cached.
Folded(c, t, x) ==
  \/ \E m \in FoldMaps : Has(DropUnseenStart(c, t, x), m, t)
  \/ Has(c, "update", t) /\ c["update"][t].nn >= x.nn

onTransferEvent(c, t, x) ==
  LET c1 == DropUnseenStart(c, t, x) IN
  IF \E m \in FoldMaps : Has(c1, m, t)
  THEN LET m == CHOOSE k \in FoldMaps : Holder(c1, k, t)
       IN Put(c1, m, t, Substitute(c1[m][t], x))
  ELSE IF Has(c1, "update", t)
  THEN Put(c1, "update", t,
           IF c1["update"][t].nn < x.nn THEN Empty ELSE Substitute(c1["update"][t], x))
  ELSE c1

\* The map a callback inserts its datum into when the event was not folded.
Destination(event, t, x) ==
  CASE event = "start" /\ t \in SyncTransfers -> "startSync"
    [] event = "start" /\ t \notin SyncTransfers -> "start"
    [] event = "finish" /\ t \in FolderTransfers /\ x.failed -> "failedFolder"
    [] event = "finish" /\ t \notin FolderTransfers /\ x.state = "CANCELLED" -> "cancel"
    [] event = "finish" /\ t \notin FolderTransfers /\ x.state # "CANCELLED" /\ x.failed -> "failed"
    [] OTHER -> "update"

\* A folder transfer that ends well is not cached at all.
Uncached(event, t, x) == event = "finish" /\ t \in FolderTransfers /\ ~x.failed

\* A folder whose error code is set is shown as failed whatever its state.
Inserted(t, x) == IF t \in FolderTransfers THEN [x EXCEPT !.state = "FAILED"] ELSE x

CacheEvent(c, event, t, x) ==
  LET c1 == onTransferEvent(c, t, x) IN
  IF Folded(c, t, x) \/ Uncached(event, t, x) THEN c1
  ELSE Put(c1, Destination(event, t, x), t, Inserted(t, x))
-----------------------------------------------------------------------------
(* SDK thread: the first critical section of every callback *)

Notify(t, s) ==
  /\ sdk' = [sdk EXCEPT ![t] = s]
  /\ nn' = [nn EXCEPT ![t] = @ + 1]
  /\ UNCHANGED session

Callback(event, t, s, err) ==
  [event |-> event, tag |-> t,
   data |-> [state |-> s, nn |-> nn[t] + 1, failed |-> s = "FAILED" \/ err]]

onTransferStart(t) ==
  /\ session = "in" /\ handler = Idle /\ sdk[t] = "NONE"
  /\ nn[t] < MaxNotifications
  /\ Notify(t, "QUEUED")
  /\ handler' = IF t \in FolderTransfers THEN Idle ELSE Callback("start", t, "QUEUED", FALSE)
  /\ count' = IF Counted(t) THEN AddStarted(count, t) ELSE count
  /\ last' = IF Counted(t) THEN AddStarted(last, t) ELSE last
  /\ UNCHANGED <<cache, guiVars>>

\* onTransferUpdate and onTransferTemporaryError: only byte counters change in the
\* first section.  Temporary and folder transfers are ignored.
onTransferUpdate(t) ==
  /\ session = "in" /\ handler = Idle
  /\ sdk[t] \in LiveStates
  /\ nn[t] + 1 < MaxNotifications
  /\ Notify(t, "ACTIVE")
  /\ handler' = IF Counted(t) THEN Callback("update", t, "ACTIVE", FALSE) ELSE Idle
  /\ UNCHANGED <<count, last, cache, guiVars>>

onTransferFinish(t, s, err) ==
  /\ session = "in" /\ handler = Idle
  /\ sdk[t] \in LiveStates
  /\ nn[t] < MaxNotifications
  /\ Notify(t, s)
  /\ handler' = Callback("finish", t, s, err)
  /\ count' = IF Counted(t) THEN FinishCount(count, t, s) ELSE count
  /\ last' = IF ~Counted(t) THEN last
             ELSE IF pendingTransfers(count') = 0 THEN NoLastCount
             ELSE FinishLast(last, t, s)
  /\ UNCHANGED <<cache, guiVars>>

\* The same callback once the SDK is logged out: it returns before both sections.
onTransferFinishLoggedOut(t) ==
  /\ session = "leaving" /\ handler = Idle
  /\ sdk[t] \in LiveStates
  /\ sdk' = [sdk EXCEPT ![t] = "ABORTED"]
  /\ UNCHANGED <<nn, session, threadVars, guiVars>>

\* SDK thread: the second critical section of the callback.
cacheSection ==
  /\ handler # Idle
  /\ cache' = CacheEvent(cache, handler.event, handler.tag, handler.data)
  /\ handler' = Idle
  /\ UNCHANGED <<sdkVars, count, last, guiVars>>

\* The SDK logs out and, later, in again, on the thread that calls the listener.
Logout ==
  /\ session = "in" /\ handler = Idle
  /\ session' = "leaving"
  /\ UNCHANGED <<sdk, nn, threadVars, guiVars>>

Login ==
  /\ session = "out"
  /\ session' = "in"
  /\ UNCHANGED <<sdk, nn, threadVars, guiVars>>
-----------------------------------------------------------------------------
(* GUI thread: taking transfers out, clearing finished ones, resetting *)

\* Greedy extraction: map by map in this order, and inside a map by tag, until
\* mMaxTransfersToProcess transfers are taken.
ExtractRank == [cancel |-> 1, failedFolder |-> 2, failed |-> 3,
                start |-> 4, startSync |-> 5, update |-> 6]
Entries(c) == {e \in Maps \X Tags : Has(c, e[1], e[2])}
Before(e, f) ==
  \/ ExtractRank[e[1]] < ExtractRank[f[1]]
  \/ e[1] = f[1] /\ e[2] < f[2]
\* Mutant of Taken: the starts of sync transfers are never taken.
TakenForgettingSync(c) ==
  {e \in Entries(c) :
     /\ e[1] # "startSync"
     /\ Cardinality({f \in Entries(c) : Before(f, e)}) < MaxTransfersToProcess}
Taken(c) ==
  {e \in Entries(c) :
     Cardinality({f \in Entries(c) : Before(f, e)}) < MaxTransfersToProcess}

Select(c, S) == [m \in Maps |-> [t \in Tags |-> IF <<m, t>> \in S THEN c[m][t] ELSE Empty]]

\* Called by onProcessTransfers when its own batch is empty.  A failed tryLock leaves
\* everything as it is.
processTransfers ==
  /\ batch = NoTransfers
  /\ Entries(cache) # {}
  /\ LET S == Taken(cache) IN
     /\ batch' = Select(cache, S)
     /\ cache' = Select(cache, Entries(cache) \ S)
     /\ delivered' = [t \in Tags |->
          IF \E m \in Maps : <<m, t>> \in S
          THEN cache[CHOOSE m \in Maps : <<m, t>> \in S][t]
          ELSE delivered[t]]
  /\ UNCHANGED <<sdkVars, handler, count, last, cleared>>

\* The environment's consumer: it works through whole maps of the batch.
Filled == {m \in Maps : \E t \in Tags : Has(batch, m, t)}
Consume(M) ==
  /\ M # {} /\ M \subseteq Filled
  /\ batch' = [m \in Maps |-> IF m \in M THEN NoTransfers[m] ELSE batch[m]]
  /\ UNCHANGED <<sdkVars, threadVars, delivered, cleared>>

\* resetCompletedUploads and resetCompletedDownloads on the transfers S, F those that
\* failed.  The loops decrement the totals as long as they are positive: P is the part
\* of S they get to.
OfDir(S, d) == {t \in S : Dir(t) = d}

\* Mutant of Remembered: the tags are not looked up.
RememberedAll(S) == S

\* The part of S that the summary remembers by tag.
Remembered(S) == S \cap last.byTag

\* The failed counters of the summary are decremented here and incremented nowhere.
ResetCompleted(S, F) ==
  LET known == Remembered(S)
      keep  == F \ SyncTransfers
  IN
  /\ \E P \in SUBSET S :
       /\ \A d \in Dirs :
            \/ OfDir(P, d) = OfDir(S, d) /\ Cardinality(OfDir(S, d)) <= count.total[d]
            \/ /\ Cardinality(OfDir(S, d)) > count.total[d]
               /\ Cardinality(OfDir(P, d)) = count.total[d]
       /\ count' = [count EXCEPT
            !.total = [d \in Dirs |-> @[d] - Cardinality(OfDir(P, d))],
            !.failed = [d \in Dirs |-> Minus(@[d], Cardinality(OfDir(P \cap keep, d)))]]
  /\ last' = [last EXCEPT
       !.byTag = @ \ known,
       !.total = [d \in Dirs |-> Minus(@[d], Cardinality(OfDir(known, d)))],
       !.failed = [d \in Dirs |-> Minus(@[d], Cardinality(OfDir(known \cap keep, d)))]]

\* What the GUI may clear, once: rows that show a completed or failed transfer.  Two kinds
\* of rows are among them although their transfers are in no total: temporary downloads
\* (clearAllTransfers goes over the rows the view hides), and failed sync transfers that
\* kept a row because they failed before their start was taken out of the cache.
Clearable ==
  {t \in Tags \ (cleared \cup FolderTransfers) : delivered[t].state \in {"COMPLETED", "FAILED"}}

resetCompleted(S) ==
  /\ S # {} /\ S \subseteq Clearable
  /\ ResetCompleted(S, {t \in S : delivered[t].failed})
  /\ cleared' = cleared \cup S
  /\ UNCHANGED <<sdkVars, handler, cache, batch, delivered>>

\* TransferThread::clear, called by TransfersModel::resetModel on logout.  The SDK
\* has ended every transfer by then.
clear ==
  /\ session = "leaving" /\ handler = Idle
  /\ \A t \in Tags : sdk[t] \notin LiveStates
  /\ session' = "out"
  /\ cache' = NoTransfers
  /\ batch' = NoTransfers
  /\ count' = NoCount
  /\ sdk' = [t \in Tags |-> IF sdk[t] = "NONE" THEN "NONE" ELSE "ABORTED"]
  /\ cleared' = {t \in Tags : sdk[t] # "NONE"}
  /\ UNCHANGED <<nn, handler, last, delivered>>
-----------------------------------------------------------------------------
Init ==
  /\ sdk = [t \in Tags |-> "NONE"]
  /\ nn = [t \in Tags |-> 0]
  /\ session = "in"
  /\ handler = Idle
  /\ count = NoCount
  /\ last = NoLastCount
  /\ cache = NoTransfers
  /\ batch = NoTransfers
  /\ delivered = [t \in Tags |-> Empty]
  /\ cleared = {}

\* The error code of a file's finish goes with its state; a folder may carry an error
\* with another state.
FinishErrors(t, s) ==
  IF t \in FolderTransfers THEN {TRUE, s # "COMPLETED"} ELSE {s # "COMPLETED"}

SdkNext ==
  \/ \E t \in Tags : onTransferStart(t)
  \/ \E t \in Tags : onTransferUpdate(t)
  \/ \E t \in Tags, s \in EndStates : \E err \in FinishErrors(t, s) : onTransferFinish(t, s, err)
  \/ \E t \in Tags : onTransferFinishLoggedOut(t)
  \/ cacheSection
  \/ Logout
  \/ Login

GuiNext ==
  \/ processTransfers
  \/ \E M \in SUBSET Filled : Consume(M)
  \/ \E S \in SUBSET Tags : resetCompleted(S)
  \/ clear

Next == SdkNext \/ GuiNext

Spec == Init /\ [][Next]_vars

\* A callback that has begun ends, the 100 ms timer keeps firing and the GUI works
\* through what it took.
Fairness ==
  /\ WF_vars(cacheSection)
  /\ WF_vars(processTransfers)
  /\ WF_vars(\E M \in SUBSET Filled : Consume(M))
FairSpec == Spec /\ Fairness
-----------------------------------------------------------------------------
(* Correctness *)

TypeOK ==
  /\ sdk \in [Tags -> SdkStates]
  /\ nn \in [Tags -> 0..MaxNotifications]
  /\ session \in {"in", "leaving", "out"}
  /\ handler \in Callbacks
  /\ count \in Counts
  /\ last \in LastCounts
  /\ cache \in [Maps -> [Tags -> Data]]
  /\ batch \in [Maps -> [Tags -> Data]]
  /\ delivered \in [Tags -> Data]
  /\ cleared \in SUBSET Tags

\* The transfers of direction d that are under way, as the SDK knows them.
Live(d) == {t \in Tags : Counted(t) /\ Dir(t) = d /\ sdk[t] \in LiveStates}

\* The finished transfers of direction d that nobody has cleared.
Done(d) == {t \in Tags \ cleared :
              /\ Counted(t) /\ Dir(t) = d
              /\ sdk[t] \in {"COMPLETED", "FAILED"} /\ ~Forgotten(t, sdk[t])}

\* The pending counters, incremented and decremented by callbacks on the SDK thread and
\* zeroed by the GUI on logout, always equal the number of transfers under way; between
\* the logout and the reset they may only be too high (never wrapped below zero).
PendingMatchesSdk ==
  \A d \in Dirs :
    /\ count.pending[d] >= Cardinality(Live(d))
    /\ session # "leaving" => count.pending[d] = Cardinality(Live(d))
    /\ session # "leaving" =>
         count.pendingSync = Cardinality((Live("up") \cup Live("down")) \cap SyncTransfers)

\* A transfer that is in no total, or no longer, was cleared from the list.
UncountedWasCleared ==
  \E t \in cleared : sdk[t] # "ABORTED" /\ (~Counted(t) \/ Forgotten(t, sdk[t]))

\* TransfersCount::completedUploads/completedDownloads, a difference of three unsigned
\* counters kept by three different functions, is the number of completed transfers that
\* have not been cleared: it neither drifts nor wraps.  The exceptions are the rows of
\* temporary downloads and the leftover rows of failed sync transfers: clearing one takes a
\* transfer out of the totals that is not in them.
CompletedCountIsTrue ==
  ~UncountedWasCleared => \A d \in Dirs :
    Minus(Minus(count.total[d], count.pending[d]), count.failed[d])
      = Cardinality({t \in Done(d) : sdk[t] = "COMPLETED"})

\* The account was left while it held transfers; the summary survives that.
LeftSession == \E t \in Tags : sdk[t] = "ABORTED"

\* The row of a failed transfer was cleared.
FailedWasCleared == \E t \in cleared : sdk[t] = "FAILED"

\* The summary counters are zeroed whenever nothing is pending.  They never report
\* "nothing pending" while a transfer is, and until a session is left they know exactly
\* what is pending.
SummaryPending ==
  \A d \in Dirs :
    /\ last.pending[d] >= count.pending[d]
    /\ ~LeftSession => last.pending[d] = count.pending[d]

\* The total of the summary is what is pending and the finished transfers remembered by
\* tag, and until a session is left none of these has been cleared.
SummaryTotal ==
  \A d \in Dirs :
    /\ last.total[d] = last.pending[d] + Cardinality(OfDir(last.byTag, d))
    /\ ~LeftSession => OfDir(last.byTag, d) \subseteq Done(d)

\* What the info dialog shows as completed (InfoDialog.cpp:668-669) is the number of the
\* remembered transfers, the failed ones among them.  Once the row of a failed one was
\* cleared it may be too high: its failed counter went below zero.
SummaryCompleted ==
  ~LeftSession /\ ~FailedWasCleared => \A d \in Dirs :
    Minus(Minus(last.total[d], last.pending[d]), last.failed[d])
      = Cardinality(OfDir(last.byTag, d))

\* What the info dialog shows of the transfers of a busy time, "completed of total" and
\* whether any are pending, agrees with the counters of the list and with the SDK.  Not
\* covered are the transfers of a session that was left, which the summary keeps, and the
\* completed number after a failed row was cleared.
SummaryIsTrue == SummaryPending /\ SummaryTotal /\ SummaryCompleted

\* No decrement takes an unsigned counter below zero (it would jump to the largest value,
\* far above the number of transfers): a clear of rows that the summary has forgotten
\* meanwhile, a finish after such a clear, and the transfers of a session whose summary
\* starts from the last one's all find enough to take away.  The exceptions are the total
\* and failed counters after a row was cleared that is in no total, and the failed
\* counters of the summary after a failed row was cleared.
CountersStayInRange ==
  LET n == Cardinality(Tags) IN
  /\ count.pendingSync <= n /\ last.pendingSync <= n
  /\ \A d \in Dirs :
       /\ count.pending[d] <= n /\ last.pending[d] <= n /\ last.total[d] <= n
       /\ ~UncountedWasCleared => count.total[d] <= n /\ count.failed[d] <= n
       /\ ~LeftSession /\ ~FailedWasCleared => last.failed[d] = 0

\* However events, extractions and resets interleave, a transfer is cached in at most one
\* of the six maps, so one batch never carries two contradictory data about it.
OneHolder ==
  \A t \in Tags, m, k \in Maps : Has(cache, m, t) /\ Has(cache, k, t) => m = k

\* Folding never loses the latest word on a transfer: once the callback has returned, the
\* last event is in the cache or was handed to the GUI.
LatestEventIsKept ==
  \A t \in Tags \ cleared :
    Counted(t) /\ sdk[t] \notin {"NONE", "ABORTED"} /\ (handler # Idle => handler.tag # t)
      => \/ delivered[t].nn = nn[t]
         \/ \E m \in Maps : cache[m][t].nn = nn[t]

\* The GUI hears of a transfer's progress, completion or failure only after it has been
\* handed the start (an update without a row is dropped by the model for good).
UpdateNeverOvertakesStart ==
  \A t \in Tags : Has(cache, "update", t) \/ Has(cache, "failed", t) => delivered[t] # Empty

\* What the GUI learns of a transfer is whole and in order: neither its last event is lost
\* nor its start overtaken.
EventsComeThrough == LatestEventIsKept /\ UpdateNeverOvertakesStart

\* The data handed out about a transfer only move forward in the SDK's notification order.
DeliveredMovesForward ==
  [][\A t \in Tags : delivered'[t] # delivered[t] => delivered'[t].nn > delivered[t].nn]_vars

\* Whatever is cached is handed to the GUI in the end, however small the budget of an
\* extraction and however low the map's rank.
CachedIsDelivered ==
  \A t \in Tags : (\E m \in Maps : Has(cache, m, t)) ~> (\A m \in Maps : ~Has(cache, m, t))
=============================================================================
