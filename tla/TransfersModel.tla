--------------------------- MODULE TransfersModel ---------------------------
(***************************************************************************)
(* The GUI half of the transfers list (class TransfersModel in             *)
(* transfers/model/TransfersModel.cpp): the rows, the two lists of rows to *)
(* remove, the "UI blocked" countdown and the work handed to the thread    *)
(* pool.  It takes the place of TransferThread's environment (Consume,     *)
(* resetCompleted, clear) and is shown to be one.                          *)
(*                                                                         *)
(* onProcessTransfers runs on the GUI thread every 100 ms.  The extraction *)
(* (processTransfers of TransferThread) and the stages that work through   *)
(* the batch are two steps, since the SDK thread may run between them.     *)
(* Every use of mModelMutex is a tryLock that may fail, since pause/resume *)
(* and filter workers hold it; "free" is the set of tryLocks of one tick   *)
(* that succeed.                                                           *)
(***************************************************************************)
EXTENDS TransferThread

CONSTANTS
  CancelThreshold,      \* CANCEL_THRESHOLD_THREAD
  StartThreshold,       \* START_THRESHOLD_THREAD
  FailedThreshold,      \* FAILED_THRESHOLD_THREAD
  ResetAfterEmptyReceives  \* RESET_AFTER_EMPTY_RECEIVES

ASSUME ThresholdsAssumption ==
  /\ CancelThreshold \in Nat /\ StartThreshold \in Nat /\ FailedThreshold \in Nat
  /\ ResetAfterEmptyReceives \in Nat \ {0}

VARIABLES
  rows,          \* mTransfers with mTagByOrder: the datum a row shows, Empty without row
  rowsToCancel,  \* mRowsToCancel
  failedToClear, \* mFailedTransferToClear
  failedFolders, \* mFailedFoldersByTag
  uiBlocked,     \* mUiBlockedCounter
  failedTask,    \* a task of the "failed" stage waits in the thread pool
  unblockTask,   \* the task that drains the two lists: "none", "queued", "draining"
  draining       \* the cancelled tags it goes through while it holds mModelMutex

guiState == <<rows, rowsToCancel, failedToClear, failedFolders, uiBlocked>>
modelVars == <<guiState, failedTask, unblockTask, draining>>
allVars == <<vars, modelVars>>

HasRow(t) == rows[t] # Empty
Draining == unblockTask = "draining"

\* The tryLocks of one tick.  None succeeds while the task holds the mutex.
Locks == {"cancel", "folder", "rows"}
FreeLocks == IF Draining THEN {{}} ELSE SUBSET Locks
-----------------------------------------------------------------------------
(* The stages of onProcessTransfers, on the record of what they change *)

Stage == [batch |-> batch, rows |-> rows, toCancel |-> rowsToCancel, toClear |-> failedToClear,
          folders |-> failedFolders, blocked |-> uiBlocked, task |-> failedTask]

InMap(s, m) == {t \in Tags : Has(s.batch, m, t)}
Emptied(s, M) == [m \in Maps |-> IF m \in M THEN NoTransfers[m] ELSE s.batch[m]]
Without(r, S) == [t \in Tags |-> IF t \in S THEN Empty ELSE r[t]]
Shown(r) == {t \in Tags : r[t] # Empty}

setUiBlockedMode(s) == [s EXCEPT !.blocked = ResetAfterEmptyReceives]

cacheCancelTransfersTags(s) ==
  [s EXCEPT !.toCancel = @ \cup InMap(s, "cancel"), !.batch = Emptied(s, {"cancel"})]

processCancelTransfers(s) ==
  [s EXCEPT !.rows = Without(@, s.toCancel), !.toCancel = {}]

\* Mutant of CancelStage: tags are kept only when they can be processed at once.
CancelStageForgetful(s, free) ==
  IF InMap(s, "cancel") = {} THEN s
  ELSE IF "cancel" \in free THEN processCancelTransfers(cacheCancelTransfersTags(s))
  ELSE [s EXCEPT !.batch = Emptied(s, {"cancel"})]

CancelStage(s, free) ==
  LET c == cacheCancelTransfersTags(s) IN
  IF InMap(s, "cancel") = {} THEN s
  ELSE IF s.blocked > 0 \/ Cardinality(InMap(s, "cancel")) > CancelThreshold
       THEN setUiBlockedMode(c)
  ELSE IF "cancel" \in free THEN processCancelTransfers(c)
  ELSE c

FolderStage(s, free) ==
  IF "folder" \in free
  THEN [s EXCEPT !.folders = @ \cup InMap(s, "failedFolder"), !.batch = Emptied(s, {"failedFolder"})]
  ELSE s

\* A failed transfer is shown in its row; a failed sync transfer loses the row later.
processFailedTransfers(s) ==
  LET S == InMap(s, "failed") \cap Shown(s.rows) IN
  [s EXCEPT !.rows = [t \in Tags |-> IF t \in S THEN s.batch["failed"][t] ELSE @[t]],
            !.toClear = @ \cup (S \cap SyncTransfers),
            !.batch = Emptied(s, {"failed"})]

processSyncFailedTransfers(s) ==
  [s EXCEPT !.rows = Without(@, s.toClear), !.toClear = {}]

FailedStage(s, free) ==
  IF s.blocked > 0 \/ Cardinality(InMap(s, "failed")) > FailedThreshold
  THEN [setUiBlockedMode(s) EXCEPT !.task = TRUE]
  ELSE processSyncFailedTransfers(IF "rows" \in free THEN processFailedTransfers(s) ELSE s)

\* New rows at the end of the list; a start for a tag that has a row is dropped.
Started(s, t) == IF Has(s.batch, "start", t) THEN s.batch["start"][t] ELSE s.batch["startSync"][t]
processStartTransfers(s) ==
  LET S == (InMap(s, "start") \cup InMap(s, "startSync")) \ Shown(s.rows) IN
  [s EXCEPT !.rows = [t \in Tags |-> IF t \in S THEN Started(s, t) ELSE @[t]],
            !.batch = Emptied(s, {"start", "startSync"})]

StartStage(s, free) ==
  LET b == IF s.blocked > 0 \/ Cardinality(InMap(s, "start")) > StartThreshold
           THEN setUiBlockedMode(s) ELSE s
  IN IF "rows" \in free THEN processStartTransfers(b) ELSE b

\* An update for a tag without row is dropped.
processUpdateTransfers(s) ==
  LET S == InMap(s, "update") \cap Shown(s.rows) IN
  [s EXCEPT !.rows = [t \in Tags |-> IF t \in S THEN s.batch["update"][t] ELSE @[t]],
            !.batch = Emptied(s, {"update"})]

\* Mutants of RowStage: updates are thrown away when the lock is not free; updates are
\* never processed.
RowStageDroppingUpdates(s, free) ==
  IF InMap(s, "failed") # {} THEN FailedStage(s, free)
  ELSE IF InMap(s, "start") \cup InMap(s, "startSync") # {} THEN StartStage(s, free)
  ELSE IF "rows" \in free THEN processUpdateTransfers(s)
  ELSE [s EXCEPT !.batch = Emptied(s, {"update"})]
RowStageWithoutUpdates(s, free) ==
  IF InMap(s, "failed") # {} THEN FailedStage(s, free)
  ELSE IF InMap(s, "start") \cup InMap(s, "startSync") # {} THEN StartStage(s, free)
  ELSE s

\* One of the three row stages per tick, in this order.
RowStage(s, free) ==
  IF InMap(s, "failed") # {} THEN FailedStage(s, free)
  ELSE IF InMap(s, "start") \cup InMap(s, "startSync") # {} THEN StartStage(s, free)
  ELSE IF "rows" \in free THEN processUpdateTransfers(s)
  ELSE s

\* Mutants of CountDown: it does not stop at zero; it stops at one.
CountDownBelowZero(b) == b - 1
CountDownToOne(b) == IF b > 1 THEN b - 1 ELSE b

\* setUiBlockedMode(false): one tick less; at zero what was put off is handed to a task.
CountDown(b) == IF b > 0 THEN b - 1 ELSE 0
Unblocked(b, toCancel, toClear) ==
  IF b = 1 /\ toCancel \cup toClear # {} THEN "queued" ELSE unblockTask
-----------------------------------------------------------------------------
(* GUI thread *)

\* (The stages' results are bound by \E, so that TLC computes each once.)
onProcessTransfers(free) ==
  /\ batch # NoTransfers
  /\ \E c \in {CancelStage(Stage, free)} : \E s \in {RowStage(FolderStage(c, free), free)} :
     /\ batch' = s.batch
     /\ rows' = s.rows
     /\ rowsToCancel' = s.toCancel
     /\ failedToClear' = s.toClear
     /\ failedFolders' = s.folders
     /\ failedTask' = s.task
     /\ uiBlocked' = CountDown(s.blocked)
     /\ unblockTask' = Unblocked(s.blocked, s.toCancel, s.toClear)
  /\ UNCHANGED <<sdkVars, threadVars, delivered, cleared, draining>>

\* A tick that extracts nothing, because nothing is cached or mCacheMutex is taken.
onProcessNothing ==
  /\ batch = NoTransfers /\ uiBlocked > 0
  /\ uiBlocked' = CountDown(uiBlocked)
  /\ unblockTask' = Unblocked(uiBlocked, rowsToCancel, failedToClear)
  /\ UNCHANGED <<vars, rows, rowsToCancel, failedToClear, failedFolders, failedTask,
                 draining>>

onProcessExtract == processTransfers /\ UNCHANGED modelVars

\* Mutant of ClearableRow: a live row may be cleared.
ClearableRowAny(t) == HasRow(t)

\* Rows the user may clear while the UI is not blocked: completed ones (clearAllTransfers
\* does not look at what the view hides), and visible failed ones.
ClearableRow(t) ==
  \/ rows[t].state = "COMPLETED"
  \/ rows[t].state = "FAILED" /\ rows[t].failed /\ t \notin TempTransfers

clearTransfers(S) ==
  /\ uiBlocked = 0 /\ unblockTask = "none"
  /\ S # {} /\ \A t \in S : ClearableRow(t)
  /\ ResetCompleted(S, {t \in S : rows[t].failed})
  /\ cleared' = cleared \cup S
  /\ rows' = Without(rows, S)
  /\ UNCHANGED <<sdkVars, handler, cache, batch, delivered,
                 rowsToCancel, failedToClear, failedFolders, uiBlocked, failedTask, unblockTask, draining>>

\* onLogout: the lists of tags to remove and the failed folders survive.
resetModel ==
  /\ ~Draining
  /\ clear
  /\ rows' = [t \in Tags |-> Empty]
  /\ uiBlocked' = 0
  /\ UNCHANGED <<rowsToCancel, failedToClear, failedFolders, failedTask, unblockTask, draining>>
-----------------------------------------------------------------------------
(* Thread pool *)

\* The task of the "failed" stage; without the mutex it does nothing.
runFailedTask(free) ==
  /\ failedTask
  /\ free => ~Draining
  /\ failedTask' = FALSE
  /\ \E s \in {IF free THEN processFailedTransfers(Stage) ELSE Stage} :
     /\ batch' = s.batch
     /\ rows' = s.rows
     /\ failedToClear' = s.toClear
  /\ UNCHANGED <<sdkVars, threadVars, delivered, cleared,
                 rowsToCancel, failedFolders, uiBlocked, unblockTask, draining>>

\* The task that ends the blocked mode.  Without the mutex it does nothing.  It reads
\* mRowsToCancel, which the GUI thread appends to without the mutex, and clears it later.
beginUnblockTask(free) ==
  /\ unblockTask = "queued"
  /\ unblockTask' = IF free THEN "draining" ELSE "none"
  /\ draining' = IF free THEN rowsToCancel ELSE {}
  /\ UNCHANGED <<vars, guiState, failedTask>>

endUnblockTask ==
  /\ Draining
  /\ rows' = Without(rows, draining \cup failedToClear)
  /\ rowsToCancel' = {}
  /\ failedToClear' = {}
  /\ unblockTask' = "none" /\ draining' = {}
  /\ UNCHANGED <<vars, failedFolders, uiBlocked, failedTask>>
-----------------------------------------------------------------------------
ModelInit ==
  /\ Init
  /\ rows = [t \in Tags |-> Empty]
  /\ rowsToCancel = {} /\ failedToClear = {} /\ failedFolders = {}
  /\ uiBlocked = 0
  /\ failedTask = FALSE /\ unblockTask = "none" /\ draining = {}

ModelGuiNext ==
  \/ onProcessExtract
  \/ \E free \in FreeLocks : onProcessTransfers(free)
  \/ onProcessNothing
  \/ \E S \in SUBSET Tags : clearTransfers(S)
  \/ resetModel

TaskNext ==
  \/ \E free \in BOOLEAN : runFailedTask(free)
  \/ \E free \in BOOLEAN : beginUnblockTask(free)
  \/ endUnblockTask

ModelNext == (SdkNext /\ UNCHANGED modelVars) \/ ModelGuiNext \/ TaskNext

ModelSpec == ModelInit /\ [][ModelNext]_allVars

\* Callbacks and tasks that have begun end, the timer keeps firing, and no worker holds
\* mModelMutex at every tick for ever.
ModelFairness ==
  /\ WF_allVars(cacheSection /\ UNCHANGED modelVars)
  /\ WF_allVars(onProcessExtract)
  /\ WF_allVars(onProcessNothing)
  /\ SF_allVars(onProcessTransfers(Locks))
  /\ SF_allVars(runFailedTask(TRUE))
  /\ WF_allVars((\E free \in BOOLEAN : beginUnblockTask(free)) \/ endUnblockTask)

FairModelSpec == ModelSpec /\ ModelFairness
-----------------------------------------------------------------------------
(* Correctness *)

ModelTypeOK ==
  /\ TypeOK
  /\ rows \in [Tags -> Data]
  /\ rowsToCancel \subseteq Tags /\ failedToClear \subseteq Tags /\ failedFolders \subseteq Tags
  /\ uiBlocked \in 0..ResetAfterEmptyReceives
  /\ failedTask \in BOOLEAN
  /\ unblockTask \in {"none", "queued", "draining"} /\ draining \subseteq Tags

\* Nothing about a transfer is under way between the SDK and its row.
Quiet ==
  /\ handler = Idle /\ cache = NoTransfers /\ batch = NoTransfers
  /\ uiBlocked = 0 /\ ~failedTask /\ unblockTask = "none"
  /\ rowsToCancel = {} /\ failedToClear = {}

\* When everything has been processed the list tells the truth: whatever order events,
\* ticks, failed locks, tasks and clears came in, a file transfer has a row exactly when
\* it is live or ended without being cancelled or cleared, and the row shows its last
\* event; its last part, no row that should be gone, only as long as the UI is never
\* blocked.  (Temporary transfers skip updates, and a sync transfer that ended before its
\* start was extracted keeps a row: only its live rows are looked at.)
QuietRowsMatchSdk ==
  Quiet => \A t \in Tags \ FolderTransfers :
    /\ sdk[t] \in LiveStates => HasRow(t) /\ (Counted(t) => rows[t].state = sdk[t])
    /\ t \notin SyncTransfers /\ sdk[t] \in {"COMPLETED", "FAILED"} /\ t \notin cleared
         => HasRow(t) /\ rows[t].state = sdk[t]
    /\ t \notin SyncTransfers /\ (sdk[t] \in {"NONE", "CANCELLED"} \/ t \in cleared)
         => ~HasRow(t)

\* A cancellation that reached the model before its row was removed is still on a list
\* that some later tick or task goes through, whichever tryLock failed, as long as the UI
\* is never blocked.  (With the task that ends the blocked mode it may fail: a tag the GUI
\* appends while the task drains is cleared with the rest.)
CancelIsRemembered ==
  \A t \in Tags \ SyncTransfers :
    HasRow(t) /\ delivered[t].state = "CANCELLED"
      => Has(batch, "cancel", t) \/ t \in rowsToCancel
         \/ t \in draining

\* A row never goes back to an older event, and no row appears for a transfer that was
\* cleared or of whose cancellation the model has already been told.
RowsMoveForward ==
  [][\A t \in Tags :
       /\ HasRow(t) /\ rows'[t] # Empty => rows'[t].nn >= rows[t].nn
       /\ ~HasRow(t) /\ rows'[t] # Empty
            => t \notin cleared /\ (t \in SyncTransfers \/ delivered[t].state # "CANCELLED")
    ]_allVars

\* Events reach the list: whatever is cached is handed to the GUI in the end, and a transfer
\* that completed is eventually shown as completed, unless the user clears it or logs out,
\* however often the locks fail and the UI is blocked.
CompletionIsShown ==
  \A t \in Tags \ FolderTransfers :
    sdk[t] = "COMPLETED" ~> (rows[t].state = "COMPLETED" \/ t \in cleared \/ session # "in")

EventsAreShown == CachedIsDelivered /\ CompletionIsShown

\* The UI never stays blocked: once no more events come, the countdown ends.
UiIsUnblocked == uiBlocked > 0 ~> uiBlocked = 0

\* The widget that paints a row (TransferManagerDelegateWidget.cpp:182) counts on this:
\* no row ever shows a cancelled transfer.
NoCancelledRow == \A t \in Tags : rows[t].state # "CANCELLED"

\* The same comment as a promise over time: the row of a cancelled transfer goes.
CancelledRowGoes ==
  \A t \in Tags \ FolderTransfers : sdk[t] = "CANCELLED" ~> ~HasRow(t)
=============================================================================
