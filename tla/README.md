# A verification of MEGAsync in TLA+

The repository packs MEGA's desktop application (`src/megadesktop`, C++ and Qt) as an AppImage.
The synchronisation engine and the protocol are in MEGA's SDK, a submodule that is not part of it.
What remains is the application: it shows the SDK's transfers, starts downloads and uploads, keeps
itself up to date, and guides the user through login, links, sets, syncs and stalled issues.
`S` below stands for `src/megadesktop/src/MEGASync`.

## 1. Inventory

Each part with its state, its operations, its neighbours, what is hard, and what makes it correct.

**Transfer listener** (`S/transfers/model/TransfersModel.cpp`, class `TransferThread`; modelled).
State: six maps of transfer data by tag (cancelled, failed folders, failed, started, started by a
sync, updated) under `mCacheMutex`; two sets of unsigned counters under `mCountersMutex`, one for the
session, one ("last") for the summary of the info dialog. The SDK calls `onTransferStart`, `Update`,
`TemporaryError` and `Finish` on its own thread; the GUI thread calls `processTransfers`, the two
`resetCompleted...`, `clear`. Hard: a callback has two critical sections and the GUI may run between
them; events are folded into what is still cached; wrap-around of the counters; logout. Correct if
no event is lost or overtaken and the counters equal what the SDK knows.

**Transfers list** (same file, class `TransfersModel`; modelled). State: rows, tags of rows to
remove, a countdown while the UI is blocked, the batch taken from the listener, and `mModelMutex`.
Operations: a 100 ms tick in stages, tasks in the thread pool, clearing, pausing, moving, reset on
logout. Hard: each use of the mutex in the tick is a `tryLock` that may fail; above a threshold work
goes to tasks; lists are shared without the mutex. Correct if rows show the last event of every
transfer, disappear when they should, never go back, and the UI does not stay blocked.

**Self-update** (`S/control/UpdateTask.cpp`; modelled). State: the application, update and backup
folders, the list being processed, the flags `running`, `forceInstall`, `forceCheck`, two timers.
Operations: three ways to start a run, answers, timeout, swap, rollback. Neighbours: the settings
dialog and info dialog through signals; `MegaApplication` starts and stops the thread. Hard: renames
that fail, a rollback that fails, a crash between two renames, a version kept in one file. Correct
if only verified files are installed, no old file is lost during a swap, a run ends and is answered,
and the release arrives as a whole.

**Standalone updater** (`src/megadesktop/src/MEGAUpdater`). The same swap in a program of its own,
run by a scheduled task, on the same application folder. Correct if the two never mix releases.

**Transfer batches and metadata** (`TransferMetaData`, `TransferBatch`, `ScanStageController`, `FolderTransferListener`; modelled
for what is chosen in the application). State: per application id the files and folders of one user action, with counts of
top-level transfers; the batch of the action that is being scanned; the stage that blocks the transfer manager and the info
dialog meanwhile, with three timers. The listener's thread calls the metadata at each start and end; the GUI thread is told when a folder
has been scanned; the metadata queue calls for the GUI thread. Hard: counts from two threads in any order, a second action while
the first is scanned, cancelling during a scan, calls that arrive late. Correct if the stage is shown for an action and goes with
its scan, the end of a scan is announced when all files are known, one notification is sent per action and not before its end,
and the metadata outlive what the SDK may still report.

**Downloads and uploads** (`MegaDownloader`, `DownloadQueueController`, `MegaUploader`; modelled). State: one queue of
nodes, the id of its action, a countdown of folder sizes, the accumulated size, the dialog of a full disk. Hard: answers for an earlier queue,
a second download during the check. Correct if a queue is launched once, whole or not at all, and with its own sizes.

**Sets** (`SetManager` with `AsyncHandler`, `ProtectedQueue`; modelled). State: a state machine of five states, a request
queue, an internal queue, the current set, a counter. Two threads (handler, GUI callbacks) drive it
without a lock. Correct if one request is in progress at a time and each is answered.

**Links** (`LinkProcessor`, `LinkObject`; modelled; `ExportProcessor` is not). State: the pasted links with one shared index, what was
answered about each and whether it is selected, the import dialog, the folder of an import that is being created. Hard: answers that do not say which
link they are about, three kinds of links with their own requests, an import that waits for its folder, a new list before the old one is done. Correct if
every link gets its own answer, what the user accepted is done once, and the dialog can be accepted in the end.

**Transfer quota** (`TransferQuota`). State: quota state and the end of the waiting time, against a
clock and the account's bandwidth. Correct if the state follows both and alerts are not repeated.

**Login and account** (`LoginController`, `AccountStatusController`, `AccountDetailsManager`). State: progress of
login and fetch-nodes, the blocked state. Hard: logout, lock and errors in any phase. Correct if the
GUI is offered actions only in a session that has its nodes, and a logout brings everything back.

**User attributes** (`UserAttributesManager` and `UserAttributesRequests`): requests shared among
callers, repeated on events. **Request listeners and thread pool** (`RequestListenerManager`, `ThreadPool`):
lifetime of callbacks, work queued at shutdown.

**Stalled issues** (`S/stalled_issues/model`). State: issues in rows, a worker thread that solves
them, updates put off meanwhile. Correct if a solved issue is not shown again before the SDK says
so, and an update put off is applied.

**Syncs and backups** (`S/syncs`, `S/gui/backups`), **node selector** (`S/gui/node_selector`), **notifications
and user messages**, **device centre**, **upsell**: lists and dialogs over requests to the SDK. Syncs
and backups are created one by one; the node selector loads its tree in a worker.

**Application and platform** (`MegaApplication`, `AppState`, `DialogOpener`, preferences, HTTP
server, logging, shell extensions, widgets and QML, packaging scripts): wiring, input and output.

Interactions: SDK thread -> listener (calls); GUI timer -> listener (extraction) -> list; list ->
listener (reset of completed transfers, clear); listener -> metadata (calls), metadata -> application
(queued functions); downloader -> SDK -> listener; import dialog -> links -> sets -> downloader (signals); quota,
login and update -> GUI (signals).

## 2. Modules

| module | models |
|---|---|
| `TransferThread` | the listener, with SDK and GUI as its environment |
| `TransfersModel` | EXTENDS it with the real GUI side, and is shown to be such an environment |
| `UpdateTask` | the update thread, the folders, crashes and restarts |
| `AtomicUpdate` | abstract: all files of a release are exchanged at once or not at all |
| `SetManager` | the state machine of public Sets, run by its handler thread and by the GUI thread |
| `OneAtATime` | abstract: requests are dealt with in their order, one at a time, each to an end of which the user is told |
| `ScanStage` | the blocked windows and their timers |
| `TransferBatch` | EXTENDS it with the metadata, the batch, the SDK's listener thread and the GUI thread's handlers; what a launched action may do |
| `MegaDownloader` | EXTENDS it with the download queue that decides what is launched, and implements it |
| `LinkProcessor` | the links of a list, from pasting them to handing them on |
| `MCTransferThread`, `MCTransfersModel`, `MCUpdateTask`, `MCSetManager`, `MCMegaDownloader`, `MCLinkProcessor` | values of the constants for TLC |
| `TransferThread_proofs`, `TransferThread_count_proofs`, `TransfersModel_proofs`, `UpdateTask_proofs`, `SetManager_proofs`, `TransferBatch_proofs`, `MegaDownloader_proofs`, `LinkProcessor_proofs` | theorems |

### TransferThread

`sdk`, `nn` and `session` are the SDK's side: the state of each transfer, the number of its last
notification, and the account. `count` and `last` are `mTransfersCount` and `mLastTransfersCount`,
`cache` the six maps, `batch` what the GUI has taken. Temporary, sync and folder transfers are
constants, so that one module covers the branches on them. `handler` is the callback between its two
critical sections. `onTransferStart`, `onTransferUpdate`, `onTransferFinish` are the first sections;
`cacheSection` is the second one of each. `CacheEvent` is the folding: `onTransferEvent` searches
the maps in the order of the code, which for the start map also drops a cancelled start.
`processTransfers` takes the greatest prefix in map and tag order that fits in the budget.
`ResetCompleted` is the pair of loops over the rows to clear, with their `> 0` guard and unsigned
decrements; which transfers it stops at depends on the order of a map of indexes and is left open. `Remembered` are the rows that
the summary still knows by tag. The summary's failed counters are decremented here and incremented nowhere (431 and 449 increment those of
the list only), in the model as in the code.
`delivered` and `cleared` are history variables for the properties.

Assumed of the SDK: callbacks of one listener come one after the other on one thread; every
notification of a transfer has a higher number than the last; the transfers of a session end before the
model is reset on logout, and tags are not used again. `Clearable` lets the environment clear any
row that was handed out as over, which is more than the views offer.

Not in the module: byte counters, counters by file type, names and paths, `setMaxTransfersToProcess`.
A temporary error sets `mFailedTransfer` on a live transfer; it is read together with the state
FAILED only and is left out.

### TransfersModel

One row per tag: `rows[t]` is the datum it shows. Row order, filters and selection are left out.
A tick is either `onProcessExtract` (the batch was empty and something was cached), or
`onProcessTransfers(free)`, all stages in the order of the code over the record `Stage`, where
`free` says which of its `tryLock`s succeed, or `onProcessNothing`. The extraction is a step of
its own because the SDK's thread may run right after it. `runFailedTask`, `beginUnblockTask` and
`endUnblockTask` are the thread-pool tasks; the last one is split because the GUI appends to
`mRowsToCancel` without the mutex. Other workers that hold the mutex (pause, resume, filter) show
only through `free`. Thresholds are constants, so that each branch is within reach of small batches.
Rows above `CLEAR_THRESHOLD_THREAD` cleared in a worker, pausing, user-requested cancel and retry,
and moving are not modelled.

### UpdateTask

A release is a function from files to contents, a content is named by the release that introduced
it; `Bad` is a file that was not written to its end. The slots are one step each, except the swap and the rollback, where
each rename is a step and may fail. `QDir::rename` is modelled as used: it fails if the target exists.
`Crash` may come between any two steps, at most `MaxCrashes` times; `Start` needs an executable.
`initialCleanup` and `finalCleanup` may leave any part of a folder behind, as
`removeRecursively` does with files in use. `before` (the application folder when the swap began),
`answer` and `crashes` are history.

Simplified: a rejected list empties nothing in the code, but its entries are cleared at the start of
the next run and not used before, so `localPaths` stays as it is. The signal that an install has begun, proxies
and permissions are left out, as are the branch for an update by another program and MEGAUpdater.

### SetManager

`request` is any of the four `request...` functions; which requests there are is a constant. `handleTriggerAction`
is the handler thread's turn, `handleFetchPublicSetResponse` and its like the SDK's answers on the GUI thread.
Both end with a call of `handleStates`: `calling` holds the threads that are about to make it, so that the
call is a step of its own, and so is the one behind each reset. With `Overlap` the other
thread may come in between, as nothing in the code prevents; without it a thread's turn and all calls that follow from it are
taken without interruption. `set`, `selection`, `imported` and `downloaded` are the data of the
current request; what `reset` forgets (`downloaded`, the internal queue) stays, as in the code. The SDK's
side is `outstanding` (a bag: a request may be repeated), `transfers` (a bag, too) and `preview`, the one Set
that is in preview. `stored`, `status` and `report` are history. The code walks through lists of elements in the order of the Set; where a list is made
from a set of elements, its order is any.

`Failures` names the requests that may be answered with an error, and "directory" for a folder that cannot
be created. Elements are named once for their handle, name and node. A pass through
`handleStates` is one step, which leaves out the races within one. Requests that the guards of `handleStateInit` turn away (no path, no parent) are
not made: the callers check before.

### ScanStage and TransferBatch

An action is named by its application id; folders, files asked for (`TopFiles`) and files in folders (`NestedFiles`) are constants,
with the action and the folder each belongs to. `sdk` is how far the SDK is with each, `scanned` the folders whose scan the GUI thread has been told
of, `tokens` the cancelled cancel tokens. `initial`, `started`, `finished`, `total` are the counters of `TransferMetaData`, `mFiles` its
three lists by state in one function, `appData` the container's keys. `batch` and `batchCancelled` are `BlockingBatch`, `queued` the
calls queued for the GUI thread. `requesting` is the action in whose loop of requests the GUI thread is: each request is a step, and the
listener's thread may run between two of them. `notified` and `replaced` (an action began while another was scanned) are history.

`onTransferStart` and `onTransferFinish` are the whole callbacks into `TransferMetaDataContainer`, which holds its lock throughout, with the check of the
notification and of the scan at their end; `checkScanningState` reads the data as they are afterwards. `onFolderTransferUpdate` is the GUI thread's
handler of the end of a scan. `transferBatchFinished` and `cancelScanning` are those of `MegaApplication`, with what
they call in the batch and in the stage. `ScanStage` has the three timers as actions; the cancelling stage comes with the next timer event, so the button cannot be
pressed twice before it.

Assumed of the SDK: a folder starts before its files, and the scan is over, as an event that the GUI thread may take much later, before the first of them starts;
files of a folder end before it; a cancelled folder starts no more files. The code's comments say that the listener's calls come from another thread than
the GUI's (`TransfersModel.cpp:355`).

Simplified: completed and failed ends are counted alike (`Ends`). That the notification is enabled is read at each check and may be any value.
`mHasFinished` is left out because a batch that has finished is dropped in the same step, `mLastScanCancelled` because it only chooses a text.
Left out: retries of failed transfers, data of nodes that do not exist, transfers of an earlier session, closing a notification, nodes from the web client or a link (`FROM_APP` only),
the dialog of duplicates, of which only this is kept: an upload that waited for it may find `noUploadedStarted` reset by another one that was made meanwhile. Uploads and downloads have a flag each for the first request (`noUploadedStarted`, `mNoTransferStarted`). The loops of requests process events after 20 uploads and 100 downloads; that the user acts in the middle of such a loop is not modelled.

### MegaDownloader

`queue`, `currentId`, `pendingSizes`, `totalSize` are the fields of `DownloadQueueController`; sizes are sets of the nodes they were summed over, so that a
property can say whose they are, and whether the space suffices is any answer. A folder whose size the SDK cannot tell counts as none, as in the code. `asked` holds the folders whose size is outstanding.
`processDownloadQueue` creates the metadata and asks for the sizes, or goes on at once; `onRequestFinish` is one answer; `dialogAccepted` and
`dialogRejected` are the user's. With `Overlap` a download may come while another waits, which nothing in the code prevents. `ImplementsBatch`, that is `BatchSpec`
over the variables of `TransferBatch`, is the abstract specification: an action is launched once, with all its transfers, or forgotten before its launch.

### LinkProcessor

`list`, `objects`, `current` are the fields of the class; an object has the link it was answered for, its type, whether it is correct and whether it is selected.
`outstanding` is what the SDK and `SetManager` were asked, `folder` the one folder account's login. Answers store at the shared index
whatever they are about; `store` is what all of them have in common, with the dialog's selection, which comes back in the same call. `accept` is the end of the dialog, with download and import in the code's order; an import needs an account that is still logged in (`MegaApplication.cpp:4078`);
`onCreateFolder` the import that waited. Each selected link is put in the queue and taken out in the same call (336-337), so that
the queue is not part of the state, and every file link starts a download of its own. `pasted`, `wanted`, `handed`, `lost` are history.

Each list is pasted once and links do not repeat (the dialog for pasting removes duplicates). What becomes of a copy, a download or a Set that was handed on is
the business of `MegaDownloader` and `SetManager`; of the latter only its silence when a Set cannot be fetched is taken over (`fetchSetFails`). With `Overlap` a
list may be pasted while answers about an older one are outstanding.

## 3. Runs

All runs finish; deadlock is checked except where the system may stop: in `UpdateCrash` a crash can leave no executable to start; in `SetRequests`,
`SetOverlap`, `Downloads`, `DownloadsOverlap` and `Links` each request, action or list comes once and nothing is left to do after the last.

| cfg | instance | shows |
|---|---|---|
| `Thread` | sync upload, upload, folder transfer; budget 1; 3 notifications each | no counter falls below zero but for the named exceptions, one map per transfer, pending counters against the SDK, the summary's pending, total and completed numbers |
| `ModelRows` | upload, temporary download, folder transfer; budget 1; thresholds not reached; locks fail at will; 4, 3 and 2 notifications | rows equal the SDK's view when quiet; a cancellation is never forgotten; events are folded, kept and delivered in order |
| `ModelLive` | upload and sync download; thresholds of 1; both tasks; 3 notifications, fairness | rows only move forward, counters stay true when rows are cleared; cached events are delivered and completions shown, the UI is unblocked, and `FairSpec` of `TransferThread` is implemented |
| `ModelZombieRow` | one sync download | violated: a row that shows a cancelled transfer |
| `ModelStuckCancel` | one download, fairness | violated: the row of a cancelled transfer stays |
| `UpdateCrash` | 3 files, the executable last, 2 releases, 1 crash, all renames may fail, fairness | what is installed, what is kept, flags, answers; the release arrives in spite of failures and of the crash |
| `UpdateAtomic` | 3 files, 3 releases, no crash, rollback renames work, fairness | `AtomicUpdate` is implemented; every run ends |
| `SetRequests` | fetch, two downloads, import; 2 or 3 elements, with and without a selection; fetches, folders, copies fail; no overlap | nothing of a request is left when the next begins; what is reported as done is whole; no request is lost; `OneAtATime` is implemented; every request ends |
| `SetOverlap` | two fetches, no failures, threads overlap | violated: a request is dropped |
| `Downloads` | upload of a file and download of a folder with one file, in any order and at once, cancelled or not; no overlap of downloads; fairness | the scan is announced when it is complete, the windows are blocked for a batch and unblocked, one notification per action, metadata live long enough, sizes are the queue's own, nothing waits for nothing; `BatchSpec` is implemented |
| `DownloadsOverlap` | two downloads of a folder each, the first with a file in it | violated: an end is announced while a transfer is under way |
| `Links` | a list of file, folder and Set, and one of folder and file; all answers may fail | answers belong to their links, choices are followed once, the dialog can be accepted in the end |

Bounds. Two or three transfers suffice for folding and counting, because the code treats tags
independently except for the budget (three tags against a budget of one) and the counters (sums). Four
notifications of one transfer are a start, two updates, of which one overtakes or replaces the
other, and an end: enough for each map to be reached with something cached. In `ModelRows` only the upload has four: a temporary
transfer's update and a folder's are ignored, so the constraint `FewerOfOthers` gives them as many as they need. `ModelLive` has to do with three, a start, an update and an end,
since its temporal properties are costly; it fires every action, the two tasks of the blocked mode included. The counters' `UintMax` is 7, more than
the transfers and small enough that a wrap shows. With three files the swap has a first, middle and
last file; three releases let a file be unchanged between two and changed back by a third, and let a
release appear while an older one is downloaded. In `UpdateCrash` the executable is the last file, because otherwise the finding
under "version of the executable" in the hazards makes `UpdateArrives` false. Four requests for Sets are one of each kind, in every order and with
every moment of arrival; two elements are the least that has a first and a last answer. An upload and a download are the two kinds of action, a folder with one file in it has each
kind of count (a top folder, a nested file) and the file of the upload the third; the orders that matter are those between the two threads' handlers, of which all occur. A list of three links has a first, a middle and a last
one and one of each kind; the second list makes the next one differ from the last. The proofs do without these bounds.

### Fairness

`TransferThread`: weak fairness of the callback's second section, of the extraction and of the
consumer: callbacks return, the timer keeps firing. `TransfersModel`: weak fairness of ticks and
tasks; strong fairness of the tick and of the failed-transfers task with free locks, since the workers
that hold `mModelMutex` release it between two pieces of work and cannot be in possession at each
tick for ever. The task that ends the blocked mode runs once; for it no free lock is
assumed. `UpdateTask`: the retry timer, the end of a request (the timeout timer sees to it), the
progress of swap and rollback (a loop without waiting), and the next start are weakly fair. For
`UpdateArrives` network and disk work again and again for each file (`WorldFairness`); without that no
updater can promise anything. `SetManager`: both threads run, the SDK answers each request, and each
download ends. `MegaDownloader`: the SDK starts and ends what it was asked for and tells of each scan, timers fire, the GUI thread takes its
calls and goes on with its loops; the user need not cancel, confirm or start anything, and sizes need not be answered. `LinkProcessor`: requests are answered, or `SetManager` gives up; the user need do nothing.

### Findings

*A row for a cancelled transfer.* A sync transfer whose cancellation comes while its start is still
cached is substituted into the map of sync starts (`TransfersModel.cpp:142`; the map of other starts has
a special case that removes it). The list then adds a row for it, against the comment
"Cancelled transfers are immediately removed from the model" in `TransferManagerDelegateWidget.cpp:182`.
The same path with a failure leaves a row whose clearing decrements the totals twice, which is why
`CompletedCountIsTrue` and `CountersStayInRange` look only at behaviours without such clears (and without clears of the hidden rows of temporary
downloads, which were never counted).

*A row that stays.* Cancelled tags are moved from the batch to `mRowsToCancel` before the `tryLock`
(1025). If the lock is taken, later ticks see an empty batch and do not look at the list again until another
transfer is cancelled or a blocked mode ends. `CancelIsRemembered` shows that
the tag is not lost, `CancelledRowGoes` that nothing is bound to happen with it. A second effect, seen
with two transfers and the task of the blocked mode, is that a tag appended while the task
drains the list is cleared unseen.

*A request for a Set that is dropped.* The GUI thread ends a request with `reset`, which sets INIT, and
then calls `handleStates` (`SetManager.cpp:766`). A trigger of a request made shortly before, for instance
by `LinkProcessor` in the signal that ends the request, may let the handler thread see INIT (125) and take the next request from the queue.
The GUI's own call then finds a waiting state with nothing in the internal queue and resets it (140-144). In `SetOverlap` the
request is never reported, nor is an error, against "the request is added to a queue and handled
asynchronously" (34). Without the overlap two failures have the same effect, which `SetRequests` therefore leaves out:
an element that cannot be fetched while others can (their late answers are taken for the next request's: with
"element" in `Failures` TLC finds `RequestsEnd` violated), and a folder that cannot be
created for a download from a link ("directory"). With `Overlap` `QuietWhenInit` and `RequestsAreKept` are violated as well; with "directory" in `Failures`
`RequestsAreKept` is, while `QuietWhenInit` and `ReportsAreWhole` hold.

*An end that is none.* `DownloadQueueController` has one queue and one countdown. A second download resets both
(`initialize`, 24, and 33-34) while answers for the first are outstanding: the first queue is lost, and a late answer brings the countdown
to -1 or to 0 too early. In `DownloadsOverlap` the check then launches the queue once more, now empty, which sets the initial number of transfers of the current action to 0, and the
end of a file in its folder is taken for the end of all: it is announced with "Transfers finished and ready, show notification" (`TransferMetaData.cpp:522`)
while the folder is under way. With `Overlap` TLC also finds `WaitingIsWaitedFor`, `SizesAreItsOwn`, `ImplementsBatch`, `UiIsUnblocked`,
`MetadataOutlivesTransfers` and `EndIsReportedOnce` violated.

*A counter that wraps.* The completed number of the info dialog is the summary's total less pending less failed (`TransfersModel.h:95`, `InfoDialog.cpp:666-669`), but a
failure increments only the list's failed counter (`TransfersModel.cpp:431, 449`). The dialog thus counts failed transfers as completed. When the row of one is
cleared while others are pending, the summary's failed counter is decremented from zero (756, 802), wraps, and the dialog shows one completed transfer too
many until nothing is pending any more. Clearing the row of a sync transfer does not decrement it. In the model `last.failed` wraps in the same states. `SummaryCompleted` therefore counts the failed transfers among the
completed ones, and it and `CountersStayInRange` except the states in which a failed row was cleared (`FailedWasCleared`); without the exception TLC finds
both violated in the run `Thread`. No sentence of the repository says what the number should be, so there is no run for it.

*What the properties had to except.* `SummaryIsTrue`: `clear` leaves the summary as it is (`TransfersModel.cpp:72`), so that after a logout with transfers under way it goes on from the
old session's numbers; for sessions that were left (`LeftSession`) the property says only that pending is not below the list's. `UiIsUnblocked`: when the metadata are removed with the last transfer before the GUI thread
takes the end of a scan, nobody tells the batch (`MegaApplication.cpp:3135`), and the windows stay disabled or blocked; the same when a second
action replaces the batch of the first (`replaced`). `LinkInfoEnds`: when a Set cannot be fetched `SetManager` resets itself
without a word (518), the dialog never hears of that link or the ones behind it, and can only be closed. `ChoicesAreFollowed`: an import whose folder cannot be created is dropped
silently (`LinkProcessor.cpp:226`). With `Overlap` in `Links`, that is, a new list after a dialog was closed early, `AnswersAreTheirOwn` and `ChoicesAreFollowed` are violated:
late answers are stored for links of the new list, and a folder that is created late imports from the new list.

Further observations without a sentence in the repository that they contradict are in `PROJECT.json`
under the hazards.

## 4. Proofs

The theorems hold for any number of transfers, files, releases, actions, lists of links, requests and elements of Sets, any budget and any bound on
notifications and crashes, under the assumptions named in the modules: tags are finite and not more than
a uint can count, the kinds of transfers are disjoint as in the code, each release renews the executable's
version. What a theorem assumes of the way the program is used stands in its statement: that downloads, lists or threads do not overlap, or that a thing does
not fail. Each of these is necessary, and the findings or the text below say what happens without. The types of every module are proved without them.

`TransferThread_proofs` proves `TypeOK`: folding and extraction keep the maps' types. For the counters this says nothing, since the unsigned operations are modular; `CountersInRange` below does. For the order and the survival of
events it strengthens step by step. `CacheInv` adds `OneHolder` and an order:
what was delivered is older than what is cached, which is older than the callback under way, which is
not newer than the SDK's number. `OneHolder` alone would be inductive, but folding keeps the order only if there is one
holder, and the order is what makes `DeliveredMovesForward` a property of a single step. `StartInv` adds that a live transfer, its callback
being over, is known to the cache or to the GUI; without it an update could be cached for a
transfer nobody has heard of. `KeptInv` adds `LatestEventIsKept`. The key lemma, `CacheEventColumn`, says that one event leaves a transfer in one map,
with the newer of the two data, and does not touch other transfers. `EventsTheorem` puts the two parts together as the run `ModelRows` states them (`EventsComeThrough`).

`TransferThread_count_proofs`: the pending counters against the SDK (`PendingInvariant`) by cardinality
lemmas for one element more or less. `SummaryInv` bounds the summary's pending and total counters by the transfers seen so far, and says that its pending part is
never below the session's, and its total the pending part and the tags. `RoomInv` does the same for the counters of sync transfers and of the list, so that an
increment always has room and a decrement something to take. `FreshInv` says what is true until a session is left: pending is exact, the tags are those of finished transfers that nobody cleared, and the
failed counter is zero as long as no failed row was cleared. `AccountInv` is all of these with `CountInv`, and `Summary` and `CountersInRange` are read off it; the exceptions in both are those of
the properties, and the code needs them. `CountInv` is needed for the completed count: the counters are balanced
(`Balanced`), but the rows to clear are chosen by what was *delivered*, so `TruthInv` states that data
delivered, cached or under way agree with the SDK once they say a transfer is over.

`TransfersModel_proofs`: a tick is a composition of six stages over one record, so each stage gets a lemma about what it may
change (`CancelEffect`, `RowEffect` and those built from them), and `TickEffect` says the same of the whole tick and of the failed-transfers task; the
invariant is then shown once for `TickEffect`. It has two parts. `LastInv`, of the listener: a datum that says that a transfer is over is the last about it,
each map holds only what it is for (`Places`), the batch is what was delivered last (`BatchInv`), nothing is on its way about a cleared transfer, and the end of a transfer is not
lost, temporary ones included. `ListsTrue`, of the list: a row shows what was delivered or something older while the newer waits in the batch (`RowInv`); only rows that have to go are
on the lists to remove, those of an earlier session included (`ListInv`); what was delivered is shown or waits, and finds its row (`ShownInv`). `Places` is needed
because the stages take a map to mean something, and `FirstStart` because `processStartTransfers` appends rows without looking whether there is one.
`ModelImplementsThread` shows that every step of the list is a step `TransferThread` allows, a clear of rows that are not `Clearable` being impossible, so `ListenerInTheList` holds without more;
`RowsForward` and `LiveRows` need no assumption. `CancelRemembered` and `QuietRows` assume `NeverBlocked`, as the run `ModelRows` does: no threshold is below the number of
transfers. It is necessary, since a tag that the GUI appends while the task of the blocked mode drains `mRowsToCancel` is cleared with the rest, and its row stays.

`UpdateTask_proofs`: `IInv` describes the folders during a swap file by file: each listed file is `Untouched`,
`BackedUp` or `Swapped` (`SwapInv`). On the way up the files before the current one are `Swapped` and those behind it
`Untouched` (`UpInv`); on the way back, when the rollback's renames work, the files the rollback has passed are `Untouched` again
(`DownInv`). `DownloadInv` says that while files are downloaded, those of the list before the current one
are complete in the update folder; without it `CompletedMeansComplete` does not follow. `Atomic` proves the refinement of
`AtomicUpdate` under the two assumptions in its statement: no crash, and renames of the rollback that
work. Both are necessary: the code keeps no record of a swap under way. `RunsGoForward` is the safety part of `RunsEnd`: each step of the task during a run goes on in the list that was received
(downloads and `performUpdate` upwards, `rollbackUpdate` downwards) or from one stage to the next, whatever fails, and nothing else touches the place it has reached.

`TransferBatch_proofs`: the counters of the metadata are the sizes of sets of transfers (`CountInv`): `finished` of the action's transfers that are over,
`started` of those that count as begun (`CountedTops`), `total` of the files expected by now (`Expected`). `FilesInv` says that the lists mirror the SDK.
Hence the count in `AllFinished` is that of `OverTops`, equal to the initial number exactly when all are over, although the code compares counters that two
threads add to; and `total` equals the known files only when no expected file is missing. The equations for `started` and `total` hold until the action is cancelled (a folder
that is cancelled after its scan is counted twice, `TransferMetaData.cpp:162` and 460), which is why the invariant needs `CancelInv` to say who was. `PhaseInv`
orders the life of an action, `StageInv` ties the stage to the batch. The theorems are `ScansAreComplete`, `EndsAreReportedOnce`, `NoneOutlivesMetadata`, `BlockedForBatches` and
`NobodyElseUnblocks`, for any number of actions, folders and files. They are about `BatchSpec`, so about any order of launches that it allows.

They say that what is announced is true; `BatchesAreNotStuck` says that it is announced. The end of a scan is a condition over three counters that the code evaluates only in the handlers
that change one of them, on two threads; if the last handler to run found it false, the windows would stay blocked for ever. The theorem: while the batch has its metadata, the
call that ends its scan is queued, or its requests are still being made, or one of its transfers is under way, or a folder was scanned of which the GUI thread has not been told. This is the safety
part of `UiIsUnblocked`, to which the run adds the fairness. Its invariant, `ReleaseInv`, has four parts: where the condition holds the call is queued (`ToldInv`), which every handler has to keep; once the loop of requests
is left, all was requested (`RequestedInv`); a folder that ended without a file is among the empty ones, and otherwise has no file that is not over, unless it was cancelled (`EmptyInv`, `OverInv`). When
nothing is under way any more these and `CountInv` make `CountedTops` all that was asked for and `Expected` all that is known, so the condition holds. The
exception for metadata that are gone is the one in the findings.

`MegaDownloader_proofs`: where downloads do not overlap, the queue is that of the one download that waits (`AskedInv`, `DialogInv`, `WaitInv`), or what is left of
the one in the loop (`LoopInv`). From it each step of the queue is a step of `TransferBatch` (`Refinement`): a launch has the metadata's id, all its transfers, and
comes once. `DownloadsInBatches` carries the theorems of `TransferBatch_proofs` over to the program as a whole. `NoDownloadIsForgotten` and `SizesBelong` are
read off the same invariant. The assumption is necessary, see the finding; only the types (`DownloadTypes`) do not need it.

`LinkProcessor_proofs`: the types hold whatever overlaps, because each answer is checked against the length of the list. Where lists do not overlap, at most one request is outstanding and it is for the first link without an answer
(`OneIsAsked`); `ObjectsInv` separates the answered objects from the others and says that only what is correct is selected; `StageInv` says that nothing is outstanding, and no dialog open,
while a folder is being created, so that the objects then are those that were accepted (`ChoiceInv`). `AnswersBelong` and `ChoicesFollowed` follow, for any lists. `DialogIsAnswered` is the
safety part of `LinkInfoEnds`: an open dialog has an answer outstanding, but for a Set that was given up silently.

`SetManager_proofs`: the properties of a request are about its end (`ReportsAreWhole`, `QuietWhenInit`), so the invariant `Inv` says how far it is at each moment in between. While a
state waits for something, it waits for the request it belongs to and the GUI thread alone is driving it (`CurrentInv`); then either the Set is asked for or has just come (`FetchInv`), or work is done on
it (`WorkInv`). Of the elements that were wanted each is in one place: `NodesInv` for a link's, whose nodes are asked for or there; `DownloadInv` for those asked for, found, being downloaded or stored, with `downloaded` the
number of the last; `ImportInv` for those being copied or named in one of the report's three lists. That these are disjoint and together all that was wanted is what makes a count
equal to the number of elements mean that the request is whole, and what makes the bags of answers and downloads empty when the count is reached. Lists and bags are handled through three ideas: a bag is
`Once` if it has one of each, a list `IsInjective` if nothing is in it twice, and the lemmas say what appending, taking and removing do to them, so that no induction over a list is needed. `QueueInv` is the part about the requests that wait.

`QuietTheorem`, `ReportsTheorem` and the refinement `InTurn` hold where the manager is `Undisturbed`: the threads do not overlap, every element of a Set can be had, and a Set that is given for a download or an
import has something in it (`LinkProcessor` passes a Set that was reported, which is complete, and asks for all of it, `LinkProcessor.cpp:555`). `RequestsTheorem` needs "directory" not to fail in addition. The first two and the last are necessary as the
findings show; without the third the request is dropped unseen, because a Set without elements is not complete. `TypeInvariant` needs none of them.

Only model-checked: everything under fairness (`EventsAreShown`, `UiIsUnblocked` of both kinds, `RunsEnd`,
`UpdateArrives`, `RequestsEnd`, `LinkInfoEnds`, and `CancelledRowGoes`, which is violated), since the prover has no rule for fairness; and the fairness part of the
refinement of `TransferThread` for the same reason. For `UiIsUnblocked` of the batches, `RequestsEnd` and `LinkInfoEnds` the part that says that something is under way as long as the goal is not reached
is proved, for `RunsEnd` the part that says that a run only goes forward, and for `EventsAreShown` that rows are right when nothing is under way (`LiveRows`). All invariants and action properties of the passing runs are stated by a theorem.

## 5. State of the work

Modelled: the six parts of the program that keep the most state under the most concurrency, in the order in which they were taken: listener, list, update, Sets,
batches with downloads and uploads, links. The compositions are listener and list (`TransfersModel` extends `TransferThread`), and stage, batch and queue (`MegaDownloader`
extends `TransferBatch`, which extends `ScanStage`); `LinkProcessor` and `SetManager` are joined only by the answer that may not come.

Proved: the types of every module, every invariant and action property of the passing runs, the refinements of `AtomicUpdate`, `BatchSpec`, `OneAtATime` and `TransferThread` step by step, and
the safety parts of most liveness properties. Left: that the blocked mode of the list has an end to come, and what is true where downloads, lists or threads overlap, besides the types.

### Not modelled

In the parts that are modelled: in `TransfersModel` clearing of very many rows in a worker, pausing, user-requested cancel and retry, and moving; in the metadata what section 2 lists;
in `SetManager` races within one pass; `ExportProcessor`, a countdown of answers on one thread; the thread pool and the listener manager, which only pass calls on. MEGAUpdater repeats the
swap of `UpdateTask` without retries; the two on one folder would be a module of their own.

Not modelled, although they keep state: `TransferQuota` (real time against the account's bandwidth: a model would be one of clocks), login and account status, user attributes, stalled issues,
creation of syncs and backups, node selector, notifications. Most of their decisions are the SDK's, which is not in the repository; what is left is a sequence of requests and presentation.

Not to be modelled: widgets and QML, platform layer, logging, packaging, which keep no state that a property could speak of, and the translations (`gui/translations/*.ts`): these are tables
of Qt's translator in XML, data in spite of the suffix, without any behaviour. The SDK is external.

## 6. Running

    tlc -config Thread.cfg MCTransferThread
    tlapm TransferThread_count_proofs.tla

The module of a configuration is the MC module of its prefix: `Thread` MCTransferThread, `Model` MCTransfersModel, `Update` MCUpdateTask, `Set` MCSetManager, `Downloads` MCMegaDownloader,
`Links` MCLinkProcessor. `ModelLive` and `Downloads` take three to four minutes, the others a minute or less.
