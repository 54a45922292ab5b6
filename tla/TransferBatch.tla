---------------------------- MODULE TransferBatch ----------------------------
(* What the application knows of an upload or download the user asked for:    *)
(* the metadata that counts its files and folders (TransferMetaData.cpp), the *)
(* batch that blocks the windows while its folders are scanned                *)
(* (TransferBatch.cpp) and the handlers of MegaApplication between them.      *)
(*                                                                            *)
(* Three parties act. The SDK's listener thread calls the metadata at each    *)
(* start and end of a transfer. The GUI thread asks for the transfers, is     *)
(* told when a folder has been scanned, and takes the calls that the metadata *)
(* queues for it. The user starts and cancels. How a download waits for the   *)
(* sizes of its folders is left to MegaDownloader, which extends this module. *)
EXTENDS ScanStage, Integers, Sequences, FiniteSets

CONSTANTS
    Actions,      \* what the user asks for, named by the id of its metadata
    Uploads,      \* those of them that are uploads
    Folders,      \* folders asked for
    TopFiles,     \* files asked for
    NestedFiles,  \* files in the folders
    ActionOf,     \* the action a folder or file was asked for in
    FolderOf,     \* the folder of a nested file
    NoAction      \* stands for a null pointer or no id

Top == Folders \union TopFiles
Files == TopFiles \union NestedFiles
Transfers == Top \union NestedFiles
Owner(t) == IF t \in NestedFiles THEN ActionOf[FolderOf[t]] ELSE ActionOf[t]
Tops(a) == {t \in Top : ActionOf[t] = a}
Inside(d) == {f \in NestedFiles : FolderOf[f] = d}

ASSUME BatchAssumption ==
    /\ IsFiniteSet(Folders) /\ IsFiniteSet(TopFiles) /\ IsFiniteSet(NestedFiles)
    /\ Folders \cap TopFiles = {} /\ Top \cap NestedFiles = {}
    /\ ActionOf \in [Top -> Actions]
    /\ FolderOf \in [NestedFiles -> Folders]
    /\ Uploads \subseteq Actions
    /\ NoAction \notin Actions

VARIABLES
    sdk,              \* how far the SDK is with each transfer
    scanned,          \* folders whose scan the GUI thread has been told of
    tokens,           \* actions whose cancel token was cancelled
    appData,          \* ids in TransferMetaDataContainer
    initial,          \* mInitialTopLevelTransfers
    started,          \* mStartedTopLevelTransfers
    finished,         \* mFinishedTopLevelTransfers
    total,            \* mTotalFileCount
    processCancelled, \* mProcessCancelled
    mFiles,           \* the state under which mFiles holds a file, or "absent"
    emptyFolders,     \* mEmptyFolders
    hasChanged,       \* mFiles.hasChanged()
    batch,            \* the action of mBlockingBatch.mBatch
    batchCancelled,   \* mBlockingBatch.cancelled
    requesting,       \* the action whose loop of requests the GUI thread is in
    noUploadedStarted,   \* MegaApplication: the next upload starts the scan stage
    mNoTransferStarted,  \* MegaDownloader: the next download does
    queued,           \* calls queued for the GUI thread
    notified,         \* history: notifications shown for an action
    replaced          \* history: an action began while another one was scanned

metaVars == <<appData, initial, started, finished, total, processCancelled,
              mFiles, emptyFolders, hasChanged>>
appVars == <<batch, batchCancelled, requesting, noUploadedStarted, mNoTransferStarted,
             replaced>>
batchVars == <<sdk, scanned, tokens, metaVars, appVars, queued, notified, scanVars>>

Ends == {"ended", "cancelled"}   \* completed or failed, which is counted alike, or not
Live == {"requested", "started"}
SdkStates == {"none"} \union Live \union Ends
Calls == [kind : {"scanFinished", "notify"}, id : Actions]

Over(t) == sdk[t] \in Ends
AllOver(a) == \A t \in Tops(a) : Over(t)

TypeOK ==
    /\ ScanTypeOK
    /\ sdk \in [Transfers -> SdkStates]
    /\ scanned \subseteq Folders
    /\ tokens \subseteq Actions
    /\ appData \subseteq Actions
    /\ initial \in [Actions -> Int]
    /\ started \in [Actions -> Nat]
    /\ finished \in [Actions -> Nat]
    /\ total \in [Actions -> Nat]
    /\ processCancelled \in [Actions -> BOOLEAN]
    /\ mFiles \in [Files -> {"absent", "pending"} \union Ends]
    /\ emptyFolders \subseteq Folders
    /\ hasChanged \in [Actions -> BOOLEAN]
    /\ batch \in Actions \union {NoAction}
    /\ batchCancelled \in BOOLEAN
    /\ requesting \in Actions \union {NoAction}
    /\ noUploadedStarted \in BOOLEAN
    /\ mNoTransferStarted \in BOOLEAN
    /\ queued \in Seq(Calls)
    /\ notified \in [Actions -> Nat]
    /\ replaced \in BOOLEAN

BatchInit ==
    /\ ScanInit
    /\ sdk = [t \in Transfers |-> "none"]
    /\ scanned = {}
    /\ tokens = {}
    /\ appData = {}
    /\ initial = [a \in Actions |-> -1]
    /\ started = [a \in Actions |-> 0]
    /\ finished = [a \in Actions |-> 0]
    /\ total = [a \in Actions |-> 0]
    /\ processCancelled = [a \in Actions |-> FALSE]
    /\ mFiles = [f \in Files |-> "absent"]
    /\ emptyFolders = {}
    /\ hasChanged = [a \in Actions |-> FALSE]
    /\ batch = NoAction
    /\ batchCancelled = FALSE
    /\ requesting = NoAction
    /\ noUploadedStarted = TRUE
    /\ mNoTransferStarted = TRUE
    /\ queued = <<>>
    /\ notified = [a \in Actions |-> 0]
    /\ replaced = FALSE

-----------------------------------------------------------------------------
(* The metadata                                                               *)

FilesOf(a) == {f \in Files : Owner(f) = a}
InState(files, a, s) == {f \in FilesOf(a) : files[f] = s}
Known(files, a) == {f \in FilesOf(a) : files[f] # "absent"}

scanFinished(a) == [kind |-> "scanFinished", id |-> a]
notify(a) == [kind |-> "notify", id |-> a]

(* A mutant: the end of the scans is taken from the folders and top files.    *)
ScanIsOverByFolders(a) ==
    /\ initial'[a] > 0
    /\ IF processCancelled'[a]
         THEN InState(mFiles', a, "pending") = {}
         ELSE started'[a] = initial'[a]

(* The condition of checkScanningState over the data as they are afterwards.  *)
ScanIsOver(a) ==
    /\ initial'[a] > 0
    /\ IF processCancelled'[a]
         THEN InState(mFiles', a, "pending") = {}
         ELSE /\ total'[a] = Cardinality(Known(mFiles', a))
              /\ started'[a] = initial'[a]

checkScanningState(a, calls) ==
    queued' = IF ScanIsOver(a) THEN Append(calls, scanFinished(a)) ELSE calls

(* A mutant: all is finished when no known file is pending.                   *)
AllFinishedFiles(a) == InState(mFiles', a, "pending") = {}

(* The last end is reported, unless the user has disabled notifications or    *)
(* all files were cancelled; then the metadata are forgotten.                 *)
AllFinished(a) ==
    finished'[a] = initial'[a] /\ InState(mFiles', a, "pending") = {}

WorthTelling(a, changed) ==
    LET known == Known(mFiles', a)
    IN  /\ \/ InState(mFiles', a, "cancelled") # known
           \/ emptyFolders' \cap Tops(a) # {}
        /\ known = {} \/ changed

checkAndSendNotification(a, enabled, changed) ==
    IF ~AllFinished(a)
      THEN /\ hasChanged' = [hasChanged EXCEPT ![a] = changed]
           /\ UNCHANGED appData
           /\ checkScanningState(a, queued)
      ELSE IF enabled /\ WorthTelling(a, changed)
      THEN /\ hasChanged' = [hasChanged EXCEPT ![a] = FALSE]
           /\ UNCHANGED appData
           /\ checkScanningState(a, Append(queued, notify(a)))
      ELSE /\ hasChanged' = [hasChanged EXCEPT ![a] = changed]
           /\ appData' = appData \ {a}
           /\ checkScanningState(a, queued)

(* TransferMetaData::start: a folder is only noted down, which the empty or   *)
(* non-empty set of its known files stands for here. Without metadata the     *)
(* code would take the transfer for one of an older session (1001-1013):      *)
(* MetadataOutlivesTransfers says that it never has to.                       *)
startInMetaData(t) ==
    LET a == Owner(t)
    IN  /\ IF a \in appData /\ t \in Files
             THEN /\ mFiles' = [mFiles EXCEPT ![t] = "pending"]
                  /\ total' = [total EXCEPT ![a] = @ + (IF t \in TopFiles THEN 1 ELSE 0)]
                  /\ started' = [started EXCEPT ![a] =
                        @ + (IF t \in TopFiles /\ @ <= initial[a] THEN 1 ELSE 0)]
                  /\ UNCHANGED <<initial, processCancelled>>
                  /\ checkScanningState(a, queued)
             ELSE UNCHANGED <<mFiles, total, started, initial, processCancelled, queued>>
        /\ UNCHANGED <<appData, finished, emptyFolders, hasChanged>>

(* TransferMetaData::finish. A folder that has no file yet starts and ends at *)
(* the same time; unless it is completed, a cancelled one too, it counts as   *)
(* a failed empty folder.                                                     *)
EndedEmptyOfAny(t) == \A f \in Inside(t) : mFiles[f] = "absent"   \* a mutant: of a file, too

EndedEmpty(t) == t \in Folders /\ \A f \in Inside(t) : mFiles[f] = "absent"

finishInMetaData(t, end, enabled) ==
    LET a == Owner(t)
    IN  /\ IF a \in appData
             THEN /\ mFiles' = IF t \in Files /\ mFiles[t] = "pending"
                                 THEN [mFiles EXCEPT ![t] = end] ELSE mFiles
                  /\ emptyFolders' = IF EndedEmpty(t) THEN emptyFolders \union {t} ELSE emptyFolders
                  /\ started' = [started EXCEPT ![a] = @ + (IF EndedEmpty(t) THEN 1 ELSE 0)]
                  /\ finished' = [finished EXCEPT ![a] =
                        @ + (IF t \in Top /\ @ <= initial[a] THEN 1 ELSE 0)]
                  /\ UNCHANGED <<initial, total, processCancelled>>
                  /\ checkAndSendNotification(a, enabled,
                        hasChanged[a] \/ (t \in Files /\ mFiles[t] = "pending"))
             ELSE UNCHANGED <<mFiles, emptyFolders, started, finished, initial, total,
                              processCancelled, appData, hasChanged, queued>>

-----------------------------------------------------------------------------
(* The SDK: a transfer that was asked for is started and ended; the files of  *)
(* a folder start while it is under way, before or after the GUI thread is    *)
(* told of the end of its scan.                                               *)

onTransferStart(t) ==
    /\ IF t \in NestedFiles
         THEN sdk[t] = "none" /\ sdk[FolderOf[t]] = "started"
         ELSE sdk[t] = "requested"
    /\ sdk' = [sdk EXCEPT ![t] = "started"]
    /\ startInMetaData(t)
    /\ UNCHANGED <<scanned, tokens, appVars, notified, scanVars>>

(* A folder ends after its files, though perhaps before the GUI thread has    *)
(* taken the end of its scan. It may fail before anything of it started; when *)
(* it is cancelled, files that did not start never do.                        *)
CanEnd(t, end) ==
    /\ sdk[t] = "started"
    /\ t \in Folders =>
         \/ Owner(t) \in tokens /\ end = "cancelled" /\ \A f \in Inside(t) : sdk[f] # "started"
         \/ end = "ended" /\ t \notin scanned /\ \A f \in Inside(t) : sdk[f] = "none"
         \/ end = "ended" /\ \A f \in Inside(t) : Over(f)

onTransferFinish(t, end, enabled) ==
    /\ CanEnd(t, end)
    /\ sdk' = [sdk EXCEPT ![t] = end]
    /\ finishInMetaData(t, end, enabled)
    /\ UNCHANGED <<scanned, tokens, appVars, notified, scanVars>>

-----------------------------------------------------------------------------
(* The GUI thread. It takes no other event while it is in a loop of requests. *)

GuiIsFree == requesting = NoAction

(* The SDK says that a folder is scanned before it starts any of its files.   *)
WasScanned(d) ==
    /\ Inside(d) # {}
    /\ sdk[d] = "started" \/ \E f \in Inside(d) : sdk[f] # "none"

onFolderTransferUpdate(d) ==
    /\ GuiIsFree
    /\ WasScanned(d) /\ d \notin scanned
    /\ scanned' = scanned \union {d}
    /\ LET a == ActionOf[d]
       IN  IF a \in appData
             THEN /\ total' = [total EXCEPT ![a] = @ + Cardinality(Inside(d))]
                  /\ started' = [started EXCEPT ![a] = @ + 1]
                  /\ UNCHANGED <<initial, processCancelled, mFiles>>
                  /\ checkScanningState(a, queued)
             ELSE UNCHANGED <<total, started, initial, processCancelled, mFiles, queued>>
    /\ UNCHANGED <<sdk, tokens, appData, finished, emptyFolders, hasChanged, appVars,
                   notified, scanVars>>

NotBegun(a) == a \notin appData /\ initial[a] = -1

(* The data of a new action know how many transfers will be asked for, its    *)
(* batch takes the place of the one before.                                   *)
launch(a, nr) ==
    /\ initial' = [initial EXCEPT ![a] = nr]
    /\ batch' = a
    /\ replaced' = (replaced \/ batch # NoAction \/ ui # "normal")
    /\ UNCHANGED <<sdk, scanned, tokens, started, finished, total, processCancelled, mFiles,
                   emptyFolders, hasChanged, batchCancelled, queued, notified, scanVars>>

(* The flag was set when the files were chosen. If names were in conflict, a   *)
(* dialog has been open since, and another upload may have cleared it.         *)
onUploadsCheckedAndReady(a) ==
    /\ GuiIsFree
    /\ a \in Uploads /\ NotBegun(a) /\ Tops(a) # {}
    /\ appData' = appData \union {a}
    /\ launch(a, Cardinality(Tops(a)))
    /\ requesting' = a
    /\ noUploadedStarted' \in {TRUE, noUploadedStarted}
    /\ UNCHANGED mNoTransferStarted

(* One request of the loop, which ends with the last.                         *)
Requested(t) ==
    /\ sdk[t] = "none"
    /\ sdk' = [sdk EXCEPT ![t] = "requested"]
    /\ requesting' = IF \A s \in Tops(Owner(t)) \ {t} : sdk[s] # "none" THEN NoAction ELSE requesting

upload(t) ==
    /\ requesting \in Uploads /\ t \in Tops(requesting)
    /\ Requested(t)
    /\ IF noUploadedStarted /\ batch # NoAction
         THEN noUploadedStarted' = FALSE /\ startDelayedScanStage
         ELSE UNCHANGED <<noUploadedStarted, scanVars>>
    /\ UNCHANGED <<mNoTransferStarted, scanned, tokens, metaVars, batch, batchCancelled, replaced,
                   queued, notified>>

(* A download: the metadata first, then, after the wait that MegaDownloader   *)
(* describes, the loop of requests, or nothing.                               *)
createTransferMetaData(a) ==
    /\ GuiIsFree
    /\ a \notin Uploads /\ NotBegun(a) /\ Tops(a) # {}
    /\ appData' = appData \union {a}
    /\ mNoTransferStarted' = TRUE
    /\ UNCHANGED noUploadedStarted
    /\ UNCHANGED <<initial, started, finished, total, processCancelled, mFiles, emptyFolders,
                   hasChanged, sdk, scanned, tokens, batch, batchCancelled, requesting,
                   replaced, queued, notified, scanVars>>

launchDownload(a) ==
    /\ GuiIsFree
    /\ a \in appData \ Uploads /\ initial[a] = -1
    /\ launch(a, Cardinality(Tops(a)))
    /\ requesting' = a
    /\ UNCHANGED <<appData, noUploadedStarted, mNoTransferStarted>>

downloadAtOnce(a) ==
    /\ GuiIsFree
    /\ a \notin Uploads /\ NotBegun(a) /\ Tops(a) # {}
    /\ appData' = appData \union {a}
    /\ launch(a, Cardinality(Tops(a)))
    /\ requesting' = a
    /\ mNoTransferStarted' = TRUE
    /\ UNCHANGED noUploadedStarted

forgetDownload(a) ==
    /\ GuiIsFree
    /\ a \in appData \ Uploads /\ initial[a] = -1
    /\ appData' = appData \ {a}
    /\ UNCHANGED <<initial, started, finished, total, processCancelled, mFiles, emptyFolders,
                   hasChanged, sdk, scanned, tokens, appVars, queued, notified, scanVars>>

download(t) ==
    /\ requesting \in Actions \ Uploads /\ t \in Tops(requesting)
    /\ Requested(t)
    /\ IF mNoTransferStarted
         THEN mNoTransferStarted' = FALSE /\ startDelayedScanStage
         ELSE UNCHANGED <<mNoTransferStarted, scanVars>>
    /\ UNCHANGED <<noUploadedStarted, scanned, tokens, metaVars, batch, batchCancelled, replaced,
                   queued, notified>>

(* A mutant: the windows are not told.                                        *)
transferBatchFinishedQuietly(a) ==
    /\ batch' = IF batch = a THEN NoAction ELSE batch
    /\ batchCancelled' = (batch # a /\ batchCancelled)
    /\ UNCHANGED scanVars

(* A mutant: whatever action was scanned, the stage that is shown ends.       *)
transferBatchFinishedByAny(a) ==
    /\ batch' = IF batch = a THEN NoAction ELSE batch
    /\ batchCancelled' = (batch # a /\ batchCancelled)
    /\ IF batch # NoAction THEN stopDelayedScanStage ELSE UNCHANGED scanVars

(* MegaApplication::transferBatchFinished. A batch that has finished leaves   *)
(* mBlockingBatch at once, so its mHasFinished is not part of the state.      *)
transferBatchFinished(a) ==
    IF batch = a
      THEN /\ batch' = NoAction
           /\ batchCancelled' = FALSE
           /\ stopDelayedScanStage
      ELSE /\ UNCHANGED <<batch, batchCancelled>>
           /\ IF batch # NoAction /\ batchCancelled
                THEN stopDelayedScanStage
                ELSE UNCHANGED scanVars

handleQueued ==
    /\ GuiIsFree
    /\ queued # <<>>
    /\ queued' = Tail(queued)
    /\ LET call == Head(queued)
       IN  IF call.kind = "scanFinished"
             THEN /\ transferBatchFinished(call.id)
                  /\ UNCHANGED notified
             ELSE /\ notified' = [notified EXCEPT ![call.id] =
                        @ + (IF call.id \in appData THEN 1 ELSE 0)]
                  /\ UNCHANGED <<batch, batchCancelled, scanVars>>
    /\ UNCHANGED <<sdk, scanned, tokens, metaVars, requesting, noUploadedStarted,
                   mNoTransferStarted, replaced>>

(* The button of the windows: cancelScanningStage and the change of the       *)
(* windows, delayed to the next event, are connected to the same signal.      *)
cancelScanning ==
    /\ GuiIsFree
    /\ ui = "scan" /\ ~cancelTimer
    /\ setDelayedCancellingStage
    /\ IF batch = NoAction
         THEN UNCHANGED <<tokens, batchCancelled, processCancelled, initial, started, total,
                          mFiles, queued>>
         ELSE /\ tokens' = tokens \union {batch}
              /\ batchCancelled' = TRUE
              /\ UNCHANGED <<initial, started, total, mFiles>>
              /\ IF batch \in appData
                   THEN /\ processCancelled' = [processCancelled EXCEPT ![batch] = TRUE]
                        /\ checkScanningState(batch, queued)
                   ELSE UNCHANGED <<processCancelled, queued>>
    /\ UNCHANGED <<sdk, scanned, appData, finished, emptyFolders, hasChanged, batch, requesting,
                   noUploadedStarted, mNoTransferStarted, notified, replaced>>

timeout ==
    /\ GuiIsFree
    /\ Timers
    /\ UNCHANGED <<sdk, scanned, tokens, metaVars, appVars, queued, notified>>

-----------------------------------------------------------------------------
SdkNext ==
    \E t \in Transfers :
        \/ onTransferStart(t)
        \/ \E end \in Ends, enabled \in BOOLEAN : onTransferFinish(t, end, enabled)

GuiNext ==
    \/ \E d \in Folders : onFolderTransferUpdate(d)
    \/ \E a \in Actions : onUploadsCheckedAndReady(a)
    \/ \E t \in Top : upload(t) \/ download(t)
    \/ handleQueued
    \/ cancelScanning
    \/ timeout

DownloadNext ==
    \E a \in Actions : \/ createTransferMetaData(a) \/ launchDownload(a)
                       \/ downloadAtOnce(a) \/ forgetDownload(a)

BatchNext == SdkNext \/ GuiNext \/ DownloadNext

BatchSpec == BatchInit /\ [][BatchNext]_batchVars

-----------------------------------------------------------------------------
(* Properties                                                                 *)

(* The windows are told that the scan of an action is over only when each of  *)
(* its files is known: the listener counts top files and files of folders,    *)
(* the GUI thread the folders' totals, and the two meet in                    *)
(* checkScanningState in any order.                                           *)
ScanIsComplete ==
    \A i \in 1..Len(queued) :
        queued[i].kind = "scanFinished" /\ ~processCancelled[queued[i].id] =>
            \A f \in FilesOf(queued[i].id) :
                mFiles[f] # "absent" \/ (f \in NestedFiles /\ Over(FolderOf[f]))

(* An action that is over was reported, will be, or has been forgotten, which *)
(* the guards of the counters (TransferMetaData.cpp:251, 425) must not        *)
(* prevent. There is one notification for it at most, and not before all that *)
(* was asked for is over, whatever order folders and files end in.            *)
Announced(a) == \E i \in 1..Len(queued) : queued[i] = notify(a)

EndIsReportedOnce ==
    \A a \in Actions :
        /\ initial[a] > 0 /\ AllOver(a) => notified[a] = 1 \/ Announced(a) \/ a \notin appData
        /\ notified[a] <= 1
        /\ notified[a] = 1 => ~Announced(a)
        /\ notified[a] = 1 \/ Announced(a) => AllOver(a)
        /\ \A i, j \in 1..Len(queued) : queued[i] = notify(a) /\ queued[j] = notify(a) => i = j

(* Metadata are not removed while the SDK may report something of the action. *)
MetadataOutlivesTransfers ==
    \A t \in Transfers : sdk[t] \in Live => Owner(t) \in appData

(* A stage is only shown, or going to be, for a batch whose end will take it  *)
(* away, unless an action replaced the batch of another (TransferBatch.cpp:70);*)
(* and windows that are blocked without a stage wait for the minimum time.    *)
BlockedForABatch ==
    /\ scanTimer \/ scanning => replaced \/ batch # NoAction
    /\ ui # "normal" => scanning \/ shots > 0

(* A late call about an action that was cancelled or has been scanned does    *)
(* not end the stage of the next one, unless that is being cancelled.         *)
OthersDoNotUnblock ==
    [][(scanTimer \/ scanning) /\ ~(scanTimer' \/ scanning') =>
            batch' = NoAction \/ batch \in tokens \/ replaced]_batchVars

(* The windows do not stay blocked, unless the metadata of the action were    *)
(* removed before the GUI thread took the end of a scan: then nobody tells    *)
(* the batch of it any more (MegaApplication.cpp:3135).                       *)
UiIsUnblocked ==
    ui # "normal" ~> (ui = "normal" \/ replaced \/ batch \notin appData \union {NoAction})

(* TransferMetaData.cpp:522, where a notification is queued: "Transfers        *)
(* finished and ready, show notification".                                    *)
NotifiedAreFinished ==
    \A i \in 1..Len(queued) : queued[i].kind = "notify" =>
        \A t \in Transfers : Owner(t) = queued[i].id => sdk[t] \notin Live
=============================================================================
