---------------------------- MODULE MegaDownloader ----------------------------
(* Downloads from the moment the user asks for them: the one queue of         *)
(* DownloadQueueController.cpp, which waits for the sizes of its folders and, *)
(* when the disk is too small, for the user, and its use in                   *)
(* MegaDownloader.cpp. Nothing in the code keeps a second download from       *)
(* taking the queue while a first one waits: that is Overlap.                 *)
(* Sizes are sets of the nodes they were summed over, the space that is left  *)
(* is any. Only nodes chosen in the application are modelled (FROM_APP).      *)
EXTENDS TransferBatch

CONSTANT Overlap  \* a download may come while another one waits

ASSUME OverlapAssumption == Overlap \in BOOLEAN

VARIABLES
    queue,         \* mDownloadQueue
    currentId,     \* mCurrentAppDataId
    pendingSizes,  \* mFolderCountPendingSizeComputation
    totalSize,     \* the nodes in mTotalQueueDiskSize
    asked,         \* folders whose size the SDK has not answered yet
    dialog         \* the LowDiskSpaceDialog is open

queueVars == <<queue, currentId, pendingSizes, totalSize, asked, dialog>>
vars == <<batchVars, queueVars>>

QueueTypeOK ==
    /\ queue \subseteq Top
    /\ currentId \in Actions \union {NoAction}
    /\ pendingSizes \in Int
    /\ totalSize \subseteq Top
    /\ asked \subseteq Folders
    /\ dialog \in BOOLEAN

Init ==
    /\ BatchInit
    /\ queue = {}
    /\ currentId = NoAction
    /\ pendingSizes = 0
    /\ totalSize = {}
    /\ asked = {}
    /\ dialog = FALSE

-----------------------------------------------------------------------------
(* A mutant: the files alone are announced to the metadata.                   *)
launchQueueOfFiles(content) ==
    /\ launch(currentId', Cardinality(content \ Folders))
    /\ requesting' = IF content = {} THEN NoAction ELSE currentId'

(* onAvailableSpaceCheckFinished(true) launches what is in the queue under    *)
(* the current id; a loop follows if there is something to dequeue.           *)
launchQueue(content) ==
    /\ launch(currentId', Cardinality(content))
    /\ requesting' = IF content = {} THEN NoAction ELSE currentId'

nothingLaunched ==
    UNCHANGED <<initial, batch, replaced, requesting, sdk, scanned, tokens, started, finished,
                total, processCancelled, mFiles, emptyFolders, hasChanged, batchCancelled,
                queued, notified, scanVars>>

(* tryDownload: there is enough space, or the user is asked.                  *)
tryDownload(enough, content, open) ==
    IF enough
      THEN /\ dialog' = open
           /\ IF currentId' \in appData' THEN launchQueue(content) ELSE nothingLaunched
      ELSE /\ dialog' = TRUE
           /\ nothingLaunched

(* MegaDownloader::processDownloadQueue, with initialize and                  *)
(* startAvailableSpaceChecking of the queue's controller.                     *)
processDownloadQueue(a, enough) ==
    /\ GuiIsFree
    /\ a \notin Uploads /\ NotBegun(a) /\ Tops(a) # {}
    /\ Overlap \/ (asked = {} /\ ~dialog)
    /\ appData' = appData \union {a}
    /\ mNoTransferStarted' = TRUE
    /\ UNCHANGED noUploadedStarted
    /\ queue' = Tops(a)
    /\ currentId' = a
    /\ totalSize' = Tops(a) \ Folders
    /\ pendingSizes' = Cardinality(Tops(a) \cap Folders)
    /\ asked' = asked \union (Tops(a) \cap Folders)
    /\ IF Tops(a) \cap Folders = {}
         THEN tryDownload(enough, Tops(a), dialog)
         ELSE nothingLaunched /\ UNCHANGED dialog

SummedNothing(d) == totalSize                \* a mutant: the answer is not summed up
Summed(d) == totalSize \union {d}

allSizesKnownOneMore == pendingSizes' < 0    \* a mutant: one answer more is awaited
allSizesKnown == pendingSizes' <= 0

(* DownloadQueueController::onRequestFinish, which cannot tell the folders of *)
(* one queue from those of another. A size that cannot be had counts as none. *)
onRequestFinish(d, enough) ==
    /\ GuiIsFree
    /\ d \in asked
    /\ asked' = asked \ {d}
    /\ totalSize' = Summed(d)
    /\ pendingSizes' = pendingSizes - 1
    /\ UNCHANGED <<appData, noUploadedStarted, mNoTransferStarted, queue, currentId>>
    /\ IF allSizesKnown
         THEN tryDownload(enough, queue, dialog)
         ELSE nothingLaunched /\ UNCHANGED dialog

dialogAccepted(enough) ==
    /\ GuiIsFree
    /\ dialog
    /\ UNCHANGED <<appData, noUploadedStarted, mNoTransferStarted, queue, currentId, pendingSizes,
                   totalSize, asked>>
    /\ tryDownload(enough, queue, FALSE)

(* onAvailableSpaceCheckFinished(false)                                       *)
dialogRejected ==
    /\ GuiIsFree
    /\ dialog
    /\ dialog' = FALSE
    /\ appData' = appData \ {currentId}
    /\ queue' = {}
    /\ UNCHANGED <<noUploadedStarted, mNoTransferStarted, currentId, pendingSizes, totalSize, asked>>
    /\ nothingLaunched

(* The loop of onAvailableSpaceCheckFinished.                                 *)
dequeue(t) ==
    /\ t \in queue
    /\ download(t)
    /\ queue' = queue \ {t}
    /\ UNCHANGED <<currentId, pendingSizes, totalSize, asked, dialog>>

QueueNext ==
    \/ \E enough \in BOOLEAN :
          \/ \E a \in Actions : processDownloadQueue(a, enough)
          \/ \E d \in Folders : onRequestFinish(d, enough)
          \/ dialogAccepted(enough)
    \/ dialogRejected
    \/ \E t \in Top : dequeue(t)

(* What TransferBatch does besides downloads.                                 *)
OtherNext ==
    /\ \/ SdkNext
       \/ \E d \in Folders : onFolderTransferUpdate(d)
       \/ \E a \in Actions : onUploadsCheckedAndReady(a)
       \/ \E t \in Top : upload(t)
       \/ handleQueued
       \/ cancelScanning
       \/ timeout
    /\ UNCHANGED queueVars

Next == QueueNext \/ OtherNext

Spec == Init /\ [][Next]_vars

(* The SDK gets on with what it was asked for, timers fire, and the GUI       *)
(* thread takes its events. The user need not do anything.                    *)
Fairness ==
    /\ \A t \in Transfers :
        /\ WF_vars(onTransferStart(t) /\ UNCHANGED queueVars)
        /\ WF_vars((\E end \in Ends : onTransferFinish(t, end, TRUE)) /\ UNCHANGED queueVars)
    /\ \A d \in Folders : WF_vars(onFolderTransferUpdate(d) /\ UNCHANGED queueVars)
    /\ \A t \in Top : WF_vars(upload(t) /\ UNCHANGED queueVars) /\ WF_vars(dequeue(t))
    /\ WF_vars(handleQueued /\ UNCHANGED queueVars)
    /\ WF_vars(timeout /\ UNCHANGED queueVars)

FairSpec == Spec /\ Fairness

-----------------------------------------------------------------------------
(* Properties, besides those of TransferBatch. A second download that comes   *)
(* while a first one waits (Overlap) breaks each of them: the first queue is  *)
(* lost, and an answer meant for it launches the second one too early.        *)

(* Each step is one of TransferBatch, where an action is launched whole and   *)
(* once, and only one that was not launched is forgotten.                     *)
ImplementsBatch == BatchSpec

(* A download is launched when no size is outstanding, and what was summed up *)
(* is the size of its nodes and of no others.                                 *)
SizesAreItsOwn ==
    [][\A a \in Actions \ Uploads :
        initial[a] = -1 /\ initial'[a] # -1 => asked' = {} /\ totalSize' = Tops(a)]_vars

(* A download that has not been asked for in full waits for something: the    *)
(* sizes, the user, or its turn in the loop.                                  *)
WaitingIsWaitedFor ==
    \A a \in appData \ Uploads :
        LET missing == {t \in Tops(a) : sdk[t] = "none"}
        IN  missing # {} =>
                /\ currentId = a /\ queue = missing
                /\ asked # {} \/ dialog \/ requesting = a

AllTypesOK == TypeOK /\ QueueTypeOK
=============================================================================
