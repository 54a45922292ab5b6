------------------------ MODULE MegaDownloader_proofs ------------------------
(* Where no download comes while another one waits, the one queue serves each *)
(* of them: every step is one of TransferBatch, and the sizes and the launch  *)
(* belong together. The types hold without that. For any number of downloads, *)
(* folders and files.                                                         *)
EXTENDS MegaDownloader, TransferBatch_proofs

-----------------------------------------------------------------------------
(* The inductive invariant: the queue is that of the current id, and what is  *)
(* outstanding is outstanding for it.                                         *)

Downloads == Actions \ Uploads
Waits(a) == a \in appData \ Uploads /\ ~Launched(a)
Missing(a) == {t \in Tops(a) : sdk[t] = "none"}

AskedInv ==
    /\ pendingSizes = Cardinality(asked)
    /\ asked # {} => /\ Waits(currentId) /\ ~dialog
                     /\ queue = Tops(currentId)
                     /\ asked \subseteq Tops(currentId)
                     /\ totalSize = Tops(currentId) \ asked

DialogInv ==
    dialog => Waits(currentId) /\ queue = Tops(currentId) /\ totalSize = Tops(currentId)

WaitInv == \A a \in Downloads : Waits(a) => currentId = a /\ (asked # {} \/ dialog)

LoopInv ==
    /\ requesting \in Downloads => currentId = requesting /\ queue = Missing(requesting)
    /\ \A a \in Downloads : Launched(a) /\ requesting # a => Missing(a) = {}

QInv == AskedInv /\ DialogInv /\ WaitInv /\ LoopInv

DownInv == TypeOK /\ IInv /\ QueueTypeOK /\ QInv

-----------------------------------------------------------------------------
(* The refinement, step by step                                               *)

(* A queue that can be launched is that of a download that waits.             *)
LEMMA TryEffect ==
    ASSUME NEW enough, NEW open, NEW content, tryDownload(enough, content, open),
           currentId' \in appData', content # {}
    PROVE  \/ /\ enough /\ launch(currentId', Cardinality(content))
              /\ requesting' = currentId' /\ dialog' = open
           \/ ~enough /\ nothingLaunched /\ dialog' = TRUE
BY DEF tryDownload, launchQueue

LEMMA WaitFacts ==
    ASSUME TypeOK, IInv, Waits(currentId)
    PROVE  /\ currentId \in Downloads /\ currentId \in appData /\ initial[currentId] = -1
           /\ Tops(currentId) # {} /\ Missing(currentId) = Tops(currentId)
<1>1. currentId \in Downloads /\ currentId \in appData /\ ~Launched(currentId)
  BY DEF Waits, TypeOK, Downloads
<1>2. Tops(currentId) # {}
  BY <1>1 DEF IInv, PhaseInv
<1>3. \A t \in Tops(currentId) : t \in Transfers /\ Owner(t) = currentId
  BY ConstantTypes DEF Tops, Transfers
<1> QED
  BY <1>1, <1>2, <1>3, NothingYet DEF Missing, Launched, Downloads

LEMMA ProcessEffect ==
    ASSUME Overlap = FALSE, DownInv, NEW a \in Actions, NEW enough \in BOOLEAN,
           processDownloadQueue(a, enough)
    PROVE  /\ a \in Downloads /\ ~Launched(a) /\ Tops(a) # {} /\ requesting = NoAction
           /\ asked = {} /\ ~dialog /\ currentId' = a /\ queue' = Tops(a)
           /\ appData' = appData \union {a}
           /\ asked' = Tops(a) \cap Folders /\ totalSize' = Tops(a) \ Folders
           /\ pendingSizes' = Cardinality(asked')
           /\ \/ /\ createTransferMetaData(a)
                 /\ \/ asked' # {} /\ dialog' = FALSE
                    \/ asked' = {} /\ dialog' = TRUE
              \/ downloadAtOnce(a) /\ asked' = {} /\ dialog' = FALSE
<1>1. /\ GuiIsFree /\ a \notin Uploads /\ NotBegun(a) /\ Tops(a) # {}
      /\ asked = {} /\ ~dialog /\ currentId' = a /\ queue' = Tops(a)
      /\ appData' = appData \union {a} /\ mNoTransferStarted' = TRUE /\ UNCHANGED noUploadedStarted
      /\ asked' = Tops(a) \cap Folders /\ totalSize' = Tops(a) \ Folders
      /\ pendingSizes' = Cardinality(asked')
  BY DEF processDownloadQueue
<1>2. a \in Downloads /\ ~Launched(a) /\ requesting = NoAction /\ dialog = FALSE
  BY <1>1 DEF Downloads, NotBegun, Launched, GuiIsFree, DownInv, QueueTypeOK
<1>3. nothingLaunched => createTransferMetaData(a)
  BY <1>1 DEF nothingLaunched, createTransferMetaData
<1>4. CASE asked' = {}
  <2>1. tryDownload(enough, Tops(a), dialog)
    BY <1>1, <1>4 DEF processDownloadQueue
  <2>2. \/ /\ enough /\ launch(a, Cardinality(Tops(a))) /\ requesting' = a /\ dialog' = dialog
        \/ ~enough /\ nothingLaunched /\ dialog' = TRUE
    BY <2>1, <1>1, TryEffect
  <2>3. launch(a, Cardinality(Tops(a))) /\ requesting' = a => downloadAtOnce(a)
    BY <1>1 DEF downloadAtOnce
  <2> QED
    BY <1>1, <1>2, <1>3, <1>4, <2>2, <2>3
<1>5. CASE asked' # {}
  <2>1. nothingLaunched /\ UNCHANGED dialog
    BY <1>1, <1>5 DEF processDownloadQueue
  <2> QED
    BY <1>1, <1>2, <1>3, <1>5, <2>1
<1> QED
  BY <1>4, <1>5

LEMMA AnswerEffect ==
    ASSUME DownInv, NEW d \in Folders, NEW enough \in BOOLEAN, onRequestFinish(d, enough)
    PROVE  /\ requesting = NoAction /\ d \in asked /\ asked' = asked \ {d} /\ totalSize' = totalSize \union {d}
           /\ Waits(currentId) /\ UNCHANGED <<queue, currentId, appData, noUploadedStarted, mNoTransferStarted>>
           /\ queue = Tops(currentId) /\ d \in Tops(currentId)
           /\ totalSize' = Tops(currentId) \ asked'
           /\ pendingSizes' = Cardinality(asked')
           /\ \/ asked' # {} /\ UNCHANGED batchVars /\ dialog' = FALSE
              \/ asked' = {} /\ UNCHANGED batchVars /\ dialog' = TRUE
              \/ asked' = {} /\ launchDownload(currentId) /\ dialog' = FALSE
<1>1. /\ GuiIsFree /\ d \in asked /\ asked' = asked \ {d} /\ totalSize' = totalSize \union {d}
      /\ pendingSizes' = pendingSizes - 1
      /\ UNCHANGED <<appData, noUploadedStarted, mNoTransferStarted, queue, currentId>>
  BY DEF onRequestFinish, Summed
<1>2. /\ Waits(currentId) /\ dialog = FALSE /\ queue = Tops(currentId) /\ asked \subseteq Tops(currentId)
      /\ totalSize = Tops(currentId) \ asked /\ pendingSizes = Cardinality(asked)
  BY <1>1 DEF DownInv, QInv, AskedInv, QueueTypeOK
<1>3. IsFiniteSet(asked)
  BY BatchAssumption, FS_Subset DEF DownInv, QueueTypeOK
<1>4. pendingSizes' = Cardinality(asked') /\ (pendingSizes' <= 0 <=> asked' = {})
  <2>1. /\ IsFiniteSet(asked') /\ Cardinality(asked') = Cardinality(asked) - 1
        /\ Cardinality(asked) \in Nat
    BY <1>1, <1>3, FS_RemoveElement, FS_CardinalityType
  <2>2. pendingSizes' = Cardinality(asked') /\ Cardinality(asked') \in Nat
    BY <1>1, <1>2, <2>1, FS_CardinalityType
  <2>3. Cardinality(asked') = 0 <=> asked' = {}
    BY <2>1, FS_EmptySet
  <2> QED
    BY <2>2, <2>3
<1>5. totalSize' = Tops(currentId) \ asked' /\ d \in Tops(currentId)
  BY <1>1, <1>2
<1>6. nothingLaunched => UNCHANGED batchVars
  BY <1>1 DEF nothingLaunched, batchVars, metaVars, appVars
<1>7. /\ currentId \in Downloads /\ currentId \in appData /\ initial[currentId] = -1
      /\ Tops(currentId) # {}
  BY <1>2, WaitFacts DEF DownInv
<1>8. CASE asked' = {}
  <2>1. tryDownload(enough, queue, dialog)
    BY <1>4, <1>8 DEF onRequestFinish, allSizesKnown
  <2>2. \/ /\ enough /\ launch(currentId, Cardinality(queue)) /\ requesting' = currentId /\ dialog' = dialog
        \/ ~enough /\ nothingLaunched /\ dialog' = TRUE
    BY <2>1, <1>1, <1>2, <1>7, TryEffect
  <2>3. launch(currentId, Cardinality(queue)) /\ requesting' = currentId => launchDownload(currentId)
    BY <1>1, <1>2, <1>7 DEF launchDownload, Downloads
  <2> QED
    BY <1>1, <1>2, <1>4, <1>5, <1>6, <1>8, <2>2, <2>3 DEF GuiIsFree
<1>9. CASE asked' # {}
  <2>1. nothingLaunched /\ UNCHANGED dialog
    BY <1>4, <1>9 DEF onRequestFinish, allSizesKnown
  <2> QED
    BY <1>1, <1>2, <1>4, <1>5, <1>6, <1>9, <2>1 DEF GuiIsFree
<1> QED
  BY <1>8, <1>9

LEMMA DialogEffect ==
    ASSUME DownInv, NEW enough \in BOOLEAN, dialogAccepted(enough) \/ dialogRejected
    PROVE  /\ requesting = NoAction /\ asked = {} /\ Waits(currentId)
           /\ totalSize = Tops(currentId) /\ queue = Tops(currentId)
           /\ UNCHANGED <<currentId, pendingSizes, totalSize, asked>>
           /\ \/ launchDownload(currentId) /\ dialog' = FALSE /\ UNCHANGED queue
              \/ UNCHANGED batchVars /\ dialog' = TRUE /\ UNCHANGED queue
              \/ forgetDownload(currentId) /\ dialog' = FALSE
<1>1. GuiIsFree /\ dialog /\ UNCHANGED <<currentId, pendingSizes, totalSize, asked>>
  BY DEF dialogAccepted, dialogRejected
<1>2. /\ Waits(currentId) /\ queue = Tops(currentId) /\ totalSize = Tops(currentId) /\ asked = {}
  BY <1>1 DEF DownInv, QInv, DialogInv, AskedInv
<1>3. /\ currentId \in Downloads /\ currentId \in appData /\ initial[currentId] = -1
      /\ Tops(currentId) # {}
  BY <1>2, WaitFacts DEF DownInv
<1>4. CASE dialogAccepted(enough)
  <2>1. UNCHANGED <<appData, noUploadedStarted, mNoTransferStarted, queue>> /\ tryDownload(enough, queue, FALSE)
    BY <1>4 DEF dialogAccepted
  <2>2. \/ /\ enough /\ launch(currentId, Cardinality(queue)) /\ requesting' = currentId /\ dialog' = FALSE
        \/ ~enough /\ nothingLaunched /\ dialog' = TRUE
    BY <2>1, <1>1, <1>2, <1>3, TryEffect
  <2>3. nothingLaunched => UNCHANGED batchVars
    BY <2>1 DEF nothingLaunched, batchVars, metaVars, appVars
  <2>4. launch(currentId, Cardinality(queue)) /\ requesting' = currentId => launchDownload(currentId)
    BY <2>1, <1>1, <1>2, <1>3 DEF launchDownload, Downloads
  <2> QED
    BY <1>1, <1>2, <2>1, <2>2, <2>3, <2>4 DEF GuiIsFree
<1>5. CASE dialogRejected
  <2>1. forgetDownload(currentId) /\ dialog' = FALSE
    BY <1>5, <1>3 DEF dialogRejected, forgetDownload, nothingLaunched, appVars, Downloads
  <2> QED
    BY <1>1, <1>2, <2>1 DEF GuiIsFree
<1> QED
  BY <1>4, <1>5

(* Each step is a step of TransferBatch, or leaves its variables alone.       *)
LEMMA BatchStep ==
    ASSUME Overlap = FALSE, DownInv, [Next]_vars
    PROVE  [BatchNext]_batchVars
<1>1. CASE QueueNext
  <2>1. ASSUME NEW a \in Actions, NEW enough \in BOOLEAN, processDownloadQueue(a, enough)
        PROVE  BatchNext
    BY <2>1, ProcessEffect DEF BatchNext, DownloadNext
  <2>2. ASSUME NEW d \in Folders, NEW enough \in BOOLEAN, onRequestFinish(d, enough)
        PROVE  [BatchNext]_batchVars
    <3>1. currentId \in Actions
      BY <2>2, AnswerEffect, WaitFacts DEF DownInv, Downloads
    <3> QED
      BY <2>2, <3>1, AnswerEffect DEF BatchNext, DownloadNext
  <2>3. ASSUME NEW enough \in BOOLEAN, dialogAccepted(enough) \/ dialogRejected
        PROVE  [BatchNext]_batchVars
    <3>1. currentId \in Actions
      BY <2>3, DialogEffect, WaitFacts DEF DownInv, Downloads
    <3> QED
      BY <2>3, <3>1, DialogEffect DEF BatchNext, DownloadNext
  <2>4. ASSUME NEW t \in Top, dequeue(t) PROVE BatchNext
    BY <2>4 DEF dequeue, BatchNext, GuiNext
  <2> QED
    BY <1>1, <2>1, <2>2, <2>3, <2>4 DEF QueueNext
<1>2. CASE OtherNext
  BY <1>2 DEF OtherNext, BatchNext, GuiNext
<1>3. CASE UNCHANGED vars
  BY <1>3 DEF vars
<1> QED
  BY <1>1, <1>2, <1>3 DEF Next

-----------------------------------------------------------------------------
(* The queue                                                                  *)

LEMMA QueueTypeInit == Init => QueueTypeOK /\ QInv
<1> SUFFICES ASSUME Init PROVE QueueTypeOK /\ QInv
  OBVIOUS
<1>1. \A a \in Actions : ~Launched(a)
  BY DEF Init, BatchInit, Launched
<1>2. requesting \notin Downloads /\ appData = {}
  BY BatchAssumption DEF Init, BatchInit, Downloads
<1>3. QueueTypeOK
  <2>1. pendingSizes \in Int
    BY DEF Init
  <2>3. dialog \in BOOLEAN
    BY DEF Init
  <2>4. currentId \in Actions \union {NoAction}
    BY DEF Init
  <2>2. queue \subseteq Top /\ totalSize \subseteq Top /\ asked \subseteq Folders
    BY DEF Init
  <2> QED
    BY <2>1, <2>2, <2>3, <2>4 DEF QueueTypeOK
<1>4. AskedInv /\ DialogInv
  BY FS_EmptySet DEF Init, AskedInv, DialogInv
<1>5. WaitInv
  BY <1>2 DEF WaitInv, Waits
<1>6. LoopInv
  BY <1>1, <1>2 DEF LoopInv, Downloads
<1> QED
  BY <1>3, <1>4, <1>5, <1>6 DEF QInv

(* What the rest of the program does is nothing to the downloads that wait or *)
(* are being asked for.                                                       *)
LEMMA OtherEffect ==
    ASSUME DownInv, OtherNext
    PROVE  /\ \A a \in Downloads : Missing(a)' = Missing(a) /\ (Launched(a)' <=> Launched(a))
           /\ \A a \in Downloads : initial'[a] = initial[a]
           /\ \A a \in Downloads : ~Launched(a) => (a \in appData' <=> a \in appData)
           /\ requesting \in Downloads \/ requesting' \in Downloads => requesting' = requesting
<1> USE DEF Missing, Launched
<1>t. \A a \in Actions : \A t \in Tops(a) : t \in Transfers /\ t \in Top /\ Owner(t) = a /\ t \notin NestedFiles
  BY ConstantTypes DEF Tops, Transfers
<1>n. NoAction \notin Downloads
  BY BatchAssumption DEF Downloads
<1>i. TypeOK /\ IInv
  BY DEF DownInv
<1>1. ASSUME NEW t \in Transfers, onTransferStart(t)
      PROVE  /\ \A a \in Downloads : Missing(a)' = Missing(a)
             /\ UNCHANGED <<initial, appData, requesting>>
  <2>1. /\ sdk' = [sdk EXCEPT ![t] = "started"] /\ UNCHANGED <<initial, appData, requesting>>
        /\ t \notin NestedFiles => sdk[t] = "requested"
    BY <1>1, <1>i, StartEffect DEF appVars
  <2> QED
    BY <2>1, <1>t, <1>i DEF TypeOK, Downloads
<1>2. ASSUME NEW t \in Transfers, NEW end \in Ends, NEW enabled \in BOOLEAN,
             onTransferFinish(t, end, enabled)
      PROVE  /\ \A a \in Downloads : Missing(a)' = Missing(a)
             /\ UNCHANGED <<initial, requesting>>
             /\ \A a \in Downloads : ~Launched(a) => (a \in appData' <=> a \in appData)
  <2>1. /\ sdk' = [sdk EXCEPT ![t] = end] /\ UNCHANGED <<initial, requesting>>
        /\ sdk[t] = "started" /\ Launched(Owner(t))
        /\ appData' \in {appData, appData \ {Owner(t)}}
    BY <1>2, <1>i, FinishEffect DEF appVars
  <2>2. end # "none"
    BY DEF Ends
  <2>3. \A a \in Downloads : Missing(a)' = Missing(a)
    BY <2>1, <2>2, <1>t, <1>i DEF TypeOK, Downloads
  <2> QED
    BY <2>1, <2>3
<1>3. ASSUME NEW d \in Folders, onFolderTransferUpdate(d)
      PROVE  UNCHANGED <<sdk, initial, appData, requesting>>
  BY <1>3, <1>i, ScannedEffect DEF appVars
<1>4. ASSUME NEW a \in Actions, onUploadsCheckedAndReady(a)
      PROVE  /\ UNCHANGED sdk /\ requesting = NoAction /\ requesting' = a /\ a \in Uploads
             /\ initial' = [initial EXCEPT ![a] = Cardinality(Tops(a))]
             /\ appData' = appData \union {a}
  BY <1>4 DEF onUploadsCheckedAndReady, launch, GuiIsFree
<1>5. ASSUME NEW t \in Top, upload(t)
      PROVE  /\ \A a \in Downloads : Missing(a)' = Missing(a)
             /\ UNCHANGED <<initial, appData>>
             /\ requesting \in Uploads /\ requesting' \in {requesting, NoAction}
  <2>1. /\ sdk' = [sdk EXCEPT ![t] = "requested"] /\ UNCHANGED <<initial, appData>>
        /\ requesting \in Uploads /\ t \in Tops(requesting) /\ requesting' \in {requesting, NoAction}
    BY <1>5 DEF upload, Requested, metaVars
  <2>2. requesting \in Actions
    BY <2>1, BatchAssumption
  <2>3. \A a \in Downloads : t \notin Tops(a)
    BY <2>1, <2>2, <1>t DEF Downloads
  <2> QED
    BY <2>1, <2>3, <1>t, <1>i DEF TypeOK, Downloads
<1>6. ASSUME handleQueued \/ cancelScanning \/ timeout
      PROVE  UNCHANGED <<sdk, initial, appData, requesting>>
  BY <1>6 DEF handleQueued, cancelScanning, timeout, metaVars, appVars
<1>7. CASE \E t \in Transfers : onTransferStart(t)
  BY <1>7, <1>1
<1>8. CASE \E t \in Transfers : \E end \in Ends, enabled \in BOOLEAN : onTransferFinish(t, end, enabled)
  BY <1>8, <1>2
<1>9. CASE (\E d \in Folders : onFolderTransferUpdate(d)) \/ handleQueued \/ cancelScanning \/ timeout
  BY <1>9, <1>3, <1>6
<1>10. CASE \E a \in Actions : onUploadsCheckedAndReady(a)
  BY <1>10, <1>4, <1>n, <1>i DEF TypeOK, Downloads
<1>11. CASE \E t \in Top : upload(t)
  BY <1>11, <1>5, <1>n DEF Downloads
<1> QED
  BY <1>7, <1>8, <1>9, <1>10, <1>11 DEF OtherNext, SdkNext

LEMMA OtherKeeps ==
    ASSUME DownInv, OtherNext
    PROVE  QueueTypeOK' /\ QInv'
<1>q. UNCHANGED <<queue, currentId, pendingSizes, totalSize, asked, dialog>>
  BY DEF OtherNext, queueVars
<1>e. /\ \A a \in Downloads : Missing(a)' = Missing(a) /\ (Launched(a)' <=> Launched(a))
      /\ \A a \in Downloads : ~Launched(a) => (a \in appData' <=> a \in appData)
      /\ requesting \in Downloads \/ requesting' \in Downloads => requesting' = requesting
  BY OtherEffect
<1>w. \A a \in Downloads : Waits(a)' <=> Waits(a)
  BY <1>e DEF Waits
<1>c. Waits(currentId) => Waits(currentId)'
  <2>1. Waits(currentId) => currentId \in Downloads
    BY WaitFacts DEF DownInv
  <2>2. \A a \in Downloads : Waits(a) => a \in appData' \ Uploads /\ ~(initial'[a] # -1)
    BY <1>w DEF Waits, Launched
  <2> QED
    BY <2>1, <2>2, <1>q DEF Waits, Launched
<1>1. QueueTypeOK'
  BY <1>q DEF DownInv, QueueTypeOK
<1>2. AskedInv' /\ DialogInv'
  BY <1>q, <1>c DEF DownInv, QInv, AskedInv, DialogInv
<1>3. WaitInv'
  BY <1>q, <1>w DEF DownInv, QInv, WaitInv
<1>4. LoopInv'
  <2>1. requesting' \in Downloads => currentId' = requesting' /\ queue' = Missing(requesting)'
    BY <1>q, <1>e DEF DownInv, QInv, LoopInv, Missing
  <2>2. ASSUME NEW a \in Downloads, Launched(a)', requesting' # a PROVE Missing(a)' = {}
    BY <2>2, <1>e DEF DownInv, QInv, LoopInv
  <2> QED
    BY <2>1, <2>2 DEF LoopInv, Missing
<1> QED
  BY <1>1, <1>2, <1>3, <1>4 DEF QInv

(* A download that is launched: the loop has all of it before it.             *)
LEMMA LaunchedQueue ==
    ASSUME DownInv, NEW a \in Downloads, requesting = NoAction, ~Launched(a), Tops(a) # {},
           UNCHANGED sdk, initial' = [initial EXCEPT ![a] = Cardinality(Tops(a))],
           requesting' = a, currentId' = a, queue' = Tops(a)
    PROVE  /\ LoopInv'
           /\ \A b \in Actions \ {a} : Launched(b)' <=> Launched(b)
           /\ Launched(a)'
<1>1. Cardinality(Tops(a)) \in Nat /\ a \in Actions
  BY FiniteParts DEF Downloads
<1>2. \A b \in Actions : Launched(b)' <=> b = a \/ Launched(b)
  BY <1>1 DEF Launched, DownInv, TypeOK
<1>3. Missing(a) = Tops(a)
  <2>1. \A t \in Tops(a) : t \in Transfers /\ Owner(t) = a
    BY ConstantTypes DEF Tops, Transfers
  <2> QED
    BY <2>1, <1>1, NothingYet DEF Missing, DownInv
<1>4. \A b \in Downloads : Missing(b)' = Missing(b)
  BY DEF Missing
<1>5. NoAction \notin Downloads
  BY BatchAssumption DEF Downloads
<1>6. \A b \in Downloads : Launched(b)' /\ requesting' # b => Missing(b)' = {}
  BY <1>2, <1>4, <1>5 DEF DownInv, QInv, LoopInv, Downloads
<1>7. queue' = Missing(requesting)'
  BY <1>3 DEF Missing
<1> QED
  BY <1>1, <1>2, <1>6, <1>7 DEF LoopInv

LEMMA ProcessKeeps ==
    ASSUME Overlap = FALSE, DownInv, NEW a \in Actions, NEW enough \in BOOLEAN,
           processDownloadQueue(a, enough)
    PROVE  QueueTypeOK' /\ QInv'
<1>e. /\ a \in Downloads /\ ~Launched(a) /\ Tops(a) # {} /\ requesting = NoAction
      /\ asked = {} /\ ~dialog /\ currentId' = a /\ queue' = Tops(a)
      /\ appData' = appData \union {a}
      /\ asked' = Tops(a) \cap Folders /\ totalSize' = Tops(a) \ Folders
      /\ pendingSizes' = Cardinality(asked')
      /\ \/ /\ createTransferMetaData(a)
            /\ \/ asked' # {} /\ dialog' = FALSE
               \/ asked' = {} /\ dialog' = TRUE
         \/ downloadAtOnce(a) /\ asked' = {} /\ dialog' = FALSE
  BY ProcessEffect
<1>n. \A b \in Downloads : ~Waits(b)
  BY <1>e DEF DownInv, QInv, WaitInv
<1>1. QueueTypeOK'
  <2>1. Tops(a) \subseteq Top /\ IsFiniteSet(asked')
    BY <1>e, FiniteParts, FS_Subset DEF Tops
  <2>2. pendingSizes' \in Int
    BY <2>1, <1>e, FS_CardinalityType
  <2> QED
    BY <2>1, <2>2, <1>e DEF QueueTypeOK
<1>2. CASE createTransferMetaData(a)
  <2>1. UNCHANGED <<initial, sdk, requesting>>
    BY <1>2 DEF createTransferMetaData
  <2>2. Waits(a)' /\ \A b \in Downloads \ {a} : ~Waits(b)'
    BY <2>1, <1>e, <1>n DEF Waits, Launched, Downloads
  <2>3. Waits(currentId)'
    BY <2>2, <1>e DEF Waits, Launched
  <2>4. asked' # {} => ~dialog' /\ asked' \subseteq Tops(a) /\ totalSize' = Tops(a) \ asked'
    BY <1>2, <1>e DEF createTransferMetaData, downloadAtOnce
  <2>5. asked' = {} => totalSize' = Tops(a) /\ (asked' # {} \/ dialog')
    <3>1. ~downloadAtOnce(a)
      BY <2>1, <1>e, BatchAssumption DEF downloadAtOnce, Downloads
    <3> QED
      BY <3>1, <1>e
  <2>6. dialog' => asked' = {}
    BY <1>e
  <2>7. AskedInv' /\ DialogInv'
    BY <1>e, <2>3, <2>4, <2>5, <2>6 DEF AskedInv, DialogInv
  <2>8. WaitInv'
    BY <1>e, <2>2, <2>5 DEF WaitInv
  <2>9. LoopInv'
    <3>1. requesting' \notin Downloads
      BY <2>1, <1>e, BatchAssumption DEF Downloads
    <3> QED
      BY <3>1, <2>1, <1>e DEF DownInv, QInv, LoopInv, Missing, Launched
  <2> QED
    BY <1>1, <2>7, <2>8, <2>9 DEF QInv
<1>3. CASE downloadAtOnce(a) /\ asked' = {} /\ dialog' = FALSE
  <2>1. /\ UNCHANGED sdk /\ initial' = [initial EXCEPT ![a] = Cardinality(Tops(a))]
        /\ requesting' = a
    BY <1>3 DEF downloadAtOnce, launch
  <2>2. LoopInv' /\ Launched(a)' /\ \A b \in Actions \ {a} : Launched(b)' <=> Launched(b)
    BY <2>1, <1>e, LaunchedQueue
  <2>3. \A b \in Downloads : ~Waits(b)'
    BY <2>2, <1>e, <1>n DEF Waits, Downloads
  <2> QED
    BY <1>1, <1>3, <1>e, <2>2, <2>3 DEF QInv, AskedInv, DialogInv, WaitInv
<1> QED
  BY <1>e, <1>2, <1>3

LEMMA AnswerKeeps ==
    ASSUME DownInv, NEW d \in Folders, NEW enough \in BOOLEAN, onRequestFinish(d, enough)
    PROVE  QueueTypeOK' /\ QInv'
<1>e. /\ requesting = NoAction /\ d \in asked /\ asked' = asked \ {d} /\ totalSize' = totalSize \union {d}
      /\ Waits(currentId) /\ UNCHANGED <<queue, currentId, appData, noUploadedStarted, mNoTransferStarted>>
      /\ queue = Tops(currentId) /\ d \in Tops(currentId)
      /\ totalSize' = Tops(currentId) \ asked'
      /\ pendingSizes' = Cardinality(asked')
      /\ \/ asked' # {} /\ UNCHANGED batchVars /\ dialog' = FALSE
         \/ asked' = {} /\ UNCHANGED batchVars /\ dialog' = TRUE
         \/ asked' = {} /\ launchDownload(currentId) /\ dialog' = FALSE
  BY AnswerEffect
<1>f. /\ currentId \in Downloads /\ Tops(currentId) # {} /\ ~Launched(currentId)
      /\ asked \subseteq Tops(currentId)
  BY <1>e, WaitFacts DEF DownInv, QInv, AskedInv, Waits
<1>1. QueueTypeOK'
  <2>1. asked' \subseteq Folders /\ IsFiniteSet(asked')
    BY <1>e, BatchAssumption, FS_Subset DEF DownInv, QueueTypeOK
  <2>2. pendingSizes' \in Int
    BY <2>1, <1>e, FS_CardinalityType
  <2>3. totalSize' \subseteq Top
    BY <1>e DEF Tops
  <2> QED
    BY <2>1, <2>2, <2>3, <1>e DEF DownInv, QueueTypeOK
<1>2. CASE UNCHANGED batchVars
  <2>1. UNCHANGED <<initial, sdk, requesting>>
    BY <1>2 DEF batchVars, metaVars, appVars
  <2>2. Waits(currentId)' /\ \A b \in Downloads : Waits(b)' <=> Waits(b)
    BY <2>1, <1>e DEF Waits, Launched
  <2>3. LoopInv'
    <3>1. requesting' \notin Downloads
      BY <2>1, <1>e, BatchAssumption DEF Downloads
    <3> QED
      BY <3>1, <2>1, <1>e DEF DownInv, QInv, LoopInv, Missing, Launched
  <2>4. asked' # {} <=> ~dialog'
    <3>1. ~launchDownload(currentId)
      BY <2>1, <1>e, <1>f, BatchAssumption DEF launchDownload, Downloads
    <3> QED
      BY <3>1, <1>e
  <2>5. AskedInv' /\ DialogInv'
    BY <1>e, <1>f, <2>2, <2>4 DEF AskedInv, DialogInv
  <2>6. WaitInv'
    BY <1>e, <2>2, <2>4 DEF DownInv, QInv, WaitInv
  <2> QED
    BY <1>1, <2>3, <2>5, <2>6 DEF QInv
<1>3. CASE asked' = {} /\ launchDownload(currentId) /\ dialog' = FALSE
  <2>1. /\ UNCHANGED sdk /\ initial' = [initial EXCEPT ![currentId] = Cardinality(Tops(currentId))]
        /\ requesting' = currentId
    BY <1>3 DEF launchDownload, launch
  <2>2. LoopInv' /\ \A b \in Actions \ {currentId} : Launched(b)' <=> Launched(b)
    BY <2>1, <1>e, <1>f, LaunchedQueue
  <2>3. \A b \in Downloads : ~Waits(b)'
    <3>1. \A b \in Downloads : Waits(b) => b = currentId
      BY DEF DownInv, QInv, WaitInv
    <3>2. initial'[currentId] # -1
      BY <2>1, <1>f, FiniteParts DEF DownInv, TypeOK, Downloads
    <3> QED
      BY <3>1, <3>2, <2>2, <1>e DEF Waits, Downloads, Launched
  <2> QED
    BY <1>1, <1>3, <1>e, <2>2, <2>3 DEF QInv, AskedInv, DialogInv, WaitInv
<1> QED
  BY <1>e, <1>2, <1>3

LEMMA DialogKeeps ==
    ASSUME DownInv, NEW enough \in BOOLEAN, dialogAccepted(enough) \/ dialogRejected
    PROVE  QueueTypeOK' /\ QInv'
<1>e. /\ requesting = NoAction /\ asked = {} /\ Waits(currentId)
      /\ totalSize = Tops(currentId) /\ queue = Tops(currentId)
      /\ UNCHANGED <<currentId, pendingSizes, totalSize, asked>>
      /\ \/ launchDownload(currentId) /\ dialog' = FALSE /\ UNCHANGED queue
         \/ UNCHANGED batchVars /\ dialog' = TRUE /\ UNCHANGED queue
         \/ forgetDownload(currentId) /\ dialog' = FALSE
  BY DialogEffect
<1>f. /\ currentId \in Downloads /\ Tops(currentId) # {} /\ ~Launched(currentId)
      /\ pendingSizes = Cardinality(asked)
  BY <1>e, WaitFacts DEF DownInv, QInv, AskedInv, Waits
<1>w. \A b \in Downloads : Waits(b) => b = currentId
  BY DEF DownInv, QInv, WaitInv
<1>1. QueueTypeOK'
  <2>1. queue' \subseteq Top /\ dialog' \in BOOLEAN
    BY DEF dialogAccepted, dialogRejected, tryDownload, DownInv, QueueTypeOK
  <2> QED
    BY <2>1, <1>e DEF DownInv, QueueTypeOK
<1>2. CASE launchDownload(currentId) /\ dialog' = FALSE /\ UNCHANGED queue
  <2>1. /\ UNCHANGED <<sdk, appData>> /\ requesting' = currentId
        /\ initial' = [initial EXCEPT ![currentId] = Cardinality(Tops(currentId))]
    BY <1>2 DEF launchDownload, launch
  <2>2. LoopInv' /\ \A b \in Actions \ {currentId} : Launched(b)' <=> Launched(b)
    BY <2>1, <1>2, <1>e, <1>f, LaunchedQueue
  <2>3. \A b \in Downloads : ~Waits(b)'
    <3>1. initial'[currentId] # -1
      BY <2>1, <1>f, FiniteParts DEF DownInv, TypeOK, Downloads
    <3> QED
      BY <3>1, <2>1, <2>2, <1>w DEF Waits, Downloads, Launched
  <2> QED
    BY <1>1, <1>2, <1>e, <1>f, <2>2, <2>3 DEF QInv, AskedInv, DialogInv, WaitInv
<1>3. CASE UNCHANGED batchVars /\ dialog' = TRUE /\ UNCHANGED queue
  <2>1. UNCHANGED <<initial, sdk, requesting, appData>>
    BY <1>3 DEF batchVars, metaVars, appVars
  <2>2. Waits(currentId)' /\ \A b \in Downloads : Waits(b)' <=> Waits(b)
    BY <2>1, <1>e DEF Waits, Launched
  <2>3. LoopInv'
    BY <2>1, <1>e, <1>3 DEF DownInv, QInv, LoopInv, Missing, Launched
  <2> QED
    BY <1>1, <1>3, <1>e, <1>f, <1>w, <2>2, <2>3 DEF QInv, AskedInv, DialogInv, WaitInv
<1>4. CASE forgetDownload(currentId) /\ dialog' = FALSE
  <2>1. UNCHANGED <<initial, sdk, requesting>> /\ appData' = appData \ {currentId}
    BY <1>4 DEF forgetDownload, appVars
  <2>2. \A b \in Downloads : ~Waits(b)'
    BY <2>1, <1>w DEF Waits, Launched
  <2>3. LoopInv'
    <3>1. requesting' \notin Downloads
      BY <2>1, <1>e, BatchAssumption DEF Downloads
    <3> QED
      BY <3>1, <2>1, <1>e DEF DownInv, QInv, LoopInv, Missing, Launched
  <2> QED
    BY <1>1, <1>4, <1>e, <1>f, <2>2, <2>3 DEF QInv, AskedInv, DialogInv, WaitInv
<1> QED
  BY <1>e, <1>2, <1>3, <1>4

LEMMA DequeueKeeps ==
    ASSUME DownInv, NEW t \in Top, dequeue(t)
    PROVE  QueueTypeOK' /\ QInv'
<1>e. /\ requesting \in Actions \ Uploads /\ t \in Tops(requesting) /\ sdk[t] = "none"
      /\ sdk' = [sdk EXCEPT ![t] = "requested"]
      /\ requesting' = IF \A s \in Tops(Owner(t)) \ {t} : sdk[s] # "none" THEN NoAction ELSE requesting
      /\ UNCHANGED <<initial, appData>>
      /\ queue' = queue \ {t}
      /\ UNCHANGED <<currentId, pendingSizes, totalSize, asked, dialog>>
  BY DEF dequeue, download, Requested, metaVars
<1>t. /\ Owner(t) = requesting /\ requesting \in Downloads /\ NoAction \notin Downloads
      /\ \A a \in Actions : \A x \in Tops(a) : x \in Transfers /\ Owner(x) = a
  BY <1>e, ConstantTypes, BatchAssumption DEF Tops, Downloads, Transfers
<1>f. currentId = requesting /\ queue = Missing(requesting) /\ Launched(requesting)
  <2>1. requesting # NoAction
    BY <1>t
  <2> QED
    BY <2>1, <1>t DEF DownInv, QInv, LoopInv, IInv, PhaseInv
<1>w. (\A b \in Downloads : Waits(b)' <=> Waits(b)) /\ ~Waits(currentId) /\ asked = {} /\ ~dialog
  BY <1>e, <1>f DEF Waits, Launched, DownInv, QInv, AskedInv, DialogInv
<1>m. /\ \A b \in Downloads \ {requesting} : Missing(b)' = Missing(b)
      /\ {x \in Tops(requesting) : sdk'[x] = "none"} = Missing(requesting) \ {t}
  <2>1. \A x \in Transfers : sdk'[x] = IF x = t THEN "requested" ELSE sdk[x]
    BY <1>e DEF DownInv, TypeOK
  <2>2. ASSUME NEW b \in Downloads, b # requesting PROVE Missing(b)' = Missing(b)
    BY <2>1, <2>2, <1>t DEF Missing, Downloads
  <2>3. {x \in Tops(requesting) : sdk'[x] = "none"} = Missing(requesting) \ {t}
    BY <2>1, <1>t DEF Missing, Downloads
  <2> QED
    BY <2>2, <2>3
<1>1. QueueTypeOK'
  BY <1>e DEF DownInv, QueueTypeOK
<1>2. AskedInv' /\ DialogInv' /\ WaitInv'
  BY <1>e, <1>w DEF DownInv, QInv, AskedInv, DialogInv, WaitInv
<1>3. LoopInv'
  <2>1. CASE requesting' = requesting
    <3>1. queue' = Missing(requesting)'
      BY <2>1, <1>e, <1>f, <1>m DEF Missing
    <3>2. \A b \in Downloads : Launched(b)' /\ b # requesting => Missing(b)' = {}
      BY <1>e, <1>m DEF DownInv, QInv, LoopInv, Launched
    <3> QED
      BY <2>1, <3>1, <3>2, <1>e, <1>f DEF LoopInv
  <2>2. CASE requesting' = NoAction /\ \A s \in Tops(requesting) \ {t} : sdk[s] # "none"
    <3>1. {x \in Tops(requesting) : sdk'[x] = "none"} = {}
      BY <2>2, <1>m DEF Missing
    <3>2. \A b \in Downloads : Launched(b)' => {x \in Tops(b) : sdk'[x] = "none"} = {}
      BY <3>1, <1>e, <1>m DEF DownInv, QInv, LoopInv, Launched, Missing
    <3> QED
      BY <2>2, <3>2, <1>t DEF LoopInv, Missing
  <2> QED
    BY <2>1, <2>2, <1>e, <1>t
<1> QED
  BY <1>1, <1>2, <1>3 DEF QInv

-----------------------------------------------------------------------------
(* Theorems                                                                   *)

LEMMA DownStep ==
    ASSUME Overlap = FALSE, DownInv, [Next]_vars
    PROVE  DownInv'
<1>1. TypeOK' /\ IInv'
  BY BatchStep, TypeStep, StepInv DEF DownInv
<1>2. QueueTypeOK' /\ QInv'
  <2>1. CASE QueueNext
    BY <2>1, ProcessKeeps, AnswerKeeps, DialogKeeps, DequeueKeeps DEF QueueNext
  <2>2. CASE OtherNext
    BY <2>2, OtherKeeps
  <2>3. CASE UNCHANGED vars
    BY <2>3 DEF vars, queueVars, batchVars, metaVars, appVars, DownInv, QueueTypeOK, QInv,
                AskedInv, DialogInv, WaitInv, LoopInv, Waits, Launched, Missing
  <2> QED
    BY <2>1, <2>2, <2>3 DEF Next
<1> QED
  BY <1>1, <1>2 DEF DownInv

THEOREM DownloadInvariant ==
    ASSUME Overlap = FALSE
    PROVE  Spec => []DownInv
<1>1. Init => DownInv
  BY TypeInit, InitInv, QueueTypeInit DEF Init, DownInv
<1>2. DownInv /\ [Next]_vars => DownInv'
  BY DownStep
<1> QED
  BY <1>1, <1>2, PTL DEF Spec

-----------------------------------------------------------------------------
(* The types, which do not need the assumption.                               *)

LEMMA NothingTypes ==
    ASSUME TypeOK, nothingLaunched,
           appData' \subseteq Actions, noUploadedStarted' \in BOOLEAN, mNoTransferStarted' \in BOOLEAN
    PROVE  TypeOK'
BY DEF nothingLaunched, TypeOK, ScanTypeOK, scanVars

LEMMA TryTypes ==
    ASSUME TypeOK, NEW enough, NEW open \in BOOLEAN, NEW content \in SUBSET Top,
           tryDownload(enough, content, open),
           appData' \subseteq Actions, noUploadedStarted' \in BOOLEAN, mNoTransferStarted' \in BOOLEAN
    PROVE  TypeOK' /\ dialog' \in BOOLEAN
<1>1. CASE nothingLaunched
  BY <1>1, NothingTypes DEF tryDownload
<1>2. CASE currentId' \in appData' /\ launchQueue(content) /\ dialog' = open
  <2>1. Cardinality(content) \in Nat /\ currentId' \in Actions
    <3>1. IsFiniteSet(Top)
      BY BatchAssumption, FS_Union DEF Top
    <3> QED
      BY <1>2, <3>1, FS_Subset, FS_CardinalityType
  <2>2. initial' \in [Actions -> Int] /\ requesting' \in Actions \union {NoAction} /\ batch' \in Actions
    BY <1>2, <2>1 DEF launchQueue, launch, TypeOK
  <2>3. replaced' \in BOOLEAN
    BY <1>2 DEF launchQueue, launch, TypeOK
  <2>4. UNCHANGED <<sdk, scanned, tokens, started, finished, total, processCancelled, mFiles,
                    emptyFolders, hasChanged, batchCancelled, queued, notified, scanVars>>
    BY <1>2 DEF launchQueue, launch
  <2> QED
    BY <1>2, <2>2, <2>3, <2>4 DEF TypeOK, ScanTypeOK, scanVars
<1> QED
  BY <1>1, <1>2 DEF tryDownload

LEMMA QueueTypes ==
    ASSUME TypeOK, QueueTypeOK, QueueNext
    PROVE  TypeOK' /\ QueueTypeOK'
<1>1. ASSUME NEW a \in Actions, NEW enough \in BOOLEAN, processDownloadQueue(a, enough)
      PROVE  TypeOK' /\ QueueTypeOK'
  <2>1. Tops(a) \subseteq Top /\ pendingSizes' \in Int
    <3>1. IsFiniteSet(Tops(a) \cap Folders)
      BY FiniteParts, FS_Subset
    <3> QED
      BY <1>1, <3>1, FS_CardinalityType DEF processDownloadQueue, Tops
  <2>2. appData' \subseteq Actions /\ noUploadedStarted' \in BOOLEAN /\ mNoTransferStarted' \in BOOLEAN
    BY <1>1 DEF processDownloadQueue, TypeOK
  <2>3. \/ tryDownload(enough, Tops(a), dialog)
        \/ nothingLaunched /\ UNCHANGED dialog
    BY <1>1 DEF processDownloadQueue
  <2>4. TypeOK' /\ dialog' \in BOOLEAN
    <3>1. CASE tryDownload(enough, Tops(a), dialog)
      BY <2>1, <2>2, <3>1, TryTypes DEF QueueTypeOK
    <3>2. CASE nothingLaunched /\ UNCHANGED dialog
      BY <2>2, <3>2, NothingTypes DEF QueueTypeOK
    <3> QED
      BY <2>3, <3>1, <3>2
  <2> QED
    BY <1>1, <2>1, <2>4 DEF processDownloadQueue, QueueTypeOK
<1>2. ASSUME NEW d \in Folders, NEW enough \in BOOLEAN, onRequestFinish(d, enough)
      PROVE  TypeOK' /\ QueueTypeOK'
  <2>1. /\ UNCHANGED <<appData, noUploadedStarted, mNoTransferStarted, queue, currentId>> /\ asked' = asked \ {d}
        /\ totalSize' = totalSize \union {d} /\ pendingSizes' = pendingSizes - 1
    BY <1>2 DEF onRequestFinish, Summed
  <2>2. TypeOK' /\ dialog' \in BOOLEAN
    <3>1. CASE tryDownload(enough, queue, dialog)
      BY <2>1, <3>1, TryTypes DEF QueueTypeOK, TypeOK
    <3>2. CASE nothingLaunched /\ UNCHANGED dialog
      <4>1. /\ appData' \subseteq Actions
            /\ noUploadedStarted' \in BOOLEAN /\ mNoTransferStarted' \in BOOLEAN
        BY <2>1 DEF TypeOK
      <4> QED
        BY <3>2, <4>1, NothingTypes DEF QueueTypeOK
    <3> QED
      BY <1>2, <3>1, <3>2 DEF onRequestFinish
  <2>3. d \in Top
    BY DEF Top
  <2> QED
    BY <2>1, <2>2, <2>3 DEF QueueTypeOK
<1>3. ASSUME NEW enough \in BOOLEAN, dialogAccepted(enough)
      PROVE  TypeOK' /\ QueueTypeOK'
  <2>1. /\ UNCHANGED <<appData, noUploadedStarted, mNoTransferStarted, queue, currentId, pendingSizes, totalSize, asked>>
        /\ tryDownload(enough, queue, FALSE)
    BY <1>3 DEF dialogAccepted
  <2>2. TypeOK' /\ dialog' \in BOOLEAN
    BY <2>1, TryTypes DEF QueueTypeOK, TypeOK
  <2> QED
    BY <2>1, <2>2 DEF QueueTypeOK
<1>4. CASE dialogRejected
  <2>1. /\ appData' = appData \ {currentId} /\ nothingLaunched /\ dialog' = FALSE /\ queue' = {}
        /\ UNCHANGED <<noUploadedStarted, mNoTransferStarted, currentId, pendingSizes, totalSize, asked>>
    BY <1>4 DEF dialogRejected
  <2>2. /\ appData' \subseteq Actions
        /\ noUploadedStarted' \in BOOLEAN /\ mNoTransferStarted' \in BOOLEAN
    BY <2>1 DEF TypeOK
  <2>3. TypeOK'
    BY <2>1, <2>2, NothingTypes
  <2> QED
    BY <2>1, <2>3 DEF QueueTypeOK
<1>5. ASSUME NEW t \in Top, dequeue(t)
      PROVE  TypeOK' /\ QueueTypeOK'
  BY <1>5, TypeRequest DEF dequeue, QueueTypeOK
<1> QED
  BY <1>1, <1>2, <1>3, <1>4, <1>5 DEF QueueNext

(* Every variable of the queue and of the batches keeps its type, also where  *)
(* downloads overlap: what an answer that is stored for another queue spoils  *)
(* are the values.                                                            *)
THEOREM DownloadTypes == Spec => []AllTypesOK
<1>1. Init => AllTypesOK
  BY TypeInit, QueueTypeInit DEF Init, AllTypesOK
<1>2. AllTypesOK /\ [Next]_vars => AllTypesOK'
  <2> SUFFICES ASSUME AllTypesOK, [Next]_vars PROVE AllTypesOK'
    OBVIOUS
  <2>1. CASE QueueNext
    BY <2>1, QueueTypes DEF AllTypesOK
  <2>2. CASE OtherNext
    <3>1. BatchNext
      BY <2>2 DEF OtherNext, BatchNext, GuiNext
    <3> QED
      BY <2>2, <3>1, TypeStep DEF OtherNext, queueVars, AllTypesOK, QueueTypeOK
  <2>3. CASE UNCHANGED vars
    <3>1. UNCHANGED batchVars /\ UNCHANGED queueVars
      BY <2>3 DEF vars
    <3> QED
      BY <3>1, TypeStep DEF queueVars, AllTypesOK, QueueTypeOK
  <2> QED
    BY <2>1, <2>2, <2>3 DEF Next
<1> QED
  BY <1>1, <1>2, PTL DEF Spec


(* The queue of downloads implements the launches of TransferBatch: whole,    *)
(* once, and under the id that was given. What is proved of BatchSpec holds   *)
(* of the downloads, too.                                                     *)
THEOREM Refinement ==
    ASSUME Overlap = FALSE
    PROVE  Spec => ImplementsBatch
<1>1. Init => BatchInit
  BY DEF Init
<1>2. DownInv /\ [Next]_vars => [BatchNext]_batchVars
  BY BatchStep
<1> QED
  BY <1>1, <1>2, DownloadInvariant, PTL DEF Spec, ImplementsBatch, BatchSpec

(* So it is for the program as a whole, queue, batches, metadata and windows: *)
(* scans are announced when they are complete, ends once, the windows are     *)
(* blocked for a batch, released by nobody else, and not left blocked for     *)
(* nothing.                                                                   *)
THEOREM DownloadsInBatches ==
    ASSUME Overlap = FALSE
    PROVE  Spec => /\ []MetadataOutlivesTransfers
                   /\ []ScanIsComplete
                   /\ []EndIsReportedOnce
                   /\ []BlockedForABatch
                   /\ OthersDoNotUnblock
                   /\ []BatchIsNotStuck
<1>1. Spec => BatchSpec
  BY Refinement DEF ImplementsBatch
<1> QED
  BY <1>1, NoneOutlivesMetadata, ScansAreComplete, EndsAreReportedOnce, BlockedForBatches,
     NobodyElseUnblocks, BatchesAreNotStuck, PTL

(* A download whose nodes were not all asked for waits for sizes, for the     *)
(* user or for its turn in the loop, and the queue holds what is missing.     *)
THEOREM NoDownloadIsForgotten ==
    ASSUME Overlap = FALSE
    PROVE  Spec => []WaitingIsWaitedFor
<1>1. DownInv => WaitingIsWaitedFor
  <2> SUFFICES ASSUME DownInv, NEW a \in appData \ Uploads, Missing(a) # {}
               PROVE  /\ currentId = a /\ queue = Missing(a)
                      /\ asked # {} \/ dialog \/ requesting = a
    BY DEF WaitingIsWaitedFor, Missing
  <2>1. a \in Downloads
    BY DEF DownInv, TypeOK, Downloads
  <2>2. CASE Launched(a)
    <3>1. requesting = a
      BY <2>1, <2>2 DEF DownInv, QInv, LoopInv
    <3> QED
      BY <2>1, <3>1 DEF DownInv, QInv, LoopInv
  <2>3. CASE ~Launched(a)
    <3>1. Waits(a) /\ currentId = a /\ (asked # {} \/ dialog)
      BY <2>1, <2>3 DEF DownInv, QInv, WaitInv, Waits
    <3>2. queue = Tops(a) /\ Missing(a) = Tops(a)
      BY <3>1, WaitFacts DEF DownInv, QInv, AskedInv, DialogInv
    <3> QED
      BY <3>1, <3>2
  <2> QED
    BY <2>2, <2>3
<1> QED
  BY <1>1, DownloadInvariant, PTL

(* A download is launched with the sizes of its own nodes, all of them.       *)
THEOREM SizesBelong ==
    ASSUME Overlap = FALSE
    PROVE  Spec => SizesAreItsOwn
<1> DEFINE Own == \A a \in Downloads :
                    initial[a] = -1 /\ initial'[a] # -1 => asked' = {} /\ totalSize' = Tops(a)
<1>1. DownInv /\ [Next]_vars => [Own]_vars
  <2> SUFFICES ASSUME DownInv, Next, NEW a \in Downloads, initial[a] = -1, initial'[a] # -1
               PROVE  asked' = {} /\ totalSize' = Tops(a)
    OBVIOUS
  <2>1. ASSUME NEW b \in Actions, NEW enough \in BOOLEAN, processDownloadQueue(b, enough)
        PROVE  asked' = {} /\ totalSize' = Tops(a)
    <3>1. downloadAtOnce(b)
      BY <2>1, ProcessEffect DEF createTransferMetaData
    <3>2. a = b
      BY <3>1 DEF downloadAtOnce, launch, DownInv, TypeOK, Downloads
    <3>3. asked' = {} /\ asked' = Tops(b) \cap Folders /\ totalSize' = Tops(b) \ Folders
      BY <2>1, <3>1, ProcessEffect DEF createTransferMetaData, downloadAtOnce, launch
    <3> QED
      BY <3>2, <3>3
  <2>2. ASSUME NEW d \in Folders, NEW enough \in BOOLEAN, onRequestFinish(d, enough)
        PROVE  asked' = {} /\ totalSize' = Tops(a)
    <3>1. /\ asked' = {} /\ launchDownload(currentId) /\ totalSize' = Tops(currentId) \ asked'
      BY <2>2, AnswerEffect DEF batchVars, metaVars
    <3>2. a = currentId
      BY <3>1 DEF launchDownload, launch, DownInv, TypeOK, Downloads
    <3> QED
      BY <3>1, <3>2
  <2>3. ASSUME NEW enough \in BOOLEAN, dialogAccepted(enough) \/ dialogRejected
        PROVE  asked' = {} /\ totalSize' = Tops(a)
    <3>1. /\ asked' = {} /\ launchDownload(currentId) /\ totalSize' = Tops(currentId)
      BY <2>3, DialogEffect DEF batchVars, metaVars, forgetDownload
    <3>2. a = currentId
      BY <3>1 DEF launchDownload, launch, DownInv, TypeOK, Downloads
    <3> QED
      BY <3>1, <3>2
  <2>4. ASSUME NEW t \in Top, dequeue(t) PROVE FALSE
    BY <2>4 DEF dequeue, download, metaVars
  <2>5. ASSUME OtherNext PROVE FALSE
    BY <2>5, OtherEffect
  <2> QED
    BY <2>1, <2>2, <2>3, <2>4, <2>5 DEF Next, QueueNext
<1> QED
  BY <1>1, DownloadInvariant, PTL DEF Spec, SizesAreItsOwn, Downloads
=============================================================================
